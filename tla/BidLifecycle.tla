---------------------------- MODULE BidLifecycle ----------------------------
(***************************************************************************)
(* The writers of a bid's lifecycle: imports of crawls, each in one        *)
(* transaction (crawler/bid-intake.ts and mysql-json-importer.ts), the     *)
(* sweeps that close expired bids page by page (bids/lifecycle-sweep.ts)   *)
(* and administrators' corrections (admin/bid-qa-repository.ts).           *)
(*                                                                         *)
(* The modelled runtime is the MySQL one: transactions interleave, a       *)
(* locking read waits for the row's holder or skips the row, and what a    *)
(* transaction has written shows when it commits.                          *)
(***************************************************************************)
EXTENDS BidRules, FiniteSets

CONSTANTS
    Bid,          \* bids, numbered in the order of their ids
    Source,
    Importer,     \* the crawl attempts
    Sweeper,      \* the workers, each with its sweep
    SourceOf,     \* the source of each bid and of each importer
    NoOne,        \* the holder of a free row or lease
    PageSize,     \* open bids a sweep reads at once
    MaxTime,      \* bound of the clock
    MaxImports,   \* bound: imports begun
    MaxFailures   \* bound: sweeps that fail

Tx == Importer \union Sweeper

ASSUME LifecycleAssumption ==
    /\ Bid \subseteq Nat \ {0} /\ IsFiniteSet(Bid)
    /\ Importer \intersect Sweeper = {} /\ NoOne \notin Tx
    /\ SourceOf \in [Bid \union Importer -> Source]
    /\ PageSize \in Nat \ {0}
    /\ MaxTime \in Nat /\ MaxImports \in Nat /\ MaxFailures \in Nat

VARIABLES
    bids,     \* the committed rows
    clock,
    draft,    \* the rows as their holders have written them
    holder,   \* the transaction that has a row locked
    lease,    \* the importer that holds the lease of a source
    logged,   \* the end of the crawl that was stored last, for each source
    stage,    \* where each import and each sweep is
    run,      \* the crawl an import stores, and what it has done with it
    sweep,    \* the local variables of a sweep
    imports,
    failures

vars == <<bids, clock, draft, holder, lease, logged, stage, run, sweep, imports, failures>>

(* A crawl of a list, or a backfill of the details of bids read before it; *)
(* the bids its rows were merged into, and those whose rows were           *)
(* quarantined.                                                            *)
Run == [backfill : BOOLEAN, read : [Bid -> Record],
        success : BOOLEAN, openList : BOOLEAN, complete : BOOLEAN, at : 0..MaxTime,
        seen : SUBSET Bid, quarantined : SUBSET Bid]
NoRun == [backfill |-> FALSE, read |-> [b \in Bid |-> Absent],
          success |-> FALSE, openList |-> FALSE, complete |-> FALSE, at |-> 0,
          seen |-> {}, quarantined |-> {}]
Listed(i) == run[i].seen \union run[i].quarantined

(* The instant a sweep judges by, its cursor, the expired bids of the page *)
(* at hand and whether that page was full.                                 *)
Local == [now : 0..MaxTime, after : Nat, expired : SUBSET Bid, full : BOOLEAN]
NoSweep == [now |-> 0, after |-> 0, expired |-> {}, full |-> FALSE]

Stage == {"idle", "fetching", "importing", "delisted", "reading", "closing", "locked"}

TypeOK ==
    /\ bids \in [Bid -> Record]
    /\ clock \in 0..MaxTime
    /\ draft \in [Bid -> Record]
    /\ holder \in [Bid -> Tx \union {NoOne}]
    /\ lease \in [Source -> Importer \union {NoOne}]
    /\ logged \in [Source -> 0..MaxTime]
    /\ stage \in [Tx -> Stage]
    /\ run \in [Importer -> Run]
    /\ sweep \in [Sweeper -> Local]
    /\ imports \in 0..MaxImports
    /\ failures \in 0..MaxFailures

Init ==
    /\ bids = [b \in Bid |-> Absent]
    /\ clock = 0
    /\ draft = bids
    /\ holder = [b \in Bid |-> NoOne]
    /\ lease = [s \in Source |-> NoOne]
    /\ logged = [s \in Source |-> 0]
    /\ stage = [t \in Tx |-> "idle"]
    /\ run = [i \in Importer |-> NoRun]
    /\ sweep = [w \in Sweeper |-> NoSweep]
    /\ imports = 0
    /\ failures = 0

Goto(t, next) == stage' = [stage EXCEPT ![t] = next]

(* A row is locked by who holds it, or by a transaction that finds it free.*)
MayLock(t, b) == holder[b] \in {NoOne, t}
Release(t) == holder' = [b \in Bid |-> IF holder[b] = t THEN NoOne ELSE holder[b]]

Publish(t) ==
    /\ bids' = [b \in Bid |-> IF holder[b] = t THEN draft[b] ELSE bids[b]]
    /\ Release(t)
    /\ UNCHANGED draft

Discard(t) ==
    /\ draft' = [b \in Bid |-> IF holder[b] = t THEN bids[b] ELSE draft[b]]
    /\ Release(t)
    /\ UNCHANGED bids

-----------------------------------------------------------------------------
(* Imports.                                                                *)

(* A crawl of a list has ended under the source's lease, which is free     *)
(* again or expired for whoever held it before. The list of a failed crawl *)
(* counts for nothing.                                                     *)
Begin(i) ==
    /\ stage[i] = "idle" /\ imports < MaxImports
    /\ \E success, openList, complete \in BOOLEAN :
        /\ openList \/ complete => success
        /\ run' = [run EXCEPT ![i] =
                       [NoRun EXCEPT !.success = success, !.openList = openList,
                                     !.complete = complete, !.at = clock]]
    /\ lease' = [lease EXCEPT ![SourceOf[i]] = i]
    /\ imports' = imports + 1
    /\ Goto(i, "importing")
    /\ UNCHANGED <<bids, clock, draft, holder, logged, sweep, failures>>

OwnBids_All(i) == Bid
OwnBids(i) == {b \in Bid : SourceOf[b] = SourceOf[i]}

(* A backfill reads bids of the source under its lease, without locks, and *)
(* fetches their pages. What it stores in the end are the bids as read,    *)
(* with the details found, and no proof of what the list lacks.            *)
BeginBackfill(i) ==
    /\ stage[i] = "idle" /\ imports < MaxImports
    /\ run' = [run EXCEPT ![i] =
                   [NoRun EXCEPT !.backfill = TRUE,
                                 !.read = [b \in Bid |-> IF b \in OwnBids(i) THEN bids[b] ELSE Absent]]]
    /\ lease' = [lease EXCEPT ![SourceOf[i]] = i]
    /\ imports' = imports + 1
    /\ Goto(i, "fetching")
    /\ UNCHANGED <<bids, clock, draft, holder, logged, sweep, failures>>

EndBackfill_Unfenced(i) ==
    /\ stage[i] = "fetching"
    /\ \E success \in BOOLEAN :
        run' = [run EXCEPT ![i] = [run[i] EXCEPT !.success = success, !.at = clock,
                                                !.openList = success, !.complete = success]]
    /\ Goto(i, "importing")
    /\ UNCHANGED <<bids, clock, draft, holder, lease, logged, sweep, imports, failures>>
EndBackfill(i) ==
    /\ stage[i] = "fetching"
    /\ \E success \in BOOLEAN :
        run' = [run EXCEPT ![i] = [run[i] EXCEPT !.success = success, !.at = clock]]
    /\ Goto(i, "importing")
    /\ UNCHANGED <<bids, clock, draft, holder, lease, logged, sweep, imports, failures>>

(* An open list lists open bids, and a list says nothing of why one was    *)
(* closed.                                                                 *)
RowsOf(i, b) ==
    IF run[i].backfill THEN {run[i].read[b]} \intersect Row
    ELSE {row \in Row : row.reason = "none" /\ (run[i].openList => row.status = "open")}

(* A row of the crawl is merged into the bid that it is found to be, by id *)
(* or else by dedupe key, which stays locked from that read on.            *)
Accept(i, b) ==
    /\ stage[i] = "importing" /\ run[i].success
    /\ SourceOf[b] = SourceOf[i] /\ b \notin Listed(i)
    /\ MayLock(i, b)
    /\ holder' = [holder EXCEPT ![b] = i]
    /\ \E row \in RowsOf(i, b) : draft' = [draft EXCEPT ![b] = Merge(row, draft[b], run[i].at)]
    /\ run' = [run EXCEPT ![i].seen = @ \union {b}]
    /\ UNCHANGED <<bids, clock, lease, logged, stage, sweep, imports, failures>>

(* A row that lacks an identity, or has one that conflicts with the bid it *)
(* is found to be or with the source, is quarantined, in the latter cases  *)
(* with that bid locked.                                                   *)
Quarantine(i, b) ==
    /\ stage[i] = "importing" /\ run[i].success /\ b \notin Listed(i)
    /\ \/ MayLock(i, b) /\ holder' = [holder EXCEPT ![b] = i]
       \/ UNCHANGED holder
    /\ run' = [run EXCEPT ![i].quarantined = @ \union {b}]
    /\ UNCHANGED <<bids, clock, draft, lease, logged, stage, sweep, imports, failures>>

(* Only a complete walk of the open list, with no row quarantined, proves  *)
(* that a bid is listed no longer.                                         *)
DelistingApplies_Quarantined(i) == run[i].success /\ run[i].openList /\ run[i].complete
DelistingApplies(i) ==
    run[i].success /\ run[i].openList /\ run[i].complete /\ run[i].quarantined = {}

Delist(i) ==
    /\ stage[i] = "importing" /\ DelistingApplies(i)
    /\ \A b \in OwnBids(i) : MayLock(i, b)
    /\ holder' = [b \in Bid |-> IF b \in OwnBids(i) THEN i ELSE holder[b]]
    /\ draft' = [b \in Bid |->
                    IF b \in OwnBids(i) \ run[i].seen /\ draft[b].status = "open"
                    THEN Delisted(draft[b]) ELSE draft[b]]
    /\ Goto(i, "delisted")
    /\ UNCHANGED <<bids, clock, lease, logged, run, sweep, imports, failures>>

(* The lease is checked once more, with its row locked until the commit.   *)
Commit_Unfenced(i) ==
    /\ \/ stage[i] = "delisted"
       \/ stage[i] = "importing" /\ ~DelistingApplies(i)
    /\ Publish(i)
    /\ logged' = [logged EXCEPT ![SourceOf[i]] = run[i].at]
    /\ run' = [run EXCEPT ![i] = NoRun]
    /\ Goto(i, "idle")
    /\ UNCHANGED <<clock, lease, sweep, imports, failures>>
Commit(i) ==
    /\ \/ stage[i] = "delisted"
       \/ stage[i] = "importing" /\ ~DelistingApplies(i)
    /\ lease[SourceOf[i]] = i
    /\ Publish(i)
    /\ logged' = [logged EXCEPT ![SourceOf[i]] = run[i].at]
    /\ run' = [run EXCEPT ![i] = NoRun]
    /\ Goto(i, "idle")
    /\ UNCHANGED <<clock, lease, sweep, imports, failures>>

(* The lease is lost, a statement fails, waits too long or is the victim   *)
(* of a deadlock, or the process dies.                                     *)
Rollback(i) ==
    /\ stage[i] \in {"fetching", "importing", "delisted"}
    /\ Discard(i)
    /\ run' = [run EXCEPT ![i] = NoRun]
    /\ Goto(i, "idle")
    /\ UNCHANGED <<clock, lease, logged, sweep, imports, failures>>

-----------------------------------------------------------------------------
(* Sweeps.                                                                 *)

StartSweep(w) ==
    /\ stage[w] = "idle"
    /\ sweep' = [sweep EXCEPT ![w] = [now |-> clock, after |-> 0, expired |-> {}, full |-> FALSE]]
    /\ Goto(w, "reading")
    /\ UNCHANGED <<bids, clock, draft, holder, lease, logged, run, imports, failures>>

FirstOf(S) == {b \in S : Cardinality({c \in S : c < b}) < PageSize}

(* A page that is not full is the last one; the sweep's variables go.      *)
NextPage(w, full) == Goto(w, IF full THEN "reading" ELSE "idle")

ReadPage_SameCursor(w) ==
    /\ stage[w] = "reading"
    /\ LET page == FirstOf({b \in Bid : b > sweep[w].after /\ bids[b].status = "open"})
           expired == {b \in page : Passed(bids[b].deadline, sweep[w].now)}
           full == Cardinality(page) = PageSize
       IN  /\ sweep' = [sweep EXCEPT ![w] =
                    IF expired = {} /\ ~full THEN NoSweep
                    ELSE [now |-> sweep[w].now, after |-> sweep[w].after,
                          expired |-> expired, full |-> full]]
           /\ IF expired = {} THEN NextPage(w, full) ELSE Goto(w, "closing")
    /\ UNCHANGED <<bids, clock, draft, holder, lease, logged, run, imports, failures>>
ReadPage(w) ==
    /\ stage[w] = "reading"
    /\ LET page == FirstOf({b \in Bid : b > sweep[w].after /\ bids[b].status = "open"})
           expired == {b \in page : Passed(bids[b].deadline, sweep[w].now)}
           full == Cardinality(page) = PageSize
       IN  /\ \E last \in IF page = {} THEN {sweep[w].after} ELSE page :
                /\ \A b \in page : b <= last
                /\ sweep' = [sweep EXCEPT ![w] =
                        IF expired = {} /\ ~full THEN NoSweep
                        ELSE [now |-> sweep[w].now, after |-> last,
                              expired |-> expired, full |-> full]]
           /\ IF expired = {} THEN NextPage(w, full) ELSE Goto(w, "closing")
    /\ UNCHANGED <<bids, clock, draft, holder, lease, logged, run, imports, failures>>

(* The expired bids of the page are read again: those that another         *)
(* transaction holds are skipped, the others locked and judged once more.  *)
StillDue_OpenOnly(w, b) == draft[b].status = "open"
StillDue_AnyStatus(w, b) == Passed(draft[b].deadline, sweep[w].now)
StillDue(w, b) == draft[b].status = "open" /\ Passed(draft[b].deadline, sweep[w].now)

LockPage(w) ==
    /\ stage[w] = "closing"
    /\ LET free == {b \in sweep[w].expired : holder[b] = NoOne} IN
        /\ holder' = [b \in Bid |-> IF b \in free THEN w ELSE holder[b]]
        /\ draft' = [b \in Bid |->
                        IF b \in free /\ StillDue(w, b) THEN ClosedByDeadline(draft[b])
                        ELSE draft[b]]
    /\ Goto(w, "locked")
    /\ UNCHANGED <<bids, clock, lease, logged, run, sweep, imports, failures>>

CommitPage(w) ==
    /\ stage[w] = "locked"
    /\ Publish(w)
    /\ NextPage(w, sweep[w].full)
    /\ sweep' = [sweep EXCEPT ![w] = IF @.full THEN @ ELSE NoSweep]
    /\ UNCHANGED <<clock, lease, logged, run, imports, failures>>

(* The worker logs the error of a sweep, or dies: the page is rolled back  *)
(* and a later tick sweeps again.                                          *)
FailSweep(w) ==
    /\ stage[w] # "idle" /\ failures < MaxFailures
    /\ failures' = failures + 1
    /\ Discard(w)
    /\ Goto(w, "idle")
    /\ sweep' = [sweep EXCEPT ![w] = NoSweep]
    /\ UNCHANGED <<clock, lease, logged, run, imports>>

-----------------------------------------------------------------------------
(* Corrections and time.                                                   *)

(* One statement, which waits for the row to be free.                      *)
Correct(b) ==
    /\ bids[b].status # "absent" /\ holder[b] = NoOne
    /\ \E deadline \in Deadline \union {NoDeadline} :
        /\ bids' = [bids EXCEPT ![b].deadline = deadline]
        /\ draft' = [draft EXCEPT ![b].deadline = deadline]
    /\ UNCHANGED <<clock, holder, lease, logged, stage, run, sweep, imports, failures>>

Tick ==
    /\ clock < MaxTime
    /\ clock' = clock + 1
    /\ UNCHANGED <<bids, draft, holder, lease, logged, stage, run, sweep, imports, failures>>

-----------------------------------------------------------------------------
Start(i) == Begin(i) \/ BeginBackfill(i)
Intake(i) == \E b \in Bid : Accept(i, b) \/ Quarantine(i, b)
Finish(i) == Commit(i) \/ Rollback(i)
SweepStep(w) == StartSweep(w) \/ ReadPage(w) \/ LockPage(w) \/ CommitPage(w)

Next ==
    \/ \E i \in Importer : Start(i) \/ EndBackfill(i) \/ Intake(i) \/ Delist(i) \/ Finish(i)
    \/ \E w \in Sweeper : SweepStep(w) \/ FailSweep(w)
    \/ \E b \in Bid : Correct(b)
    \/ Tick

Spec == Init /\ [][Next]_vars

(* A worker sweeps in every tick, a backfill's crawl has a timeout, and a  *)
(* transaction ends: it commits, or an error or the server's timeouts roll *)
(* it back.                                                                *)
FairSpec ==
    /\ Spec
    /\ \A w \in Sweeper : WF_vars(SweepStep(w))
    /\ \A i \in Importer : WF_vars(Finish(i))

-----------------------------------------------------------------------------
(* The refinement: every transaction takes effect at its commit, on the    *)
(* rows as they are then (mysql-json-importer.ts: the locking reads "hold  *)
(* content stable while merging").                                         *)
Register == INSTANCE BidRegister

ImplementsRegister == Register!Spec

AwardedNeverCloses == Register!AwardedNeverCloses
DeadlineClosesWereDue == Register!DeadlineClosesWereDue
OnlyClosedHaveReasons == Register!OnlyClosedHaveReasons

(* lifecycle.ts: a bid is closed as delisted only by a crawl that "proves  *)
(* which of the source's open bids are still listed": a successful,        *)
(* complete walk of its own source's open list, no row of which was the    *)
(* bid's or was quarantined.                                               *)
DelistedWasUnlisted ==
    [][\A b \in Bid :
        bids'[b].reason = "delisted" /\ bids[b].reason # "delisted" =>
            /\ holder[b] \in Importer
            /\ LET r == run[holder[b]] IN
                /\ r.success /\ r.openList /\ r.complete /\ r.quarantined = {}
                /\ b \notin r.seen
            /\ SourceOf[b] = SourceOf[holder[b]]]_vars

(* A slow import whose lease was taken over does not put its older crawl   *)
(* over the one that was stored since (persistence-lease.ts, checked again *)
(* before the commit).                                                     *)
CrawlsStoredInOrder == [][\A s \in Source : logged[s] <= logged'[s]]_vars

(* detail-history.ts: a backfill "can never prove that absent open records *)
(* have disappeared", and has no news of those it read: what it read long  *)
(* ago does not undo what other crawls have told since. All it changes is  *)
(* that a bid is closed for its deadline, or is again not.                 *)
BackfillsBringNoNews ==
    [][\A i \in Importer, b \in Bid :
        run[i].backfill /\ holder[b] = i /\ bids'[b].status # bids[b].status =>
            /\ {bids[b].status, bids'[b].status} = {"open", "closed"}
            /\ "deadline_passed" \in {bids[b].reason, bids'[b].reason}]_vars

(* While a backfill has the lease only sweeps change what it has read.     *)
ReadHolds(i, b) ==
    \/ run[i].read[b].status = bids[b].status /\ run[i].read[b].reason = bids[b].reason
    \/ /\ run[i].read[b].status = "open" /\ run[i].read[b].reason = "none"
       /\ bids[b].status = "closed" /\ bids[b].reason = "deadline_passed"

ReadsHold ==
    \A i \in Importer : run[i].backfill =>
        /\ ~run[i].complete
        /\ lease[SourceOf[i]] = i => \A b \in OwnBids(i) : ReadHolds(i, b)

(* What the refinement rests on: a free row has no draft, and the draft of *)
(* a held one is one edge away from the committed row.                     *)
Imported(i, b) ==
    \/ draft[b] = bids[b]
    \/ /\ b \in run[i].seen /\ SourceOf[b] = SourceOf[i]
       /\ \E row \in Row :
            /\ draft[b] = Merge(row, bids[b], run[i].at)
            /\ lease[SourceOf[i]] = i => TellsOwnReason(row, bids[b])
            /\ run[i].backfill => row = run[i].read[b]
    \/ /\ bids[b].status = "open" /\ draft[b] = Delisted(bids[b])
       /\ stage[i] = "delisted" /\ DelistingApplies(i)
       /\ b \notin run[i].seen /\ SourceOf[b] = SourceOf[i]

Swept(w, b) ==
    \/ draft[b] = bids[b]
    \/ /\ bids[b].status = "open" /\ Passed(bids[b].deadline, sweep[w].now)
       /\ draft[b] = ClosedByDeadline(bids[b])

OneEdgeAway(b) ==
    /\ holder[b] = NoOne => draft[b] = bids[b]
    /\ holder[b] \in Importer => Imported(holder[b], b)
    /\ holder[b] \in Sweeper => Swept(holder[b], b)

DraftsAreOneEdgeAway == \A b \in Bid : OneEdgeAway(b)

(* The instants that closes are judged by have come, and of the crawls of  *)
(* a source the one that holds the lease ended last.                       *)
JudgedByThePast ==
    /\ \A i \in Importer : run[i].at <= clock
    /\ \A w \in Sweeper : sweep[w].now <= clock
    /\ \A s \in Source : logged[s] <= clock
    /\ \A i \in Importer :
        lease[SourceOf[i]] = i /\ stage[i] \in {"importing", "delisted"} => logged[SourceOf[i]] <= run[i].at

(* An import locks rows while it is under way, a sweep while it closes a   *)
(* page.                                                                   *)
LocksAreHeldByTheBusy ==
    /\ \A b \in Bid : holder[b] \in Importer => stage[holder[b]] \in {"importing", "delisted"}
    /\ \A b \in Bid : holder[b] \in Sweeper => stage[holder[b]] = "locked"
    /\ \A i \in Importer : stage[i] \in {"idle", "fetching", "importing", "delisted"}
    /\ \A w \in Sweeper : stage[w] \in {"idle", "reading", "closing", "locked"}

Inductive ==
    /\ TypeOK /\ OnlyClosedHaveReasons
    /\ DraftsAreOneEdgeAway /\ ReadsHold
    /\ JudgedByThePast /\ LocksAreHeldByTheBusy

(* docs/operations/data-integrity.md takes a bid closed for its deadline,  *)
(* whose deadline has not passed, as proof that a writer closed it early.  *)
DeadlineReasonsHold ==
    \A b \in Bid : bids[b].reason = "deadline_passed" => Passed(bids[b].deadline, clock)

-----------------------------------------------------------------------------
(* Liveness: an open bid past its deadline does not stay so, though its    *)
(* portal lists it no longer, imports lock it, sweeps fail and other open  *)
(* bids fill the pages before it.                                          *)
ExpiredCloses ==
    \A b \in Bid :
        (bids[b].status = "open" /\ Passed(bids[b].deadline, clock)) ~>
            ~(bids[b].status = "open" /\ Passed(bids[b].deadline, clock))

(* Why, whatever is fair. A sweep has a number of steps left that each of  *)
(* its steps lowers: every page it reads puts the cursor on a later bid.   *)
StepsLeft(w) ==
    3 * Cardinality({b \in Bid : b > sweep[w].after})
    + CASE stage[w] = "closing" -> 2 [] stage[w] = "locked" -> 1 [] OTHER -> 0

SweepsCountDown ==
    [][\A w \in Sweeper :
         stage[w] # "idle" /\ stage'[w] # "idle" /\ <<stage[w], sweep[w]>>' # <<stage[w], sweep[w]>>
             => StepsLeft(w)' < StepsLeft(w)]_vars

(* And a sweep that begins when a bid is due, and ends without an error,   *)
(* has closed it, unless another transaction held it: the pages leave no   *)
(* open bid between them (lifecycle-sweep.ts: "id > ? ORDER BY id", and a  *)
(* page is the last one when it is not full). Hence no bid stays due while *)
(* sweep after sweep ends.                                                 *)
Waits(b, w, d) ==
    /\ bids[b].status = "open" /\ bids[b].deadline = d /\ Passed(d, clock)
    /\ holder[b] \in {NoOne, w}

EndsSweep(w) == stage[w] # "idle" /\ stage'[w] = "idle" /\ failures' = failures

Reached(b, w, d) == <>[]Waits(b, w, d) => <>[][~EndsSweep(w)]_vars

DueBidsAreReached == \A b \in Bid, w \in Sweeper, d \in Deadline : Reached(b, w, d)
=============================================================================
