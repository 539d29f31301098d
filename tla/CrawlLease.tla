----------------------------- MODULE CrawlLease -----------------------------
(***************************************************************************)
(* One crawl source and the attempts that compete for it: the lease row of *)
(* crawler_locks, the attempt of crawler/orchestrator.ts with its          *)
(* heartbeat, and the import transaction of crawler/mysql-json-importer.ts *)
(* that is fenced by the lease.                                            *)
(*                                                                         *)
(* The modelled runtime is the MySQL one, in which every statement is a    *)
(* step of its own and the clock is read before the statement is sent.     *)
(* The SQLite runtime runs the same statements without interleaving them,  *)
(* so its behaviours are among these.                                      *)
(*                                                                         *)
(* An attempt is one call of runCrawlerSourceOnce.  It draws a random      *)
(* lease owner, so the attempt itself stands for its owner string.  Rows   *)
(* of different sources share nothing: one source is enough.               *)
(*                                                                         *)
(* A definition D_Bug that stands before a definition D is a broken        *)
(* variant of D, used only to see that a property fails with it.           *)
(***************************************************************************)
EXTENDS Integers

CONSTANTS
    Attempt,    \* the calls of runCrawlerSourceOnce for the source
    NoAttempt,  \* the owner of an absent lease row
    Ttl,        \* lockTtlMs, in ticks of the clock
    PoolSize,   \* connections in the pool of a worker process
    MaxTime     \* bound: attempts start and renew up to this time

ASSUME LeaseAssumption ==
    /\ NoAttempt \notin Attempt
    /\ Ttl \in Nat \ {0}
    /\ PoolSize \in Nat \ {0}
    /\ MaxTime \in Nat

VARIABLES
    now,      \* the clock the workers read
    lock,     \* the row of crawler_locks: its owner and expires_at
    pc,       \* where the main flow of each attempt is
    acquiredAt, \* the clock each attempt read before it asked for the lease
    beat,     \* the pending renewal of each attempt (the promise `renewing`)
    beatAt,   \* the clock that renewal read before its statement was sent
    aborted,  \* the abort signal of each attempt
    result,   \* what the attempt reports (what the runner reported, until it ends)
    logs,     \* the rows each attempt wrote to crawler_logs
    stored,   \* the attempt whose crawl is stored in bids
    taken,    \* history: how often the lease was taken
    epoch     \* history: which taking of the lease is each attempt's

leaseVars == <<lock, taken, epoch>>
beatVars == <<beat, beatAt, aborted>>
storeVars == <<stored, logs>>
vars == <<now, lock, pc, acquiredAt, beat, beatAt, aborted, result, logs,
          stored, taken, epoch>>

NoLock == [owner |-> NoAttempt, expires |-> 0]

(* The clock stops once every lease that can exist has expired.            *)
EndOfTime == MaxTime + Ttl
Time == 0..EndOfTime

(* The stages in which the attempt is inside its try block: its heartbeat  *)
(* timer runs.                                                             *)
Running == {"crawling", "asserting", "connecting", "importing", "committing",
            "rollingBack", "logging", "returned", "matching", "notifying"}
Stage == Running \union {"idle", "acquiring", "confirming", "finishing",
                         "releasing", "done", "dead"}
Result == {"none", "disabled", "blocked", "locked", "failure", "success"}
LogRow == {"run", "failure", "failedRun"}

TypeOK ==
    /\ now \in Time
    /\ lock \in [owner : Attempt \union {NoAttempt}, expires : Time]
    /\ pc \in [Attempt -> Stage]
    /\ acquiredAt \in [Attempt -> 0..MaxTime]
    /\ beat \in [Attempt -> {"idle", "update", "reread"}]
    /\ beatAt \in [Attempt -> 0..MaxTime]
    /\ aborted \in [Attempt -> BOOLEAN]
    /\ result \in [Attempt -> Result]
    /\ logs \in [Attempt -> SUBSET LogRow]
    /\ stored \in Attempt \union {NoAttempt}
    /\ taken \in Nat
    /\ epoch \in [Attempt -> Nat]

Init ==
    /\ now = 0
    /\ lock = NoLock
    /\ pc = [a \in Attempt |-> "idle"]
    /\ acquiredAt = [a \in Attempt |-> 0]
    /\ beat = [a \in Attempt |-> "idle"]
    /\ beatAt = [a \in Attempt |-> 0]
    /\ aborted = [a \in Attempt |-> FALSE]
    /\ result = [a \in Attempt |-> "none"]
    /\ logs = [a \in Attempt |-> {}]
    /\ stored = NoAttempt
    /\ taken = 0
    /\ epoch = [a \in Attempt |-> 0]

-----------------------------------------------------------------------------
(* Database resources.                                                     *)

(* The final lease check reads the row FOR UPDATE and keeps it locked      *)
(* until the import transaction ends: other writers of the row wait.       *)
RowFree_NoLock == TRUE
RowFree == \A a \in Attempt : pc[a] # "committing"

(* The import holds a connection from getConnection to its release.        *)
HoldsConnection_WhileLogging(a) ==
    pc[a] \in {"importing", "committing", "rollingBack", "logging"}
HoldsConnection(a) == pc[a] \in {"importing", "committing", "rollingBack"}

(* A statement sent through the pool needs a second connection meanwhile.  *)
CanQuery(a) == PoolSize > 1 \/ ~HoldsConnection(a)

Goto(a, stage) == pc' = [pc EXCEPT ![a] = stage]
Report(a, outcome) == result' = [result EXCEPT ![a] = outcome]

-----------------------------------------------------------------------------
(* Taking the lease.                                                       *)

(* runCrawlerSourceOnce up to the acquisition: the source's governance is  *)
(* read first, and only then the clock that the lease starts from.         *)
Start(a) ==
    /\ pc[a] = "idle"
    /\ now <= MaxTime
    /\ \/ /\ \E refusal \in {"disabled", "blocked"} : Report(a, refusal)
          /\ Goto(a, "done")
          /\ UNCHANGED acquiredAt
       \/ /\ Goto(a, "acquiring")
          /\ acquiredAt' = [acquiredAt EXCEPT ![a] = now]
          /\ UNCHANGED result
    /\ UNCHANGED <<now, leaseVars, beatVars, storeVars>>

Takeable(a) == lock.owner = NoAttempt \/ lock.expires <= acquiredAt[a]

(* A lease runs for Ttl from the clock it is asked for with.               *)
Expiry(t) == t + Ttl

(* The upsert: an absent or expired row becomes the attempt's.             *)
TakeRow(a) ==
    IF Takeable(a)
    THEN /\ lock' = [owner |-> a, expires |-> Expiry(acquiredAt[a])]
         /\ taken' = taken + 1
         /\ epoch' = [epoch EXCEPT ![a] = taken + 1]
    ELSE UNCHANGED leaseVars

AcquireStatement(a) ==
    /\ pc[a] = "acquiring"
    /\ RowFree
    /\ TakeRow(a)
    /\ Goto(a, "confirming")
    /\ UNCHANGED <<now, acquiredAt, beatVars, result, storeVars>>

(* The SELECT after the upsert tells whether the row is the attempt's.     *)
TookRow_NewClock(a) == lock = [owner |-> a, expires |-> Expiry(now)]
TookRow(a) == lock = [owner |-> a, expires |-> Expiry(acquiredAt[a])]

ConfirmAcquired(a) ==
    /\ pc[a] = "confirming"
    /\ IF TookRow(a)
       THEN Goto(a, "crawling") /\ UNCHANGED result
       ELSE Goto(a, "done") /\ Report(a, "locked")
    /\ UNCHANGED <<now, leaseVars, acquiredAt, beatVars, storeVars>>

(* Either statement throws: the error leaves runCrawlerSourceOnce before   *)
(* its try block, so nothing releases a row that was already taken.        *)
AcquireFails(a) ==
    /\ pc[a] \in {"acquiring", "confirming"}
    /\ Goto(a, "done")
    /\ Report(a, "failure")
    /\ UNCHANGED <<now, leaseVars, acquiredAt, beatVars, storeVars>>

-----------------------------------------------------------------------------
(* The heartbeat and assertLease, which share one pending renewal.         *)

(* The timer fires: it joins a pending renewal or starts one.              *)
Heartbeat(a) ==
    /\ pc[a] \in Running
    /\ beat[a] = "idle"
    /\ ~aborted[a]
    /\ now <= MaxTime
    /\ beat' = [beat EXCEPT ![a] = "update"]
    /\ beatAt' = [beatAt EXCEPT ![a] = now]
    /\ UNCHANGED <<now, leaseVars, pc, acquiredAt, aborted, result, storeVars>>

(* The pending renewal ends: with the lease kept, the main flow that waits *)
(* for it goes on to the import; with the lease lost, the signal aborts    *)
(* and the wait is rejected.                                               *)
Renewed(a) ==
    /\ beat' = [beat EXCEPT ![a] = "idle"]
    /\ IF pc[a] = "asserting" THEN Goto(a, "connecting") ELSE UNCHANGED pc
    /\ UNCHANGED <<aborted, result>>

LeaseLost(a) ==
    /\ beat' = [beat EXCEPT ![a] = "idle"]
    /\ aborted' = [aborted EXCEPT ![a] = TRUE]
    /\ IF pc[a] = "asserting"
       THEN Goto(a, "finishing") /\ Report(a, "failure")
       ELSE UNCHANGED <<pc, result>>

(* The condition of the renewal's UPDATE, with the clock it was sent with. *)
Renewable_Expired(a) == lock.owner = a
Renewable(a) == lock.owner = a /\ lock.expires > beatAt[a]

RenewedExpiry_Accumulates(a) == Expiry(lock.expires)
RenewedExpiry(a) == Expiry(beatAt[a])

(* The UPDATE.  When no row is reported as changed, none matched, or the    *)
(* one that did already had that expiry: the row is read again.            *)
RenewStatement(a) ==
    /\ beat[a] = "update"
    /\ RowFree /\ CanQuery(a)
    /\ IF Renewable(a)
       THEN lock' = [lock EXCEPT !.expires = RenewedExpiry(a)]
       ELSE UNCHANGED lock
    /\ \/ Renewable(a) /\ Renewed(a)
       \/ /\ lock' = lock
          /\ beat' = [beat EXCEPT ![a] = "reread"]
          /\ UNCHANGED <<pc, aborted, result>>
    /\ UNCHANGED <<now, taken, epoch, acquiredAt, beatAt, storeVars>>

RenewReread(a) ==
    /\ beat[a] = "reread"
    /\ CanQuery(a)
    /\ IF Renewable(a) /\ lock.expires = RenewedExpiry(a)
       THEN Renewed(a)
       ELSE LeaseLost(a)
    /\ UNCHANGED <<now, leaseVars, acquiredAt, beatAt, storeVars>>

(* A renewal whose statement throws counts as a lost lease.  A statement   *)
(* waits for a connection without limit, for a row lock only so long.      *)
RenewFails(a) ==
    /\ beat[a] # "idle"
    /\ CanQuery(a)
    /\ LeaseLost(a)
    /\ UNCHANGED <<now, leaseVars, acquiredAt, beatAt, storeVars>>

-----------------------------------------------------------------------------
(* The crawl and its import.                                               *)

(* The Python crawler returned a payload, which may itself report a failed *)
(* run; the lease is renewed, or a pending renewal joined, before the      *)
(* import starts.                                                          *)
CrawlReturns(a) ==
    /\ pc[a] = "crawling"
    /\ now <= MaxTime
    /\ IF aborted[a]
       THEN /\ Goto(a, "finishing") /\ Report(a, "failure")
            /\ UNCHANGED beatVars
       ELSE /\ \E status \in {"success", "failure"} : Report(a, status)
            /\ Goto(a, "asserting")
            /\ IF beat[a] = "idle"
               THEN /\ beat' = [beat EXCEPT ![a] = "update"]
                    /\ beatAt' = [beatAt EXCEPT ![a] = now]
               ELSE UNCHANGED <<beat, beatAt>>
            /\ UNCHANGED aborted
    /\ UNCHANGED <<now, leaseVars, acquiredAt, storeVars>>

(* The crawler timed out, crashed or was killed by the abort signal.       *)
CrawlThrows(a) ==
    /\ pc[a] = "crawling"
    /\ Goto(a, "finishing") /\ Report(a, "failure")
    /\ UNCHANGED <<now, leaseVars, acquiredAt, beatVars, storeVars>>

(* assertPersistenceLease on the row as the transaction reads it.          *)
LeaseHolds_AnyOwner(a) == ~aborted[a] /\ lock.expires > now
LeaseHolds(a) == ~aborted[a] /\ lock.owner = a /\ lock.expires > now

(* The transaction begins and checks the lease with a plain read.          *)
BeginImport(a) ==
    /\ pc[a] = "connecting"
    /\ Goto(a, IF LeaseHolds(a) THEN "importing" ELSE "rollingBack")
    /\ UNCHANGED <<now, leaseVars, acquiredAt, beatVars, result, storeVars>>

(* All writes are done: the second check locks the row until the end of    *)
(* the transaction.                                                        *)
FinalCheck(a) ==
    /\ pc[a] = "importing"
    /\ RowFree
    /\ Goto(a, IF LeaseHolds(a) THEN "committing" ELSE "rollingBack")
    /\ UNCHANGED <<now, leaseVars, acquiredAt, beatVars, result, storeVars>>

(* The transaction commits the bids of a successful run and the run's log  *)
(* row.  The answer of the commit may be lost: the importer then takes it  *)
(* for a failed write.                                                     *)
Commit(a) ==
    /\ pc[a] = "committing"
    /\ stored' = IF result[a] = "success" THEN a ELSE stored
    /\ logs' = [logs EXCEPT ![a] = @ \union {"run"}]
    /\ \E next \in {"returned", "rollingBack"} : Goto(a, next)
    /\ UNCHANGED <<now, leaseVars, acquiredAt, beatVars, result>>

(* A refused payload, a failed statement, a refused commit.                *)
ImportFails(a) ==
    /\ pc[a] \in {"connecting", "importing", "committing"}
    /\ Goto(a, "rollingBack")
    /\ UNCHANGED <<now, leaseVars, acquiredAt, beatVars, result, storeVars>>

(* Roll back and hand the connection back before the failure is logged.    *)
RollBack(a) ==
    /\ pc[a] = "rollingBack"
    /\ Goto(a, "logging")
    /\ UNCHANGED <<now, leaseVars, acquiredAt, beatVars, result, storeVars>>

(* persistCrawlTaskResult turns a failed import into a failed run.         *)
ImportErrorReported_Swallowed(a) == Goto(a, "returned") /\ UNCHANGED result
ImportErrorReported(a) == Goto(a, "returned") /\ Report(a, "failure")

(* The failure is logged through the pool under an id of its own; if that  *)
(* fails persistCrawlTaskResult imports a failure payload, without lease,  *)
(* under the run's log id, which is refused when that row exists.          *)
LogFailure(a) ==
    /\ pc[a] = "logging"
    /\ CanQuery(a)
    /\ \/ logs' = [logs EXCEPT ![a] = @ \union {"failure"}]
       \/ /\ "run" \notin logs[a]
          /\ logs' = [logs EXCEPT ![a] = @ \union {"failedRun"}]
       \/ UNCHANGED logs
    /\ ImportErrorReported(a)
    /\ UNCHANGED <<now, leaseVars, acquiredAt, beatVars, stored>>

(* The runner returned: a lost lease or a failed run ends the attempt, a   *)
(* stored one goes on to the effects that follow an import.                *)
RunnerReturned(a) ==
    /\ pc[a] = "returned"
    /\ IF aborted[a] \/ result[a] = "failure"
       THEN Goto(a, "finishing") /\ Report(a, "failure")
       ELSE Goto(a, "matching") /\ UNCHANGED result
    /\ UNCHANGED <<now, leaseVars, acquiredAt, beatVars, storeVars>>

(* The alert matcher; when it throws the notifier is not called.           *)
Match(a) ==
    /\ pc[a] = "matching"
    /\ \E next \in {"notifying", "finishing"} : Goto(a, next)
    /\ UNCHANGED <<now, leaseVars, acquiredAt, beatVars, result, storeVars>>

(* The notifier; whether it throws changes nothing of the outcome.         *)
Notify(a) ==
    /\ pc[a] = "notifying"
    /\ Goto(a, "finishing")
    /\ UNCHANGED <<now, leaseVars, acquiredAt, beatVars, result, storeVars>>

-----------------------------------------------------------------------------
(* Giving the lease back.                                                  *)

(* finally: no renewal starts any more, and a pending one is awaited.      *)
AwaitRenewal_TimerOnly(a) ==
    /\ pc[a] = "finishing"
    /\ Goto(a, "releasing")
    /\ UNCHANGED <<now, leaseVars, acquiredAt, beatVars, result, storeVars>>
AwaitRenewal(a) ==
    /\ pc[a] = "finishing"
    /\ beat[a] = "idle"
    /\ Goto(a, "releasing")
    /\ UNCHANGED <<now, leaseVars, acquiredAt, beatVars, result, storeVars>>

(* DELETE of the row if it is still the attempt's.                         *)
Releasable_Anyone(a) == TRUE
Releasable(a) == lock.owner = a

Release(a) ==
    /\ pc[a] = "releasing"
    /\ RowFree
    /\ lock' = IF Releasable(a) THEN NoLock ELSE lock
    /\ Goto(a, "done")
    /\ UNCHANGED <<now, taken, epoch, acquiredAt, beatVars, result, storeVars>>

(* The DELETE throws: logged and swallowed, the row stays until it expires.*)
ReleaseFails(a) ==
    /\ pc[a] = "releasing"
    /\ Goto(a, "done")
    /\ UNCHANGED <<now, leaseVars, acquiredAt, beatVars, result, storeVars>>

(* The worker process dies; the server rolls its open transaction back.  A *)
(* statement it had sent either ran before or never runs.                  *)
Crash(a) ==
    /\ pc[a] \notin {"idle", "done", "dead"}
    /\ Goto(a, "dead")
    /\ beat' = [beat EXCEPT ![a] = "idle"]
    /\ UNCHANGED <<now, leaseVars, acquiredAt, beatAt, aborted, result, storeVars>>

Tick ==
    /\ now < EndOfTime
    /\ now' = now + 1
    /\ UNCHANGED <<lock, pc, acquiredAt, beatVars, result, storeVars, taken, epoch>>

-----------------------------------------------------------------------------
(* What the attempt and the database owe each other an answer for.         *)
Answered(a) ==
    \/ AcquireStatement(a) \/ ConfirmAcquired(a) \/ AcquireFails(a)
    \/ BeginImport(a) \/ FinalCheck(a) \/ Commit(a) \/ ImportFails(a)
    \/ RollBack(a) \/ LogFailure(a) \/ RunnerReturned(a)
    \/ Match(a) \/ Notify(a)
    \/ AwaitRenewal(a) \/ Release(a) \/ ReleaseFails(a)

BeatAnswered(a) == RenewStatement(a) \/ RenewReread(a) \/ RenewFails(a)

Crawl(a) == CrawlReturns(a) \/ CrawlThrows(a)

Step(a) == \/ Start(a) \/ Heartbeat(a) \/ BeatAnswered(a)
           \/ Crawl(a) \/ Answered(a) \/ Crash(a)

Next == Tick \/ \E a \in Attempt : Step(a)

Spec == Init /\ [][Next]_vars

(* Crawls end (the process has a timeout and is killed); statements are    *)
(* answered, possibly with an error; promises are resumed. Nothing is      *)
(* assumed of time, of crashes, of starts or of the heartbeat timer.       *)
Fairness ==
    \A a \in Attempt : WF_vars(Crawl(a)) /\ WF_vars(Answered(a)) /\ WF_vars(BeatAnswered(a))

FairSpec == Spec /\ Fairness

-----------------------------------------------------------------------------
(* Safety.                                                                 *)

(* The lease row never names an attempt that does not hold the latest      *)
(* taking of the lease, and the row an import has locked for its commit is *)
(* that import's own (orchestrator.ts: "a stale attempt cannot release a   *)
(* newer lease"; mysql-json-importer.ts: the check FOR UPDATE).            *)
LatestHolder ==
    /\ lock.owner # NoAttempt => epoch[lock.owner] = taken
    /\ \A a \in Attempt : pc[a] = "committing" => lock.owner = a

(* An import reaches the store only while no other attempt has taken the   *)
(* lease since its own attempt did: a slow crawl is never stored over the  *)
(* crawl of a newer lease, whatever the clock, the heartbeat and lost      *)
(* answers do.                                                             *)
NoStaleCommit ==
    [][\A a \in Attempt :
        "run" \in logs'[a] \ logs[a] => epoch[a] = taken]_vars

(* A lease that has not expired is taken away from its owner by nobody but *)
(* the owner's own release (acquire and release in lock-repository.ts).    *)
LiveLeaseIsRespected ==
    [][lock.owner # NoAttempt /\ lock.expires > now /\ lock' # lock =>
        \/ lock'.owner = lock.owner
        \/ pc[lock.owner] = "releasing" /\ lock' = NoLock]_vars

(* An expired lease is not revived by its owner ("An expired lease cannot  *)
(* be revived, even by the previous owner"): the only renewal that can     *)
(* still move its expiry read the clock before the lease ran out.          *)
ExpiredStaysExpired ==
    [][\A a \in Attempt :
        lock.owner = a /\ lock.expires <= now /\ lock'.owner = a /\ lock' # lock
            => beat[a] = "update" /\ beatAt[a] < lock.expires]_vars

(* Alerts are matched, notifications sent and success reported only for a  *)
(* crawl whose own import is committed and was never logged as failed      *)
(* ("persist the full source result before callers can announce success"). *)
AnnouncedIsStored ==
    \A a \in Attempt :
        pc[a] \in {"matching", "notifying"} \/ (pc[a] = "done" /\ result[a] = "success")
            => logs[a] = {"run"}

(* An attempt that was told that the source is locked left no row of its   *)
(* own behind: the answer of the second statement is about the first.      *)
LockedOutHoldsNothing ==
    \A a \in Attempt : pc[a] = "done" /\ result[a] = "locked" => lock.owner # a

(* The inductive invariant behind the four above.                          *)

(* Nobody reads a clock that is ahead.                                     *)
ClocksRead == \A a \in Attempt : acquiredAt[a] <= now /\ beatAt[a] <= now

(* The lease in force carries the latest token, and tokens start at 1.     *)
TokensIssued == lock.owner # NoAttempt => taken > 0

(* Before its upsert an attempt owns nothing and has stored nothing; until *)
(* the upsert is confirmed it renews nothing, so an owned row is as taken. *)
FreshAttempts ==
    \A a \in Attempt :
        /\ pc[a] \in {"idle", "acquiring"} => lock.owner # a /\ stored # a
        /\ pc[a] \in {"idle", "acquiring", "confirming"} => beat[a] = "idle"
        /\ pc[a] = "confirming" /\ lock.owner = a => TookRow(a)
        /\ result[a] = "locked" => pc[a] = "done"

(* Nothing is logged before the import ends, and after it a successful     *)
(* result stands for exactly one log row, that of the committed run.       *)
Outcomes ==
    \A a \in Attempt :
        /\ pc[a] \in {"idle", "acquiring", "confirming", "crawling", "asserting",
                      "connecting", "importing", "committing"} => logs[a] = {}
        /\ pc[a] \in {"idle", "acquiring", "confirming", "crawling"} =>
               result[a] = "none"
        /\ pc[a] \in {"asserting", "connecting", "importing", "committing",
                     "returned"} => result[a] \in {"success", "failure"}
        /\ pc[a] \in {"returned", "finishing", "releasing", "done"}
            /\ result[a] = "success" => logs[a] = {"run"}
        /\ pc[a] \in {"matching", "notifying"} =>
               result[a] = "success" /\ logs[a] = {"run"}

(* Everything the proofs need, preserved by every step: a stored crawl, a  *)
(* held lease and a reported result are all accounted for.                 *)
Inductive ==
    /\ TypeOK /\ LatestHolder /\ LockedOutHoldsNothing
    /\ ClocksRead /\ TokensIssued /\ FreshAttempts /\ Outcomes

-----------------------------------------------------------------------------
(* Liveness.                                                               *)

(* Every attempt that asked for the lease ends, or its process dies: the   *)
(* import, its heartbeat and its failure log never wait for each other,    *)
(* even on a pool of one connection.                                       *)
AttemptEnds(a) == pc[a] = "acquiring" ~> pc[a] \in {"done", "dead"}
AttemptsEnd == \A a \in Attempt : AttemptEnds(a)

(* What Fairness says of one attempt, with the guards of its actions       *)
(* written out: every answer that stays due comes. An attempt at any of    *)
(* these places can go on by an error, whatever the row and the others do. *)
AnswerDue(a) ==
    \/ pc[a] \in {"acquiring", "confirming", "connecting", "importing", "committing",
                  "rollingBack", "returned", "matching", "notifying", "releasing"}
    \/ pc[a] = "logging" /\ CanQuery(a)
    \/ pc[a] = "finishing" /\ beat[a] = "idle"

BeatDue(a) == beat[a] # "idle" /\ CanQuery(a)

Responsive(a) ==
    /\ <>[](pc[a] = "crawling") => []<><<Crawl(a)>>_vars
    /\ <>[]AnswerDue(a) => []<><<Answered(a)>>_vars
    /\ <>[]BeatDue(a) => []<><<BeatAnswered(a)>>_vars

EveryoneResponds == \A a \in Attempt : Responsive(a)

(* The lease of an attempt that has ended, or whose process died, is not   *)
(* renewed, and nothing else comes of the attempt: no renewal it had sent, *)
(* no log row, no stored crawl, no other outcome (the finally of           *)
(* runCrawlerSourceOnce awaits the pending renewal before it returns).     *)
EndedIsSilent ==
    [][\A a \in Attempt :
        pc[a] \in {"done", "dead"} =>
            /\ pc'[a] = pc[a] /\ beat'[a] = "idle"
            /\ logs'[a] = logs[a] /\ result'[a] = result[a]
            /\ stored' = a => stored = a
            /\ lock'.owner = a => lock' = lock]_vars

-----------------------------------------------------------------------------
(* The refinement mapping: the holder of the abstract store is the row's   *)
(* owner, and the tokens are the takings of the lease.                     *)
EpochOf(owner) == IF owner = NoAttempt THEN 0 ELSE epoch[owner]

Abstract == INSTANCE FencedStore WITH
    granted <- taken, holder <- EpochOf(lock.owner), stored <- EpochOf(stored)

(* The lease, the heartbeat and the fenced import together do nothing but  *)
(* grant, withdraw and store as FencedStore allows.                        *)
ImplementsFencedStore == Abstract!Spec

(* The stored crawl is never replaced by the crawl of an older lease.      *)
StoredNeverOlder == Abstract!StoreNeverRegresses
=============================================================================
