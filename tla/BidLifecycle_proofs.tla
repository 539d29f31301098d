------------------------ MODULE BidLifecycle_proofs ------------------------
(***************************************************************************)
(* Theorems about BidLifecycle: its type invariant, the inductive          *)
(* invariant that ties every draft to the committed row it replaces, the   *)
(* refinement of BidRegister, and what follows from it.                    *)
(***************************************************************************)
EXTENDS BidLifecycle, FiniteSetTheorems, WellFoundedInduction, TLAPS

USE DEF Tx

(* The rules turn records into records.                                    *)
LEMMA RulesKeepRecords ==
    ASSUME NEW old \in Record
    PROVE  /\ ClosedByDeadline(old) \in Record
           /\ Delisted(old) \in Record
           /\ \A row \in Row : \A at : Merge(row, old, at) \in Record
<1>1. old.deadline \in Deadline \union {NoDeadline}
  BY DEF Record
<1>2. ClosedByDeadline(old) \in Record /\ Delisted(old) \in Record
  BY <1>1 DEF ClosedByDeadline, Delisted, Record, Status, Reason
<1>3. ASSUME NEW row \in Row, NEW at PROVE Merge(row, old, at) \in Record
  <2>1. /\ row.status \in Status /\ row.reason \in Reason
        /\ row.deadline \in Deadline \union {NoDeadline}
    BY DEF Row
  <2>2. KnownDeadline(row, old) \in Deadline \union {NoDeadline}
    BY <1>1, <2>1 DEF KnownDeadline
  <2> QED BY <2>1, <2>2 DEF Merge, Record, Status, Reason
<1> QED BY <1>2, <1>3

(* A crawl that has only begun is one.                                     *)
LEMMA NoRunType == NoRun \in Run
<1>1. Absent \in Record
  BY DEF Absent, Record, Status, Reason
<1> QED BY <1>1, LifecycleAssumption DEF NoRun, Run

(* So is a sweep that is over.                                             *)
LEMMA NoSweepType == NoSweep \in Local
BY LifecycleAssumption DEF NoSweep, Local

(* Storing a crawl twice, as after a commit whose answer was lost, changes *)
(* nothing the first time has not (persistence-merge.ts).                  *)
THEOREM MergeIsIdempotent ==
    ASSUME NEW row \in Row, NEW old \in Record, NEW at
    PROVE  Merge(row, Merge(row, old, at), at) = Merge(row, old, at)
<1> DEFINE new == Merge(row, old, at)
<1>1. new.deadline = KnownDeadline(row, old)
  BY DEF Merge
<1>2. KnownDeadline(row, new) = KnownDeadline(row, old)
  BY <1>1 DEF KnownDeadline
<1>3. new.status = "awarded" => row.status = "awarded" \/ old.status = "awarded"
  BY DEF Merge
<1>4. old.status = "awarded" /\ new.status # "awarded" => row.status = "open" /\ new.status = "open"
  BY DEF Merge, Row, Status
<1> QED BY <1>2, <1>3, <1>4 DEF Merge, Row, Status

(* Whether a sweep or a delisting has closed an open bid just before, or   *)
(* was overtaken, the import of a row that lists the bid ends the same.    *)
THEOREM MergeForgetsCloses ==
    ASSUME NEW row \in Row, NEW old \in Record, NEW at, old.status = "open"
    PROVE  /\ Merge(row, ClosedByDeadline(old), at) = Merge(row, old, at)
           /\ Merge(row, Delisted(old), at) = Merge(row, old, at)
BY DEF Merge, KnownDeadline, ClosedByDeadline, Delisted

(* What an import stores depends on the crawls before it only through an   *)
(* award and through a deadline that its own row leaves blank.             *)
THEOREM LastMergeDecides ==
    ASSUME NEW first \in Row, NEW second \in Row, NEW old \in Record, NEW at, NEW later,
           second.deadline # NoDeadline,
           first.status # "awarded", old.status # "awarded"
    PROVE  Merge(second, Merge(first, old, at), later) = Merge(second, old, later)
<1> DEFINE new == Merge(first, old, at)
<1>1. new.status # "awarded"
  BY DEF Merge
<1>2. KnownDeadline(second, new) = KnownDeadline(second, old)
  BY DEF KnownDeadline
<1> QED BY <1>1, <1>2 DEF Merge

-----------------------------------------------------------------------------
(* Types.                                                                  *)

(* Publishing and discarding keep the types of what they change.           *)
LEMMA EndsKeepTypes ==
    ASSUME TypeOK, NEW t \in Tx, Publish(t) \/ Discard(t)
    PROVE  /\ bids' \in [Bid -> Record] /\ draft' \in [Bid -> Record]
           /\ holder' \in [Bid -> Tx \union {NoOne}]
BY DEF TypeOK, Publish, Discard, Release

(* What a crawl and a backfill are when they begin.                        *)
LEMMA BeginRun ==
    ASSUME TypeOK, NEW i \in Importer, Begin(i)
    PROVE  run' \in [Importer -> Run] /\ ~run'[i].backfill /\ run'[i].at = clock
<1>1. PICK success \in BOOLEAN, openList \in BOOLEAN, complete \in BOOLEAN :
        run' = [run EXCEPT ![i] = [NoRun EXCEPT !.success = success, !.openList = openList,
                                                !.complete = complete, !.at = clock]]
  BY DEF Begin
<1> DEFINE r == [NoRun EXCEPT !.success = success, !.openList = openList,
                              !.complete = complete, !.at = clock]
<1>2. r \in Run /\ ~r.backfill /\ r.at = clock
  BY NoRunType DEF TypeOK, NoRun, Run
<1> HIDE DEF r
<1>3. run' = [run EXCEPT ![i] = r]
  BY <1>1 DEF r
<1> QED BY <1>2, <1>3 DEF TypeOK

LEMMA BackfillRun ==
    ASSUME TypeOK, NEW i \in Importer, BeginBackfill(i)
    PROVE  /\ run' \in [Importer -> Run] /\ run'[i].at = 0 /\ ~run'[i].complete
           /\ \A b \in OwnBids(i) : run'[i].read[b] = bids[b]
<1> DEFINE read == [b \in Bid |-> IF b \in OwnBids(i) THEN bids[b] ELSE Absent]
           r == [NoRun EXCEPT !.backfill = TRUE, !.read = read]
<1>1. run' = [run EXCEPT ![i] = r]
  BY DEF BeginBackfill
<1>2. read \in [Bid -> Record] /\ \A b \in OwnBids(i) : read[b] = bids[b]
  BY DEF TypeOK, Absent, Record, Status, Reason, OwnBids
<1> HIDE DEF read
<1>3. r \in Run /\ r.read = read /\ r.at = 0 /\ ~r.complete
  BY <1>2, NoRunType DEF NoRun, Run
<1> HIDE DEF r
<1> QED BY <1>1, <1>2, <1>3 DEF TypeOK

(* Every step keeps the types.                                             *)
LEMMA TypeStep == TypeOK /\ [Next]_vars => TypeOK'
<1> SUFFICES ASSUME TypeOK, [Next]_vars PROVE TypeOK'
  OBVIOUS
<1>1. ASSUME NEW i \in Importer, Begin(i) PROVE TypeOK'
  <2>1. SourceOf[i] \in Source
    BY LifecycleAssumption
  <2>2. run' \in [Importer -> Run]
    BY <1>1, BeginRun
  <2>3. stage' \in [Tx -> Stage]
    BY <1>1 DEF Begin, TypeOK, Goto, Stage
  <2>4. lease' \in [Source -> Importer \union {NoOne}]
    BY <1>1, <2>1 DEF Begin, TypeOK
  <2>5. imports' \in 0..MaxImports
    BY <1>1, LifecycleAssumption DEF Begin, TypeOK
  <2> QED BY <1>1, <2>2, <2>3, <2>4, <2>5 DEF Begin, TypeOK
<1>15. ASSUME NEW i \in Importer, BeginBackfill(i) PROVE TypeOK'
  <2>1. SourceOf[i] \in Source
    BY LifecycleAssumption
  <2>3. run' \in [Importer -> Run]
    BY <1>15, BackfillRun
  <2>4. stage' \in [Tx -> Stage]
    BY <1>15 DEF BeginBackfill, TypeOK, Goto, Stage
  <2>5. lease' \in [Source -> Importer \union {NoOne}]
    BY <1>15, <2>1 DEF BeginBackfill, TypeOK
  <2>6. imports' \in 0..MaxImports
    BY <1>15, LifecycleAssumption DEF BeginBackfill, TypeOK
  <2> QED BY <1>15, <2>3, <2>4, <2>5, <2>6 DEF BeginBackfill, TypeOK
<1>16. ASSUME NEW i \in Importer, EndBackfill(i) PROVE TypeOK'
  <2>1. run' \in [Importer -> Run]
    <3>1. PICK success \in BOOLEAN :
            run' = [run EXCEPT ![i] = [run[i] EXCEPT !.success = success, !.at = clock]]
      BY <1>16 DEF EndBackfill
    <3>2. [run[i] EXCEPT !.success = success, !.at = clock] \in Run
      BY DEF TypeOK, Run
    <3> QED BY <3>1, <3>2 DEF TypeOK
  <2>2. stage' \in [Tx -> Stage]
    BY <1>16 DEF EndBackfill, TypeOK, Goto, Stage
  <2> QED BY <1>16, <2>1, <2>2 DEF EndBackfill, TypeOK
<1>2. ASSUME NEW i \in Importer, NEW b \in Bid, Accept(i, b) PROVE TypeOK'
  <2>1. PICK row \in RowsOf(i, b) : draft' = [draft EXCEPT ![b] = Merge(row, draft[b], run[i].at)]
    BY <1>2 DEF Accept
  <2>2. Merge(row, draft[b], run[i].at) \in Record
    BY RulesKeepRecords DEF TypeOK, RowsOf
  <2>3. draft' \in [Bid -> Record]
    BY <2>1, <2>2 DEF TypeOK
  <2>4. run' \in [Importer -> Run]
    <3>1. run' = [run EXCEPT ![i].seen = @ \union {b}]
      BY <1>2 DEF Accept
    <3>2. [run[i] EXCEPT !.seen = @ \union {b}] \in Run
      BY DEF TypeOK, Run
    <3> QED BY <3>1, <3>2 DEF TypeOK
  <2> QED BY <1>2, <2>3, <2>4 DEF Accept, TypeOK
<1>3. ASSUME NEW i \in Importer, NEW b \in Bid, Quarantine(i, b) PROVE TypeOK'
  <2>1. run' \in [Importer -> Run]
    <3>1. run' = [run EXCEPT ![i].quarantined = @ \union {b}]
      BY <1>3 DEF Quarantine
    <3>2. [run[i] EXCEPT !.quarantined = @ \union {b}] \in Run
      BY DEF TypeOK, Run
    <3> QED BY <3>1, <3>2 DEF TypeOK
  <2> QED BY <1>3, <2>1 DEF Quarantine, TypeOK
<1>4. ASSUME NEW i \in Importer, Delist(i) PROVE TypeOK'
  <2>1. draft' \in [Bid -> Record]
    BY <1>4, RulesKeepRecords DEF Delist, TypeOK
  <2>2. holder' \in [Bid -> Tx \union {NoOne}]
    BY <1>4 DEF Delist, TypeOK
  <2> QED BY <1>4, <2>1, <2>2 DEF Delist, TypeOK, Goto, Stage
<1>5. ASSUME NEW i \in Importer, Commit(i) PROVE TypeOK'
  <2>1. run' \in [Importer -> Run]
    BY <1>5, NoRunType DEF Commit, TypeOK
  <2>2. logged' \in [Source -> 0..MaxTime]
    BY <1>5 DEF Commit, TypeOK, Run
  <2> QED BY <1>5, <2>1, <2>2, EndsKeepTypes DEF Commit, TypeOK, Goto, Stage
<1>6. ASSUME NEW i \in Importer, Rollback(i) PROVE TypeOK'
  <2>1. run' \in [Importer -> Run]
    BY <1>6, NoRunType DEF Rollback, TypeOK
  <2> QED BY <1>6, <2>1, EndsKeepTypes DEF Rollback, TypeOK, Goto, Stage
<1>7. ASSUME NEW w \in Sweeper, StartSweep(w) PROVE TypeOK'
  BY <1>7 DEF StartSweep, TypeOK, Goto, Stage, Local
<1>8. ASSUME NEW w \in Sweeper, ReadPage(w) PROVE TypeOK'
  <2>1. sweep' \in [Sweeper -> Local]
    <3> DEFINE page == FirstOf({b \in Bid : b > sweep[w].after /\ bids[b].status = "open"})
               expired == {b \in page : Passed(bids[b].deadline, sweep[w].now)}
               full == Cardinality(page) = PageSize
    <3>1. page \subseteq Bid
      BY DEF FirstOf
    <3>2. PICK last \in IF page = {} THEN {sweep[w].after} ELSE page :
            sweep' = [sweep EXCEPT ![w] =
                IF expired = {} /\ ~full THEN NoSweep
                ELSE [now |-> sweep[w].now, after |-> last,
                      expired |-> expired, full |-> full]]
      BY <1>8 DEF ReadPage
    <3>3. last \in Nat
      BY <3>1, <3>2, LifecycleAssumption DEF TypeOK, Local
    <3>4. expired \subseteq Bid /\ full \in BOOLEAN
      BY <3>1
    <3> HIDE DEF page, expired, full
    <3> QED BY <3>2, <3>3, <3>4, NoSweepType DEF TypeOK, Local
  <2>2. stage' \in [Tx -> Stage]
    BY <1>8 DEF ReadPage, NextPage, Goto, TypeOK, Stage
  <2> QED BY <1>8, <2>1, <2>2 DEF ReadPage, TypeOK
<1>9. ASSUME NEW w \in Sweeper, LockPage(w) PROVE TypeOK'
  <2>1. draft' \in [Bid -> Record]
    BY <1>9, RulesKeepRecords DEF LockPage, TypeOK
  <2>2. holder' \in [Bid -> Tx \union {NoOne}]
    BY <1>9 DEF LockPage, TypeOK
  <2> QED BY <1>9, <2>1, <2>2 DEF LockPage, TypeOK, Goto, Stage
<1>10. ASSUME NEW w \in Sweeper, CommitPage(w) PROVE TypeOK'
  <2>1. sweep' \in [Sweeper -> Local]
    BY <1>10, NoSweepType DEF CommitPage, TypeOK
  <2>2. stage' \in [Tx -> Stage]
    BY <1>10 DEF CommitPage, NextPage, Goto, TypeOK, Stage
  <2> QED BY <1>10, <2>1, <2>2, EndsKeepTypes DEF CommitPage, TypeOK
<1>11. ASSUME NEW w \in Sweeper, FailSweep(w) PROVE TypeOK'
  <2>1. failures' \in 0..MaxFailures
    BY <1>11, LifecycleAssumption DEF FailSweep, TypeOK
  <2>2. sweep' \in [Sweeper -> Local]
    BY <1>11, NoSweepType DEF FailSweep, TypeOK
  <2> QED BY <1>11, <2>1, <2>2, EndsKeepTypes DEF FailSweep, TypeOK, Goto, Stage
<1>12. ASSUME NEW b \in Bid, Correct(b) PROVE TypeOK'
  <2>1. PICK deadline \in Deadline \union {NoDeadline} :
            /\ bids' = [bids EXCEPT ![b].deadline = deadline]
            /\ draft' = [draft EXCEPT ![b].deadline = deadline]
    BY <1>12 DEF Correct
  <2>2. bids' \in [Bid -> Record] /\ draft' \in [Bid -> Record]
    BY <2>1 DEF TypeOK, Record
  <2> QED BY <1>12, <2>2 DEF Correct, TypeOK
<1>13. CASE Tick
  BY <1>13, LifecycleAssumption DEF Tick, TypeOK
<1>14. CASE UNCHANGED vars
  BY <1>14 DEF vars, TypeOK
<1> QED BY <1>1, <1>2, <1>3, <1>4, <1>5, <1>6, <1>7, <1>8, <1>9, <1>10, <1>11, <1>12,
           <1>13, <1>14, <1>15, <1>16
        DEF Next, Start, Intake, Finish, SweepStep

(* Every initial state has its type.                                       *)
LEMMA TypeInit == Init => TypeOK
<1> SUFFICES ASSUME Init PROVE TypeOK
  OBVIOUS
<1>1. Absent \in Record
  BY DEF Absent, Record, Status, Reason
<1>2. bids \in [Bid -> Record] /\ draft \in [Bid -> Record]
  BY <1>1 DEF Init
<1>3. run \in [Importer -> Run] /\ sweep \in [Sweeper -> Local]
  BY NoRunType, NoSweepType DEF Init
<1> QED BY <1>2, <1>3, LifecycleAssumption DEF Init, TypeOK, Stage

(* The state keeps its type, for all sets of bids, sources, importers and  *)
(* sweepers, all deadlines, page sizes and bounds.                         *)
THEOREM TypeCorrect == Spec => []TypeOK
BY TypeInit, TypeStep, PTL DEF Spec

-----------------------------------------------------------------------------
(* Who holds locks, and the instants that closes are judged by.            *)

(* Publishing and discarding release the locks of one transaction.         *)
LEMMA EndsRelease ==
    ASSUME TypeOK, NEW t \in Tx, Publish(t) \/ Discard(t), NEW b \in Bid
    PROVE  /\ holder[b] = t => holder'[b] = NoOne
           /\ holder[b] # t => holder'[b] = holder[b]
BY DEF TypeOK, Publish, Discard, Release

(* Every step keeps locks with transactions that are under way.            *)
LEMMA LockStep ==
    TypeOK /\ LocksAreHeldByTheBusy /\ [Next]_vars => LocksAreHeldByTheBusy'
<1> SUFFICES ASSUME TypeOK, LocksAreHeldByTheBusy, [Next]_vars
             PROVE  LocksAreHeldByTheBusy'
  OBVIOUS
<1> USE LifecycleAssumption DEF LocksAreHeldByTheBusy, TypeOK, Goto
<1>1. ASSUME NEW i \in Importer, Start(i) \/ EndBackfill(i) PROVE LocksAreHeldByTheBusy'
  <2>1. holder' = holder /\ stage[i] \in {"idle", "fetching"}
    BY <1>1 DEF Start, Begin, BeginBackfill, EndBackfill
  <2>2. \E next \in {"fetching", "importing"} : stage' = [stage EXCEPT ![i] = next]
    BY <1>1 DEF Start, Begin, BeginBackfill, EndBackfill
  <2> QED BY <2>1, <2>2
<1>2. ASSUME NEW i \in Importer, NEW b \in Bid, Accept(i, b) PROVE LocksAreHeldByTheBusy'
  BY <1>2 DEF Accept
<1>3. ASSUME NEW i \in Importer, NEW b \in Bid, Quarantine(i, b)
      PROVE  LocksAreHeldByTheBusy'
  BY <1>3 DEF Quarantine
<1>4. ASSUME NEW i \in Importer, Delist(i) PROVE LocksAreHeldByTheBusy'
  BY <1>4 DEF Delist
<1>5. ASSUME NEW i \in Importer, Finish(i) PROVE LocksAreHeldByTheBusy'
  <2>1. Publish(i) \/ Discard(i)
    BY <1>5 DEF Finish, Commit, Rollback
  <2>2. stage' = [stage EXCEPT ![i] = "idle"]
    BY <1>5 DEF Finish, Commit, Rollback
  <2> QED BY <2>1, <2>2, EndsRelease
<1>6. ASSUME NEW w \in Sweeper, StartSweep(w) PROVE LocksAreHeldByTheBusy'
  BY <1>6 DEF StartSweep
<1>7. ASSUME NEW w \in Sweeper, ReadPage(w) PROVE LocksAreHeldByTheBusy'
  <2>1. \E next \in {"reading", "idle", "closing"} : stage' = [stage EXCEPT ![w] = next]
    BY <1>7 DEF ReadPage, NextPage
  <2> QED BY <1>7, <2>1 DEF ReadPage
<1>8. ASSUME NEW w \in Sweeper, LockPage(w) PROVE LocksAreHeldByTheBusy'
  BY <1>8 DEF LockPage
<1>9. ASSUME NEW w \in Sweeper, CommitPage(w) \/ FailSweep(w)
      PROVE  LocksAreHeldByTheBusy'
  <2>1. Publish(w) \/ Discard(w)
    BY <1>9 DEF CommitPage, FailSweep
  <2>2. \E next \in {"reading", "idle"} : stage' = [stage EXCEPT ![w] = next]
    BY <1>9 DEF CommitPage, FailSweep, NextPage
  <2> QED BY <2>1, <2>2, EndsRelease
<1>10. ASSUME NEW b \in Bid, Correct(b) PROVE LocksAreHeldByTheBusy'
  BY <1>10 DEF Correct
<1>11. CASE Tick
  BY <1>11 DEF Tick
<1>12. CASE UNCHANGED vars
  BY <1>12 DEF vars
<1> QED BY <1>1, <1>2, <1>3, <1>4, <1>5, <1>6, <1>7, <1>8, <1>9, <1>10, <1>11, <1>12
        DEF Next, Intake, SweepStep

(* A step that leaves leases, crawls' ends and sweeps' instants alone, and *)
(* starts no import, keeps the order of instants.                          *)
LEMMA JudgedFrame ==
    ASSUME TypeOK, JudgedByThePast, clock <= clock', clock' \in Nat,
           lease' = lease, logged' = logged,
           \A i \in Importer : run'[i].at = run[i].at,
           \A i \in Importer :
              stage'[i] \in {"importing", "delisted"} => stage[i] \in {"importing", "delisted"},
           \A w \in Sweeper : sweep'[w].now \in {sweep[w].now, 0}
    PROVE  JudgedByThePast'
<1>1. /\ clock \in Nat
      /\ \A i \in Importer : run[i].at \in Nat
      /\ \A w \in Sweeper : sweep[w].now \in Nat
      /\ \A s \in Source : logged[s] \in Nat
  BY DEF TypeOK, Run, Local
<1> QED BY <1>1 DEF JudgedByThePast

(* Every step keeps the order of instants.                                 *)
LEMMA JudgedStep ==
    TypeOK /\ JudgedByThePast /\ LocksAreHeldByTheBusy /\ [Next]_vars => JudgedByThePast'
<1> SUFFICES ASSUME TypeOK, JudgedByThePast, LocksAreHeldByTheBusy, [Next]_vars
             PROVE  JudgedByThePast'
  OBVIOUS
<1>0. clock \in Nat /\ clock <= clock
  BY DEF TypeOK
<1>1. ASSUME NEW i \in Importer, Start(i) PROVE JudgedByThePast'
  <2>1. \A j \in Importer : j # i => run'[j] = run[j]
    BY <1>1 DEF Start, Begin, BeginBackfill, TypeOK
  <2>2. SourceOf[i] \in Source /\ lease' = [lease EXCEPT ![SourceOf[i]] = i]
    BY <1>1, LifecycleAssumption DEF Start, Begin, BeginBackfill
  <2>3. clock' = clock /\ logged' = logged /\ sweep' = sweep
    BY <1>1 DEF Start, Begin, BeginBackfill
  <2>4. \A j \in Importer : j # i => stage'[j] = stage[j]
    BY <1>1 DEF Start, Begin, BeginBackfill, Goto, TypeOK
  <2>6. /\ run'[i].at \in {0, clock}
        /\ stage'[i] \in {"importing", "delisted"} => run'[i].at = clock
    <3>1. CASE Begin(i)
      BY <3>1, BeginRun
    <3>2. CASE BeginBackfill(i)
      <4>1. stage'[i] = "fetching"
        BY <3>2 DEF BeginBackfill, Goto, TypeOK
      <4> QED BY <3>2, <4>1, BackfillRun
    <3> QED BY <1>1, <3>1, <3>2 DEF Start
  <2>5. ASSUME NEW j \in Importer, lease'[SourceOf[j]] = j,
               stage'[j] \in {"importing", "delisted"}
        PROVE  logged'[SourceOf[j]] <= run'[j].at
    <3>1. CASE j = i
      BY <3>1, <2>5, <2>6, <2>2, <2>3 DEF JudgedByThePast
    <3>2. CASE j # i
      <4>1. SourceOf[j] # SourceOf[i] /\ SourceOf[j] \in Source
        BY <3>2, <2>5, <2>2, LifecycleAssumption DEF TypeOK
      <4>2. lease[SourceOf[j]] = j
        BY <4>1, <2>5, <2>2 DEF TypeOK
      <4> QED BY <3>2, <4>2, <2>5, <2>1, <2>3, <2>4 DEF JudgedByThePast
    <3> QED BY <3>1, <3>2
  <2> QED BY <1>0, <2>1, <2>3, <2>5, <2>6 DEF JudgedByThePast
<1>11. ASSUME NEW i \in Importer, EndBackfill(i) PROVE JudgedByThePast'
  <2>1. run'[i].at = clock /\ \A j \in Importer : j # i => run'[j] = run[j]
    BY <1>11 DEF EndBackfill, TypeOK, Run
  <2>2. clock' = clock /\ lease' = lease /\ logged' = logged /\ sweep' = sweep
    BY <1>11 DEF EndBackfill
  <2>3. \A j \in Importer : j # i => stage'[j] = stage[j]
    BY <1>11 DEF EndBackfill, Goto, TypeOK
  <2>4. SourceOf[i] \in Source
    BY LifecycleAssumption
  <2> QED BY <1>0, <2>1, <2>2, <2>3, <2>4 DEF JudgedByThePast
<1>2. ASSUME NEW i \in Importer, NEW b \in Bid, Accept(i, b) \/ Quarantine(i, b)
      PROVE  JudgedByThePast'
  <2>1. /\ clock' = clock /\ lease' = lease /\ logged' = logged
        /\ stage' = stage /\ sweep' = sweep
    BY <1>2 DEF Accept, Quarantine
  <2>2. \/ run' = [run EXCEPT ![i].seen = @ \union {b}]
        \/ run' = [run EXCEPT ![i].quarantined = @ \union {b}]
    BY <1>2 DEF Accept, Quarantine
  <2>3. run'[i].at = run[i].at
    BY <2>2 DEF TypeOK, Run
  <2>4. \A j \in Importer : j # i => run'[j] = run[j]
    BY <2>2 DEF TypeOK
  <2>5. \A j \in Importer : run'[j].at = run[j].at
    BY <2>3, <2>4
  <2> QED BY <1>0, <2>1, <2>5, JudgedFrame
<1>3. ASSUME NEW i \in Importer, Delist(i) PROVE JudgedByThePast'
  <2>1. /\ clock' = clock /\ lease' = lease /\ logged' = logged
        /\ run' = run /\ sweep' = sweep
    BY <1>3 DEF Delist
  <2>2. stage[i] = "importing" /\ \A j \in Importer : j # i => stage'[j] = stage[j]
    BY <1>3 DEF Delist, Goto, TypeOK
  <2> QED BY <1>0, <2>1, <2>2, JudgedFrame
<1>4. ASSUME NEW i \in Importer, Finish(i) PROVE JudgedByThePast'
  <2>1. run'[i] = NoRun /\ stage'[i] = "idle"
    BY <1>4 DEF Finish, Commit, Rollback, Goto, TypeOK
  <2>2. \A j \in Importer : j # i => run'[j] = run[j] /\ stage'[j] = stage[j]
    BY <1>4 DEF Finish, Commit, Rollback, Goto, TypeOK
  <2>3. clock' = clock /\ lease' = lease /\ sweep' = sweep
    BY <1>4 DEF Finish, Commit, Rollback
  <2>4. SourceOf[i] \in Source /\ run[i].at <= clock
    BY LifecycleAssumption DEF JudgedByThePast
  <2>5. \/ logged' = logged
        \/ lease[SourceOf[i]] = i /\ logged' = [logged EXCEPT ![SourceOf[i]] = run[i].at]
    BY <1>4 DEF Finish, Commit, Rollback
  <2>6. \A s \in Source : logged'[s] <= clock
    BY <2>4, <2>5 DEF JudgedByThePast, TypeOK
  <2>7. ASSUME NEW j \in Importer, lease'[SourceOf[j]] = j,
               stage'[j] \in {"importing", "delisted"}
        PROVE  logged'[SourceOf[j]] <= run'[j].at
    <3>1. /\ j # i /\ lease[SourceOf[j]] = j /\ run'[j] = run[j]
          /\ stage[j] \in {"importing", "delisted"}
      BY <2>1, <2>2, <2>3, <2>7
    <3>2. logged'[SourceOf[j]] = logged[SourceOf[j]]
      <4>1. SourceOf[j] \in Source
        BY LifecycleAssumption
      <4> QED BY <3>1, <4>1, <2>5 DEF TypeOK
    <3> QED BY <3>1, <3>2 DEF JudgedByThePast
  <2>8. \A j \in Importer : run'[j].at <= clock
    BY <1>0, <2>1, <2>2 DEF NoRun, JudgedByThePast
  <2> QED BY <2>3, <2>6, <2>7, <2>8 DEF JudgedByThePast
<1>5. ASSUME NEW w \in Sweeper, StartSweep(w) PROVE JudgedByThePast'
  <2>1. sweep'[w].now = clock /\ \A v \in Sweeper : v # w => sweep'[v] = sweep[v]
    BY <1>5 DEF StartSweep, TypeOK
  <2>2. /\ clock' = clock /\ lease' = lease /\ logged' = logged /\ run' = run
        /\ \A i \in Importer : stage'[i] = stage[i]
    BY <1>5, LifecycleAssumption DEF StartSweep, Goto, TypeOK
  <2> QED BY <1>0, <2>1, <2>2 DEF JudgedByThePast
<1>6. ASSUME NEW w \in Sweeper, ReadPage(w) PROVE JudgedByThePast'
  <2>1. \A v \in Sweeper : sweep'[v].now \in {sweep[v].now, 0}
    BY <1>6 DEF ReadPage, TypeOK, NoSweep
  <2>2. /\ clock' = clock /\ lease' = lease /\ logged' = logged /\ run' = run
        /\ \A i \in Importer : stage'[i] = stage[i]
    BY <1>6, LifecycleAssumption DEF ReadPage, NextPage, Goto, TypeOK
  <2> QED BY <1>0, <2>1, <2>2, JudgedFrame
<1>7. ASSUME NEW w \in Sweeper, LockPage(w) \/ CommitPage(w) \/ FailSweep(w)
      PROVE  JudgedByThePast'
  <2>1. clock' = clock /\ lease' = lease /\ logged' = logged /\ run' = run
    BY <1>7 DEF LockPage, CommitPage, FailSweep
  <2>3. \A v \in Sweeper : sweep'[v].now \in {sweep[v].now, 0}
    BY <1>7 DEF LockPage, CommitPage, FailSweep, TypeOK, NoSweep
  <2>2. \A i \in Importer : stage'[i] = stage[i]
    BY <1>7, LifecycleAssumption DEF LockPage, CommitPage, FailSweep, NextPage, Goto, TypeOK
  <2> QED BY <1>0, <2>1, <2>2, <2>3, JudgedFrame
<1>8. ASSUME NEW b \in Bid, Correct(b) PROVE JudgedByThePast'
  BY <1>8, <1>0, JudgedFrame DEF Correct
<1>9. CASE Tick
  <2>1. clock <= clock' /\ clock' \in Nat
    BY <1>9, <1>0 DEF Tick
  <2> QED BY <1>9, <2>1, JudgedFrame DEF Tick
<1>10. CASE UNCHANGED vars
  BY <1>10, <1>0, JudgedFrame DEF vars
<1> QED BY <1>1, <1>2, <1>3, <1>4, <1>5, <1>6, <1>7, <1>8, <1>9, <1>10, <1>11
        DEF Next, Intake, SweepStep

-----------------------------------------------------------------------------
(* Drafts.                                                                 *)

(* A bid's draft stays one edge away from its row while neither changes,   *)
(* its holder keeps the row, and what the holder judges by stays.          *)
LEMMA DraftFrame ==
    ASSUME TypeOK, NEW b \in Bid, OneEdgeAway(b),
           bids'[b] = bids[b], draft'[b] = draft[b], holder'[b] = holder[b],
           \A i \in Importer : holder[b] = i =>
              /\ run'[i].at = run[i].at /\ run[i].seen \subseteq run'[i].seen
              /\ run'[i].backfill = run[i].backfill /\ run'[i].read = run[i].read
              /\ lease'[SourceOf[i]] = i => lease[SourceOf[i]] = i,
           \A i \in Importer : holder[b] = i /\ stage[i] = "delisted" =>
              run'[i] = run[i] /\ stage'[i] = "delisted",
           \A w \in Sweeper : holder[b] = w => sweep'[w].now = sweep[w].now
    PROVE  OneEdgeAway(b)'
<1>1. CASE holder[b] = NoOne
  BY <1>1, LifecycleAssumption DEF OneEdgeAway
<1>2. ASSUME NEW i \in Importer, holder[b] = i PROVE OneEdgeAway(b)'
  <2>1. Imported(i, b)
    BY <1>2 DEF OneEdgeAway
  <2>2. Imported(i, b)'
    BY <1>2, <2>1 DEF Imported, DelistingApplies
  <2> QED BY <1>2, <2>2, LifecycleAssumption DEF OneEdgeAway
<1>3. ASSUME NEW w \in Sweeper, holder[b] = w PROVE OneEdgeAway(b)'
  <2>1. Swept(w, b)
    BY <1>3 DEF OneEdgeAway
  <2>2. Swept(w, b)'
    BY <1>3, <2>1 DEF Swept
  <2> QED BY <1>3, <2>2, LifecycleAssumption DEF OneEdgeAway
<1> QED BY <1>1, <1>2, <1>3 DEF TypeOK

(* The end of a transaction leaves what it held free and without a draft,  *)
(* and the rest as it was.                                                 *)
LEMMA DraftsEnd ==
    ASSUME TypeOK, DraftsAreOneEdgeAway, NEW t \in Tx, Publish(t) \/ Discard(t),
           \A i \in Importer : i # t => run'[i] = run[i] /\ stage'[i] = stage[i],
           \A w \in Sweeper : w # t => sweep'[w] = sweep[w], lease' = lease
    PROVE  DraftsAreOneEdgeAway'
<1> SUFFICES ASSUME NEW b \in Bid PROVE OneEdgeAway(b)'
  BY DEF DraftsAreOneEdgeAway
<1>1. CASE holder[b] = t
  <2>1. holder'[b] = NoOne /\ draft'[b] = bids'[b]
    BY <1>1 DEF TypeOK, Publish, Discard, Release
  <2> QED BY <2>1, LifecycleAssumption DEF OneEdgeAway
<1>2. CASE holder[b] # t
  <2>1. bids'[b] = bids[b] /\ draft'[b] = draft[b] /\ holder'[b] = holder[b]
    BY <1>2 DEF TypeOK, Publish, Discard, Release
  <2> QED BY <1>2, <2>1, DraftFrame DEF DraftsAreOneEdgeAway
<1> QED BY <1>1, <1>2

(* A row that an import merges into a bid starts from the committed bid,   *)
(* for it is the first one and nothing is delisted yet.                    *)
LEMMA AcceptStep ==
    ASSUME TypeOK, DraftsAreOneEdgeAway, ReadsHold,
           NEW i \in Importer, NEW c \in Bid, Accept(i, c)
    PROVE  DraftsAreOneEdgeAway'
<1> SUFFICES ASSUME NEW b \in Bid PROVE OneEdgeAway(b)'
  BY DEF DraftsAreOneEdgeAway
<1>1. bids' = bids /\ lease' = lease /\ stage' = stage /\ sweep' = sweep
  BY DEF Accept
<1>2. PICK row \in RowsOf(i, c) : draft' = [draft EXCEPT ![c] = Merge(row, draft[c], run[i].at)]
  BY DEF Accept
<1>3. run' = [run EXCEPT ![i].seen = @ \union {c}]
  BY DEF Accept
<1>4. /\ run'[i].at = run[i].at /\ run'[i].seen = run[i].seen \union {c}
      /\ run'[i].backfill = run[i].backfill /\ run'[i].read = run[i].read
  BY <1>3 DEF TypeOK, Run
<1>5. \A j \in Importer : j # i => run'[j] = run[j]
  BY <1>3 DEF TypeOK
<1>6. CASE b = c
  <2>1. draft[b] = bids[b]
    <3>1. CASE holder[b] = NoOne
      BY <3>1 DEF DraftsAreOneEdgeAway, OneEdgeAway
    <3>2. CASE holder[b] = i
      <4>1. Imported(i, b)
        BY <3>2 DEF DraftsAreOneEdgeAway, OneEdgeAway
      <4>2. b \notin run[i].seen /\ stage[i] = "importing"
        BY <1>6 DEF Accept, Listed
      <4> QED BY <4>1, <4>2 DEF Imported
    <3> QED BY <1>6, <3>1, <3>2 DEF Accept, MayLock
  <2>2. draft'[b] = Merge(row, bids'[b], run'[i].at) /\ row \in Row
    BY <1>1, <1>2, <1>4, <1>6, <2>1 DEF TypeOK, RowsOf
  <2>3. b \in run'[i].seen /\ SourceOf[b] = SourceOf[i]
    BY <1>4, <1>6 DEF Accept
  <2>6. run[i].backfill => row = run[i].read[b]
    BY <1>2, <1>6 DEF RowsOf
  <2>7. lease[SourceOf[i]] = i => TellsOwnReason(row, bids[b])
    <3>1. CASE run[i].backfill
      BY <3>1, <2>3, <2>6 DEF ReadsHold, ReadHolds, OwnBids, TellsOwnReason
    <3>2. CASE ~run[i].backfill
      BY <1>2, <1>6, <3>2 DEF RowsOf, TellsOwnReason
    <3> QED BY <3>1, <3>2
  <2>4. Imported(i, b)'
    BY <1>1, <1>4, <2>2, <2>3, <2>6, <2>7 DEF Imported
  <2>5. holder'[b] = i
    BY <1>6 DEF Accept, TypeOK
  <2> QED BY <2>4, <2>5, LifecycleAssumption DEF OneEdgeAway
<1>7. CASE b # c
  <2>1. draft'[b] = draft[b] /\ holder'[b] = holder[b]
    BY <1>2, <1>7 DEF Accept, TypeOK
  <2>2. stage[i] = "importing"
    BY DEF Accept
  <2>3. \A j \in Importer :
            /\ run'[j].at = run[j].at /\ run[j].seen \subseteq run'[j].seen
            /\ run'[j].backfill = run[j].backfill /\ run'[j].read = run[j].read
    BY <1>4, <1>5
  <2> QED BY <1>1, <1>5, <2>1, <2>2, <2>3, DraftFrame DEF DraftsAreOneEdgeAway
<1> QED BY <1>6, <1>7

(* A quarantined row changes no draft, at most it locks a free bid.        *)
LEMMA QuarantineStep ==
    ASSUME TypeOK, DraftsAreOneEdgeAway, NEW i \in Importer, NEW c \in Bid, Quarantine(i, c)
    PROVE  DraftsAreOneEdgeAway'
<1> SUFFICES ASSUME NEW b \in Bid PROVE OneEdgeAway(b)'
  BY DEF DraftsAreOneEdgeAway
<1>1. /\ bids' = bids /\ draft' = draft /\ lease' = lease
      /\ stage' = stage /\ sweep' = sweep
  BY DEF Quarantine
<1>2. run' = [run EXCEPT ![i].quarantined = @ \union {c}]
  BY DEF Quarantine
<1>3. /\ run'[i].at = run[i].at /\ run'[i].seen = run[i].seen
      /\ run'[i].backfill = run[i].backfill /\ run'[i].read = run[i].read
  BY <1>2 DEF TypeOK, Run
<1>4. \A j \in Importer : j # i => run'[j] = run[j]
  BY <1>2 DEF TypeOK
<1>5. stage[i] = "importing"
  BY DEF Quarantine
<1>6. CASE holder'[b] = holder[b]
  <2>1. \A j \in Importer :
            /\ run'[j].at = run[j].at /\ run[j].seen \subseteq run'[j].seen
            /\ run'[j].backfill = run[j].backfill /\ run'[j].read = run[j].read
    BY <1>3, <1>4
  <2> QED BY <1>1, <1>4, <1>5, <1>6, <2>1, DraftFrame DEF DraftsAreOneEdgeAway
<1>7. CASE holder'[b] # holder[b]
  <2>1. holder'[b] = i /\ holder[b] = NoOne
    BY <1>7 DEF Quarantine, MayLock, TypeOK
  <2>2. draft'[b] = bids'[b]
    BY <1>1, <2>1 DEF DraftsAreOneEdgeAway, OneEdgeAway
  <2>3. Imported(i, b)'
    BY <2>2 DEF Imported
  <2> QED BY <2>1, <2>3, LifecycleAssumption DEF OneEdgeAway
<1> QED BY <1>6, <1>7

(* A delisting closes committed open bids, for the rows that this import   *)
(* has changed are those it has seen.                                      *)
LEMMA DelistStep ==
    ASSUME TypeOK, DraftsAreOneEdgeAway, NEW i \in Importer, Delist(i)
    PROVE  DraftsAreOneEdgeAway'
<1> SUFFICES ASSUME NEW b \in Bid PROVE OneEdgeAway(b)'
  BY DEF DraftsAreOneEdgeAway
<1>1. bids' = bids /\ lease' = lease /\ run' = run /\ sweep' = sweep
  BY DEF Delist
<1>2. stage[i] = "importing" /\ stage'[i] = "delisted"
  BY DEF Delist, Goto, TypeOK
<1>3. \A j \in Importer : j # i => stage'[j] = stage[j]
  BY DEF Delist, Goto, TypeOK
<1>4. CASE b \in OwnBids(i)
  <2>1. holder'[b] = i /\ MayLock(i, b)
    BY <1>4 DEF Delist
  <2>2. \/ draft[b] = bids[b]
        \/ /\ b \in run[i].seen /\ SourceOf[b] = SourceOf[i]
           /\ \E row \in Row :
                /\ draft[b] = Merge(row, bids[b], run[i].at)
                /\ lease[SourceOf[i]] = i => TellsOwnReason(row, bids[b])
                /\ run[i].backfill => row = run[i].read[b]
    <3>1. CASE holder[b] = NoOne
      BY <3>1 DEF DraftsAreOneEdgeAway, OneEdgeAway
    <3>2. CASE holder[b] = i
      <4>1. Imported(i, b)
        BY <3>2 DEF DraftsAreOneEdgeAway, OneEdgeAway
      <4> QED BY <4>1, <1>2 DEF Imported
    <3> QED BY <2>1, <3>1, <3>2 DEF MayLock
  <2>3. CASE b \notin run[i].seen /\ draft[b].status = "open"
    <3>1. draft'[b] = Delisted(bids[b]) /\ bids[b].status = "open"
      BY <1>4, <2>2, <2>3 DEF Delist
    <3>2. DelistingApplies(i)' /\ SourceOf[b] = SourceOf[i]
      BY <1>1, <1>4 DEF Delist, DelistingApplies, OwnBids
    <3>3. Imported(i, b)'
      BY <1>1, <1>2, <2>3, <3>1, <3>2 DEF Imported
    <3> QED BY <2>1, <3>3, LifecycleAssumption DEF OneEdgeAway
  <2>4. CASE b \in run[i].seen \/ draft[b].status # "open"
    <3>1. draft'[b] = draft[b]
      BY <2>4 DEF Delist
    <3>2. Imported(i, b)'
      BY <1>1, <2>2, <3>1 DEF Imported
    <3> QED BY <2>1, <3>2, LifecycleAssumption DEF OneEdgeAway
  <2> QED BY <2>3, <2>4
<1>5. CASE b \notin OwnBids(i)
  <2>1. draft'[b] = draft[b] /\ holder'[b] = holder[b]
    BY <1>5 DEF Delist
  <2> QED BY <1>1, <1>2, <1>3, <2>1, DraftFrame DEF DraftsAreOneEdgeAway
<1> QED BY <1>4, <1>5

(* A sweep judges free bids, whose rows are as they were committed.        *)
LEMMA LockPageStep ==
    ASSUME TypeOK, DraftsAreOneEdgeAway, LocksAreHeldByTheBusy,
           NEW w \in Sweeper, LockPage(w)
    PROVE  DraftsAreOneEdgeAway'
<1> SUFFICES ASSUME NEW b \in Bid PROVE OneEdgeAway(b)'
  BY DEF DraftsAreOneEdgeAway
<1>1. bids' = bids /\ lease' = lease /\ run' = run /\ sweep' = sweep
  BY DEF LockPage
<1>2. \A j \in Importer : stage'[j] = stage[j]
  BY LifecycleAssumption DEF LockPage, Goto, TypeOK
<1>3. CASE b \in sweep[w].expired /\ holder[b] = NoOne
  <2>1. holder'[b] = w /\ draft[b] = bids[b]
    BY <1>3 DEF LockPage, DraftsAreOneEdgeAway, OneEdgeAway
  <2>2. draft'[b] = IF StillDue(w, b) THEN ClosedByDeadline(bids[b]) ELSE bids[b]
    BY <1>3, <2>1 DEF LockPage
  <2>3. Swept(w, b)'
    BY <1>1, <2>1, <2>2 DEF Swept, StillDue
  <2> QED BY <2>1, <2>3, LifecycleAssumption DEF OneEdgeAway
<1>4. CASE ~(b \in sweep[w].expired /\ holder[b] = NoOne)
  <2>1. draft'[b] = draft[b] /\ holder'[b] = holder[b]
    BY <1>4 DEF LockPage
  <2> QED BY <1>1, <1>2, <2>1, DraftFrame DEF DraftsAreOneEdgeAway
<1> QED BY <1>3, <1>4

(* A correction changes the row and the draft of a free bid alike.         *)
LEMMA CorrectStep ==
    ASSUME TypeOK, DraftsAreOneEdgeAway, NEW c \in Bid, Correct(c)
    PROVE  DraftsAreOneEdgeAway'
<1> SUFFICES ASSUME NEW b \in Bid PROVE OneEdgeAway(b)'
  BY DEF DraftsAreOneEdgeAway
<1>1. PICK deadline \in Deadline \union {NoDeadline} :
          /\ bids' = [bids EXCEPT ![c].deadline = deadline]
          /\ draft' = [draft EXCEPT ![c].deadline = deadline]
  BY DEF Correct
<1>2. /\ holder' = holder /\ lease' = lease /\ run' = run
      /\ stage' = stage /\ sweep' = sweep
  BY DEF Correct
<1>3. CASE b = c
  <2>1. holder[b] = NoOne /\ draft[b] = bids[b]
    BY <1>3 DEF Correct, DraftsAreOneEdgeAway, OneEdgeAway
  <2>2. draft'[b] = bids'[b]
    BY <1>1, <1>3, <2>1 DEF TypeOK
  <2> QED BY <1>2, <2>1, <2>2, LifecycleAssumption DEF OneEdgeAway
<1>4. CASE b # c
  <2>1. bids'[b] = bids[b] /\ draft'[b] = draft[b]
    BY <1>1, <1>4 DEF TypeOK
  <2> QED BY <1>2, <2>1, DraftFrame DEF DraftsAreOneEdgeAway
<1> QED BY <1>3, <1>4

(* Nobody regains a lease but by beginning anew.                           *)
LEMMA LeaseStart ==
    ASSUME TypeOK, NEW i \in Importer, Start(i), NEW j \in Importer, j # i,
           lease'[SourceOf[j]] = j
    PROVE  lease[SourceOf[j]] = j
<1>1. lease' = [lease EXCEPT ![SourceOf[i]] = i]
  BY DEF Start, Begin, BeginBackfill
<1>2. SourceOf[i] \in Source /\ SourceOf[j] \in Source
  BY LifecycleAssumption
<1> QED BY <1>1, <1>2 DEF TypeOK

(* Every step keeps every draft one edge away from its row.                *)
LEMMA DraftStep ==
    TypeOK /\ DraftsAreOneEdgeAway /\ ReadsHold /\ LocksAreHeldByTheBusy /\ [Next]_vars
        => DraftsAreOneEdgeAway'
<1> SUFFICES ASSUME TypeOK, DraftsAreOneEdgeAway, ReadsHold, LocksAreHeldByTheBusy, [Next]_vars
             PROVE  DraftsAreOneEdgeAway'
  OBVIOUS
<1>1. ASSUME NEW i \in Importer, Start(i) PROVE DraftsAreOneEdgeAway'
  <2> SUFFICES ASSUME NEW b \in Bid PROVE OneEdgeAway(b)'
    BY DEF DraftsAreOneEdgeAway
  <2>1. holder[b] # i
    <3>1. stage[i] = "idle"
      BY <1>1 DEF Start, Begin, BeginBackfill
    <3> QED BY <3>1 DEF LocksAreHeldByTheBusy
  <2>2. \A j \in Importer : j # i => run'[j] = run[j] /\ stage'[j] = stage[j]
    BY <1>1 DEF Start, Begin, BeginBackfill, Goto, TypeOK
  <2>3. bids' = bids /\ draft' = draft /\ holder' = holder /\ sweep' = sweep
    BY <1>1 DEF Start, Begin, BeginBackfill
  <2>4. \A j \in Importer : j # i /\ lease'[SourceOf[j]] = j => lease[SourceOf[j]] = j
    BY <1>1, LeaseStart
  <2> QED BY <2>1, <2>2, <2>3, <2>4, DraftFrame DEF DraftsAreOneEdgeAway
<1>6. ASSUME NEW i \in Importer, EndBackfill(i) PROVE DraftsAreOneEdgeAway'
  <2> SUFFICES ASSUME NEW b \in Bid PROVE OneEdgeAway(b)'
    BY DEF DraftsAreOneEdgeAway
  <2>1. holder[b] # i
    BY <1>6 DEF EndBackfill, LocksAreHeldByTheBusy
  <2>2. \A j \in Importer : j # i => run'[j] = run[j] /\ stage'[j] = stage[j]
    BY <1>6 DEF EndBackfill, Goto, TypeOK
  <2>3. /\ bids' = bids /\ draft' = draft /\ holder' = holder
        /\ lease' = lease /\ sweep' = sweep
    BY <1>6 DEF EndBackfill
  <2> QED BY <2>1, <2>2, <2>3, DraftFrame DEF DraftsAreOneEdgeAway
<1>2. ASSUME NEW i \in Importer, Commit(i) \/ Rollback(i) PROVE DraftsAreOneEdgeAway'
  <2>1. (Publish(i) \/ Discard(i)) /\ sweep' = sweep /\ lease' = lease
    BY <1>2 DEF Commit, Rollback
  <2>2. \A j \in Importer : j # i => run'[j] = run[j] /\ stage'[j] = stage[j]
    BY <1>2 DEF Commit, Rollback, Goto, TypeOK
  <2> QED BY <2>1, <2>2, DraftsEnd
<1>3. ASSUME NEW w \in Sweeper, StartSweep(w) \/ ReadPage(w) PROVE DraftsAreOneEdgeAway'
  <2> SUFFICES ASSUME NEW b \in Bid PROVE OneEdgeAway(b)'
    BY DEF DraftsAreOneEdgeAway
  <2>1. holder[b] # w
    BY <1>3 DEF StartSweep, ReadPage, LocksAreHeldByTheBusy
  <2>2. \A i \in Importer : stage'[i] = stage[i]
    BY <1>3, LifecycleAssumption DEF StartSweep, ReadPage, NextPage, Goto, TypeOK
  <2>3. \A v \in Sweeper : v # w => sweep'[v] = sweep[v]
    BY <1>3 DEF StartSweep, ReadPage, TypeOK
  <2>4. /\ bids' = bids /\ draft' = draft /\ holder' = holder
        /\ lease' = lease /\ run' = run
    BY <1>3 DEF StartSweep, ReadPage
  <2> QED BY <2>1, <2>2, <2>3, <2>4, DraftFrame DEF DraftsAreOneEdgeAway
<1>4. ASSUME NEW w \in Sweeper, CommitPage(w) \/ FailSweep(w) PROVE DraftsAreOneEdgeAway'
  <2>1. (Publish(w) \/ Discard(w)) /\ lease' = lease /\ run' = run
    BY <1>4 DEF CommitPage, FailSweep
  <2>3. \A v \in Sweeper : v # w => sweep'[v] = sweep[v]
    BY <1>4 DEF CommitPage, FailSweep, TypeOK
  <2>2. \A i \in Importer : stage'[i] = stage[i]
    BY <1>4, LifecycleAssumption DEF CommitPage, FailSweep, NextPage, Goto, TypeOK
  <2> QED BY <2>1, <2>2, <2>3, DraftsEnd
<1>5. CASE Tick \/ UNCHANGED vars
  <2> SUFFICES ASSUME NEW b \in Bid PROVE OneEdgeAway(b)'
    BY DEF DraftsAreOneEdgeAway
  <2>1. /\ bids' = bids /\ draft' = draft /\ holder' = holder /\ lease' = lease
        /\ run' = run /\ stage' = stage /\ sweep' = sweep
    BY <1>5 DEF Tick, vars
  <2> QED BY <2>1, DraftFrame DEF DraftsAreOneEdgeAway
<1> QED BY <1>1, <1>2, <1>3, <1>4, <1>5, <1>6, AcceptStep, QuarantineStep, DelistStep,
           LockPageStep, CorrectStep
        DEF Next, Intake, Finish, SweepStep

-----------------------------------------------------------------------------
(* What backfills have read, and the reasons of closed bids.               *)

(* A step that leaves the bids alone and starts no import keeps what has   *)
(* been read.                                                              *)
LEMMA ReadFrame ==
    ASSUME ReadsHold, bids' = bids,
           \A i \in Importer :
              \/ ~run'[i].backfill
              \/ /\ run'[i].backfill = run[i].backfill /\ run'[i].read = run[i].read
                 /\ run'[i].complete = run[i].complete
                 /\ lease'[SourceOf[i]] = i => lease[SourceOf[i]] = i
    PROVE  ReadsHold'
BY DEF ReadsHold, ReadHolds, OwnBids

(* What a transaction does to a bid it commits: a crawl with the lease     *)
(* tells no reason but the bid's own, and a sweep closes what was open.    *)
LEMMA CommitMoves ==
    ASSUME Inductive, NEW i \in Importer, Commit(i), NEW b \in Bid
    PROVE  \/ bids'[b] = bids[b]
           \/ /\ holder[b] = i /\ SourceOf[b] = SourceOf[i] /\ b \in run[i].seen
              /\ \E row \in Row :
                    /\ bids'[b] = Merge(row, bids[b], run[i].at)
                    /\ TellsOwnReason(row, bids[b])
                    /\ run[i].backfill => row = run[i].read[b]
           \/ /\ holder[b] = i /\ SourceOf[b] = SourceOf[i] /\ b \notin run[i].seen
              /\ bids[b].status = "open" /\ bids'[b] = Delisted(bids[b])
              /\ DelistingApplies(i)
<1>1. lease[SourceOf[i]] = i /\ bids' = [c \in Bid |-> IF holder[c] = i THEN draft[c] ELSE bids[c]]
  BY DEF Commit, Publish
<1>2. CASE holder[b] = i
  <2>1. Imported(i, b)
    BY <1>2 DEF Inductive, DraftsAreOneEdgeAway, OneEdgeAway
  <2> QED BY <1>1, <1>2, <2>1 DEF Imported
<1>3. CASE holder[b] # i
  BY <1>1, <1>3
<1> QED BY <1>2, <1>3

LEMMA CommitPageMoves ==
    ASSUME Inductive, NEW w \in Sweeper, CommitPage(w), NEW b \in Bid
    PROVE  \/ bids'[b] = bids[b]
           \/ bids[b].status = "open" /\ bids'[b] = ClosedByDeadline(bids[b])
<1>1. bids' = [c \in Bid |-> IF holder[c] = w THEN draft[c] ELSE bids[c]]
  BY DEF CommitPage, Publish
<1>2. CASE holder[b] = w
  <2>1. Swept(w, b)
    BY <1>2 DEF Inductive, DraftsAreOneEdgeAway, OneEdgeAway
  <2> QED BY <1>1, <1>2, <2>1 DEF Swept
<1>3. CASE holder[b] # w
  BY <1>1, <1>3
<1> QED BY <1>2, <1>3

(* A correction changes neither the status nor the reason.                 *)
LEMMA CorrectMoves ==
    ASSUME TypeOK, NEW c \in Bid, Correct(c), NEW b \in Bid
    PROVE  bids'[b].status = bids[b].status /\ bids'[b].reason = bids[b].reason
<1>1. PICK deadline : bids' = [bids EXCEPT ![c].deadline = deadline]
  BY DEF Correct
<1>2. bids[b] \in Record
  BY DEF TypeOK
<1> QED BY <1>1, <1>2 DEF TypeOK, Record

(* Only these and corrections change the table.                            *)
LEMMA WhoWrites ==
    ASSUME [Next]_vars
    PROVE  \/ \E i \in Importer : Commit(i)
           \/ \E w \in Sweeper : CommitPage(w)
           \/ \E b \in Bid : Correct(b)
           \/ bids' = bids
BY DEF Next, vars, Start, Intake, Finish, SweepStep, Begin, BeginBackfill, EndBackfill, Accept,
       Quarantine, Delist, Rollback, Discard, StartSweep, ReadPage, LockPage, FailSweep, Tick

(* Every step leaves reasons to closed bids.                               *)
LEMMA ReasonStep == Inductive /\ [Next]_vars => OnlyClosedHaveReasons'
<1> SUFFICES ASSUME Inductive, [Next]_vars, NEW b \in Bid, bids'[b].reason # "none"
             PROVE  bids'[b].status = "closed"
  BY DEF OnlyClosedHaveReasons, Register!OnlyClosedHaveReasons
<1>0. bids[b] \in Record
  BY DEF Inductive, TypeOK
<1>1. bids[b].reason # "none" => bids[b].status = "closed"
  BY DEF Inductive, OnlyClosedHaveReasons, Register!OnlyClosedHaveReasons
<1>2. ASSUME NEW i \in Importer, Commit(i) PROVE bids'[b].status = "closed"
  <2>1. ASSUME NEW row \in Row, bids'[b] = Merge(row, bids[b], run[i].at),
               TellsOwnReason(row, bids[b])
        PROVE  bids'[b].status = "closed"
    BY <1>1, <2>1 DEF Merge, TellsOwnReason
  <2>2. bids'[b] = Delisted(bids[b]) => bids'[b].status = "closed"
    BY <1>0 DEF Delisted, Record
  <2> QED BY <1>1, <1>2, <2>1, <2>2, CommitMoves
<1>3. ASSUME NEW w \in Sweeper, CommitPage(w) PROVE bids'[b].status = "closed"
  <2>1. bids'[b] = ClosedByDeadline(bids[b]) => bids'[b].status = "closed"
    BY <1>0 DEF ClosedByDeadline, Record
  <2> QED BY <1>1, <1>3, <2>1, CommitPageMoves
<1>4. ASSUME NEW c \in Bid, Correct(c) PROVE bids'[b].status = "closed"
  <2>1. bids'[b].status = bids[b].status /\ bids'[b].reason = bids[b].reason
    BY <1>4, CorrectMoves DEF Inductive
  <2> QED BY <1>1, <2>1
<1>5. CASE bids' = bids
  BY <1>1, <1>5
<1> QED BY <1>2, <1>3, <1>4, <1>5, WhoWrites

(* Every step keeps what a backfill with the lease has read, but for the   *)
(* closes of sweeps.                                                       *)
LEMMA ReadStep == Inductive /\ [Next]_vars => ReadsHold'
<1> SUFFICES ASSUME Inductive, [Next]_vars PROVE ReadsHold'
  OBVIOUS
<1> USE DEF Inductive
<1>1. ASSUME NEW i \in Importer, Begin(i) PROVE ReadsHold'
  <2>1. ~run'[i].backfill /\ \A j \in Importer : j # i => run'[j] = run[j]
    BY <1>1, BeginRun DEF Begin, TypeOK
  <2>2. bids' = bids /\ \A j \in Importer : j # i /\ lease'[SourceOf[j]] = j => lease[SourceOf[j]] = j
    BY <1>1, LeaseStart DEF Begin, Start
  <2> QED BY <2>1, <2>2, ReadFrame
<1>2. ASSUME NEW i \in Importer, BeginBackfill(i) PROVE ReadsHold'
  <2>1. bids' = bids /\ \A j \in Importer : j # i => run'[j] = run[j]
    BY <1>2 DEF BeginBackfill, TypeOK
  <2>2. \A j \in Importer : j # i /\ lease'[SourceOf[j]] = j => lease[SourceOf[j]] = j
    BY <1>2, LeaseStart DEF Start
  <2>3. ~run'[i].complete /\ \A b \in OwnBids(i) : run'[i].read[b] = bids'[b]
    BY <1>2, <2>1, BackfillRun
  <2> QED BY <2>1, <2>2, <2>3 DEF ReadsHold, ReadHolds, OwnBids
<1>3. ASSUME NEW i \in Importer, EndBackfill(i) \/ Intake(i) \/ Delist(i) PROVE ReadsHold'
  <2>1. bids' = bids /\ lease' = lease
    BY <1>3 DEF EndBackfill, Intake, Accept, Quarantine, Delist
  <2>2. /\ run'[i].backfill = run[i].backfill /\ run'[i].read = run[i].read
        /\ run'[i].complete = run[i].complete
    <3>1. \/ run' = run
          \/ \E b : run' = [run EXCEPT ![i].seen = @ \union {b}]
          \/ \E b : run' = [run EXCEPT ![i].quarantined = @ \union {b}]
          \/ \E success : run' = [run EXCEPT ![i] = [run[i] EXCEPT !.success = success, !.at = clock]]
      BY <1>3 DEF EndBackfill, Intake, Accept, Quarantine, Delist
    <3>2. run \in [Importer -> Run]
      BY DEF TypeOK
    <3> HIDE DEF Inductive
    <3> QED BY <3>1, <3>2 DEF Run
  <2>3. \A j \in Importer : j # i => run'[j] = run[j]
    BY <1>3 DEF EndBackfill, Intake, Accept, Quarantine, Delist, TypeOK
  <2> QED BY <2>1, <2>2, <2>3, ReadFrame
<1>4. ASSUME NEW i \in Importer, Finish(i) PROVE ReadsHold'
  <2>1. ~run'[i].backfill /\ lease' = lease /\ \A j \in Importer : j # i => run'[j] = run[j]
    BY <1>4 DEF Finish, Commit, Rollback, TypeOK, NoRun
  <2>2. CASE Rollback(i)
    <3>1. bids' = bids
      BY <2>2 DEF Rollback, Discard
    <3> QED BY <2>1, <3>1, ReadFrame
  <2>3. CASE Commit(i)
    <3>1. ASSUME NEW j \in Importer, j # i, lease[SourceOf[j]] = j, NEW b \in OwnBids(j)
          PROVE  bids'[b] = bids[b]
      <4>1. lease[SourceOf[i]] = i /\ b \in Bid /\ SourceOf[b] = SourceOf[j]
        BY <2>3 DEF Commit, OwnBids
      <4> QED BY <2>3, <3>1, <4>1, CommitMoves
    <3>2. ASSUME NEW j \in Importer, run'[j].backfill
          PROVE  /\ ~run'[j].complete
                 /\ lease'[SourceOf[j]] = j => \A b \in OwnBids(j) : ReadHolds(j, b)'
      <4>1. j # i /\ run'[j] = run[j]
        BY <2>1, <3>2
      <4> QED BY <2>1, <3>1, <3>2, <4>1 DEF ReadsHold, ReadHolds
    <3> QED BY <3>2 DEF ReadsHold, OwnBids
  <2> QED BY <1>4, <2>2, <2>3 DEF Finish
<1>5. ASSUME NEW w \in Sweeper, CommitPage(w) PROVE ReadsHold'
  <2>1. run' = run /\ lease' = lease
    BY <1>5 DEF CommitPage
  <2>2. ASSUME NEW j \in Importer, NEW b \in Bid, ReadHolds(j, b) PROVE ReadHolds(j, b)'
    <3>1. CASE bids'[b] = bids[b]
      BY <2>1, <2>2, <3>1 DEF ReadHolds
    <3>2. CASE bids[b].status = "open" /\ bids'[b] = ClosedByDeadline(bids[b])
      <4>1. bids[b].reason = "none"
        BY <3>2 DEF OnlyClosedHaveReasons, Register!OnlyClosedHaveReasons
      <4> QED BY <2>1, <2>2, <3>2, <4>1 DEF ReadHolds, ClosedByDeadline
    <3> QED BY <1>5, <3>1, <3>2, CommitPageMoves
  <2> QED BY <2>1, <2>2 DEF ReadsHold, OwnBids
<1>6. ASSUME NEW c \in Bid, Correct(c) PROVE ReadsHold'
  <2>1. run' = run /\ lease' = lease
    BY <1>6 DEF Correct
  <2>2. \A b \in Bid : bids'[b].status = bids[b].status /\ bids'[b].reason = bids[b].reason
    BY <1>6, CorrectMoves
  <2> QED BY <2>1, <2>2 DEF ReadsHold, ReadHolds, OwnBids
<1>7. ASSUME NEW w \in Sweeper, StartSweep(w) \/ ReadPage(w) \/ LockPage(w) \/ FailSweep(w)
      PROVE  ReadsHold'
  <2>1. bids' = bids /\ lease' = lease /\ run' = run
    BY <1>7 DEF StartSweep, ReadPage, LockPage, FailSweep, Discard
  <2> QED BY <2>1, ReadFrame
<1>8. CASE Tick \/ UNCHANGED vars
  <2>1. bids' = bids /\ lease' = lease /\ run' = run
    BY <1>8 DEF Tick, vars
  <2> QED BY <2>1, ReadFrame
<1> QED BY <1>1, <1>2, <1>3, <1>4, <1>5, <1>6, <1>7, <1>8 DEF Next, Start, SweepStep

(* At first every bid is absent, free and without a draft of its own.      *)
LEMMA InductiveInit == Init => Inductive
<1> SUFFICES ASSUME Init PROVE Inductive
  OBVIOUS
<1>1. TypeOK
  BY TypeInit
<1>2. DraftsAreOneEdgeAway
  BY LifecycleAssumption DEF Init, DraftsAreOneEdgeAway, OneEdgeAway
<1>3. JudgedByThePast
  BY LifecycleAssumption DEF Init, JudgedByThePast, NoRun, NoSweep
<1>4. LocksAreHeldByTheBusy
  BY LifecycleAssumption DEF Init, LocksAreHeldByTheBusy
<1>5. OnlyClosedHaveReasons
  BY DEF Init, Absent, OnlyClosedHaveReasons, Register!OnlyClosedHaveReasons
<1>6. ReadsHold
  BY DEF Init, ReadsHold, NoRun
<1> QED BY <1>1, <1>2, <1>3, <1>4, <1>5, <1>6 DEF Inductive

(* A free row has no draft, and the draft of a row that an import or a     *)
(* sweep holds is one edge of the lifecycle away from the committed row,   *)
(* judged by an instant that has come.                                     *)
THEOREM InductiveCorrect == Spec => []Inductive
<1>1. Inductive /\ [Next]_vars => Inductive'
  BY TypeStep, DraftStep, JudgedStep, LockStep, ReasonStep, ReadStep DEF Inductive
<1> QED BY <1>1, InductiveInit, PTL DEF Spec

-----------------------------------------------------------------------------
(* The refinement.                                                         *)

(* The rules of the register are those of its users.                       *)
LEMMA SameRules ==
    /\ Register!NoDeadline = NoDeadline /\ Register!Absent = Absent
    /\ Register!Record = Record /\ Register!Row = Row
    /\ \A deadline, now : Register!Passed(deadline, now) <=> Passed(deadline, now)
    /\ \A old : Register!ClosedByDeadline(old) = ClosedByDeadline(old)
    /\ \A old : Register!Delisted(old) = Delisted(old)
    /\ \A row, old : Register!TellsOwnReason(row, old) <=> TellsOwnReason(row, old)
    /\ \A row, old, at : Register!Merge(row, old, at) = Merge(row, old, at)
<1>1. /\ Register!NoDeadline = NoDeadline /\ Register!Status = Status
      /\ Register!Reason = Reason
  BY DEF Register!NoDeadline, NoDeadline, Register!Status, Status, Register!Reason, Reason
<1>2. Register!Absent = Absent /\ Register!Record = Record /\ Register!Row = Row
  BY <1>1 DEF Register!Absent, Absent, Register!Record, Record, Register!Row, Row
<1>3. \A deadline, now : Register!Passed(deadline, now) <=> Passed(deadline, now)
  BY <1>1 DEF Register!Passed, Passed
<1>4. /\ \A old : Register!ClosedByDeadline(old) = ClosedByDeadline(old)
      /\ \A old : Register!Delisted(old) = Delisted(old)
  BY DEF Register!ClosedByDeadline, ClosedByDeadline, Register!Delisted, Delisted
<1>5. ASSUME NEW row, NEW old, NEW at
      PROVE  Register!Merge(row, old, at) = Merge(row, old, at)
  <2>1. Register!KnownDeadline(row, old) = KnownDeadline(row, old)
    BY <1>1 DEF Register!KnownDeadline, KnownDeadline
  <2> QED BY <1>3, <2>1 DEF Register!Merge, Merge
<1>6. \A row, old : Register!TellsOwnReason(row, old) <=> TellsOwnReason(row, old)
  BY DEF Register!TellsOwnReason, TellsOwnReason
<1> QED BY <1>1, <1>2, <1>3, <1>4, <1>5, <1>6

(* What an import commits is one import of the register.                   *)
LEMMA CommitImports ==
    ASSUME Inductive, NEW i \in Importer, Commit(i)
    PROVE  Register!Import
<1>1. clock' = clock /\ bids' = [b \in Bid |-> IF holder[b] = i THEN draft[b] ELSE bids[b]]
  BY DEF Commit, Publish
<1>2. run[i].at \in 0..clock
  BY DEF Inductive, TypeOK, JudgedByThePast, Run
<1>3. bids' \in [Bid -> Record]
  BY <1>1 DEF Inductive, TypeOK
<1>4. ASSUME NEW b \in Bid
      PROVE  \/ bids'[b] = bids[b]
             \/ \E row \in Row :
                   TellsOwnReason(row, bids[b]) /\ bids'[b] = Merge(row, bids[b], run[i].at)
             \/ bids[b].status = "open" /\ bids'[b] = Delisted(bids[b])
  BY CommitMoves
<1> QED BY <1>1, <1>2, <1>3, <1>4, SameRules DEF Register!Import

(* What a sweep commits is one sweep of the register.                      *)
LEMMA CommitSweeps ==
    ASSUME Inductive, NEW w \in Sweeper, CommitPage(w)
    PROVE  Register!Sweep
<1>1. clock' = clock /\ bids' = [b \in Bid |-> IF holder[b] = w THEN draft[b] ELSE bids[b]]
  BY DEF CommitPage, Publish
<1>2. bids' \in [Bid -> Record]
  BY <1>1 DEF Inductive, TypeOK
<1>3. ASSUME NEW b \in Bid
      PROVE  \/ bids'[b] = bids[b]
             \/ /\ bids[b].status = "open" /\ Passed(bids[b].deadline, clock)
                /\ bids'[b] = ClosedByDeadline(bids[b])
  <2>1. CASE holder[b] = w
    <3>1. Swept(w, b)
      BY <2>1 DEF Inductive, DraftsAreOneEdgeAway, OneEdgeAway
    <3>2. CASE bids[b].status = "open" /\ Passed(bids[b].deadline, sweep[w].now)
               /\ draft[b] = ClosedByDeadline(bids[b])
      <4>1. bids[b].deadline \in Nat
        <5>1. bids[b].deadline \in Deadline \union {NoDeadline}
          BY DEF Inductive, TypeOK, Record
        <5>2. Deadline \union {NoDeadline} \subseteq Nat
          BY DeadlineAssumption DEF NoDeadline
        <5> QED BY <5>1, <5>2
      <4>2. sweep[w].now \in Nat /\ clock \in Nat /\ sweep[w].now <= clock
        BY DEF Inductive, TypeOK, JudgedByThePast, Local
      <4>3. Passed(bids[b].deadline, clock)
        BY <3>2, <4>1, <4>2 DEF Passed
      <4> QED BY <1>1, <2>1, <3>2, <4>3
    <3> QED BY <1>1, <2>1, <3>1, <3>2 DEF Swept
  <2> QED BY <1>1, <2>1
<1> QED BY <1>1, <1>2, <1>3, SameRules DEF Register!Sweep

(* The transactions of imports and sweeps, with their stale reads, locks,  *)
(* skipped rows, rollbacks and failures, change the bids as the register   *)
(* does, each of them at once when it commits.                             *)
THEOREM Refinement == Spec => ImplementsRegister
<1>1. Init => Register!Init
  BY SameRules DEF Init, Register!Init
<1>2. Inductive /\ [Next]_vars => [Register!Next]_(Register!registerVars)
  <2> SUFFICES ASSUME Inductive, [Next]_vars
               PROVE  Register!Next \/ UNCHANGED Register!registerVars
    OBVIOUS
  <2> USE DEF Register!registerVars
  <2>1. ASSUME NEW i \in Importer, Commit(i) PROVE Register!Next
    BY <2>1, CommitImports DEF Register!Next
  <2>2. ASSUME NEW w \in Sweeper, CommitPage(w) PROVE Register!Next
    BY <2>2, CommitSweeps DEF Register!Next
  <2>3. ASSUME NEW b \in Bid, Correct(b) PROVE Register!Next
    <3>1. Register!Correct
      BY <2>3, SameRules DEF Correct, Register!Correct
    <3> QED BY <3>1 DEF Register!Next
  <2>4. CASE Tick
    <3>1. Register!Tick
      BY <2>4 DEF Tick, Register!Tick
    <3> QED BY <3>1 DEF Register!Next
  <2>5. ASSUME NEW i \in Importer,
               Start(i) \/ EndBackfill(i) \/ Intake(i) \/ Delist(i) \/ Rollback(i)
        PROVE  UNCHANGED Register!registerVars
    BY <2>5 DEF Start, Begin, BeginBackfill, EndBackfill, Intake, Accept, Quarantine, Delist, Rollback, Discard
  <2>6. ASSUME NEW w \in Sweeper,
               StartSweep(w) \/ ReadPage(w) \/ LockPage(w) \/ FailSweep(w)
        PROVE  UNCHANGED Register!registerVars
    BY <2>6 DEF StartSweep, ReadPage, LockPage, FailSweep, Discard
  <2>7. CASE UNCHANGED vars
    BY <2>7 DEF vars
  <2> QED BY <2>1, <2>2, <2>3, <2>4, <2>5, <2>6, <2>7 DEF Next, Finish, SweepStep
<1> QED BY <1>1, <1>2, InductiveCorrect, PTL DEF Spec, ImplementsRegister, Register!Spec

(* The register's assumption holds of its instance.                        *)
LEMMA RegisterDeadlines == Register!DeadlineAssumption
BY DeadlineAssumption DEF Register!DeadlineAssumption

(* No import, delisting or sweep closes an awarded bid, whenever it read   *)
(* it.                                                                     *)
THEOREM AwardsStay == Spec => AwardedNeverCloses
BY Refinement, Register!AwardsStay, RegisterDeadlines, PTL
   DEF ImplementsRegister, AwardedNeverCloses

(* A bid is closed for its deadline only when the deadline on record then  *)
(* has passed, however stale the reader's page or crawl.                   *)
THEOREM DeadlinesWereDue == Spec => DeadlineClosesWereDue
BY Refinement, Register!DeadlinesWereDue, RegisterDeadlines, PTL
   DEF ImplementsRegister, DeadlineClosesWereDue

(* A bid that is open again, or awarded, carries no reason of a close.     *)
THEOREM ReasonsOfClosed == Spec => []OnlyClosedHaveReasons
<1>1. Inductive => OnlyClosedHaveReasons
  BY DEF Inductive
<1> QED BY <1>1, InductiveCorrect, PTL

(* The crawls stored for a source are stored in the order they ended in,   *)
(* though an import may outlive its lease.                                 *)
THEOREM StoredInOrder == Spec => CrawlsStoredInOrder
<1>1. Inductive /\ [Next]_vars => [\A s \in Source : logged[s] <= logged'[s]]_vars
  <2> SUFFICES ASSUME Inductive, Next, NEW s \in Source PROVE logged[s] <= logged'[s]
    OBVIOUS
  <2>1. logged[s] \in Nat
    BY DEF Inductive, TypeOK
  <2>2. ASSUME NEW i \in Importer, Commit(i) PROVE logged[s] <= logged'[s]
    <3>1. lease[SourceOf[i]] = i /\ stage[i] \in {"importing", "delisted"}
      BY <2>2 DEF Commit
    <3>2. logged[SourceOf[i]] <= run[i].at
      BY <3>1 DEF Inductive, JudgedByThePast
    <3>3. logged' = [logged EXCEPT ![SourceOf[i]] = run[i].at]
      BY <2>2 DEF Commit
    <3> QED BY <2>1, <3>2, <3>3 DEF Inductive, TypeOK
  <2>3. CASE logged' = logged
    BY <2>1, <2>3
  <2>4. (\E i \in Importer : Commit(i)) \/ logged' = logged
    BY DEF Next, Start, Intake, Finish, SweepStep, Begin, BeginBackfill, EndBackfill, Accept,
           Quarantine, Delist, Rollback, StartSweep, ReadPage, LockPage, CommitPage, FailSweep,
           Correct, Tick
  <2> QED BY <2>2, <2>3, <2>4
<1> QED BY <1>1, InductiveCorrect, PTL DEF Spec, CrawlsStoredInOrder

(* A bid is closed as delisted only by the import that holds it, of a      *)
(* complete walk of the open list of the bid's own source, no row of which *)
(* was the bid's or was quarantined.                                       *)
THEOREM DelistingsProved == Spec => DelistedWasUnlisted
<1> DEFINE Proved(b) ==
        bids'[b].reason = "delisted" /\ bids[b].reason # "delisted" =>
            /\ holder[b] \in Importer
            /\ LET r == run[holder[b]] IN
                /\ r.success /\ r.openList /\ r.complete /\ r.quarantined = {}
                /\ b \notin r.seen
            /\ SourceOf[b] = SourceOf[holder[b]]
<1>1. Inductive /\ [Next]_vars => [\A b \in Bid : Proved(b)]_vars
  <2> SUFFICES ASSUME Inductive, Next, NEW b \in Bid,
                      bids'[b].reason = "delisted", bids[b].reason # "delisted"
               PROVE  Proved(b)
    OBVIOUS
  <2>1. ASSUME NEW i \in Importer, Commit(i) PROVE Proved(b)
    <3>1. ASSUME NEW row \in Row, bids'[b] = Merge(row, bids[b], run[i].at),
                 TellsOwnReason(row, bids[b])
          PROVE  FALSE
      BY <3>1 DEF Merge, TellsOwnReason
    <3> QED BY <2>1, <3>1, CommitMoves DEF DelistingApplies
  <2>2. ASSUME NEW w \in Sweeper, CommitPage(w) PROVE FALSE
    <3>1. bids[b] \in Record
      BY DEF Inductive, TypeOK
    <3>2. ClosedByDeadline(bids[b]).reason = "deadline_passed"
      BY <3>1 DEF ClosedByDeadline, Record
    <3> QED BY <2>2, <3>2, CommitPageMoves
  <2>3. ASSUME NEW c \in Bid, Correct(c) PROVE FALSE
    BY <2>3, CorrectMoves DEF Inductive
  <2> QED BY <2>1, <2>2, <2>3, WhoWrites
<1> QED BY <1>1, InductiveCorrect, PTL DEF Spec, DelistedWasUnlisted

(* A backfill that commits, however long ago it read the bids it stores,   *)
(* changes no status but by closing a bid for its deadline or by opening   *)
(* one that a sweep closed for it since.                                   *)
THEOREM BackfillsProved == Spec => BackfillsBringNoNews
<1> DEFINE NoNews(i, b) ==
        run[i].backfill /\ holder[b] = i /\ bids'[b].status # bids[b].status =>
            /\ {bids[b].status, bids'[b].status} = {"open", "closed"}
            /\ "deadline_passed" \in {bids[b].reason, bids'[b].reason}
<1>1. Inductive /\ [Next]_vars => [\A i \in Importer, b \in Bid : NoNews(i, b)]_vars
  <2> SUFFICES ASSUME Inductive, Next, NEW i \in Importer, NEW b \in Bid,
                      run[i].backfill, holder[b] = i, bids'[b].status # bids[b].status
               PROVE  NoNews(i, b)
    OBVIOUS
  <2>1. Commit(i)
    <3>1. ASSUME NEW j \in Importer, Commit(j), j # i PROVE FALSE
      BY <3>1, CommitMoves
    <3>2. ASSUME NEW w \in Sweeper, CommitPage(w) PROVE FALSE
      <4>1. w # i /\ bids'[b] = IF holder[b] = w THEN draft[b] ELSE bids[b]
        BY <3>2, LifecycleAssumption DEF CommitPage, Publish
      <4> QED BY <4>1
    <3>3. ASSUME NEW c \in Bid, Correct(c) PROVE FALSE
      BY <3>3, CorrectMoves DEF Inductive
    <3> QED BY <3>1, <3>2, <3>3, WhoWrites
  <2>2. ~DelistingApplies(i)
    BY DEF Inductive, ReadsHold, DelistingApplies
  <2>3. PICK row \in Row : /\ bids'[b] = Merge(row, bids[b], run[i].at)
                           /\ row = run[i].read[b] /\ SourceOf[b] = SourceOf[i]
    BY <2>1, <2>2, CommitMoves
  <2>4. ReadHolds(i, b)
    BY <2>1, <2>3 DEF Commit, Inductive, ReadsHold, OwnBids
  <2> QED BY <2>3, <2>4 DEF ReadHolds, Merge
<1> QED BY <1>1, InductiveCorrect, PTL DEF Spec, BackfillsBringNoNews

------------------------------------------------------------------------
(* The pages of a sweep.                                                   *)

(* A set of numbers that is not empty has a least element.                 *)
LEMMA LeastElement ==
    ASSUME NEW S \in SUBSET Nat, S # {}
    PROVE  \E x \in S : \A y \in S : x <= y
<1>1. PICK x \in S : \A y \in S : ~ (<<y, x>> \in OpToRel(<, Nat))
  BY NatLessThanWellFounded, WFMin
<1>2. \A y \in S : ~(y < x)
  BY <1>1 DEF OpToRel
<1> QED BY <1>2

(* A page is an initial segment of what it is taken from.                  *)
LEMMA PagesAreSegments ==
    ASSUME NEW S \in SUBSET Nat, IsFiniteSet(S),
           NEW c \in FirstOf(S), NEW b \in S, b <= c
    PROVE  b \in FirstOf(S)
<1> DEFINE Below(x) == {d \in S : d < x}
<1>1. Below(b) \in SUBSET Below(c)
  <2>1. ASSUME NEW d \in S, d < b PROVE d < c
    <3>1. d \in Nat /\ b \in Nat /\ c \in Nat
      BY DEF FirstOf
    <3> QED BY <2>1, <3>1
  <2> QED BY <2>1
<1>2. IsFiniteSet(Below(c))
  BY FS_Subset
<1>3. Cardinality(Below(b)) <= Cardinality(Below(c))
  BY <1>1, <1>2, FS_Subset
<1>4. Cardinality(Below(b)) \in Nat /\ Cardinality(Below(c)) \in Nat
  BY <1>1, <1>2, FS_Subset, FS_CardinalityType
<1> QED BY <1>3, <1>4, LifecycleAssumption DEF FirstOf

(* A page that leaves something out is full: who sees a page that is not   *)
(* full has seen all there was.                                            *)
LEMMA ShortPagesAreAll ==
    ASSUME NEW S \in SUBSET Nat, IsFiniteSet(S), FirstOf(S) # S
    PROVE  Cardinality(FirstOf(S)) >= PageSize
<1> DEFINE Below(x) == {d \in S : d < x}
<1>1. PICK x \in S \ FirstOf(S) : \A y \in S \ FirstOf(S) : x <= y
  <2>1. S \ FirstOf(S) \in SUBSET Nat /\ S \ FirstOf(S) # {}
    BY DEF FirstOf
  <2> QED BY <2>1, LeastElement
<1>2. Below(x) \in SUBSET FirstOf(S)
  <2>1. ASSUME NEW d \in S, d < x PROVE d \in FirstOf(S)
    <3>1. d \in Nat /\ x \in Nat
      OBVIOUS
    <3> QED BY <1>1, <2>1, <3>1
  <2> QED BY <2>1
<1>3. IsFiniteSet(FirstOf(S)) /\ IsFiniteSet(Below(x))
  BY FS_Subset DEF FirstOf
<1>4. Cardinality(Below(x)) <= Cardinality(FirstOf(S))
  BY <1>2, <1>3, FS_Subset
<1>5. Cardinality(Below(x)) >= PageSize
  BY <1>1, <1>3, FS_CardinalityType, LifecycleAssumption DEF FirstOf
<1> QED BY <1>3, <1>4, <1>5, FS_CardinalityType, LifecycleAssumption

(* No page has more bids than the limit.                                   *)
LEMMA PagesAreBounded ==
    ASSUME NEW S \in SUBSET Nat, IsFiniteSet(S),
           NEW m \in FirstOf(S), \A b \in FirstOf(S) : b <= m
    PROVE  Cardinality(FirstOf(S)) <= PageSize
<1> DEFINE Below(x) == {d \in S : d < x}
<1>1. FirstOf(S) \ {m} \in SUBSET Below(m)
  <2>1. ASSUME NEW d \in FirstOf(S), d # m PROVE d \in S /\ d < m
    <3>1. d \in S /\ m \in S
      BY DEF FirstOf
    <3>2. d \in Nat /\ m \in Nat
      BY <3>1
    <3> QED BY <2>1, <3>1, <3>2
  <2> QED BY <2>1
<1>2. IsFiniteSet(FirstOf(S)) /\ IsFiniteSet(Below(m))
  BY FS_Subset DEF FirstOf
<1>3. Cardinality(FirstOf(S) \ {m}) <= Cardinality(Below(m))
  BY <1>1, <1>2, FS_Subset
<1>4. Cardinality(FirstOf(S) \ {m}) = Cardinality(FirstOf(S)) - 1
  BY <1>2, FS_RemoveElement
<1>5. Cardinality(Below(m)) < PageSize
  BY DEF FirstOf
<1> QED BY <1>2, <1>3, <1>4, <1>5, FS_CardinalityType, LifecycleAssumption

(* The open bids behind a cursor, of which a page is the first.            *)
OpenBeyond(w) == {b \in Bid : b > sweep[w].after /\ bids[b].status = "open"}

LEMMA OpenBidsAreNumbers ==
    ASSUME NEW w
    PROVE  OpenBeyond(w) \in SUBSET Nat /\ IsFiniteSet(OpenBeyond(w))
BY LifecycleAssumption, FS_Subset DEF OpenBeyond

(* What reading a page does. The sweep ends with a page that leaves no     *)
(* open bid out and has none to close; else the cursor moves to the page's *)
(* last bid. Open bids up to the cursor are in it, and if it is not full   *)
(* no other is left.                                                       *)
LEMMA PageRead ==
    ASSUME TypeOK, NEW w \in Sweeper, ReadPage(w)
    PROVE  LET page == FirstOf(OpenBeyond(w))
               expired == {b \in page : Passed(bids[b].deadline, sweep[w].now)}
           IN
           /\ stage'[w] \in {"reading", "closing", "idle"}
           /\ expired # {} => stage'[w] = "closing"
           /\ stage'[w] = "idle" => page = OpenBeyond(w)
           /\ stage'[w] # "idle" =>
                /\ sweep'[w].now = sweep[w].now /\ sweep'[w].expired = expired
                /\ sweep'[w].after \in page /\ \A b \in page : b <= sweep'[w].after
                /\ ~sweep'[w].full => page = OpenBeyond(w) /\ stage'[w] = "closing"
<1> DEFINE page == FirstOf(OpenBeyond(w))
           expired == {b \in page : Passed(bids[b].deadline, sweep[w].now)}
           full == Cardinality(page) = PageSize
<1>1. PICK last \in IF page = {} THEN {sweep[w].after} ELSE page :
        /\ \A b \in page : b <= last
        /\ sweep' = [sweep EXCEPT ![w] =
                IF expired = {} /\ ~full THEN NoSweep
                ELSE [now |-> sweep[w].now, after |-> last,
                      expired |-> expired, full |-> full]]
  BY DEF ReadPage, OpenBeyond
<1>2. sweep'[w] = IF expired = {} /\ ~full THEN NoSweep
                  ELSE [now |-> sweep[w].now, after |-> last,
                        expired |-> expired, full |-> full]
  BY <1>1 DEF TypeOK
<1>3. stage'[w] = IF expired = {} THEN IF full THEN "reading" ELSE "idle" ELSE "closing"
  BY DEF ReadPage, OpenBeyond, NextPage, Goto, TypeOK
<1>4. page = {} => ~full /\ expired = {}
  BY FS_EmptySet, LifecycleAssumption
<1>5. ~full => page = OpenBeyond(w)
  <2>1. ASSUME ~full, page # OpenBeyond(w) PROVE FALSE
    <3>1. Cardinality(page) >= PageSize
      BY <2>1, OpenBidsAreNumbers, ShortPagesAreAll
    <3>2. Cardinality(page) \in Nat
      BY OpenBidsAreNumbers, FS_Subset, FS_CardinalityType DEF FirstOf
    <3>3. page # {}
      BY <2>1, <3>1, FS_EmptySet, LifecycleAssumption
    <3>4. Cardinality(page) <= PageSize
      BY <1>1, <3>3, OpenBidsAreNumbers, PagesAreBounded
    <3> QED BY <2>1, <3>1, <3>2, <3>4, LifecycleAssumption
  <2> QED BY <2>1
<1> HIDE DEF page, expired, full
<1>6. stage'[w] # "idle" =>
        /\ sweep'[w].now = sweep[w].now /\ sweep'[w].after = last
        /\ sweep'[w].expired = expired /\ sweep'[w].full = full
  BY <1>2, <1>3
<1>7. page # {} => last \in page
  BY <1>1
<1>8. \A b \in page : b <= last
  BY <1>1
<1> QED BY <1>3, <1>4, <1>5, <1>6, <1>7, <1>8 DEF page, expired

(* The steps of others leave a sweep where it is, and the bids it holds as *)
(* it has written them.                                                    *)
LEMMA OthersLeaveSweeps ==
    ASSUME TypeOK, NEW w \in Sweeper, Next,
           ~SweepStep(w), ~FailSweep(w)
    PROVE  /\ stage'[w] = stage[w] /\ sweep'[w] = sweep[w]
           /\ \A b \in Bid : holder[b] = w => holder'[b] = w /\ draft'[b] = draft[b]
<1>1. CASE \E i \in Importer :
              Start(i) \/ EndBackfill(i) \/ Intake(i) \/ Delist(i) \/ Finish(i)
  <2>1. PICK i \in Importer :
            Start(i) \/ EndBackfill(i) \/ Intake(i) \/ Delist(i) \/ Finish(i)
    BY <1>1
  <2>2. i # w /\ w # NoOne
    BY LifecycleAssumption
  <2>3. stage'[w] = stage[w] /\ sweep'[w] = sweep[w]
    BY <2>1, <2>2 DEF Start, Begin, BeginBackfill, EndBackfill, Intake, Accept, Quarantine,
                      Delist, Finish, Commit, Rollback, Goto, TypeOK
  <2>4. ASSUME NEW b \in Bid, holder[b] = w PROVE holder'[b] = w /\ draft'[b] = draft[b]
    <3>1. CASE \E c \in Bid : Accept(i, c) \/ Quarantine(i, c)
      BY <2>2, <2>4, <3>1 DEF Accept, Quarantine, MayLock, TypeOK
    <3>2. CASE Delist(i)
      BY <2>2, <2>4, <3>2 DEF Delist, MayLock, TypeOK
    <3>3. CASE Start(i) \/ EndBackfill(i) \/ Finish(i)
      BY <2>2, <2>4, <3>3
         DEF Start, Begin, BeginBackfill, EndBackfill, Finish, Commit, Rollback, Publish, Discard, Release, TypeOK
    <3> QED BY <2>1, <3>1, <3>2, <3>3 DEF Intake
  <2> QED BY <2>3, <2>4
<1>2. CASE \E v \in Sweeper \ {w} : SweepStep(v) \/ FailSweep(v)
  <2>1. PICK v \in Sweeper \ {w} : SweepStep(v) \/ FailSweep(v)
    BY <1>2
  <2>2. w # NoOne
    BY LifecycleAssumption
  <2>3. CASE StartSweep(v) \/ ReadPage(v)
    BY <2>1, <2>3 DEF StartSweep, ReadPage, NextPage, Goto, TypeOK
  <2>4. CASE LockPage(v)
    BY <2>1, <2>2, <2>4 DEF LockPage, Goto, TypeOK
  <2>5. CASE CommitPage(v) \/ FailSweep(v)
    BY <2>1, <2>2, <2>5 DEF CommitPage, FailSweep, NextPage, Goto, Publish, Discard, Release, TypeOK
  <2> QED BY <2>1, <2>3, <2>4, <2>5 DEF SweepStep
<1>3. CASE (\E b \in Bid : Correct(b)) \/ Tick
  <2>1. w # NoOne
    BY LifecycleAssumption
  <2> QED BY <1>3, <2>1 DEF Correct, Tick, TypeOK
<1> QED BY <1>1, <1>2, <1>3 DEF Next

(* What a sweep has left are numbers, which fall with the cursor.          *)
LEMMA BidsBehindFall ==
    ASSUME NEW x \in Nat, NEW y \in Bid, y > x
    PROVE  /\ Cardinality({b \in Bid : b > x}) \in Nat
           /\ Cardinality({b \in Bid : b > y}) \in Nat
           /\ Cardinality({b \in Bid : b > y}) < Cardinality({b \in Bid : b > x})
<1> DEFINE Behind(z) == {b \in Bid : b > z}
<1>1. IsFiniteSet(Behind(x)) /\ IsFiniteSet(Behind(y))
  BY LifecycleAssumption, FS_Subset
<1>2. Behind(y) \in SUBSET Behind(x)
  <2>1. ASSUME NEW b \in Bid, b > y PROVE b > x
    <3>1. b \in Nat /\ y \in Nat
      BY LifecycleAssumption
    <3> QED BY <2>1, <3>1
  <2> QED BY <2>1
<1>3. Behind(y) # Behind(x)
  <2>1. y \in Behind(x)
    OBVIOUS
  <2>2. y \notin Behind(y)
    BY LifecycleAssumption
  <2> QED BY <2>1, <2>2
<1> QED BY <1>1, <1>2, <1>3, FS_Subset, FS_CardinalityType

(* Every step of a sweep, but its first and its last, lowers the number of *)
(* steps it has left: with finitely many bids sweeps are finite, whatever  *)
(* the writers beside them do.                                             *)
THEOREM SweepsEnd == Spec => SweepsCountDown
<1>1. Inductive /\ [Next]_vars =>
        [\A w \in Sweeper :
            stage[w] # "idle" /\ stage'[w] # "idle" /\ <<stage[w], sweep[w]>>' # <<stage[w], sweep[w]>>
                => StepsLeft(w)' < StepsLeft(w)]_vars
  <2> SUFFICES ASSUME Inductive, Next, NEW w \in Sweeper, stage[w] # "idle", stage'[w] # "idle",
                      <<stage[w], sweep[w]>>' # <<stage[w], sweep[w]>>
               PROVE  StepsLeft(w)' < StepsLeft(w)
    OBVIOUS
  <2>0. TypeOK /\ sweep[w] \in Local /\ sweep[w].after \in Nat
    BY DEF Inductive, TypeOK, Local
  <2>1. CASE ReadPage(w)
    <3> DEFINE page == FirstOf(OpenBeyond(w))
    <3>2. sweep'[w].after \in page
      BY <2>0, <2>1, PageRead
    <3>3. sweep'[w].after \in Bid /\ sweep'[w].after > sweep[w].after
      BY <3>2 DEF FirstOf, OpenBeyond
    <3>4. stage[w] = "reading" /\ stage'[w] \in {"reading", "closing"}
      <4>1. stage'[w] \in {"reading", "closing", "idle"}
        BY <2>0, <2>1, PageRead
      <4> QED BY <2>1, <4>1 DEF ReadPage
    <3> DEFINE before == Cardinality({b \in Bid : b > sweep[w].after})
               after == Cardinality({b \in Bid : b > sweep'[w].after})
    <3>5. before \in Nat /\ after \in Nat /\ after < before
      BY <2>0, <3>3, BidsBehindFall
    <3> HIDE DEF page
    <3> QED BY <3>4, <3>5 DEF StepsLeft
  <2>2. CASE LockPage(w) \/ CommitPage(w)
    <3>1. sweep'[w] = sweep[w]
      BY <2>0, <2>2 DEF LockPage, CommitPage, NextPage, Goto, TypeOK
    <3>2. \/ stage[w] = "closing" /\ stage'[w] = "locked"
          \/ stage[w] = "locked" /\ stage'[w] = "reading"
      BY <2>0, <2>2 DEF LockPage, CommitPage, NextPage, Goto, TypeOK
    <3>3. Cardinality({b \in Bid : b > sweep[w].after}) \in Nat
      BY LifecycleAssumption, FS_Subset, FS_CardinalityType
    <3> QED BY <3>1, <3>2, <3>3 DEF StepsLeft
  <2>3. CASE StartSweep(w) \/ FailSweep(w)
    BY <2>0, <2>3 DEF StartSweep, FailSweep, Goto, TypeOK
  <2>4. CASE ~SweepStep(w) /\ ~FailSweep(w)
    BY <2>0, <2>4, OthersLeaveSweeps
  <2> QED BY <2>1, <2>2, <2>3, <2>4 DEF SweepStep
<1> QED BY <1>1, InductiveCorrect, PTL DEF Spec, SweepsCountDown

(* Where a bid due at d is while a sweep that began at d or later is under *)
(* way: still to be read, on the page at hand, or closed by its draft.     *)
Ahead(b, w, d) ==
    \/ stage[w] = "idle"
    \/ /\ d <= sweep[w].now
       /\ stage[w] = "reading" => b > sweep[w].after
       /\ stage[w] = "closing" =>
             b \in sweep[w].expired \/ (b > sweep[w].after /\ sweep[w].full)
       /\ stage[w] = "locked" =>
             \/ holder[b] = w /\ draft[b].status = "closed"
             \/ b > sweep[w].after /\ sweep[w].full

(* A bid that is still to be read is read, or stays so; then it is due.    *)
LEMMA AheadIsRead ==
    ASSUME Inductive, NEW b \in Bid, NEW w \in Sweeper, NEW d \in Deadline,
           Waits(b, w, d), Ahead(b, w, d), ReadPage(w)
    PROVE  Ahead(b, w, d)' /\ stage'[w] # "idle"
<1> DEFINE page == FirstOf(OpenBeyond(w))
<1>1. stage[w] = "reading" /\ TypeOK
  BY DEF ReadPage, Inductive
<1>2. d <= sweep[w].now /\ b > sweep[w].after
  BY <1>1 DEF Ahead
<1>3. b \in OpenBeyond(w)
  BY <1>2 DEF OpenBeyond, Waits
<1>4. d \in Nat \ {0}
  BY DeadlineAssumption
<1>5. sweep[w].now \in Nat
  BY <1>1 DEF TypeOK, Local
<1>6. Passed(bids[b].deadline, sweep[w].now)
  BY <1>2, <1>4, <1>5 DEF Waits, Passed, NoDeadline
<1>7. CASE b \in page
  <2>2. stage'[w] = "closing" /\ sweep'[w].now = sweep[w].now
    BY <1>1, <1>6, <1>7, PageRead
  <2>1. b \in sweep'[w].expired
    BY <1>1, <1>6, <1>7, <2>2, PageRead
  <2> QED BY <1>2, <2>1, <2>2 DEF Ahead
<1>8. CASE b \notin page
  <2>1. stage'[w] \in {"reading", "closing"} /\ sweep'[w].full
    BY <1>1, <1>3, <1>8, PageRead
  <2>3. sweep'[w].after \in page
    BY <1>1, <2>1, PageRead
  <2>4. b > sweep'[w].after
    <3>1. ~(b <= sweep'[w].after)
      BY <1>3, <1>8, <2>3, OpenBidsAreNumbers, PagesAreSegments
    <3>2. b \in Nat /\ sweep'[w].after \in Nat
      BY <1>3, <2>3, LifecycleAssumption DEF FirstOf, OpenBeyond
    <3> QED BY <3>1, <3>2
  <2>5. sweep'[w].now = sweep[w].now
    BY <1>1, <2>1, PageRead
  <2> QED BY <1>2, <2>1, <2>4, <2>5 DEF Ahead
<1> QED BY <1>7, <1>8

(* A bid on the page at hand that nobody holds is locked and found due.    *)
LEMMA AheadIsLocked ==
    ASSUME Inductive, NEW b \in Bid, NEW w \in Sweeper, NEW d \in Deadline,
           Waits(b, w, d), Ahead(b, w, d), LockPage(w)
    PROVE  Ahead(b, w, d)' /\ stage'[w] # "idle"
<1>1. stage[w] = "closing" /\ TypeOK /\ sweep' = sweep
  BY DEF LockPage, Inductive
<1>2. stage'[w] = "locked"
  BY <1>1 DEF LockPage, Goto, TypeOK
<1>3. d <= sweep[w].now
  BY <1>1 DEF Ahead
<1>4. CASE b \in sweep[w].expired
  <2>1. holder[b] = NoOne
    BY <1>1 DEF Waits, Inductive, LocksAreHeldByTheBusy
  <2>2. draft[b] = bids[b]
    BY <2>1 DEF Inductive, DraftsAreOneEdgeAway, OneEdgeAway
  <2>3. d \in Nat \ {0} /\ sweep[w].now \in Nat
    BY <1>1, DeadlineAssumption DEF TypeOK, Local
  <2>4. StillDue(w, b)
    BY <1>3, <2>2, <2>3 DEF Waits, StillDue, Passed, NoDeadline
  <2>5. holder'[b] = w /\ draft'[b] = ClosedByDeadline(draft[b])
    BY <1>4, <2>1, <2>4 DEF LockPage
  <2> QED BY <1>1, <1>2, <1>3, <2>5 DEF Ahead, ClosedByDeadline
<1>5. CASE b \notin sweep[w].expired
  BY <1>1, <1>2, <1>3, <1>5 DEF Ahead
<1> QED BY <1>4, <1>5

(* While a bid waits, a sweep does not end before it has come to it.       *)
LEMMA AheadStays ==
    ASSUME Inductive, NEW b \in Bid, NEW w \in Sweeper, NEW d \in Deadline,
           Waits(b, w, d), Waits(b, w, d)', Ahead(b, w, d), [Next]_vars
    PROVE  Ahead(b, w, d)' /\ ~EndsSweep(w)
<1>1. TypeOK
  BY DEF Inductive
<1>2. CASE ReadPage(w)
  BY <1>2, AheadIsRead DEF EndsSweep
<1>3. CASE LockPage(w)
  BY <1>3, AheadIsLocked DEF EndsSweep
<1>4. CASE StartSweep(w)
  <2>1. /\ stage[w] = "idle" /\ stage'[w] = "reading"
        /\ sweep'[w].now = clock /\ sweep'[w].after = 0
    BY <1>1, <1>4 DEF StartSweep, Goto, TypeOK
  <2>2. b > 0 /\ d <= clock
    BY LifecycleAssumption DEF Waits, Passed
  <2> QED BY <2>1, <2>2 DEF Ahead, EndsSweep
<1>5. CASE CommitPage(w)
  <2>1. stage[w] = "locked"
    BY <1>5 DEF CommitPage
  <2>2. ~(holder[b] = w /\ draft[b].status = "closed")
    <3>1. ASSUME holder[b] = w, draft[b].status = "closed" PROVE FALSE
      <4>1. bids'[b] = draft[b]
        BY <1>5, <3>1 DEF CommitPage, Publish
      <4> QED BY <3>1, <4>1 DEF Waits
    <3> QED BY <3>1
  <2>3. b > sweep[w].after /\ sweep[w].full /\ d <= sweep[w].now
    BY <2>1, <2>2 DEF Ahead
  <2>4. stage'[w] = "reading"
    BY <1>1, <1>5, <2>3 DEF CommitPage, NextPage, Goto, TypeOK
  <2>5. sweep'[w] = sweep[w]
    BY <1>1, <1>5, <2>3 DEF CommitPage, TypeOK
  <2> QED BY <2>1, <2>3, <2>4, <2>5 DEF Ahead, EndsSweep
<1>6. CASE FailSweep(w)
  <2>1. stage'[w] = "idle" /\ failures' # failures
    BY <1>1, <1>6, LifecycleAssumption DEF FailSweep, Goto, TypeOK
  <2> QED BY <2>1 DEF Ahead, EndsSweep
<1>7. CASE Next /\ ~SweepStep(w) /\ ~FailSweep(w)
  <2>1. /\ stage'[w] = stage[w] /\ sweep'[w] = sweep[w]
        /\ holder[b] = w => holder'[b] = w /\ draft'[b] = draft[b]
    BY <1>1, <1>7, OthersLeaveSweeps
  <2> QED BY <2>1 DEF Ahead, EndsSweep
<1>8. CASE UNCHANGED vars
  BY <1>8 DEF vars, Ahead, EndsSweep
<1> QED BY <1>2, <1>3, <1>4, <1>5, <1>6, <1>7, <1>8 DEF SweepStep

(* A bid that stays due, and that no other transaction holds, outlasts at  *)
(* most one sweep that ends without an error.                              *)
LEMMA DueBidIsReached ==
    ASSUME NEW b \in Bid, NEW w \in Sweeper, NEW d \in Deadline
    PROVE  Spec => Reached(b, w, d)
<1>1. Inductive /\ Waits(b, w, d) /\ Waits(b, w, d)' /\ Ahead(b, w, d) /\ [Next]_vars
        => Ahead(b, w, d)' /\ [~EndsSweep(w)]_vars
  BY AheadStays
<1>2. ~[~EndsSweep(w)]_vars => Ahead(b, w, d)'
  BY DEF EndsSweep, Ahead
<1> QED BY <1>1, <1>2, InductiveCorrect, PTL DEF Spec, Reached

(* No bid stays due while sweep after sweep ends, for any number of bids,  *)
(* pages of any size, and whatever imports and corrections run beside.     *)
THEOREM DueBidsReached == Spec => DueBidsAreReached
BY DueBidIsReached DEF DueBidsAreReached
=============================================================================
