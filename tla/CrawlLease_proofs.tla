-------------------------- MODULE CrawlLease_proofs --------------------------
(***************************************************************************)
(* Proofs about CrawlLease for any set of attempts, any lease duration,    *)
(* any pool and any bound on time: the inductive invariant, the fencing of *)
(* imports, the respect of live leases, and the refinement of FencedStore. *)
(***************************************************************************)
EXTENDS CrawlLease, TLAPS

USE LeaseAssumption

-----------------------------------------------------------------------------
(* Types.                                                                  *)

(* Every variable keeps its type, the ghosts included, in all attempts.    *)
LEMMA InitTyped == Init => TypeOK
BY DEF Init, TypeOK, NoLock, Time, EndOfTime, Stage, Running, Result

(* The acquisition steps keep the types.                                   *)
LEMMA AcquireTyped ==
    ASSUME TypeOK, NEW a \in Attempt,
           Start(a) \/ AcquireStatement(a) \/ ConfirmAcquired(a) \/ AcquireFails(a)
    PROVE  TypeOK'
<1>1. CASE Start(a)
  BY <1>1 DEF Start, TypeOK, Goto, Report, leaseVars, beatVars, storeVars, Stage,
     Running, Result, Time, EndOfTime
<1>2. CASE AcquireStatement(a)
  <2>1. Expiry(acquiredAt[a]) \in Time
    BY DEF TypeOK, Expiry, Time, EndOfTime
  <2>2. CASE Takeable(a)
    BY <1>2, <2>1, <2>2 DEF AcquireStatement, TakeRow, TypeOK, Goto, beatVars,
       storeVars, Stage, Running
  <2>3. CASE ~Takeable(a)
    BY <1>2, <2>3 DEF AcquireStatement, TakeRow, TypeOK, Goto, leaseVars, beatVars,
       storeVars, Stage, Running
  <2> QED BY <2>2, <2>3
<1>3. CASE ConfirmAcquired(a)
  BY <1>3 DEF ConfirmAcquired, TypeOK, Goto, Report, leaseVars, beatVars, storeVars,
     Stage, Running, Result
<1>4. CASE AcquireFails(a)
  BY <1>4 DEF AcquireFails, TypeOK, Goto, Report, leaseVars, beatVars, storeVars,
     Stage, Running, Result
<1> QED BY <1>1, <1>2, <1>3, <1>4

(* The heartbeat and its renewal keep the types.                           *)
LEMMA BeatTyped ==
    ASSUME TypeOK, NEW a \in Attempt, Heartbeat(a) \/ BeatAnswered(a)
    PROVE  TypeOK'
<1>1. CASE Heartbeat(a)
  BY <1>1 DEF Heartbeat, TypeOK, leaseVars, storeVars, Time, EndOfTime
<1>2. CASE RenewStatement(a)
  <2>1. RenewedExpiry(a) \in Time
    BY DEF TypeOK, RenewedExpiry, Expiry, Time, EndOfTime
  <2>2. lock' \in [owner : Attempt \union {NoAttempt}, expires : Time]
    BY <1>2, <2>1 DEF RenewStatement, TypeOK
  <2> QED BY <1>2, <2>2 DEF RenewStatement, Renewed, TypeOK, Goto, storeVars, Stage,
     Running
<1>3. CASE RenewReread(a)
  BY <1>3 DEF RenewReread, Renewed, LeaseLost, TypeOK, Goto, Report, leaseVars,
     storeVars, Stage, Running, Result
<1>4. CASE RenewFails(a)
  BY <1>4 DEF RenewFails, LeaseLost, TypeOK, Goto, Report, leaseVars, storeVars,
     Stage, Running, Result
<1> QED BY <1>1, <1>2, <1>3, <1>4 DEF BeatAnswered

(* The crawl, the import and what follows them keep the types.             *)
LEMMA RunTyped ==
    ASSUME TypeOK, NEW a \in Attempt,
           \/ Crawl(a) \/ BeginImport(a) \/ FinalCheck(a) \/ Commit(a)
           \/ ImportFails(a) \/ RollBack(a) \/ LogFailure(a) \/ RunnerReturned(a)
           \/ Match(a) \/ Notify(a)
    PROVE  TypeOK'
<1> USE DEF TypeOK, Goto, Report, Stage, Running
<1>1. CASE CrawlReturns(a)
  BY <1>1 DEF CrawlReturns, leaseVars, beatVars, storeVars, Result, Time, EndOfTime
<1>2. CASE CrawlThrows(a)
  BY <1>2 DEF CrawlThrows, leaseVars, beatVars, storeVars, Result
<1>3. CASE BeginImport(a) \/ FinalCheck(a) \/ ImportFails(a) \/ RollBack(a)
  BY <1>3 DEF BeginImport, FinalCheck, ImportFails, RollBack, leaseVars, beatVars,
     storeVars
<1>4. CASE Commit(a)
  BY <1>4 DEF Commit, leaseVars, beatVars, LogRow
<1>5. CASE LogFailure(a)
  BY <1>5 DEF LogFailure, ImportErrorReported, leaseVars, beatVars, LogRow, Result
<1>6. CASE RunnerReturned(a)
  BY <1>6 DEF RunnerReturned, leaseVars, beatVars, storeVars, Result
<1>7. CASE Match(a) \/ Notify(a)
  BY <1>7 DEF Match, Notify, leaseVars, beatVars, storeVars
<1> QED BY <1>1, <1>2, <1>3, <1>4, <1>5, <1>6, <1>7 DEF Crawl

(* The end of an attempt keeps the types.                                  *)
LEMMA EndTyped ==
    ASSUME TypeOK, NEW a \in Attempt,
           AwaitRenewal(a) \/ Release(a) \/ ReleaseFails(a) \/ Crash(a)
    PROVE  TypeOK'
<1> USE DEF TypeOK, Goto, Stage, Running
<1>1. CASE AwaitRenewal(a) \/ ReleaseFails(a)
  BY <1>1 DEF AwaitRenewal, ReleaseFails, leaseVars, beatVars, storeVars
<1>2. CASE Release(a)
  BY <1>2 DEF Release, NoLock, Time, EndOfTime, beatVars, storeVars
<1>3. CASE Crash(a)
  BY <1>3 DEF Crash, leaseVars, storeVars
<1> QED BY <1>1, <1>2, <1>3

LEMMA StepTyped == TypeOK /\ [Next]_vars => TypeOK'
<1> SUFFICES ASSUME TypeOK, [Next]_vars PROVE TypeOK'
  OBVIOUS
<1>1. CASE UNCHANGED vars
  BY <1>1 DEF vars, TypeOK
<1>2. CASE Tick
  BY <1>2 DEF Tick, TypeOK, Time, EndOfTime, beatVars, storeVars
<1>3. ASSUME NEW a \in Attempt, Step(a) PROVE TypeOK'
  BY <1>3, AcquireTyped, BeatTyped, RunTyped, EndTyped DEF Step, Answered
<1> QED BY <1>1, <1>2, <1>3 DEF Next

(* The type invariant of the lease model holds in every reachable state.   *)
THEOREM TypeCorrect == Spec => []TypeOK
BY InitTyped, StepTyped, PTL DEF Spec

-----------------------------------------------------------------------------
(* The inductive invariant.  Each lemma says what one kind of step does    *)
(* to the parts of the invariant other than the types.                     *)

Untyped == /\ LatestHolder /\ LockedOutHoldsNothing
           /\ ClocksRead /\ TokensIssued /\ FreshAttempts /\ Outcomes

LEMMA InitInductive == Init => Inductive
BY InitTyped DEF Init, Inductive, LatestHolder, LockedOutHoldsNothing, ClocksRead,
   TokensIssued, FreshAttempts, Outcomes, NoLock

(* Before the upsert nothing but the attempt's own stage changes.          *)
LEMMA StartKeeps ==
    ASSUME Inductive, NEW a \in Attempt, Start(a)
    PROVE  Untyped'
<1> USE DEF Inductive, TypeOK, Start, Goto, Report, leaseVars, beatVars, storeVars
<1>1. LatestHolder' /\ TokensIssued' /\ LockedOutHoldsNothing'
  BY DEF LatestHolder, TokensIssued, LockedOutHoldsNothing, FreshAttempts
<1>2. ClocksRead'
  BY DEF ClocksRead, Time
<1>3. FreshAttempts'
  BY DEF FreshAttempts, TookRow
<1>4. Outcomes'
  BY DEF Outcomes
<1> QED BY <1>1, <1>2, <1>3, <1>4 DEF Untyped

(* The upsert makes the attempt the holder of the next token; no import    *)
(* has the row locked then.                                                *)
LEMMA UpsertKeeps ==
    ASSUME Inductive, NEW a \in Attempt, AcquireStatement(a)
    PROVE  Untyped'
<1> USE DEF Inductive, TypeOK, AcquireStatement, Goto, TakeRow, leaseVars, beatVars,
            storeVars
<1>1. LatestHolder'
  BY DEF LatestHolder, RowFree
<1>2. LockedOutHoldsNothing' /\ TokensIssued'
  BY DEF LockedOutHoldsNothing, TokensIssued
<1>3. ClocksRead'
  BY DEF ClocksRead
<1>4. FreshAttempts'
  BY DEF FreshAttempts, TookRow
<1>5. Outcomes'
  BY DEF Outcomes
<1> QED BY <1>1, <1>2, <1>3, <1>4, <1>5 DEF Untyped

(* An attempt that is told "locked" does not own the row: had it taken the *)
(* row, nothing could have changed the row's expiry before this answer.    *)
LEMMA ConfirmKeeps ==
    ASSUME Inductive, NEW a \in Attempt, ConfirmAcquired(a) \/ AcquireFails(a)
    PROVE  Untyped'
<1> USE DEF Inductive, TypeOK, ConfirmAcquired, AcquireFails, Goto, Report,
            leaseVars, beatVars, storeVars
<1>1. LatestHolder' /\ TokensIssued'
  BY DEF LatestHolder, TokensIssued
<1>2. LockedOutHoldsNothing'
  BY DEF LockedOutHoldsNothing, FreshAttempts
<1>3. ClocksRead'
  BY DEF ClocksRead
<1>4. FreshAttempts'
  BY DEF FreshAttempts, TookRow
<1>5. Outcomes'
  BY DEF Outcomes
<1> QED BY <1>1, <1>2, <1>3, <1>4, <1>5 DEF Untyped

(* The heartbeat and its renewal never change who owns the row.            *)
LEMMA BeatKeeps ==
    ASSUME Inductive, NEW a \in Attempt, Heartbeat(a) \/ BeatAnswered(a)
    PROVE  Untyped'
<1> USE DEF Inductive, TypeOK, Heartbeat, BeatAnswered, Goto, Report, leaseVars,
            storeVars
<1>1. CASE Heartbeat(a)
  <2>1. LatestHolder' /\ TokensIssued' /\ LockedOutHoldsNothing'
    BY <1>1 DEF LatestHolder, TokensIssued, LockedOutHoldsNothing
  <2>2. ClocksRead'
    BY <1>1 DEF ClocksRead, Time
  <2>3. FreshAttempts' /\ Outcomes'
    BY <1>1 DEF FreshAttempts, Outcomes, TookRow, Running
  <2> QED BY <2>1, <2>2, <2>3 DEF Untyped
<1>2. CASE RenewStatement(a)
  <2>1. /\ lock'.owner = lock.owner
        /\ lock' # lock => lock.owner = a
        /\ beat[a] # "idle"
    BY <1>2 DEF RenewStatement, Renewable
  <2>2. LatestHolder' /\ TokensIssued' /\ LockedOutHoldsNothing'
    BY <1>2, <2>1 DEF RenewStatement, Renewed, LatestHolder, TokensIssued,
       LockedOutHoldsNothing, FreshAttempts
  <2>3. ClocksRead'
    BY <1>2 DEF RenewStatement, ClocksRead
  <2>4. FreshAttempts'
    BY <1>2, <2>1 DEF RenewStatement, Renewed, FreshAttempts, TookRow
  <2>5. Outcomes'
    BY <1>2 DEF RenewStatement, Renewed, Outcomes
  <2> QED BY <2>2, <2>3, <2>4, <2>5 DEF Untyped
<1>3. CASE RenewReread(a) \/ RenewFails(a)
  <2>1. LatestHolder' /\ TokensIssued' /\ LockedOutHoldsNothing'
    BY <1>3 DEF RenewReread, RenewFails, Renewed, LeaseLost, LatestHolder,
       TokensIssued, LockedOutHoldsNothing
  <2>2. ClocksRead'
    BY <1>3 DEF RenewReread, RenewFails, ClocksRead
  <2>3. FreshAttempts'
    BY <1>3 DEF RenewReread, RenewFails, Renewed, LeaseLost, FreshAttempts, TookRow
  <2>4. Outcomes'
    BY <1>3 DEF RenewReread, RenewFails, Renewed, LeaseLost, Outcomes
  <2> QED BY <2>1, <2>2, <2>3, <2>4 DEF Untyped
<1> QED BY <1>1, <1>2, <1>3 DEF BeatAnswered

(* The crawl and the import leave the row alone; the row is the attempt's  *)
(* when its final check passes.                                            *)
LEMMA RunKeeps ==
    ASSUME Inductive, NEW a \in Attempt,
           \/ Crawl(a) \/ BeginImport(a) \/ FinalCheck(a)
           \/ ImportFails(a) \/ RollBack(a) \/ LogFailure(a) \/ RunnerReturned(a)
           \/ Match(a) \/ Notify(a)
    PROVE  Untyped'
<1> USE DEF Inductive, TypeOK, Crawl, CrawlReturns, CrawlThrows, BeginImport,
            FinalCheck, ImportFails, RollBack, LogFailure, ImportErrorReported,
            RunnerReturned, Match, Notify, Goto, Report, leaseVars, beatVars,
            storeVars
<1>1. LatestHolder' /\ TokensIssued'
  BY DEF LatestHolder, TokensIssued, LeaseHolds
<1>2. LockedOutHoldsNothing'
  BY DEF LockedOutHoldsNothing
<1>3. ClocksRead'
  BY DEF ClocksRead, Time
<1>4. FreshAttempts'
  BY DEF FreshAttempts, TookRow
<1>5. Outcomes'
  BY DEF Outcomes, Result
<1> QED BY <1>1, <1>2, <1>3, <1>4, <1>5 DEF Untyped

(* A commit stores the crawl of an attempt that is past its upsert.        *)
LEMMA CommitKeeps ==
    ASSUME Inductive, NEW a \in Attempt, Commit(a)
    PROVE  Untyped'
<1> USE DEF Inductive, TypeOK, Commit, Goto, leaseVars, beatVars
<1>1. LatestHolder' /\ TokensIssued' /\ LockedOutHoldsNothing'
  BY DEF LatestHolder, TokensIssued, LockedOutHoldsNothing
<1>2. ClocksRead'
  BY DEF ClocksRead
<1>3. FreshAttempts'
  BY DEF FreshAttempts, TookRow
<1>4. Outcomes'
  BY DEF Outcomes
<1> QED BY <1>1, <1>2, <1>3, <1>4 DEF Untyped

(* Giving the row back, or dying with it, hands it to nobody.              *)
LEMMA EndKeeps ==
    ASSUME Inductive, NEW a \in Attempt,
           AwaitRenewal(a) \/ Release(a) \/ ReleaseFails(a) \/ Crash(a)
    PROVE  Untyped'
<1> USE DEF Inductive, TypeOK, AwaitRenewal, Release, ReleaseFails, Crash, Goto,
            leaseVars, beatVars, storeVars, NoLock, Releasable
<1>1. LatestHolder' /\ TokensIssued'
  BY DEF LatestHolder, TokensIssued, RowFree
<1>2. LockedOutHoldsNothing'
  BY DEF LockedOutHoldsNothing, FreshAttempts
<1>3. ClocksRead'
  BY DEF ClocksRead
<1>4. FreshAttempts'
  BY DEF FreshAttempts, TookRow
<1>5. Outcomes'
  BY DEF Outcomes
<1> QED BY <1>1, <1>2, <1>3, <1>4, <1>5 DEF Untyped

LEMMA TickKeeps == Inductive /\ Tick => Untyped'
BY DEF Inductive, TypeOK, Tick, Untyped, LatestHolder, LockedOutHoldsNothing,
   ClocksRead, TokensIssued, FreshAttempts, TookRow, Outcomes, beatVars, storeVars,
   Time

LEMMA StutterKeeps == Inductive /\ UNCHANGED vars => Untyped'
BY DEF Inductive, vars, Untyped, LatestHolder, LockedOutHoldsNothing, ClocksRead,
   TokensIssued, FreshAttempts, TookRow, Outcomes

LEMMA StepInductive == Inductive /\ [Next]_vars => Inductive'
<1> SUFFICES ASSUME Inductive, [Next]_vars PROVE Inductive'
  OBVIOUS
<1>1. TypeOK'
  BY StepTyped DEF Inductive
<1>2. ASSUME NEW a \in Attempt, Step(a) PROVE Untyped'
  BY <1>2, StartKeeps, UpsertKeeps, ConfirmKeeps, BeatKeeps, RunKeeps, CommitKeeps,
     EndKeeps DEF Step, Answered
<1>3. Untyped'
  BY <1>2, TickKeeps, StutterKeeps DEF Next
<1> QED BY <1>1, <1>3 DEF Inductive, Untyped

(* Every part of the inductive invariant holds in every reachable state.   *)
THEOREM InductiveCorrect == Spec => []Inductive
BY InitInductive, StepInductive, PTL DEF Spec

(* The row names the attempt with the latest token, and an import between  *)
(* its final check and its commit is that attempt's (orchestrator.ts, the  *)
(* lease owner per attempt; mysql-json-importer.ts, the locked check).     *)
THEOREM HolderIsLatest == Spec => []LatestHolder
BY InductiveCorrect, PTL DEF Inductive

(* An attempt told "locked" left no row behind (lock-repository.ts, the    *)
(* SELECT after the upsert).                                               *)
THEOREM LockedOut == Spec => []LockedOutHoldsNothing
BY InductiveCorrect, PTL DEF Inductive

(* Success is announced for committed imports only (orchestrator.ts,       *)
(* crawl-task-persistence.ts).                                             *)
THEOREM Announced == Spec => []AnnouncedIsStored
<1>1. Inductive => AnnouncedIsStored
  BY DEF Inductive, Outcomes, AnnouncedIsStored
<1> QED BY <1>1, InductiveCorrect, PTL

-----------------------------------------------------------------------------
(* Action properties.                                                      *)

(* An import that commits does so under the latest token: no other attempt *)
(* took the lease after its own did.                                       *)
THEOREM Fencing == Spec => NoStaleCommit
<1>1. Inductive /\ [Next]_vars =>
        [\A a \in Attempt : "run" \in logs'[a] \ logs[a] => epoch[a] = taken]_vars
  <2> SUFFICES ASSUME Inductive, Next, NEW a \in Attempt,
                      "run" \in logs'[a], "run" \notin logs[a]
               PROVE  epoch[a] = taken
    OBVIOUS
  <2>1. CASE Tick
    BY <2>1 DEF Tick, storeVars
  <2>2. ASSUME NEW b \in Attempt, Step(b) PROVE epoch[a] = taken
    <3>1. CASE Commit(b)
      <4>1. a = b
        BY <3>1 DEF Commit, Inductive, TypeOK
      <4> QED BY <3>1, <4>1 DEF Commit, Inductive, LatestHolder
    <3>2. CASE LogFailure(b)
      BY <3>2 DEF LogFailure, Inductive, TypeOK
    <3>3. CASE ~Commit(b) /\ ~LogFailure(b)
      BY <2>2, <3>3 DEF Step, Answered, BeatAnswered, Crawl, Start, AcquireStatement,
         ConfirmAcquired, AcquireFails, Heartbeat, RenewStatement, RenewReread,
         RenewFails, CrawlReturns, CrawlThrows, BeginImport, FinalCheck, ImportFails,
         RollBack, RunnerReturned, Match, Notify, AwaitRenewal, Release,
         ReleaseFails, Crash, storeVars
    <3> QED BY <3>1, <3>2, <3>3
  <2> QED BY <2>1, <2>2 DEF Next
<1> QED BY <1>1, InductiveCorrect, PTL DEF Spec, NoStaleCommit

(* The steps that write the lease row, and what they write.                *)
LEMMA LockWrites ==
    ASSUME Next, lock' # lock
    PROVE  \E a \in Attempt :
               \/ AcquireStatement(a) /\ Takeable(a)
               \/ RenewStatement(a) /\ Renewable(a)
               \/ Release(a) /\ lock.owner = a
<1>1. PICK a \in Attempt : Step(a)
  BY DEF Next, Tick
<1>2. AcquireStatement(a) \/ RenewStatement(a) \/ Release(a)
  BY <1>1 DEF Step, Answered, BeatAnswered, Crawl, Start, ConfirmAcquired,
     AcquireFails, Heartbeat, RenewReread, RenewFails, CrawlReturns, CrawlThrows,
     BeginImport, FinalCheck, Commit, ImportFails, RollBack, LogFailure,
     RunnerReturned, Match, Notify, AwaitRenewal, ReleaseFails, Crash, leaseVars
<1> QED BY <1>2 DEF AcquireStatement, TakeRow, leaseVars, RenewStatement, Release,
           Releasable

(* A live lease leaves its owner by the owner's release only.              *)
THEOREM LiveLease == Spec => LiveLeaseIsRespected
<1>1. Inductive /\ [Next]_vars =>
        [lock.owner # NoAttempt /\ lock.expires > now /\ lock' # lock =>
           \/ lock'.owner = lock.owner
           \/ pc[lock.owner] = "releasing" /\ lock' = NoLock]_vars
  <2> SUFFICES ASSUME Inductive, Next,
                      lock.owner # NoAttempt, lock.expires > now, lock' # lock
               PROVE  \/ lock'.owner = lock.owner
                      \/ pc[lock.owner] = "releasing" /\ lock' = NoLock
    OBVIOUS
  <2>1. PICK a \in Attempt : \/ AcquireStatement(a) /\ Takeable(a)
                             \/ RenewStatement(a) /\ Renewable(a)
                             \/ Release(a) /\ lock.owner = a
    BY LockWrites
  <2>2. ~Takeable(a)
    BY DEF Takeable, Inductive, TypeOK, ClocksRead, Time
  <2>3. CASE RenewStatement(a) /\ Renewable(a)
    BY <2>3 DEF RenewStatement, Inductive, TypeOK
  <2>4. CASE Release(a) /\ lock.owner = a
    BY <2>4 DEF Release, Releasable
  <2> QED BY <2>1, <2>2, <2>3, <2>4
<1> QED BY <1>1, InductiveCorrect, PTL DEF Spec, LiveLeaseIsRespected

(* An expired lease is not revived by a renewal that saw it expired.       *)
THEOREM Expired == Spec => ExpiredStaysExpired
<1>1. Inductive /\ [Next]_vars =>
        [\A a \in Attempt :
           lock.owner = a /\ lock.expires <= now /\ lock'.owner = a /\ lock' # lock
             => beat[a] = "update" /\ beatAt[a] < lock.expires]_vars
  <2> SUFFICES ASSUME Inductive, Next, NEW a \in Attempt,
                      lock.owner = a, lock'.owner = a, lock' # lock
               PROVE  beat[a] = "update" /\ beatAt[a] < lock.expires
    OBVIOUS
  <2>1. PICK b \in Attempt : \/ AcquireStatement(b) /\ Takeable(b)
                             \/ RenewStatement(b) /\ Renewable(b)
                             \/ Release(b) /\ lock.owner = b
    BY LockWrites
  <2>2. CASE AcquireStatement(b) /\ Takeable(b)
    <3>1. lock'.owner = b /\ pc[b] = "acquiring"
      BY <2>2 DEF AcquireStatement, TakeRow
    <3> QED BY <3>1 DEF Inductive, FreshAttempts
  <2>3. CASE RenewStatement(b) /\ Renewable(b)
    BY <2>3 DEF RenewStatement, Renewable, Inductive, TypeOK, Time
  <2>4. CASE Release(b) /\ lock.owner = b
    BY <2>4 DEF Release, Releasable, NoLock
  <2> QED BY <2>1, <2>2, <2>3, <2>4
<1> QED BY <1>1, InductiveCorrect, PTL DEF Spec, ExpiredStaysExpired

-----------------------------------------------------------------------------
(* Renewals.                                                               *)

(* The main flow waits for a renewal only when one is pending, and none is *)
(* pending once it gives the lease back.                                   *)
Awaited ==
    \A a \in Attempt :
        /\ pc[a] = "asserting" => beat[a] # "idle"
        /\ pc[a] \in {"releasing", "done", "dead"} => beat[a] = "idle"

LEMMA InitAwaited == Init => Awaited
BY DEF Init, Awaited

LEMMA StepAwaited == Inductive /\ Awaited /\ [Next]_vars => Awaited'
<1> SUFFICES ASSUME Inductive, Awaited, [Next]_vars PROVE Awaited'
  OBVIOUS
<1>1. CASE Tick \/ UNCHANGED vars
  BY <1>1 DEF Tick, vars, beatVars, Awaited
<1>2. ASSUME NEW a \in Attempt, Step(a) PROVE Awaited'
  <2> USE DEF Awaited, Inductive, TypeOK, Goto
  <2>1. CASE Start(a) \/ AcquireStatement(a) \/ ConfirmAcquired(a) \/ AcquireFails(a)
    BY <2>1 DEF Start, AcquireStatement, ConfirmAcquired, AcquireFails, FreshAttempts, beatVars
  <2>2. CASE Heartbeat(a)
    BY <2>2 DEF Heartbeat, Running
  <2>3. CASE RenewStatement(a)
    BY <2>3 DEF RenewStatement, Renewed
  <2>4. CASE RenewReread(a) \/ RenewFails(a)
    BY <2>4 DEF RenewReread, RenewFails, Renewed, LeaseLost
  <2>5. CASE Crawl(a)
    BY <2>5 DEF Crawl, CrawlReturns, CrawlThrows, beatVars
  <2>6. CASE BeginImport(a) \/ FinalCheck(a) \/ Commit(a) \/ ImportFails(a) \/ RollBack(a)
             \/ LogFailure(a) \/ RunnerReturned(a) \/ Match(a) \/ Notify(a)
    BY <2>6 DEF BeginImport, FinalCheck, Commit, ImportFails, RollBack, LogFailure,
       ImportErrorReported, RunnerReturned, Match, Notify, beatVars
  <2>7. CASE AwaitRenewal(a) \/ Release(a) \/ ReleaseFails(a) \/ Crash(a)
    BY <2>7 DEF AwaitRenewal, Release, ReleaseFails, Crash, beatVars
  <2> QED BY <1>2, <2>1, <2>2, <2>3, <2>4, <2>5, <2>6, <2>7 DEF Step, Answered, BeatAnswered
<1> QED BY <1>1, <1>2 DEF Next

LEMMA AwaitedCorrect == Spec => [](Inductive /\ Awaited)
BY InitInductive, StepInductive, InitAwaited, StepAwaited, PTL DEF Spec

(* What an attempt did not do itself leaves its place and its rows.        *)
LEMMA OthersAct ==
    ASSUME Inductive, NEW a \in Attempt, NEW b \in Attempt \ {a}, Step(b)
    PROVE  /\ pc'[a] = pc[a] /\ beat'[a] = beat[a]
           /\ logs'[a] = logs[a] /\ result'[a] = result[a]
           /\ stored' # stored => stored' = b
<1> USE DEF Inductive, TypeOK, Goto, Report
<1>1. CASE Start(b) \/ AcquireStatement(b) \/ ConfirmAcquired(b) \/ AcquireFails(b)
  BY <1>1 DEF Start, AcquireStatement, ConfirmAcquired, AcquireFails, beatVars, storeVars
<1>2. CASE Heartbeat(b) \/ BeatAnswered(b)
  BY <1>2 DEF Heartbeat, BeatAnswered, RenewStatement, RenewReread, RenewFails, Renewed,
     LeaseLost, storeVars
<1>3. CASE Crawl(b)
  BY <1>3 DEF Crawl, CrawlReturns, CrawlThrows, beatVars, storeVars
<1>4. CASE BeginImport(b) \/ FinalCheck(b) \/ ImportFails(b) \/ RollBack(b)
           \/ RunnerReturned(b) \/ Match(b) \/ Notify(b)
  BY <1>4 DEF BeginImport, FinalCheck, ImportFails, RollBack, RunnerReturned, Match, Notify,
     beatVars, storeVars
<1>5. CASE Commit(b) \/ LogFailure(b)
  BY <1>5 DEF Commit, LogFailure, ImportErrorReported, beatVars
<1>6. CASE AwaitRenewal(b) \/ Release(b) \/ ReleaseFails(b) \/ Crash(b)
  BY <1>6 DEF AwaitRenewal, Release, ReleaseFails, Crash, beatVars, storeVars
<1> QED BY <1>1, <1>2, <1>3, <1>4, <1>5, <1>6 DEF Step, Answered

(* An attempt that has ended, or died, does nothing.                       *)
LEMMA EndedRests ==
    ASSUME Awaited, NEW a \in Attempt, pc[a] \in {"done", "dead"}
    PROVE  ~Step(a)
BY DEF Awaited, Step, Start, Heartbeat, BeatAnswered, RenewStatement, RenewReread, RenewFails,
   Crawl, CrawlReturns, CrawlThrows, Answered, AcquireStatement, ConfirmAcquired,
   AcquireFails, BeginImport, FinalCheck, Commit, ImportFails, RollBack, LogFailure,
   RunnerReturned, Match, Notify, AwaitRenewal, Release, ReleaseFails, Crash, Running

(* Nothing comes any more of an attempt that has ended or died: its lease  *)
(* is not renewed, and its outcome, its log rows and the store stay.       *)
THEOREM Silent == Spec => EndedIsSilent
<1>1. Inductive /\ Awaited /\ [Next]_vars =>
        [\A a \in Attempt :
           pc[a] \in {"done", "dead"} =>
               /\ pc'[a] = pc[a] /\ beat'[a] = "idle"
               /\ logs'[a] = logs[a] /\ result'[a] = result[a]
               /\ stored' = a => stored = a
               /\ lock'.owner = a => lock' = lock]_vars
  <2> SUFFICES ASSUME Inductive, Awaited, Next, NEW a \in Attempt, pc[a] \in {"done", "dead"}
               PROVE  /\ pc'[a] = pc[a] /\ beat'[a] = "idle"
                      /\ logs'[a] = logs[a] /\ result'[a] = result[a]
                      /\ stored' = a => stored = a
                      /\ lock'.owner = a => lock' = lock
    OBVIOUS
  <2>1. beat[a] = "idle" /\ ~Step(a)
    BY EndedRests DEF Awaited
  <2>2. /\ pc'[a] = pc[a] /\ beat'[a] = "idle"
        /\ logs'[a] = logs[a] /\ result'[a] = result[a]
        /\ stored' = a => stored = a
    <3>1. CASE Tick
      BY <2>1, <3>1 DEF Tick, beatVars, storeVars
    <3>2. ASSUME NEW b \in Attempt, Step(b) PROVE b \in Attempt \ {a}
      BY <2>1, <3>2
    <3> QED BY <2>1, <3>1, <3>2, OthersAct DEF Next
  <2>3. lock'.owner = a => lock' = lock
    <3> SUFFICES ASSUME lock'.owner = a, lock' # lock PROVE FALSE
      OBVIOUS
    <3>1. PICK b \in Attempt : \/ AcquireStatement(b) /\ Takeable(b)
                               \/ RenewStatement(b) /\ Renewable(b)
                               \/ Release(b) /\ lock.owner = b
      BY LockWrites
    <3>2. CASE AcquireStatement(b) /\ Takeable(b)
      <4>1. lock'.owner = b /\ pc[b] = "acquiring"
        BY <3>2 DEF AcquireStatement, TakeRow
      <4> QED BY <4>1
    <3>3. CASE RenewStatement(b) /\ Renewable(b)
      BY <2>1, <3>3 DEF RenewStatement, Renewable, Inductive, TypeOK
    <3>4. CASE Release(b) /\ lock.owner = b
      BY <3>4 DEF Release, Releasable, NoLock
    <3> QED BY <3>1, <3>2, <3>3, <3>4
  <2> QED BY <2>2, <2>3
<1> QED BY <1>1, AwaitedCorrect, PTL DEF Spec, EndedIsSilent

-----------------------------------------------------------------------------
(* Attempts end.                                                           *)

(* How far an attempt has come, at a stage and with a renewal pending or   *)
(* not. No step leads back.                                                *)
Height(stage, renewal) ==
    CASE stage = "asserting" -> IF renewal = "reread" THEN 5 ELSE 4
      [] stage = "finishing" -> [update |-> 14, reread |-> 15, idle |-> 16][renewal]
      [] OTHER -> [idle |-> 0, acquiring |-> 1, confirming |-> 2, crawling |-> 3,
                   connecting |-> 6, importing |-> 7, committing |-> 8, rollingBack |-> 9,
                   logging |-> 10, returned |-> 11, matching |-> 12, notifying |-> 13,
                   releasing |-> 17, done |-> 18, dead |-> 18][stage]

Steadily == Inductive /\ Awaited

HasReached(a, n) == Height(pc[a], beat[a]) >= n

(* The heights, one by one.                                                *)
LEMMA Heights ==
    ASSUME NEW renewal \in {"idle", "update", "reread"}
    PROVE  /\ Height("idle", renewal) = 0 /\ Height("acquiring", renewal) = 1
           /\ Height("confirming", renewal) = 2 /\ Height("crawling", renewal) = 3
           /\ Height("asserting", "update") = 4 /\ Height("asserting", "reread") = 5
           /\ Height("connecting", renewal) = 6 /\ Height("importing", renewal) = 7
           /\ Height("committing", renewal) = 8 /\ Height("rollingBack", renewal) = 9
           /\ Height("logging", renewal) = 10 /\ Height("returned", renewal) = 11
           /\ Height("matching", renewal) = 12 /\ Height("notifying", renewal) = 13
           /\ Height("finishing", "update") = 14 /\ Height("finishing", "reread") = 15
           /\ Height("finishing", "idle") = 16 /\ Height("releasing", renewal) = 17
           /\ Height("done", renewal) = 18 /\ Height("dead", renewal) = 18
BY DEF Height

LEMMA HeightTypes ==
    ASSUME NEW stage \in Stage, NEW renewal \in {"idle", "update", "reread"}
    PROVE  Height(stage, renewal) \in 0..18
<1>1. CASE stage = "asserting"
  BY <1>1 DEF Height
<1>2. CASE stage = "finishing"
  BY <1>2 DEF Height
<1>3. CASE stage \notin {"asserting", "finishing"}
  BY <1>3, Heights DEF Stage, Running
<1> QED BY <1>1, <1>2, <1>3

(* An attempt's own steps lead on, but for its heartbeat and a renewal     *)
(* that its main flow does not wait for.                                   *)
LEMMA OwnSteps ==
    ASSUME Steadily, Steadily', NEW a \in Attempt
    PROVE  /\ Answered(a) \/ Crawl(a) \/ Start(a) \/ Crash(a) =>
                 Height(pc[a], beat[a]) < Height(pc'[a], beat'[a])
           /\ BeatAnswered(a) /\ pc[a] \in {"asserting", "finishing"} =>
                 Height(pc[a], beat[a]) < Height(pc'[a], beat'[a])
           /\ BeatAnswered(a) /\ pc[a] \notin {"asserting", "finishing"} => pc'[a] = pc[a]
           /\ Heartbeat(a) => pc'[a] = pc[a] /\ pc[a] \notin {"asserting", "finishing"}
<1> USE DEF Steadily, Inductive, Awaited, TypeOK, Goto
<1>1. ASSUME Start(a) \/ AcquireStatement(a) \/ ConfirmAcquired(a) \/ AcquireFails(a)
      PROVE  Height(pc[a], beat[a]) < Height(pc'[a], beat'[a])
  BY <1>1, Heights DEF Start, AcquireStatement, ConfirmAcquired, AcquireFails
<1>2. ASSUME Crawl(a) PROVE Height(pc[a], beat[a]) < Height(pc'[a], beat'[a])
  BY <1>2, Heights DEF Crawl, CrawlReturns, CrawlThrows
<1>3. ASSUME BeginImport(a) \/ FinalCheck(a) \/ Commit(a) \/ ImportFails(a) \/ RollBack(a)
             \/ LogFailure(a) \/ RunnerReturned(a) \/ Match(a) \/ Notify(a)
      PROVE  Height(pc[a], beat[a]) < Height(pc'[a], beat'[a])
  BY <1>3, Heights DEF BeginImport, FinalCheck, Commit, ImportFails, RollBack, LogFailure,
     ImportErrorReported, RunnerReturned, Match, Notify
<1>4. ASSUME AwaitRenewal(a) \/ Release(a) \/ ReleaseFails(a)
      PROVE  Height(pc[a], beat[a]) < Height(pc'[a], beat'[a])
  BY <1>4, Heights DEF AwaitRenewal, Release, ReleaseFails
<1>5. ASSUME Crash(a) PROVE Height(pc[a], beat[a]) < Height(pc'[a], beat'[a])
  BY <1>5, Heights DEF Crash, Stage, Running
<1>6. ASSUME BeatAnswered(a), pc[a] \in {"asserting", "finishing"}
      PROVE  Height(pc[a], beat[a]) < Height(pc'[a], beat'[a])
  BY <1>6, Heights DEF BeatAnswered, RenewStatement, RenewReread, RenewFails, Renewed, LeaseLost
<1>7. ASSUME BeatAnswered(a), pc[a] \notin {"asserting", "finishing"}
      PROVE  pc'[a] = pc[a]
  BY <1>7 DEF BeatAnswered, RenewStatement, RenewReread, RenewFails, Renewed, LeaseLost
<1>8. ASSUME Heartbeat(a)
      PROVE  pc'[a] = pc[a] /\ pc[a] \notin {"asserting", "finishing"}
  BY <1>8 DEF Heartbeat, Running
<1> QED BY <1>1, <1>2, <1>3, <1>4, <1>5, <1>6, <1>7, <1>8 DEF Answered

LEMMA NeverBack ==
    ASSUME Steadily, Steadily', [Next]_vars, NEW a \in Attempt
    PROVE  Height(pc[a], beat[a]) <= Height(pc'[a], beat'[a])
<1> USE DEF Steadily, Inductive, TypeOK
<1>1. /\ pc[a] \in Stage /\ pc'[a] \in Stage
      /\ beat[a] \in {"idle", "update", "reread"} /\ beat'[a] \in {"idle", "update", "reread"}
  OBVIOUS
<1>2. Height(pc[a], beat[a]) \in Nat /\ Height(pc'[a], beat'[a]) \in Nat
  BY <1>1, HeightTypes
<1>3. ASSUME pc'[a] = pc[a], beat'[a] = beat[a] \/ pc[a] \notin {"asserting", "finishing"}
      PROVE  Height(pc[a], beat[a]) = Height(pc'[a], beat'[a])
  BY <1>1, <1>3, Heights DEF Stage, Running
<1>4. CASE Tick \/ UNCHANGED vars
  <2>1. pc' = pc /\ beat' = beat
    BY <1>4 DEF Tick, vars, beatVars
  <2> QED BY <1>2, <1>3, <2>1
<1>5. ASSUME NEW b \in Attempt \ {a}, Step(b)
      PROVE  Height(pc[a], beat[a]) <= Height(pc'[a], beat'[a])
  BY <1>2, <1>3, <1>5, OthersAct
<1>6. CASE Step(a)
  BY <1>2, <1>3, <1>6, OwnSteps DEF Step
<1> QED BY <1>4, <1>5, <1>6 DEF Next

(* What is due of an attempt at each height.                               *)
LEMMA DueAt ==
    ASSUME Steadily, NEW a \in Attempt
    PROVE  LET h == Height(pc[a], beat[a]) IN
           /\ h = 3 => pc[a] = "crawling"
           /\ h \in {4, 5, 14, 15} => pc[a] \in {"asserting", "finishing"} /\ BeatDue(a)
           /\ h \in {1, 2, 6, 7, 8, 9, 10, 11, 12, 13, 16, 17} => AnswerDue(a)
           /\ h >= 18 => pc[a] \in {"done", "dead"}
           /\ pc[a] = "acquiring" => h >= 1
           /\ h \in 0..18
BY Heights DEF Steadily, Inductive, Awaited, TypeOK, Stage, Running, AnswerDue, BeatDue, CanQuery,
   HoldsConnection

(* From each height to the next.                                           *)
Climbs(a, n, m) == HasReached(a, n) ~> HasReached(a, m)

LEMMA Climb ==
    ASSUME NEW a \in Attempt, NEW n \in 1..17, NEW m \in 2..18, m = n + 1
    PROVE  Spec /\ Responsive(a) => Climbs(a, n, m)
<1> DEFINE Here == HasReached(a, n) /\ ~HasReached(a, m)
<1>1. Steadily /\ Here => Height(pc[a], beat[a]) = n
  BY DueAt DEF HasReached
<1>2. Steadily /\ Steadily' /\ [Next]_vars /\ HasReached(a, n) => HasReached(a, n)'
  <2> SUFFICES ASSUME Steadily, Steadily', [Next]_vars, HasReached(a, n) PROVE HasReached(a, n)'
    OBVIOUS
  <2>1. Height(pc[a], beat[a]) \in 0..18
    BY DueAt
  <2>2. Height(pc'[a], beat'[a]) \in 0..18
    BY HeightTypes DEF Steadily, Inductive, TypeOK
  <2> QED BY <2>1, <2>2, NeverBack DEF HasReached
<1>3. ASSUME Steadily, Steadily', Here,
             \/ Answered(a) \/ Crawl(a)
             \/ BeatAnswered(a) /\ pc[a] \in {"asserting", "finishing"}
      PROVE  HasReached(a, m)'
  <2>1. Height(pc'[a], beat'[a]) \in 0..18
    BY <1>3, HeightTypes DEF Steadily, Inductive, TypeOK
  <2> QED BY <1>1, <1>3, <2>1, OwnSteps DEF HasReached
<1>4. CASE n = 3
  <2>1. Steadily /\ Here => pc[a] = "crawling"
    BY <1>1, <1>4, DueAt
  <2>2. Steadily /\ Steadily' /\ Here /\ <<Crawl(a)>>_vars => HasReached(a, m)'
    BY <1>3
  <2> QED BY <1>2, <2>1, <2>2, AwaitedCorrect, PTL DEF Climbs, Responsive, Spec, Steadily
<1>5. CASE n \in {4, 5, 14, 15}
  <2>1. Steadily /\ Here => BeatDue(a) /\ pc[a] \in {"asserting", "finishing"}
    BY <1>1, <1>5, DueAt
  <2>2. Steadily /\ Steadily' /\ Here /\ <<BeatAnswered(a)>>_vars => HasReached(a, m)'
    BY <1>3, <2>1
  <2> QED BY <1>2, <2>1, <2>2, AwaitedCorrect, PTL DEF Climbs, Responsive, Spec, Steadily
<1>6. CASE n \notin {3, 4, 5, 14, 15}
  <2>1. Steadily /\ Here => AnswerDue(a)
    BY <1>1, <1>6, DueAt
  <2>2. Steadily /\ Steadily' /\ Here /\ <<Answered(a)>>_vars => HasReached(a, m)'
    BY <1>3
  <2> QED BY <1>2, <2>1, <2>2, AwaitedCorrect, PTL DEF Climbs, Responsive, Spec, Steadily
<1> QED BY <1>4, <1>5, <1>6

LEMMA ResponsiveAttemptEnds ==
    ASSUME NEW a \in Attempt
    PROVE  Spec /\ Responsive(a) => AttemptEnds(a)
<1>1. /\ Spec /\ Responsive(a) => Climbs(a, 1, 2)
      /\ Spec /\ Responsive(a) => Climbs(a, 2, 3)
      /\ Spec /\ Responsive(a) => Climbs(a, 3, 4)
      /\ Spec /\ Responsive(a) => Climbs(a, 4, 5)
      /\ Spec /\ Responsive(a) => Climbs(a, 5, 6)
      /\ Spec /\ Responsive(a) => Climbs(a, 6, 7)
      /\ Spec /\ Responsive(a) => Climbs(a, 7, 8)
      /\ Spec /\ Responsive(a) => Climbs(a, 8, 9)
  BY Climb
<1>2. /\ Spec /\ Responsive(a) => Climbs(a, 9, 10)
      /\ Spec /\ Responsive(a) => Climbs(a, 10, 11)
      /\ Spec /\ Responsive(a) => Climbs(a, 11, 12)
      /\ Spec /\ Responsive(a) => Climbs(a, 12, 13)
      /\ Spec /\ Responsive(a) => Climbs(a, 13, 14)
      /\ Spec /\ Responsive(a) => Climbs(a, 14, 15)
      /\ Spec /\ Responsive(a) => Climbs(a, 15, 16)
      /\ Spec /\ Responsive(a) => Climbs(a, 16, 17)
      /\ Spec /\ Responsive(a) => Climbs(a, 17, 18)
  BY Climb
<1>3. Steadily /\ pc[a] = "acquiring" => HasReached(a, 1)
  BY DueAt DEF HasReached
<1>4. Steadily /\ HasReached(a, 18) => pc[a] \in {"done", "dead"}
  BY DueAt DEF HasReached
<1> QED BY <1>1, <1>2, <1>3, <1>4, AwaitedCorrect, PTL DEF Climbs, AttemptEnds, Steadily

(* An attempt that is answered ends: whatever the other attempts, the      *)
(* clock, the heartbeat and the size of the pool do, no answer it waits    *)
(* for waits for itself (orchestrator.ts, mysql-json-importer.ts).         *)
THEOREM AttemptsEndWhenAnswered == Spec /\ EveryoneResponds => AttemptsEnd
BY ResponsiveAttemptEnds DEF EveryoneResponds, AttemptsEnd

-----------------------------------------------------------------------------
(* Refinement.                                                             *)

(* Every step of the lease is a grant, a withdrawal or a store of the      *)
(* abstract store, or leaves it as it is.                                  *)
LEMMA StepRefines ==
    ASSUME Inductive, [Next]_vars
    PROVE  [Abstract!Next]_(Abstract!storeVars)
<1> DEFINE Same == UNCHANGED Abstract!storeVars
<1> USE DEF Abstract!storeVars, Abstract!Next, EpochOf
<1>1. ASSUME NEW a \in Attempt, AcquireStatement(a) PROVE Abstract!Grant \/ Same
  <2>1. stored # a /\ pc[a] = "acquiring"
    BY <1>1 DEF AcquireStatement, Inductive, FreshAttempts
  <2>2. CASE Takeable(a)
    <3>1. taken' = taken + 1 /\ lock'.owner = a /\ epoch'[a] = taken + 1 /\ stored' = stored
      BY <1>1, <2>2 DEF AcquireStatement, TakeRow, storeVars, Inductive, TypeOK
    <3>2. EpochOf(lock.owner)' = taken + 1
      BY <3>1
    <3>3. EpochOf(stored)' = EpochOf(stored)
      BY <1>1, <2>1, <2>2 DEF AcquireStatement, TakeRow, storeVars, Inductive, TypeOK
    <3> QED BY <3>1, <3>2, <3>3 DEF Abstract!Grant
  <2>3. CASE ~Takeable(a)
    BY <1>1, <2>3 DEF AcquireStatement, TakeRow, storeVars, leaseVars
  <2> QED BY <2>2, <2>3
<1>2. ASSUME NEW a \in Attempt, Release(a) PROVE Abstract!Withdraw \/ Same
  <2>1. CASE lock.owner = a
    <3>1. EpochOf(lock.owner) # 0
      BY <2>1 DEF Inductive, LatestHolder, TokensIssued
    <3> QED BY <1>2, <2>1, <3>1 DEF Release, Releasable, NoLock, storeVars,
               Abstract!Withdraw
  <2>2. CASE lock.owner # a
    BY <1>2, <2>2 DEF Release, Releasable, storeVars
  <2> QED BY <2>1, <2>2
<1>3. ASSUME NEW a \in Attempt, Commit(a) PROVE Abstract!Store \/ Same
  <2>1. EpochOf(lock.owner) = epoch[a] /\ epoch[a] # 0
    BY <1>3 DEF Commit, Inductive, LatestHolder, TokensIssued
  <2> QED BY <1>3, <2>1 DEF Commit, leaseVars, Abstract!Store
<1>4. ASSUME NEW a \in Attempt, RenewStatement(a) PROVE Same
  <2>1. lock'.owner = lock.owner
    BY <1>4 DEF RenewStatement, Inductive, TypeOK
  <2> QED BY <1>4, <2>1 DEF RenewStatement, storeVars
<1>5. ASSUME NEW a \in Attempt, Step(a), ~AcquireStatement(a), ~Release(a),
             ~Commit(a), ~RenewStatement(a)
      PROVE  Same
  BY <1>5 DEF Step, Answered, BeatAnswered, Crawl, Start, ConfirmAcquired,
     AcquireFails, Heartbeat, RenewReread, RenewFails, CrawlReturns, CrawlThrows,
     BeginImport, FinalCheck, ImportFails, RollBack, LogFailure, RunnerReturned,
     Match, Notify, AwaitRenewal, ReleaseFails, Crash, leaseVars, storeVars
<1>6. Tick \/ UNCHANGED vars => Same
  BY DEF Tick, vars, storeVars
<1> QED BY <1>1, <1>2, <1>3, <1>4, <1>5, <1>6 DEF Next

(* The lease, its heartbeat and its fenced import implement the abstract   *)
(* store, in which only the latest grant can store a crawl.                *)
THEOREM Refinement == Spec => ImplementsFencedStore
<1>1. Init => Abstract!Init
  BY DEF Init, NoLock, EpochOf, Abstract!Init
<1> QED BY <1>1, StepRefines, InductiveCorrect, PTL
        DEF Spec, ImplementsFencedStore, Abstract!Spec

(* So no crawl is ever stored over the crawl of a newer lease.             *)
THEOREM NeverOlder == Spec => StoredNeverOlder
BY Refinement, Abstract!StoresInOrder DEF ImplementsFencedStore, StoredNeverOlder
=============================================================================
