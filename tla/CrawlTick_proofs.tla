--------------------------- MODULE CrawlTick_proofs ---------------------------
(***************************************************************************)
(* Proofs about CrawlTick for any number of workers and sources, any       *)
(* budget, pause and threshold, and any number of requests and failures.   *)
(***************************************************************************)
EXTENDS CrawlTick, TLAPS

USE TickAssumption

-----------------------------------------------------------------------------
(* Types.                                                                  *)

(* What a step leaves of the place, the source and the precheck of each    *)
(* worker.                                                                 *)
Placed ==
    /\ at' \in [Worker -> Step]
    /\ cur' \in [Worker -> Source \union {NoSource}]
    /\ \A w \in Worker : at'[w] \notin Between => cur'[w] \in Source
    /\ pending' \in [Worker -> Probe]

LEMMA TimeIsNatural == Time \subseteq Nat /\ 0 \in Time
BY DEF Time

(* A stamp is a later instant.                                             *)
LEMMA StampTypes ==
    ASSUME TypeOK, Stamp
    PROVE  now' \in Time \ {0} /\ now' = now + 1 /\ now < now'
BY DEF TypeOK, Stamp, Time

LEMMA FaultTypes ==
    ASSUME TypeOK, Fault
    PROVE  faults' \in 0..MaxFaults
BY DEF TypeOK, Fault

(* A worker goes to a step where it needs no source.                       *)
LEMMA GotoBetween ==
    ASSUME TypeOK, NEW w \in Worker, NEW step \in Between, Goto(w, step), UNCHANGED <<cur, pending>>
    PROVE  Placed
BY DEF TypeOK, Goto, Placed, Step

(* Or to one where it has one.                                             *)
LEMMA GotoAtWork ==
    ASSUME TypeOK, NEW w \in Worker, NEW step \in Step, Goto(w, step), cur[w] \in Source,
           UNCHANGED <<cur, pending>>
    PROVE  Placed
BY DEF TypeOK, Goto, Placed

LEMMA StageTypes ==
    ASSUME TypeOK, NEW w \in Worker
    PROVE  /\ tick[w] \in Tick
           /\ tick[w].stage \in Between
           /\ tick[w].start \in Time
BY DEF TypeOK, Tick, Between

LEMMA DonePlaces ==
    ASSUME TypeOK, NEW w \in Worker, Done(w)
    PROVE  Placed
<1>1. tick[w].stage \in Between
  BY StageTypes
<1>2. NothingFound \in Probe
  BY DEF NothingFound, Probe, Finding, Time
<1>3. at' \in [Worker -> Step] /\ at'[w] = tick[w].stage /\ \A v \in Worker \ {w} : at'[v] = at[v]
  BY <1>1 DEF TypeOK, Done, Goto, Step
<1>4. cur' \in [Worker -> Source \union {NoSource}] /\ \A v \in Worker \ {w} : cur'[v] = cur[v]
  BY DEF TypeOK, Done
<1>5. pending' \in [Worker -> Probe]
  BY <1>2 DEF TypeOK, Done
<1> QED BY <1>1, <1>3, <1>4, <1>5 DEF TypeOK, Placed

(* A refusal leaves pauses of the right type.                              *)
LEMMA RefuseTypes ==
    ASSUME TypeOK, NEW w \in Worker, NEW refused \in BOOLEAN, Refuse(w, refused)
    PROVE  /\ paused' \in [Worker -> Nat]
           /\ shunned' \in [Worker -> Refusal]
<1>1. now + Pause \in Nat /\ Largest(now + Pause, paused[w]) \in Nat
  BY TimeIsNatural DEF TypeOK, Largest
<1>2. [until |-> now + Pause, inTick |-> TRUE] \in Refusal
  BY <1>1 DEF Refusal
<1>3. CASE refused
  <2>1. paused' = [paused EXCEPT ![w] = Largest(now + Pause, paused[w])]
    BY <1>3 DEF Refuse
  <2>2. shunned' = [shunned EXCEPT ![w] = [until |-> now + Pause, inTick |-> TRUE]]
    BY <1>3 DEF Refuse
  <2> QED BY <1>1, <1>2, <2>1, <2>2 DEF TypeOK
<1>4. CASE ~refused
  BY <1>4 DEF Refuse, TypeOK
<1> QED BY <1>3, <1>4

LEMMA ReserveTypes ==
    ASSUME NEW p \in Purse, NEW cost \in Nat, Affords(p, cost)
    PROVE  Reserve(p, cost) \in Purse
<1>1. /\ p.left \in Nat /\ p.held \in Nat /\ p.spent \in Nat
      /\ p = [left |-> p.left, held |-> p.held, spent |-> p.spent]
  BY DEF Purse
<1>2. Needed(cost) \in Nat /\ p.left - Needed(cost) \in Nat
  BY <1>1 DEF Needed, Least, Affords
<1> QED BY <1>1, <1>2 DEF Reserve, Purse

LEMMA SettleTypes ==
    ASSUME NEW p \in Purse, NEW actual \in Nat
    PROVE  Settle(p, actual) \in Purse /\ Settle(p, actual).held = 0
<1>1. p.left \in Nat /\ p.held \in Nat /\ p.spent \in Nat
  BY DEF Purse
<1>2. Largest(0, p.left + p.held - actual) \in Nat /\ p.spent + actual \in Nat
  BY <1>1 DEF Largest
<1> QED BY <1>2 DEF Settle, Purse

LEMMA WriteTypes ==
    ASSUME TypeOK, NEW s \in Source, NEW r \in Row, Write(s, r)
    PROVE  row' \in [Source -> Row] /\ stale' \in BOOLEAN
BY DEF TypeOK, Write

LEMMA RowTypes ==
    ASSUME TypeOK, NEW s \in Source
    PROVE  /\ row[s] \in Row
           /\ row[s].url \in Url /\ row[s].approval \in {"needs_review", "approved", "blocked"}
           /\ row[s].reviewedAt \in Time /\ row[s].failures \in Nat /\ row[s].failureAt \in Time
           /\ row[s].verdict \in {"fit", "needs_fix"} /\ row[s].checkedAt \in Time
           /\ row[s].checkedUrl \in Url \union {NoUrl} /\ row[s].requested \in Time
BY DEF TypeOK, Row

(* What a failed attempt leaves.                                           *)
LEMMA FailAttemptTypes ==
    ASSUME TypeOK, NEW w \in Worker, NEW challenged \in BOOLEAN, cur[w] \in Source,
           FailAttempt(w, challenged)
    PROVE  /\ Placed
           /\ tick' \in [Worker -> Tick]
           /\ paused' \in [Worker -> Nat]
           /\ retry' \in [Worker -> [Source -> Retry]]
           /\ shunned' \in [Worker -> Refusal]
<1> DEFINE s == cur[w]
           streak == retry[w][s].streak + 1
           fresh == [streak |-> streak, until |-> now + Pause]
           t == [tick[w] EXCEPT !.throttled = @ \/ challenged, !.stopped = TRUE]
<1>1. /\ paused' \in [Worker -> Nat]
      /\ shunned' \in [Worker -> Refusal]
  BY RefuseTypes DEF FailAttempt
<1>2. t \in Tick
  BY StageTypes DEF Tick
<1>3. tick' = [tick EXCEPT ![w] = t]
  BY DEF FailAttempt
<1>4. tick' \in [Worker -> Tick]
  BY <1>2, <1>3 DEF TypeOK
<1>5. fresh \in Retry
  BY TimeIsNatural DEF TypeOK, Retry
<1>6. retry' = [retry EXCEPT ![w] = [retry[w] EXCEPT ![s] = fresh]]
  BY DEF FailAttempt
<1>7. retry' \in [Worker -> [Source -> Retry]]
  <2>1. [retry[w] EXCEPT ![s] = fresh] \in [Source -> Retry]
    BY <1>5 DEF TypeOK
  <2> HIDE DEF fresh
  <2> QED BY <2>1, <1>6 DEF TypeOK
<1>8. Placed
  <2>1. CASE Done(w)
    BY <2>1, DonePlaces
  <2>2. CASE Goto(w, "giveUp") /\ UNCHANGED <<cur, pending>>
    BY <2>2, GotoAtWork DEF Step
  <2> QED BY <2>1, <2>2 DEF FailAttempt
<1> QED BY <1>1, <1>4, <1>7, <1>8

LEMMA EndTickTypes ==
    ASSUME TypeOK, NEW w \in Worker, EndTick(w)
    PROVE  /\ tick' \in [Worker -> Tick] /\ purse' \in [Worker -> Purse]
           /\ at' \in [Worker -> Step] /\ at'[w] = "asleep"
           /\ \A v \in Worker \ {w} : at'[v] = at[v]
<1>1. NoTick \in Tick /\ NoPurse \in Purse
  BY DEF NoTick, Tick, NoPurse, Purse, Time
<1> QED BY <1>1 DEF TypeOK, EndTick, Goto, Step, Between

LEMMA TypeStartTick ==
    ASSUME TypeOK, NEW w \in Worker, StartTick(w)
    PROVE  TypeOK'
<1> DEFINE t == [NoTick EXCEPT !.start = now + 1]
           p == [purse[w] EXCEPT !.left = Allowance]
<1>1. now' \in Time \ {0} /\ now' = now + 1
  BY StampTypes DEF StartTick
<1>2. t \in Tick
  <2>1. NoTick \in Tick
    BY DEF NoTick, Tick, Time
  <2>2. now + 1 \in Time
    BY <1>1
  <2> QED BY <2>1, <2>2 DEF Tick
<1>3. p \in Purse
  <2>1. purse[w] \in Purse
    BY DEF TypeOK
  <2> QED BY <2>1 DEF Purse
<1>4. tick' = [tick EXCEPT ![w] = t] /\ purse' = [purse EXCEPT ![w] = p]
  BY DEF StartTick
<1>5. Placed
  BY GotoBetween DEF StartTick, Between
<1> HIDE DEF t, p
<1>6. tick' \in [Worker -> Tick] /\ purse' \in [Worker -> Purse]
  BY <1>2, <1>3, <1>4 DEF TypeOK
<1>7. UNCHANGED <<row, batch, hand, raced, found, probed, triaged, stale, faults, paused, retry, listed, shunned>>
  BY DEF StartTick, desk
<1> QED BY <1>1, <1>5, <1>6, <1>7 DEF TypeOK, Placed

LEMMA TypeListDue ==
    ASSUME TypeOK, NEW w \in Worker, ListDue(w)
    PROVE  TypeOK'
<1>1. PICK due \in SUBSET Crawlable : tick' = [tick EXCEPT ![w].todo = due]
  BY DEF ListDue
<1> DEFINE t == [tick[w] EXCEPT !.todo = due]
<1>2. t \in Tick
  BY StageTypes DEF Tick, Crawlable
<1>3. tick' = [tick EXCEPT ![w] = t]
  BY <1>1
<1>4. Placed
  BY GotoBetween DEF ListDue, Between
<1> HIDE DEF t
<1> QED BY <1>2, <1>3, <1>4 DEF TypeOK, ListDue, Placed, desk

LEMMA TypeListQueue ==
    ASSUME TypeOK, NEW w \in Worker, ListQueue(w)
    PROVE  TypeOK'
<1>1. PICK todo \in {{s \in Source : row[s].requested # 0}, {}} :
        /\ IF \A s \in Source : row[s].requested # 0 => s \in todo THEN UNCHANGED faults ELSE Fault
        /\ listed' = [listed EXCEPT ![w] = [s \in Source |-> IF s \in todo THEN row[s].requested ELSE 0]]
        /\ tick' = [tick EXCEPT ![w].todo = todo, ![w].stage = "queue"]
  BY DEF ListQueue
<1> DEFINE t == [tick[w] EXCEPT !.todo = todo, !.stage = "queue"]
           l == [s \in Source |-> IF s \in todo THEN row[s].requested ELSE 0]
<1>2. todo \in SUBSET Source
  OBVIOUS
<1>3. t \in Tick
  BY <1>2, StageTypes DEF Tick
<1>4. tick' = [tick EXCEPT ![w] = t]
  BY <1>1
<1>5. l \in [Source -> Time]
  BY RowTypes, TimeIsNatural
<1>6. faults' \in 0..MaxFaults
  BY <1>1, FaultTypes DEF TypeOK
<1>7. Placed
  BY GotoBetween DEF ListQueue, Between
<1>8. listed' = [listed EXCEPT ![w] = l]
  BY <1>1
<1> HIDE DEF t, l
<1> QED BY <1>3, <1>4, <1>5, <1>6, <1>7, <1>8 DEF TypeOK, ListQueue, Placed, desk

LEMMA TypeStartBackfill ==
    ASSUME TypeOK, NEW w \in Worker, StartBackfill(w)
    PROVE  TypeOK'
<1>1. PICK todo \in SUBSET Crawlable :
        tick' = [tick EXCEPT ![w].todo = todo, ![w].stage = "backfill", ![w].stopped = FALSE]
  BY DEF StartBackfill
<1> DEFINE t == [tick[w] EXCEPT !.todo = todo, !.stage = "backfill", !.stopped = FALSE]
<1>2. t \in Tick
  BY StageTypes DEF Tick, Crawlable
<1>3. tick' = [tick EXCEPT ![w] = t]
  BY <1>1
<1>4. listed' \in [Worker -> [Source -> Time]]
  BY TimeIsNatural DEF TypeOK, StartBackfill
<1>5. Placed
  BY GotoBetween DEF StartBackfill, Between
<1> HIDE DEF t
<1> QED BY <1>2, <1>3, <1>4, <1>5 DEF TypeOK, StartBackfill, Placed, desk

LEMMA TypeSleep ==
    ASSUME TypeOK, NEW w \in Worker, Sleep(w)
    PROVE  TypeOK'
<1> DEFINE r == [shunned[w] EXCEPT !.inTick = FALSE]
<1>1. shunned' \in [Worker -> Refusal]
  <2>1. shunned[w] \in Refusal
    BY DEF TypeOK
  <2>2. r \in Refusal
    BY <2>1 DEF Refusal
  <2>3. shunned' = [shunned EXCEPT ![w] = r]
    BY DEF Sleep
  <2> HIDE DEF r
  <2> QED BY <2>2, <2>3 DEF TypeOK
<1>2. /\ tick' \in [Worker -> Tick] /\ purse' \in [Worker -> Purse]
      /\ at' \in [Worker -> Step] /\ at'[w] = "asleep"
      /\ \A v \in Worker \ {w} : at'[v] = at[v]
  BY EndTickTypes DEF Sleep
<1>3. \A v \in Worker : at'[v] \notin Between => cur'[v] \in Source
  BY <1>2 DEF TypeOK, Sleep, Between
<1> QED BY <1>1, <1>2, <1>3 DEF TypeOK, Sleep, desk

LEMMA TypeRestart ==
    ASSUME TypeOK, NEW w \in Worker, Restart(w)
    PROVE  TypeOK'
<1>1. /\ shunned' \in [Worker -> Refusal]
      /\ pending' \in [Worker -> Probe]
  <2>1. /\ NotShunned \in Refusal
        /\ NothingFound \in Probe
    BY DEF NotShunned, NothingFound, Refusal, Probe, Finding, Time
  <2> QED BY <2>1 DEF TypeOK, Restart
<1>2. /\ paused' \in [Worker -> Nat]
      /\ retry' \in [Worker -> [Source -> Retry]]
      /\ listed' \in [Worker -> [Source -> Time]]
  <2>1. NoRetry \in Retry
    BY DEF NoRetry, Retry
  <2> QED BY <2>1, TimeIsNatural DEF TypeOK, Restart
<1>3. /\ tick' \in [Worker -> Tick] /\ purse' \in [Worker -> Purse]
      /\ at' \in [Worker -> Step] /\ at'[w] = "asleep"
      /\ \A v \in Worker \ {w} : at'[v] = at[v]
  BY EndTickTypes DEF Restart
<1>4. cur' \in [Worker -> Source \union {NoSource}] /\ \A v \in Worker \ {w} : cur'[v] = cur[v]
  BY DEF TypeOK, Restart
<1>5. \A v \in Worker : at'[v] \notin Between => cur'[v] \in Source
  BY <1>3, <1>4 DEF TypeOK, Between
<1>6. faults' \in 0..MaxFaults
  BY FaultTypes DEF Restart
<1> QED BY <1>1, <1>2, <1>3, <1>4, <1>5, <1>6 DEF TypeOK, Restart, desk

(* The sources left of a stage after one was taken.                        *)
LEMMA TakesTypes ==
    ASSUME TypeOK, NEW w \in Worker, NEW s \in Source, Takes(w, s)
    PROVE  tick' \in [Worker -> Tick]
<1> DEFINE t == [tick[w] EXCEPT !.todo = @ \ {s}]
<1>1. t \in Tick
  BY StageTypes DEF Tick
<1>2. tick' = [tick EXCEPT ![w] = t]
  BY DEF Takes
<1> HIDE DEF t
<1> QED BY <1>1, <1>2 DEF TypeOK

LEMMA TypeSkip ==
    ASSUME TypeOK, NEW w \in Worker, NEW s \in Source, Skip(w, s)
    PROVE  TypeOK'
<1>1. tick' \in [Worker -> Tick]
  BY TakesTypes DEF Skip
<1> QED BY <1>1 DEF TypeOK, Skip, desk

LEMMA TypeTakeCrawl ==
    ASSUME TypeOK, NEW w \in Worker, NEW s \in Source, TakeCrawl(w, s)
    PROVE  TypeOK'
<1>1. tick' \in [Worker -> Tick]
  BY TakesTypes DEF TakeCrawl
<1>2. purse' \in [Worker -> Purse]
  <2>1. purse[w] \in Purse /\ Affords(purse[w], Pages) /\ Pages \in Nat
    BY DEF TypeOK, TakeCrawl, AdmitsCrawl
  <2>2. Reserve(purse[w], Pages) \in Purse
    BY <2>1, ReserveTypes
  <2> QED BY <2>2 DEF TypeOK, TakeCrawl
<1>3. at' \in [Worker -> Step] /\ \A v \in Worker \ {w} : at'[v] = at[v]
  BY DEF TypeOK, TakeCrawl, Goto, Step
<1>4. cur' \in [Worker -> Source \union {NoSource}] /\ cur'[w] = s /\ \A v \in Worker \ {w} : cur'[v] = cur[v]
  BY DEF TypeOK, TakeCrawl
<1> QED BY <1>1, <1>2, <1>3, <1>4 DEF TypeOK, TakeCrawl, desk

LEMMA TypeTakePrecheck ==
    ASSUME TypeOK, NEW w \in Worker, NEW s \in Source, TakePrecheck(w, s)
    PROVE  TypeOK'
<1>1. tick' \in [Worker -> Tick]
  BY TakesTypes DEF TakePrecheck
<1>2. purse' \in [Worker -> Purse]
  <2>1. purse[w] \in Purse /\ Affords(purse[w], PrecheckCost) /\ PrecheckCost \in Nat
    BY DEF TypeOK, TakePrecheck, AdmitsPrecheck
  <2>2. Reserve(purse[w], PrecheckCost) \in Purse
    BY <2>1, ReserveTypes
  <2> QED BY <2>2 DEF TypeOK, TakePrecheck
<1>3. at' \in [Worker -> Step] /\ \A v \in Worker \ {w} : at'[v] = at[v]
  BY DEF TypeOK, TakePrecheck, Goto, Step
<1>4. cur' \in [Worker -> Source \union {NoSource}] /\ cur'[w] = s /\ \A v \in Worker \ {w} : cur'[v] = cur[v]
  BY DEF TypeOK, TakePrecheck
<1> DEFINE b == [pending[w] EXCEPT !.at = now]
<1>5. pending' \in [Worker -> Probe]
  <2>1. pending[w] \in Probe /\ now \in Time
    BY DEF TypeOK
  <2>2. b \in Probe
    BY <2>1 DEF Probe
  <2>3. pending' = [pending EXCEPT ![w] = b]
    BY DEF TakePrecheck
  <2> HIDE DEF b
  <2> QED BY <2>2, <2>3 DEF TypeOK
<1> QED BY <1>1, <1>2, <1>3, <1>4, <1>5 DEF TypeOK, TakePrecheck, desk

(* What a settled purse may leave, and reserve again.                      *)
LEMMA AttemptPurse ==
    ASSUME TypeOK, NEW w \in Worker, NEW used \in 0..MaxUse \union {purse[w].held}
    PROVE  /\ purse[w] \in Purse /\ used \in Nat
           /\ Settle(purse[w], used) \in Purse
           /\ Affords(Settle(purse[w], used), Pages) => Reserve(Settle(purse[w], used), Pages) \in Purse
<1>1. purse[w] \in Purse
  BY DEF TypeOK
<1>2. used \in Nat
  BY <1>1 DEF Purse
<1>3. Settle(purse[w], used) \in Purse
  BY <1>1, <1>2, SettleTypes
<1>4. Affords(Settle(purse[w], used), Pages) => Reserve(Settle(purse[w], used), Pages) \in Purse
  BY <1>3, ReserveTypes
<1> QED BY <1>1, <1>2, <1>3, <1>4

LEMMA TypeAttempt ==
    ASSUME TypeOK, NEW w \in Worker, Attempt(w)
    PROVE  TypeOK'
<1>1. PICK k \in Outcome, used \in 0..MaxUse \union {purse[w].held} :
        LET settled == Settle(purse[w], used)
            reserves == Reserves(w, k) /\ Affords(settled, Pages)
            again == reserves /\ tick[w].tries < MaxTries
            judged == tick[w].stage = "lists" /\ ResultOf(k) # "none"
        IN
        /\ at[w] = "crawl" /\ row[cur[w]].approval = "approved"
        /\ purse' = [purse EXCEPT ![w] = IF reserves THEN Reserve(settled, Pages) ELSE settled]
        /\ tick' = [tick EXCEPT ![w].tries = IF again THEN @ + 1 ELSE 1,
                                ![w].result = IF judged /\ ~again THEN ResultOf(k) ELSE "none",
                                ![w].throttled = @ \/ k = "refused"]
        /\ Refuse(w, k = "refused")
        /\ IF again THEN UNCHANGED <<at, cur, pending>>
           ELSE IF judged THEN Goto(w, "health") /\ UNCHANGED <<cur, pending>>
           ELSE Done(w)
        /\ UNCHANGED <<desk, now, faults, retry, listed>>
  BY DEF Attempt
<1> DEFINE settled == Settle(purse[w], used)
           reserves == Reserves(w, k) /\ Affords(settled, Pages)
           again == reserves /\ tick[w].tries < MaxTries
           judged == tick[w].stage = "lists" /\ ResultOf(k) # "none"
           tries == IF again THEN tick[w].tries + 1 ELSE 1
           result == IF judged /\ ~again THEN ResultOf(k) ELSE "none"
           throttled == tick[w].throttled \/ k = "refused"
           t == [tick[w] EXCEPT !.tries = tries, !.result = result, !.throttled = throttled]
<1>2. purse' \in [Worker -> Purse]
  <2>1. (IF reserves THEN Reserve(settled, Pages) ELSE settled) \in Purse
    BY AttemptPurse
  <2>2. purse' = [purse EXCEPT ![w] = IF reserves THEN Reserve(settled, Pages) ELSE settled]
    BY <1>1
  <2> HIDE DEF settled, reserves
  <2> QED BY <2>1, <2>2 DEF TypeOK
<1>3. tick' \in [Worker -> Tick]
  <2>1. tick' = [tick EXCEPT ![w] = t]
    BY <1>1
  <2>2. /\ tick[w] \in Tick
        /\ result \in {"none", "success", "failure", "broken"}
    BY StageTypes DEF ResultOf, Outcome
  <2>3. tick[w].tries \in Nat \ {0}
    BY <2>2 DEF Tick
  <2>4. tries \in Nat \ {0}
    BY <2>3
  <2>5. tick[w].throttled \in BOOLEAN /\ throttled \in BOOLEAN
    BY <2>2 DEF Tick
  <2> HIDE DEF tries, result, throttled
  <2>6. t \in Tick
    BY <2>2, <2>4, <2>5 DEF Tick
  <2> HIDE DEF t
  <2> QED BY <2>1, <2>6 DEF TypeOK
<1>4. paused' \in [Worker -> Nat] /\ shunned' \in [Worker -> Refusal]
  BY <1>1, RefuseTypes
<1>5. Placed
  <2>0. cur[w] \in Source
    BY <1>1 DEF TypeOK, Between
  <2>1. CASE UNCHANGED <<at, cur, pending>>
    BY <2>1 DEF TypeOK, Placed
  <2>2. CASE Goto(w, "health") /\ UNCHANGED <<cur, pending>>
    BY <2>0, <2>2, GotoAtWork DEF Step
  <2>3. CASE Done(w)
    BY <2>3, DonePlaces
  <2> QED BY <1>1, <2>1, <2>2, <2>3
<1>6. UNCHANGED <<row, batch, hand, raced, found, probed, triaged, stale, now, faults, retry, listed>>
  BY <1>1 DEF desk
<1> QED BY <1>2, <1>3, <1>4, <1>5, <1>6 DEF TypeOK, Placed

LEMMA TypeNotContacted ==
    ASSUME TypeOK, NEW w \in Worker, NotContacted(w)
    PROVE  TypeOK'
<1> DEFINE t == [tick[w] EXCEPT !.tries = 1]
<1>1. tick' \in [Worker -> Tick]
  <2>1. t \in Tick
    BY StageTypes DEF Tick
  <2>2. tick' = [tick EXCEPT ![w] = t]
    BY DEF NotContacted
  <2> HIDE DEF t
  <2> QED BY <2>1, <2>2 DEF TypeOK
<1>2. purse' \in [Worker -> Purse]
  <2>1. Settle(purse[w], 0) \in Purse
    BY SettleTypes DEF TypeOK
  <2> QED BY <2>1 DEF TypeOK, NotContacted
<1>3. Placed
  BY DonePlaces DEF NotContacted
<1>4. UNCHANGED <<row, batch, hand, raced, found, probed, triaged, stale, now, faults, paused, retry, listed, shunned>>
  BY DEF NotContacted, desk
<1> QED BY <1>1, <1>2, <1>3, <1>4 DEF TypeOK, Placed

(* The verdict of a run is forgotten once it is written, or is not.        *)
LEMMA JudgedTypes ==
    ASSUME TypeOK, NEW w \in Worker, tick' = [tick EXCEPT ![w].result = "none"]
    PROVE  tick' \in [Worker -> Tick]
<1> DEFINE t == [tick[w] EXCEPT !.result = "none"]
<1>1. t \in Tick
  BY StageTypes DEF Tick
<1>2. tick' = [tick EXCEPT ![w] = t]
  OBVIOUS
<1> HIDE DEF t
<1> QED BY <1>1, <1>2 DEF TypeOK

LEMMA AfterRunTypes ==
    ASSUME TypeOK, NEW w \in Worker, NEW s \in Source
    PROVE  AfterRun(row[s], w) \in Row
<1>1. row[s] \in Row /\ row[s].failures + 1 \in Nat /\ tick[w].start \in Time
  BY RowTypes, StageTypes
<1> DEFINE a == IF Demotes(row[s], tick[w].result) THEN "needs_review" ELSE row[s].approval
<1>2. a \in {"needs_review", "approved", "blocked"}
  BY RowTypes
<1>3. [row[s] EXCEPT !.failures = 0] \in Row
  BY <1>1 DEF Row
<1>4. [row[s] EXCEPT !.failures = @ + 1, !.failureAt = tick[w].start, !.approval = a] \in Row
  <2> HIDE DEF a
  <2> QED BY <1>1, <1>2 DEF Row
<1> QED BY <1>3, <1>4 DEF AfterRun

LEMMA TypeHealth ==
    ASSUME TypeOK, NEW w \in Worker, Health(w)
    PROVE  TypeOK'
<1>1. cur[w] \in Source
  BY DEF TypeOK, Health, Between
<1>2. row' \in [Source -> Row] /\ stale' \in BOOLEAN
  BY <1>1, AfterRunTypes, WriteTypes DEF Health
<1>3. tick' \in [Worker -> Tick]
  BY JudgedTypes DEF Health
<1>4. hand' \in SUBSET Source /\ raced' \in SUBSET Source
  BY <1>1 DEF TypeOK, Health
<1>5. Placed
  BY DonePlaces DEF Health
<1>6. UNCHANGED <<batch, found, probed, triaged, now, faults, purse, paused, retry, listed, shunned>>
  BY DEF Health
<1> QED BY <1>2, <1>3, <1>4, <1>5, <1>6 DEF TypeOK, Placed

LEMMA TypeHealthLost ==
    ASSUME TypeOK, NEW w \in Worker, HealthLost(w)
    PROVE  TypeOK'
<1>1. tick' \in [Worker -> Tick]
  BY JudgedTypes DEF HealthLost
<1>2. Placed /\ faults' \in 0..MaxFaults
  BY DonePlaces, FaultTypes DEF HealthLost
<1>3. UNCHANGED <<row, batch, hand, raced, found, probed, triaged, stale, now, purse, paused, retry, listed, shunned>>
  BY DEF HealthLost, desk
<1> QED BY <1>1, <1>2, <1>3 DEF TypeOK, Placed

LEMMA TypePrecheck ==
    ASSUME TypeOK, NEW w \in Worker, Precheck(w)
    PROVE  TypeOK'
<1>1. PICK k \in Finding \ {"none"} :
        pending' = [pending EXCEPT ![w] = [@ EXCEPT !.kind = k, !.url = row[cur[w]].url]]
  BY DEF Precheck
<1>2. cur[w] \in Source
  BY DEF TypeOK, Precheck, Between
<1> DEFINE b == [pending[w] EXCEPT !.kind = k, !.url = row[cur[w]].url]
<1>3. pending' \in [Worker -> Probe]
  <2>1. pending[w] \in Probe
    BY DEF TypeOK
  <2>2. b \in Probe
    BY <1>2, <2>1, RowTypes DEF Probe
  <2>3. pending' = [pending EXCEPT ![w] = b]
    BY <1>1
  <2> HIDE DEF b
  <2> QED BY <2>2, <2>3 DEF TypeOK
<1>4. at' \in [Worker -> Step] /\ \A v \in Worker : v # w => at'[v] = at[v]
  BY DEF TypeOK, Precheck, Goto, Step
<1>5. UNCHANGED <<row, batch, hand, raced, found, probed, triaged, stale, now, faults, cur, tick, purse, paused, retry, listed, shunned>>
  BY DEF Precheck, desk
<1> QED BY <1>2, <1>3, <1>4, <1>5 DEF TypeOK

LEMMA TypeRecordPrecheck ==
    ASSUME TypeOK, NEW w \in Worker, RecordPrecheck(w)
    PROVE  TypeOK'
<1> DEFINE s == cur[w]
           p == pending[w]
           verdict == IF p.kind = "fit" THEN "fit" ELSE "needs_fix"
           r == [row[s] EXCEPT !.verdict = verdict, !.checkedAt = tick[w].start, !.checkedUrl = p.url]
           cost == PrecheckCost + (IF p.kind = "gone" THEN DiscoveryCost ELSE 0)
<1>1. s \in Source
  BY DEF TypeOK, RecordPrecheck, Between
<1>2. p \in Probe /\ p.url \in Url \union {NoUrl}
  BY DEF TypeOK, Probe
<1>3. row' \in [Source -> Row] /\ stale' \in BOOLEAN
  <2>1. row[s] \in Row /\ tick[w].start \in Time
    BY <1>1, RowTypes, StageTypes
  <2>2. r \in Row
    <3>1. verdict \in {"fit", "needs_fix"}
      OBVIOUS
    <3> HIDE DEF verdict, s, p
    <3> QED BY <1>2, <2>1, <3>1 DEF Row
  <2>3. Write(s, r)
    BY DEF RecordPrecheck, CheckedUrl
  <2> HIDE DEF r, s
  <2> QED BY <1>1, <2>2, <2>3, WriteTypes
<1>4. purse' \in [Worker -> Purse]
  <2>1. purse[w] \in Purse /\ cost \in Nat
    BY DEF TypeOK
  <2>2. purse' = [purse EXCEPT ![w] = Settle(purse[w], cost)]
    BY DEF RecordPrecheck
  <2> HIDE DEF cost
  <2>3. Settle(purse[w], cost) \in Purse
    BY <2>1, SettleTypes
  <2> QED BY <2>2, <2>3 DEF TypeOK
<1>5. found' \in [Source -> [Url -> Time]]
  <2>1. CASE p.kind = "fit"
    <3> DEFINE l == Largest(found[s][p.url], tick[w].start)
               f == [found[s] EXCEPT ![p.url] = l]
    <3>1. found[s] \in [Url -> Time]
      BY <1>1 DEF TypeOK
    <3>2. f \in [Url -> Time]
      <4>1. CASE p.url \in Url
        BY <3>1, <4>1, StageTypes DEF Largest
      <4>2. CASE p.url \notin Url
        BY <3>1, <4>2
      <4> QED BY <4>1, <4>2
    <3>3. found' = [found EXCEPT ![s] = f]
      BY <2>1 DEF RecordPrecheck
    <3> HIDE DEF f, s
    <3> QED BY <1>1, <3>2, <3>3 DEF TypeOK
  <2>2. CASE p.kind # "fit"
    BY <2>2 DEF RecordPrecheck, TypeOK
  <2> QED BY <2>1, <2>2
<1>6. /\ Placed
      /\ tick' \in [Worker -> Tick]
      /\ paused' \in [Worker -> Nat]
      /\ retry' \in [Worker -> [Source -> Retry]]
      /\ shunned' \in [Worker -> Refusal]
  <2>1. CASE FailAttempt(w, p.kind = "challenge")
    BY <1>1, <2>1, FailAttemptTypes
  <2>2. CASE Goto(w, "clear") /\ UNCHANGED <<cur, tick, paused, retry, pending, shunned>>
    <3>1. Placed
      BY <1>1, <2>2, GotoAtWork DEF Step
    <3> QED BY <2>2, <3>1 DEF TypeOK
  <2> QED BY <2>1, <2>2 DEF RecordPrecheck
<1>7. UNCHANGED <<batch, hand, raced, now, faults, listed>>
  BY DEF RecordPrecheck
<1>8. probed' \in [Source -> SUBSET (Url \union {NoUrl})] /\ triaged' \in SUBSET Source
  <2>1. probed[s] \in SUBSET (Url \union {NoUrl})
    BY <1>1 DEF TypeOK
  <2>2. probed[s] \union {p.url} \in SUBSET (Url \union {NoUrl})
    BY <1>2, <2>1
  <2>3. probed' = [probed EXCEPT ![s] = probed[s] \union {p.url}] /\ triaged' = triaged \ {s}
    BY DEF RecordPrecheck
  <2> HIDE DEF s, p
  <2> QED BY <2>2, <2>3 DEF TypeOK
<1> QED BY <1>3, <1>4, <1>5, <1>6, <1>7, <1>8 DEF TypeOK, Placed

LEMMA TypePrecheckRaises ==
    ASSUME TypeOK, NEW w \in Worker, PrecheckRaises(w)
    PROVE  TypeOK'
<1>1. cur[w] \in Source
  BY DEF TypeOK, PrecheckRaises, Between
<1>2. purse' \in [Worker -> Purse]
  <2>1. Settle(purse[w], PrecheckCost) \in Purse
    BY SettleTypes DEF TypeOK
  <2> QED BY <2>1 DEF TypeOK, PrecheckRaises
<1>3. FailAttempt(w, FALSE) /\ faults' \in 0..MaxFaults
  BY FaultTypes DEF PrecheckRaises
<1>4. /\ Placed
      /\ tick' \in [Worker -> Tick]
      /\ paused' \in [Worker -> Nat]
      /\ retry' \in [Worker -> [Source -> Retry]]
      /\ shunned' \in [Worker -> Refusal]
  BY <1>1, <1>3, FailAttemptTypes
<1>5. UNCHANGED <<row, batch, hand, raced, found, probed, triaged, stale, now, listed>>
  BY DEF PrecheckRaises, desk
<1> QED BY <1>2, <1>3, <1>4, <1>5 DEF TypeOK, Placed

LEMMA TypeClear ==
    ASSUME TypeOK, NEW w \in Worker, Clear(w)
    PROVE  TypeOK'
<1>1. cur[w] \in Source
  BY DEF TypeOK, Clear, Between
<1>2. row' \in [Source -> Row] /\ stale' \in BOOLEAN
  <2>1. ClearFlag(w) \in Row
    BY <1>1, RowTypes, TimeIsNatural DEF ClearFlag, Row
  <2> QED BY <1>1, <2>1, WriteTypes DEF Clear
<1>3. retry' \in [Worker -> [Source -> Retry]]
  <2>1. NoRetry \in Retry /\ retry[w] \in [Source -> Retry]
    BY DEF NoRetry, Retry, TypeOK
  <2>2. [retry[w] EXCEPT ![cur[w]] = NoRetry] \in [Source -> Retry]
    BY <2>1
  <2>3. retry' = [retry EXCEPT ![w] = [retry[w] EXCEPT ![cur[w]] = NoRetry]]
    BY DEF Clear
  <2> QED BY <2>2, <2>3 DEF TypeOK
<1>4. Placed
  BY DonePlaces DEF Clear
<1>5. UNCHANGED <<batch, hand, raced, found, probed, triaged, now, faults, tick, purse, paused, listed, shunned>>
  BY DEF Clear
<1> QED BY <1>2, <1>3, <1>4, <1>5 DEF TypeOK, Placed

LEMMA TypeClearRaises ==
    ASSUME TypeOK, NEW w \in Worker, ClearRaises(w)
    PROVE  TypeOK'
<1>1. cur[w] \in Source
  BY DEF TypeOK, ClearRaises, Between
<1>2. FailAttempt(w, FALSE) /\ faults' \in 0..MaxFaults
  BY FaultTypes DEF ClearRaises
<1>3. /\ Placed
      /\ tick' \in [Worker -> Tick]
      /\ paused' \in [Worker -> Nat]
      /\ retry' \in [Worker -> [Source -> Retry]]
      /\ shunned' \in [Worker -> Refusal]
  BY <1>1, <1>2, FailAttemptTypes
<1>4. UNCHANGED <<row, batch, hand, raced, found, probed, triaged, stale, now, purse, listed>>
  BY DEF ClearRaises, desk
<1> QED BY <1>2, <1>3, <1>4 DEF TypeOK, Placed

LEMMA TypeGiveUpRaises ==
    ASSUME TypeOK, NEW w \in Worker, GiveUpRaises(w)
    PROVE  TypeOK'
<1>1. Placed /\ faults' \in 0..MaxFaults
  BY DonePlaces, FaultTypes DEF GiveUpRaises
<1>2. UNCHANGED <<row, batch, hand, raced, found, probed, triaged, stale, now, tick, purse, paused, retry, listed, shunned>>
  BY DEF GiveUpRaises, desk
<1> QED BY <1>1, <1>2 DEF TypeOK, Placed

LEMMA TypeRequest ==
    ASSUME TypeOK, NEW s \in Source, Request(s)
    PROVE  TypeOK'
<1>1. now' \in Time \ {0} /\ now' = now + 1
  BY StampTypes DEF Request
<1>2. [row[s] EXCEPT !.requested = now + 1] \in Row
  BY <1>1, RowTypes DEF Row
<1>3. row' \in [Source -> Row] /\ stale' \in BOOLEAN
  BY <1>2, WriteTypes DEF Request
<1> QED BY <1>1, <1>3 DEF TypeOK, Request, Desk

LEMMA TypeDecide ==
    ASSUME TypeOK, NEW s \in Source, Decide(s)
    PROVE  TypeOK'
<1>1. now' \in Time \ {0} /\ now' = now + 1
  BY StampTypes DEF Decide
<1>2. PICK a \in {"needs_review", "approved", "blocked"} :
        Write(s, [row[s] EXCEPT !.approval = a, !.reviewedAt = now + 1])
  BY DEF Decide
<1>3. [row[s] EXCEPT !.approval = a, !.reviewedAt = now + 1] \in Row
  BY <1>1, RowTypes DEF Row
<1>4. row' \in [Source -> Row] /\ stale' \in BOOLEAN
  BY <1>2, <1>3, WriteTypes
<1> QED BY <1>1, <1>4 DEF TypeOK, Decide, Desk

LEMMA TypeNote ==
    ASSUME TypeOK, NEW s \in Source, Note(s)
    PROVE  TypeOK'
<1>1. now' \in Time \ {0} /\ now' = now + 1
  BY StampTypes DEF Note
<1>2. [row[s] EXCEPT !.reviewedAt = now + 1] \in Row
  BY <1>1, RowTypes DEF Row
<1>3. row' \in [Source -> Row] /\ stale' \in BOOLEAN
  BY <1>2, WriteTypes DEF Note
<1> QED BY <1>1, <1>3 DEF TypeOK, Note, Desk

LEMMA TypeEdit ==
    ASSUME TypeOK, NEW s \in Source, Edit(s)
    PROVE  TypeOK'
<1>1. now' \in Time \ {0}
  BY StampTypes DEF Edit
<1>2. PICK u \in Url \ {row[s].url} : Write(s, [row[s] EXCEPT !.url = u])
  BY DEF Edit
<1>3. [row[s] EXCEPT !.url = u] \in Row
  BY RowTypes DEF Row
<1>4. row' \in [Source -> Row] /\ stale' \in BOOLEAN
  BY <1>2, <1>3, WriteTypes
<1> QED BY <1>1, <1>4 DEF TypeOK, Edit, Desk

LEMMA TypeTriage ==
    ASSUME TypeOK, NEW s \in Source, Triage(s)
    PROVE  TypeOK'
<1>1. now' \in Time \ {0}
  BY StampTypes DEF Triage
<1>2. PICK verdict \in {"fit", "needs_fix"}, when \in Time, u \in {row[s].checkedUrl, NoUrl} :
        Write(s, [row[s] EXCEPT !.verdict = verdict, !.checkedAt = when, !.checkedUrl = u])
  BY DEF Triage
<1>3. [row[s] EXCEPT !.verdict = verdict, !.checkedAt = when, !.checkedUrl = u] \in Row
  <2>1. u \in Url \union {NoUrl}
    BY RowTypes
  <2> QED BY <2>1, RowTypes DEF Row
<1>4. row' \in [Source -> Row] /\ stale' \in BOOLEAN
  BY <1>2, <1>3, WriteTypes
<1> QED BY <1>1, <1>4 DEF TypeOK, Triage, Desk

LEMMA TypeBatchRead ==
    ASSUME TypeOK, NEW s \in Source, BatchRead(s)
    PROVE  TypeOK'
BY DEF TypeOK, BatchRead, Desk

LEMMA TypeBatchApprove ==
    ASSUME TypeOK, BatchApprove
    PROVE  TypeOK'
<1>1. now' \in Time \ {0} /\ now' = now + 1
  BY StampTypes DEF BatchApprove
<1>2. batch \in Source
  BY DEF TypeOK, BatchApprove
<1> DEFINE r == [row[batch] EXCEPT !.approval = "approved", !.reviewedAt = now + 1]
<1>3. r \in Row
  BY <1>1, <1>2, RowTypes DEF Row
<1>4. row' = [row EXCEPT ![batch] = r]
  BY DEF BatchApprove
<1>5. row' \in [Source -> Row]
  <2> HIDE DEF r
  <2> QED BY <1>3, <1>4 DEF TypeOK
<1> QED BY <1>1, <1>2, <1>5 DEF TypeOK, BatchApprove, Desk

(* A worker's steps by name.                                               *)
LEMMA TypeRun ==
    ASSUME TypeOK, NEW w \in Worker, Run(w)
    PROVE  TypeOK'
<1>1. CASE StartTick(w) \/ ListDue(w) \/ ListQueue(w) \/ StartBackfill(w) \/ Sleep(w) \/ Restart(w)
  BY <1>1, TypeStartTick, TypeListDue, TypeListQueue, TypeStartBackfill, TypeSleep, TypeRestart
<1>2. CASE \E s \in Source : Skip(w, s) \/ TakeCrawl(w, s) \/ TakePrecheck(w, s)
  BY <1>2, TypeSkip, TypeTakeCrawl, TypeTakePrecheck
<1>3. CASE Attempt(w) \/ NotContacted(w) \/ Health(w) \/ HealthLost(w)
  BY <1>3, TypeAttempt, TypeNotContacted, TypeHealth, TypeHealthLost
<1>4. CASE Precheck(w) \/ RecordPrecheck(w) \/ PrecheckRaises(w)
  BY <1>4, TypePrecheck, TypeRecordPrecheck, TypePrecheckRaises
<1>5. CASE Clear(w) \/ ClearRaises(w) \/ GiveUpRaises(w)
  BY <1>5, TypeClear, TypeClearRaises, TypeGiveUpRaises
<1> QED BY <1>1, <1>2, <1>3, <1>4, <1>5 DEF Run

LEMMA TypeStep ==
    ASSUME TypeOK, [Next]_vars
    PROVE  TypeOK'
<1>1. CASE \E w \in Worker : Run(w)
  BY <1>1, TypeRun
<1>2. CASE \E s \in Source : Act(s)
  BY <1>2, TypeRequest, TypeDecide, TypeNote, TypeEdit, TypeTriage, TypeBatchRead DEF Act
<1>3. CASE BatchApprove
  BY <1>3, TypeBatchApprove
<1>4. CASE UNCHANGED vars
  BY <1>4 DEF TypeOK, vars, desk
<1> QED BY <1>1, <1>2, <1>3, <1>4 DEF Next

LEMMA TypeInit == Init => TypeOK
<1> SUFFICES ASSUME Init PROVE TypeOK
  OBVIOUS
<1>1. row \in [Source -> Row]
  <2>1. PICK u \in Url : row \in [Source -> {Queued(u), Approved(u)}]
    BY DEF Init
  <2>2. Queued(u) \in Row
    BY DEF Queued, Row, Time
  <2>3. 0 \in Time /\ 1 \in Time
    BY DEF Time
  <2>4. Approved(u) \in Row
    BY <2>2, <2>3 DEF Approved, Row
  <2> QED BY <2>1, <2>2, <2>4
<1>2. NoTick \in Tick /\ NoPurse \in Purse /\ NoRetry \in Retry
  BY DEF NoTick, NoPurse, NoRetry, Tick, Purse, Retry, Time
<1>3. NothingFound \in Probe /\ NotShunned \in Refusal
  BY DEF NothingFound, NotShunned, Probe, Refusal, Finding, Time
<1>4. at \in [Worker -> Step] /\ \A w \in Worker : at[w] \in Between
  BY DEF Init, Step, Between
<1>5. hand \in SUBSET Source
  BY DEF Init
<1>6. now \in Time \ {0}
  BY DEF Init, Time
<1>7. /\ batch \in Source \union {NoSource} /\ faults \in 0..MaxFaults
      /\ cur \in [Worker -> Source \union {NoSource}]
      /\ raced \in SUBSET Source
  BY DEF Init
<1>12. stale \in BOOLEAN
  BY DEF Init
<1>8. tick \in [Worker -> Tick] /\ purse \in [Worker -> Purse] /\ paused \in [Worker -> Nat]
  BY <1>2 DEF Init
<1>9. retry \in [Worker -> [Source -> Retry]] /\ listed \in [Worker -> [Source -> Time]]
  BY <1>2, TimeIsNatural DEF Init
<1>10. pending \in [Worker -> Probe] /\ shunned \in [Worker -> Refusal]
  BY <1>3 DEF Init
<1>11. /\ found \in [Source -> [Url -> Time]] /\ probed \in [Source -> SUBSET (Url \union {NoUrl})]
       /\ triaged \in SUBSET Source
  BY TimeIsNatural DEF Init
<1> QED BY <1>1, <1>4, <1>5, <1>6, <1>7, <1>8, <1>9, <1>10, <1>11, <1>12 DEF TypeOK

(* The types of the columns, of each worker's place, and of what it keeps. *)
THEOREM TypeCorrect == Spec => []TypeOK
BY TypeInit, TypeStep, PTL DEF Spec

-----------------------------------------------------------------------------
(* What a step leaves alone.                                               *)

Untouched(w) ==
    /\ at'[w] = at[w] /\ cur'[w] = cur[w] /\ tick'[w] = tick[w] /\ purse'[w] = purse[w]
    /\ paused'[w] = paused[w] /\ retry'[w] = retry[w] /\ listed'[w] = listed[w]
    /\ pending'[w] = pending[w] /\ shunned'[w] = shunned[w]

LEMMA DoneLeaves ==
    ASSUME TypeOK, NEW v \in Worker, Done(v)
    PROVE  /\ at'[v] = tick[v].stage /\ cur'[v] = NoSource /\ pending'[v] = NothingFound
           /\ \A w \in Worker \ {v} : at'[w] = at[w] /\ cur'[w] = cur[w] /\ pending'[w] = pending[w]
BY DEF TypeOK, Done, Goto

LEMMA RefuseLeaves ==
    ASSUME TypeOK, NEW v \in Worker, NEW refused \in BOOLEAN, Refuse(v, refused)
    PROVE  \A w \in Worker \ {v} : paused'[w] = paused[w] /\ shunned'[w] = shunned[w]
BY DEF TypeOK, Refuse

LEMMA FailAttemptLeaves ==
    ASSUME TypeOK, NEW v \in Worker, NEW challenged \in BOOLEAN, FailAttempt(v, challenged)
    PROVE  \A w \in Worker \ {v} :
             /\ at'[w] = at[w] /\ cur'[w] = cur[w] /\ tick'[w] = tick[w] /\ pending'[w] = pending[w]
             /\ paused'[w] = paused[w] /\ shunned'[w] = shunned[w] /\ retry'[w] = retry[w]
<1>1. \A w \in Worker \ {v} : paused'[w] = paused[w] /\ shunned'[w] = shunned[w]
  BY RefuseLeaves DEF FailAttempt
<1>2. \A w \in Worker \ {v} : tick'[w] = tick[w] /\ retry'[w] = retry[w]
  BY DEF TypeOK, FailAttempt
<1>3. \A w \in Worker \ {v} : at'[w] = at[w] /\ cur'[w] = cur[w] /\ pending'[w] = pending[w]
  <2>1. CASE Done(v)
    BY <2>1, DoneLeaves
  <2>2. CASE Goto(v, "giveUp") /\ UNCHANGED <<cur, pending>>
    BY <2>2 DEF TypeOK, Goto
  <2> QED BY <2>1, <2>2 DEF FailAttempt
<1> QED BY <1>1, <1>2, <1>3

(* The steps of a worker leave the others as they are.                     *)
LEMMA OthersUntouched ==
    ASSUME TypeOK, NEW v \in Worker, Run(v), NEW w \in Worker \ {v}
    PROVE  Untouched(w)
<1>1. CASE StartTick(v)
  BY <1>1 DEF TypeOK, StartTick, Goto, EndTick, Untouched
<1>2. CASE ListDue(v)
  BY <1>2 DEF TypeOK, ListDue, Goto, EndTick, Untouched
<1>3. CASE ListQueue(v)
  BY <1>3 DEF TypeOK, ListQueue, Goto, EndTick, Untouched
<1>4. CASE StartBackfill(v)
  BY <1>4 DEF TypeOK, StartBackfill, Goto, EndTick, Untouched
<1>5. CASE Sleep(v)
  BY <1>5 DEF TypeOK, Sleep, Goto, EndTick, Untouched
<1>6. CASE Restart(v)
  BY <1>6 DEF TypeOK, Restart, Goto, EndTick, Untouched
<1>7. CASE \E t \in Source : Skip(v, t)
  BY <1>7 DEF TypeOK, Skip, Takes, Untouched
<1>8. CASE \E t \in Source : TakeCrawl(v, t)
  BY <1>8 DEF TypeOK, TakeCrawl, Takes, Goto, Untouched
<1>9. CASE \E t \in Source : TakePrecheck(v, t)
  BY <1>9 DEF TypeOK, TakePrecheck, Takes, Goto, Untouched
<1>10. CASE Attempt(v)
  <2>1. PICK k \in Outcome : Refuse(v, k = "refused")
    BY <1>10 DEF Attempt
  <2>2. paused'[w] = paused[w] /\ shunned'[w] = shunned[w]
    BY <2>1, RefuseLeaves
  <2>3. at'[w] = at[w] /\ cur'[w] = cur[w] /\ pending'[w] = pending[w]
    <3>1. CASE UNCHANGED <<at, cur, pending>>
      BY <3>1
    <3>2. CASE Goto(v, "health") /\ UNCHANGED <<cur, pending>>
      BY <3>2 DEF TypeOK, Goto
    <3>3. CASE Done(v)
      BY <3>3, DoneLeaves
    <3> QED BY <1>10, <3>1, <3>2, <3>3 DEF Attempt
  <2>4. tick'[w] = tick[w] /\ purse'[w] = purse[w] /\ UNCHANGED <<retry, listed>>
    BY <1>10 DEF TypeOK, Attempt
  <2> QED BY <2>2, <2>3, <2>4 DEF Untouched
<1>11. CASE NotContacted(v)
  BY <1>11, DoneLeaves DEF TypeOK, NotContacted, Untouched
<1>12. CASE Health(v)
  BY <1>12, DoneLeaves DEF TypeOK, Health, Untouched
<1>13. CASE HealthLost(v)
  BY <1>13, DoneLeaves DEF TypeOK, HealthLost, Untouched
<1>14. CASE Precheck(v)
  BY <1>14 DEF TypeOK, Precheck, Goto, Untouched
<1>15. CASE RecordPrecheck(v)
  <2>1. purse'[w] = purse[w] /\ UNCHANGED listed
    BY <1>15 DEF TypeOK, RecordPrecheck
  <2>2. CASE FailAttempt(v, pending[v].kind = "challenge")
    BY <2>1, <2>2, FailAttemptLeaves DEF Untouched
  <2>3. CASE Goto(v, "clear") /\ UNCHANGED <<cur, tick, paused, retry, pending, shunned>>
    BY <2>1, <2>3 DEF TypeOK, Goto, Untouched
  <2> QED BY <1>15, <2>2, <2>3 DEF RecordPrecheck
<1>16. CASE PrecheckRaises(v)
  BY <1>16, FailAttemptLeaves DEF TypeOK, PrecheckRaises, Untouched
<1>17. CASE ClearRaises(v)
  BY <1>17, FailAttemptLeaves DEF TypeOK, ClearRaises, Untouched
<1>18. CASE Clear(v)
  BY <1>18, DoneLeaves DEF TypeOK, Clear, Untouched
<1>19. CASE GiveUpRaises(v)
  BY <1>19, DoneLeaves DEF TypeOK, GiveUpRaises, Untouched
<1> QED BY <1>1, <1>2, <1>3, <1>4, <1>5, <1>6, <1>7, <1>8, <1>9, <1>10, <1>11, <1>12, <1>13, <1>14, <1>15, <1>16, <1>17, <1>18, <1>19 DEF Run

(* The desk leaves the workers as they are.                                *)
LEMMA DeskLeaves ==
    ASSUME NEW w \in Worker, (\E s \in Source : Act(s)) \/ BatchApprove \/ UNCHANGED vars
    PROVE  Untouched(w)
BY DEF Act, Request, Decide, Note, Edit, Triage, BatchRead, BatchApprove, Desk, vars, Untouched

LEMMA TimeFlows ==
    ASSUME TypeOK, [Next]_vars
    PROVE  now \in Nat /\ now' \in Nat /\ now <= now'
<1>1. now \in Nat
  BY TimeIsNatural DEF TypeOK
<1>2. now' = now \/ now' = now + 1
  <2>1. CASE UNCHANGED vars
    BY <2>1 DEF vars
  <2>2. CASE BatchApprove \/ \E s \in Source : Act(s)
    BY <2>2 DEF BatchApprove, Act, Request, Decide, Note, Edit, Triage, BatchRead, Stamp
  <2>3. ASSUME NEW w \in Worker, Run(w) PROVE now' = now \/ now' = now + 1
    BY <2>3 DEF Run, StartTick, ListDue, ListQueue, StartBackfill, Sleep, Restart, Skip, TakeCrawl,
        TakePrecheck, Attempt, NotContacted, Health, HealthLost, Precheck, RecordPrecheck,
        PrecheckRaises, Clear, ClearRaises, GiveUpRaises, Stamp
  <2> QED BY <2>1, <2>2, <2>3 DEF Next
<1> QED BY <1>1, <1>2

-----------------------------------------------------------------------------
(* The budget.                                                             *)

(* What is left and reserved is the allowance less what was spent, nothing *)
(* is reserved but for a crawl or a precheck under way, and a worker       *)
(* asleep has no purse.                                                    *)
Balanced(p) == p.left + p.held = Largest(0, Allowance - p.spent)
Budget(w) ==
    /\ at[w] # "asleep" => Balanced(purse[w])
    /\ at[w] \notin {"crawl", "precheck", "record"} => purse[w].held = 0
    /\ at[w] = "asleep" => purse[w] = NoPurse

LEMMA SettleBalances ==
    ASSUME NEW p \in Purse, NEW actual \in Nat, Balanced(p)
    PROVE  Balanced(Settle(p, actual)) /\ Settle(p, actual).held = 0
<1>1. p.left \in Nat /\ p.held \in Nat /\ p.spent \in Nat
  BY DEF Purse
<1>2. /\ Settle(p, actual).left = Largest(0, p.left + p.held - actual)
      /\ Settle(p, actual).held = 0 /\ Settle(p, actual).spent = p.spent + actual
  BY DEF Settle
<1> QED BY <1>1, <1>2 DEF Balanced, Largest

LEMMA ReserveBalances ==
    ASSUME NEW p \in Purse, NEW cost \in Nat, Affords(p, cost), Balanced(p), p.held = 0
    PROVE  Balanced(Reserve(p, cost))
<1>1. p.left \in Nat /\ p.spent \in Nat /\ Needed(cost) \in Nat
  BY DEF Purse, Needed, Least
<1>2. /\ Reserve(p, cost).left = p.left - Needed(cost)
      /\ Reserve(p, cost).held = Needed(cost) /\ Reserve(p, cost).spent = p.spent
  BY DEF Reserve, Purse
<1> QED BY <1>1, <1>2 DEF Balanced

(* Where a worker that has done with a source goes is not asleep.          *)
LEMMA DoneWakeful ==
    ASSUME TypeOK, NEW w \in Worker, Done(w)
    PROVE  /\ at'[w] \in {"lists", "queue", "backfill"}
           /\ cur'[w] = NoSource /\ pending'[w] = NothingFound
<1>1. tick[w].stage \in {"lists", "queue", "backfill"}
  BY StageTypes DEF Tick
<1> QED BY <1>1, DoneLeaves

LEMMA FailAttemptGoes ==
    ASSUME TypeOK, NEW w \in Worker, NEW challenged \in BOOLEAN, FailAttempt(w, challenged)
    PROVE  at'[w] \in {"lists", "queue", "backfill", "giveUp"}
<1>1. CASE Done(w)
  BY <1>1, DoneWakeful
<1>2. CASE Goto(w, "giveUp")
  BY <1>2 DEF TypeOK, Goto
<1> QED BY <1>1, <1>2 DEF FailAttempt

LEMMA BudgetInit == ASSUME Init, NEW w \in Worker PROVE Budget(w)
BY DEF Init, Budget, NoPurse, Balanced

LEMMA BudgetRun ==
    ASSUME TypeOK, NEW w \in Worker, Run(w), Budget(w)
    PROVE  Budget(w)'
<1>0. purse[w] \in Purse
  BY DEF TypeOK
<1>1. CASE StartTick(w)
  <2>1. purse'[w] = [purse[w] EXCEPT !.left = Allowance] /\ at'[w] = "start" /\ purse[w] = NoPurse
    BY <1>1 DEF TypeOK, StartTick, Goto, Budget
  <2>2. purse'[w] = [left |-> Allowance, held |-> 0, spent |-> 0]
    BY <2>1 DEF NoPurse
  <2> QED BY <2>1, <2>2 DEF Budget, Balanced, Largest
<1>2. CASE ListDue(w) \/ ListQueue(w) \/ StartBackfill(w) \/ \E s \in Source : Skip(w, s)
  <2>1. purse'[w] = purse[w] /\ at[w] \in {"start", "lists", "queue", "backfill"}
        /\ at'[w] \in {"lists", "queue", "backfill"}
    BY <1>2 DEF TypeOK, ListDue, ListQueue, StartBackfill, Skip, Goto
  <2> QED BY <2>1 DEF Budget
<1>3. CASE Sleep(w) \/ Restart(w)
  <2>1. purse'[w] = NoPurse /\ at'[w] = "asleep"
    BY <1>3 DEF TypeOK, Sleep, Restart, EndTick, Goto
  <2> QED BY <2>1 DEF Budget, NoPurse
<1>4. CASE \E s \in Source : TakeCrawl(w, s)
  <2>1. /\ purse'[w] = Reserve(purse[w], Pages) /\ at'[w] = "crawl"
        /\ at[w] \in {"lists", "backfill"} /\ Affords(purse[w], Pages)
    BY <1>4 DEF TypeOK, TakeCrawl, AdmitsCrawl, Goto
  <2> QED BY <1>0, <2>1, ReserveBalances DEF Budget
<1>5. CASE \E s \in Source : TakePrecheck(w, s)
  <2>1. /\ purse'[w] = Reserve(purse[w], PrecheckCost) /\ at'[w] = "precheck"
        /\ at[w] = "queue" /\ Affords(purse[w], PrecheckCost)
    BY <1>5 DEF TypeOK, TakePrecheck, AdmitsPrecheck, Goto
  <2> QED BY <1>0, <2>1, ReserveBalances DEF Budget
<1>6. CASE Attempt(w)
  <2>1. PICK k \in Outcome, used \in 0..MaxUse \union {purse[w].held} :
          LET settled == Settle(purse[w], used)
              reserves == Reserves(w, k) /\ Affords(settled, Pages)
              again == reserves /\ tick[w].tries < MaxTries
              judged == tick[w].stage = "lists" /\ ResultOf(k) # "none"
          IN
          /\ at[w] = "crawl"
          /\ purse' = [purse EXCEPT ![w] = IF reserves THEN Reserve(settled, Pages) ELSE settled]
          /\ IF again THEN UNCHANGED <<at, cur, pending>>
             ELSE IF judged THEN Goto(w, "health") /\ UNCHANGED <<cur, pending>>
             ELSE Done(w)
    BY <1>6 DEF Attempt
  <2> DEFINE settled == Settle(purse[w], used)
             reserves == Reserves(w, k) /\ Affords(settled, Pages)
  <2>2. settled \in Purse /\ Balanced(settled) /\ settled.held = 0
    BY <2>1, AttemptPurse, SettleBalances DEF Budget
  <2>3. CASE reserves
    <3>1. tick[w].tries < MaxTries
      BY <2>3 DEF Reserves
    <3>2. at'[w] = "crawl"
      BY <2>1, <2>3, <3>1
    <3>3. purse'[w] = Reserve(settled, Pages)
      BY <2>1, <2>3 DEF TypeOK
    <3>4. Balanced(Reserve(settled, Pages))
      BY <2>2, <2>3, ReserveBalances
    <3> HIDE DEF settled
    <3> QED BY <3>2, <3>3, <3>4 DEF Budget
  <2>4. CASE ~reserves
    <3>1. purse'[w] = settled
      BY <2>1, <2>4 DEF TypeOK
    <3>2. CASE Goto(w, "health")
      <4>1. at'[w] = "health"
        BY <3>2 DEF TypeOK, Goto
      <4> HIDE DEF settled
      <4> QED BY <2>2, <3>1, <4>1 DEF Budget
    <3>3. CASE Done(w)
      <4> HIDE DEF settled
      <4> QED BY <2>2, <3>1, <3>3, DoneWakeful DEF Budget
    <3> QED BY <2>1, <2>4, <3>2, <3>3
  <2> QED BY <2>3, <2>4
<1>7. CASE NotContacted(w)
  <2>1. purse'[w] = Settle(purse[w], 0) /\ at[w] = "crawl" /\ Done(w)
    BY <1>7 DEF TypeOK, NotContacted
  <2> QED BY <1>0, <2>1, SettleBalances, DoneWakeful DEF Budget
<1>8. CASE Health(w) \/ HealthLost(w) \/ Clear(w) \/ GiveUpRaises(w)
  <2>1. purse'[w] = purse[w] /\ at[w] \in {"health", "clear", "giveUp"} /\ Done(w)
    BY <1>8 DEF TypeOK, Health, HealthLost, Clear, GiveUpRaises
  <2> QED BY <2>1, DoneWakeful DEF Budget
<1>9. CASE Precheck(w)
  <2>1. purse'[w] = purse[w] /\ at[w] = "precheck" /\ at'[w] = "record"
    BY <1>9 DEF TypeOK, Precheck, Goto
  <2> QED BY <2>1 DEF Budget
<1>10. CASE RecordPrecheck(w)
  <2> DEFINE cost == PrecheckCost + (IF pending[w].kind = "gone" THEN DiscoveryCost ELSE 0)
  <2>1. cost \in Nat /\ at[w] = "record" /\ purse'[w] = Settle(purse[w], cost)
    BY <1>10 DEF TypeOK, RecordPrecheck
  <2>2. at'[w] \in {"lists", "queue", "backfill", "giveUp", "clear"}
    <3>1. CASE FailAttempt(w, pending[w].kind = "challenge")
      BY <3>1, FailAttemptGoes
    <3>2. CASE Goto(w, "clear")
      BY <3>2 DEF TypeOK, Goto
    <3> QED BY <1>10, <3>1, <3>2 DEF RecordPrecheck
  <2> HIDE DEF cost
  <2> QED BY <1>0, <2>1, <2>2, SettleBalances DEF Budget
<1>11. CASE PrecheckRaises(w)
  <2>1. purse'[w] = Settle(purse[w], PrecheckCost) /\ at[w] \in {"precheck", "record"} /\ FailAttempt(w, FALSE)
    BY <1>11 DEF TypeOK, PrecheckRaises
  <2> QED BY <1>0, <2>1, SettleBalances, FailAttemptGoes DEF Budget
<1>12. CASE ClearRaises(w)
  <2>1. purse'[w] = purse[w] /\ at[w] = "clear" /\ FailAttempt(w, FALSE)
    BY <1>12 DEF TypeOK, ClearRaises
  <2> QED BY <2>1, FailAttemptGoes DEF Budget
<1> QED BY <1>1, <1>2, <1>3, <1>4, <1>5, <1>6, <1>7, <1>8, <1>9, <1>10, <1>11, <1>12 DEF Run

LEMMA BudgetStep ==
    ASSUME TypeOK, [Next]_vars, NEW w \in Worker, Budget(w)
    PROVE  Budget(w)'
<1>1. CASE Run(w)
  BY <1>1, BudgetRun
<1>2. ASSUME NEW v \in Worker \ {w}, Run(v) PROVE Budget(w)'
  <2>1. Untouched(w)
    BY <1>2, OthersUntouched
  <2> QED BY <2>1 DEF Untouched, Budget
<1>3. CASE (\E s \in Source : Act(s)) \/ BatchApprove \/ UNCHANGED vars
  <2>1. Untouched(w)
    BY <1>3, DeskLeaves
  <2> QED BY <2>1 DEF Untouched, Budget
<1> QED BY <1>1, <1>2, <1>3 DEF Next

(* In a tick, what is left of the budget and what is reserved are always   *)
(* the allowance less what was spent.                                      *)
THEOREM BudgetKept == Spec => []BudgetAccounted
<1> DEFINE Inv == TypeOK /\ \A w \in Worker : Budget(w)
<1>1. Init => Inv
  BY TypeInit, BudgetInit
<1>2. Inv /\ [Next]_vars => Inv'
  BY TypeStep, BudgetStep
<1>3. Inv => BudgetAccounted
  BY DEF Budget, Balanced, BudgetAccounted
<1> QED BY <1>1, <1>2, <1>3, PTL DEF Spec

-----------------------------------------------------------------------------
(* Pauses.                                                                 *)

(* The registry covers the last refusal, the tick remembers its own, and a *)
(* worker is only in contact with a platform it has no reason to avoid.    *)
Mindful(w) ==
    /\ shunned[w].until <= paused[w]
    /\ shunned[w].inTick => tick[w].throttled
    /\ at[w] = "asleep" => ~shunned[w].inTick
    /\ at[w] \in {"crawl", "precheck"} => ~Refrains(w)

LEMMA PauseTypes ==
    ASSUME TypeOK, NEW w \in Worker
    PROVE  /\ paused[w] \in Nat /\ shunned[w] \in Refusal /\ shunned[w].until \in Nat
           /\ shunned[w].inTick \in BOOLEAN /\ now \in Nat
<1>1. shunned[w] \in Refusal /\ paused[w] \in Nat /\ now \in Nat
  BY TimeIsNatural DEF TypeOK
<1> QED BY <1>1 DEF Refusal

(* A refusal is remembered by the registry; without one nothing changes.   *)
LEMMA RefusalRemembered ==
    ASSUME TypeOK, NEW w \in Worker, NEW refused \in BOOLEAN, Refuse(w, refused),
           shunned[w].until <= paused[w]
    PROVE  /\ shunned'[w].until <= paused'[w]
           /\ shunned'[w].inTick => shunned[w].inTick \/ refused
           /\ ~refused => paused'[w] = paused[w] /\ shunned'[w] = shunned[w]
<1>1. CASE refused
  <2>1. /\ paused'[w] = Largest(now + Pause, paused[w])
        /\ shunned'[w] = [until |-> now + Pause, inTick |-> TRUE]
    BY <1>1 DEF Refuse, TypeOK
  <2>2. shunned'[w].until = now + Pause
    BY <2>1
  <2> QED BY <1>1, <2>1, <2>2, PauseTypes DEF Largest
<1>2. CASE ~refused
  BY <1>2 DEF Refuse
<1> QED BY <1>1, <1>2

LEMMA FailAttemptMindful ==
    ASSUME TypeOK, NEW w \in Worker, NEW challenged \in BOOLEAN, FailAttempt(w, challenged), Mindful(w)
    PROVE  Mindful(w)'
<1>1. at'[w] \in {"lists", "queue", "backfill", "giveUp"}
  BY FailAttemptGoes
<1>2. /\ shunned'[w].until <= paused'[w]
      /\ shunned'[w].inTick => shunned[w].inTick \/ challenged
  BY RefusalRemembered DEF FailAttempt, Mindful
<1>3. tick'[w].throttled = (tick[w].throttled \/ challenged)
  BY StageTypes DEF TypeOK, FailAttempt, Tick
<1> QED BY <1>1, <1>2, <1>3 DEF Mindful

LEMMA MindfulInit == ASSUME Init, NEW w \in Worker PROVE Mindful(w)
BY DEF Init, Mindful, NotShunned, NoTick

LEMMA MindfulRun ==
    ASSUME TypeOK, NEW w \in Worker, Run(w), Mindful(w)
    PROVE  Mindful(w)'
<1>0. tick[w] \in Tick
  BY StageTypes
<1>1. CASE StartTick(w)
  <2>1. /\ at[w] = "asleep" /\ at'[w] = "start"
        /\ paused'[w] = paused[w] /\ shunned'[w] = shunned[w]
    BY <1>1 DEF TypeOK, StartTick, Goto
  <2> QED BY <2>1 DEF Mindful
<1>2. CASE ListDue(w) \/ ListQueue(w) \/ StartBackfill(w) \/ \E s \in Source : Skip(w, s)
  <2>1. /\ at'[w] \in {"lists", "queue", "backfill"}
        /\ paused'[w] = paused[w] /\ shunned'[w] = shunned[w]
    BY <1>2 DEF TypeOK, ListDue, ListQueue, StartBackfill, Skip, Goto
  <2>2. tick'[w].throttled = tick[w].throttled
    <3>1. CASE ListDue(w)
      <4>1. PICK due \in SUBSET Crawlable : tick' = [tick EXCEPT ![w].todo = due]
        BY <3>1 DEF ListDue
      <4> QED BY <1>0, <4>1 DEF TypeOK, Tick
    <3>2. CASE ListQueue(w)
      <4>1. PICK todo \in SUBSET Source : tick' = [tick EXCEPT ![w].todo = todo, ![w].stage = "queue"]
        BY <3>2 DEF ListQueue
      <4> QED BY <1>0, <4>1 DEF TypeOK, Tick
    <3>3. CASE StartBackfill(w)
      <4>1. PICK todo \in SUBSET Crawlable :
              tick' = [tick EXCEPT ![w].todo = todo, ![w].stage = "backfill", ![w].stopped = FALSE]
        BY <3>3 DEF StartBackfill
      <4> QED BY <1>0, <4>1 DEF TypeOK, Tick
    <3>4. CASE \E s \in Source : Skip(w, s)
      BY <1>0, <3>4 DEF TypeOK, Skip, Takes, Tick
    <3> QED BY <1>2, <3>1, <3>2, <3>3, <3>4
  <2> QED BY <2>1, <2>2 DEF Mindful
<1>3. CASE Sleep(w)
  <2>1. at'[w] = "asleep" /\ paused'[w] = paused[w]
    BY <1>3 DEF TypeOK, Sleep, EndTick, Goto
  <2>2. shunned'[w].until = shunned[w].until /\ ~shunned'[w].inTick
    <3> DEFINE r == [shunned[w] EXCEPT !.inTick = FALSE]
    <3>1. shunned'[w] = r
      BY <1>3 DEF TypeOK, Sleep
    <3>2. r.until = shunned[w].until /\ ~r.inTick
      BY PauseTypes DEF Refusal
    <3> HIDE DEF r
    <3> QED BY <3>1, <3>2
  <2> QED BY <2>1, <2>2 DEF Mindful
<1>4. CASE Restart(w)
  <2>1. at'[w] = "asleep" /\ paused'[w] = 0 /\ shunned'[w] = NotShunned
    BY <1>4 DEF TypeOK, Restart, EndTick, Goto
  <2> QED BY <2>1 DEF Mindful, NotShunned
<1>5. CASE \E s \in Source : TakeCrawl(w, s) \/ TakePrecheck(w, s)
  <2>1. /\ at'[w] \in {"crawl", "precheck"} /\ ~Refrains(w) /\ now' = now
        /\ paused'[w] = paused[w] /\ shunned'[w] = shunned[w]
    BY <1>5 DEF TypeOK, TakeCrawl, TakePrecheck, AdmitsCrawl, AdmitsPrecheck, Goto
  <2>2. tick'[w].throttled = tick[w].throttled
    BY <1>0, <1>5 DEF TypeOK, TakeCrawl, TakePrecheck, Takes, Tick
  <2> QED BY <2>1, <2>2 DEF Mindful, Refrains
<1>6. CASE Attempt(w)
  <2>1. PICK k \in Outcome, used \in 0..MaxUse \union {purse[w].held} :
          LET settled == Settle(purse[w], used)
              reserves == Reserves(w, k) /\ Affords(settled, Pages)
              again == reserves /\ tick[w].tries < MaxTries
              judged == tick[w].stage = "lists" /\ ResultOf(k) # "none"
          IN
          /\ tick' = [tick EXCEPT ![w].tries = IF again THEN @ + 1 ELSE 1,
                                  ![w].result = IF judged /\ ~again THEN ResultOf(k) ELSE "none",
                                  ![w].throttled = @ \/ k = "refused"]
          /\ Refuse(w, k = "refused")
          /\ IF again THEN UNCHANGED <<at, cur, pending>>
             ELSE IF judged THEN Goto(w, "health") /\ UNCHANGED <<cur, pending>>
             ELSE Done(w)
          /\ now' = now /\ at[w] = "crawl"
    BY <1>6 DEF Attempt
  <2>2. /\ shunned'[w].until <= paused'[w]
        /\ shunned'[w].inTick => shunned[w].inTick \/ k = "refused"
        /\ k # "refused" => paused'[w] = paused[w]
    BY <2>1, RefusalRemembered DEF Mindful
  <2>3. tick'[w].throttled = (tick[w].throttled \/ k = "refused")
    BY <1>0, <2>1 DEF TypeOK, Tick
  <2>4. CASE Reserves(w, k) /\ UNCHANGED <<at, cur, pending>>
    <3>1. k # "refused" /\ ~Refrains(w) /\ at'[w] = "crawl"
      BY <2>1, <2>4 DEF Reserves
    <3> QED BY <2>1, <2>2, <2>3, <3>1 DEF Mindful, Refrains
  <2>5. CASE Goto(w, "health")
    <3>1. at'[w] = "health"
      BY <2>5 DEF TypeOK, Goto
    <3> QED BY <2>2, <2>3, <3>1 DEF Mindful
  <2>6. CASE Done(w)
    BY <2>2, <2>3, <2>6, DoneWakeful DEF Mindful
  <2> QED BY <2>1, <2>4, <2>5, <2>6
<1>7. CASE NotContacted(w) \/ Health(w) \/ HealthLost(w) \/ Clear(w) \/ GiveUpRaises(w)
  <2>1. Done(w) /\ paused'[w] = paused[w] /\ shunned'[w] = shunned[w]
    BY <1>7 DEF NotContacted, Health, HealthLost, Clear, GiveUpRaises
  <2>2. tick'[w].throttled = tick[w].throttled
    BY <1>0, <1>7 DEF TypeOK, NotContacted, Health, HealthLost, Clear, GiveUpRaises, Tick
  <2> QED BY <2>1, <2>2, DoneWakeful DEF Mindful
<1>8. CASE Precheck(w)
  <2>1. /\ at'[w] = "record" /\ tick'[w] = tick[w]
        /\ paused'[w] = paused[w] /\ shunned'[w] = shunned[w]
    BY <1>8 DEF TypeOK, Precheck, Goto
  <2> QED BY <2>1 DEF Mindful
<1>9. CASE RecordPrecheck(w)
  <2>1. CASE FailAttempt(w, pending[w].kind = "challenge")
    BY <2>1, FailAttemptMindful
  <2>2. CASE Goto(w, "clear") /\ UNCHANGED <<cur, tick, paused, retry, pending, shunned>>
    <3>1. at'[w] = "clear"
      BY <2>2 DEF TypeOK, Goto
    <3> QED BY <2>2, <3>1 DEF Mindful
  <2> QED BY <1>9, <2>1, <2>2 DEF RecordPrecheck
<1>10. CASE PrecheckRaises(w) \/ ClearRaises(w)
  BY <1>10, FailAttemptMindful DEF PrecheckRaises, ClearRaises
<1> QED BY <1>1, <1>2, <1>3, <1>4, <1>5, <1>6, <1>7, <1>8, <1>9, <1>10 DEF Run

LEMMA MindfulStep ==
    ASSUME TypeOK, [Next]_vars, NEW w \in Worker, Mindful(w)
    PROVE  Mindful(w)'
<1>1. CASE Run(w)
  BY <1>1, MindfulRun
<1>2. ASSUME Untouched(w) PROVE Mindful(w)'
  <2>1. now \in Nat /\ now' \in Nat /\ now <= now' /\ paused[w] \in Nat
    BY TimeFlows, PauseTypes
  <2> QED BY <1>2, <2>1 DEF Untouched, Mindful, Refrains
<1>3. ASSUME NEW v \in Worker \ {w}, Run(v) PROVE Untouched(w)
  BY <1>3, OthersUntouched
<1>4. CASE (\E s \in Source : Act(s)) \/ BatchApprove \/ UNCHANGED vars
  BY <1>2, <1>4, DeskLeaves
<1> QED BY <1>1, <1>2, <1>3, <1>4 DEF Next

(* No worker contacts a platform in the tick in which it was refused, or   *)
(* before the pause that followed is over.                                 *)
THEOREM PausesKept == Spec => []PausedIsLeftAlone
<1> DEFINE Inv == TypeOK /\ \A w \in Worker : Mindful(w)
<1>1. Init => Inv
  BY TypeInit, MindfulInit
<1>2. Inv /\ [Next]_vars => Inv'
  BY TypeStep, MindfulStep
<1>3. Inv => PausedIsLeftAlone
  BY PauseTypes DEF Mindful, Refrains, PausedIsLeftAlone
<1> QED BY <1>1, <1>2, <1>3, PTL DEF Spec

-----------------------------------------------------------------------------
(* The rows.                                                               *)

LEMMA WriteLeaves ==
    ASSUME TypeOK, NEW s \in Source, NEW r, Write(s, r)
    PROVE  /\ row'[s] = r /\ \A t \in Source \ {s} : row'[t] = row[t]
           /\ batch = s => stale'
           /\ stale => stale'
BY DEF TypeOK, Write

(* Of a worker's steps three write a row.                                  *)
LEMMA RunLeavesDesk ==
    ASSUME NEW w \in Worker, Run(w), ~Health(w), ~RecordPrecheck(w), ~Clear(w)
    PROVE  UNCHANGED desk
BY DEF Run, StartTick, ListDue, ListQueue, StartBackfill, Sleep, Restart, Skip, TakeCrawl, TakePrecheck,
       Attempt, NotContacted, HealthLost, Precheck, PrecheckRaises, ClearRaises, GiveUpRaises

(* What a run leaves of its source's row.                                  *)
LEMMA HealthColumns ==
    ASSUME TypeOK, NEW w \in Worker, Health(w)
    PROVE  LET s == cur[w]  r == row[s]  q == row'[s] IN
           /\ s \in Source /\ \A t \in Source \ {s} : row'[t] = row[t]
           /\ q.requested = r.requested /\ q.reviewedAt = r.reviewedAt /\ q.url = r.url
           /\ q.verdict = r.verdict /\ q.checkedAt = r.checkedAt /\ q.checkedUrl = r.checkedUrl
           /\ q.failureAt = IF tick[w].result = "success" THEN r.failureAt ELSE tick[w].start
           /\ q.approval = IF Demotes(r, tick[w].result) THEN "needs_review" ELSE r.approval
<1> DEFINE s == cur[w]
           a == IF Demotes(row[s], tick[w].result) THEN "needs_review" ELSE row[s].approval
<1>1. s \in Source
  BY DEF TypeOK, Health, Between
<1>2. row'[s] = AfterRun(row[s], w) /\ \A t \in Source \ {s} : row'[t] = row[t]
  BY <1>1, WriteLeaves DEF Health
<1>3. row[s] \in Row
  BY <1>1, RowTypes
<1>4. CASE tick[w].result = "success"
  <2>1. row'[s] = [row[s] EXCEPT !.failures = 0]
    BY <1>2, <1>4 DEF AfterRun
  <2>2. ~Demotes(row[s], tick[w].result)
    BY <1>4 DEF Demotes
  <2> QED BY <1>1, <1>2, <1>3, <1>4, <2>1, <2>2 DEF Row
<1>5. CASE tick[w].result # "success"
  <2>1. row'[s] = [row[s] EXCEPT !.failures = @ + 1, !.failureAt = tick[w].start, !.approval = a]
    BY <1>2, <1>5 DEF AfterRun
  <2>2. /\ row'[s].requested = row[s].requested /\ row'[s].reviewedAt = row[s].reviewedAt
        /\ row'[s].url = row[s].url /\ row'[s].verdict = row[s].verdict
        /\ row'[s].checkedAt = row[s].checkedAt /\ row'[s].checkedUrl = row[s].checkedUrl
        /\ row'[s].failureAt = tick[w].start /\ row'[s].approval = a
    <3> HIDE DEF a, s
    <3> QED BY <1>3, <2>1 DEF Row
  <2> QED BY <1>1, <1>2, <1>5, <2>2
<1> QED BY <1>4, <1>5

(* What a precheck leaves.                                                 *)
LEMMA RecordColumns ==
    ASSUME TypeOK, NEW w \in Worker, RecordPrecheck(w)
    PROVE  LET s == cur[w]  r == row[s]  q == row'[s] IN
           /\ s \in Source /\ \A t \in Source \ {s} : row'[t] = row[t]
           /\ q.requested = r.requested /\ q.reviewedAt = r.reviewedAt /\ q.url = r.url
           /\ q.failureAt = r.failureAt /\ q.approval = r.approval
           /\ q.verdict = "fit" <=> pending[w].kind = "fit"
           /\ q.checkedAt = tick[w].start /\ q.checkedUrl = pending[w].url
<1> DEFINE s == cur[w]
           v == IF pending[w].kind = "fit" THEN "fit" ELSE "needs_fix"
           q == [row[s] EXCEPT !.verdict = v, !.checkedAt = tick[w].start, !.checkedUrl = pending[w].url]
<1>1. s \in Source
  BY DEF TypeOK, RecordPrecheck, Between
<1>2. Write(s, q)
  BY DEF RecordPrecheck, CheckedUrl
<1>3. row'[s] = q /\ \A t \in Source \ {s} : row'[t] = row[t]
  <2> HIDE DEF q, s
  <2> QED BY <1>1, <1>2, WriteLeaves
<1>4. /\ q.requested = row[s].requested /\ q.reviewedAt = row[s].reviewedAt /\ q.url = row[s].url
      /\ q.failureAt = row[s].failureAt /\ q.approval = row[s].approval
      /\ q.verdict = v /\ q.checkedAt = tick[w].start /\ q.checkedUrl = pending[w].url
  <2>1. row[s] \in Row
    BY <1>1, RowTypes
  <2> HIDE DEF s, v
  <2> QED BY <2>1 DEF Row
<1>5. v = "fit" <=> pending[w].kind = "fit"
  OBVIOUS
<1> HIDE DEF v, q
<1> QED BY <1>1, <1>3, <1>4, <1>5

(* What the end of a precheck leaves.                                      *)
LEMMA ClearColumns ==
    ASSUME TypeOK, NEW w \in Worker, Clear(w)
    PROVE  LET s == cur[w]  r == row[s]  q == row'[s] IN
           /\ s \in Source /\ \A t \in Source \ {s} : row'[t] = row[t]
           /\ q.reviewedAt = r.reviewedAt /\ q.url = r.url
           /\ q.failureAt = r.failureAt /\ q.approval = r.approval
           /\ q.verdict = r.verdict /\ q.checkedAt = r.checkedAt /\ q.checkedUrl = r.checkedUrl
           /\ q.requested = IF r.requested = listed[w][s] THEN 0 ELSE r.requested
<1> DEFINE s == cur[w]
           n == IF row[s].requested = listed[w][s] THEN 0 ELSE row[s].requested
<1>1. s \in Source
  BY DEF TypeOK, Clear, Between
<1>2. row'[s] = [row[s] EXCEPT !.requested = n] /\ \A t \in Source \ {s} : row'[t] = row[t]
  BY <1>1, WriteLeaves DEF Clear, ClearFlag
<1>3. row[s] \in Row
  BY <1>1, RowTypes
<1>4. /\ row'[s].reviewedAt = row[s].reviewedAt /\ row'[s].url = row[s].url
      /\ row'[s].failureAt = row[s].failureAt /\ row'[s].approval = row[s].approval
      /\ row'[s].verdict = row[s].verdict /\ row'[s].checkedAt = row[s].checkedAt
      /\ row'[s].checkedUrl = row[s].checkedUrl /\ row'[s].requested = n
  <2> HIDE DEF s, n
  <2> QED BY <1>2, <1>3 DEF Row
<1> QED BY <1>1, <1>2, <1>4

(* What people at the desk leave.                                          *)
LEMMA RequestColumns ==
    ASSUME TypeOK, NEW s \in Source, Request(s)
    PROVE  LET r == row[s]  q == row'[s] IN
           /\ \A t \in Source \ {s} : row'[t] = row[t]
           /\ q.reviewedAt = r.reviewedAt /\ q.url = r.url
           /\ q.failureAt = r.failureAt /\ q.approval = r.approval
           /\ q.verdict = r.verdict /\ q.checkedAt = r.checkedAt /\ q.checkedUrl = r.checkedUrl
           /\ r.requested = 0 /\ q.requested = now'
<1>1. row'[s] = [row[s] EXCEPT !.requested = now'] /\ \A t \in Source \ {s} : row'[t] = row[t]
  BY WriteLeaves DEF Request, Stamp
<1>2. row[s] \in Row
  BY RowTypes
<1> QED BY <1>1, <1>2 DEF Row, Request

LEMMA DecideColumns ==
    ASSUME TypeOK, NEW s \in Source, Decide(s) \/ Note(s)
    PROVE  LET r == row[s]  q == row'[s] IN
           /\ \A t \in Source \ {s} : row'[t] = row[t]
           /\ q.reviewedAt = now' /\ now' = now + 1 /\ q.url = r.url
           /\ q.failureAt = r.failureAt
           /\ Note(s) => q.approval = r.approval
           /\ q.verdict = r.verdict /\ q.checkedAt = r.checkedAt /\ q.checkedUrl = r.checkedUrl
           /\ q.requested = r.requested
<1>1. PICK a : Write(s, [row[s] EXCEPT !.approval = a, !.reviewedAt = now']) /\ (Note(s) => a = row[s].approval)
  <2>1. CASE Note(s)
    <3>1. row[s] = [row[s] EXCEPT !.approval = row[s].approval]
      BY RowTypes DEF Row
    <3>2. [row[s] EXCEPT !.reviewedAt = now'] = [row[s] EXCEPT !.approval = row[s].approval, !.reviewedAt = now']
      BY RowTypes DEF Row
    <3>3. Write(s, [row[s] EXCEPT !.reviewedAt = now'])
      BY <2>1 DEF Note, Stamp
    <3> QED BY <3>2, <3>3
  <2>2. CASE Decide(s) /\ ~Note(s)
    BY <2>2 DEF Decide, Stamp
  <2> QED BY <2>1, <2>2
<1>2. row'[s] = [row[s] EXCEPT !.approval = a, !.reviewedAt = now'] /\ \A t \in Source \ {s} : row'[t] = row[t]
  BY <1>1, WriteLeaves
<1>3. row[s] \in Row /\ now' = now + 1
  BY RowTypes DEF Decide, Note, Stamp
<1> QED BY <1>1, <1>2, <1>3 DEF Row

LEMMA EditColumns ==
    ASSUME TypeOK, NEW s \in Source, Edit(s)
    PROVE  LET r == row[s]  q == row'[s] IN
           /\ \A t \in Source \ {s} : row'[t] = row[t]
           /\ q.reviewedAt = r.reviewedAt /\ q.failureAt = r.failureAt /\ q.approval = r.approval
           /\ q.verdict = r.verdict /\ q.checkedAt = r.checkedAt /\ q.checkedUrl = r.checkedUrl
           /\ q.requested = r.requested
<1>1. PICK u \in Url : Write(s, [row[s] EXCEPT !.url = u])
  BY DEF Edit
<1>2. row'[s] = [row[s] EXCEPT !.url = u] /\ \A t \in Source \ {s} : row'[t] = row[t]
  BY <1>1, WriteLeaves
<1>3. row[s] \in Row
  BY RowTypes
<1> QED BY <1>2, <1>3 DEF Row

LEMMA TriageColumns ==
    ASSUME TypeOK, NEW s \in Source, Triage(s)
    PROVE  LET r == row[s]  q == row'[s] IN
           /\ \A t \in Source \ {s} : row'[t] = row[t]
           /\ q.reviewedAt = r.reviewedAt /\ q.failureAt = r.failureAt /\ q.approval = r.approval
           /\ q.url = r.url /\ q.requested = r.requested
           /\ q.checkedUrl \in {r.checkedUrl, NoUrl}
<1>1. PICK verdict \in {"fit", "needs_fix"}, when \in Time, u \in {row[s].checkedUrl, NoUrl} :
        Write(s, [row[s] EXCEPT !.verdict = verdict, !.checkedAt = when, !.checkedUrl = u])
  BY DEF Triage
<1>2. /\ row'[s] = [row[s] EXCEPT !.verdict = verdict, !.checkedAt = when, !.checkedUrl = u]
      /\ \A t \in Source \ {s} : row'[t] = row[t]
  BY <1>1, WriteLeaves
<1>3. row[s] \in Row
  BY RowTypes
<1>4. u \in {row[s].checkedUrl, NoUrl}
  OBVIOUS
<1> QED BY <1>2, <1>3, <1>4 DEF Row

LEMMA BatchApproveColumns ==
    ASSUME TypeOK, BatchApprove
    PROVE  LET r == row[batch]  q == row'[batch] IN
           /\ batch \in Source /\ \A t \in Source \ {batch} : row'[t] = row[t]
           /\ q.reviewedAt = now' /\ now' = now + 1 /\ q.url = r.url
           /\ q.failureAt = r.failureAt /\ q.approval = "approved"
           /\ q.verdict = r.verdict /\ q.checkedAt = r.checkedAt /\ q.checkedUrl = r.checkedUrl
           /\ q.requested = r.requested
<1>1. batch \in Source
  BY DEF TypeOK, BatchApprove
<1>2. now' = now + 1
  BY DEF BatchApprove, Stamp
<1> DEFINE q == [row[batch] EXCEPT !.approval = "approved", !.reviewedAt = now']
<1>3. row' = [row EXCEPT ![batch] = q]
  BY DEF BatchApprove, Stamp
<1>4. row'[batch] = q /\ \A t \in Source \ {batch} : row'[t] = row[t]
  <2> HIDE DEF q
  <2> QED BY <1>1, <1>3 DEF TypeOK
<1>5. row[batch] \in Row
  BY <1>1, RowTypes
<1> QED BY <1>1, <1>2, <1>4, <1>5 DEF Row

-----------------------------------------------------------------------------
(* The requests.                                                           *)

(* What a worker knows of the requests it has listed, and of its answer.   *)
Answering(w) ==
    /\ \A s \in Source : listed[w][s] <= now
    /\ at[w] \in {"precheck", "record", "clear", "giveUp"} => listed[w][cur[w]] <= pending[w].at
    /\ at[w] = "record" => pending[w].kind # "none"
    /\ at[w] = "clear" => pending[w].kind \in {"fit", "unfit", "gone"}
    /\ at[w] = "giveUp" => retry[w][cur[w]].streak >= MaxAttempts

(* No request is of the future.                                            *)
Dated == \A s \in Source : row[s].requested <= now

LEMMA KnownInstants ==
    ASSUME TypeOK, NEW w \in Worker
    PROVE  /\ now \in Nat /\ pending[w].at \in Nat
           /\ \A s \in Source : listed[w][s] \in Nat
<1>1. listed[w] \in [Source -> Time] /\ pending[w] \in Probe /\ now \in Time
  BY DEF TypeOK
<1>2. pending[w].at \in Time /\ \A s \in Source : listed[w][s] \in Time
  BY <1>1 DEF Probe
<1> QED BY <1>1, <1>2, TimeIsNatural

LEMMA AnsweringInit ==
    ASSUME Init
    PROVE  Dated /\ \A w \in Worker : Answering(w)
<1>1. Dated
  <2>1. PICK u \in Url : row \in [Source -> {Queued(u), Approved(u)}]
    BY DEF Init
  <2>2. Queued(u).requested = 1 /\ Approved(u).requested = 0
    BY DEF Queued, Approved
  <2>3. \A s \in Source : row[s].requested \in {0, 1}
    BY <2>1, <2>2
  <2>4. now = 1
    BY DEF Init
  <2> QED BY <2>3, <2>4 DEF Dated
<1>2. ASSUME NEW w \in Worker PROVE Answering(w)
  <2>1. at[w] = "asleep"
    BY DEF Init
  <2>2. \A s \in Source : listed[w][s] = 0
    BY DEF Init
  <2>3. now = 1
    BY DEF Init
  <2> QED BY <2>1, <2>2, <2>3 DEF Answering
<1> QED BY <1>1, <1>2

LEMMA DatedStep ==
    ASSUME TypeOK, [Next]_vars, Dated
    PROVE  Dated'
<1>0. now \in Nat /\ now' \in Nat /\ now <= now' /\ \A s \in Source : row[s].requested \in Nat
  BY TimeFlows, TimeIsNatural, RowTypes
<1>1. CASE UNCHANGED row
  BY <1>0, <1>1 DEF Dated
<1>2. ASSUME NEW w \in Worker, Run(w) PROVE Dated'
  <2>1. CASE Health(w)
    BY <1>0, <2>1, HealthColumns DEF Dated
  <2>2. CASE RecordPrecheck(w)
    BY <1>0, <2>2, RecordColumns DEF Dated
  <2>3. CASE Clear(w)
    BY <1>0, <2>3, ClearColumns DEF Dated
  <2> QED BY <1>1, <1>2, <2>1, <2>2, <2>3, RunLeavesDesk DEF desk
<1>3. ASSUME NEW s \in Source, Act(s) PROVE Dated'
  <2>1. CASE Request(s)
    BY <1>0, <2>1, RequestColumns DEF Dated
  <2>2. CASE Decide(s) \/ Note(s)
    BY <1>0, <2>2, DecideColumns DEF Dated
  <2>3. CASE Edit(s)
    BY <1>0, <2>3, EditColumns DEF Dated
  <2>4. CASE Triage(s)
    BY <1>0, <2>4, TriageColumns DEF Dated
  <2>5. CASE BatchRead(s)
    BY <1>1, <2>5 DEF BatchRead
  <2> QED BY <1>3, <2>1, <2>2, <2>3, <2>4, <2>5 DEF Act
<1>4. CASE BatchApprove
  BY <1>0, <1>4, BatchApproveColumns DEF Dated
<1> QED BY <1>1, <1>2, <1>3, <1>4 DEF Next, vars, desk

(* A worker that has no precheck in hand only keeps what it has listed.    *)
LEMMA AnsweringElsewhere ==
    ASSUME NEW w \in Worker, Answering(w), now' = now, listed'[w] = listed[w],
           at'[w] \in Between \union {"crawl", "health"}
    PROVE  Answering(w)'
BY DEF Answering, Between

LEMMA FailAttemptAnswers ==
    ASSUME TypeOK, NEW w \in Worker, Answering(w), NEW challenged \in BOOLEAN,
           FailAttempt(w, challenged), at[w] \in {"precheck", "record", "clear"},
           UNCHANGED <<now, listed>>
    PROVE  Answering(w)'
<1>1. CASE Done(w)
  BY <1>1, DoneWakeful, AnsweringElsewhere DEF Between
<1>2. CASE Goto(w, "giveUp") /\ UNCHANGED <<cur, pending>> /\ ~(retry[w][cur[w]].streak + 1 < MaxAttempts)
  <2>1. at'[w] = "giveUp" /\ cur'[w] = cur[w] /\ pending'[w] = pending[w]
    BY <1>2 DEF TypeOK, Goto
  <2>2. cur[w] \in Source
    BY DEF TypeOK, Between
  <2> DEFINE s == cur[w]
             fresh == [streak |-> retry[w][s].streak + 1, until |-> now + Pause]
  <2>3. retry' = [retry EXCEPT ![w] = [retry[w] EXCEPT ![s] = fresh]]
    BY DEF FailAttempt
  <2>4. retry'[w][s] = fresh
    <3> HIDE DEF fresh
    <3> QED BY <2>2, <2>3 DEF TypeOK
  <2>5. retry[w][s].streak \in Nat
    BY <2>2 DEF TypeOK, Retry
  <2>6. retry'[w][cur'[w]].streak >= MaxAttempts
    BY <1>2, <2>1, <2>4, <2>5
  <2> QED BY <2>1, <2>6 DEF Answering
<1> QED BY <1>1, <1>2 DEF FailAttempt

LEMMA AnsweringRun ==
    ASSUME TypeOK, Dated, NEW w \in Worker, Run(w), Answering(w)
    PROVE  Answering(w)'
<1>1. CASE StartTick(w)
  <2>1. at'[w] = "start" /\ now' = now + 1 /\ listed' = listed
    BY <1>1 DEF TypeOK, StartTick, Stamp, Goto
  <2>2. now \in Nat /\ \A s \in Source : listed[w][s] \in Nat
    BY KnownInstants
  <2> QED BY <2>1, <2>2 DEF Answering
<1>2. CASE ListDue(w) \/ Sleep(w) \/ \E s \in Source : Skip(w, s) \/ TakeCrawl(w, s)
  <2>1. /\ at'[w] \in Between \union {"crawl"}
        /\ now' = now /\ listed'[w] = listed[w]
    BY <1>2 DEF TypeOK, ListDue, Sleep, EndTick, Skip, TakeCrawl, Goto, Between
  <2> QED BY <2>1, AnsweringElsewhere
<1>3. CASE ListQueue(w)
  <2>1. PICK todo \in SUBSET Source :
          listed' = [listed EXCEPT ![w] = [s \in Source |-> IF s \in todo THEN row[s].requested ELSE 0]]
    BY <1>3 DEF ListQueue
  <2>2. at'[w] = "queue" /\ now' = now
    BY <1>3 DEF TypeOK, ListQueue, Goto
  <2>3. \A s \in Source : listed'[w][s] \in {row[s].requested, 0}
    BY <2>1 DEF TypeOK
  <2>4. now \in Nat
    BY TimeIsNatural DEF TypeOK
  <2> QED BY <2>2, <2>3, <2>4 DEF Answering, Dated
<1>4. CASE StartBackfill(w) \/ Restart(w)
  <2>1. at'[w] \in {"backfill", "asleep"} /\ now' = now /\ \A s \in Source : listed'[w][s] = 0
    <3>1. listed' = [listed EXCEPT ![w] = [s \in Source |-> 0]] /\ now' = now
      BY <1>4 DEF StartBackfill, Restart
    <3>2. at'[w] \in {"backfill", "asleep"}
      BY <1>4 DEF TypeOK, StartBackfill, Restart, EndTick, Goto
    <3> QED BY <3>1, <3>2 DEF TypeOK
  <2>2. now \in Nat
    BY TimeIsNatural DEF TypeOK
  <2> QED BY <2>1, <2>2 DEF Answering
<1>5. CASE \E s \in Source : TakePrecheck(w, s)
  <2>1. PICK s \in Source : TakePrecheck(w, s)
    BY <1>5
  <2>2. /\ at'[w] = "precheck" /\ now' = now /\ listed' = listed /\ cur'[w] = s
        /\ pending'[w] = [pending[w] EXCEPT !.at = now]
    BY <2>1 DEF TypeOK, TakePrecheck, Goto
  <2>3. pending'[w].at = now
    BY <2>2 DEF TypeOK, Probe
  <2> QED BY <2>2, <2>3 DEF Answering
<1>6. CASE Attempt(w)
  <2>1. now' = now /\ listed' = listed /\ at[w] = "crawl"
        /\ (UNCHANGED <<at, cur, pending>> \/ Goto(w, "health") \/ Done(w))
    BY <1>6 DEF Attempt
  <2>2. at'[w] \in Between \union {"crawl", "health"}
    BY <2>1, DoneWakeful DEF TypeOK, Goto, Between
  <2> QED BY <2>1, <2>2, AnsweringElsewhere
<1>7. CASE NotContacted(w) \/ Health(w) \/ HealthLost(w) \/ Clear(w) \/ GiveUpRaises(w)
  <2>1. Done(w) /\ now' = now /\ listed' = listed
    BY <1>7 DEF NotContacted, Health, HealthLost, Clear, GiveUpRaises
  <2> QED BY <2>1, DoneWakeful, AnsweringElsewhere DEF Between
<1>8. CASE Precheck(w)
  <2>1. PICK k \in Finding \ {"none"} :
          /\ at[w] = "precheck" /\ Goto(w, "record") /\ UNCHANGED <<now, cur, listed>>
          /\ pending' = [pending EXCEPT ![w] = [@ EXCEPT !.kind = k, !.url = row[cur[w]].url]]
    BY <1>8 DEF Precheck, desk
  <2>2. at'[w] = "record" /\ pending'[w] = [pending[w] EXCEPT !.kind = k, !.url = row[cur[w]].url]
    BY <2>1 DEF TypeOK, Goto
  <2>3. pending'[w].at = pending[w].at /\ pending'[w].kind = k
    BY <2>2 DEF TypeOK, Probe
  <2> QED BY <2>1, <2>2, <2>3 DEF Answering
<1>9. CASE RecordPrecheck(w)
  <2>1. at[w] = "record" /\ UNCHANGED <<now, listed>>
    BY <1>9 DEF RecordPrecheck
  <2>2. CASE FailAttempt(w, pending[w].kind = "challenge")
    BY <2>1, <2>2, FailAttemptAnswers
  <2>3. CASE pending[w].kind \notin {"challenge", "error"} /\ Goto(w, "clear") /\ UNCHANGED <<cur, pending>>
    <3>1. at'[w] = "clear" /\ cur'[w] = cur[w] /\ pending'[w] = pending[w]
      BY <2>3 DEF TypeOK, Goto
    <3>2. pending[w].kind \in Finding
      BY DEF TypeOK, Probe
    <3>3. pending[w].kind \in {"fit", "unfit", "gone"}
      BY <2>1, <2>3, <3>2 DEF Answering, Finding
    <3> QED BY <2>1, <3>1, <3>3 DEF Answering
  <2> QED BY <1>9, <2>2, <2>3 DEF RecordPrecheck
<1>10. CASE PrecheckRaises(w) \/ ClearRaises(w)
  BY <1>10, FailAttemptAnswers DEF PrecheckRaises, ClearRaises, desk
<1> QED BY <1>1, <1>2, <1>3, <1>4, <1>5, <1>6, <1>7, <1>8, <1>9, <1>10 DEF Run

LEMMA AnsweringStep ==
    ASSUME TypeOK, Dated, [Next]_vars, NEW w \in Worker, Answering(w)
    PROVE  Answering(w)'
<1>1. CASE Run(w)
  BY <1>1, AnsweringRun
<1>2. ASSUME Untouched(w) PROVE Answering(w)'
  <2>1. now \in Nat /\ now' \in Nat /\ now <= now' /\ \A s \in Source : listed[w][s] \in Nat
    BY TimeFlows, KnownInstants
  <2> QED BY <1>2, <2>1 DEF Untouched, Answering
<1>3. ASSUME NEW v \in Worker \ {w}, Run(v) PROVE Untouched(w)
  BY <1>3, OthersUntouched
<1>4. CASE (\E s \in Source : Act(s)) \/ BatchApprove \/ UNCHANGED vars
  BY <1>2, <1>4, DeskLeaves
<1> QED BY <1>1, <1>2, <1>3, <1>4 DEF Next

(* Only the end of a precheck clears a request.                            *)
LEMMA OnlyClearAnswers ==
    ASSUME TypeOK, [Next]_vars, NEW s \in Source, row[s].requested # 0, row'[s].requested = 0
    PROVE  \E w \in Worker : Clear(w) /\ cur[w] = s /\ row[s].requested = listed[w][s]
<1>1. row'[s].requested # row[s].requested
  OBVIOUS
<1>2. ASSUME NEW w \in Worker, Run(w)
      PROVE  Clear(w) /\ cur[w] = s /\ row[s].requested = listed[w][s]
  <2>1. ~Health(w)
    BY <1>1, HealthColumns
  <2>2. ~RecordPrecheck(w)
    BY <1>1, RecordColumns
  <2>3. Clear(w)
    BY <1>1, <1>2, <2>1, <2>2, RunLeavesDesk DEF desk
  <2> QED BY <1>1, <2>3, ClearColumns
<1>3. ASSUME NEW t \in Source, Act(t) PROVE FALSE
  <2>1. CASE Request(t)
    BY <1>1, <2>1, RequestColumns
  <2>2. CASE Decide(t) \/ Note(t)
    BY <1>1, <2>2, DecideColumns
  <2>3. CASE Edit(t)
    BY <1>1, <2>3, EditColumns
  <2>4. CASE Triage(t)
    BY <1>1, <2>4, TriageColumns
  <2>5. CASE BatchRead(t)
    BY <1>1, <2>5 DEF BatchRead
  <2> QED BY <1>3, <2>1, <2>2, <2>3, <2>4, <2>5 DEF Act
<1>4. ~BatchApprove
  BY <1>1, BatchApproveColumns
<1>5. ~UNCHANGED vars
  BY <1>1 DEF vars, desk
<1> QED BY <1>2, <1>3, <1>4, <1>5 DEF Next

(* A request is cleared only by a precheck begun after it.                 *)
THEOREM RequestsKept == Spec => RequestsAnswered
<1> DEFINE Inv == TypeOK /\ Dated /\ \A w \in Worker : Answering(w)
           Answer == \A s \in Source :
                       row[s].requested # 0 /\ row'[s].requested = 0 =>
                           \E w \in Worker :
                               /\ cur[w] = s /\ pending[w].at >= row[s].requested
                               /\ \/ pending[w].kind \in {"fit", "unfit", "gone"}
                                  \/ retry[w][s].streak >= MaxAttempts
<1>1. Init => Inv
  BY TypeInit, AnsweringInit
<1>2. Inv /\ [Next]_vars => Inv'
  BY TypeStep, DatedStep, AnsweringStep
<1>3. ASSUME Inv, Next PROVE Answer
  <2> SUFFICES ASSUME NEW s \in Source, row[s].requested # 0, row'[s].requested = 0
               PROVE  \E w \in Worker :
                        /\ cur[w] = s /\ pending[w].at >= row[s].requested
                        /\ \/ pending[w].kind \in {"fit", "unfit", "gone"}
                           \/ retry[w][s].streak >= MaxAttempts
    OBVIOUS
  <2>1. PICK w \in Worker : Clear(w) /\ cur[w] = s /\ row[s].requested = listed[w][s]
    BY <1>3, OnlyClearAnswers
  <2>2. at[w] \in {"clear", "giveUp"}
    BY <2>1 DEF Clear
  <2>3. listed[w][s] <= pending[w].at
    BY <1>3, <2>1, <2>2 DEF Answering
  <2>4. listed[w][s] \in Nat /\ pending[w].at \in Nat
    BY <1>3, KnownInstants
  <2> QED BY <1>3, <2>1, <2>2, <2>3, <2>4 DEF Answering
<1> QED BY <1>1, <1>2, <1>3, PTL DEF Spec, RequestsAnswered

-----------------------------------------------------------------------------
(* The holds.                                                              *)

(* A tick keeps its beginning.                                             *)
LEMMA StartKept ==
    ASSUME TypeOK, NEW w \in Worker, Run(w)
    PROVE  \/ tick'[w].start = tick[w].start
           \/ StartTick(w) /\ tick'[w].start = now' /\ at'[w] = "start"
           \/ tick'[w].start = 0 /\ at'[w] = "asleep"
<1>0. tick[w] \in Tick
  BY StageTypes
<1>1. CASE StartTick(w)
  <2>1. tick'[w] = [NoTick EXCEPT !.start = now'] /\ at'[w] = "start"
    BY <1>1 DEF TypeOK, StartTick, Stamp, Goto
  <2> QED BY <1>1, <2>1 DEF NoTick
<1>2. CASE Sleep(w) \/ Restart(w)
  <2>1. tick'[w] = NoTick /\ at'[w] = "asleep"
    BY <1>2 DEF TypeOK, Sleep, Restart, EndTick, Goto
  <2> QED BY <2>1 DEF NoTick
<1>3. CASE ListDue(w)
  <2>1. PICK due \in SUBSET Crawlable : tick' = [tick EXCEPT ![w].todo = due]
    BY <1>3 DEF ListDue
  <2> QED BY <1>0, <2>1 DEF TypeOK, Tick
<1>4. CASE ListQueue(w)
  <2>1. PICK todo : tick' = [tick EXCEPT ![w].todo = todo, ![w].stage = "queue"]
    BY <1>4 DEF ListQueue
  <2> QED BY <1>0, <2>1 DEF TypeOK, Tick
<1>5. CASE StartBackfill(w)
  <2>1. PICK todo \in SUBSET Crawlable :
          tick' = [tick EXCEPT ![w].todo = todo, ![w].stage = "backfill", ![w].stopped = FALSE]
    BY <1>5 DEF StartBackfill
  <2> QED BY <1>0, <2>1 DEF TypeOK, Tick
<1>6. CASE \E s \in Source : Skip(w, s) \/ TakeCrawl(w, s) \/ TakePrecheck(w, s)
  BY <1>0, <1>6 DEF TypeOK, Skip, TakeCrawl, TakePrecheck, Takes, Tick
<1>7. CASE Attempt(w)
  <2>1. PICK k \in Outcome, used \in 0..MaxUse \union {purse[w].held} :
          LET settled == Settle(purse[w], used)
              reserves == Reserves(w, k) /\ Affords(settled, Pages)
              again == reserves /\ tick[w].tries < MaxTries
              judged == tick[w].stage = "lists" /\ ResultOf(k) # "none"
          IN
          tick' = [tick EXCEPT ![w].tries = IF again THEN @ + 1 ELSE 1,
                               ![w].result = IF judged /\ ~again THEN ResultOf(k) ELSE "none",
                               ![w].throttled = @ \/ k = "refused"]
    BY <1>7 DEF Attempt
  <2> QED BY <1>0, <2>1 DEF TypeOK, Tick
<1>8. CASE NotContacted(w) \/ Health(w) \/ HealthLost(w) \/ Precheck(w) \/ Clear(w) \/ GiveUpRaises(w)
  <2>1. CASE NotContacted(w)
    BY <1>0, <2>1 DEF TypeOK, NotContacted, Tick
  <2>2. CASE Health(w) \/ HealthLost(w)
    <3>1. tick' = [tick EXCEPT ![w].result = "none"]
      BY <2>2 DEF Health, HealthLost
    <3> QED BY <1>0, <3>1 DEF TypeOK, Tick
  <2>3. CASE Precheck(w) \/ Clear(w) \/ GiveUpRaises(w)
    BY <2>3 DEF Precheck, Clear, GiveUpRaises
  <2> QED BY <1>8, <2>1, <2>2, <2>3
<1>9. ASSUME NEW c \in BOOLEAN, FailAttempt(w, c) PROVE tick'[w].start = tick[w].start
  BY <1>0, <1>9 DEF TypeOK, FailAttempt, Tick
<1>10. CASE RecordPrecheck(w)
  BY <1>9, <1>10 DEF RecordPrecheck
<1>11. CASE PrecheckRaises(w) \/ ClearRaises(w)
  BY <1>9, <1>11 DEF PrecheckRaises, ClearRaises
<1> QED BY <1>1, <1>2, <1>3, <1>4, <1>5, <1>6, <1>7, <1>8, <1>10, <1>11 DEF Run

(* Only an approved source is judged.                                      *)
LEMMA OnlyApprovedJudged ==
    ASSUME TypeOK, NEW w \in Worker, Run(w), at'[w] = "health"
    PROVE  cur'[w] \in Source /\ row'[cur'[w]].approval = "approved"
<1>1. ~(StartTick(w) \/ ListDue(w) \/ ListQueue(w) \/ StartBackfill(w) \/ Sleep(w) \/ Restart(w))
  BY DEF TypeOK, StartTick, ListDue, ListQueue, StartBackfill, Sleep, Restart, EndTick, Goto
<1>2. ~\E s \in Source : Skip(w, s) \/ TakeCrawl(w, s) \/ TakePrecheck(w, s)
  BY DEF TypeOK, Skip, TakeCrawl, TakePrecheck, Goto
<1>3. ~Done(w)
  BY DoneWakeful
<1>4. ~(NotContacted(w) \/ Health(w) \/ HealthLost(w) \/ Clear(w) \/ GiveUpRaises(w))
  BY <1>3 DEF NotContacted, Health, HealthLost, Clear, GiveUpRaises
<1>5. ~(FailAttempt(w, TRUE) \/ FailAttempt(w, FALSE))
  BY FailAttemptGoes
<1>6. ~RecordPrecheck(w)
  <2>1. RecordPrecheck(w) => FailAttempt(w, pending[w].kind = "challenge") \/ Goto(w, "clear")
    BY DEF RecordPrecheck
  <2>2. ~FailAttempt(w, pending[w].kind = "challenge")
    BY FailAttemptGoes
  <2>3. ~Goto(w, "clear")
    BY DEF TypeOK, Goto
  <2> QED BY <2>1, <2>2, <2>3
<1>7. ~(Precheck(w) \/ PrecheckRaises(w) \/ ClearRaises(w))
  BY <1>5 DEF TypeOK, Precheck, PrecheckRaises, ClearRaises, Goto
<1>8. Attempt(w)
  BY <1>1, <1>2, <1>4, <1>6, <1>7 DEF Run
<1>9. /\ at[w] = "crawl" /\ row[cur[w]].approval = "approved" /\ row' = row
      /\ UNCHANGED <<at, cur, pending>> \/ UNCHANGED <<cur, pending>> \/ Done(w)
  BY <1>8 DEF Attempt, desk
<1> QED BY <1>3, <1>9 DEF TypeOK, Between

(* What is known of the dates of a source, and who has set its status.     *)
Told(s) ==
    /\ row[s].failureAt <= now /\ row[s].reviewedAt <= now
    /\ s \in hand => row[s].reviewedAt # 0
    /\ row[s].approval = "needs_review" =>
         /\ s \in hand => row[s].failureAt <= row[s].reviewedAt
         /\ row[s].reviewedAt # 0 /\ row[s].failureAt <= row[s].reviewedAt => s \in hand \union raced

(* A failure about to be recorded of a source a person holds is dated      *)
(* before the hold.                                                        *)
Judging(w) ==
    /\ tick[w].start <= now
    /\ at[w] = "health" /\ cur[w] \in hand /\ row[cur[w]].approval = "needs_review" =>
         tick[w].start <= row[cur[w]].reviewedAt

LEMMA Instants ==
    ASSUME TypeOK
    PROVE  /\ now \in Nat
           /\ \A s \in Source : row[s].failureAt \in Nat /\ row[s].reviewedAt \in Nat
           /\ \A w \in Worker : tick[w].start \in Nat
<1>1. \A s \in Source : row[s].failureAt \in Nat /\ row[s].reviewedAt \in Nat
  BY RowTypes, TimeIsNatural
<1>2. \A w \in Worker : tick[w].start \in Nat
  BY StageTypes, TimeIsNatural
<1> QED BY <1>1, <1>2, KnownInstants, TimeIsNatural DEF TypeOK

LEMMA HoldsInit ==
    ASSUME Init
    PROVE  (\A s \in Source : Told(s)) /\ \A w \in Worker : Judging(w)
<1>0. now = 1
  BY DEF Init
<1>1. ASSUME NEW s \in Source PROVE Told(s)
  <2>1. PICK u \in Url : row[s] \in {Queued(u), Approved(u)}
    BY DEF Init
  <2>2. /\ row[s].failureAt = 0 /\ row[s].reviewedAt \in {0, 1}
        /\ row[s].approval = "needs_review" => row[s].reviewedAt = 0
        /\ row[s].approval = "approved" => row[s].reviewedAt = 1
        /\ row[s].approval \in {"needs_review", "approved"}
    <3>1. Queued(u).failureAt = 0 /\ Queued(u).reviewedAt = 0 /\ Queued(u).approval = "needs_review"
      BY DEF Queued
    <3>2. Approved(u).failureAt = 0 /\ Approved(u).reviewedAt = 1 /\ Approved(u).approval = "approved"
      BY DEF Queued, Approved
    <3> QED BY <2>1, <3>1, <3>2
  <2>3. s \in hand <=> row[s].approval = "approved"
    BY DEF Init
  <2> QED BY <1>0, <2>2, <2>3 DEF Told
<1>2. ASSUME NEW w \in Worker PROVE Judging(w)
  <2>1. tick[w].start = 0 /\ at[w] = "asleep"
    BY DEF Init, NoTick
  <2> QED BY <1>0, <2>1 DEF Judging
<1> QED BY <1>1, <1>2

(* Nothing is told of a source whose dates and status stay.                *)
LEMMA ToldStays ==
    ASSUME TypeOK, [Next]_vars, NEW s \in Source, Told(s),
           row'[s].failureAt = row[s].failureAt, row'[s].reviewedAt = row[s].reviewedAt,
           row'[s].approval = row[s].approval, s \in hand' <=> s \in hand, s \in raced => s \in raced'
    PROVE  Told(s)'
<1>1. now <= now'
  BY TimeFlows
<1> QED BY <1>1, TimeFlows, Instants DEF Told

LEMMA ToldHealth ==
    ASSUME TypeOK, [Next]_vars, NEW s \in Source, Told(s), NEW w \in Worker, Judging(w), Health(w)
    PROVE  Told(s)'
<1> DEFINE result == tick[w].result
<1>0. s \in Source /\ s # cur[w] =>
        /\ row'[s] = row[s] /\ (s \in hand' <=> s \in hand) /\ (s \in raced => s \in raced')
  BY HealthColumns DEF Health
<1>1. CASE s # cur[w]
  BY <1>0, <1>1, ToldStays
<1>2. CASE s = cur[w] /\ result = "success"
  <2>1. /\ row'[s].failureAt = row[s].failureAt /\ row'[s].reviewedAt = row[s].reviewedAt
        /\ ~Demotes(row[s], result)
    BY <1>2, HealthColumns DEF Demotes
  <2>2. row'[s].approval = row[s].approval /\ hand' = hand /\ raced' = raced
    BY <1>2, <2>1, HealthColumns DEF Health
  <2> QED BY <2>1, <2>2, ToldStays
<1>3. CASE s = cur[w] /\ result # "success"
  <2>1. /\ row'[s].failureAt = tick[w].start /\ row'[s].reviewedAt = row[s].reviewedAt
        /\ row'[s].approval = IF Demotes(row[s], result) THEN "needs_review" ELSE row[s].approval
    BY <1>3, HealthColumns
  <2>2. /\ hand' = IF Demotes(row[s], result) THEN hand \ {s} ELSE hand
        /\ raced' = IF tick[w].start <= row[s].reviewedAt THEN raced \union {s} ELSE raced \ {s}
        /\ now' = now /\ at[w] = "health"
    BY <1>3 DEF Health
  <2>3. tick[w].start <= now
    BY DEF Judging
  <2>4. CASE Demotes(row[s], result)
    <3>1. s \notin hand' /\ row'[s].approval = "needs_review"
      BY <2>1, <2>2, <2>4
    <3> QED BY <2>1, <2>2, <2>3, <3>1 DEF Told
  <2>5. CASE ~Demotes(row[s], result)
    <3>1. hand' = hand /\ row'[s].approval = row[s].approval
      BY <2>1, <2>2, <2>5
    <3>2. row[s].approval = "needs_review" /\ s \in hand => tick[w].start <= row[s].reviewedAt
      BY <1>3, <2>2 DEF Judging
    <3> QED BY <2>1, <2>2, <2>3, <3>1, <3>2 DEF Told
  <2> QED BY <2>4, <2>5
<1> QED BY <1>1, <1>2, <1>3

LEMMA ToldStep ==
    ASSUME TypeOK, [Next]_vars, NEW s \in Source, Told(s), \A w \in Worker : Judging(w)
    PROVE  Told(s)'
<1>0. /\ now \in Nat /\ now' \in Nat /\ now <= now'
      /\ row[s].failureAt \in Nat /\ row[s].reviewedAt \in Nat
  BY TimeFlows, Instants
<1>1. CASE UNCHANGED <<row, hand, raced>>
  BY <1>1, ToldStays
<1>2. ASSUME NEW w \in Worker, Run(w) PROVE Told(s)'
  <2>1. CASE Health(w)
    BY <2>1, ToldHealth
  <2>2. CASE RecordPrecheck(w)
    <3>1. UNCHANGED <<hand, raced>>
      BY <2>2 DEF RecordPrecheck
    <3> QED BY <2>2, <3>1, RecordColumns, ToldStays
  <2>3. CASE Clear(w)
    <3>1. UNCHANGED <<hand, raced>>
      BY <2>3 DEF Clear
    <3> QED BY <2>3, <3>1, ClearColumns, ToldStays
  <2> QED BY <1>1, <1>2, <2>1, <2>2, <2>3, RunLeavesDesk DEF desk
<1>3. ASSUME NEW t \in Source, Act(t) PROVE Told(s)'
  <2>1. CASE Request(t)
    <3>1. UNCHANGED <<hand, raced>>
      BY <2>1 DEF Request
    <3> QED BY <2>1, <3>1, RequestColumns, ToldStays
  <2>2. CASE Edit(t)
    <3>1. UNCHANGED <<hand, raced>>
      BY <2>2 DEF Edit
    <3> QED BY <2>2, <3>1, EditColumns, ToldStays
  <2>3. CASE (Decide(t) \/ Note(t)) /\ s # t
    <3>1. (s \in hand' <=> s \in hand) /\ (s \in raced => s \in raced')
      BY <2>3 DEF Decide, Note
    <3> QED BY <2>3, <3>1, DecideColumns, ToldStays
  <2>4. CASE Decide(s)
    <3>1. row'[s].reviewedAt = now' /\ now' = now + 1 /\ row'[s].failureAt = row[s].failureAt /\ s \in hand'
      BY <2>4, DecideColumns DEF Decide
    <3> QED BY <1>0, <3>1 DEF Told
  <2>5. CASE Note(s)
    <3>1. /\ row'[s].reviewedAt = now' /\ now' = now + 1 /\ row'[s].failureAt = row[s].failureAt
          /\ hand' = hand /\ s \in raced'
      BY <2>5, DecideColumns DEF Note
    <3> QED BY <1>0, <3>1 DEF Told
  <2>6. CASE BatchRead(t)
    BY <1>1, <2>6 DEF BatchRead
  <2>7. CASE Triage(t)
    <3>1. UNCHANGED <<hand, raced>>
      BY <2>7 DEF Triage
    <3> QED BY <2>7, <3>1, TriageColumns, ToldStays
  <2> QED BY <1>3, <2>1, <2>2, <2>3, <2>4, <2>5, <2>6, <2>7 DEF Act
<1>4. CASE BatchApprove /\ s # batch
  <2>1. row'[s] = row[s] /\ (s \in hand' <=> s \in hand) /\ (s \in raced => s \in raced')
    BY <1>4, BatchApproveColumns DEF BatchApprove
  <2> QED BY <2>1, ToldStays
<1>5. CASE BatchApprove /\ s = batch
  <2>1. /\ row'[s].reviewedAt = now' /\ now' = now + 1 /\ row'[s].failureAt = row[s].failureAt
        /\ row'[s].approval = "approved"
    BY <1>5, BatchApproveColumns
  <2> QED BY <1>0, <2>1 DEF Told
<1> QED BY <1>1, <1>2, <1>3, <1>4, <1>5 DEF Next, vars, desk

(* A hold was there before, and not reviewed less lately, or is of now.    *)
LEMMA HoldsOfNow ==
    ASSUME TypeOK, [Next]_vars, NEW s \in Source, Told(s), s \in hand', row'[s].approval = "needs_review"
    PROVE  \/ s \in hand /\ row[s].approval = "needs_review" /\ row[s].reviewedAt <= row'[s].reviewedAt
           \/ row'[s].reviewedAt = now'
<1>0. row[s].reviewedAt \in Nat
  BY Instants
<1>1. CASE UNCHANGED <<row, hand>>
  BY <1>0, <1>1
<1>2. ASSUME NEW w \in Worker, Run(w)
      PROVE  s \in hand /\ row[s].approval = "needs_review" /\ row[s].reviewedAt = row'[s].reviewedAt
  <2>1. CASE Health(w)
    <3>1. CASE s # cur[w]
      BY <2>1, <3>1, HealthColumns DEF Health
    <3>2. CASE s = cur[w]
      <4>1. ~Demotes(row[s], tick[w].result)
        BY <2>1, <3>2 DEF Health
      <4> QED BY <2>1, <3>2, <4>1, HealthColumns DEF Health
    <3> QED BY <3>1, <3>2
  <2>2. CASE RecordPrecheck(w)
    BY <2>2, RecordColumns DEF RecordPrecheck
  <2>3. CASE Clear(w)
    BY <2>3, ClearColumns DEF Clear
  <2> QED BY <1>2, <2>1, <2>2, <2>3, RunLeavesDesk DEF desk
<1>3. ASSUME NEW t \in Source, Act(t), ~UNCHANGED <<row, hand>>
      PROVE  \/ s \in hand /\ row[s].approval = "needs_review" /\ row[s].reviewedAt = row'[s].reviewedAt
             \/ row'[s].reviewedAt = now'
  <2>1. CASE Request(t)
    BY <2>1, RequestColumns DEF Request
  <2>2. CASE Edit(t)
    BY <2>2, EditColumns DEF Edit
  <2>3. CASE Decide(t) \/ Note(t)
    <3>1. row'[t].reviewedAt = now' /\ (s # t => row'[s] = row[s])
      BY <2>3, DecideColumns
    <3>2. s # t => s \in hand
      BY <2>3 DEF Decide, Note
    <3> QED BY <3>1, <3>2
  <2>4. CASE BatchRead(t)
    BY <1>3, <2>4 DEF BatchRead
  <2>5. CASE Triage(t)
    BY <2>5, TriageColumns DEF Triage
  <2> QED BY <1>3, <2>1, <2>2, <2>3, <2>4, <2>5 DEF Act
<1>4. CASE BatchApprove
  <2>1. row'[batch].approval = "approved" /\ (s # batch => row'[s] = row[s])
    BY <1>4, BatchApproveColumns
  <2>2. s # batch => s \in hand
    BY <1>4 DEF BatchApprove
  <2> QED BY <1>0, <2>1, <2>2
<1> QED BY <1>0, <1>1, <1>2, <1>3, <1>4 DEF Next, vars, desk

LEMMA JudgingStep ==
    ASSUME TypeOK, [Next]_vars, \A s \in Source : Told(s), NEW w \in Worker, Judging(w)
    PROVE  Judging(w)'
<1>0. now \in Nat /\ now' \in Nat /\ now <= now' /\ tick[w].start \in Nat
  BY TimeFlows, Instants
<1>1. CASE Run(w)
  <2>1. tick'[w].start <= now'
    BY <1>0, <1>1, StartKept DEF Judging
  <2>2. at'[w] = "health" => row'[cur'[w]].approval # "needs_review"
    BY <1>1, OnlyApprovedJudged
  <2> QED BY <2>1, <2>2 DEF Judging
<1>2. CASE Untouched(w)
  <2>1. tick'[w].start <= now' /\ at'[w] = at[w] /\ cur'[w] = cur[w]
    BY <1>0, <1>2 DEF Judging, Untouched
  <2>2. ASSUME at[w] = "health", cur[w] \in hand', row'[cur[w]].approval = "needs_review"
        PROVE  tick[w].start <= row'[cur[w]].reviewedAt
    <3>1. cur[w] \in Source
      BY <2>2 DEF TypeOK, Between
    <3>2. row'[cur[w]].reviewedAt \in Nat /\ row[cur[w]].reviewedAt \in Nat
      <4>1. TypeOK'
        BY TypeStep
      <4> QED BY <3>1, <4>1, Instants, RowTypes, TimeIsNatural DEF TypeOK, Row
    <3>3. CASE row'[cur[w]].reviewedAt = now'
      BY <1>0, <3>3 DEF Judging
    <3>4. CASE cur[w] \in hand /\ row[cur[w]].approval = "needs_review"
               /\ row[cur[w]].reviewedAt <= row'[cur[w]].reviewedAt
      BY <1>0, <2>2, <3>2, <3>4 DEF Judging
    <3> QED BY <2>2, <3>1, <3>3, <3>4, HoldsOfNow
  <2> QED BY <1>2, <2>1, <2>2 DEF Judging, Untouched
<1>3. ASSUME NEW v \in Worker \ {w}, Run(v) PROVE Untouched(w)
  BY <1>3, OthersUntouched
<1>4. CASE (\E s \in Source : Act(s)) \/ BatchApprove \/ UNCHANGED vars
  BY <1>2, <1>4, DeskLeaves
<1> QED BY <1>1, <1>2, <1>3, <1>4 DEF Next

(* A hold by a person is told from a demotion, unless the dates crossed.   *)
THEOREM HoldsTold == Spec => []HoldsAreTold
<1> DEFINE Inv == TypeOK /\ (\A s \in Source : Told(s)) /\ \A w \in Worker : Judging(w)
<1>1. Init => Inv
  BY TypeInit, HoldsInit
<1>2. Inv /\ [Next]_vars => Inv'
  BY TypeStep, ToldStep, JudgingStep
<1>3. Inv => HoldsAreTold
  BY DEF Told, HoldsAreTold, IsHeldByPerson
<1> QED BY <1>1, <1>2, <1>3, PTL DEF Spec

-----------------------------------------------------------------------------
(* The approvals.                                                          *)

(* The address a row names was prechecked; and a verdict of fitness that   *)
(* no person wrote was found there, by a tick that began no earlier than   *)
(* it says.                                                                *)
Verified(s) ==
    /\ row[s].checkedUrl \in probed[s] \union {NoUrl}
    /\ row[s].verdict = "fit" /\ s \notin triaged =>
         /\ row[s].checkedAt # 0 /\ row[s].checkedUrl \in Url
         /\ row[s].checkedAt <= found[s][row[s].checkedUrl]

(* A worker awake has a tick, and has looked at an address before it       *)
(* records what it saw.                                                    *)
Looked(w) ==
    /\ at[w] # "asleep" => tick[w].start # 0
    /\ at[w] = "record" => pending[w].url \in Url

(* What a batch has read of a row holds as long as nobody writes the row.  *)
ReadFit ==
    batch # NoSource /\ ~stale =>
        LET r == row[batch] IN
        /\ r.verdict = "fit" /\ r.checkedUrl = r.url
        /\ r.failureAt <= r.checkedAt /\ r.reviewedAt <= r.checkedAt

LEMMA ApprovalsInit ==
    ASSUME Init
    PROVE  (\A s \in Source : Verified(s)) /\ (\A w \in Worker : Looked(w)) /\ ReadFit
<1>1. ASSUME NEW s \in Source PROVE Verified(s)
  <2>1. PICK u \in Url : row[s] \in {Queued(u), Approved(u)}
    BY DEF Init
  <2>2. /\ Queued(u).verdict = "needs_fix" /\ Queued(u).checkedUrl = NoUrl
        /\ Approved(u).verdict = "needs_fix" /\ Approved(u).checkedUrl = NoUrl
    BY DEF Queued, Approved
  <2> QED BY <2>1, <2>2 DEF Verified
<1> QED BY <1>1 DEF Init, Looked, ReadFit

LEMMA LookedRun ==
    ASSUME TypeOK, NEW w \in Worker, Run(w), Looked(w)
    PROVE  Looked(w)'
<1>1. at[w] = "asleep" => StartTick(w)
  BY DEF Run, ListDue, ListQueue, StartBackfill, Sleep, Restart, Skip, TakeCrawl, TakePrecheck, Attempt,
         NotContacted, Health, HealthLost, Precheck, RecordPrecheck, PrecheckRaises, Clear, ClearRaises,
         GiveUpRaises
<1>2. at'[w] # "asleep" => tick'[w].start # 0
  <2>1. now' # 0
    <3>1. TypeOK'
      BY TypeRun
    <3> QED BY <3>1 DEF TypeOK
  <2>2. StartTick(w) => tick'[w].start = now'
    <3>1. StartTick(w) => tick'[w] = [NoTick EXCEPT !.start = now']
      BY DEF TypeOK, StartTick, Stamp
    <3> QED BY <3>1 DEF NoTick
  <2> QED BY <1>1, <2>1, <2>2, StartKept DEF Looked
<1>3. at'[w] = "record" => Precheck(w)
  <2>1. CASE Done(w)
    BY <2>1, DoneWakeful
  <2>2. CASE FailAttempt(w, TRUE) \/ FailAttempt(w, FALSE)
    BY <2>2, FailAttemptGoes
  <2>3. CASE StartTick(w) \/ ListDue(w) \/ ListQueue(w) \/ StartBackfill(w) \/ Sleep(w) \/ Restart(w)
             \/ \E s \in Source : Skip(w, s) \/ TakeCrawl(w, s) \/ TakePrecheck(w, s)
    BY <2>3 DEF TypeOK, StartTick, ListDue, ListQueue, StartBackfill, Sleep, Restart, EndTick, Skip,
                TakeCrawl, TakePrecheck, Goto
  <2>4. CASE Attempt(w)
    <3>1. at[w] = "crawl" /\ (UNCHANGED at \/ Goto(w, "health") \/ Done(w))
      BY <2>4 DEF Attempt
    <3> QED BY <2>1, <3>1 DEF TypeOK, Goto
  <2>5. CASE NotContacted(w) \/ Health(w) \/ HealthLost(w) \/ Clear(w) \/ GiveUpRaises(w)
    BY <2>1, <2>5 DEF NotContacted, Health, HealthLost, Clear, GiveUpRaises
  <2>6. CASE RecordPrecheck(w)
    <3>1. FailAttempt(w, pending[w].kind = "challenge") \/ Goto(w, "clear")
      BY <2>6 DEF RecordPrecheck
    <3> QED BY <3>1, FailAttemptGoes DEF TypeOK, Goto
  <2>7. CASE PrecheckRaises(w) \/ ClearRaises(w)
    BY <2>2, <2>7 DEF PrecheckRaises, ClearRaises
  <2> QED BY <2>3, <2>4, <2>5, <2>6, <2>7 DEF Run
<1>4. Precheck(w) => pending'[w].url \in Url
  <2> SUFFICES ASSUME Precheck(w) PROVE pending'[w].url \in Url
    OBVIOUS
  <2>1. cur[w] \in Source
    BY DEF TypeOK, Precheck, Between
  <2>2. PICK k : pending'[w] = [pending[w] EXCEPT !.kind = k, !.url = row[cur[w]].url]
    BY DEF TypeOK, Precheck
  <2>3. pending'[w].url = row[cur[w]].url
    BY <2>2 DEF TypeOK, Probe
  <2> QED BY <2>1, <2>3, RowTypes
<1> QED BY <1>2, <1>3, <1>4 DEF Looked

LEMMA LookedStep ==
    ASSUME TypeOK, [Next]_vars, NEW w \in Worker, Looked(w)
    PROVE  Looked(w)'
<1>1. CASE Run(w)
  BY <1>1, LookedRun
<1>2. CASE Untouched(w)
  BY <1>2 DEF Untouched, Looked
<1>3. ASSUME NEW v \in Worker \ {w}, Run(v) PROVE Untouched(w)
  BY <1>3, OthersUntouched
<1>4. CASE (\E s \in Source : Act(s)) \/ BatchApprove \/ UNCHANGED vars
  BY <1>2, <1>4, DeskLeaves
<1> QED BY <1>1, <1>2, <1>3, <1>4 DEF Next

LEMMA FoundInstants ==
    ASSUME NEW f \in [Source -> [Url -> Time]], NEW s \in Source, NEW u \in Url
    PROVE  f[s][u] \in Nat
BY TimeIsNatural

(* What was found stays found.                                             *)
LEMMA RecordFinds ==
    ASSUME TypeOK, NEW w \in Worker, RecordPrecheck(w)
    PROVE  /\ \A s \in Source, u \in Url : found[s][u] <= found'[s][u]
           /\ pending[w].kind = "fit" /\ pending[w].url \in Url =>
                tick[w].start <= found'[cur[w]][pending[w].url]
           /\ pending[w].url \in probed'[cur[w]] /\ \A s \in Source : probed[s] \subseteq probed'[s]
           /\ \A s \in Source \ {cur[w]} : s \in triaged' <=> s \in triaged
<1> DEFINE c == cur[w]
           p == pending[w]
           top == Largest(found[c][p.url], tick[w].start)
<1>1. c \in Source /\ tick[w].start \in Nat /\ \A s \in Source, u \in Url : found[s][u] \in Nat
  <2>1. c \in Source
    BY DEF TypeOK, RecordPrecheck, Between
  <2>2. found \in [Source -> [Url -> Time]]
    BY DEF TypeOK
  <2> QED BY <2>1, <2>2, Instants, FoundInstants
<1>2. /\ p.url \in probed'[c] /\ \A s \in Source : probed[s] \subseteq probed'[s]
      /\ \A s \in Source \ {c} : s \in triaged' <=> s \in triaged
  <2>1. probed' = [probed EXCEPT ![c] = probed[c] \union {p.url}] /\ triaged' = triaged \ {c}
    BY DEF RecordPrecheck
  <2> HIDE DEF c, p
  <2> QED BY <1>1, <2>1 DEF TypeOK
<1>3. CASE p.kind = "fit"
  <2>1. found' = [found EXCEPT ![c] = [found[c] EXCEPT ![p.url] = top]]
    BY <1>3 DEF RecordPrecheck
  <2>2. found'[c] = [found[c] EXCEPT ![p.url] = top] /\ \A s \in Source \ {c} : found'[s] = found[s]
    <3> HIDE DEF top, c, p
    <3> QED BY <1>1, <2>1 DEF TypeOK
  <2>3. \A u \in Url : found'[c][u] = IF u = p.url THEN top ELSE found[c][u]
    <3> HIDE DEF top, p
    <3> QED BY <1>1, <2>2 DEF TypeOK
  <2>4. p.url \in Url => found[c][p.url] <= top /\ tick[w].start <= top
    BY <1>1 DEF Largest
  <2> HIDE DEF top
  <2>5. ASSUME NEW s \in Source, NEW u \in Url PROVE found[s][u] <= found'[s][u]
    <3>1. CASE s = c /\ u = p.url
      BY <2>3, <2>4, <3>1
    <3>2. CASE s = c /\ u # p.url
      BY <1>1, <2>3, <3>2
    <3>3. CASE s # c
      BY <1>1, <2>2, <3>3
    <3> QED BY <3>1, <3>2, <3>3
  <2>6. p.url \in Url => tick[w].start <= found'[c][p.url]
    BY <2>3, <2>4
  <2> QED BY <1>2, <2>5, <2>6
<1>4. CASE p.kind # "fit"
  <2>1. found' = found
    BY <1>4 DEF RecordPrecheck
  <2> QED BY <1>1, <1>2, <1>4, <2>1
<1> QED BY <1>3, <1>4

LEMMA VerifiedStep ==
    ASSUME TypeOK, [Next]_vars, NEW s \in Source, Verified(s), \A w \in Worker : Looked(w)
    PROVE  Verified(s)'
<1>1. ASSUME row'[s].verdict = row[s].verdict, row'[s].checkedAt = row[s].checkedAt,
             row'[s].checkedUrl = row[s].checkedUrl, UNCHANGED <<found, probed>>,
             s \in triaged' <=> s \in triaged
      PROVE  Verified(s)'
  BY <1>1 DEF Verified
<1>2. ASSUME NEW w \in Worker, Run(w) PROVE Verified(s)'
  <2>1. CASE Health(w)
    <3>1. UNCHANGED <<found, probed, triaged>>
      BY <2>1 DEF Health
    <3> QED BY <1>1, <2>1, <3>1, HealthColumns
  <2>2. CASE RecordPrecheck(w)
    <3>1. CASE s = cur[w]
      <4>1. /\ row'[s].verdict = "fit" <=> pending[w].kind = "fit"
            /\ row'[s].checkedAt = tick[w].start /\ row'[s].checkedUrl = pending[w].url
        BY <2>2, <3>1, RecordColumns
      <4>2. tick[w].start # 0 /\ pending[w].url \in Url
        BY <2>2 DEF RecordPrecheck, Looked
      <4>3. pending[w].url \in probed'[s]
        BY <2>2, <3>1, RecordFinds
      <4> QED BY <2>2, <3>1, <4>1, <4>2, <4>3, RecordFinds DEF Verified
    <3>2. CASE s # cur[w]
      <4>1. row'[s] = row[s]
        BY <2>2, <3>2, RecordColumns
      <4>2. \A u \in Url : found[s][u] \in Nat /\ found[s][u] <= found'[s][u]
        <5>1. found \in [Source -> [Url -> Time]]
          BY DEF TypeOK
        <5> QED BY <2>2, <5>1, RecordFinds, FoundInstants
      <4>3. \A u \in Url : found'[s][u] \in Nat
        <5>1. TypeOK'
          BY TypeStep
        <5>2. found' \in [Source -> [Url -> Time]]
          BY <5>1 DEF TypeOK
        <5> QED BY <5>2, FoundInstants
      <4>4. row[s].checkedAt \in Nat
        BY RowTypes, TimeIsNatural
      <4>5. probed[s] \subseteq probed'[s] /\ (s \in triaged' <=> s \in triaged)
        BY <2>2, <3>2, RecordFinds
      <4> QED BY <4>1, <4>2, <4>3, <4>4, <4>5 DEF Verified
    <3> QED BY <3>1, <3>2
  <2>3. CASE Clear(w)
    <3>1. UNCHANGED <<found, probed, triaged>>
      BY <2>3 DEF Clear
    <3> QED BY <1>1, <2>3, <3>1, ClearColumns
  <2> QED BY <1>1, <1>2, <2>1, <2>2, <2>3, RunLeavesDesk DEF desk
<1>3. ASSUME NEW t \in Source, Act(t) PROVE Verified(s)'
  <2>2. CASE Request(t)
    BY <1>1, <2>2, RequestColumns DEF Request
  <2>3. CASE Decide(t) \/ Note(t)
    BY <1>1, <2>3, DecideColumns DEF Decide, Note
  <2>4. CASE Edit(t)
    BY <1>1, <2>4, EditColumns DEF Edit
  <2>5. CASE BatchRead(t)
    BY <1>1, <2>5 DEF BatchRead
  <2>6. CASE Triage(t)
    <3>1. UNCHANGED probed /\ triaged' = triaged \union {t} /\ found' = found
      BY <2>6 DEF Triage
    <3>2. s # t => row'[s] = row[s]
      BY <2>6, TriageColumns
    <3>3. s = t => row'[s].checkedUrl \in {row[s].checkedUrl, NoUrl}
      BY <2>6, TriageColumns
    <3> QED BY <3>1, <3>2, <3>3 DEF Verified
  <2> QED BY <1>3, <2>2, <2>3, <2>4, <2>5, <2>6 DEF Act
<1>4. CASE BatchApprove
  <2>1. UNCHANGED <<found, probed, triaged>>
    BY <1>4 DEF BatchApprove
  <2> QED BY <1>1, <1>4, <2>1, BatchApproveColumns
<1>5. CASE UNCHANGED vars
  BY <1>1, <1>5 DEF vars, desk
<1> QED BY <1>2, <1>3, <1>4, <1>5 DEF Next

(* A batch that is not stale has just read its row, or it is still so.     *)
LEMMA BatchFresh ==
    ASSUME TypeOK, [Next]_vars, batch' # NoSource, ~stale'
    PROVE  \/ BatchRead(batch') /\ batch' \in Source
           \/ batch' = batch /\ ~stale /\ row'[batch] = row[batch]
<1>1. ASSUME NEW t \in Source, NEW r, Write(t, r), batch' = batch
      PROVE  ~stale /\ row'[batch] = row[batch]
  <2>1. batch \in Source
    BY <1>1 DEF TypeOK
  <2> QED BY <1>1, <2>1, WriteLeaves
<1>2. ASSUME NEW w \in Worker, Run(w)
      PROVE  batch' = batch /\ ~stale /\ row'[batch] = row[batch]
  <2>1. CASE Health(w) \/ RecordPrecheck(w) \/ Clear(w)
    <3>1. cur[w] \in Source
      BY <2>1 DEF TypeOK, Health, RecordPrecheck, Clear, Between
    <3>2. batch' = batch /\ \E r : Write(cur[w], r)
      BY <2>1 DEF Health, RecordPrecheck, Clear
    <3> QED BY <1>1, <3>1, <3>2
  <2> QED BY <1>2, <2>1, RunLeavesDesk DEF desk
<1>3. ASSUME NEW t \in Source, Act(t), ~BatchRead(t)
      PROVE  batch' = batch /\ ~stale /\ row'[batch] = row[batch]
  <2>1. batch' = batch /\ \E r : Write(t, r)
    BY <1>3 DEF Act, Request, Decide, Note, Edit, Triage
  <2> QED BY <1>1, <2>1
<1>4. ASSUME NEW t \in Source, BatchRead(t) PROVE batch' = t
  BY <1>4 DEF BatchRead
<1>5. ~BatchApprove
  BY DEF BatchApprove
<1>6. CASE UNCHANGED vars
  BY <1>6 DEF vars, desk
<1> QED BY <1>2, <1>3, <1>4, <1>5, <1>6 DEF Next, Act

LEMMA ReadFitStep ==
    ASSUME TypeOK, [Next]_vars, ReadFit
    PROVE  ReadFit'
<1> SUFFICES ASSUME batch' # NoSource, ~stale' PROVE ReadFit'
  BY DEF ReadFit
<1>1. CASE BatchRead(batch') /\ batch' \in Source
  <2>1. Usable(row[batch']) /\ row' = row
    BY <1>1 DEF BatchRead, Approvable
  <2> QED BY <2>1 DEF Usable, ReadFit
<1>2. CASE batch' = batch /\ ~stale /\ row'[batch] = row[batch]
  BY <1>2 DEF ReadFit
<1> QED BY <1>1, <1>2, BatchFresh

(* A batch approval rests on a precheck of the present address, and, but   *)
(* for a verdict that a person wrote, on a page found fit there in a tick  *)
(* begun after the last failure and the last decision.                     *)
THEOREM ApprovalsBacked == Spec => ApprovalBacked
<1> DEFINE Inv == TypeOK /\ (\A s \in Source : Verified(s)) /\ (\A w \in Worker : Looked(w)) /\ ReadFit
           Backed == BatchApprove /\ ~stale =>
                       LET r == row[batch]  checked == found[batch][r.url] IN
                       /\ r.url \in probed[batch]
                       /\ batch \notin triaged =>
                              checked # 0 /\ checked >= r.reviewedAt /\ checked >= r.failureAt
<1>1. Init => Inv
  BY TypeInit, ApprovalsInit
<1>2. Inv /\ [Next]_vars => Inv'
  BY TypeStep, VerifiedStep, LookedStep, ReadFitStep
<1>3. Inv => Backed
  <2> SUFFICES ASSUME Inv, batch # NoSource, ~stale
               PROVE  LET r == row[batch]  checked == found[batch][r.url] IN
                      /\ r.url \in probed[batch]
                      /\ batch \notin triaged =>
                             checked # 0 /\ checked >= r.reviewedAt /\ checked >= r.failureAt
    BY DEF BatchApprove
  <2>1. batch \in Source
    BY DEF TypeOK
  <2>2. /\ row[batch].verdict = "fit" /\ row[batch].checkedUrl = row[batch].url
        /\ row[batch].failureAt <= row[batch].checkedAt /\ row[batch].reviewedAt <= row[batch].checkedAt
    BY DEF ReadFit
  <2>3. batch \notin triaged =>
          row[batch].checkedAt # 0 /\ row[batch].checkedAt <= found[batch][row[batch].url]
    BY <2>1, <2>2 DEF Verified
  <2>4. /\ row[batch].checkedAt \in Nat /\ row[batch].failureAt \in Nat /\ row[batch].reviewedAt \in Nat
        /\ row[batch].url \in Url
    BY <2>1, RowTypes, TimeIsNatural
  <2>5. found[batch][row[batch].url] \in Nat
    <3>1. found \in [Source -> [Url -> Time]]
      BY DEF TypeOK
    <3> QED BY <2>1, <2>4, <3>1, FoundInstants
  <2>6. row[batch].url \in probed[batch]
    BY <2>1, <2>2, <2>4 DEF Verified
  <2> QED BY <2>2, <2>3, <2>4, <2>5, <2>6
<1> QED BY <1>1, <1>2, <1>3, PTL DEF Spec, ApprovalBacked

-----------------------------------------------------------------------------
(* A tick advances.                                                        *)

(* Between two sources a worker is at the stage of its tick, and a crawl   *)
(* has not been tried too often.                                           *)
Staged(w) ==
    /\ at[w] \in {"asleep", "start"} => tick[w].stage = "lists"
    /\ at[w] \in {"lists", "queue", "backfill"} => tick[w].stage = at[w]
    /\ tick[w].tries <= MaxTries

(* What is left after a step from one place in a tick to another.          *)
Fewer(step, t, step2, t2) ==
    \/ StagesLeft(step2, t2) < StagesLeft(step, t)
    \/ /\ StagesLeft(step2, t2) = StagesLeft(step, t)
       /\ t2.todo \subseteq t.todo
       /\ \/ t2.todo # t.todo
          \/ StepsLeft(step2, t2) \in 0..StepsLeft(step, t) - 1

(* The next stage begins.                                                  *)
LEMMA NextStage ==
    ASSUME NEW step, NEW t \in Tick, NEW step2, NEW t2 \in Tick,
           \/ step = "start" /\ step2 # "start"
           \/ step = "lists" /\ t.stage = "lists" /\ step2 # "start" /\ t2.stage = "queue"
           \/ step = "queue" /\ t.stage = "queue" /\ step2 # "start" /\ t2.stage = "backfill"
    PROVE  Fewer(step, t, step2, t2)
BY DEF Fewer, StagesLeft, Tick

(* A source is taken, or skipped.                                          *)
LEMMA SourceLess ==
    ASSUME NEW step, NEW t \in Tick, NEW step2, NEW t2 \in Tick, NEW s \in t.todo,
           step # "start", step2 # "start", t2.stage = t.stage, t2.todo = t.todo \ {s}
    PROVE  Fewer(step, t, step2, t2)
BY DEF Fewer, StagesLeft

(* The steps with a source, in the order in which they may come.           *)
LEMMA StepsAre ==
    ASSUME NEW t \in Tick
    PROVE  /\ StepsLeft("crawl", t) = 2 + MaxTries - t.tries
           /\ \A step \in Between : StepsLeft(step, t) = 0
           /\ StepsLeft("precheck", t) = 5 /\ StepsLeft("record", t) = 4
           /\ StepsLeft("clear", t) = 3 /\ StepsLeft("giveUp", t) = 2
           /\ StepsLeft("health", t) = 1
BY DEF StepsLeft, Between

(* A step with the same source.                                            *)
LEMMA StepLess ==
    ASSUME NEW step, NEW t \in Tick, NEW step2, NEW t2 \in Tick,
           step # "start", step2 # "start", t2.stage = t.stage, t2.todo = t.todo,
           StepsLeft(step2, t2) \in 0..StepsLeft(step, t) - 1
    PROVE  Fewer(step, t, step2, t2)
BY DEF Fewer, StagesLeft

LEMMA RoundInit == ASSUME Init, NEW w \in Worker PROVE Staged(w)
BY DEF Init, NoTick, Staged

(* A failed precheck is over, or given up.                                 *)
LEMMA FailAttemptAdvances ==
    ASSUME TypeOK, TypeOK', NEW w \in Worker, Staged(w), NEW challenged \in BOOLEAN,
           at[w] \in {"precheck", "record", "clear"}, FailAttempt(w, challenged)
    PROVE  Staged(w)' /\ Fewer(at[w], tick[w], at'[w], tick'[w])
<1>1. tick[w] \in Tick /\ tick'[w] \in Tick
  BY DEF TypeOK
<1>2. tick'[w] = [tick[w] EXCEPT !.throttled = @ \/ challenged, !.stopped = TRUE]
  BY DEF FailAttempt, TypeOK
<1>3. tick'[w].stage = tick[w].stage /\ tick'[w].todo = tick[w].todo /\ tick'[w].tries = tick[w].tries
  BY <1>1, <1>2 DEF Tick
<1>4. at'[w] \in {"lists", "queue", "backfill", "giveUp"}
  BY FailAttemptGoes
<1>5. at'[w] \in {"lists", "queue", "backfill"} => at'[w] = tick[w].stage
  BY DoneLeaves DEF FailAttempt, Goto, TypeOK
<1>6. StepsLeft(at[w], tick[w]) \in {3, 4, 5}
  BY <1>1, StepsAre
<1>7. StepsLeft(at'[w], tick'[w]) \in {0, 2}
  BY <1>1, <1>4, StepsAre DEF Between
<1>8. Fewer(at[w], tick[w], at'[w], tick'[w])
  <2>1. StepsLeft(at'[w], tick'[w]) \in 0..StepsLeft(at[w], tick[w]) - 1
    BY <1>6, <1>7
  <2> QED BY <1>1, <1>3, <1>4, <2>1, StepLess
<1> QED BY <1>3, <1>4, <1>5, <1>8 DEF Staged

(* And a worker that has done with its source is at its stage.             *)
LEMMA DoneAdvances ==
    ASSUME TypeOK, TypeOK', NEW w \in Worker, Staged(w), Done(w),
           at[w] \in {"crawl", "health", "precheck", "record", "clear", "giveUp"},
           tick'[w].stage = tick[w].stage, tick'[w].todo = tick[w].todo,
           tick'[w].tries \in {1, tick[w].tries}
    PROVE  Staged(w)' /\ Fewer(at[w], tick[w], at'[w], tick'[w])
<1>1. tick[w] \in Tick /\ tick'[w] \in Tick
  BY DEF TypeOK
<1>2. at'[w] = tick[w].stage /\ at'[w] \in {"lists", "queue", "backfill"}
  BY DoneLeaves, DoneWakeful
<1>3. StepsLeft(at[w], tick[w]) \in Nat \ {0}
  <2>1. tick[w].tries \in Nat /\ tick[w].tries <= MaxTries
    BY <1>1 DEF Staged, Tick
  <2> QED BY <1>1, <2>1, StepsAre
<1>4. StepsLeft(at'[w], tick'[w]) = 0
  BY <1>1, <1>2, StepsAre DEF Between
<1>5. Fewer(at[w], tick[w], at'[w], tick'[w])
  <2>1. StepsLeft(at'[w], tick'[w]) \in 0..StepsLeft(at[w], tick[w]) - 1
    BY <1>3, <1>4
  <2> QED BY <1>1, <1>2, <2>1, StepLess
<1> QED BY <1>2, <1>5 DEF Staged

(* A source is taken from the stage, or skipped.                           *)
LEMMA TakesAdvances ==
    ASSUME TypeOK, TypeOK', NEW w \in Worker, Staged(w), NEW s \in Source, Takes(w, s),
           at[w] \in {"lists", "queue", "backfill"},
           at'[w] \in {at[w], "crawl", "precheck"}
    PROVE  Staged(w)' /\ Fewer(at[w], tick[w], at'[w], tick'[w])
<1>1. tick[w] \in Tick /\ tick'[w] \in Tick
  BY DEF TypeOK
<1>2. tick'[w] = [tick[w] EXCEPT !.todo = @ \ {s}] /\ s \in tick[w].todo
  BY DEF Takes, TypeOK
<1>3. /\ tick'[w].stage = tick[w].stage /\ tick'[w].todo = tick[w].todo \ {s}
      /\ tick'[w].tries = tick[w].tries
  BY <1>1, <1>2 DEF Tick
<1>4. Fewer(at[w], tick[w], at'[w], tick'[w])
  BY <1>1, <1>2, <1>3, SourceLess
<1> QED BY <1>3, <1>4 DEF Staged

(* An attempt is tried again a bounded number of times.                    *)
LEMMA AttemptGoes ==
    ASSUME TypeOK, NEW w \in Worker, Attempt(w)
    PROVE  /\ tick'[w].stage = tick[w].stage /\ tick'[w].todo = tick[w].todo
           /\ \/ /\ UNCHANGED at /\ tick[w].tries < MaxTries
                 /\ tick'[w].tries = tick[w].tries + 1
              \/ (Goto(w, "health") \/ Done(w)) /\ tick'[w].tries = 1
<1>1. PICK k \in Outcome, used \in 0..MaxUse \union {purse[w].held} :
        LET settled == Settle(purse[w], used)
            reserves == Reserves(w, k) /\ Affords(settled, Pages)
            again == reserves /\ tick[w].tries < MaxTries
            judged == tick[w].stage = "lists" /\ ResultOf(k) # "none"
        IN
        /\ tick' = [tick EXCEPT ![w].tries = IF again THEN @ + 1 ELSE 1,
                                ![w].result = IF judged /\ ~again THEN ResultOf(k) ELSE "none",
                                ![w].throttled = @ \/ k = "refused"]
        /\ IF again THEN UNCHANGED <<at, cur, pending>>
           ELSE IF judged THEN Goto(w, "health") /\ UNCHANGED <<cur, pending>>
           ELSE Done(w)
  BY DEF Attempt
<1> DEFINE again == (Reserves(w, k) /\ Affords(Settle(purse[w], used), Pages)) /\ tick[w].tries < MaxTries
           judged == tick[w].stage = "lists" /\ ResultOf(k) # "none"
           tries == IF again THEN tick[w].tries + 1 ELSE 1
           result == IF judged /\ ~again THEN ResultOf(k) ELSE "none"
           throttled == tick[w].throttled \/ k = "refused"
<1>2. tick'[w] = [tick[w] EXCEPT !.tries = tries, !.result = result, !.throttled = throttled]
  BY <1>1 DEF TypeOK
<1>3. tick[w] \in Tick
  BY DEF TypeOK
<1>4. IF again THEN UNCHANGED at ELSE Goto(w, "health") \/ Done(w)
  BY <1>1
<1>5. again => tick[w].tries < MaxTries
  OBVIOUS
<1> HIDE DEF again, result, throttled
<1>6. tick'[w].stage = tick[w].stage /\ tick'[w].todo = tick[w].todo /\ tick'[w].tries = tries
  BY <1>2, <1>3 DEF Tick
<1> QED BY <1>4, <1>5, <1>6

LEMMA AttemptAdvances ==
    ASSUME TypeOK, TypeOK', NEW w \in Worker, Staged(w), Attempt(w)
    PROVE  Staged(w)' /\ Fewer(at[w], tick[w], at'[w], tick'[w])
<1>1. /\ tick[w] \in Tick /\ tick'[w] \in Tick
      /\ tick[w].tries \in Nat \ {0} /\ tick[w].tries <= MaxTries
  BY DEF TypeOK, Tick, Staged
<1>2. at[w] = "crawl"
  BY DEF Attempt
<1>3. tick'[w].stage = tick[w].stage /\ tick'[w].todo = tick[w].todo
  BY AttemptGoes
<1>4. CASE Done(w) /\ tick'[w].tries = 1
  BY <1>2, <1>3, <1>4, DoneAdvances
<1>5. CASE Goto(w, "health") /\ tick'[w].tries = 1
  <2>1. at'[w] = "health"
    BY <1>5 DEF Goto, TypeOK
  <2>2. StepsLeft(at'[w], tick'[w]) = 1 /\ StepsLeft(at[w], tick[w]) = 2 + MaxTries - tick[w].tries
    BY <1>1, <1>2, <2>1, StepsAre
  <2>3. StepsLeft(at'[w], tick'[w]) \in 0..StepsLeft(at[w], tick[w]) - 1
    BY <1>1, <2>2
  <2>4. Fewer(at[w], tick[w], at'[w], tick'[w])
    BY <1>1, <1>2, <1>3, <2>1, <2>3, StepLess
  <2> QED BY <1>5, <2>1, <2>4 DEF Staged
<1>6. CASE UNCHANGED at /\ tick[w].tries < MaxTries /\ tick'[w].tries = tick[w].tries + 1
  <2>1. /\ at'[w] = "crawl"
        /\ StepsLeft(at[w], tick[w]) = 2 + MaxTries - tick[w].tries
        /\ StepsLeft(at'[w], tick'[w]) = 2 + MaxTries - tick'[w].tries
    BY <1>1, <1>2, <1>6, StepsAre
  <2>2. StepsLeft(at'[w], tick'[w]) \in 0..StepsLeft(at[w], tick[w]) - 1
    BY <1>1, <1>6, <2>1
  <2>3. Fewer(at[w], tick[w], at'[w], tick'[w])
    BY <1>1, <1>2, <1>3, <2>1, <2>2, StepLess
  <2> QED BY <1>1, <1>6, <2>1, <2>3 DEF Staged
<1> QED BY <1>4, <1>5, <1>6, AttemptGoes

(* Each step in a tick advances it.                                        *)
LEMMA RoundRun ==
    ASSUME TypeOK, TypeOK', NEW w \in Worker, Staged(w), Run(w)
    PROVE  /\ Staged(w)'
           /\ at[w] # "asleep" /\ at'[w] # "asleep" => Fewer(at[w], tick[w], at'[w], tick'[w])
<1>t. tick[w] \in Tick /\ tick'[w] \in Tick
  BY DEF TypeOK
<1>1. CASE StartTick(w)
  <2>1. at[w] = "asleep" /\ at'[w] = "start" /\ tick'[w] = [NoTick EXCEPT !.start = now + 1]
    BY <1>1 DEF StartTick, Goto, TypeOK
  <2> QED BY <2>1 DEF Staged, NoTick
<1>2. CASE ListDue(w)
  <2>1. PICK due \in SUBSET Crawlable : tick'[w] = [tick[w] EXCEPT !.todo = due]
    BY <1>2 DEF ListDue, TypeOK
  <2>2. at[w] = "start" /\ at'[w] = "lists"
    BY <1>2 DEF ListDue, Goto, TypeOK
  <2>3. tick'[w].stage = tick[w].stage /\ tick'[w].tries = tick[w].tries
    BY <1>t, <2>1 DEF Tick
  <2> QED BY <1>t, <2>2, <2>3, NextStage DEF Staged
<1>3. CASE ListQueue(w)
  <2>1. PICK todo \in {{s \in Source : row[s].requested # 0}, {}} :
          tick'[w] = [tick[w] EXCEPT !.todo = todo, !.stage = "queue"]
    BY <1>3 DEF ListQueue, TypeOK
  <2>2. at[w] = "lists" /\ at'[w] = "queue"
    BY <1>3 DEF ListQueue, Goto, TypeOK
  <2>3. tick'[w].stage = "queue" /\ tick'[w].tries = tick[w].tries
    BY <1>t, <2>1 DEF Tick
  <2> QED BY <1>t, <2>2, <2>3, NextStage DEF Staged
<1>4. CASE StartBackfill(w)
  <2>1. PICK todo \in SUBSET Crawlable :
          tick'[w] = [tick[w] EXCEPT !.todo = todo, !.stage = "backfill", !.stopped = FALSE]
    BY <1>4 DEF StartBackfill, TypeOK
  <2>2. at[w] = "queue" /\ at'[w] = "backfill"
    BY <1>4 DEF StartBackfill, Goto, TypeOK
  <2>3. tick'[w].stage = "backfill" /\ tick'[w].tries = tick[w].tries
    BY <1>t, <2>1 DEF Tick
  <2> QED BY <1>t, <2>2, <2>3, NextStage DEF Staged
<1>5. CASE Sleep(w) \/ Restart(w)
  <2>1. at'[w] = "asleep" /\ tick'[w] = NoTick
    BY <1>5 DEF Sleep, Restart, EndTick, Goto, TypeOK
  <2> QED BY <2>1 DEF Staged, NoTick
<1>6. ASSUME NEW s \in Source, Skip(w, s) \/ TakeCrawl(w, s) \/ TakePrecheck(w, s)
      PROVE  Staged(w)' /\ Fewer(at[w], tick[w], at'[w], tick'[w])
  <2>1. Takes(w, s) /\ at[w] \in {"lists", "queue", "backfill"}
    BY <1>6 DEF Skip, TakeCrawl, TakePrecheck
  <2>2. at'[w] \in {at[w], "crawl", "precheck"}
    BY <1>6 DEF Skip, TakeCrawl, TakePrecheck, Goto, TypeOK
  <2> QED BY <2>1, <2>2, TakesAdvances
<1>7. CASE Attempt(w)
  BY <1>7, AttemptAdvances
<1>8. CASE NotContacted(w) \/ Health(w) \/ HealthLost(w) \/ Clear(w) \/ GiveUpRaises(w)
  <2>1. /\ Done(w) /\ at[w] \in {"crawl", "health", "clear", "giveUp"}
    BY <1>8 DEF NotContacted, Health, HealthLost, Clear, GiveUpRaises
  <2>2. /\ tick'[w].stage = tick[w].stage /\ tick'[w].todo = tick[w].todo
        /\ tick'[w].tries \in {1, tick[w].tries}
    BY <1>8, <1>t DEF NotContacted, Health, HealthLost, Clear, GiveUpRaises, TypeOK, Tick
  <2> QED BY <2>1, <2>2, DoneAdvances
<1>9. CASE Precheck(w)
  <2>1. at[w] = "precheck" /\ at'[w] = "record" /\ tick'[w] = tick[w]
    BY <1>9 DEF Precheck, Goto, TypeOK
  <2>2. StepsLeft(at'[w], tick'[w]) \in 0..StepsLeft(at[w], tick[w]) - 1
    BY <1>t, <2>1, StepsAre
  <2> QED BY <1>t, <2>1, <2>2, StepLess DEF Staged
<1>10. CASE RecordPrecheck(w)
  <2>1. CASE FailAttempt(w, pending[w].kind = "challenge")
    BY <1>10, <2>1, FailAttemptAdvances DEF RecordPrecheck
  <2>2. CASE Goto(w, "clear") /\ UNCHANGED tick
    <3>1. at[w] = "record" /\ at'[w] = "clear" /\ tick'[w] = tick[w]
      BY <1>10, <2>2 DEF RecordPrecheck, Goto, TypeOK
    <3>2. StepsLeft(at'[w], tick'[w]) \in 0..StepsLeft(at[w], tick[w]) - 1
      BY <1>t, <3>1, StepsAre
    <3> QED BY <1>t, <3>1, <3>2, StepLess DEF Staged
  <2> QED BY <1>10, <2>1, <2>2 DEF RecordPrecheck
<1>11. CASE PrecheckRaises(w) \/ ClearRaises(w)
  BY <1>11, FailAttemptAdvances DEF PrecheckRaises, ClearRaises
<1> QED BY <1>1, <1>2, <1>3, <1>4, <1>5, <1>6, <1>7, <1>8, <1>9, <1>10, <1>11 DEF Run

LEMMA RoundStep ==
    ASSUME TypeOK, TypeOK', NEW w \in Worker, Staged(w), [Next]_vars
    PROVE  Staged(w)'
<1>1. CASE Run(w)
  BY <1>1, RoundRun
<1>2. ASSUME NEW v \in Worker \ {w}, Run(v) PROVE Staged(w)'
  <2>1. Untouched(w)
    BY <1>2, OthersUntouched
  <2> QED BY <2>1 DEF Untouched, Staged
<1>3. CASE (\E s \in Source : Act(s)) \/ BatchApprove \/ UNCHANGED vars
  <2>1. Untouched(w)
    BY <1>3, DeskLeaves
  <2> QED BY <2>1 DEF Untouched, Staged
<1> QED BY <1>1, <1>2, <1>3 DEF Next

(* Every step of a worker within a tick leaves fewer stages, fewer sources *)
(* of the stage, or fewer steps with the source at hand: a tick ends after *)
(* as many steps, whatever the other workers and the desk do meanwhile.    *)
THEOREM TicksAdvance == Spec => RoundsAdvance
<1> DEFINE Inv == TypeOK /\ \A w \in Worker : Staged(w)
<1>1. Inv /\ [Next]_vars =>
        [\A w \in Worker :
           Run(w) /\ at[w] # "asleep" /\ at'[w] # "asleep" =>
               \/ StagesLeft(at'[w], tick'[w]) < StagesLeft(at[w], tick[w])
               \/ /\ StagesLeft(at'[w], tick'[w]) = StagesLeft(at[w], tick[w])
                  /\ tick'[w].todo \subseteq tick[w].todo
                  /\ \/ tick'[w].todo # tick[w].todo
                     \/ StepsLeft(at'[w], tick'[w]) \in 0..StepsLeft(at[w], tick[w]) - 1]_vars
  BY TypeStep, RoundRun DEF Fewer
<1>2. Init => Inv
  BY TypeInit, RoundInit
<1>3. Inv /\ [Next]_vars => Inv'
  BY TypeStep, RoundStep
<1> QED BY <1>1, <1>2, <1>3, PTL DEF Spec, RoundsAdvance
=============================================================================
