------------------------------- MODULE CrawlTick -------------------------------
(***************************************************************************)
(* The rounds of the crawler workers over the sources of one platform, and *)
(* the desk where people decide on these sources:                          *)
(*   - a tick crawls what is due, prechecks what was requested, and        *)
(*     backfills (crawler/worker-tick.ts, configured-runner.ts,            *)
(*     precheck-queue-runner.ts), within a budget of requests and pauses   *)
(*     it keeps for the platform (platform-budget.ts,                      *)
(*     platform-deferral.ts), and records what it has seen                 *)
(*     (source-health-repository.ts, admin/source-precheck.ts);            *)
(*   - people request prechecks, hold, block and approve sources           *)
(*     (admin/precheck-queue.ts, ledgered-approval.ts,                     *)
(*     data-sources-repository.ts).                                        *)
(*                                                                         *)
(* Every statement on the table of sources is a step. An instant is never  *)
(* used for two time stamps.                                               *)
(***************************************************************************)
EXTENDS Integers

CONSTANTS
    Worker,        \* the worker processes
    Source,        \* the local sources of the platform
    NoSource,
    Url,           \* the addresses a source may have
    NoUrl,
    Allowance,     \* requests to the platform in a tick
    Pages,         \* requests reserved for a crawl
    PrecheckCost,  \* ... and for a precheck,
    DiscoveryCost, \* which makes that many more if the page is gone
    MaxUse,        \* requests a crawl may make
    MaxTries,      \* attempts of a crawl in a tick
    MaxAttempts,   \* failed prechecks in a row after which one is given up
    Threshold,     \* failures in a row that send a source to review
    Pause,         \* how long a platform that refused is left alone
    MaxAge,        \* how long a precheck counts
    MaxTime,       \* bound: the last instant
    MaxFaults      \* bound: statements that fail, and restarts of workers

ASSUME TickAssumption ==
    /\ NoSource \notin Source /\ NoUrl \notin Url
    /\ Allowance \in Nat \ {0} /\ Pages \in Nat \ {0}
    /\ PrecheckCost \in Nat /\ DiscoveryCost \in Nat /\ MaxUse \in Nat
    /\ MaxTries \in Nat \ {0} /\ MaxAttempts \in Nat \ {0} /\ Threshold \in Nat \ {0}
    /\ Pause \in Nat /\ MaxAge \in Nat /\ MaxTime \in Nat \ {0} /\ MaxFaults \in Nat

VARIABLES
    row,        \* data_sources: the columns of each source
    batch,      \* the source a batch approval has read and found approvable
    now, faults,
    at,         \* the step each worker is at
    cur,        \* the source it works on
    tick,       \* its tick: when it began, the sources left of the stage
    purse,      \* the platform's budget in the tick
    paused,     \* until when the platform is paused, in this worker's registry
    retry,      \* the failed prechecks in a row, and until when they back off
    listed,     \* when the queued prechecks it has read were requested
    pending,    \* the precheck at hand: when it was begun, what it found and where
    hand,       \* history: the sources whose status was set by a person
    raced,      \* history: sources with a failure, or a note, out of order
    found,      \* history: the last tick that found each address fit
    probed,     \* history: the addresses at which a page was ever asked for
    triaged,    \* history: sources whose last precheck a person has overwritten
    stale,      \* history: the row was written since the batch has read it
    shunned     \* history: until when, and in which tick, a worker was refused

desk == <<row, batch, hand, raced, found, probed, triaged, stale>>
vars == <<desk, now, faults, at, cur, tick, purse, paused, retry, listed, pending, shunned>>

Time == 0..MaxTime \* 0 is null
Row == [url : Url, approval : {"needs_review", "approved", "blocked"},
        reviewedAt : Time, failures : Nat, failureAt : Time,
        verdict : {"fit", "needs_fix"}, checkedAt : Time, checkedUrl : Url \union {NoUrl},
        requested : Time] \* whatever does not read as fit needs a fix

(* The steps at which a worker has no source in hand, and the others.      *)
Between == {"asleep", "start", "lists", "queue", "backfill"}
Step == Between \union {"crawl", "health", "precheck", "record", "clear", "giveUp"}

Finding == {"none", "fit", "unfit", "gone", "challenge", "error"}

Tick == [start : Time, stage : {"lists", "queue", "backfill"}, todo : SUBSET Source,
         tries : Nat \ {0}, result : {"none", "success", "failure", "broken"},
         throttled : BOOLEAN, stopped : BOOLEAN]
Purse == [left : Nat, held : Nat, spent : Nat]
Retry == [streak : Nat, until : Nat]
Probe == [kind : Finding, url : Url \union {NoUrl}, at : Time]
Refusal == [until : Nat, inTick : BOOLEAN]

TypeOK ==
    /\ row \in [Source -> Row]
    /\ batch \in Source \union {NoSource}
    /\ now \in Time \ {0} /\ faults \in 0..MaxFaults
    /\ at \in [Worker -> Step]
    /\ cur \in [Worker -> Source \union {NoSource}]
    /\ \A w \in Worker : at[w] \notin Between => cur[w] \in Source
    /\ tick \in [Worker -> Tick]
    /\ purse \in [Worker -> Purse]
    /\ paused \in [Worker -> Nat]
    /\ retry \in [Worker -> [Source -> Retry]]
    /\ listed \in [Worker -> [Source -> Time]]
    /\ pending \in [Worker -> Probe]
    /\ hand \in SUBSET Source /\ raced \in SUBSET Source
    /\ found \in [Source -> [Url -> Time]] /\ probed \in [Source -> SUBSET (Url \union {NoUrl})]
    /\ triaged \in SUBSET Source
    /\ stale \in BOOLEAN
    /\ shunned \in [Worker -> Refusal]

-----------------------------------------------------------------------------
(* A source nobody has looked at, whose precheck was requested, and one    *)
(* that a person has approved.                                             *)
Queued(u) ==
    [url |-> u, approval |-> "needs_review", reviewedAt |-> 0, failures |-> 0, failureAt |-> 0,
     verdict |-> "needs_fix", checkedAt |-> 0, checkedUrl |-> NoUrl, requested |-> 1]

Approved(u) == [Queued(u) EXCEPT !.approval = "approved", !.reviewedAt = 1, !.requested = 0]

NoTick == [start |-> 0, stage |-> "lists", todo |-> {}, tries |-> 1, result |-> "none",
           throttled |-> FALSE, stopped |-> FALSE]
NoRetry == [streak |-> 0, until |-> 0]
NoPurse == [left |-> 0, held |-> 0, spent |-> 0]
NothingFound == [kind |-> "none", url |-> NoUrl, at |-> 0]
NotShunned == [until |-> 0, inTick |-> FALSE]

Init ==
    /\ \E u \in Url : row \in [Source -> {Queued(u), Approved(u)}]
    /\ batch = NoSource /\ now = 1 /\ faults = 0
    /\ at = [w \in Worker |-> "asleep"]
    /\ cur = [w \in Worker |-> NoSource]
    /\ tick = [w \in Worker |-> NoTick]
    /\ purse = [w \in Worker |-> NoPurse]
    /\ paused = [w \in Worker |-> 0]
    /\ retry = [w \in Worker |-> [s \in Source |-> NoRetry]]
    /\ listed = [w \in Worker |-> [s \in Source |-> 0]]
    /\ pending = [w \in Worker |-> NothingFound]
    /\ hand = {s \in Source : row[s].approval = "approved"}
    /\ raced = {} /\ found = [s \in Source |-> [u \in Url |-> 0]] /\ stale = FALSE
    /\ probed = [s \in Source |-> {}] /\ triaged = {}
    /\ shunned = [w \in Worker |-> NotShunned]

(* A statement that writes the row of a source.                            *)
Write(s, r) ==
    /\ row' = [row EXCEPT ![s] = r]
    /\ stale' = (stale \/ batch = s)

(* A fresh time stamp; time passes with these.                             *)
Stamp == now < MaxTime /\ now' = now + 1

Fault == faults < MaxFaults /\ faults' = faults + 1

Goto(w, step) == at' = [at EXCEPT ![w] = step]

Least(a, b) == IF a <= b THEN a ELSE b
Largest(a, b) == IF a <= b THEN b ELSE a

-----------------------------------------------------------------------------
(* The budget of a tick. What was spent is history.                        *)

Needed(cost) == Least(cost, Allowance)
Affords(p, cost) == Needed(cost) <= p.left
Reserve(p, cost) == [p EXCEPT !.left = @ - Needed(cost), !.held = Needed(cost)]

Settle_Unclamped(p, actual) ==
    [left |-> p.left + p.held - actual, held |-> 0, spent |-> p.spent + actual]
Settle(p, actual) ==
    [left |-> Largest(0, p.left + p.held - actual), held |-> 0, spent |-> p.spent + actual]

-----------------------------------------------------------------------------
(* A tick, and what a worker starts in it.                                 *)

Crawlable == {s \in Source : row[s].approval = "approved"}

StartTick(w) ==
    /\ at[w] = "asleep" /\ Stamp
    /\ tick' = [tick EXCEPT ![w] = [NoTick EXCEPT !.start = now + 1]]
    /\ purse' = [purse EXCEPT ![w].left = Allowance]
    /\ Goto(w, "start")
    /\ UNCHANGED <<desk, faults, cur, paused, retry, listed, pending, shunned>>

(* What is due depends on cadences; of the rest it is read once.           *)
ListDue(w) ==
    \E due \in SUBSET Crawlable :
        /\ at[w] = "start"
        /\ tick' = [tick EXCEPT ![w].todo = due]
        /\ Goto(w, "lists")
        /\ UNCHANGED <<desk, now, faults, cur, purse, paused, retry, listed, pending, shunned>>

(* The queued prechecks; if they cannot be read, there are none.           *)
ListQueue(w) ==
    \E todo \in {{s \in Source : row[s].requested # 0}, {}} :
        /\ at[w] = "lists" /\ tick[w].todo = {}
        /\ IF \A s \in Source : row[s].requested # 0 => s \in todo THEN UNCHANGED faults ELSE Fault
        /\ listed' = [listed EXCEPT ![w] = [s \in Source |-> IF s \in todo THEN row[s].requested ELSE 0]]
        /\ tick' = [tick EXCEPT ![w].todo = todo, ![w].stage = "queue"]
        /\ Goto(w, "queue")
        /\ UNCHANGED <<desk, now, cur, purse, paused, retry, pending, shunned>>

(* The sources with details to fetch.                                      *)
StartBackfill(w) ==
    \E todo \in SUBSET Crawlable :
        /\ at[w] = "queue" /\ tick[w].todo = {}
        /\ tick' = [tick EXCEPT ![w].todo = todo, ![w].stage = "backfill", ![w].stopped = FALSE]
        /\ listed' = [listed EXCEPT ![w] = [s \in Source |-> 0]]
        /\ Goto(w, "backfill")
        /\ UNCHANGED <<desk, now, faults, cur, purse, paused, retry, pending, shunned>>

EndTick(w) ==
    /\ tick' = [tick EXCEPT ![w] = NoTick]
    /\ purse' = [purse EXCEPT ![w] = NoPurse]
    /\ Goto(w, "asleep")

Sleep(w) ==
    /\ at[w] = "backfill" /\ tick[w].todo = {}
    /\ EndTick(w)
    /\ shunned' = [shunned EXCEPT ![w].inTick = FALSE]
    /\ UNCHANGED <<desk, now, faults, cur, paused, retry, listed, pending>>

(* What a process knew of the platform and of failed prechecks is lost.    *)
Restart(w) ==
    /\ at[w] # "asleep" /\ Fault
    /\ EndTick(w)
    /\ cur' = [cur EXCEPT ![w] = NoSource]
    /\ paused' = [paused EXCEPT ![w] = 0]
    /\ retry' = [retry EXCEPT ![w] = [s \in Source |-> NoRetry]]
    /\ listed' = [listed EXCEPT ![w] = [s \in Source |-> 0]]
    /\ pending' = [pending EXCEPT ![w] = NothingFound]
    /\ shunned' = [shunned EXCEPT ![w] = NotShunned]
    /\ UNCHANGED <<desk, now>>

(* The platform refused in this tick, or is paused since an earlier one.   *)
Refrains(w) == tick[w].throttled \/ paused[w] > now

AdmitsCrawl(w) == ~Refrains(w) /\ Affords(purse[w], Pages)

AdmitsPrecheck(w, s) ==
    /\ ~Refrains(w) /\ ~tick[w].stopped
    /\ retry[w][s].until <= now
    /\ Affords(purse[w], PrecheckCost)

Takes(w, s) ==
    /\ s \in tick[w].todo
    /\ \A t \in tick[w].todo : listed[w][s] <= listed[w][t] \* the oldest request first
    /\ tick' = [tick EXCEPT ![w].todo = @ \ {s}]

(* A source that is not admitted waits for another tick.                   *)
Skip(w, s) ==
    /\ \/ at[w] \in {"lists", "backfill"} /\ ~AdmitsCrawl(w)
       \/ at[w] = "queue" /\ ~AdmitsPrecheck(w, s)
    /\ Takes(w, s)
    /\ UNCHANGED <<desk, now, faults, at, cur, purse, paused, retry, listed, pending, shunned>>

TakeCrawl(w, s) ==
    /\ at[w] \in {"lists", "backfill"} /\ AdmitsCrawl(w)
    /\ Takes(w, s)
    /\ cur' = [cur EXCEPT ![w] = s]
    /\ purse' = [purse EXCEPT ![w] = Reserve(@, Pages)]
    /\ Goto(w, "crawl")
    /\ UNCHANGED <<desk, now, faults, paused, retry, listed, pending, shunned>>

TakePrecheck(w, s) ==
    /\ at[w] = "queue" /\ AdmitsPrecheck(w, s)
    /\ Takes(w, s)
    /\ cur' = [cur EXCEPT ![w] = s]
    /\ purse' = [purse EXCEPT ![w] = Reserve(@, PrecheckCost)]
    /\ pending' = [pending EXCEPT ![w].at = now]
    /\ Goto(w, "precheck")
    /\ UNCHANGED <<desk, now, faults, paused, retry, listed, shunned>>

Done(w) ==
    /\ cur' = [cur EXCEPT ![w] = NoSource]
    /\ pending' = [pending EXCEPT ![w] = NothingFound]
    /\ Goto(w, tick[w].stage)

(* The platform has refused a request: it is left alone.                   *)
Refuse_ForTheTick(w, refused) ==
    IF refused
    THEN /\ UNCHANGED paused
         /\ shunned' = [shunned EXCEPT ![w] = [until |-> now + Pause, inTick |-> TRUE]]
    ELSE UNCHANGED <<paused, shunned>>
Refuse(w, refused) ==
    IF refused
    THEN /\ paused' = [paused EXCEPT ![w] = Largest(now + Pause, @)]
         /\ shunned' = [shunned EXCEPT ![w] = [until |-> now + Pause, inTick |-> TRUE]]
    ELSE UNCHANGED <<paused, shunned>>

-----------------------------------------------------------------------------
(* One attempt of a crawl: the source's approval is read again, its lease  *)
(* taken, the pages fetched and imported (CrawlLease).                     *)

Outcome == {"success", "transient", "unknown", "refused", "broken", "lost"}

ResultOf(k) ==
    CASE k \in {"transient", "unknown", "refused"} -> "failure"
      [] k = "lost" -> "none"
      [] OTHER -> k

(* Only a transient failure is tried again, and not after the last try.    *)
Reserves_Eager(w, k) == k = "transient" /\ ~Refrains(w)
Reserves(w, k) == k = "transient" /\ tick[w].tries < MaxTries /\ ~Refrains(w)

(* A crawl that does not say how much it used has used what it reserved.   *)
Attempt(w) ==
    \E k \in Outcome, used \in 0..MaxUse \union {purse[w].held} :
        LET settled == Settle(purse[w], used)
            reserves == Reserves(w, k) /\ Affords(settled, Pages)
            again == reserves /\ tick[w].tries < MaxTries
            judged == tick[w].stage = "lists" /\ ResultOf(k) # "none"
        IN
        /\ at[w] = "crawl" /\ row[cur[w]].approval = "approved"
        /\ purse' = [purse EXCEPT ![w] = IF reserves THEN Reserve(settled, Pages) ELSE settled]
        /\ tick' = [tick EXCEPT ![w].tries = IF again THEN @ + 1 ELSE 1,
                                ![w].result = IF judged /\ ~again THEN ResultOf(k) ELSE "none",
                                ![w].throttled = @ \/ k = "refused"]
        /\ Refuse(w, k = "refused")
        /\ IF again THEN UNCHANGED <<at, cur, pending>>
           ELSE IF judged THEN Goto(w, "health") /\ UNCHANGED <<cur, pending>>
           ELSE Done(w)
        /\ UNCHANGED <<desk, now, faults, retry, listed>>

(* Not approved any more, or its lease is taken: nothing was fetched.      *)
NotContacted(w) ==
    /\ at[w] = "crawl"
    /\ purse' = [purse EXCEPT ![w] = Settle(@, 0)]
    /\ tick' = [tick EXCEPT ![w].tries = 1]
    /\ Done(w)
    /\ UNCHANGED <<desk, now, faults, paused, retry, listed, shunned>>

(* What the last attempt says of the source. A failure is dated to the     *)
(* beginning of the tick.                                                  *)
Demotes(r, result) == result = "broken" \/ (result = "failure" /\ r.failures + 1 >= Threshold)

AfterRun_Undated(r, w) ==
    IF tick[w].result = "success" THEN [r EXCEPT !.failures = 0]
    ELSE [r EXCEPT !.failures = @ + 1,
                   !.approval = IF Demotes(r, tick[w].result) THEN "needs_review" ELSE @]
AfterRun(r, w) ==
    IF tick[w].result = "success" THEN [r EXCEPT !.failures = 0]
    ELSE [r EXCEPT !.failures = @ + 1, !.failureAt = tick[w].start,
                   !.approval = IF Demotes(r, tick[w].result) THEN "needs_review" ELSE @]

Health(w) ==
    LET s == cur[w]  result == tick[w].result IN
    /\ at[w] = "health"
    /\ Write(s, AfterRun(row[s], w))
    /\ hand' = IF Demotes(row[s], result) THEN hand \ {s} ELSE hand
    /\ raced' = IF result = "success" THEN raced
                ELSE IF tick[w].start <= row[s].reviewedAt THEN raced \union {s} ELSE raced \ {s}
    /\ tick' = [tick EXCEPT ![w].result = "none"]
    /\ Done(w)
    /\ UNCHANGED <<batch, found, probed, triaged, now, faults, purse, paused, retry, listed, shunned>>

(* A failing write is logged, and forgotten.                               *)
HealthLost(w) ==
    /\ at[w] = "health" /\ Fault
    /\ tick' = [tick EXCEPT ![w].result = "none"]
    /\ Done(w)
    /\ UNCHANGED <<desk, now, purse, paused, retry, listed, shunned>>

-----------------------------------------------------------------------------
(* A precheck reads the source, fetches a page of it, and writes what it   *)
(* found, as of the beginning of the tick.                                 *)

Precheck(w) ==
    \E k \in Finding \ {"none"} :
        /\ at[w] = "precheck"
        /\ pending' = [pending EXCEPT ![w] = [@ EXCEPT !.kind = k, !.url = row[cur[w]].url]]
        /\ Goto(w, "record")
        /\ UNCHANGED <<desk, now, faults, cur, tick, purse, paused, retry, listed, shunned>>

(* The source is tried again later, and after too many times it is given   *)
(* up. Its platform is not asked again in this stage.                      *)
FailAttempt(w, challenged) ==
    LET s == cur[w]  streak == retry[w][s].streak + 1 IN
    /\ Refuse(w, challenged)
    /\ tick' = [tick EXCEPT ![w].throttled = @ \/ challenged, ![w].stopped = TRUE]
    /\ retry' = [retry EXCEPT ![w][s] = [streak |-> streak, until |-> now + Pause]]
    /\ IF streak < MaxAttempts THEN Done(w)
       ELSE Goto(w, "giveUp") /\ UNCHANGED <<cur, pending>>

CheckedUrl_Stored(w) == row[cur[w]].url
CheckedUrl(w) == pending[w].url

RecordPrecheck(w) ==
    LET s == cur[w]  p == pending[w]  fit == p.kind = "fit" IN
    /\ at[w] = "record"
    /\ Write(s, [row[s] EXCEPT !.verdict = IF fit THEN "fit" ELSE "needs_fix",
                               !.checkedAt = tick[w].start, !.checkedUrl = CheckedUrl(w)])
    /\ purse' = [purse EXCEPT ![w] =
                   Settle(@, PrecheckCost + (IF p.kind = "gone" THEN DiscoveryCost ELSE 0))]
    /\ found' = IF fit THEN [found EXCEPT ![s][p.url] = Largest(@, tick[w].start)] ELSE found
    /\ probed' = [probed EXCEPT ![s] = @ \union {p.url}]
    /\ triaged' = triaged \ {s}
    /\ IF p.kind \in {"challenge", "error"} THEN FailAttempt(w, p.kind = "challenge")
       ELSE Goto(w, "clear") /\ UNCHANGED <<cur, tick, paused, retry, pending, shunned>>
    /\ UNCHANGED <<batch, hand, raced, now, faults, listed>>

(* A precheck that throws counts as an error, whatever it had found.       *)
PrecheckRaises(w) ==
    /\ at[w] \in {"precheck", "record"} /\ Fault
    /\ purse' = [purse EXCEPT ![w] = Settle(@, PrecheckCost)]
    /\ FailAttempt(w, FALSE)
    /\ UNCHANGED <<desk, now, listed>>

(* Only the request that was answered is cleared.                          *)
ClearFlag_ById(w) == [row[cur[w]] EXCEPT !.requested = 0]
ClearFlag(w) == [row[cur[w]] EXCEPT !.requested = IF @ = listed[w][cur[w]] THEN 0 ELSE @]

Clear(w) ==
    /\ at[w] \in {"clear", "giveUp"}
    /\ Write(cur[w], ClearFlag(w))
    /\ retry' = [retry EXCEPT ![w][cur[w]] = NoRetry]
    /\ Done(w)
    /\ UNCHANGED <<batch, hand, raced, found, probed, triaged, now, faults, tick, purse, paused,
                   listed, shunned>>

ClearRaises(w) ==
    /\ at[w] = "clear" /\ Fault
    /\ FailAttempt(w, FALSE)
    /\ UNCHANGED <<desk, now, purse, listed>>

(* The request stays, and so does its number of failures.                  *)
GiveUpRaises(w) ==
    /\ at[w] = "giveUp" /\ Fault
    /\ Done(w)
    /\ UNCHANGED <<desk, now, tick, purse, paused, retry, listed, shunned>>

-----------------------------------------------------------------------------
(* The desk.                                                               *)

Desk == <<at, cur, tick, purse, paused, retry, listed, pending, shunned, faults>>

Request(s) ==
    /\ row[s].requested = 0 /\ Stamp
    /\ Write(s, [row[s] EXCEPT !.requested = now + 1])
    /\ UNCHANGED <<batch, hand, raced, found, probed, triaged, Desk>>

(* A person holds, blocks or approves a source on its own form.            *)
Decide(s) ==
    \E a \in {"needs_review", "approved", "blocked"} :
        /\ Stamp
        /\ Write(s, [row[s] EXCEPT !.approval = a, !.reviewedAt = now + 1])
        /\ hand' = hand \union {s} /\ raced' = raced \ {s}
        /\ UNCHANGED <<batch, found, probed, triaged, Desk>>

(* Or edits what else counts as governance: a note, a review status.       *)
Note(s) ==
    /\ Stamp
    /\ Write(s, [row[s] EXCEPT !.reviewedAt = now + 1])
    /\ raced' = raced \union {s}
    /\ UNCHANGED <<batch, hand, found, probed, triaged, Desk>>

Edit(s) ==
    \E u \in Url \ {row[s].url} :
        /\ Stamp
        /\ Write(s, [row[s] EXCEPT !.url = u])
        /\ UNCHANGED <<batch, hand, raced, found, probed, triaged, Desk>>

(* A person triages a source: the columns of its precheck are written over *)
(* with a verdict, with any date or the present one, and the record of     *)
(* what was checked is kept, or gives way to a text.                       *)
Triage(s) ==
    \E verdict \in {"fit", "needs_fix"}, when \in Time, u \in {row[s].checkedUrl, NoUrl} :
        /\ Stamp
        /\ Write(s, [row[s] EXCEPT !.verdict = verdict, !.checkedAt = when, !.checkedUrl = u])
        /\ triaged' = triaged \union {s}
        /\ UNCHANGED <<batch, hand, raced, found, probed, Desk>>

(* The latest precheck says that the source, as it is now, is fit.         *)
Usable(r) ==
    /\ r.verdict = "fit" /\ r.checkedAt # 0 /\ r.checkedUrl = r.url
    /\ r.failureAt <= r.checkedAt /\ r.reviewedAt <= r.checkedAt
    /\ now - r.checkedAt <= MaxAge

IsHeldByPerson(r) ==
    r.approval = "needs_review" /\ r.reviewedAt # 0 /\ r.failureAt <= r.reviewedAt

(* What a batch approval may approve.                                      *)
Approvable(r) ==
    r.approval = "needs_review" /\ ~IsHeldByPerson(r) /\ r.requested = 0 /\ Usable(r)

BatchRead(s) ==
    /\ batch = NoSource /\ Approvable(row[s])
    /\ batch' = s /\ stale' = FALSE
    /\ UNCHANGED <<row, hand, raced, found, probed, triaged, now, Desk>>

(* The write does not look at the row again.                               *)
BatchApprove ==
    /\ batch # NoSource /\ Stamp
    /\ row' = [row EXCEPT ![batch].approval = "approved", ![batch].reviewedAt = now + 1]
    /\ hand' = hand \union {batch} /\ raced' = raced \ {batch}
    /\ batch' = NoSource /\ stale' = FALSE
    /\ UNCHANGED <<found, probed, triaged, Desk>>

-----------------------------------------------------------------------------
Run(w) ==
    \/ StartTick(w) \/ ListDue(w) \/ ListQueue(w) \/ StartBackfill(w) \/ Sleep(w) \/ Restart(w)
    \/ \E s \in Source : Skip(w, s) \/ TakeCrawl(w, s) \/ TakePrecheck(w, s)
    \/ Attempt(w) \/ NotContacted(w) \/ Health(w) \/ HealthLost(w)
    \/ Precheck(w) \/ RecordPrecheck(w) \/ PrecheckRaises(w)
    \/ Clear(w) \/ ClearRaises(w) \/ GiveUpRaises(w)

Act(s) == Request(s) \/ Decide(s) \/ Note(s) \/ Edit(s) \/ Triage(s) \/ BatchRead(s)

Next ==
    \/ \E w \in Worker : Run(w)
    \/ \E s \in Source : Act(s)
    \/ BatchApprove

Spec == Init /\ [][Next]_vars

-----------------------------------------------------------------------------
(* A request is only ever cleared by a worker whose precheck of the source *)
(* was begun after the request was made, and has said something of the     *)
(* source or was the last of too many that failed: a request made while    *)
(* an earlier one is being answered, or answered twice, is not lost        *)
(* (clearPrecheckRequest compares the time of the request).                *)
RequestsAnswered ==
    [][\A s \in Source :
         row[s].requested # 0 /\ row'[s].requested = 0 =>
             \E w \in Worker :
                 /\ cur[w] = s /\ pending[w].at >= row[s].requested
                 /\ \/ pending[w].kind \in {"fit", "unfit", "gone"}
                    \/ retry[w][s].streak >= MaxAttempts]_vars

(* A worker does not contact a platform that has refused it, in the tick   *)
(* of the refusal or before the pause is over, whichever of its stages     *)
(* saw the refusal and whichever comes next. A challenge whose record      *)
(* cannot be written is not seen: it passes for an error.                  *)
PausedIsLeftAlone ==
    \A w \in Worker :
        at[w] \in {"crawl", "precheck"} => shunned[w].until <= now /\ ~shunned[w].inTick

(* In a tick no request is lost from the budget, and none is made up: what *)
(* is left and what is reserved are the allowance less what was spent, and *)
(* nothing once runs have used more than that.                             *)
BudgetAccounted ==
    \A w \in Worker :
        LET p == purse[w] IN
        at[w] # "asleep" => p.left + p.held = Largest(0, Allowance - p.spent)

(* A source that waits for review reads as held by a person exactly when   *)
(* a person had put it there, and not a failing crawl; unless a failure    *)
(* was dated before, or a note edited after, what it came with.            *)
HoldsAreTold ==
    \A s \in Source :
        row[s].approval = "needs_review" =>
            /\ s \in hand => IsHeldByPerson(row[s])
            /\ IsHeldByPerson(row[s]) => s \in hand \union raced

(* A batch approval of a source nobody wrote meanwhile rests on a precheck *)
(* of the present address; and unless a person has written over what that  *)
(* precheck had found, which dates it anew, on a page fetched there and    *)
(* found fit in a tick begun after the last failure and the last decision. *)
ApprovalBacked ==
    [][BatchApprove /\ ~stale =>
         LET r == row[batch]  checked == found[batch][r.url] IN
         /\ r.url \in probed[batch]
         /\ batch \notin triaged =>
                checked # 0 /\ checked >= r.reviewedAt /\ checked >= r.failureAt]_vars

(* What is left of a tick for a worker at a step of it: its stages, and    *)
(* the steps with the source at hand.                                      *)
StagesLeft(step, t) ==
    IF step = "start" THEN 3 ELSE [lists |-> 2, queue |-> 1, backfill |-> 0][t.stage]

StepsLeft(step, t) ==
    CASE step = "crawl" -> 2 + MaxTries - t.tries
      [] step \in Between -> 0
      [] OTHER -> [precheck |-> 5, record |-> 4, clear |-> 3, giveUp |-> 2, health |-> 1][step]

(* A tick does not go round in circles: each step of a worker leaves fewer *)
(* stages, or fewer sources of the stage, or fewer of the steps that the   *)
(* source at hand may take, which are so many and no more. No request,     *)
(* decision or failed statement gives a tick more to do.                   *)
RoundsAdvance ==
    [][\A w \in Worker :
         Run(w) /\ at[w] # "asleep" /\ at'[w] # "asleep" =>
             \/ StagesLeft(at'[w], tick'[w]) < StagesLeft(at[w], tick[w])
             \/ /\ StagesLeft(at'[w], tick'[w]) = StagesLeft(at[w], tick[w])
                /\ tick'[w].todo \subseteq tick[w].todo
                /\ \/ tick'[w].todo # tick[w].todo
                   \/ StepsLeft(at'[w], tick'[w]) \in 0..StepsLeft(at[w], tick[w]) - 1]_vars
=============================================================================
