# A TLA+ development of the procurement platform

The platform crawls public procurement portals, keeps their bids in MySQL (SQLite in
development), matches them with the alerts of its users, and sends what matched by mail.
This directory holds TLA+ modules of the parts of it in which several processes, timers or
callbacks meet in the database, the TLC configurations that check them on small instances,
and proofs, checked by TLAPS, that what matters most holds for every instance.

Run everything from this directory: `tlc -workers 2 -config MCCrawlLease_safety.cfg MCCrawlLease`
for a model, `tlapm CrawlLease_proofs.tla` for a proof. PROJECT.json lists the components, the
runs, for every definition the lines of code it stands for, the hazards and the theorems.
Paths below are relative to `src/frontend/src/server/` unless they start with `src/`.

## 1. The system

    crawler worker (tick) ──► orchestrator ──► crawl lease (crawler_locks)
        │    │                    │  ▲ heartbeat
        │    │                    ├──► Python crawler (src/crawler) ─► payload
        │    │                    ├──► import: quality gate, merge, delisting ──► bids
        │    │                    └──► alert matching ──► notification outbox
        │    └──► precheck queue, platform budget, attachment repair
        └──► lifecycle sweep ──────────────────────────────────────────────► bids
    admin console ──► corrections, approvals ──────────────────────────────► bids, sources
    notification worker ──► dunning ──► notification outbox ──► mail provider ──► webhooks
    event worker ──► event outbox          billing webhooks, reconciliation ──► subscriptions

Nothing is shared in memory between processes. They meet in rows of the database; the only
state inside a process that matters is what a function read before an `await` and uses after it.

### Components

**Crawl lease** (`crawler/lock-repository.ts`, `crawler/persistence-lease.ts`). State: one row of
`crawler_locks` per source, with an owner and an expiry. Operations: take (upsert, then SELECT),
renew (conditional UPDATE, then SELECT when no row is reported changed), release (DELETE if own),
check (inside the import, at last with the row locked). Used by the orchestrator and, on rows of
its own, by attachment repair. Hard: the clock is read before the statement that uses it; a lease
expires while its owner works on. Correct when: nobody takes a lease in force; a lost lease is
not revived; nothing is stored under a lease that was lost.

**Crawl orchestration** (`crawler/orchestrator.ts`, `crawler/crawl-task-persistence.ts`). State:
the flow of an attempt, its heartbeat timer, the pending renewal, the abort signal, the result.
Operations: one attempt from governance to release; a batch over sources. Hard: timer, crawl and
main flow share one pending renewal; a failure is logged through the pool from inside the import.
Correct when: success is announced only for what is stored; every attempt ends and its lease with
it or after it.

**Import** (`crawler/mysql-json-importer.ts`, `crawler/bid-intake.ts`, `crawler/lifecycle.ts`,
`crawler/persistence-merge.ts`) with its **quality gate** (`crawler/data-quality.ts`). State: the
rows of `bids`, one transaction. Operations: accept or quarantine each row, merge it into the bid
it is, delist open bids a complete walk no longer lists, log, check the lease, commit. Hard: other
imports of the source, the sweep and corrections change the same rows between its reads, and a
backfill stores whole rows it has read long before. Correct
when: a close never undoes an award, a bid is delisted only on proof, an older crawl is never stored
over a newer one, and a backfill of details brings no news of a bid's status.

**Lifecycle sweep** (`bids/lifecycle-sweep.ts`), run by every tick of the worker. State: a cursor
and a page of open bids. Operations: read a page without locks; re-read the expired bids of it
with locks, skipping locked ones; close them; commit. Hard: the page is stale, and what is skipped
must be found again. Correct when: nothing is closed on a stale deadline and every expired bid is
closed in the end.

**Corrections** (`admin/bid-qa-repository.ts`). One UPDATE of a bid, its deadline among the
columns. Hard: it shares no protocol with the other two writers of the deadline.

**Notification outbox** (`notifications/outbox-repository.ts`, `notifications/delivery.ts`,
`notifications/retrying-provider.ts`, `notifications/delivery-events.ts`), fed by **alert
digests** (`notifications/service.ts`) and **dunning** (`billing/dunning.ts`), worked off by the
**notification worker** and by an admin route. State: the rows of `notification_outbox`, the
digest history, the alert's last notification, a deliverer's page. Operations: enqueue under a
dedupe key, deliver a page, record the outcome, note a provider's event. Hard: no row is claimed
while it is sent; the outcome takes several statements; providers report later. Correct when:
nothing claims a mail that was not accepted, one caller sends a new digest, attempts are bounded,
every row is settled in the end.

**Worker tick, platform budget, precheck queue, source health and approval**
(`crawler/worker-tick.ts`, `crawler/configured-runner.ts`, `crawler/platform-budget.ts`,
`crawler/platform-deferral.ts`, `crawler/precheck-queue-runner.ts`,
`crawler/source-health-repository.ts`, `admin/source-precheck.ts`, `admin/precheck-queue.ts`,
`admin/ledgered-approval.ts`, `admin/data-sources-repository.ts`). State: the row of a source
(address, approval and when it was reviewed, failures and when the last one was, the last precheck
with its time and address, when one was requested); per tick a budget and a timeline, per process
the pauses of platforms and the streaks of failed prechecks. Operations: list, precheck, backfill,
sleep; reserve, settle, pause; request, record, clear; judge a source by its last crawl; hold,
annotate, edit, approve. Hard: three stages share one budget; a request arrives during the precheck
that answers the one before; failures are dated to the beginning of the tick; a batch approves by a
snapshot. Correct when: a platform that refused is left alone, its budget is accounted for, no
request is lost, a person's hold is not taken for a demotion, and an approval has evidence.

**Attachment repair** (`attachments/repair-service.ts`, `attachments/lease.ts`). State: the
attachment rows, the lease of the source, the candidates read before it. Hard: candidates are
written back after the lease is released; renewals that fail are swallowed. Correct when: an
archived attachment stays archived and one portal is visited by one worker.

**Workspaces, invitations, accounts** (`account/mysql-workspace.ts`, `account/mysql-lifecycle.ts`).
State: users (address, disabled), memberships (status, role), the stamps of invitations. Operations:
invite, accept, resend, revoke; change a role, disable, restore, remove, transfer; delete an
account. Hard: every check and the writes it guards are separate statements. Correct when: the
workspace keeps an owner, seats keep to the tier, and whoever has left stays out.

**Subscriptions** (`billing/mysql-subscriptions.ts`, the override in `admin/users-repository.ts`).
State: the row of a customer, the tier of the user and of the workspace, an invoice, a checkout,
the events recorded. Operations: apply an event, cancel, reconcile, override. Hard: events arrive
twice, at once, late; the tier is written in three places; reconciliation works on a snapshot; a
cancellation waits for the provider with the row in hand. Correct when: an event takes effect once,
the copies agree, and what has ended is revived by the provider only.

**Event log and event outbox** (`events/event-log.ts`). State: events and their deliveries. Hard:
two statements for one fact; delivery without a claim. Correct when: an event that is logged is
delivered, and a delivery is not undone.

The rest (authentication, per-user records, scoring and read models, API routes and pages, the
Python spiders, the downloader sidecar, reports and backups) is single statements, pure functions,
or I/O without shared mutable state; PROJECT.json has a line on each.

### What is hard to test here

The hazards in PROJECT.json name each at its line. Most are one of four shapes: a value read before
an `await` and used after it; two statements that should be one; an outcome recorded in more than
one place; a lease or a page that was valid when it was read.

## 2. The modules

| module | models | composed with |
|---|---|---|
| `FencedStore` | abstract: a store written only under the latest token | implemented by `CrawlLease` |
| `CrawlLease` | lease, heartbeat, attempt, fenced import, pool | |
| `CrawlLease_proofs` | its theorems | `CrawlLease` |
| `NotificationOutbox` | producers, outbox, deliverers, provider, webhooks | |
| `NotificationOutbox_proofs` | its theorems | `NotificationOutbox` |
| `BidRules` | merge, delisting and deadline rules as operators | used by the next two |
| `BidRegister` | abstract: a table of bids changed by whole transactions | implemented by `BidLifecycle` |
| `BidLifecycle` | imports, sweeps, corrections: locks, drafts, stale pages | `BidRules` |
| `BidLifecycle_proofs` | its theorems | `BidLifecycle` |
| `Workspace` | members, invitations, ownership, deletion of accounts | |
| `Workspace_proofs` | its theorems | `Workspace` |
| `Subscription` | provider events, tiers, cancellation, reconciliation | |
| `Subscription_proofs` | its theorems | `Subscription` |
| `CrawlTick` | ticks of workers, budget, pauses, prechecks, health; the desk | around `CrawlLease`, in words |
| `CrawlTick_proofs` | its theorems | `CrawlTick` |
| `MC*` | model values and symmetry for TLC | one per component |

A definition `D_Bug` just before a definition `D` is a broken variant of it: the mutants of
PROJECT.json put it in the place of `D` and expect a property to fail. Nothing else uses it.

The runtime that is modelled is MySQL's, in which every statement is a step that others come
between. The SQLite runtime runs the same statements with fewer of them interleaved (an import or a
page of a sweep is synchronous there), so its behaviours are among those of the model. A statement
is one step; a locking read of several rows is one step too (the rows it waits for must all be
free).

### CrawlLease

One source, several attempts. `lock` is the row; `pc` the line the main flow of an attempt is at;
`beat` and `beatAt` the promise `renewing` and the clock its statement carries; `aborted` the
signal; `logs` what it wrote to `crawler_logs`; `stored` the attempt whose crawl is in `bids`.
`taken` and `epoch` are history: they number the takings of the lease, and are the fencing tokens
the code does not need because it compares owners. Actions follow the code in order: `Start`,
`AcquireStatement`, `ConfirmAcquired`; `Heartbeat`, `RenewStatement`, `RenewReread`, `RenewFails`;
`CrawlReturns`, `BeginImport`, `FinalCheck`, `Commit`, `ImportFails`, `RollBack`, `LogFailure`;
`RunnerReturned`, `Match`, `Notify`; `AwaitRenewal`, `Release`; and `Crash` anywhere.

Three things are easily missed. The clock of an acquisition or renewal is read before the
statement is sent, so it may be old when the statement runs. `FinalCheck` locks the row until the
commit, so an import that has passed it cannot lose the lease any more even if the lease expires.
The answer of a COMMIT may be lost: the crawl is stored, and the importer reports a failure.

`FencedStore` says what all this is for: a lease is granted with an increasing token, withdrawn,
and a store accepts a crawl only from the holder of the latest token.

### NotificationOutbox

A row per dedupe key (`id`, `status`, `attempts`, `sentAt`, `lastError`), the provider's side
(`accepted`), what is written elsewhere (`digests`, `notified`), and the place of every producer
and deliverer. Producers: `Find`, `Insert`, `ReadBack`, `Skip`. Both: `Send`, `MarkSent`,
`MarkFailed`, `DigestSent`, `DigestFailed`. Producers only: `Stamp`. Deliverers only: `ReadPage`,
`NextRow`, `CatchMark`, `CatchDigest`, `Crash`. The provider: `ProviderEvent`. A statement that
throws may have been executed. A deliverer's catch block records a failure; a producer has none.

### BidRules, BidRegister, BidLifecycle

`BidRules` holds the three columns the lifecycle is made of (status, deadline, reason of the
close) and the operators that change them; a deadline is the instant from which a bid counts as
expired. `BidLifecycle` adds what makes it hard. `bids` are the committed rows, `draft` what the
holder of a row lock has written, `holder` who has it locked. An import is `Begin` for a crawl of a
list, or `BeginBackfill` and `EndBackfill` for a backfill of details; then one `Accept` or `Quarantine`
per row in any order, `Delist` when the crawl proves that it may, and `Commit` with
the lease checked, or `Rollback`. A sweep is `StartSweep`, `ReadPage` from committed rows without
locks, `LockPage`, which skips held rows and judges the others again, `CommitPage`, or `FailSweep`.
`Correct` is one statement.

A backfill reads bids of its source, fetches their pages, and puts the rows as read through the same
import, the stored payload with the reason of a close included (`crawler/detail-history.ts:52`). No
other crawl's row carries a reason: a list crawl takes only the details from what was stored.
`BeginBackfill` reads all bids of the source at once, which stands for any candidates among them, as
`Accept` may leave any out. A row whose read is older than a sweep is merged all the same.

`BidRegister` is the table with all of that left out: an import, a sweep or a correction happens at
once, on the bids as they are. That the one implements the other says that locks, re-reads and
drafts hide the interleaving, which is the whole point of them.

### Workspace

One workspace. A call is a record: the operation, its actor and target, the statement it is at.
`Steps` lists the statements of every operation in the order the code sends them, and each is an
action: those that check (`RequireOwner`, `ReadMember`, `CountOwners`, `CountSeats`, `ReadPending`,
...), that write accounts (`InsertUser`, `EnableUser`, `SuspendUser`, `Erase`, ...), invitations
(`InsertInvitation`, `RotateToken`, `StampRevoked`, `StampAccepted`) and memberships
(`InsertMember`, `Activate`, `Suspend`, `Restore`, `SetRole`, `Demote`, `Promote`, `DeleteMember`).
Only `Anonymize`, the end of a deletion, is a transaction in the code and so one step. A call may
die before any statement. `Init` is any workspace between calls.

### Subscription

One customer. `row`, `userTier` and `orgTier` are the three places that know the tier. A call is the
operation, its statement, and `writes`, the row it is going to write. `Send` is the provider, which
says what it likes about a subscription that exists; `Deliver` hands an event to a call, as often as
the provider pleases, and `Lookup` to `RecordEvent` and `CompleteSession` apply it. `RequestCancel`,
`ScheduleCancel` and `MarkCancel` are a cancellation, `Reconcile` and `Transition` a reconciliation,
`Override` an administrator. `WriteUser` and `WriteWorkspace` are shared by all that set a tier.

### CrawlTick

The sources of one platform that has a budget. A worker is at a step `at`, with a source `cur`;
`tick` is what a tick knows, `purse` its budget, `paused` and `retry` the registries of the process,
which a `Restart` loses. The stages follow each other: `StartTick`, `ListDue`, `ListQueue`,
`StartBackfill`, `Sleep`. A source of the stage is skipped or taken (`Skip`, `TakeCrawl`,
`TakePrecheck`). A crawl is one or more of `Attempt`, or `NotContacted`, and then `Health`, or
`HealthLost` where the write fails; what happens inside an attempt is the subject of `CrawlLease`,
of which this module takes only the outcomes. A precheck is `Precheck`, `RecordPrecheck`, `Clear`,
with a way out wherever it may throw. The desk: `Request`, `Decide`, `Note`, `Edit`, `Triage`,
and `BatchRead` before `BatchApprove`. `Triage` is an edit of the columns of live health, which are
those of the precheck: it puts a verdict, any date or the present one, and other notes in their place
and fetches nothing. Every instant written down is fresh, so two events never share one.

## 3. The runs

| run | question | bounds | distinct states |
|---|---|---|---|
| `lease_safety` | is the import fenced, and is the lease the abstract one | 2 attempts, Ttl 2, clock 3 (+2), pool 2 | 2,533,088 |
| `lease_liveness` | does every attempt end, with one connection in the pool | 2 attempts, Ttl 1, clock 1 (+1), pool 1 | 307,510 |
| `outbox_safety` | is every claim true, are attempts bounded | 1 digest, 2 producers, 2 deliverers, 2 attempts, page 2, 1 crash | 175,578 |
| `outbox_liveness` | is every row settled | 1 digest and 1 reminder, 2 producers, 1 deliverer, page 1, 1 crash | 453,562 |
| `bids_safety` | do transactions act as if serial, and rightly | 1 bid and 2 sources, 3 importers (2 and 1), 1 sweeper, 3 imports, 1 failure, page 1 | 1,729,014 |
| `bids_liveness` | is every expired bid closed, does every sweep end | 2 bids of 1 source, 1 importer, 1 sweeper, 2 imports, 1 failure, page 1 | 673,304 |
| `workspace_safety` | is an owner left, are seats kept, do leavers stay out | 3 people, 2 seats, 2 calls, 2 requests | 181,901 |
| `billing_safety` | do the tiers agree, are events applied once, what revives a free account | 2 calls, 2 events of 4 kinds, 1 period, clock 1, 1 other request, 1 crash | 3,905,374 |
| `worker_tick` | budget, pauses, requests, holds, evidence | 2 workers, 1 source, 2 addresses, allowance 2, a precheck costs 2, 2 tries, 2 prechecks, threshold 2, clock 4, 1 fault | 1,885,949 |
| `outbox_outcomes` | one outcome per attempt? | 1 key, 1 producer, 1 deliverer | violated |
| `outbox_bounces` | bounces not retried? | the same, with fairness | violated |
| `bids_corrections` | closed for a deadline that passed? | 1 bid, 1 importer, deadlines 1 and 2 | violated |

What each property says is in the comment above it. In short:

- `lease_safety`: `NoStaleCommit` and `ImplementsFencedStore` (a slow crawl is never stored over a
  newer one), `LatestHolder`, `LiveLeaseIsRespected`, `ExpiredStaysExpired` (the row),
  `AnnouncedIsStored` (alerts go out only for a committed import), `LockedOutHoldsNothing` (the
  SELECT after the upsert tells the truth about it), `EndedIsSilent` (a renewal still in flight
  outlives no attempt).
- `outbox_safety`: `SentWasAccepted` over five places that claim a mail; `OneCreatorSends`;
  `AttemptsBounded`, whose bound is not the configured limit but the limit plus two per deliverer,
  since a page is read before its rows are counted up and a delivery may count twice. The code
  reaches that bound.
- `bids_safety`: the refinement; `AwardedNeverCloses`, `DeadlineClosesWereDue`,
  `OnlyClosedHaveReasons` on the table; `DelistedWasUnlisted` on the evidence for a delisting;
  `CrawlsStoredInOrder` across takeovers of the lease; `BackfillsBringNoNews` between the read of a
  backfill and its commit.
- `workspace_safety`: `KeepsAnOwner` names the three ways in which the code does lose the last
  owner, and says that there is no other; `SeatsBounded` that concurrent invitations exceed the tier
  by less than their number; `LeftForGood` and `ErasedAreOut` that nothing under way brings a member
  back.
- `billing_safety`: `TiersAgree` between the three places, except after overlapping or dying
  writers; `AppliedOnce`, except for deliveries that overlap or die; `OnlyProviderRevives` over every
  step of a cancellation, a reconciliation and an override.
- `worker_tick`: `PausedIsLeftAlone` across stages, retries and ticks; `BudgetAccounted` across every
  way a reservation ends; `RequestsAnswered` across requests made and answered at once;
  `HoldsAreTold` between people and failing crawls; `ApprovalBacked` from the fetch to the approval,
  with what a triage does to the evidence in between.
- `lease_liveness`: `AttemptsEnd` on a pool of one connection.
- `bids_liveness`: `SweepsCountDown` says why a sweep ends, `ExpiredCloses` that sweeps reach all.
- the two liveness properties of work lists, `Settles` and `ExpiredCloses`, have a page shorter
  than the backlog, so that a row that is always first could starve the next.

Why the bounds are enough. Two attempts are an owner and whoever takes over; with clock 3 and Ttl 2
a lease is taken, expires, is taken again, and its first owner still acts after that, with every
renewal one tick stale. With a pool of one connection (liveness) whoever waits for a second one
while it holds the first waits for good; with more it never waits, which is why safety takes two.
Two producers are a creator and a duplicate, two deliverers an overlap; two attempts allow failure,
retry and exhaustion; one crash is one loss of a page. For bids, two imports of one source and one
of another give conflict, takeover and strangers, and three of them let a backfill read what one import
stored and overlap with the next. Safety takes one bid, since rows meet only in the proof of a
delisting, where a quarantined row of any bid counts; liveness takes two bids and a page of one, so
that the cursor has something to step over. Deadline 1 with clock 1 lets it pass during any step. In the
workspace two calls are the two that overlap, three people an actor, a target and an owner who is
neither, and two requests on any initial workspace are an operation and what it races with. Two
deliveries, a third call of another kind after one of them, and one death give a lost, a doubled and
an interrupted event, and the period ends during any of it. Two workers on one source race with the
desk and with each other (another source adds nothing but turns at the same budget, which retries
and backfill of one source take as well); four instants are a request, a tick, a decision and
another; a precheck takes the whole allowance, and overspends it when its page is gone, and a crawl takes
a part. A third actor in any role would wait for, skip or overwrite like the second. Where this is an
argument and not a certainty, the theorems below replace it: they have no bounds on actors.

Attempts, producers, deliverers, the two importers of one source, calls, people, events, workers
and addresses are interchangeable (no definition chooses among them, and rows are compared by order
of keys only), so permuting them is a
sound symmetry; liveness runs use none.

Deadlock is not checked where the system stops: an attempt is made once and the clock of
`CrawlLease` is bounded, and an outbox whose calls have returned and whose crash is spent may have
nothing left to do but what it did; workspaces and subscriptions are served until requests and the
clock are spent, and ticks need fresh instants. A sweep can always start, so the bids runs check it.

### Fairness

- `CrawlLease`: a crawl ends, since the process has a timeout and is killed; a statement is
  answered, possibly with an error; a resolved promise is resumed. Nothing is assumed of time, of
  starts, of crashes, or of the heartbeat timer.
- `NotificationOutbox`: deliverers work. The worker loops, and is restarted when it dies. Nothing is
  assumed of producers, which may die anywhere, or of events.
- `BidLifecycle`: sweeps work, since every tick of the worker sweeps and an error only ends that
  tick's sweep; transactions end, by commit, error or the server's timeouts. Imports and failing
  sweeps are bounded (`MaxImports`, `MaxFailures`): a bid that an import locks again before every
  re-read would be skipped for ever, and nothing in the code excludes that.

- `Workspace`, `Subscription`, `CrawlTick`: none, and no liveness. Requests come when people make
  them; reconciliation runs when an administrator asks for it, so that nothing makes an ended trial
  end; and a queued precheck may be held up for good by a platform that keeps refusing.

### Where code and documents disagree

1. **Two outcomes of one delivery** (`outbox_outcomes`). `notifications/delivery.ts` marks a row
   sent, then writes the digest history, inside one `try`. When the second statement fails, the
   `catch` marks the row failed: a second outcome, the attempt counted twice, an accepted mail sent
   again. A comment of `retrying-provider.ts` promises exactly one outcome per attempt.
2. **Bounces are retried** (`outbox_bounces`). A bounce sets the row's status to failed and leaves
   the count of attempts alone; the deliverers take every failed row below the limit. A comment of
   `outbox-repository.ts` and the runbook say that an event is not a retryable attempt.
3. **A close that lost its ground** (`bids_corrections`). Correcting the deadline of a closed bid
   leaves it closed for a deadline that has not passed. The integrity document takes that state as
   proof that a writer closed a bid early; none did.

### What else the models show

Observations made while modelling, which the properties take into account instead of contradicting.

- *Workspace.* Two changes of members at once, a transfer that dies between its two updates (MySQL
  demotes first; SQLite promotes first), and the deletion of the account of the only active member
  while invitations are open each leave a workspace without an owner. Restoring a member does not
  look at seats, and a change to a smaller tier leaves the seats taken above its limit. Removing an
  invited or disabled member leaves an account that cannot sign in, and a disabling that overlaps a
  restoring may leave an active member so.
- *Subscriptions.* Invoices carry no period and no cancellation, and overwrite both with nothing: the
  grace of a failed payment never ends, and a cancellation is forgotten (`mysql-subscriptions.ts:909`).
  The generic webhook takes any status (`src/frontend/src/app/api/billing/webhook/route.ts:28`), and a
  paid invoice whose status is not a known one is written as none: a row that nobody can cancel and no
  reconciliation ends, whatever its tier (`mysql-subscriptions.ts:873`).
  A reconciliation that has read an active row and marks it past due after the provider deleted the
  subscription gives the tier back. A cancellation writes its old status over a newer one. A failed
  payment that arrives late overwrites a paid invoice. A deletion whose writer died before the user
  was written leaves a paid tier that no reconciliation repairs, as it skips free rows.
- *Bids.* A backfill stores the deadline it read, undoing a correction made meanwhile, and by that may
  open a bid again that a sweep closed; the next sweep or crawl judges it anew.
  `BackfillsBringNoNews` and the register allow both.
- *Ticks.* A triage dates the stored precheck anew (`admin/data-sources-repository.ts:1165`). The order
  that `precheck-queue.ts:80` describes, in which a later failure or decision supersedes the evidence,
  does not hold after it: a page fetched before them counts again, and a batch may approve on it,
  though nothing was fetched since. `ApprovalBacked` promises of a triaged source only that a page was
  asked for at its address (`triaged`). Failures are dated to the beginning of the tick (`configured-runner.ts:235`). A crawl that
  fails after a decision made during its tick demotes the source with a failure older than the
  decision, and the demotion reads as a person's hold; so does one followed by an edited note. The
  comment at `precheck-queue.ts:102`, that a demotion leaves the failure later than the review, does
  not hold then; `HoldsAreTold` sets these sources aside (`raced`). A demotion may also turn a
  person's block into a source that waits for review. A batch approval writes what it found
  approvable whatever happened since. A precheck that was challenged and whose record throws counts
  as an error, and pauses nothing. What a run spends beyond the allowance is forgiven within the tick.

## 4. The proofs

All theorems hold for every value of the constants that meets the named assumptions:
`LeaseAssumption` (the absent owner is no attempt; lease length and pool are positive),
`OutboxAssumption` (keys are numbers, at least one; finitely many deliverers; positive limits),
`DeadlineAssumption` and `LifecycleAssumption` (deadlines are positive instants, bids numbers,
finitely many; importers and sweepers differ; each has a source), `WorkspaceAssumption` (finitely many
people and calls, at least one call and one seat), `SubscriptionAssumption` (what the provider may
say is typed, names user and tier unless it is about an invoice, and is refused without a valid
status where the code refuses it) and `TickAssumption` (costs and
bounds are numbers; allowance, pages, tries and thresholds are positive).

**CrawlLease.** `Inductive` adds to the properties what makes them inductive: clocks read are past;
a row in force carries the latest token (`LatestHolder`, which also says that an import past its
final check owns the row; this is where locking the row matters); before its upsert an attempt owns
nothing and until it is confirmed its row is as it was taken (`FreshAttempts`, for
`LockedOutHoldsNothing`); a result still reported as successful after the import stands for exactly
one log row (`Outcomes`, for `AnnouncedIsStored`). Each kind of step has a lemma. From it follow the
four invariants, the three action properties, and the refinement of `FencedStore`; `StoresInOrder`,
proved once of the abstract store, then gives `StoredNeverOlder`.

`Silent` needs the flow of the attempt: from the end of its crawl on no renewal starts, and after
`AwaitRenewal` none is pending (`Awaited`). `AttemptsEndWhenAnswered` is a liveness theorem: an
attempt has a height (`Height`), its own steps raise it, no step of another lowers it, and at every
height below the last either its crawl or an answer is due. Each of the finitely many climbs is a
lemma, and together they lead from the first statement to the end.

**NotificationOutbox.** Two arguments. `Claims`: whoever is between a success and the last record of
it works on an accepted row, and a producer that sends is the creator of its row. `AttemptsOwed`: the
attempts of a row plus those that deliveries at hand may still add keep to the bound; when a page is
read the row is below the limit, and a page owes each row at most two. Every recording takes one from
what is owed; the sum never grows otherwise. The bound is needed as a sum: neither the count nor what
is owed is bounded by itself in a way that steps preserve.

What `Settles` rests on is proved as three theorems. `DeliveriesCounted`: a deliverer that is done
with a row has counted an attempt of it, or died. `OldestComeFirst`: no row is left out of a page
for a newer one, and only a page that takes all that is due is not full; that a page so defined
exists is proved of any finite or infinite set of keys by least counterexample (`SmallestKey`,
`OldestAreFull`). `DeliveriesEndWhenAnswered`: the delivery of a row ends. That these together
settle every row needs a count over all rows and attempts, which stays with TLC.

**BidLifecycle.** Refinement needs to know what a commit will publish before it does:
`DraftsAreOneEdgeAway` says that the draft of a locked row is a merge, a delisting or a deadline
close of the committed row as it is now, which is true because nobody else can change it.
`LocksAreHeldByTheBusy` says whose locks they are, `JudgedByThePast` that the instants judged by have
come. A backfill merges rows that carry a reason, which is theirs only if the bid has not changed since:
`ReadsHold` says that while an import has the lease of its source only a deadline close can come between
what it read and the row, since other imports need the lease to commit and corrections leave status and
reason alone. So the rows of the register's imports tell the reason of their bid or none, which is part
of what the refinement shows. `OnlyClosedHaveReasons` is inductive with it. `AwardedNeverCloses` and
`DeadlineClosesWereDue` are proved of `BidRegister`, in a few lines each, and carried down by the
refinement. `CrawlsStoredInOrder`, `DelistedWasUnlisted` and
`BackfillsBringNoNews` speak of imports and are proved of `BidLifecycle` itself, the last from
`ReadsHold` and the fact that only the holder's commit publishes (`CommitMoves`, `WhoWrites`).

Of the rules alone: merging the same row twice changes nothing (`MergeIsIdempotent`), a listed row
undoes a close that came before it (`MergeForgetsCloses`), and of two merges the last decides, awards
apart (`LastMergeDecides`); so a crawl repeated after a lost answer, or one that raced with a sweep,
leaves what it would have left alone. Of the sweep: `SweepsEnd`, each step lowers the number of steps
left, with the bids beyond the cursor in it; and `DueBidsReached`, a bid that stays due and unlocked
is closed by every sweep that begins then and ends without an error, because the bid is always ahead
of the cursor or on the page in hand (`Ahead`). What is left to TLC of `ExpiredCloses` is that sweeps
go on, and that a bid is not locked for ever.

**Workspace.** Three arguments. A member is *known* from his invitation on, also after he has left;
what a call has read of its target stays true because the known stay known, and only an account that
was never known can be invited (`AccountsAreKnown`, `TargetsAreKnown`): `LeftForGood` and
`ErasedAreOut` follow. Seats plus the calls that have counted a free one stay below the limit plus
the number of calls, since a call counts only while it is not counted itself (`SeatsBounded` is
inductive with the calls in the sum). And as long as nothing excuses the loss, only one call reduces
owners, its actor is one until it writes, and it has seen another where it needs one
(`OwnersAreWatched`): `KeepsAnOwner`. From the same invariant, `ChangesByOwners`: the right to change
members, checked at the beginning, still holds at the write. `KeptAlone` is what remains when there
is one call: seats keep to the tier, and of the three ways to lose the last owner two.

**Subscription.** `TypeCorrect` needs that calls deliver events that were sent and that cancellations
and reconciliations have a row. `TiersTogether`: while one call writes and no other, the places it
has passed have its tier (`TierInv`). `EventsAppliedOnce`: of an event without excuse one delivery is
at work at most, it is recorded or still being written if it was applied, and not applied if its
delivery is before the row (`OnceInv`). `OnlyTheProviderRevives`: a reconciliation
whose copy is not stale ends the subscription, or is about a paid tier nobody cancelled
(`SnapshotInv`). Each of the three makes exceptions for calls that overlap or die;
`NoExceptionAlone` shows that these are all that goes wrong: with one request at a time and no death
nothing is excused, and the three hold without exception.

**CrawlTick.** What a step of one worker does to another worker is nothing (`OthersUntouched`), so
the properties of workers are proved of one. `BudgetKept`: settling and reserving keep the balance,
and nothing is held between runs. `PausesKept`: a refusal is remembered in the tick, and in the
registry until it ends, and only a worker that does not refrain goes on (`Mindful`). `RequestsKept`:
a worker at a precheck has listed the request before it began, and is past it with an answer, or
after too many failures (`Answering`). `HoldsTold`: the dates of a source say who has set its
status, and a failure about to be recorded of a source that a person holds meanwhile is dated before
the hold (`Told`, `Judging`). `ApprovalsBacked`: what the row says was checked was checked, at that
address, and unless a triage has come since it was found fit there in that tick (`Verified`,
`Looked`); and as long as nobody has written the row it is as the batch has read it (`ReadFit`).
`TicksAdvance`: every step of a tick leaves fewer stages, fewer sources of the stage, or fewer of
the steps the source at hand may take; no request, decision or failure gives it more.

The inductive invariants are theorems and are not repeated in the runs; no more are the consequences
of properties the runs check (`StoredNeverOlder`, `NoExceptionAlone`, `KeptAlone`), and the
arguments for liveness (`EveryDeliveryCounts`, `BacklogInOrder`, `DeliveriesEnd`,
`DueBidsAreReached`, `RoundsAdvance`). TLC has found each of them true on the instance of a run of its
module (with one call and no death for the two theorems about serial requests) before it was proved.

*What the liveness theorems assume.* The weak fairness of a specification is a statement about
ENABLED, which the prover cannot expand. The theorems assume fairness with the guards written out
instead (`EveryoneResponds`, `EveryoneAttends`): if an answer stays due for ever, it comes. The guards
are conditions under which some step of the attempt or deliverer is possible, so that it follows from
the fairness of the code's model; TLC has checked that `FairSpec` implies it on the instances of the
liveness runs, and a reader can check it guard by guard.

*Only model-checked:* `Settles` and `ExpiredCloses`, which need an induction over attempts or bids
under a temporal operator (finite chains can be proved step by step,
chains whose length is a constant cannot, since the prover has no induction over temporal formulas);
`AttemptsEnd` and the rest under `FairSpec` itself; and the three violations. The history variables
that number the takings of the lease are unbounded naturals in the proofs and bounded in TLC by the
number of attempts.

## 5. What is abstracted

- **Lease**: governance is a choice between disabled, blocked and allowed; one source, since rows
  of different sources share nothing; backoff and retries of a failed crawl inside an attempt are
  part of the crawl's duration.
- **Outbox**: providers' retries are part of one send; addresses, texts and times are left out; the
  order of rows is the order of keys.
- **Bids**: a row is what it says of status and deadline, and a crawl has at most one accepted row
  per bid (the gate merges rows that share an identity). A deadline that cannot be read is one no
  clock reaches. Payloads that are not objects, and `is_active`, which is written as
  status = "open" with every status, are left out, and so are the migration at startup that closes
  inactive rows, the purge of demo data and the dry run of a sweep. Absent rows can be locked like
  existing ones, as gap locks do. `Begin` stands for taking the lease and for the end of the crawl:
  `CrawlLease` is about what happens in between, and only a backfill reads bids there. An open list yields open rows; other lists any.
- **Workspace**: one shared workspace with its members; sessions, the tier an ownership carries, the
  mail of an invitation (the outbox has it) and the hashing of passwords are left out; of several
  links for one invitation only the last one opens it. `SeatLimit` is the limit of the largest tier the
  workspace has: each count reads the tier of the moment, so any smaller limit may apply; for a tier
  without a limit nothing is claimed. A deleted
  account has an address made up for it (`anonymous`), to which an invitation can still be resent.
- **Subscription**: one customer, who owns one workspace, one invoice and one checkout. Amounts,
  portal sessions and expired checkouts are left out; only the completion of a checkout names its
  session. The instant of an event plays no part, as in the code. The instance of the run has a
  completed checkout, a deletion, a failed payment and a payment with the status none.
- **CrawlTick**: one platform with a budget. A triage may write any verdict and date, but its notes
  are taken to be a text and not a record of a precheck of another address; an edit of several
  groups of columns at once is modelled as several edits in a row, in any order. Cadences are a
  choice of what is due; spacing is a delay; the limits of 50 prechecks and 500 listed rows, the cap
  on backfilled sources, the thresholds that depend on the kind of failure (one number here), runs
  of verified empty lists, the validity of platform reviews and login requirements are left out, and
  so are the orderly stop and a listing of sources that throws. An approval that cannot be read
  counts as a failed crawl. The database's clock and the processes' are one.
- **Components not modelled** have their reason in PROJECT.json.

## 6. The plan

Done, in this order because the lease fences everything a crawl writes, the outbox is the only part
with effects outside, and the bids are what both are about: `CrawlLease` on `FencedStore`,
`NotificationOutbox`, `BidLifecycle` on `BidRegister`.

Then, because accounts and money are what users notice, `Workspace` and `Subscription`; and
`CrawlTick`, which puts the rounds of the worker around the attempts of `CrawlLease` and brings in the
people who decide what is crawled.

Not modelled yet, most important first.

1. `AttachmentRepair`: two workers, one attachment, the swallowed renewals, the write-back of
   candidates read before the lease. It takes `FencedStore` as the promise of its lease, and shows
   where repair keeps to it and where it does not.
2. `EventOutbox`, with an abstract at-least-once log beside it: the event and its rows in separate
   statements, delivery without a claim.
3. `Dunning`, whose page of invoices composes with the producers of `NotificationOutbox` and the
   invoice of `Subscription`.

To be proved next: that the statements of a call in `Workspace` and `Subscription` come to an end
(a rank, as in `RoundsAdvance`), that every request of an owner, not only those that change members,
is carried out by an owner when it is the only one; and that a subscription whose requests come one
at a time implements a register in which a notice takes effect at once, as `BidLifecycle` implements
`BidRegister`.

And of the modules above: the tier that a transfer of ownership carries, which composes `Workspace`
with `Subscription`; the orderly stop of a worker.

Not planned, since nothing interleaves there or nothing is kept: scoring and read models, documents
generated for one user, pages and routes, spiders, the downloader, reports, snapshots. They are most
of the repository's lines; their functions are pure or single statements, and their tests reach them.
