------------------------- MODULE NotificationOutbox -------------------------
(***************************************************************************)
(* The notification outbox: the calls that enqueue a notification          *)
(* (notifications/service.ts for alert digests, billing/dunning.ts for     *)
(* reminders), the deliverers that work it off (notifications/delivery.ts, *)
(* run by the notification worker and by the admin route) and the provider *)
(* webhooks that report bounces (notifications/outbox-repository.ts).      *)
(*                                                                         *)
(* The modelled runtime is the MySQL one: every statement is a step, and   *)
(* no row is claimed while its mail is being sent.                         *)
(*                                                                         *)
(* A definition D_Bug that stands before a definition D is a broken        *)
(* variant of D, used only to see that a property fails with it.           *)
(***************************************************************************)
EXTENDS Integers, FiniteSets

CONSTANTS
    Key,         \* dedupe keys, numbered in the order created_at, id of their rows
    Digest,      \* the keys of search alert digests; the others are reminders
    Producer,    \* the enqueue calls, each with the random id of its row
    NoProducer,  \* the id of an absent row
    Deliverer,   \* the processes that deliver the outbox
    MaxAttempts, \* a row with that many attempts is no longer delivered
    PageLimit,   \* rows a deliverer reads at once
    MaxCrashes   \* bound: crashes of deliverers

ASSUME OutboxAssumption ==
    /\ Key \subseteq Nat /\ Key # {} /\ Digest \subseteq Key
    /\ NoProducer \notin Producer
    /\ Producer \intersect Deliverer = {}
    /\ IsFiniteSet(Deliverer)
    /\ MaxAttempts \in Nat \ {0} /\ PageLimit \in Nat \ {0} /\ MaxCrashes \in Nat

VARIABLES
    id,        \* the producer whose row each key has
    status,    \* the columns of the row
    attempts,
    sentAt,
    lastError, \* none, the error of a send, or a provider event
    accepted,  \* whether the provider accepted a mail for the key
    digests,   \* the outcomes in search_alert_digest_runs
    notified,  \* whether the alert's last_notified_at was set
    pc,        \* where each producer and each deliverer is
    job,       \* the key it works on
    page,      \* the keys a deliverer has read and not worked on yet
    marks,     \* history: outcomes recorded in the delivery at hand
    crashes

rowVars == <<id, status, attempts, sentAt, lastError>>
logVars == <<digests, notified>>
vars == <<rowVars, accepted, logVars, pc, job, page, marks, crashes>>

Sender == Producer \union Deliverer
Sending == {"sending", "markSent", "digestSent", "stamp", "markFailed",
            "digestFailed", "catchMark", "catchDigest"}
Outcome == {"sent", "failed"}
DigestOutcome == Outcome \union {"skipped"}

TypeOK ==
    /\ id \in [Key -> Producer \union {NoProducer}]
    /\ status \in [Key -> {"absent", "pending", "sent", "failed"}]
    /\ attempts \in [Key -> Nat]
    /\ sentAt \in [Key -> BOOLEAN]
    /\ lastError \in [Key -> {"none", "send", "event"}]
    /\ accepted \in [Key -> BOOLEAN]
    /\ digests \in [Key -> SUBSET DigestOutcome]
    /\ notified \in [Key -> BOOLEAN]
    /\ pc \in [Sender -> Sending \union {"idle", "inserting", "reading", "skipping", "done"}]
    /\ job \in [Sender -> Key]
    /\ page \in [Deliverer -> SUBSET Key]
    /\ marks \in [Sender -> Nat]
    /\ crashes \in 0..MaxCrashes

Init ==
    /\ id = [k \in Key |-> NoProducer]
    /\ status = [k \in Key |-> "absent"]
    /\ attempts = [k \in Key |-> 0]
    /\ sentAt = [k \in Key |-> FALSE]
    /\ lastError = [k \in Key |-> "none"]
    /\ accepted = [k \in Key |-> FALSE]
    /\ digests = [k \in Key |-> {}]
    /\ notified = [k \in Key |-> FALSE]
    /\ pc = [s \in Sender |-> "idle"]
    /\ job = [s \in Sender |-> CHOOSE k \in Key : TRUE]
    /\ page = [d \in Deliverer |-> {}]
    /\ marks = [s \in Sender |-> 0]
    /\ crashes = 0

Goto(s, stage) == pc' = [pc EXCEPT ![s] = stage]

(* A producer's call returns or throws; a deliverer goes on with its page. *)
Finished(s) == Goto(s, IF s \in Producer THEN "done" ELSE "idle")

-----------------------------------------------------------------------------
(* Enqueueing.                                                             *)

(* The call for a digest that another call enqueued notes that it skipped  *)
(* it; that of a reminder just returns.                                    *)
Duplicate(k) == IF k \in Digest THEN "skipping" ELSE "done"

Find(p) ==
    /\ pc[p] = "idle"
    /\ \E k \in Key :
        /\ job' = [job EXCEPT ![p] = k]
        /\ Goto(p, IF status[k] = "absent" THEN "inserting" ELSE Duplicate(k))
    /\ UNCHANGED <<rowVars, accepted, logVars, page, marks, crashes>>

(* INSERT ... ON DUPLICATE KEY UPDATE that changes nothing.                *)
Insert(p) ==
    /\ pc[p] = "inserting"
    /\ IF status[job[p]] = "absent"
       THEN /\ id' = [id EXCEPT ![job[p]] = p]
            /\ status' = [status EXCEPT ![job[p]] = "pending"]
            /\ UNCHANGED <<attempts, sentAt, lastError>>
       ELSE UNCHANGED rowVars
    /\ Goto(p, "reading")
    /\ UNCHANGED <<accepted, logVars, job, page, marks, crashes>>

(* The row is read back: it is this call's if it has this call's id.       *)
Created_Assumed(p) == status[job[p]] # "absent"
Created(p) == id[job[p]] = p

(* A reminder is left to the deliverers, a new digest is sent right away.  *)
ReadBack(p) ==
    /\ pc[p] = "reading"
    /\ Goto(p, IF ~Created(p) THEN Duplicate(job[p])
                ELSE IF job[p] \in Digest THEN "sending" ELSE "done")
    /\ UNCHANGED <<rowVars, accepted, logVars, job, page, marks, crashes>>

Skip(p) ==
    /\ pc[p] = "skipping"
    /\ digests' = [digests EXCEPT ![job[p]] = @ \union {"skipped"}]
    /\ Goto(p, "done")
    /\ UNCHANGED <<rowVars, accepted, notified, job, page, marks, crashes>>

-----------------------------------------------------------------------------
(* Delivery.                                                               *)

Deliverable_Exhausted(k) == status[k] \in {"pending", "failed"}
Deliverable(k) == status[k] \in {"pending", "failed"} /\ attempts[k] < MaxAttempts

Oldest(keys) == {k \in keys : Cardinality({j \in keys : j < k}) < PageLimit}

ReadPage(d) ==
    /\ pc[d] = "idle" /\ page[d] = {}
    /\ page' = [page EXCEPT ![d] = Oldest({k \in Key : Deliverable(k)})]
    /\ UNCHANGED <<rowVars, accepted, logVars, pc, job, marks, crashes>>

(* The rows of a page are worked on in turn, as they were when it was read.*)
NextRow(d) ==
    /\ pc[d] = "idle"
    /\ \E k \in page[d] :
        /\ \A j \in page[d] : k <= j
        /\ job' = [job EXCEPT ![d] = k]
        /\ page' = [page EXCEPT ![d] = @ \ {k}]
    /\ Goto(d, "sending")
    /\ marks' = [marks EXCEPT ![d] = 0]
    /\ UNCHANGED <<rowVars, accepted, logVars, crashes>>

(* The provider accepts the mail and says so, or reports or throws an      *)
(* error, which a producer turns into a report; after a lost answer, or    *)
(* among the retries of one send, it may have accepted one all the same.   *)
SendFailed(s) == IF s \in Producer THEN {"markFailed"} ELSE {"markFailed", "catchMark"}

Send(s) ==
    /\ pc[s] = "sending"
    /\ \/ /\ accepted' = [accepted EXCEPT ![job[s]] = TRUE]
          /\ \E next \in {"markSent"} \union SendFailed(s) : Goto(s, next)
       \/ /\ UNCHANGED accepted
          /\ \E next \in SendFailed(s) : Goto(s, next)
    /\ UNCHANGED <<rowVars, logVars, job, page, marks, crashes>>

(* A deliverer catches an error of the two statements that follow a send   *)
(* and records a failure; a producer's call throws.                        *)
Caught_Uncaught(s) == Goto(s, "done")
Caught(s) == Goto(s, IF s \in Producer THEN "done" ELSE "catchMark")

Record_AlwaysSent(s, outcome) ==
    /\ status' = [status EXCEPT ![job[s]] = "sent"]
    /\ sentAt' = [sentAt EXCEPT ![job[s]] = TRUE]
    /\ lastError' = [lastError EXCEPT ![job[s]] = "none"]
    /\ attempts' = [attempts EXCEPT ![job[s]] = @ + 1]
    /\ marks' = [marks EXCEPT ![s] = @ + 1]
    /\ UNCHANGED id
Record(s, outcome) ==
    /\ status' = [status EXCEPT ![job[s]] = outcome]
    /\ sentAt' = [sentAt EXCEPT ![job[s]] = (outcome = "sent")]
    /\ lastError' = [lastError EXCEPT ![job[s]] =
                        IF outcome = "sent" THEN "none" ELSE "send"]
    /\ attempts' = [attempts EXCEPT ![job[s]] = @ + 1]
    /\ marks' = [marks EXCEPT ![s] = @ + 1]
    /\ UNCHANGED id

MarkSent(s) ==
    /\ pc[s] = "markSent"
    /\ \/ Record(s, "sent") /\ (Goto(s, "digestSent") \/ Caught(s))
       \/ Caught(s) /\ UNCHANGED <<rowVars, marks>>
    /\ UNCHANGED <<accepted, logVars, job, page, crashes>>

MarkFailed(s) ==
    /\ pc[s] = "markFailed"
    /\ \/ Record(s, "failed") /\ (Goto(s, "digestFailed") \/ Caught(s))
       \/ Caught(s) /\ UNCHANGED <<rowVars, marks>>
    /\ UNCHANGED <<accepted, logVars, job, page, crashes>>

(* Only a digest has matched bids, and a row in the digest history.        *)
WriteDigest(s, outcome) ==
    IF job[s] \in Digest
    THEN digests' = [digests EXCEPT ![job[s]] = @ \union {outcome}]
    ELSE UNCHANGED digests

DigestSent(s) ==
    /\ pc[s] = "digestSent"
    /\ \/ /\ WriteDigest(s, "sent")
          /\ IF s \in Producer THEN Goto(s, "stamp") ELSE Finished(s)
       \/ job[s] \in Digest /\ WriteDigest(s, "sent") /\ Caught(s)
       \/ job[s] \in Digest /\ Caught(s) /\ UNCHANGED digests
    /\ UNCHANGED <<rowVars, accepted, notified, job, page, marks, crashes>>

DigestFailed(s) ==
    /\ pc[s] = "digestFailed"
    /\ \/ WriteDigest(s, "failed") /\ Finished(s)
       \/ job[s] \in Digest /\ WriteDigest(s, "failed") /\ Caught(s)
       \/ job[s] \in Digest /\ Caught(s) /\ UNCHANGED digests
    /\ UNCHANGED <<rowVars, accepted, notified, job, page, marks, crashes>>

(* A producer notes the notification in the alert after the digest row.    *)
Stamp(p) ==
    /\ pc[p] = "stamp"
    /\ \/ notified' = [notified EXCEPT ![job[p]] = TRUE]
       \/ UNCHANGED notified
    /\ Goto(p, "done")
    /\ UNCHANGED <<rowVars, accepted, digests, job, page, marks, crashes>>

(* The catch block of a deliverer; an error in it ends the whole page.     *)
CatchMark(d) ==
    /\ pc[d] = "catchMark"
    /\ Record(d, "failed")
    /\ Goto(d, "catchDigest")
    /\ UNCHANGED <<accepted, logVars, job, page, crashes>>

CatchDigest(d) ==
    /\ pc[d] = "catchDigest"
    /\ WriteDigest(d, "failed")
    /\ Finished(d)
    /\ UNCHANGED <<rowVars, accepted, notified, job, page, marks, crashes>>

(* A deliverer dies, or its page ends with an error thrown by a statement  *)
(* of the page's read or of the catch block: the worker is started again.  *)
Crash(d) ==
    /\ crashes < MaxCrashes
    /\ crashes' = crashes + 1
    /\ Goto(d, "idle")
    /\ page' = [page EXCEPT ![d] = {}]
    /\ UNCHANGED <<rowVars, accepted, logVars, job, marks>>

ProducerCrash(p) ==
    /\ pc[p] # "done"
    /\ Goto(p, "done")
    /\ UNCHANGED <<rowVars, accepted, logVars, job, page, marks, crashes>>

(* A webhook reports the bounce of, or a complaint about, an accepted mail:*)
(* the attempt count and sent_at stay as they are.                         *)
ProviderEvent_StatusIsEvent(k) ==
    /\ accepted[k] /\ status[k] # "absent"
    /\ status' = [status EXCEPT ![k] = "bounced"]
    /\ lastError' = [lastError EXCEPT ![k] = "event"]
    /\ UNCHANGED <<id, attempts, sentAt, accepted, logVars, pc, job, page,
                   marks, crashes>>
ProviderEvent(k) ==
    /\ accepted[k] /\ status[k] # "absent"
    /\ status' = [status EXCEPT ![k] = "failed"]
    /\ lastError' = [lastError EXCEPT ![k] = "event"]
    /\ UNCHANGED <<id, attempts, sentAt, accepted, logVars, pc, job, page,
                   marks, crashes>>

-----------------------------------------------------------------------------
Deliver(s) == Send(s) \/ MarkSent(s) \/ MarkFailed(s) \/ DigestSent(s) \/ DigestFailed(s)

Produce(p) == Find(p) \/ Insert(p) \/ ReadBack(p) \/ Skip(p) \/ Deliver(p) \/ Stamp(p)

Work(d) == ReadPage(d) \/ NextRow(d) \/ Deliver(d) \/ CatchMark(d) \/ CatchDigest(d)

Next ==
    \/ \E p \in Producer : Produce(p) \/ ProducerCrash(p)
    \/ \E d \in Deliverer : Work(d) \/ Crash(d)
    \/ \E k \in Key : ProviderEvent(k)

Spec == Init /\ [][Next]_vars

(* Deliverers run in a loop, are restarted when they die, and every send   *)
(* and statement is answered.  Nothing is assumed of producers and         *)
(* providers' events.                                                      *)
FairSpec == Spec /\ \A d \in Deliverer : WF_vars(Work(d))

-----------------------------------------------------------------------------
(* Safety.                                                                 *)

(* Nothing claims that a mail went out (the row, its sent_at, the digest   *)
(* history, the alert's last_notified_at, a provider event) before the     *)
(* provider accepted one, whichever sender's outcome is recorded last      *)
(* (notifications/delivery.ts, service.ts).                                *)
SentWasAccepted ==
    \A k \in Key :
        (\/ status[k] = "sent" \/ sentAt[k] \/ lastError[k] = "event"
         \/ notified[k] \/ "sent" \in digests[k])
            => accepted[k]

(* Of the concurrent calls that enqueue one digest only the one that       *)
(* created the row sends it, whatever their finds had seen                 *)
(* (enqueueNotificationFromMysql: created is row.id === input.id).         *)
OneCreatorSends ==
    \A p, q \in Producer :
        pc[p] \in Sending /\ pc[q] \in Sending /\ job[p] = job[q] => p = q

(* However deliveries overlap, the attempts of a row exceed the limit only *)
(* by what the deliveries that had read it below the limit may still add:  *)
(* two for each deliverer and one for the call that created the row.       *)
AttemptsBounded ==
    \A k \in Key : attempts[k] <= MaxAttempts + 2 * Cardinality(Deliverer)

(* What OneCreatorSends and SentWasAccepted rest on: who sends has created *)
(* or read a row, and who records a success has seen one.                  *)
SendersHaveRows ==
    /\ \A k \in Key : status[k] = "absent" <=> id[k] = NoProducer
    /\ \A d \in Deliverer : \A k \in page[d] : id[k] # NoProducer
    /\ \A s \in Sender : pc[s] \in Sending => id[job[s]] # NoProducer
    /\ \A d \in Deliverer : pc[d] \in Sending => job[d] \notin page[d]
    /\ \A p \in Producer : pc[p] \in Sending => id[job[p]] = p
    /\ \A p \in Producer : pc[p] \in {"idle", "inserting"} => \A k \in Key : id[k] # p
    /\ \A s \in Sender : pc[s] \in {"markSent", "digestSent", "stamp"} => accepted[job[s]]

(* The attempts that deliveries at hand may still add to a row: a deliverer*)
(* one in its try block and one in its catch block, the creator one.       *)
TryMark == {"sending", "markSent", "markFailed"}
MarksLeft(n) ==
    IF n = 1 THEN TryMark ELSE TryMark \union {"digestSent", "digestFailed", "catchMark"}
Owes(d, n, k) == k \in page[d] \/ (job[d] = k /\ pc[d] \in MarksLeft(n))
CreatorOwes(p, k) == id[k] = p /\ job[p] = k /\ pc[p] \in TryMark \union {"reading"}
Owed(k) ==
    {t \in Deliverer \X {1, 2} : Owes(t[1], t[2], k)}
    \union {<<p, 0>> : p \in {q \in Producer : CreatorOwes(q, k)}}

(* What AttemptsBounded rests on: the attempts and those owed keep to the  *)
(* bound, and a row starts with none.                                      *)
AttemptsOwed ==
    \A k \in Key :
        /\ attempts[k] + Cardinality(Owed(k)) <= MaxAttempts + 2 * Cardinality(Deliverer)
        /\ status[k] = "absent" => attempts[k] = 0

Inductive == TypeOK /\ SentWasAccepted /\ OneCreatorSends /\ SendersHaveRows /\ AttemptsOwed

(* retrying-provider.ts: the caller "records exactly one outcome (and      *)
(* increments attempt_count by exactly one) per delivery attempt".         *)
OneOutcomePerAttempt == \A s \in Sender : marks[s] <= 1

(* outbox-repository.ts: a bounce or complaint "must not affect delivery   *)
(* retry accounting"; the runbook calls it "not a retryable delivery       *)
(* attempt": a deliverer does not pick up a row that carries one.          *)
BounceIsNotRetried ==
    [][\A d \in Deliverer : \A k \in page'[d] \ page[d] : lastError[k] # "event"]_vars

-----------------------------------------------------------------------------
(* Liveness: in the end every enqueued row is sent or out of attempts,     *)
(* even if the call that created it died before its send, the page is      *)
(* shorter than the backlog, or an older row fails every time.             *)
Settles ==
    \A k \in Key : <>[](status[k] \in {"absent", "sent"} \/ attempts[k] >= MaxAttempts)

(* What Settles rests on. A delivery counts against the limit: unless its  *)
(* process dies, a deliverer is not done with a row before it has recorded *)
(* an outcome of it, and no attempt that was recorded is ever taken back   *)
(* (delivery.ts: the catch block marks the row as well).                   *)
EveryDeliveryCounts ==
    [][/\ \A k \in Key : attempts'[k] >= attempts[k]
       /\ \A d \in Deliverer :
            pc[d] \in Sending /\ pc'[d] = "idle" => marks[d] > 0 \/ crashes' > crashes]_vars

(* A page is of the oldest rows that are due: none is read before an older *)
(* one, none is left out of a page that has room, and a page is empty only *)
(* when nothing is due.                                                    *)
BacklogInOrder ==
    [][\A d \in Deliverer :
         ReadPage(d) =>
             LET due == {k \in Key : Deliverable(k)} IN
             /\ \A j \in page'[d], k \in due \ page'[d] : j < k
             /\ page'[d] # due => Cardinality(page'[d]) = PageLimit]_vars

(* And a delivery ends, if the deliverer's sends and statements are        *)
(* answered: what weak fairness says of it while it is at a delivery, where*)
(* it can always go on.                                                    *)
Attentive(d) == <>[](pc[d] \in Sending) => []<><<Work(d)>>_vars
EveryoneAttends == \A d \in Deliverer : Attentive(d)

DeliveryEnds(d) == pc[d] \in Sending ~> pc[d] = "idle"
DeliveriesEnd == \A d \in Deliverer : DeliveryEnds(d)
=============================================================================
