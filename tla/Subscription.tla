---------------------------- MODULE Subscription ----------------------------
(***************************************************************************)
(* What one customer has paid for: the subscription, the tier of the       *)
(* account and of its workspace (billing/mysql-subscriptions.ts), under    *)
(* events of the payment provider, cancellations, reconciliations and      *)
(* overrides by an administrator.                                          *)
(*                                                                         *)
(* The modelled runtime is the MySQL one: no call is a transaction, every  *)
(* statement is a step. The provider delivers an event until a delivery is *)
(* acknowledged, more than once if it likes, and in any order.             *)
(***************************************************************************)
EXTENDS Integers

CONSTANTS
    Call,      \* the requests the server works on at a time
    Event,     \* the events the provider sends
    Paid,      \* the tiers that are paid for
    Notices,   \* what an event may say
    Periods,   \* the instants billing periods end at
    Grace,     \* how long a late payment is waited for
    MaxTime,   \* bound: the last instant
    MaxRequests, \* bound: requests other than deliveries
    MaxCrashes,\* bound: requests that die
    NoRow,     \* the absence of a row
    NotSent    \* what an event says that was not sent yet

Tier == Paid \union {"free"}
Status == {"trialing", "active", "past_due", "canceled", "none"}
Until == Periods \union {0} \* 0: current_period_end is null
InvoiceType == {"paid", "payment_failed"}

Notice ==
    [type : InvoiceType \union {"completed", "updated", "deleted"},
     names : BOOLEAN,                   \* the user, and not just the customer
     tier : Tier \union {"unnamed"},
     status : Status, until : Until, cancels : BOOLEAN]

Row == [tier : Tier, status : Status, until : Until, cancels : BOOLEAN]

ASSUME SubscriptionAssumption ==
    /\ "free" \notin Paid /\ "unnamed" \notin Paid
    /\ Periods \subseteq Nat \ {0}
    /\ Grace \in Nat /\ MaxTime \in Nat /\ MaxRequests \in Nat /\ MaxCrashes \in Nat
    /\ Notices \subseteq Notice
    /\ NoRow \notin Row /\ NotSent \notin Notice /\ NotSent \notin Event
    /\ \A n \in Notices : n.type \notin InvoiceType => n.names /\ n.tier # "unnamed"
    /\ \A n \in Notices : n.type \in {"completed", "updated"} => n.status # "none"

VARIABLES
    row,       \* account_subscriptions: the customer's row
    userTier,  \* users.account_tier
    orgTier,   \* organizations.account_tier of the workspace the customer owns
    invoice,   \* billing_invoices.status of the invoice in question
    session,   \* billing_checkout_sessions.status
    recorded,  \* subscription_events.provider_event_id
    notice,    \* what each event says, once it was sent
    call,      \* what each call does, the statement it is at, and what it will write
    now, requests, crashes,
    torn,      \* history: the last writers of tiers overlapped, or one died
    overridden,\* history: an administrator set the tier last
    applied,   \* history: the events whose row was written,
    twice,     \* those whose row was written again,
    excused    \* and those delivered twice at once, or by a call that died

tables == <<row, userTier, orgTier, invoice, session, recorded>>
history == <<torn, overridden, applied, twice, excused>>
vars == <<tables, notice, call, now, requests, crashes, history>>

Blank == [tier |-> "free", status |-> "canceled", until |-> 0, cancels |-> FALSE]
Idle == [at |-> "idle", op |-> "none", event |-> NotSent, writes |-> Blank, stale |-> FALSE]

(* The statements of each operation.                                       *)
StagesOf(o) ==
    CASE o = "deliver" -> {"lookup", "tier", "readInvoice", "insertInvoice", "updateInvoice",
                           "read", "insert", "update", "user", "workspace", "record", "session"}
      [] o = "cancel" -> {"provider", "mark"}
      [] o = "reconcile" -> {"transition", "user", "workspace"}
      [] o = "override" -> {"workspace"}

Op == {"deliver", "cancel", "reconcile", "override"}
Stage == UNION {StagesOf(o) : o \in Op}

CallState ==
    {k \in [at : Stage, op : Op, event : Event \union {NotSent}, writes : Row, stale : BOOLEAN] :
        k.at \in StagesOf(k.op) /\ (k.op = "deliver" => k.event \in Event)} \union {Idle}

TypeOK ==
    /\ row \in Row \union {NoRow}
    /\ userTier \in Tier /\ orgTier \in Tier
    /\ invoice \in InvoiceType \union {"none"}
    /\ session \in {"none", "open", "completed"}
    /\ recorded \in SUBSET Event
    /\ notice \in [Event -> Notices \union {NotSent}]
    /\ call \in [Call -> CallState]
    /\ now \in 0..MaxTime
    /\ requests \in 0..MaxRequests /\ crashes \in 0..MaxCrashes
    /\ torn \in BOOLEAN /\ overridden \in BOOLEAN
    /\ applied \in SUBSET Event /\ twice \in SUBSET Event /\ excused \in SUBSET Event

(* A free account, or one with a subscription, which its owner may have    *)
(* cancelled for the end of the period.                                    *)
Init ==
    /\ row \in {NoRow} \union
         [tier : Paid, status : {"trialing", "active"}, until : Periods, cancels : BOOLEAN]
    /\ userTier = IF row = NoRow THEN "free" ELSE row.tier
    /\ orgTier = userTier
    /\ invoice = "none" /\ session = "none" /\ recorded = {}
    /\ notice = [e \in Event |-> NotSent]
    /\ call = [c \in Call |-> Idle]
    /\ now = 0 /\ requests = 0 /\ crashes = 0
    /\ torn = FALSE /\ overridden = FALSE
    /\ applied = {} /\ twice = {} /\ excused = {}

Goto(c, stage) ==
    call' = [call EXCEPT ![c] = IF stage = "idle" THEN Idle ELSE [@ EXCEPT !.at = stage]]

GotoWith(c, stage, w) ==
    call' = [call EXCEPT ![c] = [@ EXCEPT !.at = stage, !.writes = w]]

Begin(c, stage, o, e, w) ==
    call' = [call EXCEPT ![c] =
               [at |-> stage, op |-> o, event |-> e, writes |-> w, stale |-> FALSE]]

(* A statement that only reads.                                            *)
Reads == UNCHANGED <<tables, notice, now, requests, crashes, history>>

-----------------------------------------------------------------------------
(* The provider and the clock.                                             *)

StartCheckout ==
    /\ session = "none"
    /\ session' = "open"
    /\ UNCHANGED <<row, userTier, orgTier, invoice, recorded, notice, call, now, requests, crashes, history>>

(* A checkout is completed once; the rest is about a subscription.         *)
Subscribed == row # NoRow \/ \E e \in Event : notice[e] # NotSent

Send(e) ==
    \E n \in Notices :
        /\ notice[e] = NotSent
        /\ IF n.type = "completed"
           THEN /\ session = "open"
                /\ \A d \in Event : notice[d] # NotSent => notice[d].type # "completed"
           ELSE Subscribed
        /\ notice' = [notice EXCEPT ![e] = n]
        /\ UNCHANGED <<tables, call, now, requests, crashes, history>>

Tick ==
    /\ now < MaxTime
    /\ now' = now + 1
    /\ UNCHANGED <<tables, notice, call, requests, crashes, history>>

-----------------------------------------------------------------------------
(* The delivery of an event.                                               *)

IsInvoice(n) == n.type \in InvoiceType

(* An event names the user, or a customer some subscription is on record   *)
(* for; any other is refused, and delivered again.                         *)
FindsUser(n) == n.names \/ row # NoRow

EventTier(n) == IF n.type = "deleted" THEN "free" ELSE n.tier

EventStatus(n) ==
    CASE n.type = "deleted" -> "canceled"
      [] n.type = "payment_failed" -> "past_due"
      [] OTHER -> n.status

Delivers(c, e) == call[c].op = "deliver" /\ call[c].event = e

Deliver(c, e) ==
    /\ call[c] = Idle /\ notice[e] # NotSent /\ FindsUser(notice[e])
    /\ Begin(c, "lookup", "deliver", e, Blank)
    /\ excused' = IF \E d \in Call : Delivers(d, e) THEN excused \union {e} ELSE excused
    /\ UNCHANGED <<tables, notice, now, requests, crashes, torn, overridden, applied, twice>>

(* A recorded event is acknowledged and not applied again.                 *)
Lookup(c) ==
    LET n == notice[call[c].event] IN
    /\ call[c].at = "lookup"
    /\ IF call[c].event \in recorded
       THEN Goto(c, "idle")
       ELSE GotoWith(c, IF EventTier(n) = "unnamed" THEN "tier"
                        ELSE IF IsInvoice(n) THEN "readInvoice" ELSE "read",
              [tier |-> IF EventTier(n) = "unnamed" THEN "free" ELSE EventTier(n),
               status |-> EventStatus(n), until |-> n.until, cancels |-> n.cancels])
    /\ Reads

(* An invoice without a tier keeps the one on record.                      *)
ReadTier(c) ==
    /\ call[c].at = "tier"
    /\ GotoWith(c, "readInvoice",
         [call[c].writes EXCEPT !.tier = IF row = NoRow THEN userTier ELSE row.tier])
    /\ Reads

ReadInvoice(c) ==
    /\ call[c].at = "readInvoice"
    /\ Goto(c, IF invoice = "none" THEN "insertInvoice" ELSE "updateInvoice")
    /\ Reads

InvoiceStatus_OfSubscription(n) == EventStatus(n)
InvoiceStatus(n) == n.type

(* The provider's number of the invoice is unique.                         *)
InvoiceTaken(c) == call[c].at = "insertInvoice" /\ invoice # "none"

WriteInvoice(c) ==
    /\ call[c].at \in {"insertInvoice", "updateInvoice"}
    /\ Goto(c, IF InvoiceTaken(c) THEN "idle" ELSE "read")
    /\ invoice' = IF InvoiceTaken(c) THEN invoice ELSE InvoiceStatus(notice[call[c].event])
    /\ UNCHANGED <<row, userTier, orgTier, session, recorded, notice, now, requests, crashes, history>>

ReadRow(c) ==
    /\ call[c].at = "read"
    /\ Goto(c, IF row = NoRow THEN "insert" ELSE "update")
    /\ Reads

-----------------------------------------------------------------------------
(* The three places a tier is written to, one after the other: the row,    *)
(* the user, and the workspace. An override starts with the user.          *)

Writing(c) == call[c].at \in {"user", "workspace"}

(* Whoever has read the row before holds a stale copy from now on.         *)
GotoFromRow(c, stage) ==
    call' = [d \in Call |->
        IF d = c THEN IF stage = "idle" THEN Idle ELSE [call[d] EXCEPT !.at = stage]
        ELSE IF call[d].op \in {"cancel", "reconcile"} THEN [call[d] EXCEPT !.stale = TRUE]
        ELSE call[d]]

BeginsTier(c, byAdministrator) ==
    /\ torn' = \E d \in Call \ {c} : Writing(d)
    /\ overridden' = byAdministrator

Applies(e) ==
    /\ twice' = IF e \in applied THEN twice \union {e} ELSE twice
    /\ applied' = applied \union {e}
    /\ UNCHANGED excused

(* One row for each user: a second INSERT is refused.                      *)
InsertRow(c) ==
    /\ call[c].at = "insert"
    /\ IF row # NoRow
       THEN Goto(c, "idle") /\ UNCHANGED <<row, history>>
       ELSE /\ row' = call[c].writes
            /\ GotoFromRow(c, "user")
            /\ BeginsTier(c, FALSE) /\ Applies(call[c].event)
    /\ UNCHANGED <<userTier, orgTier, invoice, session, recorded, notice, now, requests, crashes>>

UpdateRow(c) ==
    /\ call[c].at = "update"
    /\ row' = call[c].writes
    /\ GotoFromRow(c, "user")
    /\ BeginsTier(c, FALSE) /\ Applies(call[c].event)
    /\ UNCHANGED <<userTier, orgTier, invoice, session, recorded, notice, now, requests, crashes>>

WriteUser(c) ==
    /\ call[c].at = "user"
    /\ userTier' = call[c].writes.tier
    /\ Goto(c, "workspace")
    /\ UNCHANGED <<row, orgTier, invoice, session, recorded, notice, now, requests, crashes, history>>

SyncWorkspace_Stored(c) == IF row = NoRow THEN call[c].writes.tier ELSE row.tier
SyncWorkspace(c) == call[c].writes.tier

WriteWorkspace(c) ==
    /\ call[c].at = "workspace"
    /\ orgTier' = SyncWorkspace(c)
    /\ Goto(c, IF call[c].op = "deliver" THEN "record" ELSE "idle")
    /\ UNCHANGED <<row, userTier, invoice, session, recorded, notice, now, requests, crashes, history>>

(* The provider's number of the event is unique, too.                      *)
RecordEvent_Anonymous(c) ==
    LET e == call[c].event IN
    /\ call[c].at = "record"
    /\ Goto(c, IF e \notin recorded /\ notice[e].type = "completed" THEN "session" ELSE "idle")
    /\ recorded' = IF IsInvoice(notice[e]) THEN recorded ELSE recorded \union {e}
    /\ UNCHANGED <<row, userTier, orgTier, invoice, session, notice, now, requests, crashes, history>>
RecordEvent(c) ==
    LET e == call[c].event IN
    /\ call[c].at = "record"
    /\ Goto(c, IF e \notin recorded /\ notice[e].type = "completed" THEN "session" ELSE "idle")
    /\ recorded' = recorded \union {e}
    /\ UNCHANGED <<row, userTier, orgTier, invoice, session, notice, now, requests, crashes, history>>

CompleteSession(c) ==
    /\ call[c].at = "session"
    /\ session' = "completed"
    /\ Goto(c, "idle")
    /\ UNCHANGED <<row, userTier, orgTier, invoice, recorded, notice, now, requests, crashes, history>>

-----------------------------------------------------------------------------
(* Other requests.                                                         *)
Admits(c) ==
    /\ call[c] = Idle /\ requests < MaxRequests
    /\ requests' = requests + 1

(* Cancellation: the row is read, the provider asked, the row written.     *)

RequestCancel(c) ==
    /\ Admits(c) /\ row # NoRow /\ row.status # "none"
    /\ Begin(c, "provider", "cancel", NotSent, row)
    /\ UNCHANGED <<tables, notice, now, crashes, history>>

(* The provider answers with a status and, perhaps, the end of the period; *)
(* of a subscription it does not keep the old ones are taken.              *)
ScheduleCancel(c) ==
    \E s \in Status \ {"none"}, t \in Until :
        /\ call[c].at = "provider"
        /\ GotoWith(c, "mark", [call[c].writes EXCEPT !.status = s, !.until = IF t = 0 THEN @ ELSE t])
        /\ Reads

MarkCancel(c) ==
    /\ call[c].at = "mark"
    /\ row' = [row EXCEPT !.status = call[c].writes.status, !.until = call[c].writes.until,
                          !.cancels = TRUE]
    /\ GotoFromRow(c, "idle")
    /\ UNCHANGED <<userTier, orgTier, invoice, session, recorded, notice, now, requests, crashes, history>>

-----------------------------------------------------------------------------
(* Reconciliation: a snapshot of the rows, and what it says of this one.   *)

Expired(r) == r.until # 0 /\ r.until <= now
GraceExpired(r) == r.until # 0 /\ r.until + Grace <= now

Ends(r) ==
    \/ r.status = "trialing" /\ Expired(r)
    \/ r.cancels /\ Expired(r)
    \/ r.status = "past_due" /\ GraceExpired(r)

(* The tier and status the row gets, if it is not left alone.              *)
Verdict_PastDueFirst(r) ==
    IF r.tier = "free" \/ r.status \in {"none", "canceled"} THEN {}
    ELSE IF r.status = "active" /\ Expired(r) THEN {[Blank EXCEPT !.tier = r.tier, !.status = "past_due"]}
    ELSE IF Ends(r) THEN {Blank}
    ELSE {}
Verdict(r) ==
    IF r.tier = "free" \/ r.status \in {"none", "canceled"} THEN {}
    ELSE IF Ends(r) THEN {Blank}
    ELSE IF r.status = "active" /\ Expired(r) THEN {[Blank EXCEPT !.tier = r.tier, !.status = "past_due"]}
    ELSE {}

Reconcile(c) ==
    /\ Admits(c) /\ row # NoRow
    /\ \E v \in Verdict(row) : Begin(c, "transition", "reconcile", NotSent, v)
    /\ UNCHANGED <<tables, notice, now, crashes, history>>

Transition(c) ==
    /\ call[c].at = "transition"
    /\ row' = [row EXCEPT !.tier = call[c].writes.tier, !.status = call[c].writes.status,
                          !.cancels = FALSE]
    /\ GotoFromRow(c, "user")
    /\ BeginsTier(c, FALSE)
    /\ UNCHANGED <<userTier, orgTier, invoice, session, recorded, notice, now, requests, crashes,
                   applied, twice, excused>>

-----------------------------------------------------------------------------
(* An administrator sets the tier of the user, and then of the workspace.  *)
Override(c) ==
    \E t \in Tier :
        /\ Admits(c)
        /\ userTier' = t
        /\ Begin(c, "workspace", "override", NotSent, [Blank EXCEPT !.tier = t])
        /\ BeginsTier(c, TRUE)
        /\ UNCHANGED <<row, orgTier, invoice, session, recorded, notice, now, crashes,
                       applied, twice, excused>>

(* The server may die, or a statement fail, before any statement.          *)
HasApplied(c) == call[c].op = "deliver" /\ call[c].at \in {"user", "workspace", "record"}

Crash(c) ==
    /\ call[c] # Idle /\ crashes < MaxCrashes
    /\ Goto(c, "idle")
    /\ crashes' = crashes + 1
    /\ torn' = (torn \/ Writing(c))
    /\ excused' = IF HasApplied(c) THEN excused \union {call[c].event} ELSE excused
    /\ UNCHANGED <<tables, notice, now, requests, overridden, applied, twice>>

Apply(c) ==
    \/ Lookup(c) \/ ReadTier(c) \/ ReadInvoice(c) \/ WriteInvoice(c) \/ ReadRow(c)
    \/ InsertRow(c) \/ UpdateRow(c) \/ RecordEvent(c) \/ CompleteSession(c)

Steps(c) ==
    Apply(c) \/ WriteUser(c) \/ WriteWorkspace(c) \/ ScheduleCancel(c) \/ MarkCancel(c) \/ Transition(c)

Requests(c) == RequestCancel(c) \/ Reconcile(c) \/ Override(c)

Next ==
    \/ StartCheckout \/ Tick
    \/ \E e \in Event : Send(e)
    \/ \E c \in Call, e \in Event : Deliver(c, e)
    \/ \E c \in Call : Steps(c) \/ Requests(c) \/ Crash(c)

Spec == Init /\ [][Next]_vars

-----------------------------------------------------------------------------
(* The row, the account and the workspace are written one by one           *)
(* (mysql-subscriptions.ts:473, :1121). Between calls they name the same   *)
(* tier, unless the last calls that wrote them overlapped or died, and     *)
(* unless an administrator has set another tier than the row's.            *)
TiersAgree ==
    ~torn /\ (\A c \in Call : ~Writing(c)) =>
        /\ userTier = orgTier
        /\ row # NoRow /\ ~overridden => row.tier = userTier

(* An event is looked up first and recorded last (mysql-subscriptions.ts   *)
(* :892, :480): it is applied a second time only if two deliveries of it   *)
(* overlapped, or one died between the row and the record.                 *)
AppliedOnce == twice \subseteq excused

(* Apart from events of the provider, no call gives a paid tier back that  *)
(* has ended, or drops a cancellation without ending the subscription,     *)
(* unless the row was written since it had read it                         *)
(* (mysql-subscriptions.ts:1060, :1112).                                   *)
Revives ==
    /\ row # NoRow
    /\ row'.tier # "free"
    /\ row.tier = "free" \/ (row.cancels /\ ~row'.cancels)

OnlyProviderRevives ==
    [][Revives => \E c \in Call : \/ call[c].at \in {"insert", "update"}
                                  \/ call[c].at = "transition" /\ call[c].stale]_vars

-----------------------------------------------------------------------------
(* What the exceptions are exceptions to. When requests come one at a time *)
(* and none of them dies, the copies of a tier agree whenever nobody is    *)
(* writing them, no event is applied twice, though all are delivered as    *)
(* often as the provider likes, and only events revive a subscription:     *)
(* each check of the code is right where nothing comes between it and what *)
(* it guards (mysql-subscriptions.ts:892, :1060, :1112).                   *)
OneAtATime == (\A c, d \in Call : c = d) /\ MaxCrashes = 0

CopiesAgree ==
    (\A c \in Call : ~Writing(c)) =>
        /\ userTier = orgTier
        /\ row # NoRow /\ ~overridden => row.tier = userTier

OnlyEventsRevive == [][Revives => \E c \in Call : call[c].at \in {"insert", "update"}]_vars
=============================================================================
