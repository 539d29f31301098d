-------------------------- MODULE Subscription_proofs --------------------------
(***************************************************************************)
(* Proofs about Subscription for any tiers, events, notices, periods and   *)
(* bounds, and any number of simultaneous calls.                           *)
(***************************************************************************)
EXTENDS Subscription, TLAPS

USE SubscriptionAssumption

-----------------------------------------------------------------------------
(* Types.                                                                  *)

Fields == [at : Stage, op : Op, event : Event \union {NotSent}, writes : Row, stale : BOOLEAN]

(* The row that ends a subscription is one.                                *)
LEMMA BlankIsRow == Blank \in Row
BY DEF Blank, Row, Tier, Status, Until

(* What a call looks like once it is under way.                            *)
LEMMA CallFields ==
    ASSUME TypeOK, NEW c \in Call, call[c].at # "idle"
    PROVE  /\ call[c] \in Fields
           /\ call[c].at \in StagesOf(call[c].op) /\ call[c].op \in Op
           /\ call[c].op = "deliver" => call[c].event \in Event
           /\ call[c].writes \in Row /\ call[c].stale \in BOOLEAN
<1>1. call[c] \in CallState /\ call[c] # Idle
  BY DEF TypeOK, Idle
<1> QED BY <1>1 DEF CallState, Fields

(* No statement is named idle, and no operation none.                      *)
LEMMA StagesAreNamed == "idle" \notin Stage /\ "none" \notin Op
BY DEF Stage, StagesOf, Op

(* Only a delivery is at one of the statements of deliveries.              *)
LEMMA DeliveryStages ==
    ASSUME TypeOK, NEW c \in Call,
           call[c].at \in {"lookup", "tier", "readInvoice", "insertInvoice", "updateInvoice",
                           "read", "insert", "update", "record", "session"}
    PROVE  call[c].op = "deliver" /\ call[c].event \in Event
<1>1. call[c].at \in StagesOf(call[c].op) /\ call[c].op \in Op
  BY CallFields
<1>2. call[c].op = "deliver"
  BY <1>1 DEF Op, StagesOf
<1> QED BY <1>2, CallFields

(* A call that begins is well typed.                                       *)
LEMMA BeginTyped ==
    ASSUME TypeOK, NEW c \in Call, NEW o \in Op, NEW stage \in StagesOf(o),
           NEW e \in Event \union {NotSent}, o = "deliver" => e \in Event, NEW w \in Row,
           Begin(c, stage, o, e, w)
    PROVE  /\ call' \in [Call -> CallState]
           /\ call'[c] = [at |-> stage, op |-> o, event |-> e, writes |-> w, stale |-> FALSE]
           /\ \A d \in Call \ {c} : call'[d] = call[d]
<1> DEFINE k == [at |-> stage, op |-> o, event |-> e, writes |-> w, stale |-> FALSE]
<1>1. stage \in Stage
  BY DEF Stage
<1>2. k \in CallState
  BY <1>1 DEF CallState
<1>3. call' = [call EXCEPT ![c] = k]
  BY DEF Begin
<1> HIDE DEF k
<1>4. call' \in [Call -> CallState] /\ call'[c] = k /\ \A d \in Call \ {c} : call'[d] = call[d]
  BY <1>2, <1>3 DEF TypeOK
<1> QED BY <1>4 DEF k

(* Where a call goes: to an end, or on with what it writes.                *)
Moved(c, stage, w) ==
    /\ call' \in [Call -> CallState]
    /\ \A d \in Call \ {c} : call'[d] = call[d]
    /\ stage = "idle" => call'[c] = Idle
    /\ stage # "idle" => /\ call'[c].at = stage /\ call'[c].op = call[c].op
                         /\ call'[c].event = call[c].event /\ call'[c].writes = w
                         /\ call'[c].stale = call[c].stale

(* GotoWith leads to a statement of the operation.                         *)
LEMMA GotoWithMoves ==
    ASSUME TypeOK, NEW c \in Call, call[c].at # "idle", NEW stage \in StagesOf(call[c].op),
           NEW w \in Row, GotoWith(c, stage, w)
    PROVE  Moved(c, stage, w)
<1>1. call[c] \in Fields /\ call[c].op \in Op /\ (call[c].op = "deliver" => call[c].event \in Event)
  BY CallFields
<1>2. stage \in Stage /\ stage # "idle"
  BY <1>1, StagesAreNamed DEF Stage
<1> DEFINE k == [call[c] EXCEPT !.at = stage, !.writes = w]
<1>3. /\ k \in Fields /\ k.at = stage /\ k.op = call[c].op
      /\ k.event = call[c].event /\ k.writes = w /\ k.stale = call[c].stale
  BY <1>1, <1>2 DEF Fields
<1>4. k \in CallState
  BY <1>1, <1>3 DEF CallState, Fields
<1>5. call' = [call EXCEPT ![c] = k]
  BY DEF GotoWith, TypeOK
<1> HIDE DEF k
<1> QED BY <1>2, <1>3, <1>4, <1>5 DEF TypeOK, Moved

(* Goto leads to a statement of the operation, or to an end.               *)
LEMMA GotoMoves ==
    ASSUME TypeOK, NEW c \in Call, call[c].at # "idle", NEW stage, Goto(c, stage),
           stage = "idle" \/ stage \in StagesOf(call[c].op)
    PROVE  Moved(c, stage, call[c].writes)
<1>1. call[c] \in Fields /\ call[c].op \in Op /\ (call[c].op = "deliver" => call[c].event \in Event)
  BY CallFields
<1>2. CASE stage = "idle"
  <2>1. call' = [call EXCEPT ![c] = Idle]
    BY <1>2 DEF Goto
  <2> QED BY <2>1, <1>2 DEF TypeOK, CallState, Moved
<1>3. CASE stage # "idle"
  <2> DEFINE k == [call[c] EXCEPT !.at = stage]
  <2>1. stage \in Stage /\ stage \in StagesOf(call[c].op)
    BY <1>1, <1>3 DEF Stage
  <2>2. /\ k \in Fields /\ k.at = stage /\ k.op = call[c].op
        /\ k.event = call[c].event /\ k.writes = call[c].writes /\ k.stale = call[c].stale
    BY <1>1, <2>1 DEF Fields
  <2>3. k \in CallState
    BY <1>1, <2>1, <2>2 DEF CallState, Fields
  <2>4. call' = [call EXCEPT ![c] = k]
    BY <1>3 DEF Goto, TypeOK
  <2> HIDE DEF k
  <2> QED BY <1>3, <2>2, <2>3, <2>4 DEF TypeOK, Moved
<1> QED BY <1>2, <1>3

(* After the row is written the copies of the others are stale.            *)
MovedFromRow(c, stage) ==
    /\ call' \in [Call -> CallState]
    /\ stage = "idle" => call'[c] = Idle
    /\ stage # "idle" => /\ call'[c].at = stage /\ call'[c].op = call[c].op
                         /\ call'[c].event = call[c].event
                         /\ call'[c].writes = call[c].writes
    /\ \A d \in Call \ {c} :
         /\ call'[d].at = call[d].at /\ call'[d].op = call[d].op
         /\ call'[d].event = call[d].event /\ call'[d].writes = call[d].writes
         /\ call[d].at = "transition" => call'[d].stale

(* GotoFromRow does that.                                                  *)
LEMMA FromRowMoves ==
    ASSUME TypeOK, NEW c \in Call, call[c].at # "idle", NEW stage, GotoFromRow(c, stage),
           stage = "idle" \/ stage \in StagesOf(call[c].op)
    PROVE  MovedFromRow(c, stage)
<1> DEFINE k(d) == IF d = c THEN IF stage = "idle" THEN Idle ELSE [call[d] EXCEPT !.at = stage]
                   ELSE IF call[d].op \in {"cancel", "reconcile"}
                        THEN [call[d] EXCEPT !.stale = TRUE] ELSE call[d]
<1>1. call' = [d \in Call |-> k(d)]
  BY DEF GotoFromRow
<1>2. call[c] \in Fields /\ call[c].op \in Op /\ (call[c].op = "deliver" => call[c].event \in Event)
  BY CallFields
<1>3. /\ k(c) \in CallState
      /\ stage = "idle" => k(c) = Idle
      /\ stage # "idle" => /\ k(c).at = stage /\ k(c).op = call[c].op
                           /\ k(c).event = call[c].event /\ k(c).writes = call[c].writes
  <2>1. CASE stage = "idle"
    BY <2>1 DEF CallState
  <2>2. CASE stage # "idle"
    <3>1. stage \in Stage /\ stage \in StagesOf(call[c].op)
      BY <1>2, <2>2 DEF Stage
    <3>2. k(c) = [call[c] EXCEPT !.at = stage]
      BY <2>2
    <3>3. /\ k(c) \in Fields /\ k(c).at = stage /\ k(c).op = call[c].op
          /\ k(c).event = call[c].event /\ k(c).writes = call[c].writes
      BY <1>2, <3>1, <3>2 DEF Fields
    <3> HIDE DEF k
    <3> QED BY <1>2, <2>2, <3>1, <3>3 DEF CallState, Fields
  <2> QED BY <2>1, <2>2
<1>4. ASSUME NEW d \in Call \ {c}
      PROVE  /\ k(d) \in CallState
             /\ k(d).at = call[d].at /\ k(d).op = call[d].op
             /\ k(d).event = call[d].event /\ k(d).writes = call[d].writes
             /\ call[d].at = "transition" => k(d).stale
  <2>1. call[d] \in CallState
    BY DEF TypeOK
  <2>2. CASE call[d].op \in {"cancel", "reconcile"}
    <3>1. call[d] \in Fields /\ call[d].at \in StagesOf(call[d].op)
      BY <2>1, <2>2 DEF CallState, Fields, Idle
    <3>2. k(d) = [call[d] EXCEPT !.stale = TRUE]
      BY <2>2
    <3>3. /\ k(d) \in Fields /\ k(d).at = call[d].at /\ k(d).op = call[d].op
          /\ k(d).event = call[d].event /\ k(d).writes = call[d].writes /\ k(d).stale
      BY <3>1, <3>2 DEF Fields
    <3> HIDE DEF k
    <3> QED BY <2>2, <3>1, <3>3 DEF CallState, Fields
  <2>3. CASE call[d].op \notin {"cancel", "reconcile"}
    <3>1. k(d) = call[d]
      BY <2>3
    <3>2. call[d].at # "transition"
      BY <2>1, <2>3, CallFields DEF Op, StagesOf
    <3> QED BY <2>1, <3>1, <3>2
  <2> QED BY <2>2, <2>3
<1> HIDE DEF k
<1>5. call' \in [Call -> CallState]
  BY <1>1, <1>3, <1>4
<1> QED BY <1>1, <1>3, <1>4, <1>5 DEF MovedFromRow

(* The tables and the histories, without the calls.                        *)
TablesOK ==
    /\ row \in Row \union {NoRow}
    /\ userTier \in Tier /\ orgTier \in Tier
    /\ invoice \in InvoiceType \union {"none"}
    /\ session \in {"none", "open", "completed"}
    /\ recorded \in SUBSET Event

HistoryOK ==
    /\ torn \in BOOLEAN /\ overridden \in BOOLEAN
    /\ applied \in SUBSET Event /\ twice \in SUBSET Event /\ excused \in SUBSET Event

RestOK ==
    /\ notice \in [Event -> Notices \union {NotSent}]
    /\ now \in 0..MaxTime
    /\ requests \in 0..MaxRequests /\ crashes \in 0..MaxCrashes

(* TypeOK in three parts and the calls.                                    *)
LEMMA TypeParts == TypeOK <=> TablesOK /\ HistoryOK /\ RestOK /\ call \in [Call -> CallState]
BY DEF TypeOK, TablesOK, HistoryOK, RestOK

(* What is read leaves everything else alone.                              *)
LEMMA ReadsTyped ==
    ASSUME TypeOK, Reads, call' \in [Call -> CallState]
    PROVE  TypeOK'
BY DEF TypeOK, Reads, tables, history

(* What an event says, once it was sent.                                   *)
LEMMA NoticeTyped ==
    ASSUME TypeOK, NEW e \in Event, notice[e] # NotSent
    PROVE  /\ notice[e] \in Notices /\ notice[e] \in Notice
           /\ EventStatus(notice[e]) \in Status
           /\ EventTier(notice[e]) \in Tier \union {"unnamed"}
           /\ EventTier(notice[e]) = "unnamed" => IsInvoice(notice[e])
<1>1. notice[e] \in Notices /\ notice[e] \in Notice
  BY DEF TypeOK
<1> DEFINE n == notice[e]
<1>2. /\ n.status \in Status /\ n.tier \in Tier \union {"unnamed"}
      /\ n.type \in InvoiceType \union {"completed", "updated", "deleted"}
  BY <1>1 DEF Notice
<1>3. EventStatus(n) \in Status
  BY <1>2 DEF EventStatus, Status
<1>4. EventTier(n) \in Tier \union {"unnamed"}
  BY <1>2 DEF EventTier, Tier
<1>5. EventTier(n) = "unnamed" => n.type \in InvoiceType
  BY <1>1, <1>2 DEF EventTier
<1> QED BY <1>1, <1>3, <1>4, <1>5 DEF IsInvoice

(* A delivery is about an event that was sent, and where it writes an      *)
(* invoice, about an invoice.                                              *)
InvoiceStage == {"tier", "readInvoice", "insertInvoice", "updateInvoice"}

IsSent(k) ==
    k.op = "deliver" => /\ notice[k.event] # NotSent
                        /\ k.at \in InvoiceStage => IsInvoice(notice[k.event])

SentInv == \A c \in Call : IsSent(call[c])

(* Cancellations and reconciliations are about a row, and rows stay.       *)
RowInv == \A c \in Call : call[c].op \in {"cancel", "reconcile"} => row # NoRow

TypeInv == TypeOK /\ SentInv /\ RowInv

(* A call that moves on stays with its event.                              *)
LEMMA MovedSent ==
    ASSUME TypeInv, notice' = notice, NEW c \in Call, NEW stage, NEW w,
           Moved(c, stage, w) \/ MovedFromRow(c, stage),
           stage \in InvoiceStage => call[c].op = "deliver" /\ IsInvoice(notice[call[c].event])
    PROVE  SentInv'
<1>1. ASSUME NEW d \in Call PROVE IsSent(call[d])'
  <2>1. IsSent(call[d])
    BY DEF TypeInv, SentInv
  <2>2. CASE d = c
    BY <2>1, <2>2 DEF Moved, MovedFromRow, IsSent, Idle, InvoiceStage
  <2>3. CASE d # c
    BY <2>1, <2>3 DEF Moved, MovedFromRow, IsSent
  <2> QED BY <2>2, <2>3
<1> QED BY <1>1 DEF SentInv

(* The statements that only read.                                          *)
Reading(c) == Lookup(c) \/ ReadTier(c) \/ ReadInvoice(c) \/ ReadRow(c) \/ ScheduleCancel(c)

(* What such a statement does to its call.                                 *)
ReadMoved(c, stage, w) ==
    /\ Reads /\ Moved(c, stage, w)
    /\ call[c].at \in {"lookup", "tier", "readInvoice", "read", "provider"}
    /\ stage \in {"idle", "tier", "readInvoice", "insertInvoice", "updateInvoice", "read",
                  "insert", "update", "mark"}
    /\ stage = "mark" <=> call[c].at = "provider"
    /\ stage \in InvoiceStage => call[c].op = "deliver" /\ IsInvoice(notice[call[c].event])
    /\ call[c].at = "lookup" /\ stage # "idle" => call[c].event \notin recorded

(* Every read is such a move.                                              *)
LEMMA ReadingMoves ==
    ASSUME TypeInv, NEW c \in Call, Reading(c)
    PROVE  \E stage, w : ReadMoved(c, stage, w)
<1> USE DEF TypeInv
<1>1. CASE Lookup(c)
  <2> DEFINE n == notice[call[c].event]
  <2>1. /\ call[c].op = "deliver" /\ call[c].event \in Event /\ n # NotSent /\ call[c].at # "idle"
    BY <1>1, DeliveryStages DEF Lookup, SentInv, IsSent
  <2>2. CASE call[c].event \in recorded
    <3>1. Goto(c, "idle") /\ Reads /\ call[c].at = "lookup"
      BY <1>1, <2>2 DEF Lookup
    <3>2. Moved(c, "idle", call[c].writes)
      BY <2>1, <3>1, GotoMoves
    <3>3. ReadMoved(c, "idle", call[c].writes)
      BY <3>1, <3>2 DEF ReadMoved, InvoiceStage
    <3> QED BY <3>3
  <2>3. CASE call[c].event \notin recorded
    <3> DEFINE w == [tier |-> IF EventTier(n) = "unnamed" THEN "free" ELSE EventTier(n),
                     status |-> EventStatus(n), until |-> n.until, cancels |-> n.cancels]
               g == IF EventTier(n) = "unnamed" THEN "tier"
                    ELSE IF IsInvoice(n) THEN "readInvoice" ELSE "read"
    <3>1. GotoWith(c, g, w) /\ Reads /\ call[c].at = "lookup"
      BY <1>1, <2>3 DEF Lookup
    <3>2. n \in Notice /\ EventStatus(n) \in Status /\ EventTier(n) \in Tier \union {"unnamed"}
      BY <2>1, NoticeTyped
    <3>3. w \in Row
      BY <3>2 DEF Row, Notice, Tier
    <3>4. g \in {"tier", "readInvoice", "read"} /\ (g # "read" => IsInvoice(n))
      BY <2>1, NoticeTyped
    <3>5. g \in StagesOf(call[c].op)
      BY <2>1, <3>4 DEF StagesOf
    <3> HIDE DEF w, g, n
    <3>6. Moved(c, g, w)
      BY <2>1, <3>1, <3>3, <3>5, GotoWithMoves
    <3>7. ReadMoved(c, g, w)
      BY <2>1, <2>3, <3>1, <3>4, <3>6 DEF ReadMoved, InvoiceStage, n
    <3> QED BY <3>7
  <2> QED BY <2>2, <2>3
<1>2. CASE ReadTier(c)
  <2> DEFINE w == [call[c].writes EXCEPT !.tier = IF row = NoRow THEN userTier ELSE row.tier]
  <2>1. call[c].at = "tier" /\ GotoWith(c, "readInvoice", w) /\ Reads
    BY <1>2 DEF ReadTier
  <2>2. /\ call[c].op = "deliver" /\ IsInvoice(notice[call[c].event])
    BY <2>1, DeliveryStages DEF SentInv, IsSent, InvoiceStage
  <2>3. call[c].writes \in Row /\ (IF row = NoRow THEN userTier ELSE row.tier) \in Tier
    BY <2>1, CallFields DEF TypeOK, Row
  <2>4. w \in Row
    BY <2>3 DEF Row
  <2>5. "readInvoice" \in StagesOf(call[c].op)
    BY <2>2 DEF StagesOf
  <2> HIDE DEF w
  <2>6. Moved(c, "readInvoice", w)
    BY <2>1, <2>4, <2>5, GotoWithMoves
  <2>7. ReadMoved(c, "readInvoice", w)
    BY <2>1, <2>2, <2>6 DEF ReadMoved
  <2> QED BY <2>7
<1>3. CASE ReadInvoice(c)
  <2> DEFINE g == IF invoice = "none" THEN "insertInvoice" ELSE "updateInvoice"
  <2>1. call[c].at = "readInvoice" /\ Goto(c, g) /\ Reads
    BY <1>3 DEF ReadInvoice
  <2>2. /\ call[c].op = "deliver" /\ IsInvoice(notice[call[c].event])
    BY <2>1, DeliveryStages DEF SentInv, IsSent, InvoiceStage
  <2>3. g \in StagesOf(call[c].op) /\ g \in {"insertInvoice", "updateInvoice"}
    BY <2>2 DEF StagesOf
  <2> HIDE DEF g
  <2>4. Moved(c, g, call[c].writes)
    BY <2>1, <2>3, GotoMoves
  <2>5. ReadMoved(c, g, call[c].writes)
    BY <2>1, <2>2, <2>3, <2>4 DEF ReadMoved
  <2> QED BY <2>5
<1>4. CASE ReadRow(c)
  <2> DEFINE g == IF row = NoRow THEN "insert" ELSE "update"
  <2>1. call[c].at = "read" /\ Goto(c, g) /\ Reads
    BY <1>4 DEF ReadRow
  <2>2. g \in StagesOf(call[c].op) /\ g \in {"insert", "update"}
    BY <2>1, DeliveryStages DEF StagesOf
  <2> HIDE DEF g
  <2>3. Moved(c, g, call[c].writes)
    BY <2>1, <2>2, GotoMoves
  <2>4. ReadMoved(c, g, call[c].writes)
    BY <2>1, <2>2, <2>3 DEF ReadMoved, InvoiceStage
  <2> QED BY <2>4
<1>5. CASE ScheduleCancel(c)
  <2>1. PICK s \in Status, t \in Until :
          /\ call[c].at = "provider" /\ Reads
          /\ GotoWith(c, "mark", [call[c].writes EXCEPT !.status = s, !.until = IF t = 0 THEN @ ELSE t])
    BY <1>5 DEF ScheduleCancel
  <2> DEFINE w == [call[c].writes EXCEPT !.status = s, !.until = IF t = 0 THEN @ ELSE t]
  <2>2. call[c].writes \in Row /\ call[c].at \in StagesOf(call[c].op) /\ call[c].op \in Op
    BY <2>1, CallFields
  <2>3. w \in Row
    BY <2>2 DEF Row
  <2>4. "mark" \in StagesOf(call[c].op)
    BY <2>1, <2>2 DEF StagesOf, Op
  <2>5. GotoWith(c, "mark", w)
    BY <2>1
  <2> HIDE DEF w
  <2>6. Moved(c, "mark", w)
    BY <2>1, <2>3, <2>4, <2>5, GotoWithMoves
  <2>7. ReadMoved(c, "mark", w)
    BY <2>1, <2>6 DEF ReadMoved, InvoiceStage
  <2> QED BY <2>7
<1> QED BY <1>1, <1>2, <1>3, <1>4, <1>5 DEF Reading

(* The row after each of the statements that write it.                     *)
LEMMA RowWrites ==
    ASSUME TypeInv, NEW c \in Call
    PROVE  /\ UpdateRow(c) => row' \in Row /\ MovedFromRow(c, "user")
           /\ InsertRow(c) /\ row = NoRow => row' \in Row /\ MovedFromRow(c, "user")
           /\ InsertRow(c) /\ row # NoRow => row' = row /\ Moved(c, "idle", call[c].writes)
           /\ MarkCancel(c) /\ row # NoRow =>
                /\ row' \in Row /\ row'.tier = row.tier /\ row'.cancels /\ MovedFromRow(c, "idle")
           /\ Transition(c) /\ row # NoRow =>
                /\ row' \in Row /\ row'.tier = call[c].writes.tier /\ MovedFromRow(c, "user")
<1> USE DEF TypeInv
<1>1. ASSUME call[c].at # "idle"
      PROVE  call[c].writes \in Row /\ call[c].at \in StagesOf(call[c].op) /\ call[c].op \in Op
  BY <1>1, CallFields
<1>2. ASSUME UpdateRow(c) PROVE row' \in Row /\ MovedFromRow(c, "user")
  <2>1. call[c].at = "update" /\ row' = call[c].writes /\ GotoFromRow(c, "user")
    BY <1>2 DEF UpdateRow
  <2>2. "user" \in StagesOf(call[c].op)
    BY <2>1, DeliveryStages DEF StagesOf
  <2> QED BY <1>1, <2>1, <2>2, FromRowMoves
<1>3. ASSUME InsertRow(c), row = NoRow PROVE row' \in Row /\ MovedFromRow(c, "user")
  <2>1. call[c].at = "insert" /\ row' = call[c].writes /\ GotoFromRow(c, "user")
    BY <1>3 DEF InsertRow
  <2>2. "user" \in StagesOf(call[c].op)
    BY <2>1, DeliveryStages DEF StagesOf
  <2> QED BY <1>1, <2>1, <2>2, FromRowMoves
<1>4. ASSUME InsertRow(c), row # NoRow PROVE row' = row /\ Moved(c, "idle", call[c].writes)
  <2>1. call[c].at = "insert" /\ Goto(c, "idle") /\ row' = row
    BY <1>4 DEF InsertRow
  <2> QED BY <2>1, GotoMoves
<1>5. ASSUME MarkCancel(c), row # NoRow
      PROVE  row' \in Row /\ row'.tier = row.tier /\ row'.cancels /\ MovedFromRow(c, "idle")
  <2>1. /\ call[c].at = "mark" /\ GotoFromRow(c, "idle")
        /\ row' = [row EXCEPT !.status = call[c].writes.status, !.until = call[c].writes.until,
                              !.cancels = TRUE]
    BY <1>5 DEF MarkCancel
  <2>2. row \in Row /\ call[c].writes \in Row
    BY <1>1, <1>5, <2>1 DEF TypeOK
  <2>3. row' \in Row /\ row'.tier = row.tier /\ row'.cancels
    BY <2>1, <2>2 DEF Row
  <2> QED BY <2>1, <2>3, FromRowMoves
<1>6. ASSUME Transition(c), row # NoRow
      PROVE  row' \in Row /\ row'.tier = call[c].writes.tier /\ MovedFromRow(c, "user")
  <2>1. /\ call[c].at = "transition" /\ GotoFromRow(c, "user")
        /\ row' = [row EXCEPT !.tier = call[c].writes.tier, !.status = call[c].writes.status,
                              !.cancels = FALSE]
    BY <1>6 DEF Transition
  <2>2. row \in Row /\ call[c].writes \in Row
    BY <1>1, <1>6, <2>1 DEF TypeOK
  <2>3. row' \in Row /\ row'.tier = call[c].writes.tier
    BY <2>1, <2>2 DEF Row
  <2>4. "user" \in StagesOf(call[c].op)
    BY <1>1, <2>1 DEF StagesOf, Op
  <2> QED BY <2>1, <2>3, <2>4, FromRowMoves
<1> QED BY <1>2, <1>3, <1>4, <1>5, <1>6

(* A call that moves on keeps its operation.                               *)
LEMMA MovedRow ==
    ASSUME TypeInv, NEW c \in Call, NEW stage, NEW w, Moved(c, stage, w) \/ MovedFromRow(c, stage),
           row # NoRow => row' # NoRow
    PROVE  RowInv'
<1>1. ASSUME NEW d \in Call, call'[d].op \in {"cancel", "reconcile"}
      PROVE  call[d].op \in {"cancel", "reconcile"}
  BY <1>1 DEF Moved, MovedFromRow, Idle
<1> QED BY <1>1 DEF TypeInv, RowInv

(* What the other steps of a call under way do to it.                      *)
LEMMA WriteMoves ==
    ASSUME TypeInv, NEW c \in Call
    PROVE  /\ WriteInvoice(c) => \/ Moved(c, "idle", call[c].writes)
                                \/ Moved(c, "read", call[c].writes)
           /\ WriteUser(c) => Moved(c, "workspace", call[c].writes)
           /\ WriteWorkspace(c) => \/ call[c].op = "deliver" /\ Moved(c, "record", call[c].writes)
                                  \/ Moved(c, "idle", call[c].writes)
           /\ RecordEvent(c) => \/ Moved(c, "session", call[c].writes)
                               \/ Moved(c, "idle", call[c].writes)
           /\ CompleteSession(c) => Moved(c, "idle", call[c].writes)
           /\ Crash(c) => Moved(c, "idle", call[c].writes)
<1> USE DEF TypeInv
<1>1. ASSUME WriteInvoice(c)
      PROVE  Moved(c, "idle", call[c].writes) \/ Moved(c, "read", call[c].writes)
  <2>1. call[c].at \in {"insertInvoice", "updateInvoice"} /\ (Goto(c, "idle") \/ Goto(c, "read"))
    BY <1>1 DEF WriteInvoice
  <2>2. "read" \in StagesOf(call[c].op)
    BY <2>1, DeliveryStages DEF StagesOf
  <2> QED BY <2>1, <2>2, GotoMoves
<1>2. ASSUME WriteUser(c) PROVE Moved(c, "workspace", call[c].writes)
  <2>1. call[c].at = "user" /\ Goto(c, "workspace")
    BY <1>2 DEF WriteUser
  <2>2. "workspace" \in StagesOf(call[c].op)
    BY <2>1, CallFields DEF StagesOf, Op
  <2> QED BY <2>1, <2>2, GotoMoves
<1>3. ASSUME WriteWorkspace(c)
      PROVE  \/ call[c].op = "deliver" /\ Moved(c, "record", call[c].writes)
             \/ Moved(c, "idle", call[c].writes)
  <2>1. /\ call[c].at = "workspace"
        /\ (call[c].op = "deliver" /\ Goto(c, "record")) \/ Goto(c, "idle")
    BY <1>3 DEF WriteWorkspace
  <2>2. "record" \in StagesOf("deliver")
    BY DEF StagesOf
  <2> QED BY <2>1, <2>2, GotoMoves
<1>4. ASSUME RecordEvent(c)
      PROVE  Moved(c, "session", call[c].writes) \/ Moved(c, "idle", call[c].writes)
  <2>1. call[c].at = "record" /\ (Goto(c, "session") \/ Goto(c, "idle"))
    BY <1>4 DEF RecordEvent
  <2>2. "session" \in StagesOf(call[c].op)
    BY <2>1, DeliveryStages DEF StagesOf
  <2> QED BY <2>1, <2>2, GotoMoves
<1>5. ASSUME CompleteSession(c) PROVE Moved(c, "idle", call[c].writes)
  BY <1>5, GotoMoves DEF CompleteSession
<1>6. ASSUME Crash(c) PROVE Moved(c, "idle", call[c].writes)
  <2>1. call[c] # Idle /\ Goto(c, "idle")
    BY <1>6 DEF Crash
  <2>2. call[c].at # "idle"
    <3>1. call[c] \in CallState /\ call[c] # Idle
      BY <2>1 DEF TypeOK
    <3> QED BY <3>1, StagesAreNamed DEF CallState
  <2> QED BY <2>1, <2>2, GotoMoves
<1> QED BY <1>1, <1>2, <1>3, <1>4, <1>5, <1>6

(* A call that begins.                                                     *)
Begun(c, stage, o, e, w) ==
    /\ call[c] = Idle
    /\ call' \in [Call -> CallState]
    /\ call'[c] = [at |-> stage, op |-> o, event |-> e, writes |-> w, stale |-> FALSE]
    /\ \A d \in Call \ {c} : call'[d] = call[d]

(* What a reconciliation may write: it ends the subscription, or marks a   *)
(* row whose payment is late and which nobody cancelled.                   *)
LEMMA Verdicts ==
    ASSUME NEW r \in Row, NEW v \in Verdict(r)
    PROVE  /\ v \in Row /\ r.tier # "free"
           /\ v.tier = "free" \/ (v.tier = r.tier /\ ~r.cancels)
<1>1. r.tier # "free" /\ r.status # "canceled"
  BY DEF Verdict
<1>2. CASE v = Blank
  <2>1. v.tier = "free"
    BY <1>2 DEF Blank
  <2> QED BY <1>1, <1>2, <2>1, BlankIsRow
<1>3. CASE v = [Blank EXCEPT !.tier = r.tier, !.status = "past_due"] /\ Expired(r) /\ ~Ends(r)
  <2>1. v.tier = r.tier /\ v \in Row
    BY <1>3, BlankIsRow DEF Row, Blank, Status
  <2>2. ~r.cancels
    BY <1>3 DEF Ends, Row
  <2> QED BY <1>1, <2>1, <2>2
<1> QED BY <1>1, <1>2, <1>3 DEF Verdict

(* The requests, and what they begin.                                      *)
LEMMA RequestsBegin ==
    ASSUME TypeInv, NEW c \in Call
    PROVE  /\ \A e \in Event : Deliver(c, e) => Begun(c, "lookup", "deliver", e, Blank)
           /\ RequestCancel(c) => row \in Row /\ Begun(c, "provider", "cancel", NotSent, row)
           /\ Reconcile(c) => /\ row \in Row
                             /\ \E v \in Verdict(row) : Begun(c, "transition", "reconcile", NotSent, v)
           /\ Override(c) => \E t \in Tier : /\ userTier' = t
                                             /\ Begun(c, "workspace", "override", NotSent,
                                                      [Blank EXCEPT !.tier = t])
<1> USE DEF TypeInv
<1>0. /\ \A o \in {"deliver", "cancel", "reconcile", "override"} : o \in Op
      /\ "lookup" \in StagesOf("deliver") /\ "provider" \in StagesOf("cancel")
      /\ "transition" \in StagesOf("reconcile") /\ "workspace" \in StagesOf("override")
  BY DEF Op, StagesOf
<1>1. ASSUME NEW e \in Event, Deliver(c, e)
      PROVE  Begun(c, "lookup", "deliver", e, Blank)
  <2>1. call[c] = Idle /\ Begin(c, "lookup", "deliver", e, Blank)
    BY <1>1 DEF Deliver
  <2> QED BY <1>0, <2>1, BlankIsRow, BeginTyped DEF Begun
<1>2. ASSUME RequestCancel(c)
      PROVE  row \in Row /\ Begun(c, "provider", "cancel", NotSent, row)
  <2>1. call[c] = Idle /\ Begin(c, "provider", "cancel", NotSent, row) /\ row \in Row
    BY <1>2 DEF RequestCancel, Admits, TypeOK
  <2> QED BY <1>0, <2>1, BeginTyped DEF Begun
<1>3. ASSUME Reconcile(c)
      PROVE  /\ row \in Row
             /\ \E v \in Verdict(row) : Begun(c, "transition", "reconcile", NotSent, v)
  <2>1. call[c] = Idle /\ row \in Row
    BY <1>3 DEF Reconcile, Admits, TypeOK
  <2>2. PICK v \in Verdict(row) : Begin(c, "transition", "reconcile", NotSent, v)
    BY <1>3 DEF Reconcile
  <2>3. v \in Row
    BY <2>1, Verdicts
  <2> QED BY <1>0, <2>1, <2>2, <2>3, BeginTyped DEF Begun
<1>4. ASSUME Override(c)
      PROVE  \E t \in Tier : /\ userTier' = t
                             /\ Begun(c, "workspace", "override", NotSent, [Blank EXCEPT !.tier = t])
  <2>1. PICK t \in Tier : /\ call[c] = Idle /\ userTier' = t
                         /\ Begin(c, "workspace", "override", NotSent, [Blank EXCEPT !.tier = t])
    BY <1>4 DEF Override, Admits
  <2>2. [Blank EXCEPT !.tier = t] \in Row
    BY BlankIsRow DEF Row
  <2>3. Begun(c, "workspace", "override", NotSent, [Blank EXCEPT !.tier = t])
    BY <1>0, <2>1, <2>2, BeginTyped DEF Begun
  <2> QED BY <2>1, <2>3
<1> QED BY <1>1, <1>2, <1>3, <1>4

(* A call that begins keeps what is known of calls.                        *)
LEMMA BegunSent ==
    ASSUME TypeInv, NEW c \in Call, NEW stage, NEW o, NEW e, NEW w, Begun(c, stage, o, e, w),
           stage \notin InvoiceStage, o = "deliver" => notice[e] # NotSent, notice' = notice,
           o \in {"cancel", "reconcile"} => row # NoRow, row' = row
    PROVE  SentInv' /\ RowInv'
<1>1. ASSUME NEW d \in Call
      PROVE  IsSent(call[d])' /\ (call'[d].op \in {"cancel", "reconcile"} => row # NoRow)
  BY DEF Begun, TypeInv, SentInv, RowInv, IsSent
<1> QED BY <1>1 DEF SentInv, RowInv

(* The steps of the provider and the clock leave the calls alone.          *)
LEMMA WorldTyped ==
    ASSUME TypeInv, StartCheckout \/ Tick \/ \E e \in Event : Send(e)
    PROVE  TypeInv'
<1> USE DEF TypeInv
<1>1. CASE StartCheckout
  BY <1>1 DEF StartCheckout, TypeOK, history, SentInv, IsSent, RowInv
<1>2. CASE Tick
  <2>1. now' \in 0..MaxTime
    BY <1>2 DEF Tick, TypeOK
  <2> QED BY <1>2, <2>1 DEF Tick, TypeOK, tables, history, SentInv, IsSent, RowInv
<1>3. ASSUME NEW e \in Event, Send(e) PROVE TypeInv'
  <2>1. PICK n \in Notices : notice[e] = NotSent /\ notice' = [notice EXCEPT ![e] = n]
                            /\ UNCHANGED <<tables, call, now, requests, crashes, history>>
    BY <1>3 DEF Send
  <2>2. TypeOK'
    BY <2>1 DEF TypeOK, tables, history
  <2>3. RowInv'
    BY <2>1 DEF RowInv, tables
  <2>4. ASSUME NEW c \in Call PROVE IsSent(call[c])'
    <3>1. IsSent(call[c]) /\ call'[c] = call[c]
      BY <2>1 DEF SentInv
    <3>2. call[c].op = "deliver" => call[c].event \in Event /\ notice'[call[c].event] = notice[call[c].event]
      <4>1. call[c].op = "deliver" => call[c].event \in Event
        BY CallFields, StagesAreNamed DEF TypeOK, CallState, Idle
      <4> QED BY <2>1, <3>1, <4>1 DEF IsSent, TypeOK
    <3> QED BY <3>1, <3>2 DEF IsSent
  <2> QED BY <2>2, <2>3, <2>4 DEF SentInv
<1> QED BY <1>1, <1>2, <1>3

(* Types after a step of one call.                                         *)
LEMMA CallTyped ==
    ASSUME TypeInv, NEW c \in Call, Steps(c) \/ Requests(c) \/ Crash(c) \/ \E e \in Event : Deliver(c, e)
    PROVE  TypeInv'
<1> USE DEF TypeInv
<1>1. CASE Reading(c)
  <2>1. PICK stage, w : ReadMoved(c, stage, w)
    BY <1>1, ReadingMoves
  <2>2. TypeOK' /\ row' = row /\ notice' = notice
    BY <2>1, ReadsTyped DEF ReadMoved, Moved, Reads, tables
  <2>3. SentInv'
    BY <2>1, <2>2, MovedSent DEF ReadMoved
  <2>4. RowInv'
    BY <2>1, <2>2, MovedRow DEF ReadMoved
  <2> QED BY <2>2, <2>3, <2>4
<1>2. CASE WriteInvoice(c)
  <2>1. Moved(c, "idle", call[c].writes) \/ Moved(c, "read", call[c].writes)
    BY <1>2, WriteMoves
  <2>2. invoice' \in InvoiceType \union {"none"}
    <3>1. call[c].at \in InvoiceStage /\ call[c].op = "deliver"
      BY <1>2, DeliveryStages DEF WriteInvoice, InvoiceStage
    <3>2. IsInvoice(notice[call[c].event])
      BY <3>1 DEF SentInv, IsSent
    <3> QED BY <1>2, <3>2 DEF WriteInvoice, IsInvoice, InvoiceStatus, TypeOK
  <2>3. notice' = notice /\ row' = row
    BY <1>2 DEF WriteInvoice
  <2>4. TypeOK'
    BY <1>2, <2>1, <2>2 DEF WriteInvoice, Moved, TypeOK, history
  <2>5. SentInv' /\ RowInv'
    BY <2>1, <2>3, MovedSent, MovedRow DEF InvoiceStage
  <2> QED BY <2>4, <2>5
<1>3. CASE InsertRow(c) \/ UpdateRow(c)
  <2>1. /\ row' \in Row \/ row' = row
        /\ row # NoRow => row' # NoRow
        /\ MovedFromRow(c, "user") \/ Moved(c, "idle", call[c].writes)
    BY <1>3, RowWrites
  <2>2. call[c].event \in Event
    BY <1>3, DeliveryStages DEF InsertRow, UpdateRow
  <2>3. HistoryOK'
    BY <1>3, <2>2 DEF InsertRow, UpdateRow, BeginsTier, Applies, TypeOK, HistoryOK, history
  <2>4. TablesOK' /\ RestOK'
    BY <1>3, <2>1 DEF InsertRow, UpdateRow, TypeOK, TablesOK, RestOK
  <2>5. TypeOK'
    <3>1. call' \in [Call -> CallState]
      BY <2>1 DEF Moved, MovedFromRow
    <3> QED BY <2>3, <2>4, <3>1 DEF TypeOK, HistoryOK, TablesOK, RestOK
  <2>6. notice' = notice
    BY <1>3 DEF InsertRow, UpdateRow
  <2>7. SentInv' /\ RowInv'
    BY <2>1, <2>6, MovedSent, MovedRow DEF InvoiceStage
  <2> QED BY <2>5, <2>7
<1>4. CASE WriteUser(c) \/ WriteWorkspace(c)
  <2>1. \E stage \in {"workspace", "record", "idle"} : Moved(c, stage, call[c].writes)
    BY <1>4, WriteMoves
  <2>2. call[c].writes.tier \in Tier
    BY <1>4, CallFields DEF WriteUser, WriteWorkspace, Row
  <2>3. TypeOK'
    BY <1>4, <2>1, <2>2 DEF WriteUser, WriteWorkspace, SyncWorkspace, Moved, TypeOK, history
  <2>4. notice' = notice /\ row' = row
    BY <1>4 DEF WriteUser, WriteWorkspace
  <2>5. SentInv' /\ RowInv'
    BY <2>1, <2>4, MovedSent, MovedRow DEF InvoiceStage
  <2> QED BY <2>3, <2>5
<1>5. CASE RecordEvent(c) \/ CompleteSession(c)
  <2>1. \E stage \in {"session", "idle"} : Moved(c, stage, call[c].writes)
    BY <1>5, WriteMoves
  <2>2. call[c].event \in Event
    BY <1>5, DeliveryStages DEF RecordEvent, CompleteSession
  <2>3. TypeOK'
    BY <1>5, <2>1, <2>2 DEF RecordEvent, CompleteSession, Moved, TypeOK, history
  <2>4. notice' = notice /\ row' = row
    BY <1>5 DEF RecordEvent, CompleteSession
  <2>5. SentInv' /\ RowInv'
    BY <2>1, <2>4, MovedSent, MovedRow DEF InvoiceStage
  <2> QED BY <2>3, <2>5
<1>6. CASE MarkCancel(c) \/ Transition(c)
  <2>1. row # NoRow
    <3>1. call[c].op \in {"cancel", "reconcile"}
      BY <1>6, CallFields DEF MarkCancel, Transition, StagesOf, Op
    <3> QED BY <3>1 DEF RowInv
  <2>2. row' \in Row /\ (MovedFromRow(c, "user") \/ MovedFromRow(c, "idle"))
    BY <1>6, <2>1, RowWrites
  <2>3. HistoryOK' /\ TablesOK' /\ RestOK'
    BY <1>6, <2>2 DEF MarkCancel, Transition, BeginsTier, TypeOK, HistoryOK, TablesOK, RestOK, history
  <2>4. TypeOK'
    <3>1. call' \in [Call -> CallState]
      BY <2>2 DEF MovedFromRow
    <3> QED BY <2>3, <3>1 DEF TypeOK, HistoryOK, TablesOK, RestOK
  <2>5. notice' = notice /\ row' # NoRow
    BY <1>6, <2>2 DEF MarkCancel, Transition
  <2>6. SentInv' /\ RowInv'
    BY <2>2, <2>5, MovedSent, MovedRow DEF InvoiceStage
  <2> QED BY <2>4, <2>6
<1>7. ASSUME NEW e \in Event, Deliver(c, e) PROVE TypeInv'
  <2>1. Begun(c, "lookup", "deliver", e, Blank)
    BY <1>7, RequestsBegin
  <2>2. TypeOK'
    BY <1>7, <2>1 DEF Deliver, Begun, TypeOK, tables
  <2>3. notice[e] # NotSent /\ notice' = notice /\ row' = row
    BY <1>7 DEF Deliver, tables
  <2> QED BY <2>1, <2>2, <2>3, BegunSent DEF InvoiceStage
<1>8. CASE Requests(c)
  <2>1. requests' \in 0..MaxRequests
    <3>1. Admits(c)
      BY <1>8 DEF Requests, RequestCancel, Reconcile, Override
    <3> QED BY <3>1 DEF Admits, TypeOK
  <2>2. CASE RequestCancel(c)
    <3>1. Begun(c, "provider", "cancel", NotSent, row) /\ row # NoRow /\ notice' = notice /\ row' = row
      BY <2>2, RequestsBegin DEF RequestCancel, tables
    <3>2. TypeOK'
      BY <2>1, <2>2, <3>1 DEF RequestCancel, Begun, TypeOK, tables, history
    <3> QED BY <3>1, <3>2, BegunSent DEF InvoiceStage
  <2>3. CASE Reconcile(c)
    <3>1. PICK v \in Verdict(row) : Begun(c, "transition", "reconcile", NotSent, v)
      BY <2>3, RequestsBegin
    <3>2. row # NoRow /\ notice' = notice /\ row' = row
      BY <2>3 DEF Reconcile, tables
    <3>3. TypeOK'
      BY <2>1, <2>3, <3>1 DEF Reconcile, Begun, TypeOK, tables, history
    <3> QED BY <3>1, <3>2, <3>3, BegunSent DEF InvoiceStage
  <2>4. CASE Override(c)
    <3>1. PICK t \in Tier : /\ userTier' = t
                           /\ Begun(c, "workspace", "override", NotSent, [Blank EXCEPT !.tier = t])
      BY <2>4, RequestsBegin
    <3>2. notice' = notice /\ row' = row
      BY <2>4 DEF Override
    <3>3. TypeOK'
      BY <2>1, <2>4, <3>1 DEF Override, BeginsTier, Begun, TypeOK
    <3> QED BY <3>1, <3>2, <3>3, BegunSent DEF InvoiceStage
  <2> QED BY <1>8, <2>2, <2>3, <2>4 DEF Requests
<1>9. CASE Crash(c)
  <2>1. Moved(c, "idle", call[c].writes)
    BY <1>9, WriteMoves
  <2>2. HasApplied(c) => call[c].event \in Event
    BY CallFields DEF HasApplied
  <2>3. crashes' \in 0..MaxCrashes
    BY <1>9 DEF Crash, TypeOK
  <2>4. notice' = notice /\ row' = row
    BY <1>9 DEF Crash, tables
  <2>5. TypeOK'
    BY <1>9, <2>1, <2>2, <2>3 DEF Crash, Moved, TypeOK, tables
  <2>6. SentInv' /\ RowInv'
    BY <2>1, <2>4, MovedSent, MovedRow DEF InvoiceStage
  <2> QED BY <2>5, <2>6
<1> QED BY <1>1, <1>2, <1>3, <1>4, <1>5, <1>6, <1>7, <1>8, <1>9 DEF Steps, Apply, Reading

(* The types are kept by every step.                                       *)
LEMMA TypeStep == ASSUME TypeInv, [Next]_vars PROVE TypeInv'
<1>1. CASE UNCHANGED vars
  BY <1>1 DEF TypeInv, TypeOK, SentInv, IsSent, RowInv, vars, tables, history
<1>2. CASE Next
  BY <1>2, WorldTyped, CallTyped DEF Next
<1> QED BY <1>1, <1>2

(* And they hold initially.                                                *)
LEMMA TypeInit == ASSUME Init PROVE TypeInv
<1>1. row \in Row \union {NoRow} /\ userTier \in Tier
  BY DEF Init, Row, Tier, Status, Until
<1>2. \A c \in Call : call[c] = Idle
  BY DEF Init
<1>3. 0 \in 0..MaxTime /\ 0 \in 0..MaxRequests /\ 0 \in 0..MaxCrashes
  OBVIOUS
<1>4. TypeOK
  BY <1>1, <1>3 DEF Init, TypeOK, CallState
<1>5. SentInv /\ RowInv
  BY <1>2 DEF Idle, SentInv, IsSent, RowInv
<1> QED BY <1>4, <1>5 DEF TypeInv

(* TypeOK: the tables, the calls and the histories keep their types.       *)
THEOREM TypeCorrect == Spec => []TypeOK
<1>1. Init => TypeInv
  BY TypeInit
<1>2. TypeInv /\ [Next]_vars => TypeInv'
  BY TypeStep
<1>3. TypeInv => TypeOK
  BY DEF TypeInv
<1> QED BY <1>1, <1>2, <1>3, PTL DEF Spec

-----------------------------------------------------------------------------
(* The tiers. Unless they are torn one call at a time writes them, and it  *)
(* finds the places it has written as it left them.                        *)
TierInv ==
    ~torn =>
      /\ \A c, d \in Call : Writing(c) /\ Writing(d) => c = d
      /\ \A c \in Call :
           /\ call[c].at = "user" =>
                row # NoRow /\ row.tier = call[c].writes.tier /\ ~overridden
           /\ call[c].at = "workspace" =>
                /\ userTier = call[c].writes.tier
                /\ row # NoRow /\ ~overridden => row.tier = userTier
      /\ TiersAgree

(* What no place of a tier and no writer of one changes keeps the          *)
(* invariant.                                                              *)
LEMMA TierKept ==
    ASSUME TierInv, torn' = torn, overridden' = overridden, userTier' = userTier,
           orgTier' = orgTier, row' = row \/ (row # NoRow /\ row' # NoRow /\ row'.tier = row.tier),
           \A c \in Call : \/ call'[c].at = call[c].at /\ call'[c].writes = call[c].writes
                           \/ ~Writing(c) /\ ~Writing(c)'
    PROVE  TierInv'
BY DEF TierInv, TiersAgree, Writing

(* A call that begins to write tiers.                                      *)
LEMMA TierBegun ==
    ASSUME TierInv, NEW c \in Call, ~Writing(c),
           NEW b \in BOOLEAN, BeginsTier(c, b), orgTier' = orgTier,
           \/ /\ ~b /\ row' # NoRow /\ call'[c].at = "user"
              /\ row'.tier = call'[c].writes.tier
           \/ /\ b /\ call'[c].at = "workspace" /\ userTier' = call'[c].writes.tier,
           \A d \in Call \ {c} : call'[d].at = call[d].at /\ call'[d].writes = call[d].writes
    PROVE  TierInv'
<1>1. torn' = (\E d \in Call \ {c} : Writing(d)) /\ overridden' = b
  BY DEF BeginsTier
<1>2. ASSUME ~torn', NEW d \in Call \ {c} PROVE ~Writing(d)'
  BY <1>1, <1>2 DEF Writing
<1>3. Writing(c)'
  BY DEF Writing
<1>4. ASSUME ~torn' PROVE \A d, e \in Call : Writing(d)' /\ Writing(e)' => d = e
  BY <1>2, <1>4
<1>5. ASSUME ~torn', NEW d \in Call
      PROVE  /\ call'[d].at = "user" =>
                  row' # NoRow /\ row'.tier = call'[d].writes.tier /\ ~overridden'
             /\ call'[d].at = "workspace" =>
                  /\ userTier' = call'[d].writes.tier
                  /\ row' # NoRow /\ ~overridden' => row'.tier = userTier'
  <2>1. CASE d = c
    BY <1>1, <2>1
  <2>2. CASE d # c
    <3>1. ~Writing(d)'
      BY <1>2, <1>5, <2>2
    <3> QED BY <3>1 DEF Writing
  <2> QED BY <2>1, <2>2
<1>6. TiersAgree'
  BY <1>3 DEF TiersAgree
<1> QED BY <1>4, <1>5, <1>6 DEF TierInv, Writing

(* The last two statements of a writer.                                    *)
LEMMA TierWritten ==
    ASSUME TypeInv, TierInv, NEW c \in Call, WriteUser(c) \/ WriteWorkspace(c)
    PROVE  TierInv'
<1> USE DEF TypeInv
<1>1. SUFFICES ASSUME ~torn PROVE TierInv'
  BY DEF TierInv, WriteUser, WriteWorkspace, history
<1>2. /\ Writing(c) /\ row' = row /\ torn' = torn /\ overridden' = overridden
  BY DEF Writing, WriteUser, WriteWorkspace, history
<1>3. \A d \in Call \ {c} : ~Writing(d)
  BY <1>1, <1>2 DEF TierInv
<1>4. \A d \in Call \ {c} : call'[d] = call[d]
  BY WriteMoves DEF Moved
<1>5. \A d \in Call \ {c} : ~Writing(d)'
  BY <1>3, <1>4 DEF Writing
<1>6. CASE WriteUser(c)
  <2>1. call'[c].at = "workspace" /\ call'[c].writes = call[c].writes
    BY <1>6, WriteMoves DEF Moved
  <2>2. userTier' = call[c].writes.tier /\ row # NoRow /\ row.tier = call[c].writes.tier
    BY <1>1, <1>6 DEF WriteUser, TierInv
  <2> QED BY <1>2, <1>5, <2>1, <2>2 DEF TierInv, TiersAgree, Writing
<1>7. CASE WriteWorkspace(c)
  <2>1. ~Writing(c)'
    BY <1>7, WriteMoves DEF Moved, Idle, Writing
  <2>2. /\ orgTier' = call[c].writes.tier /\ userTier' = userTier /\ userTier = call[c].writes.tier
        /\ row # NoRow /\ ~overridden => row.tier = userTier
    BY <1>1, <1>7 DEF WriteWorkspace, SyncWorkspace, TierInv
  <2> QED BY <1>2, <1>5, <2>1, <2>2 DEF TierInv, TiersAgree, Writing
<1> QED BY <1>6, <1>7

(* Every step keeps the tiers together, or says that they are torn.        *)
LEMMA TierStep == ASSUME TypeInv, TierInv, [Next]_vars PROVE TierInv'
<1> USE DEF TypeInv
<1>1. CASE UNCHANGED vars
  BY <1>1, TierKept DEF vars, tables, history
<1>2. CASE StartCheckout \/ Tick \/ \E e \in Event : Send(e)
  BY <1>2, TierKept DEF StartCheckout, Tick, Send, tables, history
<1>3. ASSUME NEW c \in Call, Reading(c) PROVE TierInv'
  <2>1. PICK stage, w : ReadMoved(c, stage, w)
    BY <1>3, ReadingMoves
  <2>2. ~Writing(c) /\ ~Writing(c)' /\ \A d \in Call \ {c} : call'[d] = call[d]
    BY <2>1 DEF ReadMoved, Moved, Writing, Idle
  <2> QED BY <2>1, <2>2, TierKept DEF ReadMoved, Reads, tables, history
<1>4. ASSUME NEW c \in Call, WriteInvoice(c) \/ RecordEvent(c) \/ CompleteSession(c) PROVE TierInv'
  <2>1. ~Writing(c)' /\ \A d \in Call \ {c} : call'[d] = call[d]
    BY <1>4, WriteMoves DEF Moved, Writing, Idle
  <2>2. ~Writing(c)
    BY <1>4 DEF WriteInvoice, RecordEvent, CompleteSession, Writing
  <2>3. UNCHANGED <<row, userTier, orgTier, history>>
    BY <1>4 DEF WriteInvoice, RecordEvent, CompleteSession
  <2> QED BY <2>1, <2>2, <2>3, TierKept DEF history
<1>5. ASSUME NEW c \in Call, InsertRow(c), row # NoRow PROVE TierInv'
  <2>1. Moved(c, "idle", call[c].writes) /\ UNCHANGED <<row, userTier, orgTier, history>>
    BY <1>5, RowWrites DEF InsertRow
  <2>2. ~Writing(c) /\ ~Writing(c)' /\ \A d \in Call \ {c} : call'[d] = call[d]
    BY <1>5, <2>1 DEF Moved, Writing, Idle, InsertRow
  <2> QED BY <2>1, <2>2, TierKept DEF history
<1>6. ASSUME NEW c \in Call, UpdateRow(c) \/ (InsertRow(c) /\ row = NoRow) PROVE TierInv'
  <2>1. row' \in Row /\ MovedFromRow(c, "user")
    BY <1>6, RowWrites
  <2>2. ~Writing(c) /\ row' = call[c].writes /\ BeginsTier(c, FALSE) /\ orgTier' = orgTier
    BY <1>6 DEF UpdateRow, InsertRow, Writing
  <2>3. row' # NoRow
    BY <2>1
  <2>4. /\ call'[c].at = "user" /\ row'.tier = call'[c].writes.tier
        /\ \A d \in Call \ {c} : call'[d].at = call[d].at /\ call'[d].writes = call[d].writes
    BY <2>1, <2>2 DEF MovedFromRow
  <2> QED BY <2>2, <2>3, <2>4, TierBegun
<1>7. ASSUME NEW c \in Call, Transition(c) PROVE TierInv'
  <2>1. row # NoRow
    BY <1>7, CallFields DEF Transition, StagesOf, Op, RowInv
  <2>2. row' \in Row /\ row'.tier = call[c].writes.tier /\ MovedFromRow(c, "user")
    BY <1>7, <2>1, RowWrites
  <2>3. ~Writing(c) /\ BeginsTier(c, FALSE) /\ orgTier' = orgTier
    BY <1>7 DEF Transition, Writing
  <2>4. row' # NoRow
    BY <2>2
  <2>5. /\ call'[c].at = "user" /\ row'.tier = call'[c].writes.tier
        /\ \A d \in Call \ {c} : call'[d].at = call[d].at /\ call'[d].writes = call[d].writes
    BY <2>2 DEF MovedFromRow
  <2> QED BY <2>3, <2>4, <2>5, TierBegun
<1>8. ASSUME NEW c \in Call, MarkCancel(c) PROVE TierInv'
  <2>1. row # NoRow
    BY <1>8, CallFields DEF MarkCancel, StagesOf, Op, RowInv
  <2>2. row' \in Row /\ row'.tier = row.tier /\ MovedFromRow(c, "idle")
    BY <1>8, <2>1, RowWrites
  <2>3. ~Writing(c) /\ UNCHANGED <<userTier, orgTier, history>>
    BY <1>8 DEF MarkCancel, Writing
  <2>4. row' # NoRow
    BY <2>2
  <2>5. /\ ~Writing(c)'
        /\ \A d \in Call \ {c} : call'[d].at = call[d].at /\ call'[d].writes = call[d].writes
    BY <2>2 DEF MovedFromRow, Writing, Idle
  <2> QED BY <2>1, <2>2, <2>3, <2>4, <2>5, TierKept DEF history
<1>9. ASSUME NEW c \in Call, NEW e \in Event, Deliver(c, e) PROVE TierInv'
  <2>1. Begun(c, "lookup", "deliver", e, Blank)
    BY <1>9, RequestsBegin
  <2>2. ~Writing(c) /\ ~Writing(c)' /\ \A d \in Call \ {c} : call'[d] = call[d]
    BY <2>1 DEF Begun, Writing, Idle
  <2> QED BY <1>9, <2>2, TierKept DEF Deliver, tables
<1>10. ASSUME NEW c \in Call, RequestCancel(c) \/ Reconcile(c) PROVE TierInv'
  <2>1. \E stage \in {"provider", "transition"} : \E o, w : Begun(c, stage, o, NotSent, w)
    BY <1>10, RequestsBegin
  <2>2. ~Writing(c) /\ ~Writing(c)' /\ \A d \in Call \ {c} : call'[d] = call[d]
    BY <2>1 DEF Begun, Writing, Idle
  <2> QED BY <1>10, <2>2, TierKept DEF RequestCancel, Reconcile, tables, history
<1>11. ASSUME NEW c \in Call, Override(c) PROVE TierInv'
  <2>1. PICK t \in Tier : /\ userTier' = t
                         /\ Begun(c, "workspace", "override", NotSent, [Blank EXCEPT !.tier = t])
    BY <1>11, RequestsBegin
  <2>2. /\ ~Writing(c) /\ call'[c].at = "workspace" /\ userTier' = call'[c].writes.tier
        /\ \A d \in Call \ {c} : call'[d] = call[d]
    BY <2>1 DEF Begun, Writing, Idle, Blank
  <2>3. BeginsTier(c, TRUE) /\ orgTier' = orgTier
    BY <1>11 DEF Override
  <2> QED BY <2>2, <2>3, TierBegun
<1>12. ASSUME NEW c \in Call, Crash(c) PROVE TierInv'
  <2>1. Moved(c, "idle", call[c].writes)
    BY <1>12, WriteMoves
  <2>2. UNCHANGED <<row, userTier, orgTier, overridden>> /\ torn' = (torn \/ Writing(c))
    BY <1>12 DEF Crash, tables
  <2>3. CASE Writing(c)
    BY <2>2, <2>3 DEF TierInv
  <2>4. CASE ~Writing(c)
    <3>1. ~Writing(c)' /\ \A d \in Call \ {c} : call'[d] = call[d]
      BY <2>1 DEF Moved, Writing, Idle
    <3>2. torn' = torn
      BY <2>2, <2>4 DEF TypeOK
    <3> QED BY <2>2, <2>4, <3>1, <3>2, TierKept
  <2> QED BY <2>3, <2>4
<1>13. ASSUME NEW c \in Call, WriteUser(c) \/ WriteWorkspace(c) PROVE TierInv'
  BY <1>13, TierWritten
<1> QED BY <1>1, <1>2, <1>3, <1>4, <1>5, <1>6, <1>7, <1>8, <1>9, <1>10, <1>11, <1>12, <1>13
        DEF Next, Steps, Apply, Requests, Reading

(* TiersAgree: the row, the account and the workspace name one tier.       *)
THEOREM TiersTogether == Spec => []TiersAgree
<1>1. Init => TypeInv /\ TierInv
  <2>1. ASSUME Init PROVE TierInv
    BY <2>1 DEF Init, Idle, TierInv, TiersAgree, Writing
  <2> QED BY <2>1, TypeInit
<1>2. TypeInv /\ TierInv /\ [Next]_vars => TypeInv' /\ TierInv'
  BY TypeStep, TierStep
<1>3. TierInv => TiersAgree
  BY DEF TierInv, TiersAgree
<1> QED BY <1>1, <1>2, <1>3, PTL DEF Spec

-----------------------------------------------------------------------------
(* One application of each event.                                          *)
BeforeRow == {"tier", "readInvoice", "insertInvoice", "updateInvoice", "read", "insert", "update"}
AfterRow == {"user", "workspace", "record"}

OnceInv ==
    /\ AppliedOnce
    /\ \A e \in Event \ excused :
         /\ \A c, d \in Call : Delivers(c, e) /\ Delivers(d, e) => c = d
         /\ e \in applied =>
              e \in recorded \/ \E c \in Call : Delivers(c, e) /\ call[c].at \in AfterRow
         /\ \A c \in Call : Delivers(c, e) /\ call[c].at \in BeforeRow => e \notin applied

(* A step that applies and records nothing, and that takes no call from    *)
(* between the two.                                                        *)
LEMMA OnceKept ==
    ASSUME TypeInv, OnceInv, applied' = applied, twice' = twice, excused \subseteq excused',
           recorded' = recorded,
           \A c \in Call, e \in Event \ excused' :
             /\ Delivers(c, e)' => Delivers(c, e)
             /\ Delivers(c, e)' /\ call'[c].at \in BeforeRow =>
                  \/ call[c].at \in BeforeRow
                  \/ call[c].at = "lookup" /\ e \notin recorded
             /\ Delivers(c, e) /\ call[c].at \in AfterRow =>
                  Delivers(c, e)' /\ call'[c].at \in AfterRow
    PROVE  OnceInv'
<1>1. AppliedOnce'
  BY DEF OnceInv, AppliedOnce
<1>2. ASSUME NEW e \in Event \ excused'
      PROVE  /\ \A c, d \in Call : Delivers(c, e)' /\ Delivers(d, e)' => c = d
             /\ e \in applied' => \/ e \in recorded'
                                  \/ \E c \in Call : Delivers(c, e)' /\ call'[c].at \in AfterRow
             /\ \A c \in Call : Delivers(c, e)' /\ call'[c].at \in BeforeRow => e \notin applied'
  <2>1. e \in Event \ excused
    OBVIOUS
  <2>2. \A c, d \in Call : Delivers(c, e)' /\ Delivers(d, e)' => c = d
    BY <2>1 DEF OnceInv
  <2>3. e \in applied' => \/ e \in recorded'
                          \/ \E c \in Call : Delivers(c, e)' /\ call'[c].at \in AfterRow
    BY <2>1 DEF OnceInv
  <2>4. ASSUME NEW c \in Call, Delivers(c, e)', call'[c].at \in BeforeRow PROVE e \notin applied'
    <3>1. CASE call[c].at \in BeforeRow
      BY <2>1, <2>4, <3>1 DEF OnceInv
    <3>2. CASE call[c].at = "lookup" /\ e \notin recorded
      <4>1. \A d \in Call : Delivers(d, e) => call[d].at \notin AfterRow
        BY <2>1, <2>4, <3>2 DEF OnceInv, AfterRow
      <4> QED BY <2>1, <3>2, <4>1 DEF OnceInv
    <3> QED BY <2>4, <3>1, <3>2
  <2> QED BY <2>2, <2>3, <2>4
<1> QED BY <1>1, <1>2 DEF OnceInv, Delivers

(* The row is written for an event that was not applied.                   *)
LEMMA OnceApplied ==
    ASSUME TypeInv, OnceInv, NEW c \in Call, UpdateRow(c) \/ (InsertRow(c) /\ row = NoRow)
    PROVE  OnceInv'
<1> DEFINE e == call[c].event
<1>1. /\ Delivers(c, e) /\ call[c].at \in BeforeRow /\ e \in Event
  BY DeliveryStages DEF UpdateRow, InsertRow, Delivers, BeforeRow, TypeInv
<1>2. MovedFromRow(c, "user")
  BY RowWrites
<1>3. Applies(e) /\ recorded' = recorded
  BY DEF UpdateRow, InsertRow
<1>4. \A d \in Call, f \in Event : Delivers(d, f)' <=> Delivers(d, f)
  BY <1>2 DEF MovedFromRow, Delivers
<1>5. \A d \in Call \ {c} : call'[d].at = call[d].at
  BY <1>2 DEF MovedFromRow
<1>6. Delivers(c, e)' /\ call'[c].at \in AfterRow /\ call'[c].at \notin BeforeRow
  BY <1>1, <1>2 DEF MovedFromRow, Delivers, AfterRow, BeforeRow
<1> HIDE DEF e
<1>7. applied' = applied \union {e} /\ excused' = excused
  BY <1>3 DEF Applies
<1>8. AppliedOnce'
  <2>1. e \in applied => e \in excused
    BY <1>1 DEF OnceInv
  <2> QED BY <1>3, <2>1 DEF OnceInv, AppliedOnce, Applies
<1>9. ASSUME NEW f \in Event \ excused
      PROVE  /\ \A a, b \in Call : Delivers(a, f)' /\ Delivers(b, f)' => a = b
             /\ f \in applied' => \/ f \in recorded'
                                  \/ \E a \in Call : Delivers(a, f)' /\ call'[a].at \in AfterRow
             /\ \A a \in Call : Delivers(a, f)' /\ call'[a].at \in BeforeRow => f \notin applied'
  <2>1. CASE f = e
    BY <1>1, <1>4, <1>6, <2>1 DEF OnceInv
  <2>2. CASE f # e
    <3>1. ~Delivers(c, f)
      BY <1>1, <2>2 DEF Delivers
    <3> QED BY <1>3, <1>4, <1>5, <1>7, <2>2, <3>1 DEF OnceInv
  <2> QED BY <2>1, <2>2
<1> QED BY <1>7, <1>8, <1>9 DEF OnceInv, Delivers

(* Every step keeps the account of what was applied.                       *)
LEMMA OnceStep == ASSUME TypeInv, OnceInv, [Next]_vars PROVE OnceInv'
<1> USE DEF TypeInv
<1>1. CASE UNCHANGED vars
  BY <1>1, OnceKept DEF vars, tables, history, Delivers
<1>2. CASE StartCheckout \/ Tick \/ \E e \in Event : Send(e)
  BY <1>2, OnceKept DEF StartCheckout, Tick, Send, tables, history, Delivers
<1>3. ASSUME NEW c \in Call, Reading(c) PROVE OnceInv'
  <2>1. PICK stage, w : ReadMoved(c, stage, w)
    BY <1>3, ReadingMoves
  <2>2. \A d \in Call, e \in Event : Delivers(d, e)' => Delivers(d, e)
    BY <2>1 DEF ReadMoved, Moved, Delivers, Idle
  <2>3. ASSUME NEW d \in Call, NEW e \in Event, Delivers(d, e)', call'[d].at \in BeforeRow
        PROVE  call[d].at \in BeforeRow \/ (call[d].at = "lookup" /\ e \notin recorded)
    BY <2>1, <2>2, <2>3 DEF ReadMoved, Moved, Delivers, BeforeRow, Idle
  <2>4. call[c].at \notin AfterRow /\ \A d \in Call \ {c} : call'[d] = call[d]
    BY <2>1 DEF ReadMoved, Moved, AfterRow
  <2> QED BY <2>1, <2>2, <2>3, <2>4, OnceKept DEF ReadMoved, Reads, tables, history, Delivers
<1>4. ASSUME NEW c \in Call,
             WriteInvoice(c) \/ WriteUser(c) \/ WriteWorkspace(c) \/ CompleteSession(c)
               \/ (InsertRow(c) /\ row # NoRow)
      PROVE  OnceInv'
  <2>1. UNCHANGED <<recorded, history>>
    BY <1>4 DEF WriteInvoice, WriteUser, WriteWorkspace, CompleteSession, InsertRow
  <2>2. \E stage \in {"idle", "read", "workspace", "record"} : Moved(c, stage, call[c].writes)
    BY <1>4, WriteMoves, RowWrites
  <2>3. \A d \in Call, e \in Event : Delivers(d, e)' => Delivers(d, e)
    BY <2>2 DEF Moved, Delivers, Idle
  <2>4. call'[c].at \in BeforeRow => call[c].at \in BeforeRow
    <3>1. call'[c].at = "read" => WriteInvoice(c)
      BY <1>4, WriteMoves, RowWrites DEF Moved, Idle
    <3> QED BY <2>2, <3>1 DEF Moved, Idle, BeforeRow, WriteInvoice
  <2>5. ASSUME NEW e \in Event, Delivers(c, e), call[c].at \in AfterRow
        PROVE  Delivers(c, e)' /\ call'[c].at \in AfterRow
    <3>1. WriteUser(c) \/ WriteWorkspace(c)
      BY <1>4, <2>5 DEF WriteInvoice, CompleteSession, InsertRow, AfterRow
    <3>2. call'[c].at \in AfterRow /\ call'[c].op = call[c].op /\ call'[c].event = call[c].event
      <4>1. CASE WriteUser(c)
        BY <4>1, WriteMoves DEF Moved, AfterRow
      <4>2. CASE WriteWorkspace(c)
        <5>1. call[c].op = "deliver" /\ call[c].at = "workspace" /\ Goto(c, "record")
          BY <2>5, <4>2 DEF WriteWorkspace, Delivers
        <5>2. Moved(c, "record", call[c].writes)
          BY <5>1, GotoMoves DEF StagesOf
        <5> QED BY <5>2 DEF Moved, AfterRow
      <4> QED BY <3>1, <4>1, <4>2
    <3> QED BY <2>5, <3>2 DEF Delivers
  <2>6. \A d \in Call \ {c} : call'[d] = call[d]
    BY <2>2 DEF Moved
  <2> QED BY <2>1, <2>3, <2>4, <2>5, <2>6, OnceKept DEF history, Delivers
<1>5. ASSUME NEW c \in Call, UpdateRow(c) \/ (InsertRow(c) /\ row = NoRow) PROVE OnceInv'
  BY <1>5, OnceApplied
<1>6. ASSUME NEW c \in Call, MarkCancel(c) \/ Transition(c) PROVE OnceInv'
  <2>1. call[c].op \in {"cancel", "reconcile"}
    BY <1>6, CallFields DEF MarkCancel, Transition, StagesOf, Op
  <2>2. MovedFromRow(c, "user") \/ MovedFromRow(c, "idle")
    BY <1>6, <2>1, RowWrites DEF RowInv
  <2>3. \A d \in Call, e \in Event : Delivers(d, e)' <=> Delivers(d, e)
    BY <2>1, <2>2 DEF MovedFromRow, Delivers, Idle
  <2>4. \A e \in Event : ~Delivers(c, e)
    BY <2>1 DEF Delivers
  <2>5. UNCHANGED <<recorded, applied, twice, excused>>
    BY <1>6 DEF MarkCancel, Transition, history
  <2>6. \A d \in Call \ {c} : call'[d].at = call[d].at
    BY <2>2 DEF MovedFromRow
  <2> QED BY <2>3, <2>4, <2>5, <2>6, OnceKept
<1>7. ASSUME NEW c \in Call, NEW e \in Event, Deliver(c, e) PROVE OnceInv'
  <2>1. Begun(c, "lookup", "deliver", e, Blank)
    BY <1>7, RequestsBegin
  <2>2. /\ applied' = applied /\ twice' = twice /\ recorded' = recorded
        /\ excused' = IF \E d \in Call : Delivers(d, e) THEN excused \union {e} ELSE excused
    BY <1>7 DEF Deliver, tables
  <2>3. /\ \A f \in Event : ~Delivers(c, f)
        /\ \A f \in Event \ {e} : ~Delivers(c, f)'
        /\ call'[c].at = "lookup"
        /\ \A d \in Call \ {c} : call'[d] = call[d]
    BY <2>1 DEF Begun, Delivers, Idle
  <2>4. AppliedOnce'
    BY <2>2 DEF OnceInv, AppliedOnce
  <2>5. ASSUME NEW f \in Event \ excused'
        PROVE  /\ \A a, b \in Call : Delivers(a, f)' /\ Delivers(b, f)' => a = b
               /\ f \in applied' => \/ f \in recorded'
                                    \/ \E a \in Call : Delivers(a, f)' /\ call'[a].at \in AfterRow
               /\ \A a \in Call : Delivers(a, f)' /\ call'[a].at \in BeforeRow => f \notin applied'
    <3>1. f \in Event \ excused /\ (f = e => \A d \in Call : ~Delivers(d, e))
      BY <2>2
    <3>2. \A a \in Call \ {c} : Delivers(a, f)' <=> Delivers(a, f)
      BY <2>3 DEF Delivers
    <3>3. \A a, b \in Call : Delivers(a, f)' /\ Delivers(b, f)' => a = b
      BY <2>3, <3>1, <3>2 DEF OnceInv
    <3>4. f \in applied' => \/ f \in recorded'
                            \/ \E a \in Call : Delivers(a, f)' /\ call'[a].at \in AfterRow
      BY <2>2, <2>3, <3>1, <3>2 DEF OnceInv
    <3>5. \A a \in Call : Delivers(a, f)' /\ call'[a].at \in BeforeRow => f \notin applied'
      BY <2>2, <2>3, <3>1, <3>2 DEF OnceInv, BeforeRow
    <3> QED BY <3>3, <3>4, <3>5
  <2> QED BY <2>4, <2>5 DEF OnceInv, Delivers
<1>8. ASSUME NEW c \in Call, Requests(c) PROVE OnceInv'
  <2>1. \E o \in {"cancel", "reconcile", "override"} : \E stage, w : Begun(c, stage, o, NotSent, w)
    BY <1>8, RequestsBegin DEF Requests
  <2>2. \A d \in Call, e \in Event : Delivers(d, e)' <=> Delivers(d, e)
    BY <2>1 DEF Begun, Delivers, Idle
  <2>3. (\A e \in Event : ~Delivers(c, e)) /\ \A d \in Call \ {c} : call'[d] = call[d]
    BY <2>1 DEF Begun, Delivers, Idle
  <2>4. UNCHANGED <<recorded, applied, twice, excused>>
    BY <1>8 DEF Requests, RequestCancel, Reconcile, Override, tables, history
  <2> QED BY <2>2, <2>3, <2>4, OnceKept
<1>9. ASSUME NEW c \in Call, Crash(c) PROVE OnceInv'
  <2>1. Moved(c, "idle", call[c].writes)
    BY <1>9, WriteMoves
  <2>2. /\ applied' = applied /\ twice' = twice /\ recorded' = recorded
        /\ excused' = IF HasApplied(c) THEN excused \union {call[c].event} ELSE excused
    BY <1>9 DEF Crash, tables
  <2>3. /\ \A e \in Event : ~Delivers(c, e)'
        /\ \A d \in Call \ {c} : call'[d] = call[d]
    BY <2>1 DEF Moved, Idle, Delivers
  <2>4. ASSUME NEW e \in Event \ excused', Delivers(c, e) PROVE call[c].at \notin AfterRow
    BY <2>2, <2>4 DEF HasApplied, Delivers, AfterRow
  <2>5. excused \subseteq excused'
    BY <2>2
  <2>6. \A d \in Call \ {c}, e \in Event : Delivers(d, e)' <=> Delivers(d, e)
    BY <2>3 DEF Delivers
  <2> QED BY <2>2, <2>3, <2>4, <2>5, <2>6, OnceKept
<1>10. ASSUME NEW c \in Call, RecordEvent(c) PROVE OnceInv'
  <2> DEFINE e == call[c].event
  <2>1. /\ Delivers(c, e) /\ e \in Event /\ recorded' = recorded \union {e}
        /\ UNCHANGED history
    BY <1>10, DeliveryStages DEF RecordEvent, Delivers
  <2>2. Moved(c, "session", call[c].writes) \/ Moved(c, "idle", call[c].writes)
    BY <1>10, WriteMoves
  <2>3. /\ \A f \in Event \ {e} : ~Delivers(c, f) /\ ~Delivers(c, f)'
        /\ call'[c].at \notin BeforeRow
        /\ \A d \in Call \ {c} : call'[d] = call[d]
    BY <2>2 DEF Moved, Idle, Delivers, BeforeRow
  <2> HIDE DEF e
  <2>4. AppliedOnce'
    BY <2>1 DEF OnceInv, AppliedOnce, history
  <2>5. ASSUME NEW f \in Event \ excused'
        PROVE  /\ \A a, b \in Call : Delivers(a, f)' /\ Delivers(b, f)' => a = b
               /\ f \in applied' => \/ f \in recorded'
                                    \/ \E a \in Call : Delivers(a, f)' /\ call'[a].at \in AfterRow
               /\ \A a \in Call : Delivers(a, f)' /\ call'[a].at \in BeforeRow => f \notin applied'
    <3>1. f \in Event \ excused /\ applied' = applied
      BY <2>1 DEF history
    <3>2. \A a \in Call \ {c} : Delivers(a, f)' <=> Delivers(a, f)
      BY <2>3 DEF Delivers
    <3>3. Delivers(c, f)' => Delivers(c, f)
      BY <2>1, <2>3
    <3>4. f # e => ~Delivers(c, f)
      BY <2>3
    <3> QED BY <2>1, <2>3, <3>1, <3>2, <3>3, <3>4 DEF OnceInv
  <2> QED BY <2>4, <2>5 DEF OnceInv, Delivers
<1> QED BY <1>1, <1>2, <1>3, <1>4, <1>5, <1>6, <1>7, <1>8, <1>9, <1>10 DEF Next, Steps, Apply, Reading

(* AppliedOnce: an event is applied again only for a reason.               *)
THEOREM EventsAppliedOnce == Spec => []AppliedOnce
<1>1. Init => TypeInv /\ OnceInv
  <2>1. ASSUME Init PROVE OnceInv
    BY <2>1 DEF Init, Idle, OnceInv, AppliedOnce, Delivers
  <2> QED BY <2>1, TypeInit
<1>2. TypeInv /\ OnceInv /\ [Next]_vars => TypeInv' /\ OnceInv'
  BY TypeStep, OnceStep
<1>3. OnceInv => AppliedOnce
  BY DEF OnceInv
<1> QED BY <1>1, <1>2, <1>3, PTL DEF Spec

-----------------------------------------------------------------------------
(* Who gives a tier back, or drops a cancellation.                         *)

(* A reconciliation with a fresh copy of the row ends the subscription, or *)
(* is about a paid tier nobody cancelled.                                  *)
SnapshotInv ==
    \A c \in Call : call[c].at = "transition" /\ ~call[c].stale =>
        call[c].writes.tier = "free" \/ (row.tier # "free" /\ ~row.cancels)

(* A step that leaves the row, and copies of it, alone.                    *)
LEMMA SnapshotKept ==
    ASSUME SnapshotInv, row' = row,
           \A c \in Call : call'[c].at = "transition" => call'[c] = call[c]
    PROVE  SnapshotInv'
BY DEF SnapshotInv

(* A step that writes the row leaves no fresh copy of it.                  *)
LEMMA SnapshotsStale ==
    ASSUME NEW c \in Call, MovedFromRow(c, "user") \/ MovedFromRow(c, "idle")
    PROVE  SnapshotInv'
<1>1. ASSUME NEW d \in Call PROVE call'[d].at = "transition" => call'[d].stale
  <2>1. CASE d = c
    BY <2>1 DEF MovedFromRow, Idle
  <2>2. CASE d # c
    BY <2>2 DEF MovedFromRow
  <2> QED BY <2>1, <2>2
<1> QED BY <1>1 DEF SnapshotInv

(* Every step keeps what is known of copies.                               *)
LEMMA SnapshotStep == ASSUME TypeInv, SnapshotInv, [Next]_vars PROVE SnapshotInv'
<1> USE DEF TypeInv
<1>1. CASE UNCHANGED vars \/ StartCheckout \/ Tick \/ \E e \in Event : Send(e)
  BY <1>1, SnapshotKept DEF vars, StartCheckout, Tick, Send, tables
<1>2. ASSUME NEW c \in Call,
             Reading(c) \/ WriteInvoice(c) \/ WriteUser(c) \/ WriteWorkspace(c) \/ RecordEvent(c)
               \/ CompleteSession(c) \/ Crash(c) \/ (InsertRow(c) /\ row # NoRow)
      PROVE  SnapshotInv'
  <2>1. \E stage : stage # "transition" /\ \E w : Moved(c, stage, w)
    <3>1. CASE Reading(c)
      BY <3>1, ReadingMoves DEF ReadMoved
    <3>2. CASE ~Reading(c)
      BY <1>2, <3>2, WriteMoves, RowWrites
    <3> QED BY <3>1, <3>2
  <2>2. \A d \in Call : call'[d].at = "transition" => call'[d] = call[d]
    BY <2>1 DEF Moved, Idle
  <2>3. row' = row
    BY <1>2 DEF Reading, Lookup, ReadTier, ReadInvoice, ReadRow, ScheduleCancel, Reads,
                WriteInvoice, WriteUser, WriteWorkspace, RecordEvent, CompleteSession, Crash,
                InsertRow, tables
  <2> QED BY <2>2, <2>3, SnapshotKept
<1>3. ASSUME NEW c \in Call,
             UpdateRow(c) \/ (InsertRow(c) /\ row = NoRow) \/ MarkCancel(c) \/ Transition(c)
      PROVE  SnapshotInv'
  <2>1. MarkCancel(c) \/ Transition(c) => row # NoRow
    BY CallFields DEF MarkCancel, Transition, StagesOf, Op, RowInv
  <2>2. MovedFromRow(c, "user") \/ MovedFromRow(c, "idle")
    BY <1>3, <2>1, RowWrites
  <2> QED BY <2>2, SnapshotsStale
<1>4. ASSUME NEW c \in Call, RequestCancel(c) \/ Override(c) \/ \E e \in Event : Deliver(c, e)
      PROVE  SnapshotInv'
  <2>1. \E stage \in {"lookup", "provider", "workspace"} : \E o, e, w : Begun(c, stage, o, e, w)
    BY <1>4, RequestsBegin
  <2>2. \A d \in Call : call'[d].at = "transition" => call'[d] = call[d]
    BY <2>1 DEF Begun
  <2>3. row' = row
    BY <1>4 DEF RequestCancel, Override, Deliver, tables
  <2> QED BY <2>2, <2>3, SnapshotKept
<1>5. ASSUME NEW c \in Call, Reconcile(c) PROVE SnapshotInv'
  <2>1. row \in Row /\ row' = row
    BY <1>5, RequestsBegin DEF Reconcile, tables
  <2>2. PICK v \in Verdict(row) : Begun(c, "transition", "reconcile", NotSent, v)
    BY <1>5, RequestsBegin
  <2>3. v.tier = "free" \/ (row.tier # "free" /\ ~row.cancels)
    BY <2>1, Verdicts
  <2>4. call'[c].writes = v /\ \A d \in Call \ {c} : call'[d] = call[d]
    BY <2>2 DEF Begun
  <2> QED BY <2>1, <2>3, <2>4 DEF SnapshotInv
<1> QED BY <1>1, <1>2, <1>3, <1>4, <1>5 DEF Next, Steps, Apply, Requests, Reading

(* OnlyProviderRevives: a call that is no delivery brings a paid tier      *)
(* back, or drops a cancellation, only from a stale copy of the row.       *)
THEOREM OnlyTheProviderRevives == Spec => OnlyProviderRevives
<1> DEFINE Excused == \E c \in Call : \/ call[c].at \in {"insert", "update"}
                                      \/ call[c].at = "transition" /\ call[c].stale
<1>1. ASSUME TypeInv, SnapshotInv, Next, Revives PROVE Excused
  <2>1. row \in Row /\ row # NoRow
    BY <1>1 DEF TypeInv, TypeOK, Revives
  <2>2. row' # row
    BY <1>1, <2>1 DEF Revives, Row
  <2>3. PICK c \in Call : UpdateRow(c) \/ InsertRow(c) \/ MarkCancel(c) \/ Transition(c)
    BY <1>1, <2>2 DEF Next, Steps, Apply, Requests, StartCheckout, Tick, Send, Deliver, Lookup, ReadTier,
                      ReadInvoice, WriteInvoice, ReadRow, RecordEvent, CompleteSession, WriteUser,
                      WriteWorkspace, ScheduleCancel, RequestCancel, Reconcile, Override, Crash,
                      Reads, tables
  <2>4. CASE UpdateRow(c) \/ InsertRow(c)
    BY <2>4 DEF UpdateRow, InsertRow
  <2>5. CASE MarkCancel(c)
    <3>1. row'.tier = row.tier /\ row'.cancels
      BY <1>1, <2>1, <2>5, RowWrites
    <3> QED BY <1>1, <3>1 DEF Revives
  <2>6. CASE Transition(c)
    <3>1. row'.tier = call[c].writes.tier /\ call[c].at = "transition"
      BY <1>1, <2>1, <2>6, RowWrites DEF Transition
    <3>2. call[c].stale
      <4>1. ASSUME ~call[c].stale PROVE FALSE
        <5>1. call[c].writes.tier = "free" \/ (row.tier # "free" /\ ~row.cancels)
          BY <1>1, <3>1, <4>1 DEF SnapshotInv
        <5> QED BY <1>1, <3>1, <5>1 DEF Revives
      <4> QED BY <4>1
    <3> QED BY <3>1, <3>2
  <2> QED BY <2>3, <2>4, <2>5, <2>6
<1>2. Init => TypeInv /\ SnapshotInv
  <2>1. ASSUME Init PROVE SnapshotInv
    BY <2>1 DEF Init, Idle, SnapshotInv
  <2> QED BY <2>1, TypeInit
<1>3. TypeInv /\ SnapshotInv /\ [Next]_vars => TypeInv' /\ SnapshotInv'
  BY TypeStep, SnapshotStep
<1>4. TypeInv /\ SnapshotInv /\ [Next]_vars => [Revives => Excused]_vars
  BY <1>1
<1> QED BY <1>2, <1>3, <1>4, PTL DEF Spec, OnlyProviderRevives

-----------------------------------------------------------------------------
(* One request at a time.                                                  *)

(* Nothing happens then that any property makes an exception for.          *)
Undisturbed == ~torn /\ excused = {} /\ \A c \in Call : ~call[c].stale

(* A call that writes the row, and is the only one, has no stale copy.     *)
LEMMA FromRowFresh ==
    ASSUME OneAtATime, TypeOK, NEW c \in Call, call[c].at # "idle", ~call[c].stale,
           NEW stage, GotoFromRow(c, stage)
    PROVE  \A d \in Call : ~call'[d].stale
<1>1. call[c] \in Fields
  BY CallFields
<1>2. CASE stage = "idle"
  <2>1. call'[c] = Idle
    BY <1>2 DEF GotoFromRow
  <2> QED BY <2>1 DEF OneAtATime, Idle
<1>3. CASE stage # "idle"
  <2>1. call'[c] = [call[c] EXCEPT !.at = stage]
    BY <1>3 DEF GotoFromRow
  <2>2. call'[c].stale = call[c].stale
    BY <1>1, <2>1 DEF Fields
  <2> QED BY <2>2 DEF OneAtATime
<1> QED BY <1>2, <1>3

(* No step disturbs the only request.                                      *)
LEMMA UndisturbedStep ==
    ASSUME OneAtATime, TypeInv, Undisturbed, [Next]_vars
    PROVE  Undisturbed'
<1> USE DEF TypeInv
<1>1. CASE UNCHANGED vars \/ StartCheckout \/ Tick \/ \E e \in Event : Send(e)
  BY <1>1 DEF vars, history, StartCheckout, Tick, Send, Undisturbed
<1>2. ASSUME NEW c \in Call,
             Reading(c) \/ WriteInvoice(c) \/ WriteUser(c) \/ WriteWorkspace(c) \/ RecordEvent(c)
               \/ CompleteSession(c) \/ (InsertRow(c) /\ row # NoRow)
      PROVE  Undisturbed'
  <2>1. \E stage, w : Moved(c, stage, w)
    <3>1. CASE Reading(c)
      BY <3>1, ReadingMoves DEF ReadMoved
    <3>2. CASE ~Reading(c)
      BY <1>2, <3>2, WriteMoves, RowWrites
    <3> QED BY <3>1, <3>2
  <2>2. \A d \in Call : ~call'[d].stale
    BY <2>1 DEF Moved, Idle, Undisturbed
  <2>3. torn' = torn /\ excused' = excused
    BY <1>2 DEF Reading, Lookup, ReadTier, ReadInvoice, ReadRow, ScheduleCancel, Reads,
                WriteInvoice, WriteUser, WriteWorkspace, RecordEvent, CompleteSession,
                InsertRow, history
  <2> QED BY <2>2, <2>3 DEF Undisturbed
<1>3. ASSUME NEW c \in Call,
             UpdateRow(c) \/ (InsertRow(c) /\ row = NoRow) \/ MarkCancel(c) \/ Transition(c)
      PROVE  Undisturbed'
  <2>1. call[c].at # "idle" /\ (GotoFromRow(c, "user") \/ GotoFromRow(c, "idle"))
    BY <1>3 DEF UpdateRow, InsertRow, MarkCancel, Transition
  <2>2. \A d \in Call : ~call'[d].stale
    BY <2>1, FromRowFresh DEF Undisturbed
  <2>3. excused' = excused /\ (torn' = torn \/ torn' = \E d \in Call \ {c} : Writing(d))
    BY <1>3 DEF UpdateRow, InsertRow, MarkCancel, Transition, BeginsTier, Applies, history
  <2>4. ~torn'
    BY <2>3 DEF Undisturbed, OneAtATime
  <2> QED BY <2>2, <2>3, <2>4 DEF Undisturbed
<1>4. ASSUME NEW c \in Call, Requests(c) \/ \E e \in Event : Deliver(c, e)
      PROVE  Undisturbed'
  <2>1. \E stage, o, e, w : Begun(c, stage, o, e, w)
    BY <1>4, RequestsBegin DEF Requests
  <2>2. \A d \in Call : ~call'[d].stale
    BY <2>1 DEF Begun, OneAtATime
  <2>3. \A e \in Event : ~Delivers(c, e)
    BY <2>1 DEF Begun, Idle, Delivers
  <2>4. excused' = excused
    BY <1>4, <2>3 DEF Requests, RequestCancel, Reconcile, Override, Deliver, OneAtATime, history
  <2>5. torn' = torn \/ torn' = \E d \in Call \ {c} : Writing(d)
    BY <1>4 DEF Requests, RequestCancel, Reconcile, Override, Deliver, BeginsTier, history
  <2>6. ~torn'
    BY <2>5 DEF Undisturbed, OneAtATime
  <2> QED BY <2>2, <2>4, <2>6 DEF Undisturbed
<1>5. ASSUME NEW c \in Call, Crash(c) PROVE FALSE
  BY <1>5 DEF Crash, TypeOK, OneAtATime
<1> QED BY <1>1, <1>2, <1>3, <1>4, <1>5 DEF Next, Steps, Apply, Reading

(* The only request is undisturbed from the beginning to the end.          *)
LEMMA AlwaysUndisturbed == ASSUME OneAtATime PROVE Spec => []Undisturbed
<1>1. Init => TypeInv /\ Undisturbed
  <2>1. ASSUME Init PROVE Undisturbed
    BY <2>1 DEF Init, Idle, Undisturbed
  <2> QED BY <2>1, TypeInit
<1>2. TypeInv /\ Undisturbed /\ [Next]_vars => TypeInv' /\ Undisturbed'
  BY TypeStep, UndisturbedStep
<1> QED BY <1>1, <1>2, PTL DEF Spec

(* With one request at a time there is no exception: the copies of a tier  *)
(* agree between calls, an event takes effect once however often it is     *)
(* delivered, and only events revive a subscription.                       *)
THEOREM NoExceptionAlone ==
    ASSUME OneAtATime
    PROVE  Spec => [](CopiesAgree /\ twice = {}) /\ OnlyEventsRevive
<1>1. Undisturbed /\ TiersAgree => CopiesAgree
  BY DEF Undisturbed, TiersAgree, CopiesAgree
<1>2. Undisturbed /\ AppliedOnce => twice = {}
  BY DEF Undisturbed, AppliedOnce
<1> DEFINE Excused == \E c \in Call : \/ call[c].at \in {"insert", "update"}
                                      \/ call[c].at = "transition" /\ call[c].stale
<1>3. Undisturbed /\ [Revives => Excused]_vars
      => [Revives => \E c \in Call : call[c].at \in {"insert", "update"}]_vars
  BY DEF Undisturbed
<1> QED BY <1>1, <1>2, <1>3, AlwaysUndisturbed, TiersTogether, EventsAppliedOnce,
           OnlyTheProviderRevives, PTL DEF OnlyProviderRevives, OnlyEventsRevive
=============================================================================
