---------------------- MODULE NotificationOutbox_proofs ----------------------
(***************************************************************************)
(* Proofs about NotificationOutbox for any set of keys, producers and      *)
(* deliverers, any limit on attempts and any size of the page.             *)
(***************************************************************************)
EXTENDS NotificationOutbox, FiniteSetTheorems, WellFoundedInduction, TLAPS

USE OutboxAssumption

-----------------------------------------------------------------------------
(* Types.                                                                  *)

(* The empty outbox is well typed.                                         *)
LEMMA InitTyped == Init => TypeOK
BY DEF Init, TypeOK, Sender, Sending

(* What a producer does before it sends keeps the types.                   *)
LEMMA EnqueueTyped ==
    ASSUME TypeOK, NEW p \in Producer, Find(p) \/ Insert(p) \/ ReadBack(p) \/ Skip(p)
    PROVE  TypeOK'
<1>1. CASE Find(p)
  BY <1>1 DEF Find, Duplicate, Goto, TypeOK, Sender, Sending, rowVars, logVars
<1>2. CASE Insert(p)
  BY <1>2 DEF Insert, Goto, TypeOK, Sender, rowVars, logVars
<1>3. CASE ReadBack(p)
  BY <1>3 DEF ReadBack, Duplicate, Goto, TypeOK, Sender, Sending, rowVars, logVars
<1>4. CASE Skip(p)
  BY <1>4 DEF Skip, Goto, TypeOK, Sender, Sending, rowVars, DigestOutcome
<1> QED BY <1>1, <1>2, <1>3, <1>4

(* So does a deliverer's reading.                                          *)
LEMMA ReadTyped ==
    ASSUME TypeOK, NEW d \in Deliverer, ReadPage(d) \/ NextRow(d)
    PROVE  TypeOK'
<1>1. CASE ReadPage(d)
  BY <1>1 DEF ReadPage, Oldest, TypeOK, Sender, rowVars, logVars
<1>2. CASE NextRow(d)
  BY <1>2 DEF NextRow, Goto, TypeOK, Sender, Sending, rowVars, logVars
<1> QED BY <1>1, <1>2

(* A recorded outcome is well typed.                                       *)
LEMMA RecordTyped ==
    ASSUME TypeOK, NEW s \in Sender, NEW outcome \in Outcome, Record(s, outcome)
    PROVE  /\ id' \in [Key -> Producer \union {NoProducer}]
           /\ status' \in [Key -> {"absent", "pending", "sent", "failed"}]
           /\ attempts' \in [Key -> Nat]
           /\ sentAt' \in [Key -> BOOLEAN]
           /\ lastError' \in [Key -> {"none", "send", "event"}]
           /\ marks' \in [Sender -> Nat]
<1>1. job[s] \in Key
  BY DEF TypeOK
<1>2. outcome \in {"absent", "pending", "sent", "failed"}
  BY DEF Outcome
<1>3. status' \in [Key -> {"absent", "pending", "sent", "failed"}]
  BY <1>1, <1>2 DEF Record, TypeOK
<1>4. sentAt' \in [Key -> BOOLEAN]
  BY <1>1, Zenon DEF Record, TypeOK
<1>5. lastError' \in [Key -> {"none", "send", "event"}]
  BY <1>1 DEF Record, TypeOK
<1>6. attempts' \in [Key -> Nat]
  <2>1. attempts' = [attempts EXCEPT ![job[s]] = @ + 1]
    BY Zenon DEF Record
  <2>2. attempts \in [Key -> Nat]
    BY DEF TypeOK
  <2>3. attempts[job[s]] + 1 \in Nat
    <3>1. attempts[job[s]] \in Nat
      BY <1>1, <2>2, Zenon
    <3>2. \A n \in Nat : n + 1 \in Nat
      OBVIOUS
    <3> QED BY <3>1, <3>2, Zenon
  <2> QED BY <1>1, <2>1, <2>2, <2>3
<1>7. marks' \in [Sender -> Nat]
  BY <1>1 DEF Record, TypeOK
<1>8. id' \in [Key -> Producer \union {NoProducer}]
  BY DEF Record, TypeOK
<1> QED BY <1>3, <1>4, <1>5, <1>6, <1>7, <1>8

(* The send and what is recorded of it keep the types.                     *)
LEMMA DeliverTyped ==
    ASSUME TypeOK, NEW s \in Sender, Deliver(s)
    PROVE  TypeOK'
<1> USE DEF Goto, Finished, Caught, Sending, rowVars, logVars
<1>1. CASE Send(s)
  BY <1>1 DEF Send, SendFailed, TypeOK
<1>2. CASE MarkSent(s)
  <2>1. CASE Record(s, "sent")
    BY <1>2, <2>1, RecordTyped DEF MarkSent, TypeOK, Outcome
  <2>2. CASE UNCHANGED <<rowVars, marks>>
    BY <1>2, <2>2 DEF MarkSent, TypeOK
  <2> QED BY <1>2, <2>1, <2>2 DEF MarkSent
<1>3. CASE MarkFailed(s)
  <2>1. CASE Record(s, "failed")
    BY <1>3, <2>1, RecordTyped DEF MarkFailed, TypeOK, Outcome
  <2>2. CASE UNCHANGED <<rowVars, marks>>
    BY <1>3, <2>2 DEF MarkFailed, TypeOK
  <2> QED BY <1>3, <2>1, <2>2 DEF MarkFailed
<1>4. CASE DigestSent(s)
  BY <1>4 DEF DigestSent, WriteDigest, TypeOK, Outcome, DigestOutcome
<1>5. CASE DigestFailed(s)
  BY <1>5 DEF DigestFailed, WriteDigest, TypeOK, Outcome, DigestOutcome
<1> QED BY <1>1, <1>2, <1>3, <1>4, <1>5 DEF Deliver

(* And so do the stamp, the catch block, the crashes and the events.       *)
LEMMA OtherTyped ==
    ASSUME TypeOK,
           \/ \E p \in Producer : Stamp(p) \/ ProducerCrash(p)
           \/ \E d \in Deliverer : CatchMark(d) \/ CatchDigest(d) \/ Crash(d)
           \/ \E k \in Key : ProviderEvent(k)
    PROVE  TypeOK'
<1> USE DEF Goto, Finished, Sending, Sender, rowVars, logVars
<1>1. ASSUME NEW p \in Producer, Stamp(p) PROVE TypeOK'
  BY <1>1 DEF Stamp, TypeOK
<1>2. ASSUME NEW p \in Producer, ProducerCrash(p) PROVE TypeOK'
  BY <1>2 DEF ProducerCrash, TypeOK
<1>3. ASSUME NEW d \in Deliverer, CatchMark(d) PROVE TypeOK'
  BY <1>3, RecordTyped DEF CatchMark, TypeOK, Outcome
<1>4. ASSUME NEW d \in Deliverer, CatchDigest(d) PROVE TypeOK'
  BY <1>4 DEF CatchDigest, WriteDigest, TypeOK, Outcome, DigestOutcome
<1>5. ASSUME NEW d \in Deliverer, Crash(d) PROVE TypeOK'
  BY <1>5 DEF Crash, TypeOK
<1>6. ASSUME NEW k \in Key, ProviderEvent(k) PROVE TypeOK'
  BY <1>6 DEF ProviderEvent, TypeOK
<1> QED BY <1>1, <1>2, <1>3, <1>4, <1>5, <1>6

(* Every step keeps the types.                                             *)
LEMMA StepTyped == TypeOK /\ [Next]_vars => TypeOK'
<1> SUFFICES ASSUME TypeOK, [Next]_vars PROVE TypeOK'
  OBVIOUS
<1>1. CASE UNCHANGED vars
  BY <1>1 DEF vars, rowVars, logVars, TypeOK
<1>2. ASSUME NEW p \in Producer, Produce(p) PROVE TypeOK'
  BY <1>2, EnqueueTyped, DeliverTyped, OtherTyped DEF Produce, Sender
<1>3. ASSUME NEW d \in Deliverer, Work(d) PROVE TypeOK'
  BY <1>3, ReadTyped, DeliverTyped, OtherTyped DEF Work, Sender
<1> QED BY <1>1, <1>2, <1>3, OtherTyped DEF Next

(* The state of the outbox keeps its type.                                 *)
THEOREM TypeCorrect == Spec => []TypeOK
BY InitTyped, StepTyped, PTL DEF Spec

-----------------------------------------------------------------------------
(* Who sends, and what is claimed of a mail.                               *)

Claims == SentWasAccepted /\ SendersHaveRows

(* Nothing is claimed of the empty outbox.                                 *)
LEMMA InitClaims == Init => Claims
BY DEF Init, Claims, SentWasAccepted, SendersHaveRows, Sending, Sender

(* Enqueueing sends nothing, and only the creator goes on to send.         *)
LEMMA EnqueueClaims ==
    ASSUME TypeOK, Claims, NEW p \in Producer, Find(p) \/ Insert(p) \/ ReadBack(p) \/ Skip(p)
    PROVE  Claims'
<1>1. CASE Find(p)
  BY <1>1 DEF Find, Duplicate, Goto, TypeOK, Claims, SentWasAccepted, SendersHaveRows, Sender,
     Sending, rowVars, logVars
<1>2. CASE Insert(p)
  <2>1. CASE status[job[p]] = "absent"
    <3>1. \A k \in Key : /\ id'[k] = IF k = job[p] THEN p ELSE id[k]
                         /\ status'[k] = IF k = job[p] THEN "pending" ELSE status[k]
      BY <1>2, <2>1 DEF Insert, TypeOK, Sender
    <3>2. id[job[p]] = NoProducer /\ job[p] \in Key
      BY <2>1 DEF TypeOK, Sender, Claims, SendersHaveRows
    <3>3. SentWasAccepted'
      BY <1>2, <2>1, <3>1 DEF Insert, Claims, SentWasAccepted, logVars
    <3>4. \A q \in Sender : pc[q] \in Sending => id'[job[q]] = id[job[q]]
      BY <3>1, <3>2 DEF TypeOK, Claims, SendersHaveRows
    <3>5. \A q \in Sender : pc'[q] = IF q = p THEN "reading" ELSE pc[q]
      BY <1>2 DEF Insert, Goto, TypeOK, Sender
    <3>6. UNCHANGED <<page, job, accepted>>
      BY <1>2 DEF Insert
    <3>7. \A q \in Producer : pc'[q] \in {"idle", "inserting"} =>
              \A k \in Key : id'[k] # q
      BY <3>1, <3>5 DEF Claims, SendersHaveRows, Sender
    <3> QED BY <3>1, <3>2, <3>3, <3>4, <3>5, <3>6, <3>7
            DEF TypeOK, Claims, SendersHaveRows, Sending, Sender
  <2>2. CASE status[job[p]] # "absent"
    BY <1>2, <2>2 DEF Insert, Goto, TypeOK, Claims, SentWasAccepted,
       SendersHaveRows, Sender, Sending, rowVars, logVars
  <2> QED BY <2>1, <2>2
<1>3. CASE ReadBack(p)
  BY <1>3 DEF ReadBack, Created, Duplicate, Goto, TypeOK, Claims, SentWasAccepted,
     SendersHaveRows, Sender, Sending, rowVars, logVars
<1>4. CASE Skip(p)
  BY <1>4 DEF Skip, Goto, TypeOK, Claims, SentWasAccepted, SendersHaveRows, Sender,
     Sending, rowVars
<1> QED BY <1>1, <1>2, <1>3, <1>4

(* A deliverer reads rows that exist.                                      *)
LEMMA ReadClaims ==
    ASSUME TypeOK, Claims, NEW d \in Deliverer, ReadPage(d) \/ NextRow(d)
    PROVE  Claims'
<1>1. CASE ReadPage(d)
  BY <1>1 DEF ReadPage, Oldest, Deliverable, TypeOK, Claims, SentWasAccepted,
     SendersHaveRows, Sender, Sending, rowVars, logVars
<1>2. CASE NextRow(d)
  BY <1>2 DEF NextRow, Goto, TypeOK, Claims, SentWasAccepted, SendersHaveRows, Sender,
     Sending, rowVars, logVars
<1> QED BY <1>1, <1>2

(* Recording an outcome for a mail, accepted if it is a success, claims    *)
(* nothing that is not so, and leaves the rows' ids as they are.           *)
LEMMA RecordClaims ==
    ASSUME TypeOK, Claims, NEW s \in Sender, NEW outcome \in Outcome,
           Record(s, outcome), outcome = "sent" => accepted[job[s]],
           id[job[s]] # NoProducer, UNCHANGED <<accepted, logVars>>
    PROVE  /\ SentWasAccepted'
           /\ \A k \in Key : status'[k] = "absent" <=> id'[k] = NoProducer
           /\ id' = id
<1> USE DEF TypeOK, Record, logVars
<1>1. \A k \in Key : /\ status'[k] = IF k = job[s] THEN outcome ELSE status[k]
                     /\ lastError'[k] = "event" => lastError[k] = "event"
  OBVIOUS
<1>2. \A k \in Key : sentAt'[k] => \/ sentAt[k]
                                   \/ k = job[s] /\ outcome = "sent"
  <2> SUFFICES ASSUME NEW k \in Key, sentAt'[k]
               PROVE  sentAt[k] \/ (k = job[s] /\ outcome = "sent")
    OBVIOUS
  <2>1. sentAt'[k] = IF k = job[s] THEN (outcome = "sent") ELSE sentAt[k]
    BY Zenon
  <2> QED BY <2>1, Zenon
<1>3. SentWasAccepted'
  <2> SUFFICES ASSUME NEW k \in Key,
                      \/ status'[k] = "sent" \/ sentAt'[k] \/ lastError'[k] = "event"
                      \/ notified[k] \/ "sent" \in digests[k]
               PROVE  accepted[k]
    BY Zenon DEF SentWasAccepted
  <2>1. CASE k = job[s] /\ outcome = "sent"
    BY <2>1, Zenon
  <2>2. CASE ~(k = job[s] /\ outcome = "sent")
    <3>1. status'[k] = "sent" => status[k] = "sent"
      BY <1>1, <2>2
    <3>2. sentAt'[k] => sentAt[k]
      BY <1>2, <2>2, Zenon
    <3>3. lastError'[k] = "event" => lastError[k] = "event"
      BY <1>1
    <3> QED BY <3>1, <3>2, <3>3, Zenon DEF Claims, SentWasAccepted
  <2> QED BY <2>1, <2>2
<1>4. \A k \in Key : status'[k] = "absent" <=> id'[k] = NoProducer
  BY <1>1 DEF Claims, SendersHaveRows, Outcome
<1> QED BY <1>3, <1>4

(* Accepting one mail takes none back.                                     *)
LEMMA MoreAccepted ==
    ASSUME TypeOK, NEW j, accepted' = [accepted EXCEPT ![j] = TRUE]
    PROVE  \A k \in Key : accepted[k] => accepted'[k]
<1>1. accepted \in [Key -> BOOLEAN]
  BY DEF TypeOK
<1> QED BY <1>1, Zenon

(* Success is recorded only after the provider accepted the mail.          *)
LEMMA DeliverClaims ==
    ASSUME TypeOK, Claims, NEW s \in Sender, Deliver(s)
    PROVE  Claims'
<1> USE DEF Goto, Finished, Caught, Sending, rowVars, logVars, Sender, Claims,
        SentWasAccepted, SendersHaveRows
<1>1. CASE Send(s)
  <2>1. CASE UNCHANGED accepted
    BY <1>1, <2>1 DEF Send, SendFailed, TypeOK
  <2>2. CASE accepted' = [accepted EXCEPT ![job[s]] = TRUE]
    <3>1. \A k \in Key : accepted[k] => accepted'[k]
      BY <2>2, MoreAccepted
    <3>2. accepted'[job[s]]
      BY <2>2 DEF TypeOK
    <3>3. SentWasAccepted'
      BY <1>1, <3>1 DEF Send, SendFailed
    <3>4. \A q \in Sender : q # s => pc'[q] = pc[q]
      BY <1>1 DEF Send, SendFailed, TypeOK
    <3>5. \A q \in Sender : pc'[q] \in {"markSent", "digestSent", "stamp"}
                             => accepted'[job[q]]
      <4> SUFFICES ASSUME NEW q \in Sender,
                          pc'[q] \in {"markSent", "digestSent", "stamp"}
                   PROVE  accepted'[job[q]]
        OBVIOUS
      <4>1. job[q] \in Key
        BY DEF TypeOK
      <4> QED BY <3>1, <3>2, <3>4, <4>1, Zenon
    <3> QED BY <1>1, <3>3, <3>4, <3>5 DEF Send, SendFailed, TypeOK
  <2> QED BY <1>1, <2>1, <2>2 DEF Send, SendFailed
<1>2. CASE MarkSent(s)
  <2>1. CASE Record(s, "sent")
    <3>1. SentWasAccepted' /\ id' = id
          /\ \A k \in Key : status'[k] = "absent" <=> id'[k] = NoProducer
      BY <1>2, <2>1, RecordClaims DEF MarkSent, Outcome
    <3> QED BY <1>2, <2>1, <3>1 DEF MarkSent, TypeOK
  <2>2. CASE UNCHANGED <<rowVars, marks>>
    BY <1>2, <2>2 DEF MarkSent, TypeOK
  <2> QED BY <1>2, <2>1, <2>2 DEF MarkSent
<1>3. CASE MarkFailed(s)
  <2>1. CASE Record(s, "failed")
    <3>1. SentWasAccepted' /\ id' = id
          /\ \A k \in Key : status'[k] = "absent" <=> id'[k] = NoProducer
      BY <1>3, <2>1, RecordClaims DEF MarkFailed, Outcome
    <3> QED BY <1>3, <2>1, <3>1 DEF MarkFailed, TypeOK
  <2>2. CASE UNCHANGED <<rowVars, marks>>
    BY <1>3, <2>2 DEF MarkFailed, TypeOK
  <2> QED BY <1>3, <2>1, <2>2 DEF MarkFailed
<1>4. CASE DigestSent(s)
  BY <1>4 DEF DigestSent, WriteDigest, TypeOK
<1>5. CASE DigestFailed(s)
  BY <1>5 DEF DigestFailed, WriteDigest, TypeOK
<1> QED BY <1>1, <1>2, <1>3, <1>4, <1>5 DEF Deliver

(* The remaining steps claim nothing new.                                  *)
LEMMA OtherClaims ==
    ASSUME TypeOK, Claims,
           \/ \E p \in Producer : Stamp(p) \/ ProducerCrash(p)
           \/ \E d \in Deliverer : CatchMark(d) \/ CatchDigest(d) \/ Crash(d)
           \/ \E k \in Key : ProviderEvent(k)
    PROVE  Claims'
<1> USE DEF Goto, Finished, Sending, rowVars, logVars, Sender, Claims,
        SentWasAccepted, SendersHaveRows
<1>1. ASSUME NEW p \in Producer, Stamp(p) PROVE Claims'
  BY <1>1 DEF Stamp, TypeOK
<1>2. ASSUME NEW p \in Producer, ProducerCrash(p) PROVE Claims'
  BY <1>2 DEF ProducerCrash, TypeOK
<1>3. ASSUME NEW d \in Deliverer, CatchMark(d) PROVE Claims'
  <2>1. SentWasAccepted' /\ id' = id
        /\ \A k \in Key : status'[k] = "absent" <=> id'[k] = NoProducer
    BY <1>3, RecordClaims DEF CatchMark, Outcome
  <2> QED BY <1>3, <2>1 DEF CatchMark, TypeOK
<1>4. ASSUME NEW d \in Deliverer, CatchDigest(d) PROVE Claims'
  BY <1>4 DEF CatchDigest, WriteDigest, TypeOK
<1>5. ASSUME NEW d \in Deliverer, Crash(d) PROVE Claims'
  BY <1>5 DEF Crash, TypeOK
<1>6. ASSUME NEW k \in Key, ProviderEvent(k) PROVE Claims'
  BY <1>6 DEF ProviderEvent, TypeOK
<1> QED BY <1>1, <1>2, <1>3, <1>4, <1>5, <1>6

(* Every step keeps the claims true.                                       *)
LEMMA StepClaims == TypeOK /\ Claims /\ [Next]_vars => Claims'
<1> SUFFICES ASSUME TypeOK, Claims, [Next]_vars PROVE Claims'
  OBVIOUS
<1>1. CASE UNCHANGED vars
  BY <1>1 DEF vars, rowVars, logVars, Claims, SentWasAccepted, SendersHaveRows
<1>2. ASSUME NEW p \in Producer, Produce(p) PROVE Claims'
  BY <1>2, EnqueueClaims, DeliverClaims, OtherClaims DEF Produce, Sender
<1>3. ASSUME NEW d \in Deliverer, Work(d) PROVE Claims'
  BY <1>3, ReadClaims, DeliverClaims, OtherClaims DEF Work, Sender
<1> QED BY <1>1, <1>2, <1>3, OtherClaims DEF Next

(* Whoever sends a new digest has the row's id, and a row has one id.      *)
LEMMA OneCreator == SendersHaveRows => OneCreatorSends
BY DEF SendersHaveRows, OneCreatorSends

-----------------------------------------------------------------------------
(* How often a mail is tried.                                              *)

(* Of what may be owed to one row there is at most two for each deliverer  *)
(* and one for the row's creator.                                          *)
LEMMA FewOwed ==
    ASSUME NEW S, NEW p, S \subseteq (Deliverer \X {1, 2}) \union {<<p, 0>>}
    PROVE  /\ IsFiniteSet(S) /\ Cardinality(S) \in Nat
           /\ Cardinality(S) <= 2 * Cardinality(Deliverer) + 1
<1> DEFINE T == (Deliverer \X {1, 2}) \union {<<p, 0>>}
<1>1. IsFiniteSet({1, 2}) /\ Cardinality({1, 2}) = 2
  <2>1. IsFiniteSet({1}) /\ Cardinality({1}) = 1
    BY FS_Singleton
  <2>2. {1, 2} = {1} \union {2} /\ 2 \notin {1}
    OBVIOUS
  <2>3. IsFiniteSet({1} \union {2}) /\ Cardinality({1} \union {2}) = 1 + 1
    BY <2>1, <2>2, FS_AddElement
  <2> QED BY <2>2, <2>3
<1>2. IsFiniteSet(Deliverer) /\ Cardinality(Deliverer) \in Nat
  BY FS_CardinalityType
<1>3. /\ IsFiniteSet(Deliverer \X {1, 2})
      /\ Cardinality(Deliverer \X {1, 2}) = Cardinality(Deliverer) * 2
  BY <1>1, <1>2, FS_Product
<1>4. <<p, 0>> \notin Deliverer \X {1, 2}
  OBVIOUS
<1>5. IsFiniteSet(T) /\ Cardinality(T) = Cardinality(Deliverer) * 2 + 1
  BY <1>3, <1>4, FS_AddElement
<1>6. IsFiniteSet(S) /\ Cardinality(S) <= Cardinality(T)
  BY <1>5, FS_Subset
<1>7. Cardinality(S) \in Nat
  BY <1>6, FS_CardinalityType
<1> QED BY <1>2, <1>5, <1>6, <1>7

(* What is owed to a row is no more than what was owed, if every sender    *)
(* that owes an attempt owed it.                                           *)
LEMMA OwedShrinks ==
    ASSUME NEW k \in Key,
           \A d \in Deliverer : \A n \in {1, 2} : Owes(d, n, k)' => Owes(d, n, k),
           \A p \in Producer : CreatorOwes(p, k)' => CreatorOwes(p, k)
    PROVE  Owed(k)' \subseteq Owed(k)
BY DEF Owed

Bound == MaxAttempts + 2 * Cardinality(Deliverer)
Tally(k) == attempts[k] + Cardinality(Owed(k)) <= Bound

(* A step keeps the tally of a row if it adds no attempt and owes no more, *)
(* if it adds the one attempt that is no longer owed, or if the row is     *)
(* below the limit.                                                        *)
LEMMA TallyStep ==
    ASSUME TypeOK, TypeOK', NEW k \in Key, Tally(k),
           \/ attempts'[k] = attempts[k] /\ Owed(k)' \subseteq Owed(k)
           \/ /\ attempts'[k] = attempts[k] + 1
              /\ \E t \in Owed(k) : Owed(k)' \subseteq Owed(k) \ {t}
           \/ attempts'[k] < MaxAttempts
    PROVE  Tally(k)'
<1>1. /\ Owed(k) \subseteq (Deliverer \X {1, 2}) \union {<<id[k], 0>>}
      /\ Owed(k)' \subseteq (Deliverer \X {1, 2}) \union {<<id'[k], 0>>}
  BY DEF Owed, CreatorOwes
<1>2. /\ IsFiniteSet(Owed(k)) /\ Cardinality(Owed(k)) \in Nat
      /\ Cardinality(Owed(k)') \in Nat
      /\ Cardinality(Owed(k)') <= 2 * Cardinality(Deliverer) + 1
  BY <1>1, FewOwed
<1>3. attempts[k] \in Nat /\ attempts'[k] \in Nat /\ Cardinality(Deliverer) \in Nat
  BY FS_CardinalityType DEF TypeOK
<1>4. CASE attempts'[k] = attempts[k] /\ Owed(k)' \subseteq Owed(k)
  <2>1. Cardinality(Owed(k)') <= Cardinality(Owed(k))
    BY <1>2, <1>4, FS_Subset
  <2> QED BY <1>2, <1>3, <1>4, <2>1 DEF Tally, Bound
<1>5. ASSUME attempts'[k] = attempts[k] + 1,
             NEW t \in Owed(k), Owed(k)' \subseteq Owed(k) \ {t}
      PROVE  Tally(k)'
  <2>1. /\ IsFiniteSet(Owed(k) \ {t})
        /\ Cardinality(Owed(k) \ {t}) = Cardinality(Owed(k)) - 1
    BY <1>2, FS_RemoveElement
  <2>2. Cardinality(Owed(k)') <= Cardinality(Owed(k) \ {t})
    BY <1>5, <2>1, FS_Subset
  <2> QED BY <1>2, <1>3, <1>5, <2>1, <2>2 DEF Tally, Bound
<1>6. CASE attempts'[k] < MaxAttempts
  BY <1>2, <1>3, <1>6 DEF Tally, Bound
<1> QED BY <1>4, <1>5, <1>6

NoMoreOwed(k) ==
    /\ attempts'[k] = attempts[k]
    /\ \A d \in Deliverer : \A n \in {1, 2} : Owes(d, n, k)' => Owes(d, n, k)
    /\ \A p \in Producer : CreatorOwes(p, k)' => CreatorOwes(p, k)
KeepsTally(k) ==
    \/ NoMoreOwed(k)
    \/ /\ attempts'[k] = attempts[k] + 1
       /\ \E t \in Owed(k) : Owed(k)' \subseteq Owed(k) \ {t}
    \/ attempts'[k] < MaxAttempts

(* Whoever enqueues owes an attempt only to a row it has just inserted.    *)
LEMMA EnqueueTally ==
    ASSUME TypeOK, Claims, AttemptsOwed, NEW k \in Key, NEW p \in Producer,
           Find(p) \/ Insert(p) \/ ReadBack(p) \/ Skip(p) \/ Stamp(p) \/ ProducerCrash(p)
    PROVE  KeepsTally(k)
<1> USE DEF Goto, KeepsTally, NoMoreOwed, Owes, CreatorOwes, MarksLeft, TryMark, Sender,
        rowVars, logVars
<1>1. CASE Find(p)
  BY <1>1 DEF Find, Duplicate, TypeOK, Claims, SendersHaveRows
<1>2. CASE Insert(p)
  <2>1. CASE status[job[p]] = "absent" /\ k = job[p]
    BY <1>2, <2>1 DEF Insert, AttemptsOwed
  <2>2. CASE ~(status[job[p]] = "absent" /\ k = job[p])
    <3>1. attempts'[k] = attempts[k] /\ id'[k] = id[k] /\ page' = page /\ job' = job
      BY <1>2, <2>2 DEF Insert, TypeOK
    <3>2. id[k] # p
      BY <1>2 DEF Insert, Claims, SendersHaveRows
    <3>3. \A s \in Sender : s # p => pc'[s] = pc[s]
      BY <1>2 DEF Insert, TypeOK
    <3> QED BY <3>1, <3>2, <3>3
  <2> QED BY <2>1, <2>2
<1>3. CASE ReadBack(p)
  BY <1>3 DEF ReadBack, Duplicate, TypeOK
<1>4. CASE Stamp(p)
  BY <1>4 DEF Stamp, TypeOK
<1>5. CASE ProducerCrash(p)
  BY <1>5 DEF ProducerCrash, TypeOK
<1>6. CASE Skip(p)
  BY <1>6 DEF Skip, TypeOK
<1> QED BY <1>1, <1>2, <1>3, <1>4, <1>5, <1>6

(* A deliverer owes attempts only to rows it reads below the limit.        *)
LEMMA ReadTally ==
    ASSUME TypeOK, Claims, NEW k \in Key, NEW d \in Deliverer,
           ReadPage(d) \/ NextRow(d) \/ CatchDigest(d) \/ Crash(d)
    PROVE  KeepsTally(k)
<1> USE DEF Goto, KeepsTally, NoMoreOwed, Owes, CreatorOwes, MarksLeft, TryMark, Sender,
        rowVars, logVars
<1>1. CASE ReadPage(d)
  BY <1>1 DEF ReadPage, Oldest, Deliverable, TypeOK
<1>2. CASE NextRow(d)
  BY <1>2 DEF NextRow, TypeOK
<1>3. CASE CatchDigest(d)
  BY <1>3 DEF CatchDigest, Finished, TypeOK
<1>4. CASE Crash(d)
  BY <1>4 DEF Crash, TypeOK
<1> QED BY <1>1, <1>2, <1>3, <1>4

(* Recording an outcome uses up an attempt that was owed: the one of the   *)
(* try block, of the catch block or of the creator.                        *)
LEMMA RecordTally ==
    ASSUME TypeOK, Claims, NEW k \in Key, NEW s \in Sender, NEW outcome \in Outcome,
           Record(s, outcome), UNCHANGED <<job, page>>,
           \/ pc[s] \in {"markSent", "markFailed"}
           \/ pc[s] = "catchMark" /\ s \in Deliverer,
           \E stage : /\ Goto(s, stage)
                     /\ stage \in IF pc[s] = "catchMark" THEN {"catchDigest"}
                                 ELSE {"digestSent", "digestFailed", "done", "catchMark"}
    PROVE  KeepsTally(k)
<1> USE DEF Owes, CreatorOwes, MarksLeft, TryMark, Sender
<1>1. job[s] \in Key /\ id' = id
  BY DEF TypeOK, Record
<1>2. /\ pc'[s] \in IF pc[s] = "catchMark" THEN {"catchDigest"}
                    ELSE {"digestSent", "digestFailed", "done", "catchMark"}
      /\ \A q \in Sender : q # s => pc'[q] = pc[q]
  BY DEF Goto, TypeOK
<1>3. /\ \A d \in Deliverer : \A n \in {1, 2} : Owes(d, n, k)' => Owes(d, n, k)
      /\ \A p \in Producer : CreatorOwes(p, k)' => CreatorOwes(p, k)
  BY <1>1, <1>2
<1>4. CASE job[s] # k
  <2>1. attempts'[k] = attempts[k]
    BY <1>1, <1>4 DEF Record, TypeOK
  <2> QED BY <1>3, <2>1 DEF KeepsTally, NoMoreOwed
<1>5. CASE job[s] = k
  <2>1. attempts'[k] = attempts[k] + 1
    BY <1>5 DEF Record, TypeOK
  <2>2. CASE s \in Producer
    <3>1. CreatorOwes(s, k) /\ ~CreatorOwes(s, k)'
      BY <1>2, <1>5, <2>2 DEF Claims, SendersHaveRows, Sending
    <3>2. <<s, 0>> \in Owed(k) /\ <<s, 0>> \notin Owed(k)'
      BY <2>2, <3>1 DEF Owed
    <3> QED BY <1>3, <2>1, <3>2, OwedShrinks DEF KeepsTally
  <2>3. CASE s \in Deliverer
    <3>1. ASSUME NEW n \in {1, 2}, Owes(s, n, k), ~Owes(s, n, k)' PROVE KeepsTally(k)
      <4> HIDE DEF Owes
      <4>1. <<s, n>> \in Owed(k) /\ <<s, n>> \notin Owed(k)'
        BY <2>3, <3>1 DEF Owed
      <4> QED BY <1>3, <2>1, <4>1, OwedShrinks DEF KeepsTally
    <3>2. k \notin page[s] /\ page' = page /\ job' = job
      BY <1>5, <2>3 DEF Claims, SendersHaveRows, Sending
    <3>3. CASE pc[s] = "catchMark"
      BY <1>2, <1>5, <3>1, <3>2, <3>3
    <3>4. CASE pc[s] \in {"markSent", "markFailed"}
      <4>1. Owes(s, 1, k) /\ ~Owes(s, 1, k)'
        BY <1>2, <1>5, <3>2, <3>4
      <4> QED BY <3>1, <4>1
    <3> QED BY <3>3, <3>4
  <2> QED BY <2>2, <2>3
<1> QED BY <1>4, <1>5

(* So does the delivery as a whole.                                        *)
LEMMA DeliverTally ==
    ASSUME TypeOK, Claims, NEW k \in Key, NEW s \in Sender,
           Deliver(s) \/ (s \in Deliverer /\ CatchMark(s))
    PROVE  KeepsTally(k)
<1>1. ASSUME UNCHANGED <<rowVars, job, page>>, NEW stage, Goto(s, stage),
             pc[s] \in Sending,
             stage \in TryMark => pc[s] \in TryMark,
             stage \in {"digestSent", "digestFailed", "catchMark"} =>
                 pc[s] \in TryMark \union {"digestSent", "digestFailed"},
             stage # "reading"
      PROVE  KeepsTally(k)
  BY <1>1 DEF Goto, KeepsTally, NoMoreOwed, Owes, CreatorOwes, MarksLeft, TryMark, Sender,
     rowVars, TypeOK
<1>2. CASE Send(s)
  BY <1>1, <1>2 DEF Send, SendFailed, TryMark, Sending
<1>3. CASE MarkSent(s)
  <2>1. CASE Record(s, "sent")
    BY <1>3, <2>1, RecordTally DEF MarkSent, Caught, Outcome
  <2>2. CASE UNCHANGED <<rowVars, marks>> /\ Caught(s)
    BY <1>1, <1>3, <2>2 DEF MarkSent, Caught, TryMark, Sending
  <2> QED BY <1>3, <2>1, <2>2 DEF MarkSent
<1>4. CASE MarkFailed(s)
  <2>1. CASE Record(s, "failed")
    BY <1>4, <2>1, RecordTally DEF MarkFailed, Caught, Outcome
  <2>2. CASE UNCHANGED <<rowVars, marks>> /\ Caught(s)
    BY <1>1, <1>4, <2>2 DEF MarkFailed, Caught, TryMark, Sending
  <2> QED BY <1>4, <2>1, <2>2 DEF MarkFailed
<1>5. CASE DigestSent(s)
  BY <1>1, <1>5 DEF DigestSent, Finished, Caught, TryMark, Sending
<1>6. CASE DigestFailed(s)
  BY <1>1, <1>6 DEF DigestFailed, Finished, Caught, TryMark, Sending
<1>7. CASE s \in Deliverer /\ CatchMark(s)
  BY <1>7, RecordTally DEF CatchMark, Outcome
<1> QED BY <1>2, <1>3, <1>4, <1>5, <1>6, <1>7 DEF Deliver

(* Every step keeps the tally of every row.                                *)
LEMMA StepTally ==
    ASSUME TypeOK, Claims, AttemptsOwed, [Next]_vars, NEW k \in Key
    PROVE  KeepsTally(k)
<1>1. CASE UNCHANGED vars
  BY <1>1 DEF vars, rowVars, KeepsTally, NoMoreOwed, Owes, CreatorOwes
<1>2. ASSUME NEW p \in Producer, Produce(p) \/ ProducerCrash(p) PROVE KeepsTally(k)
  BY <1>2, EnqueueTally, DeliverTally DEF Produce, Sender
<1>3. ASSUME NEW d \in Deliverer, Work(d) \/ Crash(d) PROVE KeepsTally(k)
  BY <1>3, ReadTally, DeliverTally DEF Work, Sender
<1>4. ASSUME NEW e \in Key, ProviderEvent(e) PROVE KeepsTally(k)
  BY <1>4 DEF ProviderEvent, KeepsTally, NoMoreOwed, Owes, CreatorOwes
<1> QED BY <1>1, <1>2, <1>3, <1>4 DEF Next

(* A row that is not there has no attempts.                                *)
LEMMA StepAbsent ==
    ASSUME TypeOK, AttemptsOwed, [Next]_vars, NEW k \in Key, status'[k] = "absent"
    PROVE  attempts'[k] = 0
<1> DEFINE Kept == attempts'[k] = attempts[k] /\ status[k] = "absent"
<1>1. ASSUME NEW s \in Sender, NEW outcome \in Outcome, Record(s, outcome) PROVE Kept
  <2>1. job[s] \in Key /\ outcome # "absent"
    BY DEF TypeOK, Outcome
  <2> QED BY <1>1, <2>1 DEF Record, TypeOK
<1>2. ASSUME UNCHANGED rowVars PROVE Kept
  BY <1>2 DEF rowVars
<1>3. ASSUME UNCHANGED vars PROVE Kept
  BY <1>2, <1>3 DEF vars
<1>4. ASSUME NEW s \in Sender, Deliver(s) PROVE Kept
  BY <1>1, <1>2, <1>4 DEF Deliver, Send, MarkSent, MarkFailed, DigestSent, DigestFailed,
     Outcome
<1>5. ASSUME NEW p \in Producer, Produce(p) \/ ProducerCrash(p) PROVE Kept
  <2>1. ASSUME Insert(p) PROVE Kept
    BY <2>1 DEF Insert, TypeOK, rowVars
  <2> QED BY <1>2, <1>4, <1>5, <2>1
          DEF Produce, ProducerCrash, Find, ReadBack, Skip, Stamp, Sender
<1>6. ASSUME NEW d \in Deliverer, Work(d) \/ Crash(d) PROVE Kept
  BY <1>1, <1>2, <1>4, <1>6 DEF Work, Crash, ReadPage, NextRow, CatchMark, CatchDigest,
     Sender, Outcome
<1>7. ASSUME NEW e \in Key, ProviderEvent(e) PROVE Kept
  BY <1>7 DEF ProviderEvent, TypeOK
<1>8. Kept
  BY <1>3, <1>5, <1>6, <1>7 DEF Next
<1> QED BY <1>8 DEF AttemptsOwed

(* Initially there is nothing to count.                                    *)
LEMMA InitOwed == Init => AttemptsOwed
<1> SUFFICES ASSUME Init, NEW k \in Key
             PROVE  /\ attempts[k] + Cardinality(Owed(k))
                           <= MaxAttempts + 2 * Cardinality(Deliverer)
                    /\ status[k] = "absent" => attempts[k] = 0
  BY DEF AttemptsOwed
<1>1. Owed(k) = {}
  BY DEF Init, Owed, Owes, CreatorOwes, MarksLeft, TryMark, Sender
<1>2. Cardinality(Owed(k)) = 0 /\ Cardinality(Deliverer) \in Nat
  BY <1>1, FS_EmptySet, FS_CardinalityType
<1>3. attempts[k] = 0
  BY DEF Init
<1> QED BY <1>2, <1>3

(* Every step keeps the attempts and those owed to the bound.              *)
LEMMA StepOwed == TypeOK /\ Claims /\ AttemptsOwed /\ [Next]_vars => AttemptsOwed'
<1> SUFFICES ASSUME TypeOK, Claims, AttemptsOwed, [Next]_vars, NEW k \in Key
             PROVE  Tally(k)' /\ (status'[k] = "absent" => attempts'[k] = 0)
  BY DEF AttemptsOwed, Tally, Bound
<1>1. TypeOK' /\ Tally(k) /\ KeepsTally(k)
  BY StepTyped, StepTally DEF AttemptsOwed, Tally, Bound
<1>2. CASE NoMoreOwed(k)
  <2>1. Owed(k)' \subseteq Owed(k)
    BY <1>2, OwedShrinks DEF NoMoreOwed
  <2>2. Tally(k)'
    BY <1>1, <1>2, <2>1, TallyStep DEF NoMoreOwed
  <2> QED BY <2>2, StepAbsent
<1>3. CASE ~NoMoreOwed(k)
  <2>1. Tally(k)'
    BY <1>1, <1>3, TallyStep DEF KeepsTally
  <2> QED BY <2>1, StepAbsent
<1> QED BY <1>2, <1>3

(* The inductive invariant of the outbox.                                  *)
THEOREM InductiveCorrect == Spec => []Inductive
<1>1. Init => TypeOK /\ Claims /\ AttemptsOwed
  BY InitTyped, InitClaims, InitOwed
<1>2. TypeOK /\ Claims /\ AttemptsOwed /\ [Next]_vars
          => (TypeOK /\ Claims /\ AttemptsOwed)'
  BY StepTyped, StepClaims, StepOwed
<1>3. TypeOK /\ Claims /\ AttemptsOwed => Inductive
  BY OneCreator DEF Claims, Inductive
<1> QED BY <1>1, <1>2, <1>3, PTL DEF Spec

(* No mail is claimed to be sent that the provider never accepted.         *)
THEOREM NothingInvented == Spec => []SentWasAccepted
<1>1. Inductive => SentWasAccepted
  BY DEF Inductive
<1> QED BY <1>1, InductiveCorrect, PTL

(* Of the calls that enqueue one digest at most one sends it.              *)
THEOREM OneSender == Spec => []OneCreatorSends
<1>1. Inductive => OneCreatorSends
  BY DEF Inductive
<1> QED BY <1>1, InductiveCorrect, PTL

(* The attempts of a row exceed the limit by no more than two for each     *)
(* deliverer, whatever the order of their steps and crashes.               *)
THEOREM AttemptsLimited == Spec => []AttemptsBounded
<1>1. Inductive => AttemptsBounded
  <2> SUFFICES ASSUME Inductive, NEW k \in Key
               PROVE  attempts[k] <= MaxAttempts + 2 * Cardinality(Deliverer)
    BY DEF AttemptsBounded
  <2>1. Owed(k) \subseteq (Deliverer \X {1, 2}) \union {<<id[k], 0>>}
    BY DEF Owed, CreatorOwes
  <2>2. Cardinality(Owed(k)) \in Nat /\ Cardinality(Deliverer) \in Nat
    BY <2>1, FewOwed, FS_CardinalityType
  <2> QED BY <2>2 DEF Inductive, AttemptsOwed, TypeOK
<1> QED BY <1>1, InductiveCorrect, PTL

-----------------------------------------------------------------------------
(* Deliveries count.                                                       *)

(* A deliverer past its first statement has recorded an outcome.           *)
Marked ==
    \A d \in Deliverer : pc[d] \in {"digestSent", "digestFailed", "catchDigest"} => marks[d] > 0

(* What a step of a sender does to another's place and marks.              *)
LEMMA OthersMarks ==
    ASSUME TypeOK, NEW s \in Sender, NEW d \in Deliverer, d # s,
           \/ s \in Producer /\ (Produce(s) \/ ProducerCrash(s))
           \/ s \in Deliverer /\ (Work(s) \/ Crash(s))
    PROVE  pc'[d] = pc[d] /\ marks'[d] = marks[d]
<1> USE DEF TypeOK, Sender, Goto, Finished, Caught
<1>1. CASE Deliver(s)
  BY <1>1 DEF Deliver, Send, MarkSent, MarkFailed, DigestSent, DigestFailed, Record
<1>2. CASE s \in Producer /\ (Find(s) \/ Insert(s) \/ ReadBack(s) \/ Skip(s) \/ Stamp(s)
                               \/ ProducerCrash(s))
  BY <1>2 DEF Find, Insert, ReadBack, Skip, Stamp, ProducerCrash
<1>3. CASE s \in Deliverer /\ (ReadPage(s) \/ NextRow(s) \/ CatchMark(s) \/ CatchDigest(s)
                                \/ Crash(s))
  BY <1>3 DEF ReadPage, NextRow, CatchMark, CatchDigest, Crash, Record
<1> QED BY <1>1, <1>2, <1>3 DEF Produce, Work

(* The steps of a deliverer: where they lead, and what they record.        *)
LEMMA DelivererSteps ==
    ASSUME TypeOK, Marked, NEW d \in Deliverer, Work(d) \/ Crash(d)
    PROVE  /\ pc'[d] \in {"digestSent", "digestFailed", "catchDigest"} => marks'[d] > 0
           /\ pc[d] \in Sending /\ pc'[d] = "idle" => marks[d] > 0 \/ crashes' > crashes
<1> USE DEF TypeOK, Marked, Sender, Goto, Finished, Caught
<1>d. d \notin Producer
  OBVIOUS
<1>m. marks[d] \in Nat /\ crashes \in Nat
  OBVIOUS
<1>r. ASSUME NEW outcome, Record(d, outcome) PROVE marks'[d] = marks[d] + 1
  BY <1>r DEF Record
<1>1. CASE ReadPage(d) \/ NextRow(d)
  BY <1>1 DEF ReadPage, NextRow, Sending
<1>2. CASE Send(d)
  BY <1>2 DEF Send, SendFailed
<1>3. CASE MarkSent(d)
  <2>1. CASE Record(d, "sent") /\ (Goto(d, "digestSent") \/ Caught(d))
    BY <1>3, <1>d, <1>m, <1>r, <2>1 DEF MarkSent
  <2>2. CASE Caught(d)
    BY <1>3, <1>d, <2>2 DEF MarkSent
  <2> QED BY <1>3, <2>1, <2>2 DEF MarkSent
<1>4. CASE MarkFailed(d)
  <2>1. CASE Record(d, "failed") /\ (Goto(d, "digestFailed") \/ Caught(d))
    BY <1>4, <1>d, <1>m, <1>r, <2>1 DEF MarkFailed
  <2>2. CASE Caught(d)
    BY <1>4, <1>d, <2>2 DEF MarkFailed
  <2> QED BY <1>4, <2>1, <2>2 DEF MarkFailed
<1>5. CASE DigestSent(d)
  BY <1>5, <1>d DEF DigestSent
<1>6. CASE DigestFailed(d)
  BY <1>6, <1>d DEF DigestFailed
<1>7. CASE CatchMark(d)
  BY <1>7, <1>m, <1>r DEF CatchMark
<1>8. CASE CatchDigest(d)
  BY <1>8 DEF CatchDigest
<1>9. CASE Crash(d)
  BY <1>9, <1>m DEF Crash
<1> QED BY <1>1, <1>2, <1>3, <1>4, <1>5, <1>6, <1>7, <1>8, <1>9 DEF Work, Deliver

(* No step of the others ends a delivery.                                  *)
LEMMA DelivererRests ==
    ASSUME TypeOK, [Next]_vars, NEW d \in Deliverer, ~Work(d), ~Crash(d)
    PROVE  pc'[d] = pc[d] /\ marks'[d] = marks[d]
<1>1. CASE UNCHANGED vars
  BY <1>1 DEF vars
<1>2. ASSUME NEW p \in Producer, Produce(p) \/ ProducerCrash(p) PROVE pc'[d] = pc[d] /\ marks'[d] = marks[d]
  <2>1. p # d
    OBVIOUS
  <2> QED BY <1>2, <2>1, OthersMarks DEF Sender
<1>3. ASSUME NEW e \in Deliverer, Work(e) \/ Crash(e) PROVE pc'[d] = pc[d] /\ marks'[d] = marks[d]
  BY <1>3, OthersMarks DEF Sender
<1>4. ASSUME NEW k \in Key, ProviderEvent(k) PROVE pc'[d] = pc[d] /\ marks'[d] = marks[d]
  BY <1>4 DEF ProviderEvent
<1> QED BY <1>1, <1>2, <1>3, <1>4 DEF Next

LEMMA StepMarked == TypeOK /\ Marked /\ [Next]_vars => Marked'
<1> SUFFICES ASSUME TypeOK, Marked, [Next]_vars, NEW d \in Deliverer,
                    pc'[d] \in {"digestSent", "digestFailed", "catchDigest"}
             PROVE  marks'[d] > 0
  BY DEF Marked
<1>1. CASE Work(d) \/ Crash(d)
  BY <1>1, DelivererSteps
<1>2. CASE ~Work(d) /\ ~Crash(d)
  <2>1. pc'[d] = pc[d] /\ marks'[d] = marks[d]
    BY <1>2, DelivererRests
  <2> QED BY <2>1 DEF Marked
<1> QED BY <1>1, <1>2

(* No attempt is taken back.                                               *)
LEMMA AttemptsGrow ==
    ASSUME TypeOK, [Next]_vars, NEW k \in Key
    PROVE  attempts'[k] >= attempts[k]
<1> DEFINE Kept == attempts'[k] \in {attempts[k], attempts[k] + 1}
<1>1. ASSUME NEW s \in Sender, NEW outcome \in Outcome, Record(s, outcome) PROVE Kept
  BY <1>1 DEF Record, TypeOK
<1>2. ASSUME attempts' = attempts PROVE Kept
  BY <1>2
<1>3. ASSUME NEW s \in Sender, Deliver(s) PROVE Kept
  BY <1>1, <1>2, <1>3 DEF Deliver, Send, MarkSent, MarkFailed, DigestSent, DigestFailed,
     Outcome, rowVars
<1>4. ASSUME NEW p \in Producer, Produce(p) \/ ProducerCrash(p) PROVE Kept
  BY <1>2, <1>3, <1>4 DEF Produce, ProducerCrash, Find, Insert, ReadBack, Skip, Stamp, Sender,
     rowVars
<1>5. ASSUME NEW d \in Deliverer, Work(d) \/ Crash(d) PROVE Kept
  BY <1>1, <1>2, <1>3, <1>5 DEF Work, Crash, ReadPage, NextRow, CatchMark, CatchDigest, Sender,
     Outcome, rowVars
<1>6. ASSUME (\E e \in Key : ProviderEvent(e)) \/ UNCHANGED vars PROVE Kept
  BY <1>2, <1>6 DEF ProviderEvent, vars, rowVars
<1>7. Kept
  BY <1>4, <1>5, <1>6 DEF Next
<1>8. attempts[k] \in Nat
  BY DEF TypeOK
<1> QED BY <1>7, <1>8

(* Every delivery that its process survives has counted against the limit  *)
(* of its row, and the count never falls.                                  *)
THEOREM DeliveriesCounted == Spec => EveryDeliveryCounts
<1>1. TypeOK /\ Marked /\ [Next]_vars =>
        [/\ \A k \in Key : attempts'[k] >= attempts[k]
         /\ \A d \in Deliverer :
              pc[d] \in Sending /\ pc'[d] = "idle" => marks[d] > 0 \/ crashes' > crashes]_vars
  <2> SUFFICES ASSUME TypeOK, Marked, [Next]_vars, NEW d \in Deliverer,
                      pc[d] \in Sending, pc'[d] = "idle"
               PROVE  marks[d] > 0 \/ crashes' > crashes
    BY AttemptsGrow
  <2>1. CASE Work(d) \/ Crash(d)
    BY <2>1, DelivererSteps
  <2>2. CASE ~Work(d) /\ ~Crash(d)
    BY <2>2, DelivererRests DEF Sending
  <2> QED BY <2>1, <2>2
<1>2. Init => Marked
  BY DEF Init, Marked, Sender
<1> QED BY <1>1, <1>2, StepMarked, TypeCorrect, PTL DEF Spec, EveryDeliveryCounts

-----------------------------------------------------------------------------
(* Pages.                                                                  *)

LEMMA SmallestKey ==
    ASSUME NEW S \in SUBSET Nat, S # {}
    PROVE  \E x \in S : \A y \in S : x <= y
<1>1. PICK x \in S : \A y \in S : ~ (<<y, x>> \in OpToRel(<, Nat))
  BY NatLessThanWellFounded, WFMin
<1>2. \A y \in S : ~(y < x)
  BY <1>1 DEF OpToRel
<1> QED BY <1>2

(* The keys before one are finitely many.                                  *)
LEMMA BelowIsFinite ==
    ASSUME NEW S \in SUBSET Nat, NEW x \in Nat
    PROVE  /\ IsFiniteSet({j \in S : j < x})
           /\ Cardinality({j \in S : j < x}) \in Nat
<1>1. IsFiniteSet(0..x)
  BY FS_Interval
<1>2. {j \in S : j < x} \in SUBSET (0..x)
  <2>1. ASSUME NEW j \in S, j < x PROVE j \in 0..x
    <3>1. j \in Nat
      OBVIOUS
    <3> QED BY <2>1, <3>1
  <2> QED BY <2>1
<1>3. IsFiniteSet({j \in S : j < x})
  BY <1>1, <1>2, FS_Subset
<1> QED BY <1>3, FS_CardinalityType

(* What is older than a row of the page is in the page.                    *)
LEMMA OldestAreSegments ==
    ASSUME NEW S \in SUBSET Nat, NEW j \in Oldest(S), NEW k \in S \ Oldest(S)
    PROVE  j < k
<1> DEFINE Below(x) == {i \in S : i < x}
<1>1. j \in Nat /\ k \in Nat /\ j \in S /\ j # k
  BY DEF Oldest
<1> SUFFICES ASSUME k < j PROVE FALSE
  BY <1>1
<1>2. Below(k) \in SUBSET Below(j)
  <2>1. ASSUME NEW i \in S, i < k PROVE i < j
    <3>1. i \in Nat
      OBVIOUS
    <3> QED BY <1>1, <2>1, <3>1
  <2> QED BY <2>1
<1>3. IsFiniteSet(Below(j)) /\ Cardinality(Below(k)) \in Nat /\ Cardinality(Below(j)) \in Nat
  BY <1>1, BelowIsFinite
<1>4. Cardinality(Below(k)) <= Cardinality(Below(j))
  BY <1>2, <1>3, FS_Subset
<1>5. Cardinality(Below(j)) < PageLimit /\ ~(Cardinality(Below(k)) < PageLimit)
  BY DEF Oldest
<1> QED BY <1>3, <1>4, <1>5

(* A page that leaves something out is full.                               *)
LEMMA OldestAreFull ==
    ASSUME NEW S \in SUBSET Nat, Oldest(S) # S
    PROVE  Cardinality(Oldest(S)) = PageLimit
<1> DEFINE Below(x) == {i \in S : i < x}
<1>1. PICK x \in S \ Oldest(S) : \A y \in S \ Oldest(S) : x <= y
  <2>1. S \ Oldest(S) \in SUBSET Nat /\ S \ Oldest(S) # {}
    BY DEF Oldest
  <2> QED BY <2>1, SmallestKey
<1>2. \A j \in Oldest(S) : j \in S /\ j \in Nat /\ j < x
  BY <1>1, OldestAreSegments DEF Oldest
<1>3. Oldest(S) = Below(x)
  <2>1. ASSUME NEW i \in S, i < x PROVE i \in Oldest(S)
    <3>1. i \in Nat /\ x \in Nat
      OBVIOUS
    <3> QED BY <1>1, <2>1, <3>1
  <2> QED BY <1>2, <2>1
<1>4. IsFiniteSet(Oldest(S)) /\ Cardinality(Oldest(S)) \in Nat
  BY <1>1, <1>3, BelowIsFinite
<1>5. Cardinality(Oldest(S)) >= PageLimit
  <2>1. ~(Cardinality(Below(x)) < PageLimit)
    BY <1>1 DEF Oldest
  <2> DEFINE n == Cardinality(Below(x))
  <2>2. n \in Nat /\ ~(n < PageLimit) /\ n = Cardinality(Oldest(S))
    BY <1>3, <1>4, <2>1
  <2> HIDE DEF n
  <2> QED BY <2>2
<1>6. \A m \in Oldest(S) : (\A j \in Oldest(S) : j <= m) => Cardinality(Oldest(S)) <= PageLimit
  <2> SUFFICES ASSUME NEW m \in Oldest(S), \A j \in Oldest(S) : j <= m
               PROVE  Cardinality(Oldest(S)) <= PageLimit
    OBVIOUS
  <2>1. Oldest(S) \ {m} \in SUBSET Below(m)
    <3>1. ASSUME NEW j \in Oldest(S), j # m PROVE j \in S /\ j < m
      BY <1>2, <3>1
    <3> QED BY <3>1
  <2>2. IsFiniteSet(Below(m)) /\ Cardinality(Below(m)) \in Nat
    BY <1>2, BelowIsFinite
  <2>3. Cardinality(Oldest(S) \ {m}) <= Cardinality(Below(m))
    BY <2>1, <2>2, FS_Subset
  <2>4. Cardinality(Oldest(S) \ {m}) = Cardinality(Oldest(S)) - 1
    BY <1>4, FS_RemoveElement
  <2>5. Cardinality(Below(m)) < PageLimit
    BY DEF Oldest
  <2> QED BY <1>4, <2>2, <2>3, <2>4, <2>5
<1>7. \E m \in Oldest(S) : \A j \in Oldest(S) : j <= m
  <2> DEFINE T == {n \in Nat : \A j \in Oldest(S) : j <= n}
  <2>1. T \in SUBSET Nat /\ T # {}
    <3>1. x \in T
      BY <1>1, <1>2
    <3> QED BY <3>1
  <2>2. PICK m \in T : \A n \in T : m <= n
    BY <2>1, SmallestKey
  <2>3. Oldest(S) # {}
    <3>1. CASE Oldest(S) = {}
      BY <1>5, <3>1, FS_EmptySet
    <3> QED BY <3>1
  <2>4. m \in Oldest(S)
    <3> SUFFICES ASSUME m \notin Oldest(S) PROVE FALSE
      OBVIOUS
    <3>1. \A j \in Oldest(S) : j \in Nat /\ j < m
      BY <1>2
    <3>2. m - 1 \in T
      <4>1. m \in Nat /\ m > 0
        BY <2>3, <3>1
      <4> QED BY <3>1, <4>1
    <3> QED BY <2>2, <3>2
  <2> QED BY <2>4
<1> QED BY <1>4, <1>5, <1>6, <1>7

(* A page is of the oldest rows that are due, and full if it is not of all.*)
THEOREM OldestComeFirst == Spec => BacklogInOrder
<1>1. TypeOK /\ [Next]_vars =>
        [\A d \in Deliverer :
           ReadPage(d) =>
               LET due == {k \in Key : Deliverable(k)} IN
               /\ \A j \in page'[d], k \in due \ page'[d] : j < k
               /\ page'[d] # due => Cardinality(page'[d]) = PageLimit]_vars
  <2> DEFINE due == {k \in Key : Deliverable(k)}
  <2>1. due \in SUBSET Nat
    OBVIOUS
  <2> HIDE DEF due
  <2>2. ASSUME TypeOK, NEW d \in Deliverer, ReadPage(d) PROVE page'[d] = Oldest(due)
    BY <2>2 DEF ReadPage, TypeOK, due
  <2> QED BY <2>1, <2>2, OldestAreSegments, OldestAreFull DEF due
<1> QED BY <1>1, TypeCorrect, PTL DEF Spec, BacklogInOrder

-----------------------------------------------------------------------------
(* Deliveries end.                                                         *)

(* The steps of a delivery, in the order in which a deliverer may take     *)
(* them. It never notes a notification in an alert.                        *)
Depth(stage) ==
    [sending |-> 1, markSent |-> 2, markFailed |-> 2, digestSent |-> 3, digestFailed |-> 3,
     catchMark |-> 4, catchDigest |-> 5][stage]
Delivering == Sending \ {"stamp"}
NoStamps == \A d \in Deliverer : pc[d] # "stamp"

LEMMA Depths ==
    /\ \A stage \in Delivering : Depth(stage) \in 1..5
    /\ Depth("sending") = 1 /\ Depth("markSent") = 2 /\ Depth("markFailed") = 2
    /\ Depth("digestSent") = 3 /\ Depth("digestFailed") = 3
    /\ Depth("catchMark") = 4 /\ Depth("catchDigest") = 5
BY DEF Depth, Delivering, Sending

(* Each step of a deliverer at a delivery leads on, or ends it.            *)
LEMMA DeliveryGoesOn ==
    ASSUME TypeOK, NEW d \in Deliverer, pc[d] \in Delivering, Work(d) \/ Crash(d)
    PROVE  \/ pc'[d] = "idle"
           \/ pc'[d] \in Delivering /\ Depth(pc[d]) < Depth(pc'[d])
<1> USE DEF TypeOK, Sender, Goto, Finished, Caught
<1>d. d \notin Producer
  OBVIOUS
<1>1. ASSUME pc[d] = "sending", pc'[d] \in {"markSent", "markFailed", "catchMark"}
      PROVE  pc'[d] \in Delivering /\ Depth(pc[d]) < Depth(pc'[d])
  BY <1>1, Depths DEF Delivering, Sending
<1>2. ASSUME pc[d] \in {"markSent", "markFailed"},
             pc'[d] \in {"digestSent", "digestFailed", "catchMark"}
      PROVE  pc'[d] \in Delivering /\ Depth(pc[d]) < Depth(pc'[d])
  BY <1>2, Depths DEF Delivering, Sending
<1>3. ASSUME pc[d] \in {"digestSent", "digestFailed", "catchMark"},
             pc'[d] \in {"catchMark", "catchDigest"}, pc'[d] # pc[d]
      PROVE  pc'[d] \in Delivering /\ Depth(pc[d]) < Depth(pc'[d])
  BY <1>3, Depths DEF Delivering, Sending
<1>4. CASE ReadPage(d) \/ NextRow(d)
  BY <1>4 DEF ReadPage, NextRow, Delivering, Sending
<1>5. CASE Send(d)
  BY <1>1, <1>5, <1>d DEF Send, SendFailed
<1>6. CASE MarkSent(d) \/ MarkFailed(d)
  BY <1>2, <1>6, <1>d DEF MarkSent, MarkFailed
<1>7. CASE DigestSent(d) \/ DigestFailed(d)
  BY <1>3, <1>7, <1>d DEF DigestSent, DigestFailed
<1>8. CASE CatchMark(d)
  BY <1>3, <1>8 DEF CatchMark
<1>9. CASE CatchDigest(d) \/ Crash(d)
  BY <1>9, <1>d DEF CatchDigest, Crash
<1> QED BY <1>4, <1>5, <1>6, <1>7, <1>8, <1>9 DEF Work, Deliver

LEMMA StepNoStamps == TypeOK /\ NoStamps /\ [Next]_vars => NoStamps'
<1> SUFFICES ASSUME TypeOK, NoStamps, [Next]_vars, NEW d \in Deliverer PROVE pc'[d] # "stamp"
  BY DEF NoStamps
<1>1. CASE ~Work(d) /\ ~Crash(d)
  <2>1. pc'[d] = pc[d]
    BY <1>1, DelivererRests
  <2> QED BY <2>1 DEF NoStamps
<1>2. CASE (Work(d) \/ Crash(d)) /\ pc[d] \in Delivering
  BY <1>2, DeliveryGoesOn DEF Delivering
<1>3. CASE (Work(d) \/ Crash(d)) /\ pc[d] \notin Sending
  BY <1>3 DEF Work, Deliver, Crash, ReadPage, NextRow, Send, MarkSent, MarkFailed, DigestSent,
     DigestFailed, CatchMark, CatchDigest, Sending, Goto, TypeOK, Sender
<1> QED BY <1>1, <1>2, <1>3 DEF NoStamps, Delivering

LEMMA NoStampsCorrect == Spec => [](TypeOK /\ NoStamps)
<1>1. Init => NoStamps
  BY DEF Init, NoStamps, Sender
<1> QED BY <1>1, InitTyped, StepTyped, StepNoStamps, PTL DEF Spec

(* From each step of a delivery to a later one, or to its end.             *)
HasGone(d, n) == pc[d] = "idle" \/ (pc[d] \in Delivering /\ Depth(pc[d]) >= n)
GoesOn(d, n, m) == HasGone(d, n) ~> HasGone(d, m)

LEMMA Onwards ==
    ASSUME NEW d \in Deliverer, NEW n \in 1..5, NEW m \in 2..6, m = n + 1
    PROVE  Spec /\ Attentive(d) => GoesOn(d, n, m)
<1> DEFINE Here == HasGone(d, n) /\ ~HasGone(d, m)
<1>1. Here => pc[d] \in Delivering /\ Depth(pc[d]) = n
  BY Depths DEF HasGone
<1>2. TypeOK /\ NoStamps /\ Here => pc[d] \in Sending
  BY <1>1 DEF Delivering
<1>3. ASSUME TypeOK, Here, Work(d) \/ Crash(d) PROVE HasGone(d, m)'
  <2>1. \/ pc'[d] = "idle"
        \/ pc'[d] \in Delivering /\ n < Depth(pc'[d])
    BY <1>1, <1>3, DeliveryGoesOn
  <2> QED BY <2>1, Depths DEF HasGone
<1>4. TypeOK /\ [Next]_vars /\ Here => Here' \/ HasGone(d, m)'
  <2> SUFFICES ASSUME TypeOK, [Next]_vars, Here PROVE Here' \/ HasGone(d, m)'
    OBVIOUS
  <2>1. CASE ~Work(d) /\ ~Crash(d)
    <3>1. pc'[d] = pc[d]
      BY <2>1, DelivererRests
    <3> QED BY <3>1 DEF HasGone
  <2> QED BY <1>3, <2>1
<1>5. TypeOK /\ Here /\ <<Work(d)>>_vars => HasGone(d, m)'
  BY <1>3
<1> QED BY <1>2, <1>4, <1>5, NoStampsCorrect, PTL DEF GoesOn, Attentive, Spec

LEMMA AttentiveDeliveryEnds ==
    ASSUME NEW d \in Deliverer
    PROVE  Spec /\ Attentive(d) => DeliveryEnds(d)
<1>1. /\ Spec /\ Attentive(d) => GoesOn(d, 1, 2)
      /\ Spec /\ Attentive(d) => GoesOn(d, 2, 3)
      /\ Spec /\ Attentive(d) => GoesOn(d, 3, 4)
      /\ Spec /\ Attentive(d) => GoesOn(d, 4, 5)
      /\ Spec /\ Attentive(d) => GoesOn(d, 5, 6)
  BY Onwards
<1>2. NoStamps /\ pc[d] \in Sending => HasGone(d, 1)
  BY Depths DEF NoStamps, HasGone, Delivering
<1>3. HasGone(d, 6) => pc[d] = "idle"
  BY Depths DEF HasGone
<1> QED BY <1>1, <1>2, <1>3, NoStampsCorrect, PTL DEF GoesOn, DeliveryEnds

(* A delivery whose sends and statements are answered ends, whatever the   *)
(* other deliverers, the producers and the provider's events do.           *)
THEOREM DeliveriesEndWhenAnswered == Spec /\ EveryoneAttends => DeliveriesEnd
BY AttentiveDeliveryEnds DEF EveryoneAttends, DeliveriesEnd
=============================================================================
