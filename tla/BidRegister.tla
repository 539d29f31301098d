---------------------------- MODULE BidRegister ----------------------------
(***************************************************************************)
(* What the bid table promises, with transactions, locks and stale reads   *)
(* left out: a change takes the bids as they are, never as they were, and  *)
(* moves each of them along one edge of its lifecycle.                     *)
(***************************************************************************)
EXTENDS BidRules, TLAPS

CONSTANTS
    Bid,
    MaxTime  \* bound of the clock

VARIABLES
    bids,
    clock

registerVars == <<bids, clock>>

Init == bids = [b \in Bid |-> Absent] /\ clock = 0

(* A crawl that ended at instant at is stored: it merges the bids it       *)
(* accepted and closes open ones that it no longer lists.                  *)
Import ==
    /\ \E at \in 0..clock :
        /\ bids' \in [Bid -> Record]
        /\ \A b \in Bid :
            \/ bids'[b] = bids[b]
            \/ \E row \in Row :
                  TellsOwnReason(row, bids[b]) /\ bids'[b] = Merge(row, bids[b], at)
            \/ bids[b].status = "open" /\ bids'[b] = Delisted(bids[b])
    /\ UNCHANGED clock

(* Open bids whose deadline has passed are closed.                         *)
Sweep ==
    /\ bids' \in [Bid -> Record]
    /\ \A b \in Bid :
        \/ bids'[b] = bids[b]
        \/ /\ bids[b].status = "open" /\ Passed(bids[b].deadline, clock)
           /\ bids'[b] = ClosedByDeadline(bids[b])
    /\ UNCHANGED clock

(* An administrator corrects the deadline of a bid.                        *)
Correct ==
    /\ \E b \in Bid, deadline \in Deadline \union {NoDeadline} :
        /\ bids[b].status # "absent"
        /\ bids' = [bids EXCEPT ![b].deadline = deadline]
    /\ UNCHANGED clock

Tick == clock < MaxTime /\ clock' = clock + 1 /\ UNCHANGED bids

Next == Import \/ Sweep \/ Correct \/ Tick

Spec == Init /\ [][Next]_registerVars

-----------------------------------------------------------------------------
(* The bids keep their type, the clock its bound.                          *)
Typed == bids \in [Bid -> Record] /\ clock \in Nat

(* lifecycle.ts: "an awarded bid is never downgraded to closed", by an     *)
(* import, a delisting or a sweep that read it while it was open.          *)
AwardedNeverCloses ==
    [][\A b \in Bid : bids[b].status = "awarded" => bids'[b].status # "closed"]_registerVars

(* lifecycle-sweep.ts: "a bid an import has just refreshed is never closed *)
(* on a stale deadline": the deadline on record when a bid is closed for   *)
(* its deadline has passed.                                                *)
DeadlineClosesWereDue ==
    [][\A b \in Bid :
        bids'[b].reason = "deadline_passed" /\ bids[b].reason # "deadline_passed"
            => Passed(bids'[b].deadline, clock)]_registerVars

(* persistence-merge.ts: "a bid that is open again carries no stale        *)
(* reason"; only a closed bid has one.                                     *)
OnlyClosedHaveReasons ==
    \A b \in Bid : bids[b].reason # "none" => bids[b].status = "closed"

Inv == Typed /\ OnlyClosedHaveReasons

(* The deadline a bid is judged by is blank or an instant.                 *)
LEMMA KnownDeadlineType ==
    ASSUME NEW row \in Row, NEW old \in Record
    PROVE  /\ KnownDeadline(row, old) \in Deadline \union {NoDeadline}
           /\ KnownDeadline(row, old) \in Nat
<1>1. /\ row.deadline \in Deadline \union {NoDeadline}
      /\ old.deadline \in Deadline \union {NoDeadline}
  BY DEF Row, Record
<1>2. Deadline \union {NoDeadline} \subseteq Nat
  BY DeadlineAssumption DEF NoDeadline
<1> QED BY <1>1, <1>2 DEF KnownDeadline

(* The records of the table stay records, and only closed ones carry a     *)
(* reason, for every set of bids and deadlines.                            *)
LEMMA RegisterInvariant == Spec => []Inv
<1>1. Init => Inv
  BY DEF Init, Inv, Typed, OnlyClosedHaveReasons, Absent, Record, Status, Reason
<1>2. Inv /\ [Next]_registerVars => Inv'
  <2> SUFFICES ASSUME Inv, [Next]_registerVars PROVE Inv'
    OBVIOUS
  <2> USE DEF Inv, Typed, OnlyClosedHaveReasons
  <2>1. CASE Import
    <3>1. ASSUME NEW b \in Bid, bids'[b].reason # "none" PROVE bids'[b].status = "closed"
      <4>1. ASSUME NEW at, NEW row \in Row, TellsOwnReason(row, bids[b]),
                   bids'[b] = Merge(row, bids[b], at)
            PROVE bids'[b].status = "closed"
        BY <3>1, <4>1 DEF Merge, TellsOwnReason
      <4>2. CASE bids'[b] = bids[b]
        BY <3>1, <4>2
      <4>3. CASE bids'[b] = Delisted(bids[b])
        BY <4>3 DEF Delisted, Record
      <4> QED BY <2>1, <4>1, <4>2, <4>3 DEF Import
    <3> QED BY <2>1, <3>1 DEF Import
  <2>2. CASE Sweep
    BY <2>2 DEF Sweep, ClosedByDeadline, Record, Reason
  <2>3. CASE Correct
    <3>1. PICK b \in Bid, d \in Deadline \union {NoDeadline} :
              bids' = [bids EXCEPT ![b].deadline = d]
      BY <2>3 DEF Correct
    <3>2. [bids[b] EXCEPT !.deadline = d] \in Record
      BY DEF Record
    <3> QED BY <2>3, <3>1, <3>2 DEF Correct, Record
  <2>4. CASE Tick
    BY <2>4 DEF Tick
  <2>5. CASE UNCHANGED registerVars
    BY <2>5 DEF registerVars
  <2> QED BY <2>1, <2>2, <2>3, <2>4, <2>5 DEF Next
<1> QED BY <1>1, <1>2, PTL DEF Spec

(* No edge of the lifecycle leads from awarded to closed.                  *)
THEOREM AwardsStay == Spec => AwardedNeverCloses
<1>1. Inv /\ [Next]_registerVars =>
        [\A b \in Bid : bids[b].status = "awarded" => bids'[b].status # "closed"]_registerVars
  <2> SUFFICES ASSUME Inv, Next, NEW b \in Bid, bids[b].status = "awarded"
               PROVE bids'[b].status # "closed"
    OBVIOUS
  <2> USE DEF Inv, Typed, Record
  <2>1. CASE Import
    <3>1. PICK at \in 0..clock :
            \/ bids'[b] = bids[b]
            \/ \E row \in Row :
                  TellsOwnReason(row, bids[b]) /\ bids'[b] = Merge(row, bids[b], at)
            \/ bids[b].status = "open" /\ bids'[b] = Delisted(bids[b])
      BY <2>1 DEF Import
    <3>2. ASSUME NEW row \in Row, bids'[b] = Merge(row, bids[b], at)
          PROVE bids'[b].status # "closed"
      BY <3>2 DEF Merge, Row, Status
    <3> QED BY <3>1, <3>2
  <2>2. CASE Sweep
    BY <2>2 DEF Sweep
  <2>3. CASE Correct
    BY <2>3 DEF Correct
  <2>4. CASE Tick
    BY <2>4 DEF Tick
  <2> QED BY <2>1, <2>2, <2>3, <2>4 DEF Next
<1> QED BY <1>1, RegisterInvariant, PTL DEF Spec, AwardedNeverCloses

(* No bid is closed for a deadline that has not passed.                    *)
THEOREM DeadlinesWereDue == Spec => DeadlineClosesWereDue
<1>1. Inv /\ [Next]_registerVars =>
        [\A b \in Bid :
            bids'[b].reason = "deadline_passed" /\ bids[b].reason # "deadline_passed"
                => Passed(bids'[b].deadline, clock)]_registerVars
  <2> SUFFICES ASSUME Inv, Next, NEW b \in Bid,
                      bids'[b].reason = "deadline_passed", bids[b].reason # "deadline_passed"
               PROVE Passed(bids'[b].deadline, clock)
    OBVIOUS
  <2> USE DEF Inv, Typed, Record
  <2>1. CASE Import
    <3>1. PICK at \in 0..clock :
            \/ bids'[b] = bids[b]
            \/ \E row \in Row :
                  TellsOwnReason(row, bids[b]) /\ bids'[b] = Merge(row, bids[b], at)
            \/ bids[b].status = "open" /\ bids'[b] = Delisted(bids[b])
      BY <2>1 DEF Import
    <3>2. ASSUME NEW row \in Row, TellsOwnReason(row, bids[b]),
                 bids'[b] = Merge(row, bids[b], at)
          PROVE Passed(bids'[b].deadline, clock)
      <4>1. bids'[b].deadline = KnownDeadline(row, bids[b])
        BY <3>2 DEF Merge
      <4>2. Passed(KnownDeadline(row, bids[b]), at)
        BY <3>2, <2>1 DEF Merge, Import, TellsOwnReason
      <4>3. KnownDeadline(row, bids[b]) \in Nat
        BY KnownDeadlineType, bids[b] \in Record
      <4> QED BY <4>1, <4>2, <4>3 DEF Passed
    <3>3. CASE bids'[b] = Delisted(bids[b])
      BY <3>3, <2>1 DEF Delisted, Import
    <3> QED BY <3>1, <3>2, <3>3
  <2>2. CASE Sweep
    BY <2>2 DEF Sweep, ClosedByDeadline
  <2>3. CASE Correct
    BY <2>3 DEF Correct
  <2>4. CASE Tick
    BY <2>4 DEF Tick
  <2> QED BY <2>1, <2>2, <2>3, <2>4 DEF Next
<1> QED BY <1>1, RegisterInvariant, PTL DEF Spec, DeadlineClosesWereDue
=============================================================================
