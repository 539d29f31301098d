------------------------------ MODULE BidRules ------------------------------
(***************************************************************************)
(* The columns of a bid that its lifecycle is made of, and the rules that  *)
(* change them (crawler/lifecycle.ts, crawler/persistence-merge.ts,        *)
(* bids/lifecycle-sweep.ts).  is_active is left out: it is written as      *)
(* status = "open" wherever the status is written.                         *)
(*                                                                         *)
(* A definition D_Bug that stands before a definition D is a broken        *)
(* variant of D, used only to see that a property fails with it.           *)
(***************************************************************************)
EXTENDS Naturals

CONSTANT Deadline  \* the instants from which a bid counts as expired

ASSUME DeadlineAssumption == Deadline \subseteq Nat \ {0}

NoDeadline == 0  \* a blank deadline

Status == {"open", "closed", "awarded"}

(* raw_payload.lifecycle.closed_reason                                     *)
Reason == {"none", "deadline_passed", "delisted"}

Record == [status : Status \union {"absent"},
           deadline : Deadline \union {NoDeadline},
           reason : Reason]

Absent == [status |-> "absent", deadline |-> NoDeadline, reason |-> "none"]

(* What a crawled row says of a bid. Only a row that a detail backfill     *)
(* read from the table has a reason in its payload.                        *)
Row == [status : Status, deadline : Deadline \union {NoDeadline}, reason : Reason]

(* The reason a row carries, if any, is that of the bid it is merged into. *)
TellsOwnReason(row, old) ==
    row.reason # "none" => row.status = old.status /\ row.reason = old.reason

(* A deadline that cannot be read is one that no clock reaches.            *)
Passed(deadline, now) == deadline # NoDeadline /\ deadline <= now

(* A blank deadline does not erase a known one.                            *)
KnownDeadline(row, old) == IF row.deadline = NoDeadline THEN old.deadline ELSE row.deadline

(* A close never downgrades an award, whether the row or the deadline      *)
(* closes the bid; the payload of the row replaces the stored one.         *)
Merge_Downgrades(row, old, at) ==
    LET deadline == KnownDeadline(row, old)
        closes == row.status = "open" /\ Passed(deadline, at)
    IN  IF closes
        THEN [status |-> "closed", deadline |-> deadline, reason |-> "deadline_passed"]
        ELSE [status |-> row.status, deadline |-> deadline, reason |-> row.reason]
Merge_KeepsReason(row, old, at) ==
    LET deadline == KnownDeadline(row, old)
        closes == row.status = "open" /\ Passed(deadline, at)
    IN  IF old.status = "awarded" /\ (closes \/ row.status = "closed")
        THEN [status |-> "awarded", deadline |-> deadline, reason |-> old.reason]
        ELSE IF closes
        THEN [status |-> "closed", deadline |-> deadline, reason |-> "deadline_passed"]
        ELSE [status |-> row.status, deadline |-> deadline, reason |-> old.reason]
Merge(row, old, at) ==
    LET deadline == KnownDeadline(row, old)
        closes == row.status = "open" /\ Passed(deadline, at)
    IN  IF old.status = "awarded" /\ (closes \/ row.status = "closed")
        THEN [status |-> "awarded", deadline |-> deadline, reason |-> row.reason]
        ELSE IF closes
        THEN [status |-> "closed", deadline |-> deadline, reason |-> "deadline_passed"]
        ELSE [status |-> row.status, deadline |-> deadline, reason |-> row.reason]

(* An open bid closed by the sweep, or because its source's list lacks it. *)
ClosedByDeadline(bid) ==
    [status |-> "closed", deadline |-> bid.deadline, reason |-> "deadline_passed"]
Delisted_OtherReason(bid) ==
    [status |-> "closed", deadline |-> bid.deadline, reason |-> "unlisted"]
Delisted(bid) ==
    [status |-> "closed", deadline |-> bid.deadline, reason |-> "delisted"]
=============================================================================
