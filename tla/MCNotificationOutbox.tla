------------------------ MODULE MCNotificationOutbox ------------------------
(* Model values and bounds for NotificationOutbox.                         *)
EXTENDS NotificationOutbox, TLC

CONSTANTS p1, p2, d1, d2

OutboxSymmetry == Permutations({p1, p2}) \union Permutations({d1, d2})
=============================================================================
