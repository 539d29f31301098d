--------------------------- MODULE MCSubscription ---------------------------
(* Model values for Subscription.                                          *)
EXTENDS Subscription, TLC

CONSTANTS c1, c2, e1, e2

Says(type, names, tier, status, until, cancels) ==
    [type |-> type, names |-> names, tier |-> tier, status |-> status,
     until |-> until, cancels |-> cancels]

(* A checkout, the end of a subscription, and two invoices: a failed one   *)
(* that names the customer only, and a paid one that names the user, and   *)
(* whose status is none the provider has. What an ordinary one would write *)
(* the checkout writes, too.                                               *)
SmallNotices ==
    {Says("completed", TRUE, "pro", "active", 0, FALSE),
     Says("deleted", TRUE, "pro", "canceled", 1, FALSE),
     Says("payment_failed", FALSE, "unnamed", "past_due", 0, FALSE),
     Says("paid", TRUE, "unnamed", "none", 0, FALSE)}

SubscriptionSymmetry == Permutations({c1, c2}) \union Permutations({e1, e2})
=============================================================================
