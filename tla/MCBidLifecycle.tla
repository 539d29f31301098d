--------------------------- MODULE MCBidLifecycle ---------------------------
(* Model values and bounds for BidLifecycle.                               *)
EXTENDS BidLifecycle, TLC

CONSTANTS s1, s2, i1, i2, i3, w1

(* Every bid and every import of one source; or the imports i1 and i2 of   *)
(* the source of bid 1, and i3 of another, which quarantines that bid.     *)
OneSource == [x \in Bid \union Importer |-> s1]
TwoSources == [x \in Bid \union Importer |-> IF x \in {2, i3} THEN s2 ELSE s1]

ImporterSymmetry == Permutations({i1, i2})
=============================================================================
