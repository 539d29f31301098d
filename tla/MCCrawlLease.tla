---------------------------- MODULE MCCrawlLease ----------------------------
(* Instances of CrawlLease for TLC. *)
EXTENDS CrawlLease, TLC

(* Attempts are interchangeable: no definition singles one out. *)
AttemptSymmetry == Permutations(Attempt)
=============================================================================
