----------------------------- MODULE MCCrawlTick -----------------------------
(* Instances of CrawlTick for TLC.                                         *)
EXTENDS CrawlTick, TLC

Symmetry == Permutations(Worker) \union Permutations(Url)
=============================================================================
