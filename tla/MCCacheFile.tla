---------------------------- MODULE MCCacheFile -----------------------------
(***************************************************************************)
(* CacheFile on a small instance: two brokers that may have the same process *)
(* id, two contents, two faults.                                            *)
(***************************************************************************)
EXTENDS CacheFile

CONSTANTS p1, p2, v1, v2

TwoBrokers == {p1, p2}
TwoValues == {v1, v2}
=============================================================================
