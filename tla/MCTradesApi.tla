---------------------------- MODULE MCTradesApi ----------------------------
(* TradesApi on small instances.                                           *)
EXTENDS TradesApi, TLC

CONSTANTS c1, e1, e2, pw1, pw2

\* Addresses and passwords are only compared with each other.
Interchangeable == Permutations({e1, e2}) \cup Permutations({pw1, pw2})
=============================================================================
