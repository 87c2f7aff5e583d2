------------------------- MODULE MCReconciliation -------------------------
(* Reconciliation on small instances.                                      *)
EXTENDS Reconciliation, TLC

CONSTANTS s1, s2, c1, c2, w1, w2, r1, r2

\* One signal; a client order id for each of two.
OneHash == s1 :> c1
DistinctHash == (s1 :> c1) @@ (s2 :> c2)
=============================================================================
