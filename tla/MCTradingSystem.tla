-------------------------- MODULE MCTradingSystem --------------------------
(* TradingSystem on small instances.                                       *)
EXTENDS TradingSystem, TLC

CONSTANTS s1, s2, c1, c2, p1, p2, i1, i2, r1

OneHash == s1 :> c1
DistinctHash == (s1 :> c1) @@ (s2 :> c2)
EveryWorker == Processes \X Workers
=============================================================================
