-------------------------- MODULE MCTradeExecutor --------------------------
(* TradeExecutor on small instances.                                       *)
EXTENDS TradeExecutor

CONSTANTS p1, p2, i1, i2
=============================================================================
