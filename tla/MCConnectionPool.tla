------------------------- MODULE MCConnectionPool -------------------------
(* ConnectionPool on small instances.                                      *)
EXTENDS ConnectionPool

CONSTANTS t1, t2, t3
=============================================================================
