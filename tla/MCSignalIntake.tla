--------------------------- MODULE MCSignalIntake ---------------------------
(* SignalIntake on small instances.                                        *)
EXTENDS SignalIntake, TLC

CONSTANTS p1, p2, s1, s2, q1, q2, q3, r1, r2

\* Processes, deliveries and registrations are interchangeable.
Interchangeable ==
  Permutations({p1, p2}) \cup Permutations({q1, q2, q3}) \cup Permutations({r1, r2})
=============================================================================
