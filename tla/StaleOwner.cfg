CONSTANTS
  p1 = p1
  p2 = p2
  s1 = s1
  s2 = s2
  q1 = q1
  q2 = q2
  q3 = q3
  r1 = r1
  r2 = r2
  None = None
  Processes = {p1, p2}
  Signals = {s1, s2}
  Deliveries = {q1, q2, q3}
  Registrations = {r1, r2}
SPECIFICATION IntakeSpec
SYMMETRY Interchangeable
INVARIANTS
  DuplicatesWereProcessed
