SPECIFICATION Spec

CONSTANTS
  k1 = k1
  k2 = k2
  s1 = s1
  s2 = s2
  s3 = s3
  s4 = s4
  s5 = s5
  None = None
  Kind = {k1}
  Session = {s1, s2, s3}
  Owner <- MCOwner
  Listed = {s1, s2}
  ParkedLimit = 1
  Scenarios <- ClosingScenario

INVARIANTS
  ClosedStaysClosed

CHECK_DEADLOCK FALSE
