SPECIFICATION Spec
CONSTANTS
  p1 = p1
  p2 = p2
  Process = {p1}
  Capacity = 2
  Period = 3
  None = None
  MaxLag = 2
  MaxClock = 8
INVARIANTS
  TypeOK
  WindowBounded
PROPERTIES
  RetryAfterHonoured
