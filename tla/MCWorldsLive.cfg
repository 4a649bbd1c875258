SPECIFICATION Spec
CONSTANTS
  p1 = p1
  p2 = p2
  w1 = w1
  s1 = s1
  None = None
  Free = Free
  Stranger = Stranger
CHECK_DEADLOCK FALSE
PROPERTIES
  Resolved
  Reaped
