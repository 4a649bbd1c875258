SPECIFICATION PartsSpec
CONSTANTS
  p1 = p1
  p2 = p2
  w1 = w1
  s1 = s1
  e1 = e1
  t1 = t1
  t2 = t2
  g1 = g1
  g2 = g2
  User = User
  Stranger = Stranger
  Free = Free
  None = None
  Procs = {p1, p2}
  MaxSnaps = 2
  Groups = {g1, g2}
  Ops = {"create", "clone", "gc", "discard"}
  MaxFaults = 1
SYMMETRY Symmetry
CHECK_DEADLOCK FALSE
INVARIANTS
  
  ForksSound
  SnapshotsSound
