SPECIFICATION PartsSpec
CONSTANTS
  Procs = {p1, p2}
  Dirs = {d1, d2}
  Paths = {a, b, c}
  None = None
  Worlds = {1, 2}
  Ops = {"verify", "adopt", "refresh", "reconcile", "discard"}
  MaxCopies = 1
  MaxMoves = 2
  MaxFaults = 1
  p1 = p1
  p2 = p2
  d1 = d1
  d2 = d2
  a = a
  b = b
  c = c
  m = m
  s1 = s1
  s2 = s2
  i1 = i1
  i2 = i2
  Free = Free
  Folder = Folder
  NoProc = NoProc
SYMMETRY Symmetry
INVARIANTS
  
  AdoptedBaseline
  
  RemovalTrue
PROPERTY BuriesAbsent
