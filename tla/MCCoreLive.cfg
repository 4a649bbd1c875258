SPECIFICATION LiveSpec
CONSTANTS
  p1 = p1
  p2 = p2
  e1 = e1
  e2 = e2
  m = m
  s1 = s1
  s2 = s2
  i1 = i1
  i2 = i2
  None = None
  Dir = Dir
  Free = Free
  NoProc = NoProc
  Nodes = {"root", "a", "d", "x", "e", "c"}
  Root = "root"
  Parent <- MCParent
  Dirs = {"root", "d", "x", "e"}
  Pruned = {"x"}
  Plain = {"root", "d", "x", "e"}
  Sealed = {}
  Want = 3
  Kinds = {"pre", "post"}
  Timed = FALSE
  MaxFaults = 2
  MaxSlips = 0
  RootSlips = FALSE
INVARIANTS
  NeverDamaged
  WalkExact
PROPERTIES
  StaleCleared
  
  ChainEnds
  Collected
  
  WalkEnds
