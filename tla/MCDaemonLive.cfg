SPECIFICATION LiveSpec
CONSTANTS
  Calls = {c1, c2}
  Pieces = 2
  MaxPeers = 1
  t1 = t1
  t2 = t2
  h1 = h1
  h2 = h2
  c1 = c1
  c2 = c2
  w1 = w1
  w2 = w2
  main = main
  base = base
  root = root
  f1 = f1
  a = a
  thread = thread
  Flat = Flat
  Tombstone = Tombstone
  None = None
CHECK_DEADLOCK FALSE
INVARIANT Truthful
PROPERTIES
  NobodyHangs
  Reclaimed
  ConnectionsEnd
  FailsClosed
