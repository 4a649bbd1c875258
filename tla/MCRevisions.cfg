SPECIFICATION PartsSpec
CONSTANTS
  Worlds = {main}
  Main = main
  Writers = {w1, w2}
  Updaters = {w1}
  Worker = worker
  Keys = {1, 2, 3}
  RootKey = 1
  Values = {"v"}
  Tombstone = Tombstone
  Flat = Flat
  FlatMap <- RootOnly
  None = None
  PartSize = 1
  Soft = 2
  Hard = 3
  StageLimit = 2
  MaxRetries = 1
  v1 = v1
  v2 = v2
  w1 = w1
  w2 = w2
  main = main
  fork = fork
  r1 = r1
  r2 = r2
  c1 = c1
  Nil = Nil
INVARIANTS
  TreapExact
  
  WorldsIntact
PROPERTY CollectionExact
