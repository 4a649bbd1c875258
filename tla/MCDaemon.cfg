SPECIFICATION PartsSpec
CONSTANTS
  Keys = {world, registry}
  Registry = {registry}
  Objects = {o1, o2}
  Small = {o1, o2}
  Readers = {r1}
  None = None
  Unknown = Unknown
  CacheLimit = 2
  MaxBatch = 2
  MaxSequence = 3
  t1 = t1
  t2 = t2
  t3 = t3
  root = root
  d1 = d1
  d2 = d2
  f1 = f1
  f2 = f2
  a = a
  b = b
  h1 = h1
  h2 = h2
  h3 = h3
SYMMETRY Symmetry
INVARIANTS
  DatabaseVerifies
  ReadsAreCurrent
  DescriptionsExact
  VolumeTrue
PROPERTY ImplementsObjectStore
