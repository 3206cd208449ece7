\* The cache root set up by processes that race, die and meet a failing call, on either
\* platform; its entries shared by processes that die.
SPECIFICATION CacheSpec
CONSTANTS
  a = a
  b = b
  c = c
  d = d
  Procs = {a, b, c}
  i = i
  j = j
  k = k
  Openers = {i, j, k}
  Inspectors = {k}
  Digests = {d}
  MarkerReads = 5
  MaxCrashes = 1
  MaxFaults = 1
SYMMETRY Alike
INVARIANTS
  RootIsSound
  StoreIsAccounted
PROPERTIES
  LeasesAreKept
