SPECIFICATION CacheSpec
CONSTANTS
  w1 = w1  w2 = w2  u1 = u1  u2 = u2  k1 = k1  k2 = k2  None = None
  Writers = {w1, w2}
  Urls = {u1, u2}
  PathVariants = {u1}
  IndexKeys = {k1, k2}
  MaxPathVariantsPerHost = 1
  TTL = 2
  MaxFaults = 1
SYMMETRY Symmetry
INVARIANTS CacheTypeOK IndexOutlivesEntry
