SPECIFICATION Spec
CONSTANTS
  w1 = w1  u1 = u1  u2 = u2  k1 = k1  k2 = k2  None = None
  Writers = {w1}
  Urls = {u1, u2}
  PathVariants = {}
  IndexKeys = {k1, k2}
  MaxPathVariantsPerHost = 1
  TTL = 1
  MaxFaults = 1
  Queries <- MCQueries
  Secure = {u1}
SYMMETRY Symmetry
INVARIANTS TypeOK QueryFindsStable
