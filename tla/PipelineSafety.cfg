\* Safety of the discovery pipeline: one relay under several spellings, two
\* concurrent admin requests, channels of one element, one restart.
CONSTANTS
  A = hostA
  B = hostB
  Hosts = {hostA, hostB}
  HostLen <- MCHostLen
  MaxSlashes = 2
  NoUrl = NoUrl
  SourceUrls <- SafetySources
  AdminUrls <- OneAdmin
  Handlers = {h1, h2}
  SeedRelays = {}
  Whitelisted = {}
  DiscoveryBuffer = 1
  InputBuffer = 1
  MaxRestarts = 1
SYMMETRY HandlerSymmetry
SPECIFICATION Spec
INVARIANTS
  TypeOK
  ForwardedAtMostOnce
  MonitoredIsRecorded
  NothingForgotten
  BarredStaysOut
PROPERTY
  RefinesRegistry
