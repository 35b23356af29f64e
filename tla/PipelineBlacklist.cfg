\* Does a start bring a blacklisted relay back?
CONSTANTS
  A = hostA
  B = hostB
  Hosts = {hostA, hostB}
  HostLen <- MCHostLen
  MaxSlashes = 0
  NoUrl = NoUrl
  SourceUrls <- OneAdmin
  AdminUrls <- OneAdmin
  Handlers = {h1}
  SeedRelays = {}
  Whitelisted = {}
  DiscoveryBuffer = 1
  InputBuffer = 1
  MaxRestarts = 1
SPECIFICATION Spec
PROPERTY StartSkipsBlacklisted
