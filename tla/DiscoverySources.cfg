\* Discovery with its sources: a list that overflows the channels, crawls beside
\* administrators, subscriptions that fail and drop, a shutdown or a crash.
CONSTANTS
  A = hostA
  B = hostB
  Hosts = {hostA, hostB}
  HostLen <- MCHostLen
  MaxSlashes = 0
  NoUrl = NoUrl
  SourceUrls <- MCFound
  AdminUrls <- MCAdmin
  Handlers = {h1}
  SeedRelays <- MCSeeds
  Whitelisted <- MCWhitelist
  DiscoveryBuffer = 1
  InputBuffer = 1
  MaxRestarts = 1
  Configurations <- MCConfigurations
  Offers <- MCOffers
  nip65ConcurrentConnections = 1
  InitialDelay = 30
  MaxDelay = 100
  peerDiscoveryTimeout = 30
  WaitsBound = 3
SPECIFICATION SourcesFairSpec
INVARIANTS
  SourcesTypeOK
  BackoffFits
PROPERTIES
  RefinesPipeline
  DiscoverySettles
  CrawlReturns
  SubscriptionsReturn
  SubmitReturns
