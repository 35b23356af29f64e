\* Is a publisher that finds nothing to announce reported as stale?
CONSTANTS
  H = hostH
  P = pathP
  F = withPort
  I1 = infoOne
  I2 = infoTwo
  Hosts = {hostH}
  Paths = {}
  NoPath = NoPath
  Forms = {canonical}
  Canonical = canonical
  UrlLength <- MCUrlLength
  Infos = {infoOne, infoTwo}
  NoInfo = NoInfo
  Never = Never
  PublishRelays = {p1}
  PublishInterval = 1
  RefreshInterval = 6
  MaxCycle = 0
  SkipOffline = FALSE
  CachedUrls <- OneUrl
  Contents <- UpChanges
  MaxFaults = 0
  None = None
SPECIFICATION Spec
INVARIANT StaleMeansIdle
