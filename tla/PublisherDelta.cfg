\* The NIP-66 publisher: the root of a host and a path variant in two spellings,
\* whose content changes while a cycle reads them; short intervals.
CONSTANTS
  H = hostH
  P = pathP
  F = withPort
  I1 = infoOne
  I2 = infoTwo
  Hosts = {hostH}
  Paths = {pathP, pathQ}
  NoPath = NoPath
  Forms = {canonical, withPort}
  Canonical = canonical
  UrlLength <- MCUrlLength
  Infos = {infoOne, infoTwo}
  NoInfo = NoInfo
  Never = Never
  PublishRelays = {p1}
  PublishInterval = 1
  RefreshInterval = 2
  MaxCycle = 0
  SkipOffline = TRUE
  CachedUrls <- TwoSpellings
  Contents <- VariantChanges
  MaxFaults = 1
  None = None
SPECIFICATION Spec
INVARIANTS
  TypeOK
  DirectoryInStep
  HostsKept
  ReachableHostShown
