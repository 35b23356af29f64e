\* One relay whose content changes, a refresh every three publish intervals and
\* cycles of up to half an interval; one call fails or the process restarts.
CONSTANTS
  H = hostH
  P = pathP
  F = withPort
  I1 = infoOne
  I2 = infoTwo
  Hosts = {hostH}
  Paths = {}
  NoPath = NoPath
  Forms = {canonical}
  Canonical = canonical
  UrlLength <- MCUrlLength
  Infos = {infoOne, infoTwo}
  NoInfo = NoInfo
  Never = Never
  PublishRelays = {p1}
  PublishInterval = 2
  RefreshInterval = 6
  MaxCycle = 1
  SkipOffline = FALSE
  CachedUrls <- OneUrl
  Contents <- UpChanges
  MaxFaults = 1
  None = None
SPECIFICATION FairSpec
INVARIANTS
  EventsSurvive
PROPERTY
  DirectoryRecovers
