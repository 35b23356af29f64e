\* Two URLs of one host and a relay behind Tor; one check at a time, as many units
\* of time as the clocks need, and integers that the third timeout in a row exceeds.
CONSTANTS
  steady = steady
  failing = failing
  hidden = hidden
  hostA = hostA
  hostT = hostT
  Hosts = {hostA, hostT}
  Relays = {steady, failing, hidden}
  Host <- MCHost
  Onion = {hostT}
  Barred = {}
  TorClient = TRUE
  Outcomes <- MCOutcomes
  SuccessTTL = 1
  NXDomainTTL = 2
  TimeoutTTL = 6
  ErrorTTL = 2
  MaxBackoff = 2
  Width = 5
  None = None
  Never = Never
  Slots = 1
  Stagger = 1
  MaxCheck = 1
  Interval = 2
  EntryTTL = 15
  MaxPassed = 1
SPECIFICATION FairSpec
INVARIANTS
  TypeOK
  HeartbeatHolds

  
  
