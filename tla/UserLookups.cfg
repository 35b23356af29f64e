\* Requests about a user: relays that may stay silent, budgets that may run out.
CONSTANTS
  Requests = {r1}
  User = user
  p1 = p1
  p2 = p2
  s1 = s1
  s2 = s2
  ra = ra
  rb = rb
  Pubkeys = {p1, p2}
  Seeds = {s1, s2}
  Relays = {ra, rb}
  Directory <- MCDirectory
  Criteria <- MCCriteria
  MaxFollows = 2
  MaxFetches = 1
  Worlds <- MCWorlds
  Reviews <- MCReviews
  MaxReviews = 2
  None = None
SPECIFICATION ReviewsFairSpec
INVARIANTS
  TypeOK
  ContactsKnown
  CutShortNotCached
  PartialTold
  PrefsKnown
  ReviewsTypeOK
  ReviewsNewest
PROPERTIES
  NetworkDecides
  RequestAnswered
  ReviewsAnswered
