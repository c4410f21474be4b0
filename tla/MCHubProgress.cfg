\* One viewer that may leave or fail, one that stays; one ICE candidate.
CONSTANTS
  c1 = c1
  c2 = c2
  NoClient = NoClient
  Client <- TwoClients
  Failing <- OneClient
  MaxCandidates = 1
SPECIFICATION FairSpec
PROPERTY ImplementsContract
PROPERTY HubReturnsUnlessWedged
PROPERTY RegisterTakesEffect
PROPERTY UnregisterTakesEffect
PROPERTY ViewerIsToldTheCount
CHECK_DEADLOCK FALSE
