CONSTANTS
  c1 = c1
  c2 = c2
  NoClient = NoClient
  Client <- TwoClients
  Failing <- TwoClients
  MaxCandidates = 0
SPECIFICATION Spec
INVARIANT ClosedPeerIsRemoved
CHECK_DEADLOCK FALSE
