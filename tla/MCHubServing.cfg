CONSTANTS
  c1 = c1
  c2 = c2
  NoClient = NoClient
  Client <- TwoClients
  Failing <- OneClient
  MaxCandidates = 0
SPECIFICATION FairSpec
PROPERTY HubKeepsServing
CHECK_DEADLOCK FALSE
