\* Two interchangeable viewers that may leave or fail at any time.
CONSTANTS
  c1 = c1
  c2 = c2
  NoClient = NoClient
  Client <- TwoClients
  Failing <- TwoClients
  MaxCandidates = 2
SPECIFICATION Spec
SYMMETRY Symmetry
INVARIANT NoChannelPanics
INVARIANT HubInvariant
PROPERTY WedgeIsForGood
CHECK_DEADLOCK FALSE
