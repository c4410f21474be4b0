CONSTANTS
  MaxSockets = 2
  MaxServerCandidates = 1
  MaxPageCandidates = 2
SPECIFICATION FairSignalingSpec
INVARIANT SignalingInvariant
INVARIANT AnswersMatchOffers
INVARIANT OnlyOldCandidatesFail
INVARIANT OnlyEarlyCandidatesAreLost
INVARIANT PeersAgree
PROPERTY ImplementsNegotiation
 
CHECK_DEADLOCK FALSE
