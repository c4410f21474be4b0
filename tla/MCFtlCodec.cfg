CONSTANTS
  Letter = {"a", "b"}
  Command <- Commands
  MaxSent = 2
SPECIFICATION FairSpec
INVARIANT CodecInvariant
INVARIANT DecodesWhatWasSent
 
CHECK_DEADLOCK FALSE
