CONSTANTS
  d1 = d1
  d2 = d2
  Static <- StaticKeys
  Generated <- GeneratedKeys
  Conn <- TwoClients
  MaxFaults = 2
SPECIFICATION FairIngestSpec
INVARIANT IngestInvariant
INVARIANT OnlyPrintedKeyAdmits
 
 
CHECK_DEADLOCK FALSE
