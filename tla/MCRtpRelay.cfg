CONSTANTS
  Viewer = {v1, v2}
  Buffer = 2
  Sent <- MCSent
  MaxPackets = 3
SPECIFICATION Spec
INVARIANT RelayInvariant
INVARIANT ViewersSeeOneRun
 
PROPERTY PacketsAreRelayed
CHECK_DEADLOCK FALSE
