CONSTANTS
  pongWait = 12
  pingPeriod = 6
  writeWait = 1
  AnswerTime = 2
  PingDelay = 2
SPECIFICATION Spec
INVARIANT LiveViewerIsKept
INVARIANT VanishedIsNoticed
INVARIANT WriterNoticesClose
INVARIANT KeepAliveInvariant
