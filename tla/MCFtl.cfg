\* A connection on which up to four commands are read.
CONSTANT MaxCommands = 4
SPECIFICATION FairSpec
INVARIANT LockStep
INVARIANT StateFollowsCommands
INVARIANT StuckOnlyOnSilence
INVARIANT FtlInvariant
PROPERTY ImplementsSession
PROPERTY AnsweredOrEnds
PROPERTY TasksEndTogether
CHECK_DEADLOCK FALSE
