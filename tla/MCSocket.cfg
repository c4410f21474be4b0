CONSTANT MaxSockets = 8
SPECIFICATION FairSpec
INVARIANT OneAttempt
INVARIANT AttemptsSlowDown
PROPERTY KeepsTrying
CHECK_DEADLOCK FALSE
