CONSTANT MaxCommands = 2
SPECIFICATION FairSpec
PROPERTY EveryAttributeIsAnswered
CHECK_DEADLOCK FALSE
