CONSTANT MaxEvents = 2
SPECIFICATION FairSpec
PROPERTY EveryStreamSettles
CHECK_DEADLOCK FALSE
