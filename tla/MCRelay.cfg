CONSTANT MaxEvents = 4
SPECIFICATION FairSpec
INVARIANT
    RelayedWhole
PROPERTY StreamSettles
CHECK_DEADLOCK FALSE
