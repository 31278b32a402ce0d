CONSTANT Strategies = 3
SPECIFICATION FairSpec
INVARIANT TimeoutIsUnsolved
PROPERTIES Returns NothingLeft
CHECK_DEADLOCK FALSE
