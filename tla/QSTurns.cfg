SPECIFICATION FairSpec
CONSTANTS
    e1 = e1  e2 = e2
    Owner = {1, 2}
    Editor = {e1}
    Startup = startup
    Day = 2
    WeekendDay = {1}
    Grace = 1
    SlowStart = FALSE
    Horizon = 3
    MaxPresses = 1
    MaxStarts = 1
INVARIANT NothingLingers
PROPERTY EveryOwnerServed
