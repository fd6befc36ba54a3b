SPECIFICATION Spec
CONSTANTS
    e1 = e1  e2 = e2
    Owner = {1}
    Editor = {e1}
    Startup = startup
    Day = 2
    WeekendDay = {2}
    Grace = 1
    SlowStart = TRUE
    Horizon = 4
    MaxPresses = 0
    MaxStarts = 1
INVARIANT ServedOnce
