SPECIFICATION Spec
CONSTANTS
    e1 = e1  e2 = e2
    Owner = {1}
    Editor = {e1, e2}
    Startup = startup
    Day = 2
    WeekendDay = {1}
    Grace = 1
    SlowStart = FALSE
    Horizon = 5
    MaxPresses = 2
    MaxStarts = 2
SYMMETRY Interchangeable
INVARIANTS SlotInv JobsArmed ServedOnce NoZombiePost
