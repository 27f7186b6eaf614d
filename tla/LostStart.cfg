\* A start that is lost: nothing crashes, nothing fails.
CONSTANTS
    Projects = {a}
    Processes = {{w1}, {w2}}
    Users    = {u1}
    Holders  = {w1, w2, u1}
    NoOne    = NoOne
    Departed = Departed
    Lease    = 2
    MaxSlots = 1
    NTasks   = 1
    MaxShots = 2
    Commands = {"start", "retry"}
    Timely = TRUE
    MaxCrashes = 0
    MaxFaults = 0
SPECIFICATION FairSpec
PROPERTIES StartedSettles
