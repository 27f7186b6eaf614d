\* Starts of two projects, two processes for one slot, no failure.
CONSTANTS
    Projects = {a, b}
    Processes = {{w1}, {w2}}
    Users    = {u1}
    Holders  = {w1, w2, u1}
    NoOne    = NoOne
    Departed = Departed
    Lease    = 2
    MaxSlots = 1
    NTasks   = 1
    MaxShots = 2
    Commands = {"start"}
    Timely = TRUE
    MaxCrashes = 0
    MaxFaults = 0
SPECIFICATION FairSpec
INVARIANTS BrowsersWithinSlots
PROPERTIES StartedSettles
