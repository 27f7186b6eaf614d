\* Everything at once, one command at a time: workers, start, retry, review
\* and archive on two tasks, with a statement that fails anywhere.
CONSTANTS
    Projects = {a}
    Processes = {{w1}, {w2}}
    Users    = {u1}
    Holders  = {w1, w2, u1}
    NoOne    = NoOne
    Departed = Departed
    Lease    = 2
    MaxSlots = 1
    NTasks   = 2
    MaxShots = 2
    Commands = {"start", "retry", "review", "archive"}
    Timely = TRUE
    MaxCrashes = 0
    MaxFaults = 1
SPECIFICATION Spec
SYMMETRY MCSymmetry
INVARIANTS TypeOK MutualExclusion ExecutesRunning
PROPERTIES ImplementsBoard TombstonesAttended
