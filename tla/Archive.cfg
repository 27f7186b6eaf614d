\* Archive against workers, starts, reviews and another archive, with a crash.
CONSTANTS
    Projects = {a}
    Processes = {{w1}, {w2}}
    Users    = {u1, u2}
    Holders  = {w1, w2, u1, u2}
    NoOne    = NoOne
    Departed = Departed
    Lease    = 2
    MaxSlots = 1
    NTasks   = 1
    MaxShots = 2
    Commands = {"start", "archive", "review"}
    Timely = TRUE
    MaxCrashes = 1
    MaxFaults = 0
SPECIFICATION Spec
SYMMETRY MCSymmetry
INVARIANTS LockHeld
PROPERTIES OnlyIdleMoved ConfirmedIsFinal
