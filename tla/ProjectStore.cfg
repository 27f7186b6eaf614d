\* state.db under any calls: two tasks of up to three screenshots each.
CONSTANTS
    Projects = {a}
    Holders  = {w1, w2}
    NoOne    = NoOne
    Departed = Departed
    Lease    = 1
    NTasks   = 2
    MaxShots = 3
SPECIFICATION ProjectSpec
SYMMETRY MCHolderSymmetry
INVARIANTS ScreenshotsChained
PROPERTIES OnlyRetryableReopens
