\* Two executors of a task, one at a time; a crash and two errors.
CONSTANTS
    Writers = {w1, w2}
    Images = {i1, i2, i3}
    NoImage = NoImage
    Exclusive = TRUE
    MaxSecond = 1
    MaxCrashes = 1
    MaxFaults = 2
CHECK_DEADLOCK FALSE
SPECIFICATION FairSpec
INVARIANTS DeliverablesWhole RowsPictured LeftoversAccounted
PROPERTIES SaveEnds ImplementsDeliverables
