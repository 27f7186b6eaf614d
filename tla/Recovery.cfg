\* A crash and a failing statement anywhere in starts, archives and a process of
\* two workers, which ends when one of them fails, and a user who comes back.
CONSTANTS
    Projects = {a}
    Processes = {{w1, w2}}
    Users    = {u1}
    Holders  = {w1, w2, u1}
    NoOne    = NoOne
    Departed = Departed
    Lease    = 2
    MaxSlots = 1
    NTasks   = 1
    MaxShots = 2
    Commands = {"start", "archive"}
    Timely = TRUE
    MaxCrashes = 1
    MaxFaults = 1
SPECIFICATION FairSpec
INVARIANTS DoneIsSettled
PROPERTIES StartingAgainSettles ArchivingAgainArchives
