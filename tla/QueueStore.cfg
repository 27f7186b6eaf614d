\* queue.db under any calls: two projects, two holders, two slots; and its
\* scheduling, when claims and seconds keep coming.
CONSTANTS
    Projects = {a, b}
    Holders  = {w1, w2}
    NoOne    = NoOne
    Departed = Departed
    Lease    = 2
    MaxSlots = 2
SPECIFICATION QueueFairSpec
INVARIANTS OneSlotEach
PROPERTIES ClaimsNotRepeated NoProjectStarves
