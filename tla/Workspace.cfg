\* Three projects by two creators, archives, one of them under the command that
\* creates the project, a crash and two errors; the search for a free slug ends.
CONSTANTS
    Creators = {c1, c2}
    Ids = {i1, i2, i3}
    NoId = NoId
    ProjectNames <- MCNames
    Slugify <- MCSlugify
    NoSlug = NoSlug
    MaxEarly = 1
    MaxCrashes = 1
    MaxFaults = 2
CHECK_DEADLOCK FALSE
SPECIFICATION FairSpec
INVARIANTS Isolated CreatedStays HalfMadeAccounted
PROPERTIES ReferenceNeverMoves CreateEnds
