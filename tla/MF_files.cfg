\* One video of two renditions, two runs, both kinds of deletion, two faults.
CONSTANTS
    v1 = v1  v2 = v2  o1 = o1
    Videos = {v1}
    Owners = {o1}
    OwnerOf <- OneOwner
    Renditions <- TwoRenditions
    VideoDeletes = {d1}
    AccountDeletes = {d2}
    NoVideo = NoVideo  NoOwner = NoOwner
    KeepRaw = FALSE
    MaxRuns = 2
    MaxFaults = 2
SPECIFICATION Spec
INVARIANTS TypeOK LeftoversHaveACause RowsStandForFiles NothingIsLost
CHECK_DEADLOCK FALSE
