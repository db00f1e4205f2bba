\* One process, two worker tasks, a kill at any step, one retry; fairness.
CONSTANTS
    p1 = p1  p2 = p2  w1 = w1  w2 = w2
    Procs = {p1}
    Workers = {w1, w2}
    ProcOf <- BothInP1
    Videos = {v1}
    Retries = {r1}
    RetryFrom = {"failed"}
    Deletes = {d1}
    Nobody = Nobody  Dead = Dead  NoVideo = NoVideo
    MaxAttempts = 2
    Renditions = 1
    Lease = 2
    MaxGap = 1
    Stalls = FALSE
    QuickRestart = TRUE
    TranscodeVideos = TRUE
    KeepRaw = FALSE
    MaxJobs = 3
    MaxCrashes = 1
    MaxDbErrors = 0
SPECIFICATION FairSpec
INVARIANTS TypeOK OneJobPerVideo ReadyHasRendition PurgedHasRendition NothingStranded AttemptsArePaidFor
PROPERTIES RunningEnds PendingResolves
CHECK_DEADLOCK FALSE
