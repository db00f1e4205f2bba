\* Two overlapping processes, one worker each, that renew in time.
CONSTANTS
    p1 = p1  p2 = p2  w1 = w1  w2 = w2
    Procs = {p1, p2}
    Workers = {w1, w2}
    ProcOf <- OneEach
    Videos = {v1}
    Retries = {}
    RetryFrom = {"failed"}
    Deletes = {d1}
    Nobody = Nobody  Dead = Dead  NoVideo = NoVideo
    MaxAttempts = 2
    Renditions = 1
    Lease = 2
    MaxGap = 1
    Stalls = FALSE
    QuickRestart = TRUE
    TranscodeVideos = FALSE
    KeepRaw = FALSE
    MaxJobs = 2
    MaxCrashes = 1
    MaxDbErrors = 0
SYMMETRY SwapProcesses
SPECIFICATION Spec
INVARIANTS SoleRunner RunnerHoldsLease
PROPERTY BoardSpec
CHECK_DEADLOCK FALSE
