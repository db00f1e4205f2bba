\* Workers that may miss any number of renewals.
CONSTANTS
    p1 = p1  p2 = p2  w1 = w1  w2 = w2
    Procs = {p1, p2}
    Workers = {w1, w2}
    ProcOf <- OneEach
    Videos = {v1}
    Retries = {}
    RetryFrom = {"failed"}
    Deletes = {}
    Nobody = Nobody  Dead = Dead  NoVideo = NoVideo
    MaxAttempts = 2
    Renditions = 1
    Lease = 2
    MaxGap = 1
    Stalls = TRUE
    QuickRestart = TRUE
    TranscodeVideos = FALSE
    KeepRaw = FALSE
    MaxJobs = 2
    MaxCrashes = 1
    MaxDbErrors = 1
SPECIFICATION Spec
SYMMETRY SwapProcesses
INVARIANTS DropsArePaidFor
PROPERTIES OwnersDecide
CHECK_DEADLOCK FALSE
