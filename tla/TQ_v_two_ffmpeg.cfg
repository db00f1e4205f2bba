\* A process starts between the two transactions of an upload.
CONSTANTS
    p1 = p1  p2 = p2  w1 = w1  w2 = w2
    Procs = {p1, p2}
    Workers = {w1, w2}
    ProcOf <- OneEach
    Videos = {v1}
    Retries = {}
    RetryFrom = {"failed"}
    Deletes = {}
    Nobody = Nobody  Dead = Dead  NoVideo = NoVideo
    MaxAttempts = 2
    Renditions = 1
    Lease = 2
    MaxGap = 1
    Stalls = FALSE
    QuickRestart = TRUE
    TranscodeVideos = FALSE
    KeepRaw = FALSE
    MaxJobs = 2
    MaxCrashes = 0
    MaxDbErrors = 0
SPECIFICATION Spec
INVARIANTS OneTranscodePerVideo
CHECK_DEADLOCK FALSE
