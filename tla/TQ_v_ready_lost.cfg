\* A process killed between a finished transcode and its record.
CONSTANTS
    p1 = p1  p2 = p2  w1 = w1  w2 = w2
    Procs = {p1}
    Workers = {w1}
    ProcOf <- Alone
    Videos = {v1}
    Retries = {}
    RetryFrom = {"failed"}
    Deletes = {}
    Nobody = Nobody  Dead = Dead  NoVideo = NoVideo
    MaxAttempts = 2
    Renditions = 1
    Lease = 2
    MaxGap = 1
    Stalls = FALSE
    QuickRestart = TRUE
    TranscodeVideos = TRUE
    KeepRaw = FALSE
    MaxJobs = 3
    MaxCrashes = 1
    MaxDbErrors = 0
SPECIFICATION Spec
INVARIANTS PurgedStaysPlayable
CHECK_DEADLOCK FALSE
