\* Two workers that claim the same messages.
CONSTANTS
    p1 = p1  p2 = p2
    Procs = {p1, p2}
    Nobody = Nobody
    MaxMessages = 2
    Bulk = {}
    Unbuildable = {}
    BatchSize = 2
    MaxAttempts = 2
    RetryDelay = 1
    Lease = 2
    QuickRestart = TRUE
    DbErrors = TRUE
    MaxFaults = 0
SPECIFICATION Spec
INVARIANTS DeliveredOnce
CHECK_DEADLOCK FALSE
