\* One email worker; kills, database errors and lost replies.
CONSTANTS
    p1 = p1  p2 = p2
    Procs = {p1}
    Nobody = Nobody
    MaxMessages = 3
    Bulk = {1, 2}
    Unbuildable = {3}
    BatchSize = 2
    MaxAttempts = 2
    RetryDelay = 1
    Lease = 2
    QuickRestart = TRUE
    DbErrors = TRUE
    MaxFaults = 2
SPECIFICATION FairSpec
INVARIANTS TypeOK SentWasDelivered FailedAfterAllAttempts DuplicatesArePaidFor AttemptsArePaidFor
PROPERTIES OutboxSpec MessageResolves
CHECK_DEADLOCK FALSE
