\* Three chunks of two attempts each; requests for the second chunk may outlive
\* their connection; one other upload removes old files; one fault.
CONSTANTS
    Total = 3
    MaxRetries = 1
    Linger <- Middle
    Sweepers = {s1}
    MaxFaults = 1
SPECIFICATION Spec
INVARIANTS TypeOK VideoIsWhole StagingIsSeen RefusalHasACause
CHECK_DEADLOCK FALSE
