\* Two browsers, one reset request and link; two failures lock the account for two ticks.
CONSTANTS
    b1 = b1  b2 = b2  r1 = r1
    Logins = {b1, b2}
    WithPasskey = {b1}
    Resets = {r1}
    MaxFailures = 2
    Lockout = 2
    MaxLinks = 1
    MaxPasswords = 1
SPECIFICATION FairSpec
INVARIANTS TypeOK OverrunIsBounded SessionsEndWithReset
PROPERTIES ThrottleEnds
CHECK_DEADLOCK FALSE
