\* Three registrations for two invites, revocations, and a deletion.
CONSTANTS
    Tokens = {i1, i2}
    Registrations = {r1, r2, r3}
    Emails = {a, b, c}
    Founders = {a}
    Requested = {0, 1, 2, 5}
    UsesLimit = 2
    NoToken = NoToken
    NoEmail = NoEmail
    MaxDeletions = 1
SYMMETRY Symmetry
SPECIFICATION Spec
INVARIANTS TypeOK WithinMaxUses UsesAreAccounts
CHECK_DEADLOCK FALSE
