\* Two transcode runs and an edit; a steady member and one who may
\* unsubscribe and leave; one kill.
CONSTANTS
    Videos = {v1}
    MaxMembers = 2
    Fickle = {2}
    Leaving = {2}
    Runs = {r1, r2}
    Edits = {e1}
    NoToken = NoToken
    NoVideo = NoVideo
    MaxKills = 1
SYMMETRY SwapRuns
SPECIFICATION Spec
INVARIANTS TypeOK AnnouncedOnce EveryoneIsTold NobodyMissed LinksWork
CHECK_DEADLOCK FALSE
