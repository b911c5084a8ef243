\* Two viewers, channels of one line, a creation of up to three, one crash.
SPECIFICATION FairSpec
CONSTANTS
    Viewers = {a, b}
    MaxLines = 3
    Cap = 1
    MaxCrashes = 1
INVARIANTS
    NothingMissed
    InOrder
    SubscribersOpen
PROPERTIES
    KeepsPromise
    StreamEndsUncrashed
\* The creation ends and the viewers may all leave.
CHECK_DEADLOCK FALSE
