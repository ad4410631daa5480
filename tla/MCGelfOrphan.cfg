CONSTANTS
    r1 = r1
    r2 = r2
    Receivers <- MCReceivers
    RecvLists <- MCRecvLists
    MaxUpdates = 3
SPECIFICATION Spec
INVARIANT NoOrphanTarget
\* Run returns once its context is cancelled and Update calls are bounded,
\* so the component comes to rest.
CHECK_DEADLOCK FALSE
