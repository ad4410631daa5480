CONSTANTS
    a = a
    b = b
    c = c
    svc = svc
    Node <- MCNode
    Services <- MCServices
    Refs <- MCRefs
    IsModule = FALSE
    MaxLoads = 3

SPECIFICATION Spec

INVARIANT TypeOK
INVARIANT FailClosed
INVARIANT RefreshNotLost

PROPERTY RemovedEventuallyStopped

\* The controller waits in select forever once input stops and shuts down
\* after an interrupt: both end states are legitimate.
CHECK_DEADLOCK FALSE
