\* Does the newest read of the file win when reloads overlap?  Four
\* versions of the file, one that does not parse and one the loader rejects;
\* two SIGHUPs and one /-/reload request racing them.
CONSTANTS
    MaxWrites = 3
    BadParse = {1}
    BadLoad = {2}
    MaxSignals = 2
    MaxHttp = 1
SPECIFICATION Spec
INVARIANT NewestReadApplied
\* Once input stops the process waits in select, and an exited process
\* takes no steps.
CHECK_DEADLOCK FALSE
