\* Four versions of the file, one that does not parse and one the loader rejects; two
\* SIGHUPs, so that one can arrive while another is buffered or being
\* served, and one /-/reload request racing them.
CONSTANTS
    MaxWrites = 3
    BadParse = {1}
    BadLoad = {2}
    MaxSignals = 2
    MaxHttp = 1
SPECIFICATION Spec
INVARIANT ParticipantLoaded
PROPERTY SighupServed
\* Once input stops the process waits in select, and an exited process
\* takes no steps.
CHECK_DEADLOCK FALSE
