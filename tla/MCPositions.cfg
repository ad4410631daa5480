CONSTANTS
    file = file
    cursor = cursor
    Entry <- MCEntry
    CursorEntry <- MCCursorEntry
    MaxOffset = 1
    ReadOnly = FALSE
    IgnoreInvalidYaml = TRUE
    MaxCrashes = 1

SPECIFICATION Spec

INVARIANT TypeOK
INVARIANT StopFlushes

PROPERTY StopTerminates

\* After Stop the tracker is finished, and a failed New leaves nothing to
\* run: both are end states of the real program.
CHECK_DEADLOCK FALSE
