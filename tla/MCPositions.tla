----------------------------- MODULE MCPositions -----------------------------
(* Model-checking instance of Positions: one log file entry and one       *)
(* journal cursor, offsets 0..1, one crash.                               *)
EXTENDS Positions

CONSTANTS file, cursor

MCEntry == {file, cursor}
MCCursorEntry == {cursor}
=============================================================================
