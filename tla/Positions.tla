------------------------------ MODULE Positions ------------------------------
(***************************************************************************)
(* The positions tracker of                                                *)
(* src/internal/component/common/loki/positions/positions.go: tailers call *)
(* Put/Remove under p.mtx, a run goroutine saves a copy of the map to the  *)
(* positions file and cleans up entries of deleted files on every tick,    *)
(* Stop closes quit and waits for the final save.  The process may crash   *)
(* at any point and restart by reading the file (New/readPositionsFile).   *)
(***************************************************************************)
EXTENDS Naturals, FiniteSets

CONSTANTS
    Entry,             \* (path, labels) pairs tracked
    CursorEntry,       \* entries whose path has the cursor-/journal- prefix
    MaxOffset,         \* offsets are 0..MaxOffset
    ReadOnly,          \* Config.ReadOnly
    IgnoreInvalidYaml, \* Config.IgnoreInvalidYaml
    MaxCrashes         \* bound on crashes

ASSUME PositionsAssumption ==
    /\ CursorEntry \subseteq Entry
    /\ MaxOffset \in Nat
    /\ ReadOnly \in BOOLEAN
    /\ IgnoreInvalidYaml \in BOOLEAN
    /\ MaxCrashes \in Nat

Offset == 0..MaxOffset

\* A positions map: a function from the tracked entries to offsets.
PosMap == UNION {[D -> Offset] : D \in SUBSET Entry}

\* What the positions file can hold: nothing (the file does not exist), a
\* document that is not valid YAML, or a positions map.
FileContent ==
    [state : {"absent", "corrupt"}, pos : {[e \in {} |-> 0]}]
        \cup [state : {"valid"}, pos : PosMap]

VARIABLES
    proc,       \* "up", "down" (crashed) or "failed" (New returned an error)
    mem,        \* p.positions
    disk,       \* the positions file
    runPc,      \* the run goroutine: "loop", "write", "cleanup",
                \* "finalWrite", "exited"
    copy,       \* the copy save() took under the lock, not yet written
    quit,       \* p.quit is closed
    done,       \* p.done is closed
    stopper,    \* the caller of Stop: "none", "waiting", "returned"
    fileExists, \* os.Stat(path) succeeds for the entry's file
    crashes,    \* crashes so far
    stopMem,    \* history: p.positions when Stop closed quit
    touched,    \* history: entries changed in memory since Stop was called
    saveErr     \* history: the final save's writePositionFile failed

vars == <<proc, mem, disk, runPc, copy, quit, done, stopper, fileExists,
          crashes, stopMem, touched, saveErr>>

EmptyMap == [e \in {} |-> 0]

\* m with entry e set to v.
SetPos(m, e, v) == [x \in DOMAIN m \cup {e} |-> IF x = e THEN v ELSE m[x]]

\* m without the entries of S.
DropPos(m, S) == [x \in DOMAIN m \ S |-> m[x]]

\* The entries cleanup() removes: not a cursor, and the file is gone.
Stale(m) == {e \in DOMAIN m \ CursorEntry : ~fileExists[e]}

\* readPositionsFile: a missing file reads as an empty map, an invalid one
\* as an empty map only when IgnoreInvalidYaml is set.
ReadOK(f) == f.state # "corrupt" \/ IgnoreInvalidYaml
ReadPositionsFile(f) == f.pos

\* writePositionFile(path, m): the file becomes m when ok; when the write
\* fails (ok = FALSE) save() only logs the error and the file is as before.
WritePositionFile(m) == [state |-> "valid", pos |-> m]
SaveFile(m, ok) == disk' = IF ok THEN WritePositionFile(m) ELSE disk

-----------------------------------------------------------------------------
\* The tracker was built by New over whatever file the previous run left.
Init ==
    /\ disk \in FileContent
    /\ fileExists \in [Entry -> BOOLEAN]
    /\ proc = IF ReadOK(disk) THEN "up" ELSE "failed"
    /\ mem = ReadPositionsFile(disk)
    /\ runPc = IF ReadOK(disk) THEN "loop" ELSE "exited"
    /\ copy = EmptyMap
    /\ quit = FALSE
    /\ done = FALSE
    /\ stopper = "none"
    /\ crashes = 0
    /\ stopMem = EmptyMap
    /\ touched = {}
    /\ saveErr = FALSE

\* Record that the in-memory map changed for the entries of S.
Touch(S) == touched' = IF quit THEN touched \cup S ELSE touched

\* Mutant: the offset is recorded one past what the tailer passed.
PutStringPastEnd(e, v) ==
    /\ proc = "up"
    /\ mem' = SetPos(mem, e, v + 1)
    /\ Touch({e})
    /\ UNCHANGED <<proc, disk, runPc, copy, quit, done, stopper, fileExists,
                   crashes, stopMem, saveErr>>

\* PutString/Put: a tailer records how far it has read, under p.mtx.
PutString(e, v) ==
    /\ proc = "up"
    /\ mem' = SetPos(mem, e, v)
    /\ Touch({e})
    /\ UNCHANGED <<proc, disk, runPc, copy, quit, done, stopper, fileExists,
                   crashes, stopMem, saveErr>>

\* Remove: a tailer stops tracking a file, under p.mtx.
Remove(e) ==
    /\ proc = "up"
    /\ e \in DOMAIN mem
    /\ mem' = DropPos(mem, {e})
    /\ Touch({e})
    /\ UNCHANGED <<proc, disk, runPc, copy, quit, done, stopper, fileExists,
                   crashes, stopMem, saveErr>>

\* Stop: close(p.quit), then block on <-p.done.
Stop ==
    /\ proc = "up"
    /\ stopper = "none"
    /\ quit' = TRUE
    /\ stopper' = "waiting"
    /\ stopMem' = mem
    /\ UNCHANGED <<proc, mem, disk, runPc, copy, done, fileExists, crashes,
                   touched, saveErr>>

\* Stop returns once run has closed p.done.
StopReturn ==
    /\ stopper = "waiting"
    /\ done
    /\ stopper' = "returned"
    /\ UNCHANGED <<proc, mem, disk, runPc, copy, quit, done, fileExists,
                   crashes, stopMem, touched, saveErr>>

-----------------------------------------------------------------------------
(* The run goroutine.                                                      *)

\* save(), first half: unless read-only, copy the map under p.mtx.
\* pcWrite is where run goes to write the copy, pcAfter where it goes when
\* save returns early.
SaveCopy(pcWrite, pcAfter) ==
    IF ReadOnly
      THEN runPc' = pcAfter /\ UNCHANGED copy
      ELSE runPc' = pcWrite /\ copy' = mem

\* select: <-ticker.C fires; save() starts.
Tick ==
    /\ proc = "up"
    /\ runPc = "loop"
    /\ SaveCopy("write", "cleanup")
    /\ UNCHANGED <<proc, mem, disk, quit, done, stopper, fileExists, crashes,
                   stopMem, touched, saveErr>>

\* save(), second half: writePositionFile without the lock; an error is
\* only logged.
Write(ok) ==
    /\ proc = "up"
    /\ runPc = "write"
    /\ SaveFile(copy, ok)
    /\ runPc' = "cleanup"
    /\ UNCHANGED <<proc, mem, copy, quit, done, stopper, fileExists, crashes,
                   stopMem, touched, saveErr>>

\* cleanup(): under p.mtx, drop the entries whose file no longer exists.
Cleanup ==
    /\ proc = "up"
    /\ runPc = "cleanup"
    /\ mem' = DropPos(mem, Stale(mem))
    /\ Touch(Stale(mem))
    /\ runPc' = "loop"
    /\ UNCHANGED <<proc, disk, copy, quit, done, stopper, fileExists, crashes,
                   stopMem, saveErr>>

\* Mutant: p.done closed before the deferred save (the order swapped).
QuitClosesDoneFirst ==
    /\ proc = "up"
    /\ runPc = "loop"
    /\ quit
    /\ SaveCopy("finalWrite", "exited")
    /\ done' = TRUE
    /\ UNCHANGED <<proc, mem, disk, quit, stopper, fileExists, crashes,
                   stopMem, touched, saveErr>>

\* select: <-p.quit; the deferred function saves one last time.
Quit ==
    /\ proc = "up"
    /\ runPc = "loop"
    /\ quit
    /\ SaveCopy("finalWrite", "exited")
    /\ done' = ReadOnly
    /\ UNCHANGED <<proc, mem, disk, quit, stopper, fileExists, crashes,
                   stopMem, touched, saveErr>>

\* Mutant: the deferred function forgets close(p.done).
FinalWriteNoClose(ok) ==
    /\ proc = "up"
    /\ runPc = "finalWrite"
    /\ SaveFile(copy, ok)
    /\ runPc' = "exited"
    /\ saveErr' = ~ok
    /\ UNCHANGED <<proc, mem, copy, quit, done, stopper, fileExists, crashes,
                   stopMem, touched>>

\* The final writePositionFile, then close(p.done) whether it failed or not.
FinalWrite(ok) ==
    /\ proc = "up"
    /\ runPc = "finalWrite"
    /\ SaveFile(copy, ok)
    /\ runPc' = "exited"
    /\ done' = TRUE
    /\ saveErr' = ~ok
    /\ UNCHANGED <<proc, mem, copy, quit, stopper, fileExists, crashes,
                   stopMem, touched>>

-----------------------------------------------------------------------------
(* The environment.                                                        *)

\* The file behind a (non-cursor) entry is deleted or created again.
ToggleFile(e) ==
    /\ e \in Entry \ CursorEntry
    /\ fileExists' = [fileExists EXCEPT ![e] = ~@]
    /\ UNCHANGED <<proc, mem, disk, runPc, copy, quit, done, stopper,
                   crashes, stopMem, touched, saveErr>>

\* The process dies: memory and goroutines are lost, the file stays.
Crash ==
    /\ proc = "up"
    /\ crashes < MaxCrashes
    /\ crashes' = crashes + 1
    /\ proc' = "down"
    /\ mem' = EmptyMap
    /\ runPc' = "exited"
    /\ copy' = EmptyMap
    /\ UNCHANGED <<disk, quit, done, stopper, fileExists, stopMem, touched,
                   saveErr>>

\* The process restarts and the component calls New again.
Restart ==
    /\ proc = "down"
    /\ proc' = IF ReadOK(disk) THEN "up" ELSE "failed"
    /\ mem' = ReadPositionsFile(disk)
    /\ runPc' = IF ReadOK(disk) THEN "loop" ELSE "exited"
    /\ quit' = FALSE
    /\ done' = FALSE
    /\ stopper' = "none"
    /\ stopMem' = EmptyMap
    /\ touched' = {}
    /\ saveErr' = FALSE
    /\ UNCHANGED <<disk, copy, fileExists, crashes>>

-----------------------------------------------------------------------------
Next ==
    \/ \E e \in Entry, v \in Offset : PutString(e, v)
    \/ \E e \in Entry : Remove(e)
    \/ Stop
    \/ StopReturn
    \/ Tick
    \/ \E ok \in BOOLEAN : Write(ok)
    \/ Cleanup
    \/ Quit
    \/ \E ok \in BOOLEAN : FinalWrite(ok)
    \/ \E e \in Entry : ToggleFile(e)
    \/ Crash
    \/ Restart

\* The run goroutine and a blocked Stop are scheduled by the Go runtime;
\* select picks uniformly among ready cases, so a quit that is ready at
\* every return to the loop is eventually taken.  Ticks are not obliged.
Fairness ==
    /\ WF_vars(\E ok \in BOOLEAN : Write(ok))
    /\ WF_vars(Cleanup)
    /\ SF_vars(Quit)
    /\ WF_vars(\E ok \in BOOLEAN : FinalWrite(ok))
    /\ WF_vars(StopReturn)

Spec == Init /\ [][Next]_vars /\ Fairness

-----------------------------------------------------------------------------
(* Properties.                                                             *)

TypeOK ==
    /\ proc \in {"up", "down", "failed"}
    /\ mem \in PosMap
    /\ disk \in FileContent
    /\ runPc \in {"loop", "write", "cleanup", "finalWrite", "exited"}
    /\ copy \in PosMap
    /\ quit \in BOOLEAN
    /\ done \in BOOLEAN
    /\ stopper \in {"none", "waiting", "returned"}
    /\ fileExists \in [Entry -> BOOLEAN]
    /\ crashes \in 0..MaxCrashes
    /\ stopMem \in PosMap
    /\ touched \subseteq Entry
    /\ saveErr \in BOOLEAN

\* The file records entry e exactly as map m does.
OnDisk(e, m) ==
    /\ disk.state = "valid"
    /\ e \in DOMAIN disk.pos <=> e \in DOMAIN m
    /\ e \in DOMAIN m => disk.pos[e] = m[e]

\* Stop is a flush attempt (run's deferred save before close(done)): once
\* Stop has returned, every position the tailers had recorded when they
\* called Stop is in the file, unless a Put, Remove or cleanup changed it
\* since, even though ticks, saves and cleanups raced with the Stop.  The
\* one exception is the code's: when the final writePositionFile fails,
\* save() logs the error and close(p.done) still releases Stop over the
\* previous file.
StopFlushes ==
    (stopper = "returned" /\ ~ReadOnly /\ ~saveErr) =>
        \A e \in Entry \ touched : OnDisk(e, stopMem)

\* Stop does not block forever: the run goroutine sees quit and closes done
\* (unless the process dies first).
StopTerminates == stopper = "waiting" ~> (stopper = "returned" \/ proc # "up")

=============================================================================
