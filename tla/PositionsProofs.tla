--------------------------- MODULE PositionsProofs ---------------------------
(***************************************************************************)
(* Proof that Stop is a flush (StopFlushes) for every set of entries,      *)
(* offsets, configuration and number of crashes.                           *)
(***************************************************************************)
EXTENDS Positions, TLAPS

\* Map m records entry e as stopMem does.
Agree(m, e) ==
    /\ e \in DOMAIN m <=> e \in DOMAIN stopMem
    /\ e \in DOMAIN m => m[e] = stopMem[e]

\* The inductive invariant, in two parts.  Ctl: quit is closed exactly
\* when Stop was called, nothing is touched before, done is closed only
\* after quit and the final save, and Stop returns only after done.  Snap:
\* Stop's snapshot survives outside the entries touched since, first in
\* p.positions, then in the copy the deferred save took after quit, and,
\* once done is closed after a final save that did not fail, in the file,
\* which nothing writes after the final save.
Ctl ==
    /\ quit = (stopper # "none")
    /\ ~quit => touched = {}
    /\ done => quit /\ runPc = "exited"
    /\ stopper = "returned" => done
    /\ runPc = "finalWrite" => quit /\ proc = "up"

Snap ==
    /\ quit /\ proc = "up" => \A e \in Entry \ touched : Agree(mem, e)
    /\ runPc = "finalWrite" => \A e \in Entry \ touched : Agree(copy, e)
    /\ done /\ ~ReadOnly /\ ~saveErr =>
          \A e \in Entry \ touched : OnDisk(e, stopMem)

IInv == Ctl /\ Snap

USE PositionsAssumption

\* New starts with quit and done open and no Stop called.
LEMMA InitIInv == Init => IInv
<1> SUFFICES ASSUME Init PROVE IInv
  OBVIOUS
<1>1. Ctl
  BY Zenon DEF Init, Ctl
<1>2. Snap
  BY Zenon DEF Init, Snap
<1> QED
  BY <1>1, <1>2 DEF IInv

\* A change of the in-memory map by a tailer or by cleanup: the entries of
\* S are touched (once quit is closed) and the others keep their positions.
LEMMA MemStep ==
    ASSUME IInv, NEW S,
           \A e \in Entry \ S : /\ e \in DOMAIN mem' <=> e \in DOMAIN mem
                                /\ e \in DOMAIN mem => mem'[e] = mem[e],
           touched' = IF quit THEN touched \cup S ELSE touched,
           runPc' = runPc \/ (runPc = "cleanup" /\ runPc' = "loop"),
           UNCHANGED <<proc, disk, copy, quit, done, stopper, stopMem, saveErr>>
    PROVE  IInv'
<1>0. /\ proc' = proc /\ disk' = disk /\ copy' = copy
      /\ quit' = quit /\ done' = done /\ stopper' = stopper
      /\ stopMem' = stopMem /\ saveErr' = saveErr
  OBVIOUS
<1>1. Ctl'
  <2>1. CASE quit
    BY <1>0, <2>1 DEF IInv, Ctl
  <2>2. CASE ~quit
    BY <1>0, <2>2 DEF IInv, Ctl
  <2> QED
    BY <2>1, <2>2
<1>2. CASE quit
  <2>1. touched' = touched \cup S
    BY <1>2
  <2>2. Snap!1'
    <3> SUFFICES ASSUME proc = "up", NEW e \in Entry \ touched'
                 PROVE  Agree(mem, e)'
      BY <1>0, <1>2
    <3>1. e \in Entry \ S /\ e \in Entry \ touched
      BY <2>1
    <3>2. Agree(mem, e)
      BY <3>1, <1>2 DEF IInv, Snap
    <3> QED
      BY <3>1, <3>2, <1>0 DEF Agree
  <2>3. Snap!2' /\ Snap!3'
    <3>1. runPc' = "finalWrite" => runPc = "finalWrite"
      OBVIOUS
    <3> QED
      BY <1>0, <2>1, <3>1 DEF IInv, Snap, Agree, OnDisk
  <2> QED
    BY <1>1, <2>2, <2>3 DEF IInv, Snap
<1>3. CASE ~quit
  <2>1. ~done /\ runPc # "finalWrite"
    BY <1>3, Zenon DEF IInv, Ctl
  <2>4. runPc' # "finalWrite"
    BY <2>1
  <2>2. ~quit' /\ ~done' /\ runPc' # "finalWrite"
    BY <1>0, <1>3, <2>1, <2>4
  <2>3. Snap'
    BY <2>2, Zenon DEF Snap
  <2> QED
    BY <1>1, <2>3 DEF IInv
<1> QED
  BY <1>1, <1>2, <1>3 DEF IInv

\* Put, Remove and cleanup change p.positions only at the entries they
\* touch.
LEMMA PutStringIInv ==
    ASSUME IInv, NEW e \in Entry, NEW v \in Offset, PutString(e, v)
    PROVE  IInv'
<1>1. \A x \in Entry \ {e} : /\ x \in DOMAIN mem' <=> x \in DOMAIN mem
                             /\ x \in DOMAIN mem => mem'[x] = mem[x]
  BY DEF PutString, SetPos
<1> QED
  BY <1>1, MemStep DEF PutString, Touch

LEMMA RemoveIInv ==
    ASSUME IInv, NEW e \in Entry, Remove(e)
    PROVE  IInv'
<1>1. \A x \in Entry \ {e} : /\ x \in DOMAIN mem' <=> x \in DOMAIN mem
                             /\ x \in DOMAIN mem => mem'[x] = mem[x]
  BY DEF Remove, DropPos
<1> QED
  BY <1>1, MemStep DEF Remove, Touch

LEMMA CleanupIInv ==
    ASSUME IInv, Cleanup
    PROVE  IInv'
<1>1. \A x \in Entry \ Stale(mem) :
          /\ x \in DOMAIN mem' <=> x \in DOMAIN mem
          /\ x \in DOMAIN mem => mem'[x] = mem[x]
  BY DEF Cleanup, DropPos
<1> QED
  BY <1>1, MemStep DEF Cleanup, Touch

\* Stop snapshots p.positions as it closes quit; nothing is touched yet.
LEMMA StopIInv ==
    ASSUME IInv, Stop
    PROVE  IInv'
<1>1. ~quit /\ touched = {} /\ ~done /\ runPc # "finalWrite"
  BY Zenon DEF Stop, IInv, Ctl
<1>2. Ctl'
  BY <1>1, Zenon DEF Stop, Ctl
<1>3. Snap'
  BY <1>1 DEF Stop, Snap, Agree
<1> QED
  BY <1>2, <1>3 DEF IInv

LEMMA StopReturnIInv ==
    ASSUME IInv, StopReturn
    PROVE  IInv'
<1>1. Ctl'
  BY Zenon DEF StopReturn, IInv, Ctl
<1>2. Snap'
  BY DEF StopReturn, IInv, Snap, Agree, OnDisk
<1> QED
  BY <1>1, <1>2 DEF IInv

\* A tick's save and its write happen before quit is seen: run is not at
\* the final save and done is open.
LEMMA TickIInv ==
    ASSUME IInv, Tick
    PROVE  IInv'
<1>1. ~done /\ runPc' \in {"write", "cleanup"}
  BY Zenon DEF Tick, SaveCopy, IInv, Ctl
<1>2. Ctl'
  BY <1>1, Zenon DEF Tick, IInv, Ctl
<1>3. Snap'
  BY <1>1 DEF Tick, IInv, Snap, Agree
<1> QED
  BY <1>2, <1>3 DEF IInv

LEMMA WriteIInv ==
    ASSUME IInv, NEW ok \in BOOLEAN, Write(ok)
    PROVE  IInv'
<1>1. ~done
  BY Zenon DEF Write, IInv, Ctl
<1>2. Ctl'
  BY <1>1, Zenon DEF Write, IInv, Ctl
<1>3. Snap'
  BY <1>1 DEF Write, IInv, Snap, Agree
<1> QED
  BY <1>2, <1>3 DEF IInv

\* Run sees quit: unless read-only, the deferred save copies p.positions,
\* which still holds the snapshot outside the touched entries.
LEMMA QuitIInv ==
    ASSUME IInv, Quit
    PROVE  IInv'
<1>1. quit /\ proc = "up" /\ ~done
  BY Zenon DEF Quit, IInv, Ctl
<1>2. CASE ReadOnly
  <2>1. runPc' = "exited" /\ done' /\ copy' = copy
    BY <1>2, Zenon DEF Quit, SaveCopy
  <2>2. Ctl'
    BY <1>1, <2>1, Zenon DEF Quit, IInv, Ctl
  <2>3. Snap'
    BY <1>2, <2>1 DEF Quit, IInv, Snap, Agree
  <2> QED
    BY <2>2, <2>3 DEF IInv
<1>3. CASE ~ReadOnly
  <2>1. runPc' = "finalWrite" /\ ~done' /\ copy' = mem
    BY <1>3, Zenon DEF Quit, SaveCopy
  <2>2. Ctl'
    BY <1>1, <2>1, Zenon DEF Quit, IInv, Ctl
  <2>3. Snap'
    BY <1>1, <2>1 DEF Quit, IInv, Snap, Agree
  <2> QED
    BY <2>2, <2>3 DEF IInv
<1> QED
  BY <1>2, <1>3

\* The final save writes the copy, which holds the snapshot outside the
\* touched entries, and only then closes done; if the write failed, the
\* failure is recorded and the file is not claimed.
LEMMA FinalWriteIInv ==
    ASSUME IInv, NEW ok \in BOOLEAN, FinalWrite(ok)
    PROVE  IInv'
<1>1. quit /\ runPc = "finalWrite"
  BY Zenon DEF FinalWrite, IInv, Ctl
<1>2. Ctl'
  BY <1>1, Zenon DEF FinalWrite, IInv, Ctl
<1>3. \A e \in Entry \ touched : Agree(copy, e)
  BY <1>1 DEF IInv, Snap
<1>4. Snap'
  <2>1. CASE ok
    <3>1. disk' = WritePositionFile(copy)
      BY <2>1 DEF FinalWrite, SaveFile
    <3> QED
      BY <1>3, <3>1 DEF FinalWrite, WritePositionFile, IInv, Snap, Agree, OnDisk
  <2>2. CASE ~ok
    <3>1. saveErr' /\ runPc' = "exited"
      BY <2>2 DEF FinalWrite
    <3> QED
      BY <3>1 DEF FinalWrite, IInv, Snap, Agree
  <2> QED
    BY <2>1, <2>2
<1> QED
  BY <1>2, <1>4 DEF IInv

LEMMA ToggleFileIInv ==
    ASSUME IInv, NEW e \in Entry, ToggleFile(e)
    PROVE  IInv'
<1>1. Ctl'
  BY Zenon DEF ToggleFile, IInv, Ctl
<1>2. Snap'
  BY DEF ToggleFile, IInv, Snap, Agree, OnDisk
<1> QED
  BY <1>1, <1>2 DEF IInv

\* A crash loses memory and the run goroutine but not the file.
LEMMA CrashIInv ==
    ASSUME IInv, Crash
    PROVE  IInv'
<1>1. Ctl'
  BY Zenon DEF Crash, IInv, Ctl
<1>2. Snap'
  BY DEF Crash, IInv, Snap, OnDisk
<1> QED
  BY <1>1, <1>2 DEF IInv

\* New, called again after a restart, starts with no Stop called.
LEMMA RestartIInv ==
    ASSUME IInv, Restart
    PROVE  IInv'
<1>1. Ctl'
  BY Zenon DEF Restart, Ctl
<1>2. Snap'
  BY Zenon DEF Restart, Snap
<1> QED
  BY <1>1, <1>2 DEF IInv

LEMMA UnchangedIInv ==
    ASSUME IInv, UNCHANGED vars
    PROVE  IInv'
BY DEF vars, IInv, Ctl, Snap, Agree, OnDisk

LEMMA NextIInv == IInv /\ [Next]_vars => IInv'
<1> SUFFICES ASSUME IInv, [Next]_vars PROVE IInv'
  OBVIOUS
<1> QED
  BY PutStringIInv, RemoveIInv, StopIInv, StopReturnIInv, TickIInv,
     WriteIInv, CleanupIInv, QuitIInv, FinalWriteIInv, ToggleFileIInv,
     CrashIInv, RestartIInv, UnchangedIInv DEF Next

\* Stop is a flush attempt: once Stop has returned, and unless the tracker
\* is read-only or the final writePositionFile failed, the file holds every
\* position recorded when Stop was called outside the entries changed
\* since, whatever ticks, failed tick writes, cleanups and crashes
\* interleaved with it.
THEOREM StopFlushesHolds == Spec => []StopFlushes
<1>1. IInv => StopFlushes
  BY Zenon DEF IInv, Ctl, Snap, StopFlushes
<1> QED
  BY InitIInv, NextIInv, <1>1, PTL DEF Spec


-----------------------------------------------------------------------------
(* Type correctness.  A positions map is a function from some set of       *)
(* tracked entries to offsets; the lemmas below say that the map           *)
(* operations of positions.go keep that shape.                             *)

\* A function from tracked entries to offsets is a positions map.
LEMMA PosMapIntro ==
    ASSUME NEW D \in SUBSET Entry, NEW m \in [D -> Offset]
    PROVE  m \in PosMap
BY DEF PosMap

\* A positions map is a function from a set of tracked entries to offsets.
LEMMA PosMapElim ==
    ASSUME NEW m \in PosMap
    PROVE  DOMAIN m \subseteq Entry /\ m \in [DOMAIN m -> Offset]
BY DEF PosMap

\* Put records a tracked entry at an offset and yields a positions map.
LEMMA SetPosType ==
    ASSUME NEW m \in PosMap, NEW e \in Entry, NEW v \in Offset
    PROVE  SetPos(m, e, v) \in PosMap
<1>1. DOMAIN m \subseteq Entry /\ m \in [DOMAIN m -> Offset]
  BY PosMapElim
<1>2. SetPos(m, e, v) \in [DOMAIN m \cup {e} -> Offset]
  BY <1>1 DEF SetPos
<1> QED
  BY <1>1, <1>2, PosMapIntro

\* Remove and cleanup, which drop entries, yield a positions map.
LEMMA DropPosType ==
    ASSUME NEW m \in PosMap, NEW S
    PROVE  DropPos(m, S) \in PosMap
<1>1. DOMAIN m \subseteq Entry /\ m \in [DOMAIN m -> Offset]
  BY PosMapElim
<1>2. DropPos(m, S) \in [DOMAIN m \ S -> Offset]
  BY <1>1 DEF DropPos
<1> QED
  BY <1>1, <1>2, PosMapIntro

\* The empty map is a positions map.
LEMMA EmptyMapType == EmptyMap \in PosMap
<1>1. {} \in SUBSET Entry /\ EmptyMap \in [{} -> Offset]
  BY DEF EmptyMap
<1> QED
  BY <1>1, PosMapIntro

\* readPositionsFile gives a positions map for whatever the file holds, and
\* writePositionFile of a positions map is a valid file.
LEMMA FileType ==
    /\ \A f \in FileContent : ReadPositionsFile(f) \in PosMap
    /\ \A m \in PosMap : WritePositionFile(m) \in FileContent
<1>1. [e \in {} |-> 0] \in PosMap
  BY EmptyMapType DEF EmptyMap
<1>2. \A f \in FileContent : ReadPositionsFile(f) \in PosMap
  BY <1>1 DEF FileContent, ReadPositionsFile
<1>3. \A m \in PosMap : WritePositionFile(m) \in FileContent
  BY DEF FileContent, WritePositionFile
<1> QED
  BY <1>2, <1>3


LEMMA InitTypeOK == Init => TypeOK
<1> SUFFICES ASSUME Init PROVE TypeOK
  OBVIOUS
<1>1. mem \in PosMap
  BY FileType DEF Init
<1>2. copy \in PosMap /\ stopMem \in PosMap
  BY EmptyMapType DEF Init
<1>3. proc \in {"up", "down", "failed"}
      /\ runPc \in {"loop", "write", "cleanup", "finalWrite", "exited"}
  BY DEF Init
<1>4. crashes \in 0..MaxCrashes /\ touched \subseteq Entry
  BY PositionsAssumption DEF Init, PositionsAssumption
<1>5. quit \in BOOLEAN /\ done \in BOOLEAN
      /\ stopper \in {"none", "waiting", "returned"}
  BY Zenon DEF Init
<1> QED
  BY <1>1, <1>2, <1>3, <1>4, <1>5 DEF Init, TypeOK

LEMMA NextTypeOK == TypeOK /\ [Next]_vars => TypeOK'
<1> SUFFICES ASSUME TypeOK, [Next]_vars PROVE TypeOK'
  OBVIOUS
<1>1. CASE \E e \in Entry, v \in Offset : PutString(e, v)
  BY <1>1, SetPosType DEF PutString, Touch, TypeOK
<1>2. CASE \E e \in Entry : Remove(e)
  BY <1>2, DropPosType DEF Remove, Touch, TypeOK
<1>3. CASE Stop \/ StopReturn
  BY <1>3 DEF Stop, StopReturn, TypeOK
<1>4. CASE Tick
  BY <1>4 DEF Tick, SaveCopy, TypeOK
<1>5. CASE \E ok \in BOOLEAN : Write(ok) \/ FinalWrite(ok)
  BY <1>5, FileType DEF Write, FinalWrite, SaveFile, TypeOK
<1>6. CASE Cleanup
  <2>1. Stale(mem) \subseteq Entry
    BY PosMapElim DEF Stale, TypeOK
  <2> QED
    BY <1>6, <2>1, DropPosType DEF Cleanup, Touch, TypeOK
<1>7. CASE Quit
  BY <1>7 DEF Quit, SaveCopy, TypeOK
<1>8. CASE \E e \in Entry : ToggleFile(e)
  BY <1>8 DEF ToggleFile, TypeOK
<1>9. CASE Crash
  BY <1>9, EmptyMapType DEF Crash, TypeOK
<1>10. CASE Restart
  BY <1>10, EmptyMapType, FileType DEF Restart, TypeOK
<1>11. CASE UNCHANGED vars
  BY <1>11 DEF vars, TypeOK
<1> QED
  BY <1>1, <1>2, <1>3, <1>4, <1>5, <1>6, <1>7, <1>8, <1>9, <1>10, <1>11
     DEF Next

\* Type correctness of the tracker: p.positions, the copy save() writes and
\* the file always hold positions maps over the tracked entries, however
\* puts, removes, cleanups, saves, crashes and restarts interleave.
THEOREM TypeCorrect == Spec => []TypeOK
BY InitTypeOK, NextTypeOK, PTL DEF Spec

=============================================================================
