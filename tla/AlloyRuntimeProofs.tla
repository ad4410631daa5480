------------------------- MODULE AlloyRuntimeProofs -------------------------
(***************************************************************************)
(* Machine-checked proofs about AlloyRuntime, for every value of the       *)
(* constants that satisfies RuntimeAssumption.                             *)
(***************************************************************************)
EXTENDS AlloyRuntime, TLAPS

\* The inductive strengthening of FailClosed: before any clean load the
\* controller is not loaded, no refresh is buffered, the Run loop is not
\* about to synchronize and the Scheduler runs nothing.
FailClosedInv ==
    ~cleanLoad =>
        /\ ~loadedOnce
        /\ loadFinished = 0
        /\ runPc # "sync"
        /\ running = {}

IInv == TypeOK /\ FailClosedInv

USE RuntimeAssumption DEF RuntimeAssumption

-----------------------------------------------------------------------------
(* Type correctness.                                                       *)

\* TypeOK split into its Boolean-valued part (for Zenon) and the rest (for
\* SMT), since neither backend handles both well at once.
BoolOK ==
    /\ loadedOnce \in BOOLEAN
    /\ diagsErr \in BOOLEAN
    /\ ctxDone \in BOOLEAN
    /\ runExited \in BOOLEAN
    /\ cleanLoad \in BOOLEAN

DataOK ==
    /\ graph \subseteq Node
    /\ loadFinished \in 0..1
    /\ applyPc \in {"idle", "applied"}
    /\ loads \in 0..MaxLoads
    /\ queue \subseteq Node
    /\ queueSignal \in 0..1
    /\ runPc \in {"select", "dequeue", "sync"}
    /\ snapshot \subseteq Runnable
    /\ running \subseteq Runnable
    /\ synced \subseteq Runnable

LEMMA TypeOKSplit == TypeOK <=> BoolOK /\ DataOK
BY Zenon DEF TypeOK, BoolOK, DataOK

LEMMA InitTypeOK == Init => TypeOK
<1>1. Init => BoolOK
  BY Zenon DEF Init, BoolOK
<1>2. Init => DataOK
  BY DEF Init, DataOK, Runnable
<1>. QED
  BY <1>1, <1>2, TypeOKSplit

LEMMA NextBoolOK == BoolOK /\ [Next]_vars => BoolOK'
<1> SUFFICES ASSUME BoolOK, [Next]_vars PROVE BoolOK'
  OBVIOUS
<1>1. ASSUME NEW D \in SUBSET Node, NEW e \in BOOLEAN, LoadSource(D, e)
      PROVE BoolOK'
  BY <1>1, Zenon DEF LoadSource, BoolOK
<1>2. CASE ApplyFinish
  <2>1. CASE FirstLoadFailed
    BY <1>2, <2>1, Zenon DEF ApplyFinish, BoolOK
  <2>2. CASE ~FirstLoadFailed
    BY <1>2, <2>2, Zenon DEF ApplyFinish, BoolOK
  <2>. QED
    BY <2>1, <2>2
<1>3. ASSUME NEW n \in Node, OnBlockNodeUpdate(n) PROVE BoolOK'
  BY <1>3, Zenon DEF OnBlockNodeUpdate, BoolOK
<1>4. ASSUME NEW n \in Runnable, RunnableExit(n) PROVE BoolOK'
  BY <1>4, Zenon DEF RunnableExit, BoolOK
<1>5. CASE Interrupt
  BY <1>5, Zenon DEF Interrupt, BoolOK
<1>6. CASE RunCtxDone
  BY <1>6, Zenon DEF RunCtxDone, BoolOK
<1>7. CASE RunUpdateQueue
  BY <1>7, Zenon DEF RunUpdateQueue, BoolOK
<1>8. CASE RunDequeueAll
  BY <1>8, Zenon DEF RunDequeueAll, BoolOK
<1>9. CASE RunLoadFinished
  BY <1>9, Zenon DEF RunLoadFinished, BoolOK
<1>10. CASE RunSynchronize
  BY <1>10, Zenon DEF RunSynchronize, BoolOK
<1>11. CASE UNCHANGED vars
  BY <1>11, Zenon DEF vars, BoolOK
<1>12. QED
  BY <1>1, <1>2, <1>3, <1>4, <1>5, <1>6, <1>7, <1>8, <1>9, <1>10, <1>11
     DEF Next, RunLoop, Environment

LEMMA NextDataOK == DataOK /\ [Next]_vars => DataOK'
<1> SUFFICES ASSUME DataOK, [Next]_vars PROVE DataOK'
  OBVIOUS
<1>1. ASSUME NEW D \in SUBSET Node, NEW e \in BOOLEAN, LoadSource(D, e)
      PROVE DataOK'
  BY <1>1 DEF LoadSource, LoaderApply, DataOK
<1>2. CASE ApplyFinish
  <2>1. CASE FirstLoadFailed
    BY <1>2, <2>1 DEF ApplyFinish, DataOK
  <2>2. CASE ~FirstLoadFailed
    BY <1>2, <2>2 DEF ApplyFinish, DataOK
  <2>. QED
    BY <2>1, <2>2
<1>3. ASSUME NEW n \in Node, OnBlockNodeUpdate(n) PROVE DataOK'
  BY <1>3 DEF OnBlockNodeUpdate, DataOK
<1>4. ASSUME NEW n \in Runnable, RunnableExit(n) PROVE DataOK'
  BY <1>4 DEF RunnableExit, DataOK
<1>5. CASE Interrupt
  BY <1>5 DEF Interrupt, DataOK
<1>6. CASE RunCtxDone
  BY <1>6 DEF RunCtxDone, DataOK
<1>7. CASE RunUpdateQueue
  BY <1>7 DEF RunUpdateQueue, DataOK
<1>8. CASE RunDequeueAll
  BY <1>8 DEF RunDequeueAll, DataOK
<1>9. CASE RunLoadFinished
  BY <1>9 DEF RunLoadFinished, Desired, Runnable, DataOK
<1>10. CASE RunSynchronize
  BY <1>10 DEF RunSynchronize, Synchronize, DataOK
<1>11. CASE UNCHANGED vars
  BY <1>11 DEF vars, DataOK
<1>12. QED
  BY <1>1, <1>2, <1>3, <1>4, <1>5, <1>6, <1>7, <1>8, <1>9, <1>10, <1>11
     DEF Next, RunLoop, Environment

LEMMA NextTypeOK == TypeOK /\ [Next]_vars => TypeOK'
BY NextBoolOK, NextDataOK, Zenon DEF TypeOK, BoolOK, DataOK

\* Every reachable state is well typed.
THEOREM TypeCorrect == Spec => []TypeOK
BY InitTypeOK, NextTypeOK, PTL DEF Spec

-----------------------------------------------------------------------------
(* Fail-closed bootstrap.                                                  *)

LEMMA InitIInv == Init => IInv
BY InitTypeOK DEF Init, IInv, FailClosedInv

LEMMA NextFailClosedInv == IInv /\ [Next]_vars => FailClosedInv'
<1> SUFFICES ASSUME IInv, [Next]_vars, ~cleanLoad'
             PROVE  /\ ~loadedOnce'
                    /\ loadFinished' = 0
                    /\ runPc' # "sync"
                    /\ running' = {}
  BY DEF FailClosedInv
<1>1. ASSUME NEW D \in SUBSET Node, NEW e \in BOOLEAN, LoadSource(D, e)
      PROVE FALSE \/ (~loadedOnce' /\ loadFinished' = 0 /\ runPc' # "sync" /\ running' = {})
  BY <1>1 DEF LoadSource, IInv, FailClosedInv
<1>2. CASE ApplyFinish
  \* A clean load would set cleanLoad, so this finish is a failed first load.
  <2>1. ~cleanLoad /\ diagsErr
    BY <1>2 DEF ApplyFinish
  <2>2. FirstLoadFailed
    BY <2>1 DEF IInv, FailClosedInv, FirstLoadFailed
  <2>. QED
    BY <1>2, <2>1, <2>2 DEF ApplyFinish, IInv, FailClosedInv
<1>3. ASSUME NEW n \in Node, OnBlockNodeUpdate(n) PROVE FALSE
  BY <1>3 DEF OnBlockNodeUpdate, IInv, FailClosedInv
<1>4. ASSUME NEW n \in Runnable, RunnableExit(n) PROVE FALSE
  BY <1>4 DEF RunnableExit, IInv, FailClosedInv
<1>5. CASE Interrupt
  BY <1>5 DEF Interrupt, IInv, FailClosedInv
<1>6. CASE RunCtxDone
  BY <1>6 DEF RunCtxDone, IInv, FailClosedInv
<1>7. CASE RunUpdateQueue
  BY <1>7 DEF RunUpdateQueue, IInv, FailClosedInv
<1>8. CASE RunDequeueAll
  BY <1>8 DEF RunDequeueAll, IInv, FailClosedInv
<1>9. CASE RunLoadFinished
  BY <1>9 DEF RunLoadFinished, IInv, FailClosedInv
<1>10. CASE RunSynchronize
  BY <1>10 DEF RunSynchronize, IInv, FailClosedInv
<1>11. CASE UNCHANGED vars
  BY <1>11 DEF vars, IInv, FailClosedInv
<1>12. QED
  BY <1>1, <1>2, <1>3, <1>4, <1>5, <1>6, <1>7, <1>8, <1>9, <1>10, <1>11
     DEF Next, RunLoop, Environment

\* The Scheduler starts nothing until some load completes without errors
\* (the early return of applyLoaderConfig on a failed first load).
THEOREM FailClosedHolds == Spec => []FailClosed
<1>1. Init => IInv
  BY InitIInv
<1>2. IInv /\ [Next]_vars => IInv'
  BY NextTypeOK, NextFailClosedInv DEF IInv
<1>3. IInv => FailClosed
  BY DEF IInv, FailClosedInv, FailClosed
<1>. QED
  BY <1>1, <1>2, <1>3, PTL DEF Spec

-----------------------------------------------------------------------------
(* No refresh is lost.                                                     *)

\* RefreshNotLost is inductive given the types: its hypothesis becomes true
\* only by ApplyFinish, which leaves a refresh buffered; RunLoadFinished
\* turns the buffered refresh into a snapshot of the current graph, and
\* RunSynchronize turns that snapshot into what the Scheduler was given.
LEMMA InitRefreshNotLost == Init => RefreshNotLost
BY DEF Init, RefreshNotLost

LEMMA NextRefreshNotLost ==
    TypeOK /\ RefreshNotLost /\ [Next]_vars => RefreshNotLost'
<1> SUFFICES ASSUME TypeOK, RefreshNotLost, [Next]_vars,
                    loadedOnce', applyPc' = "idle", ~runExited'
             PROVE  \/ loadFinished' = 1
                    \/ runPc' = "sync" /\ snapshot' = Desired(graph')
                    \/ runPc' # "sync" /\ synced' = Desired(graph')
  BY DEF RefreshNotLost
<1>1. ASSUME NEW D \in SUBSET Node, NEW e \in BOOLEAN, LoadSource(D, e)
      PROVE  FALSE
  BY <1>1 DEF LoadSource
<1>2. CASE ApplyFinish
  <2>1. ~FirstLoadFailed
    BY <1>2, Zenon DEF ApplyFinish, FirstLoadFailed, TypeOK
  <2> QED
    BY <1>2, <2>1 DEF ApplyFinish
<1>3. CASE \E n \in Node : OnBlockNodeUpdate(n)
  BY <1>3 DEF OnBlockNodeUpdate, RefreshNotLost
<1>4. CASE \E n \in Runnable : RunnableExit(n)
  BY <1>4 DEF RunnableExit, RefreshNotLost
<1>5. CASE Interrupt
  BY <1>5 DEF Interrupt, RefreshNotLost
<1>6. CASE RunCtxDone
  BY <1>6 DEF RunCtxDone
<1>7. CASE RunUpdateQueue
  BY <1>7 DEF RunUpdateQueue, RefreshNotLost
<1>8. CASE RunDequeueAll
  BY <1>8 DEF RunDequeueAll, RefreshNotLost
<1>9. CASE RunLoadFinished
  BY <1>9 DEF RunLoadFinished
<1>10. CASE RunSynchronize
  BY <1>10 DEF RunSynchronize, RefreshNotLost
<1>11. CASE UNCHANGED vars
  BY <1>11 DEF vars, RefreshNotLost
<1>12. QED
  BY <1>1, <1>2, <1>3, <1>4, <1>5, <1>6, <1>7, <1>8, <1>9, <1>10, <1>11
     DEF Next, RunLoop, Environment

\* However loads race with the Run loop, the one-slot loadFinished channel
\* with its non-blocking send never drops the last refresh: once loaded and
\* with no reload in progress, the Scheduler has the current graph, is
\* about to be given it, or a refresh for it is still buffered.
THEOREM RefreshNotLostHolds == Spec => []RefreshNotLost
<1>1. TypeOK /\ RefreshNotLost /\ [Next]_vars => (TypeOK /\ RefreshNotLost)'
  BY NextTypeOK, NextRefreshNotLost
<1> QED
  BY InitTypeOK, InitRefreshNotLost, <1>1, PTL DEF Spec

=============================================================================
