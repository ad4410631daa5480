---------------------------- MODULE AlloyRuntime ----------------------------
(***************************************************************************)
(* The Alloy controller of src/internal/runtime/alloy.go: the Run loop     *)
(* (one goroutine selecting over context cancellation, the update-queue    *)
(* signal and the loadFinished channel), applyLoaderConfig called by       *)
(* reloaders under loadMut, and the collaborators it drives: the Loader    *)
(* (graph commit on Apply), the deduplicating update Queue and the         *)
(* Scheduler's running set.  The collaborators live outside src/ and are   *)
(* modelled from the spec (sections 4.2, 4.3, 4.5).                        *)
(***************************************************************************)
EXTENDS Naturals, FiniteSets, Relation

CONSTANTS
    Node,       \* component/import/foreach blocks that a config may declare
    Services,   \* process-wide services (Options.Services)
    Refs,       \* <<a, b>> \in Refs: b's arguments reference a's exports
    IsModule,   \* controllerOptions.IsModule
    MaxLoads    \* bound on the number of LoadSource calls

ASSUME RuntimeAssumption ==
    /\ Node \cap Services = {}
    /\ Refs \subseteq Node \X Node
    /\ IsModule \in BOOLEAN
    /\ MaxLoads \in Nat

VARIABLES
    graph,        \* nodes of the loader's committed graph
    loadedOnce,   \* Runtime.loadedOnce
    loadFinished, \* items buffered in Runtime.loadFinished (capacity 1)
    applyPc,      \* "idle" or "applied": a reloader holds loadMut past Apply
    diagsErr,     \* diags.HasErrors() of the Apply in progress
    loads,        \* LoadSource calls made so far
    queue,        \* nodes held by the update queue
    queueSignal,  \* items buffered in the queue's readiness channel
    runPc,        \* where the Run goroutine is: "select", "dequeue", "sync"
    snapshot,     \* runnables read from the loader, not yet synchronized
    running,      \* runnables the Scheduler has a live task for
    synced,       \* the runnable set passed to the last Synchronize
    ctxDone,      \* the Run context is cancelled
    runExited,    \* Run has returned (scheduler closed)
    cleanLoad     \* history: some applyLoaderConfig finished without errors

vars == <<graph, loadedOnce, loadFinished, applyPc, diagsErr, loads, queue,
          queueSignal, runPc, snapshot, running, synced, ctxDone, runExited,
          cleanLoad>>

Runnable == Node \cup Services

-----------------------------------------------------------------------------
(* Collaborators modelled from the spec.                                   *)

\* The reference relation among the declared nodes, as a Boolean matrix.
DeclaredRefs(D) == [x, y \in Node |-> <<x, y>> \in Refs /\ x \in D /\ y \in D]

\* Loader.Apply fails the whole load (graph left unchanged) when the
\* declared blocks form a cycle or reference an undeclared block.
ConfigError(D) ==
    \/ \E n \in D : TransitiveClosure(DeclaredRefs(D), Node)[n, n]
    \/ \E r \in Refs : r[2] \in D /\ r[1] \notin D

\* Loader.Apply(blocks): the committed graph after the call.
LoaderApply(D) == IF ConfigError(D) THEN graph ELSE D

\* The runnables the Run loop hands to Synchronize: components, imports and
\* foreachs of the graph, and the services when this is the root controller.
Desired(g) == g \cup (IF IsModule THEN {} ELSE Services)

\* Mutant: a Synchronize that starts new runnables but never stops removed ones.
SynchronizeKeepsRemoved(desired) == running \cup desired

\* Scheduler.Synchronize(desired): stop the tasks not desired, start the
\* desired ones that have no task, leave the others untouched.
Synchronize(desired) == (running \cap desired) \cup (desired \ running)

-----------------------------------------------------------------------------
Init ==
    /\ graph = {}
    /\ loadedOnce = FALSE
    /\ loadFinished = 0
    /\ applyPc = "idle"
    /\ diagsErr = FALSE
    /\ loads = 0
    /\ queue = {}
    /\ queueSignal = 0
    /\ runPc = "select"
    /\ snapshot = {}
    /\ running = {}
    /\ synced = {}
    /\ ctxDone = FALSE
    /\ runExited = FALSE
    /\ cleanLoad = FALSE

\* applyLoaderConfig up to the return of loader.Apply: the caller takes
\* loadMut (so reloads are serialized) and the loader commits the new graph
\* or, on a configuration error, keeps the old one.  D is the declared node
\* set; evalErr is whether some node of D fails to evaluate.
LoadSource(D, evalErr) ==
    /\ applyPc = "idle"
    /\ loads < MaxLoads
    /\ loads' = loads + 1
    /\ graph' = LoaderApply(D)
    /\ diagsErr' = (ConfigError(D) \/ evalErr)
    /\ applyPc' = "applied"
    /\ UNCHANGED <<loadedOnce, loadFinished, queue, queueSignal, runPc,
                   snapshot, running, synced, ctxDone, runExited, cleanLoad>>

\* Mutant: the first-load error check is dropped.
FirstLoadFailedIgnored == FALSE

\* The early return of applyLoaderConfig: a first load with errors.
FirstLoadFailed == ~loadedOnce /\ diagsErr

\* Mutant: every load adds a refresh, as if loadFinished had no capacity
\* limit and the send no default case.
ApplyFinishCounts ==
    /\ applyPc = "applied"
    /\ applyPc' = "idle"
    /\ IF FirstLoadFailed
         THEN UNCHANGED <<loadedOnce, loadFinished>>
         ELSE /\ loadedOnce' = TRUE
              /\ loadFinished' = loadFinished + 1
    /\ cleanLoad' = (cleanLoad \/ ~diagsErr)
    /\ UNCHANGED <<graph, diagsErr, loads, queue, queueSignal, runPc,
                   snapshot, running, synced, ctxDone, runExited>>

\* Mutant: a refresh is signalled only for the first successful load.
ApplyFinishSignalsOnce ==
    /\ applyPc = "applied"
    /\ applyPc' = "idle"
    /\ IF FirstLoadFailed
         THEN UNCHANGED <<loadedOnce, loadFinished>>
         ELSE /\ loadedOnce' = TRUE
              /\ loadFinished' = IF loadedOnce THEN loadFinished ELSE 1
    /\ cleanLoad' = (cleanLoad \/ ~diagsErr)
    /\ UNCHANGED <<graph, diagsErr, loads, queue, queueSignal, runPc,
                   snapshot, running, synced, ctxDone, runExited>>

\* The rest of applyLoaderConfig: a first load with errors returns without
\* marking the controller loaded; otherwise loadedOnce is set and a refresh
\* is signalled on loadFinished unless one is already buffered.
ApplyFinish ==
    /\ applyPc = "applied"
    /\ applyPc' = "idle"
    /\ IF FirstLoadFailed
         THEN UNCHANGED <<loadedOnce, loadFinished>>
         ELSE /\ loadedOnce' = TRUE
              /\ loadFinished' = 1
    /\ cleanLoad' = (cleanLoad \/ ~diagsErr)
    /\ UNCHANGED <<graph, diagsErr, loads, queue, queueSignal, runPc,
                   snapshot, running, synced, ctxDone, runExited>>

\* OnBlockNodeUpdate: a running node changed its exports and is enqueued
\* for re-evaluation; the queue deduplicates and raises its signal.
OnBlockNodeUpdate(n) ==
    /\ n \in running \cap Node
    /\ queue' = queue \cup {n}
    /\ queueSignal' = 1
    /\ UNCHANGED <<graph, loadedOnce, loadFinished, applyPc, diagsErr, loads,
                   runPc, snapshot, running, synced, ctxDone, runExited, cleanLoad>>

\* A runnable's Run returns (fatal exit): its task ends and is dropped by
\* the Scheduler; it is restarted only by a later Synchronize.
RunnableExit(n) ==
    /\ n \in running
    /\ running' = running \ {n}
    /\ UNCHANGED <<graph, loadedOnce, loadFinished, applyPc, diagsErr, loads,
                   queue, queueSignal, runPc, snapshot, synced, ctxDone,
                   runExited, cleanLoad>>

\* The process is interrupted: the Run context is cancelled.
Interrupt ==
    /\ ~ctxDone
    /\ ctxDone' = TRUE
    /\ UNCHANGED <<graph, loadedOnce, loadFinished, applyPc, diagsErr, loads,
                   queue, queueSignal, runPc, snapshot, running, synced,
                   runExited, cleanLoad>>

-----------------------------------------------------------------------------
(* The Run goroutine.                                                      *)

\* select: <-ctx.Done() returns; the deferred sched.Close stops every task.
RunCtxDone ==
    /\ runPc = "select"
    /\ ctxDone
    /\ ~runExited
    /\ runExited' = TRUE
    /\ running' = {}
    /\ UNCHANGED <<graph, loadedOnce, loadFinished, applyPc, diagsErr, loads,
                   queue, queueSignal, runPc, snapshot, synced, ctxDone,
                   cleanLoad>>

\* select: <-updateQueue.Chan() is received.
RunUpdateQueue ==
    /\ runPc = "select"
    /\ ~runExited
    /\ queueSignal = 1
    /\ queueSignal' = 0
    /\ runPc' = "dequeue"
    /\ UNCHANGED <<graph, loadedOnce, loadFinished, applyPc, diagsErr, loads,
                   queue, snapshot, running, synced, ctxDone, runExited, cleanLoad>>

\* updateQueue.DequeueAll() takes the whole batch, which
\* loader.EvaluateDependants evaluates.
RunDequeueAll ==
    /\ runPc = "dequeue"
    /\ queue' = {}
    /\ runPc' = "select"
    /\ UNCHANGED <<graph, loadedOnce, loadFinished, applyPc, diagsErr, loads,
                   queueSignal, snapshot, running, synced, ctxDone, runExited, cleanLoad>>

\* select: <-loadFinished is received and the runnables are read from the
\* loader.
RunLoadFinished ==
    /\ runPc = "select"
    /\ ~runExited
    /\ loadFinished = 1
    /\ loadFinished' = 0
    /\ snapshot' = Desired(graph)
    /\ runPc' = "sync"
    /\ UNCHANGED <<graph, loadedOnce, applyPc, diagsErr, loads, queue,
                   queueSignal, running, synced, ctxDone, runExited, cleanLoad>>

\* sched.Synchronize(runnables); an error is only logged.
RunSynchronize ==
    /\ runPc = "sync"
    /\ running' = Synchronize(snapshot)
    /\ synced' = snapshot
    /\ runPc' = "select"
    /\ UNCHANGED <<graph, loadedOnce, loadFinished, applyPc, diagsErr, loads,
                   queue, queueSignal, snapshot, ctxDone, runExited, cleanLoad>>

-----------------------------------------------------------------------------
RunLoop ==
    \/ RunCtxDone
    \/ RunUpdateQueue
    \/ RunDequeueAll
    \/ RunLoadFinished
    \/ RunSynchronize

Environment ==
    \/ \E D \in SUBSET Node, e \in BOOLEAN : LoadSource(D, e)
    \/ ApplyFinish
    \/ \E n \in Node : OnBlockNodeUpdate(n)
    \/ \E n \in Runnable : RunnableExit(n)
    \/ Interrupt

Next == RunLoop \/ Environment

\* The Run goroutine and a reloader holding loadMut always get to run.  Go's
\* select picks uniformly among ready cases, so a case that is ready again
\* and again is eventually taken: strong fairness for each select case.
\* Reloads, exits, export changes and interrupts are not obliged to happen.
Fairness ==
    /\ SF_vars(RunCtxDone)
    /\ SF_vars(RunUpdateQueue)
    /\ SF_vars(RunLoadFinished)
    /\ WF_vars(RunDequeueAll)
    /\ WF_vars(RunSynchronize)
    /\ WF_vars(ApplyFinish)

Spec == Init /\ [][Next]_vars /\ Fairness

\* Ready() reports whether the initial load has finished.
Ready == loadedOnce

-----------------------------------------------------------------------------
(* Properties.                                                             *)

TypeOK ==
    /\ graph \subseteq Node
    /\ loadedOnce \in BOOLEAN
    /\ loadFinished \in 0..1
    /\ applyPc \in {"idle", "applied"}
    /\ diagsErr \in BOOLEAN
    /\ loads \in 0..MaxLoads
    /\ queue \subseteq Node
    /\ queueSignal \in 0..1
    /\ runPc \in {"select", "dequeue", "sync"}
    /\ snapshot \subseteq Runnable
    /\ running \subseteq Runnable
    /\ synced \subseteq Runnable
    /\ ctxDone \in BOOLEAN
    /\ runExited \in BOOLEAN
    /\ cleanLoad \in BOOLEAN

\* Fail-closed bootstrap (applyLoaderConfig, "The first call to Load should
\* not run any components if there were errors"): the Scheduler runs
\* nothing until some load has completed without errors, whatever the
\* reloaders, the queue and the Run loop have done in between.
FailClosed == running # {} => cleanLoad

\* No refresh is lost by the capacity-1 loadFinished channel and its
\* non-blocking send: once loaded, whenever no reload holds loadMut, the
\* loader's current graph either is what the Scheduler was last given, is
\* the snapshot the Run loop is about to synchronize, or a refresh is
\* still buffered.
RefreshNotLost ==
    (loadedOnce /\ applyPc = "idle" /\ ~runExited) =>
        \/ loadFinished = 1
        \/ runPc = "sync" /\ snapshot = Desired(graph)
        \/ runPc # "sync" /\ synced = Desired(graph)

\* A runnable that a reload removed from the graph is eventually stopped by
\* the Run loop's Synchronize (or by shutdown), however the queue traffic
\* and later reloads interleave with it.
RemovedEventuallyStopped ==
    \A n \in Runnable :
        (n \in running /\ n \notin Desired(graph))
            ~> (n \notin running \/ n \in Desired(graph))

=============================================================================
