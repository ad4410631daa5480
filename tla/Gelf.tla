-------------------------------- MODULE Gelf --------------------------------
(***************************************************************************)
(* The loki.source.gelf component                                          *)
(* (src/internal/component/loki/source/gelf/gelf.go).  Its Run goroutine   *)
(* takes entries from the unbuffered handler channel, which the running    *)
(* gelf target's reader feeds, and under the read lock of c.mut forwards   *)
(* each to every receiver of c.receivers in turn (blocking sends).  Update *)
(* takes the write lock, stops the current target, installs the new        *)
(* receivers and starts a new target, which fails when the target cannot   *)
(* be built (for instance its UDP address cannot be bound).  Run's         *)
(* deferred c.target.Stop reads c.target without the lock.                 *)
(*                                                                         *)
(* sync.RWMutex is modelled with Go's writer priority: once Update waits   *)
(* in Lock, a new RLock blocks until the writer is done.  Targets are      *)
(* numbered in the order they are built; target 1 is the one New built.    *)
(***************************************************************************)
EXTENDS Naturals, Sequences

CONSTANTS
    Receivers,  \* the loki.LogsReceiver values forward_to may name
    RecvLists,  \* the forward_to lists Update may be called with
    MaxUpdates  \* bound on Update calls after New

ASSUME GelfAssumption ==
    /\ RecvLists # {} /\ RecvLists \subseteq Seq(Receivers)
    /\ MaxUpdates \in Nat

Targets == 1..MaxUpdates + 1

VARIABLES
    mut,        \* c.mut: "free", "read" (held by Run) or "write" (by Update)
    target,     \* c.target: the number of the target it points to
    tstate,     \* per target: "none" (not built), "running" or "stopped"
    receivers,  \* c.receivers
    runPc,      \* Run: "select", "rlock", "send", "exited"
    runList,    \* the c.receivers slice Run's for loop ranges over
    runIdx,     \* the index of the receiver Run sends to next
    updPc,      \* Update: "idle", "lock" (waiting in Lock), "locked", "stopped"
    updArgs,    \* the Arguments of the Update in progress
    updOk,      \* whether target.NewTarget succeeds for that Update
    updErr,     \* the last Update returned an error
    updates,    \* Update calls so far
    ctxDone     \* Run's context is cancelled

vars == <<mut, target, tstate, receivers, runPc, runList, runIdx, updPc,
          updArgs, updOk, updErr, updates, ctxDone>>

\* New: c.Update(args) succeeded, target 1 runs; Run is started afterwards.
Init ==
    /\ mut = "free"
    /\ target = 1
    /\ tstate = [t \in Targets |-> IF t = 1 THEN "running" ELSE "none"]
    /\ receivers \in RecvLists
    /\ runPc = "select"
    /\ runList = <<>>
    /\ runIdx = 1
    /\ updPc = "idle"
    /\ updArgs = <<>>
    /\ updOk = TRUE
    /\ updErr = FALSE
    /\ updates = 0
    /\ ctxDone = FALSE

Running == {t \in Targets : tstate[t] = "running"}

-----------------------------------------------------------------------------
(* The Run goroutine.                                                      *)

\* select: an entry is received from c.handler.c; some running target's
\* reader goroutine is the sender.
RunReceive ==
    /\ runPc = "select"
    /\ Running # {}
    /\ runPc' = "rlock"
    /\ UNCHANGED <<mut, target, tstate, receivers, runList, runIdx, updPc,
                   updArgs, updOk, updErr, updates, ctxDone>>

\* Mutant: RLock does not wait behind a writer blocked in Lock.
RunRLockIgnoresWriter ==
    /\ runPc = "rlock"
    /\ mut = "free"
    /\ mut' = "read"
    /\ runList' = receivers
    /\ runIdx' = 1
    /\ runPc' = "send"
    /\ UNCHANGED <<target, tstate, receivers, updPc, updArgs, updOk, updErr,
                   updates, ctxDone>>

\* c.mut.RLock(), the job label is set, and the loop over c.receivers
\* starts.  RLock blocks while a writer holds or waits for the lock.
RunRLock ==
    /\ runPc = "rlock"
    /\ mut = "free"
    /\ updPc # "lock"
    /\ mut' = "read"
    /\ runList' = receivers
    /\ runIdx' = 1
    /\ runPc' = "send"
    /\ UNCHANGED <<target, tstate, receivers, updPc, updArgs, updOk, updErr,
                   updates, ctxDone>>

\* Mutant: the loop runs one index past the end of c.receivers.
RunSendPastEnd ==
    /\ runPc = "send"
    /\ runIdx <= Len(runList) + 1
    /\ runIdx' = runIdx + 1
    /\ UNCHANGED <<mut, target, tstate, receivers, runPc, runList, updPc,
                   updArgs, updOk, updErr, updates, ctxDone>>

\* r.Chan() <- lokiEntry for the next receiver; the receiver takes it.
RunSend ==
    /\ runPc = "send"
    /\ runIdx <= Len(runList)
    /\ runIdx' = runIdx + 1
    /\ UNCHANGED <<mut, target, tstate, receivers, runPc, runList, updPc,
                   updArgs, updOk, updErr, updates, ctxDone>>

\* The loop is done: c.mut.RUnlock().
RunRUnlock ==
    /\ runPc = "send"
    /\ runIdx > Len(runList)
    /\ mut' = "free"
    /\ runPc' = "select"
    /\ UNCHANGED <<target, tstate, receivers, runList, runIdx, updPc, updArgs,
                   updOk, updErr, updates, ctxDone>>

\* select: <-ctx.Done(); Run returns and its deferred c.target.Stop()
\* stops whatever target c.target points to at that moment, unlocked.
RunExit ==
    /\ runPc = "select"
    /\ ctxDone
    /\ tstate' = [tstate EXCEPT ![target] = "stopped"]
    /\ runPc' = "exited"
    /\ UNCHANGED <<mut, target, receivers, runList, runIdx, updPc, updArgs,
                   updOk, updErr, updates, ctxDone>>

-----------------------------------------------------------------------------
(* Update, called by the controller while the component runs.              *)

\* Update(args) is called and blocks in c.mut.Lock().
UpdateCall(args, ok) ==
    /\ updPc = "idle"
    /\ runPc # "exited"
    /\ updates < MaxUpdates
    /\ updates' = updates + 1
    /\ updArgs' = args
    /\ updOk' = ok
    /\ updPc' = "lock"
    /\ UNCHANGED <<mut, target, tstate, receivers, runPc, runList, runIdx,
                   updErr, ctxDone>>

\* Mutant: Lock does not wait for the reader to release the lock.
UpdateLockedIgnoresReader ==
    /\ updPc = "lock"
    /\ mut' = "write"
    /\ updPc' = "locked"
    /\ UNCHANGED <<target, tstate, receivers, runPc, runList, runIdx, updArgs,
                   updOk, updErr, updates, ctxDone>>

\* Lock returns once no reader holds the lock.
UpdateLocked ==
    /\ updPc = "lock"
    /\ mut = "free"
    /\ mut' = "write"
    /\ updPc' = "locked"
    /\ UNCHANGED <<target, tstate, receivers, runPc, runList, runIdx, updArgs,
                   updOk, updErr, updates, ctxDone>>

\* Mutant: the old target is not stopped before the new one is built.
UpdateKeepsOldTarget ==
    /\ updPc = "locked"
    /\ receivers' = updArgs
    /\ updPc' = "stopped"
    /\ UNCHANGED <<mut, target, tstate, runPc, runList, runIdx, updArgs, updOk,
                   updErr, updates, ctxDone>>

\* The current target is stopped and c.receivers replaced.
UpdateStopOld ==
    /\ updPc = "locked"
    /\ tstate' = [tstate EXCEPT ![target] = "stopped"]
    /\ receivers' = updArgs
    /\ updPc' = "stopped"
    /\ UNCHANGED <<mut, target, runPc, runList, runIdx, updArgs, updOk,
                   updErr, updates, ctxDone>>

\* target.NewTarget: on success c.target is the new target; either way
\* the deferred Unlock runs and Update returns (the error, if any).
UpdateNewTarget ==
    LET new == updates + 1
    IN
    /\ updPc = "stopped"
    /\ IF updOk
         THEN /\ tstate' = [tstate EXCEPT ![new] = "running"]
              /\ target' = new
         ELSE UNCHANGED <<tstate, target>>
    /\ updErr' = ~updOk
    /\ mut' = "free"
    /\ updPc' = "idle"
    /\ UNCHANGED <<receivers, runPc, runList, runIdx, updArgs, updOk, updates,
                   ctxDone>>

\* The component is stopped: the scheduler cancels Run's context.
Cancel ==
    /\ ~ctxDone
    /\ ctxDone' = TRUE
    /\ UNCHANGED <<mut, target, tstate, receivers, runPc, runList, runIdx,
                   updPc, updArgs, updOk, updErr, updates>>

-----------------------------------------------------------------------------
Next ==
    \/ RunReceive \/ RunRLock \/ RunSend \/ RunRUnlock \/ RunExit
    \/ \E args \in RecvLists, ok \in BOOLEAN : UpdateCall(args, ok)
    \/ UpdateLocked \/ UpdateStopOld \/ UpdateNewTarget
    \/ Cancel

\* Both goroutines are scheduled and receivers take what is sent to them.
\* Run's select picks uniformly among ready cases, so its exit case is
\* strongly fair; the gelf target may stop sending at any time.
Fairness ==
    /\ WF_vars(RunRLock) /\ WF_vars(RunSend) /\ WF_vars(RunRUnlock)
    /\ SF_vars(RunExit)
    /\ WF_vars(UpdateLocked) /\ WF_vars(UpdateStopOld)
    /\ WF_vars(UpdateNewTarget)

Spec == Init /\ [][Next]_vars /\ Fairness

-----------------------------------------------------------------------------
(* Properties.                                                             *)

TypeOK ==
    /\ mut \in {"free", "read", "write"}
    /\ target \in Targets
    /\ tstate \in [Targets -> {"none", "running", "stopped"}]
    /\ receivers \in RecvLists
    /\ runPc \in {"select", "rlock", "send", "exited"}
    /\ runList \in RecvLists \cup {<<>>}
    /\ runIdx \in 1..Len(runList) + 1
    /\ updPc \in {"idle", "lock", "locked", "stopped"}
    /\ updArgs \in RecvLists \cup {<<>>}
    /\ updOk \in BOOLEAN /\ updErr \in BOOLEAN
    /\ updates \in 0..MaxUpdates
    /\ ctxDone \in BOOLEAN

\* At most one gelf target listens at a time: Update stops the running
\* target before it builds the next on the same listen address, and Run's
\* unlocked deferred Stop never revives one.
SingleListener ==
    \A t1, t2 \in Running : t1 = t2

\* Run never forwards an entry to a receiver that is no longer in
\* c.receivers: the read lock held across the fan-out keeps Update from
\* replacing forward_to while a send is pending, so a downstream component
\* removed from forward_to is not sent to once Update has swapped it out.
RemovedReceiverNotSent ==
    runPc = "send" /\ runIdx <= Len(runList)
        => \E i \in DOMAIN receivers : receivers[i] = runList[runIdx]

\* An Update is never starved by the stream of entries: once it blocks in
\* c.mut.Lock() it returns, because Run's RLock waits behind it.
UpdateReturns ==
    updPc = "lock" ~> updPc = "idle"

\* Run's deferred Stop stops the component's target: once Run has returned
\* and no Update is in progress, no gelf target is left listening.
NoOrphanTarget ==
    runPc = "exited" /\ updPc = "idle" => Running = {}

\* A failed Update leaves the component's last good instance running (spec
\* sections 3 and 7: on a Build or Update error the node keeps its running
\* instance): after Update returned an error some target still listens.
FailedUpdateKeepsTarget ==
    updPc = "idle" /\ updErr => Running # {}

=============================================================================
