----------------------------- MODULE GelfProofs -----------------------------
(***************************************************************************)
(* Proofs about the gelf component for every set of forward_to lists and  *)
(* every bound on Updates: at most one target listens, and Run never sends *)
(* to a receiver Update has removed.                                       *)
(***************************************************************************)
EXTENDS Gelf, TLAPS

\* TypeOK split for the provers: the Boolean flags, and the rest.
TypeBool == updOk \in BOOLEAN /\ updErr \in BOOLEAN /\ ctxDone \in BOOLEAN

TypeData ==
    /\ mut \in {"free", "read", "write"}
    /\ target \in Targets
    /\ tstate \in [Targets -> {"none", "running", "stopped"}]
    /\ receivers \in RecvLists
    /\ runPc \in {"select", "rlock", "send", "exited"}
    /\ runList \in RecvLists \cup {<<>>}
    /\ runIdx \in 1..Len(runList) + 1
    /\ updPc \in {"idle", "lock", "locked", "stopped"}
    /\ updArgs \in RecvLists \cup {<<>>}
    /\ updates \in 0..MaxUpdates

\* The inductive invariant.  c.mut is held for reading exactly while Run
\* forwards and for writing exactly while Update is past Lock; the list
\* Run forwards to is c.receivers; only the target c.target points to may
\* be running.
IInv ==
    /\ TypeBool
    /\ TypeData
    /\ (mut = "read") = (runPc = "send")
    /\ (mut = "write") = (updPc \in {"locked", "stopped"})
    /\ runPc = "send" => runList = receivers
    /\ Running \subseteq {target}
    /\ updPc # "idle" => updArgs \in RecvLists
    /\ updPc = "stopped" => Running = {}

USE GelfAssumption

LEMMA TypeSplit == TypeOK <=> TypeBool /\ TypeData
BY Zenon DEF TypeOK, TypeBool, TypeData

\* After New, target 1 is the only one running and nobody holds c.mut.
LEMMA InitIInv == Init => IInv
<1> SUFFICES ASSUME Init PROVE IInv
  OBVIOUS
<1>1. TypeBool
  BY Zenon DEF Init, TypeBool
<1>2. TypeData
  BY DEF Init, TypeData, Targets
<1>3. Running \subseteq {target}
  BY DEF Init, Running, Targets
<1> QED
  BY <1>1, <1>2, <1>3 DEF Init, IInv

\* The Boolean flags keep their type: Update's outcome is a BOOLEAN input.
LEMMA NextBool == TypeBool /\ [Next]_vars => TypeBool'
<1> SUFFICES ASSUME TypeBool, [Next]_vars PROVE TypeBool'
  OBVIOUS
<1> USE DEF TypeBool
<1>1. CASE \E args \in RecvLists, ok \in BOOLEAN : UpdateCall(args, ok)
  BY <1>1, Zenon DEF UpdateCall
<1>2. CASE UpdateNewTarget
  BY <1>2, Zenon DEF UpdateNewTarget
<1>3. CASE Cancel
  BY <1>3, Zenon DEF Cancel
<1>4. CASE ~(\E args \in RecvLists, ok \in BOOLEAN : UpdateCall(args, ok))
           /\ ~UpdateNewTarget /\ ~Cancel
  BY <1>4, Zenon DEF Next, vars, RunReceive, RunRLock, RunSend, RunRUnlock,
     RunExit, UpdateLocked, UpdateStopOld
<1> QED
  BY <1>1, <1>2, <1>3, <1>4

\* Every step keeps the rest of the invariant: one step per action.
LEMMA NextData == IInv /\ [Next]_vars => IInv!2' /\ IInv!3' /\ IInv!4'
                                         /\ IInv!5' /\ IInv!6' /\ IInv!7'
                                         /\ IInv!8'
<1> SUFFICES ASSUME IInv, [Next]_vars
             PROVE  IInv!2' /\ IInv!3' /\ IInv!4' /\ IInv!5' /\ IInv!6'
                    /\ IInv!7' /\ IInv!8'
  OBVIOUS
<1> USE DEF IInv, TypeData, Running
<1>1. CASE RunReceive
  BY <1>1 DEF RunReceive
<1>2. CASE RunRLock
  BY <1>2 DEF RunRLock
<1>3. CASE RunSend
  BY <1>3 DEF RunSend
<1>4. CASE RunRUnlock
  BY <1>4 DEF RunRUnlock
<1>5. CASE RunExit
  BY <1>5 DEF RunExit
<1>6. CASE \E args \in RecvLists, ok \in BOOLEAN : UpdateCall(args, ok)
  BY <1>6 DEF UpdateCall
<1>7. CASE UpdateLocked
  BY <1>7 DEF UpdateLocked
<1>8. CASE UpdateStopOld
  BY <1>8 DEF UpdateStopOld
<1>9. CASE UpdateNewTarget
  <2>1. updates + 1 \in Targets
    BY DEF Targets
  <2>2. CASE updOk
    <3>1. /\ tstate' = [tstate EXCEPT ![updates + 1] = "running"]
          /\ target' = updates + 1
      BY <1>9, <2>2, Zenon DEF UpdateNewTarget
    <3> QED
      BY <1>9, <2>1, <3>1 DEF UpdateNewTarget
  <2>3. CASE ~updOk
    <3>1. tstate' = tstate /\ target' = target
      BY <1>9, <2>3, Zenon DEF UpdateNewTarget
    <3> QED
      BY <1>9, <3>1 DEF UpdateNewTarget
  <2> QED
    BY <2>2, <2>3
<1>10. CASE Cancel
  BY <1>10 DEF Cancel
<1>11. CASE UNCHANGED vars
  BY <1>11 DEF vars
<1> QED
  BY <1>1, <1>2, <1>3, <1>4, <1>5, <1>6, <1>7, <1>8, <1>9, <1>10, <1>11
  DEF Next

LEMMA NextIInv == IInv /\ [Next]_vars => IInv'
BY NextBool, NextData DEF IInv

\* Spec => []IInv, from which the properties below follow.
LEMMA IInvHolds == Spec => []IInv
BY InitIInv, NextIInv, PTL DEF Spec

\* At most one gelf target listens at any time, however Update's stop of
\* the old target and Run's unlocked deferred Stop interleave.
THEOREM SingleListenerHolds == Spec => []SingleListener
<1>1. IInv => SingleListener
  BY DEF IInv, SingleListener
<1> QED
  BY <1>1, IInvHolds, PTL

\* Run only ever sends to a receiver that is in c.receivers: the read
\* lock keeps Update from replacing forward_to during a fan-out.
THEOREM RemovedReceiverNotSentHolds == Spec => []RemovedReceiverNotSent
<1>1. IInv => RemovedReceiverNotSent
  BY DEF IInv, TypeData, RemovedReceiverNotSent
<1> QED
  BY <1>1, IInvHolds, PTL

\* The component's state always has its type.
THEOREM TypeCorrect == Spec => []TypeOK
<1>1. IInv => TypeOK
  BY TypeSplit DEF IInv
<1> QED
  BY <1>1, IInvHolds, PTL

=============================================================================
