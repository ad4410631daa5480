------------------------------ MODULE EvalOrder ------------------------------
(***************************************************************************)
(* What an evaluation round promises (spec sections 4.2, 4.4 and 5): the   *)
(* controller starts a round over a set of nodes, and each node of the     *)
(* round is evaluated exactly once, atomically, only after every node of   *)
(* the round it depends on has been evaluated; the round then ends.  This  *)
(* is the abstract specification the worker pool implements.              *)
(***************************************************************************)
EXTENDS Naturals

CONSTANTS
    Node,       \* the graph's nodes
    Deps,       \* <<u, v>> \in Deps: v's arguments reference u's exports
    Rounds,     \* the node sets an Apply or a dequeued batch may evaluate
    MaxRounds   \* bound on rounds

VARIABLES
    batch,      \* the nodes of the current round
    evaluated,  \* the nodes of the round evaluated so far
    started     \* rounds started so far

avars == <<batch, evaluated, started>>

\* The direct upstream dependencies of n.
Upstream(n) == {u \in Node : <<u, n>> \in Deps}

AInit ==
    /\ batch = {}
    /\ evaluated = {}
    /\ started = 0

\* A new round starts once the previous one is over.
AStartRound(R) ==
    /\ batch \subseteq evaluated
    /\ started < MaxRounds
    /\ batch' = R
    /\ evaluated' = {}
    /\ started' = started + 1

\* n is evaluated: its upstream nodes in the round are all done.
Evaluate(n) ==
    /\ n \in batch \ evaluated
    /\ Upstream(n) \cap batch \subseteq evaluated
    /\ evaluated' = evaluated \cup {n}
    /\ UNCHANGED <<batch, started>>

ANext ==
    \/ \E R \in Rounds : AStartRound(R)
    \/ \E n \in Node : Evaluate(n)

\* The safety part: what every step may do.
ASafe == AInit /\ [][ANext]_avars

\* A round in progress runs to its end.
ASpec == AInit /\ [][ANext]_avars /\ WF_avars(\E n \in Node : Evaluate(n))

=============================================================================
