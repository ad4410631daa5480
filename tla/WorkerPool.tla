----------------------------- MODULE WorkerPool -----------------------------
(***************************************************************************)
(* The worker pool that evaluates a round of nodes (spec section 4.4; the  *)
(* pool and the loader's dispatch are not under src/, so this module is    *)
(* written from the spec).  Each node of the round gets a dependency       *)
(* counter: the number of its direct upstream nodes in the round.  Nodes   *)
(* whose counter is zero are submitted to the shared task queue; a pool    *)
(* worker takes a task and evaluates the node; on completion (success or   *)
(* failure alike) the counters of the node's direct dependants in the      *)
(* round are decremented and those that reach zero are submitted.  At most *)
(* NumWorkers evaluations run at once.                                     *)
(***************************************************************************)
EXTENDS Naturals, FiniteSets

CONSTANTS
    Node,       \* the graph's nodes
    Deps,       \* <<u, v>> \in Deps: v's arguments reference u's exports
    Rounds,     \* the node sets an Apply or a dequeued batch may evaluate
    MaxRounds,  \* bound on rounds
    Worker,     \* the pool's workers (a set of NumWorkers ids)
    NoNode      \* what an idle worker holds

ASSUME PoolAssumption ==
    /\ IsFiniteSet(Node)
    /\ Deps \subseteq Node \X Node
    /\ Rounds \subseteq SUBSET Node
    /\ MaxRounds \in Nat
    /\ Worker # {}
    /\ NoNode \notin Node

VARIABLES
    round,      \* the nodes of the current round
    pending,    \* per node: upstream nodes of the round not yet completed
    queue,      \* the submitted tasks no worker has taken yet
    running,    \* per worker: the node it evaluates, or NoNode
    completed,  \* the nodes of the round whose task completed
    rounds      \* rounds started so far

vars == <<round, pending, queue, running, completed, rounds>>

Upstream(n) == {u \in Node : <<u, n>> \in Deps}
Dependants(n) == {v \in Node : <<n, v>> \in Deps}

Init ==
    /\ round = {}
    /\ pending = [n \in Node |-> 0]
    /\ queue = {}
    /\ running = [w \in Worker |-> NoNode]
    /\ completed = {}
    /\ rounds = 0

\* Mutant: a counter counts every upstream node, in the round or not.
StartRoundCountsAll(R) ==
    LET count == [n \in Node |-> Cardinality(Upstream(n))]
    IN
    /\ round \subseteq completed
    /\ rounds < MaxRounds
    /\ round' = R
    /\ pending' = count
    /\ queue' = {n \in R : count[n] = 0}
    /\ completed' = {}
    /\ rounds' = rounds + 1
    /\ UNCHANGED running

\* The controller submits a round once the previous one is over: every
\* node's counter is its number of upstream nodes in the round, and the
\* nodes with none are submitted.
StartRound(R) ==
    LET count == [n \in Node |-> Cardinality(Upstream(n) \cap R)]
    IN
    /\ round \subseteq completed
    /\ rounds < MaxRounds
    /\ round' = R
    /\ pending' = count
    /\ queue' = {n \in R : count[n] = 0}
    /\ completed' = {}
    /\ rounds' = rounds + 1
    /\ UNCHANGED running

\* Mutant: the task is not removed from the queue when a worker takes it.
TakeLeavesQueued(w) ==
    /\ running[w] = NoNode
    /\ \E n \in queue : running' = [running EXCEPT ![w] = n]
    /\ UNCHANGED <<round, pending, queue, completed, rounds>>

\* An idle worker takes a task from the queue and evaluates its node.
Take(w) ==
    /\ running[w] = NoNode
    /\ \E n \in queue :
          /\ running' = [running EXCEPT ![w] = n]
          /\ queue' = queue \ {n}
    /\ UNCHANGED <<round, pending, completed, rounds>>

\* Mutant: a dependant is submitted when its counter was already zero.
CompleteTestsOld(w) ==
    LET n    == running[w]
        next == Dependants(n) \cap round
    IN
    /\ n # NoNode
    /\ completed' = completed \cup {n}
    /\ running' = [running EXCEPT ![w] = NoNode]
    /\ pending' = [v \in Node |-> IF v \in next THEN pending[v] - 1
                                                ELSE pending[v]]
    /\ queue' = queue \cup {v \in next : pending[v] = 0}
    /\ UNCHANGED <<round, rounds>>

\* The worker's task completes: the direct dependants in the round have
\* their counters decremented, and those that reach zero are submitted.
Complete(w) ==
    LET n    == running[w]
        next == Dependants(n) \cap round
    IN
    /\ n # NoNode
    /\ completed' = completed \cup {n}
    /\ running' = [running EXCEPT ![w] = NoNode]
    /\ pending' = [v \in Node |-> IF v \in next THEN pending[v] - 1
                                                ELSE pending[v]]
    /\ queue' = queue \cup {v \in next : pending[v] = 1}
    /\ UNCHANGED <<round, rounds>>

Next ==
    \/ \E R \in Rounds : StartRound(R)
    \/ \E w \in Worker : Take(w) \/ Complete(w)

\* Pool workers loop until shutdown, so each takes queued tasks and
\* finishes the evaluation it started.
Fairness == \A w \in Worker : WF_vars(Take(w)) /\ WF_vars(Complete(w))

Spec == Init /\ [][Next]_vars /\ Fairness

-----------------------------------------------------------------------------
(* Properties.                                                             *)

TypeOK ==
    /\ round \subseteq Node
    /\ pending \in [Node -> Nat]
    /\ queue \subseteq Node
    /\ running \in [Worker -> Node \cup {NoNode}]
    /\ completed \subseteq Node
    /\ rounds \in Nat

\* Every counter is exact: it is the number of the node's upstream nodes
\* in the round whose task has not completed, however completions of
\* several workers interleave.
CountsExact ==
    \A n \in round \ completed :
        pending[n] = Cardinality((Upstream(n) \cap round) \ completed)

\* The pool implements the abstract round: each node is evaluated once,
\* after all its upstream nodes in the round, and every round ends.
A == INSTANCE EvalOrder WITH batch <- round, evaluated <- completed,
                             started <- rounds

EvalOrderSpec == A!ASpec

=============================================================================
