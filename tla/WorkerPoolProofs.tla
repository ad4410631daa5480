-------------------------- MODULE WorkerPoolProofs --------------------------
(***************************************************************************)
(* Proofs about the worker pool, for every finite node set, dependency     *)
(* relation, set of rounds and pool size: the dependency counters stay     *)
(* exact (CountsExact), and every step of the pool is a step of the        *)
(* abstract round of EvalOrder or leaves it unchanged (the safety part of  *)
(* the refinement; that every round ends is checked by TLC only).          *)
(***************************************************************************)
EXTENDS WorkerPool, FiniteSetTheorems, TLAPS

\* The nodes some worker is evaluating.
Busy == {running[w] : w \in Worker} \ {NoNode}

\* The nodes of the round submitted, taken or done.
Started == completed \cup queue \cup Busy

\* The inductive invariant.  A task is in at most one place (queue, one
\* worker, or done), every started node has all its upstream nodes in the
\* round completed, and the counters are exact; the last two are what a
\* completion needs to submit a dependant only when it is ready.
IInv ==
    /\ TypeOK
    /\ completed \subseteq round
    /\ queue \subseteq round \ completed
    /\ \A w \in Worker : running[w] # NoNode =>
           running[w] \in round \ (completed \cup queue)
    /\ \A w1, w2 \in Worker :
           running[w1] = running[w2] /\ running[w1] # NoNode => w1 = w2
    /\ \A n \in Started : Upstream(n) \cap round \subseteq completed
    /\ CountsExact

USE PoolAssumption

\* Counting facts about sets of nodes, which are finite.
LEMMA CardRemove ==
    ASSUME NEW S, NEW x, S \subseteq Node
    PROVE  /\ Cardinality(S) \in Nat
           /\ Cardinality(S \ {x}) =
                  IF x \in S THEN Cardinality(S) - 1 ELSE Cardinality(S)
BY FS_Subset, FS_RemoveElement, FS_CardinalityType

LEMMA CardZero ==
    ASSUME NEW S, S \subseteq Node
    PROVE  Cardinality(S) = 0 <=> S = {}
BY FS_Subset, FS_EmptySet

-----------------------------------------------------------------------------
\* The pool starts idle with no round: the invariant holds trivially.
LEMMA InitIInv == Init => IInv
BY DEF Init, IInv, TypeOK, CountsExact, Started, Busy

\* A new round: no worker is busy, since every busy node is in the old
\* round and not completed, while the old round is all completed.
LEMMA StartRoundIInv ==
    ASSUME IInv, NEW R \in Rounds, StartRound(R)
    PROVE  IInv'
<1> DEFINE count == [n \in Node |-> Cardinality(Upstream(n) \cap R)]
<1>1. \A w \in Worker : running[w] = NoNode
  BY DEF IInv, StartRound
<1>2. Busy' = {}
  BY <1>1 DEF StartRound, Busy
<1>3. pending' = count /\ queue' = {n \in R : count[n] = 0} /\ completed' = {}
      /\ round' = R
  BY DEF StartRound
<1>4. \A n \in Node : count[n] \in Nat
  BY CardRemove
<1>5. TypeOK'
  BY <1>1, <1>3, <1>4 DEF IInv, TypeOK, StartRound
<1>6. \A n \in queue' : Upstream(n) \cap round' = {}
  BY <1>3, CardZero
<1>7. CountsExact'
  BY <1>3 DEF CountsExact
<1>8. QED
  BY <1>1, <1>2, <1>3, <1>5, <1>6, <1>7 DEF IInv, StartRound, Started

\* A worker takes a queued task: the task moves from the queue to it.
LEMMA TakeIInv ==
    ASSUME IInv, NEW w \in Worker, Take(w)
    PROVE  IInv'
<1>1. PICK n \in queue : running' = [running EXCEPT ![w] = n]
                         /\ queue' = queue \ {n}
  BY DEF Take
<1>2. \A v \in Worker : running[v] # n
  BY DEF IInv, TypeOK
<1>3. Started' = Started
  BY <1>1 DEF Take, Started, Busy, IInv, TypeOK
<1>4. QED
  BY <1>1, <1>2, <1>3 DEF IInv, TypeOK, CountsExact, Take

\* A task completes.  The completed node n had all its upstream nodes in
\* the round done, so no started node depends on it.  A dependant v whose
\* counter was 1 had n as its last missing upstream node, so it is ready.
LEMMA CompleteIInv ==
    ASSUME IInv, NEW w \in Worker, Complete(w)
    PROVE  IInv'
<1> DEFINE n == running[w]
           next == Dependants(n) \cap round
           Q == {v \in next : pending[v] = 1}
           S(v) == (Upstream(v) \cap round) \ completed
<1>1. /\ n \in round \ (completed \cup queue)
      /\ Upstream(n) \cap round \subseteq completed
      /\ n \in Node
  BY DEF Complete, IInv, Started, Busy, TypeOK
<1>2. /\ completed' = completed \cup {n}
      /\ running' = [running EXCEPT ![w] = NoNode]
      /\ pending' = [v \in Node |-> IF v \in next THEN pending[v] - 1
                                                  ELSE pending[v]]
      /\ queue' = queue \cup Q
      /\ round' = round /\ rounds' = rounds
  BY DEF Complete
\* n is missing for exactly its dependants in the round.
<1>3. \A v \in round \ completed : n \in S(v) <=> v \in next
  BY <1>1 DEF Dependants, Upstream
\* No started node is a dependant of n in the round.
<1>4. \A v \in next : v \notin Started
  BY <1>1 DEF IInv, Dependants, Upstream
<1>5. \A v \in next : v \in round \ completed /\ v # n /\ v \notin queue
                      /\ \A u \in Worker : running[u] # v
  BY <1>1, <1>4 DEF Started, Busy, Dependants, Upstream
<1>6. \A v \in round \ completed :
          /\ Cardinality(S(v)) \in Nat
          /\ Cardinality(S(v) \ {n}) =
                 IF v \in next THEN Cardinality(S(v)) - 1 ELSE Cardinality(S(v))
  <2> TAKE v \in round \ completed
  <2>1. S(v) \subseteq Node
    BY DEF Upstream
  <2> QED
    BY <2>1, <1>3, CardRemove
<1>7. \A v \in round \ completed : pending[v] = Cardinality(S(v))
  BY DEF IInv, CountsExact
<1>8. \A v \in Q : S(v) \ {n} = {}
  <2> TAKE v \in Q
  <2>1. v \in next /\ pending[v] = 1
    OBVIOUS
  <2>2. v \in round \ completed
    BY <2>1, <1>5
  <2>3. Cardinality(S(v)) = 1
    BY <2>1, <2>2, <1>7
  <2>4. Cardinality(S(v) \ {n}) = 0
    BY <2>1, <2>2, <2>3, <1>6
  <2>5. S(v) \ {n} \subseteq Node
    BY DEF Upstream
  <2> QED
    BY <2>4, <2>5, CardZero
<1>9. TypeOK'
  <2>1. \A v \in next : pending[v] - 1 \in Nat
    <3> TAKE v \in next
    <3>1. v \in round \ completed
      BY <1>5
    <3>2. S(v) \ {n} \subseteq Node
      BY DEF Upstream
    <3>3. Cardinality(S(v) \ {n}) \in Nat
      BY <3>2, CardRemove
    <3> QED
      BY <3>1, <3>3, <1>6, <1>7
  <2> QED
    BY <1>1, <1>2, <2>1 DEF IInv, TypeOK
<1>10. CountsExact'
  <2> SUFFICES ASSUME NEW v \in round \ (completed \cup {n})
               PROVE  pending'[v] = Cardinality(S(v) \ {n})
    BY <1>2 DEF CountsExact
  <2> QED
    BY <1>2, <1>6, <1>7 DEF IInv, TypeOK
<1>11. \A v \in Started' : Upstream(v) \cap round' \subseteq completed'
  <2> SUFFICES ASSUME NEW v \in Started'
               PROVE  Upstream(v) \cap round \subseteq completed \cup {n}
    BY <1>2
  <2>1. CASE v \in Q
    BY <2>1, <1>8
  <2>2. CASE v \notin Q
    <3>1. v \in Started \/ v = n
      BY <2>2, <1>2 DEF Started, Busy
    <3> QED
      BY <3>1, <1>1 DEF IInv
  <2> QED
    BY <2>1, <2>2
<1>12. \A u \in Worker : running'[u] # NoNode =>
           running'[u] \in round' \ (completed' \cup queue')
  BY <1>1, <1>2, <1>5 DEF IInv, TypeOK
<1>13. \A u1, u2 \in Worker :
           running'[u1] = running'[u2] /\ running'[u1] # NoNode => u1 = u2
  BY <1>2 DEF IInv, TypeOK
<1>14. completed' \subseteq round' /\ queue' \subseteq round' \ completed'
  BY <1>1, <1>2, <1>5 DEF IInv
<1> QED
  BY <1>9, <1>10, <1>11, <1>12, <1>13, <1>14 DEF IInv

\* Every step of the pool keeps the inductive invariant.
LEMMA NextIInv == IInv /\ [Next]_vars => IInv'
<1> SUFFICES ASSUME IInv, [Next]_vars PROVE IInv'
  OBVIOUS
<1>1. CASE \E R \in Rounds : StartRound(R)
  BY <1>1, StartRoundIInv
<1>2. CASE \E w \in Worker : Take(w)
  BY <1>2, TakeIInv
<1>3. CASE \E w \in Worker : Complete(w)
  BY <1>3, CompleteIInv
<1>4. CASE UNCHANGED vars
  BY <1>4 DEF vars, IInv, TypeOK, CountsExact, Started, Busy
<1> QED
  BY <1>1, <1>2, <1>3, <1>4 DEF Next

\* The dependency counters are exact in every reachable state, for every
\* dependency graph, round and pool size: a counter reaches zero exactly
\* when the node's last upstream node of the round completes.
THEOREM CountsExactHolds == Spec => []CountsExact
<1>1. Spec => []IInv
  BY InitIInv, NextIInv, PTL DEF Spec
<1> QED
  BY <1>1, PTL DEF IInv

\* Type correctness of the pool: counters stay natural numbers (a
\* completion never decrements a counter below zero) and workers hold a
\* node of the graph or nothing.
THEOREM TypeCorrect == Spec => []TypeOK
<1>1. Spec => []IInv
  BY InitIInv, NextIInv, PTL DEF Spec
<1> QED
  BY <1>1, PTL DEF IInv

\* The worker pool implements the abstract round (safety part): starting
\* a round is AStartRound, a completion is Evaluate of the completed node
\* (which the pool only ran once its upstream nodes in the round were
\* done), and taking a task changes nothing the abstract round sees.
THEOREM Refinement == Spec => A!ASafe
<1>1. Init => A!AInit
  BY DEF Init, A!AInit
<1>2. IInv /\ [Next]_vars => [A!ANext]_<<round, completed, rounds>>
  <2> SUFFICES ASSUME IInv, [Next]_vars
               PROVE  [A!ANext]_<<round, completed, rounds>>
    OBVIOUS
  <2>1. CASE \E R \in Rounds : StartRound(R)
    BY <2>1 DEF StartRound, A!ANext, A!AStartRound
  <2>2. CASE \E w \in Worker : Take(w)
    BY <2>2 DEF Take
  <2>3. CASE \E w \in Worker : Complete(w)
    <3>1. PICK w \in Worker : Complete(w)
      BY <2>3
    <3>2. /\ running[w] \in round \ completed
          /\ Upstream(running[w]) \cap round \subseteq completed
          /\ running[w] \in Node
      BY <3>1 DEF Complete, IInv, Started, Busy, TypeOK
    <3>3. A!Evaluate(running[w])
      BY <3>1, <3>2 DEF Complete, A!Evaluate, A!Upstream, Upstream
    <3> QED
      BY <3>2, <3>3 DEF A!ANext
  <2>4. CASE UNCHANGED vars
    BY <2>4 DEF vars
  <2> QED
    BY <2>1, <2>2, <2>3, <2>4 DEF Next
<1>3. Spec => []IInv
  BY InitIInv, NextIInv, PTL DEF Spec
<1> QED
  BY <1>1, <1>2, <1>3, PTL DEF Spec, A!ASafe, A!avars

=============================================================================
