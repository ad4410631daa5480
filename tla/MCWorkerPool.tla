---------------------------- MODULE MCWorkerPool ----------------------------
(* A diamond a -> b, a -> c, b -> d, c -> d plus an unrelated node e, two  *)
(* workers; rounds re-evaluate everything, the dependants of b, or {e, d}. *)
EXTENDS WorkerPool

CONSTANTS a, b, c, d, e, w1, w2

MCDeps == {<<a, b>>, <<a, c>>, <<b, d>>, <<c, d>>}

MCRounds == {{a, b, c, d, e}, {b, d}, {d, e}}

=============================================================================
