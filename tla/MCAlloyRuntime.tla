--------------------------- MODULE MCAlloyRuntime ---------------------------
(* Model-checking instance of AlloyRuntime: three blocks where b reads a   *)
(* and b and c read each other (so declaring both is a cycle, and b       *)
(* without a an unresolved reference), and one service.                  *)
EXTENDS AlloyRuntime

CONSTANTS a, b, c, svc

MCNode == {a, b, c}
MCServices == {svc}
MCRefs == {<<a, b>>, <<b, c>>, <<c, b>>}
=============================================================================
