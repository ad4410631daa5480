------------------------------- MODULE MCGelf -------------------------------
(* Two receivers r1 and r2; Update switches forward_to between them.       *)
EXTENDS Gelf

CONSTANTS r1, r2

MCReceivers == {r1, r2}

MCRecvLists == {<<r1>>, <<r1, r2>>, <<r2>>}

=============================================================================
