----------------------------- MODULE MCPosChain -----------------------------
(* Instances of PosChain for TLC. *)
EXTENDS PosChain

CONSTANTS c1, c2

\* One connection makes two blocks, the other one.
TwoAndOne == (c1 :> 2) @@ (c2 :> 1)
=============================================================================
