----------------------------- MODULE MCExchange -----------------------------
(* An instance of Exchange for TLC: one of the parties can move. *)
EXTENDS Exchange, TLC

CONSTANTS A, B, a1, b1, b2

HomesAB == A :> {a1} @@ B :> {b1, b2}
=============================================================================
