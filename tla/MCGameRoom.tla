----------------------------- MODULE MCGameRoom -----------------------------
(***************************************************************************)
(* A game of two turns and two requests: one for each turn, or both for    *)
(* the first (two tries of one agent).  Each turn may also go to the       *)
(* clock.  The end is written to D1 in two or three batches.               *)
(***************************************************************************)
EXTENDS GameRoom

CONSTANTS r1, r2

MCTurnOf == [r \in Request |-> IF r = r1 THEN 0 ELSE 1]
MCSameTurn == [r \in Request |-> 0]
=============================================================================
