--------------------------- MODULE RatingLedger ---------------------------
(***************************************************************************)
(* What the rating of finished games promises, whoever calls it and however *)
(* often (src/match/ratings.ts, header): a game is claimed once, for good,  *)
(* as rated or as an exhibition; a rated game enters the row of each of its *)
(* seats once at most, an exhibition enters none.                          *)
(***************************************************************************)
EXTENDS Naturals

CONSTANTS Game, Agent, None

VARIABLES
  claim,     \* [Game -> {None, "rated", "exhibition"}]
  entered    \* [Game -> [Agent -> how often the game has entered the agent's rows]]

vars == <<claim, entered>>

Init ==
  /\ claim = [g \in Game |-> None]
  /\ entered = [g \in Game |-> [a \in Agent |-> 0]]

Claim(g, outcome) ==
  /\ claim[g] = None
  /\ claim' = [claim EXCEPT ![g] = outcome]
  /\ UNCHANGED entered

Enter(g, a) ==
  /\ claim[g] = "rated"
  /\ entered[g][a] = 0
  /\ entered' = [entered EXCEPT ![g][a] = 1]
  /\ UNCHANGED claim

Next ==
  \E g \in Game :
    \/ \E outcome \in {"rated", "exhibition"} : Claim(g, outcome)
    \/ \E a \in Agent : Enter(g, a)

Spec == Init /\ [][Next]_vars

=============================================================================
