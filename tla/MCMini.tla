------------------------------- MODULE MCMini -------------------------------
(***************************************************************************)
(* A room playing the two-seat game of src/rooms/tests/mini-game.ts, the   *)
(* one without a default move: the seats alternate, or, under the variant  *)
(* "simultaneous", begin with one simultaneous phase; the fifth move wins. *)
(* A lost seat ends the game, and resignation and draw offers are open.    *)
(***************************************************************************)
EXTENDS ReplayVerify, TLC

CONSTANT Limit

\* seq.length, the move it ends with, and who has played the first phase.
MCGState ==
  [n : 0 .. Limit, last : {"a", "b"}, by : Player, simulDone : {{0, 1}}] \cup
  {[n |-> Cardinality(done), last |-> m, by |-> p, simulDone |-> done] :
     done \in {{}, {0}, {1}}, m \in {"a", "b"}, p \in Player}

MCInitStates ==
  {[n |-> 0, last |-> "a", by |-> 0, simulDone |-> done] : done \in {{}, {0, 1}}}

MCMove == {"a", "b"}

\* "b" is played offering a draw, or accepting one; "c" is no notation.
MCSubmission ==
  { [by |-> "index", arg |-> 0, draw_offer |-> FALSE],
    [by |-> "notation", arg |-> "b", draw_offer |-> TRUE],
    [by |-> "notation", arg |-> "c", draw_offer |-> FALSE],
    [by |-> "notation", arg |-> "c", draw_offer |-> TRUE] }

MCPlayersToMove(g) ==
  IF g.n >= Limit THEN {}
  ELSE IF g.simulDone # Player THEN Player \ g.simulDone
  ELSE {g.n % 2}

MCLegalMoves(g, p) == IF p \in MCPlayersToMove(g) THEN <<"a", "b">> ELSE <<>>

MCApply(g, p, m) ==
  IF p \notin MCPlayersToMove(g) THEN None
  ELSE [n |-> g.n + 1, last |-> m, by |-> p, simulDone |-> g.simulDone \cup {p}]

MCIsTerminal(g) ==
  IF g.n < Limit THEN None
  ELSE [winners |-> {g.by}, draw |-> FALSE, reason |-> "turn_limit"]

MCParseMove(g, p, arg) == IF arg \in MCMove THEN arg ELSE None
MCDefaultMove(g, p) == None
MCForfeitPlayer(g, p) == None
MCGameReason == {"turn_limit"}
MCGone(g) == {}
MCPhaseBudget(g) == 1

\* The game keeps every promise that the theorem on replays rests on.
ASSUME PhasesLast /\ SubmissionsLast /\ SideClocksForfeit

=============================================================================
