------------------------------ MODULE MCTable -------------------------------
(***************************************************************************)
(* A room playing a table of three seats that can lose a seat and play on, *)
(* with the phases of src/games/werewolf/rules.ts that matter to a room:   *)
(* nights (simultaneous, one option), a defense (one mover), a vote        *)
(* (simultaneous; the ballot depends on who is alive), and as there the    *)
(* default move is legal move 0.  One seat left, or the vote taken, ends   *)
(* the game.                                                               *)
(***************************************************************************)
EXTENDS ReplayVerify, TLC

CONSTANTS
  NightSeats,   \* the seats that act at night
  Nights,       \* nights before the defense and the vote
  ThinkingTime  \* the move budget, in clock ticks

Ballot == <<"vote0", "vote1", "vote2">>
MCMove == {"sleep", "say", "abstain", "vote0", "vote1", "vote2"}

Slots(S) == UNION {[T -> S] : T \in SUBSET Player}
NightMovers(alive) == NightSeats \cap alive
Defender(alive) == CHOOSE p \in alive : \A q \in alive : p <= q

Movers(g) ==
  CASE g.phase = "night" -> NightMovers(g.alive) \ DOMAIN g.slots
    [] g.phase = "defense" -> {Defender(g.alive)}
    [] g.phase = "vote" -> g.alive \ DOMAIN g.slots
    [] g.phase = "over" -> {}

\* slots: what the seats have done in the phase that is running.
MCGState ==
  LET Living == SUBSET Player
      Resting(S) == {g \in S : DOMAIN g.slots \subseteq g.alive}
  IN Resting(
       {g \in [phase : {"night"}, night : 1 .. Nights, alive : Living, slots : Slots({"sleep"})] :
          Cardinality(g.alive) > 1 /\ Movers(g) # {}} \cup
       {g \in [phase : {"defense"}, night : {Nights}, alive : Living, slots : {<<>>}] :
          Cardinality(g.alive) > 1} \cup
       {g \in [phase : {"vote"}, night : {Nights}, alive : Living,
               slots : Slots({"abstain", "vote0", "vote1", "vote2"})] :
          Cardinality(g.alive) > 1 /\ Movers(g) # {}} \cup
       [phase : {"over"}, night : 1 .. Nights, alive : Living \ {{}}, slots : {<<>>}])

MCInitStates == {[phase |-> "night", night |-> 1, alive |-> Player, slots |-> <<>>]}

MCPlayersToMove(g) == Movers(g)

\* vote(seat) counts: the seats named by two or more are lynched, unless
\* nobody would be left.
AfterVote(g) ==
  LET named == {q \in g.alive :
        Cardinality({p \in DOMAIN g.slots : g.slots[p] = Ballot[q + 1]}) > 1}
  IN IF g.alive \ named = {} THEN g.alive ELSE g.alive \ named

\* settle(): the phases that are complete are left behind.
Next1(g) ==
  CASE g.phase = "night" /\ g.night < Nights -> [g EXCEPT !.night = @ + 1, !.slots = <<>>]
    [] g.phase = "night" /\ g.night >= Nights -> [g EXCEPT !.phase = "defense", !.slots = <<>>]
    [] g.phase = "vote" -> [g EXCEPT !.phase = "over", !.alive = AfterVote(g), !.slots = <<>>]
Settle(g) ==
  IF Cardinality(g.alive) <= 1 THEN [g EXCEPT !.phase = "over", !.slots = <<>>]
  ELSE IF g.phase # "over" /\ Movers(g) = {} THEN Next1(g)
  ELSE g

Legal(g, p) ==
  CASE g.phase = "night" -> <<"sleep">>
    [] g.phase = "defense" -> <<"say">>
    [] g.phase = "vote" ->
         <<"abstain">> \o SelectSeq(Ballot, LAMBDA b : \E q \in g.alive : Ballot[q + 1] = b)
MCLegalMoves(g, p) == IF p \in Movers(g) THEN Legal(g, p) ELSE <<>>

MCApply(g, p, m) ==
  IF p \notin Movers(g) \/ \A i \in DOMAIN Legal(g, p) : Legal(g, p)[i] # m THEN None
  ELSE IF g.phase = "defense" THEN [g EXCEPT !.phase = "vote"]
  ELSE Settle([g EXCEPT !.slots = @ @@ p :> m])

MCIsTerminal(g) ==
  IF g.phase # "over" THEN None
  ELSE [winners |-> g.alive, draw |-> FALSE, reason |-> "last_standing"]

\* The notation is read in the phase it belongs to, and whoever is alive.
MCParseMove(g, p, arg) ==
  CASE g.phase = "night" /\ arg = "sleep" -> arg
    [] g.phase = "defense" /\ arg = "say" -> arg
    [] g.phase = "vote" /\ arg \in {"abstain", "vote0", "vote1", "vote2"} -> arg
    [] OTHER -> None

MCDefaultMove(g, p) == IF p \in Movers(g) THEN Legal(g, p)[1] ELSE None

MCForfeitPlayer(g, p) ==
  IF g.phase = "over" \/ p \notin g.alive THEN None
  ELSE IF g.phase = "defense" /\ p = Defender(g.alive)
  THEN Settle([g EXCEPT !.alive = @ \ {p}, !.phase = "vote"])
  ELSE Settle([g EXCEPT !.alive = @ \ {p}, !.slots = [q \in DOMAIN g.slots \ {p} |-> g.slots[q]]])

MCGameReason == {"last_standing"}

\* The lynched leave the game as it ends, and are not gone from it.
MCGone(g) == IF g.phase = "over" THEN Player ELSE Player \ g.alive
MCPhaseBudget(g) == ThinkingTime

\* "sleep" is legal at night and nowhere else, "vote0" in the vote.
ByNotation ==
  { [by |-> "notation", arg |-> "sleep", draw_offer |-> FALSE],
    [by |-> "notation", arg |-> "vote0", draw_offer |-> FALSE] }
\* The null act of every phase: agents that move in time or not at all.
NullAct == {[by |-> "index", arg |-> 0, draw_offer |-> FALSE]}
\* Index 2 is out of range at night; in the vote it is the second living seat.
ByIndex ==
  { [by |-> "index", arg |-> 0, draw_offer |-> FALSE],
    [by |-> "index", arg |-> 2, draw_offer |-> FALSE] }

\* The phases of this table last as those of the games do.
ASSUME PhasesLast

\* A notation keeps its meaning in them.
ASSUME (\A sub \in Submission : sub.by = "notation") => SubmissionsLast

=============================================================================
