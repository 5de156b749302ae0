----------------------------- MODULE Backgammon -----------------------------
(***************************************************************************)
(* The rules of backgammon (games/backgammon/rules.ts).  A turn is a list  *)
(* of hops that uses as many dice as can be used; hops are relative to     *)
(* the mover, whose points count down from LastPoint to 1, BAR before them *)
(* and OFF after.  The size of the board is a parameter.  Notation, pip    *)
(* counts and the choice among hop lists that are one turn are left out.   *)
(***************************************************************************)
EXTENDS Integers, Sequences, FiniteSets, SequencesExt, Functions

CONSTANTS
  LastPoint, HomePoints, Sides, MenEach,  \* 24, 6, 6 and 15
  TurnLimit,                          \* TURN_LIMIT
  StartingPoints                      \* point -> men there, those of seat 1 negative

VARIABLE state

Seats == {0, 1}
BAR == LastPoint + 1
OFF == 0
AbsOf(seat, r) == IF seat = 0 THEN r ELSE LastPoint + 1 - r
Unit(seat) == IF seat = 0 THEN 1 ELSE -1

\* The men a seat has on its point r; a position is [pts, bar, off].
MyCount(pos, seat, r) ==
  LET c == Unit(seat) * pos.pts[AbsOf(seat, r)] IN IF c > 0 THEN c ELSE 0
TheirCount(pos, seat, r) == MyCount(pos, 1 - seat, LastPoint + 1 - r)

Occupied(pos, seat) == {r \in 1 .. LastPoint : MyCount(pos, seat, r) > 0}
IsHighest(pos, seat, r) == \A q \in Occupied(pos, seat) : q <= r
AllHome(pos, seat) == \A r \in Occupied(pos, seat) : r <= HomePoints

\* The bar first; a man comes off by an exact die, the last one by any.
HopsForDie(pos, seat, die) ==
  LET hop(from, to) == [from |-> from, to |-> to, die |-> die]
      open(to) == TheirCount(pos, seat, to) <= 1
      mine == Occupied(pos, seat)
  IN  IF pos.bar[seat] > 0 THEN {hop(BAR, to) : to \in {q \in {BAR - die} : open(q)}}
      ELSE {hop(r, r - die) : r \in {q \in mine : q > die /\ open(q - die)}}
           \cup {hop(r, OFF) : r \in {q \in mine : /\ q <= die /\ AllHome(pos, seat)
                                                   /\ q = die \/ IsHighest(pos, seat, q)}}

Adds(f, x, n) == [f EXCEPT ![x] = @ + n]
ApplyHop(pos, seat, hop) ==
  LET left == IF hop.from = BAR THEN [pos EXCEPT !.bar = Adds(@, seat, -1)]
              ELSE [pos EXCEPT !.pts = Adds(@, AbsOf(seat, hop.from), -Unit(seat))]
      to   == AbsOf(seat, hop.to)
  IN  IF hop.to = OFF THEN [left EXCEPT !.off = Adds(@, seat, 1)]
      ELSE IF left.pts[to] = -Unit(seat)
      THEN [left EXCEPT !.pts[to] = Unit(seat), !.bar = Adds(@, 1 - seat, 1)]
      ELSE [left EXCEPT !.pts = Adds(@, to, Unit(seat))]

\* The plays that stop only when no die that is left can be played.
RECURSIVE Plays(_, _, _)
Plays(pos, seat, dice) ==
  LET firsts == UNION {{[hop |-> h, rest |-> RemoveFirst(dice, die)] : h \in HopsForDie(pos, seat, die)} : die \in ToSet(dice)}
  IN  IF firsts = {} THEN {[hops |-> <<>>, pos |-> pos]}
      ELSE UNION {{[hops |-> <<f.hop>> \o p.hops, pos |-> p.pos] :
                     p \in Plays(ApplyHop(pos, seat, f.hop), seat, f.rest)} : f \in firsts}

PosOf(s) == [pts |-> s.points, bar |-> s.bar, off |-> s.off]

\* The longest of them; of two single dice the larger.
LegalTurns(s) ==
  LET plays   == Plays(PosOf(s), s.turn, s.dice)
      longest == {p \in plays : \A q \in plays : Len(q.hops) <= Len(p.hops)}
      larger  == {p \in longest : Len(p.hops) = 1 /\ p.hops[1].die = s.dice[1]}
  IN  IF Len(s.dice) = 2 /\ larger # {} THEN larger ELSE longest

\* simulateTurn: what a list of hops that was submitted leads to, if anywhere.
RECURSIVE Simulate(_, _, _, _)
Simulate(pos, seat, dice, hops) ==
  IF hops = <<>> THEN {pos}
  ELSE LET h == Head(hops) IN
       IF h.die \in ToSet(dice) /\ h \in HopsForDie(pos, seat, h.die)
       THEN Simulate(ApplyHop(pos, seat, h), seat, RemoveFirst(dice, h.die), Tail(hops)) ELSE {}

Won(s) == {seat \in Seats : s.off[seat] = MenEach}
TerminalResult(s) ==
  IF Won(s) # {} THEN
    LET winner == CHOOSE seat \in Won(s) : TRUE
        loser  == 1 - winner
        behind == s.bar[loser] > 0
                  \/ \E r \in LastPoint - HomePoints + 1 .. LastPoint : MyCount(PosOf(s), loser, r) > 0
    IN  [reason |-> IF s.off[loser] > 0 THEN "bearoff" ELSE IF behind THEN "backgammon" ELSE "gammon",
         winner |-> winner]
  ELSE [reason |-> IF s.turnIndex >= TurnLimit THEN "turn_limit" ELSE "none", winner |-> 2]

\* Two dice, the larger first, or four of a kind.
Thrown(a, b) == IF a = b THEN <<a, a, a, a>> ELSE IF a > b THEN <<a, b>> ELSE <<b, a>>

Advance(s, pos, dice) ==
  LET over == pos.off[s.turn] = MenEach \/ s.turnIndex + 1 >= TurnLimit
  IN  [points |-> pos.pts, bar |-> pos.bar, off |-> pos.off, turn |-> 1 - s.turn,
       dice |-> IF over THEN <<>> ELSE dice, turnIndex |-> s.turnIndex + 1]

\* Both throw one die until they differ; the higher one starts with the two.
Init ==
  \E a, b \in 1 .. Sides :
    /\ a # b
    /\ state = [points |-> StartingPoints, bar |-> [seat \in Seats |-> 0], off |-> [seat \in Seats |-> 0],
                turn |-> IF a > b THEN 0 ELSE 1, dice |-> Thrown(a, b), turnIndex |-> 0]

Turn ==
  /\ TerminalResult(state).reason = "none"
  /\ \E t \in LegalTurns(state), a, b \in 1 .. Sides : state' = Advance(state, t.pos, Thrown(a, b))

Next == Turn
Spec == Init /\ [][Next]_state

-----------------------------------------------------------------------------
\* Every seat's men are on the board, on the bar or off, through hits,
\* entries and bearing off.
MenConserved ==
  \A seat \in Seats :
    MenEach = state.bar[seat] + state.off[seat]
          + SumFunction([r \in 1 .. LastPoint |-> MyCount(PosOf(state), seat, r)])

\* Whoever is to move can, if only by passing: every turn that is listed can be
\* submitted and is replayed to the position it was listed with.  Men leave the
\* bar before others move, and of two dice of which one is played it is the
\* larger, where that one can be.
TurnsAreComplete ==
  TerminalResult(state).reason = "none" =>
    LET seat == state.turn IN
    /\ LegalTurns(state) # {}
    /\ \A t \in LegalTurns(state) :
         /\ t.pos \in Simulate(PosOf(state), seat, state.dice, t.hops)
         /\ t.pos.bar[seat] > 0 => \A i \in DOMAIN t.hops : t.hops[i].from = BAR
         /\ Len(t.hops) = 1 /\ Len(state.dice) > 1 =>
              \A p \in Plays(PosOf(state), seat, Reverse(state.dice)) :
                Len(p.hops) = 1 => p.hops[1].die <= t.hops[1].die
=============================================================================
