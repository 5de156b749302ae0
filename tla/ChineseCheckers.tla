--------------------------- MODULE ChineseCheckers ---------------------------
(***************************************************************************)
(* The rules of Chinese checkers (games/chinese_checkers/rules.ts): steps  *)
(* and chains of jumps on a star of six triangles, the seat that forfeits  *)
(* because it stayed at home, and the ranking when the rounds are over.    *)
(* A hole is <<column, row>> in doubled coordinates; the side of the       *)
(* triangles is a parameter.  Move notation and the codec are left out, so *)
(* a move is a peg and the hole it ends in.                                *)
(***************************************************************************)
EXTENDS Integers, FiniteSets, FiniteSetsExt, Functions

CONSTANTS
  Side,                  \* of a triangle: 4
  PlayerCounts,          \* those of the 2, 3, 4 and 6 that are considered
  Openings,              \* and positions a game is taken up from
  VacateBy, RoundLimit   \* 30 and 200

VARIABLE state

\* Every other column of a row, centred on column 3 Side + 1.
RowCount(r) ==
  LET up == IF r <= 2 * Side + 1 THEN r ELSE 4 * Side + 2 - r
  IN  IF up <= Side THEN up ELSE 4 * Side + 2 - up
IsHole(h) ==
  /\ h[2] \in 1 .. 4 * Side + 1
  /\ \E i \in 0 .. RowCount(h[2]) - 1 : h[1] = 3 * Side + 2 - RowCount(h[2]) + 2 * i
Holes == {h \in (1 .. 6 * Side + 1) \X (1 .. 4 * Side + 1) : IsHole(h)}

Dirs == {<<-1, -1>>, <<1, -1>>, <<-2, 0>>, <<2, 0>>, <<-1, 1>>, <<1, 1>>}
At(h, d, k) == <<h[1] + k * d[1], h[2] + k * d[2]>>

TriangleOf(h) ==
  LET c == h[1]
      r == h[2]
  IN  CASE r <= Side -> "N"
        [] r >= 3 * Side + 2 -> "S"
        [] r \in Side + 1 .. 2 * Side /\ c <= 3 * Side - r -> "NW"
        [] r \in Side + 1 .. 2 * Side /\ c >= 3 * Side + 2 + r -> "NE"
        [] r \in 2 * Side + 2 .. 3 * Side + 1 /\ c <= r - (Side + 2) -> "SW"
        [] r \in 2 * Side + 2 .. 3 * Side + 1 /\ c >= 7 * Side + 4 - r -> "SE"
        [] OTHER -> "none"

Opposite == [N |-> "S", S |-> "N", NE |-> "SW", SW |-> "NE", NW |-> "SE", SE |-> "NW"]
SeatsByCount(n) ==
  CASE n = 2 -> <<"N", "S">> [] n = 3 -> <<"N", "SE", "SW">> [] n = 4 -> <<"N", "NE", "S", "SW">>
    [] n = 6 -> <<"N", "NE", "SE", "S", "SW", "NW">>
StartTriangle(s, seat) == SeatsByCount(s.n)[seat + 1]
GoalTriangle(s, seat) == Opposite[StartTriangle(s, seat)]

Seats(s) == 0 .. s.n - 1
PegsOf(board, seat) == {h \in DOMAIN board : board[h] = seat}
PegsIn(board, seat, t) == {h \in PegsOf(board, seat) : TriangleOf(h) = t}
PegsInGoal(s, seat) == Cardinality(PegsIn(s.board, seat, GoalTriangle(s, seat)))
GoalFilled(s, seat) == PegsInGoal(s, seat) = (Side * (Side + 1)) \div 2

\* Nobody ends a move in the own start triangle who has not started there.
DestAllowed(s, seat, from, dest) ==
  TriangleOf(dest) = StartTriangle(s, seat) => TriangleOf(from) = StartTriangle(s, seat)

Empty(board, h) == IsHole(h) /\ h \notin DOMAIN board

\* The holes a chain of jumps from a hole can end in; the peg that jumps is
\* not on the board meanwhile.
Jumps(board, h) ==
  {At(h, d, 2) : d \in {e \in Dirs : At(h, e, 1) \in DOMAIN board /\ Empty(board, At(h, e, 2))}}
RECURSIVE Landings(_, _)
Landings(board, found) ==
  LET more == UNION {Jumps(board, h) : h \in found} \ found
  IN  IF more = {} THEN found ELSE Landings(board, found \cup more)
JumpEndpoints(board, from) == Landings(Restrict(board, DOMAIN board \ {from}), {from}) \ {from}

StepsFrom(board, from) == {y \in {At(from, d, 1) : d \in Dirs} : Empty(board, y)}
Pass == [from |-> <<0, 0>>, to |-> <<0, 0>>]
EnumerateCc(s, seat) ==
  LET dests(h) == {y \in StepsFrom(s.board, h) \cup JumpEndpoints(s.board, h) : DestAllowed(s, seat, h, y)}
      moves    == UNION {{[from |-> h, to |-> y] : y \in dests(h)} : h \in PegsOf(s.board, seat)}
  IN  IF moves = {} THEN {Pass} ELSE moves

Carried(board, m) ==
  IF m = Pass THEN board
  ELSE [h \in (DOMAIN board \ {m.from}) \cup {m.to} |-> IF h = m.to THEN board[m.from] ELSE board[h]]

\* The seat itself when all the others have forfeited.
NextActiveSeat(n, forfeited, after) ==
  LET ahead == {d \in 1 .. n : ~forfeited[(after + d) % n]}
  IN  IF ahead = {} THEN after ELSE (after + Min(ahead)) % n

Active(s) == {seat \in Seats(s) : ~s.forfeited[seat]}
CcResult(s) ==
  LET filled == {seat \in Active(s) : GoalFilled(s, seat)}
      best   == Max({PegsInGoal(s, seat) : seat \in Active(s)})
      result(reason, winners) == [reason |-> reason, winners |-> winners]
  IN  IF filled # {} THEN result("goal", {Min(filled)})
      ELSE IF Cardinality(Active(s)) <= 1 THEN result("forfeit", Active(s))
      ELSE IF s.round > RoundLimit THEN result("turn_limit", {seat \in Active(s) : PegsInGoal(s, seat) = best})
      ELSE result("none", {})

ApplyCc(s, seat, m) ==
  LET board     == Carried(s.board, m)
      movesBy   == [s.movesBy EXCEPT ![seat] = @ + 1]
      atHome    == PegsIn(board, seat, StartTriangle(s, seat)) # {}
      forfeited == [s.forfeited EXCEPT ![seat] = @ \/ (movesBy[seat] >= VacateBy /\ atHome)]
      next      == NextActiveSeat(s.n, forfeited, seat)
  IN  [n |-> s.n, board |-> board, toMove |-> next, round |-> IF next <= seat THEN s.round + 1 ELSE s.round,
       movesBy |-> movesBy, forfeited |-> forfeited]

InitialCcState(n) ==
  LET home(h) == {seat \in 0 .. n - 1 : SeatsByCount(n)[seat + 1] = TriangleOf(h)}
  IN  [n |-> n, board |-> [h \in {x \in Holes : home(x) # {}} |-> CHOOSE seat \in home(h) : TRUE],
       toMove |-> 0, round |-> 1, movesBy |-> [seat \in 0 .. n - 1 |-> 0],
       forfeited |-> [seat \in 0 .. n - 1 |-> FALSE]]

Init == state \in {InitialCcState(n) : n \in PlayerCounts} \cup Openings
Move ==
  /\ CcResult(state).reason = "none"
  /\ \E m \in EnumerateCc(state, state.toMove) : state' = ApplyCc(state, state.toMove, m)

Next == Move
Spec == Init /\ [][Next]_state

-----------------------------------------------------------------------------
\* Everybody who still plays has had the same number of turns, whoever has
\* forfeited: the rounds are full rounds.
RoundsAreFull ==
  \A seat \in Active(state) : state.movesBy[seat] = state.round - 1 + (IF seat < state.toMove THEN 1 ELSE 0)

\* Who is still in the game after VacateBy moves has left the start triangle,
\* and for good: nobody forfeits by a later move.
StartVacated ==
  \A seat \in Seats(state) :
    IF state.forfeited[seat] THEN state.movesBy[seat] = VacateBy
    ELSE state.movesBy[seat] >= VacateBy => PegsIn(state.board, seat, StartTriangle(state, seat)) = {}
=============================================================================
