------------------------------- MODULE Morris -------------------------------
(***************************************************************************)
(* The rules of Nine Men's Morris (games/nine_mens_morris/rules.ts): men   *)
(* are placed, then moved along the lines, or anywhere by whoever has only *)
(* three left; a mill takes an enemy man, out of a mill only when there is *)
(* no other.                                                               *)
(*                                                                         *)
(* `past` records every position of the game; the code does not keep it.   *)
(***************************************************************************)
EXTENDS Integers, FiniteSets, Sequences, SequencesExt

CONSTANTS
  Points, Lines,     \* Lines: the pairs of points that are neighbours
  Mills, QuietLimit, Repetitions,
  MaxPlies,          \* bound: the plies considered from the opening on
  Openings           \* the states a game is taken up from

VARIABLE state

Empty == 2
Key(board, toMove, inHand) == <<board, toMove, inHand>>
OnBoard(board, seat) == {x \in Points : board[x] = seat}
OnBoardCount(board, seat) == Cardinality(OnBoard(board, seat))

InMill(board, x) ==
  board[x] # Empty /\ \E m \in Mills : x \in m /\ \A y \in m : board[y] = board[x]

RemovalCandidates(board, opp) ==
  LET unmilled == {x \in OnBoard(board, opp) : ~InMill(board, x)}
  IN  IF unmilled # {} THEN unmilled ELSE OnBoard(board, opp)

IsFlying(s, seat) == s.phase = "moving" /\ OnBoardCount(s.board, seat) = 3

\* What a ply makes of the board: the point reached, whether a man is taken,
\* and the board after it.
Outcomes(board, to, seat) ==
  LET after == [board EXCEPT ![to] = seat]
      candidates == RemovalCandidates(after, 1 - seat)
  IN  IF InMill(after, to) /\ candidates # {}
      THEN {[milled |-> TRUE, removed |-> TRUE, board |-> [after EXCEPT ![x] = Empty]] : x \in candidates}
      ELSE {[milled |-> InMill(after, to), removed |-> FALSE, board |-> after]}

Destinations(s, seat, from) ==
  {to \in Points : s.board[to] = Empty /\ (IsFlying(s, seat) \/ {from, to} \in Lines)}

Enumerate(s, seat) ==
  IF s.phase = "placing"
  THEN UNION {Outcomes(s.board, to, seat) : to \in OnBoard(s.board, Empty)}
  ELSE UNION {UNION {Outcomes([s.board EXCEPT ![from] = Empty], to, seat) : to \in Destinations(s, seat, from)}
              : from \in OnBoard(s.board, seat)}

Occurrences(list, k) == Cardinality({i \in 1 .. Len(list) : list[i] = k})
Here(s) == Key(s.board, s.toMove, s.inHand)

Reduced(s) == {seat \in {0, 1} : OnBoardCount(s.board, seat) + s.inHand[seat] <= 2}

Result(s) ==
  CASE Reduced(s) # {} -> "reduced"
    [] s.phase = "moving" /\ Enumerate(s, s.toMove) = {} -> "blocked"
    [] s.phase = "moving" /\ Occurrences(s.history, Here(s)) >= Repetitions -> "repetition"
    [] s.quiet >= QuietLimit -> "fifty_moves"
    [] OTHER -> "none"

\* A capture makes what was before it unreachable, so the history starts anew.
HistoryAfter(history, k, o) == IF o.removed THEN <<k>> ELSE Append(history, k)

\* The ply that places the last man counts as quiet already.
Apply(o) ==
  LET placing == state.phase = "placing"
      inHand == IF placing THEN [state.inHand EXCEPT ![state.toMove] = @ - 1] ELSE state.inHand
      moving == \A seat \in {0, 1} : inHand[seat] = 0
      k == Key(o.board, 1 - state.toMove, inHand)
  IN  state' = [board |-> o.board, toMove |-> 1 - state.toMove, inHand |-> inHand,
                phase |-> IF moving THEN "moving" ELSE "placing",
                quiet |-> IF ~moving \/ o.milled THEN 0 ELSE state.quiet + 1,
                history |-> IF moving THEN HistoryAfter(state.history, k, o) ELSE <<>>,
                past |-> Append(state.past, k)]

Init == state \in Openings

GoesOn == Len(state.past) < MaxPlies /\ Result(state) = "none"

PlaceMan == GoesOn /\ state.phase = "placing" /\ \E o \in Enumerate(state, state.toMove) : Apply(o)
MoveMan  == GoesOn /\ state.phase = "moving" /\ \E o \in Enumerate(state, state.toMove) : Apply(o)

Next == PlaceMan \/ MoveMan

Spec == Init /\ [][Next]_state

-----------------------------------------------------------------------------

\* Until the game is over the seat to move has a move, while men are placed too.
NeverStuck == Result(state) = "none" => Enumerate(state, state.toMove) # {}

\* The repetitions the draw is decided on are those of the whole game: what
\* the history forgets after a capture cannot come back.
RepetitionsCounted ==
  state.phase = "moving" => Occurrences(state.history, Here(state)) = Occurrences(state.past, Here(state))

=============================================================================
