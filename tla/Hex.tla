--------------------------------- MODULE Hex --------------------------------
(***************************************************************************)
(* The rules of Hex (games/hex/rules.ts).  Seat 0 connects the first row   *)
(* to the last, seat 1 the first column to the last; seat 1 may take the   *)
(* first stone over instead of answering it.  The union-find of the code   *)
(* is the set of cells reached from an edge.                               *)
(***************************************************************************)
EXTENDS Integers, FiniteSets

CONSTANT Size

VARIABLE state

Cell == (0 .. Size - 1) \X (0 .. Size - 1)    \* <<column, row>>
Empty == 2

\* The six neighbours of a cell.
Deltas == {<<-1, 0>>, <<1, 0>>, <<0, -1>>, <<0, 1>>, <<1, -1>>, <<-1, 1>>}

Neighbors(x) == {y \in Cell : <<y[1] - x[1], y[2] - x[2]>> \in Deltas}

RECURSIVE Reach(_, _)
Reach(cells, found) ==
  LET more == cells \cap UNION {Neighbors(x) : x \in found}
  IN  IF more \subseteq found THEN found ELSE Reach(cells, found \cup more)

\* A seat's own edges: its first and its last line.
Along(seat, x) == IF seat = 0 THEN x[2] ELSE x[1]
Connects(board, seat) ==
  LET mine == {x \in Cell : board[x] = seat}
  IN  \E x \in Reach(mine, {y \in mine : Along(seat, y) = 0}) : Along(seat, x) = Size - 1

HexWinner(s) == {seat \in {0, 1} : Connects(s.board, seat)}

Init == state = [board |-> [x \in Cell |-> Empty], toMove |-> 0, moveCount |-> 0, swapUsed |-> FALSE]

Place(x) ==
  /\ HexWinner(state) = {} /\ state.board[x] = Empty
  /\ state' = [state EXCEPT !.board[x] = state.toMove, !.toMove = 1 - @, !.moveCount = @ + 1]

SwapAvailable(s) == s.moveCount = 1 /\ s.toMove = 1 /\ ~s.swapUsed

Swap ==
  /\ HexWinner(state) = {} /\ SwapAvailable(state)
  /\ state' = [board |-> [x \in Cell |-> IF state.board[x] = 0 THEN 1 ELSE state.board[x]],
               toMove |-> 0, moveCount |-> 2, swapUsed |-> TRUE]

Next == Swap \/ \E x \in Cell : Place(x)

Spec == Init /\ [][Next]_state

\* No draw: never do both sides connect, and on a full board one does.
OneSideConnects ==
  /\ Cardinality(HexWinner(state)) <= 1
  /\ HexWinner(state) = {} => \E x \in Cell : state.board[x] = Empty

=============================================================================
