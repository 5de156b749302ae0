------------------------------- MODULE InARow -------------------------------
(***************************************************************************)
(* Tic-tac-toe and Dropline (games/tictactoe and games/connect_drop): the  *)
(* first seat with Run discs in a line wins, a full board is a draw.  With *)
(* Drops a disc falls to the lowest free cell of its column.               *)
(***************************************************************************)
EXTENDS Integers, FiniteSets

CONSTANTS Columns, Rows, Run, Drops

VARIABLE state

Cell == (1 .. Columns) \X (1 .. Rows)
Empty == 2

Ray(x, d) == {<<x[1] + k * d[1], x[2] + k * d[2]>> : k \in 0 .. Run - 1}
Directions == {<<1, 0>>, <<0, 1>>, <<1, 1>>, <<1, -1>>}

Lines == {l \in {Ray(x, d) : x \in Cell, d \in Directions} : l \subseteq Cell}

Winner(s) == {seat \in {0, 1} : \E l \in Lines : \A x \in l : s.board[x] = seat}
Terminal(s) == Winner(s) # {} \/ s.moveCount >= Columns * Rows

LegalMoves(s) ==
  {x \in Cell : s.board[x] = Empty /\ (Drops => \A r \in 1 .. x[2] - 1 : s.board[<<x[1], r>>] # Empty)}

Init == state = [board |-> [x \in Cell |-> Empty], toMove |-> 0, moveCount |-> 0]

Place(x) ==
  /\ ~Terminal(state) /\ x \in LegalMoves(state)
  /\ state' = [board |-> [state.board EXCEPT ![x] = state.toMove],
               toMove |-> 1 - state.toMove, moveCount |-> state.moveCount + 1]

Next == \E x \in Cell : Place(x)

Spec == Init /\ [][Next]_state

\* At most one seat has a line, and it is the one that moved last: the game
\* never goes on past a line.
LastMoverWins == Winner(state) \subseteq {1 - state.toMove}

=============================================================================
