------------------------------- MODULE Reversi ------------------------------
(***************************************************************************)
(* The rules of Reversi (games/reversi/rules.ts and index.ts): a disc must *)
(* flank, whoever cannot must pass, and two passes end the game.           *)
(***************************************************************************)
EXTENDS Integers, FiniteSets

CONSTANTS
  Size,
  FirstCells  \* bound: the first discs considered, the others mirror them

VARIABLE state

Cell == (1 .. Size) \X (1 .. Size)
Empty == 2
Dirs == (-1 .. 1) \X (-1 .. 1) \ {<<0, 0>>}

Init ==
  LET h == Size \div 2
      first == [x \in Cell |-> IF x \in {<<h, h>>, <<h + 1, h + 1>>} THEN 1
                               ELSE IF x \in {<<h, h + 1>>, <<h + 1, h>>} THEN 0 ELSE Empty]
  IN  state = [board |-> first, toMove |-> 0, passes |-> 0]

\* The discs of the other seat between x and the next own disc, every way.
FlipsFor(board, x, seat) ==
  LET at(d, k) == <<x[1] + k * d[1], x[2] + k * d[2]>>
      reaches(d) == {n \in 1 .. Size - 2 : /\ at(d, n + 1) \in Cell /\ board[at(d, n + 1)] = seat
                                           /\ \A k \in 1 .. n : board[at(d, k)] = 1 - seat}
      flanked(d) == UNION {{at(d, k) : k \in 1 .. n} : n \in reaches(d)}
  IN  IF board[x] # Empty THEN {} ELSE UNION {flanked(d) : d \in Dirs}

FlankingMoves(board, seat) == {x \in Cell : FlipsFor(board, x, seat) # {}}

Terminal(s) == s.passes >= 2 \/ \A x \in Cell : s.board[x] # Empty

Place(x) ==
  /\ ~Terminal(state)
  /\ Cardinality({y \in Cell : state.board[y] # Empty}) = 4 => x \in FirstCells
  /\ LET flips == FlipsFor(state.board, x, state.toMove) IN
     /\ flips # {}
     /\ state' = [board |-> [y \in Cell |-> IF y \in flips \cup {x} THEN state.toMove ELSE state.board[y]],
                  toMove |-> 1 - state.toMove, passes |-> 0]

Pass ==
  /\ ~Terminal(state) /\ FlankingMoves(state.board, state.toMove) = {}
  /\ state' = [state EXCEPT !.toMove = 1 - @, !.passes = @ + 1]

Next == Pass \/ \E x \in Cell : Place(x)

Spec == Init /\ [][Next]_state

\* The game stops early only where neither seat could place another disc.
EndsWhenNobodyCanFlank ==
  state.passes >= 2 => \A seat \in {0, 1} : FlankingMoves(state.board, seat) = {}

=============================================================================
