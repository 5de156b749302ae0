--------------------------------- MODULE Go ---------------------------------
(***************************************************************************)
(* The rules of Go (games/go/rules.ts): capture, suicide where the variant *)
(* allows it, positional superko, and the end after two passes.            *)
(*                                                                         *)
(* The list of hashes is the set of the boards themselves: that two boards *)
(* share a hash is left out.  The captures counted for display and the     *)
(* list of moves are left out, and so is the area score.                   *)
(***************************************************************************)
EXTENDS Integers, FiniteSets

CONSTANTS
  Size, AllowSuicide,
  MaxPlies       \* bound: the plies of a game considered

VARIABLE state

Point == (0 .. Size - 1) \X (0 .. Size - 1)
Enemy(c) == IF c = "B" THEN "W" ELSE "B"

NeighborIndices(x) ==
  {y \in Point : (y[1] - x[1]) * (y[1] - x[1]) + (y[2] - x[2]) * (y[2] - x[2]) = 1}

\* The group of `found`: flooded until nothing is added.
RECURSIVE Flood(_, _)
Flood(board, found) ==
  LET more == {y \in Point : \E x \in found : y \in NeighborIndices(x) /\ board[y] = board[x]}
  IN  IF more \subseteq found THEN found ELSE Flood(board, found \cup more)

CollectGroup(board, x) == Flood(board, {x})
HasLiberty(board, group) == \E x \in group : \E y \in NeighborIndices(x) : board[y] = "."
Lifted(board, stones) == [x \in Point |-> IF x \in stones THEN "." ELSE board[x]]

\* What the enemy loses when x has just been taken.
Captured(board, c, x) ==
  UNION {CollectGroup(board, y) : y \in {z \in NeighborIndices(x) :
           board[z] = Enemy(c) /\ ~HasLiberty(board, CollectGroup(board, z))}}

\* A slip: only the enemy is looked at.
ResolveWithoutSuicide(board, c, x) ==
  LET placed == [board EXCEPT ![x] = c] IN {Lifted(placed, Captured(placed, c, x))}

\* The boards a play at x leads to: none for a suicide that is not allowed.
ResolvePlay(board, c, x) ==
  LET placed == [board EXCEPT ![x] = c]
      lost == Captured(placed, c, x)
      own == CollectGroup(placed, x)
  IN  IF lost # {} THEN {Lifted(placed, lost)}
      ELSE IF HasLiberty(placed, own) THEN {placed}
      ELSE IF AllowSuicide THEN {Lifted(placed, own)} ELSE {}

Init ==
  LET empty == [x \in Point |-> "."]
  IN  state = [board |-> empty, toMove |-> "B", passes |-> 0, seen |-> {empty}, ended |-> FALSE, plies |-> 0]

Play(x) ==
  /\ ~state.ended /\ state.board[x] = "." /\ state.plies < MaxPlies
  /\ \E after \in ResolvePlay(state.board, state.toMove, x) :
       /\ after \notin state.seen
       /\ state' = [state EXCEPT !.board = after, !.toMove = Enemy(@), !.passes = 0,
                                 !.seen = @ \cup {after}, !.plies = @ + 1]

Pass ==
  /\ ~state.ended /\ state.plies < MaxPlies
  /\ state' = [state EXCEPT !.toMove = Enemy(@), !.passes = @ + 1, !.ended = state.passes + 1 >= 2,
                            !.plies = @ + 1]

Next == Pass \/ \E x \in Point : Play(x)

Spec == Init /\ [][Next]_state

\* After every ply each group on the board has a liberty: captures and
\* suicides take whole groups, and all of them.
GroupsBreathe ==
  \A x \in Point : state.board[x] # "." => HasLiberty(state.board, CollectGroup(state.board, x))

=============================================================================
