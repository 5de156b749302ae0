------------------------------ MODULE Checkers ------------------------------
(***************************************************************************)
(* The rules of draughts (games/checkers/rules.ts) in its two variants:    *)
(* English, where men jump forward only and stop on the crowning row, and  *)
(* International, with flying kings and the longest capture mandatory.     *)
(*                                                                         *)
(* A square is <<row, column>>, row 0 at the top; black moves down.  A     *)
(* piece is [color, king].  `past` counts every position of the game; the  *)
(* code does not keep it.                                                  *)
(***************************************************************************)
EXTENDS Integers, FiniteSets, Sequences, SequencesExt

CONSTANTS
  Variant,          \* "english" or "international"
  BoardSize, MenRows, QuietLimit, Repetitions,
  MaxPlies          \* bound: the plies of a game considered

VARIABLE state

English == Variant = "english"
Square == {x \in (0 .. BoardSize - 1) \X (0 .. BoardSize - 1) : (x[1] + x[2]) % 2 = 1}
None == [color |-> "none", king |-> FALSE]
Dead == [color |-> "dead", king |-> FALSE]   \* jumped already in this chain
Other(c) == IF c = "b" THEN "w" ELSE "b"

Diags == {-1, 1} \X {-1, 1}
Forward(c) == {d \in Diags : d[1] = IF c = "b" THEN 1 ELSE -1}
CrowningRow(c) == IF c = "b" THEN BoardSize - 1 ELSE 0
At(x, d, k) == <<x[1] + k * d[1], x[2] + k * d[2]>>

\* The squares of a ray before anything stands on it.
Free(board, x, d) ==
  {k \in 1 .. BoardSize : \A j \in 1 .. k : At(x, d, j) \in Square /\ board[At(x, d, j)] = None}

Flying(piece) == piece.king /\ ~English

\* The jumps from x: over one live enemy, onto a free square beyond it.
CaptureSteps(board, x, piece) ==
  LET dirs == IF ~piece.king /\ English THEN Forward(piece.color) ELSE Diags
      before(d) == IF Flying(piece) THEN Cardinality(Free(board, x, d)) ELSE 0
      over(d) == At(x, d, before(d) + 1)
      lands(d) == IF Flying(piece) THEN Free(board, over(d), d) ELSE Free(board, over(d), d) \cap {1}
      jumps(d) == {[over |-> over(d), land |-> At(over(d), d, k)] : k \in lands(d)}
  IN  UNION {jumps(d) : d \in {e \in dirs : over(e) \in Square /\ board[over(e)].color = Other(piece.color)}}

\* The captures from x on, each as far as it goes: what is taken, and where
\* the piece ends.  A man that reaches the crowning row stops there in the
\* English game and goes on uncrowned in the International one.
RECURSIVE Chains(_, _, _, _)
Chains(board, x, piece, taken) ==
  LET steps == CaptureSteps(board, x, piece)
      after(s) == [board EXCEPT ![x] = None, ![s.over] = Dead, ![s.land] = piece]
      stops(s) == English /\ ~piece.king /\ s.land[1] = CrowningRow(piece.color)
  IN  IF steps = {} THEN IF taken = {} THEN {} ELSE {[to |-> x, taken |-> taken]}
      ELSE UNION {IF stops(s) THEN {[to |-> s.land, taken |-> taken \cup {s.over}]}
                  ELSE Chains(after(s), s.land, piece, taken \cup {s.over}) : s \in steps}

QuietMoves(board, x) ==
  LET piece == board[x]
      dirs == IF piece.king THEN Diags ELSE Forward(piece.color)
      far(d) == IF Flying(piece) THEN Free(board, x, d) ELSE Free(board, x, d) \cap {1}
  IN  UNION {{[to |-> At(x, d, k), taken |-> {}] : k \in far(d)} : d \in dirs}

\* Captures are mandatory, the longest of them in the International game.
EnumerateMoves(s) ==
  LET mine == {x \in Square : s.board[x].color = s.toMove}
      from(S, x) == {[from |-> x, to |-> m.to, taken |-> m.taken] : m \in S}
      captures == UNION {from(Chains(s.board, x, s.board[x], {}), x) : x \in mine}
      longest == {m \in captures : \A n \in captures : Cardinality(n.taken) <= Cardinality(m.taken)}
  IN  IF captures # {} THEN (IF English THEN captures ELSE longest)
      ELSE UNION {from(QuietMoves(s.board, x), x) : x \in mine}

Times(counts, k) == IF k \in DOMAIN counts THEN counts[k] ELSE 0
Counted(counts, k) == [j \in DOMAIN counts \cup {k} |-> Times(counts, j) + (IF j = k THEN 1 ELSE 0)]
Fresh(k) == [j \in {k} |-> 1]
Here(s) == <<s.board, s.toMove>>

Result(s) ==
  CASE Times(s.rep, Here(s)) >= Repetitions -> "threefold_repetition"
    [] s.quietClock >= QuietLimit -> "forty_move_rule"
    [] EnumerateMoves(s) = {} -> "no_moves"
    [] OTHER -> "none"

\* A capture or the move of a man cannot be undone.
Irreversible(m, piece) == m.taken # {} \/ ~piece.king
\* A slip: nothing but the crown is looked at, the wrong way round.
IrreversibleCrown(m, piece) == m.taken # {} \/ piece.king

ForGood(m, piece) == Irreversible(m, piece)

Move ==
  /\ Result(state) = "none" /\ state.moveCount < MaxPlies
  /\ \E m \in EnumerateMoves(state) :
       LET piece   == state.board[m.from]
           crowned == ~piece.king /\ m.to[1] = CrowningRow(piece.color)
           left    == [x \in Square |-> IF x \in m.taken \cup {m.from} THEN None ELSE state.board[x]]
           board   == [left EXCEPT ![m.to] = [piece EXCEPT !.king = @ \/ crowned]]
           k       == <<board, Other(state.toMove)>>
       IN  state' = [board |-> board, toMove |-> Other(state.toMove),
                     quietClock |-> IF ForGood(m, piece) THEN 0 ELSE state.quietClock + 1,
                     moveCount |-> state.moveCount + 1,
                     rep |-> IF ForGood(m, piece) THEN Fresh(k) ELSE Counted(state.rep, k),
                     past |-> Counted(state.past, k)]

InitialState ==
  LET man(c) == [color |-> c, king |-> FALSE]
      board == [x \in Square |-> IF x[1] < MenRows THEN man("b")
                                 ELSE IF x[1] >= BoardSize - MenRows THEN man("w") ELSE None]
      toMove == IF English THEN "b" ELSE "w"
  IN  [board |-> board, toMove |-> toMove, quietClock |-> 0, moveCount |-> 0,
       rep |-> Fresh(<<board, toMove>>), past |-> Fresh(<<board, toMove>>)]

Init == state = InitialState

Next == Move

Spec == Init /\ [][Next]_state

-----------------------------------------------------------------------------

\* The repetitions the draw is decided on are those of the whole game: no
\* position before a capture or the move of a man comes back after it.
RepetitionsCounted == Times(state.rep, Here(state)) = Times(state.past, Here(state))

=============================================================================
