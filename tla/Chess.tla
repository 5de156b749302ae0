------------------------------- MODULE Chess -------------------------------
(***************************************************************************)
(* The rules of chess (games/chess/rules.ts): attacks, pseudo-legal moves  *)
(* and the test of the king, castling, en passant, promotion, and the      *)
(* draws.  A square is <<file, rank>>, a board a function on the squares   *)
(* that are occupied, a castling right <<color, side>>.  SAN, FEN and the  *)
(* packing of squares and moves into integers are left out.                *)
(*                                                                         *)
(* `past` counts every position of the game by what can be played in it;   *)
(* the code counts since the last irreversible move, by its own key.       *)
(***************************************************************************)
EXTENDS Integers, FiniteSets, FiniteSetsExt, Bags

CONSTANTS
  HalfmoveLimit, Repetitions,   \* 100 and 3
  Openings,                     \* the positions a game is taken up from
  MaxPlies                      \* bound: the plies of a game considered

VARIABLE state

Square == (1 .. 8) \X (1 .. 8)
Piece(c, k) == [color |-> c, kind |-> k]
Other(c) == IF c = "w" THEN "b" ELSE "w"
Fwd(c) == IF c = "w" THEN 1 ELSE -1

KnightSteps == ({-1, 1} \X {-2, 2}) \cup ({-2, 2} \X {-1, 1})
BishopSteps == {-1, 1} \X {-1, 1}
RookSteps == ({0} \X {-1, 1}) \cup ({-1, 1} \X {0})
KingSteps == BishopSteps \cup RookSteps
Steps(kind) ==
  CASE kind = "knight" -> KnightSteps [] kind = "bishop" -> BishopSteps
    [] kind = "rook" -> RookSteps [] OTHER -> KingSteps
Slides(kind) == kind \in {"bishop", "rook", "queen"}

At(x, d, k) == <<x[1] + k * d[1], x[2] + k * d[2]>>
Free(board, x) == x \in Square /\ x \notin DOMAIN board
Has(board, x, c) == x \in DOMAIN board /\ board[x].color = c
Holds(board, x, p) == x \in DOMAIN board /\ board[x] = p

\* The squares of a ray, up to the first one with a piece.
Ray(board, x, d) ==
  {At(x, d, k) : k \in {n \in 1 .. 7 : At(x, d, n) \in Square /\ \A j \in 1 .. n - 1 : Free(board, At(x, d, j))}}

Dist(x, y) == Max({x[1] - y[1], y[1] - x[1], x[2] - y[2], y[2] - x[2]})
Sees(board, x, y, steps) ==
  \E d \in steps : At(x, d, Dist(x, y)) = y /\ \A k \in 1 .. Dist(x, y) - 1 : Free(board, At(x, d, k))

\* attacked: is there a piece of that color which x is in reach of?
Attacked(board, x, by) ==
  \E y \in DOMAIN board :
    LET kind == board[y].kind IN
    /\ board[y].color = by
    /\ CASE kind = "pawn" -> \E f \in {-1, 1} : x = At(y, <<f, Fwd(by)>>, 1)
         [] Slides(kind) -> Sees(board, x, y, Steps(kind))
         [] OTHER -> \E d \in Steps(kind) : x = At(y, d, 1)

KingSq(board, c) == CHOOSE x \in DOMAIN board : board[x] = Piece(c, "king")
InCheck(board, c) == Attacked(board, KingSq(board, c), Other(c))

-----------------------------------------------------------------------------
(* make: a position is [board, turn, castling, ep, halfmove].              *)

Home(c) == IF c = "w" THEN 1 ELSE 8
KingHome(c) == <<5, Home(c)>>
RookHome(c, side) == <<IF side = "K" THEN 8 ELSE 1, Home(c)>>
Rights == {"w", "b"} \X {"K", "Q"}
None == <<0, 0>>

\* The rights that a piece leaving or entering a square costs.
Lost(x) == {r \in Rights : x \in {KingHome(r[1]), RookHome(r[1], r[2])}}

\* Where a captured piece stands, if any.
Captured(s, m) ==
  IF s.board[m.from].kind = "pawn" /\ m.to = s.ep /\ Free(s.board, m.to)
  THEN {At(m.to, <<0, -Fwd(s.turn)>>, 1)} ELSE {m.to} \cap DOMAIN s.board

\* A king that goes two files takes its rook along.
RookHops(s, m) ==
  LET by == m.to[1] - m.from[1]
  IN  IF s.board[m.from].kind # "king" \/ by \notin {-2, 2} THEN {}
      ELSE IF by = 2 THEN {<<8, 6>>} ELSE {<<1, 4>>}

Moved(s, m) ==
  LET p     == s.board[m.from]
      home  == Home(s.turn)
      hops  == RookHops(s, m)
      kept  == DOMAIN s.board \ (Captured(s, m) \cup {m.from} \cup {<<h[1], home>> : h \in hops})
      rooks == {<<h[2], home>> : h \in hops}
  IN  [x \in kept \cup {m.to} \cup rooks |->
         IF x = m.to THEN IF m.promo = "none" THEN p ELSE Piece(s.turn, m.promo)
         ELSE IF x \in rooks THEN Piece(s.turn, "rook") ELSE s.board[x]]

Make(s, m) ==
  LET pawn == s.board[m.from].kind = "pawn"
      twice == pawn /\ m.to = At(m.from, <<0, Fwd(s.turn)>>, 2)
  IN  [board |-> Moved(s, m), turn |-> Other(s.turn),
       castling |-> s.castling \ (Lost(m.from) \cup Lost(m.to)),
       ep |-> IF twice THEN At(m.from, <<0, Fwd(s.turn)>>, 1) ELSE None,
       halfmove |-> IF pawn \/ Captured(s, m) # {} THEN 0 ELSE s.halfmove + 1]

-----------------------------------------------------------------------------
(* genPseudo, genLegal.                                                    *)

Promotions(c, y) ==
  IF y[2] = Home(Other(c)) THEN {"knight", "bishop", "rook", "queen"} ELSE {"none"}

PawnTargets(s, x) ==
  LET c     == s.turn
      one   == At(x, <<0, Fwd(c)>>, 1)
      two   == At(x, <<0, Fwd(c)>>, 2)
      sides == {At(x, <<f, Fwd(c)>>, 1) : f \in {-1, 1}} \cap Square
  IN  {y \in {one} : Free(s.board, y)}
      \cup {y \in {two} : x[2] = Home(c) + Fwd(c) /\ Free(s.board, one) /\ Free(s.board, y)}
      \cup {y \in sides : Has(s.board, y, Other(c)) \/ (y = s.ep /\ Free(s.board, y))}

PieceTargets(s, x) ==
  LET kind == s.board[x].kind
      reach(d) == IF Slides(kind) THEN Ray(s.board, x, d) ELSE {At(x, d, 1)} \cap Square
  IN  {y \in UNION {reach(d) : d \in Steps(kind)} : ~Has(s.board, y, s.turn)}

\* King and rook at home, nothing between them, and nothing attacks the
\* squares the king passes.
Castles(s) ==
  LET c == s.turn
      between(side) == (IF side = "K" THEN 6 .. 7 ELSE 2 .. 4) \X {Home(c)}
      path(side) == (IF side = "K" THEN 5 .. 7 ELSE 3 .. 5) \X {Home(c)}
      free(side) ==
        /\ Holds(s.board, KingHome(c), Piece(c, "king")) /\ Holds(s.board, RookHome(c, side), Piece(c, "rook"))
        /\ \A y \in between(side) : Free(s.board, y)
        /\ \A y \in path(side) : ~Attacked(s.board, y, Other(c))
  IN  {[from |-> KingHome(c), to |-> <<IF side = "K" THEN 7 ELSE 3, Home(c)>>, promo |-> "none"] :
         side \in {z \in {"K", "Q"} : <<c, z>> \in s.castling /\ free(z)}}

GenPseudo(s) ==
  LET targets(x) == IF s.board[x].kind = "pawn" THEN PawnTargets(s, x) ELSE PieceTargets(s, x)
      promos(x, y) == IF s.board[x].kind = "pawn" THEN Promotions(s.turn, y) ELSE {"none"}
      moves(x) == UNION {{[from |-> x, to |-> y, promo |-> q] : q \in promos(x, y)} : y \in targets(x)}
  IN  UNION {moves(x) : x \in {y \in DOMAIN s.board : Has(s.board, y, s.turn)}} \cup Castles(s)

GenLegal(s) == {m \in GenPseudo(s) : ~InCheck(Moved(s, m), s.turn)}

\* The legal captures en passant.
EpCaptures(s) ==
  {m \in GenLegal(s) : s.board[m.from].kind = "pawn" /\ m.to = s.ep /\ Free(s.board, m.to)}

-----------------------------------------------------------------------------
(* stateFromPos, terminalOf.                                               *)

PosKey(s) == <<s.board, s.turn, s.castling, s.ep>>
Playable(s) == <<s.board, s.turn, s.castling, EpCaptures(s)>>

\* The target of a double step is kept only if it can really be captured.
Normalized(pos) == [pos EXCEPT !.ep = IF EpCaptures(pos) = {} THEN None ELSE @]

StateFromPos(pos, reps) ==
  LET s == Normalized(pos)
      base == IF s.halfmove = 0 THEN EmptyBag ELSE reps
  IN  [board |-> s.board, turn |-> s.turn, castling |-> s.castling, ep |-> s.ep, halfmove |-> s.halfmove,
       reps |-> base (+) SetToBag({PosKey(s)})]

InsufficientMaterial(s) ==
  LET men == {x \in DOMAIN s.board : s.board[x].kind # "king"}
      kind(x) == s.board[x].kind
      shade(x) == (x[1] + x[2]) % 2
  IN  /\ \A x \in men : kind(x) \in {"bishop", "knight"}
      /\ \/ Cardinality(men) <= 1
         \/ /\ Cardinality(men) = 2 /\ \A x \in men : kind(x) = "bishop"
            /\ \A x, y \in men : shade(x) = shade(y) /\ (x # y => s.board[x].color # s.board[y].color)

\* Mate and stalemate come first.
TerminalOf(s) ==
  IF GenLegal(s) = {} THEN IF InCheck(s.board, s.turn) THEN "checkmate" ELSE "stalemate"
  ELSE IF InsufficientMaterial(s) THEN "insufficient_material"
  ELSE IF CopiesIn(PosKey(s), s.reps) >= Repetitions THEN "threefold_repetition"
  ELSE IF s.halfmove >= HalfmoveLimit THEN "fifty_move_rule"
  ELSE "none"

-----------------------------------------------------------------------------

Started(opening) ==
  LET pos == [board |-> opening.pieces, turn |-> opening.turn, castling |-> opening.castling,
              ep |-> None, halfmove |-> 0]
  IN  [game |-> StateFromPos(pos, EmptyBag), past |-> SetToBag({Playable(pos)}), plies |-> opening.ply]

Init == state \in {Started(o) : o \in Openings}

Move ==
  /\ state.plies < MaxPlies /\ TerminalOf(state.game) = "none"
  /\ \E m \in GenLegal(state.game) :
       LET next == StateFromPos(Make(state.game, m), state.game.reps)
       IN  state' = [game |-> next, past |-> state.past (+) SetToBag({Playable(next)}), plies |-> state.plies + 1]

Next == Move
Spec == Init /\ [][Next]_state

-----------------------------------------------------------------------------
\* The repetitions a draw is decided on are those of the whole game, where two
\* positions are the same if the same can be played in them.
RepetitionsCounted == CopiesIn(PosKey(state.game), state.game.reps) = CopiesIn(Playable(state.game), state.past)

\* Attacks and moves agree: a king is in check just when a move takes it, and
\* whoever moved is not.  A castling right means king and rook never moved.
PositionInOrder ==
  LET g == state.game
      takes(c) == \E m \in GenPseudo([g EXCEPT !.turn = c, !.ep = None]) : m.to = KingSq(g.board, Other(c))
  IN  /\ \A c \in {"w", "b"} : InCheck(g.board, c) <=> takes(Other(c))
      /\ ~InCheck(g.board, Other(g.turn))
      /\ \A r \in g.castling : /\ Holds(g.board, KingHome(r[1]), Piece(r[1], "king"))
                               /\ Holds(g.board, RookHome(r[1], r[2]), Piece(r[1], "rook"))
=============================================================================
