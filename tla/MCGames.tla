------------------------------ MODULE MCGames ------------------------------
(***************************************************************************)
(* Every game of the catalogue that is modelled, on a small board.  A      *)
(* behaviour plays one of them: `part` says which.                         *)
(*                                                                         *)
(* Werewolf: three seats with all that a room may ask of the rules, four   *)
(* seats over two days, and five seats with two wolves that talk for two   *)
(* rounds; a seat may abandon the game.  Landlord: ten spaces, a street of *)
(* one deed under a hotel and a street of two, no building left in the     *)
(* bank; with trades, or with rents, detention and auctions.  Islanders:   *)
(* three hexes in a row, from a handful of positions of the middle game,   *)
(* and the end of the setup.  The boards are as small as their rules       *)
(* allow.                                                                  *)
(***************************************************************************)
EXTENDS Integers, FiniteSets, Sequences, FiniteSetsExt, TLC

VARIABLES part, state

-----------------------------------------------------------------------------
(* Werewolf.                                                               *)

Deal(roles) == [p \in 0 .. Len(roles) - 1 |-> roles[p + 1]]

Spoken == [call : {[t |-> "guard", target |-> 0], [t |-> "none", target |-> 3]}, seat : {1, 3}]
Sent == [by : {"notation"}, arg : Spoken, draw_offer : {FALSE}]
Minute == [phase \in {"night", "day_talk", "day_defense", "day_vote", "over"} |-> 1]

W3 == INSTANCE WerewolfTable WITH
  SeatCount <- 3, Deals <- {Deal(<<"villager", "werewolf", "doctor">>)},
  TalkRounds <- 1, DayLimit <- 1, MaxSteps <- 2, Suspects <- {0, 1}, MaxForfeits <- 1,
  Submission <- Sent, Budget <- Minute, None <- [none |-> TRUE]
W4 == INSTANCE WerewolfTable WITH
  SeatCount <- 4, Deals <- {Deal(<<"villager", "werewolf", "doctor", "villager">>)},
  TalkRounds <- 1, DayLimit <- 2, MaxSteps <- 2, Suspects <- {0, 1}, MaxForfeits <- 1,
  Submission <- {}, Budget <- Minute, None <- [none |-> TRUE]
W5 == INSTANCE WerewolfTable WITH
  SeatCount <- 5, Deals <- {Deal(<<"doctor", "werewolf", "seer", "werewolf", "villager">>)},
  TalkRounds <- 2, DayLimit <- 1, MaxSteps <- 2, Suspects <- {1}, MaxForfeits <- 1,
  Submission <- {}, Budget <- Minute, None <- [none |-> TRUE]
ASSUME WerewolfTables == W3!WerewolfAssumption /\ W4!WerewolfAssumption /\ W5!WerewolfAssumption

-----------------------------------------------------------------------------
(* Landlord.  Constants take the values of the same names here.            *)

Space(kind, prop, tax) == [kind |-> kind, prop |-> prop, tax |-> tax]
Board ==
  << Space("start", "none", 0), Space("street", "s1", 0), Space("free_rest", "none", 0),
     Space("event_a", "none", 0), Space("detention", "none", 0), Space("street", "t1", 0),
     Space("street", "t2", 0), Space("tax", "none", 1200), Space("free_rest", "none", 0),
     Space("go_to_detention", "none", 0) >>
Yard == 4
Street(g) == [kind |-> "street", group |-> g, price |-> 1000, rent |-> <<100, 500, 1000>>, houseCost |-> 200]
Deeds == "s1" :> Street("umber") @@ "t1" :> Street("sky") @@ "t2" :> Street("sky")
TransitRent == <<5>>
UtilityMult == <<4>>
Cards ==
  "evA06" :> [deck |-> "A", k |-> "writ", n |-> 0, hotel |-> 0] @@
  "evA13" :> [deck |-> "A", k |-> "pay_each", n |-> 300, hotel |-> 0]
HousesPerHotel == 1
HouseSupply == 2
HotelSupply == 1
Salary == 100
Fine == 100
BidStep == 500
AuctionRounds == 2
TurnLimit == 1

OfferSide(cash, props, writs) == [cash |-> cash, props |-> props, writs |-> writs]
Sides == {OfferSide(0, {}, 0), OfferSide(500, {}, 0), OfferSide(0, {"t1"}, 0)}

Estate(owner, houses, house, hotel) ==
  [cash |-> [p \in 0 .. 1 |-> 300], pos |-> [p \in 0 .. 1 |-> 0], detained |-> [p \in 0 .. 1 |-> FALSE],
   detTries |-> [p \in 0 .. 1 |-> 0], writs |-> [p \in 0 .. 1 |-> <<>>],
   bankrupt |-> [p \in 0 .. 1 |-> FALSE], owner |-> owner, houses |-> houses,
   mortgaged |-> [x \in DOMAIN Deeds |-> FALSE], housePool |-> house, hotelPool |-> hotel,
   decks |-> "A" :> <<"evA06", "evA13">>, phase |-> "roll", current |-> 0, round |-> 1,
   doubles |-> 0, rolledDouble |-> FALSE, dice |-> 0, pendingProp |-> "none",
   auction |-> [prop |-> "none"], offer |-> [to |-> 2, from |-> 2], offersMade |-> 0,
   payments |-> <<>>, bankQueue |-> <<>>, after |-> "manage", pendingMove |-> 0]
Each(a, b, c) == "s1" :> a @@ "t1" :> b @@ "t2" :> c

\* A hotel against a built-up street, and half of either street.
Estates == {Estate(Each(0, 1, 1), Each(2, 1, 1), 0, 0), Estate(Each(0, 1, 2), Each(0, 0, 0), 2, 1)}
\* Player 0 detained for two turns, holding a writ.
Detained ==
  {[s EXCEPT !.detained[0] = TRUE, !.detTries[0] = 2, !.pos[0] = Yard, !.writs[0] = <<"evA06">>,
             !.decks["A"] = <<"evA13">>] : s \in Estates}
\* The last turn of a game, by a player who can pay for the bank's last deed.
Wealthy ==
  [Estate(Each(0, 1, 2), Each(0, 0, 0), 2, 1) EXCEPT
     !.current = 1, !.detained[1] = TRUE, !.pos[1] = Yard, !.cash[0] = 500, !.cash[1] = 1100]

Trades == INSTANCE Landlord WITH
  PlayerCount <- 2, MaxOffers <- 1, Dice <- {<<1, 2>>}, Bundles <- Sides, Openings <- Estates
Rents == INSTANCE Landlord WITH
  PlayerCount <- 2, MaxOffers <- 0, Dice <- {<<1, 1>>, <<1, 2>>},
  Bundles <- Sides \cup {OfferSide(0, {}, 1)}, Openings <- {Wealthy} \cup Detained

-----------------------------------------------------------------------------
(* Islanders: hexes B, A and C in a row, the raider on the dunes of C.     *)

Vertex == {"a", "b", "c", "d", "e", "f", "g", "h", "i", "j", "k", "l", "m", "n"}
Edge == {{"a", "b"}, {"b", "c"}, {"c", "d"}, {"d", "e"}, {"e", "f"}, {"f", "a"},
         {"c", "g"}, {"g", "h"}, {"h", "i"}, {"i", "j"}, {"j", "d"},
         {"a", "k"}, {"k", "l"}, {"l", "m"}, {"m", "n"}, {"n", "f"}}
Hex == {"A", "B", "C"}
HexVertices ==
  "A" :> {"a", "b", "c", "d", "e", "f"} @@ "B" :> {"c", "g", "h", "i", "j", "d"} @@ "C" :> {"a", "k", "l", "m", "n", "f"}
Terrain == "A" :> "palm" @@ "B" :> "taro" @@ "C" :> "none"
Token == "A" :> 6 @@ "B" :> 5 @@ "C" :> 0
Harbor == {"h", "i"} :> "palm"
Resource == {"palm", "taro"}
Goods(x, y) == "palm" :> x @@ "taro" :> y
RoadCost == Goods(1, 0)
VillageCost == Goods(1, 1)
CityCost == Goods(0, 2)
CardCost == Goods(1, 1)
BankPerResource == 4
Supply == [roads |-> 4, villages |-> 2, cities |-> 1]
HandLimit == 2
LongRoad == 3
LargeArmy == 1
WinPoints == 5

Fresh == INSTANCE Islanders WITH PlayerCount <- 3, MaxOffers <- 0, RoundLimit <- 0, Rolls <- {}, Openings <- {}

OwnerIn(lots, x) == IF \E p \in 0 .. 2 : x \in lots[p + 1] THEN CHOOSE p \in 0 .. 2 : x \in lots[p + 1] ELSE 3
Placed(villages, roads) ==
  [Fresh!InitialState(<<"landmark">>, "C") EXCEPT
     !.villages = [v \in Vertex |-> OwnerIn(villages, v)],
     !.roads = [e \in Edge |-> OwnerIn(roads, e)],
     !.supply = [p \in 0 .. 2 |-> [@[p] EXCEPT !.villages = @ - Cardinality(villages[p + 1]),
                                               !.roads = @ - Cardinality(roads[p + 1])]]]
Dealt(s, hands) ==
  [s EXCEPT !.hands = [p \in 0 .. 2 |-> hands[p + 1]],
            !.bank = [r \in Resource |-> BankPerResource - hands[1][r] - hands[2][r] - hands[3][r]]]

\* The last two villages of the setup are to come.
SetupEnd ==
  [Placed(<<{"a"}, {"e"}, {"h", "c"}>>, <<{{"a", "b"}}, {{"d", "e"}}, {{"h", "i"}, {"c", "g"}}>>) EXCEPT
     !.setupMoves = 8, !.currentSeat = 1]

\* Seat 1 holds the longest road, across the junctions c and d.
Midgame(turn, more) ==
  [Placed(<<{"h"}, {"e"}, {"a"}>>,
          <<{{"h", "i"}, {"i", "j"}} \cup more, {{"d", "e"}, {"d", "c"}, {"c", "g"}}, {{"a", "b"}, {"b", "c"}}>>) EXCEPT
     !.phase = "main", !.setupMoves = 12, !.turn = turn, !.currentSeat = turn - 1, !.longestRoadHolder = 1]
NoTrade(s) == [s EXCEPT !.offersMade = 1]

Midgames ==
  \* A village at c cuts the longest road; with one more road another seat takes it.
  {Dealt(Midgame(3, more), <<Goods(0, 1), Goods(1, 0), Goods(2, 1)>>) : more \in {{}, {{"j", "d"}}}} \cup
  { \* A seven with hands over the limit.
    Dealt(NoTrade(Midgame(2, {})), <<Goods(2, 1), Goods(1, 0), Goods(1, 2)>>),
    \* The bank cannot pay everybody.
    Dealt(NoTrade(Midgame(2, {})), <<Goods(1, 2), Goods(0, 0), Goods(0, 2)>>),
    \* Trades with the bank at a harbor.
    Dealt(NoTrade(Midgame(3, {})), <<Goods(0, 0), Goods(0, 0), Goods(4, 0)>>),
    \* One card of each kind, and the largest army to be had.
    Dealt([NoTrade(Midgame(3, {})) EXCEPT
             !.progress[2] = [c \in DOMAIN @ |-> IF c = "landmark" THEN 0 ELSE 1],
             !.warriors = [p \in 0 .. 2 |-> IF p = 1 THEN 0 ELSE 1], !.largestArmyHolder = 0],
          <<Goods(1, 1), Goods(1, 0), Goods(1, 0)>>) }

Middle == INSTANCE Islanders WITH
  PlayerCount <- 3, MaxOffers <- 1, RoundLimit <- 1, Rolls <- {5, 6, 7}, Openings <- Midgames
Setup == INSTANCE Islanders WITH
  PlayerCount <- 3, MaxOffers <- 0, RoundLimit <- 0, Rolls <- {6, 7}, Openings <- {SetupEnd}

-----------------------------------------------------------------------------
(* The two-player boards.  Morris: nine points, three men each, one of     *)
(* each still in hand.                                                     *)

Points == 1 .. 9
Lines == {{1, 2}, {2, 3}, {4, 5}, {5, 6}, {7, 8}, {8, 9}, {1, 4}, {4, 7}, {2, 5}, {5, 8}, {3, 6}, {6, 9}}
Mills == {{1, 2, 3}, {4, 5, 6}, {7, 8, 9}, {1, 4, 7}, {2, 5, 8}, {3, 6, 9}}
QuietLimit == 6
Repetitions == 2
LastMen ==
  [board |-> <<0, 1, 0, 1, 0, 1, 2, 2, 2>>, toMove |-> 0, inHand |-> [s \in {0, 1} |-> 1],
   phase |-> "placing", quiet |-> 0, history |-> <<>>, past |-> <<>>]

GoBoard == INSTANCE Go WITH Size <- 2, AllowSuicide <- TRUE, MaxPlies <- 9
HexBoard == INSTANCE Hex WITH Size <- 3
Othello == INSTANCE Reversi WITH Size <- 4, FirstCells <- {<<2, 1>>}
TicTacToe == INSTANCE InARow WITH Columns <- 3, Rows <- 3, Run <- 3, Drops <- FALSE
Dropline == INSTANCE InARow WITH Columns <- 3, Rows <- 3, Run <- 3, Drops <- TRUE
Men == INSTANCE Morris WITH MaxPlies <- 8, Openings <- {LastMen}
English == INSTANCE Checkers WITH Variant <- "english", BoardSize <- 4, MenRows <- 1, MaxPlies <- 14
International == INSTANCE Checkers WITH Variant <- "international", BoardSize <- 4, MenRows <- 1, MaxPlies <- 14

-----------------------------------------------------------------------------
(* Chess, from positions of few pieces.                                    *)

White(k) == [color |-> "w", kind |-> k]
Black(k) == [color |-> "b", kind |-> k]
Opening(pieces, castling, plies) == [pieces |-> pieces, turn |-> "w", castling |-> castling, ply |-> 5 - plies]
ChessOpenings == {
  \* All four castlings but one, and rooks that can be taken at home.
  Opening(<<5, 1>> :> White("king") @@ <<1, 1>> :> White("rook") @@ <<8, 1>> :> White("rook")
          @@ <<5, 8>> :> Black("king") @@ <<1, 8>> :> Black("rook"),
          {<<"w", "K">>, <<"w", "Q">>, <<"b", "Q">>}, 2),
  \* En passant, after which the last pawn may be taken.
  Opening(<<4, 2>> :> White("king") @@ <<5, 2>> :> White("pawn") @@ <<8, 5>> :> Black("king") @@ <<4, 4>> :> Black("pawn"), {}, 3),
  \* En passant would uncover the king.
  Opening(<<8, 1>> :> White("king") @@ <<8, 4>> :> White("rook") @@ <<5, 2>> :> White("pawn")
          @@ <<1, 4>> :> Black("king") @@ <<4, 4>> :> Black("pawn"), {}, 2),
  \* Promotion, also by taking a rook at home.
  Opening(<<4, 6>> :> White("king") @@ <<2, 7>> :> White("pawn") @@ <<5, 8>> :> Black("king") @@ <<1, 8>> :> Black("rook"),
          {<<"b", "Q">>}, 2),
  \* Kings walk to and fro.
  Opening(<<8, 1>> :> White("king") @@ <<8, 2>> :> White("pawn") @@ <<5, 2>> :> White("pawn")
          @@ <<8, 8>> :> Black("king") @@ <<8, 3>> :> Black("pawn"), {}, 5),
  \* Bishops of one color are left when the rook is taken.
  Opening(<<1, 1>> :> White("king") @@ <<2, 1>> :> White("bishop") @@ <<3, 2>> :> Black("rook")
          @@ <<8, 8>> :> Black("king") @@ <<8, 2>> :> Black("bishop"), {}, 2),
  \* The queen gives mate, or leaves no move.
  Opening(<<6, 6>> :> White("king") @@ <<5, 7>> :> White("queen") @@ <<8, 8>> :> Black("king"), {}, 1) }
ChessGame == INSTANCE Chess WITH HalfmoveLimit <- 4, Repetitions <- 2, MaxPlies <- 5, Openings <- ChessOpenings

-----------------------------------------------------------------------------
(* Backgammon with two men a side that have met, on six points.  Chinese   *)
(* checkers with a peg for each of 2, 3 or 6 players, and with triangles   *)
(* of three pegs, when all but one of everybody's have left.               *)

ShortBackgammon == INSTANCE Backgammon WITH
  LastPoint <- 6, HomePoints <- 2, Sides <- 3, MenEach <- 2, TurnLimit <- 5, StartingPoints <- <<-1, 0, -1, 1, 0, 1>>

Left == <<{<<5, 3>>, <<7, 3>>, <<8, 2>>}, {<<11, 5>>, <<10, 6>>, <<12, 6>>}, {<<3, 5>>, <<4, 6>>, <<2, 6>>}>>
LeavingHome ==
  [n |-> 3, board |-> [h \in UNION {Left[i] : i \in 1 .. 3} |-> CHOOSE p \in 0 .. 2 : h \in Left[p + 1]],
   toMove |-> 0, round |-> 3, movesBy |-> [p \in 0 .. 2 |-> 2], forfeited |-> [p \in 0 .. 2 |-> FALSE]]

SmallStar == INSTANCE ChineseCheckers WITH
  Side <- 1, PlayerCounts <- {2, 3}, Openings <- {}, VacateBy <- 2, RoundLimit <- 4
FullStar == INSTANCE ChineseCheckers WITH
  Side <- 1, PlayerCounts <- {6}, Openings <- {}, VacateBy <- 1, RoundLimit <- 1
WideStar == INSTANCE ChineseCheckers WITH
  Side <- 2, PlayerCounts <- {}, Openings <- {LeavingHome}, VacateBy <- 3, RoundLimit <- 3

-----------------------------------------------------------------------------

Init ==
  \/ part = "werewolf of 3" /\ W3!Init
  \/ part = "werewolf of 4" /\ W4!Init
  \/ part = "werewolf of 5" /\ W5!Init
  \/ part = "landlord, trades" /\ Trades!Init
  \/ part = "landlord, rents" /\ Rents!Init
  \/ part = "islanders" /\ Middle!Init
  \/ part = "islanders, setup" /\ Setup!Init
  \/ part = "go" /\ GoBoard!Init
  \/ part = "hex" /\ HexBoard!Init
  \/ part = "reversi" /\ Othello!Init
  \/ part = "tictactoe" /\ TicTacToe!Init
  \/ part = "dropline" /\ Dropline!Init
  \/ part = "morris" /\ Men!Init
  \/ part = "checkers" /\ English!Init
  \/ part = "international" /\ International!Init
  \/ part = "chess" /\ ChessGame!Init
  \/ part = "backgammon" /\ ShortBackgammon!Init
  \/ part = "star" /\ SmallStar!Init
  \/ part = "star of 6" /\ FullStar!Init
  \/ part = "star, leaving" /\ WideStar!Init

Next ==
  /\ UNCHANGED part
  /\ \/ part = "werewolf of 3" /\ W3!Next
     \/ part = "werewolf of 4" /\ W4!Next
     \/ part = "werewolf of 5" /\ W5!Next
     \/ part = "landlord, trades" /\ Trades!Next
     \/ part = "landlord, rents" /\ Rents!Next
     \/ part = "islanders" /\ Middle!Next
     \/ part = "islanders, setup" /\ Setup!Next
     \/ part = "go" /\ GoBoard!Next
     \/ part = "hex" /\ HexBoard!Next
     \/ part = "reversi" /\ Othello!Next
     \/ part = "tictactoe" /\ TicTacToe!Next
     \/ part = "dropline" /\ Dropline!Next
     \/ part = "morris" /\ Men!Next
     \/ part = "checkers" /\ English!Next
     \/ part = "international" /\ International!Next
     \/ part = "chess" /\ ChessGame!Next
     \/ part = "backgammon" /\ ShortBackgammon!Next
     \/ part = "star" /\ SmallStar!Next
     \/ part = "star of 6" /\ FullStar!Next
     \/ part = "star, leaving" /\ WideStar!Next

Spec == Init /\ [][Next]_<<part, state>>

-----------------------------------------------------------------------------
(* The properties are those of the games.                                  *)

\* Whoever a game waits for has a move, and a game that is not over waits for
\* somebody: Werewolf after every loss of a seat (with three, a room may rely on
\* all of GameContract), Landlord in debt and in auctions, Islanders in discards
\* and trades, Morris when men are shut in, and backgammon, where each turn that
\* is listed is one the rules take.
SomebodyCanMove ==
  /\ part = "werewolf of 3" => W3!RoomCanPlay
  /\ part = "werewolf of 4" => W4!NeverRests
  /\ part = "werewolf of 5" => W5!NeverRests
  /\ part = "landlord, trades" => Trades!NeverStuck
  /\ part = "landlord, rents" => Rents!NeverStuck
  /\ part = "islanders" => Middle!NeverStuck
  /\ part = "islanders, setup" => Setup!NeverStuck
  /\ part = "morris" => Men!NeverStuck
  /\ part = "backgammon" => ShortBackgammon!TurnsAreComplete

\* Werewolf's: the order of two seats in one phase is of no consequence.
OrderIndependent ==
  /\ part = "werewolf of 4" => W4!OrderIndependent
  /\ part = "werewolf of 5" => W5!OrderIndependent

\* Landlord's deeds, buildings and cards and Islanders' goods and pieces are
\* where they came from or with a player, whatever was traded, lost or seized,
\* and Islanders' two bonuses are with who earned them.  No man of backgammon
\* is lost.
BooksBalance ==
  /\ part = "landlord, trades" => Trades!EstateInOrder
  /\ part = "landlord, rents" => Rents!EstateInOrder
  /\ part = "islanders" => Middle!GoodsConserved /\ Middle!BonusesEarned
  /\ part = "islanders, setup" => Setup!GoodsConserved /\ Setup!BonusesEarned
  /\ part = "backgammon" => ShortBackgammon!MenConserved

\* Checkers', Morris' and chess': the repetitions counted are those of the
\* whole game.
RepetitionsCounted ==
  /\ part = "morris" => Men!RepetitionsCounted
  /\ part = "checkers" => English!RepetitionsCounted
  /\ part = "international" => International!RepetitionsCounted
  /\ part = "chess" => ChessGame!RepetitionsCounted

\* Go's groups have liberties, Hex has one winner, Reversi stops only when
\* neither seat can place, nobody moves after a line of Tic-tac-toe or Dropline.
\* Chess: attacks, checks and rights agree with the moves.  Chinese checkers:
\* rounds are full, and who stays at home is out.
BoardsInOrder ==
  /\ part = "go" => GoBoard!GroupsBreathe
  /\ part = "hex" => HexBoard!OneSideConnects
  /\ part = "reversi" => Othello!EndsWhenNobodyCanFlank
  /\ part = "tictactoe" => TicTacToe!LastMoverWins
  /\ part = "dropline" => Dropline!LastMoverWins
  /\ part = "chess" => ChessGame!PositionInOrder
  /\ part = "star" => SmallStar!RoundsAreFull /\ SmallStar!StartVacated
  /\ part = "star of 6" => FullStar!RoundsAreFull /\ FullStar!StartVacated
  /\ part = "star, leaving" => WideStar!RoundsAreFull /\ WideStar!StartVacated

\* Landlord's: only the owner of a building sells it.
OnlyOwnersSell ==
  [][part = "landlord, trades" =>
       \A x \in DOMAIN Deeds, p \in Trades!ToMove(state) :
         state'.houses[x] < state.houses[x] => state.owner[x] = p]_<<part, state>>

=============================================================================
