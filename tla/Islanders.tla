------------------------------ MODULE Islanders -----------------------------
(***************************************************************************)
(* The rules of Islanders (games/islanders/rules.ts): a snake-order setup, *)
(* production from a bank of limited resources, roads, villages, cities,   *)
(* saga cards, trades, the seven and its raider, and the two bonuses that  *)
(* change hands.                                                           *)
(*                                                                         *)
(* The map, the resources, the costs and the limits are constants, so that *)
(* a few vertices can stand for the 54 of the board; an edge is the set of *)
(* its two vertices.  A roll is the sum of the dice.  What the seed draws  *)
(* (a roll, a stolen card) is any of its outcomes; the order of the deck   *)
(* is part of the opening.  An offer carries no id, only one is pending,   *)
(* and it is kept from the side of who made it last, so that a counter     *)
(* turns it round.                                                         *)
(***************************************************************************)
EXTENDS Integers, FiniteSets, Sequences, SequencesExt

CONSTANTS
  PlayerCount,      \* players are 0 .. PlayerCount - 1
  Vertex, Edge, Hex,
  HexVertices,      \* the vertices of a hex
  Terrain,          \* the resource of a hex, "none" for the dunes
  Token,            \* the roll a hex produces on
  Harbor,           \* function from the edges with a harbor to its resource or "any"
  Resource,
  RoadCost, VillageCost, CityCost, CardCost,  \* functions from Resource to Nat
  BankPerResource, Supply,                    \* Supply: [roads, villages, cities]
  HandLimit,        \* more cards than this are halved on a seven
  LongRoad, LargeArmy, WinPoints, MaxOffers,
  RoundLimit,
  Rolls,            \* bound: the sums of the dice considered
  Openings          \* the states a game is taken up from

VARIABLE state

Player == 0 .. PlayerCount - 1
Nobody == PlayerCount
NoOffer == [by |-> Nobody, of |-> Nobody]
PlayableCards == {"warrior", "pathfinder", "bounty", "tithe"}
Card == PlayableCards \cup {"landmark"}

EdgesOf(v) == {e \in Edge : v \in e}
Adjacent(v) == UNION EdgesOf(v) \ {v}

Total(S, f(_)) == FoldSet(LAMBDA x, sum : sum + f(x), 0, S)

\* Hands, the bank, costs and trades are functions from Resource to Nat.
None == [r \in Resource |-> 0]
One(r) == [None EXCEPT ![r] = 1]
Size(b) == Total(Resource, LAMBDA r : b[r])
Plus(a, b) == [r \in Resource |-> a[r] + b[r]]
Minus(a, b) == [r \in Resource |-> a[r] - b[r]]
Holds(a, b) == \A r \in Resource : b[r] <= a[r]
Amounts(n) == {b \in [Resource -> 0 .. n] : Size(b) = n}

PayToBank(s, p, cost) ==
  [s EXCEPT !.hands[p] = Minus(@, cost), !.bank = Plus(@, cost)]
GainFromBank(s, p, b) ==
  LET got == [r \in Resource |-> IF b[r] <= s.bank[r] THEN b[r] ELSE s.bank[r]]
  IN  [s EXCEPT !.hands[p] = Plus(@, got), !.bank = Minus(@, got)]

\* The state createInitialState() makes, for a deck and a first hex of the raider.
InitialState(deck, dunes) ==
  [villages |-> [v \in Vertex |-> Nobody], cities |-> [v \in Vertex |-> Nobody],
   roads |-> [e \in Edge |-> Nobody], raider |-> dunes,
   hands |-> [p \in Player |-> None], bank |-> [r \in Resource |-> BankPerResource],
   progress |-> [p \in Player |-> [c \in Card |-> 0]],
   bought |-> [p \in Player |-> [c \in Card |-> 0]],
   warriors |-> [p \in Player |-> 0], deck |-> deck, supply |-> [p \in Player |-> Supply],
   phase |-> "setup", setupMoves |-> 0, lastSetupVertex |-> "none",
   turn |-> 0, currentSeat |-> 0, discardDue |-> [p \in Player |-> 0],
   offer |-> NoOffer, offersMade |-> 0, progressPlayed |-> FALSE,
   longestRoadHolder |-> Nobody, largestArmyHolder |-> Nobody]

-----------------------------------------------------------------------------
(* Placement.                                                              *)

\* The seat of the k-th village of the setup: round the table and back.
SnakeSeat(k) == IF k < PlayerCount THEN k ELSE 2 * PlayerCount - 1 - k
SetupSeat(s) == SnakeSeat(s.setupMoves \div 2)

BuildingOwner(s, v) == IF s.villages[v] # Nobody THEN s.villages[v] ELSE s.cities[v]

VertexOpenForVillage(s, v) == \A w \in Adjacent(v) \cup {v} : BuildingOwner(s, w) = Nobody

SetupVillageSpots(s) ==
  {v \in Vertex : VertexOpenForVillage(s, v) /\ \E e \in EdgesOf(v) : s.roads[e] = Nobody}

VillageSpots(s, p) ==
  {v \in Vertex : VertexOpenForVillage(s, v) /\ \E e \in EdgesOf(v) : s.roads[e] = p}

\* A road grows from an own building, or from an own road through a junction
\* nobody else has built on.
EdgeOpenForRoad(s, p, e) ==
  /\ s.roads[e] = Nobody
  /\ \E v \in e : \/ BuildingOwner(s, v) = p
                  \/ /\ BuildingOwner(s, v) = Nobody
                     /\ \E f \in EdgesOf(v) \ {e} : s.roads[f] = p

RoadSpots(s, p) == {e \in Edge : EdgeOpenForRoad(s, p, e)}

RoadAt(s, p, e) == [s EXCEPT !.roads[e] = p, !.supply[p].roads = @ - 1]

-----------------------------------------------------------------------------
(* The bonuses and the score.                                              *)

\* The longest trail from v over roads of p not used yet: no further where
\* an opponent has built.
RECURSIVE TrailFrom(_, _, _, _)
TrailFrom(s, p, v, used) ==
  LET further == {e \in EdgesOf(v) \ used : s.roads[e] = p}
      through == used = {} \/ BuildingOwner(s, v) \in {p, Nobody}
      other(e) == CHOOSE w \in e : w # v
  IN  IF further = {} \/ ~through THEN 0
      ELSE Max({1 + TrailFrom(s, p, other(e), used \cup {e}) : e \in further})

LongestRoadLength(s, p) ==
  Max({0} \cup {TrailFrom(s, p, v, {}) : v \in UNION {e \in Edge : s.roads[e] = p}})

\* The holder keeps the bonus on a tie; when its road is broken, a sole
\* leader takes it, or nobody.  Of several who exceed the holder by the same
\* length the first seat takes it.
UpdateLongestRoad(s) ==
  LET len == [p \in Player |-> LongestRoadLength(s, p)]
      best == Max({len[p] : p \in Player})
      leaders == {p \in Player : len[p] = best}
      first == CHOOSE p \in leaders : \A q \in leaders : p <= q
      h == s.longestRoadHolder
  IN  [s EXCEPT !.longestRoadHolder =
         IF h # Nobody /\ len[h] >= LongRoad
         THEN IF h \in leaders THEN h ELSE first
         ELSE IF best >= LongRoad /\ leaders = {first} THEN first ELSE Nobody]

UpdateLargestArmy(s, p) ==
  LET h == s.largestArmyHolder IN
  IF s.warriors[p] >= LargeArmy /\ (h = Nobody \/ s.warriors[p] > s.warriors[h])
  THEN [s EXCEPT !.largestArmyHolder = p] ELSE s

Count(f, p) == Cardinality({x \in DOMAIN f : f[x] = p})

VictoryPoints(s, p) ==
  Count(s.villages, p) + 2 * Count(s.cities, p)
    + (IF s.longestRoadHolder = p THEN 2 ELSE 0) + (IF s.largestArmyHolder = p THEN 2 ELSE 0)
    + s.progress[p]["landmark"] + s.bought[p]["landmark"]

Terminal(s) ==
  s.phase = "over" \/ (s.phase # "setup" /\ VictoryPoints(s, s.currentSeat) >= WinPoints)

-----------------------------------------------------------------------------
(* A turn begins: production, or the seven.                                *)

\* What the hexes with the number rolled owe of resource r to p.
Owed(s, roll, r, p) ==
  LET hexes == {h \in Hex \ {s.raider} : Token[h] = roll /\ Terrain[h] = r}
      of(h) == Cardinality({v \in HexVertices[h] : s.villages[v] = p})
                 + 2 * Cardinality({v \in HexVertices[h] : s.cities[v] = p})
  IN  Total(hexes, of)

\* When the bank is short of a resource nobody gets any, except that a
\* single player takes what remains.
Produce(s, roll) ==
  LET short(r) == Total(Player, LAMBDA p : Owed(s, roll, r, p)) > s.bank[r]
      several(r) == Cardinality({p \in Player : Owed(s, roll, r, p) > 0}) > 1
      due(p) == [r \in Resource |-> IF short(r) /\ several(r) THEN 0 ELSE Owed(s, roll, r, p)]
  IN  FoldLeft(LAMBDA t, p : GainFromBank(t, p, due(p)), s, [i \in 1 .. PlayerCount |-> i - 1])

BeginTurn(s, roll) ==
  LET due == [p \in Player |-> LET n == Size(s.hands[p]) IN IF n > HandLimit THEN n \div 2 ELSE 0]
  IN  IF roll # 7 THEN [Produce(s, roll) EXCEPT !.phase = "main"]
      ELSE [s EXCEPT !.discardDue = due,
                     !.phase = IF \E p \in Player : due[p] > 0 THEN "discard" ELSE "raider"]

StealVictims(s, p, h) ==
  {q \in Player \ {p} : Size(s.hands[q]) > 0 /\ \E v \in HexVertices[h] : BuildingOwner(s, v) = q}

Stolen(s, thief, victim, r) ==
  [s EXCEPT !.hands[victim] = Minus(@, One(r)), !.hands[thief] = Plus(@, One(r))]

\* The states after p moves the raider: someone is robbed if anyone can be.
RaiderMoved(s, p) ==
  UNION {LET moved == [s EXCEPT !.raider = h] IN
         IF StealVictims(s, p, h) = {} THEN {moved}
         ELSE {Stolen(moved, p, x[1], x[2]) :
                 x \in {y \in StealVictims(s, p, h) \X Resource : s.hands[y[1]][y[2]] > 0}}
         : h \in Hex \ {s.raider}}

-----------------------------------------------------------------------------
(* Who moves, and that a move is offered.                                  *)

ToMove(s) ==
  CASE s.phase = "over" -> {}
    [] s.phase = "setup" -> {SetupSeat(s)}
    [] s.phase = "discard" -> {p \in Player : s.discardDue[p] > 0}
    [] s.phase = "raider" -> {s.currentSeat}
    [] OTHER -> IF s.offer # NoOffer THEN {s.offer.of} ELSE {s.currentSeat}

\* legalMoves() where it is not plain: with an offer pending one may reject
\* it, and in the main phase one may end the turn.
OffersAMove(s, p) ==
  CASE s.phase = "setup" -> IF s.setupMoves % 2 = 0 THEN SetupVillageSpots(s) # {}
                            ELSE \E e \in EdgesOf(s.lastSetupVertex) : s.roads[e] = Nobody
    [] s.phase = "discard" -> Size(s.hands[p]) >= s.discardDue[p]
    [] s.phase = "raider" -> RaiderMoved(s, p) # {}
    [] OTHER -> TRUE

Moves(p) == ~Terminal(state) /\ p \in ToMove(state)

-----------------------------------------------------------------------------
(* The moves of applyMove.                                                 *)

\* The village of the second round pays one of each hex it touches.
SetupVillage(p) ==
  /\ Moves(p) /\ state.phase = "setup" /\ state.setupMoves % 2 = 0
  /\ \E v \in SetupVillageSpots(state) :
       LET placed == [state EXCEPT !.villages[v] = p, !.supply[p].villages = @ - 1,
                                   !.lastSetupVertex = v, !.setupMoves = @ + 1]
           around(r) == Cardinality({h \in Hex : v \in HexVertices[h] /\ Terrain[h] = r})
       IN  state' = IF state.setupMoves \div 2 >= PlayerCount
                    THEN GainFromBank(placed, p, [r \in Resource |-> around(r)])
                    ELSE placed

SetupRoad(p) ==
  /\ Moves(p) /\ state.phase = "setup" /\ state.setupMoves % 2 = 1
  /\ \E e \in EdgesOf(state.lastSetupVertex), roll \in Rolls :
       LET placed == [RoadAt(state, p, e) EXCEPT !.setupMoves = @ + 1] IN
       /\ state.roads[e] = Nobody
       /\ state' = IF placed.setupMoves = 4 * PlayerCount
                   THEN BeginTurn([placed EXCEPT !.turn = 1, !.currentSeat = 0], roll)
                   ELSE [placed EXCEPT !.currentSeat = SetupSeat(placed)]

\* The last to discard lets the raider go.
DiscardEnds(s) == \A p \in Player : s.discardDue[p] = 0

Discard(p) ==
  /\ Moves(p) /\ state.phase = "discard"
  /\ \E cards \in Amounts(state.discardDue[p]) :
       LET paid == [PayToBank(state, p, cards) EXCEPT !.discardDue[p] = 0] IN
       /\ Holds(state.hands[p], cards)
       /\ state' = IF DiscardEnds(paid) THEN [paid EXCEPT !.phase = "raider"] ELSE paid

MoveBandit(p) ==
  /\ Moves(p) /\ state.phase = "raider"
  /\ \E moved \in RaiderMoved(state, p) : state' = [moved EXCEPT !.phase = "main"]

Building(p) == Moves(p) /\ state.phase = "main" /\ state.offer = NoOffer

BuildRoad(p) ==
  /\ Building(p) /\ state.supply[p].roads >= 1 /\ Holds(state.hands[p], RoadCost)
  /\ \E e \in RoadSpots(state, p) :
       state' = UpdateLongestRoad(RoadAt(PayToBank(state, p, RoadCost), p, e))

VillageAt(s, p, v) == [s EXCEPT !.villages[v] = p, !.supply[p].villages = @ - 1]

\* A village may stand in the way of an opponent's road.
VillageBuilt(s, p, v) == UpdateLongestRoad(VillageAt(s, p, v))

BuildVillage(p) ==
  /\ Building(p) /\ state.supply[p].villages >= 1 /\ Holds(state.hands[p], VillageCost)
  /\ \E v \in VillageSpots(state, p) : state' = VillageBuilt(PayToBank(state, p, VillageCost), p, v)

BuildCity(p) ==
  /\ Building(p) /\ state.supply[p].cities >= 1 /\ Holds(state.hands[p], CityCost)
  /\ \E v \in Vertex :
       /\ state.villages[v] = p
       /\ state' = [PayToBank(state, p, CityCost) EXCEPT
                      !.villages[v] = Nobody, !.cities[v] = p,
                      !.supply[p].cities = @ - 1, !.supply[p].villages = @ + 1]

BuyProgress(p) ==
  /\ Building(p) /\ state.deck # <<>> /\ Holds(state.hands[p], CardCost)
  /\ state' = [PayToBank(state, p, CardCost) EXCEPT
                 !.deck = Tail(@), !.bought[p][Head(state.deck)] = @ + 1]

\* A saga card of an earlier turn, one a turn.
Plays(p, card) == Building(p) /\ ~state.progressPlayed /\ state.progress[p][card] > 0
Played(s, p, card) == [s EXCEPT !.progress[p][card] = @ - 1, !.progressPlayed = TRUE]

PlayWarrior(p) ==
  /\ Plays(p, "warrior")
  /\ \E moved \in RaiderMoved(state, p) :
       state' = Played(UpdateLargestArmy([moved EXCEPT !.warriors[p] = @ + 1], p), p, "warrior")

\* Two roads, or one where no two can be placed.
Pathfinder(s, p) ==
  LET one(t) == {RoadAt(t, p, e) : e \in IF t.supply[p].roads > 0 THEN RoadSpots(t, p) ELSE {}}
      two == UNION {one(t) : t \in one(s)}
  IN  IF two # {} THEN two ELSE one(s)

PlayPathfinder(p) ==
  /\ Plays(p, "pathfinder")
  /\ \E laid \in Pathfinder(state, p) : state' = Played(UpdateLongestRoad(laid), p, "pathfinder")

PlayBounty(p) ==
  /\ Plays(p, "bounty")
  /\ \E take \in Amounts(IF Size(state.bank) >= 2 THEN 2 ELSE 1) :
       /\ Holds(state.bank, take)
       /\ state' = Played(GainFromBank(state, p, take), p, "bounty")

PlayTithe(p) ==
  /\ Plays(p, "tithe")
  /\ \E r \in Resource :
       state' = Played([state EXCEPT !.hands = [q \in Player |->
                  [@[q] EXCEPT ![r] = IF q = p THEN Total(Player, LAMBDA o : state.hands[o][r]) ELSE 0]]],
                  p, "tithe")

BankRate(s, p, r) ==
  LET kinds == {Harbor[e] : e \in {f \in DOMAIN Harbor : \E v \in f : BuildingOwner(s, v) = p}}
  IN  IF r \in kinds THEN 2 ELSE IF "any" \in kinds THEN 3 ELSE 4

TradeBank(p) ==
  /\ Building(p)
  /\ \E give \in Resource, get \in Resource :
       LET paid == [None EXCEPT ![give] = BankRate(state, p, give)] IN
       /\ give # get /\ Holds(state.hands[p], paid) /\ state.bank[get] >= 1
       /\ state' = GainFromBank(PayToBank(state, p, paid), p, One(get))

\* One or two against one or two, three at most, and nothing on both sides.
OfferShapes ==
  {x \in (Amounts(1) \cup Amounts(2)) \X (Amounts(1) \cup Amounts(2)) :
     Size(x[1]) + Size(x[2]) <= 3 /\ \A r \in Resource : x[1][r] = 0 \/ x[2][r] = 0}

Offer(p) ==
  /\ Building(p) /\ state.offersMade < MaxOffers
  /\ \E x \in OfferShapes, q \in Player \ {p} :
       /\ Holds(state.hands[p], x[1])
       /\ state' = [state EXCEPT !.offersMade = @ + 1,
                                 !.offer = [by |-> p, of |-> q, give |-> x[1], get |-> x[2],
                                            countered |-> FALSE]]

Answering(p) == Moves(p) /\ state.phase = "main" /\ state.offer # NoOffer

Accept(p) ==
  /\ Answering(p)
  /\ LET o == state.offer IN
     /\ Holds(state.hands[p], o.get) /\ Holds(state.hands[o.by], o.give)
     /\ state' = [state EXCEPT !.offer = NoOffer,
                    !.hands = [@ EXCEPT ![p] = Minus(Plus(@, o.give), o.get),
                                        ![o.by] = Minus(Plus(@, o.get), o.give)]]

Reject(p) == Answering(p) /\ state' = [state EXCEPT !.offer = NoOffer]

Counter(p) ==
  /\ Answering(p) /\ ~state.offer.countered
  /\ \E x \in OfferShapes :
       /\ Holds(state.hands[p], x[1])
       /\ state' = [state EXCEPT !.offer = [by |-> p, of |-> @.by, give |-> x[1], get |-> x[2],
                                            countered |-> TRUE]]

\* What was bought becomes playable, and the next player rolls.
EndTurn(p) ==
  /\ Building(p)
  /\ LET ended == [state EXCEPT !.progress[p] = [c \in Card |-> @[c] + state.bought[p][c]],
                                !.bought[p] = [c \in Card |-> 0], !.progressPlayed = FALSE,
                                !.offersMade = 0, !.turn = @ + 1,
                                !.currentSeat = state.turn % PlayerCount]
     IN  IF ended.turn > RoundLimit * PlayerCount THEN state' = [ended EXCEPT !.phase = "over"]
         ELSE \E roll \in Rolls : state' = BeginTurn(ended, roll)

Init == state \in Openings

Play(p) ==
  \/ SetupVillage(p) \/ SetupRoad(p) \/ Discard(p) \/ MoveBandit(p)
  \/ BuildRoad(p) \/ BuildVillage(p) \/ BuildCity(p) \/ BuyProgress(p)
  \/ PlayWarrior(p) \/ PlayPathfinder(p) \/ PlayBounty(p) \/ PlayTithe(p)
  \/ TradeBank(p) \/ Offer(p) \/ Accept(p) \/ Reject(p) \/ Counter(p) \/ EndTurn(p)

Next == \E p \in Player : Play(p)

Spec == Init /\ [][Next]_state

-----------------------------------------------------------------------------
(* Properties.                                                             *)

\* Someone is to move until the game is over, and has a move: the discards
\* end, and the setup never runs out of places.
NeverStuck ==
  ~Terminal(state) => ToMove(state) # {} /\ \A p \in ToMove(state) : OffersAMove(state, p)

\* Nothing is made or lost: of each resource the bank and the hands hold what
\* there was, and the pieces of a player are on the board or in its supply.
GoodsConserved ==
  /\ \A r \in Resource :
       /\ state.bank[r] + Total(Player, LAMBDA p : state.hands[p][r]) = BankPerResource
       /\ state.bank[r] >= 0 /\ \A p \in Player : state.hands[p][r] >= 0
  /\ \A p \in Player :
       LET left == state.supply[p] IN
       /\ left.roads >= 0 /\ left.villages >= 0 /\ left.cities >= 0
       /\ left.roads + Count(state.roads, p) = Supply.roads
       /\ left.villages + Count(state.villages, p) = Supply.villages
       /\ left.cities + Count(state.cities, p) = Supply.cities
  /\ \A v \in Vertex : BuildingOwner(state, v) # Nobody =>
       \A w \in Adjacent(v) : BuildingOwner(state, w) = Nobody

\* Whatever was built, broken or played, a bonus is with somebody who leads,
\* and with nobody only where nobody leads alone.
BonusesEarned ==
  LET len == [p \in Player |-> LongestRoadLength(state, p)]
      h == state.longestRoadHolder
      a == state.largestArmyHolder
  IN  /\ IF h # Nobody THEN len[h] >= LongRoad /\ \A p \in Player : len[p] <= len[h]
         ELSE \A p \in Player : len[p] < LongRoad \/ \E q \in Player \ {p} : len[q] >= len[p]
      /\ IF a # Nobody THEN /\ state.warriors[a] >= LargeArmy
                            /\ \A p \in Player : state.warriors[p] <= state.warriors[a]
         ELSE \A p \in Player : state.warriors[p] < LargeArmy

=============================================================================
