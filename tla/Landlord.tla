------------------------------ MODULE Landlord ------------------------------
(***************************************************************************)
(* The rules of the Landlord game (games/landlord/rules.ts): a track of    *)
(* properties, rents, auctions, buildings from a shared supply, trades,    *)
(* debts and bankruptcies.                                                 *)
(*                                                                         *)
(* The track, the deeds, the cards and the amounts are constants, so that  *)
(* a track of ten spaces can stand for the forty of board.ts.  A hotel is  *)
(* the level above HousesPerHotel houses.  Offers carry no id: only one is *)
(* pending, and the room refuses a move made for an earlier turn.  What    *)
(* can be built or sold in one move with n > 1 is done here in n moves.    *)
(***************************************************************************)
EXTENDS Integers, FiniteSets, Sequences, SequencesExt

CONSTANTS
  PlayerCount,     \* players are 0 .. PlayerCount - 1
  Board,           \* sequence of spaces, [kind, prop, tax]; space i is Board[i + 1]
  Yard,            \* index of the detention space
  Deeds,           \* function from properties to [kind, group, price, rent, houseCost]
  TransitRent,     \* rent by number of lines owned, a sequence
  UtilityMult,     \* multiplier by number of utilities owned, a sequence
  Cards,           \* function from cards to [deck, k, n, hotel]: n is the amount, the
                   \* space or the steps of the effect k, hotel what a repair takes for one
  HousesPerHotel, HouseSupply, HotelSupply,
  Salary, Fine, BidStep, AuctionRounds, MaxOffers, TurnLimit,
  Dice,            \* bound: the pairs of dice considered
  Bundles,         \* bound: the sides of an offer, [cash, props, writs]
  Openings         \* the states a game is taken up from

VARIABLE state

Player == 0 .. PlayerCount - 1
Bank == PlayerCount  \* owner of what nobody owns, creditor of what is owed to nobody
Prop == DOMAIN Deeds
Hotel == HousesPerHotel + 1
NoAuction == [prop |-> "none"]
NoOffer == [to |-> Bank, from |-> Bank]

PriceOf(x) == Deeds[x].price
MortgageValue(x) == PriceOf(x) \div 2
TransferFee(x) == (MortgageValue(x) + 9) \div 10
UnmortgageCost(x) == MortgageValue(x) + TransferFee(x)

Group(x) ==
  IF Deeds[x].kind # "street" THEN {}
  ELSE {y \in Prop : Deeds[y].kind = "street" /\ Deeds[y].group = Deeds[x].group}

OwnedBy(s, p) == {x \in Prop : s.owner[x] = p}
BuiltOn(s, x) == \E y \in Group(x) : s.houses[y] > 0

IsAlive(s, p) == ~s.bankrupt[p]
Alive(s) == {p \in Player : IsAlive(s, p)}

\* The seats from p on, round the table.
SeatsFrom(p) == [k \in 1 .. PlayerCount |-> (p + k - 1) % PlayerCount]
CyclicAlive(s, p) == SelectSeq(SeatsFrom(p), LAMBDA q : IsAlive(s, q))
NextAlive(s, p) == CyclicAlive(s, (p + 1) % PlayerCount)[1]

Min2(a, b) == IF a <= b THEN a ELSE b
Total(S, f(_)) == FoldSet(LAMBDA x, sum : sum + f(x), 0, S)

-----------------------------------------------------------------------------
(* Who moves, and what they may do.                                        *)

Terminal(s) == Cardinality(Alive(s)) <= 1 \/ s.round > TurnLimit

ToMove(s) ==
  IF Terminal(s) THEN {}
  ELSE CASE s.phase \in {"roll", "buy_or_auction"} -> {s.current}
         [] s.phase = "auction" -> {s.auction.order[s.auction.idx]}
         [] s.phase = "manage" -> IF s.offer # NoOffer THEN {s.offer.to} ELSE {s.current}
         [] s.phase = "debt" -> {s.payments[1].from}

CanBuildOne(s, p, x) ==
  /\ Group(x) # {} /\ s.owner[x] = p /\ s.houses[x] < Hotel
  /\ \A y \in Group(x) : /\ s.owner[y] = p /\ ~s.mortgaged[y]
                         /\ s.houses[x] <= s.houses[y]
  /\ IF s.houses[x] = HousesPerHotel THEN s.hotelPool >= 1 ELSE s.housePool >= 1
  /\ s.cash[p] >= Deeds[x].houseCost

CanSellOne(s, p, x) ==
  /\ Group(x) # {} /\ s.owner[x] = p /\ s.houses[x] >= 1
  /\ \A y \in Group(x) : s.houses[x] >= s.houses[y]
  /\ s.houses[x] = Hotel => s.housePool >= HousesPerHotel

CanSellWholeHotel(s, p, x) ==
  s.owner[x] = p /\ s.houses[x] = Hotel /\ s.housePool < HousesPerHotel

CanMortgage(s, p, x) == s.owner[x] = p /\ ~s.mortgaged[x] /\ ~BuiltOn(s, x)

CanUnmortgage(s, p, x) == s.owner[x] = p /\ s.mortgaged[x] /\ s.cash[p] >= UnmortgageCost(x)

\* What p could raise by selling and mortgaging everything.
LiquidationCeiling(s, p) ==
  LET halves(x) == s.houses[x] * (Deeds[x].houseCost \div 2)
      free == {x \in OwnedBy(s, p) : ~s.mortgaged[x] /\
                 \A y \in Group(x) : s.houses[y] > 0 => s.owner[y] = p}
  IN  s.cash[p] + Total({x \in OwnedBy(s, p) : s.houses[x] > 0}, halves) + Total(free, MortgageValue)

MayBeBankrupt(s, p) == LiquidationCeiling(s, p) < s.payments[1].amount

Liquidations(s, p) ==
  {x \in Prop : CanSellOne(s, p, x) \/ CanSellWholeHotel(s, p, x) \/ CanMortgage(s, p, x)}

\* legalMoves() of the phases where it is not plain that a move is offered:
\* everywhere else rolling, declining, rejecting or ending the turn is.
OffersAMove(s, p) ==
  s.phase = "debt" => \/ Liquidations(s, p) # {}
                      \/ s.cash[p] >= s.payments[1].amount
                      \/ MayBeBankrupt(s, p)

-----------------------------------------------------------------------------
(* Movement, landing, cards.                                               *)

Owes(s, from, to, amount) ==
  IF amount > 0
  THEN [s EXCEPT !.payments = Append(@, [from |-> from, to |-> to, amount |-> amount])]
  ELSE s

\* Forward to a space; whoever reaches or passes the start draws the salary.
MoveForwardTo(s, p, target) ==
  [s EXCEPT !.pos[p] = target,
            !.cash[p] = IF target <= s.pos[p] \/ target = 0 THEN @ + Salary ELSE @]

SendToDetention(s, p) ==
  [s EXCEPT !.pos[p] = Yard, !.detained[p] = TRUE, !.detTries[p] = 0,
            !.rolledDouble = IF p = s.current THEN FALSE ELSE @]

\* A writ leaves the deck until it is used, every other card goes to its bottom.
DrawCard(s, deck) ==
  LET top == Head(s.decks[deck]) IN
  [s EXCEPT !.decks[deck] = IF Cards[top].k = "writ" THEN Tail(@) ELSE Append(Tail(@), top)]

ReturnWrit(s, w) == [s EXCEPT !.decks[Cards[w].deck] = Append(@, w)]

StartAuction(s, x) ==
  [s EXCEPT !.phase = "auction",
            !.auction = [prop |-> x, idx |-> 1, round |-> 1, high |-> 0, bidder |-> Bank, bids |-> 0,
                         order |-> CyclicAlive(s, s.current)]]

AdvanceTurn(s) ==
  LET heir == NextAlive(s, s.current) IN
  [s EXCEPT !.current = heir, !.round = IF heir <= s.current THEN @ + 1 ELSE @,
            !.phase = "roll", !.doubles = 0, !.rolledDouble = FALSE, !.offersMade = 0,
            !.dice = 0, !.pendingProp = "none", !.pendingMove = 0, !.after = "manage"]

Count(s, p, kind) == Cardinality({x \in OwnedBy(s, p) : Deeds[x].kind = kind})

StreetRent(s, x) ==
  LET whole == \A y \in Group(x) : s.owner[y] = s.owner[x] IN
  IF s.houses[x] = 0 /\ whole THEN 2 * Deeds[x].rent[1] ELSE Deeds[x].rent[s.houses[x] + 1]

\* opts: the dice the rent of a utility counts, the factor of a transit line,
\* and whether a card has the utility's dice rolled anew (counted as opts.dice).
RentFor(s, x, opts) ==
  CASE Deeds[x].kind = "street" -> StreetRent(s, x)
    [] Deeds[x].kind = "transit" -> opts.mult * TransitRent[Count(s, s.owner[x], "transit")]
    [] OTHER -> opts.dice * (IF opts.anew THEN 10 ELSE UtilityMult[Count(s, s.owner[x], "utility")])

Plain(dice) == [dice |-> dice, mult |-> 1, anew |-> FALSE]

\* The nearest space of a kind ahead of `from`.
Nearest(from, kind) ==
  LET n == Len(Board)
      ahead(i) == (i - from + n) % n
      spaces == {i \in 0 .. n - 1 : Board[i + 1].kind = kind /\ ahead(i) > 0}
  IN  CHOOSE i \in spaces : \A j \in spaces : ahead(i) <= ahead(j)

Others(s, p) == SelectSeq(SeatsFrom(0), LAMBDA q : q # p /\ IsAlive(s, q))

RECURSIVE Landing(_, _, _), Pipeline(_)

ResolveCard(s, p, deck) ==
  LET c    == Cards[Head(s.decks[deck])]
      w    == Head(s.decks[deck])
      t    == DrawCard(s, deck)
      mine == {x \in OwnedBy(s, p) : s.houses[x] > 0}
  IN  CASE c.k = "collect" -> Pipeline([t EXCEPT !.cash[p] = @ + c.n])
        [] c.k = "pay" -> Pipeline(Owes(t, p, Bank, c.n))
        [] c.k = "pay_each" -> Pipeline(FoldLeft(LAMBDA r, q : Owes(r, p, q, c.n), t, Others(s, p)))
        [] c.k = "collect_each" -> Pipeline(FoldLeft(LAMBDA r, q : Owes(r, q, p, c.n), t, Others(s, p)))
        [] c.k = "repairs" ->
             Pipeline(Owes(t, p, Bank, Total(mine, LAMBDA x : IF s.houses[x] = Hotel THEN c.hotel
                                                              ELSE c.n * s.houses[x])))
        [] c.k = "writ" -> Pipeline([t EXCEPT !.writs[p] = Append(@, w)])
        [] c.k = "go_detention" -> Pipeline(SendToDetention(t, p))
        [] c.k = "advance_to" -> Landing(MoveForwardTo(t, p, c.n), p, Plain(s.dice))
        [] c.k = "back" ->
             Landing([t EXCEPT !.pos[p] = (@ - c.n + Len(Board)) % Len(Board)], p, Plain(s.dice))
        [] c.k = "nearest_transit" ->
             Landing(MoveForwardTo(t, p, Nearest(s.pos[p], "transit")), p, [Plain(s.dice) EXCEPT !.mult = 2])
        [] c.k = "nearest_utility" ->
             \* The dice rolled anew for the rent are taken to show what the roll did.
             Landing(MoveForwardTo(t, p, Nearest(s.pos[p], "utility")), p, [Plain(s.dice) EXCEPT !.anew = TRUE])

Landing(s, p, opts) ==
  LET space == Board[s.pos[p] + 1]
      x     == space.prop
  IN  CASE space.kind \in {"start", "detention", "free_rest"} -> Pipeline(s)
        [] space.kind = "go_to_detention" -> Pipeline(SendToDetention(s, p))
        [] space.kind = "tax" -> Pipeline(Owes(s, p, Bank, space.tax))
        [] space.kind = "event_a" -> ResolveCard(s, p, "A")
        [] space.kind = "event_b" -> ResolveCard(s, p, "B")
        [] OTHER ->
             IF s.owner[x] = Bank THEN [s EXCEPT !.pendingProp = x, !.phase = "buy_or_auction"]
             ELSE IF s.owner[x] = p \/ s.mortgaged[x] THEN Pipeline(s)
             ELSE Pipeline(Owes(s, p, s.owner[x], RentFor(s, x, opts)))

-----------------------------------------------------------------------------
(* Debts are paid in the order they were made; then what a bankrupt left   *)
(* to the bank is auctioned; then the turn goes on where it stopped.       *)

PayFirst(s) ==
  LET pay   == Head(s.payments)
      taken == [s EXCEPT !.payments = Tail(@), !.cash[pay.from] = @ - pay.amount]
  IN  IF pay.to = Bank THEN taken ELSE [taken EXCEPT !.cash[pay.to] = @ + pay.amount]

Pipeline(s) ==
  CASE s.payments # <<>> ->
         CASE s.bankrupt[s.payments[1].from] -> Pipeline([s EXCEPT !.payments = Tail(@)])
           [] s.cash[s.payments[1].from] >= s.payments[1].amount -> Pipeline(PayFirst(s))
           [] OTHER -> [s EXCEPT !.phase = "debt"]
    [] s.payments = <<>> /\ s.bankQueue # <<>> ->
         IF Cardinality(Alive(s)) < 2 THEN Pipeline([s EXCEPT !.bankQueue = <<>>])
         ELSE StartAuction([s EXCEPT !.bankQueue = Tail(@)], Head(s.bankQueue))
    [] OTHER ->
         CASE s.after = "manage" -> [s EXCEPT !.phase = "manage"]
           [] s.after = "end_turn" -> AdvanceTurn(s)
           [] s.after = "move" ->
                LET p    == s.current
                    free == [s EXCEPT !.detained[p] = FALSE, !.detTries[p] = 0,
                                      !.pendingMove = 0, !.after = "manage"]
                IN  Landing(MoveForwardTo(free, p, (s.pos[p] + s.pendingMove) % Len(Board)), p,
                            Plain(s.pendingMove))

SettleAuction(s) ==
  LET a    == s.auction
      over == [s EXCEPT !.auction = NoAuction, !.pendingProp = "none"]
  IN  Pipeline(IF a.bidder = Bank THEN over
               ELSE [over EXCEPT !.cash[a.bidder] = @ - a.high, !.owner[a.prop] = a.bidder])

\* The next bidder; after the last one the next round, or the end.
NextBid(s) ==
  LET a == s.auction IN
  IF a.idx < Len(a.order) THEN [s EXCEPT !.auction.idx = @ + 1]
  ELSE IF a.bids = 0 \/ a.round >= AuctionRounds THEN SettleAuction(s)
  ELSE [s EXCEPT !.auction.round = @ + 1, !.auction.idx = 1, !.auction.bids = 0]

-----------------------------------------------------------------------------
(* Bankruptcy.                                                             *)

\* Every building goes back to the supply for half its cost.
SellEverything(s, p) ==
  LET built == {x \in OwnedBy(s, p) : s.houses[x] > 0}
      value(x) == s.houses[x] * (Deeds[x].houseCost \div 2)
      back(x) == IF s.houses[x] = Hotel THEN 0 ELSE s.houses[x]
  IN  [s EXCEPT !.houses = [x \in Prop |-> IF x \in built THEN 0 ELSE @[x]],
                !.housePool = @ + Total(built, back),
                !.hotelPool = @ + Cardinality({x \in built : s.houses[x] = Hotel}),
                !.cash[p] = @ + Total(built, value)]

BoardOrder(S) ==
  SelectSeq([i \in 1 .. Len(Board) |-> Board[i].prop], LAMBDA x : x \in S)

\* The bank takes the deeds clean and auctions them, the writs return.
LeftToBank(s, p) ==
  LET mine == OwnedBy(s, p)
      kept == FoldLeft(ReturnWrit, s, s.writs[p])
  IN  [kept EXCEPT !.owner = [x \in Prop |-> IF x \in mine THEN Bank ELSE @[x]],
                   !.mortgaged = [x \in Prop |-> @[x] /\ x \notin mine],
                   !.bankQueue = @ \o BoardOrder(mine), !.writs[p] = <<>>]

\* A creditor takes everything, and pays the fee on what is mortgaged as far
\* as the cash goes.
LeftTo(s, p, creditor) ==
  LET mine == OwnedBy(s, p)
      fees == Total({x \in mine : s.mortgaged[x]}, TransferFee)
  IN  [s EXCEPT !.owner = [x \in Prop |-> IF x \in mine THEN creditor ELSE @[x]],
                !.writs = [q \in Player |-> IF q = creditor THEN @[creditor] \o @[p]
                                            ELSE IF q = p THEN <<>> ELSE @[q]],
                !.cash[creditor] = LET sum == @ + s.cash[p] IN sum - Min2(fees, sum)]

Bankrupted(s, p, creditor) ==
  LET sold == SellEverything(s, p)
      left == IF creditor = Bank THEN LeftToBank(sold, p) ELSE LeftTo(sold, p, creditor)
  IN  [left EXCEPT !.cash[p] = 0, !.bankrupt[p] = TRUE,
                   !.payments = SelectSeq(@, LAMBDA pay : p \notin {pay.from, pay.to}),
                   !.offer = IF p \in {@.from, @.to} THEN NoOffer ELSE @,
                   !.after = IF p = s.current THEN "end_turn" ELSE @,
                   !.rolledDouble = @ /\ p # s.current]

-----------------------------------------------------------------------------
(* The moves: one action for each tag of applyMove, made by who is to move.*)

Moves(p) == p \in ToMove(state)

RollDetained(p, d) ==
  LET total == d[1] + d[2]
      out   == [state EXCEPT !.dice = total, !.detained[p] = FALSE, !.detTries[p] = 0,
                             !.rolledDouble = FALSE, !.doubles = 0]
      tries == [state EXCEPT !.dice = total, !.detTries[p] = @ + 1]
  IN  state' = IF d[1] = d[2]
               THEN Landing(MoveForwardTo(out, p, (state.pos[p] + total) % Len(Board)), p, Plain(total))
               ELSE IF tries.detTries[p] >= 3
               THEN Pipeline([Owes(tries, p, Bank, Fine) EXCEPT !.pendingMove = total, !.after = "move"])
               ELSE [tries EXCEPT !.phase = "manage"]

RollFree(p, d) ==
  LET total  == d[1] + d[2]
      double == d[1] = d[2]
      rolled == [state EXCEPT !.dice = total, !.doubles = IF double THEN @ + 1 ELSE @,
                              !.rolledDouble = double]
  IN  state' = IF rolled.doubles >= 3 /\ double
               THEN [SendToDetention(rolled, p) EXCEPT !.phase = "manage"]
               ELSE Landing(MoveForwardTo(rolled, p, (state.pos[p] + total) % Len(Board)), p, Plain(total))

Roll(p) ==
  /\ Moves(p) /\ state.phase = "roll"
  /\ \E d \in Dice : IF state.detained[p] THEN RollDetained(p, d) ELSE RollFree(p, d)

PayDetention(p) ==
  /\ Moves(p) /\ state.phase = "roll" /\ state.detained[p] /\ state.cash[p] >= Fine
  /\ state' = [state EXCEPT !.cash[p] = @ - Fine, !.detained[p] = FALSE, !.detTries[p] = 0]

UseCard(p) ==
  /\ Moves(p) /\ state.phase = "roll" /\ state.detained[p] /\ state.writs[p] # <<>>
  /\ state' = [ReturnWrit(state, Head(state.writs[p])) EXCEPT
                 !.writs[p] = Tail(@), !.detained[p] = FALSE, !.detTries[p] = 0]

Buy(p) ==
  /\ Moves(p) /\ state.phase = "buy_or_auction" /\ state.cash[p] >= PriceOf(state.pendingProp)
  /\ state' = Pipeline([state EXCEPT !.cash[p] = @ - PriceOf(state.pendingProp),
                                     !.owner[state.pendingProp] = p,
                                     !.pendingProp = "none", !.after = "manage"])

DeclineToBuy(p) ==
  /\ Moves(p) /\ state.phase = "buy_or_auction"
  /\ state' = StartAuction(state, state.pendingProp)

DeclineToBid(p) ==
  /\ Moves(p) /\ state.phase = "auction"
  /\ state' = NextBid(state)

AuctionBid(p) ==
  /\ Moves(p) /\ state.phase = "auction"
  /\ \E amount \in {BidStep * k : k \in 1 .. state.cash[p] \div BidStep} :
       /\ amount > state.auction.high
       /\ state' = NextBid([state EXCEPT !.auction.high = amount, !.auction.bidder = p,
                                         !.auction.bids = @ + 1])

Managing(p) == Moves(p) /\ state.phase = "manage" /\ state.offer = NoOffer
Raising(p) == Managing(p) \/ (Moves(p) /\ state.phase = "debt")

Build(p) ==
  /\ Managing(p)
  /\ \E x \in Prop :
       /\ CanBuildOne(state, p, x)
       /\ state' = LET paid == [state EXCEPT !.houses[x] = @ + 1, !.cash[p] = @ - Deeds[x].houseCost]
                   IN  IF state.houses[x] = HousesPerHotel
                       THEN [paid EXCEPT !.hotelPool = @ - 1, !.housePool = @ + HousesPerHotel]
                       ELSE [paid EXCEPT !.housePool = @ - 1]

\* In a shortage of houses a hotel goes at once; whose it is is not asked.
SellsWhole(s, p, x) == Group(x) # {} /\ s.houses[x] = Hotel /\ s.housePool < HousesPerHotel

SellWholeHotel(p) ==
  /\ Raising(p)
  /\ \E x \in Prop :
       /\ SellsWhole(state, p, x)
       /\ state' = [state EXCEPT !.houses[x] = 0, !.hotelPool = @ + 1,
                                 !.cash[p] = @ + Hotel * (Deeds[x].houseCost \div 2)]

SellBuilding(p) ==
  /\ Raising(p)
  /\ \E x \in Prop :
       /\ ~SellsWhole(state, p, x) /\ CanSellOne(state, p, x)
       /\ state' = LET sold == [state EXCEPT !.houses[x] = @ - 1,
                                             !.cash[p] = @ + Deeds[x].houseCost \div 2]
                   IN  IF state.houses[x] = Hotel
                       THEN [sold EXCEPT !.hotelPool = @ + 1, !.housePool = @ - HousesPerHotel]
                       ELSE [sold EXCEPT !.housePool = @ + 1]

Mortgage(p) ==
  /\ Raising(p)
  /\ \E x \in Prop : /\ CanMortgage(state, p, x)
                     /\ state' = [state EXCEPT !.mortgaged[x] = TRUE, !.cash[p] = @ + MortgageValue(x)]

Unmortgage(p) ==
  /\ Managing(p)
  /\ \E x \in Prop : /\ CanUnmortgage(state, p, x)
                     /\ state' = [state EXCEPT !.mortgaged[x] = FALSE, !.cash[p] = @ - UnmortgageCost(x)]

-----------------------------------------------------------------------------
(* Trades.                                                                 *)

\* validateOfferSides: what a side gives is its own, and without buildings.
SideStands(s, who, side) ==
  /\ \A x \in side.props : s.owner[x] = who /\ ~BuiltOn(s, x)
  /\ side.writs <= Len(s.writs[who])

\* Only the deed itself looked at, not its group.
SideBare(s, who, side) ==
  /\ \A x \in side.props : s.owner[x] = who /\ s.houses[x] = 0
  /\ side.writs <= Len(s.writs[who])

SideValid(s, who, side) == SideStands(s, who, side)

Nothing == [cash |-> 0, props |-> {}, writs |-> 0]

OfferValid(s, o) ==
  SideValid(s, o.from, o.give) /\ SideValid(s, o.to, o.get) /\ ~(o.give = Nothing /\ o.get = Nothing)

FeesOn(s, props) == Total({x \in props : s.mortgaged[x]}, TransferFee)

AcceptValid(s, o) ==
  /\ OfferValid(s, o)
  /\ s.cash[o.from] - o.give.cash + o.get.cash - FeesOn(s, o.get.props) >= 0
  /\ s.cash[o.to] - o.get.cash + o.give.cash - FeesOn(s, o.give.props) >= 0

ExecuteTrade(s, o) ==
  LET first(w, n) == SubSeq(w, 1, n)
      rest(w, n) == SubSeq(w, n + 1, Len(w))
  IN  [s EXCEPT
        !.cash = [@ EXCEPT ![o.from] = @ - o.give.cash + o.get.cash - FeesOn(s, o.get.props),
                           ![o.to] = @ - o.get.cash + o.give.cash - FeesOn(s, o.give.props)],
        !.owner = [x \in Prop |-> IF x \in o.give.props THEN o.to
                                  ELSE IF x \in o.get.props THEN o.from ELSE @[x]],
        !.writs = [@ EXCEPT ![o.from] = rest(@, o.give.writs) \o first(s.writs[o.to], o.get.writs),
                            ![o.to] = rest(@, o.get.writs) \o first(s.writs[o.from], o.give.writs)],
        !.offer = NoOffer]

Offer(p) ==
  /\ Managing(p) /\ p = state.current /\ state.offersMade < MaxOffers
  /\ \E to \in Alive(state) \ {p}, give \in Bundles, get \in Bundles :
       LET o == [from |-> p, to |-> to, give |-> give, get |-> get, countered |-> FALSE] IN
       /\ OfferValid(state, o)
       /\ state' = [state EXCEPT !.offer = o, !.offersMade = @ + 1]

Answering(p) == Moves(p) /\ state.phase = "manage" /\ state.offer # NoOffer

Accept(p) ==
  Answering(p) /\ AcceptValid(state, state.offer) /\ state' = ExecuteTrade(state, state.offer)

Reject(p) == Answering(p) /\ state' = [state EXCEPT !.offer = NoOffer]

Counter(p) ==
  /\ Answering(p) /\ ~state.offer.countered
  /\ \E give \in Bundles, get \in Bundles :
       LET o == [from |-> p, to |-> state.offer.from, give |-> give, get |-> get, countered |-> TRUE] IN
       OfferValid(state, o) /\ state' = [state EXCEPT !.offer = o]

-----------------------------------------------------------------------------
(* Debts, and the end of a turn.                                           *)

PayDebt(p) ==
  /\ Moves(p) /\ state.phase = "debt" /\ state.cash[p] >= state.payments[1].amount
  /\ state' = Pipeline(state)

DeclareBankruptcy(p) ==
  /\ Moves(p) /\ state.phase = "debt" /\ MayBeBankrupt(state, p)
  /\ state' = Pipeline(Bankrupted(state, p, state.payments[1].to))

\* After a double the same player rolls again, unless it ended in the yard.
EndTurn(p) ==
  /\ Managing(p) /\ p = state.current
  /\ state' = IF state.rolledDouble /\ ~state.detained[p]
              THEN [state EXCEPT !.rolledDouble = FALSE, !.phase = "roll"]
              ELSE AdvanceTurn(state)

Init == state \in Openings

Play(p) ==
  \/ Roll(p) \/ PayDetention(p) \/ UseCard(p)
  \/ Buy(p) \/ DeclineToBuy(p) \/ DeclineToBid(p) \/ AuctionBid(p)
  \/ Build(p) \/ SellWholeHotel(p) \/ SellBuilding(p) \/ Mortgage(p) \/ Unmortgage(p)
  \/ Offer(p) \/ Accept(p) \/ Reject(p) \/ Counter(p)
  \/ PayDebt(p) \/ DeclareBankruptcy(p) \/ EndTurn(p)

Next == \E p \in Player : Play(p)

Spec == Init /\ [][Next]_state

-----------------------------------------------------------------------------
(* Properties.                                                             *)

\* Nobody is left with a debt that can be neither paid, nor raised, nor
\* given up, and in no phase is nobody to move.
NeverStuck ==
  ~Terminal(state) => ToMove(state) # {} /\ \A p \in ToMove(state) : IsAlive(state, p) /\ OffersAMove(state, p)

\* Through sales, bankruptcies and trades the supply of houses, hotels and
\* writs stays what it was, nobody's cash is negative, and buildings stand
\* only on groups that one solvent player owns whole and unmortgaged.
EstateInOrder ==
  LET standing == {x \in Prop : state.houses[x] > 0}
      hotels   == {x \in standing : state.houses[x] = Hotel}
      houses(x) == state.houses[x]
      writs    == {w \in DOMAIN Cards : Cards[w].k = "writ"}
      copies(w) == Cardinality({i \in 1 .. Len(state.decks[Cards[w].deck]) : state.decks[Cards[w].deck][i] = w})
                     + Cardinality({<<p, i>> \in Player \X (1 .. Cardinality(writs)) :
                                      i <= Len(state.writs[p]) /\ state.writs[p][i] = w})
  IN  /\ state.housePool + Total(standing \ hotels, houses) = HouseSupply
      /\ state.hotelPool + Cardinality(hotels) = HotelSupply
      /\ \A w \in writs : copies(w) = 1
      /\ \A p \in Player : state.cash[p] >= 0
      /\ \A x \in standing : \A y \in Group(x) : state.owner[y] = state.owner[x] /\ ~state.mortgaged[y]
      /\ \A x \in Prop : state.owner[x] # Bank => IsAlive(state, state.owner[x])

\* A building is sold by its owner only, to raise money of its own.
OnlyOwnersSell ==
  [][\A x \in Prop, p \in ToMove(state) :
       state'.houses[x] < state.houses[x] => state.owner[x] = p]_state

=============================================================================
