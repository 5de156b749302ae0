---------------------------- MODULE GamesProofs -----------------------------
(***************************************************************************)
(* Werewolf keeps the kernel's contract, for every number of seats, deal   *)
(* and length of the game, and RoomCore and ReplayVerify hold with it.     *)
(* What the boards promise: tic-tac-toe and Dropline, Reversi, and Nine    *)
(* Men's Morris, of every size.                                            *)
(***************************************************************************)
EXTENDS WerewolfTable, FiniteSetTheorems, FunctionTheorems, SequenceTheorems, WellFoundedInduction, TLAPS

-----------------------------------------------------------------------------
(* Seats.                                                                  *)

LEMMA LeastNumber ==
  ASSUME NEW T \in SUBSET Nat, T # {}
  PROVE  \E m \in T : \A n \in T : m <= n
<1>1. \E m \in T : \A n \in T : ~(<<n, m>> \in OpToRel(<, Nat))
  BY NatLessThanWellFounded, WFMin
<1>2. PICK m \in T : \A n \in T : ~(n < m) BY <1>1 DEF OpToRel
<1> QED BY <1>2

LEMMA Sizes ==
  ASSUME WerewolfAssumption
  PROVE  /\ SeatCount \in Nat \ {0} /\ TalkRounds \in Nat /\ DayLimit \in Nat \ {0}
         /\ MaxSteps \in Nat /\ MaxSteps >= 2
         /\ Seat \subseteq Nat /\ IsFiniteSet(Seat)
         /\ Nobody \notin Seat /\ Stranger \notin Seat /\ Stranger # Nobody
         /\ None \notin WwState /\ None \notin WwMove /\ None \notin Outcome
<1>1. SeatCount \in Nat \ {0} /\ TalkRounds \in Nat /\ DayLimit \in Nat \ {0} /\ MaxSteps \in Nat \ {0, 1}
  BY DEF WerewolfAssumption
<1>2. None \notin WwState /\ None \notin WwMove /\ None \notin Outcome
  BY DEF WerewolfAssumption
<1>3. IsFiniteSet(Seat) BY <1>1, FS_Interval DEF Seat
<1> QED BY <1>1, <1>2, <1>3 DEF Seat, Nobody, Stranger

LEMMA LowestIsIn == ASSUME WerewolfAssumption, NEW T \in SUBSET Seat, T # {} PROVE Lowest(T) \in T
<1>1. \E p \in T : \A q \in T : p <= q BY Sizes, LeastNumber
<1> QED BY <1>1 DEF Lowest

LEMMA Counted ==
  ASSUME WerewolfAssumption, NEW T \in SUBSET Seat
  PROVE  /\ IsFiniteSet(T) /\ Cardinality(T) \in Nat
         /\ Cardinality(T) = 0 <=> T = {}
<1>1. IsFiniteSet(T) BY Sizes, FS_Subset
<1> QED BY <1>1, FS_CardinalityType, FS_EmptySet

-----------------------------------------------------------------------------
(* The operators keep to the types.                                        *)

LEMMA SlotFacts ==
  ASSUME WerewolfAssumption
  PROVE  /\ NoAct \in Slot /\ NoActs \in [Seat -> Slot]
         /\ \A m \in Slot : m.target \in Seat \cup {Nobody}
         /\ \A m \in WwMove : m # NoAct
         /\ \A m \in WwMove : m.target # Stranger => m \in Slot
BY Sizes DEF Slot, NoAct, NoActs, WwMove, Act

LEMMA StateFields ==
  ASSUME NEW s \in WwState
  PROVE  /\ s.roles \in [Seat -> Role] /\ s.day \in Nat /\ s.phase \in Phase /\ s.round \in Nat
         /\ s.alive \in [Seat -> BOOLEAN]
         /\ s.cause \in [Seat -> {"none", "wolves", "lynch", "abandoned"}]
         /\ s.nightActs \in [Seat -> Slot] /\ s.said \in [Seat -> Slot] /\ s.ballots \in [Seat -> Slot]
         /\ s.lastGuard \in SeatOrNobody /\ s.accused \in [Seat -> Nat]
         /\ s.defender \in SeatOrNobody /\ s.defended \in BOOLEAN
         /\ Living(s) \in SUBSET Seat /\ Wolves(s) \in SUBSET Seat
BY DEF WwState, Living, Wolves

\* A seat that has died is not revived, and roles are dealt once.
Onward(s, t) == t.roles = s.roles /\ Living(t) \subseteq Living(s)

LEMMA DiesTyped ==
  ASSUME NEW s \in WwState, NEW q \in Seat, NEW why \in {"wolves", "lynch", "abandoned"}
  PROVE  /\ Dies(s, q, why) \in WwState /\ Onward(s, Dies(s, q, why))
         /\ Living(Dies(s, q, why)) = Living(s) \ {q}
         /\ Dies(s, q, why).phase = s.phase /\ Dies(s, q, why).defender = s.defender
         /\ Dies(s, q, why).day = s.day
BY DEF Dies, WwState, Onward, Living

LEMMA ResolveNightTyped ==
  ASSUME WerewolfAssumption, NEW s \in WwState
  PROVE  /\ ResolveNight(s) \in WwState /\ Onward(s, ResolveNight(s))
         /\ ResolveNight(s).phase = "day_talk" /\ ResolveNight(s).said = NoActs
<1> DEFINE acting(t) == {p \in Living(s) : s.nightActs[p].t = t}
           chosen(t) == IF acting(t) = {} THEN Nobody ELSE s.nightActs[Lowest(acting(t))].target
           victim    == chosen("kill")
           guarded   == chosen("guard")
           dawn      == IF victim \in {Nobody, guarded} THEN s ELSE Dies(s, victim, "wolves")
<1>1. ASSUME NEW t PROVE chosen(t) \in Seat \cup {Nobody}
  <2>1. acting(t) \in SUBSET Seat BY StateFields
  <2>2. ASSUME acting(t) # {} PROVE s.nightActs[Lowest(acting(t))] \in Slot
    <3> HIDE DEF acting
    <3>1. Lowest(acting(t)) \in Seat BY <2>1, <2>2, LowestIsIn
    <3> QED BY <3>1, StateFields
  <2> HIDE DEF acting
  <2> QED BY <2>2, SlotFacts
<1>2. victim \in Seat \cup {Nobody} /\ guarded \in Seat \cup {Nobody} BY <1>1
<1>3. ResolveNight(s) =
        [dawn EXCEPT !.lastGuard = IF guarded = Nobody THEN @ ELSE guarded,
                     !.nightActs = NoActs, !.said = NoActs, !.round = 0, !.phase = "day_talk"]
  BY DEF ResolveNight
<1> HIDE DEF victim, guarded, chosen, acting
<1>4. dawn \in WwState /\ Onward(s, dawn) BY <1>2, DiesTyped DEF Onward
<1> HIDE DEF dawn
<1> DEFINE guard == IF guarded = Nobody THEN dawn.lastGuard ELSE guarded
<1>5. guard \in SeatOrNobody /\ "day_talk" \in Phase BY <1>2, <1>4, StateFields DEF Phase, SeatOrNobody
<1>6. ResolveNight(s) = [dawn EXCEPT !.lastGuard = guard, !.nightActs = NoActs, !.said = NoActs,
                                     !.round = 0, !.phase = "day_talk"]
  BY <1>3
<1> HIDE DEF guard
<1>7. ResolveNight(s) \in WwState
  <2>1. [dawn EXCEPT !.lastGuard = guard, !.nightActs = NoActs, !.said = NoActs, !.round = 0, !.phase = "day_talk"]
          \in WwState
    BY <1>4, <1>5, SlotFacts DEF WwState
  <2> QED BY <1>6, <2>1
<1>8. /\ ResolveNight(s).roles = dawn.roles /\ ResolveNight(s).alive = dawn.alive
      /\ ResolveNight(s).phase = "day_talk" /\ ResolveNight(s).said = NoActs
  BY <1>4, <1>6 DEF WwState
<1> QED BY <1>4, <1>7, <1>8 DEF Onward, Living

LEMMA DrainSaidTyped ==
  ASSUME WerewolfAssumption, NEW s \in WwState
  PROVE  /\ DrainSaid(s) \in WwState /\ Onward(s, DrainSaid(s)) /\ Living(DrainSaid(s)) = Living(s)
         /\ DrainSaid(s).phase = s.phase /\ DrainSaid(s).said = NoActs
<1> DEFINE count(q) == Cardinality({p \in Seat : s.said[p] = Act("accuse", q)})
<1>1. \A q \in Seat : count(q) \in Nat BY Counted
<1>2. DrainSaid(s) = [s EXCEPT !.accused = [q \in Seat |-> s.accused[q] + count(q)], !.said = NoActs]
  BY DEF DrainSaid
<1> HIDE DEF count
<1>3. [q \in Seat |-> s.accused[q] + count(q)] \in [Seat -> Nat] BY <1>1, StateFields
<1> QED BY <1>2, <1>3, SlotFacts DEF WwState, Onward, Living

LEMMA MostAccusedLives ==
  ASSUME WerewolfAssumption, NEW s \in WwState, MostAccused(s) # Nobody
  PROVE  MostAccused(s) \in Living(s)
<1> DEFINE worst == {q \in Living(s) : /\ s.accused[q] > 0
                                       /\ \A r \in Living(s) : s.accused[q] >= s.accused[r]}
<1>1. MostAccused(s) = IF worst = {} THEN Nobody ELSE Lowest(worst) BY DEF MostAccused
<1>2. worst \in SUBSET Living(s) /\ worst \in SUBSET Seat BY StateFields
<1> HIDE DEF worst
<1> QED BY <1>1, <1>2, LowestIsIn

LEMMA OpenVoteTyped ==
  ASSUME WerewolfAssumption, NEW s \in WwState
  PROVE  /\ OpenVote(s) \in WwState /\ Onward(s, OpenVote(s)) /\ Living(OpenVote(s)) = Living(s)
         /\ OpenVote(s).phase = "day_vote" /\ OpenVote(s).ballots = NoActs
<1> DEFINE d == DrainSaid(s)
<1>1. d \in WwState /\ Onward(s, d) /\ Living(d) = Living(s) BY DrainSaidTyped
<1>2. OpenVote(s) = [d EXCEPT !.ballots = NoActs, !.phase = "day_vote"] BY DEF OpenVote
<1> HIDE DEF d
<1>3. OpenVote(s) \in WwState BY <1>1, <1>2, SlotFacts DEF WwState, Phase
<1>4. /\ OpenVote(s).roles = d.roles /\ OpenVote(s).alive = d.alive
      /\ OpenVote(s).phase = "day_vote" /\ OpenVote(s).ballots = NoActs
  BY <1>1, <1>2 DEF WwState
<1> QED BY <1>1, <1>3, <1>4 DEF Onward, Living

LEMMA EndTalkTyped ==
  ASSUME WerewolfAssumption, NEW s \in WwState, s.phase = "day_talk"
  PROVE  /\ EndTalk(s) \in WwState /\ Onward(s, EndTalk(s)) /\ Living(EndTalk(s)) = Living(s)
         /\ \/ EndTalk(s).phase = "day_talk" /\ EndTalk(s).said = NoActs
            \/ EndTalk(s).phase = "day_vote" /\ EndTalk(s).ballots = NoActs
            \/ /\ EndTalk(s).phase = "day_defense" /\ ~EndTalk(s).defended
               /\ EndTalk(s).defender \in Living(s)
<1> DEFINE heard == DrainSaid(s)
           d == MostAccused(heard)
<1>1. heard \in WwState /\ Onward(s, heard) /\ Living(heard) = Living(s) /\ heard.phase = "day_talk"
      /\ heard.said = NoActs
  BY DrainSaidTyped
<1>2. d # Nobody => d \in Living(s) BY <1>1, MostAccusedLives
<1>3. Living(s) \subseteq Seat BY StateFields
<1>4. EndTalk(s) =
        IF s.round + 1 < TalkRounds THEN [heard EXCEPT !.round = @ + 1]
        ELSE IF d = Nobody THEN OpenVote([heard EXCEPT !.round = 0])
        ELSE [heard EXCEPT !.round = 0, !.defender = d, !.defended = FALSE, !.phase = "day_defense"]
  BY DEF EndTalk
<1> HIDE DEF heard, d
<1>5. CASE s.round + 1 < TalkRounds
  BY <1>1, <1>4, <1>5 DEF WwState, Onward, Living
<1>6. CASE ~(s.round + 1 < TalkRounds) /\ d = Nobody
  <2> DEFINE r == [heard EXCEPT !.round = 0]
  <2>1. r \in WwState /\ Onward(heard, r) /\ Living(r) = Living(heard)
    BY <1>1 DEF WwState, Onward, Living
  <2>2. EndTalk(s) = OpenVote(r) BY <1>4, <1>6
  <2> HIDE DEF r
  <2> QED BY <1>1, <2>1, <2>2, OpenVoteTyped DEF Onward
<1>7. CASE ~(s.round + 1 < TalkRounds) /\ d # Nobody
  <2>1. EndTalk(s) = [heard EXCEPT !.round = 0, !.defender = d, !.defended = FALSE, !.phase = "day_defense"]
    BY <1>4, <1>7
  <2>2. d \in SeatOrNobody /\ "day_defense" \in Phase BY <1>2, <1>3, <1>7 DEF Phase, SeatOrNobody
  <2>3. [heard EXCEPT !.round = 0, !.defender = d, !.defended = FALSE, !.phase = "day_defense"] \in WwState
    BY <1>1, <2>2 DEF WwState
  <2>5. EndTalk(s) \in WwState BY <2>1, <2>3
  <2>4. /\ EndTalk(s).roles = heard.roles /\ EndTalk(s).alive = heard.alive
        /\ EndTalk(s).phase = "day_defense" /\ ~EndTalk(s).defended /\ EndTalk(s).defender = d
    BY <1>1, <2>1 DEF WwState
  <2> QED BY <1>1, <1>2, <1>7, <2>5, <2>4 DEF Onward, Living
<1> QED BY <1>5, <1>6, <1>7

LEMMA DuskTyped ==
  ASSUME WerewolfAssumption, NEW s \in WwState
  PROVE  /\ Dusk(s) \in WwState /\ Onward(s, Dusk(s)) /\ Living(Dusk(s)) = Living(s)
         /\ Dusk(s).phase = "night" /\ Dusk(s).nightActs = NoActs
<1>1. [q \in Seat |-> 0] \in [Seat -> Nat] /\ s.day + 1 \in Nat /\ "night" \in Phase
  BY StateFields DEF Phase
<1>2. Dusk(s) \in WwState BY <1>1, SlotFacts DEF Dusk, WwState, SeatOrNobody
<1>3. /\ Dusk(s).roles = s.roles /\ Dusk(s).alive = s.alive
      /\ Dusk(s).phase = "night" /\ Dusk(s).nightActs = NoActs
  BY DEF Dusk, WwState
<1> QED BY <1>2, <1>3 DEF Onward, Living

LEMMA ResolveVoteTyped ==
  ASSUME WerewolfAssumption, NEW s \in WwState, s.phase = "day_vote"
  PROVE  /\ ResolveVote(s) \in WwState /\ Onward(s, ResolveVote(s))
         /\ \/ ResolveVote(s).phase = "day_vote" /\ Terminal(ResolveVote(s))
            \/ ResolveVote(s).phase = "night" /\ ResolveVote(s).nightActs = NoActs
<1> DEFINE tally(q) == Cardinality({p \in Seat : s.ballots[p] = Act("vote", q)})
           ahead == {q \in Living(s) : /\ tally(q) > 0
                                       /\ \A r \in Living(s) \ {q} : tally(q) > tally(r)}
           counted == IF ahead = {} THEN s ELSE Dies(s, Lowest(ahead), "lynch")
<1>1. ResolveVote(s) = IF Terminal(counted) THEN counted ELSE Dusk(counted) BY DEF ResolveVote
<1>2. ahead \in SUBSET Seat BY StateFields
<1> HIDE DEF ahead
<1>3. ahead # {} => Lowest(ahead) \in Seat BY <1>2, LowestIsIn
<1>4. counted \in WwState /\ Onward(s, counted) /\ counted.phase = "day_vote"
  BY <1>3, DiesTyped DEF Onward
<1> HIDE DEF counted
<1>5. CASE Terminal(counted) BY <1>1, <1>4, <1>5
<1>6. CASE ~Terminal(counted) BY <1>1, <1>4, <1>6, DuskTyped DEF Onward
<1> QED BY <1>5, <1>6

-----------------------------------------------------------------------------
(* settle(): two passes are enough.                                        *)

LEMMA SomebodyLives ==
  ASSUME WerewolfAssumption, NEW s \in WwState, ~Terminal(s)
  PROVE  Living(s) # {} /\ Wolves(s) \cap Living(s) # {} /\ s.day <= DayLimit
<1>1. Cardinality(Wolves(s) \cap Living(s)) # 0 /\ ~(s.day > DayLimit) BY DEF Terminal
<1>2. Wolves(s) \cap Living(s) # {} BY <1>1, StateFields, Counted
<1> QED BY <1>1, <1>2, Sizes, StateFields

\* Nothing about a game's end is said by its phase or slots.
LEMMA TerminalReads ==
  ASSUME NEW s, NEW t, s.roles = t.roles, s.alive = t.alive, s.day = t.day
  PROVE  Terminal(s) <=> Terminal(t)
BY DEF Terminal, Wolves, Living

LEMMA MoversLive ==
  ASSUME NEW s \in WwState
  PROVE  /\ PlayersToMove(s) \subseteq Living(s) /\ PlayersToMove(s) \subseteq Seat
         /\ PlayersToMove(s) # {} => s.phase # "over" /\ ~Terminal(s)
BY StateFields DEF PlayersToMove

LEMMA EmptySlotsWait ==
  ASSUME NEW s \in WwState, ~Terminal(s), s.phase \in {"night", "day_talk", "day_vote"}, Slots(s) = NoActs
  PROVE  PlayersToMove(s) = Living(s)
BY StateFields DEF PlayersToMove, NoActs

LEMMA RestingIsFixed ==
  ASSUME WerewolfAssumption, NEW s \in RestingState
  PROVE  Advance(s) = s
<1>1. s \in WwState BY DEF RestingState
<1>2. CASE Terminal(s)
  <2>1. s.phase = "over" BY <1>2 DEF RestingState
  <2> QED BY <2>1 DEF Advance
<1>3. CASE ~Terminal(s)
  <2>1. PICK p \in PlayersToMove(s) : TRUE BY <1>3 DEF RestingState
  <2>2. p \in Living(s) /\ p \in Seat /\ s.phase # "over" BY <1>1, <2>1, MoversLive
  <2>3. CASE s.phase = "day_defense"
    <3>1. p = s.defender /\ ~s.defended /\ s.alive[p]
      BY <1>3, <2>1, <2>2, <2>3 DEF PlayersToMove, Living
    <3>2. ~DefenceDone(s) BY <2>2, <3>1, Sizes DEF DefenceDone
    <3> QED BY <1>3, <2>3, <3>2 DEF Advance
  <2>4. CASE s.phase # "day_defense"
    <3>1. Slots(s)[p] = NoAct BY <1>3, <2>1, <2>2, <2>4 DEF PlayersToMove
    <3>2. \E q \in Living(s) : Slots(s)[q] = NoAct BY <2>2, <3>1
    <3> QED BY <1>3, <2>2, <2>4, <3>2 DEF Advance
  <2> QED BY <2>3, <2>4
<1> QED BY <1>2, <1>3

\* A game that is decided is over after a pass.
LEMMA DecidedIsOver ==
  ASSUME WerewolfAssumption, NEW s \in WwState, s.phase # "over", Terminal(s)
  PROVE  Advance(s) \in RestingState /\ Onward(s, Advance(s)) /\ Terminal(Advance(s))
<1>1. Advance(s) = [s EXCEPT !.phase = "over"] BY DEF Advance
<1> DEFINE t == [s EXCEPT !.phase = "over"]
<1>2. t \in WwState /\ t.roles = s.roles /\ t.alive = s.alive /\ t.day = s.day /\ t.phase = "over"
  BY DEF WwState, Phase
<1>3. Terminal(t) BY <1>2, TerminalReads
<1>4. t \in RestingState BY <1>2, <1>3 DEF RestingState
<1>5. Onward(s, t) BY <1>2 DEF Onward, Living
<1> QED BY <1>1, <1>3, <1>4, <1>5

\* Otherwise a pass leaves a state that waits for somebody, or that is decided.
LEMMA OnePass ==
  ASSUME WerewolfAssumption, NEW s \in WwState, s.phase # "over", ~Terminal(s)
  PROVE  /\ Advance(s) \in WwState /\ Onward(s, Advance(s)) /\ Advance(s).phase # "over"
         /\ Terminal(Advance(s)) \/ PlayersToMove(Advance(s)) # {}
<1> DEFINE t == Advance(s)
           waits == \E p \in Living(s) : Slots(s)[p] = NoAct
<1>1. Advance(s) =
        CASE s.phase = "night" /\ ~waits -> ResolveNight(s)
          [] s.phase = "day_talk" /\ ~waits -> EndTalk(s)
          [] s.phase = "day_defense" /\ DefenceDone(s) -> OpenVote(s)
          [] s.phase = "day_vote" /\ ~waits -> ResolveVote(s)
          [] OTHER -> s
  BY DEF Advance
<1>2. s.phase \in {"night", "day_talk", "day_defense", "day_vote"} BY StateFields DEF Phase
<1> HIDE DEF waits
<1>3. CASE s.phase = "night" /\ ~waits
  <2>1. t = ResolveNight(s) BY <1>1, <1>3
  <2>2. t \in WwState /\ Onward(s, t) /\ t.phase = "day_talk" /\ Slots(t) = NoActs
    BY <2>1, ResolveNightTyped DEF Slots
  <2> HIDE DEF t
  <2> QED BY <2>2, SomebodyLives, EmptySlotsWait DEF t
<1>4. CASE s.phase = "day_talk" /\ ~waits
  <2>1. t = EndTalk(s) BY <1>1, <1>4
  <2>2. t \in WwState /\ Onward(s, t) /\ Living(t) = Living(s)
    BY <1>4, <2>1, EndTalkTyped
  <2>3. \/ t.phase = "day_talk" /\ Slots(t) = NoActs
        \/ t.phase = "day_vote" /\ Slots(t) = NoActs
        \/ t.phase = "day_defense" /\ ~t.defended /\ t.defender \in Living(t)
    BY <1>4, <2>1, EndTalkTyped DEF Slots
  <2>4. t.phase = "day_defense" => Terminal(t) \/ t.defender \in PlayersToMove(t)
    BY <2>3 DEF PlayersToMove
  <2> HIDE DEF t
  <2> QED BY <2>2, <2>3, <2>4, SomebodyLives, EmptySlotsWait DEF t
<1>5. CASE s.phase = "day_defense" /\ DefenceDone(s)
  <2>1. t = OpenVote(s) BY <1>1, <1>5
  <2>2. t \in WwState /\ Onward(s, t) /\ t.phase = "day_vote" /\ Slots(t) = NoActs
    BY <2>1, OpenVoteTyped DEF Slots
  <2> HIDE DEF t
  <2> QED BY <2>2, SomebodyLives, EmptySlotsWait DEF t
<1>6. CASE s.phase = "day_vote" /\ ~waits
  <2>1. t = ResolveVote(s) BY <1>1, <1>6
  <2>2. t \in WwState /\ Onward(s, t)
        /\ \/ t.phase = "day_vote" /\ Terminal(t)
           \/ t.phase = "night" /\ Slots(t) = NoActs
    BY <1>6, <2>1, ResolveVoteTyped DEF Slots
  <2> HIDE DEF t
  <2> QED BY <2>2, SomebodyLives, EmptySlotsWait DEF t
<1>7. CASE s.phase # "day_defense" /\ waits
  <2>1. t = s BY <1>1, <1>7
  <2>2. PICK p \in Living(s) : Slots(s)[p] = NoAct BY <1>7 DEF waits
  <2>3. p \in PlayersToMove(s) BY <1>7, <2>2 DEF PlayersToMove
  <2> QED BY <2>1, <2>3 DEF Onward
<1>8. CASE s.phase = "day_defense" /\ ~DefenceDone(s)
  <2>1. t = s BY <1>1, <1>8
  <2>2. s.defender \in Living(s) /\ ~s.defended
    BY <1>8, StateFields DEF DefenceDone, Living, SeatOrNobody
  <2>3. s.defender \in PlayersToMove(s) BY <1>8, <2>2 DEF PlayersToMove
  <2> QED BY <2>1, <2>3 DEF Onward
<1> QED BY <1>2, <1>3, <1>4, <1>5, <1>6, <1>7, <1>8

LEMMA TwoPasses ==
  ASSUME WerewolfAssumption, NEW s \in WwState, s.phase # "over"
  PROVE  /\ Advance(Advance(s)) \in RestingState /\ Onward(s, Advance(Advance(s)))
         /\ Terminal(s) => Terminal(Advance(Advance(s)))
<1> DEFINE t == Advance(s)
<1>1. CASE Terminal(s)
  <2>1. t \in RestingState /\ Onward(s, t) /\ Terminal(t) BY <1>1, DecidedIsOver
  <2>2. Advance(t) = t BY <2>1, RestingIsFixed
  <2> QED BY <2>1, <2>2
<1>2. CASE ~Terminal(s)
  <2>1. t \in WwState /\ Onward(s, t) /\ t.phase # "over" /\ (Terminal(t) \/ PlayersToMove(t) # {})
    BY <1>2, OnePass
  <2> HIDE DEF t
  <2>2. CASE Terminal(t)
    <3>1. Advance(t) \in RestingState /\ Onward(t, Advance(t)) BY <2>1, <2>2, DecidedIsOver
    <3> QED BY <1>2, <2>1, <3>1 DEF Onward, t
  <2>3. CASE ~Terminal(t)
    <3>1. t \in RestingState BY <2>1, <2>3 DEF RestingState
    <3>2. Advance(t) = t BY <3>1, RestingIsFixed
    <3> QED BY <1>2, <2>1, <3>1, <3>2 DEF t
  <2> QED BY <2>2, <2>3
<1> QED BY <1>1, <1>2

LEMMA Fixpoint ==
  ASSUME WerewolfAssumption, NEW s, Advance(Advance(Advance(s))) = Advance(Advance(s))
  PROVE  Settle(s) = Advance(Advance(s))
<1> DEFINE after == CHOOSE f : f = [n \in 0 .. MaxSteps |-> IF n = 0 THEN s ELSE Advance(f[n - 1])]
           g == [n \in 0 .. MaxSteps |->
                   IF n = 0 THEN s ELSE IF n = 1 THEN Advance(s) ELSE Advance(Advance(s))]
           T == {n \in 0 .. MaxSteps : after[n] # g[n]}
<1>1. g = [n \in 0 .. MaxSteps |-> IF n = 0 THEN s ELSE Advance(g[n - 1])]
  <2> SUFFICES ASSUME NEW n \in 0 .. MaxSteps PROVE g[n] = IF n = 0 THEN s ELSE Advance(g[n - 1])
    OBVIOUS
  <2>1. n # 0 => n - 1 \in 0 .. MaxSteps BY Sizes
  <2> QED BY <2>1
<1>2. after = [n \in 0 .. MaxSteps |-> IF n = 0 THEN s ELSE Advance(after[n - 1])]
  <2> HIDE DEF g
  <2> QED BY <1>1
<1> HIDE DEF after
<1>3. ASSUME T # {} PROVE FALSE
  <2>1. T \subseteq Nat BY Sizes
  <2>2. PICK n \in T : \A m \in T : n <= m BY <1>3, <2>1, LeastNumber
  <2>3. n # 0 BY <1>2, <2>2, Sizes
  <2>4. n - 1 \in 0 .. MaxSteps /\ n - 1 \notin T BY <2>2, <2>3, Sizes
  <2>5. after[n - 1] = g[n - 1] BY <2>4
  <2>6. after[n] = Advance(g[n - 1]) BY <1>2, <2>2, <2>3, <2>5
  <2>7. g[n] = Advance(g[n - 1]) BY <1>1, <2>2, <2>3
  <2> QED BY <2>2, <2>6, <2>7
<1>4. MaxSteps \in 0 .. MaxSteps /\ MaxSteps # 0 /\ MaxSteps # 1 BY Sizes
<1>5. after[MaxSteps] = g[MaxSteps] BY <1>3, <1>4
<1>6. g[MaxSteps] = Advance(Advance(s)) BY <1>4
<1>7. Settle(s) = after[MaxSteps] BY DEF Settle, after
<1> QED BY <1>5, <1>6, <1>7

LEMMA Settled ==
  ASSUME WerewolfAssumption, NEW s \in WwState, s.phase # "over"
  PROVE  /\ Settle(s) \in RestingState /\ Onward(s, Settle(s))
         /\ Terminal(s) => Terminal(Settle(s))
<1>1. Advance(Advance(Advance(s))) = Advance(Advance(s)) BY TwoPasses, RestingIsFixed
<1> QED BY <1>1, Fixpoint, TwoPasses

LEMMA RestingSettles ==
  ASSUME WerewolfAssumption, NEW s \in RestingState
  PROVE  Settle(s) = s
<1>1. Advance(s) = s BY RestingIsFixed
<1>2. Advance(Advance(Advance(s))) = Advance(Advance(s)) BY <1>1
<1> QED BY <1>1, <1>2, Fixpoint

-----------------------------------------------------------------------------
(* A move, and a seat that is lost, on the way to settle().                *)

Filled(s, p, m) ==
  CASE s.phase = "night" -> [s EXCEPT !.nightActs[p] = m]
    [] s.phase = "day_talk" -> [s EXCEPT !.said[p] = m]
    [] s.phase = "day_defense" -> [s EXCEPT !.said[p] = m, !.defended = TRUE]
    [] s.phase = "day_vote" -> [s EXCEPT !.ballots[p] = m]

LEMMA ApplyIs == ASSUME NEW s, NEW p, NEW m PROVE Apply(s, p, m) = Settle(Filled(s, p, m))
BY DEF Apply, Filled

LEMMA FilledTyped ==
  ASSUME NEW s \in WwState, NEW p \in Seat, NEW m \in Slot, s.phase # "over"
  PROVE  /\ Filled(s, p, m) \in WwState /\ Filled(s, p, m).phase = s.phase
         /\ Filled(s, p, m).roles = s.roles /\ Filled(s, p, m).alive = s.alive
         /\ Filled(s, p, m).day = s.day /\ Filled(s, p, m).lastGuard = s.lastGuard
         /\ s.phase # "day_defense" => Slots(Filled(s, p, m)) = [Slots(s) EXCEPT ![p] = m]
<1>1. s.phase \in {"night", "day_talk", "day_defense", "day_vote"} BY StateFields DEF Phase
<1>2. CASE s.phase = "night" BY <1>2 DEF Filled, Slots, WwState
<1>3. CASE s.phase = "day_talk" BY <1>3 DEF Filled, Slots, WwState
<1>4. CASE s.phase = "day_defense" BY <1>4 DEF Filled, Slots, WwState
<1>5. CASE s.phase = "day_vote" BY <1>5 DEF Filled, Slots, WwState
<1> QED BY <1>1, <1>2, <1>3, <1>4, <1>5

LEMMA AbandonedTyped ==
  ASSUME WerewolfAssumption, NEW s \in WwState, NEW p \in Seat
  PROVE  /\ Abandoned(s, p) \in WwState /\ Abandoned(s, p).phase = s.phase
         /\ Onward(s, Abandoned(s, p)) /\ Living(Abandoned(s, p)) = Living(s) \ {p}
         /\ s.phase \notin {"day_defense", "over"} =>
              \A q \in Seat \ {p} : Slots(Abandoned(s, p))[q] = Slots(s)[q]
<1> DEFINE dead == Dies(s, p, "abandoned")
           gone == [dead EXCEPT !.nightActs[p] = NoAct, !.said[p] = NoAct, !.ballots[p] = NoAct]
<1>1. /\ dead \in WwState /\ Onward(s, dead) /\ Living(dead) = Living(s) \ {p} /\ dead.phase = s.phase
      /\ dead.nightActs = s.nightActs /\ dead.said = s.said /\ dead.ballots = s.ballots
  <2>1. dead.nightActs = s.nightActs /\ dead.said = s.said /\ dead.ballots = s.ballots
    BY DEF Dies, WwState
  <2> QED BY <2>1, DiesTyped
<1> HIDE DEF dead
<1>2. /\ gone \in WwState /\ gone.roles = dead.roles /\ gone.alive = dead.alive /\ gone.phase = s.phase
      /\ gone.nightActs = [s.nightActs EXCEPT ![p] = NoAct]
      /\ gone.said = [s.said EXCEPT ![p] = NoAct] /\ gone.ballots = [s.ballots EXCEPT ![p] = NoAct]
  BY <1>1, SlotFacts DEF WwState
<1>3. Abandoned(s, p) = IF s.defender = p THEN [gone EXCEPT !.defender = Nobody, !.defended = TRUE] ELSE gone
  BY DEF Abandoned, dead
<1> HIDE DEF gone
<1> DEFINE a == Abandoned(s, p)
<1>4. /\ a \in WwState /\ a.roles = gone.roles /\ a.alive = gone.alive /\ a.phase = s.phase
      /\ a.nightActs = gone.nightActs /\ a.said = gone.said /\ a.ballots = gone.ballots
  <2>1. Nobody \in SeatOrNobody BY DEF SeatOrNobody
  <2>2. CASE s.defender = p
    <3>1. a = [gone EXCEPT !.defender = Nobody, !.defended = TRUE] BY <1>3, <2>2
    <3>2. [gone EXCEPT !.defender = Nobody, !.defended = TRUE] \in WwState BY <1>2, <2>1 DEF WwState
    <3> HIDE DEF a
    <3> QED BY <1>2, <3>1, <3>2 DEF WwState
  <2>3. CASE s.defender # p
    <3>1. a = gone BY <1>3, <2>3
    <3> HIDE DEF a
    <3> QED BY <1>2, <3>1
  <2> QED BY <2>2, <2>3
<1> HIDE DEF a
<1>5. Living(a) = Living(s) \ {p} /\ Onward(s, a)
  BY <1>1, <1>2, <1>4 DEF Onward, Living
<1>6. ASSUME s.phase \notin {"day_defense", "over"}, NEW q \in Seat \ {p} PROVE Slots(a)[q] = Slots(s)[q]
  BY <1>2, <1>4, <1>6, StateFields DEF Slots
<1> QED BY <1>4, <1>5, <1>6 DEF a

\* While another seat is waited for a move changes nothing but its slot.
LEMMA OthersWait ==
  ASSUME WerewolfAssumption, NEW s \in WwState, NEW p \in PlayersToMove(s), PlayersToMove(s) # {p},
         NEW m \in Slot \ {NoAct}
  PROVE  /\ Apply(s, p, m) = Filled(s, p, m)
         /\ PlayersToMove(Apply(s, p, m)) = PlayersToMove(s) \ {p}
<1> DEFINE f == Filled(s, p, m)
<1>1. p \in Living(s) /\ p \in Seat /\ s.phase # "over" /\ ~Terminal(s) BY MoversLive
<1>2. PICK q \in PlayersToMove(s) : q # p OBVIOUS
<1>3. s.phase # "day_defense" BY <1>1, <1>2 DEF PlayersToMove
<1>4. /\ f \in WwState /\ f.phase = s.phase /\ f.roles = s.roles /\ f.alive = s.alive /\ f.day = s.day
      /\ Slots(f) = [Slots(s) EXCEPT ![p] = m]
  BY <1>1, <1>3, FilledTyped
<1>5. Slots(s) \in [Seat -> Slot] BY StateFields DEF Slots
<1> HIDE DEF f
<1>6. ~Terminal(f) /\ Living(f) = Living(s) BY <1>1, <1>4, TerminalReads DEF Living
<1>7. PlayersToMove(f) = {r \in Living(s) : Slots(f)[r] = NoAct}
  BY <1>1, <1>3, <1>4, <1>6 DEF PlayersToMove
<1>8. PlayersToMove(s) = {r \in Living(s) : Slots(s)[r] = NoAct}
  BY <1>1, <1>3 DEF PlayersToMove
<1>9. PlayersToMove(f) = PlayersToMove(s) \ {p}
  BY <1>1, <1>4, <1>5, <1>7, <1>8, StateFields
<1>10. f \in RestingState BY <1>2, <1>4, <1>6, <1>9 DEF RestingState
<1>11. Settle(f) = f BY <1>10, RestingSettles
<1> QED BY <1>9, <1>11, ApplyIs DEF f

\* Nor does the loss of a seat take another out of the phase.
LEMMA OthersStay ==
  ASSUME WerewolfAssumption, NEW s \in WwState, NEW p \in PlayersToMove(s), PlayersToMove(s) # {p}
  PROVE  \/ Terminal(ForfeitPlayer(s, p))
         \/ /\ PlayersToMove(ForfeitPlayer(s, p)) = PlayersToMove(s) \ {p}
            /\ ForfeitPlayer(s, p).phase = s.phase
<1> DEFINE a == Abandoned(s, p)
<1>1. p \in Living(s) /\ p \in Seat /\ s.phase # "over" /\ ~Terminal(s) BY MoversLive
<1>2. PICK q \in PlayersToMove(s) : q # p OBVIOUS
<1>3. s.phase # "day_defense" BY <1>1, <1>2 DEF PlayersToMove
<1>4. /\ a \in WwState /\ a.phase = s.phase /\ Living(a) = Living(s) \ {p}
      /\ \A r \in Seat \ {p} : Slots(a)[r] = Slots(s)[r]
  BY <1>1, <1>3, AbandonedTyped
<1>5. ForfeitPlayer(s, p) = Settle(a) BY DEF ForfeitPlayer
<1> HIDE DEF a
<1>6. CASE Terminal(a) BY <1>1, <1>4, <1>5, <1>6, Settled
<1>7. CASE ~Terminal(a)
  <2>1. PlayersToMove(a) = {r \in Living(s) \ {p} : Slots(a)[r] = NoAct}
    BY <1>1, <1>3, <1>4, <1>7 DEF PlayersToMove
  <2>2. PlayersToMove(s) = {r \in Living(s) : Slots(s)[r] = NoAct}
    BY <1>1, <1>3 DEF PlayersToMove
  <2>3. PlayersToMove(a) = PlayersToMove(s) \ {p}
    BY <1>4, <2>1, <2>2, StateFields
  <2>4. a \in RestingState BY <1>2, <1>4, <1>7, <2>3 DEF RestingState
  <2>5. Settle(a) = a BY <2>4, RestingSettles
  <2> QED BY <1>4, <1>5, <2>3, <2>5
<1> QED BY <1>6, <1>7

\* A move of whoever is to move ends in a state that rests.
LEMMA ApplyRests ==
  ASSUME WerewolfAssumption, NEW s \in WwState, NEW p \in PlayersToMove(s), NEW m \in Slot
  PROVE  Apply(s, p, m) \in RestingState /\ Onward(s, Apply(s, p, m))
<1> DEFINE f == Filled(s, p, m)
<1>1. p \in Seat /\ s.phase # "over" BY MoversLive
<1>2. f \in WwState /\ f.phase # "over" /\ f.roles = s.roles /\ Living(f) = Living(s)
  BY <1>1, FilledTyped DEF Living
<1> HIDE DEF f
<1>3. Settle(f) \in RestingState /\ Onward(f, Settle(f)) BY <1>2, Settled
<1>4. Apply(s, p, m) = Settle(f) BY ApplyIs DEF f
<1> QED BY <1>2, <1>3, <1>4 DEF Onward

LEMMA ForfeitRests ==
  ASSUME WerewolfAssumption, NEW s \in RestingState, NEW p \in Seat, ~Terminal(s)
  PROVE  /\ ForfeitPlayer(s, p) \in RestingState /\ Onward(s, ForfeitPlayer(s, p))
         /\ p \notin Living(ForfeitPlayer(s, p))
<1> DEFINE a == Abandoned(s, p)
<1>1. s \in WwState /\ s.phase # "over" BY MoversLive DEF RestingState
<1>2. a \in WwState /\ a.phase = s.phase /\ Onward(s, a) /\ p \notin Living(a)
  BY <1>1, AbandonedTyped
<1>3. ForfeitPlayer(s, p) = Settle(a) BY DEF ForfeitPlayer
<1> HIDE DEF a
<1>4. Settle(a) \in RestingState /\ Onward(a, Settle(a)) BY <1>1, <1>2, Settled
<1> QED BY <1>2, <1>3, <1>4 DEF Onward

-----------------------------------------------------------------------------
(* What a seat is offered and what is accepted.                            *)

LEMMA LegalIsMove ==
  ASSUME WerewolfAssumption, NEW s \in WwState, NEW p \in Seat
  PROVE  LegalMoves(s, p) \subseteq WwMove /\ \A m \in LegalMoves(s, p) : m.target # Stranger
<1>1. Living(s) \subseteq Seat BY StateFields
<1>2. NightMoves(s, p) \subseteq WwMove /\ \A m \in NightMoves(s, p) : m.target # Stranger
  BY <1>1, Sizes DEF NightMoves, OwnNightMoves, WwMove, Act
<1>3. {Act("abstain", Nobody)} \cup {Act("vote", q) : q \in Living(s) \cap Suspects} \subseteq WwMove
  BY <1>1 DEF WwMove
<1>4. {Act("say", Nobody)} \cup {Act("accuse", q) : q \in (Living(s) \cap Suspects) \ {p}} \subseteq WwMove
  BY <1>1 DEF WwMove
<1> QED BY <1>1, <1>2, <1>3, <1>4, Sizes DEF LegalMoves, Act

LEMMA OfferedIsAccepted ==
  ASSUME WerewolfAssumption, NEW s \in WwState, NEW p \in PlayersToMove(s)
  PROVE  /\ LegalMoves(s, p) # {}
         /\ \A m \in LegalMoves(s, p) : Accepts(s, p, m)
         /\ Accepts(s, p, DefaultMove(s, p)) /\ DefaultMove(s, p) \in WwMove
         /\ DefaultMove(s, p).target = Nobody
<1>1. Living(s) \subseteq Seat /\ p \in Seat /\ s.phase # "over" BY StateFields, MoversLive
<1>2. \A q \in Living(s) : s.alive[q] BY DEF Living
<1>3. \A q \in Seat : s.roles[q] = "werewolf" <=> q \in Wolves(s) BY DEF Wolves
<1>4. CASE s.phase = "night"
  <2>1. LegalMoves(s, p) = OwnNightMoves(s, p) BY <1>4 DEF LegalMoves, NightMoves
  <2>2. OwnNightMoves(s, p) # {} BY DEF OwnNightMoves
  <2>3. ASSUME NEW m \in OwnNightMoves(s, p) PROVE Accepts(s, p, m)
    BY <1>1, <1>2, <1>3, <1>4, <2>3, Sizes DEF Accepts, OwnNightMoves, Act
  <2>4. Accepts(s, p, DefaultMove(s, p)) BY <1>4 DEF Accepts, DefaultMove, Act
  <2> QED BY <1>4, <2>1, <2>2, <2>3, <2>4 DEF DefaultMove, WwMove, Act
<1>5. CASE s.phase = "day_vote"
  <2>1. LegalMoves(s, p) = {Act("abstain", Nobody)} \cup {Act("vote", q) : q \in Living(s) \cap Suspects}
    BY <1>5 DEF LegalMoves
  <2>2. \A m \in LegalMoves(s, p) : Accepts(s, p, m)
    BY <1>1, <1>2, <1>5, <2>1 DEF Accepts, Act
  <2>3. Accepts(s, p, DefaultMove(s, p)) BY <1>5 DEF Accepts, DefaultMove, Act
  <2> QED BY <1>5, <2>1, <2>2, <2>3 DEF DefaultMove, WwMove, Act
<1>6. CASE s.phase \notin {"night", "day_vote"}
  <2>1. LegalMoves(s, p) = {Act("say", Nobody)} \cup {Act("accuse", q) : q \in (Living(s) \cap Suspects) \ {p}}
    BY <1>6 DEF LegalMoves
  <2>2. \A m \in LegalMoves(s, p) : Accepts(s, p, m)
    BY <1>1, <1>2, <1>6, <2>1 DEF Accepts, Act
  <2>3. Accepts(s, p, DefaultMove(s, p)) BY <1>6 DEF Accepts, DefaultMove, Act
  <2> QED BY <1>6, <2>1, <2>2, <2>3 DEF DefaultMove, WwMove, Act
<1> QED BY <1>4, <1>5, <1>6

\* What a seat is offered, and what is accepted of it, another's slot says
\* nothing of.
LEMMA OffersStand ==
  ASSUME WerewolfAssumption, NEW s \in WwState, NEW p \in PlayersToMove(s), PlayersToMove(s) # {p},
         NEW m \in Slot \ {NoAct}, NEW q \in PlayersToMove(s), q # p
  PROVE  /\ LegalMoves(Apply(s, p, m), q) = LegalMoves(s, q)
         /\ \A n : Accepts(Apply(s, p, m), q, n) <=> Accepts(s, q, n)
<1> DEFINE f == Filled(s, p, m)
<1>1. p \in Seat /\ s.phase # "over" BY MoversLive
<1>2. Apply(s, p, m) = f /\ q \in PlayersToMove(f) BY OthersWait
<1>3. f.phase = s.phase /\ f.roles = s.roles /\ f.alive = s.alive /\ f.lastGuard = s.lastGuard
  BY <1>1, FilledTyped
<1> HIDE DEF f
<1>4. Living(f) = Living(s) /\ Wolves(f) = Wolves(s) BY <1>3 DEF Living, Wolves
<1>5. LegalMoves(f, q) = LegalMoves(s, q)
  BY <1>2, <1>3, <1>4 DEF LegalMoves, NightMoves, OwnNightMoves
<1>6. \A n : Accepts(f, q, n) <=> Accepts(s, q, n) BY <1>2, <1>3 DEF Accepts
<1> QED BY <1>2, <1>5, <1>6

LEMMA FillsCommute ==
  ASSUME NEW s \in WwState, NEW p \in Seat, NEW q \in Seat, p # q, NEW m \in Slot, NEW n \in Slot,
         s.phase \in {"night", "day_talk", "day_vote"}
  PROVE  Filled(Filled(s, p, m), q, n) = Filled(Filled(s, q, n), p, m)
<1> DEFINE both(f) == [[f EXCEPT ![p] = m] EXCEPT ![q] = n]
           back(f) == [[f EXCEPT ![q] = n] EXCEPT ![p] = m]
<1>1. ASSUME NEW f \in [Seat -> Slot] PROVE both(f) = back(f) OBVIOUS
<1>2. both(s.nightActs) = back(s.nightActs) /\ both(s.said) = back(s.said) /\ both(s.ballots) = back(s.ballots)
  BY <1>1, StateFields
<1>3. CASE s.phase = "night"
  <2>1. /\ Filled(Filled(s, p, m), q, n) = [s EXCEPT !.nightActs = both(s.nightActs)]
        /\ Filled(Filled(s, q, n), p, m) = [s EXCEPT !.nightActs = back(s.nightActs)]
    BY <1>3 DEF Filled, WwState
  <2> QED BY <1>2, <2>1
<1>4. CASE s.phase = "day_talk"
  <2>1. /\ Filled(Filled(s, p, m), q, n) = [s EXCEPT !.said = both(s.said)]
        /\ Filled(Filled(s, q, n), p, m) = [s EXCEPT !.said = back(s.said)]
    BY <1>4 DEF Filled, WwState
  <2> QED BY <1>2, <2>1
<1>5. CASE s.phase = "day_vote"
  <2>1. /\ Filled(Filled(s, p, m), q, n) = [s EXCEPT !.ballots = both(s.ballots)]
        /\ Filled(Filled(s, q, n), p, m) = [s EXCEPT !.ballots = back(s.ballots)]
    BY <1>5 DEF Filled, WwState
  <2> QED BY <1>2, <2>1
<1> QED BY <1>3, <1>4, <1>5

LEMMA OrdersAgreeAt ==
  ASSUME WerewolfAssumption, state \in RestingState
  PROVE  OrderIndependent
<1>1. state \in WwState BY DEF RestingState
<1>2. ASSUME NEW p \in PlayersToMove(state), NEW m \in LegalMoves(state, p)
      PROVE  m \in Slot \ {NoAct}
  <2>1. p \in Seat BY <1>1, MoversLive
  <2> QED BY <1>1, <1>2, <2>1, LegalIsMove, SlotFacts
<1>3. ASSUME NEW p \in PlayersToMove(state), NEW q \in PlayersToMove(state), p # q,
             NEW m \in LegalMoves(state, p), NEW n \in LegalMoves(state, q)
      PROVE  Apply(Apply(state, p, m), q, n) = Apply(Apply(state, q, n), p, m)
  <2>1. m \in Slot \ {NoAct} /\ n \in Slot \ {NoAct} BY <1>2, <1>3
  <2>2. p \in Seat /\ q \in Seat /\ state.phase # "over" BY <1>1, MoversLive
  <2>3. state.phase # "day_defense" BY <1>3, <2>2 DEF PlayersToMove
  <2>4. state.phase \in {"night", "day_talk", "day_vote"} BY <1>1, <2>2, <2>3, StateFields DEF Phase
  <2>5. Apply(state, p, m) = Filled(state, p, m) /\ Apply(state, q, n) = Filled(state, q, n)
    BY <1>1, <1>3, <2>1, OthersWait
  <2>6. Filled(Filled(state, p, m), q, n) = Filled(Filled(state, q, n), p, m)
    BY <1>1, <1>3, <2>1, <2>2, <2>4, FillsCommute
  <2> QED BY <2>5, <2>6, ApplyIs
<1>4. ASSUME NEW p \in PlayersToMove(state), NEW q \in PlayersToMove(state), p # q,
             NEW m \in LegalMoves(state, p)
      PROVE  /\ LegalMoves(Apply(state, p, m), q) = LegalMoves(state, q)
             /\ \A n \in LegalMoves(state, q) : Accepts(Apply(state, p, m), q, n)
  <2>1. m \in Slot \ {NoAct} /\ PlayersToMove(state) # {p} BY <1>2, <1>4
  <2>2. \A n \in LegalMoves(state, q) : Accepts(state, q, n) BY <1>1, OfferedIsAccepted
  <2> QED BY <1>1, <1>4, <2>1, <2>2, OffersStand
<1>5. ASSUME NEW p \in PlayersToMove(state), PlayersToMove(state) # {p}, NEW m \in LegalMoves(state, p)
      PROVE  PlayersToMove(Apply(state, p, m)) = PlayersToMove(state) \ {p}
  BY <1>1, <1>2, <1>5, OthersWait
<1>6. ASSUME NEW p \in PlayersToMove(state), PlayersToMove(state) # {p}
      PROVE  \/ Terminal(ForfeitPlayer(state, p))
             \/ PlayersToMove(ForfeitPlayer(state, p)) = PlayersToMove(state) \ {p}
  BY <1>1, <1>6, OthersStay
<1> QED BY <1>3, <1>4, <1>5, <1>6 DEF OrderIndependent

-----------------------------------------------------------------------------
(* The states of the game rest.                                            *)

LEMMA InitialRests ==
  ASSUME WerewolfAssumption, NEW deal \in Deals
  PROVE  /\ InitialState(deal) \in RestingState /\ ~Terminal(InitialState(deal))
<1> DEFINE s == InitialState(deal)
           pack == {p \in Seat : deal[p] = "werewolf"}
           rest == {p \in Seat : deal[p] # "werewolf"}
<1>1. deal \in [Seat -> Role] /\ 0 < Cardinality(pack) /\ Cardinality(pack) < Cardinality(rest)
  BY DEF WerewolfAssumption
<1>2. /\ s.roles = deal /\ s.day = 1 /\ s.phase = "night" /\ s.nightActs = NoActs
      /\ s.alive = [p \in Seat |-> TRUE]
  BY DEF InitialState
<1>3. s \in WwState
  <2>1. [p \in Seat |-> TRUE] \in [Seat -> BOOLEAN] /\ [p \in Seat |-> 0] \in [Seat -> Nat]
        /\ [p \in Seat |-> "none"] \in [Seat -> {"none", "wolves", "lynch", "abandoned"}]
    OBVIOUS
  <2>2. Nobody \in SeatOrNobody /\ "night" \in Phase BY DEF SeatOrNobody, Phase
  <2> QED BY <1>1, <2>1, <2>2, SlotFacts DEF InitialState, WwState
<1> HIDE DEF s
<1>4. Living(s) = Seat /\ Wolves(s) = pack BY <1>2 DEF Living, Wolves
<1>5. Wolves(s) \cap Living(s) = pack /\ Living(s) \ Wolves(s) = rest BY <1>4
<1>6. Cardinality(pack) \in Nat /\ Cardinality(rest) \in Nat BY Counted
<1>7. ~Terminal(s)
  <2> HIDE DEF pack, rest
  <2>1. Cardinality(pack) # 0 /\ ~(Cardinality(pack) >= Cardinality(rest)) BY <1>1, <1>6
  <2>2. DayLimit \in Nat \ {0} BY Sizes
  <2>3. ~(s.day > DayLimit) BY <1>2, <2>2
  <2> QED BY <1>5, <2>1, <2>3 DEF Terminal
<1>8. PlayersToMove(s) # {}
  <2>1. Slots(s) = NoActs BY <1>2 DEF Slots
  <2> QED BY <1>2, <1>3, <1>7, <2>1, EmptySlotsWait, SomebodyLives
<1> QED BY <1>3, <1>7, <1>8 DEF RestingState, s

LEMMA AlwaysRests == ASSUME WerewolfAssumption PROVE Spec => []Rests
<1>1. Init => Rests BY InitialRests DEF Init, Rests
<1>2. Rests /\ [Next]_state => Rests'
  <2> SUFFICES ASSUME state \in RestingState, [Next]_state PROVE state' \in RestingState BY DEF Rests
  <2>1. state \in WwState BY DEF RestingState
  <2>2. ASSUME NEW p \in Seat, Play(p) PROVE state' \in RestingState
    <3>1. PICK m \in Acts : Accepts(state, p, m) /\ state' = Apply(state, p, m) BY <2>2 DEF Play
    <3>2. p \in PlayersToMove(state) BY <3>1 DEF Accepts
    <3>3. Suspects \subseteq Seat BY DEF WerewolfAssumption
    <3>4. m \in WwMove /\ m.target # Stranger BY <3>3, Sizes DEF Acts, WwMove, Act
    <3> QED BY <2>1, <3>1, <3>2, <3>4, SlotFacts, ApplyRests
  <2>3. ASSUME NEW p \in Seat, Forfeit(p) PROVE state' \in RestingState
    BY <2>3, ForfeitRests DEF Forfeit
  <2> QED BY <2>2, <2>3 DEF Next
<1> QED BY <1>1, <1>2, PTL DEF Spec

\* OrderIndependent: seats that move in the same phase may move in any order.
THEOREM OrdersAgree == ASSUME WerewolfAssumption PROVE Spec => []OrderIndependent
<1>1. Rests => OrderIndependent BY OrdersAgreeAt DEF Rests
<1> QED BY <1>1, AlwaysRests, PTL

-----------------------------------------------------------------------------
(* The list of legal moves.                                                *)

\* Moves that name a seat, each another one.
OnePerSeat(T) ==
  /\ T \subseteq WwMove
  /\ \A m \in T : m.target \in Seat
  /\ \A m \in T, n \in T : m.target = n.target => m = n

LEMMA NamedMoves ==
  ASSUME WerewolfAssumption, NEW s \in WwState, NEW p \in Seat
  PROVE  OnePerSeat({m \in LegalMoves(s, p) : m.target # Nobody})
<1> DEFINE T == {m \in LegalMoves(s, p) : m.target # Nobody}
<1>1. Living(s) \subseteq Seat BY StateFields
<1>2. \A m \in WwMove : m.target # Nobody /\ m.target # Stranger => m.target \in Seat
  BY DEF WwMove, Act
<1>3. T \subseteq WwMove /\ \A m \in T : m.target \in Seat BY <1>2, LegalIsMove
<1>4. \A m \in T, n \in T : m.target = n.target => m = n
  <2>1. CASE s.phase = "night" /\ s.roles[p] = "werewolf"
    BY <2>1 DEF LegalMoves, NightMoves, OwnNightMoves, Act
  <2>2. CASE s.phase = "night" /\ s.roles[p] = "doctor"
    BY <2>2 DEF LegalMoves, NightMoves, OwnNightMoves, Act
  <2>3. CASE s.phase = "night" /\ s.roles[p] \notin {"werewolf", "doctor"}
    BY <2>3 DEF LegalMoves, NightMoves, OwnNightMoves, Act
  <2>4. CASE s.phase = "day_vote" BY <2>4 DEF LegalMoves, Act
  <2>5. CASE s.phase \notin {"night", "day_vote"} BY <2>5 DEF LegalMoves, Act
  <2> QED BY <2>1, <2>2, <2>3, <2>4, <2>5
<1> QED BY <1>3, <1>4 DEF OnePerSeat

\* There is a move of each rank.
LEMMA Ranked ==
  ASSUME WerewolfAssumption, NEW T, OnePerSeat(T)
  PROVE  /\ IsFiniteSet(T) /\ Cardinality(T) \in Nat
         /\ \A k \in 1 .. Cardinality(T) :
              \E m \in T : Cardinality({n \in T : n.target < m.target}) = k - 1
<1> DEFINE below(x) == {n \in T : n.target < x}
           to == [m \in T |-> m.target]
<1>1. /\ \A m \in T : m.target \in Seat
      /\ \A m \in T, n \in T : m.target = n.target => m = n
  BY DEF OnePerSeat
<1>2. to \in Injection(T, Seat) BY <1>1, Fun_IsInj
<1>3. IsFiniteSet(T) BY <1>2, FS_Injection, Sizes
<1>4. \A x \in Nat : IsFiniteSet(below(x)) /\ Cardinality(below(x)) \in Nat
  <2> SUFFICES ASSUME NEW x \in Nat PROVE IsFiniteSet(below(x)) /\ Cardinality(below(x)) \in Nat
    OBVIOUS
  <2>1. below(x) \in SUBSET T OBVIOUS
  <2> HIDE DEF below
  <2> QED BY <1>3, <2>1, FS_Subset, FS_CardinalityType
<1>5. Cardinality(T) \in Nat BY <1>3, FS_CardinalityType
<1>6. ASSUME NEW k \in 1 .. Cardinality(T)
      PROVE  \E m \in T : Cardinality(below(m.target)) = k - 1
  <2> DEFINE U == {x \in Nat : Cardinality(below(x)) >= k}
  <2>1. below(SeatCount) = T BY <1>1, Sizes DEF Seat
  <2>2. SeatCount \in U
    <3> HIDE DEF below
    <3>1. SeatCount \in Nat /\ Cardinality(T) >= k BY <1>5, <1>6, Sizes
    <3> QED BY <2>1, <3>1
  <2>3. below(0) = {} BY <1>1, Sizes
  <2>4. 0 \notin U BY <1>6, <2>3, FS_EmptySet
  <2>5. PICK x \in U : \A y \in U : x <= y BY <2>2, LeastNumber
  <2>6. x \in Nat /\ x # 0 /\ x - 1 \in Nat /\ x - 1 \notin U BY <2>4, <2>5
  <2>7. Cardinality(below(x)) >= k /\ Cardinality(below(x - 1)) < k
    <3>1. Cardinality(below(x)) >= k BY <2>5
    <3>2. ~(Cardinality(below(x - 1)) >= k) BY <2>6
    <3> HIDE DEF below
    <3> QED BY <1>4, <1>6, <2>6, <3>1, <3>2
  <2>8. PICK m \in T : m.target = x - 1
    <3>1. ASSUME \A m \in T : m.target # x - 1 PROVE below(x) = below(x - 1)
      BY <1>1, <2>6, <3>1, Sizes
    <3> QED BY <2>6, <2>7, <3>1, <1>4
  <2>9. below(x) = below(x - 1) \cup {m} /\ m \notin below(x - 1)
    BY <1>1, <2>6, <2>8, Sizes
  <2> HIDE DEF below, U
  <2>10. Cardinality(below(x)) = Cardinality(below(x - 1)) + 1
    BY <1>4, <2>6, <2>9, FS_AddElement
  <2>11. Cardinality(below(x - 1)) = k - 1 BY <1>4, <1>6, <2>6, <2>7, <2>10
  <2> QED BY <2>8, <2>11
<1> QED BY <1>3, <1>5, <1>6

LEMMA Listed ==
  ASSUME WerewolfAssumption, NEW s \in WwState, NEW p \in PlayersToMove(s)
  PROVE  /\ LegalList(s, p) \in Seq(WwMove) /\ LegalList(s, p) # <<>>
         /\ \A i \in DOMAIN LegalList(s, p) :
              \/ LegalList(s, p)[i] = DefaultMove(s, p)
              \/ LegalList(s, p)[i] \in LegalMoves(s, p)
<1> DEFINE T == {m \in LegalMoves(s, p) : m.target # Nobody}
           one == <<DefaultMove(s, p)>>
           rest == InSeatOrder(T)
<1>1. p \in Seat BY MoversLive
<1>2. OnePerSeat(T) BY <1>1, NamedMoves
<1>3. T \subseteq WwMove /\ T \subseteq LegalMoves(s, p) BY <1>2 DEF OnePerSeat
<1> HIDE DEF T
<1>4. /\ Cardinality(T) \in Nat
      /\ \A k \in 1 .. Cardinality(T) :
           (CHOOSE m \in T : Cardinality({n \in T : n.target < m.target}) = k - 1) \in T
  BY <1>2, Ranked
<1>5. rest \in Seq(T)
  <2>1. rest \in [1 .. Cardinality(T) -> T] BY <1>4 DEF InSeatOrder
  <2> HIDE DEF rest
  <2> QED BY <1>4, <2>1, SeqDef
<1> HIDE DEF rest
<1>6. rest \in Seq(WwMove) BY <1>3, <1>5, SeqMonotonic
<1>7. DefaultMove(s, p) \in WwMove BY OfferedIsAccepted
<1>8. one \in Seq(WwMove) /\ Len(one) = 1 /\ one[1] = DefaultMove(s, p) BY <1>7
<1> HIDE DEF one
<1>9. LegalList(s, p) = one \o rest BY DEF LegalList, one, rest, T
<1>10. /\ LegalList(s, p) \in Seq(WwMove) /\ Len(LegalList(s, p)) = 1 + Len(rest)
       /\ \A i \in 1 .. 1 + Len(rest) :
            LegalList(s, p)[i] = IF i <= 1 THEN one[i] ELSE rest[i - 1]
  <2> DEFINE list == one \o rest
  <2>1. /\ list \in Seq(WwMove) /\ Len(list) = Len(one) + Len(rest)
        /\ \A i \in 1 .. Len(one) + Len(rest) :
             list[i] = IF i <= Len(one) THEN one[i] ELSE rest[i - Len(one)]
    BY <1>6, <1>8, ConcatProperties
  <2> HIDE DEF list
  <2>2. LegalList(s, p) = list BY <1>9 DEF list
  <2> QED BY <1>8, <2>1, <2>2
<1>11. Len(rest) \in Nat /\ DOMAIN LegalList(s, p) = 1 .. 1 + Len(rest) BY <1>5, <1>10
<1>12. LegalList(s, p) # <<>> BY <1>10, <1>11
<1>13. \A j \in 1 .. Len(rest) : rest[j] \in T BY <1>5, ElementOfSeq
<1> QED BY <1>3, <1>8, <1>10, <1>11, <1>12, <1>13

\* The default move is the one legal move that names nobody.
THEOREM DefaultIsOffered ==
  ASSUME WerewolfAssumption, NEW s \in WwState, NEW p \in PlayersToMove(s)
  PROVE  {m \in LegalMoves(s, p) : m.target = Nobody} = {DefaultMove(s, p)}
<1>1. Living(s) \subseteq Seat /\ p \in Seat /\ s.phase # "over" BY StateFields, MoversLive
<1>2. CASE s.phase = "night"
  BY <1>1, <1>2, Sizes DEF LegalMoves, NightMoves, OwnNightMoves, DefaultMove, Act
<1>3. CASE s.phase = "day_vote" BY <1>1, <1>3, Sizes DEF LegalMoves, DefaultMove, Act
<1>4. CASE s.phase \notin {"night", "day_vote"} BY <1>1, <1>4, Sizes DEF LegalMoves, DefaultMove, Act
<1> QED BY <1>2, <1>3, <1>4

-----------------------------------------------------------------------------
(* The contract.                                                           *)

LEMMA TerminalTyped == ASSUME NEW s PROVE Terminal(s) \in BOOLEAN
BY DEF Terminal

LEMMA VerdictTyped ==
  ASSUME WerewolfAssumption, NEW s \in WwState
  PROVE  Verdict(s) \in Outcome \cup {None} /\ (Verdict(s) # None <=> Terminal(s))
<1>1. Wolves(s) \in SUBSET Seat BY StateFields
<1> DEFINE won(team, reason) == [winners |-> team, draw |-> FALSE, reason |-> reason]
<1>2. \A team \in SUBSET Seat, reason \in {"village", "wolves", "day_limit"} :
        won(team, reason) \in Outcome /\ won(team, reason) # None
  <2>1. \A team \in SUBSET Seat, reason \in {"village", "wolves", "day_limit"} :
          won(team, reason) \in Outcome
    BY DEF Outcome
  <2> HIDE DEF won
  <2> QED BY <2>1, Sizes
<1>3. /\ won(Seat \ Wolves(s), "village") \in Outcome /\ won(Seat \ Wolves(s), "village") # None
      /\ won(Wolves(s), "wolves") \in Outcome /\ won(Wolves(s), "wolves") # None
      /\ won(Wolves(s), "day_limit") \in Outcome /\ won(Wolves(s), "day_limit") # None
  BY <1>1, <1>2
<1> DEFINE wolves == Cardinality(Wolves(s) \cap Living(s))
           rest   == Cardinality(Living(s) \ Wolves(s))
<1>4. Verdict(s) = IF wolves = 0 THEN won(Seat \ Wolves(s), "village")
                   ELSE IF wolves >= rest THEN won(Wolves(s), "wolves")
                   ELSE IF s.day > DayLimit THEN won(Wolves(s), "day_limit")
                   ELSE None
  BY DEF Verdict
<1>5. Terminal(s) <=> (wolves = 0 \/ wolves >= rest \/ s.day > DayLimit) BY DEF Terminal
<1> HIDE DEF wolves, rest, won
<1> QED BY <1>3, <1>4, <1>5

\* What becomes of a state by a move or the loss of a seat.
LEMMA MovedOn ==
  ASSUME WerewolfAssumption, NEW s \in RestingState, NEW p \in Seat, NEW m \in WwMove
  PROVE  /\ ApplyMove(s, p, m) \in RestingState \cup {None}
         /\ ApplyMove(s, p, m) # None =>
              /\ p \in PlayersToMove(s) /\ m \in Slot \ {NoAct}
              /\ ApplyMove(s, p, m) = Apply(s, p, m) /\ Onward(s, ApplyMove(s, p, m))
<1>1. s \in WwState BY DEF RestingState
<1>2. CASE m.target # Stranger /\ Accepts(s, p, m)
  <2>1. p \in PlayersToMove(s) BY <1>2 DEF Accepts
  <2>2. m \in Slot /\ m # NoAct BY <1>2, SlotFacts
  <2>3. ApplyMove(s, p, m) = Apply(s, p, m) BY <1>2 DEF ApplyMove
  <2>4. Apply(s, p, m) \in RestingState /\ Onward(s, Apply(s, p, m)) BY <1>1, <2>1, <2>2, ApplyRests
  <2> QED BY <2>1, <2>2, <2>3, <2>4
<1>3. CASE ~(m.target # Stranger /\ Accepts(s, p, m)) BY <1>3 DEF ApplyMove
<1> QED BY <1>2, <1>3

LEMMA LostOn ==
  ASSUME WerewolfAssumption, NEW s \in RestingState, NEW p \in Seat
  PROVE  /\ ForfeitSeat(s, p) \in RestingState \cup {None}
         /\ ForfeitSeat(s, p) # None =>
              /\ ~Terminal(s) /\ ForfeitSeat(s, p) = ForfeitPlayer(s, p)
              /\ Onward(s, ForfeitSeat(s, p)) /\ p \notin Living(ForfeitSeat(s, p))
<1>1. CASE Terminal(s) \/ ~s.alive[p] BY <1>1 DEF ForfeitSeat
<1>2. CASE ~(Terminal(s) \/ ~s.alive[p])
  <2>1. ForfeitSeat(s, p) = ForfeitPlayer(s, p) BY <1>2 DEF ForfeitSeat
  <2> QED BY <1>2, <2>1, ForfeitRests
<1> QED BY <1>1, <1>2

LEMMA AcceptedMoves ==
  ASSUME WerewolfAssumption, NEW s \in RestingState, NEW p \in PlayersToMove(s), NEW m \in WwMove,
         m.target # Stranger, Accepts(s, p, m)
  PROVE  ApplyMove(s, p, m) # None
<1>1. s \in WwState BY DEF RestingState
<1>2. m \in Slot BY SlotFacts
<1>3. Apply(s, p, m) \in WwState BY <1>1, <1>2, ApplyRests DEF RestingState
<1> QED BY <1>3, Sizes DEF ApplyMove

LEMMA ParsedIsMove ==
  ASSUME WerewolfAssumption, NEW s \in WwState, NEW p \in Seat, NEW text \in Notation
  PROVE  ParseMove(s, p, text) \in WwMove
<1>1. text.call \in WwMove \cup {Act("night", Nobody), NoAct} /\ text.seat \in Seat \cup {Stranger, Nobody}
  BY DEF Notation
<1>2. \A u : DefaultMove(u, p) \in WwMove
  BY DEF DefaultMove, WwMove
<1>3. CASE ActsIn(s.phase, text.call.t) /\ text.call.t # "night"
  <2>1. text.call.t # "none" BY <1>3 DEF ActsIn
  <2>2. text.call \in WwMove BY <1>1, <1>3, <2>1 DEF Act, NoAct
  <2> QED BY <1>3, <2>2 DEF ParseMove
<1>4. CASE ~(ActsIn(s.phase, text.call.t) /\ text.call.t # "night")
  <2>1. Aimed(s, p, text.seat) \in WwMove
    <3>1. text.seat # Nobody => /\ Act("vote", text.seat) \in WwMove
                                /\ Act("kill", text.seat) \in WwMove
                                /\ Act("guard", text.seat) \in WwMove
      BY <1>1 DEF WwMove
    <3> QED BY <1>2, <3>1 DEF Aimed
  <2>2. DefaultMove([s EXCEPT !.phase = "night"], p) \in WwMove BY <1>2
  <2> QED BY <1>4, <2>1, <2>2 DEF ParseMove
<1> QED BY <1>3, <1>4

\* The kernel's contract: in every state a room can reach there is somebody to
\* move until a team has won, what a seat is offered and the default move are
\* accepted, and who is taken out of the game is out for good.
THEOREM RulesKeepContract == ASSUME WerewolfAssumption PROVE Contract!KeepsContract
<1> SUFFICES ASSUME NEW s \in RestingState PROVE Contract!ContractAt(s)
  BY DEF Contract!KeepsContract
<1>1. s \in WwState BY DEF RestingState
<1>2. Contract!Player = Seat BY DEF Contract!Player, Seat
<1>3. PlayersToMove(s) \subseteq Contract!Player \ GoneFrom(s) BY <1>1, <1>2, MoversLive DEF GoneFrom
<1>4. Verdict(s) \in Contract!Result \cup {None}
  <2>1. Outcome \subseteq Contract!Result
    BY <1>2 DEF Outcome, Contract!Result, Contract!Reason
  <2> QED BY <1>1, <2>1, VerdictTyped
<1>5. PlayersToMove(s) = {} <=> Verdict(s) # None
  <2>1. Terminal(s) => PlayersToMove(s) = {} BY DEF PlayersToMove
  <2>2. ~Terminal(s) => PlayersToMove(s) # {} BY DEF RestingState
  <2> QED BY <1>1, <2>1, <2>2, VerdictTyped
<1>6. BudgetOf(s) \in Nat \ {0} BY <1>1, StateFields DEF BudgetOf, WerewolfAssumption
<1>7. ASSUME NEW p \in Seat
      PROVE  /\ LegalList(s, p) \in Seq(WwMove)
             /\ DefaultMove(s, p) \in WwMove \cup {None}
             /\ ForfeitSeat(s, p) \in RestingState \cup {None}
             /\ ForfeitSeat(s, p) # None => GoneFrom(s) \cup {p} \subseteq GoneFrom(ForfeitSeat(s, p))
             /\ \A m \in WwMove :
                  /\ ApplyMove(s, p, m) \in RestingState \cup {None}
                  /\ ApplyMove(s, p, m) # None => GoneFrom(s) \subseteq GoneFrom(ApplyMove(s, p, m))
             /\ \A sub \in Submission :
                  sub.by = "notation" => ParseMove(s, p, sub.arg) \in WwMove \cup {None}
  <2>1. LegalList(s, p) \in Seq(WwMove)
    <3>1. CASE p \in PlayersToMove(s) BY <1>1, <3>1, Listed
    <3>2. CASE p \notin PlayersToMove(s) BY <3>2 DEF LegalList
    <3> QED BY <3>1, <3>2
  <2>2. DefaultMove(s, p) \in WwMove BY DEF DefaultMove, WwMove
  <2>3. ForfeitSeat(s, p) # None => GoneFrom(s) \cup {p} \subseteq GoneFrom(ForfeitSeat(s, p))
    BY LostOn DEF Onward, GoneFrom
  <2>4. \A m \in WwMove :
          ApplyMove(s, p, m) # None => GoneFrom(s) \subseteq GoneFrom(ApplyMove(s, p, m))
    BY MovedOn DEF Onward, GoneFrom
  <2>5. \A sub \in Submission : sub.by = "notation" => ParseMove(s, p, sub.arg) \in WwMove
    BY <1>1, ParsedIsMove DEF WerewolfAssumption
  <2> QED BY <2>1, <2>2, <2>3, <2>4, <2>5, LostOn, MovedOn
<1>8. ASSUME NEW p \in PlayersToMove(s)
      PROVE  /\ LegalList(s, p) # <<>>
             /\ \A i \in DOMAIN LegalList(s, p) : ApplyMove(s, p, LegalList(s, p)[i]) # None
             /\ DefaultMove(s, p) # None => ApplyMove(s, p, DefaultMove(s, p)) # None
  <2>1. p \in Seat BY <1>1, MoversLive
  <2>2. \A m \in LegalMoves(s, p) : m \in WwMove /\ m.target # Stranger /\ Accepts(s, p, m)
    BY <1>1, <2>1, LegalIsMove, OfferedIsAccepted
  <2>3. \A m \in LegalMoves(s, p) : ApplyMove(s, p, m) # None BY <2>2, AcceptedMoves
  <2>4. ApplyMove(s, p, DefaultMove(s, p)) # None BY <1>1, OfferedIsAccepted, AcceptedMoves, Sizes
  <2> QED BY <1>1, <2>3, <2>4, Listed
<1> QED BY <1>2, <1>3, <1>4, <1>5, <1>6, <1>7, <1>8 DEF Contract!ContractAt

\* What games of several movers promise besides: a seat that moves, or is lost,
\* takes no other seat out of the phase, and a game that is over stays over.
THEOREM PhasesOfWerewolfLast == ASSUME WerewolfAssumption PROVE Contract!PhasesLast
<1>1. ASSUME NEW deal \in Deals PROVE Verdict(InitialState(deal)) = None
  BY InitialRests, VerdictTyped DEF RestingState
<1>2. ASSUME NEW s \in RestingState PROVE Contract!PhaseLastsAt(s)
  <2>1. s \in WwState BY DEF RestingState
  <2>2. Contract!Player = Seat BY DEF Contract!Player, Seat
  <2>3. ASSUME NEW p \in PlayersToMove(s), NEW m \in WwMove,
               ApplyMove(s, p, m) # None, PlayersToMove(s) # {p}
        PROVE  PlayersToMove(ApplyMove(s, p, m)) = PlayersToMove(s) \ {p}
    <3>1. p \in Seat BY <2>1, MoversLive
    <3>2. m \in Slot \ {NoAct} /\ ApplyMove(s, p, m) = Apply(s, p, m) BY <2>3, <3>1, MovedOn
    <3> QED BY <2>1, <2>3, <3>2, OthersWait
  <2>4. ASSUME NEW p \in PlayersToMove(s), ForfeitSeat(s, p) # None,
               Verdict(ForfeitSeat(s, p)) = None, PlayersToMove(s) # {p}
        PROVE  PlayersToMove(ForfeitSeat(s, p)) = PlayersToMove(s) \ {p}
    <3>1. p \in Seat BY <2>1, MoversLive
    <3>2. ForfeitSeat(s, p) = ForfeitPlayer(s, p) /\ ForfeitSeat(s, p) \in WwState
      BY <2>4, <3>1, LostOn DEF RestingState
    <3>3. ~Terminal(ForfeitPlayer(s, p)) BY <2>4, <3>2, VerdictTyped
    <3> QED BY <2>1, <2>4, <3>2, <3>3, OthersStay
  <2>5. Verdict(s) # None => \A p \in Seat : ForfeitSeat(s, p) = None
    BY <2>1, VerdictTyped DEF ForfeitSeat
  <2> QED BY <2>2, <2>3, <2>4, <2>5 DEF Contract!PhaseLastsAt
<1> QED BY <1>1, <1>2 DEF Contract!PhasesLast

\* A text means the same move all through a phase, whatever the others do or
\* lose in it: what the parser reads of the state is the phase and the sender's
\* role.
THEOREM NotationsLast ==
  ASSUME WerewolfAssumption, \A sub \in Submission : sub.by = "notation"
  PROVE  Contract!SubmissionsLast
<1> SUFFICES ASSUME NEW s \in RestingState PROVE Contract!SubmissionLastsAt(s)
  BY DEF Contract!SubmissionsLast
<1>1. s \in WwState BY DEF RestingState
<1>2. ASSUME NEW p \in PlayersToMove(s), NEW q \in PlayersToMove(s), q # p, NEW h,
             \/ \E m \in WwMove : h = ApplyMove(s, p, m)
             \/ h = ForfeitSeat(s, p),
             h # None, q \in PlayersToMove(h)
      PROVE  h.phase = s.phase /\ h.roles = s.roles
  <2>1. p \in Seat /\ s.phase # "over" /\ PlayersToMove(s) # {p} BY <1>1, <1>2, MoversLive
  <2>2. ASSUME NEW m \in WwMove, h = ApplyMove(s, p, m) PROVE h.phase = s.phase /\ h.roles = s.roles
    <3>1. m \in Slot \ {NoAct} /\ h = Apply(s, p, m) BY <1>2, <2>1, <2>2, MovedOn
    <3>2. h = Filled(s, p, m) BY <1>1, <2>1, <3>1, OthersWait
    <3> QED BY <1>1, <2>1, <3>1, <3>2, FilledTyped
  <2>3. ASSUME h = ForfeitSeat(s, p) PROVE h.phase = s.phase /\ h.roles = s.roles
    <3>1. h = ForfeitPlayer(s, p) /\ Onward(s, h) BY <1>2, <2>1, <2>3, LostOn
    <3>2. ~Terminal(h) BY <1>2 DEF PlayersToMove
    <3>3. h.phase = s.phase BY <1>1, <2>1, <3>1, <3>2, OthersStay
    <3> QED BY <3>1, <3>3 DEF Onward
  <2> QED BY <1>2, <2>2, <2>3
<1>3. ASSUME NEW h, NEW q, NEW text, h.phase = s.phase, h.roles = s.roles
      PROVE  ParseMove(h, q, text) = ParseMove(s, q, text)
  <2>1. \A seat : Aimed(h, q, seat) = Aimed(s, q, seat) BY <1>3 DEF Aimed, DefaultMove
  <2> DEFINE hn == [h EXCEPT !.phase = "night"]
             sn == [s EXCEPT !.phase = "night"]
  <2>2. DefaultMove(hn, q) = DefaultMove(sn, q) BY <1>3 DEF DefaultMove
  <2> HIDE DEF hn, sn
  <2>3. ParseMove(h, q, text) =
          CASE ActsIn(h.phase, text.call.t) /\ text.call.t # "night" -> text.call
            [] text.call.t = "night" /\ h.phase \in {"night", "over"} -> DefaultMove(hn, q)
            [] OTHER -> Aimed(h, q, text.seat)
    BY DEF ParseMove, hn
  <2>4. ParseMove(s, q, text) =
          CASE ActsIn(s.phase, text.call.t) /\ text.call.t # "night" -> text.call
            [] text.call.t = "night" /\ s.phase \in {"night", "over"} -> DefaultMove(sn, q)
            [] OTHER -> Aimed(s, q, text.seat)
    BY DEF ParseMove, sn
  <2> QED BY <1>3, <2>1, <2>2, <2>3, <2>4
<1>4. ASSUME NEW p \in PlayersToMove(s), NEW q \in PlayersToMove(s), q # p, NEW h,
             \/ \E m \in WwMove : h = ApplyMove(s, p, m)
             \/ h = ForfeitSeat(s, p),
             h # None, q \in PlayersToMove(h), NEW sub \in Submission
      PROVE  Contract!Resolve(h, q, sub) = Contract!Resolve(s, q, sub)
  <2>1. h.phase = s.phase /\ h.roles = s.roles BY <1>2, <1>4
  <2>2. ParseMove(h, q, sub.arg) = ParseMove(s, q, sub.arg) BY <1>3, <2>1
  <2>3. sub.by # "index" BY <1>4
  <2> QED BY <2>2, <2>3 DEF Contract!Resolve
<1> QED BY <1>4 DEF Contract!SubmissionLastsAt

\* RoomCanPlay, of the states a game reaches.
THEOREM ContractHolds ==
  ASSUME WerewolfAssumption, \A sub \in Submission : sub.by = "notation"
  PROVE  Spec => []RoomCanPlay
<1>1. Rests => RoomCanPlay
  BY RulesKeepContract, NotationsLast
     DEF Rests, RoomCanPlay, Contract!KeepsContract, Contract!SubmissionsLast
<1> QED BY <1>1, AlwaysRests, PTL

\* NeverRests: an unfinished game waits for somebody, who is offered something,
\* all of which is accepted.
THEOREM GameGoesOn == ASSUME WerewolfAssumption PROVE Spec => []NeverRests
<1>1. Rests => NeverRests BY OfferedIsAccepted DEF Rests, RestingState, NeverRests
<1> QED BY <1>1, AlwaysRests, PTL

\* What the tripwire SETTLE_MAX_STEPS is for (the comment at the end of settle):
\* two passes of the loop come to rest, so a limit of two or more cuts none short.
THEOREM SettlesInTwo ==
  ASSUME WerewolfAssumption, NEW s \in WwState, s.phase # "over"
  PROVE  Settle(s) = Advance(Advance(s)) /\ Advance(Settle(s)) = Settle(s)
<1>1. Advance(Advance(Advance(s))) = Advance(Advance(s)) BY TwoPasses, RestingIsFixed
<1> QED BY <1>1, Fixpoint

-----------------------------------------------------------------------------
(* A room that plays Werewolf: the session of RoomCore over these rules,   *)
(* with agents that write their moves out.  Werewolf has no side clocks,   *)
(* no resignation and no draw offers.                                      *)

VARIABLES
  turnIndex, status, result, strikes, illegalThisTurn, pendingDrawOffer, pendingSimultaneous,
  cumulativeMs, elapsed, deadline, log, seedDraws, loop, batch, cursor

Room == INSTANCE ReplayProofs WITH
  NSeats <- SeatCount, GState <- RestingState, InitStates <- {InitialState(deal) : deal \in Deals},
  Move <- WwMove, GameReason <- {"village", "wolves", "day_limit"},
  LegalMoves <- LegalList, Apply <- ApplyMove, IsTerminal <- Verdict,
  ForfeitPlayer <- ForfeitSeat, Gone <- GoneFrom, PhaseBudget <- BudgetOf,
  SideBudget <- None, AllowsResign <- FALSE, AllowsDrawOffer <- FALSE

RoomAssumption ==
  /\ WerewolfAssumption /\ SeatCount # 1
  /\ None \notin Nat \cup Submission \cup Room!Result \cup Room!HeldSubmission \cup Room!DrawOffer
  /\ \A sub \in Submission : sub.by = "notation" /\ sub.draw_offer \in BOOLEAN

\* What RoomCore assumes of a game holds of this one.
LEMMA RoomSeats == ASSUME RoomAssumption PROVE Room!SeatsAssumption
<1>1. WerewolfAssumption /\ SeatCount \in Nat \ {0, 1} BY Sizes DEF RoomAssumption
<1>2. {InitialState(deal) : deal \in Deals} \subseteq RestingState BY <1>1, InitialRests
<1>3. None \notin RestingState /\ None \notin WwMove BY <1>1, Sizes DEF RestingState
<1> QED BY <1>1, <1>2, <1>3 DEF RoomAssumption, Room!SeatsAssumption

LEMMA RoomKernel == ASSUME RoomAssumption PROVE Room!KernelContract
<1>1. Contract!KeepsContract BY RulesKeepContract DEF RoomAssumption
<1> QED
  BY <1>1
     DEF Room!KernelContract, Room!KeepsContract, Room!ContractAt, Room!Player, Room!Result, Room!Reason,
         Contract!KeepsContract, Contract!ContractAt, Contract!Player, Contract!Result, Contract!Reason

LEMMA RoomNone == ASSUME RoomAssumption PROVE Room!NoneAssumption
BY DEF RoomAssumption, Room!NoneAssumption

LEMMA RoomPhases == ASSUME RoomAssumption PROVE Room!PhasesLast
<1>1. Contract!PhasesLast BY PhasesOfWerewolfLast DEF RoomAssumption
<1> QED
  BY <1>1
     DEF Room!PhasesLast, Room!PhaseLastsAt, Room!Player,
         Contract!PhasesLast, Contract!PhaseLastsAt, Contract!Player

LEMMA RoomSubmissions == ASSUME RoomAssumption PROVE Room!SubmissionsLast
<1>1. Contract!SubmissionsLast BY NotationsLast DEF RoomAssumption
<1> QED
  BY <1>1
     DEF Room!SubmissionsLast, Room!SubmissionLastsAt, Room!Resolve,
         Contract!SubmissionsLast, Contract!SubmissionLastsAt, Contract!Resolve

\* A room of Werewolf always waits for a seat that can still answer, and no
\* phase ends on a submission it dropped, whoever is killed, lynched or lost in
\* the meantime: what RoomCore's theorems assume of a game, the rules provide.
THEOREM RoomOfWerewolfWaits ==
  ASSUME RoomAssumption
  PROVE  Room!Spec => []Room!WaitsForSomeone /\ Room!HeldSeatsAreAnswered
<1>1. Room!Spec => []Room!WaitsForSomeone
  BY RoomSeats, RoomKernel, RoomNone, RoomPhases, Room!AlwaysWaitsForSomeone
<1>2. Room!Spec => Room!HeldSeatsAreAnswered
  BY RoomSeats, RoomKernel, RoomNone, RoomPhases, Room!NoSubmissionIsDropped
<1> QED BY <1>1, <1>2

\* And every game of Werewolf it finishes passes the offline verifier.
THEOREM WerewolfReplaysVerify == ASSUME RoomAssumption PROVE Room!Spec => []Room!ReplayVerifies
<1>1. Room!SideClocksForfeit BY DEF Room!SideClocksForfeit
<1> QED
  BY <1>1, RoomSeats, RoomKernel, RoomNone, RoomPhases, RoomSubmissions, Room!HonestReplaysVerify

LEMMA StepsOfWerewolf ==
  ASSUME RoomAssumption, Suspects = Seat, MaxForfeits \in Nat, SeatCount < MaxForfeits,
         state \in RestingState,
         NEW p \in Room!Player, Room!Moves(p) \/ Room!SeatLeaves(p)
  PROVE  Next
<1>1. WerewolfAssumption /\ state \in WwState /\ p \in Seat
  BY DEF RoomAssumption, RestingState, Room!Player, Seat
<1>2. ASSUME Room!Moves(p) PROVE Play(p)
  <2>1. PICK m \in WwMove : ApplyMove(state, p, m) # None /\ state' = ApplyMove(state, p, m)
    BY <1>2 DEF Room!Moves
  <2>2. m.target # Stranger /\ Accepts(state, p, m) /\ state' = Apply(state, p, m)
    BY <2>1 DEF ApplyMove
  <2>3. m \in Acts BY <2>2 DEF WwMove, Acts, Act
  <2>4. \A q \in PlayersToMove(state) : p <= q BY <1>2 DEF Room!Moves, Room!IsFirst
  <2> QED BY <2>2, <2>3, <2>4 DEF Play
<1>3. ASSUME Room!SeatLeaves(p) PROVE Forfeit(p)
  <2>1. ~Terminal(state) /\ state.alive[p] /\ state' = ForfeitPlayer(state, p)
    BY <1>3 DEF Room!SeatLeaves, ForfeitSeat
  <2>2. Cardinality({q \in Seat : state.cause[q] = "abandoned"}) < MaxForfeits
    <3> DEFINE lost == {q \in Seat : state.cause[q] = "abandoned"}
    <3>1. Cardinality(lost) <= Cardinality(Seat) /\ Cardinality(lost) \in Nat
      BY <1>1, Sizes, FS_Subset, FS_CardinalityType
    <3>2. Cardinality(Seat) = SeatCount BY <1>1, Sizes, FS_Interval DEF Seat
    <3>3. SeatCount \in Nat BY <1>1, Sizes
    <3> HIDE DEF lost
    <3>4. Cardinality(lost) < MaxForfeits BY <3>1, <3>2, <3>3
    <3> QED BY <3>4 DEF lost
  <2> QED BY <2>1, <2>2 DEF Forfeit
<1> QED BY <1>1, <1>2, <1>3 DEF Next

\* The game a room plays is a behaviour of this specification, with every seat
\* open to suspicion and any number of losses: what holds of Werewolf played in
\* turn holds in the room, the order of the moves of a phase among it.
THEOREM RoomPlaysWerewolf ==
  ASSUME RoomAssumption, Suspects = Seat, MaxForfeits \in Nat, SeatCount < MaxForfeits
  PROVE  Room!Spec => Spec /\ []OrderIndependent
<1>1. Room!Spec => []Room!TypeOK BY RoomSeats, RoomKernel, RoomNone, Room!TypeCorrect
<1>2. Room!Spec => Room!PlayedByTheRules
  BY RoomSeats, RoomKernel, RoomNone, RoomPhases, Room!GameIsPlayedByTheRules
<1>3. Room!TypeOK /\ [\E p \in Room!Player : Room!Moves(p) \/ Room!SeatLeaves(p)]_state => [Next]_state
  BY StepsOfWerewolf DEF Room!TypeOK
<1>4. Room!Init => Init BY DEF Room!Init, Init
<1>5. Room!Spec => Spec
  BY <1>1, <1>2, <1>3, <1>4, PTL DEF Room!Spec, Room!PlayedByTheRules, Spec
<1>6. Spec => []OrderIndependent BY OrdersAgree DEF RoomAssumption
<1> QED BY <1>5, <1>6

-----------------------------------------------------------------------------
(* Tic-tac-toe and Dropline, of any size.                                  *)

CONSTANTS Columns, Rows, Run, Drops

Row == INSTANCE InARow

RowInv ==
  /\ state.board \in [Row!Cell -> {0, 1, 2}] /\ state.toMove \in {0, 1}
  /\ Row!LastMoverWins

LEMMA RowStarts == ASSUME Run \in Nat \ {0} PROVE Row!Init => RowInv
<1> SUFFICES ASSUME Row!Init PROVE RowInv
  OBVIOUS
<1>1. \A y \in Row!Cell : state.board[y] = 2 BY DEF Row!Init, Row!Empty
<1>2. \A l \in Row!Lines : l # {}
  <2>1. \A y, d : <<y[1] + 0 * d[1], y[2] + 0 * d[2]>> \in Row!Ray(y, d) BY DEF Row!Ray
  <2>2. \A y, d : Row!Ray(y, d) # {} BY <2>1
  <2> QED BY <2>2 DEF Row!Lines
<1>3. \A l \in Row!Lines : l \subseteq Row!Cell BY DEF Row!Lines
<1>4. Row!Winner(state) = {} BY <1>1, <1>2, <1>3 DEF Row!Winner
<1> QED BY <1>4 DEF RowInv, Row!Init, Row!Empty, Row!LastMoverWins

LEMMA RowStep == RowInv /\ [Row!Next]_state => RowInv'
<1> SUFFICES ASSUME RowInv, [Row!Next]_state PROVE RowInv'
  OBVIOUS
<1>1. CASE UNCHANGED state BY <1>1 DEF RowInv, Row!LastMoverWins
<1>2. ASSUME NEW x \in Row!Cell, Row!Place(x) PROVE RowInv'
  <2>1. Row!Winner(state) = {} BY <1>2 DEF Row!Place, Row!Terminal
  <2>2. /\ state'.board = [state.board EXCEPT ![x] = state.toMove]
        /\ state'.toMove = 1 - state.toMove
    BY <1>2 DEF Row!Place
  <2>3. state.board \in [Row!Cell -> {0, 1, 2}] /\ state.toMove \in {0, 1} BY DEF RowInv
  <2>4. state'.board[x] = state.toMove /\ \A y \in Row!Cell \ {x} : state'.board[y] = state.board[y]
    BY <2>2, <2>3
  <2>5. ASSUME NEW seat \in Row!Winner(state') PROVE seat = state.toMove
    <3> SUFFICES ASSUME seat # state.toMove PROVE FALSE
      OBVIOUS
    <3>1. seat \in {0, 1} BY DEF Row!Winner
    <3>2. PICK l \in Row!Lines : \A y \in l : state'.board[y] = seat BY DEF Row!Winner
    <3>3. l \subseteq Row!Cell BY DEF Row!Lines
    <3>4. x \notin l BY <2>4, <3>2
    <3>5. \A y \in l : state.board[y] = seat BY <2>4, <3>2, <3>3, <3>4
    <3>6. seat \in Row!Winner(state) BY <3>1, <3>5 DEF Row!Winner
    <3> QED BY <2>1, <3>6
  <2>6. 1 - state'.toMove = state.toMove /\ state'.toMove \in {0, 1} BY <2>2, <2>3
  <2>7. state'.board \in [Row!Cell -> {0, 1, 2}] BY <2>2, <2>3
  <2> QED BY <2>5, <2>6, <2>7 DEF RowInv, Row!LastMoverWins
<1> QED BY <1>1, <1>2 DEF Row!Next

\* LastMoverWins of Tic-tac-toe and Dropline, for every board and length of
\* the line: nobody moves past a line, so never do both seats have one.
THEOREM LinesEndTheGame == ASSUME Run \in Nat \ {0} PROVE Row!Spec => []Row!LastMoverWins
<1>1. Row!Init => RowInv BY RowStarts
<1>2. RowInv /\ [Row!Next]_state => RowInv' BY RowStep
<1>3. RowInv => Row!LastMoverWins BY DEF RowInv
<1> QED BY <1>1, <1>2, <1>3, PTL DEF Row!Spec

-----------------------------------------------------------------------------
(* Reversi, of any size.                                                   *)

CONSTANTS Size, FirstCells

Othello == INSTANCE Reversi

\* After one pass the seat that passed has no place; after two neither has.
PassInv ==
  /\ state.toMove \in {0, 1} /\ state.passes \in 0 .. 2
  /\ state.passes >= 1 => Othello!FlankingMoves(state.board, 1 - state.toMove) = {}
  /\ state.passes >= 2 => Othello!FlankingMoves(state.board, state.toMove) = {}

LEMMA PassStep == PassInv /\ [Othello!Next]_state => PassInv'
<1> SUFFICES ASSUME PassInv, [Othello!Next]_state PROVE PassInv'
  OBVIOUS
<1>1. CASE UNCHANGED state BY <1>1 DEF PassInv
<1>2. CASE Othello!Pass
  <2>1. /\ state.passes < 2 /\ Othello!FlankingMoves(state.board, state.toMove) = {}
        /\ state' = [state EXCEPT !.toMove = 1 - @, !.passes = @ + 1]
    BY <1>2 DEF Othello!Pass, Othello!Terminal, PassInv
  <2>2. state.toMove \in {0, 1} /\ state.passes \in 0 .. 2 BY DEF PassInv
  <2>3. state'.board = state.board /\ state'.toMove = 1 - state.toMove
        /\ state'.passes = state.passes + 1
    BY <2>1
  <2> QED BY <2>1, <2>2, <2>3 DEF PassInv
<1>3. ASSUME NEW x \in Othello!Cell, Othello!Place(x) PROVE PassInv'
  <2>1. state'.toMove = 1 - state.toMove /\ state'.passes = 0 BY <1>3 DEF Othello!Place
  <2> QED BY <2>1 DEF PassInv
<1> QED BY <1>1, <1>2, <1>3 DEF Othello!Next

\* EndsWhenNobodyCanFlank of Reversi, for every board: two passes end a game
\* only where neither seat could have placed a disc.
THEOREM PassesAreForced == Othello!Spec => []Othello!EndsWhenNobodyCanFlank
<1>1. Othello!Init => PassInv BY DEF Othello!Init, PassInv
<1>2. PassInv /\ [Othello!Next]_state => PassInv' BY PassStep
<1>3. PassInv => Othello!EndsWhenNobodyCanFlank BY DEF PassInv, Othello!EndsWhenNobodyCanFlank
<1> QED BY <1>1, <1>2, <1>3, PTL DEF Othello!Spec

-----------------------------------------------------------------------------
(* Nine Men's Morris, on any board.  The history is emptied by a capture   *)
(* and not begun before the last man is placed.  What it lacks cannot come *)
(* back: every position of the game so far has at least as many men as the *)
(* board and the hands have now, and more if it is older than the last     *)
(* capture.                                                                *)

CONSTANTS Points, Lines, Mills, QuietLimit, Repetitions, MaxPlies, Openings

Morrises == INSTANCE Morris

MorrisBoard == [Points -> {0, 1, 2}]
Hands == [{0, 1} -> Nat]
Position == MorrisBoard \X {0, 1} \X Hands
MorrisState ==
  [board : MorrisBoard, toMove : {0, 1}, inHand : Hands, phase : {"placing", "moving"}, quiet : Nat,
   history : Seq(Position), past : Seq(Position)]

MenOn(board) == {x \in Points : board[x] # 2}
AllPlaced(inHand) == inHand[0] = 0 /\ inHand[1] = 0
Men(k) == Cardinality(MenOn(k[1])) + k[3][0] + k[3][1]

\* The seats place in turn.
InTurn(s) == s.inHand[s.toMove] >= 1 /\ s.inHand[s.toMove] - s.inHand[1 - s.toMove] \in {0, 1}

\* A game is taken up while men are placed, and there is room for them all.
MorrisAssumption ==
  /\ IsFiniteSet(Points)
  /\ \A s \in Openings :
       /\ s \in MorrisState /\ s.phase = "placing" /\ InTurn(s) /\ s.history = <<>> /\ s.past = <<>>
       /\ Men(Morrises!Here(s)) <= Cardinality(Points)

MorrisInv ==
  LET Here == Morrises!Here(state) IN
  /\ state \in MorrisState
  /\ state.phase = "placing" =>
       /\ InTurn(state) /\ state.history = <<>>
       /\ \A i \in DOMAIN state.past : ~AllPlaced(state.past[i][3])
  /\ state.phase = "moving" => AllPlaced(state.inHand)
  /\ Men(Here) <= Cardinality(Points)
  /\ \A i \in DOMAIN state.past : Men(state.past[i]) >= Men(Here)
  /\ state.phase = "moving" =>
       \A k \in Position : AllPlaced(k[3]) /\ Men(k) <= Men(Here) =>
         Morrises!Occurrences(state.history, k) = Morrises!Occurrences(state.past, k)

LEMMA SameCount == ASSUME NEW T PROVE Morrises!Cardinality(T) = Cardinality(T)
BY DEF Morrises!Cardinality, Cardinality

LEMMA OnceMore ==
  ASSUME NEW l \in Seq(Position), NEW k \in Position, NEW j \in Position
  PROVE  /\ Morrises!Occurrences(l, j) \in Nat
         /\ Morrises!Occurrences(Append(l, k), j) =
              Morrises!Occurrences(l, j) + (IF j = k THEN 1 ELSE 0)
<1> DEFINE at == {i \in 1 .. Len(l) : l[i] = j}
           more == {i \in 1 .. Len(Append(l, k)) : Append(l, k)[i] = j}
<1>1. Len(l) \in Nat /\ Len(Append(l, k)) = Len(l) + 1 OBVIOUS
<1>2. IsFiniteSet(at) /\ Cardinality(at) \in Nat
  <2>1. IsFiniteSet(1 .. Len(l)) BY <1>1, FS_Interval
  <2> QED BY <2>1, FS_Subset, FS_CardinalityType
<1>3. CASE j = k
  <2>1. more = at \cup {Len(l) + 1} BY <1>1, <1>3
  <2>2. Len(l) + 1 \notin at BY <1>1
  <2>3. Cardinality(more) = Cardinality(at) + 1 BY <1>2, <2>1, <2>2, FS_AddElement
  <2> QED BY <1>2, <1>3, <2>3, SameCount DEF Morrises!Occurrences
<1>4. CASE j # k
  <2>1. more = at BY <1>1, <1>4
  <2>2. (IF j = k THEN 1 ELSE 0) = 0 BY <1>4
  <2>3. /\ Morrises!Occurrences(l, j) = Cardinality(at)
        /\ Morrises!Occurrences(Append(l, k), j) = Cardinality(more)
    BY SameCount DEF Morrises!Occurrences
  <2> HIDE DEF at, more
  <2> QED BY <1>2, <2>1, <2>2, <2>3
<1> QED BY <1>3, <1>4

LEMMA NeverThere ==
  ASSUME NEW l \in Seq(Position), NEW k, \A i \in DOMAIN l : l[i] # k
  PROVE  Morrises!Occurrences(l, k) = 0
<1>1. {i \in 1 .. Len(l) : l[i] = k} = {} OBVIOUS
<1> QED BY <1>1, FS_EmptySet, SameCount DEF Morrises!Occurrences

LEMMA Once ==
  ASSUME NEW k \in Position, NEW j \in Position
  PROVE  Morrises!Occurrences(<<k>>, j) = (IF j = k THEN 1 ELSE 0)
<1> DEFINE at == {i \in 1 .. Len(<<k>>) : <<k>>[i] = j}
<1>1. Morrises!Occurrences(<<k>>, j) = Cardinality(at) BY SameCount DEF Morrises!Occurrences
<1>2. CASE j = k
  <2>1. at = {1} BY <1>2
  <2> QED BY <1>1, <1>2, <2>1, FS_Singleton
<1>3. CASE j # k
  <2>1. at = {} BY <1>3
  <2> QED BY <1>1, <1>3, <2>1, FS_EmptySet
<1> QED BY <1>2, <1>3

LEMMA Manned ==
  ASSUME MorrisAssumption, NEW board \in MorrisBoard
  PROVE  IsFiniteSet(MenOn(board)) /\ Cardinality(MenOn(board)) \in Nat
<1>1. IsFiniteSet(MenOn(board)) BY FS_Subset DEF MorrisAssumption, MenOn
<1> QED BY <1>1, FS_CardinalityType

\* A ply puts a man on the board, and takes one if it captures.
LEMMA PlyCounts ==
  ASSUME MorrisAssumption, NEW board \in MorrisBoard, NEW to \in Points, board[to] = 2,
         NEW seat \in {0, 1}, NEW o \in Morrises!Outcomes(board, to, seat)
  PROVE  /\ o.board \in MorrisBoard /\ o.removed \in BOOLEAN
         /\ Cardinality(MenOn(o.board)) =
              Cardinality(MenOn(board)) + 1 - (IF o.removed THEN 1 ELSE 0)
<1> DEFINE after == [board EXCEPT ![to] = seat]
<1>1. after \in MorrisBoard BY DEF MorrisBoard
<1>2. MenOn(after) = MenOn(board) \cup {to} /\ to \notin MenOn(board) BY DEF MorrisBoard, MenOn
<1>3. Cardinality(MenOn(after)) = Cardinality(MenOn(board)) + 1
  BY <1>2, Manned, FS_AddElement
<1>4. Cardinality(MenOn(board)) \in Nat /\ Cardinality(MenOn(after)) \in Nat /\ IsFiniteSet(MenOn(after))
  BY <1>1, Manned
<1> HIDE DEF after
<1>5. ASSUME o.removed = FALSE, o.board = after
      PROVE  /\ o.board \in MorrisBoard /\ o.removed \in BOOLEAN
             /\ Cardinality(MenOn(o.board)) =
                  Cardinality(MenOn(board)) + 1 - (IF o.removed THEN 1 ELSE 0)
  <2>1. (IF o.removed THEN 1 ELSE 0) = 0 BY <1>5, Zenon
  <2>2. o.removed \in BOOLEAN BY <1>5, Zenon
  <2> QED BY <1>1, <1>3, <1>4, <1>5, <2>1, <2>2
<1>6. ASSUME NEW x \in Points, after[x] # 2, o.removed = TRUE, o.board = [after EXCEPT ![x] = 2]
      PROVE  /\ o.board \in MorrisBoard /\ o.removed \in BOOLEAN
             /\ Cardinality(MenOn(o.board)) =
                  Cardinality(MenOn(board)) + 1 - (IF o.removed THEN 1 ELSE 0)
  <2>1. o.board \in MorrisBoard BY <1>1, <1>6 DEF MorrisBoard
  <2>2. MenOn(o.board) = MenOn(after) \ {x} /\ x \in MenOn(after)
    BY <1>1, <1>6 DEF MorrisBoard, MenOn
  <2>3. Cardinality(MenOn(o.board)) = Cardinality(MenOn(after)) - 1
    BY <1>4, <2>2, FS_RemoveElement
  <2>4. (IF o.removed THEN 1 ELSE 0) = 1 BY <1>6, Zenon
  <2>5. o.removed \in BOOLEAN BY <1>6, Zenon
  <2> QED BY <1>3, <1>4, <2>1, <2>3, <2>4, <2>5
<1>7. \/ o.removed = FALSE /\ o.board = after
      \/ \E x \in Morrises!RemovalCandidates(after, 1 - seat) :
           o.removed = TRUE /\ o.board = [after EXCEPT ![x] = 2]
  <2> DEFINE takes == {[milled |-> TRUE, removed |-> TRUE, board |-> [after EXCEPT ![x] = 2]] :
                         x \in Morrises!RemovalCandidates(after, 1 - seat)}
             lets  == {[milled |-> Morrises!InMill(after, to), removed |-> FALSE, board |-> after]}
  <2>1. o \in takes \/ o \in lets BY DEF Morrises!Outcomes, Morrises!Empty, after
  <2>2. CASE o \in takes
    <3>1. PICK x \in Morrises!RemovalCandidates(after, 1 - seat) :
            o = [milled |-> TRUE, removed |-> TRUE, board |-> [after EXCEPT ![x] = 2]]
      BY <2>2
    <3>2. o.removed = TRUE /\ o.board = [after EXCEPT ![x] = 2] BY <3>1
    <3> QED BY <3>2
  <2>3. CASE o \in lets BY <2>3
  <2> QED BY <2>1, <2>2, <2>3
<1>8. \A x \in Morrises!RemovalCandidates(after, 1 - seat) : x \in Points /\ after[x] # 2
  BY DEF Morrises!RemovalCandidates, Morrises!OnBoard
<1> QED BY <1>5, <1>6, <1>7, <1>8

LEMMA PlacedMen ==
  ASSUME MorrisAssumption, state \in MorrisState, state.phase = "placing",
         NEW o \in Morrises!Enumerate(state, state.toMove)
  PROVE  /\ o.board \in MorrisBoard /\ o.removed \in BOOLEAN
         /\ Cardinality(MenOn(o.board)) =
              Cardinality(MenOn(state.board)) + 1 - (IF o.removed THEN 1 ELSE 0)
<1>1. PICK to \in Morrises!OnBoard(state.board, 2) : o \in Morrises!Outcomes(state.board, to, state.toMove)
  BY DEF Morrises!Enumerate, Morrises!Empty
<1>2. to \in Points /\ state.board[to] = 2 BY DEF Morrises!OnBoard
<1> QED BY <1>1, <1>2, PlyCounts DEF MorrisState

LEMMA MovedMen ==
  ASSUME MorrisAssumption, state \in MorrisState, state.phase = "moving",
         NEW o \in Morrises!Enumerate(state, state.toMove)
  PROVE  /\ o.board \in MorrisBoard /\ o.removed \in BOOLEAN
         /\ Cardinality(MenOn(o.board)) =
              Cardinality(MenOn(state.board)) - (IF o.removed THEN 1 ELSE 0)
<1> DEFINE lifted(from) == [state.board EXCEPT ![from] = 2]
<1>1. PICK from \in Morrises!OnBoard(state.board, state.toMove) :
        \E to \in Morrises!Destinations(state, state.toMove, from) :
          o \in Morrises!Outcomes(lifted(from), to, state.toMove)
  BY DEF Morrises!Enumerate, Morrises!Empty
<1>2. PICK to \in Morrises!Destinations(state, state.toMove, from) :
        o \in Morrises!Outcomes(lifted(from), to, state.toMove)
  BY <1>1
<1>3. /\ from \in Points /\ state.board[from] = state.toMove /\ state.toMove \in {0, 1}
      /\ to \in Points /\ state.board[to] = 2 /\ state.board \in MorrisBoard
  BY DEF Morrises!OnBoard, Morrises!Destinations, Morrises!Empty, MorrisState
<1>4. lifted(from) \in MorrisBoard /\ lifted(from)[to] = 2 BY <1>3 DEF MorrisBoard
<1>5. MenOn(lifted(from)) = MenOn(state.board) \ {from} /\ from \in MenOn(state.board)
  BY <1>3 DEF MorrisBoard, MenOn
<1>6. /\ Cardinality(MenOn(lifted(from))) = Cardinality(MenOn(state.board)) - 1
      /\ Cardinality(MenOn(state.board)) \in Nat
  BY <1>3, <1>5, Manned, FS_RemoveElement
<1> HIDE DEF lifted
<1>7. /\ o.board \in MorrisBoard /\ o.removed \in BOOLEAN
      /\ Cardinality(MenOn(o.board)) =
           Cardinality(MenOn(lifted(from))) + 1 - (IF o.removed THEN 1 ELSE 0)
  BY <1>2, <1>3, <1>4, PlyCounts
<1> QED BY <1>6, <1>7

LEMMA MenCount == ASSUME MorrisAssumption, NEW k \in Position PROVE Men(k) \in Nat
<1>1. k[1] \in MorrisBoard /\ k[3][0] \in Nat /\ k[3][1] \in Nat BY DEF Position, Hands
<1>2. Cardinality(MenOn(k[1])) \in Nat BY <1>1, Manned
<1> QED BY <1>1, <1>2 DEF Men

LEMMA OneLonger ==
  ASSUME NEW l \in Seq(Position), NEW k \in Position
  PROVE  \A i \in DOMAIN Append(l, k) :
           Append(l, k)[i] = k \/ (i \in DOMAIN l /\ Append(l, k)[i] = l[i])
OBVIOUS

\* The seat that placed has one man fewer in hand.
LEMMA HandsPlaced ==
  ASSUME NEW hand \in Hands, NEW seat \in {0, 1}, hand[seat] >= 1
  PROVE  LET inHand == [hand EXCEPT ![seat] = @ - 1] IN
         /\ inHand \in Hands /\ inHand[seat] = hand[seat] - 1 /\ inHand[1 - seat] = hand[1 - seat]
         /\ inHand[0] + inHand[1] = hand[0] + hand[1] - 1
<1>1. CASE seat = 0 BY <1>1 DEF Hands
<1>2. CASE seat = 1 BY <1>2 DEF Hands
<1> QED BY <1>1, <1>2

\* While men are placed, no position of the past has them all placed.
LEMMA PlacingGoesOn ==
  ASSUME MorrisAssumption, MorrisInv, state.phase = "placing",
         NEW o \in Morrises!Enumerate(state, state.toMove), Morrises!Apply(o)
  PROVE  MorrisInv'
<1> DEFINE here == Morrises!Here(state)
           hand == [state.inHand EXCEPT ![state.toMove] = @ - 1]
           k == <<o.board, 1 - state.toMove, hand>>
           moving == AllPlaced(hand)
<1>1. /\ state \in MorrisState /\ InTurn(state) /\ state.history = <<>>
      /\ \A i \in DOMAIN state.past : ~AllPlaced(state.past[i][3])
      /\ Men(here) <= Cardinality(Points)
      /\ \A i \in DOMAIN state.past : Men(state.past[i]) >= Men(here)
  BY DEF MorrisInv
<1>2. /\ o.board \in MorrisBoard /\ o.removed \in BOOLEAN
      /\ Cardinality(MenOn(o.board)) = Cardinality(MenOn(state.board)) + 1 - (IF o.removed THEN 1 ELSE 0)
  BY <1>1, PlacedMen
<1>3. /\ hand \in Hands /\ hand[state.toMove] = state.inHand[state.toMove] - 1
      /\ hand[1 - state.toMove] = state.inHand[1 - state.toMove]
      /\ hand[0] + hand[1] = state.inHand[0] + state.inHand[1] - 1
  BY <1>1, HandsPlaced DEF MorrisState, InTurn
<1>4. state' = [board |-> o.board, toMove |-> 1 - state.toMove, inHand |-> hand,
                phase |-> IF moving THEN "moving" ELSE "placing",
                quiet |-> IF ~moving \/ o.milled THEN 0 ELSE state.quiet + 1,
                history |-> IF moving THEN Morrises!HistoryAfter(state.history, k, o) ELSE <<>>,
                past |-> Append(state.past, k)]
  BY DEF Morrises!Apply, Morrises!Key, AllPlaced
<1>5. k \in Position /\ 1 - state.toMove \in {0, 1} BY <1>1, <1>2, <1>3 DEF Position, MorrisState
<1>6. Morrises!HistoryAfter(state.history, k, o) = <<k>>
  BY <1>1 DEF Morrises!HistoryAfter
<1>7. /\ state.past \in Seq(Position) /\ state.quiet \in Nat /\ state.inHand \in Hands
      /\ state.board \in MorrisBoard /\ state.toMove \in {0, 1}
  BY <1>1 DEF MorrisState
<1> HIDE DEF k, moving, hand
<1>8. state' \in MorrisState
  <2>1. (IF moving THEN Morrises!HistoryAfter(state.history, k, o) ELSE <<>>) \in Seq(Position)
    BY <1>5, <1>6
  <2>2. Append(state.past, k) \in Seq(Position) BY <1>5, <1>7
  <2>3. (IF ~moving \/ o.milled THEN 0 ELSE state.quiet + 1) \in Nat BY <1>7
  <2> QED BY <1>2, <1>3, <1>4, <1>5, <2>1, <2>2, <2>3 DEF MorrisState
<1>9. Morrises!Here(state') = k /\ Men(k) <= Men(here)
  <2>1. Morrises!Here(state') = k BY <1>4 DEF Morrises!Here, Morrises!Key, k
  <2>2. Men(k) = Cardinality(MenOn(o.board)) + hand[0] + hand[1] BY DEF Men, k
  <2>3. Men(here) = Cardinality(MenOn(state.board)) + state.inHand[0] + state.inHand[1]
    BY DEF Men, Morrises!Here, Morrises!Key
  <2>4. (IF o.removed THEN 1 ELSE 0) \in {0, 1} BY <1>2, Zenon
  <2>5. /\ Cardinality(MenOn(o.board)) \in Nat /\ Cardinality(MenOn(state.board)) \in Nat
        /\ hand[0] \in Nat /\ hand[1] \in Nat /\ state.inHand[0] \in Nat /\ state.inHand[1] \in Nat
    BY <1>2, <1>3, <1>7, Manned DEF Hands
  <2> QED BY <1>2, <1>3, <2>1, <2>2, <2>3, <2>4, <2>5
<1>10. /\ state'.past = Append(state.past, k)
       /\ state'.phase = (IF moving THEN "moving" ELSE "placing")
       /\ state'.inHand = hand /\ state'.toMove = 1 - state.toMove
       /\ state'.history = (IF moving THEN <<k>> ELSE <<>>)
  BY <1>4, <1>6
<1>11. \A i \in DOMAIN state'.past :
         \/ state'.past[i] = k
         \/ i \in DOMAIN state.past /\ state'.past[i] = state.past[i]
  BY <1>5, <1>7, <1>10, OneLonger
<1>12. k[3] = hand BY DEF k
<1>13. \A i \in DOMAIN state'.past : Men(state'.past[i]) >= Men(Morrises!Here(state'))
  <2> SUFFICES ASSUME NEW i \in DOMAIN state'.past PROVE Men(state'.past[i]) >= Men(k) BY <1>9
  <2>1. here \in Position BY <1>7 DEF Morrises!Here, Morrises!Key, Position
  <2>2. Men(here) \in Nat /\ Men(k) \in Nat BY <1>5, <2>1, MenCount
  <2>3. CASE state'.past[i] = k BY <2>2, <2>3
  <2>4. CASE i \in DOMAIN state.past /\ state'.past[i] = state.past[i]
    <3>1. state.past[i] \in Position BY <1>7, <2>4
    <3>2. Men(state.past[i]) \in Nat BY <3>1, MenCount
    <3> QED BY <1>1, <1>9, <2>2, <2>4, <3>2
  <2> QED BY <1>11, <2>3, <2>4
<1>14. ASSUME ~moving
       PROVE  /\ state'.phase = "placing" /\ InTurn(state') /\ state'.history = <<>>
              /\ \A i \in DOMAIN state'.past : ~AllPlaced(state'.past[i][3])
  <2>1. ~AllPlaced(hand) BY <1>14 DEF moving
  <2>2. \A i \in DOMAIN state'.past : ~AllPlaced(state'.past[i][3])
    BY <1>1, <1>11, <1>12, <2>1
  <2>3. InTurn(state')
    <3>1. hand[0] \in Nat /\ hand[1] \in Nat /\ state.inHand[0] \in Nat /\ state.inHand[1] \in Nat
      BY <1>3, <1>7 DEF Hands
    <3>2. CASE state.toMove = 0
      <4>1. state'.toMove = 1 /\ 1 - state'.toMove = 0 BY <1>10, <3>2
      <4>2. /\ hand[0] = state.inHand[0] - 1 /\ hand[1] = state.inHand[1]
            /\ state.inHand[0] >= 1 /\ state.inHand[0] - state.inHand[1] \in {0, 1}
        BY <1>1, <1>3, <3>2 DEF InTurn
      <4>3. hand[1] >= 1 /\ hand[1] - hand[0] \in {0, 1} BY <2>1, <3>1, <4>2 DEF AllPlaced
      <4> QED BY <1>10, <4>1, <4>3 DEF InTurn
    <3>3. CASE state.toMove = 1
      <4>1. state'.toMove = 0 /\ 1 - state'.toMove = 1 BY <1>10, <3>3
      <4>2. /\ hand[1] = state.inHand[1] - 1 /\ hand[0] = state.inHand[0]
            /\ state.inHand[1] >= 1 /\ state.inHand[1] - state.inHand[0] \in {0, 1}
        BY <1>1, <1>3, <3>3 DEF InTurn
      <4>3. hand[0] >= 1 /\ hand[0] - hand[1] \in {0, 1} BY <2>1, <3>1, <4>2 DEF AllPlaced
      <4> QED BY <1>10, <4>1, <4>3 DEF InTurn
    <3> QED BY <1>7, <3>2, <3>3
  <2> QED BY <1>10, <1>14, <2>2, <2>3
<1>15. ASSUME moving
       PROVE  /\ state'.phase = "moving" /\ AllPlaced(state'.inHand)
              /\ \A j \in Position : AllPlaced(j[3]) =>
                   Morrises!Occurrences(state'.history, j) = Morrises!Occurrences(state'.past, j)
  <2>1. /\ state'.phase = "moving" /\ AllPlaced(state'.inHand) /\ state'.history = <<k>>
    BY <1>10, <1>15 DEF moving
  <2>2. ASSUME NEW j \in Position, AllPlaced(j[3])
        PROVE  Morrises!Occurrences(state'.history, j) = Morrises!Occurrences(state'.past, j)
    <3>1. \A i \in DOMAIN state.past : state.past[i] # j BY <1>1, <2>2
    <3>2. Morrises!Occurrences(state.past, j) = 0 BY <1>7, <3>1, NeverThere
    <3>3. Morrises!Occurrences(<<k>>, j) = (IF j = k THEN 1 ELSE 0) BY <1>5, Once
    <3>4. Morrises!Occurrences(state'.past, j) = 0 + (IF j = k THEN 1 ELSE 0)
      BY <1>5, <1>7, <1>10, <3>2, OnceMore
    <3> QED BY <2>1, <3>3, <3>4
  <2> QED BY <2>1, <2>2
<1>16. Men(Morrises!Here(state')) <= Cardinality(Points)
  <2>1. here \in Position BY <1>7 DEF Morrises!Here, Morrises!Key, Position
  <2>2. Men(here) \in Nat /\ Men(k) \in Nat BY <1>5, <2>1, MenCount
  <2>3. Cardinality(Points) \in Nat BY FS_CardinalityType DEF MorrisAssumption
  <2> QED BY <1>1, <1>9, <2>2, <2>3
<1> QED BY <1>8, <1>13, <1>14, <1>15, <1>16 DEF MorrisInv

\* A ply that captures leaves fewer men than any position before it had.
LEMMA MovingGoesOn ==
  ASSUME MorrisAssumption, MorrisInv, state.phase = "moving",
         NEW o \in Morrises!Enumerate(state, state.toMove), Morrises!Apply(o)
  PROVE  MorrisInv'
<1> DEFINE here == Morrises!Here(state)
           k == <<o.board, 1 - state.toMove, state.inHand>>
<1>1. /\ state \in MorrisState /\ AllPlaced(state.inHand) /\ Men(here) <= Cardinality(Points)
      /\ \A i \in DOMAIN state.past : Men(state.past[i]) >= Men(here)
      /\ \A j \in Position : AllPlaced(j[3]) /\ Men(j) <= Men(here) =>
           Morrises!Occurrences(state.history, j) = Morrises!Occurrences(state.past, j)
  BY DEF MorrisInv
<1>2. /\ o.board \in MorrisBoard /\ o.removed \in BOOLEAN
      /\ Cardinality(MenOn(o.board)) = Cardinality(MenOn(state.board)) - (IF o.removed THEN 1 ELSE 0)
  BY <1>1, MovedMen
<1>3. /\ state.past \in Seq(Position) /\ state.history \in Seq(Position) /\ state.quiet \in Nat
      /\ state.board \in MorrisBoard /\ state.toMove \in {0, 1} /\ state.inHand \in Hands
  BY <1>1 DEF MorrisState
<1>4. state' = [board |-> o.board, toMove |-> 1 - state.toMove, inHand |-> state.inHand,
                phase |-> "moving",
                quiet |-> IF o.milled THEN 0 ELSE state.quiet + 1,
                history |-> Morrises!HistoryAfter(state.history, k, o),
                past |-> Append(state.past, k)]
  <2>1. \A seat \in {0, 1} : state.inHand[seat] = 0 BY <1>1 DEF AllPlaced
  <2>2. state.phase # "placing" OBVIOUS
  <2> QED BY <2>1, <2>2 DEF Morrises!Apply, Morrises!Key
<1>5. k \in Position /\ 1 - state.toMove \in {0, 1} BY <1>2, <1>3 DEF Position
<1>6. here \in Position BY <1>3 DEF Morrises!Here, Morrises!Key, Position
<1>7. Men(here) \in Nat /\ Men(k) \in Nat BY <1>5, <1>6, MenCount
<1>8. Morrises!Here(state') = k /\ Men(k) = Men(here) - (IF o.removed THEN 1 ELSE 0)
  <2>1. Morrises!Here(state') = k BY <1>4 DEF Morrises!Here, Morrises!Key
  <2>2. Men(k) = Cardinality(MenOn(o.board)) + 0 + 0 BY <1>1 DEF Men, AllPlaced
  <2>3. Men(here) = Cardinality(MenOn(state.board)) + 0 + 0
    BY <1>1 DEF Men, AllPlaced, Morrises!Here, Morrises!Key
  <2>4. Cardinality(MenOn(o.board)) \in Nat /\ Cardinality(MenOn(state.board)) \in Nat
    BY <1>2, <1>3, Manned
  <2>5. (IF o.removed THEN 1 ELSE 0) \in {0, 1} BY <1>2, Zenon
  <2> HIDE DEF k, here
  <2> QED BY <1>2, <2>1, <2>2, <2>3, <2>4, <2>5
<1> HIDE DEF k
<1>9. Morrises!HistoryAfter(state.history, k, o) = (IF o.removed THEN <<k>> ELSE Append(state.history, k))
  BY DEF Morrises!HistoryAfter
<1>10. state' \in MorrisState
  <2>1. Morrises!HistoryAfter(state.history, k, o) \in Seq(Position)
    <3>1. <<k>> \in Seq(Position) /\ Append(state.history, k) \in Seq(Position) BY <1>3, <1>5
    <3> QED BY <1>2, <1>9, <3>1, Zenon
  <2>2. Append(state.past, k) \in Seq(Position) BY <1>3, <1>5
  <2>3. (IF o.milled THEN 0 ELSE state.quiet + 1) \in Nat BY <1>3
  <2> QED BY <1>2, <1>3, <1>4, <1>5, <2>1, <2>2, <2>3 DEF MorrisState
<1>11. /\ state'.past = Append(state.past, k) /\ state'.phase = "moving"
       /\ state'.inHand = state.inHand
       /\ state'.history = Morrises!HistoryAfter(state.history, k, o)
  BY <1>4
<1>12. (IF o.removed THEN 1 ELSE 0) \in {0, 1} BY <1>2, Zenon
<1>13. Men(k) <= Men(here) BY <1>7, <1>8, <1>12
<1>14. \A i \in DOMAIN state'.past : Men(state'.past[i]) >= Men(Morrises!Here(state'))
  <2> SUFFICES ASSUME NEW i \in DOMAIN state'.past PROVE Men(state'.past[i]) >= Men(k) BY <1>8
  <2>1. CASE state'.past[i] = k BY <1>7, <2>1
  <2>2. CASE i \in DOMAIN state.past /\ state'.past[i] = state.past[i]
    <3>1. state.past[i] \in Position BY <1>3, <2>2
    <3>2. Men(state.past[i]) \in Nat BY <3>1, MenCount
    <3> QED BY <1>1, <1>7, <1>13, <2>2, <3>2
  <2> QED BY <1>3, <1>5, <1>11, <2>1, <2>2, OneLonger
<1>15. ASSUME NEW j \in Position, AllPlaced(j[3]), Men(j) <= Men(k)
       PROVE  Morrises!Occurrences(state'.history, j) = Morrises!Occurrences(state'.past, j)
  <2>1. Men(j) \in Nat BY MenCount
  <2>2. CASE o.removed
    <3>1. (IF o.removed THEN 1 ELSE 0) = 1 BY <2>2, Zenon
    <3>2. Men(j) < Men(here) BY <1>7, <1>8, <1>15, <2>1, <3>1
    <3>3. \A i \in DOMAIN state.past : state.past[i] # j
      <4> SUFFICES ASSUME NEW i \in DOMAIN state.past, state.past[i] = j PROVE FALSE OBVIOUS
      <4>1. Men(j) >= Men(here) BY <1>1
      <4> QED BY <1>7, <2>1, <3>2, <4>1
    <3>4. Morrises!Occurrences(state.past, j) = 0 BY <1>3, <3>3, NeverThere
    <3>5. Morrises!Occurrences(<<k>>, j) = (IF j = k THEN 1 ELSE 0) BY <1>5, Once
    <3>6. Morrises!Occurrences(state'.past, j) = 0 + (IF j = k THEN 1 ELSE 0)
      BY <1>3, <1>5, <1>11, <3>4, OnceMore
    <3>7. state'.history = <<k>> BY <1>9, <1>11, <2>2, Zenon
    <3> QED BY <3>5, <3>6, <3>7
  <2>3. CASE ~o.removed
    <3>1. Morrises!Occurrences(state.history, j) = Morrises!Occurrences(state.past, j)
      BY <1>1, <1>7, <1>13, <1>15, <2>1
    <3>2. state'.history = Append(state.history, k) BY <1>9, <1>11, <2>3, Zenon
    <3>3. Morrises!Occurrences(Append(state.history, k), j) =
            Morrises!Occurrences(state.history, j) + (IF j = k THEN 1 ELSE 0)
      BY <1>3, <1>5, OnceMore
    <3>4. Morrises!Occurrences(Append(state.past, k), j) =
            Morrises!Occurrences(state.past, j) + (IF j = k THEN 1 ELSE 0)
      BY <1>3, <1>5, OnceMore
    <3> QED BY <1>11, <3>1, <3>2, <3>3, <3>4
  <2> QED BY <1>2, <2>2, <2>3, Zenon
<1>16. Men(Morrises!Here(state')) <= Cardinality(Points)
  <2>1. Cardinality(Points) \in Nat BY FS_CardinalityType DEF MorrisAssumption
  <2> QED BY <1>1, <1>7, <1>8, <1>13, <2>1
<1> QED BY <1>1, <1>8, <1>10, <1>11, <1>14, <1>15, <1>16 DEF MorrisInv

LEMMA MorrisIsInv == ASSUME MorrisAssumption PROVE Morrises!Spec => []MorrisInv
<1>1. Morrises!Init => MorrisInv
  BY DEF Morrises!Init, MorrisAssumption, MorrisInv
<1>2. MorrisInv /\ [Morrises!Next]_state => MorrisInv'
  <2> SUFFICES ASSUME MorrisInv, [Morrises!Next]_state PROVE MorrisInv'
    OBVIOUS
  <2>1. CASE Morrises!PlaceMan BY <2>1, PlacingGoesOn DEF Morrises!PlaceMan
  <2>2. CASE Morrises!MoveMan BY <2>2, MovingGoesOn DEF Morrises!MoveMan
  <2>3. CASE UNCHANGED state BY <2>3 DEF MorrisInv
  <2> QED BY <2>1, <2>2, <2>3 DEF Morrises!Next
<1> QED BY <1>1, <1>2, PTL DEF Morrises!Spec

\* RepetitionsCounted of Nine Men's Morris, on any board and from any men in
\* hand: once men are moved, the repetitions a draw is decided on are those of
\* the whole game, whatever captures have made the history forget.
THEOREM RepetitionsAreOfTheGame ==
  ASSUME MorrisAssumption
  PROVE  Morrises!Spec => []Morrises!RepetitionsCounted
<1>1. MorrisInv => Morrises!RepetitionsCounted
  <2> SUFFICES ASSUME MorrisInv, state.phase = "moving"
               PROVE  Morrises!Occurrences(state.history, Morrises!Here(state)) =
                      Morrises!Occurrences(state.past, Morrises!Here(state))
    BY DEF Morrises!RepetitionsCounted
  <2>1. state \in MorrisState /\ AllPlaced(state.inHand) BY DEF MorrisInv
  <2>2. Morrises!Here(state) \in Position /\ Morrises!Here(state)[3] = state.inHand
    BY <2>1 DEF MorrisState, Position, Morrises!Here, Morrises!Key
  <2>3. Men(Morrises!Here(state)) \in Nat BY <2>2, MenCount
  <2> QED BY <2>1, <2>2, <2>3 DEF MorrisInv
<1> QED BY <1>1, MorrisIsInv, PTL

\* NeverStuck of Nine Men's Morris: while men are placed there is a point for
\* the next one, and whoever has no move left has lost.
THEOREM MorrisGoesOn ==
  ASSUME MorrisAssumption
  PROVE  Morrises!Spec => []Morrises!NeverStuck
<1>1. MorrisInv => Morrises!NeverStuck
  <2> SUFFICES ASSUME MorrisInv, Morrises!Result(state) = "none"
               PROVE  Morrises!Enumerate(state, state.toMove) # {}
    BY DEF Morrises!NeverStuck
  <2>1. state \in MorrisState /\ Men(Morrises!Here(state)) <= Cardinality(Points) BY DEF MorrisInv
  <2>2. CASE state.phase = "moving"
    <3>1. Morrises!Reduced(state) = {} BY DEF Morrises!Result
    <3> QED BY <2>2, <3>1 DEF Morrises!Result
  <2>3. CASE state.phase = "placing"
    <3>1. InTurn(state) BY <2>3 DEF MorrisInv
    <3>2. Men(Morrises!Here(state)) =
            Cardinality(MenOn(state.board)) + state.inHand[0] + state.inHand[1]
      BY DEF Men, Morrises!Here, Morrises!Key
    <3>3. /\ state.inHand[0] \in Nat /\ state.inHand[1] \in Nat /\ state.board \in MorrisBoard
          /\ state.toMove \in {0, 1}
      BY <2>1 DEF MorrisState, Hands
    <3>4. Cardinality(MenOn(state.board)) \in Nat BY <3>3, Manned
    <3>5. state.inHand[0] >= 1 \/ state.inHand[1] >= 1 BY <3>1, <3>3 DEF InTurn
    <3>6. Cardinality(Points) \in Nat BY FS_CardinalityType DEF MorrisAssumption
    <3>7. Cardinality(MenOn(state.board)) < Cardinality(Points)
      BY <2>1, <3>2, <3>3, <3>4, <3>5, <3>6
    <3>8. MenOn(state.board) # Points BY <3>4, <3>7
    <3>9. PICK to \in Points : state.board[to] = 2 BY <3>8 DEF MenOn
    <3>10. to \in Morrises!OnBoard(state.board, 2) BY <3>9 DEF Morrises!OnBoard
    <3>11. Morrises!Outcomes(state.board, to, state.toMove) # {}
      BY DEF Morrises!Outcomes
    <3> QED BY <2>3, <3>10, <3>11 DEF Morrises!Enumerate, Morrises!Empty
  <2> QED BY <2>1, <2>2, <2>3 DEF MorrisState
<1> QED BY <1>1, MorrisIsInv, PTL

=============================================================================
