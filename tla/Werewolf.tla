------------------------------ MODULE Werewolf ------------------------------
(***************************************************************************)
(* The rules of the Werewolf game (games/werewolf/rules.ts): night, rounds *)
(* of talk, a defence, a vote, and so on until a team has won.             *)
(*                                                                         *)
(* Nights, talks and votes are simultaneous: a move fills a slot of its    *)
(* seat and nothing happens until every living seat has filled one; then   *)
(* settle() resolves the phase inside the move that came last.  A seat may *)
(* be forfeited at any point (three strikes, a fallen flag), also between  *)
(* two moves of one phase: the room applies the held moves one by one.     *)
(*                                                                         *)
(* Words are left out, and with them every act that only leaves words or   *)
(* a line in a ledger behind: "say" stands for say, defend, claim and      *)
(* report, "sleep" for sleep and peek.                                     *)
(***************************************************************************)
EXTENDS Naturals, FiniteSets

CONSTANTS
  SeatCount,   \* seats are 0 .. SeatCount - 1, ROLE_MULTISET is dealt to them
  Deals,       \* the deals considered, functions from seats to roles
  TalkRounds,  \* TALK_ROUNDS
  DayLimit,    \* DAY_LIMIT
  MaxSteps,    \* SETTLE_MAX_STEPS
  Suspects,    \* bound: seats anybody accuses or votes for
  MaxForfeits  \* bound: seats that abandon the game

VARIABLE state

Seat == 0 .. SeatCount - 1
Nobody == SeatCount
NoAct == [t |-> "none", target |-> Nobody]
NoActs == [p \in Seat |-> NoAct]
Act(t, q) == [t |-> t, target |-> q]

Lowest(seats) == CHOOSE p \in seats : \A q \in seats : p <= q

Living(s) == {p \in Seat : s.alive[p]}
Wolves(s) == {p \in Seat : s.roles[p] = "werewolf"}

Terminal(s) ==
  LET wolves == Cardinality(Wolves(s) \cap Living(s))
      rest   == Cardinality(Living(s) \ Wolves(s))
  IN  wolves = 0 \/ wolves >= rest \/ s.day > DayLimit

\* The slots of the phase: who has not filled one is to move.
Slots(s) ==
  CASE s.phase = "night" -> s.nightActs
    [] s.phase = "day_vote" -> s.ballots
    [] OTHER -> s.said

PlayersToMove(s) ==
  IF s.phase = "over" \/ Terminal(s) THEN {}
  ELSE IF s.phase = "day_defense"
  THEN {p \in Living(s) : p = s.defender /\ ~s.defended}
  ELSE {p \in Living(s) : Slots(s)[p] = NoAct}

-----------------------------------------------------------------------------
(* What a seat is offered, and what apply() accepts of whatever it sends.  *)

OwnNightMoves(s, p) ==
  CASE s.roles[p] = "werewolf" ->
         {Act("stay_in", Nobody)} \cup {Act("kill", q) : q \in Living(s) \ Wolves(s)}
    [] s.roles[p] = "doctor" ->
         {Act("sleep", Nobody)} \cup {Act("guard", q) : q \in Living(s) \ {s.lastGuard}}
    [] OTHER -> {Act("sleep", Nobody)}

\* A bug the contract of applyMove names: a rule that reads another's slot.
GuardsSeeKills(s, p) ==
  {m \in OwnNightMoves(s, p) : m.t = "guard" => \A q \in Seat : s.nightActs[q] # Act("kill", m.target)}

NightMoves(s, p) == OwnNightMoves(s, p)

LegalMoves(s, p) ==
  IF p \notin PlayersToMove(s) THEN {}
  ELSE CASE s.phase = "night" -> NightMoves(s, p)
         [] s.phase = "day_vote" ->
              {Act("abstain", Nobody)} \cup {Act("vote", q) : q \in Living(s) \cap Suspects}
         [] OTHER ->
              {Act("say", Nobody)} \cup {Act("accuse", q) : q \in (Living(s) \cap Suspects) \ {p}}

\* The checks of applyMove, applyNight and buildSaid, the cheap ones first.
\* Who is to move is alive in a game that is not over.
Accepts(s, p, m) ==
  /\ m.target # Nobody => s.alive[m.target]
  /\ CASE s.phase = "night" ->
            \/ s.roles[p] = "werewolf" /\ m.t = "stay_in"
            \/ s.roles[p] = "werewolf" /\ m.t = "kill" /\ s.roles[m.target] # "werewolf"
            \/ s.roles[p] # "werewolf" /\ m.t = "sleep"
            \/ s.roles[p] = "doctor" /\ m.t = "guard" /\ m.target # s.lastGuard
       [] s.phase = "day_vote" -> m.t \in {"abstain", "vote"}
       [] OTHER -> m.t = "say" \/ (m.t = "accuse" /\ m.target # p)
  /\ p \in PlayersToMove(s)

Acts ==
  {Act(t, Nobody) : t \in {"stay_in", "sleep", "say", "abstain"}}
    \cup {Act(t, q) : t \in {"kill", "guard"}, q \in Seat}
    \cup {Act(t, q) : t \in {"accuse", "vote"}, q \in Suspects}

-----------------------------------------------------------------------------
(* The phase engine.                                                       *)

Dies(s, q, why) == [s EXCEPT !.alive[q] = FALSE, !.cause[q] = why]

\* The guard of the doctor, the kill of the lowest wolf that asked for one;
\* the guard beats the kill.  Dead seats' slots were emptied with them.
ResolveNight(s) ==
  LET acting(t) == {p \in Living(s) : s.nightActs[p].t = t}
      chosen(t) == IF acting(t) = {} THEN Nobody ELSE s.nightActs[Lowest(acting(t))].target
      victim    == chosen("kill")
      guarded   == chosen("guard")
      dawn      == IF victim \in {Nobody, guarded} THEN s ELSE Dies(s, victim, "wolves")
  IN  [dawn EXCEPT !.lastGuard = IF guarded = Nobody THEN @ ELSE guarded,
                   !.nightActs = NoActs, !.said = NoActs, !.round = 0, !.phase = "day_talk"]

\* What was said becomes today's accusations, in whatever order it was said.
DrainSaid(s) ==
  [s EXCEPT !.accused = [q \in Seat |-> @[q] + Cardinality({p \in Seat : s.said[p] = Act("accuse", q)})],
            !.said = NoActs]

MostAccused(s) ==
  LET worst == {q \in Living(s) : /\ s.accused[q] > 0
                                  /\ \A r \in Living(s) : s.accused[q] >= s.accused[r]}
  IN  IF worst = {} THEN Nobody ELSE Lowest(worst)

OpenVote(s) == [DrainSaid(s) EXCEPT !.ballots = NoActs, !.phase = "day_vote"]

EndTalk(s) ==
  LET heard == DrainSaid(s)
      d     == MostAccused(heard)
  IN  IF s.round + 1 < TalkRounds THEN [heard EXCEPT !.round = @ + 1]
      ELSE IF d = Nobody THEN OpenVote([heard EXCEPT !.round = 0])
      ELSE [heard EXCEPT !.round = 0, !.defender = d, !.defended = FALSE, !.phase = "day_defense"]

\* Accusations are counted by day, so a new day starts with none.
Dusk(s) ==
  [s EXCEPT !.accused = [q \in Seat |-> 0],
            !.nightActs = NoActs, !.said = NoActs, !.ballots = NoActs,
            !.defender = Nobody, !.defended = FALSE, !.round = 0, !.day = @ + 1, !.phase = "night"]

\* A strict plurality of the living is lynched, any tie spares everybody.
ResolveVote(s) ==
  LET tally(q) == Cardinality({p \in Seat : s.ballots[p] = Act("vote", q)})
      ahead    == {q \in Living(s) : /\ tally(q) > 0
                                     /\ \A r \in Living(s) \ {q} : tally(q) > tally(r)}
      counted  == IF ahead = {} THEN s ELSE Dies(s, Lowest(ahead), "lynch")
  IN  IF Terminal(counted) THEN counted ELSE Dusk(counted)

DefenceDone(s) == s.defender = Nobody \/ ~s.alive[s.defender] \/ s.defended

\* One pass of the loop of settle(): the next phase, or s when it rests.
Advance(s) ==
  LET waits == \E p \in Living(s) : Slots(s)[p] = NoAct
  IN  CASE s.phase = "over" -> s
        [] s.phase # "over" /\ Terminal(s) -> [s EXCEPT !.phase = "over"]
        [] OTHER ->
             CASE s.phase = "night" /\ ~waits -> ResolveNight(s)
               [] s.phase = "day_talk" /\ ~waits -> EndTalk(s)
               [] s.phase = "day_defense" /\ DefenceDone(s) -> OpenVote(s)
               [] s.phase = "day_vote" /\ ~waits -> ResolveVote(s)
               [] OTHER -> s

\* As many passes as it may take; one over a state that rests changes nothing.
Settle(s) ==
  LET after[n \in 0 .. MaxSteps] == IF n = 0 THEN s ELSE Advance(after[n - 1])
  IN  after[MaxSteps]

-----------------------------------------------------------------------------
(* The two ways into the rules: a move, and a seat that is lost.           *)

\* The single mover of the defence has defended; a slot is filled otherwise.
Apply(s, p, m) ==
  Settle(CASE s.phase = "night" -> [s EXCEPT !.nightActs[p] = m]
           [] s.phase = "day_talk" -> [s EXCEPT !.said[p] = m]
           [] s.phase = "day_defense" -> [s EXCEPT !.said[p] = m, !.defended = TRUE]
           [] s.phase = "day_vote" -> [s EXCEPT !.ballots[p] = m])

Abandoned(s, p) ==
  LET gone == [Dies(s, p, "abandoned") EXCEPT
                 !.nightActs[p] = NoAct, !.said[p] = NoAct, !.ballots[p] = NoAct]
  IN  IF s.defender = p THEN [gone EXCEPT !.defender = Nobody, !.defended = TRUE] ELSE gone

ForfeitUnsettled(s, p) == Abandoned(s, p)

ForfeitPlayer(s, p) == Settle(Abandoned(s, p))

InitialState(deal) ==
  [roles |-> deal, day |-> 1, phase |-> "night", round |-> 0,
   alive |-> [p \in Seat |-> TRUE], cause |-> [p \in Seat |-> "none"],
   nightActs |-> NoActs, said |-> NoActs, ballots |-> NoActs,
   lastGuard |-> Nobody, accused |-> [p \in Seat |-> 0],
   defender |-> Nobody, defended |-> FALSE]

Init == \E deal \in Deals : state = InitialState(deal)

\* The room applies the moves it holds in the order of the seats.
Play(p) ==
  /\ \A q \in PlayersToMove(state) : p <= q
  /\ \E m \in Acts : Accepts(state, p, m) /\ state' = Apply(state, p, m)

Forfeit(p) ==
  /\ ~Terminal(state) /\ state.alive[p]
  /\ Cardinality({q \in Seat : state.cause[q] = "abandoned"}) < MaxForfeits
  /\ state' = ForfeitPlayer(state, p)

Next == \E p \in Seat : Play(p) \/ Forfeit(p)

Spec == Init /\ [][Next]_state

-----------------------------------------------------------------------------
(* Properties.                                                             *)

\* settle() never leaves an unfinished game resting with nobody to move, not
\* even after a seat is lost in the middle of a phase, and every seat that is
\* to move is offered something, all of which apply() accepts.
NeverRests ==
  ~Terminal(state) =>
    /\ PlayersToMove(state) # {}
    /\ \A p \in PlayersToMove(state) :
         /\ LegalMoves(state, p) # {}
         /\ \A m \in LegalMoves(state, p) : Accepts(state, p, m)

\* In a simultaneous phase the order in which two seats move is of no
\* consequence: the first changes nothing of what the second is offered (a
\* move may be sent as an index), both orders are accepted, and both end in
\* the same state.  Nor does a seat that moves, or is lost, take the turn of
\* another: short of the end of the game the rest of the phase stays to move.
OrderIndependent ==
  /\ \A p \in PlayersToMove(state), q \in PlayersToMove(state) : p # q =>
       \A m \in LegalMoves(state, p) :
         LET s == Apply(state, p, m)
         IN  /\ LegalMoves(s, q) = LegalMoves(state, q)
             /\ \A n \in LegalMoves(state, q) :
                  Accepts(s, q, n) /\ (p < q => Apply(s, q, n) = Apply(Apply(state, q, n), p, m))
  /\ \A p \in PlayersToMove(state) : PlayersToMove(state) # {p} =>
       \A s \in {Apply(state, p, m) : m \in LegalMoves(state, p)} \cup {ForfeitPlayer(state, p)} :
         Terminal(s) \/ PlayersToMove(s) = PlayersToMove(state) \ {p}

=============================================================================
