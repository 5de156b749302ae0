---------------------------- MODULE WerewolfTable ----------------------------
(***************************************************************************)
(* Werewolf as a room plays it: the hooks of games/werewolf/index.ts, as   *)
(* the constants of GameContract.                                          *)
(***************************************************************************)
EXTENDS Werewolf, Sequences

CONSTANTS
  Submission,  \* what agents may submit
  Budget,      \* phaseBudgetMs(), and budgetMs() once the game is over
  None

Role == {"werewolf", "seer", "doctor", "villager"}
Phase == {"night", "day_talk", "day_defense", "day_vote", "over"}

\* A target that is no seat.
Stranger == SeatCount + 1

WwMove ==
  {Act(t, Nobody) : t \in {"stay_in", "sleep", "say", "abstain"}}
    \cup {Act(t, q) : t \in {"kill", "guard", "accuse", "vote"}, q \in Seat \cup {Stranger}}

SeatOrNobody == Seat \cup {Nobody}

\* A slot keeps what apply() accepted, or nothing.
Slot == {NoAct} \cup {m \in WwMove : m.target # Stranger}

WwState ==
  [roles : [Seat -> Role], day : Nat, phase : Phase, round : Nat,
   alive : [Seat -> BOOLEAN], cause : [Seat -> {"none", "wolves", "lynch", "abandoned"}],
   nightActs : [Seat -> Slot], said : [Seat -> Slot], ballots : [Seat -> Slot],
   lastGuard : SeatOrNobody, accused : [Seat -> Nat], defender : SeatOrNobody, defended : BOOLEAN]

\* The states settle() leaves behind: the game is over, or waits for somebody.
RestingState ==
  {s \in WwState : IF Terminal(s) THEN s.phase = "over" ELSE PlayersToMove(s) # {}}

\* What a game can end with.
Outcome == [winners : SUBSET Seat, draw : {FALSE}, reason : {"village", "wolves", "day_limit"}]

-----------------------------------------------------------------------------
(* The hooks.                                                              *)

\* isTerminal(): the village is asked first; the dead win with their team.
Verdict(s) ==
  LET won(team, reason) == [winners |-> team, draw |-> FALSE, reason |-> reason]
      wolves == Cardinality(Wolves(s) \cap Living(s))
      rest   == Cardinality(Living(s) \ Wolves(s))
  IN  IF wolves = 0 THEN won(Seat \ Wolves(s), "village")
      ELSE IF wolves >= rest THEN won(Wolves(s), "wolves")
      ELSE IF s.day > DayLimit THEN won(Wolves(s), "day_limit")
      ELSE None

GoneFrom(s) == Seat \ Living(s)
BudgetOf(s) == Budget[s.phase]

\* The null act of the phase.
DefaultMove(s, p) ==
  CASE s.phase = "night" -> IF s.roles[p] = "werewolf" THEN Act("stay_in", Nobody) ELSE Act("sleep", Nobody)
    [] s.phase = "day_vote" -> Act("abstain", Nobody)
    [] OTHER -> Act("say", Nobody)

\* The moves that name somebody, in the order of the seats they name.
InSeatOrder(moves) ==
  [k \in 1 .. Cardinality(moves) |->
     CHOOSE m \in moves : Cardinality({n \in moves : n.target < m.target}) = k - 1]

\* legalMoves(): the null act is the first.
LegalList(s, p) ==
  IF p \in PlayersToMove(s)
  THEN <<DefaultMove(s, p)>> \o InSeatOrder({m \in LegalMoves(s, p) : m.target # Nobody})
  ELSE <<>>

ApplyMove(s, p, m) == IF m.target # Stranger /\ Accepts(s, p, m) THEN Apply(s, p, m) ELSE None

ForfeitSeat(s, p) == IF Terminal(s) \/ ~s.alive[p] THEN None ELSE ForfeitPlayer(s, p)

\* A text, as the parser reads it: the act it calls ("night" is the redacted
\* one), if any, and the first seat it names, if any.
Notation == [call : WwMove \cup {Act("night", Nobody), NoAct}, seat : Seat \cup {Stranger, Nobody}]

ActsIn(phase, t) ==
  CASE phase = "night" -> t \in {"night", "sleep", "stay_in", "kill", "guard"}
    [] phase = "day_vote" -> t \in {"vote", "abstain"}
    [] phase = "over" -> t # "none"
    [] OTHER -> t \in {"say", "accuse"}

\* What the seat named stands for in a phase that knows no other words (a seer
\* would peek at it, which is a sleep here).
Aimed(s, p, seat) ==
  CASE s.phase = "day_vote" /\ seat # Nobody -> Act("vote", seat)
    [] s.phase \in {"night", "over"} /\ seat # Nobody /\ s.roles[p] = "werewolf" -> Act("kill", seat)
    [] s.phase \in {"night", "over"} /\ seat # Nobody /\ s.roles[p] = "doctor" -> Act("guard", seat)
    [] OTHER -> DefaultMove(s, p)

\* parseWwMove(): whatever matches no verb of the phase is an act of it all the same.
ParseMove(s, p, text) ==
  CASE ActsIn(s.phase, text.call.t) /\ text.call.t # "night" -> text.call
    [] text.call.t = "night" /\ s.phase \in {"night", "over"} -> DefaultMove([s EXCEPT !.phase = "night"], p)
    [] OTHER -> Aimed(s, p, text.seat)

-----------------------------------------------------------------------------
\* Teams of which neither has won yet, and something for None to be.
WerewolfAssumption ==
  /\ SeatCount \in Nat \ {0} /\ DayLimit \in Nat \ {0} /\ TalkRounds \in Nat
  /\ MaxSteps \in Nat \ {0, 1}
  /\ Deals \subseteq [Seat -> Role]
  /\ \A deal \in Deals :
       LET pack == Cardinality({p \in Seat : deal[p] = "werewolf"})
       IN  0 < pack /\ pack < Cardinality({p \in Seat : deal[p] # "werewolf"})
  /\ Suspects \subseteq Seat
  /\ Budget \in [Phase -> Nat \ {0}]
  /\ None \notin WwState \cup WwMove \cup Outcome
  /\ \A sub \in Submission : sub.by = "notation" => sub.arg \in Notation

Contract == INSTANCE GameContract WITH
  NSeats <- SeatCount, GState <- RestingState, InitStates <- {InitialState(deal) : deal \in Deals},
  Move <- WwMove, GameReason <- {"village", "wolves", "day_limit"},
  LegalMoves <- LegalList, Apply <- ApplyMove, IsTerminal <- Verdict,
  ForfeitPlayer <- ForfeitSeat, Gone <- GoneFrom, PhaseBudget <- BudgetOf

Rests == state \in RestingState

\* Wherever the game is, a room can go on with it as the kernel requires, and
\* what an agent wrote means the same until its turn in the phase comes: the
\* contract RoomCore rests on.
RoomCanPlay == Rests /\ Contract!ContractAt(state) /\ Contract!SubmissionLastsAt(state)

=============================================================================
