--------------------------- MODULE RoomCoreProofs ---------------------------
(***************************************************************************)
(* Theorems about RoomCore, for every game that keeps the kernel's         *)
(* contract, any number of seats and every clock: types, the end of a      *)
(* session, strikes; then what the log says of a turn, and the phases.     *)
(***************************************************************************)
EXTENDS RoomCore, TLAPS, FiniteSetTheorems, SequenceTheorems

\* The contract is cited for one state at a time.
USE DEF KeepsContract, ContractAt, PhaseLastsAt, SubmissionLastsAt

-----------------------------------------------------------------------------
(* What the contract says of one state, and what the operators return.     *)

LEMMA NoneIsNothing ==
  None \notin Nat /\ None \notin GState /\ None \notin Move /\ None \notin Submission /\ None \notin Result
BY SeatsAssumption

LEMMA GameTypes ==
  ASSUME NEW g \in GState, NEW p \in Player
  PROVE  /\ PlayersToMove(g) \subseteq Player \ Gone(g)
         /\ IsTerminal(g) # None => IsTerminal(g) \in Result
         /\ PhaseBudget(g) \in Nat
         /\ LegalMoves(g, p) \in Seq(Move)
         /\ DefaultMove(g, p) # None => DefaultMove(g, p) \in Move
         /\ ForfeitPlayer(g, p) # None => ForfeitPlayer(g, p) \in GState
         /\ \A m \in Move : Apply(g, p, m) # None => Apply(g, p, m) \in GState
BY KernelContract

LEMMA ForcedMovesApply ==
  ASSUME NEW g \in GState, NEW p \in PlayersToMove(g)
  PROVE  /\ \A i \in DOMAIN LegalMoves(g, p) :
              LegalMoves(g, p)[i] \in Move /\ Apply(g, p, LegalMoves(g, p)[i]) \in GState
         /\ DefaultMove(g, p) # None => Apply(g, p, DefaultMove(g, p)) \in GState
<1>1. p \in Player BY KernelContract
<1>2. LegalMoves(g, p) \in Seq(Move) BY <1>1, GameTypes
<1>3. \A i \in DOMAIN LegalMoves(g, p) : LegalMoves(g, p)[i] \in Move BY <1>2
<1>4. \A i \in DOMAIN LegalMoves(g, p) : Apply(g, p, LegalMoves(g, p)[i]) # None BY KernelContract
<1>5. DefaultMove(g, p) # None => DefaultMove(g, p) \in Move /\ Apply(g, p, DefaultMove(g, p)) # None
  BY <1>1, KernelContract
<1> QED BY <1>1, <1>3, <1>4, <1>5, GameTypes

LEMMA ResolveType ==
  ASSUME NEW g \in GState, NEW p \in Player, NEW sub \in Submission
  PROVE  Resolve(g, p, sub) # None => Resolve(g, p, sub) \in Move
<1>1. CASE sub.by = "index"
  <2>1. LegalMoves(g, p) \in Seq(Move) /\ sub.arg \in Nat BY <1>1, GameTypes, SeatsAssumption
  <2>2. sub.arg < Len(LegalMoves(g, p)) => LegalMoves(g, p)[sub.arg + 1] \in Move BY <2>1
  <2> QED BY <1>1, <2>2 DEF Resolve
<1>2. CASE sub.by = "notation"
  BY <1>2, KernelContract DEF Resolve
<1> QED BY <1>1, <1>2, SeatsAssumption

\* What the room may pick for a seat to move: a move that apply accepts.
Pick == [move : Move, draws : Seq(Draw)]

LEMMA SeededMovesType ==
  ASSUME TypeOK, NEW p \in PlayersToMove(state), NEW purpose \in {"illegal", "timeout"},
         NEW pick \in SeededMoves(p, purpose)
  PROVE  pick \in Pick /\ Apply(state, p, pick.move) \in GState
<1>1. state \in GState /\ turnIndex \in Nat /\ seedDraws \in Seq(Draw) BY DEF TypeOK
<1>2. p \in Player BY <1>1, KernelContract
<1> DEFINE n == Len(LegalMoves(state, p))
           drawn == {i \in DOMAIN seedDraws :
                       seedDraws[i].purpose = purpose /\ seedDraws[i].turn_index = turnIndex}
<1>3. LegalMoves(state, p) \in Seq(Move) /\ n \in Nat BY <1>1, <1>2, GameTypes
<1>4. Cardinality(drawn) \in Nat
  <2>1. IsFiniteSet(1 .. Len(seedDraws)) BY <1>1, FS_Interval
  <2>2. drawn \subseteq 1 .. Len(seedDraws) BY <1>1
  <2> QED BY <2>1, <2>2, FS_Subset, FS_CardinalityType
<1>5. PICK d \in SeededDraws(purpose, n) :
        pick = [move |-> LegalMoves(state, p)[d.result + 1], draws |-> <<d>>]
  BY DEF SeededMoves
<1>6. d \in [purpose : {purpose}, turn_index : {turnIndex}, counter : {Cardinality(drawn)},
             arg : {n}, result : 0 .. n - 1]
  BY <1>5 DEF SeededDraws
<1>7. d \in Draw /\ d.result + 1 \in DOMAIN LegalMoves(state, p)
  BY <1>1, <1>3, <1>4, <1>6 DEF Draw
<1>8. <<d>> \in Seq(Draw) BY <1>7
<1> QED BY <1>1, <1>5, <1>7, <1>8, ForcedMovesApply DEF Pick

LEMMA TimeoutMovesType ==
  ASSUME TypeOK, NEW p \in PlayersToMove(state), NEW pick \in TimeoutMoves(p)
  PROVE  pick \in Pick /\ Apply(state, p, pick.move) \in GState
<1>1. state \in GState /\ p \in Player BY KernelContract DEF TypeOK
<1>2. CASE DefaultMove(state, p) # None
  <2>1. pick = [move |-> DefaultMove(state, p), draws |-> <<>>] BY <1>2 DEF TimeoutMoves
  <2>2. DefaultMove(state, p) \in Move BY <1>1, <1>2, GameTypes
  <2>3. <<>> \in Seq(Draw) OBVIOUS
  <2> QED BY <1>1, <1>2, <2>1, <2>2, <2>3, ForcedMovesApply DEF Pick
<1>3. CASE DefaultMove(state, p) = None
  BY <1>3, SeededMovesType DEF TimeoutMoves
<1> QED BY <1>2, <1>3

-----------------------------------------------------------------------------
(* The first inductive invariant: types, and the shape of the log.  While  *)
(* the game runs only open entries are written; endGame seals the log, and *)
(* no step follows it.                                                     *)

SealedBy(L) ==
  log = L \o << [kind |-> "end", result |-> result, final_state_hash |-> state],
                [kind |-> "reveal"] >>

Sealed ==
  /\ loop # "none" => status = "running"
  /\ status = "running" => result = None /\ log \in Seq(OpenEntry)
  /\ status = "ended" => \E L \in Seq(OpenEntry) : SealedBy(L)

\* The variables endGame assigns, and the others.
EndTyped ==
  /\ status \in {"running", "ended"}
  /\ result \in Result \cup {None}
  /\ pendingDrawOffer \in DrawOffer \cup {None}
  /\ pendingSimultaneous \in [Player -> HeldSubmission \cup {None}]
  /\ elapsed \in Nat
  /\ deadline \in Nat \cup {None}
  /\ log \in Seq(LogEntry)
  /\ loop \in {"none", "flags", "resolve"}
  /\ batch \in [Player -> HeldSubmission \cup {None}]
  /\ cursor \in 0 .. NSeats
RestTyped ==
  /\ state \in GState
  /\ turnIndex \in Nat
  /\ strikes \in [Player -> Nat]
  /\ illegalThisTurn \in [Player -> Nat]
  /\ cumulativeMs \in [Player -> Nat]
  /\ seedDraws \in Seq(Draw)

IInv == EndTyped /\ RestTyped /\ Sealed

LEMMA IInvTypeOK == IInv => TypeOK
BY DEF IInv, EndTyped, RestTyped, TypeOK

LEMMA EntryTypes ==
  ASSUME RestTyped, NEW p \in Player
  PROVE  /\ \A reason \in {"illegal_move", "timeout"} : StrikeEntry(p, reason) \in OpenEntry
         /\ \A reason \in {"three_strikes", "time"} :
              /\ ForfeitEntry(p, reason) \in OpenEntry
              /\ ForfeitPlayer(state, p) # None => EliminationEntry(p, reason) \in OpenEntry
         /\ \A kind \in {"resign", "draw_offer", "draw_accept"} : SignedEntry(kind, p) \in OpenEntry
         /\ \A sub \in Submission, sentFor \in Nat, forced \in BOOLEAN, pick \in Pick, after \in GState :
              MoveEntry(p, sub, sentFor, forced, pick, after) \in OpenEntry
         /\ \A pick \in Pick, after \in GState : TimeoutEntry(p, pick, after) \in OpenEntry
<1>0. state \in GState /\ turnIndex \in Nat /\ strikes[p] + 1 \in Nat BY DEF RestTyped
<1>1. \A reason \in {"illegal_move", "timeout"} : StrikeEntry(p, reason) \in OpenEntry
  BY <1>0 DEF StrikeEntry, OpenEntry
<1>2. \A reason \in {"three_strikes", "time"} : ForfeitEntry(p, reason) \in OpenEntry
  BY DEF ForfeitEntry, OpenEntry
<1>3. \A reason \in {"three_strikes", "time"} :
        ForfeitPlayer(state, p) # None => EliminationEntry(p, reason) \in OpenEntry
  BY <1>0, GameTypes DEF EliminationEntry, OpenEntry
<1>4. \A kind \in {"resign", "draw_offer", "draw_accept"} : SignedEntry(kind, p) \in OpenEntry
  BY <1>0 DEF SignedEntry, OpenEntry
<1>5. \A sub \in Submission, sentFor \in Nat, forced \in BOOLEAN, pick \in Pick, after \in GState :
        MoveEntry(p, sub, sentFor, forced, pick, after) \in OpenEntry
  BY <1>0 DEF MoveEntry, OpenEntry, Pick
<1>6. \A pick \in Pick, after \in GState : TimeoutEntry(p, pick, after) \in OpenEntry
  BY <1>0 DEF TimeoutEntry, OpenEntry, Pick
<1> QED BY <1>1, <1>2, <1>3, <1>4, <1>5, <1>6

LEMMA OpenInLog == OpenEntry \subseteq LogEntry
BY DEF LogEntry

LEMMA OpenSeqInLog == \A L \in Seq(OpenEntry) : L \in Seq(LogEntry)
BY OpenInLog

LEMMA OpenAppend ==
  /\ \A L \in Seq(OpenEntry), e \in OpenEntry : Append(L, e) \in Seq(OpenEntry)
  /\ \A L, M \in Seq(OpenEntry) : L \o M \in Seq(OpenEntry)
OBVIOUS

LEMMA OpenPairs ==
  \A a, b \in OpenEntry : <<a>> \in Seq(OpenEntry) /\ <<a, b>> \in Seq(OpenEntry)
OBVIOUS

LEMMA NothingHeldType == NothingHeld \in [Player -> HeldSubmission \cup {None}]
BY DEF NothingHeld

\* endGame seals the log of a running game.
LEMMA EndGameSeals ==
  ASSUME log \in Seq(OpenEntry), state' \in GState,
         NEW res \in Result, NEW entries \in Seq(OpenEntry), EndGame(res, entries)
  PROVE  EndTyped' /\ Sealed'
<1> DEFINE L == log \o entries
           end == [kind |-> "end", result |-> res, final_state_hash |-> state']
           reveal == [kind |-> "reveal"]
<1>1. L \in Seq(OpenEntry) OBVIOUS
<1>2. log' = L \o <<end, reveal>> BY DEF EndGame
<1>3. end \in LogEntry /\ reveal \in LogEntry BY DEF LogEntry
<1>4. <<end, reveal>> \in Seq(LogEntry) BY <1>3
<1>5. log' \in Seq(LogEntry) BY <1>1, <1>2, <1>4, OpenSeqInLog
<1>6. \E M \in Seq(OpenEntry) :
        log' = M \o << [kind |-> "end", result |-> result', final_state_hash |-> state'],
                       [kind |-> "reveal"] >>
  BY <1>1, <1>2 DEF EndGame
<1>7. 0 \in 0 .. NSeats BY SeatsAssumption
<1>8. EndTyped' BY <1>5, <1>7, NothingHeldType, SeatsAssumption DEF EndTyped, EndGame
<1>9. Sealed'
  <2>1. loop' = "none" /\ status' = "ended" BY DEF EndGame
  <2> QED BY <2>1, <1>6 DEF Sealed, SealedBy
<1> QED BY <1>8, <1>9

LEMMA StartTurnClockType ==
  ASSUME state' \in GState, cumulativeMs' \in [Player -> Nat], StartTurnClock
  PROVE  elapsed' \in Nat /\ deadline' \in Nat
<1>1. PICK a \in Allowances(state', cumulativeMs') : deadline' = a BY DEF StartTurnClock
<1>2. PhaseBudget(state') \in Nat BY KernelContract
<1>3. a \in Nat
  <2>1. CASE SideBudget = None BY <1>1, <1>2, <2>1 DEF Allowances
  <2>2. CASE SideBudget # None
    <3>1. SideBudget \in Nat BY <2>2, SeatsAssumption
    <3>2. PlayersToMove(state') \subseteq Player BY KernelContract
    <3>3. \A p \in PlayersToMove(state') : cumulativeMs'[p] \in Nat BY <3>2
    <3> QED BY <1>1, <1>2, <2>2, <3>1, <3>3 DEF Allowances
  <2> QED BY <2>1, <2>2
<1> QED BY <1>1, <1>3 DEF StartTurnClock

\* A turn that is over leaves a running room with a clock, or an ended one.
LEMMA AdvanceTurnType ==
  ASSUME IInv, status = "running", state' \in GState, cumulativeMs' \in [Player -> Nat],
         NEW offer \in DrawOffer \cup {None},
         NEW held \in [Player -> HeldSubmission \cup {None}],
         NEW entries \in Seq(OpenEntry), AdvanceTurn(offer, held, entries)
  PROVE  EndTyped' /\ Sealed' /\ turnIndex' \in Nat /\ illegalThisTurn' \in [Player -> Nat]
<1>1. turnIndex' \in Nat /\ illegalThisTurn' \in [Player -> Nat]
  BY DEF AdvanceTurn, IInv, RestTyped, NoAttempts
<1>2. log \in Seq(OpenEntry) /\ result = None BY DEF IInv, Sealed
<1>3. CASE IsTerminal(state') # None
  <2>1. IsTerminal(state') \in Result BY <1>3, KernelContract
  <2>2. EndGame(IsTerminal(state'), entries) BY <1>3 DEF AdvanceTurn
  <2>3. EndTyped' /\ Sealed' BY <1>2, <2>1, <2>2, EndGameSeals
  <2> QED BY <1>1, <2>3
<1>4. CASE IsTerminal(state') = None
  <2>1. /\ StartTurnClock /\ pendingDrawOffer' = offer /\ pendingSimultaneous' = held
        /\ log' = log \o entries /\ loop' = "none" /\ batch' = NothingHeld /\ cursor' = 0
        /\ status' = status /\ result' = result
    BY <1>4 DEF AdvanceTurn, outcome
  <2>2. elapsed' \in Nat /\ deadline' \in Nat BY <2>1, StartTurnClockType
  <2>3. log' \in Seq(OpenEntry) BY <1>2, <2>1
  <2>4. 0 \in 0 .. NSeats BY SeatsAssumption
  <2>5. EndTyped'
    BY <1>2, <2>1, <2>2, <2>3, <2>4, OpenSeqInLog, NothingHeldType DEF EndTyped
  <2>6. Sealed' BY <1>2, <2>1, <2>3 DEF Sealed
  <2> QED BY <1>1, <2>5, <2>6
<1> QED BY <1>3, <1>4

LEMMA ForfeitType ==
  ASSUME IInv, status = "running", NEW p \in Player, NEW reason \in {"three_strikes", "time"},
         NEW entries \in Seq(OpenEntry), Forfeit(p, reason, entries)
  PROVE  EndTyped' /\ Sealed' /\ state' \in GState /\ turnIndex' \in Nat
<1>1. log \in Seq(OpenEntry) /\ state \in GState /\ turnIndex \in Nat
  BY DEF IInv, Sealed, RestTyped
<1>2. state' = state /\ turnIndex' = turnIndex BY DEF Forfeit
<1>3. ForfeitEntry(p, reason) \in OpenEntry BY EntryTypes DEF IInv
<1>4. Append(entries, ForfeitEntry(p, reason)) \in Seq(OpenEntry) BY <1>3
<1>5. [winners |-> Player \ {p}, draw |-> FALSE, reason |-> "forfeit"] \in Result
  <2>1. Player \ {p} \in SUBSET Player OBVIOUS
  <2>2. "forfeit" \in Reason BY DEF Reason
  <2> QED BY <2>1, <2>2 DEF Result
<1>6. EndTyped' /\ Sealed' BY <1>1, <1>2, <1>4, <1>5, EndGameSeals DEF Forfeit
<1> QED BY <1>1, <1>2, <1>6

-----------------------------------------------------------------------------
(* IInv is inductive: the parts the actions share.                         *)

LEMMA RunsOn ==
  ASSUME IInv, status = "running", UNCHANGED outcome,
         log' \in Seq(OpenEntry),
         pendingDrawOffer' \in DrawOffer \cup {None},
         pendingSimultaneous' \in [Player -> HeldSubmission \cup {None}],
         elapsed' \in Nat, deadline' \in Nat \cup {None},
         loop' \in {"none", "flags", "resolve"},
         batch' \in [Player -> HeldSubmission \cup {None}],
         cursor' \in 0 .. NSeats
  PROVE  EndTyped' /\ Sealed'
<1>1. result' = None /\ status' = "running" BY DEF IInv, Sealed, outcome
<1>2. log' \in Seq(LogEntry) BY OpenSeqInLog
<1> QED BY <1>1, <1>2 DEF EndTyped, Sealed

LEMMA ChargeType ==
  ASSUME IInv, NEW p \in Player, NEW ticks \in Nat
  PROVE  Charge(p, ticks) \in [Player -> Nat]
BY DEF IInv, RestTyped, Charge

LEMMA OverdueType ==
  ASSUME IInv, NEW p \in Player
  PROVE  Overdue(p) \in [Player -> Nat]
<1>1. PhaseBudget(state) \in Nat BY GameTypes DEF IInv, RestTyped
<1> QED BY <1>1, ChargeType DEF Overdue

LEMMA StrikeType ==
  ASSUME IInv, NEW p \in Player, Strike(p)
  PROVE  strikes' \in [Player -> Nat]
BY DEF IInv, RestTyped, Strike

LEMMA AttemptedType ==
  ASSUME IInv, NEW p \in Player
  PROVE  Attempted(p) \in [Player -> Nat]
BY DEF IInv, RestTyped, Attempted

LEMMA ExpireOfferType ==
  ASSUME IInv
  PROVE  ExpireOffer \in DrawOffer \cup {None}
BY DEF IInv, EndTyped, ExpireOffer, DrawOffer

LEMMA RunningLog ==
  ASSUME IInv, Idle \/ loop # "none"
  PROVE  status = "running" /\ log \in Seq(OpenEntry)
BY DEF IInv, Sealed, Idle

LEMMA MoverIsPlayer ==
  ASSUME IInv
  PROVE  state \in GState /\ PlayersToMove(state) \subseteq Player
BY KernelContract DEF IInv, RestTyped

LEMMA AppliedType ==
  ASSUME IInv, NEW p \in Player, NEW sub \in Submission, IsMove(p, sub), ~IsIllegal(p, sub)
  PROVE  /\ Resolve(state, p, sub) \in Move
         /\ Alone(p) => Apply(state, p, Resolve(state, p, sub)) \in GState
<1>1. state \in GState BY DEF IInv, RestTyped
<1>2. Resolve(state, p, sub) \in Move BY <1>1, ResolveType DEF IsIllegal
<1>3. Alone(p) => Apply(state, p, Resolve(state, p, sub)) # None BY DEF IsIllegal
<1> QED BY <1>1, <1>2, <1>3, GameTypes

\* A sequential turn that costs the seat.
LEMMA LoseSeatType ==
  ASSUME IInv, status = "running", NEW p \in Player, NEW reason \in {"three_strikes", "time"},
         NEW attempts \in [Player -> Nat], NEW entries \in Seq(OpenEntry),
         cumulativeMs' \in [Player -> Nat], LoseSeat(p, reason, attempts, entries)
  PROVE  /\ EndTyped' /\ Sealed' /\ state' \in GState
         /\ turnIndex' \in Nat /\ illegalThisTurn' \in [Player -> Nat]
<1>1. CASE Forfeit(p, reason, entries) /\ illegalThisTurn' = attempts
  BY <1>1, ForfeitType
<1>2. CASE /\ SeatLeaves(p)
           /\ AdvanceTurn(pendingDrawOffer, [pendingSimultaneous EXCEPT ![p] = None],
                          Append(entries, EliminationEntry(p, reason)))
  <2>1. state' \in GState BY <1>2, GameTypes DEF SeatLeaves, IInv, RestTyped
  <2>2. EliminationEntry(p, reason) \in OpenEntry BY <1>2, EntryTypes DEF SeatLeaves, IInv
  <2>3. Append(entries, EliminationEntry(p, reason)) \in Seq(OpenEntry) BY <2>2
  <2>4. /\ pendingDrawOffer \in DrawOffer \cup {None}
        /\ [pendingSimultaneous EXCEPT ![p] = None] \in [Player -> HeldSubmission \cup {None}]
    BY DEF IInv, EndTyped
  <2> QED BY <1>2, <2>1, <2>3, <2>4, AdvanceTurnType
<1> QED BY <1>1, <1>2 DEF LoseSeat

\* The tail of a held submission.
LEMMA CollectType ==
  ASSUME IInv, NEW held \in [Player -> HeldSubmission \cup {None}], Collect(held)
  PROVE  /\ pendingSimultaneous' \in [Player -> HeldSubmission \cup {None}]
         /\ loop' \in {"none", "flags", "resolve"}
         /\ batch' \in [Player -> HeldSubmission \cup {None}]
         /\ cursor' \in 0 .. NSeats
<1>1. 0 \in 0 .. NSeats BY SeatsAssumption
<1>2. CASE WaitingFor(state', held) # {}
  BY <1>2 DEF Collect, looping, IInv, EndTyped
<1>3. CASE WaitingFor(state', held) = {}
  BY <1>1, <1>3, NothingHeldType DEF Collect
<1> QED BY <1>2, <1>3

LEMMA HoldType ==
  ASSUME IInv, NEW p \in Player, NEW sub \in Submission
  PROVE  /\ \A m \in Move : Hold(p, sub, m, "no") \in [Player -> HeldSubmission \cup {None}]
         /\ Hold(p, sub, None, "illegal") \in [Player -> HeldSubmission \cup {None}]
<1>1. turnIndex \in Nat /\ pendingSimultaneous \in [Player -> HeldSubmission \cup {None}]
  BY DEF IInv, EndTyped, RestTyped
<1>2. \A m \in Move : [turn_index |-> turnIndex, submission |-> sub, move |-> m, forced |-> "no"]
                        \in HeldSubmission
  BY <1>1 DEF HeldSubmission
<1>3. [turn_index |-> turnIndex, submission |-> sub, move |-> None, forced |-> "illegal"]
        \in HeldSubmission
  BY <1>1 DEF HeldSubmission
<1> QED BY <1>1, <1>2, <1>3 DEF Hold

\* What the resolve loop finds at a seat.
LEMMA ResolvingFacts ==
  ASSUME IInv, NEW p \in Player, Resolving(p)
  PROVE  /\ status = "running" /\ log \in Seq(OpenEntry)
         /\ p \in PlayersToMove(state)
         /\ batch[p] \in HeldSubmission
         /\ batch[p].turn_index \in Nat
         /\ batch[p].forced # "timeout" => batch[p].submission \in Submission
         /\ batch[p].forced = "no" => batch[p].move \in Move
<1>1. p \in PlayersToMove(state) /\ batch[p] # None BY DEF Resolving, IsFirst, Due
<1>2. batch[p] \in HeldSubmission BY <1>1 DEF IInv, EndTyped
<1>3. status = "running" /\ log \in Seq(OpenEntry) BY RunningLog DEF Resolving
<1> QED BY <1>1, <1>2, <1>3 DEF HeldSubmission

LEMMA NextSeatType ==
  ASSUME IInv, NEW p \in Player, Resolving(p), NextSeat(p), log' \in Seq(OpenEntry)
  PROVE  EndTyped' /\ Sealed' /\ turnIndex' \in Nat
         /\ illegalThisTurn' \in [Player -> Nat] /\ cumulativeMs' \in [Player -> Nat]
<1>1. status = "running" BY ResolvingFacts
<1>2. cursor' \in 0 .. NSeats BY SeatsAssumption DEF NextSeat, Player
<1>3. /\ UNCHANGED outcome
      /\ pendingDrawOffer' = pendingDrawOffer /\ pendingSimultaneous' = pendingSimultaneous
      /\ elapsed' = elapsed /\ deadline' = deadline /\ loop' = loop /\ batch' = batch
      /\ turnIndex' = turnIndex /\ illegalThisTurn' = illegalThisTurn
      /\ cumulativeMs' = cumulativeMs
  BY DEF NextSeat, clock
<1>4. /\ pendingDrawOffer' \in DrawOffer \cup {None}
      /\ pendingSimultaneous' \in [Player -> HeldSubmission \cup {None}]
      /\ elapsed' \in Nat /\ deadline' \in Nat \cup {None}
      /\ loop' \in {"none", "flags", "resolve"}
      /\ batch' \in [Player -> HeldSubmission \cup {None}]
  BY <1>3 DEF IInv, EndTyped
<1>5. EndTyped' /\ Sealed' BY <1>1, <1>2, <1>3, <1>4, RunsOn
<1> QED BY <1>3, <1>5 DEF IInv, RestTyped

\* The move of a seat the loop has come to.
LEMMA ResolvedMoveType ==
  ASSUME IInv, NEW p \in Player, Resolving(p), batch[p].forced # "timeout",
         NEW forced \in BOOLEAN, NEW pick \in Pick, Apply(state, p, pick.move) \in GState
  PROVE  ResolvedMove(p, forced, pick) \in OpenEntry
<1>1. batch[p].submission \in Submission /\ batch[p].turn_index \in Nat BY ResolvingFacts
<1>2. RestTyped BY DEF IInv
<1> QED BY <1>1, <1>2, EntryTypes DEF ResolvedMove

-----------------------------------------------------------------------------
(* One lemma per action of submitMove.                                     *)

LEMMA InitIInv == Init => IInv
<1> SUFFICES ASSUME Init PROVE IInv
  OBVIOUS
<1>1. state \in GState /\ PlayersToMove(state) \subseteq Player /\ PhaseBudget(state) \in Nat
  BY SeatsAssumption, KernelContract DEF Init
<1>2. deadline \in Nat
  <2>1. \A p \in PlayersToMove(state) : cumulativeMs[p] = 0 BY <1>1 DEF Init
  <2>2. SideBudget # None => SideBudget \in Nat BY SeatsAssumption
  <2>3. deadline \in Allowances(state, cumulativeMs) BY DEF Init
  <2> QED BY <1>1, <2>1, <2>2, <2>3 DEF Allowances
<1>3. log \in Seq(OpenEntry)
  <2>1. [kind |-> "commitment"] \in OpenEntry BY DEF OpenEntry
  <2>2. [kind |-> "start", initial_state_hash |-> state] \in OpenEntry BY <1>1 DEF OpenEntry
  <2> QED BY <2>1, <2>2 DEF Init
<1>4. 0 \in 0 .. NSeats BY SeatsAssumption
<1>5. EndTyped BY <1>2, <1>3, <1>4, OpenSeqInLog, NothingHeldType DEF EndTyped, Init
<1>6. RestTyped BY <1>1 DEF RestTyped, Init, NoAttempts
<1>7. Sealed BY <1>3 DEF Sealed, Init
<1> QED BY <1>5, <1>6, <1>7 DEF IInv

LEMMA TickStep == ASSUME IInv, Tick PROVE IInv'
<1>1. status = "running" /\ log \in Seq(OpenEntry) BY RunningLog DEF Tick
<1>2. elapsed' \in Nat BY DEF Tick, IInv, EndTyped
<1>3. EndTyped' /\ Sealed'
  BY <1>1, <1>2 DEF Tick, IInv, EndTyped, Sealed, looping, outcome
<1>4. RestTyped' BY DEF Tick, IInv, RestTyped, game
<1> QED BY <1>3, <1>4 DEF IInv

LEMMA ResignStep == ASSUME IInv, NEW p \in Player, Resign(p) PROVE IInv'
<1>1. status = "running" /\ log \in Seq(OpenEntry) BY RunningLog DEF Resign
<1>2. RestTyped' BY DEF Resign, IInv, RestTyped, game
<1>3. SignedEntry("resign", p) \in OpenEntry BY EntryTypes DEF IInv
<1>4. [winners |-> Player \ {p}, draw |-> FALSE, reason |-> "resignation"] \in Result
  <2>1. "resignation" \in Reason /\ Player \ {p} \in SUBSET Player BY DEF Reason
  <2> QED BY <2>1 DEF Result
<1>5. <<SignedEntry("resign", p)>> \in Seq(OpenEntry) BY <1>3
<1>6. state' \in GState BY <1>2 DEF RestTyped
<1>7. EndTyped' /\ Sealed' BY <1>1, <1>4, <1>5, <1>6, EndGameSeals DEF Resign
<1> QED BY <1>2, <1>7 DEF IInv

LEMMA AcceptDrawStep ==
  ASSUME IInv, NEW p \in Player, NEW sub \in Submission, AcceptDraw(p, sub)
  PROVE  IInv'
<1>1. status = "running" /\ log \in Seq(OpenEntry) BY RunningLog DEF AcceptDraw, Admitted
<1>2. RestTyped' BY DEF AcceptDraw, IInv, RestTyped, game
<1>3. SignedEntry("draw_accept", p) \in OpenEntry BY EntryTypes DEF IInv
<1>4. [winners |-> {}, draw |-> TRUE, reason |-> "agreement"] \in Result
  <2>1. "agreement" \in Reason /\ {} \in SUBSET Player BY DEF Reason
  <2> QED BY <2>1 DEF Result
<1>5. <<SignedEntry("draw_accept", p)>> \in Seq(OpenEntry) BY <1>3
<1>6. state' \in GState BY <1>2 DEF RestTyped
<1>7. EndTyped' /\ Sealed' BY <1>1, <1>4, <1>5, <1>6, EndGameSeals DEF AcceptDraw
<1> QED BY <1>2, <1>7 DEF IInv

LEMMA SubmitFacts ==
  ASSUME IInv, NEW p \in Player, NEW sub \in Submission, IsMove(p, sub)
  PROVE  /\ status = "running" /\ log \in Seq(OpenEntry)
         /\ p \in PlayersToMove(state) /\ state \in GState /\ turnIndex \in Nat /\ elapsed \in Nat
<1>1. Idle /\ p \in PlayersToMove(state) BY DEF IsMove, Admitted
<1> QED BY <1>1, RunningLog DEF IInv, RestTyped, EndTyped

LEMMA RejectIllegalStep ==
  ASSUME IInv, NEW p \in Player, NEW sub \in Submission, RejectIllegal(p, sub)
  PROVE  IInv'
<1>1. IsMove(p, sub) BY DEF RejectIllegal
<1>2. status = "running" /\ log \in Seq(OpenEntry) BY <1>1, SubmitFacts
<1>3. illegalThisTurn' \in [Player -> Nat] BY AttemptedType DEF RejectIllegal
<1>4. RestTyped' BY <1>3 DEF RejectIllegal, IInv, RestTyped, game
<1>5. EndTyped' BY DEF RejectIllegal, IInv, EndTyped, outcome, clock, looping
<1>6. Sealed' BY <1>2 DEF RejectIllegal, IInv, Sealed, outcome, looping
<1> QED BY <1>4, <1>5, <1>6 DEF IInv

LEMMA PlayMoveStep ==
  ASSUME IInv, NEW p \in Player, NEW sub \in Submission, PlayMove(p, sub)
  PROVE  IInv'
<1> DEFINE m == Resolve(state, p, sub)
           offers == IF sub.draw_offer THEN <<SignedEntry("draw_offer", p)>> ELSE <<>>
           offer == IF sub.draw_offer THEN [by |-> p, validAtTurn |-> turnIndex + 1] ELSE ExpireOffer
           move == MoveEntry(p, sub, turnIndex, FALSE, OwnMove(m), state')
<1>1. /\ IsMove(p, sub) /\ Alone(p) /\ ~IsIllegal(p, sub)
      /\ state' = Apply(state, p, m) /\ cumulativeMs' = Charge(p, elapsed)
      /\ AdvanceTurn(offer, pendingSimultaneous, <<move>> \o offers)
      /\ UNCHANGED <<strikes, seedDraws>>
  BY DEF PlayMove
<1>2. /\ status = "running" /\ turnIndex \in Nat /\ elapsed \in Nat BY <1>1, SubmitFacts
<1>3. m \in Move /\ state' \in GState BY <1>1, AppliedType
<1>4. cumulativeMs' \in [Player -> Nat] BY <1>1, <1>2, ChargeType
<1>5. move \in OpenEntry
  <2>1. OwnMove(m) \in Pick BY <1>3 DEF OwnMove, Pick
  <2> QED BY <1>2, <1>3, <2>1, EntryTypes DEF IInv
<1>6. offers \in Seq(OpenEntry)
  <2>1. SignedEntry("draw_offer", p) \in OpenEntry BY EntryTypes DEF IInv
  <2> QED BY <2>1
<1>7. <<move>> \o offers \in Seq(OpenEntry)
  <2> HIDE DEF move, offers
  <2>1. <<move>> \in Seq(OpenEntry) BY <1>5, OpenPairs
  <2> QED BY <1>6, <2>1
<1>8. offer \in DrawOffer \cup {None} BY <1>2, ExpireOfferType DEF DrawOffer
<1>9. pendingSimultaneous \in [Player -> HeldSubmission \cup {None}] BY DEF IInv, EndTyped
<1>10. EndTyped' /\ Sealed' /\ turnIndex' \in Nat /\ illegalThisTurn' \in [Player -> Nat]
  <2> HIDE DEF move, offers, offer, m
  <2> QED BY <1>1, <1>2, <1>3, <1>4, <1>7, <1>8, <1>9, AdvanceTurnType
<1>11. RestTyped' BY <1>1, <1>3, <1>4, <1>10 DEF IInv, RestTyped
<1> QED BY <1>10, <1>11 DEF IInv

LEMMA ForceMoveStep ==
  ASSUME IInv, NEW p \in Player, NEW sub \in Submission, ForceMove(p, sub)
  PROVE  IInv'
<1>1. /\ IsMove(p, sub) /\ Strike(p) BY DEF ForceMove, ThirdIllegal
<1>2. PICK pick \in SeededMoves(p, "illegal") :
        /\ state' = Apply(state, p, pick.move)
        /\ cumulativeMs' = Charge(p, elapsed)
        /\ seedDraws' = seedDraws \o pick.draws
        /\ AdvanceTurn(ExpireOffer, pendingSimultaneous,
                       << MoveEntry(p, sub, turnIndex, TRUE, pick, state'),
                          StrikeEntry(p, "illegal_move") >>)
  BY DEF ForceMove
<1> DEFINE entries == << MoveEntry(p, sub, turnIndex, TRUE, pick, state'),
                         StrikeEntry(p, "illegal_move") >>
<1>3. /\ status = "running" /\ p \in PlayersToMove(state) /\ turnIndex \in Nat /\ elapsed \in Nat
  BY <1>1, SubmitFacts
<1>4. pick \in Pick /\ state' \in GState BY <1>2, <1>3, IInvTypeOK, SeededMovesType
<1>5. cumulativeMs' \in [Player -> Nat] BY <1>2, <1>3, ChargeType
<1>6. entries \in Seq(OpenEntry)
  <2>1. MoveEntry(p, sub, turnIndex, TRUE, pick, state') \in OpenEntry
    BY <1>3, <1>4, EntryTypes DEF IInv
  <2>2. StrikeEntry(p, "illegal_move") \in OpenEntry BY EntryTypes DEF IInv
  <2> QED BY <2>1, <2>2, OpenPairs
<1>7. pendingSimultaneous \in [Player -> HeldSubmission \cup {None}] BY DEF IInv, EndTyped
<1>8. EndTyped' /\ Sealed' /\ turnIndex' \in Nat /\ illegalThisTurn' \in [Player -> Nat]
  <2>1. AdvanceTurn(ExpireOffer, pendingSimultaneous, entries) BY <1>2
  <2> HIDE DEF entries
  <2> QED BY <1>3, <1>4, <1>5, <1>6, <1>7, <2>1, ExpireOfferType, AdvanceTurnType
<1>9. strikes' \in [Player -> Nat] BY <1>1, StrikeType
<1>10. seedDraws' \in Seq(Draw) BY <1>2, <1>4 DEF IInv, RestTyped, Pick
<1>11. RestTyped' BY <1>4, <1>5, <1>8, <1>9, <1>10 DEF RestTyped
<1> QED BY <1>8, <1>11 DEF IInv

LEMMA StrikeOutOnIllegalStep ==
  ASSUME IInv, NEW p \in Player, NEW sub \in Submission, StrikeOutOnIllegal(p, sub)
  PROVE  IInv'
<1>1. /\ IsMove(p, sub) /\ Strike(p) /\ UNCHANGED <<cumulativeMs, seedDraws>>
      /\ LoseSeat(p, "three_strikes", Attempted(p), <<StrikeEntry(p, "illegal_move")>>)
  BY DEF StrikeOutOnIllegal, ThirdIllegal
<1>2. status = "running" BY <1>1, SubmitFacts
<1>3. cumulativeMs' \in [Player -> Nat] /\ seedDraws' \in Seq(Draw)
  BY <1>1 DEF IInv, RestTyped
<1>4. <<StrikeEntry(p, "illegal_move")>> \in Seq(OpenEntry)
  <2>1. StrikeEntry(p, "illegal_move") \in OpenEntry BY EntryTypes DEF IInv
  <2> QED BY <2>1
<1>5. /\ EndTyped' /\ Sealed' /\ state' \in GState
      /\ turnIndex' \in Nat /\ illegalThisTurn' \in [Player -> Nat]
  BY <1>1, <1>2, <1>3, <1>4, AttemptedType, LoseSeatType
<1>6. RestTyped' BY <1>1, <1>3, <1>5, StrikeType DEF RestTyped
<1> QED BY <1>5, <1>6 DEF IInv

LEMMA HoldMoveStep ==
  ASSUME IInv, NEW p \in Player, NEW sub \in Submission, HoldMove(p, sub)
  PROVE  IInv'
<1>1. /\ IsMove(p, sub) /\ ~IsIllegal(p, sub) /\ cumulativeMs' = Charge(p, elapsed)
      /\ UNCHANGED <<game, turnIndex, outcome, strikes, illegalThisTurn,
                     pendingDrawOffer, clock, log>>
      /\ Collect(Hold(p, sub, Resolve(state, p, sub), "no"))
  BY DEF HoldMove
<1>2. status = "running" /\ log \in Seq(OpenEntry) /\ elapsed \in Nat BY <1>1, SubmitFacts
<1>3. Resolve(state, p, sub) \in Move BY <1>1, AppliedType
<1>4. Hold(p, sub, Resolve(state, p, sub), "no") \in [Player -> HeldSubmission \cup {None}]
  BY <1>3, HoldType
<1>5. /\ pendingSimultaneous' \in [Player -> HeldSubmission \cup {None}]
      /\ loop' \in {"none", "flags", "resolve"}
      /\ batch' \in [Player -> HeldSubmission \cup {None}]
      /\ cursor' \in 0 .. NSeats
  BY <1>1, <1>4, CollectType
<1>6. /\ log' \in Seq(OpenEntry) /\ pendingDrawOffer' \in DrawOffer \cup {None}
      /\ elapsed' \in Nat /\ deadline' \in Nat \cup {None} /\ UNCHANGED outcome
  BY <1>1, <1>2 DEF IInv, EndTyped, clock
<1>7. EndTyped' /\ Sealed' BY <1>2, <1>5, <1>6, RunsOn
<1>8. RestTyped' BY <1>1, <1>2, ChargeType DEF IInv, RestTyped, game
<1> QED BY <1>7, <1>8 DEF IInv

LEMMA HoldForcedStep ==
  ASSUME IInv, NEW p \in Player, NEW sub \in Submission, HoldForced(p, sub)
  PROVE  IInv'
<1>1. /\ IsMove(p, sub) /\ Strike(p) /\ illegalThisTurn' = Attempted(p)
      /\ cumulativeMs' = Charge(p, elapsed)
      /\ log' = Append(log, StrikeEntry(p, "illegal_move"))
      /\ UNCHANGED <<game, turnIndex, outcome, pendingDrawOffer, clock>>
      /\ Collect(Hold(p, sub, None, "illegal"))
  BY DEF HoldForced, ThirdIllegal
<1>2. status = "running" /\ log \in Seq(OpenEntry) /\ elapsed \in Nat BY <1>1, SubmitFacts
<1>3. Hold(p, sub, None, "illegal") \in [Player -> HeldSubmission \cup {None}]
  BY HoldType
<1>4. /\ pendingSimultaneous' \in [Player -> HeldSubmission \cup {None}]
      /\ loop' \in {"none", "flags", "resolve"}
      /\ batch' \in [Player -> HeldSubmission \cup {None}]
      /\ cursor' \in 0 .. NSeats
  BY <1>1, <1>3, CollectType
<1>5. log' \in Seq(OpenEntry)
  <2>1. StrikeEntry(p, "illegal_move") \in OpenEntry BY EntryTypes DEF IInv
  <2> QED BY <1>1, <1>2, <2>1
<1>6. /\ pendingDrawOffer' \in DrawOffer \cup {None}
      /\ elapsed' \in Nat /\ deadline' \in Nat \cup {None} /\ UNCHANGED outcome
  BY <1>1 DEF IInv, EndTyped, clock
<1>7. EndTyped' /\ Sealed' BY <1>2, <1>4, <1>5, <1>6, RunsOn
<1>8. RestTyped'
  BY <1>1, <1>2, ChargeType, StrikeType, AttemptedType DEF IInv, RestTyped, game
<1> QED BY <1>7, <1>8 DEF IInv

LEMMA StrikeOutInPhaseStep ==
  ASSUME IInv, NEW p \in Player, NEW sub \in Submission, StrikeOutInPhase(p, sub)
  PROVE  IInv'
<1>1. /\ IsMove(p, sub) /\ Strike(p) /\ illegalThisTurn' = Attempted(p) /\ UNCHANGED seedDraws
  BY DEF StrikeOutInPhase, ThirdIllegal
<1>2. status = "running" /\ log \in Seq(OpenEntry) /\ elapsed \in Nat BY <1>1, SubmitFacts
<1>3. StrikeEntry(p, "illegal_move") \in OpenEntry BY EntryTypes DEF IInv
<1>4. /\ strikes' \in [Player -> Nat] /\ illegalThisTurn' \in [Player -> Nat]
      /\ seedDraws' \in Seq(Draw)
  BY <1>1, StrikeType, AttemptedType DEF IInv, RestTyped
<1>5. CASE /\ Forfeit(p, "three_strikes", <<StrikeEntry(p, "illegal_move")>>)
           /\ UNCHANGED cumulativeMs
  <2>0. <<StrikeEntry(p, "illegal_move")>> \in Seq(OpenEntry) BY <1>3, OpenPairs
  <2>1. EndTyped' /\ Sealed' /\ state' \in GState /\ turnIndex' \in Nat
    BY <1>2, <1>5, <2>0, ForfeitType
  <2>2. RestTyped' BY <1>4, <1>5, <2>1 DEF IInv, RestTyped
  <2> QED BY <2>1, <2>2 DEF IInv
<1>6. CASE /\ SeatLeaves(p)
           /\ cumulativeMs' = Charge(p, elapsed)
           /\ log' = log \o << StrikeEntry(p, "illegal_move"),
                               EliminationEntry(p, "three_strikes") >>
           /\ UNCHANGED <<turnIndex, outcome, pendingDrawOffer, clock>>
           /\ Collect(Hold(p, sub, None, "illegal"))
  <2>1. state' \in GState BY <1>6, GameTypes DEF SeatLeaves, IInv, RestTyped
  <2>2. EliminationEntry(p, "three_strikes") \in OpenEntry
    BY <1>6, EntryTypes DEF SeatLeaves, IInv
  <2>3. log' \in Seq(OpenEntry)
    <3>1. << StrikeEntry(p, "illegal_move"), EliminationEntry(p, "three_strikes") >>
            \in Seq(OpenEntry)
      BY <1>3, <2>2, OpenPairs
    <3> QED BY <1>2, <1>6, <3>1
  <2>4. Hold(p, sub, None, "illegal") \in [Player -> HeldSubmission \cup {None}]
    BY HoldType
  <2>5. /\ pendingSimultaneous' \in [Player -> HeldSubmission \cup {None}]
        /\ loop' \in {"none", "flags", "resolve"}
        /\ batch' \in [Player -> HeldSubmission \cup {None}]
        /\ cursor' \in 0 .. NSeats
    BY <1>6, <2>4, CollectType
  <2>6. /\ pendingDrawOffer' \in DrawOffer \cup {None}
        /\ elapsed' \in Nat /\ deadline' \in Nat \cup {None} /\ UNCHANGED outcome
    BY <1>6 DEF IInv, EndTyped, clock
  <2>7. EndTyped' /\ Sealed' BY <1>2, <2>3, <2>5, <2>6, RunsOn
  <2>8. RestTyped' BY <1>2, <1>4, <1>6, <2>1, ChargeType DEF IInv, RestTyped
  <2> QED BY <2>7, <2>8 DEF IInv
<1> QED BY <1>5, <1>6 DEF StrikeOutInPhase

-----------------------------------------------------------------------------
(* One lemma per action of resolveSimultaneous and timeout.                *)

LEMMA ResolveMoveStep == ASSUME IInv, NEW p \in Player, ResolveMove(p) PROVE IInv'
<1>1. /\ Resolving(p) /\ batch[p].forced = "no" /\ ~IsStale(p)
      /\ state' = Apply(state, p, batch[p].move)
      /\ log' = Append(log, ResolvedMove(p, FALSE, OwnMove(batch[p].move)))
      /\ UNCHANGED <<strikes, seedDraws>> /\ NextSeat(p)
  BY DEF ResolveMove
<1>2. batch[p].move \in Move /\ log \in Seq(OpenEntry) BY <1>1, ResolvingFacts
<1>3. state' \in GState BY <1>1, <1>2, GameTypes DEF IsStale, IInv, RestTyped
<1>4. OwnMove(batch[p].move) \in Pick /\ OwnMove(batch[p].move).move = batch[p].move
  BY <1>2 DEF OwnMove, Pick
<1>5. ResolvedMove(p, FALSE, OwnMove(batch[p].move)) \in OpenEntry
  BY <1>1, <1>3, <1>4, ResolvedMoveType
<1>6. log' \in Seq(OpenEntry) BY <1>1, <1>2, <1>5, OpenAppend
<1>7. EndTyped' /\ Sealed' /\ turnIndex' \in Nat
      /\ illegalThisTurn' \in [Player -> Nat] /\ cumulativeMs' \in [Player -> Nat]
  BY <1>1, <1>6, NextSeatType
<1>8. RestTyped' BY <1>1, <1>3, <1>7 DEF IInv, RestTyped
<1> QED BY <1>7, <1>8 DEF IInv

LEMMA ResolveForcedStep == ASSUME IInv, NEW p \in Player, ResolveForced(p) PROVE IInv'
<1>1. Resolving(p) /\ batch[p].forced = "illegal" /\ UNCHANGED strikes /\ NextSeat(p)
  BY DEF ResolveForced
<1>2. PICK pick \in SeededMoves(p, "illegal") :
        /\ state' = Apply(state, p, pick.move)
        /\ seedDraws' = seedDraws \o pick.draws
        /\ log' = Append(log, ResolvedMove(p, TRUE, pick))
  BY DEF ResolveForced
<1>3. p \in PlayersToMove(state) /\ log \in Seq(OpenEntry) BY <1>1, ResolvingFacts
<1>4. pick \in Pick /\ state' \in GState BY <1>2, <1>3, IInvTypeOK, SeededMovesType
<1>5. ResolvedMove(p, TRUE, pick) \in OpenEntry BY <1>1, <1>2, <1>4, ResolvedMoveType
<1>6. log' \in Seq(OpenEntry) BY <1>2, <1>3, <1>5, OpenAppend
<1>7. EndTyped' /\ Sealed' /\ turnIndex' \in Nat
      /\ illegalThisTurn' \in [Player -> Nat] /\ cumulativeMs' \in [Player -> Nat]
  BY <1>1, <1>6, NextSeatType
<1>8. seedDraws' \in Seq(Draw) BY <1>2, <1>4 DEF IInv, RestTyped, Pick
<1>9. RestTyped' BY <1>1, <1>4, <1>7, <1>8 DEF IInv, RestTyped
<1> QED BY <1>7, <1>9 DEF IInv

LEMMA ResolveStaleStep == ASSUME IInv, NEW p \in Player, ResolveStale(p) PROVE IInv'
<1>1. Resolving(p) /\ IsStale(p) /\ Strike(p) /\ NextSeat(p) BY DEF ResolveStale
<1>2. PICK pick \in SeededMoves(p, "illegal") :
        /\ state' = Apply(state, p, pick.move)
        /\ seedDraws' = seedDraws \o pick.draws
        /\ log' = log \o <<ResolvedMove(p, TRUE, pick), StrikeEntry(p, "illegal_move")>>
  BY DEF ResolveStale
<1>3. p \in PlayersToMove(state) /\ log \in Seq(OpenEntry) BY <1>1, ResolvingFacts
<1>4. pick \in Pick /\ state' \in GState BY <1>2, <1>3, IInvTypeOK, SeededMovesType
<1>5. ResolvedMove(p, TRUE, pick) \in OpenEntry
  BY <1>1, <1>2, <1>4, ResolvedMoveType DEF IsStale
<1>6. StrikeEntry(p, "illegal_move") \in OpenEntry BY EntryTypes DEF IInv
<1>7. log' \in Seq(OpenEntry)
  <2>1. <<ResolvedMove(p, TRUE, pick), StrikeEntry(p, "illegal_move")>> \in Seq(OpenEntry)
    BY <1>5, <1>6, OpenPairs
  <2> QED BY <1>2, <1>3, <2>1, OpenAppend
<1>8. EndTyped' /\ Sealed' /\ turnIndex' \in Nat
      /\ illegalThisTurn' \in [Player -> Nat] /\ cumulativeMs' \in [Player -> Nat]
  BY <1>1, <1>7, NextSeatType
<1>9. seedDraws' \in Seq(Draw) BY <1>2, <1>4 DEF IInv, RestTyped, Pick
<1>10. RestTyped' BY <1>1, <1>4, <1>8, <1>9, StrikeType DEF RestTyped
<1> QED BY <1>8, <1>10 DEF IInv

LEMMA ResolveTimeoutStep == ASSUME IInv, NEW p \in Player, ResolveTimeout(p) PROVE IInv'
<1>1. Resolving(p) /\ Strike(p) /\ NextSeat(p) BY DEF ResolveTimeout
<1>2. PICK pick \in TimeoutMoves(p) :
        /\ state' = Apply(state, p, pick.move)
        /\ seedDraws' = seedDraws \o pick.draws
        /\ log' = log \o <<TimeoutEntry(p, pick, state'), StrikeEntry(p, "timeout")>>
  BY DEF ResolveTimeout
<1>3. p \in PlayersToMove(state) /\ log \in Seq(OpenEntry) BY <1>1, ResolvingFacts
<1>4. pick \in Pick /\ state' \in GState BY <1>2, <1>3, IInvTypeOK, TimeoutMovesType
<1>5. log' \in Seq(OpenEntry)
  <2>1. TimeoutEntry(p, pick, state') \in OpenEntry BY <1>4, EntryTypes DEF IInv
  <2>2. StrikeEntry(p, "timeout") \in OpenEntry BY EntryTypes DEF IInv
  <2>3. <<TimeoutEntry(p, pick, state'), StrikeEntry(p, "timeout")>> \in Seq(OpenEntry)
    BY <2>1, <2>2, OpenPairs
  <2> QED BY <1>2, <1>3, <2>3
<1>6. EndTyped' /\ Sealed' /\ turnIndex' \in Nat
      /\ illegalThisTurn' \in [Player -> Nat] /\ cumulativeMs' \in [Player -> Nat]
  BY <1>1, <1>5, NextSeatType
<1>7. seedDraws' \in Seq(Draw) BY <1>2, <1>4 DEF IInv, RestTyped, Pick
<1>8. RestTyped' BY <1>1, <1>4, <1>6, <1>7, StrikeType DEF RestTyped
<1> QED BY <1>6, <1>8 DEF IInv

LEMMA ResolveStrikeOutStep == ASSUME IInv, NEW p \in Player, ResolveStrikeOut(p) PROVE IInv'
<1>1. Resolving(p) /\ Strike(p) /\ UNCHANGED seedDraws BY DEF ResolveStrikeOut
<1>2. PICK reason \in {"timeout", "illegal_move"} :
        \/ /\ Forfeit(p, "three_strikes", <<StrikeEntry(p, reason)>>)
           /\ UNCHANGED <<illegalThisTurn, cumulativeMs>>
        \/ /\ SeatLeaves(p)
           /\ log' = log \o <<StrikeEntry(p, reason), EliminationEntry(p, "three_strikes")>>
           /\ NextSeat(p)
  BY DEF ResolveStrikeOut
<1>3. status = "running" /\ log \in Seq(OpenEntry) BY <1>1, ResolvingFacts
<1>4. StrikeEntry(p, reason) \in OpenEntry BY EntryTypes DEF IInv
<1>5. CASE /\ Forfeit(p, "three_strikes", <<StrikeEntry(p, reason)>>)
           /\ UNCHANGED <<illegalThisTurn, cumulativeMs>>
  <2>1. <<StrikeEntry(p, reason)>> \in Seq(OpenEntry) BY <1>4, OpenPairs
  <2>2. EndTyped' /\ Sealed' /\ state' \in GState /\ turnIndex' \in Nat
    BY <1>3, <1>5, <2>1, ForfeitType
  <2>3. RestTyped' BY <1>1, <1>5, <2>2, StrikeType DEF IInv, RestTyped
  <2> QED BY <2>2, <2>3 DEF IInv
<1>6. CASE /\ SeatLeaves(p)
           /\ log' = log \o <<StrikeEntry(p, reason), EliminationEntry(p, "three_strikes")>>
           /\ NextSeat(p)
  <2>1. state' \in GState BY <1>6, GameTypes DEF SeatLeaves, IInv, RestTyped
  <2>2. EliminationEntry(p, "three_strikes") \in OpenEntry
    BY <1>6, EntryTypes DEF SeatLeaves, IInv
  <2>3. <<StrikeEntry(p, reason), EliminationEntry(p, "three_strikes")>> \in Seq(OpenEntry)
    BY <1>4, <2>2, OpenPairs
  <2>4. log' \in Seq(OpenEntry) BY <1>3, <1>6, <2>3
  <2>5. EndTyped' /\ Sealed' /\ turnIndex' \in Nat
        /\ illegalThisTurn' \in [Player -> Nat] /\ cumulativeMs' \in [Player -> Nat]
    BY <1>1, <1>6, <2>4, NextSeatType
  <2>6. RestTyped' BY <1>1, <2>1, <2>5, StrikeType DEF IInv, RestTyped
  <2> QED BY <2>5, <2>6 DEF IInv
<1> QED BY <1>2, <1>5, <1>6

LEMMA FinishPhaseStep == ASSUME IInv, FinishPhase PROVE IInv'
<1>1. /\ loop = "resolve" /\ UNCHANGED <<game, strikes, cumulativeMs>>
      /\ AdvanceTurn(ExpireOffer, pendingSimultaneous, <<>>)
  BY DEF FinishPhase
<1>2. status = "running" BY <1>1, RunningLog
<1>3. state' \in GState /\ cumulativeMs' \in [Player -> Nat] BY <1>1 DEF IInv, RestTyped, game
<1>4. pendingSimultaneous \in [Player -> HeldSubmission \cup {None}] /\ <<>> \in Seq(OpenEntry)
  BY DEF IInv, EndTyped
<1>5. EndTyped' /\ Sealed' /\ turnIndex' \in Nat /\ illegalThisTurn' \in [Player -> Nat]
  BY <1>1, <1>2, <1>3, <1>4, ExpireOfferType, AdvanceTurnType
<1>6. RestTyped' BY <1>1, <1>3, <1>5 DEF IInv, RestTyped, game
<1> QED BY <1>5, <1>6 DEF IInv

LEMMA ExpiredFacts ==
  ASSUME IInv, NEW p \in Player, Expired, Alone(p)
  PROVE  status = "running" /\ log \in Seq(OpenEntry) /\ p \in PlayersToMove(state)
BY RunningLog DEF Expired, Alone

LEMMA TimeoutMoveStep == ASSUME IInv, NEW p \in Player, TimeoutMove(p) PROVE IInv'
<1>1. Expired /\ Alone(p) /\ Strike(p) /\ cumulativeMs' = Overdue(p) BY DEF TimeoutMove
<1>2. PICK pick \in TimeoutMoves(p) :
        /\ state' = Apply(state, p, pick.move)
        /\ seedDraws' = seedDraws \o pick.draws
        /\ AdvanceTurn(ExpireOffer, pendingSimultaneous,
                       <<TimeoutEntry(p, pick, state'), StrikeEntry(p, "timeout")>>)
  BY DEF TimeoutMove
<1>3. status = "running" /\ p \in PlayersToMove(state) BY <1>1, ExpiredFacts
<1>4. pick \in Pick /\ state' \in GState BY <1>2, <1>3, IInvTypeOK, TimeoutMovesType
<1>5. <<TimeoutEntry(p, pick, state'), StrikeEntry(p, "timeout")>> \in Seq(OpenEntry)
  <2>1. TimeoutEntry(p, pick, state') \in OpenEntry BY <1>4, EntryTypes DEF IInv
  <2>2. StrikeEntry(p, "timeout") \in OpenEntry BY EntryTypes DEF IInv
  <2> QED BY <2>1, <2>2, OpenPairs
<1>6. cumulativeMs' \in [Player -> Nat] BY <1>1, OverdueType
<1>7. pendingSimultaneous \in [Player -> HeldSubmission \cup {None}] BY DEF IInv, EndTyped
<1>8. EndTyped' /\ Sealed' /\ turnIndex' \in Nat /\ illegalThisTurn' \in [Player -> Nat]
  BY <1>2, <1>3, <1>4, <1>5, <1>6, <1>7, ExpireOfferType, AdvanceTurnType
<1>9. seedDraws' \in Seq(Draw) BY <1>2, <1>4 DEF IInv, RestTyped, Pick
<1>10. RestTyped' BY <1>1, <1>4, <1>6, <1>8, <1>9, StrikeType DEF RestTyped
<1> QED BY <1>8, <1>10 DEF IInv

LEMMA TimeoutStrikeOutStep == ASSUME IInv, NEW p \in Player, TimeoutStrikeOut(p) PROVE IInv'
<1>1. /\ Expired /\ Alone(p) /\ cumulativeMs' = Overdue(p) /\ Strike(p) /\ UNCHANGED seedDraws
      /\ LoseSeat(p, "three_strikes", illegalThisTurn, <<StrikeEntry(p, "timeout")>>)
  BY DEF TimeoutStrikeOut
<1>2. status = "running" BY <1>1, ExpiredFacts
<1>3. cumulativeMs' \in [Player -> Nat] /\ illegalThisTurn \in [Player -> Nat]
  BY <1>1, OverdueType DEF IInv, RestTyped
<1>4. <<StrikeEntry(p, "timeout")>> \in Seq(OpenEntry)
  <2>1. StrikeEntry(p, "timeout") \in OpenEntry BY EntryTypes DEF IInv
  <2> QED BY <2>1, OpenPairs
<1>5. /\ EndTyped' /\ Sealed' /\ state' \in GState
      /\ turnIndex' \in Nat /\ illegalThisTurn' \in [Player -> Nat]
  BY <1>1, <1>2, <1>3, <1>4, LoseSeatType
<1>6. RestTyped' BY <1>1, <1>3, <1>5, StrikeType DEF IInv, RestTyped
<1> QED BY <1>5, <1>6 DEF IInv

LEMMA TimeoutFlagStep == ASSUME IInv, NEW p \in Player, TimeoutFlag(p) PROVE IInv'
<1>1. /\ Expired /\ Alone(p) /\ cumulativeMs' = Overdue(p) /\ UNCHANGED <<strikes, seedDraws>>
      /\ LoseSeat(p, "time", illegalThisTurn, <<>>)
  BY DEF TimeoutFlag
<1>2. status = "running" BY <1>1, ExpiredFacts
<1>3. /\ cumulativeMs' \in [Player -> Nat] /\ illegalThisTurn \in [Player -> Nat]
      /\ <<>> \in Seq(OpenEntry)
  BY <1>1, OverdueType DEF IInv, RestTyped
<1>4. /\ EndTyped' /\ Sealed' /\ state' \in GState
      /\ turnIndex' \in Nat /\ illegalThisTurn' \in [Player -> Nat]
  BY <1>1, <1>2, <1>3, LoseSeatType
<1>5. RestTyped' BY <1>1, <1>3, <1>4 DEF IInv, RestTyped
<1> QED BY <1>4, <1>5 DEF IInv

LEMMA TimeoutPhaseStep == ASSUME IInv, TimeoutPhase PROVE IInv'
<1> DEFINE absent == WaitingFor(state, pendingSimultaneous)
           late == [turn_index |-> turnIndex, submission |-> None, move |-> None,
                    forced |-> "timeout"]
<1>1. /\ Expired
      /\ pendingSimultaneous' =
           [p \in Player |-> IF p \in absent THEN late ELSE pendingSimultaneous[p]]
      /\ cumulativeMs' = [p \in Player |-> IF p \in absent THEN Overdue(p)[p] ELSE cumulativeMs[p]]
      /\ loop' = "flags"
      /\ UNCHANGED <<game, turnIndex, outcome, strikes, illegalThisTurn,
                     pendingDrawOffer, clock, log, batch, cursor>>
  BY DEF TimeoutPhase
<1>2. status = "running" /\ log \in Seq(OpenEntry) BY <1>1, RunningLog DEF Expired
<1>3. late \in HeldSubmission BY DEF HeldSubmission, IInv, RestTyped
<1>4. pendingSimultaneous' \in [Player -> HeldSubmission \cup {None}]
  <2> HIDE DEF late, absent
  <2> QED BY <1>1, <1>3 DEF IInv, EndTyped
<1>5. cumulativeMs' \in [Player -> Nat]
  <2>1. \A p \in Player : Overdue(p)[p] \in Nat /\ cumulativeMs[p] \in Nat
    BY OverdueType DEF IInv, RestTyped
  <2> HIDE DEF absent
  <2> QED BY <1>1, <2>1
<1>6. /\ log' \in Seq(OpenEntry) /\ pendingDrawOffer' \in DrawOffer \cup {None}
      /\ elapsed' \in Nat /\ deadline' \in Nat \cup {None} /\ UNCHANGED outcome
      /\ loop' \in {"none", "flags", "resolve"}
      /\ batch' \in [Player -> HeldSubmission \cup {None}] /\ cursor' \in 0 .. NSeats
  BY <1>1, <1>2 DEF IInv, EndTyped, clock
<1>7. EndTyped' /\ Sealed' BY <1>2, <1>4, <1>6, RunsOn
<1>8. RestTyped' BY <1>1, <1>5 DEF IInv, RestTyped, game
<1> QED BY <1>7, <1>8 DEF IInv

LEMMA TakeFlagStep == ASSUME IInv, NEW p \in Player, TakeFlag(p) PROVE IInv'
<1>1. loop = "flags" /\ UNCHANGED <<strikes, illegalThisTurn, cumulativeMs, seedDraws>>
  BY DEF TakeFlag
<1>2. status = "running" /\ log \in Seq(OpenEntry) BY <1>1, RunningLog
<1>3. CASE Forfeit(p, "time", <<>>)
  <2>1. <<>> \in Seq(OpenEntry) OBVIOUS
  <2>2. EndTyped' /\ Sealed' /\ state' \in GState /\ turnIndex' \in Nat
    BY <1>2, <1>3, <2>1, ForfeitType
  <2>3. RestTyped' BY <1>1, <2>2 DEF IInv, RestTyped
  <2> QED BY <2>2, <2>3 DEF IInv
<1>4. CASE /\ SeatLeaves(p)
           /\ log' = Append(log, EliminationEntry(p, "time"))
           /\ pendingSimultaneous' = [pendingSimultaneous EXCEPT ![p] = None]
           /\ UNCHANGED <<turnIndex, outcome, pendingDrawOffer, clock, looping>>
  <2>1. state' \in GState BY <1>4, GameTypes DEF SeatLeaves, IInv, RestTyped
  <2>2. EliminationEntry(p, "time") \in OpenEntry BY <1>4, EntryTypes DEF SeatLeaves, IInv
  <2>3. log' \in Seq(OpenEntry) BY <1>2, <1>4, <2>2
  <2>4. /\ pendingSimultaneous' \in [Player -> HeldSubmission \cup {None}]
        /\ pendingDrawOffer' \in DrawOffer \cup {None}
        /\ elapsed' \in Nat /\ deadline' \in Nat \cup {None} /\ UNCHANGED outcome
        /\ loop' \in {"none", "flags", "resolve"}
        /\ batch' \in [Player -> HeldSubmission \cup {None}] /\ cursor' \in 0 .. NSeats
    BY <1>4 DEF IInv, EndTyped, clock, looping
  <2>5. EndTyped' /\ Sealed' BY <1>2, <2>3, <2>4, RunsOn
  <2>6. RestTyped' BY <1>1, <1>4, <2>1 DEF IInv, RestTyped
  <2> QED BY <2>5, <2>6 DEF IInv
<1> QED BY <1>3, <1>4 DEF TakeFlag

LEMMA ResolvePhaseStep == ASSUME IInv, ResolvePhase PROVE IInv'
<1>1. /\ loop = "flags" /\ loop' = "resolve" /\ batch' = pendingSimultaneous /\ cursor' = 0
      /\ pendingSimultaneous' = NothingHeld
      /\ UNCHANGED <<game, turnIndex, outcome, strikes, illegalThisTurn,
                     pendingDrawOffer, cumulativeMs, clock, log>>
  BY DEF ResolvePhase
<1>2. status = "running" /\ log \in Seq(OpenEntry) BY <1>1, RunningLog
<1>3. 0 \in 0 .. NSeats BY SeatsAssumption
<1>4. /\ log' \in Seq(OpenEntry) /\ pendingDrawOffer' \in DrawOffer \cup {None}
      /\ pendingSimultaneous' \in [Player -> HeldSubmission \cup {None}]
      /\ elapsed' \in Nat /\ deadline' \in Nat \cup {None} /\ UNCHANGED outcome
      /\ loop' \in {"none", "flags", "resolve"}
      /\ batch' \in [Player -> HeldSubmission \cup {None}] /\ cursor' \in 0 .. NSeats
  BY <1>1, <1>2, <1>3, NothingHeldType DEF IInv, EndTyped, clock
<1>5. EndTyped' /\ Sealed' BY <1>2, <1>4, RunsOn
<1>6. RestTyped' BY <1>1 DEF IInv, RestTyped, game
<1> QED BY <1>5, <1>6 DEF IInv

LEMMA StutterStep == ASSUME IInv, UNCHANGED vars PROVE IInv'
<1>1. EndTyped' BY DEF IInv, EndTyped, vars
<1>2. RestTyped' BY DEF IInv, RestTyped, vars
<1>3. Sealed' BY DEF IInv, Sealed, SealedBy, vars
<1> QED BY <1>1, <1>2, <1>3 DEF IInv

LEMMA NextIInv == IInv /\ [Next]_vars => IInv'
<1> SUFFICES ASSUME IInv, [Next]_vars PROVE IInv'
  OBVIOUS
<1>1. CASE Tick BY <1>1, TickStep
<1>2. CASE Timeout
  BY <1>2, TimeoutPhaseStep, TimeoutMoveStep, TimeoutStrikeOutStep, TimeoutFlagStep
     DEF Timeout, TimeoutTurn
<1>3. CASE LoopStep
  BY <1>3, FinishPhaseStep, ResolvePhaseStep, TakeFlagStep, ResolveMoveStep, ResolveForcedStep,
     ResolveStaleStep, ResolveTimeoutStep, ResolveStrikeOutStep
     DEF LoopStep, ResolveStep
<1>4. CASE Ended \/ UNCHANGED vars BY <1>4, StutterStep DEF Ended
<1>5. ASSUME NEW p \in Player, Resign(p) PROVE IInv' BY <1>5, ResignStep
<1>6. ASSUME NEW p \in Player, NEW sub \in Submission, Submit(p, sub) PROVE IInv'
  BY <1>6, AcceptDrawStep, RejectIllegalStep, PlayMoveStep, ForceMoveStep,
     StrikeOutOnIllegalStep, HoldMoveStep, HoldForcedStep, StrikeOutInPhaseStep
     DEF Submit
<1> QED BY <1>1, <1>2, <1>3, <1>4, <1>5, <1>6 DEF Next

\* The types are invariant: for every game that keeps the kernel's contract the
\* room never rests on a RuleError, whatever is submitted and when.
THEOREM TypeCorrect == Spec => []TypeOK
<1>1. Init => IInv BY InitIInv
<1>2. IInv /\ [Next]_vars => IInv' BY NextIInv
<1>3. IInv => TypeOK BY IInvTypeOK
<1> QED BY <1>1, <1>2, <1>3, PTL DEF Spec

-----------------------------------------------------------------------------
(* The same invariant says where the result and the secret are written.    *)

LEMMA OpenKinds == \A e \in OpenEntry : e.kind # "end" /\ e.kind # "reveal"
BY DEF OpenEntry

LEMMA SealedOutcome == IInv => OutcomeIsSealed
<1> SUFFICES ASSUME IInv PROVE OutcomeIsSealed
  OBVIOUS
<1> DEFINE At(kind) == {i \in DOMAIN log : log[i].kind = kind}
<1>1. CASE status = "running"
  <2>1. result = None /\ log \in Seq(OpenEntry) BY <1>1 DEF IInv, Sealed
  <2>2. \A i \in DOMAIN log : log[i] \in OpenEntry BY <2>1
  <2>3. At("end") = {} /\ At("reveal") = {} BY <2>2, OpenKinds
  <2> QED BY <1>1, <2>1, <2>3 DEF OutcomeIsSealed
<1>2. CASE status = "ended"
  <2> DEFINE end == [kind |-> "end", result |-> result, final_state_hash |-> state]
             reveal == [kind |-> "reveal"]
  <2>1. PICK L \in Seq(OpenEntry) : log = L \o <<end, reveal>>
    BY <1>2 DEF IInv, Sealed, SealedBy
  <2>2. Len(L) \in Nat /\ \A i \in 1 .. Len(L) : L[i] \in OpenEntry OBVIOUS
  <2>3. end.kind = "end" /\ reveal.kind = "reveal" OBVIOUS
  <2>4. /\ Len(log) = Len(L) + 2 /\ DOMAIN log = 1 .. Len(L) + 2
        /\ \A i \in 1 .. Len(L) : log[i] = L[i]
        /\ log[Len(L) + 1] = end /\ log[Len(L) + 2] = reveal
    <3> HIDE DEF end, reveal
    <3> QED BY <2>1, <2>2
  <2>5. \A i \in 1 .. Len(L) : log[i].kind # "end" /\ log[i].kind # "reveal"
    BY <2>2, <2>4, OpenKinds
  <2>6. At("end") = {Len(log) - 1} /\ At("reveal") = {Len(log)}
    <3>1. \A i \in DOMAIN log : i \in 1 .. Len(L) \/ i = Len(L) + 1 \/ i = Len(L) + 2
      BY <2>2, <2>4
    <3>2. log[Len(L) + 1].kind = "end" /\ log[Len(L) + 2].kind = "reveal" BY <2>3, <2>4
    <3> HIDE DEF end, reveal
    <3> QED BY <2>2, <2>4, <2>5, <3>1, <3>2
  <2>7. log[Len(log) - 1].result = result /\ log[Len(log) - 1].final_state_hash = state
    <3>1. end.result = result /\ end.final_state_hash = state OBVIOUS
    <3> HIDE DEF end, reveal
    <3> QED BY <2>2, <2>4, <3>1
  <2> QED BY <1>2, <2>6, <2>7 DEF OutcomeIsSealed
<1> QED BY <1>1, <1>2 DEF IInv, EndTyped

\* A running game has neither a result nor the secret in its log; an ended one
\* has exactly one end entry, which carries the room's result and final state,
\* and then the one reveal.
THEOREM OutcomeSealed == Spec => []OutcomeIsSealed
<1>1. Init => IInv BY InitIInv
<1>2. IInv /\ [Next]_vars => IInv' BY NextIInv
<1>3. IInv => OutcomeIsSealed BY SealedOutcome
<1> QED BY <1>1, <1>2, <1>3, PTL DEF Spec


-----------------------------------------------------------------------------
(***************************************************************************)
(* STRIKES                                                                 *)
(*                                                                         *)
(* The three-strike rule, for every game, number of seats and clock: a     *)
(* strike count never passes three, and nothing is applied for a seat once *)
(* its third strike is on the record.                                      *)
(*                                                                         *)
(* The property speaks of the log alone, so it is not inductive: what      *)
(* keeps a seat with three strikes from acting again is that the game is   *)
(* over or the seat has left it, and the log only shows this because no    *)
(* strike entry counts higher than the seat's counter.                     *)
(***************************************************************************)

Counted(e) == IsAct(e) \/ e.kind = "strike"

\* The strike entries of L, against the counters s.
Lawful(L, s) ==
  \A i \in DOMAIN L :
    L[i].kind = "strike" =>
      /\ L[i].strike_count <= s[L[i].player]
      /\ L[i].strike_count = 3 =>
           \A j \in i + 1 .. Len(L) : Counted(L[j]) => L[j].player # L[i].player

StrikesInv ==
  /\ \A p \in Player : strikes[p] <= 3
  /\ status = "running" => \A p \in Player : strikes[p] = 3 => p \in Gone(state)
  /\ Lawful(log, strikes)

-----------------------------------------------------------------------------
(* Entries appended to a lawful log.                                       *)

LEMMA StrikeFields ==
  \A e \in LogEntry : e.kind = "strike" => e.player \in Player /\ e.strike_count \in Nat
BY DEF LogEntry, OpenEntry

LEMMA AddOther ==
  ASSUME NEW L \in Seq(LogEntry), NEW s \in [Player -> Nat], Lawful(L, s),
         NEW e \in LogEntry, ~Counted(e)
  PROVE  Lawful(Append(L, e), s)
BY DEF Lawful, Counted

LEMMA AddAct ==
  ASSUME NEW L \in Seq(LogEntry), NEW s \in [Player -> Nat], Lawful(L, s),
         NEW e \in LogEntry, IsAct(e), s[e.player] < 3
  PROVE  Lawful(Append(L, e), s)
<1> DEFINE M == Append(L, e)
<1>1. Len(L) \in Nat /\ Len(M) = Len(L) + 1 /\ DOMAIN M = 1 .. Len(L) + 1
      /\ \A i \in 1 .. Len(L) : M[i] = L[i]
  OBVIOUS
<1>2. M[Len(L) + 1] = e OBVIOUS
<1>3. e.kind # "strike" BY DEF IsAct
<1> SUFFICES ASSUME NEW i \in DOMAIN M, M[i].kind = "strike"
             PROVE  /\ M[i].strike_count <= s[M[i].player]
                    /\ M[i].strike_count = 3 =>
                         \A j \in i + 1 .. Len(M) : Counted(M[j]) => M[j].player # M[i].player
  BY DEF Lawful
<1>4. i \in 1 .. Len(L) /\ M[i] = L[i] BY <1>1, <1>2, <1>3
<1>5. /\ L[i].strike_count <= s[L[i].player]
      /\ L[i].strike_count = 3 =>
           \A j \in i + 1 .. Len(L) : Counted(L[j]) => L[j].player # L[i].player
  BY <1>4 DEF Lawful
<1>6. ASSUME M[i].strike_count = 3, NEW j \in i + 1 .. Len(M), Counted(M[j])
      PROVE  M[j].player # M[i].player
  <2>0. L[i].player \in Player /\ M[i].player = L[i].player /\ L[i].strike_count = 3
        /\ s[L[i].player] \in Nat /\ 3 <= s[L[i].player]
    BY <1>4, <1>5, <1>6, StrikeFields
  <2>1. CASE j = Len(L) + 1
    <3>1. M[j] = e BY <1>2, <2>1
    <3> HIDE DEF M
    <3> QED BY <2>0, <3>1
  <2>2. CASE j \in i + 1 .. Len(L) BY <1>1, <1>4, <1>5, <1>6, <2>2
  <2> QED BY <1>1, <1>4, <2>1, <2>2
<1> QED BY <1>4, <1>5, <1>6

LEMMA AddStrike ==
  ASSUME NEW L \in Seq(LogEntry), NEW s \in [Player -> Nat], Lawful(L, s),
         NEW e \in LogEntry, e.kind = "strike", e.strike_count = s[e.player] + 1,
         s[e.player] < 3
  PROVE  Lawful(Append(L, e), [s EXCEPT ![e.player] = @ + 1])
<1> DEFINE M == Append(L, e)
           t == [s EXCEPT ![e.player] = @ + 1]
<1>1. Len(L) \in Nat /\ Len(M) = Len(L) + 1 /\ DOMAIN M = 1 .. Len(L) + 1
      /\ \A i \in 1 .. Len(L) : M[i] = L[i]
  OBVIOUS
<1>2. M[Len(L) + 1] = e OBVIOUS
<1>3. e.player \in Player BY StrikeFields
<1>4. t[e.player] = s[e.player] + 1 /\ \A p \in Player : s[p] <= t[p] BY <1>3
<1> SUFFICES ASSUME NEW i \in DOMAIN M, M[i].kind = "strike"
             PROVE  /\ M[i].strike_count <= t[M[i].player]
                    /\ M[i].strike_count = 3 =>
                         \A j \in i + 1 .. Len(M) : Counted(M[j]) => M[j].player # M[i].player
  BY DEF Lawful
<1>5. CASE i = Len(L) + 1
  <2>1. M[i].strike_count <= t[M[i].player] BY <1>2, <1>3, <1>4, <1>5
  <2>2. i + 1 .. Len(M) = {} BY <1>1, <1>5
  <2> QED BY <2>1, <2>2
<1>6. CASE i \in 1 .. Len(L)
  <2>1. M[i] = L[i] /\ L[i] \in LogEntry BY <1>1, <1>6
  <2>2. L[i].player \in Player /\ L[i].strike_count \in Nat BY <2>1, StrikeFields
  <2>3. /\ L[i].strike_count <= s[L[i].player]
        /\ L[i].strike_count = 3 =>
             \A j \in i + 1 .. Len(L) : Counted(L[j]) => L[j].player # L[i].player
    BY <1>6, <2>1 DEF Lawful
  <2>4. s[L[i].player] \in Nat /\ t[L[i].player] \in Nat BY <2>2
  <2>5. M[i].strike_count <= t[M[i].player]
    <3>1. s[L[i].player] <= t[L[i].player] BY <1>4, <2>2
    <3> HIDE DEF t, M
    <3> QED BY <2>1, <2>2, <2>3, <2>4, <3>1
  <2>6. ASSUME M[i].strike_count = 3, NEW j \in i + 1 .. Len(M), Counted(M[j])
        PROVE  M[j].player # M[i].player
    <3>0. M[i].player = L[i].player /\ 3 <= s[L[i].player] BY <2>1, <2>3, <2>6
    <3>1. CASE j = Len(L) + 1
      <4>1. M[j] = e BY <1>2, <3>1
      <4> HIDE DEF M
      <4> QED BY <2>2, <2>4, <3>0, <4>1
    <3>2. CASE j \in i + 1 .. Len(L) BY <1>1, <1>6, <2>1, <2>3, <2>6, <3>2
    <3> QED BY <1>1, <1>6, <3>1, <3>2
  <2> QED BY <2>5, <2>6
<1> QED BY <1>1, <1>5, <1>6

-----------------------------------------------------------------------------
(* What every way out of a turn appends.                                   *)

LEMMA Shapes ==
  ASSUME NEW L \in Seq(OpenEntry)
  PROVE  /\ \A a \in OpenEntry : L \o <<a>> = Append(L, a)
         /\ \A a, b \in OpenEntry : L \o <<a, b>> = Append(Append(L, a), b)
         /\ \A M \in Seq(OpenEntry), a \in OpenEntry : L \o Append(M, a) = Append(L \o M, a)
OBVIOUS

LEMMA EndTail ==
  ASSUME log \in Seq(OpenEntry), strikes' \in [Player -> Nat], state' \in GState,
         NEW res \in Result, NEW entries \in Seq(OpenEntry), EndGame(res, entries),
         Lawful(log \o entries, strikes')
  PROVE  Lawful(log', strikes') /\ status' = "ended"
<1> DEFINE L == log \o entries
           end == [kind |-> "end", result |-> res, final_state_hash |-> state']
           reveal == [kind |-> "reveal"]
<1>1. L \in Seq(LogEntry)
  <2>1. L \in Seq(OpenEntry) OBVIOUS
  <2> QED BY <2>1, OpenSeqInLog
<1>2. end \in LogEntry /\ ~Counted(end) BY DEF LogEntry, Counted, IsAct
<1>3. reveal \in LogEntry /\ ~Counted(reveal) BY DEF LogEntry, Counted, IsAct
<1>4. Lawful(Append(L, end), strikes') BY <1>1, <1>2, AddOther
<1>5. Append(L, end) \in Seq(LogEntry) BY <1>1, <1>2
<1>6. Lawful(Append(Append(L, end), reveal), strikes') BY <1>3, <1>4, <1>5, AddOther
<1>7. log' = L \o <<end, reveal>> /\ status' = "ended" BY DEF EndGame
<1>8. L \o <<end, reveal>> = Append(Append(L, end), reveal)
  <2> HIDE DEF L, end, reveal
  <2> QED BY <1>1, <1>2, <1>3
<1> QED BY <1>6, <1>7, <1>8

LEMMA AdvanceTail ==
  ASSUME log \in Seq(OpenEntry), strikes' \in [Player -> Nat], state' \in GState,
         NEW offer, NEW held, NEW entries \in Seq(OpenEntry),
         AdvanceTurn(offer, held, entries), Lawful(log \o entries, strikes')
  PROVE  Lawful(log', strikes')
<1>1. CASE IsTerminal(state') # None
  <2>1. IsTerminal(state') \in Result /\ EndGame(IsTerminal(state'), entries)
    BY <1>1, KernelContract DEF AdvanceTurn
  <2> QED BY <2>1, EndTail
<1>2. CASE IsTerminal(state') = None BY <1>2 DEF AdvanceTurn
<1> QED BY <1>1, <1>2

LEMMA ForfeitTail ==
  ASSUME IInv, status = "running", strikes' \in [Player -> Nat],
         NEW p \in Player, NEW reason \in {"three_strikes", "time"},
         NEW entries \in Seq(OpenEntry), Forfeit(p, reason, entries),
         Lawful(log \o entries, strikes')
  PROVE  Lawful(log', strikes') /\ status' = "ended"
<1> DEFINE lost == ForfeitEntry(p, reason)
           res == [winners |-> Player \ {p}, draw |-> FALSE, reason |-> "forfeit"]
<1>1. log \in Seq(OpenEntry) /\ state \in GState BY DEF IInv, Sealed, RestTyped
<1>2. lost \in OpenEntry BY EntryTypes DEF IInv
<1>3. lost \in LogEntry /\ ~Counted(lost)
  BY <1>2, OpenInLog DEF Counted, IsAct, ForfeitEntry
<1>4. res \in Result
  <2>1. Player \ {p} \in SUBSET Player /\ "forfeit" \in Reason BY DEF Reason
  <2> QED BY <2>1 DEF Result
<1>5. log \o entries \in Seq(LogEntry)
  <2>1. log \o entries \in Seq(OpenEntry) BY <1>1
  <2> QED BY <2>1, OpenSeqInLog
<1>6. Lawful(log \o Append(entries, lost), strikes')
  <2>1. Lawful(Append(log \o entries, lost), strikes') BY <1>3, <1>5, AddOther
  <2>2. log \o Append(entries, lost) = Append(log \o entries, lost) BY <1>1, <1>2, Shapes
  <2> QED BY <2>1, <2>2
<1>7. Append(entries, lost) \in Seq(OpenEntry) BY <1>2
<1>8. EndGame(res, Append(entries, lost)) /\ state' = state BY DEF Forfeit
<1> HIDE DEF res, lost
<1> QED BY <1>1, <1>4, <1>6, <1>7, <1>8, EndTail

LEMMA EliminationEntryType ==
  ASSUME IInv, NEW p \in Player, SeatLeaves(p), NEW reason \in {"three_strikes", "time"}
  PROVE  /\ EliminationEntry(p, reason) \in OpenEntry
         /\ ~Counted(EliminationEntry(p, reason))
         /\ state' \in GState
         /\ Gone(state) \cup {p} \subseteq Gone(state')
<1>1. state \in GState BY DEF IInv, RestTyped
<1>2. ForfeitPlayer(state, p) # None /\ state' = ForfeitPlayer(state, p) BY DEF SeatLeaves
<1>3. EliminationEntry(p, reason) \in OpenEntry BY <1>2, EntryTypes DEF IInv
<1>4. ~Counted(EliminationEntry(p, reason)) BY DEF Counted, IsAct, EliminationEntry
<1> QED BY <1>1, <1>2, <1>3, <1>4, KernelContract

LEMMA LoseTail ==
  ASSUME IInv, status = "running", strikes' \in [Player -> Nat],
         NEW p \in Player, NEW reason \in {"three_strikes", "time"}, NEW attempts,
         NEW entries \in Seq(OpenEntry), LoseSeat(p, reason, attempts, entries),
         Lawful(log \o entries, strikes')
  PROVE  /\ Lawful(log', strikes')
         /\ status' = "running" => Gone(state) \cup {p} \subseteq Gone(state')
<1>1. CASE Forfeit(p, reason, entries) BY <1>1, ForfeitTail
<1>2. CASE /\ SeatLeaves(p)
           /\ AdvanceTurn(pendingDrawOffer, [pendingSimultaneous EXCEPT ![p] = None],
                          Append(entries, EliminationEntry(p, reason)))
  <2> DEFINE out == EliminationEntry(p, reason)
  <2>1. log \in Seq(OpenEntry) BY DEF IInv, Sealed
  <2>2. /\ out \in OpenEntry /\ ~Counted(out) /\ state' \in GState
        /\ Gone(state) \cup {p} \subseteq Gone(state')
    BY <1>2, EliminationEntryType
  <2>3. Append(entries, out) \in Seq(OpenEntry) BY <2>2
  <2>4. Lawful(log \o Append(entries, out), strikes')
    <3>1. log \o entries \in Seq(LogEntry)
      <4>1. log \o entries \in Seq(OpenEntry) BY <2>1
      <4> QED BY <4>1, OpenSeqInLog
    <3>2. Lawful(Append(log \o entries, out), strikes') BY <2>2, <3>1, OpenInLog, AddOther
    <3>3. log \o Append(entries, out) = Append(log \o entries, out) BY <2>1, <2>2, Shapes
    <3> QED BY <3>2, <3>3
  <2> HIDE DEF out
  <2> QED BY <1>2, <2>1, <2>2, <2>3, <2>4, AdvanceTail DEF out
<1> QED BY <1>1, <1>2 DEF LoseSeat

-----------------------------------------------------------------------------
(* A step that keeps the strikes, and one that adds a strike of a mover.   *)

LEMMA MoverStrikes ==
  ASSUME IInv, StrikesInv, status = "running", NEW p \in PlayersToMove(state)
  PROVE  p \in Player /\ strikes[p] \in Nat /\ strikes[p] < 3
<1>1. state \in GState /\ strikes \in [Player -> Nat] BY DEF IInv, RestTyped
<1>2. p \in Player /\ p \notin Gone(state) BY <1>1, KernelContract
<1> QED BY <1>1, <1>2 DEF StrikesInv

LEMMA KeepsStrikes ==
  ASSUME IInv, StrikesInv, strikes' = strikes, Lawful(log', strikes'),
         status' = "running" => status = "running" /\ Gone(state) \subseteq Gone(state')
  PROVE  StrikesInv'
BY DEF StrikesInv

LEMMA TakesStrike ==
  ASSUME IInv, StrikesInv, status = "running", NEW p \in PlayersToMove(state), Strike(p),
         Lawful(log', strikes'),
         status' = "running" => /\ Gone(state) \subseteq Gone(state')
                                /\ strikes[p] < 2 \/ p \in Gone(state')
  PROVE  StrikesInv'
<1>1. strikes \in [Player -> Nat] BY DEF IInv, RestTyped
<1>2. p \in Player /\ strikes[p] \in Nat /\ strikes[p] < 3 BY MoverStrikes
<1>3. \A q \in Player : strikes'[q] = IF q = p THEN strikes[p] + 1 ELSE strikes[q]
  BY <1>1, <1>2 DEF Strike
<1> QED BY <1>1, <1>2, <1>3 DEF StrikesInv

LEMMA ActLawful ==
  ASSUME IInv, StrikesInv, status = "running", NEW p \in PlayersToMove(state),
         NEW act \in OpenEntry, IsAct(act), act.player = p
  PROVE  Lawful(log \o <<act>>, strikes)
<1>1. log \in Seq(OpenEntry) /\ strikes \in [Player -> Nat] BY DEF IInv, Sealed, RestTyped
<1>2. strikes[p] < 3 BY MoverStrikes
<1>3. Lawful(Append(log, act), strikes)
  BY <1>1, <1>2, OpenSeqInLog, OpenInLog, AddAct DEF StrikesInv
<1> QED BY <1>1, <1>3, Shapes

LEMMA StrikeLawful ==
  ASSUME IInv, StrikesInv, status = "running", NEW p \in PlayersToMove(state), Strike(p),
         NEW reason \in {"illegal_move", "timeout"}
  PROVE  /\ StrikeEntry(p, reason) \in OpenEntry
         /\ strikes' \in [Player -> Nat]
         /\ Lawful(log \o <<StrikeEntry(p, reason)>>, strikes')
         /\ \A act \in OpenEntry :
              IsAct(act) /\ act.player = p
                => Lawful(log \o <<act, StrikeEntry(p, reason)>>, strikes')
<1> DEFINE hit == StrikeEntry(p, reason)
<1>1. log \in Seq(OpenEntry) /\ strikes \in [Player -> Nat] /\ log \in Seq(LogEntry)
  BY OpenSeqInLog DEF IInv, Sealed, RestTyped
<1>2. p \in Player /\ strikes[p] < 3 BY MoverStrikes
<1>3. hit \in OpenEntry BY <1>2, EntryTypes DEF IInv
<1>4. hit.kind = "strike" /\ hit.player = p /\ hit.strike_count = strikes[p] + 1
  BY DEF StrikeEntry
<1>5. strikes' = [strikes EXCEPT ![p] = @ + 1] BY DEF Strike
<1>6. strikes' \in [Player -> Nat] BY <1>1, <1>2, <1>5
<1> HIDE DEF hit
<1>7. \A L \in Seq(LogEntry) : Lawful(L, strikes) => Lawful(Append(L, hit), strikes')
  BY <1>1, <1>2, <1>3, <1>4, <1>5, OpenInLog, AddStrike
<1>8. Lawful(log \o <<hit>>, strikes')
  BY <1>1, <1>3, <1>7, Shapes DEF StrikesInv
<1>9. ASSUME NEW act \in OpenEntry, IsAct(act), act.player = p
      PROVE  Lawful(log \o <<act, hit>>, strikes')
  <2>1. Lawful(Append(log, act), strikes) BY <1>1, <1>9, ActLawful, Shapes
  <2>2. Append(log, act) \in Seq(LogEntry)
    <3>1. Append(log, act) \in Seq(OpenEntry) BY <1>1, <1>9, OpenAppend
    <3> QED BY <3>1, OpenSeqInLog
  <2>3. Lawful(Append(Append(log, act), hit), strikes') BY <1>7, <2>1, <2>2
  <2> QED BY <1>1, <1>3, <1>9, <2>3, Shapes
<1> QED BY <1>3, <1>6, <1>8, <1>9 DEF hit

LEMMA GoneGrows ==
  ASSUME IInv, NEW p \in Player, NEW m \in Move, Apply(state, p, m) \in GState
  PROVE  Gone(state) \subseteq Gone(Apply(state, p, m))
<1>1. state \in GState /\ Apply(state, p, m) # None BY NoneIsNothing DEF IInv, RestTyped
<1> QED BY <1>1, KernelContract

\* The entries a move of a seat is recorded by.
LEMMA MoveEntryIsAct ==
  ASSUME IInv, NEW p \in Player, NEW sub \in Submission, NEW sentFor \in Nat,
         NEW forced \in BOOLEAN, NEW pick \in Pick, NEW after \in GState
  PROVE  /\ MoveEntry(p, sub, sentFor, forced, pick, after) \in OpenEntry
         /\ IsAct(MoveEntry(p, sub, sentFor, forced, pick, after))
         /\ MoveEntry(p, sub, sentFor, forced, pick, after).player = p
<1>1. RestTyped BY DEF IInv
<1>2. MoveEntry(p, sub, sentFor, forced, pick, after) \in OpenEntry BY <1>1, EntryTypes
<1> QED BY <1>2 DEF MoveEntry, IsAct

LEMMA TimeoutEntryIsAct ==
  ASSUME IInv, NEW p \in Player, NEW pick \in Pick, NEW after \in GState
  PROVE  /\ TimeoutEntry(p, pick, after) \in OpenEntry
         /\ IsAct(TimeoutEntry(p, pick, after))
         /\ TimeoutEntry(p, pick, after).player = p
<1>1. RestTyped BY DEF IInv
<1>2. TimeoutEntry(p, pick, after) \in OpenEntry BY <1>1, EntryTypes
<1> QED BY <1>2 DEF TimeoutEntry, IsAct

LEMMA ResolvedMoveIsAct ==
  ASSUME IInv, NEW p \in Player, Resolving(p), batch[p].forced # "timeout",
         NEW forced \in BOOLEAN, NEW pick \in Pick, Apply(state, p, pick.move) \in GState
  PROVE  /\ ResolvedMove(p, forced, pick) \in OpenEntry
         /\ IsAct(ResolvedMove(p, forced, pick)) /\ ResolvedMove(p, forced, pick).player = p
<1>1. batch[p].submission \in Submission /\ batch[p].turn_index \in Nat BY ResolvingFacts
<1> QED BY <1>1, MoveEntryIsAct DEF ResolvedMove

\* A turn that costs the seat: the strike, and then the way out.
LEMMA StrikeOutLosesSeat ==
  ASSUME IInv, StrikesInv, status = "running", NEW p \in PlayersToMove(state), Strike(p),
         NEW reason \in {"illegal_move", "timeout"}, NEW attempts,
         LoseSeat(p, "three_strikes", attempts, <<StrikeEntry(p, reason)>>)
  PROVE  StrikesInv'
<1>1. p \in Player BY MoverStrikes
<1>2. /\ StrikeEntry(p, reason) \in OpenEntry /\ strikes' \in [Player -> Nat]
      /\ Lawful(log \o <<StrikeEntry(p, reason)>>, strikes')
  BY StrikeLawful
<1>3. <<StrikeEntry(p, reason)>> \in Seq(OpenEntry) BY <1>2, OpenPairs
<1>4. /\ Lawful(log', strikes')
      /\ status' = "running" => Gone(state) \cup {p} \subseteq Gone(state')
  BY <1>1, <1>2, <1>3, LoseTail
<1> QED BY <1>4, TakesStrike

\* A third strike inside a phase: the same, with the loop going on.
LEMMA StrikeOutInLoop ==
  ASSUME IInv, StrikesInv, status = "running", NEW p \in PlayersToMove(state), Strike(p),
         NEW reason \in {"illegal_move", "timeout"},
         \/ Forfeit(p, "three_strikes", <<StrikeEntry(p, reason)>>)
         \/ /\ SeatLeaves(p)
            /\ log' = log \o <<StrikeEntry(p, reason), EliminationEntry(p, "three_strikes")>>
  PROVE  StrikesInv'
<1> DEFINE hit == StrikeEntry(p, reason)
           out == EliminationEntry(p, "three_strikes")
<1>1. p \in Player /\ log \in Seq(OpenEntry) BY MoverStrikes DEF IInv, Sealed
<1>2. hit \in OpenEntry /\ strikes' \in [Player -> Nat] /\ Lawful(log \o <<hit>>, strikes')
  BY StrikeLawful
<1>3. CASE Forfeit(p, "three_strikes", <<hit>>)
  <2>1. <<hit>> \in Seq(OpenEntry) BY <1>2, OpenPairs
  <2>2. Lawful(log', strikes') /\ status' = "ended" BY <1>1, <1>2, <1>3, <2>1, ForfeitTail
  <2> QED BY <2>2, TakesStrike
<1>4. CASE SeatLeaves(p) /\ log' = log \o <<hit, out>>
  <2>1. out \in OpenEntry /\ ~Counted(out) /\ Gone(state) \cup {p} \subseteq Gone(state')
    BY <1>1, <1>4, EliminationEntryType
  <2> HIDE DEF hit, out
  <2>2. Lawful(Append(log, hit), strikes') BY <1>1, <1>2, Shapes
  <2>3. Append(log, hit) \in Seq(LogEntry)
    <3>1. Append(log, hit) \in Seq(OpenEntry) BY <1>1, <1>2, OpenAppend
    <3> QED BY <3>1, OpenSeqInLog
  <2>4. Lawful(Append(Append(log, hit), out), strikes')
    BY <1>2, <2>1, <2>2, <2>3, OpenInLog, AddOther
  <2>5. Lawful(log', strikes') BY <1>1, <1>2, <1>4, <2>1, <2>4, Shapes
  <2> QED BY <2>1, <2>5, TakesStrike
<1> QED BY <1>3, <1>4

-----------------------------------------------------------------------------
(* One lemma per action that writes to the log or changes the strikes.     *)

LEMMA InitStrikes == Init => StrikesInv
<1> SUFFICES ASSUME Init PROVE StrikesInv
  OBVIOUS
<1>1. \A p \in Player : strikes[p] = 0 BY DEF Init
<1>2. \A i \in DOMAIN log : log[i].kind # "strike" BY DEF Init
<1> QED BY <1>1, <1>2 DEF StrikesInv, Lawful

LEMMA SignedEnd ==
  ASSUME IInv, StrikesInv, status = "running", strikes' = strikes, UNCHANGED state,
         NEW p \in Player, NEW kind \in {"resign", "draw_accept"}, NEW res \in Result,
         EndGame(res, <<SignedEntry(kind, p)>>)
  PROVE  StrikesInv'
<1> DEFINE e == SignedEntry(kind, p)
<1>1. log \in Seq(OpenEntry) /\ strikes \in [Player -> Nat] /\ state \in GState
      /\ log \in Seq(LogEntry)
  BY OpenSeqInLog DEF IInv, Sealed, RestTyped
<1>2. e \in OpenEntry BY EntryTypes DEF IInv
<1>3. ~Counted(e) BY DEF Counted, IsAct, SignedEntry
<1> HIDE DEF e
<1>4. Lawful(log \o <<e>>, strikes')
  <2>1. Lawful(Append(log, e), strikes')
    BY <1>1, <1>2, <1>3, OpenInLog, AddOther DEF StrikesInv
  <2> QED BY <1>1, <1>2, <2>1, Shapes
<1>5. <<e>> \in Seq(OpenEntry) BY <1>2, OpenPairs
<1>6. Lawful(log', strikes') /\ status' = "ended" BY <1>1, <1>4, <1>5, EndTail DEF e
<1> QED BY <1>6, KeepsStrikes

LEMMA ResignStrikes == ASSUME IInv, StrikesInv, NEW p \in Player, Resign(p) PROVE StrikesInv'
<1>1. [winners |-> Player \ {p}, draw |-> FALSE, reason |-> "resignation"] \in Result
  <2>1. "resignation" \in Reason /\ Player \ {p} \in SUBSET Player BY DEF Reason
  <2> QED BY <2>1 DEF Result
<1>2. /\ Idle /\ strikes' = strikes /\ state' = state
      /\ EndGame([winners |-> Player \ {p}, draw |-> FALSE, reason |-> "resignation"],
                 <<SignedEntry("resign", p)>>)
  BY DEF Resign, game
<1> QED BY <1>1, <1>2, RunningLog, SignedEnd

LEMMA AcceptDrawStrikes ==
  ASSUME IInv, StrikesInv, NEW p \in Player, NEW sub \in Submission, AcceptDraw(p, sub)
  PROVE  StrikesInv'
<1>1. [winners |-> {}, draw |-> TRUE, reason |-> "agreement"] \in Result
  <2>1. "agreement" \in Reason /\ {} \in SUBSET Player BY DEF Reason
  <2> QED BY <2>1 DEF Result
<1>2. /\ Idle /\ strikes' = strikes /\ state' = state
      /\ EndGame([winners |-> {}, draw |-> TRUE, reason |-> "agreement"],
                 <<SignedEntry("draw_accept", p)>>)
  BY DEF AcceptDraw, Admitted, game
<1> QED BY <1>1, <1>2, RunningLog, SignedEnd

\* Steps that write nothing to the log and leave the game state alone.
LEMMA SilentStrikes ==
  ASSUME IInv, StrikesInv, UNCHANGED <<log, strikes, state>>, status' = status
  PROVE  StrikesInv'
BY DEF StrikesInv, Lawful

LEMMA PlayMoveStrikes ==
  ASSUME IInv, StrikesInv, NEW p \in Player, NEW sub \in Submission, PlayMove(p, sub)
  PROVE  StrikesInv'
<1> DEFINE m == Resolve(state, p, sub)
           offers == IF sub.draw_offer THEN <<SignedEntry("draw_offer", p)>> ELSE <<>>
           offer == IF sub.draw_offer THEN [by |-> p, validAtTurn |-> turnIndex + 1] ELSE ExpireOffer
           move == MoveEntry(p, sub, turnIndex, FALSE, OwnMove(m), state')
           entries == <<move>> \o offers
<1>1. /\ IsMove(p, sub) /\ Alone(p) /\ ~IsIllegal(p, sub)
      /\ state' = Apply(state, p, m)
      /\ AdvanceTurn(offer, pendingSimultaneous, entries)
      /\ strikes' = strikes
  BY DEF PlayMove
<1>2. /\ status = "running" /\ turnIndex \in Nat /\ log \in Seq(OpenEntry)
      /\ p \in PlayersToMove(state) /\ strikes \in [Player -> Nat]
  BY <1>1, SubmitFacts DEF IInv, RestTyped
<1>3. m \in Move /\ state' \in GState BY <1>1, AppliedType
<1>4. Gone(state) \subseteq Gone(state') BY <1>1, <1>3, GoneGrows
<1>5. OwnMove(m) \in Pick BY <1>3 DEF OwnMove, Pick
<1>6. move \in OpenEntry /\ IsAct(move) /\ move.player = p
  BY <1>2, <1>3, <1>5, MoveEntryIsAct
<1>7. Lawful(log \o <<move>>, strikes)
  <2> HIDE DEF m, move, offers, offer, entries
  <2>1. IsAct(move) /\ move.player = p /\ move \in OpenEntry BY <1>6
  <2> QED BY <1>2, <2>1, ActLawful, Zenon
<1>8. entries \in Seq(OpenEntry) /\ Lawful(log \o entries, strikes')
  <2>1. CASE sub.draw_offer
    <3> DEFINE e == SignedEntry("draw_offer", p)
    <3>1. e \in OpenEntry BY EntryTypes DEF IInv
    <3>2. ~Counted(e) BY DEF Counted, IsAct, SignedEntry
    <3>3. entries = <<move>> \o <<e>> BY <2>1
    <3> HIDE DEF e, move
    <3>4. <<move>> \o <<e>> = Append(<<move>>, e) OBVIOUS
    <3>5. <<move>> \in Seq(OpenEntry) BY <1>6, OpenPairs
    <3>6. log \o <<move>> \in Seq(LogEntry)
      <4>1. log \o <<move>> \in Seq(OpenEntry) BY <1>2, <3>5, OpenAppend
      <4> QED BY <4>1, OpenSeqInLog
    <3>7. Lawful(Append(log \o <<move>>, e), strikes)
      BY <1>2, <1>7, <3>1, <3>2, <3>6, OpenInLog, AddOther
    <3>8. log \o Append(<<move>>, e) = Append(log \o <<move>>, e)
      BY <1>2, <3>1, <3>5, Shapes
    <3>9. entries \in Seq(OpenEntry) BY <3>1, <3>3, <3>4, <3>5, OpenAppend
    <3> HIDE DEF entries
    <3> QED BY <1>1, <3>3, <3>4, <3>7, <3>8, <3>9
  <2>2. CASE ~sub.draw_offer
    <3>1. entries = <<move>> \o <<>> BY <2>2
    <3> HIDE DEF entries, move
    <3>2. entries = <<move>> BY <3>1
    <3> QED BY <1>1, <1>6, <1>7, <3>2, OpenPairs
  <2> QED BY <2>1, <2>2
<1>9. Lawful(log', strikes')
  <2> HIDE DEF entries, offer, m
  <2> QED BY <1>1, <1>2, <1>3, <1>8, AdvanceTail
<1> QED BY <1>1, <1>2, <1>4, <1>9, KeepsStrikes

LEMMA ForceMoveStrikes ==
  ASSUME IInv, StrikesInv, NEW p \in Player, NEW sub \in Submission, ForceMove(p, sub)
  PROVE  StrikesInv'
<1>1. IsMove(p, sub) /\ strikes[p] < 2 /\ Strike(p) BY DEF ForceMove, ThirdIllegal
<1>2. PICK pick \in SeededMoves(p, "illegal") :
        /\ state' = Apply(state, p, pick.move)
        /\ AdvanceTurn(ExpireOffer, pendingSimultaneous,
                       << MoveEntry(p, sub, turnIndex, TRUE, pick, state'),
                          StrikeEntry(p, "illegal_move") >>)
  BY DEF ForceMove
<1>3. /\ status = "running" /\ turnIndex \in Nat /\ log \in Seq(OpenEntry)
      /\ p \in PlayersToMove(state)
  BY <1>1, SubmitFacts
<1>4. pick \in Pick /\ state' \in GState BY <1>2, <1>3, IInvTypeOK, SeededMovesType
<1>5. Gone(state) \subseteq Gone(state') BY <1>2, <1>4, GoneGrows DEF Pick
<1> DEFINE move == MoveEntry(p, sub, turnIndex, TRUE, pick, state')
           hit == StrikeEntry(p, "illegal_move")
<1>6. move \in OpenEntry /\ IsAct(move) /\ move.player = p BY <1>3, <1>4, MoveEntryIsAct
<1> HIDE DEF move
<1>7. /\ hit \in OpenEntry /\ strikes' \in [Player -> Nat]
      /\ Lawful(log \o <<move, hit>>, strikes')
  BY <1>1, <1>3, <1>6, StrikeLawful
<1>8. <<move, hit>> \in Seq(OpenEntry) BY <1>6, <1>7, OpenPairs
<1>9. Lawful(log', strikes') BY <1>2, <1>3, <1>4, <1>7, <1>8, AdvanceTail DEF move
<1> QED BY <1>1, <1>3, <1>5, <1>9, TakesStrike

LEMMA StrikeOutOnIllegalStrikes ==
  ASSUME IInv, StrikesInv, NEW p \in Player, NEW sub \in Submission, StrikeOutOnIllegal(p, sub)
  PROVE  StrikesInv'
<1>1. /\ IsMove(p, sub) /\ Strike(p)
      /\ LoseSeat(p, "three_strikes", Attempted(p), <<StrikeEntry(p, "illegal_move")>>)
  BY DEF StrikeOutOnIllegal, ThirdIllegal
<1>2. status = "running" /\ p \in PlayersToMove(state) BY <1>1, SubmitFacts
<1> QED BY <1>1, <1>2, StrikeOutLosesSeat

LEMMA HoldForcedStrikes ==
  ASSUME IInv, StrikesInv, NEW p \in Player, NEW sub \in Submission, HoldForced(p, sub)
  PROVE  StrikesInv'
<1>1. /\ IsMove(p, sub) /\ Strike(p) /\ strikes[p] < 2 /\ state' = state
      /\ log' = Append(log, StrikeEntry(p, "illegal_move"))
  BY DEF HoldForced, ThirdIllegal, game
<1>2. status = "running" /\ log \in Seq(OpenEntry) /\ p \in PlayersToMove(state)
  BY <1>1, SubmitFacts
<1>3. /\ StrikeEntry(p, "illegal_move") \in OpenEntry
      /\ Lawful(log \o <<StrikeEntry(p, "illegal_move")>>, strikes')
  BY <1>1, <1>2, StrikeLawful
<1>4. Lawful(log', strikes') BY <1>1, <1>2, <1>3, Shapes
<1> QED BY <1>1, <1>2, <1>4, TakesStrike

LEMMA StrikeOutInPhaseStrikes ==
  ASSUME IInv, StrikesInv, NEW p \in Player, NEW sub \in Submission, StrikeOutInPhase(p, sub)
  PROVE  StrikesInv'
<1>1. /\ IsMove(p, sub) /\ Strike(p)
      /\ \/ Forfeit(p, "three_strikes", <<StrikeEntry(p, "illegal_move")>>)
         \/ /\ SeatLeaves(p)
            /\ log' = log \o << StrikeEntry(p, "illegal_move"),
                                EliminationEntry(p, "three_strikes") >>
  BY DEF StrikeOutInPhase, ThirdIllegal
<1>2. status = "running" /\ p \in PlayersToMove(state) BY <1>1, SubmitFacts
<1> QED BY <1>1, <1>2, StrikeOutInLoop

LEMMA ResolveMoveStrikes ==
  ASSUME IInv, StrikesInv, NEW p \in Player, ResolveMove(p)
  PROVE  StrikesInv'
<1> DEFINE own == OwnMove(batch[p].move)
           move == ResolvedMove(p, FALSE, own)
<1>1. /\ Resolving(p) /\ batch[p].forced = "no" /\ ~IsStale(p)
      /\ state' = Apply(state, p, batch[p].move)
      /\ log' = Append(log, move) /\ strikes' = strikes /\ status' = status
  BY DEF ResolveMove, NextSeat, outcome
<1>2. /\ batch[p].move \in Move /\ log \in Seq(OpenEntry) /\ status = "running"
      /\ p \in PlayersToMove(state)
  BY <1>1, ResolvingFacts
<1>3. state' \in GState BY <1>1, <1>2, GameTypes DEF IsStale, IInv, RestTyped
<1>4. Gone(state) \subseteq Gone(state') BY <1>1, <1>2, <1>3, GoneGrows
<1>5. own \in Pick /\ own.move = batch[p].move BY <1>2 DEF OwnMove, Pick
<1>6. move \in OpenEntry /\ IsAct(move) /\ move.player = p
  BY <1>1, <1>3, <1>5, ResolvedMoveIsAct
<1> HIDE DEF move
<1>7. Lawful(log', strikes') BY <1>1, <1>2, <1>6, ActLawful, Shapes
<1> QED BY <1>1, <1>2, <1>4, <1>7, KeepsStrikes

LEMMA ResolveForcedStrikes ==
  ASSUME IInv, StrikesInv, NEW p \in Player, ResolveForced(p)
  PROVE  StrikesInv'
<1>1. Resolving(p) /\ batch[p].forced = "illegal" /\ strikes' = strikes /\ status' = status
  BY DEF ResolveForced, NextSeat, outcome
<1>2. PICK pick \in SeededMoves(p, "illegal") :
        /\ state' = Apply(state, p, pick.move)
        /\ log' = Append(log, ResolvedMove(p, TRUE, pick))
  BY DEF ResolveForced
<1>3. p \in PlayersToMove(state) /\ log \in Seq(OpenEntry) /\ status = "running"
  BY <1>1, ResolvingFacts
<1>4. pick \in Pick /\ state' \in GState BY <1>2, <1>3, IInvTypeOK, SeededMovesType
<1>5. Gone(state) \subseteq Gone(state') BY <1>2, <1>4, GoneGrows DEF Pick
<1> DEFINE move == ResolvedMove(p, TRUE, pick)
<1>6. move \in OpenEntry /\ IsAct(move) /\ move.player = p
  BY <1>1, <1>2, <1>4, ResolvedMoveIsAct
<1>7. log' = Append(log, move) BY <1>2
<1> HIDE DEF move
<1>8. Lawful(log', strikes') BY <1>1, <1>3, <1>6, <1>7, ActLawful, Shapes
<1> QED BY <1>1, <1>3, <1>5, <1>8, KeepsStrikes

LEMMA ResolveStaleStrikes ==
  ASSUME IInv, StrikesInv, NEW p \in Player, ResolveStale(p)
  PROVE  StrikesInv'
<1>1. Resolving(p) /\ IsStale(p) /\ strikes[p] < 2 /\ Strike(p) BY DEF ResolveStale
<1>2. PICK pick \in SeededMoves(p, "illegal") :
        /\ state' = Apply(state, p, pick.move)
        /\ log' = log \o <<ResolvedMove(p, TRUE, pick), StrikeEntry(p, "illegal_move")>>
  BY DEF ResolveStale
<1>3. p \in PlayersToMove(state) /\ status = "running" BY <1>1, ResolvingFacts
<1>4. pick \in Pick /\ state' \in GState BY <1>2, <1>3, IInvTypeOK, SeededMovesType
<1>5. Gone(state) \subseteq Gone(state') BY <1>2, <1>4, GoneGrows DEF Pick
<1> DEFINE move == ResolvedMove(p, TRUE, pick)
<1>6. move \in OpenEntry /\ IsAct(move) /\ move.player = p
  BY <1>1, <1>2, <1>4, ResolvedMoveIsAct DEF IsStale
<1>7. log' = log \o <<move, StrikeEntry(p, "illegal_move")>> BY <1>2
<1> HIDE DEF move
<1>8. Lawful(log', strikes') BY <1>1, <1>3, <1>6, <1>7, StrikeLawful
<1> QED BY <1>1, <1>3, <1>5, <1>8, TakesStrike

LEMMA ResolveTimeoutStrikes ==
  ASSUME IInv, StrikesInv, NEW p \in Player, ResolveTimeout(p)
  PROVE  StrikesInv'
<1>1. Resolving(p) /\ strikes[p] < 2 /\ Strike(p) BY DEF ResolveTimeout
<1>2. PICK pick \in TimeoutMoves(p) :
        /\ state' = Apply(state, p, pick.move)
        /\ log' = log \o <<TimeoutEntry(p, pick, state'), StrikeEntry(p, "timeout")>>
  BY DEF ResolveTimeout
<1>3. p \in PlayersToMove(state) /\ status = "running" BY <1>1, ResolvingFacts
<1>4. pick \in Pick /\ state' \in GState BY <1>2, <1>3, IInvTypeOK, TimeoutMovesType
<1>5. Gone(state) \subseteq Gone(state') BY <1>2, <1>4, GoneGrows DEF Pick
<1> DEFINE act == TimeoutEntry(p, pick, state')
<1>6. act \in OpenEntry /\ IsAct(act) /\ act.player = p BY <1>4, TimeoutEntryIsAct
<1>7. log' = log \o <<act, StrikeEntry(p, "timeout")>> BY <1>2
<1> HIDE DEF act
<1>8. Lawful(log', strikes') BY <1>1, <1>3, <1>6, <1>7, StrikeLawful
<1> QED BY <1>1, <1>3, <1>5, <1>8, TakesStrike

LEMMA ResolveStrikeOutStrikes ==
  ASSUME IInv, StrikesInv, NEW p \in Player, ResolveStrikeOut(p)
  PROVE  StrikesInv'
<1>1. Resolving(p) /\ Strike(p) BY DEF ResolveStrikeOut
<1>2. PICK reason \in {"timeout", "illegal_move"} :
        \/ Forfeit(p, "three_strikes", <<StrikeEntry(p, reason)>>)
        \/ /\ SeatLeaves(p)
           /\ log' = log \o <<StrikeEntry(p, reason), EliminationEntry(p, "three_strikes")>>
  BY DEF ResolveStrikeOut
<1>3. p \in PlayersToMove(state) /\ status = "running" BY <1>1, ResolvingFacts
<1> QED BY <1>1, <1>2, <1>3, StrikeOutInLoop

LEMMA FinishPhaseStrikes == ASSUME IInv, StrikesInv, FinishPhase PROVE StrikesInv'
<1>1. /\ loop = "resolve" /\ state' = state /\ strikes' = strikes
      /\ AdvanceTurn(ExpireOffer, pendingSimultaneous, <<>>)
  BY DEF FinishPhase, game
<1>2. /\ status = "running" /\ log \in Seq(OpenEntry) /\ state' \in GState
      /\ strikes' \in [Player -> Nat]
  BY <1>1, RunningLog DEF IInv, RestTyped
<1>3. log \o <<>> = log BY <1>2
<1>4. Lawful(log \o <<>>, strikes') BY <1>1, <1>3 DEF StrikesInv
<1>5. <<>> \in Seq(OpenEntry) OBVIOUS
<1>6. Lawful(log', strikes') BY <1>1, <1>2, <1>4, <1>5, AdvanceTail
<1> QED BY <1>1, <1>2, <1>6, KeepsStrikes

LEMMA TimeoutMoveStrikes ==
  ASSUME IInv, StrikesInv, NEW p \in Player, TimeoutMove(p)
  PROVE  StrikesInv'
<1>1. Expired /\ Alone(p) /\ Strike(p) /\ strikes[p] < 2 BY DEF TimeoutMove
<1>2. PICK pick \in TimeoutMoves(p) :
        /\ state' = Apply(state, p, pick.move)
        /\ AdvanceTurn(ExpireOffer, pendingSimultaneous,
                       <<TimeoutEntry(p, pick, state'), StrikeEntry(p, "timeout")>>)
  BY DEF TimeoutMove
<1>3. status = "running" /\ log \in Seq(OpenEntry) /\ p \in PlayersToMove(state)
  BY <1>1, ExpiredFacts
<1>4. pick \in Pick /\ state' \in GState BY <1>2, <1>3, IInvTypeOK, TimeoutMovesType
<1>5. Gone(state) \subseteq Gone(state') BY <1>2, <1>4, GoneGrows DEF Pick
<1> DEFINE act == TimeoutEntry(p, pick, state')
           hit == StrikeEntry(p, "timeout")
<1>6. act \in OpenEntry /\ IsAct(act) /\ act.player = p BY <1>4, TimeoutEntryIsAct
<1> HIDE DEF act
<1>7. /\ hit \in OpenEntry /\ strikes' \in [Player -> Nat]
      /\ Lawful(log \o <<act, hit>>, strikes')
  BY <1>1, <1>3, <1>6, StrikeLawful
<1>8. <<act, hit>> \in Seq(OpenEntry) BY <1>6, <1>7, OpenPairs
<1>9. Lawful(log', strikes') BY <1>2, <1>3, <1>4, <1>7, <1>8, AdvanceTail DEF act
<1> QED BY <1>1, <1>3, <1>5, <1>9, TakesStrike

LEMMA TimeoutStrikeOutStrikes ==
  ASSUME IInv, StrikesInv, NEW p \in Player, TimeoutStrikeOut(p)
  PROVE  StrikesInv'
<1>1. /\ Expired /\ Alone(p) /\ Strike(p)
      /\ LoseSeat(p, "three_strikes", illegalThisTurn, <<StrikeEntry(p, "timeout")>>)
  BY DEF TimeoutStrikeOut
<1>2. status = "running" /\ p \in PlayersToMove(state) BY <1>1, ExpiredFacts
<1> QED BY <1>1, <1>2, StrikeOutLosesSeat

LEMMA TimeoutFlagStrikes ==
  ASSUME IInv, StrikesInv, NEW p \in Player, TimeoutFlag(p)
  PROVE  StrikesInv'
<1>1. /\ Expired /\ Alone(p) /\ strikes' = strikes
      /\ LoseSeat(p, "time", illegalThisTurn, <<>>)
  BY DEF TimeoutFlag
<1>2. /\ status = "running" /\ log \in Seq(OpenEntry) /\ strikes' \in [Player -> Nat]
  BY <1>1, ExpiredFacts DEF IInv, RestTyped
<1>3. log \o <<>> = log /\ <<>> \in Seq(OpenEntry) BY <1>2
<1>4. Lawful(log \o <<>>, strikes') BY <1>1, <1>3 DEF StrikesInv
<1>5. /\ Lawful(log', strikes')
      /\ status' = "running" => Gone(state) \cup {p} \subseteq Gone(state')
  BY <1>1, <1>2, <1>3, <1>4, LoseTail
<1> QED BY <1>1, <1>2, <1>5, KeepsStrikes

LEMMA TakeFlagStrikes ==
  ASSUME IInv, StrikesInv, NEW p \in Player, TakeFlag(p)
  PROVE  StrikesInv'
<1>1. loop = "flags" /\ strikes' = strikes BY DEF TakeFlag
<1>2. status = "running" /\ log \in Seq(OpenEntry) /\ strikes \in [Player -> Nat]
  BY <1>1, RunningLog DEF IInv, RestTyped
<1>3. CASE Forfeit(p, "time", <<>>)
  <2>1. log \o <<>> = log /\ <<>> \in Seq(OpenEntry) BY <1>2
  <2>2. Lawful(log \o <<>>, strikes') BY <1>1, <2>1 DEF StrikesInv
  <2>3. Lawful(log', strikes') /\ status' = "ended" BY <1>1, <1>2, <1>3, <2>1, <2>2, ForfeitTail
  <2> QED BY <1>1, <2>3, KeepsStrikes
<1>4. CASE SeatLeaves(p) /\ log' = Append(log, EliminationEntry(p, "time"))
  <2> DEFINE out == EliminationEntry(p, "time")
  <2>1. out \in OpenEntry /\ ~Counted(out) /\ Gone(state) \cup {p} \subseteq Gone(state')
    BY <1>4, EliminationEntryType
  <2>2. log' = Append(log, out) BY <1>4
  <2> HIDE DEF out
  <2>3. Lawful(log', strikes')
    BY <1>1, <1>2, <2>1, <2>2, OpenSeqInLog, OpenInLog, AddOther DEF StrikesInv
  <2> QED BY <1>1, <1>2, <2>1, <2>3, KeepsStrikes
<1> QED BY <1>3, <1>4 DEF TakeFlag

LEMMA NextStrikes == IInv /\ StrikesInv /\ [Next]_vars => StrikesInv'
<1> SUFFICES ASSUME IInv, StrikesInv, [Next]_vars PROVE StrikesInv'
  OBVIOUS
<1>1. CASE Tick BY <1>1, SilentStrikes DEF Tick, game, outcome
<1>2. CASE Timeout
  <2>1. CASE TimeoutPhase BY <2>1, SilentStrikes DEF TimeoutPhase, game, outcome
  <2> QED
    BY <1>2, <2>1, TimeoutMoveStrikes, TimeoutStrikeOutStrikes, TimeoutFlagStrikes
       DEF Timeout, TimeoutTurn
<1>3. CASE LoopStep
  <2>1. CASE ResolvePhase BY <2>1, SilentStrikes DEF ResolvePhase, game, outcome
  <2> QED
    BY <1>3, <2>1, FinishPhaseStrikes, TakeFlagStrikes, ResolveMoveStrikes, ResolveForcedStrikes,
       ResolveStaleStrikes, ResolveTimeoutStrikes, ResolveStrikeOutStrikes
       DEF LoopStep, ResolveStep
<1>4. CASE Ended \/ UNCHANGED vars BY <1>4, SilentStrikes DEF Ended, vars
<1>5. ASSUME NEW p \in Player, Resign(p) PROVE StrikesInv' BY <1>5, ResignStrikes
<1>6. ASSUME NEW p \in Player, NEW sub \in Submission, Submit(p, sub) PROVE StrikesInv'
  <2>1. CASE RejectIllegal(p, sub) BY <2>1, SilentStrikes DEF RejectIllegal, game, outcome
  <2>2. CASE HoldMove(p, sub) BY <2>2, SilentStrikes DEF HoldMove, game, outcome
  <2> QED
    BY <1>6, <2>1, <2>2, AcceptDrawStrikes, PlayMoveStrikes, ForceMoveStrikes,
       StrikeOutOnIllegalStrikes, HoldForcedStrikes, StrikeOutInPhaseStrikes
       DEF Submit
<1> QED BY <1>1, <1>2, <1>3, <1>4, <1>5, <1>6 DEF Next

-----------------------------------------------------------------------------
(* The second half: a third strike is never written without the way out of *)
(* its seat right behind it.  Every action appends one block of entries,   *)
(* and the blocks are answered one by one.                                 *)

Third(e) == e.kind = "strike" /\ e.strike_count = 3

Answered(L) ==
  \A i \in DOMAIN L :
    Third(L[i]) => i < Len(L) /\ WayOut(L[i + 1]) /\ L[i + 1].player = L[i].player

LEMMA AnsweredBlocks ==
  ASSUME NEW S, NEW L \in Seq(S), NEW M \in Seq(S), Answered(L), Answered(M)
  PROVE  Answered(L \o M)
<1> DEFINE N == L \o M
<1>1. /\ Len(L) \in Nat /\ Len(M) \in Nat /\ Len(N) = Len(L) + Len(M)
      /\ DOMAIN L = 1 .. Len(L) /\ DOMAIN M = 1 .. Len(M) /\ DOMAIN N = 1 .. Len(L) + Len(M)
      /\ \A i \in 1 .. Len(L) : N[i] = L[i]
      /\ \A i \in 1 .. Len(M) : N[Len(L) + i] = M[i]
  OBVIOUS
<1> HIDE DEF N
<1> SUFFICES ASSUME NEW i \in 1 .. Len(L) + Len(M), Third(N[i])
             PROVE  i < Len(N) /\ WayOut(N[i + 1]) /\ N[i + 1].player = N[i].player
  BY <1>1 DEF Answered, N
<1>2. CASE i <= Len(L)
  <2>1. N[i] = L[i] /\ i \in DOMAIN L BY <1>1, <1>2
  <2>2. i < Len(L) /\ WayOut(L[i + 1]) /\ L[i + 1].player = L[i].player BY <2>1 DEF Answered
  <2>3. N[i + 1] = L[i + 1] BY <1>1, <2>2
  <2> QED BY <1>1, <2>1, <2>2, <2>3
<1>3. CASE i > Len(L)
  <2> DEFINE k == i - Len(L)
  <2>1. k \in 1 .. Len(M) /\ i = Len(L) + k BY <1>1, <1>3
  <2>2. N[i] = M[k] BY <1>1, <2>1
  <2>3. k < Len(M) /\ WayOut(M[k + 1]) /\ M[k + 1].player = M[k].player
    BY <1>1, <2>1, <2>2 DEF Answered
  <2>4. N[i + 1] = M[k + 1]
    <3>1. k + 1 \in 1 .. Len(M) /\ i + 1 = Len(L) + (k + 1) BY <1>1, <2>1, <2>3
    <3> QED BY <1>1, <3>1
  <2> QED BY <1>1, <2>1, <2>2, <2>3, <2>4
<1> QED BY <1>1, <1>2, <1>3

LEMMA Pairs ==
  ASSUME NEW a, NEW b
  PROVE  /\ Append(<<a>>, b) = <<a, b>>
         /\ <<a>> \o <<b>> = <<a, b>> /\ <<a>> \o <<>> = <<a>>
<1> DEFINE S == {a, b}
           s == Append(<<a>>, b)
<1>1. a \in S /\ b \in S OBVIOUS
<1> HIDE DEF S
<1>2. <<a>> \in Seq(S) /\ <<b>> \in Seq(S) /\ <<>> \in Seq(S) /\ <<a, b>> \in Seq(S) BY <1>1
<1>3. s \in Seq(S) /\ Len(s) = 2 /\ s[1] = a /\ s[2] = b BY <1>1, <1>2
<1>4. <<a>> \o <<>> = <<a>> /\ <<a>> \o <<b>> = s BY <1>1, <1>2
<1>5. s = <<a, b>>
  <2> HIDE DEF s
  <2>1. Len(<<a, b>>) = 2 /\ \A i \in 1 .. 2 : s[i] = <<a, b>>[i] BY <1>3
  <2> QED BY <1>2, <1>3, <2>1, SeqEqual
<1> QED BY <1>4, <1>5

LEMMA AnsweredEntries ==
  ASSUME NEW a, NEW b
  PROVE  /\ Answered(<<>>)
         /\ ~Third(a) => Answered(<<a>>)
         /\ ~Third(a) /\ ~Third(b) => Answered(<<a, b>>)
         /\ ~Third(b) /\ WayOut(b) /\ b.player = a.player => Answered(<<a, b>>)
BY DEF Answered

\* Entries appended to the log, by whatever way out of a turn.
LEMMA AnsweredTail ==
  ASSUME log \in Seq(OpenEntry), Answered(log), NEW S, NEW entries \in Seq(S), Answered(entries)
  PROVE  /\ log' = log \o entries => Answered(log')
         /\ \A res : EndGame(res, entries) => Answered(log')
         /\ \A offer, held : AdvanceTurn(offer, held, entries) => Answered(log')
<1>1. \A T : log \in Seq(OpenEntry \cup S \cup T) /\ entries \in Seq(OpenEntry \cup S \cup T)
  OBVIOUS
<1>2. Answered(log \o entries) BY <1>1, AnsweredBlocks
<1>3. ASSUME NEW res, EndGame(res, entries) PROVE Answered(log')
  <2> DEFINE end == [kind |-> "end", result |-> res, final_state_hash |-> state']
             reveal == [kind |-> "reveal"]
             T == OpenEntry \cup S \cup {end, reveal}
  <2>1. ~Third(end) /\ ~Third(reveal) BY DEF Third
  <2>2. log' = (log \o entries) \o <<end, reveal>> BY <1>3 DEF EndGame
  <2>3. <<end, reveal>> \in Seq(T) OBVIOUS
  <2>4. log \o entries \in Seq(T)
    <3>1. log \in Seq(T) /\ entries \in Seq(T) BY <1>1
    <3> HIDE DEF T
    <3> QED BY <3>1
  <2>5. Answered(<<end, reveal>>)
    <3> HIDE DEF end, reveal
    <3> QED BY <2>1, AnsweredEntries
  <2> HIDE DEF T, end, reveal
  <2> QED BY <1>2, <2>2, <2>3, <2>4, <2>5, AnsweredBlocks
<1>4. ASSUME NEW offer, NEW held, AdvanceTurn(offer, held, entries) PROVE Answered(log')
  <2>1. EndGame(IsTerminal(state'), entries) \/ log' = log \o entries
    BY <1>4 DEF AdvanceTurn
  <2> QED BY <1>2, <1>3, <2>1
<1> QED BY <1>2, <1>3, <1>4

\* The two ways out, behind a strike of the seat or behind nothing.
LEMMA AnsweredForfeit ==
  ASSUME log \in Seq(OpenEntry), Answered(log), NEW p, NEW reason, NEW entries,
         Forfeit(p, reason, entries),
         entries = <<>> \/ \E hit : hit.player = p /\ entries = <<hit>>
  PROVE  Answered(log')
<1> DEFINE lost == ForfeitEntry(p, reason)
           res == [winners |-> Player \ {p}, draw |-> FALSE, reason |-> "forfeit"]
<1>1. WayOut(lost) /\ ~Third(lost) /\ lost.player = p BY DEF WayOut, Third, ForfeitEntry
<1>2. EndGame(res, Append(entries, lost)) BY DEF Forfeit
<1> HIDE DEF lost, res
<1>3. CASE entries = <<>>
  <2>1. Append(entries, lost) = <<lost>> BY <1>3
  <2>2. <<lost>> \in Seq({lost}) OBVIOUS
  <2> QED BY <1>1, <1>2, <2>1, <2>2, AnsweredEntries, AnsweredTail
<1>4. ASSUME NEW hit, hit.player = p, entries = <<hit>> PROVE Answered(log')
  <2>1. Append(<<hit>>, lost) = <<hit, lost>> BY Pairs
  <2>2. <<hit, lost>> \in Seq({hit, lost}) OBVIOUS
  <2>3. Answered(<<hit, lost>>) BY <1>1, <1>4, AnsweredEntries
  <2> QED BY <1>2, <1>4, <2>1, <2>2, <2>3, AnsweredTail
<1> QED BY <1>3, <1>4

LEMMA AnsweredElimination ==
  ASSUME NEW p, NEW reason
  PROVE  /\ Answered(<<EliminationEntry(p, reason)>>)
         /\ \A hit : hit.player = p => Answered(<<hit, EliminationEntry(p, reason)>>)
<1> DEFINE out == EliminationEntry(p, reason)
<1>1. ~Third(out) /\ WayOut(out) /\ out.player = p BY DEF WayOut, Third, EliminationEntry
<1> HIDE DEF out
<1>2. Answered(<<out>>) /\ \A hit : hit.player = p => Answered(<<hit, out>>)
  BY <1>1, AnsweredEntries
<1> QED BY <1>2 DEF out

LEMMA AnsweredLoss ==
  ASSUME log \in Seq(OpenEntry), Answered(log), NEW p, NEW reason, NEW attempts, NEW entries,
         LoseSeat(p, reason, attempts, entries),
         entries = <<>> \/ \E hit : hit.player = p /\ entries = <<hit>>
  PROVE  Answered(log')
<1>1. CASE Forfeit(p, reason, entries) BY <1>1, AnsweredForfeit
<1>2. CASE ~Forfeit(p, reason, entries)
  <2> DEFINE out == EliminationEntry(p, reason)
             held == [pendingSimultaneous EXCEPT ![p] = None]
  <2>1. AdvanceTurn(pendingDrawOffer, held, Append(entries, out)) BY <1>2 DEF LoseSeat
  <2>2. Answered(<<out>>) /\ \A hit : hit.player = p => Answered(<<hit, out>>)
    BY AnsweredElimination
  <2> HIDE DEF out, held
  <2>3. CASE entries = <<>>
    <3>1. Append(entries, out) = <<out>> BY <2>3
    <3>2. <<out>> \in Seq({out}) OBVIOUS
    <3> QED BY <2>1, <2>2, <3>1, <3>2, AnsweredTail
  <2>4. ASSUME NEW hit, hit.player = p, entries = <<hit>> PROVE Answered(log')
    <3>1. Append(<<hit>>, out) = <<hit, out>> BY Pairs
    <3>2. <<hit, out>> \in Seq({hit, out}) OBVIOUS
    <3> QED BY <2>1, <2>2, <2>4, <3>1, <3>2, AnsweredTail
  <2> QED BY <2>3, <2>4
<1> QED BY <1>1, <1>2

\* A strike that is not the third needs no answer, and nor do the other entries.
LEMMA EarlyStrike ==
  ASSUME IInv, NEW p \in Player, strikes[p] < 2
  PROVE  \A reason : ~Third(StrikeEntry(p, reason))
<1>1. strikes[p] \in Nat BY DEF IInv, RestTyped
<1> QED BY <1>1 DEF Third, StrikeEntry

LEMMA NoStrike ==
  /\ \A p, sub, sentFor, forced, pick, after :
       ~Third(MoveEntry(p, sub, sentFor, forced, pick, after))
  /\ \A p, pick, after : ~Third(TimeoutEntry(p, pick, after))
  /\ \A kind \in {"resign", "draw_offer", "draw_accept"} : \A p : ~Third(SignedEntry(kind, p))
  /\ \A p, forced, pick : ~Third(ResolvedMove(p, forced, pick))
BY DEF Third, MoveEntry, TimeoutEntry, SignedEntry, ResolvedMove

\* One or two entries that need no answer, appended by any way out of a turn.
LEMMA AnsweredPlain ==
  ASSUME log \in Seq(OpenEntry), Answered(log), NEW a, NEW b, ~Third(a)
  PROVE  /\ log' = Append(log, a) => Answered(log')
         /\ \A res : EndGame(res, <<a>>) => Answered(log')
         /\ \A offer, held : AdvanceTurn(offer, held, <<a>>) => Answered(log')
         /\ ~Third(b) =>
              /\ log' = log \o <<a, b>> => Answered(log')
              /\ \A offer, held : AdvanceTurn(offer, held, <<a, b>>) => Answered(log')
<1>1. <<a>> \in Seq({a, b}) /\ <<a, b>> \in Seq({a, b}) OBVIOUS
<1>2. Answered(<<a>>) /\ (~Third(b) => Answered(<<a, b>>)) BY AnsweredEntries
<1>3. Append(log, a) = log \o <<a>> OBVIOUS
<1> QED BY <1>1, <1>2, <1>3, AnsweredTail

LEMMA SubmitAnswered ==
  ASSUME IInv, Answered(log), NEW p \in Player, NEW sub \in Submission, Submit(p, sub)
  PROVE  Answered(log')
<1>1. CASE RejectIllegal(p, sub) \/ HoldMove(p, sub) BY <1>1 DEF RejectIllegal, HoldMove
<1>2. CASE AcceptDraw(p, sub)
  <2>1. log \in Seq(OpenEntry) BY <1>2, RunningLog DEF AcceptDraw, Admitted
  <2> QED BY <1>2, <2>1, NoStrike, AnsweredPlain DEF AcceptDraw
<1>3. CASE PlayMove(p, sub)
  <2> DEFINE move == MoveEntry(p, sub, turnIndex, FALSE, OwnMove(Resolve(state, p, sub)), state')
             made == SignedEntry("draw_offer", p)
             offer == IF sub.draw_offer THEN [by |-> p, validAtTurn |-> turnIndex + 1]
                      ELSE ExpireOffer
  <2>1. log \in Seq(OpenEntry) BY <1>3, SubmitFacts DEF PlayMove
  <2>2. ~Third(move) /\ ~Third(made) BY NoStrike
  <2>3. AdvanceTurn(offer, pendingSimultaneous,
                    <<move>> \o (IF sub.draw_offer THEN <<made>> ELSE <<>>))
    BY <1>3 DEF PlayMove
  <2> HIDE DEF move, made, offer
  <2>4. <<move>> \o <<made>> = <<move, made>> /\ <<move>> \o <<>> = <<move>> BY Pairs
  <2>5. AdvanceTurn(offer, pendingSimultaneous, <<move, made>>)
        \/ AdvanceTurn(offer, pendingSimultaneous, <<move>>)
    BY <2>3, <2>4
  <2> QED BY <2>1, <2>2, <2>5, AnsweredPlain
<1>4. CASE ForceMove(p, sub)
  <2>1. IsMove(p, sub) /\ strikes[p] < 2 BY <1>4 DEF ForceMove, ThirdIllegal
  <2>2. PICK pick :
          AdvanceTurn(ExpireOffer, pendingSimultaneous,
                      << MoveEntry(p, sub, turnIndex, TRUE, pick, state'),
                         StrikeEntry(p, "illegal_move") >>)
    BY <1>4 DEF ForceMove
  <2> QED BY <2>1, <2>2, SubmitFacts, EarlyStrike, NoStrike, AnsweredPlain
<1>5. CASE StrikeOutOnIllegal(p, sub)
  <2>1. /\ IsMove(p, sub)
        /\ LoseSeat(p, "three_strikes", Attempted(p), <<StrikeEntry(p, "illegal_move")>>)
    BY <1>5 DEF StrikeOutOnIllegal, ThirdIllegal
  <2>2. StrikeEntry(p, "illegal_move").player = p BY DEF StrikeEntry
  <2> QED BY <2>1, <2>2, SubmitFacts, AnsweredLoss
<1>6. CASE HoldForced(p, sub)
  <2>1. /\ IsMove(p, sub) /\ strikes[p] < 2
        /\ log' = Append(log, StrikeEntry(p, "illegal_move"))
    BY <1>6 DEF HoldForced, ThirdIllegal
  <2> QED BY <2>1, SubmitFacts, EarlyStrike, AnsweredPlain
<1>7. CASE StrikeOutInPhase(p, sub)
  <2> DEFINE hit == StrikeEntry(p, "illegal_move")
             out == EliminationEntry(p, "three_strikes")
  <2>1. IsMove(p, sub) BY <1>7 DEF StrikeOutInPhase, ThirdIllegal
  <2>2. Forfeit(p, "three_strikes", <<hit>>) \/ log' = log \o <<hit, out>>
    BY <1>7 DEF StrikeOutInPhase
  <2>3. hit.player = p BY DEF StrikeEntry
  <2>4. log \in Seq(OpenEntry) BY <2>1, SubmitFacts
  <2>5. Answered(<<hit, out>>) BY <2>3, AnsweredElimination
  <2> HIDE DEF hit, out
  <2>6. <<hit, out>> \in Seq({hit, out}) OBVIOUS
  <2> QED BY <2>2, <2>3, <2>4, <2>5, <2>6, AnsweredForfeit, AnsweredTail
<1> QED BY <1>1, <1>2, <1>3, <1>4, <1>5, <1>6, <1>7 DEF Submit

LEMMA TimeoutAnswered == ASSUME IInv, Answered(log), Timeout PROVE Answered(log')
<1>1. CASE TimeoutPhase BY <1>1 DEF TimeoutPhase
<1>2. ASSUME NEW p \in Player, TimeoutMove(p) PROVE Answered(log')
  <2>1. Expired /\ Alone(p) /\ strikes[p] < 2 BY <1>2 DEF TimeoutMove
  <2>2. PICK pick :
          AdvanceTurn(ExpireOffer, pendingSimultaneous,
                      <<TimeoutEntry(p, pick, state'), StrikeEntry(p, "timeout")>>)
    BY <1>2 DEF TimeoutMove
  <2> QED BY <2>1, <2>2, ExpiredFacts, EarlyStrike, NoStrike, AnsweredPlain
<1>3. ASSUME NEW p \in Player, TimeoutStrikeOut(p) PROVE Answered(log')
  <2>1. /\ Expired /\ Alone(p)
        /\ LoseSeat(p, "three_strikes", illegalThisTurn, <<StrikeEntry(p, "timeout")>>)
    BY <1>3 DEF TimeoutStrikeOut
  <2>2. StrikeEntry(p, "timeout").player = p BY DEF StrikeEntry
  <2> QED BY <2>1, <2>2, ExpiredFacts, AnsweredLoss
<1>4. ASSUME NEW p \in Player, TimeoutFlag(p) PROVE Answered(log')
  <2>1. Expired /\ Alone(p) /\ LoseSeat(p, "time", illegalThisTurn, <<>>)
    BY <1>4 DEF TimeoutFlag
  <2> QED BY <2>1, ExpiredFacts, AnsweredLoss
<1> QED BY <1>1, <1>2, <1>3, <1>4 DEF Timeout, TimeoutTurn

LEMMA LoopAnswered == ASSUME IInv, Answered(log), LoopStep PROVE Answered(log')
<1>1. CASE ResolvePhase BY <1>1 DEF ResolvePhase
<1>2. CASE FinishPhase
  <2>1. loop # "none" /\ AdvanceTurn(ExpireOffer, pendingSimultaneous, <<>>)
    BY <1>2 DEF FinishPhase
  <2>2. <<>> \in Seq(OpenEntry) OBVIOUS
  <2> QED BY <2>1, <2>2, RunningLog, AnsweredEntries, AnsweredTail
<1>3. ASSUME NEW p \in Player, TakeFlag(p) PROVE Answered(log')
  <2>1. loop # "none" BY <1>3 DEF TakeFlag
  <2>2. Forfeit(p, "time", <<>>) \/ log' = Append(log, EliminationEntry(p, "time"))
    BY <1>3 DEF TakeFlag
  <2>3. ~Third(EliminationEntry(p, "time")) BY DEF Third, EliminationEntry
  <2> QED BY <2>1, <2>2, <2>3, RunningLog, AnsweredForfeit, AnsweredPlain
<1>4. ASSUME NEW p \in Player, ResolveStep(p) PROVE Answered(log')
  <2>1. Resolving(p) /\ log \in Seq(OpenEntry)
    BY <1>4, ResolvingFacts
       DEF ResolveStep, ResolveMove, ResolveForced, ResolveStale, ResolveTimeout, ResolveStrikeOut
  <2>2. CASE ResolveMove(p) \/ ResolveForced(p)
    <3>1. PICK forced, pick : log' = Append(log, ResolvedMove(p, forced, pick))
      BY <2>2 DEF ResolveMove, ResolveForced
    <3> QED BY <2>1, <3>1, NoStrike, AnsweredPlain
  <2>3. CASE ResolveStale(p)
    <3>1. strikes[p] < 2 BY <2>3 DEF ResolveStale
    <3>2. PICK pick : log' = log \o <<ResolvedMove(p, TRUE, pick), StrikeEntry(p, "illegal_move")>>
      BY <2>3 DEF ResolveStale
    <3> QED BY <2>1, <3>1, <3>2, EarlyStrike, NoStrike, AnsweredPlain
  <2>4. CASE ResolveTimeout(p)
    <3>1. strikes[p] < 2 BY <2>4 DEF ResolveTimeout
    <3>2. PICK pick : log' = log \o <<TimeoutEntry(p, pick, state'), StrikeEntry(p, "timeout")>>
      BY <2>4 DEF ResolveTimeout
    <3> QED BY <2>1, <3>1, <3>2, EarlyStrike, NoStrike, AnsweredPlain
  <2>5. CASE ResolveStrikeOut(p)
    <3>1. PICK reason \in {"timeout", "illegal_move"} :
            \/ Forfeit(p, "three_strikes", <<StrikeEntry(p, reason)>>)
            \/ log' = log \o <<StrikeEntry(p, reason), EliminationEntry(p, "three_strikes")>>
      BY <2>5 DEF ResolveStrikeOut
    <3> DEFINE hit == StrikeEntry(p, reason)
               out == EliminationEntry(p, "three_strikes")
    <3>2. hit.player = p BY DEF StrikeEntry
    <3>3. Answered(<<hit, out>>) BY <3>2, AnsweredElimination
    <3>4. Forfeit(p, "three_strikes", <<hit>>) \/ log' = log \o <<hit, out>> BY <3>1
    <3> HIDE DEF hit, out
    <3>5. <<hit, out>> \in Seq({hit, out}) OBVIOUS
    <3> QED BY <2>1, <3>2, <3>3, <3>4, <3>5, AnsweredForfeit, AnsweredTail
  <2> QED BY <1>4, <2>2, <2>3, <2>4, <2>5 DEF ResolveStep
<1> QED BY <1>1, <1>2, <1>3, <1>4 DEF LoopStep

LEMMA NextAnswered == IInv /\ Answered(log) /\ [Next]_vars => Answered(log')
<1> SUFFICES ASSUME IInv, Answered(log), [Next]_vars PROVE Answered(log')
  OBVIOUS
<1>1. CASE Tick \/ Ended \/ UNCHANGED vars BY <1>1 DEF Tick, Ended, vars
<1>2. ASSUME NEW p \in Player, Resign(p) PROVE Answered(log')
  <2>1. log \in Seq(OpenEntry) BY <1>2, RunningLog DEF Resign
  <2> QED BY <1>2, <2>1, NoStrike, AnsweredPlain DEF Resign
<1> QED BY <1>1, <1>2, TimeoutAnswered, LoopAnswered, SubmitAnswered DEF Next

LEMMA InitAnswered == Init => Answered(log)
BY DEF Init, Answered, Third

LEMMA StrikesFinal == IInv /\ StrikesInv /\ Answered(log) => ThirdStrikeIsFinal
<1> SUFFICES ASSUME IInv, StrikesInv, Answered(log), NEW i \in DOMAIN log, log[i].kind = "strike"
             PROVE  /\ log[i].strike_count <= 3
                    /\ log[i].strike_count = 3 =>
                       /\ i < Len(log) /\ WayOut(log[i + 1])
                       /\ log[i + 1].player = log[i].player
                       /\ \A j \in i + 1 .. Len(log) :
                           IsAct(log[j]) \/ log[j].kind = "strike"
                             => log[j].player # log[i].player
  BY DEF ThirdStrikeIsFinal
<1>1. log[i] \in LogEntry /\ strikes \in [Player -> Nat] BY DEF IInv, EndTyped, RestTyped
<1>2. log[i].player \in Player /\ log[i].strike_count \in Nat BY <1>1, StrikeFields
<1>3. /\ log[i].strike_count <= strikes[log[i].player]
      /\ log[i].strike_count = 3 =>
           \A j \in i + 1 .. Len(log) : Counted(log[j]) => log[j].player # log[i].player
  BY DEF StrikesInv, Lawful
<1>4. strikes[log[i].player] \in Nat /\ strikes[log[i].player] <= 3 BY <1>1, <1>2 DEF StrikesInv
<1> QED BY <1>2, <1>3, <1>4 DEF Counted, Answered, Third

\* A third strike takes its seat out at once and no seat acts after its own,
\* and no count passes three, however submissions, timeouts and resolutions
\* interleave.
THEOREM ThreeStrikesAndOut == Spec => []ThirdStrikeIsFinal
<1>1. Init => IInv /\ StrikesInv /\ Answered(log) BY InitIInv, InitStrikes, InitAnswered
<1>2. IInv /\ StrikesInv /\ Answered(log) /\ [Next]_vars => (IInv /\ StrikesInv /\ Answered(log))'
  BY NextIInv, NextStrikes, NextAnswered DEF Answered
<1>3. IInv /\ StrikesInv /\ Answered(log) => ThirdStrikeIsFinal BY StrikesFinal
<1> QED BY <1>1, <1>2, <1>3, PTL DEF Spec

-----------------------------------------------------------------------------
(***************************************************************************)
(* Turns.  OnceATurn speaks of the log alone.  What makes it inductive is  *)
(* a ledger of who has already spoken in the turn that is running: the     *)
(* seats the resolve loop has passed have acted, and a seat that took a    *)
(* strike is passed, gone, or held with a forced marker.  Each step        *)
(* appends one block of entries, and the block names nobody the ledger     *)
(* has.                                                                    *)
(***************************************************************************)

(* Marks: what an entry uses up of its turn, for its seat.                 *)

Noted(e) == Counted(e) \/ e.kind = "draw_accept"
Mark(e) == <<IF IsAct(e) THEN "act" ELSE e.kind, e.player>>

OnceIn(L) ==
  \A i, j \in DOMAIN L :
    i < j /\ Noted(L[i]) /\ Noted(L[j]) /\ Mark(L[i]) = Mark(L[j])
      => L[i].turn_index < L[j].turn_index

\* L is the log of turns up to t, and W holds the marks of turn t.
Turns(L, t, W) ==
  /\ OnceIn(L)
  /\ \A i \in DOMAIN L :
       Noted(L[i]) => L[i].turn_index <= t /\ (L[i].turn_index = t => Mark(L[i]) \in W)

\* Entries of turn t with marks in B, no two alike.
Block(E, t, B) ==
  /\ \A i \in DOMAIN E : Noted(E[i]) => E[i].turn_index = t /\ Mark(E[i]) \in B
  /\ \A i, j \in DOMAIN E : i < j /\ Noted(E[i]) /\ Noted(E[j]) => Mark(E[i]) # Mark(E[j])

LEMMA NotedFields ==
  \A e \in LogEntry : Noted(e) => e.turn_index \in Nat /\ e.player \in Player
BY DEF LogEntry, OpenEntry, Noted, Counted, IsAct

LEMMA TurnsBlock ==
  ASSUME NEW L \in Seq(LogEntry), NEW t \in Nat, NEW W, Turns(L, t, W),
         NEW S, NEW E \in Seq(S), NEW B, Block(E, t, B), B \cap W = {}
  PROVE  Turns(L \o E, t, W \cup B)
<1> DEFINE N == L \o E
<1>1. /\ Len(L) \in Nat /\ Len(E) \in Nat
      /\ DOMAIN L = 1 .. Len(L) /\ DOMAIN E = 1 .. Len(E) /\ DOMAIN N = 1 .. Len(L) + Len(E)
      /\ \A i \in 1 .. Len(L) : N[i] = L[i]
      /\ \A i \in 1 .. Len(E) : N[Len(L) + i] = E[i]
  <2>1. L \in Seq(LogEntry \cup S) /\ E \in Seq(LogEntry \cup S) OBVIOUS
  <2> QED BY <2>1
<1> HIDE DEF N
<1>2. \A i \in 1 .. Len(L) :
        Noted(L[i]) => /\ L[i].turn_index \in Nat /\ L[i].turn_index <= t
                       /\ L[i].turn_index = t => Mark(L[i]) \in W
  <2>1. \A i \in 1 .. Len(L) : L[i] \in LogEntry BY <1>1
  <2> QED BY <1>1, <2>1, NotedFields DEF Turns
<1>3. \A i \in DOMAIN N :
        \/ i \in 1 .. Len(L)
        \/ i > Len(L) /\ i - Len(L) \in 1 .. Len(E) /\ N[i] = E[i - Len(L)]
  BY <1>1
<1>4. \A i \in DOMAIN N :
        Noted(N[i]) => N[i].turn_index <= t /\ (N[i].turn_index = t => Mark(N[i]) \in W \cup B)
  BY <1>1, <1>2, <1>3 DEF Block
<1>5. ASSUME NEW i \in DOMAIN N, NEW j \in DOMAIN N,
             i < j, Noted(N[i]), Noted(N[j]), Mark(N[i]) = Mark(N[j])
      PROVE  N[i].turn_index < N[j].turn_index
  <2>1. CASE i \in 1 .. Len(L) /\ j \in 1 .. Len(L)
    <3>1. N[i] = L[i] /\ N[j] = L[j] BY <1>1, <2>1
    <3> QED BY <1>1, <1>5, <2>1, <3>1 DEF Turns, OnceIn
  <2>2. CASE i \in 1 .. Len(L) /\ j > Len(L)
    <3>1. N[i] = L[i] /\ Noted(L[i]) BY <1>1, <1>5, <2>2
    <3>2. N[j].turn_index = t /\ Mark(N[j]) \in B BY <1>1, <1>3, <1>5, <2>2 DEF Block
    <3>3. Mark(L[i]) \notin W BY <1>5, <3>1, <3>2
    <3>4. L[i].turn_index \in Nat /\ L[i].turn_index <= t /\ L[i].turn_index # t
      BY <1>2, <2>2, <3>1, <3>3
    <3> QED BY <3>1, <3>2, <3>4
  <2>3. CASE i > Len(L) /\ j > Len(L)
    <3>1. /\ i - Len(L) \in DOMAIN E /\ j - Len(L) \in DOMAIN E /\ i - Len(L) < j - Len(L)
          /\ N[i] = E[i - Len(L)] /\ N[j] = E[j - Len(L)]
      BY <1>1, <1>3, <1>5, <2>3
    <3> QED BY <1>5, <3>1 DEF Block
  <2> QED BY <1>1, <1>3, <1>5, <2>1, <2>2, <2>3
<1> QED BY <1>4, <1>5 DEF Turns, OnceIn, N

LEMMA TurnsWiden ==
  ASSUME NEW L, NEW t, NEW W, NEW V, Turns(L, t, W), W \subseteq V
  PROVE  Turns(L, t, V)
BY DEF Turns

\* Nobody has spoken in the next turn.
LEMMA TurnsNext ==
  ASSUME NEW L \in Seq(LogEntry), NEW t \in Nat, NEW W, NEW V, Turns(L, t, W)
  PROVE  Turns(L, t + 1, V)
<1>1. \A i \in DOMAIN L : Noted(L[i]) => L[i].turn_index \in Nat /\ L[i].turn_index <= t
  <2>1. \A i \in DOMAIN L : L[i] \in LogEntry OBVIOUS
  <2> QED BY <2>1, NotedFields DEF Turns
<1>2. \A i \in DOMAIN L :
        Noted(L[i]) => L[i].turn_index <= t + 1 /\ L[i].turn_index # t + 1
  BY <1>1
<1> QED BY <1>2 DEF Turns

-----------------------------------------------------------------------------
(* The blocks the actions write.                                           *)

\* An act or a strike of seat p in turn t, and an entry that marks nothing.
ActOf(e, t, p) == IsAct(e) /\ e.turn_index = t /\ e.player = p
StrikeOf(e, t, p) == e.kind = "strike" /\ e.turn_index = t /\ e.player = p

ActMark(p) == <<"act", p>>
StrikeMark(p) == <<"strike", p>>

LEMMA Marks ==
  /\ \A e, t, p : ActOf(e, t, p) => Noted(e) /\ Mark(e) = ActMark(p) /\ e.turn_index = t
  /\ \A e, t, p : StrikeOf(e, t, p) => Noted(e) /\ Mark(e) = StrikeMark(p) /\ e.turn_index = t
  /\ \A p : ActMark(p) # StrikeMark(p)
BY DEF ActOf, StrikeOf, Noted, Counted, Mark, IsAct, ActMark, StrikeMark

LEMMA Blocks ==
  ASSUME NEW t, NEW p, NEW a, NEW b
  PROVE  /\ Block(<<>>, t, {})
         /\ ~Noted(a) => Block(<<a>>, t, {})
         /\ ~Noted(a) /\ ~Noted(b) => Block(<<a, b>>, t, {})
         /\ ActOf(a, t, p) => Block(<<a>>, t, {ActMark(p)})
         /\ ActOf(a, t, p) /\ ~Noted(b) => Block(<<a, b>>, t, {ActMark(p)})
         /\ StrikeOf(a, t, p) => Block(<<a>>, t, {StrikeMark(p)})
         /\ StrikeOf(a, t, p) /\ ~Noted(b) => Block(<<a, b>>, t, {StrikeMark(p)})
         /\ ActOf(a, t, p) /\ StrikeOf(b, t, p)
              => Block(<<a, b>>, t, {ActMark(p), StrikeMark(p)})
<1>1. /\ DOMAIN <<a>> = {1} /\ <<a>>[1] = a /\ DOMAIN <<a, b>> = {1, 2}
      /\ <<a, b>>[1] = a /\ <<a, b>>[2] = b
  OBVIOUS
<1>2. DOMAIN <<>> = {} OBVIOUS
<1> HIDE DEF Noted, Mark
<1> QED BY <1>1, <1>2, Marks DEF Block

\* What a step has appended to the log of a running game, as marks.
Wrote(B) == \E S : \E E \in Seq(S) : Block(E, turnIndex, B) /\ log' = log \o E

LEMMA QuietTail ==
  ASSUME NEW S, NEW E \in Seq(S), NEW t, NEW B, Block(E, t, B),
         NEW a, NEW b, ~Noted(a), ~Noted(b)
  PROVE  Block(E \o <<a, b>>, t, B) /\ E \o <<a, b>> \in Seq(S \cup {a, b})
<1> DEFINE F == <<a, b>>
           N == E \o F
<1>1. E \in Seq(S \cup {a, b}) /\ F \in Seq(S \cup {a, b}) OBVIOUS
<1>2. Len(F) = 2 /\ F[1] = a /\ F[2] = b OBVIOUS
<1>3. N \in Seq(S \cup {a, b})
  <2> HIDE DEF F
  <2> QED BY <1>1
<1>4. /\ Len(E) \in Nat /\ DOMAIN E = 1 .. Len(E) /\ DOMAIN N = 1 .. Len(E) + 2
      /\ \A i \in 1 .. Len(E) : N[i] = E[i]
      /\ \A i \in 1 .. 2 : N[Len(E) + i] = F[i]
  <2> DEFINE X == S \cup {a, b}
  <2>1. E \in Seq(X) /\ F \in Seq(X) BY <1>1
  <2>2. Len(F) = 2 BY <1>2
  <2>3. \A e, f \in Seq(X) :
          /\ Len(e) \in Nat /\ DOMAIN e = 1 .. Len(e) /\ Len(f) \in Nat
          /\ DOMAIN (e \o f) = 1 .. Len(e) + Len(f)
          /\ \A i \in 1 .. Len(e) : (e \o f)[i] = e[i]
          /\ \A i \in 1 .. Len(f) : (e \o f)[Len(e) + i] = f[i]
    OBVIOUS
  <2> HIDE DEF F, X
  <2>4. /\ Len(E) \in Nat /\ DOMAIN E = 1 .. Len(E)
        /\ DOMAIN N = 1 .. Len(E) + Len(F)
        /\ \A i \in 1 .. Len(E) : N[i] = E[i]
        /\ \A i \in 1 .. Len(F) : N[Len(E) + i] = F[i]
    BY <2>1, <2>3
  <2> HIDE DEF N
  <2> QED BY <2>2, <2>4
<1>5. \A i \in DOMAIN N : Noted(N[i]) => i \in DOMAIN E /\ N[i] = E[i]
  <2> HIDE DEF F, N
  <2>1. N[Len(E) + 1] = a /\ N[Len(E) + 2] = b BY <1>2, <1>4
  <2> QED BY <1>4, <2>1
<1> HIDE DEF N, F
<1>6. Block(N, t, B) BY <1>5 DEF Block
<1> QED BY <1>3, <1>6 DEF N, F

LEMMA WroteTail ==
  ASSUME log \in Seq(OpenEntry), NEW S, NEW E \in Seq(S), NEW B, Block(E, turnIndex, B)
  PROVE  /\ log' = log \o E => Wrote(B)
         /\ \A res : EndGame(res, E) => Wrote(B)
         /\ \A offer, held : AdvanceTurn(offer, held, E) => Wrote(B)
<1>1. log' = log \o E => Wrote(B) BY DEF Wrote
<1>2. ASSUME NEW res, EndGame(res, E) PROVE Wrote(B)
  <2> DEFINE end == [kind |-> "end", result |-> res, final_state_hash |-> state']
             reveal == [kind |-> "reveal"]
             F == E \o <<end, reveal>>
             T == S \cup {end, reveal}
             U == OpenEntry \cup T
  <2>1. ~Noted(end) /\ ~Noted(reveal) BY DEF Noted, Counted, IsAct
  <2>2. log' = (log \o E) \o <<end, reveal>> BY <1>2 DEF EndGame
  <2>3. <<end, reveal>> \in Seq(T) OBVIOUS
  <2> HIDE DEF end, reveal
  <2>4. Block(F, turnIndex, B) /\ F \in Seq(T) BY <2>1, QuietTail
  <2>5. log \in Seq(U) /\ E \in Seq(U) /\ <<end, reveal>> \in Seq(U) BY <2>3
  <2>6. log' = log \o F
    <3> HIDE DEF U
    <3>1. \A x, y, z \in Seq(U) : (x \o y) \o z = x \o (y \o z) OBVIOUS
    <3> QED BY <2>2, <2>5, <3>1
  <2> HIDE DEF F, T
  <2> QED BY <2>4, <2>6 DEF Wrote
<1>3. ASSUME NEW offer, NEW held, AdvanceTurn(offer, held, E) PROVE Wrote(B)
  <2>1. EndGame(IsTerminal(state'), E) \/ log' = log \o E BY <1>3 DEF AdvanceTurn
  <2> QED BY <1>1, <1>2, <2>1
<1> QED BY <1>1, <1>2, <1>3

\* One or two entries, by any way out of a turn.
LEMMA WroteEntries ==
  ASSUME log \in Seq(OpenEntry), NEW a, NEW b, NEW B
  PROVE  /\ Block(<<a>>, turnIndex, B) =>
              /\ log' = Append(log, a) => Wrote(B)
              /\ \A res : EndGame(res, <<a>>) => Wrote(B)
              /\ \A offer, held : AdvanceTurn(offer, held, <<a>>) => Wrote(B)
         /\ Block(<<a, b>>, turnIndex, B) =>
              /\ log' = log \o <<a, b>> => Wrote(B)
              /\ \A res : EndGame(res, <<a, b>>) => Wrote(B)
              /\ \A offer, held : AdvanceTurn(offer, held, <<a, b>>) => Wrote(B)
<1>1. <<a>> \in Seq({a, b}) /\ <<a, b>> \in Seq({a, b}) OBVIOUS
<1>2. Append(log, a) = log \o <<a>> OBVIOUS
<1> QED BY <1>1, <1>2, WroteTail

LEMMA EntryMarks ==
  ASSUME NEW p
  PROVE  /\ \A sub, sentFor, forced, pick, after :
              ActOf(MoveEntry(p, sub, sentFor, forced, pick, after), turnIndex, p)
         /\ \A pick, after : ActOf(TimeoutEntry(p, pick, after), turnIndex, p)
         /\ \A forced, pick : ActOf(ResolvedMove(p, forced, pick), turnIndex, p)
         /\ \A reason : StrikeOf(StrikeEntry(p, reason), turnIndex, p)
         /\ \A reason : ~Noted(EliminationEntry(p, reason)) /\ ~Noted(ForfeitEntry(p, reason))
         /\ \A kind \in {"resign", "draw_offer"} : ~Noted(SignedEntry(kind, p))
BY DEF ActOf, StrikeOf, Noted, Counted, IsAct, MoveEntry, TimeoutEntry, ResolvedMove,
       StrikeEntry, EliminationEntry, ForfeitEntry, SignedEntry

\* A seat's way out of the game, behind its strike or behind nothing.
LEMMA WroteForfeit ==
  ASSUME log \in Seq(OpenEntry), NEW p, NEW reason
  PROVE  /\ Forfeit(p, reason, <<>>) => Wrote({})
         /\ \A why : Forfeit(p, reason, <<StrikeEntry(p, why)>>) => Wrote({StrikeMark(p)})
<1> DEFINE lost == ForfeitEntry(p, reason)
<1>1. ~Noted(lost) BY EntryMarks
<1>2. ASSUME NEW entries, Forfeit(p, reason, entries)
      PROVE  \E res : EndGame(res, Append(entries, lost))
  BY <1>2 DEF Forfeit
<1> HIDE DEF lost
<1>3. Append(<<>>, lost) = <<lost>> OBVIOUS
<1>4. Forfeit(p, reason, <<>>) => Wrote({}) BY <1>1, <1>2, <1>3, Blocks, WroteEntries
<1>5. ASSUME NEW why, Forfeit(p, reason, <<StrikeEntry(p, why)>>) PROVE Wrote({StrikeMark(p)})
  <2> DEFINE hit == StrikeEntry(p, why)
  <2>1. StrikeOf(hit, turnIndex, p) BY EntryMarks
  <2>2. PICK res : EndGame(res, Append(<<hit>>, lost)) BY <1>2, <1>5
  <2> HIDE DEF hit
  <2>3. Append(<<hit>>, lost) = <<hit, lost>> BY Pairs
  <2> QED BY <1>1, <2>1, <2>2, <2>3, Blocks, WroteEntries
<1> QED BY <1>4, <1>5

LEMMA WroteLoss ==
  ASSUME log \in Seq(OpenEntry), NEW p, NEW reason, NEW attempts
  PROVE  /\ LoseSeat(p, reason, attempts, <<>>) => Wrote({})
         /\ \A why : LoseSeat(p, reason, attempts, <<StrikeEntry(p, why)>>)
                       => Wrote({StrikeMark(p)})
<1> DEFINE out == EliminationEntry(p, reason)
           held == [pendingSimultaneous EXCEPT ![p] = None]
<1>1. ~Noted(out) BY EntryMarks
<1>2. ASSUME NEW entries, LoseSeat(p, reason, attempts, entries)
      PROVE  \/ Forfeit(p, reason, entries)
             \/ AdvanceTurn(pendingDrawOffer, held, Append(entries, out))
  BY <1>2 DEF LoseSeat
<1> HIDE DEF out, held
<1>3. Append(<<>>, out) = <<out>> OBVIOUS
<1>4. LoseSeat(p, reason, attempts, <<>>) => Wrote({})
  BY <1>1, <1>2, <1>3, Blocks, WroteEntries, WroteForfeit
<1>5. ASSUME NEW why, LoseSeat(p, reason, attempts, <<StrikeEntry(p, why)>>)
      PROVE  Wrote({StrikeMark(p)})
  <2> DEFINE hit == StrikeEntry(p, why)
  <2>1. StrikeOf(hit, turnIndex, p) BY EntryMarks
  <2>2. Forfeit(p, reason, <<hit>>) => Wrote({StrikeMark(p)}) BY WroteForfeit
  <2>3. Forfeit(p, reason, <<hit>>) \/ AdvanceTurn(pendingDrawOffer, held, Append(<<hit>>, out))
    BY <1>2, <1>5
  <2> HIDE DEF hit
  <2>4. Append(<<hit>>, out) = <<hit, out>> BY Pairs
  <2> QED BY <1>1, <2>1, <2>2, <2>3, <2>4, Blocks, WroteEntries
<1> QED BY <1>4, <1>5

-----------------------------------------------------------------------------
(* What every action writes.                                               *)

LEMMA ResignWrites == ASSUME IInv, NEW p \in Player, Resign(p) PROVE Wrote({})
<1> DEFINE e == SignedEntry("resign", p)
<1>1. log \in Seq(OpenEntry) BY RunningLog DEF Resign
<1>2. ~Noted(e) BY EntryMarks
<1>3. \E res : EndGame(res, <<e>>) BY DEF Resign
<1> HIDE DEF e
<1> QED BY <1>1, <1>2, <1>3, Blocks, WroteEntries

LEMMA AcceptDrawWrites ==
  ASSUME IInv, NEW p \in Player, NEW sub \in Submission, AcceptDraw(p, sub)
  PROVE  Wrote({<<"draw_accept", p>>})
<1> DEFINE e == SignedEntry("draw_accept", p)
<1>1. log \in Seq(OpenEntry) BY RunningLog DEF AcceptDraw, Admitted
<1>2. e.turn_index = turnIndex /\ Mark(e) = <<"draw_accept", p>>
  BY DEF SignedEntry, Mark, IsAct
<1>3. \E res : EndGame(res, <<e>>) BY DEF AcceptDraw
<1> HIDE DEF e
<1>4. Block(<<e>>, turnIndex, {<<"draw_accept", p>>})
  <2>1. DOMAIN <<e>> = {1} /\ <<e>>[1] = e OBVIOUS
  <2> QED BY <1>2, <2>1 DEF Block
<1> QED BY <1>1, <1>3, <1>4, WroteEntries

LEMMA PlayMoveWrites ==
  ASSUME IInv, NEW p \in Player, NEW sub \in Submission, PlayMove(p, sub)
  PROVE  Wrote({ActMark(p)})
<1> DEFINE move == MoveEntry(p, sub, turnIndex, FALSE, OwnMove(Resolve(state, p, sub)), state')
           made == SignedEntry("draw_offer", p)
           offer == IF sub.draw_offer THEN [by |-> p, validAtTurn |-> turnIndex + 1]
                    ELSE ExpireOffer
<1>1. log \in Seq(OpenEntry) BY SubmitFacts DEF PlayMove
<1>2. ActOf(move, turnIndex, p) /\ ~Noted(made) BY EntryMarks
<1>3. AdvanceTurn(offer, pendingSimultaneous,
                  <<move>> \o (IF sub.draw_offer THEN <<made>> ELSE <<>>))
  BY DEF PlayMove
<1> HIDE DEF move, made, offer
<1>4. <<move>> \o <<made>> = <<move, made>> /\ <<move>> \o <<>> = <<move>> BY Pairs
<1>5. AdvanceTurn(offer, pendingSimultaneous, <<move, made>>)
      \/ AdvanceTurn(offer, pendingSimultaneous, <<move>>)
  BY <1>3, <1>4
<1> QED BY <1>1, <1>2, <1>5, Blocks, WroteEntries

LEMMA ForceMoveWrites ==
  ASSUME IInv, NEW p \in Player, NEW sub \in Submission, ForceMove(p, sub)
  PROVE  Wrote({ActMark(p), StrikeMark(p)})
<1>1. log \in Seq(OpenEntry) BY SubmitFacts DEF ForceMove, ThirdIllegal
<1>2. PICK pick :
        AdvanceTurn(ExpireOffer, pendingSimultaneous,
                    << MoveEntry(p, sub, turnIndex, TRUE, pick, state'),
                       StrikeEntry(p, "illegal_move") >>)
  BY DEF ForceMove
<1> DEFINE move == MoveEntry(p, sub, turnIndex, TRUE, pick, state')
           hit == StrikeEntry(p, "illegal_move")
<1>3. ActOf(move, turnIndex, p) /\ StrikeOf(hit, turnIndex, p) BY EntryMarks
<1>4. AdvanceTurn(ExpireOffer, pendingSimultaneous, <<move, hit>>) BY <1>2
<1> HIDE DEF move, hit
<1> QED BY <1>1, <1>3, <1>4, Blocks, WroteEntries

LEMMA StrikeOutOnIllegalWrites ==
  ASSUME IInv, NEW p \in Player, NEW sub \in Submission, StrikeOutOnIllegal(p, sub)
  PROVE  Wrote({StrikeMark(p)})
<1>1. log \in Seq(OpenEntry) BY SubmitFacts DEF StrikeOutOnIllegal, ThirdIllegal
<1> QED BY <1>1, WroteLoss DEF StrikeOutOnIllegal

LEMMA HoldForcedWrites ==
  ASSUME IInv, NEW p \in Player, NEW sub \in Submission, HoldForced(p, sub)
  PROVE  Wrote({StrikeMark(p)})
<1> DEFINE hit == StrikeEntry(p, "illegal_move")
<1>1. log \in Seq(OpenEntry) BY SubmitFacts DEF HoldForced, ThirdIllegal
<1>2. log' = Append(log, hit) /\ StrikeOf(hit, turnIndex, p) BY EntryMarks DEF HoldForced
<1> HIDE DEF hit
<1> QED BY <1>1, <1>2, Blocks, WroteEntries

\* A strike and the seat's way out, written inside a phase.
LEMMA StrikeOutWrites ==
  ASSUME log \in Seq(OpenEntry), NEW p, NEW why,
         \/ Forfeit(p, "three_strikes", <<StrikeEntry(p, why)>>)
         \/ log' = log \o <<StrikeEntry(p, why), EliminationEntry(p, "three_strikes")>>
  PROVE  Wrote({StrikeMark(p)})
<1> DEFINE hit == StrikeEntry(p, why)
           out == EliminationEntry(p, "three_strikes")
<1>1. StrikeOf(hit, turnIndex, p) /\ ~Noted(out) BY EntryMarks
<1>2. Forfeit(p, "three_strikes", <<hit>>) \/ log' = log \o <<hit, out>> OBVIOUS
<1>3. Forfeit(p, "three_strikes", <<hit>>) => Wrote({StrikeMark(p)}) BY WroteForfeit
<1> HIDE DEF hit, out
<1> QED BY <1>1, <1>2, <1>3, Blocks, WroteEntries

LEMMA StrikeOutInPhaseWrites ==
  ASSUME IInv, NEW p \in Player, NEW sub \in Submission, StrikeOutInPhase(p, sub)
  PROVE  Wrote({StrikeMark(p)})
<1>1. log \in Seq(OpenEntry) BY SubmitFacts DEF StrikeOutInPhase, ThirdIllegal
<1>2. \/ Forfeit(p, "three_strikes", <<StrikeEntry(p, "illegal_move")>>)
      \/ log' = log \o <<StrikeEntry(p, "illegal_move"), EliminationEntry(p, "three_strikes")>>
  BY DEF StrikeOutInPhase
<1> QED BY <1>1, <1>2, StrikeOutWrites

LEMMA TimeoutMoveWrites ==
  ASSUME IInv, NEW p \in Player, TimeoutMove(p)
  PROVE  Wrote({ActMark(p), StrikeMark(p)})
<1>1. log \in Seq(OpenEntry) BY ExpiredFacts DEF TimeoutMove
<1>2. PICK pick :
        AdvanceTurn(ExpireOffer, pendingSimultaneous,
                    <<TimeoutEntry(p, pick, state'), StrikeEntry(p, "timeout")>>)
  BY DEF TimeoutMove
<1> DEFINE act == TimeoutEntry(p, pick, state')
           hit == StrikeEntry(p, "timeout")
<1>3. ActOf(act, turnIndex, p) /\ StrikeOf(hit, turnIndex, p) BY EntryMarks
<1>4. AdvanceTurn(ExpireOffer, pendingSimultaneous, <<act, hit>>) BY <1>2
<1> HIDE DEF act, hit
<1> QED BY <1>1, <1>3, <1>4, Blocks, WroteEntries

LEMMA TimeoutStrikeOutWrites ==
  ASSUME IInv, NEW p \in Player, TimeoutStrikeOut(p)
  PROVE  Wrote({StrikeMark(p)})
<1>1. log \in Seq(OpenEntry) BY ExpiredFacts DEF TimeoutStrikeOut
<1> QED BY <1>1, WroteLoss DEF TimeoutStrikeOut

LEMMA TimeoutFlagWrites ==
  ASSUME IInv, NEW p \in Player, TimeoutFlag(p)
  PROVE  Wrote({})
<1>1. log \in Seq(OpenEntry) BY ExpiredFacts DEF TimeoutFlag
<1> QED BY <1>1, WroteLoss DEF TimeoutFlag

LEMMA TakeFlagWrites == ASSUME IInv, NEW p \in Player, TakeFlag(p) PROVE Wrote({})
<1> DEFINE out == EliminationEntry(p, "time")
<1>1. log \in Seq(OpenEntry) BY RunningLog DEF TakeFlag
<1>2. Forfeit(p, "time", <<>>) \/ log' = Append(log, out) BY DEF TakeFlag
<1>3. ~Noted(out) BY EntryMarks
<1> HIDE DEF out
<1> QED BY <1>1, <1>2, <1>3, Blocks, WroteEntries, WroteForfeit

LEMMA FinishPhaseWrites == ASSUME IInv, FinishPhase PROVE Wrote({})
<1>1. log \in Seq(OpenEntry) BY RunningLog DEF FinishPhase
<1>2. <<>> \in Seq(OpenEntry) OBVIOUS
<1> QED BY <1>1, <1>2, Blocks, WroteTail DEF FinishPhase

LEMMA ResolveWrites ==
  ASSUME IInv, NEW p \in Player, Resolving(p)
  PROVE  /\ ResolveMove(p) \/ ResolveForced(p) => Wrote({ActMark(p)})
         /\ ResolveStale(p) \/ ResolveTimeout(p) => Wrote({ActMark(p), StrikeMark(p)})
         /\ ResolveStrikeOut(p) => Wrote({StrikeMark(p)})
<1>1. log \in Seq(OpenEntry) BY ResolvingFacts
<1>2. ASSUME ResolveMove(p) \/ ResolveForced(p) PROVE Wrote({ActMark(p)})
  <2>1. PICK forced, pick : log' = Append(log, ResolvedMove(p, forced, pick))
    BY <1>2 DEF ResolveMove, ResolveForced
  <2> DEFINE move == ResolvedMove(p, forced, pick)
  <2>2. ActOf(move, turnIndex, p) BY EntryMarks
  <2>3. log' = Append(log, move) BY <2>1
  <2> HIDE DEF move
  <2> QED BY <1>1, <2>2, <2>3, Blocks, WroteEntries
<1>3. ASSUME ResolveStale(p) \/ ResolveTimeout(p) PROVE Wrote({ActMark(p), StrikeMark(p)})
  <2>1. PICK act, hit : /\ log' = log \o <<act, hit>>
                        /\ ActOf(act, turnIndex, p) /\ StrikeOf(hit, turnIndex, p)
    BY <1>3, EntryMarks DEF ResolveStale, ResolveTimeout
  <2> QED BY <1>1, <2>1, Blocks, WroteEntries
<1>4. ASSUME ResolveStrikeOut(p) PROVE Wrote({StrikeMark(p)})
  <2>1. PICK why \in {"timeout", "illegal_move"} :
          \/ Forfeit(p, "three_strikes", <<StrikeEntry(p, why)>>)
          \/ log' = log \o <<StrikeEntry(p, why), EliminationEntry(p, "three_strikes")>>
    BY <1>4 DEF ResolveStrikeOut
  <2> QED BY <1>1, <2>1, StrikeOutWrites
<1> QED BY <1>2, <1>3, <1>4

LEMMA SilentWrites == ASSUME IInv, status = "running", log' = log PROVE Wrote({})
<1>1. log \in Seq(OpenEntry) /\ <<>> \in Seq(OpenEntry) BY DEF IInv, Sealed
<1>2. log' = log \o <<>> BY <1>1
<1> QED BY <1>1, <1>2, Blocks, WroteTail

-----------------------------------------------------------------------------
(* Where a step leaves the turn.                                           *)

NextTurn(held) ==
  /\ status' = "running" /\ IsTerminal(state') = None
  /\ turnIndex' = turnIndex + 1
  /\ loop' = "none" /\ pendingSimultaneous' = held
  /\ StartTurnClock

LEMMA AdvanceFacts ==
  ASSUME status = "running", NEW offer, NEW held, NEW entries, AdvanceTurn(offer, held, entries)
  PROVE  status' = "ended" \/ (NextTurn(held) /\ pendingDrawOffer' = offer)
BY DEF AdvanceTurn, EndGame, NextTurn, outcome

LEMMA LoseFacts ==
  ASSUME status = "running", NEW p, NEW reason, NEW attempts, NEW entries,
         LoseSeat(p, reason, attempts, entries)
  PROVE  \/ status' = "ended"
         \/ /\ NextTurn([pendingSimultaneous EXCEPT ![p] = None])
            /\ pendingDrawOffer' = pendingDrawOffer
            /\ SeatLeaves(p)
<1>1. CASE Forfeit(p, reason, entries) BY <1>1 DEF Forfeit, EndGame
<1>2. CASE ~Forfeit(p, reason, entries) BY <1>2, AdvanceFacts DEF LoseSeat
<1> QED BY <1>1, <1>2

\* The actions that play or lose a turn with one mover.
TurnOf(p) ==
  \/ \E sub \in Submission : PlayMove(p, sub) \/ ForceMove(p, sub) \/ StrikeOutOnIllegal(p, sub)
  \/ TimeoutTurn(p)

LEMMA TurnOfFacts ==
  ASSUME IInv, NEW p \in Player, TurnOf(p)
  PROVE  /\ Idle /\ Alone(p) /\ status = "running" /\ p \in PlayersToMove(state)
         /\ \/ status' = "ended"
            \/ NextTurn(pendingSimultaneous)
            \/ NextTurn([pendingSimultaneous EXCEPT ![p] = None])
<1>1. ASSUME NEW sub \in Submission, PlayMove(p, sub) \/ ForceMove(p, sub)
      PROVE  /\ Idle /\ Alone(p)
             /\ status' = "ended" \/ NextTurn(pendingSimultaneous)
  <2>1. IsMove(p, sub) /\ Alone(p) /\ Idle
    BY <1>1 DEF PlayMove, ForceMove, ThirdIllegal, IsMove, Admitted
  <2>2. \E offer, entries : AdvanceTurn(offer, pendingSimultaneous, entries)
    BY <1>1 DEF PlayMove, ForceMove
  <2> QED BY <2>1, <2>2, AdvanceFacts DEF Idle
<1>2. ASSUME NEW sub \in Submission, StrikeOutOnIllegal(p, sub)
      PROVE  /\ Idle /\ Alone(p)
             /\ status' = "ended" \/ NextTurn([pendingSimultaneous EXCEPT ![p] = None])
  <2>1. IsMove(p, sub) /\ Alone(p) /\ Idle
    BY <1>2 DEF StrikeOutOnIllegal, ThirdIllegal, IsMove, Admitted
  <2>2. \E reason, attempts, entries : LoseSeat(p, reason, attempts, entries)
    BY <1>2 DEF StrikeOutOnIllegal
  <2> QED BY <2>1, <2>2, LoseFacts DEF Idle
<1>3. ASSUME TimeoutMove(p)
      PROVE  Idle /\ Alone(p) /\ (status' = "ended" \/ NextTurn(pendingSimultaneous))
  <2>1. Alone(p) /\ Idle BY <1>3 DEF TimeoutMove, Expired
  <2>2. \E offer, entries : AdvanceTurn(offer, pendingSimultaneous, entries)
    BY <1>3 DEF TimeoutMove
  <2> QED BY <2>1, <2>2, AdvanceFacts DEF Idle
<1>4. ASSUME TimeoutStrikeOut(p) \/ TimeoutFlag(p)
      PROVE  /\ Idle /\ Alone(p)
             /\ status' = "ended" \/ NextTurn([pendingSimultaneous EXCEPT ![p] = None])
  <2>1. Alone(p) /\ Idle BY <1>4 DEF TimeoutStrikeOut, TimeoutFlag, Expired
  <2>2. \E reason, attempts, entries : LoseSeat(p, reason, attempts, entries)
    BY <1>4 DEF TimeoutStrikeOut, TimeoutFlag
  <2> QED BY <2>1, <2>2, LoseFacts DEF Idle
<1> QED BY <1>1, <1>2, <1>3, <1>4 DEF TurnOf, TimeoutTurn, Idle, Alone

\* The submissions a phase holds: who is held, and with what marker.
HoldOf(p) == \E sub \in Submission : HoldMove(p, sub) \/ HoldForced(p, sub) \/ StrikeOutInPhase(p, sub)

Holds(p, held) ==
  /\ held \in [Player -> HeldSubmission \cup {None}]
  /\ held[p] # None /\ held[p].turn_index = turnIndex /\ held[p].forced # "timeout"
  /\ \A q \in Player \ {p} : held[q] = pendingSimultaneous[q]

LEMMA HoldOfFacts ==
  ASSUME IInv, NEW p \in Player, HoldOf(p)
  PROVE  /\ Idle /\ ~Alone(p) /\ status = "running" /\ p \in PlayersToMove(state)
         /\ pendingSimultaneous[p] = None
         /\ \/ status' = "ended"
            \/ /\ status' = "running" /\ turnIndex' = turnIndex
               /\ pendingDrawOffer' = pendingDrawOffer /\ deadline' = deadline
               /\ state' = state \/ SeatLeaves(p)
               /\ \E held : /\ Holds(p, held) /\ Collect(held)
                            /\ log' # log => held[p].forced = "illegal"
                            /\ held[p].forced = "no" =>
                                 held[p].move = Resolve(state, p, held[p].submission)
<1>1. PICK sub \in Submission : HoldMove(p, sub) \/ HoldForced(p, sub) \/ StrikeOutInPhase(p, sub)
  BY DEF HoldOf
<1>2. IsMove(p, sub) /\ ~Alone(p)
  BY <1>1 DEF HoldMove, HoldForced, StrikeOutInPhase, ThirdIllegal
<1>3. /\ Idle /\ status = "running" /\ p \in PlayersToMove(state)
      /\ pendingSimultaneous[p] = None /\ turnIndex \in Nat
  BY <1>2, SubmitFacts DEF IsMove, Admitted
<1>4. pendingSimultaneous \in [Player -> HeldSubmission \cup {None}] BY DEF IInv, EndTyped
<1>5. ASSUME NEW m, NEW forced \in {"no", "illegal"},
             [turn_index |-> turnIndex, submission |-> sub, move |-> m, forced |-> forced]
               \in HeldSubmission
      PROVE  /\ Holds(p, Hold(p, sub, m, forced)) /\ Hold(p, sub, m, forced)[p].forced = forced
             /\ Hold(p, sub, m, forced)[p].submission = sub /\ Hold(p, sub, m, forced)[p].move = m
  <2>1. Hold(p, sub, m, forced)[p] =
          [turn_index |-> turnIndex, submission |-> sub, move |-> m, forced |-> forced]
    BY <1>4 DEF Hold
  <2>2. Hold(p, sub, m, forced)[p] # None BY <1>5, <2>1, NoneAssumption
  <2>3. Hold(p, sub, m, forced) \in [Player -> HeldSubmission \cup {None}]
    BY <1>4, <1>5 DEF Hold
  <2>4. \A q \in Player \ {p} : Hold(p, sub, m, forced)[q] = pendingSimultaneous[q]
    BY <1>4 DEF Hold
  <2> QED BY <2>1, <2>2, <2>3, <2>4 DEF Holds
<1>5a. Holds(p, Hold(p, sub, None, "illegal")) /\ Hold(p, sub, None, "illegal")[p].forced = "illegal"
  <2>1. [turn_index |-> turnIndex, submission |-> sub, move |-> None, forced |-> "illegal"]
          \in HeldSubmission
    BY <1>3 DEF HeldSubmission
  <2> QED BY <1>5, <2>1
<1>6. CASE HoldMove(p, sub)
  <2> DEFINE m == Resolve(state, p, sub)
             held == Hold(p, sub, m, "no")
  <2>1. m \in Move BY <1>2, <1>6, AppliedType DEF HoldMove
  <2>2. /\ Collect(held) /\ log' = log /\ status' = status /\ turnIndex' = turnIndex
        /\ pendingDrawOffer' = pendingDrawOffer /\ deadline' = deadline /\ state' = state
    BY <1>6 DEF HoldMove, game, outcome, clock
  <2>3. Holds(p, held) /\ held[p].forced = "no" /\ held[p].submission = sub /\ held[p].move = m
    <3> HIDE DEF m
    <3>1. [turn_index |-> turnIndex, submission |-> sub, move |-> m, forced |-> "no"]
            \in HeldSubmission
      BY <1>3, <2>1 DEF HeldSubmission
    <3> QED BY <1>5, <3>1
  <2> HIDE DEF held
  <2> QED BY <1>2, <1>3, <2>2, <2>3
<1>7. CASE HoldForced(p, sub)
  BY <1>2, <1>3, <1>5a, <1>7 DEF HoldForced, game, outcome, clock
<1>8. CASE StrikeOutInPhase(p, sub)
  <2>1. CASE Forfeit(p, "three_strikes", <<StrikeEntry(p, "illegal_move")>>)
    BY <1>2, <1>3, <2>1 DEF Forfeit, EndGame
  <2>2. CASE ~Forfeit(p, "three_strikes", <<StrikeEntry(p, "illegal_move")>>)
    BY <1>2, <1>3, <1>5a, <1>8, <2>2 DEF StrikeOutInPhase, outcome, clock
  <2> QED BY <2>1, <2>2
<1> QED BY <1>1, <1>6, <1>7, <1>8

-----------------------------------------------------------------------------
(* Who is held.  While the room waits, somebody it waits for is not held,  *)
(* or all that is held is left over from earlier turns; and nothing is     *)
(* ever held for a later one.                                              *)

Held == IF loop = "resolve" THEN batch ELSE pendingSimultaneous

WaitInv ==
  /\ Idle => \/ WaitingFor(state, pendingSimultaneous) # {}
             \/ \A p \in Player : pendingSimultaneous[p] # None
                                    => pendingSimultaneous[p].turn_index < turnIndex
  /\ status = "running" =>
       \A p \in Player : Held[p] # None => Held[p].turn_index <= turnIndex
  /\ loop = "resolve" => pendingSimultaneous = NothingHeld

LEMMA HeldTypes ==
  ASSUME IInv
  PROVE  /\ turnIndex \in Nat
         /\ Held \in [Player -> HeldSubmission \cup {None}]
         /\ \A h \in HeldSubmission : h.turn_index \in Nat
         /\ \A p \in Player : Held[p] # None => Held[p].turn_index \in Nat
<1>1. turnIndex \in Nat /\ Held \in [Player -> HeldSubmission \cup {None}]
  BY DEF IInv, EndTyped, RestTyped, Held
<1>2. \A h \in HeldSubmission : h.turn_index \in Nat BY DEF HeldSubmission
<1> HIDE DEF Held
<1> QED BY <1>1, <1>2

LEMMA EndedWaits == IInv' /\ status' = "ended" => WaitInv'
BY DEF IInv, Sealed, WaitInv, Idle

LEMMA NextTurnWaits ==
  ASSUME IInv, WaitInv, status = "running", NEW held, NextTurn(held),
         \A q \in Player : held[q] # None => held[q] = pendingSimultaneous[q]
  PROVE  WaitInv'
<1>1. /\ status' = "running" /\ loop' = "none" /\ pendingSimultaneous' = held
      /\ turnIndex' = turnIndex + 1 /\ turnIndex \in Nat
  BY HeldTypes DEF NextTurn
<1>2. \A q \in Player : held[q] # None =>
        /\ held[q].turn_index \in Nat /\ held[q].turn_index <= turnIndex
  <2>1. CASE loop = "resolve"
    <3>1. \A q \in Player : held[q] = None BY <2>1 DEF WaitInv, NothingHeld
    <3> QED BY <3>1
  <2>2. CASE loop # "resolve"
    <3>1. Held = pendingSimultaneous BY <2>2 DEF Held
    <3> QED BY <3>1, HeldTypes DEF WaitInv
  <2> QED BY <2>1, <2>2
<1>3. Held' = held BY <1>1 DEF Held
<1> HIDE DEF Held
<1>4. \A q \in Player : held[q] # None =>
        held[q].turn_index < turnIndex' /\ held[q].turn_index <= turnIndex'
  BY <1>1, <1>2
<1> QED BY <1>1, <1>3, <1>4 DEF WaitInv

LEMMA TurnOfWaits == ASSUME IInv, IInv', WaitInv, NEW p \in Player, TurnOf(p) PROVE WaitInv'
<1>1. pendingSimultaneous \in [Player -> HeldSubmission \cup {None}] BY DEF IInv, EndTyped
<1>2. \A q \in Player :
        [pendingSimultaneous EXCEPT ![p] = None][q] # None
          => [pendingSimultaneous EXCEPT ![p] = None][q] = pendingSimultaneous[q]
  BY <1>1
<1> QED BY <1>2, TurnOfFacts, NextTurnWaits, EndedWaits

LEMMA HoldOfWaits == ASSUME IInv, IInv', WaitInv, NEW p \in Player, HoldOf(p) PROVE WaitInv'
<1>1. CASE status' = "ended" BY <1>1, EndedWaits
<1>2. CASE status' # "ended"
  <2>1. /\ Idle /\ status = "running" /\ status' = "running" /\ turnIndex' = turnIndex
        /\ \E held : Holds(p, held) /\ Collect(held)
    BY <1>2, HoldOfFacts
  <2>2. PICK held : Holds(p, held) /\ Collect(held) BY <2>1
  <2>3. Held = pendingSimultaneous BY <2>1 DEF Held, Idle
  <2>4. \A q \in Player : held[q] # None => held[q].turn_index <= turnIndex
    BY <2>1, <2>2, <2>3, HeldTypes DEF WaitInv, Holds
  <2>5. CASE WaitingFor(state', held) # {}
    <3>1. pendingSimultaneous' = held /\ loop' = "none" BY <2>1, <2>2, <2>5 DEF Collect, looping, Idle
    <3>2. Held' = held BY <3>1 DEF Held
    <3> QED BY <2>1, <2>4, <2>5, <3>1, <3>2 DEF WaitInv
  <2>6. CASE WaitingFor(state', held) = {}
    <3>1. pendingSimultaneous' = NothingHeld /\ loop' = "resolve" /\ batch' = held
      BY <2>2, <2>6 DEF Collect
    <3>2. Held' = held BY <3>1 DEF Held
    <3> QED BY <2>1, <2>4, <3>1, <3>2 DEF WaitInv, Idle
  <2> QED BY <2>5, <2>6
<1> QED BY <1>1, <1>2

\* Steps inside a phase: what is held stays held, or is dropped.
LEMMA InPhaseWaits ==
  ASSUME IInv, WaitInv, status = "running", status' = "running", turnIndex' = turnIndex,
         loop' # "none",
         \A q \in Player : Held'[q] # None => Held'[q] = Held[q] \/ Held'[q].turn_index = turnIndex,
         loop' = "resolve" => pendingSimultaneous' = NothingHeld
  PROVE  WaitInv'
<1>1. \A q \in Player : Held'[q] # None => Held'[q].turn_index <= turnIndex'
  BY HeldTypes DEF WaitInv
<1> QED BY <1>1 DEF WaitInv, Idle

LEMMA StillWaits ==
  ASSUME WaitInv, UNCHANGED <<state, status, turnIndex, pendingSimultaneous, loop, batch>>
  PROVE  WaitInv'
BY DEF WaitInv, Held, Idle, WaitingFor

LEMMA TimeoutPhaseHolds ==
  ASSUME IInv, TimeoutPhase
  PROVE  /\ Idle /\ status = "running" /\ status' = "running" /\ turnIndex' = turnIndex
         /\ state' = state /\ loop' = "flags"
         /\ Held = pendingSimultaneous /\ Held' = pendingSimultaneous'
         /\ \A q \in Player :
              pendingSimultaneous'[q] =
                IF q \in WaitingFor(state, pendingSimultaneous)
                THEN [turn_index |-> turnIndex, submission |-> None, move |-> None,
                      forced |-> "timeout"]
                ELSE pendingSimultaneous[q]
<1>1. Idle /\ status = "running" /\ status' = "running" /\ turnIndex' = turnIndex
      /\ state' = state /\ loop' = "flags"
  BY DEF TimeoutPhase, Expired, Idle, outcome, game
<1>2. Held = pendingSimultaneous /\ Held' = pendingSimultaneous' BY <1>1 DEF Held, Idle
<1> QED BY <1>1, <1>2 DEF TimeoutPhase

LEMMA ResolvePhaseHolds ==
  ASSUME IInv, ResolvePhase
  PROVE  /\ status = "running" /\ status' = "running" /\ turnIndex' = turnIndex
         /\ state' = state /\ loop = "flags" /\ loop' = "resolve" /\ cursor' = 0
         /\ pendingSimultaneous' = NothingHeld /\ Held' = Held /\ Held = pendingSimultaneous
<1>1. /\ status = "running" /\ status' = "running" /\ turnIndex' = turnIndex
      /\ state' = state /\ loop = "flags" /\ loop' = "resolve" /\ cursor' = 0
      /\ pendingSimultaneous' = NothingHeld /\ batch' = pendingSimultaneous
  BY RunningLog DEF ResolvePhase, outcome, game
<1> QED BY <1>1 DEF Held

LEMMA TakeFlagHolds ==
  ASSUME IInv, NEW p \in Player, TakeFlag(p)
  PROVE  /\ status = "running" /\ loop = "flags" /\ p \in Flagged
         /\ \/ status' = "ended"
            \/ /\ status' = "running" /\ turnIndex' = turnIndex /\ SeatLeaves(p)
               /\ log' = Append(log, EliminationEntry(p, "time"))
               /\ loop' = "flags" /\ Held = pendingSimultaneous
               /\ Held' = [Held EXCEPT ![p] = None]
<1>1. status = "running" /\ loop = "flags" /\ p \in Flagged
  BY RunningLog DEF TakeFlag, IsFirst
<1>2. CASE Forfeit(p, "time", <<>>) BY <1>1, <1>2 DEF Forfeit, EndGame
<1>3. CASE ~Forfeit(p, "time", <<>>)
  BY <1>1, <1>3 DEF TakeFlag, outcome, looping, Held
<1> QED BY <1>1, <1>2, <1>3

LEMMA ResolveStepHolds ==
  ASSUME IInv, NEW p \in Player, ResolveStep(p)
  PROVE  /\ Resolving(p) /\ status = "running" /\ loop = "resolve"
         /\ \/ status' = "ended"
            \/ /\ status' = "running" /\ turnIndex' = turnIndex
               /\ loop' = "resolve" /\ cursor' = p + 1
               /\ Held' = Held /\ pendingSimultaneous' = pendingSimultaneous
<1>1. Resolving(p) /\ loop = "resolve"
  BY DEF ResolveStep, ResolveMove, ResolveForced, ResolveStale, ResolveTimeout, ResolveStrikeOut,
         Resolving
<1>2. status = "running" BY <1>1, ResolvingFacts
<1>3. NextSeat(p) \/ \E why : Forfeit(p, "three_strikes", <<StrikeEntry(p, why)>>)
  BY DEF ResolveStep, ResolveMove, ResolveForced, ResolveStale, ResolveTimeout, ResolveStrikeOut
<1>4. CASE NextSeat(p) BY <1>1, <1>2, <1>4 DEF NextSeat, outcome, Held
<1>5. CASE ~NextSeat(p) BY <1>1, <1>2, <1>3, <1>5 DEF Forfeit, EndGame
<1> QED BY <1>4, <1>5

LEMMA FinishPhaseHolds ==
  ASSUME IInv, FinishPhase
  PROVE  /\ status = "running" /\ loop = "resolve" /\ Due = {} /\ state' = state
         /\ status' = "ended" \/ NextTurn(pendingSimultaneous)
<1>1. status = "running" BY RunningLog DEF FinishPhase
<1> QED BY <1>1, AdvanceFacts DEF FinishPhase, game

LEMMA NextWaits == IInv /\ IInv' /\ WaitInv /\ [Next]_vars => WaitInv'
<1> SUFFICES ASSUME IInv, IInv', WaitInv, [Next]_vars PROVE WaitInv'
  OBVIOUS
<1>1. CASE Tick \/ Ended \/ UNCHANGED vars
  BY <1>1, StillWaits DEF Tick, Ended, vars, game, outcome, looping
<1>2. ASSUME NEW p \in Player, Resign(p) \/ \E sub \in Submission : AcceptDraw(p, sub) PROVE WaitInv'
  <2>1. status' = "ended" BY <1>2 DEF Resign, AcceptDraw, EndGame
  <2> QED BY <2>1, EndedWaits
<1>3. ASSUME NEW p \in Player, NEW sub \in Submission, RejectIllegal(p, sub) PROVE WaitInv'
  BY <1>3, StillWaits DEF RejectIllegal, game, outcome, looping
<1>4. CASE TimeoutPhase
  <2>1. \A q \in Player : Held'[q] # None => Held'[q] = Held[q] \/ Held'[q].turn_index = turnIndex
    BY <1>4, TimeoutPhaseHolds
  <2> QED BY <1>4, <2>1, TimeoutPhaseHolds, InPhaseWaits
<1>5. CASE ResolvePhase BY <1>5, ResolvePhaseHolds, InPhaseWaits
<1>6. CASE FinishPhase
  <2>1. \A q \in Player : pendingSimultaneous[q] # None => pendingSimultaneous[q] = pendingSimultaneous[q]
    OBVIOUS
  <2> QED BY <1>6, <2>1, FinishPhaseHolds, NextTurnWaits, EndedWaits
<1>7. ASSUME NEW p \in Player, TakeFlag(p) PROVE WaitInv'
  <2>1. CASE status' = "ended" BY <2>1, EndedWaits
  <2>2. CASE status' # "ended"
    <3>1. Held \in [Player -> HeldSubmission \cup {None}] BY HeldTypes
    <3>2. \A q \in Player : Held'[q] # None => Held'[q] = Held[q]
      BY <1>7, <2>2, <3>1, TakeFlagHolds
    <3> QED BY <1>7, <2>2, <3>2, TakeFlagHolds, InPhaseWaits
  <2> QED BY <2>1, <2>2
<1>8. ASSUME NEW p \in Player, ResolveStep(p) PROVE WaitInv'
  <2>1. CASE status' = "ended" BY <2>1, EndedWaits
  <2>2. CASE status' # "ended"
    <3>1. pendingSimultaneous' = NothingHeld BY <1>8, <2>2, ResolveStepHolds DEF WaitInv
    <3> QED BY <1>8, <2>2, <3>1, ResolveStepHolds, InPhaseWaits
  <2> QED BY <2>1, <2>2
<1> QED
  BY <1>1, <1>2, <1>3, <1>4, <1>5, <1>6, <1>7, <1>8, TurnOfWaits, HoldOfWaits
     DEF Next, Timeout, LoopStep, Submit, TurnOf, HoldOf

-----------------------------------------------------------------------------
(* The ledger of the turn that is running.                                 *)

\* The seats the resolve loop has passed.
Passed == IF loop = "resolve" THEN {p \in Player : p < cursor} ELSE {}

\* A seat that took its strike of this turn is one of these.
Marked(p) ==
  /\ Held[p] # None /\ Held[p].forced = "illegal"
  /\ loop # "resolve" => Held[p].turn_index = turnIndex
Struck == {p \in Player : p \in Passed \/ p \in Gone(state) \/ Marked(p)}

Ledger == {ActMark(p) : p \in Passed} \cup {StrikeMark(p) : p \in Struck}

TurnInv ==
  /\ OnceIn(log)
  /\ status = "running" => Turns(log, turnIndex, Ledger)

LEMMA MarksDiffer ==
  /\ \A p, q : ActMark(p) # StrikeMark(q)
  /\ \A p, q : ActMark(p) = ActMark(q) => p = q
  /\ \A p, q : StrikeMark(p) = StrikeMark(q) => p = q
  /\ \A p, q : <<"draw_accept", p>> # ActMark(q) /\ <<"draw_accept", p>> # StrikeMark(q)
BY DEF ActMark, StrikeMark

LEMMA LedgerFree ==
  ASSUME NEW p
  PROVE  /\ p \notin Passed => ActMark(p) \notin Ledger
         /\ p \notin Struck => StrikeMark(p) \notin Ledger
         /\ <<"draw_accept", p>> \notin Ledger
BY MarksDiffer DEF Ledger

LEMMA LedgerGrows ==
  ASSUME Passed \subseteq Passed', Struck \subseteq Struck'
  PROVE  /\ Ledger \subseteq Ledger'
         /\ \A p \in Passed' : ActMark(p) \in Ledger'
         /\ \A p \in Struck' : StrikeMark(p) \in Ledger'
BY DEF Ledger

\* A mover the turn has not passed is free to act, and free to be struck
\* unless it is held with a forced marker.
LEMMA FreeMover ==
  ASSUME IInv, NEW p \in PlayersToMove(state), p \notin Passed
  PROVE  /\ ActMark(p) \notin Ledger
         /\ ~Marked(p) => StrikeMark(p) \notin Ledger
<1>1. p \in Player /\ p \notin Gone(state) BY KernelContract DEF IInv, RestTyped
<1> QED BY <1>1, LedgerFree DEF Struck

\* Every step that appends a block the ledger has no mark of.
LEMMA TurnKept ==
  ASSUME IInv, IInv', TurnInv, status = "running", NEW B, Wrote(B), B \cap Ledger = {},
         status' = "running" =>
           \/ turnIndex' = turnIndex + 1
           \/ turnIndex' = turnIndex /\ Ledger \cup B \subseteq Ledger'
  PROVE  TurnInv'
<1>1. log \in Seq(LogEntry) /\ turnIndex \in Nat BY DEF IInv, EndTyped, RestTyped
<1>2. PICK S : \E E \in Seq(S) : Block(E, turnIndex, B) /\ log' = log \o E BY DEF Wrote
<1>3. Turns(log', turnIndex, Ledger \cup B) BY <1>1, <1>2, TurnsBlock DEF TurnInv
<1>4. OnceIn(log') BY <1>3 DEF Turns
<1>5. ASSUME status' = "running" PROVE Turns(log', turnIndex', Ledger')
  <2>1. CASE turnIndex' = turnIndex /\ Ledger \cup B \subseteq Ledger'
    BY <1>3, <2>1, TurnsWiden
  <2>2. CASE turnIndex' = turnIndex + 1
    <3>1. log' \in Seq(LogEntry) BY DEF IInv, EndTyped
    <3> QED BY <1>1, <1>3, <2>2, <3>1, TurnsNext
  <2> QED BY <1>5, <2>1, <2>2
<1> QED BY <1>4, <1>5 DEF TurnInv

\* Steps that append nothing and change nothing the ledger is made of.
LEMMA TurnStutters ==
  ASSUME TurnInv,
         UNCHANGED <<log, status, turnIndex, state, pendingSimultaneous, loop, batch, cursor>>
  PROVE  TurnInv'
BY DEF TurnInv, OnceIn, Turns, Ledger, Struck, Passed, Marked, Held

LEMMA EndedTurn ==
  ASSUME IInv, IInv', TurnInv, status = "running", status' = "ended",
         NEW B, Wrote(B), B \cap Ledger = {}
  PROVE  TurnInv'
BY TurnKept

-----------------------------------------------------------------------------
(* TurnInv is inductive.                                                   *)

LEMMA InitTurns == Init => TurnInv /\ WaitInv
<1> SUFFICES ASSUME Init PROVE TurnInv /\ WaitInv
  OBVIOUS
<1>1. \A i \in DOMAIN log : ~Noted(log[i]) BY DEF Init, Noted, Counted, IsAct
<1>2. TurnInv BY <1>1 DEF TurnInv, Turns, OnceIn
<1>3. \A p \in Player : Held[p] = None /\ pendingSimultaneous[p] = None
  BY DEF Init, NothingHeld, Held
<1>4. loop # "resolve" BY DEF Init
<1>5. WaitInv BY <1>3, <1>4 DEF WaitInv
<1> QED BY <1>2, <1>5

LEMMA TurnOfTurns ==
  ASSUME IInv, IInv', WaitInv, TurnInv, NEW p \in Player, TurnOf(p)
  PROVE  TurnInv'
<1>1. Idle /\ Alone(p) /\ status = "running" /\ p \in PlayersToMove(state) BY TurnOfFacts
<1>2. status' = "running" => turnIndex' = turnIndex + 1
  BY TurnOfFacts DEF NextTurn
<1>3. loop = "none" /\ p \notin Passed /\ Held = pendingSimultaneous BY <1>1 DEF Idle, Passed, Held
<1>4. ~Marked(p)
  <2>1. CASE pendingSimultaneous[p] = None BY <1>3, <2>1 DEF Marked
  <2>2. CASE pendingSimultaneous[p] # None
    <3>1. WaitingFor(state, pendingSimultaneous) = {} BY <1>1, <2>2 DEF WaitingFor, Alone
    <3>2. pendingSimultaneous[p].turn_index < turnIndex BY <1>1, <2>2, <3>1 DEF WaitInv
    <3>3. pendingSimultaneous[p].turn_index \in Nat /\ turnIndex \in Nat
      BY <1>3, <2>2, HeldTypes
    <3> QED BY <1>3, <3>2, <3>3 DEF Marked
  <2> QED BY <2>1, <2>2
<1>5. ActMark(p) \notin Ledger /\ StrikeMark(p) \notin Ledger BY <1>1, <1>3, <1>4, FreeMover
<1>6. Wrote({}) \/ Wrote({ActMark(p)}) \/ Wrote({StrikeMark(p)})
      \/ Wrote({ActMark(p), StrikeMark(p)})
  BY PlayMoveWrites, ForceMoveWrites, StrikeOutOnIllegalWrites,
     TimeoutMoveWrites, TimeoutStrikeOutWrites, TimeoutFlagWrites
     DEF TurnOf, TimeoutTurn
<1>7. PICK B : Wrote(B) /\ B \cap Ledger = {}
  <2>1. /\ {} \cap Ledger = {} /\ {ActMark(p)} \cap Ledger = {} /\ {StrikeMark(p)} \cap Ledger = {}
        /\ {ActMark(p), StrikeMark(p)} \cap Ledger = {}
    BY <1>5
  <2> QED BY <1>6, <2>1
<1>8. status' = "running" \/ status' = "ended" BY TurnOfFacts DEF NextTurn
<1> QED BY <1>1, <1>2, <1>7, <1>8, TurnKept

LEMMA LeavesGone ==
  ASSUME IInv, NEW p \in Player, SeatLeaves(p)
  PROVE  state' \in GState /\ Gone(state) \subseteq Gone(state') /\ p \in Gone(state')
<1>1. state \in GState BY DEF IInv, RestTyped
<1>2. ForfeitPlayer(state, p) # None /\ state' = ForfeitPlayer(state, p) BY DEF SeatLeaves
<1> QED BY <1>1, <1>2, KernelContract

LEMMA HoldOfTurns ==
  ASSUME IInv, IInv', WaitInv, TurnInv, NEW p \in Player, HoldOf(p)
  PROVE  TurnInv'
<1>1. /\ Idle /\ status = "running" /\ p \in PlayersToMove(state) /\ pendingSimultaneous[p] = None
  BY HoldOfFacts
<1>2. loop = "none" /\ Passed = {} /\ Held = pendingSimultaneous BY <1>1 DEF Idle, Passed, Held
<1>3. ~Marked(p) BY <1>1, <1>2 DEF Marked
<1>4. ActMark(p) \notin Ledger /\ StrikeMark(p) \notin Ledger BY <1>1, <1>2, <1>3, FreeMover
<1>5. Wrote({StrikeMark(p)}) \/ (log' = log /\ Wrote({}))
  <2>1. ASSUME NEW sub \in Submission, HoldMove(p, sub) PROVE log' = log BY <2>1 DEF HoldMove
  <2> QED
    BY <1>1, <2>1, SilentWrites, HoldForcedWrites, StrikeOutInPhaseWrites DEF HoldOf
<1>6. {StrikeMark(p)} \cap Ledger = {} BY <1>4
<1>7. CASE status' = "ended" BY <1>1, <1>5, <1>6, <1>7, EndedTurn
<1>8. CASE status' # "ended"
  <2>1. /\ status' = "running" /\ turnIndex' = turnIndex
        /\ state' = state \/ SeatLeaves(p)
        /\ \E held : /\ Holds(p, held) /\ Collect(held)
                     /\ log' # log => held[p].forced = "illegal"
    BY <1>8, HoldOfFacts
  <2>2. PICK held : /\ Holds(p, held) /\ Collect(held)
                    /\ log' # log => held[p].forced = "illegal"
    BY <2>1
  <2>3. Held' = held /\ loop' \in {"none", "resolve"}
    BY <1>2, <2>2 DEF Collect, looping, Held
  <2>4. Gone(state) \subseteq Gone(state') BY <2>1, LeavesGone
  <2>5. \A q \in Player \ {p} : Marked(q) => Marked(q)'
    <3> SUFFICES ASSUME NEW q \in Player \ {p}, Marked(q) PROVE Marked(q)'
      OBVIOUS
    <3>1. Held'[q] = Held[q] BY <1>2, <2>2, <2>3 DEF Holds
    <3>2. Held[q].turn_index = turnIndex BY <1>2 DEF Marked
    <3> HIDE DEF Held
    <3> QED BY <2>1, <3>1, <3>2 DEF Marked
  <2>6. log' # log => Marked(p)'
    BY <2>1, <2>2, <2>3 DEF Marked, Holds
  <2>7. Struck \subseteq Struck' /\ (log' # log => p \in Struck')
    BY <1>2, <1>3, <2>4, <2>5, <2>6 DEF Struck
  <2>8. Ledger \subseteq Ledger' /\ (log' # log => StrikeMark(p) \in Ledger')
    BY <1>2, <2>7, LedgerGrows
  <2>9. CASE log' = log
    <3>1. Wrote({}) BY <1>1, <2>9, SilentWrites
    <3> QED BY <1>1, <2>1, <2>8, <3>1, TurnKept
  <2>10. CASE log' # log
    <3>1. Wrote({StrikeMark(p)}) BY <1>5, <2>10
    <3>2. Ledger \cup {StrikeMark(p)} \subseteq Ledger' BY <2>8, <2>10
    <3> QED BY <1>1, <1>6, <2>1, <3>1, <3>2, TurnKept
  <2> QED BY <2>9, <2>10
<1> QED BY <1>7, <1>8

LEMMA TimeoutPhaseTurns == ASSUME IInv, IInv', TurnInv, TimeoutPhase PROVE TurnInv'
<1>1. /\ Idle /\ status = "running" /\ status' = "running" /\ turnIndex' = turnIndex
      /\ state' = state /\ loop' = "flags" /\ log' = log
      /\ Held = pendingSimultaneous /\ Held' = pendingSimultaneous'
  BY TimeoutPhaseHolds DEF TimeoutPhase
<1>2. Passed = {} /\ loop = "none" BY <1>1 DEF Idle, Passed
<1>3. \A q \in Player : Marked(q) => Marked(q)'
  <2> SUFFICES ASSUME NEW q \in Player, Marked(q) PROVE Marked(q)'
    OBVIOUS
  <2>1. q \notin WaitingFor(state, pendingSimultaneous) BY <1>1 DEF Marked, WaitingFor
  <2>2. Held'[q] = Held[q] BY <1>1, <2>1, TimeoutPhaseHolds
  <2>3. Held[q].turn_index = turnIndex BY <1>2 DEF Marked
  <2> HIDE DEF Held
  <2> QED BY <1>1, <2>2, <2>3 DEF Marked
<1>4. Ledger \subseteq Ledger' BY <1>1, <1>2, <1>3, LedgerGrows DEF Struck
<1> QED BY <1>1, <1>4, SilentWrites, TurnKept

LEMMA ResolvePhaseTurns == ASSUME IInv, IInv', TurnInv, ResolvePhase PROVE TurnInv'
<1>1. /\ status = "running" /\ status' = "running" /\ turnIndex' = turnIndex
      /\ state' = state /\ loop = "flags" /\ loop' = "resolve" /\ Held' = Held /\ log' = log
  BY ResolvePhaseHolds DEF ResolvePhase
<1>2. Passed = {} BY <1>1 DEF Passed
<1>3. \A q \in Player : Marked(q) => Marked(q)'
  <2> HIDE DEF Held
  <2> QED BY <1>1 DEF Marked
<1>4. Ledger \subseteq Ledger' BY <1>1, <1>2, <1>3, LedgerGrows DEF Struck
<1> QED BY <1>1, <1>4, SilentWrites, TurnKept

LEMMA FinishPhaseTurns == ASSUME IInv, IInv', TurnInv, FinishPhase PROVE TurnInv'
<1>1. status = "running" /\ Wrote({}) BY FinishPhaseHolds, FinishPhaseWrites
<1>2. status' = "running" => turnIndex' = turnIndex + 1 BY FinishPhaseHolds DEF NextTurn
<1> QED BY <1>1, <1>2, TurnKept

LEMMA TakeFlagTurns == ASSUME IInv, IInv', TurnInv, NEW p \in Player, TakeFlag(p) PROVE TurnInv'
<1>1. status = "running" /\ loop = "flags" /\ p \in Flagged /\ Wrote({})
  BY TakeFlagHolds, TakeFlagWrites
<1>2. CASE status' = "ended" BY <1>1, <1>2, EndedTurn
<1>3. CASE status' # "ended"
  <2>1. /\ status' = "running" /\ turnIndex' = turnIndex /\ SeatLeaves(p)
        /\ loop' = "flags" /\ Held = pendingSimultaneous /\ Held' = [Held EXCEPT ![p] = None]
    BY <1>3, TakeFlagHolds
  <2>2. Passed = {} BY <1>1 DEF Passed
  <2>3. ~Marked(p) BY <1>1, <2>1 DEF Flagged, Marked
  <2>4. Held \in [Player -> HeldSubmission \cup {None}] BY HeldTypes
  <2>5. \A q \in Player : Marked(q) => Marked(q)'
    <3> HIDE DEF Held
    <3> QED BY <1>1, <2>1, <2>3, <2>4 DEF Marked
  <2>6. Gone(state) \subseteq Gone(state') BY <2>1, LeavesGone
  <2>7. Ledger \subseteq Ledger' BY <2>2, <2>5, <2>6, LedgerGrows DEF Struck
  <2> QED BY <1>1, <2>1, <2>7, TurnKept
<1> QED BY <1>2, <1>3

\* Whatever is resolved for a seat, nobody comes back into the game.
LEMMA ResolveStepGone ==
  ASSUME IInv, NEW p \in Player, ResolveStep(p)
  PROVE  status' = "running" => state' \in GState /\ Gone(state) \subseteq Gone(state')
<1>1. Resolving(p) /\ p \in PlayersToMove(state) /\ state \in GState
  BY ResolveStepHolds, ResolvingFacts DEF IInv, RestTyped
<1>2. CASE ResolveMove(p)
  <2>1. batch[p].move \in Move /\ Apply(state, p, batch[p].move) # None
    BY <1>1, <1>2, ResolvingFacts DEF ResolveMove, IsStale
  <2> QED BY <1>1, <1>2, <2>1, GameTypes, GoneGrows DEF ResolveMove
<1>3. CASE ResolveForced(p) \/ ResolveStale(p)
  <2>1. PICK pick \in SeededMoves(p, "illegal") : state' = Apply(state, p, pick.move)
    BY <1>3 DEF ResolveForced, ResolveStale
  <2>2. pick \in Pick /\ state' \in GState BY <1>1, <2>1, IInvTypeOK, SeededMovesType
  <2> QED BY <2>1, <2>2, GoneGrows DEF Pick
<1>4. CASE ResolveTimeout(p)
  <2>1. PICK pick \in TimeoutMoves(p) : state' = Apply(state, p, pick.move)
    BY <1>4 DEF ResolveTimeout
  <2>2. pick \in Pick /\ state' \in GState BY <1>1, <2>1, IInvTypeOK, TimeoutMovesType
  <2> QED BY <2>1, <2>2, GoneGrows DEF Pick
<1>5. CASE ResolveStrikeOut(p)
  <2>1. SeatLeaves(p) \/ \E why : Forfeit(p, "three_strikes", <<StrikeEntry(p, why)>>)
    BY <1>5 DEF ResolveStrikeOut
  <2> QED BY <2>1, LeavesGone DEF Forfeit, EndGame
<1> QED BY <1>2, <1>3, <1>4, <1>5 DEF ResolveStep

LEMMA ResolveStepTurns ==
  ASSUME IInv, IInv', TurnInv, NEW p \in Player, ResolveStep(p)
  PROVE  TurnInv'
<1>1. /\ Resolving(p) /\ status = "running" /\ loop = "resolve"
      /\ p \in PlayersToMove(state) /\ p >= cursor /\ cursor \in Nat /\ p \in Nat
      /\ Held = batch
  BY ResolveStepHolds, SeatsAssumption
     DEF Resolving, IsFirst, Due, Held, IInv, EndTyped, Player
<1>2. p \notin Passed BY <1>1 DEF Passed
<1>3. ActMark(p) \notin Ledger /\ (~Marked(p) => StrikeMark(p) \notin Ledger)
  BY <1>1, <1>2, FreeMover
<1>4. \/ Wrote({ActMark(p)})
      \/ ~Marked(p) /\ (Wrote({StrikeMark(p)}) \/ Wrote({ActMark(p), StrikeMark(p)}))
  <2>1. ResolveStale(p) \/ ResolveTimeout(p) \/ ResolveStrikeOut(p) => ~Marked(p)
    BY <1>1 DEF ResolveStale, ResolveTimeout, ResolveStrikeOut, IsStale, Marked
  <2> QED BY <1>1, <2>1, ResolveWrites DEF ResolveStep
<1>5. PICK B \in SUBSET {ActMark(p), StrikeMark(p)} : Wrote(B) /\ B \cap Ledger = {}
  <2>1. {ActMark(p)} \cap Ledger = {} BY <1>3
  <2>2. ~Marked(p) => /\ {StrikeMark(p)} \cap Ledger = {}
                      /\ {ActMark(p), StrikeMark(p)} \cap Ledger = {}
    BY <1>3
  <2> QED BY <1>4, <2>1, <2>2
<1>6. CASE status' = "ended" BY <1>1, <1>5, <1>6, EndedTurn
<1>7. CASE status' # "ended"
  <2>1. /\ status' = "running" /\ turnIndex' = turnIndex
        /\ loop' = "resolve" /\ cursor' = p + 1 /\ Held' = Held
    BY <1>7, ResolveStepHolds
  <2>2. Passed \subseteq Passed' /\ p \in Passed'
    <3>1. \A q \in Player : q \in Nat BY SeatsAssumption DEF Player
    <3>2. \A q \in Player : q < cursor => q < p + 1 BY <1>1, <3>1
    <3>3. Passed = {q \in Player : q < cursor} /\ Passed' = {q \in Player : q < p + 1}
      BY <1>1, <2>1 DEF Passed
    <3>4. p < p + 1 BY <1>1
    <3> HIDE DEF Passed
    <3> QED BY <3>2, <3>3, <3>4
  <2>3. Gone(state) \subseteq Gone(state') BY <2>1, ResolveStepGone
  <2>4. \A q \in Player : Marked(q) => Marked(q)'
    <3> HIDE DEF Held
    <3> QED BY <1>1, <2>1 DEF Marked
  <2>5. Struck \subseteq Struck' /\ p \in Struck' BY <2>2, <2>3, <2>4 DEF Struck
  <2>6. Ledger \cup B \subseteq Ledger' BY <1>5, <2>2, <2>5, LedgerGrows
  <2> QED BY <1>1, <1>5, <2>1, <2>6, TurnKept
<1> QED BY <1>6, <1>7

LEMMA NextTurns == IInv /\ IInv' /\ WaitInv /\ TurnInv /\ [Next]_vars => TurnInv'
<1> SUFFICES ASSUME IInv, IInv', WaitInv, TurnInv, [Next]_vars PROVE TurnInv'
  OBVIOUS
<1>1. CASE Tick \/ Ended \/ UNCHANGED vars
  BY <1>1, TurnStutters DEF Tick, Ended, vars, game, outcome, looping
<1>2. ASSUME NEW p \in Player, Resign(p) PROVE TurnInv'
  <2>1. status = "running" /\ status' = "ended" BY <1>2 DEF Resign, Idle, EndGame
  <2>2. {} \cap Ledger = {} OBVIOUS
  <2> QED BY <1>2, <2>1, <2>2, ResignWrites, EndedTurn
<1>3. ASSUME NEW p \in Player, NEW sub \in Submission, AcceptDraw(p, sub) PROVE TurnInv'
  <2>1. status = "running" /\ status' = "ended"
    BY <1>3 DEF AcceptDraw, Admitted, Idle, EndGame
  <2>2. {<<"draw_accept", p>>} \cap Ledger = {} BY LedgerFree
  <2> QED BY <1>3, <2>1, <2>2, AcceptDrawWrites, EndedTurn
<1>4. ASSUME NEW p \in Player, NEW sub \in Submission, RejectIllegal(p, sub) PROVE TurnInv'
  BY <1>4, TurnStutters DEF RejectIllegal, game, outcome, looping
<1> QED
  BY <1>1, <1>2, <1>3, <1>4, TimeoutPhaseTurns, ResolvePhaseTurns, FinishPhaseTurns,
     TakeFlagTurns, ResolveStepTurns, TurnOfTurns, HoldOfTurns
     DEF Next, Timeout, LoopStep, Submit, TurnOf, HoldOf

LEMMA TurnsOnce == TurnInv => OnceATurn
<1> SUFFICES ASSUME TurnInv PROVE OnceATurn
  OBVIOUS
<1>1. OnceIn(log) BY DEF TurnInv
<1>2. \A e, f : /\ IsAct(e) /\ IsAct(f) /\ e.player = f.player
                     => Noted(e) /\ Noted(f) /\ Mark(e) = Mark(f)
                /\ e.kind = "strike" /\ f.kind = "strike" /\ e.player = f.player
                     => Noted(e) /\ Noted(f) /\ Mark(e) = Mark(f)
  BY DEF Noted, Counted, Mark, IsAct
<1> QED BY <1>1, <1>2 DEF OnceATurn, OnceIn

\* Every seat has at most one move or timeout, and at most one strike, of a
\* turn on the record, however submissions, timeouts and the resolution of
\* phases interleave and whatever the game does.
THEOREM OneActATurn == Spec => []OnceATurn
<1>1. Init => IInv /\ WaitInv /\ TurnInv BY InitIInv, InitTurns
<1>2. IInv /\ WaitInv /\ TurnInv /\ [Next]_vars => (IInv /\ WaitInv /\ TurnInv)'
  BY NextIInv, NextWaits, NextTurns
<1>3. IInv /\ WaitInv /\ TurnInv => OnceATurn BY TurnsOnce
<1> QED BY <1>1, <1>2, <1>3, PTL DEF Spec

-----------------------------------------------------------------------------
(* Draws.  The offer that stands is on the record, as part of a move the   *)
(* offering seat made itself on the turn before the offer is valid; nobody *)
(* accepts anything before the game is over.                               *)

OfferedBy(e, p, t) ==
  /\ e.kind = "move" /\ e.turn_index = t - 1 /\ e.player = p
  /\ e.submission.draw_offer /\ ~e.forced

DrawInv ==
  /\ status = "running" => \A i \in DOMAIN log : log[i].kind # "draw_accept"
  /\ pendingDrawOffer # None =>
       \E j \in DOMAIN log : OfferedBy(log[j], pendingDrawOffer.by, pendingDrawOffer.validAtTurn)
  /\ DrawNeedsBothSides

LEMMA WroteFacts ==
  ASSUME IInv, NEW B, Wrote(B)
  PROVE  /\ Len(log) \in Nat /\ DOMAIN log = 1 .. Len(log)
         /\ \A i \in DOMAIN log : i \in DOMAIN log' /\ log'[i] = log[i]
         /\ \A i \in DOMAIN log' : i \in Nat /\ i >= 1
         /\ \A i \in DOMAIN log' \ DOMAIN log :
              /\ i > Len(log)
              /\ Noted(log'[i]) => log'[i].turn_index = turnIndex /\ Mark(log'[i]) \in B
<1>1. log \in Seq(LogEntry) BY DEF IInv, EndTyped
<1>2. PICK S : \E E \in Seq(S) : Block(E, turnIndex, B) /\ log' = log \o E BY DEF Wrote
<1>3. PICK E \in Seq(S) : Block(E, turnIndex, B) /\ log' = log \o E BY <1>2
<1>4. log \in Seq(LogEntry \cup S) /\ E \in Seq(LogEntry \cup S) BY <1>1
<1>5. \A L, F \in Seq(LogEntry \cup S) :
        /\ Len(L) \in Nat /\ DOMAIN L = 1 .. Len(L)
        /\ \A i \in DOMAIN L : i \in DOMAIN (L \o F) /\ (L \o F)[i] = L[i]
        /\ \A i \in DOMAIN (L \o F) : i \in Nat /\ i >= 1
        /\ \A i \in DOMAIN (L \o F) \ DOMAIN L :
             i > Len(L) /\ i - Len(L) \in DOMAIN F /\ (L \o F)[i] = F[i - Len(L)]
  OBVIOUS
<1> QED BY <1>3, <1>4, <1>5 DEF Block

LEMMA MarkOfAccept == \A e : e.kind = "draw_accept" => Noted(e) /\ Mark(e) = <<"draw_accept", e.player>>
BY DEF Noted, Mark, IsAct

LEMMA DrawKept ==
  ASSUME IInv, DrawInv, status = "running", NEW p, NEW B \in SUBSET {ActMark(p), StrikeMark(p)},
         Wrote(B),
         \/ pendingDrawOffer' \in {None, pendingDrawOffer}
         \/ \E j \in DOMAIN log' :
              OfferedBy(log'[j], pendingDrawOffer'.by, pendingDrawOffer'.validAtTurn)
  PROVE  DrawInv'
<1>1. \A q : <<"draw_accept", q>> \notin B BY MarksDiffer
<1>2. \A i \in DOMAIN log' : log'[i].kind # "draw_accept"
  <2> SUFFICES ASSUME NEW i \in DOMAIN log', log'[i].kind = "draw_accept" PROVE FALSE
    OBVIOUS
  <2>1. CASE i \in DOMAIN log BY <2>1, WroteFacts DEF DrawInv
  <2>2. CASE i \notin DOMAIN log
    <3>1. Noted(log'[i]) /\ Mark(log'[i]) = <<"draw_accept", log'[i].player>> BY MarkOfAccept
    <3> QED BY <1>1, <2>2, <3>1, WroteFacts
  <2> QED BY <2>1, <2>2
<1>3. pendingDrawOffer' # None =>
        \E j \in DOMAIN log' :
          OfferedBy(log'[j], pendingDrawOffer'.by, pendingDrawOffer'.validAtTurn)
  <2>1. CASE pendingDrawOffer' = pendingDrawOffer BY <2>1, WroteFacts DEF DrawInv
  <2>2. CASE pendingDrawOffer' # pendingDrawOffer BY <2>2
  <2> QED BY <2>1, <2>2
<1>4. DrawNeedsBothSides' BY <1>2 DEF DrawNeedsBothSides
<1> QED BY <1>2, <1>3, <1>4 DEF DrawInv

\* What is left of an offer when a turn is over.
LEMMA OfferAfter ==
  /\ \A offer, held, entries :
       AdvanceTurn(offer, held, entries) => pendingDrawOffer' \in {None, offer}
  /\ \A p, reason, entries : Forfeit(p, reason, entries) => pendingDrawOffer' = None
  /\ \A p, reason, attempts, entries :
       LoseSeat(p, reason, attempts, entries) => pendingDrawOffer' \in {None, pendingDrawOffer}
  /\ ExpireOffer \in {None, pendingDrawOffer}
<1>1. \A offer, held, entries :
        AdvanceTurn(offer, held, entries) => pendingDrawOffer' \in {None, offer}
  BY DEF AdvanceTurn, EndGame
<1>2. \A p, reason, entries : Forfeit(p, reason, entries) => pendingDrawOffer' = None
  BY DEF Forfeit, EndGame
<1>3. ExpireOffer \in {None, pendingDrawOffer} BY DEF ExpireOffer
<1> QED BY <1>1, <1>2, <1>3 DEF LoseSeat

LEMMA PlayMoveDraw ==
  ASSUME IInv, DrawInv, NEW p \in Player, NEW sub \in Submission, PlayMove(p, sub)
  PROVE  DrawInv'
<1> DEFINE move == MoveEntry(p, sub, turnIndex, FALSE, OwnMove(Resolve(state, p, sub)), state')
           made == SignedEntry("draw_offer", p)
           offer == IF sub.draw_offer THEN [by |-> p, validAtTurn |-> turnIndex + 1]
                    ELSE ExpireOffer
<1>1. status = "running" /\ log \in Seq(OpenEntry) /\ turnIndex \in Nat
  BY SubmitFacts DEF PlayMove
<1>2. AdvanceTurn(offer, pendingSimultaneous,
                  <<move>> \o (IF sub.draw_offer THEN <<made>> ELSE <<>>))
  BY DEF PlayMove
<1>3. Wrote({ActMark(p)}) /\ {ActMark(p)} \in SUBSET {ActMark(p), StrikeMark(p)}
  BY PlayMoveWrites
<1>4. pendingDrawOffer' \in {None, offer} BY <1>2, OfferAfter
<1>5. CASE ~sub.draw_offer
  <2>1. offer = ExpireOffer BY <1>5
  <2>2. pendingDrawOffer' \in {None, pendingDrawOffer} BY <1>4, <2>1, OfferAfter
  <2> QED BY <1>1, <1>3, <2>2, DrawKept
<1>6. CASE sub.draw_offer
  <2>1. CASE pendingDrawOffer' = None BY <1>1, <1>3, <2>1, DrawKept
  <2>2. CASE pendingDrawOffer' # None
    <3>1. pendingDrawOffer'.by = p /\ pendingDrawOffer'.validAtTurn = turnIndex + 1
      BY <1>4, <1>6, <2>2
    <3>2. log' = log \o (<<move>> \o <<made>>)
      BY <1>2, <1>6, <2>2 DEF AdvanceTurn, EndGame
    <3>3. OfferedBy(move, p, turnIndex + 1)
      BY <1>1, <1>6 DEF OfferedBy, MoveEntry
    <3> HIDE DEF move, made
    <3>4. <<move>> \o <<made>> = <<move, made>> BY Pairs
    <3>5. Len(log) + 1 \in DOMAIN log' /\ log'[Len(log) + 1] = move
      <4>1. log \in Seq(OpenEntry \cup {move, made}) /\ <<move, made>> \in Seq(OpenEntry \cup {move, made})
        BY <1>1
      <4>2. \A L, F \in Seq(OpenEntry \cup {move, made}) :
              Len(F) >= 1 => Len(L) + 1 \in DOMAIN (L \o F) /\ (L \o F)[Len(L) + 1] = F[1]
        OBVIOUS
      <4>3. Len(<<move, made>>) >= 1 /\ <<move, made>>[1] = move OBVIOUS
      <4> QED BY <3>2, <3>4, <4>1, <4>2, <4>3
    <3>6. \E j \in DOMAIN log' :
            OfferedBy(log'[j], pendingDrawOffer'.by, pendingDrawOffer'.validAtTurn)
      BY <3>1, <3>3, <3>5
    <3> QED BY <1>1, <1>3, <3>6, DrawKept
  <2> QED BY <2>1, <2>2
<1> QED BY <1>5, <1>6

LEMMA AcceptDrawDraw ==
  ASSUME IInv, DrawInv, NEW p \in Player, NEW sub \in Submission, AcceptDraw(p, sub)
  PROVE  DrawInv'
<1>1. /\ status = "running" /\ status' = "ended" /\ pendingDrawOffer' = None
      /\ pendingDrawOffer # None /\ pendingDrawOffer.by # p
      /\ pendingDrawOffer.validAtTurn = turnIndex
  BY DEF AcceptDraw, Admitted, AcceptsOffer, Idle, EndGame
<1>2. Wrote({<<"draw_accept", p>>}) BY AcceptDrawWrites
<1>3. PICK j \in DOMAIN log : OfferedBy(log[j], pendingDrawOffer.by, turnIndex)
  BY <1>1 DEF DrawInv
<1>4. ASSUME NEW i \in DOMAIN log', log'[i].kind = "draw_accept"
      PROVE  \E k \in 1 .. i - 1 :
               /\ log'[k].kind = "move" /\ log'[k].turn_index = log'[i].turn_index - 1
               /\ log'[k].player # log'[i].player
               /\ log'[k].submission.draw_offer /\ ~log'[k].forced
  <2>1. i \notin DOMAIN log BY <1>1, <1>2, <1>4, WroteFacts DEF DrawInv
  <2>2. Noted(log'[i]) /\ Mark(log'[i]) = <<"draw_accept", log'[i].player>>
    BY <1>4, MarkOfAccept
  <2>3. i > Len(log) /\ log'[i].turn_index = turnIndex /\ log'[i].player = p
    BY <1>2, <2>1, <2>2, WroteFacts
  <2>4. j \in 1 .. i - 1 /\ log'[j] = log[j] BY <1>2, <1>3, <2>3, WroteFacts
  <2> QED BY <1>1, <1>3, <2>3, <2>4 DEF OfferedBy
<1>5. DrawNeedsBothSides' BY <1>4 DEF DrawNeedsBothSides
<1> QED BY <1>1, <1>5 DEF DrawInv

LEMMA NextDraws == IInv /\ DrawInv /\ [Next]_vars => DrawInv'
<1> SUFFICES ASSUME IInv, DrawInv, [Next]_vars PROVE DrawInv'
  OBVIOUS
<1> DEFINE Kept == pendingDrawOffer' \in {None, pendingDrawOffer}
<1>0. ASSUME NEW p, status = "running", Kept,
             \/ Wrote({}) \/ Wrote({ActMark(p)}) \/ Wrote({StrikeMark(p)})
             \/ Wrote({ActMark(p), StrikeMark(p)})
      PROVE  DrawInv'
  <2>1. PICK B \in SUBSET {ActMark(p), StrikeMark(p)} : Wrote(B)
    <3>1. \A m, n : {} \in SUBSET {m, n} /\ {m} \in SUBSET {m, n} /\ {n} \in SUBSET {m, n}
                    /\ {m, n} \in SUBSET {m, n}
      OBVIOUS
    <3> QED BY <1>0, <3>1
  <2> QED BY <1>0, <2>1, DrawKept
<1>1. CASE Tick \/ Ended \/ TimeoutPhase \/ ResolvePhase \/ UNCHANGED vars
  <2>1. UNCHANGED <<log, status, pendingDrawOffer>>
    BY <1>1 DEF Tick, Ended, TimeoutPhase, ResolvePhase, vars, outcome
  <2> QED BY <2>1 DEF DrawInv, DrawNeedsBothSides
<1>2. ASSUME NEW p \in Player, Resign(p) PROVE DrawInv'
  <2>1. status = "running" /\ Kept BY <1>2 DEF Resign, Idle, EndGame
  <2> QED BY <1>0, <1>2, <2>1, ResignWrites
<1>3. ASSUME NEW p \in Player, NEW sub \in Submission, Submit(p, sub) PROVE DrawInv'
  <2>1. CASE RejectIllegal(p, sub)
    <3>1. UNCHANGED <<log, status, pendingDrawOffer>> BY <2>1 DEF RejectIllegal, outcome
    <3> QED BY <3>1 DEF DrawInv, DrawNeedsBothSides
  <2>2. CASE ForceMove(p, sub)
    <3>1. status = "running" BY <2>2, SubmitFacts DEF ForceMove, ThirdIllegal
    <3>2. Kept BY <2>2, OfferAfter DEF ForceMove
    <3> QED BY <1>0, <2>2, <3>1, <3>2, ForceMoveWrites
  <2>3. CASE StrikeOutOnIllegal(p, sub)
    <3>1. status = "running" BY <2>3, SubmitFacts DEF StrikeOutOnIllegal, ThirdIllegal
    <3>2. Kept BY <2>3, OfferAfter DEF StrikeOutOnIllegal
    <3> QED BY <1>0, <2>3, <3>1, <3>2, StrikeOutOnIllegalWrites
  <2>4. CASE HoldMove(p, sub) \/ HoldForced(p, sub) \/ StrikeOutInPhase(p, sub)
    <3>1. status = "running" BY <2>4, HoldOfFacts DEF HoldOf
    <3>2. Kept BY <2>4, OfferAfter DEF HoldMove, HoldForced, StrikeOutInPhase
    <3>3. Wrote({}) \/ Wrote({StrikeMark(p)})
      <4>1. HoldMove(p, sub) => log' = log BY DEF HoldMove
      <4> QED BY <2>4, <3>1, <4>1, SilentWrites, HoldForcedWrites, StrikeOutInPhaseWrites
    <3> QED BY <1>0, <3>1, <3>2, <3>3
  <2> QED BY <1>3, <2>1, <2>2, <2>3, <2>4, PlayMoveDraw, AcceptDrawDraw DEF Submit
<1>4. ASSUME NEW p \in Player, TimeoutTurn(p) PROVE DrawInv'
  <2>1. status = "running" BY <1>4, TurnOfFacts DEF TurnOf
  <2>2. Kept
    BY <1>4, OfferAfter DEF TimeoutTurn, TimeoutMove, TimeoutStrikeOut, TimeoutFlag
  <2> QED
    BY <1>0, <1>4, <2>1, <2>2, TimeoutMoveWrites, TimeoutStrikeOutWrites, TimeoutFlagWrites
       DEF TimeoutTurn
<1>5. CASE FinishPhase
  <2>1. status = "running" /\ Kept BY <1>5, FinishPhaseHolds, OfferAfter DEF FinishPhase
  <2> QED BY <1>0, <1>5, <2>1, FinishPhaseWrites
<1>6. ASSUME NEW p \in Player, TakeFlag(p) PROVE DrawInv'
  <2>1. status = "running" /\ Kept BY <1>6, TakeFlagHolds, OfferAfter DEF TakeFlag
  <2> QED BY <1>0, <1>6, <2>1, TakeFlagWrites
<1>7. ASSUME NEW p \in Player, ResolveStep(p) PROVE DrawInv'
  <2>1. Resolving(p) /\ status = "running" BY <1>7, ResolveStepHolds
  <2>2. Kept
    BY <1>7, OfferAfter
       DEF ResolveStep, ResolveMove, ResolveForced, ResolveStale, ResolveTimeout,
           ResolveStrikeOut, NextSeat
  <2> QED BY <1>0, <1>7, <2>1, <2>2, ResolveWrites DEF ResolveStep
<1> HIDE DEF Kept
<1> QED BY <1>1, <1>2, <1>3, <1>4, <1>5, <1>6, <1>7 DEF Next, Timeout, LoopStep

\* Nobody is given a draw alone: an accepted offer was made by the other seat,
\* with a move of its own, on the turn before; a forced move makes no offer and
\* an offer that was not taken up at once is gone.
THEOREM DrawsAreAgreed == Spec => []DrawNeedsBothSides
<1>1. Init => IInv /\ DrawInv
  <2>1. Init => DrawInv BY DEF Init, DrawInv, DrawNeedsBothSides
  <2> QED BY <2>1, InitIInv
<1>2. IInv /\ DrawInv /\ [Next]_vars => (IInv /\ DrawInv)' BY NextIInv, NextDraws
<1>3. IInv /\ DrawInv => DrawNeedsBothSides BY DEF DrawInv
<1> QED BY <1>1, <1>2, <1>3, PTL DEF Spec


-----------------------------------------------------------------------------
(***************************************************************************)
(* PHASES                                                                  *)
(*                                                                         *)
(* Whom the room waits for, for every game whose phases last (PhasesLast): *)
(* it never waits for nobody, never drops what a seat submitted in time,   *)
(* and never lets a seat think past its side clock.                        *)
(*                                                                         *)
(* None of the three is inductive.  A submission may outlive its phase: a  *)
(* seat lost in the middle of one stays held, and is carried into later    *)
(* turns when one other mover is left and plays alone.  So the invariant   *)
(* says of every held seat, at every step of the two loops, that it is     *)
(* either lost with its loss on the record, or held for this turn and      *)
(* still to be resolved or just resolved; and of the clocks, that a fallen *)
(* flag is one the running loop is about to take.                          *)
(***************************************************************************)

\* Seat p has its move, its timeout or its elimination of turn t in the log L.
Recorded(L, p, t) ==
  \E i \in DOMAIN L :
    (IsAct(L[i]) \/ L[i].kind = "elimination") /\ L[i].player = p /\ L[i].turn_index = t

\* Seat p is to move in g, if anybody still is.
ToMove(g, p) == IsTerminal(g) # None \/ p \in PlayersToMove(g)

\* The two things a held seat may be.
Settled(p) == p \in Gone(state) /\ Recorded(log, p, Held[p].turn_index)
InPhase(p) ==
  /\ Held[p].turn_index = turnIndex
  /\ p \in Passed => IsTerminal(state) # None \/ Recorded(log, p, turnIndex)
  /\ p \notin Passed => ToMove(state, p)

TimedOut(p) == Held[p] # None /\ Held[p].forced = "timeout"

PhaseInv ==
  status = "running" =>
    /\ Idle => IsTerminal(state) = None /\ WaitingFor(state, pendingSimultaneous) # {}
    /\ \A p \in Player : Held[p] # None => Settled(p) \/ InPhase(p)
    /\ loop # "resolve" => \A p \in Player : TimedOut(p) => loop = "flags" /\ ToMove(state, p)

FlagInv ==
  status = "running" =>
    /\ \A p \in Player \ Gone(state) :
         FlagFallen(cumulativeMs, p) => loop = "flags" /\ TimedOut(p)
    /\ Idle => deadline \in Nat
    /\ Idle /\ SideBudget # None =>
         \A p \in WaitingFor(state, pendingSimultaneous) : deadline <= SideBudget - cumulativeMs[p]

-----------------------------------------------------------------------------
(* What the games promise, as the steps use it.                            *)

LEMMA PhaseLasts ==
  ASSUME PhasesLast, NEW g \in GState, NEW p \in PlayersToMove(g), NEW h \in GState,
         h = ForfeitPlayer(g, p) \/ \E m \in Move : h = Apply(g, p, m)
  PROVE  /\ \A q : q # p /\ ToMove(g, q) => ToMove(h, q)
         /\ PlayersToMove(g) # {p} => PlayersToMove(h) \subseteq PlayersToMove(g) \ {p}
<1>1. h # None BY NoneIsNothing
<1>2. IsTerminal(g) = None BY KernelContract
<1>3. h \in {Apply(g, p, m) : m \in Move} \cup {ForfeitPlayer(g, p)} OBVIOUS
<1>4. IsTerminal(h) = None /\ PlayersToMove(g) # {p}
        => PlayersToMove(h) = PlayersToMove(g) \ {p}
  BY <1>1, <1>3 DEF PhasesLast
<1>5. IsTerminal(h) # None => PlayersToMove(h) = {} BY KernelContract
<1>6. \A q : q # p /\ ToMove(g, q) => ToMove(h, q)
  <2> SUFFICES ASSUME NEW q, q # p, ToMove(g, q) PROVE ToMove(h, q)
    OBVIOUS
  <2>1. q \in PlayersToMove(g) /\ PlayersToMove(g) # {p} BY <1>2 DEF ToMove
  <2> QED BY <1>4, <2>1 DEF ToMove
<1> QED BY <1>4, <1>5, <1>6

LEMMA ForfeitLasts ==
  ASSUME PhasesLast, NEW g \in GState, NEW p \in Player, ToMove(g, p),
         ForfeitPlayer(g, p) # None
  PROVE  \A q : q # p /\ ToMove(g, q) => ToMove(ForfeitPlayer(g, p), q)
<1>1. CASE p \in PlayersToMove(g)
  <2>1. ForfeitPlayer(g, p) \in GState BY GameTypes
  <2> QED BY <1>1, <2>1, PhaseLasts
<1>2. CASE p \notin PlayersToMove(g)
  <2>1. IsTerminal(g) # None BY <1>2 DEF ToMove
  <2> QED BY <2>1 DEF PhasesLast, ToMove
<1> QED BY <1>1, <1>2

LEMMA MoversStay ==
  ASSUME NEW g \in GState, NEW q \in PlayersToMove(g)
  PROVE  q \in Player /\ q \notin Gone(g) /\ IsTerminal(g) = None
BY KernelContract

-----------------------------------------------------------------------------
(* What a step keeps of the record.                                        *)

LEMMA RecordsKept ==
  ASSUME IInv, NEW B, Wrote(B), NEW p, NEW t, Recorded(log, p, t)
  PROVE  Recorded(log', p, t)
BY WroteFacts DEF Recorded

LEMMA SettledKept ==
  ASSUME IInv, NEW B, Wrote(B), Gone(state) \subseteq Gone(state'),
         NEW q \in Player, Held'[q] = Held[q], Settled(q)
  PROVE  Settled(q)'
BY RecordsKept DEF Settled

\* An act or an elimination that a step appends is on the record.
LEMMA RecordedEntry ==
  ASSUME IInv, NEW a, NEW b, NEW p, NEW t,
         log' = Append(log, a) \/ log' = log \o <<a, b>>,
         /\ IsAct(a) \/ a.kind = "elimination"
         /\ a.player = p /\ a.turn_index = t
  PROVE  Recorded(log', p, t)
<1>1. log \in Seq(LogEntry) BY DEF IInv, EndTyped
<1>2. Len(log) + 1 \in DOMAIN log' /\ log'[Len(log) + 1] = a
  <2>1. \A L, F \in Seq(LogEntry \cup {a, b}) :
          Len(F) >= 1 => Len(L) + 1 \in DOMAIN (L \o F) /\ (L \o F)[Len(L) + 1] = F[1]
    OBVIOUS
  <2>2. /\ log \in Seq(LogEntry \cup {a, b}) /\ <<a, b>> \in Seq(LogEntry \cup {a, b})
        /\ <<a>> \in Seq(LogEntry \cup {a, b})
        /\ Len(<<a, b>>) >= 1 /\ <<a, b>>[1] = a /\ Len(<<a>>) >= 1 /\ <<a>>[1] = a
    BY <1>1
  <2>3. Append(log, a) = log \o <<a>> BY <1>1
  <2> QED BY <2>1, <2>2, <2>3
<1> QED BY <1>2 DEF Recorded

LEMMA RecordedSecond ==
  ASSUME IInv, NEW a, NEW b, NEW p, NEW t, log' = log \o <<a, b>>,
         b.kind = "elimination", b.player = p, b.turn_index = t
  PROVE  Recorded(log', p, t)
<1>1. log \in Seq(LogEntry) BY DEF IInv, EndTyped
<1>2. Len(log) + 2 \in DOMAIN log' /\ log'[Len(log) + 2] = b
  <2> DEFINE F == <<a, b>>
             X == LogEntry \cup {a, b}
  <2>1. log \in Seq(X) /\ F \in Seq(X) /\ Len(F) = 2 /\ F[2] = b BY <1>1
  <2>2. \A K, M \in Seq(X) :
          /\ Len(K) \in Nat /\ DOMAIN (K \o M) = 1 .. Len(K) + Len(M)
          /\ \A i \in 1 .. Len(M) : (K \o M)[Len(K) + i] = M[i]
    OBVIOUS
  <2>3. log' = log \o F OBVIOUS
  <2> HIDE DEF F, X
  <2>4. Len(log) \in Nat /\ DOMAIN log' = 1 .. Len(log) + 2 /\ log'[Len(log) + 2] = F[2]
    BY <2>1, <2>2, <2>3
  <2> QED BY <2>1, <2>4
<1> QED BY <1>2 DEF Recorded

LEMMA EndedPhase == IInv' /\ status' = "ended" => PhaseInv' /\ FlagInv'
BY DEF PhaseInv, FlagInv

\* Steps that change nothing the two invariants speak of but the time.
LEMMA PhaseStutters ==
  ASSUME PhaseInv,
         UNCHANGED <<log, status, turnIndex, state, pendingSimultaneous, loop, batch, cursor>>
  PROVE  PhaseInv'
BY DEF PhaseInv, Settled, InPhase, TimedOut, ToMove, Recorded, Passed, Held, Idle, WaitingFor

LEMMA FlagStutters ==
  ASSUME FlagInv,
         UNCHANGED <<status, state, pendingSimultaneous, loop, batch, cumulativeMs, deadline>>
  PROVE  FlagInv'
BY DEF FlagInv, TimedOut, Held, Idle, WaitingFor, FlagFallen

-----------------------------------------------------------------------------
(* A turn with one mover: whoever is held is settled, and stays so.        *)

LEMMA AloneSettled ==
  ASSUME IInv, PhaseInv, Idle, NEW p \in Player, Alone(p)
  PROVE  /\ pendingSimultaneous[p] = None
         /\ Held = pendingSimultaneous
         /\ \A q \in Player : Held[q] # None => Settled(q) /\ q # p /\ ~TimedOut(q)
<1>1. /\ loop = "none" /\ status = "running" /\ Held = pendingSimultaneous /\ Passed = {}
  BY DEF Idle, Held, Passed
<1>2. IsTerminal(state) = None /\ WaitingFor(state, pendingSimultaneous) # {}
  BY <1>1 DEF PhaseInv
<1>3. pendingSimultaneous[p] = None BY <1>2 DEF WaitingFor, Alone
<1>4. ASSUME NEW q \in Player, Held[q] # None PROVE Settled(q) /\ q # p /\ ~TimedOut(q)
  <2>1. q # p /\ q \notin PlayersToMove(state) BY <1>1, <1>3, <1>4 DEF Alone
  <2>2. ~InPhase(q) BY <1>1, <1>2, <2>1 DEF InPhase, ToMove
  <2> QED BY <1>1, <1>4, <2>1, <2>2 DEF PhaseInv
<1> QED BY <1>1, <1>3, <1>4

LEMMA TurnOfGone ==
  ASSUME IInv, NEW p \in Player, TurnOf(p), status' = "running"
  PROVE  Gone(state) \subseteq Gone(state')
<1>1. p \in PlayersToMove(state) /\ state \in GState /\ status = "running"
  BY TurnOfFacts DEF IInv, RestTyped
<1>2. ASSUME NEW sub \in Submission, PlayMove(p, sub) PROVE Gone(state) \subseteq Gone(state')
  <2>1. IsMove(p, sub) /\ ~IsIllegal(p, sub) /\ Alone(p) BY <1>2 DEF PlayMove
  <2>2. /\ Resolve(state, p, sub) \in Move
        /\ Apply(state, p, Resolve(state, p, sub)) \in GState
        /\ state' = Apply(state, p, Resolve(state, p, sub))
    BY <1>2, <2>1, AppliedType DEF PlayMove
  <2> QED BY <2>2, GoneGrows
<1>3. ASSUME NEW sub \in Submission, ForceMove(p, sub) PROVE Gone(state) \subseteq Gone(state')
  <2>1. PICK pick \in SeededMoves(p, "illegal") : state' = Apply(state, p, pick.move)
    BY <1>3 DEF ForceMove
  <2>2. pick \in Pick /\ state' \in GState BY <1>1, <2>1, IInvTypeOK, SeededMovesType
  <2> QED BY <2>1, <2>2, GoneGrows DEF Pick
<1>4. ASSUME TimeoutMove(p) PROVE Gone(state) \subseteq Gone(state')
  <2>1. PICK pick \in TimeoutMoves(p) : state' = Apply(state, p, pick.move)
    BY <1>4 DEF TimeoutMove
  <2>2. pick \in Pick /\ state' \in GState BY <1>1, <2>1, IInvTypeOK, TimeoutMovesType
  <2> QED BY <2>1, <2>2, GoneGrows DEF Pick
<1>5. ASSUME \/ TimeoutStrikeOut(p) \/ TimeoutFlag(p)
             \/ \E sub \in Submission : StrikeOutOnIllegal(p, sub)
      PROVE  Gone(state) \subseteq Gone(state')
  <2>1. \E reason, attempts, entries : LoseSeat(p, reason, attempts, entries)
    BY <1>5 DEF TimeoutStrikeOut, TimeoutFlag, StrikeOutOnIllegal
  <2>2. SeatLeaves(p) BY <1>1, <2>1, LoseFacts
  <2> QED BY <2>2, LeavesGone
<1> QED BY <1>2, <1>3, <1>4, <1>5 DEF TurnOf, TimeoutTurn

\* The same of the phases' last step: nothing is held any more.
LEMMA NextTurnPhase ==
  ASSUME IInv, IInv', NEW B, Wrote(B), Gone(state) \subseteq Gone(state'),
         NEW held \in [Player -> HeldSubmission \cup {None}], NextTurn(held),
         \A q \in Player : held[q] # None =>
           held[q] = Held[q] /\ Settled(q) /\ ~TimedOut(q)
  PROVE  PhaseInv'
<1>1. /\ status' = "running" /\ loop' = "none" /\ pendingSimultaneous' = held
      /\ IsTerminal(state') = None /\ Held' = held
  BY DEF NextTurn, Held
<1>2. state' \in GState BY DEF IInv, RestTyped
<1>3. PlayersToMove(state') # {} /\ PlayersToMove(state') \subseteq Player \ Gone(state')
  BY <1>1, <1>2, KernelContract
<1> HIDE DEF Held
<1>4. \A q \in Player : Held'[q] # None => Settled(q)'
  BY <1>1, SettledKept
<1>5. \A q \in Player : Held'[q] # None => q \in Gone(state')
  BY <1>4 DEF Settled
<1>6. WaitingFor(state', held) # {}
  BY <1>1, <1>3, <1>5 DEF WaitingFor
<1>7. \A q \in Player : ~TimedOut(q)' BY <1>1 DEF TimedOut
<1> QED BY <1>1, <1>4, <1>6, <1>7 DEF PhaseInv

LEMMA TurnOfPhase ==
  ASSUME IInv, IInv', PhaseInv, NEW p \in Player, TurnOf(p)
  PROVE  PhaseInv'
<1>1. Idle /\ Alone(p) BY TurnOfFacts
<1>2. /\ Held = pendingSimultaneous
      /\ \A q \in Player : Held[q] # None => Settled(q) /\ q # p /\ ~TimedOut(q)
  BY <1>1, AloneSettled
<1>3. CASE status' = "ended" BY <1>3, EndedPhase
<1>4. CASE status' # "ended"
  <2>1. PICK held \in {pendingSimultaneous, [pendingSimultaneous EXCEPT ![p] = None]} :
          NextTurn(held)
    BY <1>4, TurnOfFacts
  <2>2. /\ pendingSimultaneous \in [Player -> HeldSubmission \cup {None}]
        /\ held \in [Player -> HeldSubmission \cup {None}]
    BY <2>1 DEF IInv, EndTyped
  <2>3. \A q \in Player : held[q] # None => held[q] = Held[q]
    BY <1>2, <2>1, <2>2
  <2>4. \E B : Wrote(B)
    BY PlayMoveWrites, ForceMoveWrites, StrikeOutOnIllegalWrites,
       TimeoutMoveWrites, TimeoutStrikeOutWrites, TimeoutFlagWrites
       DEF TurnOf, TimeoutTurn
  <2>5. Gone(state) \subseteq Gone(state') BY <2>1, TurnOfGone DEF NextTurn
  <2> HIDE DEF Held
  <2>6. \A q \in Player : held[q] # None => held[q] = Held[q] /\ Settled(q) /\ ~TimedOut(q)
    BY <1>2, <2>3
  <2> QED BY <2>1, <2>2, <2>4, <2>5, <2>6, NextTurnPhase
<1> QED BY <1>3, <1>4

-----------------------------------------------------------------------------
(* A submission held for a phase.                                          *)

LEMMA HoldOfWrites ==
  ASSUME IInv, NEW p \in Player, HoldOf(p)
  PROVE  \E B : Wrote(B)
<1>1. ASSUME NEW sub \in Submission, HoldMove(p, sub) PROVE log' = log BY <1>1 DEF HoldMove
<1> QED
  BY <1>1, HoldOfFacts, SilentWrites, HoldForcedWrites, StrikeOutInPhaseWrites DEF HoldOf

LEMMA HoldOfRecord ==
  ASSUME IInv, NEW p \in Player, HoldOf(p), status' = "running"
  PROVE  state' = state \/ (SeatLeaves(p) /\ Recorded(log', p, turnIndex))
<1>1. ASSUME NEW sub \in Submission, HoldMove(p, sub) \/ HoldForced(p, sub) PROVE state' = state
  BY <1>1 DEF HoldMove, HoldForced, game
<1>2. ASSUME NEW sub \in Submission, StrikeOutInPhase(p, sub)
      PROVE  SeatLeaves(p) /\ Recorded(log', p, turnIndex)
  <2>1. ~Forfeit(p, "three_strikes", <<StrikeEntry(p, "illegal_move")>>)
    BY DEF Forfeit, EndGame
  <2>2. /\ SeatLeaves(p)
        /\ log' = log \o <<StrikeEntry(p, "illegal_move"), EliminationEntry(p, "three_strikes")>>
    BY <1>2, <2>1 DEF StrikeOutInPhase
  <2> DEFINE out == EliminationEntry(p, "three_strikes")
             hit == StrikeEntry(p, "illegal_move")
  <2>3. out.kind = "elimination" /\ out.player = p /\ out.turn_index = turnIndex
    BY DEF EliminationEntry
  <2>4. log' = log \o <<hit, out>> BY <2>2
  <2> HIDE DEF out, hit
  <2> QED BY <2>2, <2>3, <2>4, RecordedSecond
<1> QED BY <1>1, <1>2 DEF HoldOf

LEMMA HoldOfPhase ==
  ASSUME PhasesLast, IInv, IInv', PhaseInv, NEW p \in Player, HoldOf(p)
  PROVE  PhaseInv'
<1>1. CASE status' = "ended" BY <1>1, EndedPhase
<1>2. CASE status' # "ended"
  <2>1. /\ Idle /\ status = "running" /\ p \in PlayersToMove(state)
        /\ status' = "running" /\ turnIndex' = turnIndex
        /\ state' = state \/ (SeatLeaves(p) /\ Recorded(log', p, turnIndex))
        /\ \E held : Holds(p, held) /\ Collect(held)
    BY <1>2, HoldOfFacts, HoldOfRecord
  <2>2. /\ loop = "none" /\ Held = pendingSimultaneous /\ Passed = {}
        /\ state \in GState /\ state' \in GState
    BY <2>1 DEF Idle, Held, Passed, IInv, RestTyped
  <2>3. PICK held : Holds(p, held) /\ Collect(held) BY <2>1
  <2>4. /\ Held' = held /\ loop' \in {"none", "resolve"} /\ Passed' = {}
        /\ loop' = "none" => pendingSimultaneous' = held /\ WaitingFor(state', held) # {}
    <3>1. \A q \in Player : ~(q < 0) BY SeatsAssumption DEF Player
    <3> QED BY <2>2, <2>3, <3>1 DEF Collect, looping, Held, Passed
  <2>5. Gone(state) \subseteq Gone(state') /\ (SeatLeaves(p) => p \in Gone(state'))
    BY <2>1, LeavesGone
  <2>6. \A q : q # p /\ ToMove(state, q) => ToMove(state', q)
    <3>1. CASE state' = state BY <3>1
    <3>2. CASE state' # state
      <4>1. ForfeitPlayer(state, p) # None /\ state' = ForfeitPlayer(state, p)
        BY <2>1, <3>2 DEF SeatLeaves
      <4>2. ToMove(state, p) BY <2>1 DEF ToMove
      <4> QED BY <2>2, <4>1, <4>2, ForfeitLasts
    <3> QED BY <3>1, <3>2
  <2> HIDE DEF Held, Passed
  <2>7. \A q \in Player : Held'[q] # None => Settled(q)' \/ InPhase(q)'
    <3> SUFFICES ASSUME NEW q \in Player, Held'[q] # None PROVE Settled(q)' \/ InPhase(q)'
      OBVIOUS
    <3>1. CASE q = p
      <4>1. Held'[p].turn_index = turnIndex BY <2>3, <2>4 DEF Holds
      <4>2. CASE state' = state BY <2>1, <2>4, <3>1, <4>1, <4>2 DEF InPhase, ToMove
      <4>3. CASE state' # state BY <2>1, <2>5, <3>1, <4>1, <4>3 DEF Settled
      <4> QED BY <4>2, <4>3
    <3>2. CASE q # p
      <4>1. Held'[q] = Held[q] BY <2>2, <2>3, <2>4, <3>2 DEF Holds
      <4>2. Settled(q) \/ InPhase(q) BY <2>1, <4>1 DEF PhaseInv
      <4>3. CASE Settled(q) BY <2>5, <4>1, <4>3, HoldOfWrites, SettledKept
      <4>4. CASE InPhase(q) BY <2>1, <2>2, <2>4, <2>6, <3>2, <4>1, <4>4 DEF InPhase
      <4> QED BY <4>2, <4>3, <4>4
    <3> QED BY <3>1, <3>2
  <2>8. \A q \in Player : ~TimedOut(q)'
    <3> SUFFICES ASSUME NEW q \in Player, TimedOut(q)' PROVE FALSE
      OBVIOUS
    <3>1. q # p /\ Held'[q] = Held[q] BY <2>2, <2>3, <2>4 DEF Holds, TimedOut
    <3>2. TimedOut(q) BY <3>1 DEF TimedOut
    <3> QED BY <2>1, <2>2, <3>2 DEF PhaseInv
  <2>9. Idle' => IsTerminal(state') = None /\ WaitingFor(state', pendingSimultaneous') # {}
    <3> SUFFICES ASSUME Idle'
                 PROVE  IsTerminal(state') = None /\ WaitingFor(state', pendingSimultaneous') # {}
      OBVIOUS
    <3>1. WaitingFor(state', pendingSimultaneous') # {} BY <2>4 DEF Idle
    <3>2. PlayersToMove(state') # {} BY <3>1 DEF WaitingFor
    <3> QED BY <2>2, <3>1, <3>2, KernelContract
  <2> QED BY <2>7, <2>8, <2>9 DEF PhaseInv
<1> QED BY <1>1, <1>2

-----------------------------------------------------------------------------
(* The two loops.                                                          *)

LEMMA TimeoutPhasePhase == ASSUME IInv, IInv', PhaseInv, TimeoutPhase PROVE PhaseInv'
<1>1. /\ Idle /\ status = "running" /\ status' = "running" /\ turnIndex' = turnIndex
      /\ state' = state /\ loop' = "flags" /\ log' = log
      /\ Held = pendingSimultaneous /\ Held' = pendingSimultaneous'
  BY TimeoutPhaseHolds DEF TimeoutPhase
<1>2. loop = "none" /\ Passed = {} /\ Passed' = {} BY <1>1 DEF Idle, Passed
<1> DEFINE absent == WaitingFor(state, pendingSimultaneous)
<1>3. \A q \in Player :
        /\ q \in absent => /\ Held'[q].turn_index = turnIndex /\ ToMove(state, q)
        /\ q \notin absent => Held'[q] = Held[q]
  BY <1>1, TimeoutPhaseHolds DEF WaitingFor, ToMove
<1> HIDE DEF Held, Passed, absent
<1>4. \A q \in Player : Held'[q] # None => Settled(q)' \/ InPhase(q)'
  <2> SUFFICES ASSUME NEW q \in Player, Held'[q] # None PROVE Settled(q)' \/ InPhase(q)'
    OBVIOUS
  <2>1. CASE q \in absent BY <1>1, <1>2, <1>3, <2>1 DEF InPhase
  <2>2. CASE q \notin absent
    <3>1. Settled(q) \/ InPhase(q) BY <1>1, <1>3, <2>2 DEF PhaseInv
    <3>2. Settled(q) => Settled(q)' BY <1>1, <1>3, <2>2 DEF Settled
    <3>3. InPhase(q) => InPhase(q)' BY <1>1, <1>2, <1>3, <2>2 DEF InPhase
    <3> QED BY <3>1, <3>2, <3>3
  <2> QED BY <2>1, <2>2
<1>5. \A q \in Player : TimedOut(q)' => ToMove(state', q)
  <2> SUFFICES ASSUME NEW q \in Player, TimedOut(q)' PROVE ToMove(state', q)
    OBVIOUS
  <2>1. CASE q \in absent BY <1>1, <1>3, <2>1
  <2>2. CASE q \notin absent
    <3>1. TimedOut(q) BY <1>3, <2>2 DEF TimedOut
    <3> QED BY <1>1, <1>2, <3>1 DEF PhaseInv
  <2> QED BY <2>1, <2>2
<1> QED BY <1>1, <1>4, <1>5 DEF PhaseInv, Idle

LEMMA ResolvePhasePhase == ASSUME IInv, IInv', PhaseInv, ResolvePhase PROVE PhaseInv'
<1>1. /\ status = "running" /\ status' = "running" /\ turnIndex' = turnIndex
      /\ state' = state /\ loop = "flags" /\ loop' = "resolve" /\ Held' = Held
      /\ cursor' = 0 /\ log' = log
  BY ResolvePhaseHolds DEF ResolvePhase
<1>2. Passed = {} /\ Passed' = {}
  <2>1. \A q \in Player : ~(q < 0) BY SeatsAssumption DEF Player
  <2> QED BY <1>1, <2>1 DEF Passed
<1> HIDE DEF Held, Passed
<1>3. \A q \in Player : Settled(q) => Settled(q)' BY <1>1 DEF Settled
<1>4. \A q \in Player : InPhase(q) => InPhase(q)' BY <1>1, <1>2 DEF InPhase
<1> QED BY <1>1, <1>3, <1>4 DEF PhaseInv, Idle

LEMMA TakeFlagPhase ==
  ASSUME PhasesLast, IInv, IInv', PhaseInv, NEW p \in Player, TakeFlag(p)
  PROVE  PhaseInv'
<1>1. status = "running" /\ loop = "flags" /\ p \in Flagged BY TakeFlagHolds
<1>2. CASE status' = "ended" BY <1>2, EndedPhase
<1>3. CASE status' # "ended"
  <2>1. /\ status' = "running" /\ turnIndex' = turnIndex /\ SeatLeaves(p)
        /\ loop' = "flags" /\ Held = pendingSimultaneous /\ Held' = [Held EXCEPT ![p] = None]
    BY <1>3, TakeFlagHolds
  <2>2. Passed = {} /\ Passed' = {} BY <1>1, <2>1 DEF Passed
  <2>3. state \in GState /\ Gone(state) \subseteq Gone(state')
    BY <2>1, LeavesGone DEF IInv, RestTyped
  <2>4. ToMove(state, p)
    <3>1. TimedOut(p) BY <1>1, <2>1 DEF Flagged, TimedOut
    <3> QED BY <1>1, <3>1 DEF PhaseInv
  <2>5. \A q : q # p /\ ToMove(state, q) => ToMove(state', q)
    BY <2>1, <2>3, <2>4, ForfeitLasts DEF SeatLeaves
  <2>6. Held \in [Player -> HeldSubmission \cup {None}] BY HeldTypes
  <2> HIDE DEF Held, Passed
  <2>7. \A q \in Player : Held'[q] # None => q # p /\ Held'[q] = Held[q] BY <2>1, <2>6
  <2>8. \A q \in Player : Held'[q] # None => Settled(q)' \/ InPhase(q)'
    <3> SUFFICES ASSUME NEW q \in Player, Held'[q] # None PROVE Settled(q)' \/ InPhase(q)'
      OBVIOUS
    <3>1. Settled(q) \/ InPhase(q) BY <1>1, <2>7 DEF PhaseInv
    <3>2. Settled(q) => Settled(q)' BY <2>3, <2>7, TakeFlagWrites, SettledKept
    <3>3. InPhase(q) => InPhase(q)' BY <2>1, <2>2, <2>5, <2>7 DEF InPhase
    <3> QED BY <3>1, <3>2, <3>3
  <2>9. \A q \in Player : TimedOut(q)' => ToMove(state', q)
    <3> SUFFICES ASSUME NEW q \in Player, TimedOut(q)' PROVE ToMove(state', q)
      OBVIOUS
    <3>1. q # p /\ TimedOut(q) BY <2>7 DEF TimedOut
    <3> QED BY <1>1, <2>5, <3>1 DEF PhaseInv
  <2> QED BY <2>1, <2>8, <2>9 DEF PhaseInv, Idle
<1> QED BY <1>2, <1>3

LEMMA ActRecorded ==
  ASSUME IInv, NEW a, NEW b, NEW p, ActOf(a, turnIndex, p),
         log' = Append(log, a) \/ log' = log \o <<a, b>>
  PROVE  Recorded(log', p, turnIndex)
BY RecordedEntry DEF ActOf

LEMMA ResolveStepActs ==
  ASSUME IInv, NEW p \in Player, ResolveStep(p), status' = "running"
  PROVE  /\ state' = ForfeitPlayer(state, p) \/ \E m \in Move : state' = Apply(state, p, m)
         /\ Recorded(log', p, turnIndex)
<1>1. p \in PlayersToMove(state) BY ResolveStepHolds, ResolvingFacts
<1>2. CASE ResolveMove(p)
  <2>1. batch[p].move \in Move BY <1>2, ResolveStepHolds, ResolvingFacts DEF ResolveMove
  <2>2. ActOf(ResolvedMove(p, FALSE, OwnMove(batch[p].move)), turnIndex, p) BY EntryMarks
  <2> QED BY <1>2, <2>1, <2>2, ActRecorded DEF ResolveMove
<1>3. CASE ResolveForced(p) \/ ResolveStale(p)
  <2>1. PICK pick \in SeededMoves(p, "illegal") :
          /\ state' = Apply(state, p, pick.move)
          /\ \/ log' = Append(log, ResolvedMove(p, TRUE, pick))
             \/ log' = log \o <<ResolvedMove(p, TRUE, pick), StrikeEntry(p, "illegal_move")>>
    BY <1>3 DEF ResolveForced, ResolveStale
  <2>2. pick \in Pick BY <1>1, <2>1, IInvTypeOK, SeededMovesType
  <2>3. ActOf(ResolvedMove(p, TRUE, pick), turnIndex, p) BY EntryMarks
  <2> QED BY <2>1, <2>2, <2>3, ActRecorded DEF Pick
<1>4. CASE ResolveTimeout(p)
  <2>1. PICK pick \in TimeoutMoves(p) :
          /\ state' = Apply(state, p, pick.move)
          /\ log' = log \o <<TimeoutEntry(p, pick, state'), StrikeEntry(p, "timeout")>>
    BY <1>4 DEF ResolveTimeout
  <2>2. pick \in Pick BY <1>1, <2>1, IInvTypeOK, TimeoutMovesType
  <2>3. ActOf(TimeoutEntry(p, pick, state'), turnIndex, p) BY EntryMarks
  <2> QED BY <2>1, <2>2, <2>3, ActRecorded DEF Pick
<1>5. CASE ResolveStrikeOut(p)
  <2>1. PICK why \in {"timeout", "illegal_move"} :
          \/ Forfeit(p, "three_strikes", <<StrikeEntry(p, why)>>)
          \/ /\ SeatLeaves(p)
             /\ log' = log \o <<StrikeEntry(p, why), EliminationEntry(p, "three_strikes")>>
    BY <1>5 DEF ResolveStrikeOut
  <2>2. ~Forfeit(p, "three_strikes", <<StrikeEntry(p, why)>>) BY DEF Forfeit, EndGame
  <2> DEFINE out == EliminationEntry(p, "three_strikes")
             hit == StrikeEntry(p, why)
  <2>3. out.kind = "elimination" /\ out.player = p /\ out.turn_index = turnIndex
    BY DEF EliminationEntry
  <2>4. SeatLeaves(p) /\ log' = log \o <<hit, out>> BY <2>1, <2>2
  <2> HIDE DEF out, hit
  <2> QED BY <2>3, <2>4, RecordedSecond DEF SeatLeaves
<1> QED BY <1>2, <1>3, <1>4, <1>5 DEF ResolveStep

LEMMA ResolveStepPhase ==
  ASSUME PhasesLast, IInv, IInv', PhaseInv, NEW p \in Player, ResolveStep(p)
  PROVE  PhaseInv'
<1>1. /\ Resolving(p) /\ status = "running" /\ loop = "resolve"
      /\ p \in PlayersToMove(state) /\ state \in GState /\ state' \in GState
      /\ p >= cursor /\ cursor \in Nat /\ p \in Nat
      /\ Held = batch /\ batch[p] # None
      /\ \A q \in Due : p <= q
  <2>1. Resolving(p) /\ status = "running" /\ loop = "resolve" BY ResolveStepHolds
  <2>2. /\ p \in PlayersToMove(state) /\ p >= cursor /\ batch[p] # None
        /\ \A q \in Due : p <= q
    BY <2>1 DEF Resolving, IsFirst, Due
  <2>3. state \in GState /\ state' \in GState BY DEF IInv, RestTyped
  <2>4. cursor \in Nat /\ p \in Nat BY SeatsAssumption DEF IInv, EndTyped, Player
  <2>5. Held = batch BY <2>1 DEF Held
  <2> QED BY <2>1, <2>2, <2>3, <2>4, <2>5
<1>2. CASE status' = "ended" BY <1>2, EndedPhase
<1>3. CASE status' # "ended"
  <2>1. /\ status' = "running" /\ turnIndex' = turnIndex
        /\ loop' = "resolve" /\ cursor' = p + 1 /\ Held' = Held
    BY <1>3, ResolveStepHolds
  <2>2. Gone(state) \subseteq Gone(state') BY <2>1, ResolveStepGone
  <2>3. Recorded(log', p, turnIndex) BY <2>1, ResolveStepActs
  <2>4. \A q : q # p /\ ToMove(state, q) => ToMove(state', q)
    BY <1>1, <2>1, ResolveStepActs, PhaseLasts
  <2>5. \E B : Wrote(B) BY <1>1, ResolveWrites DEF ResolveStep
  <2>6. \A q \in Player :
          /\ q \in Passed <=> q < cursor
          /\ q \in Passed' <=> q < p + 1
          /\ q \in Nat
    BY <1>1, <2>1, SeatsAssumption DEF Passed, Player
  <2>7. IsTerminal(state) = None /\ p \notin Gone(state) BY <1>1, MoversStay
  <2> HIDE DEF Held, Passed
  <2>8. \A q \in Player : Held'[q] # None => Settled(q)' \/ InPhase(q)'
    <3> SUFFICES ASSUME NEW q \in Player, Held'[q] # None PROVE Settled(q)' \/ InPhase(q)'
      OBVIOUS
    <3>1. Held'[q] = Held[q] /\ Held[q] # None BY <2>1
    <3>2. Settled(q) \/ InPhase(q) BY <1>1, <3>1 DEF PhaseInv
    <3>3. CASE Settled(q) BY <2>2, <2>5, <3>1, <3>3, SettledKept
    <3>4. CASE ~Settled(q) /\ q = p
      <4>1. Held[p].turn_index = turnIndex BY <3>2, <3>4 DEF InPhase
      <4>2. p \in Passed' BY <1>1, <2>6
      <4> QED BY <2>1, <2>3, <3>1, <3>4, <4>1, <4>2 DEF InPhase
    <3>5. CASE ~Settled(q) /\ q # p /\ q \in Passed
      <4>1. Held[q].turn_index = turnIndex /\ Recorded(log, q, turnIndex)
        BY <2>7, <3>2, <3>5 DEF InPhase
      <4>2. Recorded(log', q, turnIndex) BY <2>5, <4>1, RecordsKept
      <4>3. q \in Passed' BY <1>1, <2>6, <3>5
      <4> QED BY <2>1, <3>1, <4>1, <4>2, <4>3 DEF InPhase
    <3>6. CASE ~Settled(q) /\ q # p /\ q \notin Passed
      <4>1. Held[q].turn_index = turnIndex /\ ToMove(state, q) BY <3>2, <3>6 DEF InPhase
      <4>2. q \in PlayersToMove(state) BY <2>7, <4>1 DEF ToMove
      <4>3. q >= cursor /\ q \in Nat BY <1>1, <2>6, <3>6
      <4>4. q \in Due BY <1>1, <3>1, <4>2, <4>3 DEF Due
      <4>5. p <= q BY <1>1, <4>4
      <4>6. q \notin Passed' BY <1>1, <2>6, <3>6, <4>3, <4>5
      <4>7. ToMove(state', q) BY <2>4, <3>6, <4>1
      <4> QED BY <2>1, <3>1, <4>1, <4>6, <4>7 DEF InPhase
    <3> QED BY <3>3, <3>4, <3>5, <3>6
  <2> QED BY <2>1, <2>8 DEF PhaseInv, Idle
<1> QED BY <1>2, <1>3

\* When the loop has nobody left to resolve and the game goes on, every held
\* seat has been answered.
LEMMA LoopAnswersAll ==
  ASSUME IInv, PhaseInv, loop = "resolve", Due = {}, IsTerminal(state) = None,
         NEW p \in Player, batch[p] # None
  PROVE  Recorded(log, p, batch[p].turn_index)
<1>1. status = "running" /\ Held = batch /\ cursor \in Nat
  BY RunningLog, SeatsAssumption DEF Held, IInv, EndTyped
<1>2. p \in Nat /\ (p \in Passed <=> p < cursor) BY SeatsAssumption DEF Passed, Player
<1> HIDE DEF Held, Passed
<1>3. Settled(p) \/ InPhase(p) BY <1>1 DEF PhaseInv
<1>4. CASE Settled(p) BY <1>1, <1>4 DEF Settled
<1>5. CASE InPhase(p) /\ p \in Passed BY <1>1, <1>5 DEF InPhase
<1>6. CASE InPhase(p) /\ p \notin Passed
  <2>1. p \in PlayersToMove(state) BY <1>6 DEF InPhase, ToMove
  <2>2. p \in Due BY <1>1, <1>2, <1>6, <2>1 DEF Due
  <2> QED BY <2>2
<1> QED BY <1>3, <1>4, <1>5, <1>6

LEMMA FinishPhasePhase == ASSUME IInv, IInv', WaitInv, PhaseInv, FinishPhase PROVE PhaseInv'
<1>1. /\ status = "running" /\ loop = "resolve" /\ state' = state
      /\ status' = "ended" \/ NextTurn(pendingSimultaneous)
  BY FinishPhaseHolds
<1>2. CASE status' = "ended" BY <1>2, EndedPhase
<1>3. CASE status' # "ended"
  <2>1. NextTurn(pendingSimultaneous) BY <1>1, <1>3
  <2>2. pendingSimultaneous \in [Player -> HeldSubmission \cup {None}] BY DEF IInv, EndTyped
  <2>3. \A q \in Player : pendingSimultaneous[q] = None BY <1>1 DEF WaitInv, NothingHeld
  <2> QED BY <1>1, <2>1, <2>2, <2>3, FinishPhaseWrites, NextTurnPhase
<1> QED BY <1>2, <1>3

-----------------------------------------------------------------------------
(* PhaseInv is inductive.                                                  *)

LEMMA InitPhase == PhasesLast /\ Init => PhaseInv
<1> SUFFICES ASSUME PhasesLast, Init PROVE PhaseInv
  OBVIOUS
<1>1. /\ state \in GState /\ IsTerminal(state) = None
      /\ pendingSimultaneous = NothingHeld /\ loop = "none"
  BY SeatsAssumption DEF Init, PhasesLast
<1>2. \A p \in Player : pendingSimultaneous[p] = None BY <1>1 DEF NothingHeld
<1>3. PlayersToMove(state) # {} /\ PlayersToMove(state) \subseteq Player BY <1>1, KernelContract
<1>4. WaitingFor(state, pendingSimultaneous) # {} BY <1>2, <1>3 DEF WaitingFor
<1>5. \A p \in Player : Held[p] = None /\ ~TimedOut(p) BY <1>1, <1>2 DEF Held, TimedOut
<1> QED BY <1>1, <1>4, <1>5 DEF PhaseInv

LEMMA NextPhase == PhasesLast /\ IInv /\ IInv' /\ WaitInv /\ PhaseInv /\ [Next]_vars => PhaseInv'
<1> SUFFICES ASSUME PhasesLast, IInv, IInv', WaitInv, PhaseInv, [Next]_vars PROVE PhaseInv'
  OBVIOUS
<1>1. CASE Tick \/ Ended \/ UNCHANGED vars
  BY <1>1, PhaseStutters DEF Tick, Ended, vars, game, outcome, looping
<1>2. ASSUME NEW p \in Player, Resign(p) \/ \E sub \in Submission : AcceptDraw(p, sub) PROVE PhaseInv'
  <2>1. status' = "ended" BY <1>2 DEF Resign, AcceptDraw, EndGame
  <2> QED BY <2>1, EndedPhase
<1>3. ASSUME NEW p \in Player, NEW sub \in Submission, RejectIllegal(p, sub) PROVE PhaseInv'
  BY <1>3, PhaseStutters DEF RejectIllegal, game, outcome, looping
<1> QED
  BY <1>1, <1>2, <1>3, TurnOfPhase, HoldOfPhase, TimeoutPhasePhase, ResolvePhasePhase,
     TakeFlagPhase, ResolveStepPhase, FinishPhasePhase
     DEF Next, Timeout, LoopStep, Submit, TurnOf, HoldOf

LEMMA PhaseWaits == IInv /\ PhaseInv => WaitsForSomeone
<1> SUFFICES ASSUME IInv, PhaseInv, Idle
             PROVE  /\ WaitingFor(state, pendingSimultaneous) # {}
                    /\ \A p \in PlayersToMove(state) :
                         pendingSimultaneous[p] # None => pendingSimultaneous[p].turn_index = turnIndex
  BY DEF WaitsForSomeone
<1>1. status = "running" /\ state \in GState /\ Held = pendingSimultaneous
  BY DEF Idle, Held, IInv, RestTyped
<1>2. ASSUME NEW p \in PlayersToMove(state), pendingSimultaneous[p] # None
      PROVE  pendingSimultaneous[p].turn_index = turnIndex
  <2>1. p \in Player /\ p \notin Gone(state) BY <1>1, MoversStay
  <2>2. InPhase(p) BY <1>1, <1>2, <2>1 DEF PhaseInv, Settled
  <2> QED BY <1>1, <2>2 DEF InPhase
<1> QED BY <1>1, <1>2 DEF PhaseInv

\* In a game whose phases last the room always waits for a seat that can still
\* answer, and what it holds of a seat to move was submitted in this turn: no
\* leftover of an earlier phase locks a seat out of its own turn.
THEOREM AlwaysWaitsForSomeone == ASSUME PhasesLast PROVE Spec => []WaitsForSomeone
<1>1. Init => IInv /\ WaitInv /\ PhaseInv BY InitIInv, InitTurns, InitPhase
<1>2. IInv /\ WaitInv /\ PhaseInv /\ [Next]_vars => (IInv /\ WaitInv /\ PhaseInv)'
  BY NextIInv, NextWaits, NextPhase
<1>3. IInv /\ WaitInv /\ PhaseInv => WaitsForSomeone BY PhaseWaits
<1> QED BY <1>1, <1>2, <1>3, PTL DEF Spec

LEMMA StepAnswersHeld ==
  IInv /\ PhaseInv /\ [Next]_vars =>
    [loop = "resolve" /\ loop' = "none" /\ status' = "running" =>
       \A p \in Player : batch[p] # None => Recorded(log', p, batch[p].turn_index)]_vars
<1> SUFFICES ASSUME IInv, PhaseInv, [Next]_vars,
                    loop = "resolve", loop' = "none", status' = "running",
                    NEW p \in Player, batch[p] # None
             PROVE  Recorded(log', p, batch[p].turn_index)
  OBVIOUS
<1>1. FinishPhase
  <2>1. ~Idle /\ status = "running" BY RunningLog DEF Idle
  <2>2. ~Tick BY <2>1 DEF Tick
  <2>3. ~Timeout
    BY <2>1 DEF Timeout, TimeoutPhase, TimeoutTurn, TimeoutMove, TimeoutStrikeOut, TimeoutFlag,
                Expired
  <2>4. ~Ended /\ ~UNCHANGED vars BY <2>1 DEF Ended, vars, looping
  <2>5. ~\E q \in Player : Resign(q) BY <2>1 DEF Resign
  <2>6. ~\E q \in Player : \E sub \in Submission : Submit(q, sub)
    <3> SUFFICES ASSUME NEW q \in Player, NEW sub \in Submission, Submit(q, sub) PROVE FALSE
      OBVIOUS
    <3>1. CASE AcceptDraw(q, sub) BY <2>1, <3>1 DEF AcceptDraw, Admitted
    <3>2. CASE RejectIllegal(q, sub) BY <2>1, <3>2 DEF RejectIllegal, IsMove, Admitted
    <3>3. CASE TurnOf(q) BY <2>1, <3>3, TurnOfFacts
    <3>4. CASE HoldOf(q) BY <2>1, <3>4, HoldOfFacts
    <3> QED BY <3>1, <3>2, <3>3, <3>4 DEF Submit, TurnOf, HoldOf
  <2>7. ~ResolvePhase /\ ~\E q \in Player : TakeFlag(q) BY DEF ResolvePhase, TakeFlag
  <2>8. ~\E q \in Player : ResolveStep(q) BY ResolveStepHolds
  <2> QED BY <2>2, <2>3, <2>4, <2>5, <2>6, <2>7, <2>8 DEF Next, LoopStep
<1>2. Due = {} /\ IsTerminal(state) = None
  BY <1>1, FinishPhaseHolds DEF NextTurn
<1>3. Recorded(log, p, batch[p].turn_index) BY <1>2, LoopAnswersAll
<1> QED BY <1>1, <1>3, FinishPhaseWrites, RecordsKept

\* No submission that was accepted for a phase is dropped: whatever is played,
\* lost or timed out in the meantime, when the turn after begins every held
\* seat has its move, its timeout or its elimination on the record.
THEOREM NoSubmissionIsDropped == ASSUME PhasesLast PROVE Spec => HeldSeatsAreAnswered
<1> DEFINE AllAnswered ==
      loop = "resolve" /\ loop' = "none" /\ status' = "running" =>
        \A p \in Player : batch[p] # None =>
          \E i \in DOMAIN log' :
            /\ IsAct(log'[i]) \/ log'[i].kind = "elimination"
            /\ log'[i].player = p /\ log'[i].turn_index = batch[p].turn_index
<1>1. Init => IInv /\ WaitInv /\ PhaseInv BY InitIInv, InitTurns, InitPhase
<1>2. IInv /\ WaitInv /\ PhaseInv /\ [Next]_vars => (IInv /\ WaitInv /\ PhaseInv)'
  BY NextIInv, NextWaits, NextPhase
<1>3. IInv /\ PhaseInv /\ [Next]_vars => [AllAnswered]_vars
  BY StepAnswersHeld DEF Recorded
<1> QED BY <1>1, <1>2, <1>3, PTL DEF Spec, HeldSeatsAreAnswered

-----------------------------------------------------------------------------
(* The side clocks.                                                        *)

LEMMA FlagFacts ==
  ASSUME IInv
  PROVE  /\ cumulativeMs \in [Player -> Nat]
         /\ SideBudget # None => SideBudget \in Nat
         /\ \A used, p : FlagFallen(used, p) => SideBudget # None
BY SeatsAssumption DEF IInv, RestTyped, FlagFallen

LEMMA Charges ==
  ASSUME IInv, NEW p \in Player, NEW ticks \in Nat
  PROVE  /\ \A q \in Player \ {p} : Charge(p, ticks)[q] = cumulativeMs[q]
         /\ SideBudget # None => Charge(p, ticks)[p] = cumulativeMs[p] + ticks
BY FlagFacts DEF Charge

\* A seat that answers before the deadline has time left.
LEMMA AnsweredInTime ==
  ASSUME IInv, FlagInv, Idle, elapsed < deadline, NEW p \in Player,
         p \in WaitingFor(state, pendingSimultaneous)
  PROVE  ~FlagFallen(Charge(p, elapsed), p)
<1> SUFFICES ASSUME SideBudget # None PROVE ~(Charge(p, elapsed)[p] >= SideBudget)
  BY DEF FlagFallen
<1>1. deadline \in Nat /\ deadline <= SideBudget - cumulativeMs[p] BY DEF FlagInv, Idle
<1>2. elapsed \in Nat /\ cumulativeMs[p] \in Nat /\ SideBudget \in Nat
  BY FlagFacts DEF IInv, EndTyped
<1>3. Charge(p, elapsed)[p] = cumulativeMs[p] + elapsed BY <1>2, Charges
<1> QED BY <1>1, <1>2, <1>3

LEMMA ClockStarts ==
  ASSUME IInv', NEW held, NextTurn(held),
         \A p \in Player \ Gone(state') : ~FlagFallen(cumulativeMs', p)
  PROVE  FlagInv'
<1>1. state' \in GState /\ cumulativeMs' \in [Player -> Nat] /\ loop' = "none"
  BY DEF IInv, RestTyped, NextTurn
<1>2. deadline' \in Nat BY <1>1, StartTurnClockType DEF NextTurn
<1>3. ASSUME SideBudget # None, NEW p \in WaitingFor(state', pendingSimultaneous')
      PROVE  deadline' <= SideBudget - cumulativeMs'[p]
  <2>1. p \in PlayersToMove(state') /\ p \in Player \ Gone(state')
    BY <1>1, KernelContract DEF WaitingFor
  <2>2. /\ ~(cumulativeMs'[p] >= SideBudget) /\ cumulativeMs'[p] \in Nat /\ SideBudget \in Nat
    BY <1>1, <1>3, <2>1, SeatsAssumption DEF FlagFallen
  <2>3. (IF SideBudget - cumulativeMs'[p] > 1 THEN SideBudget - cumulativeMs'[p] ELSE 1)
          = SideBudget - cumulativeMs'[p]
    BY <2>2
  <2>4. SideBudget - cumulativeMs'[p] \in Allowances(state', cumulativeMs')
    BY <1>3, <2>1, <2>3 DEF Allowances
  <2> QED BY <2>4 DEF NextTurn, StartTurnClock
<1> QED BY <1>1, <1>2, <1>3 DEF FlagInv

\* Seats a step charges nothing to keep the time they had.
LEMMA OthersUnflagged ==
  ASSUME IInv, FlagInv, status = "running", loop # "flags", Gone(state) \subseteq Gone(state'),
         NEW q \in Player, q \notin Gone(state'), cumulativeMs'[q] = cumulativeMs[q]
  PROVE  ~FlagFallen(cumulativeMs', q)
BY DEF FlagInv, FlagFallen

LEMMA TurnOfFlags ==
  ASSUME IInv, IInv', PhaseInv, FlagInv, NEW p \in Player, TurnOf(p)
  PROVE  FlagInv'
<1>1. Idle /\ Alone(p) /\ status = "running" /\ p \in PlayersToMove(state) BY TurnOfFacts
<1>2. p \in WaitingFor(state, pendingSimultaneous) BY <1>1, AloneSettled DEF WaitingFor
<1>3. CASE status' = "ended" BY <1>3, EndedPhase
<1>4. CASE status' # "ended"
  <2>1. PICK held : NextTurn(held) BY <1>4, TurnOfFacts
  <2>2. Gone(state) \subseteq Gone(state') /\ loop # "flags" BY <1>1, <2>1, TurnOfGone DEF NextTurn, Idle
  <2>3. elapsed \in Nat /\ PhaseBudget(state) \in Nat
    BY GameTypes DEF IInv, EndTyped, RestTyped
  <2>4. /\ \A q \in Player \ {p} : cumulativeMs'[q] = cumulativeMs[q]
        /\ p \in Gone(state') \/ ~FlagFallen(cumulativeMs', p)
    <3>1. ASSUME NEW sub \in Submission, PlayMove(p, sub) \/ ForceMove(p, sub)
          PROVE  cumulativeMs' = Charge(p, elapsed) /\ elapsed < deadline
      BY <3>1 DEF PlayMove, ForceMove, ThirdIllegal, IsMove, Admitted
    <3>2. ASSUME TimeoutMove(p)
          PROVE  cumulativeMs' = Charge(p, PhaseBudget(state)) /\ ~FlagFallen(cumulativeMs', p)
      BY <3>2 DEF TimeoutMove, Overdue
    <3>3. ASSUME \/ TimeoutStrikeOut(p) \/ TimeoutFlag(p)
                 \/ \E sub \in Submission : StrikeOutOnIllegal(p, sub)
          PROVE  /\ p \in Gone(state')
                 /\ cumulativeMs' = cumulativeMs \/ cumulativeMs' = Charge(p, PhaseBudget(state))
      <4>1. \E reason, attempts, entries : LoseSeat(p, reason, attempts, entries)
        BY <3>3 DEF TimeoutStrikeOut, TimeoutFlag, StrikeOutOnIllegal
      <4>2. SeatLeaves(p) BY <1>1, <1>4, <4>1, LoseFacts
      <4>3. cumulativeMs' = cumulativeMs \/ cumulativeMs' = Charge(p, PhaseBudget(state))
        BY <3>3 DEF TimeoutStrikeOut, TimeoutFlag, StrikeOutOnIllegal, Overdue
      <4> QED BY <4>2, <4>3, LeavesGone
    <3>4. \A ticks \in Nat : cumulativeMs' = Charge(p, ticks) =>
            \A q \in Player \ {p} : cumulativeMs'[q] = cumulativeMs[q]
      BY Charges
    <3>5. elapsed < deadline => ~FlagFallen(Charge(p, elapsed), p)
      BY <1>1, <1>2, AnsweredInTime
    <3> QED BY <2>3, <3>1, <3>2, <3>3, <3>4, <3>5 DEF TurnOf, TimeoutTurn
  <2>5. \A q \in Player \ Gone(state') : ~FlagFallen(cumulativeMs', q)
    BY <1>1, <2>2, <2>4, OthersUnflagged
  <2> QED BY <2>1, <2>5, ClockStarts
<1> QED BY <1>3, <1>4

LEMMA HoldOfFlags ==
  ASSUME PhasesLast, IInv, IInv', PhaseInv, FlagInv, NEW p \in Player, HoldOf(p)
  PROVE  FlagInv'
<1>1. CASE status' = "ended" BY <1>1, EndedPhase
<1>2. CASE status' # "ended"
  <2>1. /\ Idle /\ ~Alone(p) /\ status = "running" /\ p \in PlayersToMove(state)
        /\ pendingSimultaneous[p] = None /\ status' = "running" /\ deadline' = deadline
        /\ state' = state \/ SeatLeaves(p)
        /\ \E held : Holds(p, held) /\ Collect(held)
    BY <1>2, HoldOfFacts
  <2>2. cumulativeMs' = Charge(p, elapsed) /\ elapsed < deadline /\ elapsed \in Nat
    <3>1. PICK sub \in Submission : HoldMove(p, sub) \/ HoldForced(p, sub) \/ StrikeOutInPhase(p, sub)
      BY DEF HoldOf
    <3>2. elapsed < deadline
      BY <3>1 DEF HoldMove, HoldForced, StrikeOutInPhase, ThirdIllegal, IsMove, Admitted
    <3>3. ~Forfeit(p, "three_strikes", <<StrikeEntry(p, "illegal_move")>>)
      BY <1>2 DEF Forfeit, EndGame
    <3>4. cumulativeMs' = Charge(p, elapsed) BY <3>1, <3>3 DEF HoldMove, HoldForced, StrikeOutInPhase
    <3> QED BY <3>2, <3>4 DEF IInv, EndTyped
  <2>3. PICK held : Holds(p, held) /\ Collect(held) BY <2>1
  <2>4. loop = "none" /\ (Idle' => pendingSimultaneous' = held)
    BY <2>1, <2>3 DEF Collect, Idle
  <2>5. state \in GState /\ state' \in GState BY DEF IInv, RestTyped
  <2>6. /\ Gone(state) \subseteq Gone(state')
        /\ PlayersToMove(state') \subseteq PlayersToMove(state)
    <3>1. CASE state' = state BY <3>1
    <3>2. CASE state' # state
      <4>1. SeatLeaves(p) BY <2>1, <3>2
      <4>2. PlayersToMove(state) # {p} BY <2>1 DEF Alone
      <4>3. PlayersToMove(state') \subseteq PlayersToMove(state) \ {p}
        BY <2>1, <2>5, <4>1, <4>2, PhaseLasts DEF SeatLeaves
      <4> QED BY <4>1, <4>3, LeavesGone
    <3> QED BY <3>1, <3>2
  <2>7. \A q \in Player \ {p} : cumulativeMs'[q] = cumulativeMs[q] BY <2>2, Charges
  <2>8. ~FlagFallen(cumulativeMs', p)
    BY <2>1, <2>2, AnsweredInTime DEF WaitingFor
  <2>9. \A q \in Player \ Gone(state') : ~FlagFallen(cumulativeMs', q)
    BY <2>1, <2>4, <2>6, <2>7, <2>8, OthersUnflagged
  <2>10. ASSUME SideBudget # None, Idle', NEW q \in WaitingFor(state', pendingSimultaneous')
         PROVE  deadline' <= SideBudget - cumulativeMs'[q]
    <3>1. q \in PlayersToMove(state) /\ held[q] = None /\ q # p
      BY <2>3, <2>4, <2>6, <2>10 DEF WaitingFor, Holds
    <3>2. q \in Player BY <2>5, <3>1, MoversStay
    <3>3. q \in WaitingFor(state, pendingSimultaneous)
      BY <2>3, <3>1, <3>2 DEF WaitingFor, Holds
    <3> QED BY <2>1, <2>7, <2>10, <3>1, <3>2, <3>3 DEF FlagInv
  <2> QED BY <2>1, <2>9, <2>10 DEF FlagInv
<1> QED BY <1>1, <1>2

LEMMA TimeoutPhaseFlags == ASSUME IInv, IInv', FlagInv, TimeoutPhase PROVE FlagInv'
<1>1. /\ Idle /\ status = "running" /\ state' = state /\ loop' = "flags" /\ loop = "none"
      /\ Held' = pendingSimultaneous'
  BY TimeoutPhaseHolds DEF Idle
<1> DEFINE absent == WaitingFor(state, pendingSimultaneous)
           late == [turn_index |-> turnIndex, submission |-> None, move |-> None,
                    forced |-> "timeout"]
<1>2. \A q \in Player : q \notin absent => cumulativeMs'[q] = cumulativeMs[q]
  BY DEF TimeoutPhase
<1>3. late \in HeldSubmission /\ late.forced = "timeout" BY HeldTypes DEF HeldSubmission
<1>4. \A q \in Player : q \in absent => pendingSimultaneous'[q] = late BY TimeoutPhaseHolds
<1> HIDE DEF absent, late, Held
<1>5. \A q \in Player : q \in absent => TimedOut(q)'
  BY <1>1, <1>3, <1>4, NoneAssumption DEF TimedOut
<1>6. ASSUME NEW q \in Player \ Gone(state'), FlagFallen(cumulativeMs', q)
      PROVE  TimedOut(q)'
  <2>1. CASE q \in absent BY <1>5, <2>1
  <2>2. CASE q \notin absent BY <1>1, <1>2, <1>6, <2>2, OthersUnflagged
  <2> QED BY <2>1, <2>2
<1> QED BY <1>1, <1>6 DEF FlagInv, Idle

LEMMA TakeFlagFlags ==
  ASSUME IInv, IInv', FlagInv, NEW p \in Player, TakeFlag(p)
  PROVE  FlagInv'
<1>1. status = "running" /\ loop = "flags" BY TakeFlagHolds
<1>2. CASE status' = "ended" BY <1>2, EndedPhase
<1>3. CASE status' # "ended"
  <2>1. /\ SeatLeaves(p) /\ loop' = "flags" /\ Held' = [Held EXCEPT ![p] = None]
        /\ cumulativeMs' = cumulativeMs
    BY <1>3, TakeFlagHolds DEF TakeFlag
  <2>2. Gone(state) \subseteq Gone(state') /\ p \in Gone(state') BY <2>1, LeavesGone
  <2>3. Held \in [Player -> HeldSubmission \cup {None}] BY HeldTypes
  <2> HIDE DEF Held
  <2>4. \A q \in Player \ {p} : Held'[q] = Held[q] BY <2>1, <2>3
  <2>5. \A q \in Player \ Gone(state') : FlagFallen(cumulativeMs', q) => TimedOut(q)'
    <3> SUFFICES ASSUME NEW q \in Player \ Gone(state'), FlagFallen(cumulativeMs', q)
                 PROVE  TimedOut(q)'
      OBVIOUS
    <3>1. q \notin Gone(state) /\ q # p /\ FlagFallen(cumulativeMs, q) BY <2>1, <2>2
    <3>2. TimedOut(q) BY <1>1, <3>1 DEF FlagInv
    <3> QED BY <2>4, <3>1, <3>2 DEF TimedOut
  <2> QED BY <2>1, <2>5 DEF FlagInv, Idle
<1> QED BY <1>2, <1>3

LEMMA ResolvePhaseFlags == ASSUME IInv, IInv', FlagInv, ResolvePhase PROVE FlagInv'
<1>1. /\ status = "running" /\ state' = state /\ loop = "flags" /\ loop' = "resolve"
      /\ Held = pendingSimultaneous /\ cumulativeMs' = cumulativeMs /\ Flagged = {}
  BY ResolvePhaseHolds DEF ResolvePhase
<1>2. \A q \in Player \ Gone(state) : ~FlagFallen(cumulativeMs, q)
  <2> SUFFICES ASSUME NEW q \in Player \ Gone(state), FlagFallen(cumulativeMs, q) PROVE FALSE
    OBVIOUS
  <2>1. TimedOut(q) BY <1>1 DEF FlagInv
  <2>2. q \in Flagged BY <1>1, <2>1 DEF Flagged, TimedOut
  <2> QED BY <1>1, <2>2
<1> QED BY <1>1, <1>2 DEF FlagInv, Idle

LEMMA ResolveStepFlags ==
  ASSUME IInv, IInv', FlagInv, NEW p \in Player, ResolveStep(p)
  PROVE  FlagInv'
<1>1. status = "running" /\ loop = "resolve" BY ResolveStepHolds
<1>2. CASE status' = "ended" BY <1>2, EndedPhase
<1>3. CASE status' # "ended"
  <2>1. status' = "running" /\ loop' = "resolve" BY <1>3, ResolveStepHolds
  <2>2. Gone(state) \subseteq Gone(state') BY <2>1, ResolveStepGone
  <2>3. cumulativeMs' = cumulativeMs
    BY <2>1 DEF ResolveStep, ResolveMove, ResolveForced, ResolveStale, ResolveTimeout,
                ResolveStrikeOut, NextSeat
  <2>4. \A q \in Player \ Gone(state') : ~FlagFallen(cumulativeMs', q)
    BY <1>1, <2>2, <2>3, OthersUnflagged
  <2> QED BY <2>1, <2>4 DEF FlagInv, Idle
<1> QED BY <1>2, <1>3

LEMMA FinishPhaseFlags == ASSUME IInv, IInv', FlagInv, FinishPhase PROVE FlagInv'
<1>1. /\ status = "running" /\ loop = "resolve" /\ state' = state /\ cumulativeMs' = cumulativeMs
      /\ status' = "ended" \/ NextTurn(pendingSimultaneous)
  BY FinishPhaseHolds DEF FinishPhase
<1>2. CASE status' = "ended" BY <1>2, EndedPhase
<1>3. CASE status' # "ended"
  <2>1. \A q \in Player \ Gone(state') : ~FlagFallen(cumulativeMs', q)
    BY <1>1, OthersUnflagged
  <2> QED BY <1>1, <1>3, <2>1, ClockStarts
<1> QED BY <1>2, <1>3

LEMMA InitFlags == PhasesLast /\ Init => FlagInv
<1> SUFFICES ASSUME PhasesLast, Init PROVE FlagInv
  OBVIOUS
<1>1. IInv BY InitIInv
<1>2. cumulativeMs = [q \in Player |-> 0] /\ state \in GState BY <1>1 DEF Init, IInv, RestTyped
<1>3. PhaseBudget(state) \in Nat \ {0} /\ PlayersToMove(state) \subseteq Player
  BY <1>2, KernelContract
<1>4. \A q \in Player : ~FlagFallen(cumulativeMs, q)
  BY <1>2, SeatsAssumption DEF FlagFallen
<1>5. /\ \A q \in PlayersToMove(state) : SideBudget # None =>
           SideBudget \in Allowances(state, cumulativeMs)
      /\ \A a \in Allowances(state, cumulativeMs) : a \in Nat
  <2>1. \A q \in PlayersToMove(state) : cumulativeMs[q] = 0 BY <1>2, <1>3
  <2>2. SideBudget # None => SideBudget \in Nat \ {0} BY SeatsAssumption
  <2>3. SideBudget # None =>
          \A q \in PlayersToMove(state) :
            (IF SideBudget - cumulativeMs[q] > 1 THEN SideBudget - cumulativeMs[q] ELSE 1)
              = SideBudget
    BY <2>1, <2>2
  <2> QED BY <1>3, <2>2, <2>3 DEF Allowances
<1>6. /\ deadline \in Allowances(state, cumulativeMs)
      /\ \A b \in Allowances(state, cumulativeMs) : deadline <= b
  BY DEF Init
<1>7. ASSUME SideBudget # None, NEW q \in WaitingFor(state, pendingSimultaneous)
      PROVE  deadline <= SideBudget - cumulativeMs[q]
  <2>1. q \in PlayersToMove(state) BY DEF WaitingFor
  <2>2. deadline <= SideBudget BY <1>5, <1>6, <1>7, <2>1
  <2>3. cumulativeMs[q] = 0 BY <1>2, <1>3, <2>1
  <2>4. SideBudget \in Nat BY <1>7, SeatsAssumption
  <2> QED BY <2>2, <2>3, <2>4
<1> QED BY <1>4, <1>5, <1>6, <1>7 DEF FlagInv

LEMMA NextFlags ==
  PhasesLast /\ IInv /\ IInv' /\ PhaseInv /\ FlagInv /\ [Next]_vars => FlagInv'
<1> SUFFICES ASSUME PhasesLast, IInv, IInv', PhaseInv, FlagInv, [Next]_vars PROVE FlagInv'
  OBVIOUS
<1>1. CASE Tick \/ Ended \/ UNCHANGED vars
  BY <1>1, FlagStutters DEF Tick, Ended, vars, game, outcome, looping
<1>2. ASSUME NEW p \in Player, Resign(p) \/ \E sub \in Submission : AcceptDraw(p, sub) PROVE FlagInv'
  <2>1. status' = "ended" BY <1>2 DEF Resign, AcceptDraw, EndGame
  <2> QED BY <2>1, EndedPhase
<1>3. ASSUME NEW p \in Player, NEW sub \in Submission, RejectIllegal(p, sub) PROVE FlagInv'
  BY <1>3, FlagStutters DEF RejectIllegal, game, outcome, looping, clock
<1> QED
  BY <1>1, <1>2, <1>3, TurnOfFlags, HoldOfFlags, TimeoutPhaseFlags, ResolvePhaseFlags,
     TakeFlagFlags, ResolveStepFlags, FinishPhaseFlags
     DEF Next, Timeout, LoopStep, Submit, TurnOf, HoldOf

\* A seat that is to move always has time left on its side clock: within a turn
\* it cannot think past its flag, and a flag that fell while it was absent is
\* taken before the room waits again, in phases of any number of movers.
THEOREM MoversHaveTime == ASSUME PhasesLast PROVE Spec => []NoFlaggedMover
<1>1. Init => IInv /\ WaitInv /\ PhaseInv /\ FlagInv
  BY InitIInv, InitTurns, InitPhase, InitFlags
<1>2. IInv /\ WaitInv /\ PhaseInv /\ FlagInv /\ [Next]_vars
        => (IInv /\ WaitInv /\ PhaseInv /\ FlagInv)'
  BY NextIInv, NextWaits, NextPhase, NextFlags
<1>3. IInv /\ FlagInv => NoFlaggedMover
  <2> SUFFICES ASSUME IInv, FlagInv, Idle, NEW p \in PlayersToMove(state)
               PROVE  ~FlagFallen(cumulativeMs, p)
    BY DEF NoFlaggedMover
  <2>1. p \in Player \ Gone(state) BY MoversStay DEF IInv, RestTyped
  <2> QED BY <2>1 DEF FlagInv, Idle
<1> QED BY <1>1, <1>2, <1>3, PTL DEF Spec

-----------------------------------------------------------------------------
(* The order of the moves.  The loop resolves the held seats in seat order,*)
(* but the rules know nothing of the loop: to them the seat must be the    *)
(* first that is still to move.  So while a loop has a held seat to come   *)
(* to, every seat to move is one of those.                                 *)

StillDue == {p \in PlayersToMove(state) : Held[p] # None /\ p \notin Passed}

OrderInv ==
  status = "running" /\ loop # "none" => StillDue = {} \/ PlayersToMove(state) = StillDue

LEMMA OrderStutters ==
  ASSUME OrderInv, UNCHANGED <<status, state, pendingSimultaneous, loop, batch, cursor>>
  PROVE  OrderInv'
BY DEF OrderInv, StillDue, Held, Passed

\* After the seat that was alone to move, nobody held is left to come to.
LEMMA PhaseOver ==
  ASSUME PhaseInv, status = "running", status' = "running", Gone(state) \subseteq Gone(state'),
         state \in GState, state' \in GState, NEW p \in Player, PlayersToMove(state) = {p},
         \A q \in Player : Held'[q] # None /\ q \notin Passed'
                             => q # p /\ Held[q] # None /\ q \notin Passed
  PROVE  StillDue' = {}
<1> HIDE DEF Held, Passed
<1> SUFFICES ASSUME NEW q \in StillDue' PROVE FALSE
  OBVIOUS
<1>1. q \in PlayersToMove(state') /\ Held'[q] # None /\ q \notin Passed' BY DEF StillDue
<1>2. q \in Player /\ q \notin Gone(state') BY <1>1, GameTypes, SeatsAssumption, KernelContract
<1>3. q # p /\ Held[q] # None /\ q \notin Passed BY <1>1, <1>2
<1>4. InPhase(q) BY <1>2, <1>3 DEF PhaseInv, Settled
<1>5. IsTerminal(state) = None BY MoversStay
<1> QED BY <1>3, <1>4, <1>5 DEF InPhase, ToMove

LEMMA HoldOfOrder == ASSUME IInv, NEW p \in Player, HoldOf(p) PROVE OrderInv'
<1>1. CASE status' = "ended" BY <1>1 DEF OrderInv
<1>2. CASE status' # "ended"
  <2>1. loop = "none" /\ \E held : Collect(held) BY <1>2, HoldOfFacts DEF Idle
  <2>2. PICK held : Collect(held) BY <2>1
  <2>3. CASE WaitingFor(state', held) # {} BY <2>1, <2>2, <2>3 DEF Collect, looping, OrderInv
  <2>4. CASE WaitingFor(state', held) = {}
    <3>1. loop' = "resolve" /\ batch' = held /\ cursor' = 0 BY <2>2, <2>4 DEF Collect
    <3>2. Held' = held /\ Passed' = {}
      <4>1. \A q \in Player : ~(q < 0) BY SeatsAssumption DEF Player
      <4> QED BY <3>1, <4>1 DEF Held, Passed
    <3>3. \A q \in PlayersToMove(state') : held[q] # None BY <2>4 DEF WaitingFor
    <3> QED BY <3>2, <3>3 DEF OrderInv, StillDue
  <2> QED BY <2>3, <2>4
<1> QED BY <1>1, <1>2

LEMMA TimeoutPhaseOrder == ASSUME IInv, TimeoutPhase PROVE OrderInv'
<1>1. state' = state /\ loop' = "flags" /\ Passed' = {} /\ state \in GState
  BY TimeoutPhaseHolds DEF Passed, IInv, RestTyped
<1>2. ASSUME NEW q \in PlayersToMove(state) PROVE Held'[q] # None
  <2>1. q \in Player BY <1>1, MoversStay
  <2>2. CASE q \in WaitingFor(state, pendingSimultaneous)
    <3> DEFINE h == [turn_index |-> turnIndex, submission |-> None, move |-> None, forced |-> "timeout"]
    <3>1. Held'[q] = h BY <2>1, <2>2, TimeoutPhaseHolds
    <3>2. h \in HeldSubmission BY HeldTypes DEF HeldSubmission
    <3> QED BY <3>1, <3>2, NoneAssumption
  <2>3. CASE q \notin WaitingFor(state, pendingSimultaneous)
    BY <2>1, <2>3, TimeoutPhaseHolds DEF WaitingFor
  <2> QED BY <2>2, <2>3
<1> HIDE DEF Held, Passed
<1> QED BY <1>1, <1>2 DEF OrderInv, StillDue

LEMMA ResolvePhaseOrder == ASSUME IInv, OrderInv, ResolvePhase PROVE OrderInv'
<1>1. /\ status = "running" /\ state' = state /\ loop = "flags" /\ Held' = Held
      /\ loop' = "resolve" /\ cursor' = 0
  BY ResolvePhaseHolds
<1>2. Passed = {} /\ Passed' = {}
  <2>1. \A q \in Player : ~(q < 0) BY SeatsAssumption DEF Player
  <2> QED BY <1>1, <2>1 DEF Passed
<1> HIDE DEF Held, Passed
<1> QED BY <1>1, <1>2 DEF OrderInv, StillDue

LEMMA TakeFlagOrder ==
  ASSUME PhasesLast, IInv, IInv', PhaseInv, OrderInv, NEW p \in Player, TakeFlag(p)
  PROVE  OrderInv'
<1>1. status = "running" /\ loop = "flags" /\ p \in Flagged /\ state \in GState
  BY TakeFlagHolds DEF IInv, RestTyped
<1>2. CASE status' = "ended" BY <1>2 DEF OrderInv
<1>3. CASE status' # "ended"
  <2>1. /\ status' = "running" /\ SeatLeaves(p) /\ loop' = "flags"
        /\ Held = pendingSimultaneous /\ Held' = [Held EXCEPT ![p] = None]
    BY <1>3, TakeFlagHolds
  <2>2. Passed = {} /\ Passed' = {} BY <1>1, <2>1 DEF Passed
  <2>3. state' \in GState /\ Gone(state) \subseteq Gone(state') BY <2>1, LeavesGone
  <2>4. TimedOut(p) /\ ToMove(state, p)
    <3>1. TimedOut(p) BY <1>1, <2>1 DEF Flagged, TimedOut
    <3> QED BY <1>1, <3>1 DEF PhaseInv
  <2>5. Held \in [Player -> HeldSubmission \cup {None}] BY HeldTypes
  <2> HIDE DEF Held, Passed
  <2>6. \A q \in Player : Held'[q] # None => q # p /\ Held'[q] = Held[q] BY <2>1, <2>5
  <2>7. CASE IsTerminal(state) # None
    <3>1. IsTerminal(state') # None BY <1>1, <2>1, <2>7 DEF PhasesLast, PhaseLastsAt, SeatLeaves
    <3>2. PlayersToMove(state') = {} BY <2>3, <3>1, KernelContract
    <3> QED BY <3>2 DEF OrderInv, StillDue
  <2>8. CASE IsTerminal(state) = None
    <3>1. p \in PlayersToMove(state) BY <2>4, <2>8 DEF ToMove
    <3>2. CASE PlayersToMove(state) = {p}
      BY <1>1, <2>1, <2>2, <2>3, <2>6, <3>2, PhaseOver DEF OrderInv
    <3>3. CASE PlayersToMove(state) # {p}
      <4>1. PlayersToMove(state') \subseteq PlayersToMove(state) \ {p}
        BY <1>1, <2>1, <2>3, <3>1, <3>3, PhaseLasts DEF SeatLeaves
      <4>2. p \in StillDue BY <2>2, <2>4, <3>1 DEF StillDue, TimedOut
      <4>3. \A q \in PlayersToMove(state) : Held[q] # None /\ q \in Player
        BY <1>1, <4>2, MoversStay DEF OrderInv, StillDue
      <4>4. \A q \in PlayersToMove(state') : Held'[q] # None
        BY <2>1, <2>5, <4>1, <4>3
      <4> QED BY <2>2, <4>4 DEF OrderInv, StillDue
    <3> QED BY <3>2, <3>3
  <2> QED BY <2>7, <2>8
<1> QED BY <1>2, <1>3

\* Whoever the loop comes to is the first seat to move.
LEMMA ResolvingFirst ==
  ASSUME IInv, OrderInv, NEW p \in Player, Resolving(p)
  PROVE  /\ IsFirst(p, PlayersToMove(state)) /\ p \notin Passed
         /\ \A q \in PlayersToMove(state) : Held[q] # None /\ q \notin Passed
<1>1. /\ status = "running" /\ loop = "resolve" /\ cursor \in Nat /\ state \in GState
      /\ p \in PlayersToMove(state) /\ p >= cursor /\ batch[p] # None
      /\ \A q \in Due : p <= q
  BY ResolvingFacts, SeatsAssumption
     DEF Resolving, IsFirst, Due, IInv, EndTyped, RestTyped
<1>2. Held = batch /\ \A q \in Player : q \in Nat /\ (q \in Passed <=> q < cursor)
  BY <1>1, SeatsAssumption DEF Held, Passed, Player
<1> HIDE DEF Held, Passed
<1>3. p \in StillDue BY <1>1, <1>2 DEF StillDue
<1>4. PlayersToMove(state) = StillDue BY <1>1, <1>3 DEF OrderInv
<1>5. ASSUME NEW q \in PlayersToMove(state) PROVE q \in Due /\ Held[q] # None /\ q \notin Passed
  <2>1. q \in Player BY <1>1, MoversStay
  <2>2. Held[q] # None /\ q \notin Passed BY <1>4 DEF StillDue
  <2> QED BY <1>1, <1>2, <2>1, <2>2 DEF Due
<1> QED BY <1>1, <1>3, <1>5 DEF IsFirst, StillDue

LEMMA ResolveStepOrder ==
  ASSUME PhasesLast, IInv, IInv', PhaseInv, OrderInv, NEW p \in Player, ResolveStep(p)
  PROVE  OrderInv'
<1>1. /\ Resolving(p) /\ status = "running" /\ loop = "resolve"
      /\ state \in GState /\ state' \in GState /\ cursor \in Nat /\ p \in Nat /\ p >= cursor
  <2>1. Resolving(p) /\ status = "running" /\ loop = "resolve" BY ResolveStepHolds
  <2>2. p >= cursor BY <2>1 DEF Resolving, IsFirst, Due
  <2>3. state \in GState /\ state' \in GState BY DEF IInv, RestTyped
  <2>4. cursor \in Nat /\ p \in Nat BY SeatsAssumption DEF IInv, EndTyped, Player
  <2> QED BY <2>1, <2>2, <2>3, <2>4
<1>2. CASE status' = "ended" BY <1>2 DEF OrderInv
<1>3. CASE status' # "ended"
  <2>1. /\ status' = "running" /\ loop' = "resolve" /\ cursor' = p + 1 /\ Held' = Held
        /\ Gone(state) \subseteq Gone(state')
        /\ state' = ForfeitPlayer(state, p) \/ \E m \in Move : state' = Apply(state, p, m)
    BY <1>3, ResolveStepHolds, ResolveStepGone, ResolveStepActs
  <2>2. \A q \in Player : q \in Nat /\ (q \in Passed <=> q < cursor) /\ (q \in Passed' <=> q < p + 1)
    BY <1>1, <2>1, SeatsAssumption DEF Passed, Player
  <2>3. /\ IsFirst(p, PlayersToMove(state)) /\ p \in PlayersToMove(state)
        /\ \A q \in PlayersToMove(state) : q \in Player /\ Held[q] # None /\ p <= q
    BY <1>1, ResolvingFirst, MoversStay DEF IsFirst
  <2> HIDE DEF Held, Passed
  <2>4. CASE PlayersToMove(state) = {p}
    <3>1. \A q \in Player : q \notin Passed' => q # p /\ q \notin Passed BY <1>1, <2>2
    <3> QED BY <1>1, <2>1, <2>4, <3>1, PhaseOver DEF OrderInv
  <2>5. CASE PlayersToMove(state) # {p}
    <3>1. PlayersToMove(state') \subseteq PlayersToMove(state) \ {p}
      BY <1>1, <2>1, <2>3, <2>5, PhaseLasts
    <3>2. ASSUME NEW q \in PlayersToMove(state') PROVE Held'[q] # None /\ q \notin Passed'
      <4>1. q \in Player /\ Held[q] # None /\ p <= q /\ q # p BY <2>3, <3>1
      <4> QED BY <1>1, <2>1, <2>2, <4>1
    <3> QED BY <3>2 DEF OrderInv, StillDue
  <2> QED BY <2>4, <2>5
<1> QED BY <1>2, <1>3

LEMMA NextOrder ==
  PhasesLast /\ IInv /\ IInv' /\ PhaseInv /\ OrderInv /\ [Next]_vars => OrderInv'
<1> SUFFICES ASSUME PhasesLast, IInv, IInv', PhaseInv, OrderInv, [Next]_vars PROVE OrderInv'
  OBVIOUS
<1>1. CASE Tick \/ Ended \/ UNCHANGED vars
  BY <1>1, OrderStutters DEF Tick, Ended, vars, game, outcome, looping
<1>2. ASSUME NEW p \in Player, Resign(p) \/ \E sub \in Submission : AcceptDraw(p, sub) PROVE OrderInv'
  <2>1. status' = "ended" BY <1>2 DEF Resign, AcceptDraw, EndGame
  <2> QED BY <2>1 DEF OrderInv
<1>3. ASSUME NEW p \in Player, NEW sub \in Submission, RejectIllegal(p, sub) PROVE OrderInv'
  BY <1>3, OrderStutters DEF RejectIllegal, game, outcome, looping
<1>4. ASSUME NEW p \in Player, TurnOf(p) PROVE OrderInv'
  <2>1. status' = "ended" \/ loop' = "none" BY <1>4, TurnOfFacts DEF NextTurn
  <2> QED BY <2>1 DEF OrderInv
<1>5. ASSUME FinishPhase PROVE OrderInv'
  <2>1. status' = "ended" \/ loop' = "none" BY <1>5, FinishPhaseHolds DEF NextTurn
  <2> QED BY <2>1 DEF OrderInv
<1> QED
  BY <1>1, <1>2, <1>3, <1>4, <1>5, HoldOfOrder, TimeoutPhaseOrder, ResolvePhaseOrder,
     TakeFlagOrder, ResolveStepOrder
     DEF Next, Timeout, LoopStep, Submit, TurnOf, HoldOf

-----------------------------------------------------------------------------
(* What a step does to the game.                                           *)

LEMMA AppliedMoves ==
  ASSUME state \in GState, NEW p \in PlayersToMove(state), IsFirst(p, PlayersToMove(state)),
         NEW m \in Move, Apply(state, p, m) \in GState, state' = Apply(state, p, m)
  PROVE  Moves(p)
BY NoneIsNothing DEF Moves

LEMMA TurnOfMoves ==
  ASSUME IInv, IInv', NEW p \in Player, TurnOf(p)
  PROVE  state' = state \/ Moves(p) \/ SeatLeaves(p)
<1>1. /\ Alone(p) /\ status = "running" /\ p \in PlayersToMove(state) /\ state \in GState /\ TypeOK
  BY TurnOfFacts, IInvTypeOK DEF IInv, RestTyped
<1>2. IsFirst(p, PlayersToMove(state)) BY <1>1, SeatsAssumption DEF IsFirst, Alone, Player
<1>3. ASSUME NEW sub \in Submission, PlayMove(p, sub) PROVE Moves(p)
  <2>1. IsMove(p, sub) /\ ~IsIllegal(p, sub) BY <1>3 DEF PlayMove
  <2> QED BY <1>1, <1>2, <1>3, <2>1, AppliedType, AppliedMoves DEF PlayMove
<1>4. ASSUME NEW sub \in Submission, ForceMove(p, sub) PROVE Moves(p)
  <2>1. PICK pick \in SeededMoves(p, "illegal") : state' = Apply(state, p, pick.move)
    BY <1>4 DEF ForceMove
  <2>2. pick.move \in Move /\ Apply(state, p, pick.move) \in GState
    BY <1>1, <2>1, SeededMovesType DEF Pick
  <2> QED BY <1>1, <1>2, <2>1, <2>2, AppliedMoves
<1>5. ASSUME TimeoutMove(p) PROVE Moves(p)
  <2>1. PICK pick \in TimeoutMoves(p) : state' = Apply(state, p, pick.move)
    BY <1>5 DEF TimeoutMove
  <2>2. pick.move \in Move /\ Apply(state, p, pick.move) \in GState
    BY <1>1, <2>1, TimeoutMovesType DEF Pick
  <2> QED BY <1>1, <1>2, <2>1, <2>2, AppliedMoves
<1>6. ASSUME NEW reason, NEW attempts, NEW entries, LoseSeat(p, reason, attempts, entries)
      PROVE  state' = state \/ SeatLeaves(p)
  BY <1>6 DEF LoseSeat, Forfeit
<1> QED
  BY <1>3, <1>4, <1>5, <1>6
     DEF TurnOf, TimeoutTurn, TimeoutStrikeOut, TimeoutFlag, StrikeOutOnIllegal

LEMMA ResolveStepMoves ==
  ASSUME IInv, IInv', OrderInv, NEW p \in Player, ResolveStep(p)
  PROVE  state' = state \/ Moves(p) \/ SeatLeaves(p)
<1>1. Resolving(p) /\ p \in PlayersToMove(state) /\ state \in GState /\ state' \in GState /\ TypeOK
  BY ResolveStepHolds, ResolvingFacts, IInvTypeOK DEF IInv, RestTyped
<1>2. IsFirst(p, PlayersToMove(state)) BY <1>1, ResolvingFirst
<1>3. CASE ResolveMove(p)
  <2>1. batch[p].move \in Move /\ state' = Apply(state, p, batch[p].move)
    BY <1>1, <1>3, ResolvingFacts DEF ResolveMove
  <2> QED BY <1>1, <1>2, <2>1, AppliedMoves
<1>4. CASE ResolveForced(p) \/ ResolveStale(p)
  <2>1. PICK pick \in SeededMoves(p, "illegal") : state' = Apply(state, p, pick.move)
    BY <1>4 DEF ResolveForced, ResolveStale
  <2>2. pick.move \in Move BY <1>1, <2>1, SeededMovesType DEF Pick
  <2> QED BY <1>1, <1>2, <2>1, <2>2, AppliedMoves
<1>5. CASE ResolveTimeout(p)
  <2>1. PICK pick \in TimeoutMoves(p) : state' = Apply(state, p, pick.move)
    BY <1>5 DEF ResolveTimeout
  <2>2. pick.move \in Move BY <1>1, <2>1, TimeoutMovesType DEF Pick
  <2> QED BY <1>1, <1>2, <2>1, <2>2, AppliedMoves
<1>6. CASE ResolveStrikeOut(p) BY <1>6 DEF ResolveStrikeOut, Forfeit
<1> QED BY <1>3, <1>4, <1>5, <1>6 DEF ResolveStep

LEMMA StepsOfTheGame ==
  IInv /\ IInv' /\ OrderInv /\ [Next]_vars => [\E p \in Player : Moves(p) \/ SeatLeaves(p)]_state
<1> SUFFICES ASSUME IInv, IInv', OrderInv, [Next]_vars
             PROVE  state' = state \/ \E p \in Player : Moves(p) \/ SeatLeaves(p)
  OBVIOUS
<1>1. CASE \/ Tick \/ Ended \/ UNCHANGED vars \/ TimeoutPhase \/ ResolvePhase \/ FinishPhase
           \/ \E p \in Player : Resign(p) \/ \E sub \in Submission : AcceptDraw(p, sub) \/ RejectIllegal(p, sub)
  BY <1>1 DEF Tick, Ended, vars, game, TimeoutPhase, ResolvePhase, FinishPhase, Resign, AcceptDraw,
              RejectIllegal
<1>2. ASSUME NEW p \in Player, HoldOf(p) PROVE state' = state \/ SeatLeaves(p)
  BY <1>2 DEF HoldOf, HoldMove, HoldForced, StrikeOutInPhase, game, Forfeit
<1>3. ASSUME NEW p \in Player, TakeFlag(p) PROVE state' = state \/ SeatLeaves(p)
  BY <1>3 DEF TakeFlag, Forfeit
<1> QED
  BY <1>1, <1>2, <1>3, TurnOfMoves, ResolveStepMoves
     DEF Next, Timeout, LoopStep, Submit, TurnOf, HoldOf

\* Whatever agents send, and whenever they are late, struck or lost, the game
\* that comes of it is one the rules allow, move by move and in seat order: the
\* room implements its game.
THEOREM GameIsPlayedByTheRules == ASSUME PhasesLast PROVE Spec => PlayedByTheRules
<1>1. Init => IInv /\ WaitInv /\ PhaseInv /\ OrderInv
  BY InitIInv, InitTurns, InitPhase DEF Init, OrderInv
<1>2. IInv /\ WaitInv /\ PhaseInv /\ OrderInv /\ [Next]_vars
        => (IInv /\ WaitInv /\ PhaseInv /\ OrderInv)'
  BY NextIInv, NextWaits, NextPhase, NextOrder
<1>3. IInv /\ IInv' /\ OrderInv /\ [Next]_vars
        => [\E p \in Player : Moves(p) \/ SeatLeaves(p)]_state
  BY StepsOfTheGame
<1> QED BY <1>1, <1>2, <1>3, PTL DEF Spec, PlayedByTheRules
=============================================================================
