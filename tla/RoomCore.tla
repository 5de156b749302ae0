------------------------------ MODULE RoomCore ------------------------------
(***************************************************************************)
(* The game-session state machine of src/rooms/core.ts (class RoomCore):   *)
(* who may move, the three-step illegal-move policy, move and side clocks, *)
(* strikes, eliminations, resignation, draw offers, simultaneous phases    *)
(* and the log a finished game is verified from.                           *)
(*                                                                         *)
(* The rules of the game being played are constants (GameContract), and    *)
(* what the kernel requires of them is assumed.  RoomCore's methods are    *)
(* synchronous, so a method is one action, except that the two loops over  *)
(* the seats (the fallen flags of timeout() and resolveSimultaneous())     *)
(* take a step per seat: `loop' says which loop is running, and nothing    *)
(* else happens meanwhile.                                                 *)
(*                                                                         *)
(* Left out: rejections that change nothing but the bounded diagnostics    *)
(* list, spectator events, history rows, private views and commentary.     *)
(* Randomness inside apply() is left to the games.                         *)
(***************************************************************************)
EXTENDS GameContract, FiniteSets

CONSTANTS
  SideBudget,         \* sideBudgetMs(), in clock ticks, or None: uncapped
  AllowsResign, AllowsDrawOffer

ASSUME SeatsAssumption ==
  /\ NSeats \in Nat \ {0, 1}
  /\ InitStates \subseteq GState
  /\ SideBudget \in (Nat \ {0}) \cup {None}
  /\ AllowsResign \in BOOLEAN /\ AllowsDrawOffer \in BOOLEAN
  /\ None \notin Nat \cup GState \cup Move \cup Submission \cup Result
  /\ \A sub \in Submission :
       /\ sub.by \in {"index", "notation"}
       /\ sub.by = "index" => sub.arg \in Nat
       /\ sub.draw_offer \in BOOLEAN

ASSUME KernelContract == KeepsContract

-----------------------------------------------------------------------------
VARIABLES
  state,               \* snap.state
  turnIndex,
  status,              \* "running" or "ended"
  result,
  strikes,             \* [Player -> Nat]
  illegalThisTurn,     \* [Player -> Nat]
  pendingDrawOffer,    \* [by, validAtTurn] or None
  pendingSimultaneous, \* [Player -> HeldSubmission or None]
  cumulativeMs,        \* clocks.cumulativeMs, kept only under a side budget
  elapsed,             \* nowMs - turnStartedAtMs, no further than the deadline
  deadline,            \* deadlineAtMs - turnStartedAtMs, or None
  log,
  seedDraws,           \* the seed stream's own record of its draws
  loop,                \* "none", "flags" or "resolve"
  batch,               \* resolveSimultaneous's local `held'
  cursor               \* first seat the resolve loop has not passed yet

game     == <<state, seedDraws>>
clock    == <<elapsed, deadline>>
outcome  == <<status, result>>
looping  == <<loop, batch, cursor>>
vars == <<state, turnIndex, status, result, strikes, illegalThisTurn,
          pendingDrawOffer, pendingSimultaneous, cumulativeMs, elapsed,
          deadline, log, seedDraws, loop, batch, cursor>>

\* A submission held for a simultaneous phase: the move is resolved when it
\* arrives; a forced one has none.
HeldSubmission ==
  [turn_index : Nat, submission : Submission, move : Move, forced : {"no"}] \cup
  [turn_index : Nat, submission : Submission, move : {None}, forced : {"illegal"}] \cup
  [turn_index : Nat, submission : {None}, move : {None}, forced : {"timeout"}]

\* A standing draw offer.
DrawOffer == [by : Player, validAtTurn : Nat]

ASSUME NoneAssumption == None \notin HeldSubmission \cup DrawOffer

Draw ==
  [purpose : {"illegal", "timeout"}, turn_index : Nat, counter : Nat, arg : Nat, result : Nat]

\* What a running game writes to its log.  A state hash is as good as the state.
OpenEntry ==
  [kind : {"commitment"}] \cup
  [kind : {"start"}, initial_state_hash : GState] \cup
  [kind : {"move"}, turn_index : Nat, player : Player, submission : Submission, sent_for : Nat,
   forced : BOOLEAN, notation : Move, state_hash : GState, draws : Seq(Draw)] \cup
  [kind : {"timeout"}, turn_index : Nat, player : Player, notation : Move,
   state_hash : GState, draws : Seq(Draw), strike_count : Nat] \cup
  [kind : {"strike"}, turn_index : Nat, player : Player,
   reason : {"illegal_move", "timeout"}, strike_count : Nat] \cup
  [kind : {"elimination"}, turn_index : Nat, player : Player,
   reason : {"three_strikes", "time"}, state_hash : GState] \cup
  [kind : {"forfeit"}, player : Player, reason : {"three_strikes", "time"}] \cup
  [kind : {"resign", "draw_offer", "draw_accept"}, turn_index : Nat, player : Player]
LogEntry ==
  OpenEntry \cup [kind : {"end"}, result : Result, final_state_hash : GState]
            \cup [kind : {"reveal"}]

NothingHeld == [p \in Player |-> None]
NoAttempts  == [p \in Player |-> 0]

Idle    == status = "running" /\ loop = "none"
Alone(p) == PlayersToMove(state) = {p}

\* The seat the loops over snap.seats reach first among those in S.
IsFirst(p, S) == p \in S /\ \A q \in S : p <= q

\* waitingFor() in game state g, with `held' held.
WaitingFor(g, held) == {p \in PlayersToMove(g) : held[p] = None}

-----------------------------------------------------------------------------
(* The seed stream and the moves the room picks with it.                   *)

\* What seed.int(purpose:turn:N, n) may record: the stream's values are not
\* predictable before the reveal, and its counter runs per purpose.
SeededDraws(purpose, n) ==
  LET counter == Cardinality({i \in DOMAIN seedDraws :
                    seedDraws[i].purpose = purpose /\ seedDraws[i].turn_index = turnIndex})
  IN [purpose : {purpose}, turn_index : {turnIndex}, counter : {counter},
      arg : {n}, result : 0 .. n - 1]

\* A move the room picks itself, with the draws it took: drawForcedLegal, and
\* the defaultMove-or-random of a timeout.
SeededMoves(p, purpose) ==
  {[move |-> LegalMoves(state, p)[d.result + 1], draws |-> <<d>>] :
     d \in SeededDraws(purpose, Len(LegalMoves(state, p)))}

TimeoutMoves(p) ==
  IF DefaultMove(state, p) # None
  THEN {[move |-> DefaultMove(state, p), draws |-> <<>>]}
  ELSE SeededMoves(p, "timeout")

-----------------------------------------------------------------------------
(* Log entries.                                                            *)

MoveEntry(p, sub, sentFor, forced, pick, after) ==
  [kind |-> "move", turn_index |-> turnIndex, player |-> p, submission |-> sub,
   sent_for |-> sentFor, forced |-> forced, notation |-> pick.move,
   state_hash |-> after, draws |-> pick.draws]
TimeoutEntry(p, pick, after) ==
  [kind |-> "timeout", turn_index |-> turnIndex, player |-> p,
   notation |-> pick.move, state_hash |-> after, draws |-> pick.draws,
   strike_count |-> strikes[p] + 1]
StrikeEntry(p, reason) ==
  [kind |-> "strike", turn_index |-> turnIndex, player |-> p, reason |-> reason,
   strike_count |-> strikes[p] + 1]
EliminationEntry(p, reason) ==
  [kind |-> "elimination", turn_index |-> turnIndex, player |-> p,
   reason |-> reason, state_hash |-> ForfeitPlayer(state, p)]
ForfeitEntry(p, reason) == [kind |-> "forfeit", player |-> p, reason |-> reason]
SignedEntry(kind, p) == [kind |-> kind, turn_index |-> turnIndex, player |-> p]

\* A move the agent chose itself, in the shape of the picks above.
OwnMove(m) == [move |-> m, draws |-> <<>>]

-----------------------------------------------------------------------------
(* The helpers every ending of a turn goes through.  They read state' and  *)
(* cumulativeMs', which the action sets first.                             *)

\* endGame: the game is over with `res', after the log entries `entries'.
EndGame(res, entries) ==
  /\ status' = "ended"
  /\ result' = res
  /\ pendingDrawOffer' = None
  /\ pendingSimultaneous' = NothingHeld
  /\ elapsed' = 0 /\ deadline' = None
  /\ log' = log \o entries
                \o << [kind |-> "end", result |-> res, final_state_hash |-> state'],
                      [kind |-> "reveal"] >>
  /\ loop' = "none" /\ batch' = NothingHeld /\ cursor' = 0

\* Mutant: the turn clock ignores what is left on the side clocks.
PhaseAllowance(g, used) == {PhaseBudget(g)}

\* startTurnClock: the phase's budget, shrunk to what the movers have left.
Allowances(g, used) ==
  {PhaseBudget(g)} \cup
    IF SideBudget = None THEN {}
    ELSE {IF SideBudget - used[p] > 1 THEN SideBudget - used[p] ELSE 1 : p \in PlayersToMove(g)}
StartTurnClock ==
  /\ elapsed' = 0
  /\ \E a \in Allowances(state', cumulativeMs') :
       /\ \A b \in Allowances(state', cumulativeMs') : a <= b
       /\ deadline' = a

\* advanceTurn, and the expiry of the draw offer that follows it.
AdvanceTurn(offer, held, entries) ==
  /\ turnIndex' = turnIndex + 1
  /\ illegalThisTurn' = NoAttempts
  /\ IF IsTerminal(state') # None
     THEN EndGame(IsTerminal(state'), entries)
     ELSE /\ StartTurnClock
          /\ pendingDrawOffer' = offer
          /\ pendingSimultaneous' = held
          /\ log' = log \o entries
          /\ loop' = "none" /\ batch' = NothingHeld /\ cursor' = 0
          /\ UNCHANGED outcome

\* An offer outlives the turn it was made at by exactly one turn.
ExpireOffer ==
  IF pendingDrawOffer # None /\ pendingDrawOffer.validAtTurn <= turnIndex
  THEN None ELSE pendingDrawOffer

Strike(p) == strikes' = [strikes EXCEPT ![p] = @ + 1]
Attempted(p) == [illegalThisTurn EXCEPT ![p] = @ + 1]

\* Thinking time charged to a seat.  Only flagFallen and startTurnClock read
\* it, so it is not kept in a room without a side budget.
Charge(p, ticks) ==
  IF SideBudget = None THEN cumulativeMs ELSE [cumulativeMs EXCEPT ![p] = @ + ticks]
FlagFallen(used, p) == SideBudget # None /\ used[p] >= SideBudget

\* eliminate(), when the game has no forfeitPlayer for this: the terminal
\* forfeit, won by every other seat.
Forfeit(p, reason, entries) ==
  /\ ForfeitPlayer(state, p) = None
  /\ UNCHANGED <<state, turnIndex>>
  /\ EndGame([winners |-> Player \ {p}, draw |-> FALSE, reason |-> "forfeit"],
             Append(entries, ForfeitEntry(p, reason)))

\* eliminate(), when the game takes the seat out and plays on.
SeatLeaves(p) ==
  /\ ForfeitPlayer(state, p) # None
  /\ state' = ForfeitPlayer(state, p)

-----------------------------------------------------------------------------
(* submitMove.                                                             *)

\* The submission got past the checks that reject it outright: a running
\* game, the deadline, a seat to move, draw offers only where they are open.
\* (Checks of the seat, the signature and the turn index change nothing.)
Admitted(p, sub) ==
  /\ Idle
  /\ elapsed < deadline
  /\ p \in PlayersToMove(state)
  /\ sub.draw_offer => AllowsDrawOffer

AcceptsOffer(p, sub) ==
  /\ sub.draw_offer
  /\ pendingDrawOffer # None
  /\ pendingDrawOffer.by # p
  /\ pendingDrawOffer.validAtTurn = turnIndex

\* The submission reaches submitSequential or submitSimultaneous.
IsMove(p, sub) ==
  /\ Admitted(p, sub)
  /\ ~AcceptsOffer(p, sub)
  /\ Alone(p) \/ (~sub.draw_offer /\ pendingSimultaneous[p] = None)

\* In a phase of one mover apply() is tried at once; in a simultaneous phase
\* only the resolution is.
IsIllegal(p, sub) ==
  LET m == Resolve(state, p, sub)
  IN m = None \/ (Alone(p) /\ Apply(state, p, m) = None)

\* Mutant: a resignation is taken after the end as well.
ResignAfterEnd(p) ==
  /\ AllowsResign
  /\ UNCHANGED <<game, turnIndex, strikes, illegalThisTurn, cumulativeMs>>
  /\ EndGame([winners |-> Player \ {p}, draw |-> FALSE, reason |-> "resignation"],
             <<SignedEntry("resign", p)>>)

\* Resignation: from any seat, at any time, mover or not.
Resign(p) ==
  /\ Idle
  /\ AllowsResign
  /\ UNCHANGED <<game, turnIndex, strikes, illegalThisTurn, cumulativeMs>>
  /\ EndGame([winners |-> Player \ {p}, draw |-> FALSE, reason |-> "resignation"],
             <<SignedEntry("resign", p)>>)

AcceptDraw(p, sub) ==
  /\ Admitted(p, sub)
  /\ AcceptsOffer(p, sub)
  /\ UNCHANGED <<game, turnIndex, strikes, illegalThisTurn, cumulativeMs>>
  /\ EndGame([winners |-> {}, draw |-> TRUE, reason |-> "agreement"],
             <<SignedEntry("draw_accept", p)>>)

\* First and second illegal attempt of a turn, in either kind of phase.
RejectIllegal(p, sub) ==
  /\ IsMove(p, sub)
  /\ IsIllegal(p, sub)
  /\ illegalThisTurn[p] < 2
  /\ illegalThisTurn' = Attempted(p)
  /\ UNCHANGED <<game, turnIndex, outcome, strikes, pendingDrawOffer,
                 pendingSimultaneous, cumulativeMs, clock, log, looping>>

\* submitSequential and commitApplied with a legal move; a draw offer riding
\* on it is registered for the next turn.
PlayMove(p, sub) ==
  LET m == Resolve(state, p, sub)
      offers == IF sub.draw_offer THEN <<SignedEntry("draw_offer", p)>> ELSE <<>>
  IN
  /\ IsMove(p, sub) /\ Alone(p)
  /\ ~IsIllegal(p, sub)
  /\ state' = Apply(state, p, m)
  /\ cumulativeMs' = Charge(p, elapsed)
  /\ AdvanceTurn(IF sub.draw_offer THEN [by |-> p, validAtTurn |-> turnIndex + 1]
                 ELSE ExpireOffer,
                 pendingSimultaneous,
                 <<MoveEntry(p, sub, turnIndex, FALSE, OwnMove(m), state')>> \o offers)
  /\ UNCHANGED <<strikes, seedDraws>>

ThirdIllegal(p, sub) ==
  /\ IsMove(p, sub)
  /\ IsIllegal(p, sub)
  /\ illegalThisTurn[p] >= 2

\* Mutants of ForceMove: the third strike does not cost the seat; the draw
\* offer on the rejected submission stands; the draw is recorded under the
\* timeout purpose.
ForceThirdStrikeMove(p, sub) ==
  /\ ThirdIllegal(p, sub) /\ Alone(p)
  /\ \E pick \in SeededMoves(p, "illegal") :
       /\ state' = Apply(state, p, pick.move)
       /\ cumulativeMs' = Charge(p, elapsed)
       /\ seedDraws' = seedDraws \o pick.draws
       /\ AdvanceTurn(ExpireOffer, pendingSimultaneous,
                      << MoveEntry(p, sub, turnIndex, TRUE, pick, state'),
                         StrikeEntry(p, "illegal_move") >>)
  /\ Strike(p)
ForceMoveWithOffer(p, sub) ==
  /\ ThirdIllegal(p, sub) /\ Alone(p)
  /\ strikes[p] < 2
  /\ \E pick \in SeededMoves(p, "illegal") :
       /\ state' = Apply(state, p, pick.move)
       /\ cumulativeMs' = Charge(p, elapsed)
       /\ seedDraws' = seedDraws \o pick.draws
       /\ AdvanceTurn(IF sub.draw_offer THEN [by |-> p, validAtTurn |-> turnIndex + 1]
                      ELSE ExpireOffer,
                      pendingSimultaneous,
                      << MoveEntry(p, sub, turnIndex, TRUE, pick, state'),
                         StrikeEntry(p, "illegal_move") >>)
  /\ Strike(p)

\* Third illegal attempt of a sequential turn: the room moves and strikes.
ForceMove(p, sub) ==
  /\ ThirdIllegal(p, sub) /\ Alone(p)
  /\ strikes[p] < 2
  /\ \E pick \in SeededMoves(p, "illegal") :
       /\ state' = Apply(state, p, pick.move)
       /\ cumulativeMs' = Charge(p, elapsed)
       /\ seedDraws' = seedDraws \o pick.draws
       /\ AdvanceTurn(ExpireOffer, pendingSimultaneous,
                      << MoveEntry(p, sub, turnIndex, TRUE, pick, state'),
                         StrikeEntry(p, "illegal_move") >>)
  /\ Strike(p)

\* A third strike in a sequential turn: the seat is lost and nothing is
\* applied.  The turn moves on if the game does.
LoseSeat(p, reason, attempts, entries) ==
  \/ /\ Forfeit(p, reason, entries)
     /\ illegalThisTurn' = attempts
  \/ /\ SeatLeaves(p)
     /\ AdvanceTurn(pendingDrawOffer, [pendingSimultaneous EXCEPT ![p] = None],
                    Append(entries, EliminationEntry(p, reason)))

StrikeOutOnIllegal(p, sub) ==
  /\ ThirdIllegal(p, sub) /\ Alone(p)
  /\ strikes[p] >= 2
  /\ Strike(p)
  /\ UNCHANGED <<cumulativeMs, seedDraws>>
  /\ LoseSeat(p, "three_strikes", Attempted(p), <<StrikeEntry(p, "illegal_move")>>)

-----------------------------------------------------------------------------
(* submitSimultaneous.                                                     *)

\* Mutant: the held submissions are not popped when the phase is resolved.
CollectWithoutPop(held) ==
  /\ pendingSimultaneous' = held
  /\ IF WaitingFor(state', held) # {}
     THEN UNCHANGED looping
     ELSE loop' = "resolve" /\ batch' = held /\ cursor' = 0

\* The tail of every accepted submission of a phase: wait for the others, or
\* pop what is held and resolve the phase.
Collect(held) ==
  IF WaitingFor(state', held) # {}
  THEN pendingSimultaneous' = held /\ UNCHANGED looping
  ELSE /\ pendingSimultaneous' = NothingHeld
       /\ loop' = "resolve" /\ batch' = held /\ cursor' = 0

Hold(p, sub, move, forced) ==
  [pendingSimultaneous EXCEPT ![p] =
     [turn_index |-> turnIndex, submission |-> sub, move |-> move, forced |-> forced]]

HoldMove(p, sub) ==
  /\ IsMove(p, sub) /\ ~Alone(p)
  /\ ~IsIllegal(p, sub)
  /\ cumulativeMs' = Charge(p, elapsed)
  /\ UNCHANGED <<game, turnIndex, outcome, strikes, illegalThisTurn,
                 pendingDrawOffer, clock, log>>
  /\ Collect(Hold(p, sub, Resolve(state, p, sub), "no"))

\* Third illegal attempt of a phase: strike now, hold a marker, and let the
\* room pick the move when the phase is resolved.
HoldForced(p, sub) ==
  /\ ThirdIllegal(p, sub) /\ ~Alone(p)
  /\ strikes[p] < 2
  /\ Strike(p)
  /\ illegalThisTurn' = Attempted(p)
  /\ cumulativeMs' = Charge(p, elapsed)
  /\ log' = Append(log, StrikeEntry(p, "illegal_move"))
  /\ UNCHANGED <<game, turnIndex, outcome, pendingDrawOffer, clock>>
  /\ Collect(Hold(p, sub, None, "illegal"))

\* The same when it is the third strike: the seat is lost.  If the game goes
\* on without it the marker is held all the same and the phase may be full.
StrikeOutInPhase(p, sub) ==
  /\ ThirdIllegal(p, sub) /\ ~Alone(p)
  /\ strikes[p] >= 2
  /\ Strike(p)
  /\ illegalThisTurn' = Attempted(p)
  /\ UNCHANGED seedDraws
  /\ \/ /\ Forfeit(p, "three_strikes", <<StrikeEntry(p, "illegal_move")>>)
        /\ UNCHANGED cumulativeMs
     \/ /\ SeatLeaves(p)
        /\ cumulativeMs' = Charge(p, elapsed)
        /\ log' = log \o << StrikeEntry(p, "illegal_move"),
                            EliminationEntry(p, "three_strikes") >>
        /\ UNCHANGED <<turnIndex, outcome, pendingDrawOffer, clock>>
        /\ Collect(Hold(p, sub, None, "illegal"))

-----------------------------------------------------------------------------
(* resolveSimultaneous: the popped submissions, in seat order.  A seat     *)
(* that is no longer to move when its turn comes is passed over.           *)

Due == {p \in PlayersToMove(state) : p >= cursor /\ batch[p] # None}
Resolving(p) == loop = "resolve" /\ IsFirst(p, Due)

\* A held move that apply() no longer accepts.
IsStale(p) == batch[p].forced = "no" /\ Apply(state, p, batch[p].move) = None

NextSeat(p) ==
  /\ cursor' = p + 1
  /\ UNCHANGED <<turnIndex, outcome, illegalThisTurn, pendingDrawOffer,
                 pendingSimultaneous, cumulativeMs, clock, loop, batch>>

ResolvedMove(p, forced, pick) ==
  MoveEntry(p, batch[p].submission, batch[p].turn_index, forced, pick, Apply(state, p, pick.move))

\* Mutant: the RuleError of a stale move is taken for a state.
ResolveMoveUnchecked(p) ==
  /\ Resolving(p)
  /\ batch[p].forced = "no"
  /\ state' = Apply(state, p, batch[p].move)
  /\ log' = Append(log, ResolvedMove(p, FALSE, OwnMove(batch[p].move)))
  /\ UNCHANGED <<strikes, seedDraws>>
  /\ NextSeat(p)

ResolveMove(p) ==
  /\ Resolving(p)
  /\ batch[p].forced = "no" /\ ~IsStale(p)
  /\ state' = Apply(state, p, batch[p].move)
  /\ log' = Append(log, ResolvedMove(p, FALSE, OwnMove(batch[p].move)))
  /\ UNCHANGED <<strikes, seedDraws>>
  /\ NextSeat(p)

\* Mutants of ResolveForced: the strike is recorded a second time; the move is
\* logged as the seat's own.
ResolveForcedTwice(p) ==
  /\ Resolving(p)
  /\ batch[p].forced = "illegal"
  /\ \E pick \in SeededMoves(p, "illegal") :
       /\ state' = Apply(state, p, pick.move)
       /\ seedDraws' = seedDraws \o pick.draws
       /\ log' = log \o <<ResolvedMove(p, TRUE, pick), StrikeEntry(p, "illegal_move")>>
  /\ Strike(p)
  /\ NextSeat(p)
ResolveForcedAsOwn(p) ==
  /\ Resolving(p)
  /\ batch[p].forced = "illegal"
  /\ \E pick \in SeededMoves(p, "illegal") :
       /\ state' = Apply(state, p, pick.move)
       /\ seedDraws' = seedDraws \o pick.draws
       /\ log' = Append(log, ResolvedMove(p, FALSE, pick))
  /\ UNCHANGED strikes
  /\ NextSeat(p)

\* The strike of a forced marker was recorded when it was held.
ResolveForced(p) ==
  /\ Resolving(p)
  /\ batch[p].forced = "illegal"
  /\ \E pick \in SeededMoves(p, "illegal") :
       /\ state' = Apply(state, p, pick.move)
       /\ seedDraws' = seedDraws \o pick.draws
       /\ log' = Append(log, ResolvedMove(p, TRUE, pick))
  /\ UNCHANGED strikes
  /\ NextSeat(p)

\* A stale move costs a strike and is replaced by a random legal one.
ResolveStale(p) ==
  /\ Resolving(p)
  /\ IsStale(p)
  /\ strikes[p] < 2
  /\ \E pick \in SeededMoves(p, "illegal") :
       /\ state' = Apply(state, p, pick.move)
       /\ seedDraws' = seedDraws \o pick.draws
       /\ log' = log \o <<ResolvedMove(p, TRUE, pick), StrikeEntry(p, "illegal_move")>>
  /\ Strike(p)
  /\ NextSeat(p)

ResolveTimeout(p) ==
  /\ Resolving(p)
  /\ batch[p].forced = "timeout"
  /\ strikes[p] < 2
  /\ \E pick \in TimeoutMoves(p) :
       /\ state' = Apply(state, p, pick.move)
       /\ seedDraws' = seedDraws \o pick.draws
       /\ log' = log \o <<TimeoutEntry(p, pick, state'), StrikeEntry(p, "timeout")>>
  /\ Strike(p)
  /\ NextSeat(p)

\* Mutant: the loop returns, instead of going on, when a seat is eliminated.
ResolveStrikeOutAndReturn(p) ==
  /\ Resolving(p)
  /\ strikes[p] >= 2
  /\ \E reason \in {"timeout", "illegal_move"} :
       /\ IF reason = "timeout" THEN batch[p].forced = "timeout" ELSE IsStale(p)
       /\ \/ /\ Forfeit(p, "three_strikes", <<StrikeEntry(p, reason)>>)
             /\ UNCHANGED <<illegalThisTurn, cumulativeMs>>
          \/ /\ SeatLeaves(p)
             /\ log' = log \o <<StrikeEntry(p, reason), EliminationEntry(p, "three_strikes")>>
             /\ cursor' = NSeats
             /\ UNCHANGED <<turnIndex, outcome, illegalThisTurn, pendingDrawOffer,
                            pendingSimultaneous, cumulativeMs, clock, loop, batch>>
  /\ Strike(p)
  /\ UNCHANGED seedDraws

\* A third strike while resolving: the seat is lost, nothing is applied, and
\* the seats after it are resolved all the same.
ResolveStrikeOut(p) ==
  /\ Resolving(p)
  /\ strikes[p] >= 2
  /\ \E reason \in {"timeout", "illegal_move"} :
       /\ IF reason = "timeout" THEN batch[p].forced = "timeout" ELSE IsStale(p)
       /\ \/ /\ Forfeit(p, "three_strikes", <<StrikeEntry(p, reason)>>)
             /\ UNCHANGED <<illegalThisTurn, cumulativeMs>>
          \/ /\ SeatLeaves(p)
             /\ log' = log \o <<StrikeEntry(p, reason), EliminationEntry(p, "three_strikes")>>
             /\ NextSeat(p)
  /\ Strike(p)
  /\ UNCHANGED seedDraws

FinishPhase ==
  /\ loop = "resolve" /\ Due = {}
  /\ UNCHANGED <<game, strikes, cumulativeMs>>
  /\ AdvanceTurn(ExpireOffer, pendingSimultaneous, <<>>)

-----------------------------------------------------------------------------
(* timeout.                                                                *)

Expired == Idle /\ elapsed >= deadline

\* The side clock once a missed turn is charged in full.
Overdue(p) == Charge(p, PhaseBudget(state))

TimeoutMove(p) ==
  /\ Expired /\ Alone(p)
  /\ strikes[p] < 2
  /\ ~FlagFallen(Overdue(p), p)
  /\ cumulativeMs' = Overdue(p)
  /\ \E pick \in TimeoutMoves(p) :
       /\ state' = Apply(state, p, pick.move)
       /\ seedDraws' = seedDraws \o pick.draws
       /\ AdvanceTurn(ExpireOffer, pendingSimultaneous,
                      <<TimeoutEntry(p, pick, state'), StrikeEntry(p, "timeout")>>)
  /\ Strike(p)

TimeoutStrikeOut(p) ==
  /\ Expired /\ Alone(p)
  /\ strikes[p] >= 2
  /\ cumulativeMs' = Overdue(p)
  /\ Strike(p)
  /\ UNCHANGED seedDraws
  /\ LoseSeat(p, "three_strikes", illegalThisTurn, <<StrikeEntry(p, "timeout")>>)

TimeoutFlag(p) ==
  /\ Expired /\ Alone(p)
  /\ strikes[p] < 2
  /\ FlagFallen(Overdue(p), p)
  /\ cumulativeMs' = Overdue(p)
  /\ UNCHANGED <<strikes, seedDraws>>
  /\ LoseSeat(p, "time", illegalThisTurn, <<>>)

\* Mutant: a phase nobody has submitted in is left alone.
TimeoutPhaseIfStarted ==
  LET absent == WaitingFor(state, pendingSimultaneous)
  IN
  /\ Expired
  /\ \A p \in Player : ~Alone(p)
  /\ pendingSimultaneous # NothingHeld
  /\ pendingSimultaneous' =
       [p \in Player |->
          IF p \in absent
          THEN [turn_index |-> turnIndex, submission |-> None, move |-> None, forced |-> "timeout"]
          ELSE pendingSimultaneous[p]]
  /\ cumulativeMs' = [p \in Player |-> IF p \in absent THEN Overdue(p)[p] ELSE cumulativeMs[p]]
  /\ loop' = "flags"
  /\ UNCHANGED <<game, turnIndex, outcome, strikes, illegalThisTurn,
                 pendingDrawOffer, clock, log, batch, cursor>>

\* A simultaneous phase: everyone still missing is held as timed out.
TimeoutPhase ==
  LET absent == WaitingFor(state, pendingSimultaneous)
  IN
  /\ Expired
  /\ \A p \in Player : ~Alone(p)
  /\ pendingSimultaneous' =
       [p \in Player |->
          IF p \in absent
          THEN [turn_index |-> turnIndex, submission |-> None, move |-> None, forced |-> "timeout"]
          ELSE pendingSimultaneous[p]]
  /\ cumulativeMs' = [p \in Player |-> IF p \in absent THEN Overdue(p)[p] ELSE cumulativeMs[p]]
  /\ loop' = "flags"
  /\ UNCHANGED <<game, turnIndex, outcome, strikes, illegalThisTurn,
                 pendingDrawOffer, clock, log, batch, cursor>>

\* The absentees whose side clock ran out, taken in seat order.
Flagged ==
  {p \in Player : /\ pendingSimultaneous[p] # None
                  /\ pendingSimultaneous[p].forced = "timeout"
                  /\ FlagFallen(cumulativeMs, p)}

TakeFlag(p) ==
  /\ loop = "flags" /\ IsFirst(p, Flagged)
  /\ \/ /\ Forfeit(p, "time", <<>>)
     \/ /\ SeatLeaves(p)
        /\ log' = Append(log, EliminationEntry(p, "time"))
        /\ pendingSimultaneous' = [pendingSimultaneous EXCEPT ![p] = None]
        /\ UNCHANGED <<turnIndex, outcome, pendingDrawOffer, clock, looping>>
  /\ UNCHANGED <<strikes, illegalThisTurn, cumulativeMs, seedDraws>>

ResolvePhase ==
  /\ loop = "flags" /\ Flagged = {}
  /\ loop' = "resolve" /\ batch' = pendingSimultaneous /\ cursor' = 0
  /\ pendingSimultaneous' = NothingHeld
  /\ UNCHANGED <<game, turnIndex, outcome, strikes, illegalThisTurn,
                 pendingDrawOffer, cumulativeMs, clock, log>>

-----------------------------------------------------------------------------
\* RoomCore.create.
Init ==
  /\ state \in InitStates
  /\ turnIndex = 0
  /\ status = "running" /\ result = None
  /\ strikes = [p \in Player |-> 0]
  /\ illegalThisTurn = NoAttempts
  /\ pendingDrawOffer = None
  /\ pendingSimultaneous = NothingHeld
  /\ cumulativeMs = [p \in Player |-> 0]
  /\ elapsed = 0
  /\ deadline \in {a \in Allowances(state, cumulativeMs) :
                     \A b \in Allowances(state, cumulativeMs) : a <= b}
  /\ log = <<[kind |-> "commitment"], [kind |-> "start", initial_state_hash |-> state]>>
  /\ seedDraws = <<>>
  /\ loop = "none" /\ batch = NothingHeld /\ cursor = 0

\* Time matters to the room only up to the deadline it is compared with.
Tick ==
  /\ Idle
  /\ elapsed < deadline
  /\ elapsed' = elapsed + 1
  /\ UNCHANGED <<game, turnIndex, outcome, strikes, illegalThisTurn, pendingDrawOffer,
                 pendingSimultaneous, cumulativeMs, deadline, log, looping>>

Submit(p, sub) ==
  \/ AcceptDraw(p, sub) \/ RejectIllegal(p, sub)
  \/ PlayMove(p, sub) \/ ForceMove(p, sub) \/ StrikeOutOnIllegal(p, sub)
  \/ HoldMove(p, sub) \/ HoldForced(p, sub) \/ StrikeOutInPhase(p, sub)

ResolveStep(p) ==
  ResolveMove(p) \/ ResolveForced(p) \/ ResolveStale(p) \/ ResolveTimeout(p) \/ ResolveStrikeOut(p)

TimeoutTurn(p) == TimeoutMove(p) \/ TimeoutStrikeOut(p) \/ TimeoutFlag(p)

\* The code between a call and its return, and the alarm's call of timeout().
Timeout == TimeoutPhase \/ \E p \in Player : TimeoutTurn(p)
LoopStep == FinishPhase \/ ResolvePhase \/ \E p \in Player : ResolveStep(p) \/ TakeFlag(p)

\* An ended room stays as it is.
Ended == status = "ended" /\ UNCHANGED vars

Next ==
  \/ Tick \/ Timeout \/ LoopStep \/ Ended
  \/ \E p \in Player : Resign(p) \/ \E sub \in Submission : Submit(p, sub)

Spec == Init /\ [][Next]_vars

\* The alarm is set for every deadline and fires at or after it, and a call
\* that has begun runs to its end.  Nobody is obliged to submit anything.
Fairness == WF_vars(Tick) /\ WF_vars(Timeout) /\ WF_vars(LoopStep)
FairSpec == Spec /\ Fairness

-----------------------------------------------------------------------------
(* Properties.                                                             *)

\* Every variable stays in its range; above all the game state: the room never
\* rests on a RuleError.
TypeOK ==
  /\ state \in GState
  /\ turnIndex \in Nat
  /\ status \in {"running", "ended"}
  /\ result \in Result \cup {None}
  /\ strikes \in [Player -> Nat]
  /\ illegalThisTurn \in [Player -> Nat]
  /\ pendingDrawOffer \in DrawOffer \cup {None}
  /\ pendingSimultaneous \in [Player -> HeldSubmission \cup {None}]
  /\ cumulativeMs \in [Player -> Nat]
  /\ elapsed \in Nat
  /\ deadline \in Nat \cup {None}
  /\ log \in Seq(LogEntry)
  /\ seedDraws \in Seq(Draw)
  /\ loop \in {"none", "flags", "resolve"}
  /\ batch \in [Player -> HeldSubmission \cup {None}]
  /\ cursor \in 0 .. NSeats

\* The log is sealed exactly when the game is over: until then it holds no
\* result and no secret, and from then on it ends with the one end entry, which
\* carries the room's result, and the one reveal (verify.ts, 'structure').
OutcomeIsSealed ==
  LET At(kind) == {i \in DOMAIN log : log[i].kind = kind}
      n == Len(log)
  IN IF status = "running"
     THEN result = None /\ At("end") = {} /\ At("reveal") = {}
     ELSE /\ At("end") = {n - 1} /\ At("reveal") = {n}
          /\ log[n - 1].result = result
          /\ log[n - 1].final_state_hash = state

IsAct(e) == e.kind \in {"move", "timeout"}
WayOut(e) == e.kind \in {"elimination", "forfeit"}

\* Three strikes cost the seat, and before anything is applied for it: the
\* third strike is followed at once by the seat's way out of the game, nothing
\* is applied for the seat from then on, and there is never a fourth strike.
ThirdStrikeIsFinal ==
  \A i \in DOMAIN log :
    log[i].kind = "strike" =>
      /\ log[i].strike_count <= 3
      /\ log[i].strike_count = 3 =>
           /\ i < Len(log) /\ WayOut(log[i + 1]) /\ log[i + 1].player = log[i].player
           /\ \A j \in i + 1 .. Len(log) :
                IsAct(log[j]) \/ log[j].kind = "strike" => log[j].player # log[i].player

\* A turn takes one move and costs at most one strike, per seat, whichever way
\* the seat came to it: played, forced, substituted or timed out.
OnceATurn ==
  LET Acts == {i \in DOMAIN log : IsAct(log[i])}
      Strikes == {i \in DOMAIN log : log[i].kind = "strike"}
  IN \A S \in {Acts, Strikes} : \A i, j \in S :
       i < j /\ log[i].player = log[j].player => log[i].turn_index < log[j].turn_index

\* A draw is agreed by two seats: the one that accepts answers an offer the
\* other made, with a legal move of its own, on the turn just before.
DrawNeedsBothSides ==
  \A i \in DOMAIN log :
    log[i].kind = "draw_accept" =>
      \E j \in 1 .. i - 1 :
        /\ log[j].kind = "move" /\ log[j].turn_index = log[i].turn_index - 1
        /\ log[j].player # log[i].player
        /\ log[j].submission.draw_offer /\ ~log[j].forced

\* The room always waits for somebody who can still answer: a held submission
\* of a seat that is to move is one for this turn, and not every seat to move
\* is held (a leftover would lock the seat out with 'already_submitted').
WaitsForSomeone ==
  Idle => /\ WaitingFor(state, pendingSimultaneous) # {}
          /\ \A p \in PlayersToMove(state) :
               pendingSimultaneous[p] # None => pendingSimultaneous[p].turn_index = turnIndex

\* No accepted submission is silently dropped: when a phase is over and the
\* game goes on, every seat that was held for it has its move or its timeout
\* of that turn on the record, or was eliminated.
HeldSeatsAreAnswered ==
  [][loop = "resolve" /\ loop' = "none" /\ status' = "running" =>
       \A p \in Player : batch[p] # None =>
         \E i \in DOMAIN log' :
           /\ IsAct(log'[i]) \/ log'[i].kind = "elimination"
           /\ log'[i].player = p /\ log'[i].turn_index = batch[p].turn_index]_vars

\* The game the room plays is one its rules allow: a step either leaves the game
\* alone, or makes an accepted move of the first seat to move, or takes out a
\* seat the rules let go.  Moves held for a phase are made in seat order, though
\* they arrive in any, and seats may be lost while they are held.
Moves(p) ==
  /\ IsFirst(p, PlayersToMove(state))
  /\ \E m \in Move : Apply(state, p, m) # None /\ state' = Apply(state, p, m)
PlayedByTheRules == [][\E p \in Player : Moves(p) \/ SeatLeaves(p)]_state

\* A seat to move has time left on its side clock: it cannot think past its
\* flag within a turn, and a flag that fell is taken at the timeout.
NoFlaggedMover ==
  Idle => \A p \in PlayersToMove(state) : ~FlagFallen(cumulativeMs, p)

\* A table of silent or stubborn agents still comes to an end.
EventuallyEnds == <>(status = "ended")

=============================================================================
