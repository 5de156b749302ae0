----------------------------- MODULE GameContract ----------------------------
(***************************************************************************)
(* What the kernel requires of a game module (the Game interface of        *)
(* kernel/types.ts, gate A1 of kernel/playout.ts), and what games of       *)
(* several movers and notations promise besides.  Each operator parameter  *)
(* is the hook of that name.                                               *)
(***************************************************************************)
EXTENDS Integers, Sequences

CONSTANTS
  NSeats,             \* seats are numbered 0 .. NSeats-1, in seat order
  GState,             \* states of the game module
  InitStates,         \* what initialState may return over the variants
  Move,               \* move objects of the game module
  Submission,         \* what agents may submit: [by, arg, draw_offer]
  GameReason,         \* the reasons a game of the module may end for
  PlayersToMove(_), LegalMoves(_, _), Apply(_, _, _), IsTerminal(_),
  ParseMove(_, _, _), DefaultMove(_, _), ForfeitPlayer(_, _),
  Gone(_),            \* the seats a state has taken out of the game
  PhaseBudget(_),     \* budgetMs(), in clock ticks
  None                \* null: no result, no offer, no move, a RuleError

Player == 0 .. NSeats - 1

Reason == GameReason \cup {"forfeit", "resignation", "agreement"}
Result == [winners : SUBSET Player, draw : BOOLEAN, reason : Reason]

\* kernel/move.ts: an index counts into the legal moves of the state it is
\* resolved against; a notation is parsed.  None: the submission is illegal.
Resolve(g, p, sub) ==
  IF sub.by = "index"
  THEN IF sub.arg < Len(LegalMoves(g, p)) THEN LegalMoves(g, p)[sub.arg + 1] ELSE None
  ELSE ParseMove(g, p, sub.arg)

-----------------------------------------------------------------------------
\* There is always someone to move until the game is over, legal moves and the
\* default move are accepted by apply, and a seat that forfeitPlayer takes out is
\* never to move again.
ContractAt(g) ==
  /\ PlayersToMove(g) \subseteq Player \ Gone(g)
  /\ IsTerminal(g) \in Result \cup {None}
  /\ PlayersToMove(g) = {} <=> IsTerminal(g) # None
  /\ PhaseBudget(g) \in Nat \ {0}
  /\ \A p \in Player :
       /\ LegalMoves(g, p) \in Seq(Move)
       /\ DefaultMove(g, p) \in Move \cup {None}
       /\ ForfeitPlayer(g, p) \in GState \cup {None}
       /\ ForfeitPlayer(g, p) # None => Gone(g) \cup {p} \subseteq Gone(ForfeitPlayer(g, p))
       /\ \A m \in Move :
            /\ Apply(g, p, m) \in GState \cup {None}
            /\ Apply(g, p, m) # None => Gone(g) \subseteq Gone(Apply(g, p, m))
       /\ \A sub \in Submission :
            sub.by = "notation" => ParseMove(g, p, sub.arg) \in Move \cup {None}
  /\ \A p \in PlayersToMove(g) :
       /\ LegalMoves(g, p) # <<>>
       /\ \A i \in DOMAIN LegalMoves(g, p) : Apply(g, p, LegalMoves(g, p)[i]) # None
       /\ DefaultMove(g, p) # None => Apply(g, p, DefaultMove(g, p)) # None

KeepsContract == \A g \in GState : ContractAt(g)

\* What the games of several movers promise besides, and a phase rests on: a
\* seat that moves, or is lost, takes no other seat out of the phase, and a game
\* that is over stays over (applyMove and forfeitPlayer of werewolf/rules.ts).
PhaseLastsAt(g) ==
  /\ \A p \in PlayersToMove(g) :
       \A h \in {Apply(g, p, m) : m \in Move} \cup {ForfeitPlayer(g, p)} :
         (h # None /\ IsTerminal(h) = None /\ PlayersToMove(g) # {p})
           => PlayersToMove(h) = PlayersToMove(g) \ {p}
  /\ IsTerminal(g) # None =>
       \A p \in Player : ForfeitPlayer(g, p) = None \/ IsTerminal(ForfeitPlayer(g, p)) # None

PhasesLast ==
  /\ \A g \in InitStates : IsTerminal(g) = None
  /\ \A g \in GState : PhaseLastsAt(g)

\* What the games promise the verifier: a submission means the same move all
\* through a phase, whatever the others do or lose in it.  It holds of notations
\* (parseWwMove asks for the phase and the sender's role), not of indexes.
SubmissionLastsAt(g) ==
  \A p \in PlayersToMove(g) :
    \A h \in {Apply(g, p, m) : m \in Move} \cup {ForfeitPlayer(g, p)} :
      h # None => \A q \in (PlayersToMove(g) \cap PlayersToMove(h)) \ {p}, sub \in Submission :
                    Resolve(h, q, sub) = Resolve(g, q, sub)

SubmissionsLast == \A g \in GState : SubmissionLastsAt(g)

=============================================================================
