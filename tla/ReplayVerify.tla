---------------------------- MODULE ReplayVerify ----------------------------
(***************************************************************************)
(* The offline verifier (src/kernel/verify.ts) run on the log a room has   *)
(* written.  A room and the verifier go through the same kernel and game   *)
(* code, but not at the same moment: the room resolves a submission when   *)
(* it arrives, the verifier when it reaches the entry.                     *)
(*                                                                         *)
(* Modelled: 'structure', 'recomputation', 'result' and 'seed_draws'.      *)
(* Left out: the cryptographic checks ('commitment', 'final_seed',         *)
(* 'hash_chain', 'signatures'), which compare bytes this model does not    *)
(* have.                                                                   *)
(***************************************************************************)
EXTENDS RoomCore

\* No game with a side budget (DEFAULT_PER_SIDE_MS) plays on without a seat.
SideClocksForfeit ==
  SideBudget # None => \A g \in GState, p \in Player : ForfeitPlayer(g, p) = None

-----------------------------------------------------------------------------
Kinds(K) == {i \in DOMAIN log : log[i].kind \in K}

\* 'structure' and 'reveal_after_end'.
StructureOk ==
  /\ Kinds({"commitment"}) = {1} /\ Kinds({"start"}) = {2}
  /\ Kinds({"end"}) = {Len(log) - 1} /\ Kinds({"reveal"}) = {Len(log)}

\* The draw the verifier's own seed stream makes: the same stream, so the same
\* value for the same purpose, counter and range.  None of it, if the room never
\* drew it.
Redraws(drawn, purpose, turn, n) ==
  LET counter == Cardinality({i \in DOMAIN drawn :
                    drawn[i].purpose = purpose /\ drawn[i].turn_index = turn})
  IN {d \in {seedDraws[i] : i \in DOMAIN seedDraws} :
        d.purpose = purpose /\ d.turn_index = turn /\ d.counter = counter /\ d.arg = n}

\* What the verifier may apply for an entry: the one move and the draws it took,
\* or nothing.  A move that was not forced is resolved from the signed submission.
Drawn(run, e, purpose) ==
  LET legal == LegalMoves(run.state, e.player)
  IN {[move |-> legal[d.result + 1], draws |-> <<d>>] :
        d \in Redraws(run.drawn, purpose, e.turn_index, Len(legal))}
Recomputed(run, e) ==
  IF e.kind = "timeout"
  THEN IF DefaultMove(run.state, e.player) # None
       THEN {OwnMove(DefaultMove(run.state, e.player))}
       ELSE Drawn(run, e, "timeout")
  ELSE IF e.forced THEN Drawn(run, e, "illegal")
  ELSE {OwnMove(m) : m \in {Resolve(run.state, e.player, e.submission)} \ {None}}

\* 'recomputation': one step per log entry; ok falls for good at the first
\* difference.
Acceptable(run, e) ==
  {act \in Recomputed(run, e) :
     /\ e.kind = "move" => e.sent_for = e.turn_index
     /\ e.kind = "timeout" \/ e.forced => LegalMoves(run.state, e.player) # <<>>
     /\ Apply(run.state, e.player, act.move) # None}
RecomputeAct(run, e) ==
  LET act == CHOOSE act \in Acceptable(run, e) : TRUE
      after == Apply(run.state, e.player, act.move)
  IN IF Acceptable(run, e) = {} THEN [run EXCEPT !.ok = FALSE]
     ELSE [state |-> after, drawn |-> run.drawn \o act.draws,
           ok |-> e.notation = act.move /\ e.state_hash = after /\ e.draws = act.draws]
RecomputeElimination(run, e) ==
  IF ForfeitPlayer(run.state, e.player) # e.state_hash
  THEN [run EXCEPT !.ok = FALSE]
  ELSE [state |-> e.state_hash, drawn |-> run.drawn, ok |-> run.ok]
Recompute(run, e) ==
  CASE ~run.ok -> run
    [] run.ok /\ IsAct(e) -> RecomputeAct(run, e)
    [] run.ok /\ e.kind = "elimination" -> RecomputeElimination(run, e)
    [] OTHER -> run

Recomputation ==
  LET first == [state |-> log[2].initial_state_hash, drawn |-> <<>>, ok |-> TRUE]
      run[i \in 0 .. Len(log)] == IF i = 0 THEN first ELSE Recompute(run[i - 1], log[i])
  IN run[Len(log)]

\* 'result': the game's own verdict if the final state has one, or else the
\* last entry that may end a game has to explain it.
Explains(cause, res) ==
  CASE cause.kind = "resign" -> ~res.draw /\ cause.player \notin res.winners
    [] cause.kind \in {"forfeit", "elimination"} -> cause.player \notin res.winners
    [] cause.kind = "draw_accept" -> res.draw
ResultOk(final) ==
  LET end == log[Len(log) - 1]
      causes == Kinds({"resign", "forfeit", "elimination", "draw_accept"})
  IN /\ end.final_state_hash = final
     /\ end.result = result
     /\ IF IsTerminal(final) # None
        THEN IsTerminal(final) = result
        ELSE \E i \in causes : (\A j \in causes : j <= i) /\ Explains(log[i], result)

Verified ==
  LET run == Recomputation
  IN StructureOk /\ run.ok /\ ResultOk(run.state) /\ run.drawn = seedDraws

\* Whatever the agents and the clock did, the replay of a finished game
\* verifies: an honest room is never reported as tampered with.
ReplayVerifies == status = "ended" => Verified

=============================================================================
