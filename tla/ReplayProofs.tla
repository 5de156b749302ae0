---------------------------- MODULE ReplayProofs ----------------------------
(***************************************************************************)
(* An honest room is never reported as tampered with: whatever its agents  *)
(* send and whenever its clocks run out, the replay of a game that is over *)
(* verifies.  For every game whose phases last and whose submissions keep  *)
(* their meaning in them.                                                  *)
(*                                                                         *)
(* The verifier is a recursive function of the final log and of all draws; *)
(* the room writes both a few entries at a time.  The invariant between    *)
(* them is a trace: the states and draws that a verifier reading the log   *)
(* written so far would go through, ending where the room is.  An entry is *)
(* judged by the draws before it alone, so what is traced stays traced.    *)
(***************************************************************************)
EXTENDS ReplayVerify, RoomCoreProofs

\* The contract is cited for one state at a time.
USE DEF KeepsContract, ContractAt, PhaseLastsAt, SubmissionLastsAt

-----------------------------------------------------------------------------
(* The trace.  From state g, the draws D having been made, entry e leads   *)
(* to state h and draws F.                                                 *)

Quiet(e) ==
  e.kind \in {"strike", "forfeit", "resign", "draw_offer", "draw_accept", "end", "reveal"}

DrawnFor(D, purpose, turn) ==
  {i \in DOMAIN D : D[i].purpose = purpose /\ D[i].turn_index = turn}
DrawsOf(D, purpose, turn) == Cardinality(DrawnFor(D, purpose, turn))

\* act is the legal move that the next draw picks.
PickedBy(g, D, e, purpose, act) ==
  \E d \in Draw :
    /\ d.purpose = purpose /\ d.turn_index = e.turn_index
    /\ d.counter = DrawsOf(D, purpose, e.turn_index)
    /\ d.arg = Len(LegalMoves(g, e.player))
    /\ act = [move |-> LegalMoves(g, e.player)[d.result + 1], draws |-> <<d>>]

\* act is what entry e stands for.
ActOfEntry(g, D, e, act) ==
  \/ /\ e.kind = "timeout" /\ LegalMoves(g, e.player) # <<>>
     /\ IF DefaultMove(g, e.player) # None THEN act = OwnMove(DefaultMove(g, e.player))
        ELSE PickedBy(g, D, e, "timeout", act)
  \/ /\ e.kind = "move" /\ e.sent_for = e.turn_index
     /\ e.forced /\ LegalMoves(g, e.player) # <<>>
     /\ PickedBy(g, D, e, "illegal", act)
  \/ /\ e.kind = "move" /\ e.sent_for = e.turn_index
     /\ ~e.forced /\ Resolve(g, e.player, e.submission) # None
     /\ act = OwnMove(Resolve(g, e.player, e.submission))

ActLeads(g, D, e, act, h, F) ==
  /\ ActOfEntry(g, D, e, act)
  /\ Apply(g, e.player, act.move) # None
  /\ e.notation = act.move /\ e.draws = act.draws
  /\ e.state_hash = Apply(g, e.player, act.move)
  /\ h = Apply(g, e.player, act.move)
  /\ F = D \o act.draws

Leads(g, D, e, h, F) ==
  \/ Quiet(e) /\ h = g /\ F = D
  \/ e.kind = "elimination" /\ e.state_hash = ForfeitPlayer(g, e.player)
       /\ h = ForfeitPlayer(g, e.player) /\ F = D
  \/ \E act : ActLeads(g, D, e, act, h, F)

Begins(D, F) == D \in Seq(Draw) /\ Len(D) <= Len(F) /\ \A k \in 1 .. Len(D) : D[k] = F[k]

\* No two draws have purpose, turn and counter in common.
Keyed(D) ==
  /\ \A i \in DOMAIN D : D[i].counter < DrawsOf(D, D[i].purpose, D[i].turn_index)
  /\ \A i, j \in DOMAIN D :
       (/\ D[i].purpose = D[j].purpose /\ D[i].turn_index = D[j].turn_index
        /\ D[i].counter = D[j].counter) => i = j

Traces(st, dn, L, D, g) ==
  /\ st[2] = L[2].initial_state_hash /\ dn[2] = <<>>
  /\ st[Len(L)] = g /\ dn[Len(L)] = D
  /\ \A i \in 2 .. Len(L) : Begins(dn[i], D)
  /\ \A i \in 3 .. Len(L) : Leads(st[i - 1], dn[i - 1], L[i], st[i], dn[i])

Traced(L, D, g) ==
  /\ Len(L) >= 2 /\ L[1].kind = "commitment" /\ L[2].kind = "start"
  /\ Keyed(D)
  /\ \E st, dn : Traces(st, dn, L, D, g)

-----------------------------------------------------------------------------
(* Draws.                                                                  *)

LEMMA DrawsOfType ==
  ASSUME NEW D \in Seq(Draw), NEW purpose, NEW turn
  PROVE  IsFiniteSet(DrawnFor(D, purpose, turn)) /\ DrawsOf(D, purpose, turn) \in Nat
<1>1. IsFiniteSet(1 .. Len(D)) /\ DrawnFor(D, purpose, turn) \subseteq 1 .. Len(D)
  BY FS_Interval DEF DrawnFor
<1>2. IsFiniteSet(DrawnFor(D, purpose, turn)) BY <1>1, FS_Subset
<1> QED BY <1>2, FS_CardinalityType DEF DrawsOf

LEMMA OneMoreDraw ==
  ASSUME NEW D \in Seq(Draw), NEW d \in Draw, NEW purpose, NEW turn
  PROVE  DrawsOf(Append(D, d), purpose, turn) =
           IF d.purpose = purpose /\ d.turn_index = turn
           THEN DrawsOf(D, purpose, turn) + 1 ELSE DrawsOf(D, purpose, turn)
<1> DEFINE F == Append(D, d)
           n == Len(D) + 1
           S == DrawnFor(D, purpose, turn)
           T == DrawnFor(F, purpose, turn)
<1>1. /\ DOMAIN F = DOMAIN D \cup {n} /\ n \notin DOMAIN D
      /\ F[n] = d /\ \A i \in DOMAIN D : F[i] = D[i]
  OBVIOUS
<1>2. IsFiniteSet(S) BY DrawsOfType
<1> HIDE DEF F, n
<1>3. T = IF d.purpose = purpose /\ d.turn_index = turn THEN S \cup {n} ELSE S
  BY <1>1 DEF DrawnFor
<1>4. n \notin S BY <1>1 DEF DrawnFor
<1> HIDE DEF S, T
<1>5. Cardinality(S \cup {n}) = Cardinality(S) + 1 BY <1>2, <1>4, FS_AddElement
<1>6. Cardinality(T) = IF d.purpose = purpose /\ d.turn_index = turn
                      THEN Cardinality(S) + 1 ELSE Cardinality(S)
  BY <1>3, <1>5
<1> QED BY <1>6 DEF DrawsOf, S, T, F

LEMMA KeyedAppend ==
  ASSUME NEW D \in Seq(Draw), Keyed(D), NEW d \in Draw,
         d.counter = DrawsOf(D, d.purpose, d.turn_index)
  PROVE  Keyed(Append(D, d))
<1> DEFINE F == Append(D, d)
           n == Len(D) + 1
<1>1. /\ DOMAIN F = DOMAIN D \cup {n} /\ n \notin DOMAIN D
      /\ F[n] = d /\ \A i \in DOMAIN D : F[i] = D[i]
  OBVIOUS
<1>2. \A i \in DOMAIN D : D[i] \in Draw OBVIOUS
<1>3. \A x \in Draw : x.counter \in Nat /\ DrawsOf(D, x.purpose, x.turn_index) \in Nat
  BY DrawsOfType DEF Draw
<1>4. \A x \in Draw : DrawsOf(D, x.purpose, x.turn_index) <= DrawsOf(F, x.purpose, x.turn_index)
  BY <1>3, OneMoreDraw
<1>5. DrawsOf(F, d.purpose, d.turn_index) = DrawsOf(D, d.purpose, d.turn_index) + 1
  BY OneMoreDraw
<1>6. \A x \in Draw : DrawsOf(F, x.purpose, x.turn_index) \in Nat BY <1>3, OneMoreDraw
<1> HIDE DEF F, n
<1>7. ASSUME NEW i \in DOMAIN F
      PROVE  F[i].counter < DrawsOf(F, F[i].purpose, F[i].turn_index)
  <2>1. CASE i = n BY <1>1, <1>3, <1>5, <2>1
  <2>2. CASE i # n
    <3>1. i \in DOMAIN D /\ F[i] = D[i] /\ D[i] \in Draw BY <1>1, <1>2, <2>2
    <3>2. D[i].counter < DrawsOf(D, D[i].purpose, D[i].turn_index) BY <3>1 DEF Keyed
    <3> QED BY <1>3, <1>4, <1>6, <3>1, <3>2
  <2> QED BY <2>1, <2>2
<1>8. ASSUME NEW i \in DOMAIN F, NEW j \in DOMAIN F, F[i].purpose = F[j].purpose,
             F[i].turn_index = F[j].turn_index, F[i].counter = F[j].counter
      PROVE  i = j
  <2>1. \A k \in DOMAIN D : D[k].purpose = d.purpose /\ D[k].turn_index = d.turn_index
          => D[k].counter # d.counter
    BY <1>2, <1>3 DEF Keyed
  <2> QED BY <1>1, <1>8, <2>1 DEF Keyed
<1> QED BY <1>7, <1>8 DEF Keyed, F

\* The draws a step adds.
LEMMA LeadsDraws ==
  ASSUME NEW D \in Seq(Draw), Keyed(D), NEW g, NEW e, NEW h, NEW F, Leads(g, D, e, h, F)
  PROVE  Begins(D, F) /\ F \in Seq(Draw) /\ Keyed(F)
<1>1. Begins(D, D) BY DEF Begins
<1>2. CASE F = D BY <1>1, <1>2
<1>3. CASE F # D
  <2>1. PICK act : ActLeads(g, D, e, act, h, F) BY <1>3 DEF Leads
  <2>2. F = D \o act.draws /\ ActOfEntry(g, D, e, act) BY <2>1 DEF ActLeads
  <2>3. act.draws # <<>> BY <1>3, <2>2
  <2>4. PICK purpose : PickedBy(g, D, e, purpose, act) BY <2>2, <2>3 DEF ActOfEntry, OwnMove
  <2>5. PICK d \in Draw : /\ d.purpose = purpose /\ d.turn_index = e.turn_index
                          /\ d.counter = DrawsOf(D, purpose, e.turn_index)
                          /\ act.draws = <<d>>
    BY <2>4 DEF PickedBy
  <2>6. F = Append(D, d) BY <2>2, <2>5
  <2>7. Keyed(F) BY <2>5, <2>6, KeyedAppend
  <2>8. F \in Seq(Draw) /\ Begins(D, F) BY <2>6 DEF Begins
  <2> QED BY <2>7, <2>8
<1> QED BY <1>2, <1>3

-----------------------------------------------------------------------------
(* Traces grow with the log.                                               *)

LEMMA TracedAppend ==
  ASSUME NEW S, NEW L \in Seq(S), NEW D \in Seq(Draw), NEW g, Traced(L, D, g),
         NEW e \in S, NEW h, NEW F, Leads(g, D, e, h, F)
  PROVE  Traced(Append(L, e), F, h) /\ F \in Seq(Draw)
<1>1. PICK st, dn : Traces(st, dn, L, D, g) BY DEF Traced
<1>2. Len(L) \in Nat /\ Len(L) >= 2 /\ Keyed(D) /\ L[1].kind = "commitment" /\ L[2].kind = "start"
  BY DEF Traced
<1>3. Begins(D, F) /\ F \in Seq(Draw) /\ Keyed(F) BY <1>2, LeadsDraws
<1> DEFINE n == Len(L) + 1
           M == Append(L, e)
           st2 == [i \in 2 .. n |-> IF i = n THEN h ELSE st[i]]
           dn2 == [i \in 2 .. n |-> IF i = n THEN F ELSE dn[i]]
<1>4. /\ Len(M) = n /\ M[n] = e /\ \A i \in 1 .. Len(L) : M[i] = L[i] OBVIOUS
<1>5. /\ \A i \in 2 .. Len(L) : st2[i] = st[i] /\ dn2[i] = dn[i]
      /\ st2[n] = h /\ dn2[n] = F
  BY <1>2
<1> HIDE DEF M, st2, dn2
<1>6. \A i \in 2 .. n : Begins(dn2[i], F)
  <2>1. \A i \in 2 .. Len(L) : Begins(dn[i], D) BY <1>1 DEF Traces
  <2>2. \A B : Begins(B, D) => Begins(B, F) BY <1>3 DEF Begins
  <2>3. Begins(F, F) BY <1>3 DEF Begins
  <2>4. \A i \in 2 .. n : i = n \/ i \in 2 .. Len(L) BY <1>2
  <2> QED BY <1>5, <2>1, <2>2, <2>3, <2>4
<1>7. ASSUME NEW i \in 3 .. n PROVE Leads(st2[i - 1], dn2[i - 1], M[i], st2[i], dn2[i])
  <2>1. CASE i = n
    <3>1. i - 1 = Len(L) /\ Len(L) \in 2 .. Len(L) BY <1>2, <2>1
    <3>2. st2[i - 1] = g /\ dn2[i - 1] = D BY <1>1, <1>5, <3>1 DEF Traces
    <3> QED BY <1>4, <1>5, <2>1, <3>2
  <2>2. CASE i # n
    <3>1. i \in 3 .. Len(L) /\ i \in 2 .. Len(L) /\ i - 1 \in 2 .. Len(L) /\ i \in 1 .. Len(L)
      BY <1>2, <2>2
    <3>2. Leads(st[i - 1], dn[i - 1], L[i], st[i], dn[i]) BY <1>1, <3>1 DEF Traces
    <3> QED BY <1>4, <1>5, <3>1, <3>2
  <2> QED BY <2>1, <2>2
<1>8. M[1] = L[1] /\ M[2] = L[2] /\ 2 \in 2 .. Len(L) BY <1>2, <1>4
<1>9. Traces(st2, dn2, M, F, h)
  <2>1. st2[2] = M[2].initial_state_hash /\ dn2[2] = <<>> BY <1>1, <1>5, <1>8 DEF Traces
  <2>2. st2[Len(M)] = h /\ dn2[Len(M)] = F BY <1>4, <1>5
  <2> QED BY <1>4, <1>6, <1>7, <2>1, <2>2 DEF Traces
<1>10. Len(M) >= 2 BY <1>2, <1>4
<1> QED BY <1>2, <1>3, <1>8, <1>9, <1>10 DEF Traced, M

LEMMA TracedQuiet ==
  ASSUME NEW S, NEW L \in Seq(S), NEW D \in Seq(Draw), NEW g, Traced(L, D, g),
         NEW e \in S, Quiet(e)
  PROVE  Traced(Append(L, e), D, g)
BY TracedAppend DEF Leads

-----------------------------------------------------------------------------
(* What the entries of the room stand for, in the state they are written   *)
(* in.                                                                     *)

LEMMA PickLeads ==
  ASSUME IInv, NEW p \in PlayersToMove(state), NEW purpose \in {"illegal", "timeout"},
         NEW pick \in SeededMoves(p, purpose), NEW e, e.player = p, e.turn_index = turnIndex
  PROVE  /\ PickedBy(state, seedDraws, e, purpose, pick)
         /\ LegalMoves(state, p) # <<>> /\ Apply(state, p, pick.move) # None
<1>1. state \in GState /\ turnIndex \in Nat /\ seedDraws \in Seq(Draw) BY DEF IInv, RestTyped
<1>2. p \in Player /\ LegalMoves(state, p) # <<>> BY <1>1, KernelContract
<1> DEFINE n == Len(LegalMoves(state, p))
           counter == DrawsOf(seedDraws, purpose, turnIndex)
<1>3. LegalMoves(state, p) \in Seq(Move) /\ n \in Nat BY <1>1, <1>2, GameTypes
<1>4. counter \in Nat BY <1>1, DrawsOfType
<1>5. PICK d \in SeededDraws(purpose, n) :
        pick = [move |-> LegalMoves(state, p)[d.result + 1], draws |-> <<d>>]
  BY DEF SeededMoves
<1>6. d \in [purpose : {purpose}, turn_index : {turnIndex}, counter : {counter},
             arg : {n}, result : 0 .. n - 1]
  BY <1>5 DEF SeededDraws, DrawsOf, DrawnFor
<1> HIDE DEF n, counter
<1>7. d \in Draw BY <1>1, <1>3, <1>4, <1>6 DEF Draw
<1>8. PickedBy(state, seedDraws, e, purpose, pick) BY <1>5, <1>6, <1>7 DEF PickedBy, n, counter
<1>9. Apply(state, p, pick.move) \in GState BY IInvTypeOK, SeededMovesType
<1> QED BY <1>2, <1>8, <1>9, NoneIsNothing

LEMMA NoDraws == ASSUME NEW D \in Seq(Draw) PROVE D \o <<>> = D
OBVIOUS

\* A move that means what its submission says.
LEMMA OwnMoveLeads ==
  ASSUME IInv, NEW p \in Player, NEW sub, NEW m \in Move, Resolve(state, p, sub) = m,
         Apply(state, p, m) # None
  PROVE  Leads(state, seedDraws, MoveEntry(p, sub, turnIndex, FALSE, OwnMove(m), Apply(state, p, m)),
               Apply(state, p, m), seedDraws)
<1> DEFINE e == MoveEntry(p, sub, turnIndex, FALSE, OwnMove(m), Apply(state, p, m))
           act == OwnMove(m)
<1>1. /\ e.kind = "move" /\ e.player = p /\ e.sent_for = e.turn_index
      /\ ~e.forced /\ e.submission = sub
      /\ e.notation = act.move /\ e.draws = act.draws /\ e.state_hash = Apply(state, p, m)
  BY DEF MoveEntry
<1>2. act.move = m /\ act.draws = <<>> BY DEF OwnMove
<1>3. seedDraws = seedDraws \o act.draws BY <1>2, NoDraws DEF IInv, RestTyped
<1> HIDE DEF e
<1>4. ActOfEntry(state, seedDraws, e, act) BY <1>1, NoneIsNothing DEF ActOfEntry
<1> HIDE DEF act
<1>5. ActLeads(state, seedDraws, e, act, Apply(state, p, m), seedDraws)
  BY <1>1, <1>2, <1>3, <1>4 DEF ActLeads
<1> QED BY <1>5 DEF Leads, e

\* A move the room drew for a seat.
LEMMA ForcedMoveLeads ==
  ASSUME IInv, NEW p \in PlayersToMove(state), NEW sub, NEW pick \in SeededMoves(p, "illegal")
  PROVE  Leads(state, seedDraws, MoveEntry(p, sub, turnIndex, TRUE, pick, Apply(state, p, pick.move)),
               Apply(state, p, pick.move), seedDraws \o pick.draws)
<1> DEFINE e == MoveEntry(p, sub, turnIndex, TRUE, pick, Apply(state, p, pick.move))
<1>1. /\ e.kind = "move" /\ e.player = p /\ e.sent_for = e.turn_index
      /\ e.turn_index = turnIndex /\ e.forced
      /\ e.notation = pick.move /\ e.draws = pick.draws
      /\ e.state_hash = Apply(state, p, pick.move)
  BY DEF MoveEntry
<1> HIDE DEF e
<1>2. /\ PickedBy(state, seedDraws, e, "illegal", pick)
      /\ LegalMoves(state, p) # <<>> /\ Apply(state, p, pick.move) # None
  BY <1>1, PickLeads
<1>3. ActOfEntry(state, seedDraws, e, pick) BY <1>1, <1>2 DEF ActOfEntry
<1>4. ActLeads(state, seedDraws, e, pick, Apply(state, p, pick.move), seedDraws \o pick.draws)
  BY <1>1, <1>2, <1>3 DEF ActLeads
<1> QED BY <1>4 DEF Leads, e

LEMMA TimeoutLeads ==
  ASSUME IInv, NEW p \in PlayersToMove(state), NEW pick \in TimeoutMoves(p)
  PROVE  Leads(state, seedDraws, TimeoutEntry(p, pick, Apply(state, p, pick.move)),
               Apply(state, p, pick.move), seedDraws \o pick.draws)
<1> DEFINE e == TimeoutEntry(p, pick, Apply(state, p, pick.move))
<1>1. /\ e.kind = "timeout" /\ e.player = p /\ e.turn_index = turnIndex
      /\ e.notation = pick.move /\ e.draws = pick.draws
      /\ e.state_hash = Apply(state, p, pick.move)
  BY DEF TimeoutEntry
<1> HIDE DEF e
<1>2. Apply(state, p, pick.move) # None BY IInvTypeOK, TimeoutMovesType, NoneIsNothing
<1>3. LegalMoves(state, p) # <<>> BY KernelContract DEF IInv, RestTyped
<1>4. ActOfEntry(state, seedDraws, e, pick)
  <2>1. CASE DefaultMove(state, p) # None
    <3>1. pick = OwnMove(DefaultMove(state, p)) BY <2>1 DEF TimeoutMoves, OwnMove
    <3> QED BY <1>1, <1>3, <2>1, <3>1 DEF ActOfEntry
  <2>2. CASE DefaultMove(state, p) = None
    <3>1. pick \in SeededMoves(p, "timeout") BY <2>2 DEF TimeoutMoves
    <3>2. PickedBy(state, seedDraws, e, "timeout", pick) BY <1>1, <3>1, PickLeads
    <3> QED BY <1>1, <1>3, <2>2, <3>2 DEF ActOfEntry
  <2> QED BY <2>1, <2>2
<1>5. ActLeads(state, seedDraws, e, pick, Apply(state, p, pick.move), seedDraws \o pick.draws)
  BY <1>1, <1>2, <1>4 DEF ActLeads
<1> QED BY <1>5 DEF Leads, e

LEMMA EliminationLeads ==
  ASSUME NEW p, SeatLeaves(p), NEW reason, NEW D
  PROVE  Leads(state, D, EliminationEntry(p, reason), state', D)
BY DEF SeatLeaves, EliminationEntry, Leads

LEMMA QuietEntries ==
  ASSUME NEW p
  PROVE  /\ \A reason : Quiet(StrikeEntry(p, reason)) /\ Quiet(ForfeitEntry(p, reason))
         /\ \A kind \in {"resign", "draw_offer", "draw_accept"} : Quiet(SignedEntry(kind, p))
BY DEF Quiet, StrikeEntry, ForfeitEntry, SignedEntry

-----------------------------------------------------------------------------
(* The story of a room: its log can be traced, and once it is over either  *)
(* the game has reached the verdict or the last open entry explains it.    *)

EndsGame(e) == e.kind \in {"resign", "forfeit", "elimination", "draw_accept"}

Explained ==
  \/ IsTerminal(state) # None /\ IsTerminal(state) = result
  \/ /\ IsTerminal(state) = None
     /\ Len(log) > 2
     /\ EndsGame(log[Len(log) - 2]) /\ Explains(log[Len(log) - 2], result)

Story == Traced(log, seedDraws, state) /\ (status = "ended" => Explained)

\* The entries end with one that explains the result.
Caused(entries, res) ==
  \E pre \in Seq(OpenEntry), e \in OpenEntry :
    entries = Append(pre, e) /\ EndsGame(e) /\ Explains(e, res)

LEMMA OpenTraced ==
  ASSUME NEW L \in Seq(OpenEntry), NEW D \in Seq(Draw), NEW g, Traced(L, D, g),
         NEW e \in OpenEntry
  PROVE  /\ Quiet(e) => Traced(Append(L, e), D, g)
         /\ \A h, F : Leads(g, D, e, h, F) => Traced(Append(L, e), F, h) /\ F \in Seq(Draw)
BY TracedAppend, TracedQuiet

LEMMA EndStory ==
  ASSUME log \in Seq(OpenEntry), state' \in GState, seedDraws' \in Seq(Draw),
         NEW res \in Result, NEW entries \in Seq(OpenEntry), EndGame(res, entries),
         Traced(log \o entries, seedDraws', state'),
         \/ IsTerminal(state') # None /\ IsTerminal(state') = res
         \/ IsTerminal(state') = None /\ Caused(entries, res)
  PROVE  Story'
<1> DEFINE L == log \o entries
           end == [kind |-> "end", result |-> res, final_state_hash |-> state']
           reveal == [kind |-> "reveal"]
           D == seedDraws'
           g == state'
<1>1. L \in Seq(OpenEntry) /\ L \in Seq(LogEntry) BY OpenAppend, OpenSeqInLog
<1>2. end \in LogEntry /\ Quiet(end) BY DEF LogEntry, Quiet
<1>3. reveal \in LogEntry /\ Quiet(reveal) BY DEF LogEntry, Quiet
<1>4. log' = L \o <<end, reveal>> /\ status' = "ended" /\ result' = res BY DEF EndGame
<1>5. D \in Seq(Draw) /\ Traced(L, D, g) OBVIOUS
<1> HIDE DEF L, end, reveal, D, g
<1>6. Traced(Append(L, end), D, g) BY <1>1, <1>2, <1>5, TracedQuiet
<1>7. Append(L, end) \in Seq(LogEntry) BY <1>1, <1>2
<1>8. Traced(Append(Append(L, end), reveal), D, g) BY <1>3, <1>5, <1>6, <1>7, TracedQuiet
<1>9. L \o <<end, reveal>> = Append(Append(L, end), reveal) BY <1>1, <1>2, <1>3
<1>10. Traced(log', seedDraws', state') BY <1>4, <1>8, <1>9 DEF D, g
<1>11. ASSUME IsTerminal(state') = None, Caused(entries, res)
       PROVE  Len(log') > 2 /\ EndsGame(log'[Len(log') - 2]) /\ Explains(log'[Len(log') - 2], res)
  <2>1. PICK pre \in Seq(OpenEntry), e \in OpenEntry :
          entries = Append(pre, e) /\ EndsGame(e) /\ Explains(e, res)
    BY <1>11 DEF Caused
  <2>2. L = Append(log \o pre, e) BY <2>1, Shapes DEF L
  <2>3. log \o pre \in Seq(OpenEntry) BY OpenAppend
  <2> DEFINE n == Len(log \o pre) + 1
  <2>4. n \in Nat /\ n > 0 /\ Len(L) = n /\ L[n] = e BY <2>2, <2>3
  <2>5. Len(log') = n + 2 /\ log'[n] = L[n] BY <1>1, <1>2, <1>3, <1>4, <1>9, <2>4
  <2> HIDE DEF n
  <2>6. Len(log') - 2 = n /\ Len(log') > 2 BY <2>4, <2>5
  <2> QED BY <2>1, <2>4, <2>5, <2>6
<1> QED BY <1>4, <1>10, <1>11 DEF Story, Explained

LEMMA AdvanceStory ==
  ASSUME log \in Seq(OpenEntry), state' \in GState, seedDraws' \in Seq(Draw), status = "running",
         NEW offer, NEW held, NEW entries \in Seq(OpenEntry),
         AdvanceTurn(offer, held, entries), Traced(log \o entries, seedDraws', state')
  PROVE  Story'
<1>1. CASE IsTerminal(state') # None
  <2>1. IsTerminal(state') \in Result /\ EndGame(IsTerminal(state'), entries)
    BY <1>1, KernelContract DEF AdvanceTurn
  <2> QED BY <1>1, <2>1, EndStory
<1>2. CASE IsTerminal(state') = None
  <2>1. log' = log \o entries /\ status' = "running" BY <1>2 DEF AdvanceTurn, outcome
  <2> QED BY <2>1 DEF Story
<1> QED BY <1>1, <1>2

LEMMA ForfeitStory ==
  ASSUME IInv, status = "running", IsTerminal(state) = None, seedDraws' = seedDraws,
         NEW p \in Player, NEW reason \in {"three_strikes", "time"},
         NEW entries \in Seq(OpenEntry), Forfeit(p, reason, entries),
         Traced(log \o entries, seedDraws, state)
  PROVE  Story'
<1> DEFINE lost == ForfeitEntry(p, reason)
           res == [winners |-> Player \ {p}, draw |-> FALSE, reason |-> "forfeit"]
<1>1. log \in Seq(OpenEntry) /\ state \in GState /\ seedDraws \in Seq(Draw)
  BY DEF IInv, Sealed, RestTyped
<1>2. lost \in OpenEntry BY EntryTypes DEF IInv
<1>3. res \in Result
  <2>1. Player \ {p} \in SUBSET Player /\ "forfeit" \in Reason BY DEF Reason
  <2> QED BY <2>1 DEF Result
<1>4. EndGame(res, Append(entries, lost)) /\ state' = state BY DEF Forfeit
<1>5. EndsGame(lost) /\ Explains(lost, res) BY DEF EndsGame, Explains, ForfeitEntry
<1>6. Quiet(lost) BY QuietEntries
<1> HIDE DEF lost, res
<1>7. Append(entries, lost) \in Seq(OpenEntry) BY <1>2
<1>8. Traced(log \o Append(entries, lost), seedDraws', state')
  <2>1. log \o entries \in Seq(OpenEntry) BY <1>1, OpenAppend
  <2>2. Traced(Append(log \o entries, lost), seedDraws, state) BY <1>1, <1>2, <1>6, <2>1, OpenTraced
  <2> QED BY <1>1, <1>2, <1>4, <2>2, Shapes
<1>9. Caused(Append(entries, lost), res) BY <1>2, <1>5 DEF Caused
<1> QED BY <1>1, <1>3, <1>4, <1>7, <1>8, <1>9, EndStory

\* The seat is taken out, after the entries.
LEMMA LeavesTraced ==
  ASSUME IInv, NEW p \in Player, NEW reason \in {"three_strikes", "time"}, SeatLeaves(p),
         NEW L \in Seq(OpenEntry), Traced(L, seedDraws, state)
  PROVE  /\ EliminationEntry(p, reason) \in OpenEntry /\ state' \in GState
         /\ Traced(Append(L, EliminationEntry(p, reason)), seedDraws, state')
<1>1. EliminationEntry(p, reason) \in OpenEntry /\ state' \in GState BY EliminationEntryType
<1>2. Leads(state, seedDraws, EliminationEntry(p, reason), state', seedDraws) BY EliminationLeads
<1>3. seedDraws \in Seq(Draw) BY DEF IInv, RestTyped
<1> QED BY <1>1, <1>2, <1>3, OpenTraced

LEMMA LossStory ==
  ASSUME IInv, status = "running", IsTerminal(state) = None, seedDraws' = seedDraws,
         NEW p \in Player, NEW reason \in {"three_strikes", "time"}, NEW attempts,
         NEW entries \in Seq(OpenEntry), LoseSeat(p, reason, attempts, entries),
         Traced(log \o entries, seedDraws, state)
  PROVE  Story'
<1>1. CASE Forfeit(p, reason, entries) BY <1>1, ForfeitStory
<1>2. CASE /\ SeatLeaves(p)
           /\ AdvanceTurn(pendingDrawOffer, [pendingSimultaneous EXCEPT ![p] = None],
                          Append(entries, EliminationEntry(p, reason)))
  <2> DEFINE out == EliminationEntry(p, reason)
  <2>1. log \in Seq(OpenEntry) /\ log \o entries \in Seq(OpenEntry) /\ seedDraws \in Seq(Draw)
    BY OpenAppend DEF IInv, Sealed, RestTyped
  <2>2. /\ out \in OpenEntry /\ state' \in GState
        /\ Traced(Append(log \o entries, out), seedDraws, state')
    BY <1>2, <2>1, LeavesTraced
  <2>3. Append(entries, out) \in Seq(OpenEntry) BY <2>2
  <2>4. log \o Append(entries, out) = Append(log \o entries, out) BY <2>1, <2>2, Shapes
  <2> HIDE DEF out
  <2> QED BY <1>2, <2>1, <2>2, <2>3, <2>4, AdvanceStory DEF out
<1> QED BY <1>1, <1>2 DEF LoseSeat

\* One entry, or two.
LEMMA EntryTraced ==
  ASSUME IInv, status = "running", Story, NEW e \in OpenEntry, NEW h, NEW F,
         Leads(state, seedDraws, e, h, F)
  PROVE  /\ Traced(Append(log, e), F, h) /\ Traced(log \o <<e>>, F, h) /\ F \in Seq(Draw)
         /\ \A b \in OpenEntry : Quiet(b) => Traced(log \o <<e, b>>, F, h)
<1>1. log \in Seq(OpenEntry) /\ seedDraws \in Seq(Draw) BY DEF IInv, Sealed, RestTyped
<1>2. Traced(Append(log, e), F, h) /\ F \in Seq(Draw) BY <1>1, OpenTraced DEF Story
<1>3. Append(log, e) \in Seq(OpenEntry) BY <1>1
<1>4. ASSUME NEW b \in OpenEntry, Quiet(b) PROVE Traced(log \o <<e, b>>, F, h)
  <2>1. Traced(Append(Append(log, e), b), F, h) BY <1>2, <1>3, <1>4, OpenTraced
  <2> QED BY <1>1, <2>1, Shapes
<1> QED BY <1>1, <1>2, <1>4, Shapes

\* A strike changes nothing that is traced.
LEMMA StrikeTraced ==
  ASSUME IInv, status = "running", Story, NEW p \in Player,
         NEW reason \in {"illegal_move", "timeout"}
  PROVE  /\ StrikeEntry(p, reason) \in OpenEntry /\ Quiet(StrikeEntry(p, reason))
         /\ <<StrikeEntry(p, reason)>> \in Seq(OpenEntry)
         /\ Append(log, StrikeEntry(p, reason)) \in Seq(OpenEntry)
         /\ Traced(Append(log, StrikeEntry(p, reason)), seedDraws, state)
         /\ Traced(log \o <<StrikeEntry(p, reason)>>, seedDraws, state)
<1>1. StrikeEntry(p, reason) \in OpenEntry /\ Quiet(StrikeEntry(p, reason))
  BY EntryTypes, QuietEntries DEF IInv
<1> DEFINE e == StrikeEntry(p, reason)
<1> HIDE DEF e
<1>2. Leads(state, seedDraws, e, state, seedDraws) BY <1>1 DEF Leads, e
<1>3. Traced(Append(log, e), seedDraws, state) /\ Traced(log \o <<e>>, seedDraws, state)
  BY <1>1, <1>2, EntryTraced DEF e
<1>4. log \in Seq(OpenEntry) /\ e \in OpenEntry BY <1>1 DEF IInv, Sealed, e
<1>5. Append(log, e) \in Seq(OpenEntry) BY <1>4
<1> QED BY <1>1, <1>3, <1>4, <1>5, OpenPairs DEF e

-----------------------------------------------------------------------------
(* One lemma per action that writes to the log.                            *)

LEMMA OpenGame ==
  ASSUME IInv, status = "running", NEW p \in PlayersToMove(state)
  PROVE  IsTerminal(state) = None /\ p \in Player /\ log \in Seq(OpenEntry)
         /\ state \in GState /\ turnIndex \in Nat /\ seedDraws \in Seq(Draw)
BY MoversStay DEF IInv, Sealed, RestTyped

LEMMA SignedStory ==
  ASSUME IInv, status = "running", IsTerminal(state) = None, Story,
         state' = state, seedDraws' = seedDraws,
         NEW p \in Player, NEW kind \in {"resign", "draw_accept"}, NEW res \in Result,
         EndGame(res, <<SignedEntry(kind, p)>>), Explains(SignedEntry(kind, p), res)
  PROVE  Story'
<1> DEFINE e == SignedEntry(kind, p)
<1>1. e \in OpenEntry /\ Quiet(e) /\ EndsGame(e) BY EntryTypes, QuietEntries DEF IInv, EndsGame, SignedEntry
<1>2. EndGame(res, <<e>>) /\ Explains(e, res) OBVIOUS
<1> HIDE DEF e
<1>3. Leads(state, seedDraws, e, state, seedDraws) BY <1>1 DEF Leads
<1>4. Traced(log \o <<e>>, seedDraws, state) BY <1>1, <1>3, EntryTraced
<1>5. <<e>> \in Seq(OpenEntry) BY <1>1, OpenPairs
<1>6. Caused(<<e>>, res)
  <2>1. <<e>> = Append(<<>>, e) /\ <<>> \in Seq(OpenEntry) OBVIOUS
  <2> QED BY <1>1, <1>2, <2>1 DEF Caused
<1>7. log \in Seq(OpenEntry) /\ state' \in GState /\ seedDraws' \in Seq(Draw)
      /\ IsTerminal(state') = None /\ Traced(log \o <<e>>, seedDraws', state')
  BY <1>4 DEF IInv, Sealed, RestTyped
<1> QED BY <1>2, <1>5, <1>6, <1>7, EndStory

LEMMA ResignStory ==
  ASSUME IInv, PhaseInv, Story, NEW p \in Player, Resign(p)
  PROVE  Story'
<1> DEFINE res == [winners |-> Player \ {p}, draw |-> FALSE, reason |-> "resignation"]
<1>1. res \in Result
  <2>1. "resignation" \in Reason /\ Player \ {p} \in SUBSET Player BY DEF Reason
  <2> QED BY <2>1 DEF Result
<1>2. /\ status = "running" /\ state' = state /\ seedDraws' = seedDraws
      /\ EndGame(res, <<SignedEntry("resign", p)>>) /\ Idle
  BY DEF Resign, game, Idle
<1>3. IsTerminal(state) = None BY <1>2 DEF PhaseInv
<1>4. Explains(SignedEntry("resign", p), res) BY DEF Explains, SignedEntry
<1> HIDE DEF res
<1> QED BY <1>1, <1>2, <1>3, <1>4, SignedStory

LEMMA AcceptDrawStory ==
  ASSUME IInv, PhaseInv, Story, NEW p \in Player, NEW sub \in Submission, AcceptDraw(p, sub)
  PROVE  Story'
<1> DEFINE res == [winners |-> {}, draw |-> TRUE, reason |-> "agreement"]
<1>1. res \in Result
  <2>1. "agreement" \in Reason /\ {} \in SUBSET Player BY DEF Reason
  <2> QED BY <2>1 DEF Result
<1>2. /\ status = "running" /\ state' = state /\ seedDraws' = seedDraws
      /\ EndGame(res, <<SignedEntry("draw_accept", p)>>) /\ Idle
  BY DEF AcceptDraw, Admitted, game, Idle
<1>3. IsTerminal(state) = None BY <1>2 DEF PhaseInv
<1>4. Explains(SignedEntry("draw_accept", p), res) BY DEF Explains, SignedEntry
<1> HIDE DEF res
<1> QED BY <1>1, <1>2, <1>3, <1>4, SignedStory

LEMMA PlayMoveStory ==
  ASSUME IInv, Story, NEW p \in Player, NEW sub \in Submission, PlayMove(p, sub)
  PROVE  Story'
<1> DEFINE m == Resolve(state, p, sub)
           offers == IF sub.draw_offer THEN <<SignedEntry("draw_offer", p)>> ELSE <<>>
           offer == IF sub.draw_offer THEN [by |-> p, validAtTurn |-> turnIndex + 1] ELSE ExpireOffer
           move == MoveEntry(p, sub, turnIndex, FALSE, OwnMove(m), state')
           bid == SignedEntry("draw_offer", p)
<1>1. /\ IsMove(p, sub) /\ Alone(p) /\ ~IsIllegal(p, sub)
      /\ state' = Apply(state, p, m) /\ seedDraws' = seedDraws
      /\ AdvanceTurn(offer, pendingSimultaneous, <<move>> \o offers)
  BY DEF PlayMove
<1>2. status = "running" /\ p \in PlayersToMove(state) BY <1>1, SubmitFacts
<1>3. log \in Seq(OpenEntry) /\ turnIndex \in Nat /\ seedDraws \in Seq(Draw) BY <1>2, OpenGame
<1>4. m \in Move /\ state' \in GState BY <1>1, AppliedType
<1>5. OwnMove(m) \in Pick BY <1>4 DEF OwnMove, Pick
<1>6. move \in OpenEntry BY <1>3, <1>4, <1>5, MoveEntryIsAct
<1>7. Leads(state, seedDraws, move, state', seedDraws')
  <2>1. Apply(state, p, m) # None BY <1>1, <1>4, NoneIsNothing
  <2> QED BY <1>1, <1>4, <2>1, OwnMoveLeads
<1>8. bid \in OpenEntry /\ Quiet(bid) BY EntryTypes, QuietEntries DEF IInv
<1>9. offers = IF sub.draw_offer THEN <<bid>> ELSE <<>> OBVIOUS
<1> HIDE DEF move, bid, m, offers, offer
<1>10. Traced(log \o <<move>>, seedDraws', state') /\ seedDraws' \in Seq(Draw)
  BY <1>2, <1>6, <1>7, EntryTraced
<1>11. <<move>> \in Seq(OpenEntry) /\ log \o <<move>> \in Seq(OpenEntry)
  BY <1>3, <1>6, OpenPairs, OpenAppend
<1>12. /\ <<move>> \o offers \in Seq(OpenEntry)
       /\ Traced(log \o (<<move>> \o offers), seedDraws', state')
  <2>1. CASE sub.draw_offer
    <3>1. <<move>> \o <<bid>> = Append(<<move>>, bid) OBVIOUS
    <3>2. <<move>> \o offers = Append(<<move>>, bid) BY <1>9, <2>1, <3>1
    <3>3. log \o Append(<<move>>, bid) = Append(log \o <<move>>, bid)
      BY <1>3, <1>8, <1>11, Shapes
    <3>4. Traced(Append(log \o <<move>>, bid), seedDraws', state')
      BY <1>8, <1>10, <1>11, OpenTraced
    <3>5. Append(<<move>>, bid) \in Seq(OpenEntry) BY <1>8, <1>11
    <3> QED BY <3>2, <3>3, <3>4, <3>5
  <2>2. CASE ~sub.draw_offer
    <3>1. <<move>> \o <<>> = <<move>> BY <1>11
    <3> QED BY <1>9, <1>10, <1>11, <2>2, <3>1
  <2> QED BY <2>1, <2>2
<1> QED BY <1>1, <1>2, <1>3, <1>4, <1>10, <1>12, AdvanceStory

\* The room moves for a seat: what was drawn is what is written.
LEMMA PickedStory ==
  ASSUME IInv, status = "running", Story, NEW p \in PlayersToMove(state), NEW pick \in Pick,
         state' = Apply(state, p, pick.move), state' \in GState, seedDraws' = seedDraws \o pick.draws,
         NEW act \in OpenEntry, Leads(state, seedDraws, act, state', seedDraws'),
         NEW reason \in {"illegal_move", "timeout"}, NEW offer, NEW held,
         AdvanceTurn(offer, held, <<act, StrikeEntry(p, reason)>>)
  PROVE  Story'
<1>1. p \in Player /\ log \in Seq(OpenEntry) /\ seedDraws \in Seq(Draw) BY OpenGame
<1> DEFINE hit == StrikeEntry(p, reason)
<1>2. hit \in OpenEntry /\ Quiet(hit) BY <1>1, StrikeTraced
<1> HIDE DEF hit
<1>3. Traced(log \o <<act, hit>>, seedDraws', state') BY <1>2, EntryTraced
<1>4. <<act, hit>> \in Seq(OpenEntry) BY <1>2, OpenPairs
<1>5. seedDraws' \in Seq(Draw) BY <1>1 DEF Pick
<1> QED BY <1>1, <1>3, <1>4, <1>5, AdvanceStory DEF hit

LEMMA ForceMoveStory ==
  ASSUME IInv, Story, NEW p \in Player, NEW sub \in Submission, ForceMove(p, sub)
  PROVE  Story'
<1>1. IsMove(p, sub) BY DEF ForceMove, ThirdIllegal
<1>2. PICK pick \in SeededMoves(p, "illegal") :
        /\ state' = Apply(state, p, pick.move) /\ seedDraws' = seedDraws \o pick.draws
        /\ AdvanceTurn(ExpireOffer, pendingSimultaneous,
                       << MoveEntry(p, sub, turnIndex, TRUE, pick, state'),
                          StrikeEntry(p, "illegal_move") >>)
  BY DEF ForceMove
<1>3. status = "running" /\ turnIndex \in Nat /\ p \in PlayersToMove(state) BY <1>1, SubmitFacts
<1>4. pick \in Pick /\ state' \in GState BY <1>2, <1>3, IInvTypeOK, SeededMovesType
<1> DEFINE act == MoveEntry(p, sub, turnIndex, TRUE, pick, state')
<1>5. act \in OpenEntry BY <1>3, <1>4, MoveEntryIsAct
<1>6. Leads(state, seedDraws, act, state', seedDraws') BY <1>2, <1>3, ForcedMoveLeads
<1> HIDE DEF act
<1> QED BY <1>2, <1>3, <1>4, <1>5, <1>6, PickedStory DEF act

LEMMA TimeoutMoveStory ==
  ASSUME IInv, Story, NEW p \in Player, TimeoutMove(p)
  PROVE  Story'
<1>1. Expired /\ Alone(p) BY DEF TimeoutMove
<1>2. PICK pick \in TimeoutMoves(p) :
        /\ state' = Apply(state, p, pick.move) /\ seedDraws' = seedDraws \o pick.draws
        /\ AdvanceTurn(ExpireOffer, pendingSimultaneous,
                       <<TimeoutEntry(p, pick, state'), StrikeEntry(p, "timeout")>>)
  BY DEF TimeoutMove
<1>3. status = "running" /\ p \in PlayersToMove(state) BY <1>1, ExpiredFacts
<1>4. pick \in Pick /\ state' \in GState BY <1>2, <1>3, IInvTypeOK, TimeoutMovesType
<1> DEFINE act == TimeoutEntry(p, pick, state')
<1>5. act \in OpenEntry BY <1>4, TimeoutEntryIsAct
<1>6. Leads(state, seedDraws, act, state', seedDraws') BY <1>2, <1>3, TimeoutLeads
<1> HIDE DEF act
<1> QED BY <1>2, <1>3, <1>4, <1>5, <1>6, PickedStory DEF act

LEMMA StruckOutStory ==
  ASSUME IInv, status = "running", Story, NEW p \in PlayersToMove(state), seedDraws' = seedDraws,
         NEW reason \in {"illegal_move", "timeout"}, NEW attempts,
         LoseSeat(p, "three_strikes", attempts, <<StrikeEntry(p, reason)>>)
  PROVE  Story'
<1>1. IsTerminal(state) = None /\ p \in Player BY OpenGame
<1>2. /\ <<StrikeEntry(p, reason)>> \in Seq(OpenEntry)
      /\ Traced(log \o <<StrikeEntry(p, reason)>>, seedDraws, state)
  BY <1>1, StrikeTraced
<1> QED BY <1>1, <1>2, LossStory

LEMMA StrikeOutOnIllegalStory ==
  ASSUME IInv, Story, NEW p \in Player, NEW sub \in Submission, StrikeOutOnIllegal(p, sub)
  PROVE  Story'
<1>1. /\ IsMove(p, sub) /\ seedDraws' = seedDraws
      /\ LoseSeat(p, "three_strikes", Attempted(p), <<StrikeEntry(p, "illegal_move")>>)
  BY DEF StrikeOutOnIllegal, ThirdIllegal
<1>2. status = "running" /\ p \in PlayersToMove(state) BY <1>1, SubmitFacts
<1> QED BY <1>1, <1>2, StruckOutStory

LEMMA TimeoutStrikeOutStory ==
  ASSUME IInv, Story, NEW p \in Player, TimeoutStrikeOut(p)
  PROVE  Story'
<1>1. /\ Expired /\ Alone(p) /\ seedDraws' = seedDraws
      /\ LoseSeat(p, "three_strikes", illegalThisTurn, <<StrikeEntry(p, "timeout")>>)
  BY DEF TimeoutStrikeOut
<1>2. status = "running" /\ p \in PlayersToMove(state) BY <1>1, ExpiredFacts
<1> QED BY <1>1, <1>2, StruckOutStory

LEMMA TimeoutFlagStory ==
  ASSUME IInv, Story, NEW p \in Player, TimeoutFlag(p)
  PROVE  Story'
<1>1. /\ Expired /\ Alone(p) /\ seedDraws' = seedDraws
      /\ LoseSeat(p, "time", illegalThisTurn, <<>>)
  BY DEF TimeoutFlag
<1>2. status = "running" /\ p \in PlayersToMove(state) BY <1>1, ExpiredFacts
<1>3. IsTerminal(state) = None /\ log \in Seq(OpenEntry) BY <1>2, OpenGame
<1>4. log \o <<>> = log /\ <<>> \in Seq(OpenEntry) BY <1>3
<1>5. Traced(log \o <<>>, seedDraws, state) BY <1>4 DEF Story
<1> QED BY <1>1, <1>2, <1>3, <1>4, <1>5, LossStory

\* A third strike in a phase: the game is over, or goes on without the seat.
LEMMA StruckOutInPhaseStory ==
  ASSUME IInv, status = "running", Story, NEW p \in PlayersToMove(state), seedDraws' = seedDraws,
         NEW reason \in {"illegal_move", "timeout"},
         \/ Forfeit(p, "three_strikes", <<StrikeEntry(p, reason)>>)
         \/ /\ SeatLeaves(p) /\ status' = status
            /\ log' = log \o <<StrikeEntry(p, reason), EliminationEntry(p, "three_strikes")>>
  PROVE  Story'
<1> DEFINE hit == StrikeEntry(p, reason)
           out == EliminationEntry(p, "three_strikes")
<1>1. IsTerminal(state) = None /\ p \in Player /\ log \in Seq(OpenEntry) BY OpenGame
<1>2. /\ hit \in OpenEntry /\ <<hit>> \in Seq(OpenEntry)
      /\ Append(log, hit) \in Seq(OpenEntry)
      /\ Traced(Append(log, hit), seedDraws, state) /\ Traced(log \o <<hit>>, seedDraws, state)
  BY <1>1, StrikeTraced
<1>3. CASE Forfeit(p, "three_strikes", <<hit>>) BY <1>1, <1>2, <1>3, ForfeitStory
<1>4. CASE SeatLeaves(p) /\ status' = status /\ log' = log \o <<hit, out>>
  <2> HIDE DEF hit
  <2>1. out \in OpenEntry /\ Traced(Append(Append(log, hit), out), seedDraws, state')
    BY <1>1, <1>2, <1>4, LeavesTraced
  <2> HIDE DEF out
  <2>2. log' = Append(Append(log, hit), out) BY <1>1, <1>2, <1>4, <2>1, Shapes
  <2> QED BY <1>4, <2>1, <2>2 DEF Story
<1> QED BY <1>3, <1>4

-----------------------------------------------------------------------------
(* What is held still means what it meant.  A submission of a simultaneous *)
(* phase is resolved when it arrives and recomputed after the moves of the *)
(* seats before it; so as long as its seat is to move, the state has to    *)
(* give it the move that is held.                                          *)

Meant ==
  status = "running" =>
    \A p \in PlayersToMove(state) \ Passed :
      Held[p] # None /\ Held[p].forced = "no" =>
        Held[p].move = Resolve(state, p, Held[p].submission)

\* No flag is taken in a game that is over.
FlagsOpen == loop = "flags" => IsTerminal(state) = None

LEMMA MeaningKept ==
  ASSUME SubmissionsLast, NEW g \in GState, NEW p \in PlayersToMove(g), NEW h \in GState,
         h = ForfeitPlayer(g, p) \/ \E m \in Move : h = Apply(g, p, m),
         NEW q \in PlayersToMove(g), q \in PlayersToMove(h), q # p, NEW sub \in Submission
  PROVE  Resolve(h, q, sub) = Resolve(g, q, sub)
<1>1. h # None /\ p \in Player BY NoneIsNothing, KernelContract
<1>2. h \in {Apply(g, p, m) : m \in Move} \cup {ForfeitPlayer(g, p)} OBVIOUS
<1>3. q \in (PlayersToMove(g) \cap PlayersToMove(h)) \ {p} OBVIOUS
<1> QED BY <1>1, <1>2, <1>3 DEF SubmissionsLast

LEMMA EndedMeant == IInv' /\ status' = "ended" => Meant' /\ FlagsOpen'
BY DEF Meant, FlagsOpen, IInv, Sealed

LEMMA StillMeant ==
  ASSUME Meant, FlagsOpen,
         UNCHANGED <<state, status, turnIndex, pendingSimultaneous, loop, batch, cursor>>
  PROVE  Meant' /\ FlagsOpen'
BY DEF Meant, FlagsOpen, Held, Passed

LEMMA NextTurnMeant ==
  ASSUME IInv, IInv', WaitInv, PhaseInv', status = "running", NEW held, NextTurn(held),
         \A q \in Player : held[q] # None => held[q] = pendingSimultaneous[q]
  PROVE  Meant' /\ FlagsOpen'
<1>1. /\ status' = "running" /\ loop' = "none" /\ pendingSimultaneous' = held
      /\ turnIndex' = turnIndex + 1 /\ turnIndex \in Nat /\ state' \in GState
  BY HeldTypes DEF NextTurn, IInv, RestTyped
<1>2. \A q \in Player : held[q] # None =>
        held[q].turn_index \in Nat /\ held[q].turn_index <= turnIndex
  <2>1. CASE loop = "resolve"
    <3>1. \A q \in Player : held[q] = None BY <2>1 DEF WaitInv, NothingHeld
    <3> QED BY <3>1
  <2>2. CASE loop # "resolve"
    <3>1. Held = pendingSimultaneous BY <2>2 DEF Held
    <3> QED BY <3>1, HeldTypes DEF WaitInv
  <2> QED BY <2>1, <2>2
<1>3. Held' = held BY <1>1 DEF Held
<1> HIDE DEF Held
<1>4. ASSUME NEW q \in PlayersToMove(state'), held[q] # None PROVE FALSE
  <2>1. q \in Player /\ q \notin Gone(state') BY <1>1, MoversStay
  <2>2. InPhase(q)' BY <1>1, <1>3, <1>4, <2>1 DEF PhaseInv, Settled
  <2>3. held[q].turn_index = turnIndex + 1 BY <1>1, <1>3, <2>2 DEF InPhase
  <2> QED BY <1>1, <1>2, <1>4, <2>1, <2>3
<1> QED BY <1>1, <1>3, <1>4 DEF Meant, FlagsOpen

LEMMA TurnOfMeant ==
  ASSUME IInv, IInv', WaitInv, PhaseInv', NEW p \in Player, TurnOf(p)
  PROVE  Meant' /\ FlagsOpen'
<1>1. pendingSimultaneous \in [Player -> HeldSubmission \cup {None}] BY DEF IInv, EndTyped
<1>2. \A q \in Player :
        [pendingSimultaneous EXCEPT ![p] = None][q] # None
          => [pendingSimultaneous EXCEPT ![p] = None][q] = pendingSimultaneous[q]
  BY <1>1
<1> QED BY <1>2, TurnOfFacts, NextTurnMeant, EndedMeant

LEMMA FinishPhaseMeant ==
  ASSUME IInv, IInv', WaitInv, PhaseInv', FinishPhase
  PROVE  Meant' /\ FlagsOpen'
BY FinishPhaseHolds, NextTurnMeant, EndedMeant

LEMMA HoldOfMeant ==
  ASSUME PhasesLast, SubmissionsLast, IInv, IInv', Meant, NEW p \in Player, HoldOf(p)
  PROVE  Meant' /\ FlagsOpen'
<1>1. CASE status' = "ended" BY <1>1, EndedMeant
<1>2. CASE status' # "ended"
  <2>1. /\ Idle /\ ~Alone(p) /\ status = "running" /\ p \in PlayersToMove(state)
        /\ status' = "running"
        /\ state' = state \/ SeatLeaves(p)
    BY <1>2, HoldOfFacts
  <2>2. PICK held : /\ Holds(p, held) /\ Collect(held)
                    /\ held[p].forced = "no" =>
                         held[p].move = Resolve(state, p, held[p].submission)
    BY <1>2, HoldOfFacts
  <2>3. Held = pendingSimultaneous /\ Passed = {} BY <2>1 DEF Held, Passed, Idle
  <2>4. Held' = held /\ loop' # "flags"
    <3>1. CASE WaitingFor(state', held) # {}
      <4>1. pendingSimultaneous' = held /\ loop' = "none"
        BY <2>1, <2>2, <3>1 DEF Collect, looping, Idle
      <4> QED BY <4>1 DEF Held
    <3>2. CASE WaitingFor(state', held) = {}
      <4>1. loop' = "resolve" /\ batch' = held BY <2>2, <3>2 DEF Collect
      <4> QED BY <4>1 DEF Held
    <3> QED BY <3>1, <3>2
  <2>5. state \in GState /\ state' \in GState BY DEF IInv, RestTyped
  <2> HIDE DEF Held, Passed
  <2>6. ASSUME NEW q \in PlayersToMove(state'), held[q] # None, held[q].forced = "no"
        PROVE  held[q].move = Resolve(state', q, held[q].submission)
    <3>1. CASE state' = state
      <4>1. q \in Player BY <2>5, MoversStay
      <4>2. CASE q = p BY <2>2, <2>6, <3>1, <4>2
      <4>3. CASE q # p
        <5>1. held[q] = Held[q] BY <2>2, <2>3, <4>1, <4>3 DEF Holds
        <5> QED BY <2>1, <2>3, <2>6, <3>1, <5>1 DEF Meant
      <4> QED BY <4>2, <4>3
    <3>2. CASE SeatLeaves(p)
      <4>1. state' = ForfeitPlayer(state, p) BY <3>2 DEF SeatLeaves
      <4>2. PlayersToMove(state') \subseteq PlayersToMove(state) \ {p}
        BY <2>1, <2>5, <4>1, PhaseLasts DEF Alone
      <4>3. q \in PlayersToMove(state) /\ q # p /\ q \in Player BY <2>5, <4>2, MoversStay
      <4>4. held[q] = Held[q] /\ held[q] \in HeldSubmission
        BY <2>2, <2>3, <2>6, <4>3 DEF Holds
      <4>5. held[q].submission \in Submission BY <2>6, <4>4 DEF HeldSubmission
      <4>6. Resolve(state', q, held[q].submission) = Resolve(state, q, held[q].submission)
        BY <2>1, <2>5, <2>6, <4>1, <4>3, <4>5, MeaningKept
      <4> QED BY <2>1, <2>3, <2>6, <4>3, <4>4, <4>6 DEF Meant
    <3> QED BY <2>1, <3>1, <3>2
  <2> QED BY <2>4, <2>6 DEF Meant, FlagsOpen
<1> QED BY <1>1, <1>2

LEMMA TimeoutPhaseMeant ==
  ASSUME IInv, PhaseInv, Meant, TimeoutPhase
  PROVE  Meant' /\ FlagsOpen'
<1>1. /\ Idle /\ status = "running" /\ state' = state /\ loop' = "flags"
      /\ Held = pendingSimultaneous /\ Held' = pendingSimultaneous'
      /\ \A q \in Player :
           pendingSimultaneous'[q] =
             IF q \in WaitingFor(state, pendingSimultaneous)
             THEN [turn_index |-> turnIndex, submission |-> None, move |-> None,
                   forced |-> "timeout"]
             ELSE pendingSimultaneous[q]
  BY TimeoutPhaseHolds
<1>2. Passed = {} /\ PlayersToMove(state) \subseteq Player
  BY <1>1, MoverIsPlayer DEF Passed, Idle
<1> HIDE DEF Held, Passed
<1>3. \A q \in PlayersToMove(state') : Held'[q].forced = "no" => Held'[q] = Held[q]
  BY <1>1, <1>2
<1> QED BY <1>1, <1>2, <1>3 DEF Meant, FlagsOpen, PhaseInv

LEMMA ResolvePhaseMeant ==
  ASSUME IInv, Meant, ResolvePhase
  PROVE  Meant' /\ FlagsOpen'
<1>1. /\ status = "running" /\ state' = state /\ Held' = Held
      /\ loop = "flags" /\ loop' = "resolve"
  BY ResolvePhaseHolds
<1>2. Passed = {} BY <1>1 DEF Passed
<1> HIDE DEF Held, Passed
<1> QED BY <1>1, <1>2 DEF Meant, FlagsOpen

LEMMA ResolvingMover ==
  ASSUME IInv, PhaseInv, NEW p \in Player, Resolving(p)
  PROVE  /\ status = "running" /\ p \in PlayersToMove(state) /\ p \notin Passed
         /\ batch[p].turn_index = turnIndex /\ Held = batch /\ batch[p] # None
<1>1. /\ status = "running" /\ loop = "resolve" /\ batch[p] # None
      /\ p \in PlayersToMove(state) /\ p >= cursor
  BY ResolvingFacts DEF Resolving, IsFirst, Due
<1>2. cursor \in Nat /\ p \in Nat BY SeatsAssumption DEF IInv, EndTyped, Player
<1>3. Held = batch /\ p \notin Passed BY <1>1, <1>2 DEF Held, Passed
<1> HIDE DEF Held, Passed
<1>4. p \notin Gone(state) BY <1>1, MoversStay DEF IInv, RestTyped
<1>5. InPhase(p) BY <1>1, <1>3, <1>4 DEF PhaseInv, Settled
<1> QED BY <1>1, <1>3, <1>5 DEF InPhase

LEMMA ResolveStepMeant ==
  ASSUME PhasesLast, SubmissionsLast, IInv, IInv', PhaseInv, Meant, NEW p \in Player, ResolveStep(p)
  PROVE  Meant' /\ FlagsOpen'
<1>1. CASE status' = "ended" BY <1>1, EndedMeant
<1>2. CASE status' # "ended"
  <2>1. /\ Resolving(p) /\ status = "running" /\ status' = "running" /\ turnIndex' = turnIndex
        /\ loop = "resolve" /\ loop' = "resolve" /\ cursor' = p + 1 /\ Held' = Held
    BY <1>2, ResolveStepHolds
  <2>2. /\ p \in PlayersToMove(state) /\ p \notin Passed
        /\ state \in GState /\ state' \in GState
    BY <2>1, ResolvingMover DEF IInv, RestTyped
  <2>3. Gone(state) \subseteq Gone(state') BY <2>1, ResolveStepGone
  <2>4. state' = ForfeitPlayer(state, p) \/ \E m \in Move : state' = Apply(state, p, m)
    BY <2>1, ResolveStepActs
  <2>5. \A q \in Player : q \notin Passed' => q # p /\ q \notin Passed
    <3>1. cursor \in Nat /\ p \in Nat /\ p >= cursor
      BY <2>1, SeatsAssumption DEF Resolving, IsFirst, Due, IInv, EndTyped, Player
    <3>2. \A q \in Player : q \in Nat BY SeatsAssumption DEF Player
    <3> QED BY <2>1, <3>1, <3>2 DEF Passed
  <2> HIDE DEF Held, Passed
  <2>6. ASSUME NEW q \in PlayersToMove(state') \ Passed', Held[q] # None, Held[q].forced = "no"
        PROVE  Held[q].move = Resolve(state', q, Held[q].submission)
    <3>1. q \in Player /\ q \notin Gone(state) BY <2>2, <2>3, <2>6, MoversStay
    <3>2. q # p /\ q \notin Passed BY <2>5, <2>6, <3>1
    <3>3. InPhase(q) BY <2>1, <2>6, <3>1 DEF PhaseInv, Settled
    <3>4. IsTerminal(state) = None BY <2>2, MoversStay
    <3>5. q \in PlayersToMove(state) BY <3>2, <3>3, <3>4 DEF InPhase, ToMove
    <3>6. Held[q].submission \in Submission
      <4>1. Held[q] \in HeldSubmission BY <2>6, <3>1, HeldTypes
      <4> QED BY <2>6, <4>1 DEF HeldSubmission
    <3>7. Resolve(state', q, Held[q].submission) = Resolve(state, q, Held[q].submission)
      BY <2>2, <2>4, <2>6, <3>2, <3>5, <3>6, MeaningKept
    <3> QED BY <2>1, <2>6, <3>2, <3>5, <3>7 DEF Meant
  <2> QED BY <2>1, <2>6 DEF Meant, FlagsOpen
<1> QED BY <1>1, <1>2

LEMMA TakeFlagEnds ==
  ASSUME SideClocksForfeit, IInv, NEW p \in Player, TakeFlag(p)
  PROVE  Forfeit(p, "time", <<>>) /\ loop = "flags" /\ status' = "ended" /\ seedDraws' = seedDraws
<1>1. loop = "flags" /\ p \in Flagged /\ seedDraws' = seedDraws BY DEF TakeFlag, IsFirst
<1>2. SideBudget # None BY <1>1 DEF Flagged, FlagFallen
<1>3. ForfeitPlayer(state, p) = None BY <1>2 DEF SideClocksForfeit, IInv, RestTyped
<1>4. Forfeit(p, "time", <<>>) BY <1>3 DEF TakeFlag, SeatLeaves
<1> QED BY <1>1, <1>4 DEF Forfeit, EndGame

LEMMA NextMeant ==
  /\ PhasesLast /\ SubmissionsLast /\ SideClocksForfeit
  /\ IInv /\ IInv' /\ WaitInv /\ PhaseInv /\ PhaseInv' /\ Meant /\ FlagsOpen /\ [Next]_vars
  => Meant' /\ FlagsOpen'
<1> SUFFICES ASSUME PhasesLast, SubmissionsLast, SideClocksForfeit,
                    IInv, IInv', WaitInv, PhaseInv, PhaseInv', Meant, FlagsOpen, [Next]_vars
             PROVE  Meant' /\ FlagsOpen'
  OBVIOUS
<1>1. CASE Tick \/ Ended \/ UNCHANGED vars
  BY <1>1, StillMeant DEF Tick, Ended, vars, game, outcome, looping
<1>2. ASSUME NEW p \in Player, Resign(p) \/ \E sub \in Submission : AcceptDraw(p, sub)
      PROVE  Meant' /\ FlagsOpen'
  <2>1. status' = "ended" BY <1>2 DEF Resign, AcceptDraw, EndGame
  <2> QED BY <2>1, EndedMeant
<1>3. ASSUME NEW p \in Player, NEW sub \in Submission, RejectIllegal(p, sub)
      PROVE  Meant' /\ FlagsOpen'
  BY <1>3, StillMeant DEF RejectIllegal, game, outcome, looping
<1>4. ASSUME NEW p \in Player, TakeFlag(p) PROVE Meant' /\ FlagsOpen'
  BY <1>4, TakeFlagEnds, EndedMeant
<1> QED
  BY <1>1, <1>2, <1>3, <1>4, TurnOfMeant, HoldOfMeant, TimeoutPhaseMeant, ResolvePhaseMeant,
     ResolveStepMeant, FinishPhaseMeant
     DEF Next, Timeout, LoopStep, Submit, TurnOf, HoldOf

-----------------------------------------------------------------------------
(* The actions of a phase.                                                 *)

LEMMA SilentStory ==
  ASSUME Story, UNCHANGED <<log, state, seedDraws, status, result>>
  PROVE  Story'
BY DEF Story, Explained

\* A step of the resolve loop that applies a move and writes it, alone or with
\* a strike.
LEMMA AppliedStory ==
  ASSUME IInv, status = "running", status' = "running", Story, NEW p \in Player,
         NEW act \in OpenEntry, Leads(state, seedDraws, act, state', seedDraws'),
         \/ log' = Append(log, act)
         \/ \E reason \in {"illegal_move", "timeout"} : log' = log \o <<act, StrikeEntry(p, reason)>>
  PROVE  Story'
<1>1. \A reason \in {"illegal_move", "timeout"} :
        StrikeEntry(p, reason) \in OpenEntry /\ Quiet(StrikeEntry(p, reason))
  BY StrikeTraced
<1>2. /\ Traced(Append(log, act), seedDraws', state')
      /\ \A b \in OpenEntry : Quiet(b) => Traced(log \o <<act, b>>, seedDraws', state')
  BY EntryTraced
<1>3. Traced(log', seedDraws', state') BY <1>1, <1>2
<1> QED BY <1>3 DEF Story

LEMMA HoldOfStory ==
  ASSUME IInv, Story, NEW p \in Player, HoldOf(p)
  PROVE  Story'
<1>1. PICK sub \in Submission : HoldMove(p, sub) \/ HoldForced(p, sub) \/ StrikeOutInPhase(p, sub)
  BY DEF HoldOf
<1>2. IsMove(p, sub) BY <1>1 DEF HoldMove, HoldForced, StrikeOutInPhase, ThirdIllegal
<1>3. status = "running" /\ p \in PlayersToMove(state) BY <1>2, SubmitFacts
<1>4. CASE HoldMove(p, sub) BY <1>4, SilentStory DEF HoldMove, game, outcome
<1>5. CASE HoldForced(p, sub)
  <2>1. /\ log' = Append(log, StrikeEntry(p, "illegal_move"))
        /\ state' = state /\ seedDraws' = seedDraws /\ status' = "running"
    BY <1>3, <1>5 DEF HoldForced, game, outcome
  <2> QED BY <1>3, <2>1, StrikeTraced DEF Story
<1>6. CASE StrikeOutInPhase(p, sub)
  <2>1. /\ seedDraws' = seedDraws
        /\ \/ Forfeit(p, "three_strikes", <<StrikeEntry(p, "illegal_move")>>)
           \/ /\ SeatLeaves(p) /\ status' = status
              /\ log' = log \o <<StrikeEntry(p, "illegal_move"), EliminationEntry(p, "three_strikes")>>
    BY <1>6 DEF StrikeOutInPhase, outcome
  <2> QED BY <1>3, <2>1, StruckOutInPhaseStory
<1> QED BY <1>1, <1>4, <1>5, <1>6

\* A held move is applied in a state in which it is still what the submission
\* says: this is where the promise of the games is used.
LEMMA ResolveMoveStory ==
  ASSUME IInv, PhaseInv, Meant, Story, NEW p \in Player, ResolveMove(p)
  PROVE  Story'
<1> DEFINE m == batch[p].move
           act == ResolvedMove(p, FALSE, OwnMove(m))
<1>1. /\ Resolving(p) /\ batch[p].forced = "no" /\ ~IsStale(p)
      /\ state' = Apply(state, p, m) /\ seedDraws' = seedDraws
      /\ log' = Append(log, act) /\ status' = status
  BY DEF ResolveMove, NextSeat, outcome
<1>2. /\ status = "running" /\ p \in PlayersToMove(state) /\ p \notin Passed
      /\ batch[p].turn_index = turnIndex /\ Held = batch /\ batch[p] # None
  BY <1>1, ResolvingMover
<1>3. m \in Move /\ batch[p].submission \in Submission BY <1>1, ResolvingFacts
<1>4. Apply(state, p, m) # None BY <1>1 DEF IsStale
<1>5. Resolve(state, p, batch[p].submission) = m BY <1>1, <1>2 DEF Meant
<1>6. Apply(state, p, m) \in GState BY <1>3, <1>4, GameTypes DEF IInv, RestTyped
<1>7. act \in OpenEntry
  <2>1. OwnMove(m) \in Pick /\ OwnMove(m).move = m BY <1>3 DEF OwnMove, Pick
  <2>2. Apply(state, p, OwnMove(m).move) \in GState BY <1>6, <2>1
  <2>3. batch[p].forced # "timeout" BY <1>1
  <2> QED BY <1>1, <2>1, <2>2, <2>3, ResolvedMoveType
<1>8. Leads(state, seedDraws, act, state', seedDraws')
  <2>1. act = MoveEntry(p, batch[p].submission, turnIndex, FALSE, OwnMove(m), Apply(state, p, m))
    BY <1>2 DEF ResolvedMove, OwnMove
  <2> HIDE DEF m, act
  <2>2. Leads(state, seedDraws,
              MoveEntry(p, batch[p].submission, turnIndex, FALSE, OwnMove(m), Apply(state, p, m)),
              Apply(state, p, m), seedDraws)
    BY <1>3, <1>4, <1>5, OwnMoveLeads
  <2> QED BY <1>1, <2>1, <2>2
<1> HIDE DEF act
<1> QED BY <1>1, <1>2, <1>7, <1>8, AppliedStory

LEMMA ResolveDrawnStory ==
  ASSUME IInv, PhaseInv, Story, NEW p \in Player, ResolveForced(p) \/ ResolveStale(p)
  PROVE  Story'
<1>1. /\ Resolving(p) /\ batch[p].forced # "timeout" /\ status' = status
  BY DEF ResolveForced, ResolveStale, IsStale, NextSeat, outcome
<1>2. PICK pick \in SeededMoves(p, "illegal") :
        /\ state' = Apply(state, p, pick.move) /\ seedDraws' = seedDraws \o pick.draws
        /\ \/ log' = Append(log, ResolvedMove(p, TRUE, pick))
           \/ log' = log \o <<ResolvedMove(p, TRUE, pick), StrikeEntry(p, "illegal_move")>>
  BY DEF ResolveForced, ResolveStale
<1>3. /\ status = "running" /\ p \in PlayersToMove(state) /\ batch[p].turn_index = turnIndex
  BY <1>1, ResolvingMover
<1>4. pick \in Pick /\ Apply(state, p, pick.move) \in GState BY <1>3, IInvTypeOK, SeededMovesType
<1> DEFINE act == ResolvedMove(p, TRUE, pick)
<1>5. act \in OpenEntry BY <1>1, <1>4, ResolvedMoveType
<1>6. Leads(state, seedDraws, act, state', seedDraws')
  <2>1. act = MoveEntry(p, batch[p].submission, turnIndex, TRUE, pick, Apply(state, p, pick.move))
    BY <1>3 DEF ResolvedMove
  <2> HIDE DEF act
  <2> QED BY <1>2, <1>3, <2>1, ForcedMoveLeads
<1> HIDE DEF act
<1> QED BY <1>1, <1>2, <1>3, <1>5, <1>6, AppliedStory DEF act

LEMMA ResolveTimeoutStory ==
  ASSUME IInv, PhaseInv, Story, NEW p \in Player, ResolveTimeout(p)
  PROVE  Story'
<1>1. Resolving(p) /\ status' = status BY DEF ResolveTimeout, NextSeat, outcome
<1>2. PICK pick \in TimeoutMoves(p) :
        /\ state' = Apply(state, p, pick.move) /\ seedDraws' = seedDraws \o pick.draws
        /\ log' = log \o <<TimeoutEntry(p, pick, state'), StrikeEntry(p, "timeout")>>
  BY DEF ResolveTimeout
<1>3. status = "running" /\ p \in PlayersToMove(state) BY <1>1, ResolvingMover
<1>4. pick \in Pick /\ state' \in GState BY <1>2, <1>3, IInvTypeOK, TimeoutMovesType
<1> DEFINE act == TimeoutEntry(p, pick, state')
<1>5. act \in OpenEntry BY <1>4, TimeoutEntryIsAct
<1>6. Leads(state, seedDraws, act, state', seedDraws') BY <1>2, <1>3, TimeoutLeads
<1> HIDE DEF act
<1> QED BY <1>1, <1>2, <1>3, <1>5, <1>6, AppliedStory DEF act

LEMMA ResolveStrikeOutStory ==
  ASSUME IInv, PhaseInv, Story, NEW p \in Player, ResolveStrikeOut(p)
  PROVE  Story'
<1>1. Resolving(p) /\ seedDraws' = seedDraws BY DEF ResolveStrikeOut
<1>2. PICK reason \in {"illegal_move", "timeout"} :
        \/ Forfeit(p, "three_strikes", <<StrikeEntry(p, reason)>>)
        \/ /\ SeatLeaves(p) /\ status' = status
           /\ log' = log \o <<StrikeEntry(p, reason), EliminationEntry(p, "three_strikes")>>
  BY DEF ResolveStrikeOut, NextSeat, outcome
<1>3. status = "running" /\ p \in PlayersToMove(state) BY <1>1, ResolvingMover
<1> QED BY <1>1, <1>2, <1>3, StruckOutInPhaseStory

LEMMA FinishPhaseStory ==
  ASSUME IInv, Story, FinishPhase
  PROVE  Story'
<1>1. /\ loop = "resolve" /\ state' = state /\ seedDraws' = seedDraws
      /\ AdvanceTurn(ExpireOffer, pendingSimultaneous, <<>>)
  BY DEF FinishPhase, game
<1>2. status = "running" /\ log \in Seq(OpenEntry) BY <1>1, RunningLog
<1>3. state' \in GState /\ seedDraws' \in Seq(Draw) BY <1>1 DEF IInv, RestTyped
<1>4. log \o <<>> = log /\ <<>> \in Seq(OpenEntry) BY <1>2
<1>5. Traced(log \o <<>>, seedDraws', state') BY <1>1, <1>4 DEF Story
<1> QED BY <1>1, <1>2, <1>3, <1>4, <1>5, AdvanceStory

LEMMA TakeFlagStory ==
  ASSUME SideClocksForfeit, IInv, FlagsOpen, Story, NEW p \in Player, TakeFlag(p)
  PROVE  Story'
<1>1. Forfeit(p, "time", <<>>) /\ loop = "flags" /\ seedDraws' = seedDraws BY TakeFlagEnds
<1>2. status = "running" /\ log \in Seq(OpenEntry) BY <1>1, RunningLog
<1>3. IsTerminal(state) = None BY <1>1 DEF FlagsOpen
<1>4. log \o <<>> = log /\ <<>> \in Seq(OpenEntry) BY <1>2
<1>5. Traced(log \o <<>>, seedDraws, state) BY <1>4 DEF Story
<1> QED BY <1>1, <1>2, <1>3, <1>4, <1>5, ForfeitStory

LEMMA NextStory ==
  /\ SideClocksForfeit
  /\ IInv /\ PhaseInv /\ Meant /\ FlagsOpen /\ Story /\ [Next]_vars
  => Story'
<1> SUFFICES ASSUME SideClocksForfeit, IInv, PhaseInv, Meant, FlagsOpen, Story, [Next]_vars
             PROVE  Story'
  OBVIOUS
<1>1. CASE Tick \/ Ended \/ TimeoutPhase \/ ResolvePhase \/ UNCHANGED vars
  BY <1>1, SilentStory DEF Tick, Ended, TimeoutPhase, ResolvePhase, vars, game, outcome
<1>2. ASSUME NEW p \in Player, NEW sub \in Submission, RejectIllegal(p, sub) PROVE Story'
  BY <1>2, SilentStory DEF RejectIllegal, game, outcome
<1>3. ASSUME NEW p \in Player, NEW sub \in Submission, Submit(p, sub) PROVE Story'
  BY <1>2, <1>3, AcceptDrawStory, PlayMoveStory, ForceMoveStory, StrikeOutOnIllegalStory, HoldOfStory
     DEF Submit, HoldOf
<1>4. ASSUME NEW p \in Player, ResolveStep(p) PROVE Story'
  BY <1>4, ResolveMoveStory, ResolveDrawnStory, ResolveTimeoutStory, ResolveStrikeOutStory
     DEF ResolveStep
<1>5. ASSUME NEW p \in Player, TimeoutTurn(p) PROVE Story'
  BY <1>5, TimeoutMoveStory, TimeoutStrikeOutStory, TimeoutFlagStory DEF TimeoutTurn
<1> QED
  BY <1>1, <1>3, <1>4, <1>5, ResignStory, TakeFlagStory, FinishPhaseStory
     DEF Next, Timeout, LoopStep

LEMMA InitStory == Init => Meant /\ FlagsOpen /\ Story
<1> SUFFICES ASSUME Init PROVE Meant /\ FlagsOpen /\ Story
  OBVIOUS
<1>1. Meant /\ FlagsOpen
  <2>1. loop = "none" /\ Held = NothingHeld BY DEF Init, Held
  <2>2. state \in GState BY SeatsAssumption DEF Init
  <2>3. \A p \in PlayersToMove(state) : Held[p] = None BY <2>1, <2>2, MoversStay DEF NothingHeld
  <2> QED BY <2>1, <2>3 DEF Meant, FlagsOpen
<1>2. Traced(log, seedDraws, state)
  <2>1. /\ Len(log) = 2 /\ log[1].kind = "commitment" /\ log[2].kind = "start"
        /\ log[2].initial_state_hash = state /\ seedDraws = <<>>
    BY DEF Init
  <2> DEFINE st == [i \in {2} |-> state]
             dn == [i \in {2} |-> <<>>]
  <2>2. st[2] = state /\ dn[2] = <<>> OBVIOUS
  <2> HIDE DEF st, dn
  <2>3. Begins(<<>>, <<>>) BY DEF Begins
  <2>4. 2 .. Len(log) = {2} /\ 3 .. Len(log) = {} BY <2>1
  <2>5. Traces(st, dn, log, seedDraws, state) BY <2>1, <2>2, <2>3, <2>4 DEF Traces
  <2>6. Keyed(<<>>) BY DEF Keyed
  <2> QED BY <2>1, <2>5, <2>6 DEF Traced
<1>3. status = "running" BY DEF Init
<1> QED BY <1>1, <1>2, <1>3 DEF Story

-----------------------------------------------------------------------------
(* The verifier goes through the states and draws of the trace.            *)

Run(g, D) == [state |-> g, drawn |-> D, ok |-> TRUE]

\* The verifier's stream gives the draw the room made, and no other.
LEMMA RedrawsThatDraw ==
  ASSUME seedDraws \in Seq(Draw), Keyed(seedDraws), NEW D \in Seq(Draw), NEW d \in Draw,
         Begins(Append(D, d), seedDraws), d.counter = DrawsOf(D, d.purpose, d.turn_index)
  PROVE  Redraws(D, d.purpose, d.turn_index, d.arg) = {d}
<1> DEFINE k == Len(D) + 1
<1>1. k \in DOMAIN seedDraws /\ seedDraws[k] = d
  <2>1. /\ Len(Append(D, d)) = k /\ Append(D, d)[k] = d /\ k \in 1 .. Len(Append(D, d))
        /\ Len(Append(D, d)) <= Len(seedDraws)
    BY DEF Begins
  <2>2. seedDraws[k] = d BY <2>1 DEF Begins
  <2> QED BY <2>1, <2>2
<1>2. ASSUME NEW i \in DOMAIN seedDraws, seedDraws[i].purpose = d.purpose,
             seedDraws[i].turn_index = d.turn_index, seedDraws[i].counter = d.counter
      PROVE  seedDraws[i] = d
  BY <1>1, <1>2 DEF Keyed
<1>3. Redraws(D, d.purpose, d.turn_index, d.arg) =
        {x \in {seedDraws[i] : i \in DOMAIN seedDraws} :
           /\ x.purpose = d.purpose /\ x.turn_index = d.turn_index
           /\ x.counter = d.counter /\ x.arg = d.arg}
  BY DEF Redraws, DrawsOf, DrawnFor
<1> QED BY <1>1, <1>2, <1>3

LEMMA ActRecomputed ==
  ASSUME seedDraws \in Seq(Draw), Keyed(seedDraws), NEW D \in Seq(Draw), NEW g, NEW e, NEW act,
         ActOfEntry(g, D, e, act), Begins(D \o act.draws, seedDraws)
  PROVE  Recomputed(Run(g, D), e) = {act}
<1>1. Run(g, D).state = g /\ Run(g, D).drawn = D BY DEF Run
<1>2. ASSUME NEW purpose, PickedBy(g, D, e, purpose, act)
      PROVE  Drawn(Run(g, D), e, purpose) = {act}
  <2> DEFINE legal == LegalMoves(g, e.player)
  <2>1. PICK d \in Draw :
          /\ d.purpose = purpose /\ d.turn_index = e.turn_index
          /\ d.counter = DrawsOf(D, purpose, e.turn_index) /\ d.arg = Len(legal)
          /\ act = [move |-> legal[d.result + 1], draws |-> <<d>>]
    BY <1>2 DEF PickedBy
  <2>2. D \o act.draws = Append(D, d) BY <2>1
  <2>3. Redraws(D, purpose, e.turn_index, Len(legal)) = {d} BY <2>1, <2>2, RedrawsThatDraw
  <2>4. Drawn(Run(g, D), e, purpose) =
          {[move |-> legal[x.result + 1], draws |-> <<x>>] : x \in {d}}
    BY <1>1, <2>3 DEF Drawn
  <2> HIDE DEF legal
  <2> QED BY <2>1, <2>4
<1>3. CASE e.kind = "timeout" BY <1>1, <1>2, <1>3 DEF ActOfEntry, Recomputed
<1>4. CASE e.kind = "move" /\ e.forced BY <1>1, <1>2, <1>4 DEF ActOfEntry, Recomputed
<1>5. CASE e.kind = "move" /\ ~e.forced
  <2>1. Resolve(g, e.player, e.submission) # None
        /\ act = OwnMove(Resolve(g, e.player, e.submission))
    BY <1>5 DEF ActOfEntry
  <2>2. Recomputed(Run(g, D), e) =
          {OwnMove(m) : m \in {Resolve(g, e.player, e.submission)} \ {None}}
    BY <1>1, <1>5 DEF Recomputed
  <2> QED BY <2>1, <2>2
<1> QED BY <1>3, <1>4, <1>5 DEF ActOfEntry

LEMMA LeadsRecomputes ==
  ASSUME seedDraws \in Seq(Draw), Keyed(seedDraws), NEW D \in Seq(Draw), NEW g, NEW e, NEW h, NEW F,
         Leads(g, D, e, h, F), Begins(F, seedDraws)
  PROVE  Recompute(Run(g, D), e) = Run(h, F)
<1>1. Run(g, D).ok /\ Run(g, D).state = g /\ Run(g, D).drawn = D BY DEF Run
<1>2. CASE Quiet(e) /\ h = g /\ F = D
  <2>1. ~IsAct(e) /\ e.kind # "elimination" BY <1>2 DEF Quiet, IsAct
  <2> QED BY <1>1, <1>2, <2>1 DEF Recompute
<1>3. CASE e.kind = "elimination" /\ e.state_hash = ForfeitPlayer(g, e.player)
           /\ h = ForfeitPlayer(g, e.player) /\ F = D
  <2>1. ~IsAct(e) BY <1>3 DEF IsAct
  <2>2. RecomputeElimination(Run(g, D), e) = [state |-> h, drawn |-> D, ok |-> Run(g, D).ok]
    BY <1>1, <1>3 DEF RecomputeElimination
  <2>3. Run(g, D).ok = TRUE BY DEF Run
  <2>4. RecomputeElimination(Run(g, D), e) = Run(h, F) BY <1>3, <2>2, <2>3 DEF Run
  <2> QED BY <1>1, <1>3, <2>1, <2>4 DEF Recompute
<1>4. ASSUME NEW act, ActLeads(g, D, e, act, h, F) PROVE Recompute(Run(g, D), e) = Run(h, F)
  <2>1. /\ ActOfEntry(g, D, e, act) /\ Apply(g, e.player, act.move) # None
        /\ e.notation = act.move /\ e.draws = act.draws
        /\ e.state_hash = Apply(g, e.player, act.move)
        /\ h = Apply(g, e.player, act.move) /\ F = D \o act.draws
    BY <1>4 DEF ActLeads
  <2>2. IsAct(e) /\ e.kind # "elimination" BY <2>1 DEF ActOfEntry, IsAct
  <2>3. Recomputed(Run(g, D), e) = {act} BY <2>1, ActRecomputed
  <2>4. /\ e.kind = "move" => e.sent_for = e.turn_index
        /\ e.kind = "timeout" \/ e.forced => LegalMoves(g, e.player) # <<>>
    BY <2>1 DEF ActOfEntry
  <2>5. Acceptable(Run(g, D), e) = {act} BY <1>1, <2>1, <2>3, <2>4 DEF Acceptable
  <2>6. (CHOOSE x \in Acceptable(Run(g, D), e) : TRUE) = act BY <2>5
  <2>7. RecomputeAct(Run(g, D), e) =
          [state |-> Apply(g, e.player, act.move), drawn |-> D \o act.draws,
           ok |-> /\ e.notation = act.move /\ e.state_hash = Apply(g, e.player, act.move)
                  /\ e.draws = act.draws]
    BY <1>1, <2>5, <2>6 DEF RecomputeAct
  <2>8. RecomputeAct(Run(g, D), e) = Run(h, F)
    <3>1. (/\ e.notation = act.move /\ e.state_hash = Apply(g, e.player, act.move)
           /\ e.draws = act.draws) = TRUE
      BY <2>1
    <3>2. Run(h, F) = [state |-> Apply(g, e.player, act.move), drawn |-> D \o act.draws, ok |-> TRUE]
      BY <2>1 DEF Run
    <3> QED BY <2>7, <3>1, <3>2
  <2> QED BY <1>1, <2>2, <2>8 DEF Recompute
<1> QED BY <1>2, <1>3, <1>4 DEF Leads

\* A set of numbers that has 0, and with n - 1 also n, has them all.
LEMMA Induct ==
  ASSUME NEW N \in Nat, NEW T, 0 \in T, \A n \in 1 .. N : n - 1 \in T => n \in T
  PROVE  \A n \in 0 .. N : n \in T
<1> SUFFICES ASSUME (0 .. N) \ T # {} PROVE FALSE
  OBVIOUS
<1> DEFINE U == (0 .. N) \ T
<1>1. U \in SUBSET Nat /\ U # {} OBVIOUS
<1>2. \E m \in U : \A n \in U : ~(<<n, m>> \in OpToRel(<, Nat))
  BY <1>1, NatLessThanWellFounded, WFMin
<1>3. PICK m \in U : \A n \in U : ~(n < m) BY <1>1, <1>2 DEF OpToRel
<1>4. m \in 1 .. N /\ m - 1 \in (0 .. N) BY <1>3
<1> QED BY <1>3, <1>4

\* What the verifier computes from a log that has been traced.
LEMMA TracedRecomputes ==
  ASSUME seedDraws \in Seq(Draw), Traced(log, seedDraws, state), Len(log) \in Nat
  PROVE  Recomputation = Run(state, seedDraws)
<1>1. PICK st, dn : Traces(st, dn, log, seedDraws, state) BY DEF Traced
<1>2. /\ Len(log) >= 2 /\ log[1].kind = "commitment" /\ log[2].kind = "start"
      /\ Keyed(seedDraws)
  BY DEF Traced
<1>3. /\ \A i \in 2 .. Len(log) : dn[i] \in Seq(Draw) /\ Begins(dn[i], seedDraws)
      /\ \A i \in 3 .. Len(log) : Leads(st[i - 1], dn[i - 1], log[i], st[i], dn[i])
      /\ st[2] = log[2].initial_state_hash /\ dn[2] = <<>>
      /\ st[Len(log)] = state /\ dn[Len(log)] = seedDraws
  BY <1>1 DEF Traces, Begins
<1> DEFINE N == Len(log)
           first == Run(log[2].initial_state_hash, <<>>)
           Then(f) == [i \in 0 .. N |-> IF i = 0 THEN first ELSE Recompute(f[i - 1], log[i])]
           run == CHOOSE f : f = Then(f)
           seen == [i \in 0 .. N |-> IF i <= 1 THEN first ELSE Run(st[i], dn[i])]
<1>4. Recomputation = run[N] BY DEF Recomputation, Run
<1>5. seen = Then(seen)
  <2>1. Recompute(first, log[1]) = first /\ Recompute(first, log[2]) = first
    <3>1. first.ok BY DEF Run
    <3> HIDE DEF first
    <3> QED BY <1>2, <3>1 DEF Recompute, IsAct
  <2>2. first = Run(st[2], dn[2]) BY <1>3
  <2>3. ASSUME NEW i \in 3 .. N PROVE Recompute(Run(st[i - 1], dn[i - 1]), log[i]) = Run(st[i], dn[i])
    <3>1. i \in 2 .. N /\ i - 1 \in 2 .. N BY <1>2
    <3>2. dn[i - 1] \in Seq(Draw) /\ Begins(dn[i], seedDraws) BY <1>3, <3>1
    <3>3. Leads(st[i - 1], dn[i - 1], log[i], st[i], dn[i]) BY <1>3
    <3> QED BY <1>2, <3>2, <3>3, LeadsRecomputes
  <2> HIDE DEF first
  <2>4. ASSUME NEW i \in 0 .. N
        PROVE  seen[i] = IF i = 0 THEN first ELSE Recompute(seen[i - 1], log[i])
    <3>1. CASE i = 0 BY <3>1
    <3>2. CASE i = 1 BY <2>1, <3>2
    <3>3. CASE i = 2 BY <2>1, <2>2, <3>3
    <3>4. CASE i \in 3 .. N
      <4>1. i - 1 \in 0 .. N /\ ~(i <= 1) /\ ~(i - 1 <= 1) /\ i # 0 BY <3>4
      <4>2. seen[i] = Run(st[i], dn[i]) /\ seen[i - 1] = Run(st[i - 1], dn[i - 1]) BY <4>1
      <4> QED BY <2>3, <3>4, <4>1, <4>2
    <3> QED BY <3>1, <3>2, <3>3, <3>4
  <2>5. seen = [i \in 0 .. N |-> seen[i]] OBVIOUS
  <2> HIDE DEF seen
  <2> QED BY <2>4, <2>5
<1>6. run = Then(run)
  <2>1. \E f : f = Then(f) BY <1>5
  <2> HIDE DEF Then
  <2> QED BY <2>1
<1>7. seen[N] = Run(state, seedDraws) BY <1>2, <1>3
<1> HIDE DEF run, seen, first
<1>8. run[N] = seen[N]
  <2> DEFINE T == {i \in 0 .. N : run[i] = seen[i]}
  <2>1. ASSUME NEW f, f = Then(f), NEW i \in 0 .. N
        PROVE  f[i] = IF i = 0 THEN first ELSE Recompute(f[i - 1], log[i])
    <3>1. Then(f)[i] = IF i = 0 THEN first ELSE Recompute(f[i - 1], log[i]) OBVIOUS
    <3> HIDE DEF Then
    <3> QED BY <2>1, <3>1
  <2> HIDE DEF Then
  <2>2. 0 \in T
    <3>1. 0 \in 0 .. N OBVIOUS
    <3>2. run[0] = first /\ seen[0] = first BY <1>5, <1>6, <2>1, <3>1
    <3> QED BY <3>1, <3>2
  <2>3. ASSUME NEW n \in 1 .. N, n - 1 \in T PROVE n \in T
    <3>1. n \in 0 .. N /\ n # 0 /\ run[n - 1] = seen[n - 1] BY <2>3
    <3>2. run[n] = Recompute(run[n - 1], log[n]) BY <1>6, <2>1, <3>1
    <3>3. seen[n] = Recompute(seen[n - 1], log[n]) BY <1>5, <2>1, <3>1
    <3> QED BY <3>1, <3>2, <3>3
  <2> HIDE DEF T
  <2>4. \A n \in 0 .. N : n \in T BY <2>2, <2>3, Induct
  <2> QED BY <2>4 DEF T
<1> QED BY <1>4, <1>7, <1>8

-----------------------------------------------------------------------------
(* The theorem.                                                            *)

LEMMA StoryStructured ==
  ASSUME IInv, Traced(log, seedDraws, state), status = "ended"
  PROVE  /\ StructureOk /\ Len(log) > 3
         /\ log[Len(log) - 1].result = result /\ log[Len(log) - 1].final_state_hash = state
<1> DEFINE n == Len(log)
<1>1. n \in Nat /\ DOMAIN log = 1 .. n BY DEF IInv, EndTyped
<1>2. /\ {i \in DOMAIN log : log[i].kind = "end"} = {n - 1}
      /\ {i \in DOMAIN log : log[i].kind = "reveal"} = {n}
      /\ log[n - 1].result = result /\ log[n - 1].final_state_hash = state
  BY SealedOutcome DEF OutcomeIsSealed
<1>3. n >= 2 /\ log[1].kind = "commitment" /\ log[2].kind = "start" BY DEF Traced
<1> HIDE DEF n
<1>4. \A i \in 3 .. n : log[i].kind \notin {"commitment", "start"}
  <2>1. PICK st, dn : Traces(st, dn, log, seedDraws, state) BY DEF Traced
  <2>2. \A i \in 3 .. n : Leads(st[i - 1], dn[i - 1], log[i], st[i], dn[i])
    BY <2>1 DEF Traces, n
  <2>3. \A i \in 3 .. n : Quiet(log[i]) \/ log[i].kind \in {"elimination", "move", "timeout"}
    BY <2>2 DEF Leads, ActLeads, ActOfEntry
  <2> QED BY <2>3 DEF Quiet
<1>5. \A i \in DOMAIN log : i = 1 \/ i = 2 \/ i \in 3 .. n BY <1>1
<1>6. Kinds({"commitment"}) = {1} /\ Kinds({"start"}) = {2} BY <1>1, <1>3, <1>4, <1>5 DEF Kinds
<1>7. Kinds({"end"}) = {n - 1} /\ Kinds({"reveal"}) = {n} BY <1>2 DEF Kinds
<1>8. n > 3
  <2>1. n - 1 \in DOMAIN log /\ log[n - 1].kind = "end" BY <1>2
  <2> QED BY <1>1, <1>3, <2>1
<1> QED BY <1>2, <1>6, <1>7, <1>8 DEF StructureOk, n

LEMMA StoryVerifies == IInv /\ Story => ReplayVerifies
<1> SUFFICES ASSUME IInv, Story, status = "ended" PROVE Verified
  BY DEF ReplayVerifies
<1>1. seedDraws \in Seq(Draw) /\ Len(log) \in Nat /\ DOMAIN log = 1 .. Len(log)
  BY DEF IInv, RestTyped, EndTyped
<1>2. Recomputation = Run(state, seedDraws) BY <1>1, TracedRecomputes DEF Story
<1>3. /\ StructureOk /\ Len(log) > 3
      /\ log[Len(log) - 1].result = result /\ log[Len(log) - 1].final_state_hash = state
  BY StoryStructured DEF Story
<1>4. ResultOk(state)
  <2>1. CASE IsTerminal(state) # None BY <1>3, <2>1 DEF Story, Explained, ResultOk
  <2>2. CASE IsTerminal(state) = None
    <3> DEFINE causes == Kinds({"resign", "forfeit", "elimination", "draw_accept"})
               i == Len(log) - 2
    <3>1. EndsGame(log[i]) /\ Explains(log[i], result) /\ i \in 1 .. Len(log)
      BY <1>1, <1>3, <2>2 DEF Story, Explained
    <3>2. i \in causes BY <1>1, <3>1 DEF Kinds, EndsGame
    <3>3. log[Len(log) - 1].kind = "end" /\ log[Len(log)].kind = "reveal"
      BY <1>3 DEF StructureOk, Kinds
    <3>4. \A j \in causes : j <= i
      <4>1. \A j \in causes : j \in 1 .. Len(log) /\ j # Len(log) - 1 /\ j # Len(log)
        BY <1>1, <3>3 DEF Kinds
      <4> HIDE DEF causes
      <4> QED BY <1>1, <1>3, <4>1
    <3>5. \E j \in causes : (\A k \in causes : k <= j) /\ Explains(log[j], result)
      BY <3>1, <3>2, <3>4
    <3> QED BY <1>3, <2>2, <3>5 DEF ResultOk
  <2> QED BY <2>1, <2>2
<1> QED BY <1>2, <1>3, <1>4 DEF Verified, Run

\* Whatever the agents and the clock do, the replay of a finished game verifies:
\* structure, recomputation, result and draws.  For every game whose phases last,
\* whose submissions keep their meaning in them, and which does not go on after
\* a fallen side clock.
THEOREM HonestReplaysVerify ==
  ASSUME PhasesLast, SubmissionsLast, SideClocksForfeit
  PROVE  Spec => []ReplayVerifies
<1> DEFINE Inv == IInv /\ WaitInv /\ PhaseInv /\ Meant /\ FlagsOpen /\ Story
<1>1. Init => Inv BY InitIInv, InitTurns, InitPhase, InitStory
<1>2. Inv /\ [Next]_vars => Inv'
  <2>1. IInv /\ WaitInv /\ PhaseInv /\ [Next]_vars => IInv' /\ WaitInv' /\ PhaseInv'
    BY NextIInv, NextWaits, NextPhase
  <2>2. Inv /\ [Next]_vars => Meant' /\ FlagsOpen' BY <2>1, NextMeant
  <2>3. Inv /\ [Next]_vars => Story' BY NextStory
  <2> QED BY <2>1, <2>2, <2>3
<1>3. Inv => ReplayVerifies BY StoryVerifies
<1> QED BY <1>1, <1>2, <1>3, PTL DEF Spec

=============================================================================
