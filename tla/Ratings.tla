------------------------------ MODULE Ratings ------------------------------
(***************************************************************************)
(* applyGameRatings (src/match/ratings.ts): what happens to the rating rows *)
(* when games end, with the decomposition of a game into results            *)
(* (src/match/glicko2.ts) and the rebuild of seasons.ts.                    *)
(*                                                                         *)
(* Every call runs through a series of statements, each an await of its    *)
(* own; calls for different games, and several for one game, run side by   *)
(* side.  A rating is what it was made from: the sequence of games that    *)
(* went into it (rate() is arithmetic on reals), so a row's games_played   *)
(* is the length of that sequence.                                         *)
(***************************************************************************)
EXTENDS Integers, Sequences, FiniteSets, SequencesExt, FiniteSetsExt

CONSTANTS
  None,
  Game, Agent,
  House,        \* the agents whose handle begins with house-
  SeatsOf,      \* [Game -> the agents at the table, in seat order]
  MinReal,      \* [Game -> minRatedRealSeats]
  Queue,        \* [Game -> the key the lobby knows the game's queue by]
  Column,       \* [Game -> variantKeyOf(the variant column of its row)]
  Results,      \* [Game -> the results the game can end with]
  Call,         \* calls of applyGameRatings under way
  MaxFaults     \* bound: statements that throw

ASSUME RatingsAssumption ==
  /\ House \subseteq Agent
  /\ None \notin Game \cup {"rated", "exhibition"}
  /\ \A g \in Game : SeatsOf[g] \in Seq(Agent)
  \* TablesAreLegal: nobody has two seats
  /\ \A g \in Game : \A i, j \in 1 .. Len(SeatsOf[g]) : SeatsOf[g][i] = SeatsOf[g][j] => i = j
  \* Scores are numbers, one of every seat (a seat left out of a score map
  \* counts as below all others).
  /\ \A g \in Game : \A r \in Results[g] :
       r.scores = <<>> \/ \A n \in 1 .. Len(SeatsOf[g]) : r.scores[n] \in Int
  /\ MaxFaults \in Nat

VARIABLES
  result,    \* result_json once the row says 'ended', None before
  vkey,      \* the games whose vkey entry is in the cache
  claim,     \* rated_games: None, "rated" or "exhibition"
  teams,     \* game_teams: the seats recorded
  row,       \* the ratings rows: [Agent \X key -> the games that went in]
  call,      \* the calls
  entered,   \* history: how often a game was written to a row of an agent
  overlap,   \* history: agents whose row was read by a call between another's read and write
  faults

vars == <<result, vkey, claim, teams, row, call, entered, overlap, faults>>

SeatNumbers(g) == 1 .. Len(SeatsOf[g])
Seated(g) == {SeatsOf[g][n] : n \in SeatNumbers(g)}
Keys == {Queue[g] : g \in Game} \cup {Column[g] : g \in Game}

NoCall == [pc |-> "idle", game |-> None, key |-> None, at |-> 0, base |-> <<>>]

-----------------------------------------------------------------------------
(* decomposeGame: what one game says about each of its players.            *)
(* A result is [winners, draw, scores, teams], scores and teams being <<>> *)
(* where the result carries none; seats are numbers, scores are doubled.   *)

\* Mutant: only the scores count.
AheadByScore(g, r, i, j) ==
  IF r.scores # <<>> THEN r.scores[i] > r.scores[j]
  ELSE ~r.draw /\ i \in r.winners /\ j \notin r.winners

\* standingsFromResult: winners first whatever the scores, then by score.
Ahead(g, r, i, j) ==
  LET wins(n) == ~r.draw /\ n \in r.winners
  IN IF r.scores # <<>>
     THEN \/ wins(i) /\ ~wins(j)
          \/ wins(i) = wins(j) /\ r.scores[i] > r.scores[j]
     ELSE wins(i) /\ ~wins(j)
Score(ahead, behind) == IF ahead THEN 2 ELSE IF behind THEN 0 ELSE 1

\* pairwiseResults: one result of every pair.
Pairwise(g, r, i) ==
  {[against |-> {j}, score |-> Score(Ahead(g, r, i, j), Ahead(g, r, j, i))] :
     j \in SeatNumbers(g) \ {i}}

\* teamAggregateResults: one result against the other teams as a whole.
WinningTeams(r) == IF r.draw THEN {} ELSE {r.teams[n] : n \in r.winners}
TeamResult(g, r, i) ==
  LET opponents == {j \in SeatNumbers(g) : r.teams[j] # r.teams[i]}
      undecided == r.draw \/ Cardinality(WinningTeams(r)) # 1
  IN IF opponents = {} THEN {}
     ELSE {[against |-> opponents,
            score |-> IF undecided THEN 1 ELSE IF r.teams[i] \in WinningTeams(r) THEN 2 ELSE 0]}

\* A map that leaves a seat out is no team map.
TeamsOf(g, r) == r.teams # <<>> /\ \A n \in SeatNumbers(g) : r.teams[n] # None

Decompose(g, r, i) == IF TeamsOf(g, r) THEN TeamResult(g, r, i) ELSE Pairwise(g, r, i)

-----------------------------------------------------------------------------
Init ==
  /\ result = [g \in Game |-> None]
  /\ vkey \in SUBSET Game       \* the pairer's put is guarded and may have failed
  /\ claim = [g \in Game |-> None]
  /\ teams = [g \in Game |-> {}]
  /\ row = [x \in Agent \X Keys |-> <<>>]
  /\ call = [c \in Call |-> NoCall]
  /\ entered = [g \in Game |-> [a \in Agent |-> 0]]
  /\ overlap = {} /\ faults = 0

\* finalizeD1 has stored the row of a game that is over.
GameEnds(g) ==
  /\ result[g] = None
  /\ \E r \in Results[g] : result' = [result EXCEPT ![g] = r]
  /\ UNCHANGED <<vkey, claim, teams, row, call, entered, overlap, faults>>

VkeyExpires(g) ==
  /\ g \in vkey
  /\ vkey' = vkey \ {g}
  /\ UNCHANGED <<result, claim, teams, row, call, entered, overlap, faults>>

\* The game has ended, has two seats at least and is in rated_games for nobody.
Begin(c, g) ==
  /\ call[c].pc = "idle"
  /\ result[g] # None /\ Len(SeatsOf[g]) >= 2
  /\ claim[g] = None
  /\ call' = [call EXCEPT ![c] = [NoCall EXCEPT !.pc = "claim", !.game = g]]
  /\ UNCHANGED <<result, vkey, claim, teams, row, entered, overlap, faults>>

RealSeats(g) == Cardinality(Seated(g) \ House)
Rates(g) == RealSeats(g) >= MinReal[g]

\* Mutant: the call goes on whether it has won the claim or not.
ClaimAnyway(c) ==
  LET g == call[c].game
  IN /\ call[c].pc = "claim"
     /\ claim' = IF claim[g] = None
                 THEN [claim EXCEPT ![g] = IF Rates(g) THEN "rated" ELSE "exhibition"] ELSE claim
     /\ call' = [call EXCEPT ![c].pc = "teams", ![c].at = 1]
     /\ UNCHANGED <<result, vkey, teams, row, entered, overlap, faults>>

\* INSERT OR IGNORE: whoever changes a row has won the claim.
Claim(c) ==
  LET g == call[c].game
  IN /\ call[c].pc = "claim"
     /\ IF claim[g] = None
        THEN /\ claim' = [claim EXCEPT ![g] = IF Rates(g) THEN "rated" ELSE "exhibition"]
             /\ call' = [call EXCEPT ![c].pc = "teams", ![c].at = 1]
        ELSE /\ call' = [call EXCEPT ![c] = NoCall]
             /\ UNCHANGED claim
     /\ UNCHANGED <<result, vkey, teams, row, entered, overlap, faults>>

\* recordTeams, seat by seat; an exhibition is done then.
RecordTeam(c) ==
  LET g == call[c].game
      n == call[c].at
      named == result[g].teams # <<>>
      ended == [call EXCEPT ![c] = IF claim[g] = "rated" THEN [@ EXCEPT !.pc = "scope"] ELSE NoCall]
  IN /\ call[c].pc = "teams"
     /\ IF named /\ n \in SeatNumbers(g)
        THEN /\ teams' = [teams EXCEPT ![g] = IF result[g].teams[n] = None THEN @ ELSE @ \cup {n}]
             /\ call' = [call EXCEPT ![c].at = n + 1]
        ELSE /\ call' = ended
             /\ UNCHANGED teams
     /\ UNCHANGED <<result, vkey, claim, row, entered, overlap, faults>>

\* The key of the table: the cached one, else what the row's column says.
Scope(c) ==
  LET g == call[c].game
  IN /\ call[c].pc = "scope"
     /\ call' = [call EXCEPT ![c].pc = "read", ![c].at = 1, ![c].base = <<>>,
                             ![c].key = IF g \in vkey THEN Queue[g] ELSE Column[g]]
     /\ UNCHANGED <<result, vkey, claim, teams, row, entered, overlap, faults>>

\* Somebody has read the row of x and has not written it yet.
Holds(d, x) ==
  /\ call[d].pc \in {"read", "write"} /\ call[d].key = x[2]
  /\ \E n \in SeatNumbers(call[d].game) :
       /\ SeatsOf[call[d].game][n] = x[1]
       /\ IF call[d].pc = "read" THEN n < call[d].at ELSE n >= call[d].at

\* currentRating of the next seat.
ReadRow(c) ==
  LET g == call[c].game
      n == call[c].at
      x == <<SeatsOf[g][n], call[c].key>>
  IN /\ call[c].pc = "read" /\ n \in SeatNumbers(g)
     /\ call' = [call EXCEPT ![c].at = n + 1, ![c].base = Append(@, row[x])]
     /\ overlap' = IF \E d \in Call \ {c} : Holds(d, x) THEN overlap \cup {x[1]} ELSE overlap
     /\ UNCHANGED <<result, vkey, claim, teams, row, entered, faults>>
ReadDone(c) ==
  /\ call[c].pc = "read" /\ call[c].at \notin SeatNumbers(call[c].game)
  /\ call' = [call EXCEPT ![c].pc = "write", ![c].at = 1]
  /\ UNCHANGED <<result, vkey, claim, teams, row, entered, overlap, faults>>

\* The upsert writes what was read with this game added, whatever is there by now.
Upsert(c, n, games) ==
  LET g == call[c].game
      x == <<SeatsOf[g][n], call[c].key>>
  IN /\ row' = [row EXCEPT ![x] = Append(games, g)]
     /\ entered' = [entered EXCEPT ![g][x[1]] = @ + 1]

\* Mutant: one row is read for all seats.
WriteRowOfFirst(c) ==
  LET n == call[c].at
  IN /\ call[c].pc = "write" /\ n \in SeatNumbers(call[c].game)
     /\ Upsert(c, n, call[c].base[1])
     /\ call' = [call EXCEPT ![c].at = n + 1]
     /\ UNCHANGED <<result, vkey, claim, teams, overlap, faults>>

WriteRow(c) ==
  LET n == call[c].at
  IN /\ call[c].pc = "write" /\ n \in SeatNumbers(call[c].game)
     /\ Upsert(c, n, call[c].base[n])
     /\ call' = [call EXCEPT ![c].at = n + 1]
     /\ UNCHANGED <<result, vkey, claim, teams, overlap, faults>>
WriteDone(c) ==
  /\ call[c].pc = "write" /\ call[c].at \notin SeatNumbers(call[c].game)
  /\ call' = [call EXCEPT ![c] = NoCall]
  /\ UNCHANGED <<result, vkey, claim, teams, row, entered, overlap, faults>>

\* A statement throws: the room logs it and that was all (room.ts:664).
Throws(c) ==
  /\ faults < MaxFaults /\ call[c].pc # "idle"
  /\ faults' = faults + 1
  /\ call' = [call EXCEPT ![c] = NoCall]
  /\ UNCHANGED <<result, vkey, claim, teams, row, entered, overlap>>

CallStep(c) ==
  \/ Claim(c) \/ RecordTeam(c) \/ Scope(c) \/ ReadRow(c) \/ ReadDone(c)
  \/ WriteRow(c) \/ WriteDone(c) \/ Throws(c)

Next ==
  \/ \E g \in Game : GameEnds(g) \/ VkeyExpires(g)
  \/ \E c \in Call : CallStep(c) \/ \E g \in Game : Begin(c, g)

Spec == Init /\ [][Next]_vars

-----------------------------------------------------------------------------
(* closeRatingPeriod: the rebuild of the tables from the games, here from   *)
(* those that were rated.  It files a game under the queue it was played in *)
(* and gives every player one update made from all of them.                *)
Rebuilt(games) ==
  [x \in Agent \X Keys |-> {g \in games : Queue[g] = x[2] /\ x[1] \in Seated(g)}]

-----------------------------------------------------------------------------
\* The state has its types.
TypeOK ==
  /\ \A g \in Game : result[g] = None \/ result[g] \in Results[g]
  /\ claim \in [Game -> {None, "rated", "exhibition"}]
  /\ \A g \in Game : teams[g] \subseteq SeatNumbers(g)
  /\ entered \in [Game -> [Agent -> Nat]]
  /\ \A x \in DOMAIN row : ToSet(row[x]) \subseteq Game
  /\ \A c \in Call : call[c].pc \in {"idle", "claim", "teams", "scope", "read", "write"}

\* The promise of the header, as a specification of its own.
Ledger == INSTANCE RatingLedger WITH claim <- claim, entered <- entered
ImplementsLedger == Ledger!Spec

Quiet == \A c \in Call : call[c].pc = "idle"

\* When nothing is under way and nothing threw, the live tables are the ones a
\* rebuild from the rated games gives, save for agents two of whose games were
\* rated at the same time (their updates overwrite each other) and for games
\* whose vkey was gone.
RebuildAgrees ==
  LET rated == {g \in Game : claim[g] = "rated"}
  IN Quiet /\ faults = 0 /\ rated \subseteq vkey =>
       \A a \in Agent \ overlap, k \in Keys : ToSet(row[<<a, k>>]) = Rebuilt(rated)[<<a, k>>]

\* What the results of a finished game say is consistent: of two players each
\* is rated against the other with scores that add up, a winner is never rated
\* as if it had not beaten a loser (flat scores of a forfeit included), nobody
\* is rated against its own team, and a team game is one result, not many.
DecompositionIsFair ==
  \A g \in Game : result[g] # None =>
    LET r == result[g]
        about(i) == Decompose(g, r, i)
    IN \A i, j \in SeatNumbers(g) : i # j =>
         /\ TeamsOf(g, r) => Cardinality(about(i)) <= 1
         /\ TeamsOf(g, r) /\ r.teams[i] = r.teams[j] =>
              \A x \in about(i) : j \notin x.against
         /\ \A x \in about(i), y \in about(j) :
              j \in x.against /\ i \in y.against /\ ~TeamsOf(g, r) => x.score + y.score = 2
         /\ ~TeamsOf(g, r) /\ ~r.draw /\ i \in r.winners /\ j \notin r.winners =>
              \E x \in about(i) : x.against = {j} /\ x.score = 2

=============================================================================
