--------------------------- MODULE RatingsProofs ---------------------------
(***************************************************************************)
(* For any games, agents and number of calls, Ratings implements           *)
(* RatingLedger: a game is claimed once, and written once at most to the   *)
(* rows of an agent.                                                       *)
(*                                                                         *)
(* The claim makes the call that wins it the only one beyond it (Owner); a *)
(* call that writes has not written for the seats it still has to write    *)
(* for (Unwritten), and since nobody has two seats at a table, none of     *)
(* them was written under another seat.                                    *)
(***************************************************************************)
EXTENDS Ratings, FiniteSetTheorems, TLAPS

PC == {"idle", "claim", "teams", "scope", "read", "write"}

CallType ==
  [pc : PC, game : Game \cup {None}, key : Keys \cup {None}, at : Nat, base : Seq(Seq(Game))]

\* What a call has read.
HasRead(r) ==
  /\ r.pc = "read" => r.at >= 1 /\ Len(r.base) = r.at - 1
  /\ r.pc = "write" => Len(r.base) >= Len(SeatsOf[r.game])

Types ==
  /\ claim \in [Game -> {None, "rated", "exhibition"}]
  /\ entered \in [Game -> [Agent -> Nat]]
  /\ row \in [Agent \X Keys -> Seq(Game)]
  /\ call \in [Call -> CallType]
  /\ \A c \in Call : HasRead(call[c])
  /\ \A c \in Call : call[c].pc # "idle" => call[c].game \in Game
  /\ \A c \in Call : call[c].pc \in {"read", "write"} => call[c].key \in Keys

\* The calls that have won a claim.
Beyond(c) == call[c].pc \in {"teams", "scope", "read", "write"}

Owner ==
  /\ \A c \in Call : Beyond(c) => claim[call[c].game] # None
  /\ \A c \in Call : call[c].pc \in {"scope", "read", "write"} => claim[call[c].game] = "rated"
  /\ \A c, d \in Call : Beyond(c) /\ Beyond(d) /\ call[c].game = call[d].game => c = d

\* What is not written yet, of an unclaimed game and of one under way.
Unwritten ==
  /\ \A g \in Game : claim[g] = None => \A a \in Agent : entered[g][a] = 0
  /\ \A c \in Call : call[c].pc \in {"teams", "scope", "read"} =>
       \A a \in Agent : entered[call[c].game][a] = 0
  /\ \A c \in Call : call[c].pc = "write" =>
       \A n \in SeatNumbers(call[c].game) :
         n >= call[c].at => entered[call[c].game][SeatsOf[call[c].game][n]] = 0

Inv == Types /\ Owner /\ Unwritten

\* A seat is an agent.
LEMMA SeatIsAgent == \A g \in Game : \A n \in SeatNumbers(g) : SeatsOf[g][n] \in Agent
BY RatingsAssumption DEF SeatNumbers

LEMMA NoCallTyped == NoCall \in CallType
BY DEF NoCall, CallType, PC, HasRead

LEMMA KeysOfGame == \A g \in Game : Queue[g] \in Keys /\ Column[g] \in Keys
BY DEF Keys

LEMMA InitInv == Init => Inv
<1> SUFFICES ASSUME Init PROVE Inv
  OBVIOUS
<1>1. Types
  BY NoCallTyped DEF Init, Types, NoCall, HasRead
<1>2. Owner
  BY DEF Init, Owner, Beyond, NoCall
<1>3. Unwritten
  BY DEF Init, Unwritten, NoCall
<1> QED
  BY <1>1, <1>2, <1>3 DEF Inv

\* A call changes and nothing else of what Inv is about: it goes back to idle,
\* or stays in, or moves to, a stage its game allows.
LEMMA StageChange ==
  ASSUME Inv, NEW c \in Call, NEW x \in CallType, HasRead(x),
         call' = [call EXCEPT ![c] = x], UNCHANGED <<claim, entered, row>>,
         x.pc # "idle" => x.game \in Game,
         x.pc \in {"read", "write"} => x.key \in Keys,
         x.pc \in {"teams", "scope", "read", "write"} => Beyond(c) /\ x.game = call[c].game,
         x.pc \in {"scope", "read", "write"} => claim[x.game] = "rated",
         x.pc \in {"teams", "scope", "read"} => call[c].pc \in {"teams", "scope", "read"},
         x.pc = "write" => call[c].pc \in {"teams", "scope", "read"}
                           \/ (call[c].pc = "write" /\ x.at >= call[c].at)
  PROVE Inv'
<1>1. Types'
  BY DEF Inv, Types
<1>2. Owner'
  BY DEF Inv, Types, Owner, Beyond
<1>3. Unwritten'
  <2>1. \A g \in Game : claim'[g] = None => \A a \in Agent : entered'[g][a] = 0
    BY DEF Inv, Unwritten
  <2>2. ASSUME NEW d \in Call, call'[d].pc \in {"teams", "scope", "read"}
        PROVE \A a \in Agent : entered'[call'[d].game][a] = 0
    BY <2>2 DEF Inv, Unwritten, Types
  <2>3. ASSUME NEW d \in Call, call'[d].pc = "write",
               NEW n \in SeatNumbers(call'[d].game), n >= call'[d].at
        PROVE entered'[call'[d].game][SeatsOf[call'[d].game][n]] = 0
    <3>1. CASE d # c
      BY <2>3, <3>1 DEF Inv, Unwritten, Types
    <3>2. CASE d = c
      <4>1. call'[c] = x /\ x.game = call[c].game /\ x.game \in Game
        BY <2>3, <3>2 DEF Inv, Types
      <4>2. SeatsOf[x.game][n] \in Agent
        BY <2>3, <3>2, <4>1, SeatIsAgent
      <4>3. CASE call[c].pc \in {"teams", "scope", "read"}
        BY <2>3, <3>2, <4>1, <4>2, <4>3 DEF Inv, Unwritten
      <4>4. CASE call[c].pc = "write" /\ x.at >= call[c].at
        <5>1. n >= call[c].at
          BY <2>3, <3>2, <4>1, <4>4 DEF Inv, Types, CallType, SeatNumbers
        <5> QED
          BY <2>3, <3>2, <4>1, <4>4, <5>1 DEF Inv, Unwritten
      <4> QED
        BY <2>3, <3>2, <4>1, <4>3, <4>4
    <3> QED
      BY <3>1, <3>2
  <2> QED
    BY <2>1, <2>2, <2>3 DEF Unwritten
<1> QED
  BY <1>1, <1>2, <1>3 DEF Inv

LEMMA CallFields ==
  ASSUME Types, NEW c \in Call
  PROVE  call[c] \in CallType /\ call[c].at \in Nat /\ call[c].base \in Seq(Seq(Game))
BY DEF Types, CallType

\* The steps of a call that only move it on.
LEMMA MovesOn ==
  ASSUME Inv, NEW c \in Call, RecordTeam(c) \/ Scope(c) \/ ReadRow(c) \/ ReadDone(c) \/ WriteDone(c)
  PROVE  Inv' /\ UNCHANGED <<claim, entered>>
<1>0. UNCHANGED <<claim, entered, row>>
  BY DEF RecordTeam, Scope, ReadRow, ReadDone, WriteDone
<1>1. Types BY DEF Inv
<1>2. call[c] \in CallType /\ call[c].at \in Nat BY <1>1, CallFields
<1>3. CASE RecordTeam(c)
  <2>1. call[c].pc = "teams" /\ call[c].game \in Game BY <1>1, <1>3 DEF RecordTeam, Types
  <2> DEFINE g == call[c].game
             n == call[c].at
  <2>2. CASE result[g].teams # <<>> /\ n \in SeatNumbers(g)
    <3> DEFINE x == [call[c] EXCEPT !.at = n + 1]
    <3>1. call' = [call EXCEPT ![c] = x] BY <1>3, <2>2 DEF RecordTeam
    <3>20. n + 1 \in Nat BY <1>2
    <3>21. x \in CallType /\ x.pc = "teams" /\ x.game = g
      BY <1>2, <2>1, <3>20 DEF CallType, PC
    <3> HIDE DEF x
    <3>2. x \in CallType /\ x.pc = "teams" /\ x.game = g /\ HasRead(x)
      BY <1>2, <2>1, <3>21 DEF HasRead, SeatNumbers
    <3>3. Beyond(c) BY <2>1 DEF Beyond
    <3> QED BY <1>0, <2>1, <3>1, <3>2, <3>3, StageChange
  <2>3. CASE ~(result[g].teams # <<>> /\ n \in SeatNumbers(g)) /\ claim[g] = "rated"
    <3> DEFINE x == [call[c] EXCEPT !.pc = "scope"]
    <3>1. call' = [call EXCEPT ![c] = x] BY <1>3, <2>3 DEF RecordTeam
    <3>21. x \in CallType /\ x.pc = "scope" /\ x.game = g
      BY <1>2, <2>1 DEF CallType, PC
    <3> HIDE DEF x
    <3>2. x \in CallType /\ x.pc = "scope" /\ x.game = g /\ HasRead(x)
      BY <1>2, <2>1, <3>21 DEF HasRead, SeatNumbers
    <3>3. Beyond(c) BY <2>1 DEF Beyond
    <3> QED BY <1>0, <2>1, <2>3, <3>1, <3>2, <3>3, StageChange
  <2>4. CASE ~(result[g].teams # <<>> /\ n \in SeatNumbers(g)) /\ claim[g] # "rated"
    <3>1. call' = [call EXCEPT ![c] = NoCall] BY <1>3, <2>4 DEF RecordTeam
    <3>2. NoCall \in CallType /\ NoCall.pc = "idle" /\ HasRead(NoCall) BY NoCallTyped DEF NoCall, HasRead
    <3> QED BY <1>0, <3>1, <3>2, StageChange
  <2> QED BY <2>2, <2>3, <2>4
<1>4. CASE Scope(c)
  <2>1. call[c].pc = "scope" /\ call[c].game \in Game BY <1>1, <1>4 DEF Scope, Types
  <2> DEFINE g == call[c].game
             k == IF g \in vkey THEN Queue[g] ELSE Column[g]
             x == [call[c] EXCEPT !.pc = "read", !.at = 1, !.key = k, !.base = <<>>]
  <2>2. call' = [call EXCEPT ![c] = x] BY <1>4 DEF Scope
  <2>3. k \in Keys BY <2>1, KeysOfGame
  <2> HIDE DEF k
  <2>40. <<>> \in Seq(Seq(Game)) /\ 1 \in Nat OBVIOUS
  <2>41. x \in CallType /\ x.pc = "read" /\ x.game = g /\ x.key \in Keys /\ x.at = 1 /\ x.base = <<>>
    BY <1>2, <2>1, <2>3, <2>40 DEF CallType, PC
  <2> HIDE DEF x
  <2>4. x \in CallType /\ x.pc = "read" /\ x.game = g /\ x.key \in Keys /\ HasRead(x)
    BY <1>2, <2>1, <2>3, <2>41 DEF HasRead, SeatNumbers
  <2>5. Beyond(c) /\ claim[g] = "rated" BY <2>1 DEF Inv, Beyond, Owner
  <2> QED BY <1>0, <2>1, <2>2, <2>4, <2>5, StageChange
<1>5. CASE ReadRow(c)
  <2>1. call[c].pc = "read" /\ call[c].game \in Game /\ call[c].key \in Keys
    BY <1>1, <1>5 DEF ReadRow, Types
  <2> DEFINE g == call[c].game
             n == call[c].at
             b == Append(call[c].base, row[<<SeatsOf[g][n], call[c].key>>])
             x == [call[c] EXCEPT !.at = n + 1, !.base = b]
  <2>2. call' = [call EXCEPT ![c] = x] /\ n \in SeatNumbers(g) BY <1>5 DEF ReadRow
  <2>3. SeatsOf[g][n] \in Agent BY <2>1, <2>2, SeatIsAgent
  <2>4. row[<<SeatsOf[g][n], call[c].key>>] \in Seq(Game) BY <1>1, <2>1, <2>3 DEF Types
  <2>5. b \in Seq(Seq(Game)) /\ Len(b) = Len(call[c].base) + 1 BY <1>1, <2>4, CallFields
  <2>8. HasRead(call[c]) BY <1>1 DEF Types
  <2> HIDE DEF b
  <2>60. n + 1 \in Nat BY <1>2
  <2>61. x \in CallType /\ x.pc = "read" /\ x.game = g /\ x.key \in Keys /\ x.at = n + 1 /\ x.base = b
    BY <1>2, <2>1, <2>5, <2>60 DEF CallType, PC
  <2> HIDE DEF x
  <2>6. x \in CallType /\ x.pc = "read" /\ x.game = g /\ x.key \in Keys /\ HasRead(x)
    BY <1>2, <2>1, <2>5, <2>8, <2>61 DEF HasRead, SeatNumbers
  <2>7. Beyond(c) /\ claim[g] = "rated" BY <2>1 DEF Inv, Beyond, Owner
  <2> QED BY <1>0, <2>1, <2>2, <2>6, <2>7, StageChange
<1>6. CASE ReadDone(c)
  <2>1. call[c].pc = "read" /\ call[c].game \in Game /\ call[c].key \in Keys
    BY <1>1, <1>6 DEF ReadDone, Types
  <2> DEFINE x == [call[c] EXCEPT !.pc = "write", !.at = 1]
  <2>2. call' = [call EXCEPT ![c] = x] BY <1>6 DEF ReadDone
  <2>5. HasRead(call[c]) /\ Len(SeatsOf[call[c].game]) \in Nat /\ call[c].at \notin SeatNumbers(call[c].game)
    BY <1>1, <1>6, <2>1, RatingsAssumption DEF Types, ReadDone
  <2>31. x \in CallType /\ x.pc = "write" /\ x.game = call[c].game /\ x.key \in Keys /\ x.base = call[c].base
    BY <1>2, <2>1, <2>5 DEF CallType, PC
  <2> HIDE DEF x
  <2>3. x \in CallType /\ x.pc = "write" /\ x.game = call[c].game /\ x.key \in Keys /\ HasRead(x)
    BY <1>2, <2>1, <2>5, <2>31 DEF HasRead, SeatNumbers
  <2>4. Beyond(c) /\ claim[call[c].game] = "rated" BY <2>1 DEF Inv, Beyond, Owner
  <2> QED BY <1>0, <2>1, <2>2, <2>3, <2>4, StageChange
<1>7. CASE WriteDone(c)
  <2>1. call' = [call EXCEPT ![c] = NoCall] BY <1>7 DEF WriteDone
  <2>2. NoCall \in CallType /\ NoCall.pc = "idle" /\ HasRead(NoCall) BY NoCallTyped DEF NoCall, HasRead
  <2> QED BY <1>0, <2>1, <2>2, StageChange
<1> QED BY <1>0, <1>3, <1>4, <1>5, <1>6, <1>7

\* A call begins, or throws.
LEMMA BeginsOrThrows ==
  ASSUME Inv, NEW c \in Call, (\E g \in Game : Begin(c, g)) \/ Throws(c)
  PROVE  Inv' /\ UNCHANGED <<claim, entered>>
<1>0. UNCHANGED <<claim, entered, row>> BY DEF Begin, Throws
<1>1. CASE Throws(c)
  <2>1. call' = [call EXCEPT ![c] = NoCall] BY <1>1 DEF Throws
  <2>2. NoCall \in CallType /\ NoCall.pc = "idle" /\ HasRead(NoCall) BY NoCallTyped DEF NoCall, HasRead
  <2> QED BY <1>0, <2>1, <2>2, StageChange
<1>2. ASSUME NEW g \in Game, Begin(c, g) PROVE Inv'
  <2> DEFINE x == [NoCall EXCEPT !.pc = "claim", !.game = g]
  <2>1. call' = [call EXCEPT ![c] = x] BY <1>2 DEF Begin
  <2>21. x \in CallType /\ x.pc = "claim" /\ x.game = g
    BY NoCallTyped DEF CallType, PC
  <2> HIDE DEF x
  <2>2. x \in CallType /\ x.pc = "claim" /\ x.game = g /\ HasRead(x)
    BY NoCallTyped, <2>21 DEF HasRead, SeatNumbers
  <2> QED BY <1>0, <2>1, <2>2, StageChange
<1> QED BY <1>0, <1>1, <1>2

\* The claim is won by one call, or the call is over.
LEMMA Claims ==
  ASSUME Inv, NEW c \in Call, Claim(c)
  PROVE  Inv' /\ (UNCHANGED <<claim, entered>>
                  \/ \E g \in Game, o \in {"rated", "exhibition"} : Ledger!Claim(g, o))
<1>1. Types BY DEF Inv
<1>2. call[c].pc = "claim" /\ call[c].game \in Game BY <1>1 DEF Claim, Types
<1> DEFINE g == call[c].game
<1>3. CASE claim[g] # None
  <2>1. call' = [call EXCEPT ![c] = NoCall] /\ UNCHANGED <<claim, entered, row>> BY <1>3 DEF Claim
  <2>2. NoCall \in CallType /\ NoCall.pc = "idle" /\ HasRead(NoCall) BY NoCallTyped DEF NoCall, HasRead
  <2> QED BY <2>1, <2>2, StageChange
<1>4. CASE claim[g] = None
  <2> DEFINE x == [call[c] EXCEPT !.pc = "teams", !.at = 1]
             o == IF Rates(g) THEN "rated" ELSE "exhibition"
  <2>1. call' = [call EXCEPT ![c] = x] /\ claim' = [claim EXCEPT ![g] = o]
        /\ UNCHANGED <<entered, row>>
    BY <1>4 DEF Claim
  <2>21. x \in CallType /\ x.pc = "teams" /\ x.game = g
    BY <1>1, <1>2, CallFields DEF CallType, PC
  <2> HIDE DEF x
  <2>2. x \in CallType /\ x.pc = "teams" /\ x.game = g /\ HasRead(x)
    BY <1>1, <1>2, CallFields, <2>21 DEF HasRead, SeatNumbers
  <2>3. o \in {"rated", "exhibition"} /\ o # None BY RatingsAssumption
  <2>4. claim'[g] = o /\ \A h \in Game \ {g} : claim'[h] = claim[h] BY <1>1, <1>2, <2>1 DEF Types
  <2>5. call'[c] = x /\ \A d \in Call \ {c} : call'[d] = call[d] BY <1>1, <2>1 DEF Types
  <2>6. Types'
    BY <1>1, <1>2, <2>1, <2>2, <2>3, <2>5 DEF Types
  <2>7. \A d \in Call : Beyond(d) => call[d].game # g
    BY <1>4 DEF Inv, Owner
  <2>8. Owner'
    <3>1. ASSUME NEW d \in Call, d # c
          PROVE  call'[d] = call[d] /\ (Beyond(d) => call[d].game # g /\ claim'[call[d].game] = claim[call[d].game])
      BY <1>1, <2>4, <2>5, <2>7, <3>1 DEF Types, Beyond
    <3>2. \A d \in Call : call'[d].pc \in {"teams", "scope", "read", "write"} => claim'[call'[d].game] # None
      BY <2>2, <2>3, <2>4, <2>5, <3>1 DEF Inv, Owner, Beyond
    <3>3. \A d \in Call : call'[d].pc \in {"scope", "read", "write"} => claim'[call'[d].game] = "rated"
      BY <2>2, <2>3, <2>4, <2>5, <3>1 DEF Inv, Owner, Beyond
    <3>4. ASSUME NEW d \in Call, NEW e \in Call, d # e,
                 call'[d].pc \in {"teams", "scope", "read", "write"},
                 call'[e].pc \in {"teams", "scope", "read", "write"}
          PROVE  call'[d].game # call'[e].game
      BY <2>2, <2>5, <3>1, <3>4 DEF Inv, Owner, Beyond
    <3> QED BY <3>2, <3>3, <3>4 DEF Owner, Beyond
  <2>9. \A a \in Agent : entered[g][a] = 0 BY <1>2, <1>4 DEF Inv, Unwritten
  <2>10. Unwritten'
    <3>1. \A h \in Game : claim'[h] = None => \A a \in Agent : entered'[h][a] = 0
      BY <1>4, <2>1, <2>4, <2>9 DEF Inv, Unwritten
    <3>2. ASSUME NEW d \in Call
          PROVE /\ call'[d].pc \in {"teams", "scope", "read"} =>
                     \A a \in Agent : entered'[call'[d].game][a] = 0
                /\ call'[d].pc = "write" => \A n \in SeatNumbers(call'[d].game) :
                     n >= call'[d].at => entered'[call'[d].game][SeatsOf[call'[d].game][n]] = 0
      BY <2>1, <2>2, <2>5, <2>9 DEF Inv, Unwritten
    <3> QED BY <3>1, <3>2 DEF Unwritten
  <2>11. Ledger!Claim(g, o) BY <1>4, <2>1 DEF Ledger!Claim
  <2> QED BY <1>2, <2>3, <2>6, <2>8, <2>10, <2>11 DEF Inv
<1> QED BY <1>3, <1>4

\* A row is written for a seat it was not written for.
LEMMA Writes ==
  ASSUME Inv, NEW c \in Call, WriteRow(c)
  PROVE  Inv' /\ \E g \in Game, a \in Agent : Ledger!Enter(g, a)
<1>1. Types BY DEF Inv
<1> DEFINE g == call[c].game
           n == call[c].at
           a == SeatsOf[g][n]
           k == call[c].key
           y == <<a, k>>
           x == [call[c] EXCEPT !.at = n + 1]
<1>2. call[c].pc = "write" /\ g \in Game /\ k \in Keys /\ n \in SeatNumbers(g) /\ n \in Nat /\ HasRead(call[c])
  BY <1>1, CallFields DEF WriteRow, Types
<1>3. a \in Agent BY <1>2, SeatIsAgent
<1>4. call' = [call EXCEPT ![c] = x] /\ entered' = [entered EXCEPT ![g][a] = @ + 1]
      /\ row' = [row EXCEPT ![y] = Append(call[c].base[n], g)] /\ UNCHANGED claim
  BY DEF WriteRow, Upsert
<1>5. claim[g] = "rated" /\ Beyond(c) BY <1>2 DEF Inv, Owner, Beyond
<1>6. entered[g][a] = 0 BY <1>2 DEF Inv, Unwritten
<1>71. x \in CallType /\ x.pc = "write" /\ x.game = g /\ x.key = k /\ x.at = n + 1 /\ x.base = call[c].base
  BY <1>1, <1>2, CallFields DEF CallType, PC
<1> HIDE DEF x
<1>7. x \in CallType /\ x.pc = "write" /\ x.game = g /\ x.key = k /\ x.at = n + 1 /\ HasRead(x)
  BY <1>1, <1>2, CallFields, <1>71 DEF HasRead, SeatNumbers
<1>8. call'[c] = x /\ \A d \in Call \ {c} : call'[d] = call[d] BY <1>1, <1>4 DEF Types
<1>9. /\ entered' \in [Game -> [Agent -> Nat]]
      /\ entered' = [entered EXCEPT ![g][a] = 1]
      /\ \A h \in Game, b \in Agent : ~(h = g /\ b = a) => entered'[h][b] = entered[h][b]
  <2> DEFINE f == [entered[g] EXCEPT ![a] = 1]
  <2>1. entered \in [Game -> [Agent -> Nat]] /\ entered[g] \in [Agent -> Nat] BY <1>1, <1>2 DEF Types
  <2>2. entered' = [entered EXCEPT ![g] = f] BY <1>4, <1>6
  <2>3. f \in [Agent -> Nat] /\ \A b \in Agent : b # a => f[b] = entered[g][b] BY <2>1
  <2>4. entered' = [entered EXCEPT ![g][a] = 1] BY <2>2
  <2> HIDE DEF f
  <2>5. entered' \in [Game -> [Agent -> Nat]] BY <2>1, <2>2, <2>3
  <2>6. \A h \in Game : entered'[h] = IF h = g THEN f ELSE entered[h] BY <2>1, <2>2
  <2> QED BY <2>3, <2>4, <2>5, <2>6
<1>10. Types'
  <2>1. Len(SeatsOf[g]) \in Nat BY <1>2, RatingsAssumption
  <2>2. n \in 1 .. Len(call[c].base) BY <1>1, <1>2, <2>1, CallFields DEF HasRead, SeatNumbers
  <2>3. Append(call[c].base[n], g) \in Seq(Game) BY <1>1, <1>2, <2>2, CallFields
  <2>4. row' \in [Agent \X Keys -> Seq(Game)] BY <1>1, <1>4, <2>3 DEF Types
  <2>5. call' \in [Call -> CallType] BY <1>1, <1>4, <1>7 DEF Types
  <2>6. \A d \in Call :
          /\ HasRead(call'[d])
          /\ call'[d].pc # "idle" => call'[d].game \in Game
          /\ call'[d].pc \in {"read", "write"} => call'[d].key \in Keys
    BY <1>1, <1>2, <1>7, <1>8 DEF Types
  <2>7. claim' \in [Game -> {None, "rated", "exhibition"}] BY <1>1, <1>4 DEF Types
  <2> QED BY <1>9, <2>4, <2>5, <2>6, <2>7 DEF Types, HasRead
<1>11. Owner'
  BY <1>1, <1>2, <1>4, <1>5, <1>7, <1>8 DEF Inv, Owner, Beyond
<1>12. Unwritten'
  <2>1. ASSUME NEW h \in Game, claim'[h] = None, NEW b \in Agent PROVE entered'[h][b] = 0
    <3>1. claim[h] = None /\ h # g BY <1>4, <1>5, <2>1, RatingsAssumption
    <3>2. entered[h][b] = 0 BY <2>1, <3>1 DEF Inv, Unwritten
    <3> QED BY <1>9, <2>1, <3>1, <3>2
  <2>2. ASSUME NEW d \in Call, call'[d].pc \in {"teams", "scope", "read"}, NEW b \in Agent
        PROVE entered'[call'[d].game][b] = 0
    <3>1. d # c BY <1>7, <1>8, <2>2
    <3>2. call[d].game # g /\ call[d].game \in Game
      BY <1>1, <1>5, <1>8, <2>2, <3>1 DEF Inv, Owner, Beyond, Types
    <3> QED BY <1>8, <1>9, <2>2, <3>1, <3>2 DEF Inv, Unwritten
  <2>3. ASSUME NEW d \in Call, call'[d].pc = "write",
               NEW m \in SeatNumbers(call'[d].game), m >= call'[d].at
        PROVE entered'[call'[d].game][SeatsOf[call'[d].game][m]] = 0
    <3>1. CASE d = c
      <4>1. m \in SeatNumbers(g) /\ m >= n + 1 BY <1>7, <1>8, <2>3, <3>1
      <4>2. SeatsOf[g][m] \in Agent BY <1>2, <4>1, SeatIsAgent
      <4>3. SeatsOf[g][m] # a
        BY <1>2, <4>1, RatingsAssumption DEF SeatNumbers
      <4>4. entered[g][SeatsOf[g][m]] = 0
        <5>1. m >= n BY <1>2, <4>1 DEF SeatNumbers
        <5> QED BY <1>2, <4>1, <5>1 DEF Inv, Unwritten
      <4> QED BY <1>2, <1>7, <1>8, <1>9, <3>1, <4>2, <4>3, <4>4
    <3>2. CASE d # c
      <4>1. call'[d] = call[d] /\ call[d].game # g /\ call[d].game \in Game
        BY <1>1, <1>5, <1>8, <2>3, <3>2 DEF Inv, Owner, Beyond, Types
      <4>2. SeatsOf[call[d].game][m] \in Agent BY <2>3, <4>1, SeatIsAgent
      <4> QED BY <1>9, <2>3, <4>1, <4>2 DEF Inv, Unwritten
    <3> QED BY <3>1, <3>2
  <2> QED BY <2>1, <2>2, <2>3 DEF Unwritten
<1>13. Ledger!Enter(g, a)
  BY <1>4, <1>5, <1>6, <1>9 DEF Ledger!Enter
<1> QED BY <1>2, <1>3, <1>10, <1>11, <1>12, <1>13 DEF Inv

\* The rest of the world: games that end, keys that expire.
LEMMA OutsideOfCalls ==
  ASSUME Inv, (\E g \in Game : GameEnds(g) \/ VkeyExpires(g)) \/ UNCHANGED vars
  PROVE  Inv' /\ UNCHANGED <<claim, entered>>
<1>1. UNCHANGED <<claim, entered, row, call>> BY DEF GameEnds, VkeyExpires, vars
<1> QED BY <1>1 DEF Inv, Types, Owner, Unwritten, Beyond

LEMMA Steps ==
  ASSUME Inv, [Next]_vars
  PROVE  Inv' /\ [Ledger!Next]_(Ledger!vars)
<1>1. CASE (\E g \in Game : GameEnds(g) \/ VkeyExpires(g)) \/ UNCHANGED vars
  BY <1>1, OutsideOfCalls DEF Ledger!vars
<1>2. ASSUME NEW c \in Call, CallStep(c) \/ \E g \in Game : Begin(c, g)
      PROVE Inv' /\ [Ledger!Next]_(Ledger!vars)
  <2>1. CASE RecordTeam(c) \/ Scope(c) \/ ReadRow(c) \/ ReadDone(c) \/ WriteDone(c)
    BY <2>1, MovesOn DEF Ledger!vars
  <2>2. CASE (\E g \in Game : Begin(c, g)) \/ Throws(c)
    BY <2>2, BeginsOrThrows DEF Ledger!vars
  <2>3. CASE Claim(c)
    BY <2>3, Claims DEF Ledger!vars, Ledger!Next
  <2>4. CASE WriteRow(c)
    BY <2>4, Writes DEF Ledger!vars, Ledger!Next
  <2> QED BY <1>2, <2>1, <2>2, <2>3, <2>4 DEF CallStep
<1> QED BY <1>1, <1>2 DEF Next

\* applyGameRatings keeps the promise of its header: every behaviour of any
\* number of calls is one of RatingLedger.
THEOREM AtMostOnce == Spec => ImplementsLedger
<1>1. Init => Ledger!Init
  BY DEF Init, Ledger!Init
<1>2. Inv /\ [Next]_vars => Inv' /\ [Ledger!Next]_(Ledger!vars)
  BY Steps
<1> QED
  BY <1>1, <1>2, InitInv, PTL DEF Spec, ImplementsLedger, Ledger!Spec

-----------------------------------------------------------------------------
(* The live tables and a rebuild.                                          *)
(*                                                                         *)
(* What a call has read and not written yet is what the row still holds,   *)
(* unless another call read the row meanwhile (Solo, Fresh); so a write of *)
(* an agent that is not in overlap adds the game and loses none (Matched). *)
(* A game whose vkey is there is written under its queue (Placed), and as  *)
(* long as nothing threw, whoever is not written for has a call that will  *)
(* (Complete).                                                             *)

\* Seat n's row has been read by call d, and not written yet.
Held(d, n) ==
  /\ call[d].pc \in {"read", "write"} /\ n \in SeatNumbers(call[d].game)
  /\ IF call[d].pc = "read" THEN n < call[d].at ELSE n >= call[d].at

Player(d, n) == SeatsOf[call[d].game][n]
RowOf(d, n) == <<Player(d, n), call[d].key>>

Solo ==
  \A c, d \in Call : \A m, n \in Nat :
    c # d /\ Held(c, m) /\ Held(d, n) /\ RowOf(c, m) = RowOf(d, n) => Player(c, m) \in overlap

Fresh ==
  \A c \in Call : \A n \in Nat :
    Held(c, n) /\ Player(c, n) \notin overlap => call[c].base[n] = row[RowOf(c, n)]

Placed ==
  \A c \in Call :
    /\ call[c].pc = "write" => call[c].at >= 1
    /\ call[c].pc \in {"read", "write"} /\ call[c].game \in vkey => call[c].key = Queue[call[c].game]

Matched ==
  \A a \in Agent \ overlap, k \in Keys, g \in Game :
    /\ g \in ToSet(row[<<a, k>>]) => entered[g][a] > 0
    /\ g \in vkey => (g \in ToSet(row[<<a, k>>]) <=> entered[g][a] > 0 /\ Queue[g] = k)

ForSeats == \A g \in Game, a \in Agent : entered[g][a] > 0 => claim[g] = "rated" /\ a \in Seated(g)

WillWrite(c, g, n) ==
  /\ call[c].game = g
  /\ call[c].pc \in {"teams", "scope", "read"} \/ (call[c].pc = "write" /\ call[c].at <= n)

Complete ==
  faults = 0 => \A g \in Game : \A n \in SeatNumbers(g) :
    claim[g] = "rated" /\ entered[g][SeatsOf[g][n]] = 0 => \E c \in Call : WillWrite(c, g, n)

Tables == Solo /\ Fresh /\ Placed /\ Matched
RInv == Inv /\ Tables /\ ForSeats /\ Complete /\ faults \in Nat

\* A call moves on and reads and writes nothing: what it still holds it held before.
LEMMA TablesKept ==
  ASSUME Inv, Tables, NEW c \in Call, NEW x, call' = [call EXCEPT ![c] = x],
         UNCHANGED <<row, entered, overlap>>, vkey' \subseteq vkey,
         x.pc = "write" => x.at >= 1,
         x.pc \in {"read", "write"} /\ x.game \in vkey => x.key = Queue[x.game],
         \A n \in Nat : Held(c, n)' =>
           Held(c, n) /\ x.game = call[c].game /\ x.key = call[c].key /\ x.base[n] = call[c].base[n]
  PROVE  Tables'
<1>1. call'[c] = x /\ \A d \in Call \ {c} : call'[d] = call[d] BY DEF Inv, Types
<1>2. \A d \in Call, n \in Nat : Held(d, n)' =>
        Held(d, n) /\ Player(d, n)' = Player(d, n) /\ RowOf(d, n)' = RowOf(d, n)
        /\ call'[d].base[n] = call[d].base[n]
  BY <1>1 DEF Held, Player, RowOf
<1>3. Solo' BY <1>2 DEF Tables, Solo
<1>4. Fresh' BY <1>2 DEF Tables, Fresh
<1>5. Placed' BY <1>1 DEF Tables, Placed
<1>60. row' = row /\ entered' = entered /\ overlap' = overlap OBVIOUS
<1>6. Matched'
  <2> SUFFICES ASSUME NEW a \in Agent \ overlap', NEW k \in Keys, NEW g \in Game
               PROVE  /\ g \in ToSet(row'[<<a, k>>]) => entered'[g][a] > 0
                      /\ g \in vkey' => (g \in ToSet(row'[<<a, k>>]) <=> entered'[g][a] > 0 /\ Queue[g] = k)
    BY DEF Matched
  <2>1. g \in vkey' => g \in vkey OBVIOUS
  <2> QED BY <1>60, <2>1 DEF Tables, Matched
<1> QED BY <1>3, <1>4, <1>5, <1>6 DEF Tables

LEMMA TablesEnd ==
  ASSUME Inv, Tables, NEW c \in Call, NEW x, call' = [call EXCEPT ![c] = x],
         x.pc \notin {"read", "write"}, UNCHANGED <<row, entered, overlap>>, vkey' \subseteq vkey
  PROVE  Tables'
<1>1. call'[c] = x BY DEF Inv, Types
<1>2. \A n \in Nat : ~Held(c, n)' BY <1>1 DEF Held
<1> QED BY <1>2, TablesKept

\* Scope, ReadDone: nothing is read, nothing is forgotten.
LEMMA ScopeTables ==
  ASSUME Inv, Tables, NEW c \in Call, Scope(c)
  PROVE  Tables'
<1> DEFINE g == call[c].game
           k == IF g \in vkey THEN Queue[g] ELSE Column[g]
           x == [call[c] EXCEPT !.pc = "read", !.at = 1, !.base = <<>>, !.key = k]
<1>1. call' = [call EXCEPT ![c] = x] /\ UNCHANGED <<row, entered, overlap, vkey>> BY DEF Scope
<1>2. call[c] \in CallType BY CallFields DEF Inv
<1> HIDE DEF k
<1>3. x.pc = "read" /\ x.at = 1 /\ x.game = g /\ x.key = k BY <1>2 DEF CallType
<1> HIDE DEF x
<1>4. call'[c] = x BY <1>1 DEF Inv, Types
<1>5. \A n \in Nat : ~Held(c, n)' BY <1>3, <1>4 DEF Held, SeatNumbers
<1>6. g \in vkey => k = Queue[g] BY DEF k
<1> QED BY <1>1, <1>3, <1>5, <1>6, TablesKept

LEMMA ReadDoneTables ==
  ASSUME Inv, Tables, NEW c \in Call, ReadDone(c)
  PROVE  Tables'
<1> DEFINE g == call[c].game
           x == [call[c] EXCEPT !.pc = "write", !.at = 1]
<1>1. /\ call' = [call EXCEPT ![c] = x] /\ UNCHANGED <<row, entered, overlap, vkey>>
      /\ call[c].pc = "read" /\ call[c].at \notin SeatNumbers(g)
  BY DEF ReadDone
<1>2. call[c] \in CallType /\ call[c].at \in Nat BY CallFields DEF Inv
<1>3. x.pc = "write" /\ x.at = 1 /\ x.game = g /\ x.key = call[c].key /\ x.base = call[c].base
  BY <1>2 DEF CallType
<1> HIDE DEF x
<1>4. call'[c] = x BY <1>1 DEF Inv, Types
<1>5. g \in Game /\ call[c].at >= 1 BY <1>1 DEF Inv, Types, HasRead
<1>6. Len(SeatsOf[g]) \in Nat BY <1>5, RatingsAssumption
<1>7. \A n \in Nat : Held(c, n)' => Held(c, n)
  <2> SUFFICES ASSUME NEW n \in SeatNumbers(g) PROVE n < call[c].at
    BY <1>1, <1>3, <1>4 DEF Held
  <2> QED BY <1>1, <1>2, <1>5, <1>6 DEF SeatNumbers
<1>8. g \in vkey => call[c].key = Queue[g] BY <1>1 DEF Tables, Placed
<1>9. vkey' \subseteq vkey BY <1>1
<1>10. \A n \in Nat : Held(c, n)' =>
         Held(c, n) /\ x.game = call[c].game /\ x.key = call[c].key /\ x.base[n] = call[c].base[n]
  BY <1>3, <1>7
<1>11. x.pc = "write" => x.at >= 1 BY <1>3
<1>12. x.pc \in {"read", "write"} /\ x.game \in vkey => x.key = Queue[x.game] BY <1>3, <1>8
<1> QED BY <1>1, <1>9, <1>10, <1>11, <1>12, TablesKept

\* One more row is read.
LEMMA ReadRowTables ==
  ASSUME Inv, Tables, NEW c \in Call, ReadRow(c)
  PROVE  Tables'
<1> DEFINE g == call[c].game
           n == call[c].at
           y == <<SeatsOf[g][n], call[c].key>>
           b == Append(call[c].base, row[y])
           x == [call[c] EXCEPT !.at = n + 1, !.base = b]
<1>1. /\ call' = [call EXCEPT ![c] = x] /\ UNCHANGED <<row, entered, vkey>>
      /\ call[c].pc = "read" /\ n \in SeatNumbers(g)
      /\ overlap' = IF \E d \in Call \ {c} : Holds(d, y) THEN overlap \cup {y[1]} ELSE overlap
  BY DEF ReadRow
<1>2. call[c] \in CallType /\ n \in Nat /\ call[c].base \in Seq(Seq(Game)) BY CallFields DEF Inv
<1>3. g \in Game /\ call[c].key \in Keys /\ n >= 1 /\ Len(call[c].base) = n - 1
  BY <1>1 DEF Inv, Types, HasRead
<1>4. row[y] \in Seq(Game)
  <2>1. y \in Agent \X Keys BY <1>1, <1>3, SeatIsAgent
  <2> HIDE DEF y
  <2> QED BY <2>1 DEF Inv, Types
<1>5. b[n] = row[y] /\ \A m \in 1 .. n - 1 : b[m] = call[c].base[m]
  <2> HIDE DEF y
  <2> QED BY <1>2, <1>3, <1>4
<1> HIDE DEF b
<1>6. x.pc = "read" /\ x.at = n + 1 /\ x.game = g /\ x.key = call[c].key /\ x.base = b
  BY <1>1, <1>2 DEF CallType
<1> HIDE DEF x
<1>7. call'[c] = x /\ \A d \in Call \ {c} : call'[d] = call[d] BY <1>1 DEF Inv, Types
<1>8. \A d \in Call \ {c}, m \in Nat :
        /\ Held(d, m)' <=> Held(d, m)
        /\ Player(d, m)' = Player(d, m) /\ RowOf(d, m)' = RowOf(d, m)
  BY <1>7 DEF Held, Player, RowOf
<1>9. \A m \in Nat : Player(c, m)' = Player(c, m) /\ RowOf(c, m)' = RowOf(c, m)
  BY <1>6, <1>7 DEF Player, RowOf
<1>10. \A m \in Nat : Held(c, m)' => m = n \/ (Held(c, m) /\ m \in 1 .. n - 1)
  <2> SUFFICES ASSUME NEW m \in SeatNumbers(g), m < n + 1, m # n PROVE m < n /\ m \in 1 .. n - 1
    BY <1>1, <1>6, <1>7 DEF Held
  <2> QED BY <1>2, <1>3 DEF SeatNumbers
<1>11. RowOf(c, n) = y /\ Player(c, n) = y[1] BY DEF RowOf, Player
<1>12. \A d \in Call \ {c}, m \in Nat : Held(d, m) /\ RowOf(d, m) = y => Holds(d, y)
  BY DEF Held, RowOf, Player, Holds
<1>13. overlap \subseteq overlap' BY <1>1
<1> HIDE DEF y
<1>14. Solo'
  <2> SUFFICES ASSUME NEW d \in Call, NEW e \in Call, NEW l \in Nat, NEW m \in Nat, d # e,
                      Held(d, l)', Held(e, m)', RowOf(d, l)' = RowOf(e, m)'
               PROVE  Player(d, l)' \in overlap'
    BY DEF Solo
  <2>1. \A f \in Call \ {c}, k \in Nat : Held(f, k) /\ RowOf(f, k) = y => y[1] \in overlap'
    BY <1>1, <1>12
  <2>2. CASE d = c
    <3>1. Held(e, m) /\ RowOf(e, m) = RowOf(c, l) BY <1>8, <1>9, <2>2
    <3>2. CASE l = n BY <1>8, <1>9, <1>11, <2>1, <2>2, <3>1, <3>2
    <3>3. CASE Held(c, l) BY <1>9, <1>13, <2>2, <3>1, <3>3 DEF Tables, Solo
    <3> QED BY <1>10, <2>2, <3>2, <3>3
  <2>3. CASE e = c
    <3>1. Held(d, l) /\ RowOf(d, l) = RowOf(c, m) /\ d \in Call \ {c} BY <1>8, <1>9, <2>3
    <3>2. CASE m = n
      <4>1. y[1] \in overlap' /\ RowOf(d, l) = y BY <1>11, <2>1, <3>1, <3>2
      <4>2. Player(d, l) = y[1] BY <4>1 DEF RowOf
      <4> QED BY <1>8, <3>1, <4>1, <4>2
    <3>3. CASE Held(c, m)
      <4>1. Player(d, l) \in overlap BY <2>3, <3>1, <3>3 DEF Tables, Solo
      <4> QED BY <1>8, <1>13, <3>1, <4>1
    <3> QED BY <1>10, <2>3, <3>2, <3>3
  <2>4. CASE d # c /\ e # c
    <3>1. Player(d, l) \in overlap BY <1>8, <2>4 DEF Tables, Solo
    <3> QED BY <1>8, <1>13, <2>4, <3>1
  <2> QED BY <2>2, <2>3, <2>4
<1>15. Fresh'
  <2> SUFFICES ASSUME NEW d \in Call, NEW m \in Nat, Held(d, m)', Player(d, m)' \notin overlap'
               PROVE  call'[d].base[m] = row'[RowOf(d, m)']
    BY DEF Fresh
  <2>1. CASE d # c BY <1>1, <1>7, <1>8, <1>13, <2>1 DEF Tables, Fresh
  <2>2. CASE d = c /\ m = n BY <1>1, <1>5, <1>6, <1>7, <1>9, <1>11, <2>2
  <2>3. CASE d = c /\ Held(c, m) /\ m \in 1 .. n - 1
    <3>1. call[c].base[m] = row[RowOf(c, m)] BY <1>9, <1>13, <2>3 DEF Tables, Fresh
    <3> QED BY <1>1, <1>5, <1>6, <1>7, <1>9, <2>3, <3>1
  <2> QED BY <1>10, <2>1, <2>2, <2>3
<1>16. Placed' BY <1>1, <1>6, <1>7 DEF Tables, Placed
<1>17. Matched'
  <2> SUFFICES ASSUME NEW a \in Agent \ overlap, NEW k \in Keys, NEW h \in Game
               PROVE  /\ h \in ToSet(row[<<a, k>>]) => entered[h][a] > 0
                      /\ h \in vkey => (h \in ToSet(row[<<a, k>>]) <=> entered[h][a] > 0 /\ Queue[h] = k)
    BY <1>1, <1>13 DEF Matched
  <2> QED BY DEF Tables, Matched
<1> QED BY <1>14, <1>15, <1>16, <1>17 DEF Tables

\* What is appended is in, and all that was there.
LEMMA AppendedSet ==
  ASSUME NEW S, NEW s \in Seq(S), NEW e \in S
  PROVE  ToSet(Append(s, e)) = ToSet(s) \cup {e}
<1> DEFINE t == Append(s, e)
<1>1. DOMAIN t = 1 .. Len(s) + 1 /\ DOMAIN s = 1 .. Len(s) /\ Len(s) \in Nat OBVIOUS
<1>2. t[Len(s) + 1] = e /\ \A i \in 1 .. Len(s) : t[i] = s[i] OBVIOUS
<1> HIDE DEF t
<1>3. ToSet(t) = {t[i] : i \in 1 .. Len(s) + 1} /\ ToSet(s) = {s[i] : i \in 1 .. Len(s)}
  BY <1>1 DEF ToSet
<1>4. 1 .. Len(s) + 1 = 1 .. Len(s) \cup {Len(s) + 1} BY <1>1
<1>5. ToSet(t) = ToSet(s) \cup {e} BY <1>2, <1>3, <1>4
<1> QED BY <1>5 DEF t

\* A row is written: with the game it was read for, and whatever it held.
LEMMA WriteRowTables ==
  ASSUME Inv, Tables, NEW c \in Call, WriteRow(c)
  PROVE  Tables'
<1> DEFINE g == call[c].game
           n == call[c].at
           a == SeatsOf[g][n]
           k == call[c].key
           y == <<a, k>>
           b == call[c].base[n]
           x == [call[c] EXCEPT !.at = n + 1]
<1>1. /\ call' = [call EXCEPT ![c] = x] /\ UNCHANGED <<vkey, overlap>>
      /\ call[c].pc = "write" /\ n \in SeatNumbers(g)
      /\ row' = [row EXCEPT ![y] = Append(b, g)]
      /\ entered' = [entered EXCEPT ![g][a] = @ + 1]
  BY DEF WriteRow, Upsert
<1>2. call[c] \in CallType /\ n \in Nat /\ call[c].base \in Seq(Seq(Game)) BY CallFields DEF Inv
<1>3. g \in Game /\ k \in Keys /\ n >= 1 /\ Len(call[c].base) >= Len(SeatsOf[g])
  BY <1>1 DEF Inv, Types, HasRead, Tables, Placed
<1>4. Len(SeatsOf[g]) \in Nat BY <1>3, RatingsAssumption
<1>5. b \in Seq(Game)
  <2>1. n \in 1 .. Len(call[c].base) BY <1>1, <1>2, <1>3, <1>4 DEF SeatNumbers
  <2> QED BY <1>2, <2>1
<1>6. a \in Agent BY <1>1, <1>3, SeatIsAgent
<1>7. entered[g][a] = 0 BY <1>1, <1>2 DEF Inv, Unwritten
<1>8. x.pc = "write" /\ x.at = n + 1 /\ x.game = g /\ x.key = k /\ x.base = call[c].base
  BY <1>1, <1>2 DEF CallType
<1> HIDE DEF x
<1>9. call'[c] = x /\ \A d \in Call \ {c} : call'[d] = call[d] BY <1>1 DEF Inv, Types
<1>10. \A d \in Call, m \in Nat :
         /\ Held(d, m)' => Held(d, m) /\ (d = c => m # n)
         /\ Player(d, m)' = Player(d, m) /\ RowOf(d, m)' = RowOf(d, m)
         /\ call'[d].base[m] = call[d].base[m]
  <2>1. \A m \in Nat : Held(c, m)' => Held(c, m) /\ m # n
    <3> SUFFICES ASSUME NEW m \in SeatNumbers(g), m >= n + 1 PROVE m >= n /\ m # n
      BY <1>1, <1>8, <1>9 DEF Held
    <3> QED BY <1>2 DEF SeatNumbers
  <2>2. \A d \in Call, m \in Nat :
          Player(d, m)' = Player(d, m) /\ RowOf(d, m)' = RowOf(d, m)
          /\ call'[d].base[m] = call[d].base[m]
    BY <1>8, <1>9 DEF Player, RowOf
  <2>3. \A d \in Call \ {c}, m \in Nat : Held(d, m)' => Held(d, m)
    BY <1>9 DEF Held
  <2> QED BY <2>1, <2>2, <2>3
<1>11. Held(c, n) /\ RowOf(c, n) = y /\ Player(c, n) = a
  BY <1>1, <1>2 DEF Held, RowOf, Player
<1>12. a \notin overlap => b = row[y]
  BY <1>2, <1>11 DEF Tables, Fresh
<1>13. y \in Agent \X Keys BY <1>3, <1>6
<1>14. /\ row'[y] = Append(b, g)
       /\ \A z \in Agent \X Keys : z # y => row'[z] = row[z]
  BY <1>1, <1>13 DEF Inv, Types
<1>15. /\ entered'[g][a] = 1
       /\ \A h \in Game, e \in Agent : ~(h = g /\ e = a) => entered'[h][e] = entered[h][e]
  BY <1>1, <1>3, <1>6, <1>7 DEF Inv, Types
<1>16. g \in vkey => k = Queue[g] BY <1>1 DEF Tables, Placed
<1>17. ToSet(Append(b, g)) = ToSet(b) \cup {g} BY <1>3, <1>5, AppendedSet
<1>18. \A m \in Nat : Held(c, m) /\ m # n => Player(c, m) # a
  BY <1>1, <1>3, RatingsAssumption DEF Held, Player, SeatNumbers
<1>19. overlap' = overlap /\ vkey' = vkey BY <1>1
<1>20. Solo' BY <1>10, <1>19 DEF Tables, Solo
<1>21. Fresh'
  <2> SUFFICES ASSUME NEW d \in Call, NEW m \in Nat, Held(d, m)', Player(d, m)' \notin overlap'
               PROVE  call'[d].base[m] = row'[RowOf(d, m)']
    BY DEF Fresh
  <2>1. Held(d, m) /\ Player(d, m) \notin overlap /\ (d = c => m # n) BY <1>10, <1>19
  <2>2. call[d].base[m] = row[RowOf(d, m)] BY <2>1 DEF Tables, Fresh
  <2>3. RowOf(d, m) # y
    <3> SUFFICES ASSUME RowOf(d, m) = y PROVE FALSE
      OBVIOUS
    <3>1. Player(d, m) = a BY DEF RowOf
    <3>2. CASE d = c BY <1>18, <2>1, <3>1, <3>2
    <3>3. CASE d # c
      <4>1. RowOf(c, n) = RowOf(d, m) BY <1>11
      <4>2. Player(c, n) \in overlap BY <1>2, <1>11, <2>1, <3>3, <4>1 DEF Tables, Solo
      <4> QED BY <1>11, <2>1, <3>1, <4>2
    <3> QED BY <3>2, <3>3
  <2>4. RowOf(d, m) \in Agent \X Keys
    <3>1. call[d].game \in Game /\ call[d].key \in Keys /\ m \in SeatNumbers(call[d].game)
      BY <2>1 DEF Held, Inv, Types
    <3> QED BY <3>1, SeatIsAgent DEF RowOf, Player
  <2>5. row'[RowOf(d, m)] = row[RowOf(d, m)] BY <1>14, <2>3, <2>4
  <2> QED BY <1>10, <2>2, <2>5
<1>22. Placed' BY <1>1, <1>2, <1>8, <1>9 DEF Tables, Placed
<1>23. Matched'
  <2> SUFFICES ASSUME NEW e \in Agent \ overlap', NEW l \in Keys, NEW h \in Game
               PROVE  /\ h \in ToSet(row'[<<e, l>>]) => entered'[h][e] > 0
                      /\ h \in vkey' => (h \in ToSet(row'[<<e, l>>]) <=> entered'[h][e] > 0 /\ Queue[h] = l)
    BY DEF Matched
  <2>1. e \in Agent \ overlap BY <1>19
  <2>2. /\ h \in ToSet(row[<<e, l>>]) => entered[h][e] > 0
        /\ h \in vkey => (h \in ToSet(row[<<e, l>>]) <=> entered[h][e] > 0 /\ Queue[h] = l)
    BY <2>1 DEF Tables, Matched
  <2>3. CASE e = a /\ l = k
    <3>1. ToSet(row'[<<e, l>>]) = ToSet(row[<<e, l>>]) \cup {g}
      BY <1>12, <1>14, <1>17, <2>1, <2>3
    <3>2. CASE h = g BY <1>15, <1>16, <1>19, <2>3, <3>1, <3>2
    <3>3. CASE h # g
      <4>1. entered'[h][e] = entered[h][e] BY <1>15, <3>3
      <4> QED BY <1>19, <2>2, <3>1, <3>3, <4>1
    <3> QED BY <3>2, <3>3
  <2>4. CASE ~(e = a /\ l = k)
    <3>1. row'[<<e, l>>] = row[<<e, l>>]
      <4>1. <<e, l>> # y /\ <<e, l>> \in Agent \X Keys BY <2>4
      <4> QED BY <1>14, <4>1
    <3>2. CASE h = g /\ e = a
      <4>1. entered'[h][e] = 1 /\ entered[h][e] = 0 BY <1>7, <1>15, <3>2
      <4>2. h \notin ToSet(row[<<e, l>>]) BY <2>2, <4>1
      <4>3. h \in vkey => Queue[h] # l BY <1>16, <2>4, <3>2
      <4> QED BY <1>19, <3>1, <4>2, <4>3
    <3>3. CASE ~(h = g /\ e = a)
      <4>1. entered'[h][e] = entered[h][e] BY <1>15, <3>3
      <4> QED BY <1>19, <2>2, <3>1, <4>1
    <3> QED BY <3>2, <3>3
  <2> QED BY <2>3, <2>4
<1> QED BY <1>20, <1>21, <1>22, <1>23 DEF Tables

\* The steps that read and write no row.
LEMMA OtherTables ==
  ASSUME Inv, Tables, NEW c \in Call,
         Claim(c) \/ RecordTeam(c) \/ WriteDone(c) \/ Throws(c) \/ \E g \in Game : Begin(c, g)
  PROVE  Tables'
<1>0. call[c] \in CallType /\ NoCall.pc = "idle" BY CallFields DEF Inv, NoCall
<1>1. UNCHANGED <<row, entered, overlap, vkey>>
  BY DEF Claim, RecordTeam, WriteDone, Throws, Begin
<1>2. \E x : call' = [call EXCEPT ![c] = x] /\ x.pc \notin {"read", "write"}
  <2>1. CASE Claim(c)
    <3> DEFINE x == [call[c] EXCEPT !.pc = "teams", !.at = 1]
    <3>1. x.pc = "teams" BY <1>0 DEF CallType
    <3>2. call' = [call EXCEPT ![c] = x] \/ call' = [call EXCEPT ![c] = NoCall] BY <2>1 DEF Claim
    <3> HIDE DEF x
    <3> QED BY <1>0, <3>1, <3>2
  <2>2. CASE RecordTeam(c)
    <3> DEFINE n == call[c].at
               x == [call[c] EXCEPT !.at = n + 1]
               y == [call[c] EXCEPT !.pc = "scope"]
    <3>1. x.pc = "teams" /\ y.pc = "scope" BY <1>0, <2>2 DEF CallType, RecordTeam
    <3>2. \/ call' = [call EXCEPT ![c] = x]
          \/ call' = [call EXCEPT ![c] = y]
          \/ call' = [call EXCEPT ![c] = NoCall]
      BY <2>2 DEF RecordTeam
    <3> HIDE DEF x, y
    <3> QED BY <1>0, <3>1, <3>2
  <2>3. CASE WriteDone(c) \/ Throws(c)
    <3>1. call' = [call EXCEPT ![c] = NoCall] BY <2>3 DEF WriteDone, Throws
    <3> QED BY <1>0, <3>1
  <2>4. ASSUME NEW g \in Game, Begin(c, g) PROVE \E x : call' = [call EXCEPT ![c] = x] /\ x.pc \notin {"read", "write"}
    <3> DEFINE x == [NoCall EXCEPT !.pc = "claim", !.game = g]
    <3>1. x.pc = "claim" BY DEF NoCall
    <3>2. call' = [call EXCEPT ![c] = x] BY <2>4 DEF Begin
    <3> HIDE DEF x
    <3> QED BY <3>1, <3>2
  <2> QED BY <2>1, <2>2, <2>3, <2>4
<1>3. PICK x : call' = [call EXCEPT ![c] = x] /\ x.pc \notin {"read", "write"} BY <1>2
<1>4. vkey' \subseteq vkey BY <1>1
<1> QED BY <1>1, <1>3, <1>4, TablesEnd

\* A key that expires says less, a game that ends says nothing.
LEMMA OutsideTables ==
  ASSUME Inv, Tables, (\E g \in Game : GameEnds(g) \/ VkeyExpires(g)) \/ UNCHANGED vars
  PROVE  Tables'
<1>1. call' = call /\ row' = row /\ entered' = entered /\ overlap' = overlap /\ vkey' \subseteq vkey
  BY DEF GameEnds, VkeyExpires, vars
<1>2. Solo' /\ Fresh' BY <1>1 DEF Tables, Solo, Fresh, Held, Player, RowOf
<1>3. Placed' BY <1>1 DEF Tables, Placed
<1>4. Matched'
  <2> SUFFICES ASSUME NEW a \in Agent \ overlap', NEW k \in Keys, NEW g \in Game
               PROVE  /\ g \in ToSet(row'[<<a, k>>]) => entered'[g][a] > 0
                      /\ g \in vkey' => (g \in ToSet(row'[<<a, k>>]) <=> entered'[g][a] > 0 /\ Queue[g] = k)
    BY DEF Matched
  <2>1. g \in vkey' => g \in vkey BY <1>1
  <2> QED BY <1>1, <2>1 DEF Tables, Matched
<1> QED BY <1>2, <1>3, <1>4 DEF Tables

LEMMA TablesStep ==
  ASSUME Inv, Tables, [Next]_vars
  PROVE  Tables'
<1>1. CASE (\E g \in Game : GameEnds(g) \/ VkeyExpires(g)) \/ UNCHANGED vars
  BY <1>1, OutsideTables
<1>2. ASSUME NEW c \in Call, CallStep(c) \/ \E g \in Game : Begin(c, g)
      PROVE Tables'
  <2>1. CASE Claim(c) \/ RecordTeam(c) \/ WriteDone(c) \/ Throws(c) \/ \E g \in Game : Begin(c, g)
    BY <2>1, OtherTables
  <2>2. CASE Scope(c) BY <2>2, ScopeTables
  <2>3. CASE ReadRow(c) BY <2>3, ReadRowTables
  <2>4. CASE ReadDone(c) BY <2>4, ReadDoneTables
  <2>5. CASE WriteRow(c) BY <2>5, WriteRowTables
  <2> QED BY <1>2, <2>1, <2>2, <2>3, <2>4, <2>5 DEF CallStep
<1> QED BY <1>1, <1>2 DEF Next

\* Only a claim moves a game's claim, from None, and only WriteRow enters.
LEMMA ForSeatsStep ==
  ASSUME Inv, ForSeats, [Next]_vars
  PROVE  ForSeats'
<1> SUFFICES ASSUME NEW g \in Game, NEW a \in Agent, entered'[g][a] > 0
             PROVE  claim'[g] = "rated" /\ a \in Seated(g)
  BY DEF ForSeats
<1>1. claim'[g] = claim[g] \/ claim[g] = None
  <2>1. CASE \E c \in Call : Claim(c) BY <2>1 DEF Claim, Inv, Types
  <2>2. CASE ~\E c \in Call : Claim(c)
    <3>1. claim' = claim
      BY <2>2 DEF Next, CallStep, RecordTeam, Scope, ReadRow, ReadDone, WriteRow, WriteDone, Throws,
                  Begin, GameEnds, VkeyExpires, vars
    <3> QED BY <3>1
  <2> QED BY <2>1, <2>2
<1>2. CASE entered[g][a] > 0
  <2>1. claim[g] = "rated" /\ a \in Seated(g) BY <1>2 DEF ForSeats
  <2>2. claim[g] # None BY <2>1, RatingsAssumption
  <2> QED BY <1>1, <2>1, <2>2
<1>3. CASE ~(entered[g][a] > 0)
  <2>1. entered' # entered BY <1>3
  <2>2. PICK c \in Call : WriteRow(c)
    BY <2>1 DEF Next, CallStep, Claim, RecordTeam, Scope, ReadRow, ReadDone, WriteDone, Throws,
                Begin, GameEnds, VkeyExpires, vars
  <2> DEFINE h == call[c].game
             e == SeatsOf[h][call[c].at]
  <2>3. /\ call[c].pc = "write" /\ call[c].at \in SeatNumbers(h) /\ claim' = claim
        /\ entered' = [entered EXCEPT ![h][e] = @ + 1]
    BY <2>2 DEF WriteRow, Upsert
  <2>4. g = h /\ a = e BY <1>3, <2>3 DEF Inv, Types
  <2>5. claim[g] = "rated" BY <2>3, <2>4 DEF Inv, Owner
  <2> QED BY <2>3, <2>4, <2>5 DEF Seated
<1> QED BY <1>2, <1>3

\* A call moves on and still serves whoever it has not written for.
LEMMA CompleteKept ==
  ASSUME Inv, Complete, NEW c \in Call, NEW x, call' = [call EXCEPT ![c] = x],
         UNCHANGED <<claim, faults>>,
         \A g \in Game, a \in Agent : entered'[g][a] = 0 => entered[g][a] = 0,
         \A g \in Game : \A n \in SeatNumbers(g) :
           WillWrite(c, g, n) /\ claim[g] = "rated" /\ entered'[g][SeatsOf[g][n]] = 0 => WillWrite(c, g, n)'
  PROVE  Complete'
<1> SUFFICES ASSUME faults' = 0, NEW g \in Game, NEW n \in SeatNumbers(g),
                    claim'[g] = "rated", entered'[g][SeatsOf[g][n]] = 0
             PROVE  \E d \in Call : WillWrite(d, g, n)'
  BY DEF Complete
<1>1. faults = 0 /\ claim[g] = "rated" /\ entered[g][SeatsOf[g][n]] = 0 BY SeatIsAgent
<1>2. PICK d \in Call : WillWrite(d, g, n) BY <1>1 DEF Complete
<1>3. CASE d = c BY <1>1, <1>2, <1>3
<1>4. CASE d # c
  <2>1. call'[d] = call[d] BY <1>4 DEF Inv, Types
  <2> QED BY <1>2, <2>1 DEF WillWrite
<1> QED BY <1>3, <1>4

LEMMA CompleteMoves ==
  ASSUME Inv, Complete, NEW c \in Call, RecordTeam(c) \/ Scope(c) \/ ReadRow(c) \/ ReadDone(c)
  PROVE  Complete'
<1>0. call[c] \in CallType /\ call[c].at \in Nat BY CallFields DEF Inv
<1>1. UNCHANGED <<claim, faults>> /\ entered' = entered
  BY DEF RecordTeam, Scope, ReadRow, ReadDone
<1>2. \E x : /\ call' = [call EXCEPT ![c] = x]
             /\ claim[call[c].game] = "rated" =>
                  /\ x.game = call[c].game
                  /\ x.pc \in {"teams", "scope", "read"} \/ (x.pc = "write" /\ x.at = 1)
  <2>1. CASE RecordTeam(c)
    <3> DEFINE n == call[c].at
               x == [call[c] EXCEPT !.at = n + 1]
               y == [call[c] EXCEPT !.pc = "scope"]
    <3>1. x.pc = "teams" /\ y.pc = "scope" /\ x.game = call[c].game /\ y.game = call[c].game
      BY <1>0, <2>1 DEF CallType, RecordTeam
    <3>2. \/ call' = [call EXCEPT ![c] = x]
          \/ call' = [call EXCEPT ![c] = y]
          \/ call' = [call EXCEPT ![c] = NoCall] /\ claim[call[c].game] # "rated"
      BY <2>1 DEF RecordTeam
    <3> HIDE DEF x, y
    <3> QED BY <3>1, <3>2
  <2>2. CASE Scope(c)
    <3> DEFINE g == call[c].game
               k == IF g \in vkey THEN Queue[g] ELSE Column[g]
               x == [call[c] EXCEPT !.pc = "read", !.at = 1, !.base = <<>>, !.key = k]
    <3>1. call' = [call EXCEPT ![c] = x] BY <2>2 DEF Scope
    <3> HIDE DEF k
    <3>2. x.pc = "read" /\ x.game = g BY <1>0 DEF CallType
    <3> HIDE DEF x
    <3> QED BY <3>1, <3>2
  <2>3. CASE ReadRow(c)
    <3> DEFINE n == call[c].at
               b == Append(call[c].base, row[<<SeatsOf[call[c].game][n], call[c].key>>])
               x == [call[c] EXCEPT !.at = n + 1, !.base = b]
    <3>1. call' = [call EXCEPT ![c] = x] BY <2>3 DEF ReadRow
    <3> HIDE DEF b
    <3>2. x.pc = "read" /\ x.game = call[c].game BY <1>0, <2>3 DEF CallType, ReadRow
    <3> HIDE DEF x
    <3> QED BY <3>1, <3>2
  <2>4. CASE ReadDone(c)
    <3> DEFINE x == [call[c] EXCEPT !.pc = "write", !.at = 1]
    <3>1. call' = [call EXCEPT ![c] = x] BY <2>4 DEF ReadDone
    <3>2. x.pc = "write" /\ x.at = 1 /\ x.game = call[c].game BY <1>0 DEF CallType
    <3> HIDE DEF x
    <3> QED BY <3>1, <3>2
  <2> QED BY <2>1, <2>2, <2>3, <2>4
<1>3. PICK x : /\ call' = [call EXCEPT ![c] = x]
               /\ claim[call[c].game] = "rated" =>
                    /\ x.game = call[c].game
                    /\ x.pc \in {"teams", "scope", "read"} \/ (x.pc = "write" /\ x.at = 1)
  BY <1>2
<1>4. call'[c] = x BY <1>3 DEF Inv, Types
<1>5. ASSUME NEW g \in Game, NEW n \in SeatNumbers(g), WillWrite(c, g, n), claim[g] = "rated"
      PROVE  WillWrite(c, g, n)'
  <2>1. n >= 1 BY RatingsAssumption DEF SeatNumbers
  <2> QED BY <1>3, <1>4, <1>5, <2>1 DEF WillWrite
<1> QED BY <1>1, <1>3, <1>5, CompleteKept

LEMMA CompleteWrites ==
  ASSUME Inv, Tables, Complete, NEW c \in Call, WriteRow(c) \/ WriteDone(c)
  PROVE  Complete'
<1>0. call[c] \in CallType /\ call[c].at \in Nat BY CallFields DEF Inv
<1>1. UNCHANGED <<claim, faults>> BY DEF WriteRow, WriteDone
<1> DEFINE h == call[c].game
           m == call[c].at
<1>2. call[c].pc = "write" /\ h \in Game BY DEF WriteRow, WriteDone, Inv, Types
<1>3. Len(SeatsOf[h]) \in Nat BY <1>2, RatingsAssumption
<1>4. m >= 1 BY <1>2 DEF Tables, Placed
<1>5. CASE WriteRow(c)
  <2> DEFINE x == [call[c] EXCEPT !.at = m + 1]
             e == SeatsOf[h][m]
  <2>1. call' = [call EXCEPT ![c] = x] /\ entered' = [entered EXCEPT ![h][e] = @ + 1]
        /\ m \in SeatNumbers(h)
    BY <1>5 DEF WriteRow, Upsert
  <2>2. x.pc = "write" /\ x.at = m + 1 /\ x.game = h BY <1>0, <1>2 DEF CallType
  <2> HIDE DEF x
  <2>3. call'[c] = x BY <2>1 DEF Inv, Types
  <2>4. e \in Agent BY <1>2, <2>1, SeatIsAgent
  <2>5. entered[h][e] \in Nat BY <1>2, <2>4 DEF Inv, Types
  <2>6. entered'[h][e] = entered[h][e] + 1
        /\ \A g \in Game, a \in Agent : ~(g = h /\ a = e) => entered'[g][a] = entered[g][a]
    BY <1>2, <2>1, <2>4 DEF Inv, Types
  <2>7. entered'[h][e] # 0 BY <2>5, <2>6
  <2>8. \A g \in Game, a \in Agent : entered'[g][a] = 0 => entered[g][a] = 0 BY <2>6, <2>7
  <2>9. ASSUME NEW g \in Game, NEW n \in SeatNumbers(g), WillWrite(c, g, n), entered'[g][SeatsOf[g][n]] = 0
        PROVE  WillWrite(c, g, n)'
    <3>1. g = h /\ m <= n /\ n # m BY <1>2, <2>7, <2>9 DEF WillWrite
    <3>2. m + 1 <= n BY <1>0, <1>3, <3>1 DEF SeatNumbers
    <3> QED BY <2>2, <2>3, <3>1, <3>2 DEF WillWrite
  <2> QED BY <1>1, <2>1, <2>8, <2>9, CompleteKept
<1>6. CASE WriteDone(c)
  <2>1. call' = [call EXCEPT ![c] = NoCall] /\ m \notin SeatNumbers(h) /\ entered' = entered
    BY <1>6 DEF WriteDone
  <2>2. \A g \in Game : \A n \in SeatNumbers(g) : ~WillWrite(c, g, n)
    <3> SUFFICES ASSUME NEW n \in SeatNumbers(h), m <= n PROVE FALSE
      BY <1>2 DEF WillWrite
    <3> QED BY <1>0, <1>3, <1>4, <2>1 DEF SeatNumbers
  <2> QED BY <1>1, <2>1, <2>2, CompleteKept
<1> QED BY <1>5, <1>6

\* A claim won is a call to come, whatever the game.
LEMMA CompleteClaims ==
  ASSUME Inv, Complete, NEW c \in Call, Claim(c)
  PROVE  Complete'
<1> DEFINE h == call[c].game
<1>1. call[c].pc = "claim" /\ UNCHANGED <<entered, faults>> BY DEF Claim
<1>2. \A g \in Game : \A n \in SeatNumbers(g) : ~WillWrite(c, g, n) BY <1>1 DEF WillWrite
<1>3. CASE claim[h] # None
  <2>1. call' = [call EXCEPT ![c] = NoCall] /\ claim' = claim BY <1>3 DEF Claim
  <2> QED BY <1>1, <1>2, <2>1, CompleteKept
<1>4. CASE claim[h] = None
  <2> DEFINE x == [call[c] EXCEPT !.pc = "teams", !.at = 1]
  <2>1. call' = [call EXCEPT ![c] = x]
        /\ claim' = [claim EXCEPT ![h] = IF Rates(h) THEN "rated" ELSE "exhibition"]
    BY <1>4 DEF Claim
  <2>2. x.pc = "teams" /\ x.game = h BY CallFields DEF Inv, CallType
  <2> HIDE DEF x
  <2>3. call'[c] = x /\ \A d \in Call \ {c} : call'[d] = call[d] BY <2>1 DEF Inv, Types
  <2>4. \A g \in Game : g # h => claim'[g] = claim[g] BY <2>1 DEF Inv, Types
  <2> SUFFICES ASSUME faults' = 0, NEW g \in Game, NEW n \in SeatNumbers(g),
                      claim'[g] = "rated", entered'[g][SeatsOf[g][n]] = 0
               PROVE  \E d \in Call : WillWrite(d, g, n)'
    BY DEF Complete
  <2>5. CASE g = h BY <2>2, <2>3, <2>5 DEF WillWrite
  <2>6. CASE g # h
    <3>1. PICK d \in Call : WillWrite(d, g, n) BY <1>1, <2>4, <2>6 DEF Complete
    <3>2. d # c BY <1>2, <3>1
    <3> QED BY <2>3, <3>1, <3>2 DEF WillWrite
  <2> QED BY <2>5, <2>6
<1> QED BY <1>3, <1>4

LEMMA CompleteStep ==
  ASSUME Inv, Tables, Complete, faults \in Nat, [Next]_vars
  PROVE  Complete' /\ faults' \in Nat
<1>1. CASE (\E g \in Game : GameEnds(g) \/ VkeyExpires(g)) \/ UNCHANGED vars
  <2>1. claim' = claim /\ call' = call /\ entered' = entered /\ faults' = faults
    BY <1>1 DEF GameEnds, VkeyExpires, vars
  <2> QED BY <2>1 DEF Complete, WillWrite
<1>2. ASSUME NEW c \in Call, Throws(c) PROVE Complete' /\ faults' \in Nat
  <2>1. faults' = faults + 1 BY <1>2 DEF Throws
  <2>2. faults' # 0 /\ faults' \in Nat BY <2>1
  <2> QED BY <2>2 DEF Complete
<1>3. ASSUME NEW c \in Call, NEW g \in Game, Begin(c, g) PROVE Complete' /\ faults' \in Nat
  <2> DEFINE x == [NoCall EXCEPT !.pc = "claim", !.game = g]
  <2>1. call' = [call EXCEPT ![c] = x] /\ UNCHANGED <<claim, faults>> /\ entered' = entered
        /\ call[c].pc = "idle"
    BY <1>3 DEF Begin
  <2> HIDE DEF x
  <2>2. \A h \in Game : \A n \in SeatNumbers(h) : ~WillWrite(c, h, n) BY <2>1 DEF WillWrite
  <2>3. Complete' BY <2>1, <2>2, CompleteKept
  <2> QED BY <2>1, <2>3
<1>4. ASSUME NEW c \in Call, CallStep(c), ~Throws(c) PROVE Complete' /\ faults' \in Nat
  <2>1. faults' = faults
    BY <1>4 DEF CallStep, Claim, RecordTeam, Scope, ReadRow, ReadDone, WriteRow, WriteDone
  <2>2. CASE RecordTeam(c) \/ Scope(c) \/ ReadRow(c) \/ ReadDone(c) BY <2>1, <2>2, CompleteMoves
  <2>3. CASE WriteRow(c) \/ WriteDone(c) BY <2>1, <2>3, CompleteWrites
  <2>4. CASE Claim(c) BY <2>1, <2>4, CompleteClaims
  <2> QED BY <1>4, <2>2, <2>3, <2>4 DEF CallStep
<1> QED BY <1>1, <1>2, <1>3, <1>4 DEF Next

LEMMA InitRInv == Init => RInv
<1> SUFFICES ASSUME Init PROVE RInv
  OBVIOUS
<1>1. \A d \in Call : call[d].pc = "idle" BY DEF Init, NoCall
<1>2. Solo /\ Fresh /\ Placed BY <1>1 DEF Solo, Fresh, Placed, Held
<1>3. Matched
  <2> SUFFICES ASSUME NEW a \in Agent, NEW k \in Keys, NEW g \in Game
               PROVE  g \notin ToSet(row[<<a, k>>]) /\ ~(entered[g][a] > 0)
    BY DEF Matched
  <2>1. row[<<a, k>>] = <<>> /\ entered[g][a] = 0 BY DEF Init
  <2>2. ToSet(<<>>) = {} BY DEF ToSet
  <2> QED BY <2>1, <2>2
<1>4. ForSeats BY DEF Init, ForSeats
<1>5. Complete BY RatingsAssumption DEF Init, Complete
<1> QED BY <1>2, <1>3, <1>4, <1>5, InitInv DEF RInv, Tables, Init

\* What RInv says once everything is quiet.
LEMMA QuietTablesAgree == RInv => RebuildAgrees
<1> DEFINE rated == {g \in Game : claim[g] = "rated"}
<1> SUFFICES ASSUME RInv, Quiet, faults = 0, rated \subseteq vkey, NEW a \in Agent \ overlap, NEW k \in Keys
             PROVE  ToSet(row[<<a, k>>]) = Rebuilt(rated)[<<a, k>>]
  BY DEF RebuildAgrees
<1>1. row[<<a, k>>] \in Seq(Game) BY DEF RInv, Inv, Types
<1>2. ToSet(row[<<a, k>>]) \subseteq Game BY <1>1 DEF ToSet
<1>3. Rebuilt(rated)[<<a, k>>] = {g \in rated : Queue[g] = k /\ a \in Seated(g)} BY DEF Rebuilt
<1>4. ASSUME NEW g \in Game
      PROVE  g \in ToSet(row[<<a, k>>]) <=> claim[g] = "rated" /\ Queue[g] = k /\ a \in Seated(g)
  <2>1. claim[g] = "rated" => g \in vkey OBVIOUS
  <2>2. /\ g \in ToSet(row[<<a, k>>]) => entered[g][a] > 0
        /\ g \in vkey => (g \in ToSet(row[<<a, k>>]) <=> entered[g][a] > 0 /\ Queue[g] = k)
    BY DEF RInv, Tables, Matched
  <2>3. entered[g][a] > 0 => claim[g] = "rated" /\ a \in Seated(g) BY DEF RInv, ForSeats
  <2>4. ASSUME claim[g] = "rated", a \in Seated(g) PROVE entered[g][a] > 0
    <3>1. PICK n \in SeatNumbers(g) : a = SeatsOf[g][n] BY <2>4 DEF Seated
    <3>2. \A c \in Call : ~WillWrite(c, g, n) BY DEF Quiet, WillWrite
    <3>3. entered[g][a] # 0 BY <2>4, <3>1, <3>2 DEF RInv, Complete
    <3> QED BY <3>3 DEF RInv, Inv, Types
  <2> QED BY <2>1, <2>2, <2>3, <2>4
<1> QED BY <1>2, <1>3, <1>4

\* Whatever the order of the statements of however many calls: once nothing is
\* under way and nothing threw, the rows of the agents none of whose games were
\* rated at the same time hold the games a rebuild from the rated ones gives.
THEOREM LiveTablesAgree == Spec => []RebuildAgrees
<1>1. RInv /\ [Next]_vars => RInv'
  BY Steps, TablesStep, ForSeatsStep, CompleteStep DEF RInv
<1> QED BY <1>1, InitRInv, QuietTablesAgree, PTL DEF Spec

-----------------------------------------------------------------------------
(* What the results say of the players.                                    *)

\* A game that has a result has one it can end with.
Outcomes ==
  /\ DOMAIN result = Game
  /\ \A g \in Game : result[g] = None \/ result[g] \in Results[g]

LEMMA InitOutcomes == Init => Outcomes
BY DEF Init, Outcomes

LEMMA OutcomesStep ==
  ASSUME Outcomes, [Next]_vars
  PROVE  Outcomes'
<1>1. CASE \E g \in Game : GameEnds(g)
  BY <1>1 DEF GameEnds, Outcomes
<1>2. CASE ~\E g \in Game : GameEnds(g)
  <2>1. result' = result
    BY <1>2 DEF Next, CallStep, Claim, RecordTeam, Scope, ReadRow, ReadDone, WriteRow, WriteDone, Throws,
                Begin, VkeyExpires, vars
  <2> QED BY <2>1 DEF Outcomes
<1> QED BY <1>1, <1>2

\* Of two seats at most one is ahead.
LEMMA NotBothAhead ==
  ASSUME NEW g \in Game, NEW r \in Results[g], NEW i \in SeatNumbers(g), NEW j \in SeatNumbers(g),
         Ahead(g, r, i, j), Ahead(g, r, j, i)
  PROVE  FALSE
<1> DEFINE wins(n) == ~r.draw /\ n \in r.winners
<1>1. CASE r.scores = <<>>
  BY <1>1 DEF Ahead
<1>2. CASE r.scores # <<>>
  <2>1. r.scores[i] \in Int /\ r.scores[j] \in Int BY <1>2, RatingsAssumption DEF SeatNumbers
  <2>2. \/ wins(i) /\ ~wins(j)
        \/ (wins(i) <=> wins(j)) /\ r.scores[i] > r.scores[j]
    BY <1>2 DEF Ahead
  <2>3. \/ wins(j) /\ ~wins(i)
        \/ (wins(j) <=> wins(i)) /\ r.scores[j] > r.scores[i]
    BY <1>2 DEF Ahead
  <2>4. ~(r.scores[i] > r.scores[j] /\ r.scores[j] > r.scores[i]) BY <2>1
  <2> HIDE DEF wins
  <2> QED BY <2>2, <2>3, <2>4
<1> QED BY <1>1, <1>2

\* One result against the others as a whole names none of one's own team.
LEMMA TeamResultIsOne ==
  ASSUME NEW g, NEW r, NEW i
  PROVE  /\ Cardinality(TeamResult(g, r, i)) <= 1
         /\ \A x \in TeamResult(g, r, i) : \A j \in SeatNumbers(g) :
              r.teams[i] = r.teams[j] => j \notin x.against
<1> DEFINE opponents == {j \in SeatNumbers(g) : r.teams[j] # r.teams[i]}
           undecided == r.draw \/ Cardinality(WinningTeams(r)) # 1
           x == [against |-> opponents,
                 score |-> IF undecided THEN 1 ELSE IF r.teams[i] \in WinningTeams(r) THEN 2 ELSE 0]
<1>1. TeamResult(g, r, i) = {} \/ TeamResult(g, r, i) = {x} BY DEF TeamResult
<1>2. x.against = opponents OBVIOUS
<1>3. \A j \in SeatNumbers(g) : r.teams[i] = r.teams[j] => j \notin opponents OBVIOUS
<1> HIDE DEF x, opponents
<1>4. Cardinality({}) = 0 /\ Cardinality({x}) = 1 BY FS_EmptySet, FS_Singleton
<1> QED BY <1>1, <1>2, <1>3, <1>4

\* Whatever a game ends with, its results are consistent: scores of a pair add
\* up, a winner has beaten every loser, nobody plays against its own team, and
\* a team game counts once.
THEOREM ResultsAreConsistent == Spec => []DecompositionIsFair
<1>1. ASSUME Outcomes, NEW g \in Game, result[g] # None,
             NEW i \in SeatNumbers(g), NEW j \in SeatNumbers(g), i # j
      PROVE  LET r == result[g]
                 about(n) == Decompose(g, r, n)
             IN /\ TeamsOf(g, r) => Cardinality(about(i)) <= 1
                /\ TeamsOf(g, r) /\ r.teams[i] = r.teams[j] =>
                     \A x \in about(i) : j \notin x.against
                /\ \A x \in about(i), y \in about(j) :
                     j \in x.against /\ i \in y.against /\ ~TeamsOf(g, r) => x.score + y.score = 2
                /\ ~TeamsOf(g, r) /\ ~r.draw /\ i \in r.winners /\ j \notin r.winners =>
                     \E x \in about(i) : x.against = {j} /\ x.score = 2
  <2> DEFINE r == result[g]
             A(m, n) == Ahead(g, r, m, n)
  <2>1. r \in Results[g] BY <1>1 DEF Outcomes
  <2> HIDE DEF r
  <2>2. CASE TeamsOf(g, r)
    <3>1. Decompose(g, r, i) = TeamResult(g, r, i) BY <2>2 DEF Decompose
    <3> QED BY <2>2, <3>1, TeamResultIsOne DEF r
  <2>3. CASE ~TeamsOf(g, r)
    <3>1. \A n \in SeatNumbers(g) : Decompose(g, r, n) = Pairwise(g, r, n) BY <2>3 DEF Decompose
    <3>2. ~(A(i, j) /\ A(j, i)) BY <2>1, NotBothAhead
    <3>3. ASSUME NEW x \in Pairwise(g, r, i), NEW y \in Pairwise(g, r, j), j \in x.against, i \in y.against
          PROVE  x.score + y.score = 2
      <4>1. x = [against |-> {j}, score |-> Score(A(i, j), A(j, i))] BY <3>3 DEF Pairwise
      <4>2. y = [against |-> {i}, score |-> Score(A(j, i), A(i, j))] BY <3>3 DEF Pairwise
      <4>3. x.score = Score(A(i, j), A(j, i)) /\ y.score = Score(A(j, i), A(i, j)) BY <4>1, <4>2
      <4> HIDE DEF A
      <4> QED BY <3>2, <4>3 DEF Score
    <3>4. ASSUME ~r.draw, i \in r.winners, j \notin r.winners
          PROVE  \E x \in Pairwise(g, r, i) : x.against = {j} /\ x.score = 2
      <4>1. A(i, j) BY <3>4 DEF Ahead
      <4> DEFINE x == [against |-> {j}, score |-> Score(A(i, j), A(j, i))]
      <4>2. x \in Pairwise(g, r, i) BY <1>1 DEF Pairwise
      <4>3. x.against = {j} /\ x.score = 2 BY <4>1 DEF Score
      <4> HIDE DEF x
      <4> QED BY <4>2, <4>3
    <3> QED BY <2>3, <3>1, <3>3, <3>4 DEF r
  <2> QED BY <2>2, <2>3
<1>2. Outcomes => DecompositionIsFair BY <1>1 DEF DecompositionIsFair
<1> QED BY <1>2, InitOutcomes, OutcomesStep, PTL DEF Spec

=============================================================================
