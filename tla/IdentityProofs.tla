--------------------------- MODULE IdentityProofs --------------------------
(***************************************************************************)
(* Theorems about Identity and Doorbell, for any number of agents, URLs,   *)
(* games, requests, copies, expiries, sweeps and ticks.                    *)
(*                                                                         *)
(* A challenge lets one request in at most, since one that has let a       *)
(* request in is no longer stored, and none is drawn twice.                *)
(*                                                                         *)
(* Neither of the doorbells' properties is inductive.  A row is verified   *)
(* by a request that names the agent and not the URL, so what makes a      *)
(* verified URL a proved one is that an agent has one request under way,   *)
(* which is about the URL of its row, or is in met.  And a failure is      *)
(* counted on from a copy of the row, so the count is right because one    *)
(* tick at most has a copy, which is the row until the agent has been      *)
(* rung, or it is in twice.                                                *)
(***************************************************************************)
EXTENDS Identity, Doorbell, FiniteSetTheorems, TLAPS

PC == {"idle", "look", "burn", "duplicate", "operator", "insert", "active", "void", "file"}

RequestRecord ==
  [pc : PC, what : {m.what : m \in Message} \cup {None}, handle : {m.handle : m \in Message} \cup {None},
   challenge : Challenge \cup {None}, signer : {m.signer : m \in Message} \cup {None},
   key : {m.key : m \in Message} \cup {None}, operator : {m.operator : m \in Message} \cup {None},
   form : {m.form : m \in Message} \cup {None}, active : Nat \cup {None}]

Homologation ==
  [handle : {m.handle : m \in Message} \cup {None}, form : {m.form : m \in Message} \cup {None},
   voided : BOOLEAN]

\* A request under way carries a challenge that was drawn.
Types ==
  /\ challenge = [c \in Challenge |-> challenge[c]]
  /\ drawn \subseteq Challenge
  /\ accepted \in [Challenge -> Nat]
  /\ hom \in Seq(Homologation)
  /\ request \in [Slot -> RequestRecord]
  /\ \A s \in Slot : request[s].pc # "idle" => request[s].challenge \in Challenge

SpentIsGone ==
  /\ \A c \in Challenge : accepted[c] <= 1
  /\ \A c \in Challenge : accepted[c] = 1 => challenge[c] = None /\ c \in drawn
  /\ \A c \in Challenge : challenge[c] # None => c \in drawn

ChallengeInv == Types /\ SpentIsGone

LEMMA NoRequestTyped == NoRequest \in RequestRecord /\ NoRequest.pc = "idle"
BY DEF NoRequest, RequestRecord, PC

LEMMA InitInv == Init => ChallengeInv
BY NoRequestTyped DEF Init, ChallengeInv, Types, SpentIsGone

\* The steps that leave the challenges alone: a request moves on, or ends.
LEMMA MovesOn ==
  ASSUME ChallengeInv, UNCHANGED <<challenge, drawn, accepted>>, hom' \in Seq(Homologation),
         NEW s \in Slot, NEW x \in RequestRecord, request' = [request EXCEPT ![s] = x],
         x.pc # "idle" => x.challenge \in Challenge
  PROVE  ChallengeInv'
BY DEF ChallengeInv, Types, SpentIsGone

LEMMA Stage ==
  ASSUME ChallengeInv, NEW s \in Slot, request[s].pc # "idle", NEW p \in PC
  PROVE  LET x == [request[s] EXCEPT !.pc = p] IN x \in RequestRecord /\ x.challenge \in Challenge
<1>1. request[s] \in RequestRecord /\ request[s].challenge \in Challenge BY DEF ChallengeInv, Types
<1> QED BY <1>1 DEF RequestRecord

LEMMA OthersMoveOn ==
  ASSUME ChallengeInv, NEW s \in Slot,
         \/ \E c \in Challenge : Sends(s, c)
         \/ \E t \in Slot : Copied(s, t)
         \/ Duplicate(s) \/ InsertOperator(s) \/ InsertAgent(s)
         \/ FindActive(s) \/ VoidActive(s) \/ FileForm(s) \/ Fails(s)
  PROVE  ChallengeInv'
<1>1. Types BY DEF ChallengeInv
<1>2. ASSUME UNCHANGED <<challenge, drawn, accepted>>, hom' \in Seq(Homologation), Refused(s)
      PROVE ChallengeInv'
  BY <1>2, NoRequestTyped, MovesOn DEF Refused
<1>3. ASSUME UNCHANGED <<challenge, drawn, accepted>>, hom' \in Seq(Homologation),
             NEW p \in PC, request' = [request EXCEPT ![s].pc = p], request[s].pc # "idle"
      PROVE ChallengeInv'
  <2> DEFINE x == [request[s] EXCEPT !.pc = p]
  <2>1. request' = [request EXCEPT ![s] = x] BY <1>3
  <2>2. x \in RequestRecord /\ x.challenge \in Challenge BY <1>3, Stage
  <2> HIDE DEF x
  <2> QED BY <1>3, <2>1, <2>2, MovesOn
<1>4. ASSUME NEW c \in Challenge, Sends(s, c) PROVE ChallengeInv'
  <2>1. PICK m \in Message : request' = [request EXCEPT ![s] =
           [pc |-> "look", what |-> m.what, handle |-> m.handle, challenge |-> c, signer |-> m.signer,
            key |-> m.key, operator |-> m.operator, form |-> m.form, active |-> None]]
    BY <1>4 DEF Sends
  <2> DEFINE x == [pc |-> "look", what |-> m.what, handle |-> m.handle, challenge |-> c,
                   signer |-> m.signer, key |-> m.key, operator |-> m.operator, form |-> m.form,
                   active |-> None]
  <2>2. request' = [request EXCEPT ![s] = x] BY <2>1
  <2>3. x \in RequestRecord /\ x.challenge = c BY DEF RequestRecord, PC
  <2>4. UNCHANGED <<challenge, drawn, accepted, hom>> BY <1>4 DEF Sends
  <2>5. hom' \in Seq(Homologation) BY <1>1, <2>4 DEF Types
  <2> HIDE DEF x
  <2> QED BY <2>2, <2>3, <2>4, <2>5, MovesOn
<1>5. ASSUME NEW t \in Slot, Copied(s, t) PROVE ChallengeInv'
  <2>1. request' = [request EXCEPT ![s] = request[t]] /\ request[t].pc = "look"
        /\ UNCHANGED <<challenge, drawn, accepted, hom>>
    BY <1>5 DEF Copied
  <2>2. request[t] \in RequestRecord /\ request[t].challenge \in Challenge BY <1>1, <2>1 DEF Types
  <2>3. hom' \in Seq(Homologation) BY <1>1, <2>1 DEF Types
  <2> QED BY <2>1, <2>2, <2>3, MovesOn
<1>6. hom \in Seq(Homologation) BY <1>1 DEF Types
<1>7. CASE Duplicate(s)
  BY <1>2, <1>3, <1>6, <1>7 DEF Duplicate, PC
<1>8. CASE InsertOperator(s)
  BY <1>3, <1>6, <1>8 DEF InsertOperator, PC
<1>9. CASE InsertAgent(s) \/ Fails(s)
  BY <1>2, <1>6, <1>9 DEF InsertAgent, Fails
<1>10. CASE FindActive(s)
  <2>1. request[s].pc = "active" /\ UNCHANGED <<challenge, drawn, accepted, hom>>
    BY <1>10 DEF FindActive
  <2>2. CASE Refused(s) BY <1>2, <1>6, <2>1, <2>2
  <2>3. CASE request' = [request EXCEPT ![s].pc = "file"] BY <1>3, <1>6, <2>1, <2>3 DEF PC
  <2>4. CASE \E i \in Active(request[s].handle) :
               request' = [request EXCEPT ![s].pc = "void", ![s].active = i]
    <3>1. PICK i \in DOMAIN hom : request' = [request EXCEPT ![s].pc = "void", ![s].active = i]
      BY <2>4 DEF Active
    <3> DEFINE x == [request[s] EXCEPT !.pc = "void", !.active = i]
    <3>2. i \in Nat BY <1>6
    <3>3. request' = [request EXCEPT ![s] = x] BY <1>1, <3>1 DEF Types
    <3>4. x \in RequestRecord /\ x.challenge \in Challenge BY <1>1, <2>1, <3>2 DEF Types, RequestRecord, PC
    <3> HIDE DEF x
    <3> QED BY <1>6, <2>1, <3>3, <3>4, MovesOn
  <2> QED BY <1>10, <2>2, <2>3, <2>4 DEF FindActive
<1>11. CASE VoidActive(s)
  <2>1. hom' \in Seq(Homologation)
    <3> DEFINE a == request[s].active
               y == [hom[a] EXCEPT !.voided = TRUE]
    <3>1. hom' = [hom EXCEPT ![a] = y] BY <1>11 DEF VoidActive
    <3>2. ASSUME a \in DOMAIN hom PROVE y \in Homologation
      <4>1. hom[a] \in Homologation BY <1>6, <3>2
      <4> QED BY <4>1 DEF Homologation
    <3> HIDE DEF y, a
    <3>3. CASE a \in DOMAIN hom
      <4>1. y \in Homologation BY <3>2, <3>3
      <4> QED BY <1>6, <3>1, <3>3, <4>1
    <3>4. CASE a \notin DOMAIN hom
      <4>1. hom' = [i \in DOMAIN hom |-> hom[i]] BY <3>1, <3>4
      <4>2. hom = [i \in DOMAIN hom |-> hom[i]] BY <1>6
      <4> QED BY <1>6, <4>1, <4>2
    <3> QED BY <3>3, <3>4
  <2> QED BY <1>3, <1>11, <2>1 DEF VoidActive, PC
<1>12. CASE FileForm(s)
  <2>1. request[s] \in RequestRecord BY <1>1 DEF Types
  <2>2. [handle |-> request[s].handle, form |-> request[s].form, voided |-> FALSE] \in Homologation
    BY <2>1 DEF RequestRecord, Homologation
  <2>3. hom' \in Seq(Homologation) BY <1>6, <1>12, <2>2 DEF FileForm
  <2> QED BY <1>2, <1>12, <2>3 DEF FileForm
<1> QED BY <1>4, <1>5, <1>7, <1>8, <1>9, <1>10, <1>11, <1>12

\* Challenges come and go.
LEMMA ChallengesChange ==
  ASSUME ChallengeInv, (\E h \in Handle, c \in Challenge : IssueChallenge(h, c)) \/ Tick \/ SweepExpired
  PROVE  ChallengeInv'
<1>1. Types /\ SpentIsGone BY DEF ChallengeInv
<1>2. ASSUME NEW h \in Handle, NEW c \in Challenge, IssueChallenge(h, c) PROVE ChallengeInv'
  <2>1. accepted[c] = 0 BY <1>1, <1>2 DEF IssueChallenge, Types, SpentIsGone
  <2>2. Types' BY <1>1, <1>2 DEF IssueChallenge, Types
  <2>3. SpentIsGone' BY <1>1, <1>2, <2>1 DEF IssueChallenge, Types, SpentIsGone
  <2> QED BY <2>2, <2>3 DEF ChallengeInv
<1>3. CASE Tick
  BY <1>1, <1>3 DEF Tick, ChallengeInv, Types, SpentIsGone
<1>4. CASE SweepExpired
  BY <1>1, <1>4 DEF SweepExpired, ChallengeInv, Types, SpentIsGone
<1> QED BY <1>2, <1>3, <1>4

\* The look and the burn.
LEMMA Authenticates ==
  ASSUME ChallengeInv, NEW s \in Slot, LookUp(s) \/ Burn(s)
  PROVE  ChallengeInv'
<1>1. Types /\ SpentIsGone BY DEF ChallengeInv
<1> DEFINE r == request[s]
           c == r.challenge
<1>2. r.pc # "idle" /\ c \in Challenge /\ r \in RequestRecord BY <1>1 DEF LookUp, Burn, Types
<1>3. UNCHANGED <<drawn, hom>> /\ hom' \in Seq(Homologation)
  BY <1>1 DEF LookUp, Burn, Types
<1>4. /\ \A d \in Challenge : challenge'[d] = None \/ challenge'[d] = challenge[d]
      /\ challenge' = [d \in Challenge |-> challenge'[d]]
  BY <1>1 DEF LookUp, Burn, LetIn, Types
<1>5. request' \in [Slot -> RequestRecord] /\ \A t \in Slot : request'[t].pc # "idle" => request'[t].challenge \in Challenge
  <2>1. ASSUME NEW p \in PC, request' = [request EXCEPT ![s].pc = p] PROVE <1>5!1 /\ <1>5!2
    <3>1. [r EXCEPT !.pc = p] \in RequestRecord /\ [r EXCEPT !.pc = p].challenge \in Challenge
      BY <1>2, Stage
    <3>2. request' = [request EXCEPT ![s] = [r EXCEPT !.pc = p]] BY <2>1
    <3> QED BY <1>1, <3>1, <3>2 DEF Types
  <2>2. CASE Refused(s) BY <1>1, <2>2, NoRequestTyped DEF Types, Refused
  <2>3. Refused(s) \/ \E p \in PC : request' = [request EXCEPT ![s].pc = p]
    BY DEF LookUp, Burn, LetIn, PC
  <2> QED BY <2>1, <2>2, <2>3
<1>6. CASE UNCHANGED accepted
  <2>1. Types' BY <1>1, <1>3, <1>4, <1>5, <1>6 DEF Types
  <2>2. SpentIsGone' BY <1>1, <1>3, <1>4, <1>6 DEF SpentIsGone
  <2> QED BY <2>1, <2>2 DEF ChallengeInv
<1>7. CASE accepted' # accepted
  <2>1. Burn(s) /\ Stored(r) /\ LetIn(s) /\ challenge' = [challenge EXCEPT ![c] = None]
    BY <1>7 DEF LookUp, Burn
  <2>2. accepted[c] = 0 /\ c \in drawn BY <1>1, <1>2, <2>1 DEF Stored, SpentIsGone, Types
  <2>3. accepted' = [accepted EXCEPT ![c] = 1] BY <2>1, <2>2 DEF LetIn
  <2>4. accepted' \in [Challenge -> Nat] BY <1>1, <1>2, <2>3 DEF Types
  <2>5. Types' BY <1>1, <1>3, <1>4, <1>5, <2>4 DEF Types
  <2>6. SpentIsGone' BY <1>1, <1>2, <1>3, <2>1, <2>2, <2>3 DEF SpentIsGone, Types
  <2> QED BY <2>5, <2>6 DEF ChallengeInv
<1> QED BY <1>6, <1>7

LEMMA Steps == ChallengeInv /\ [Next]_vars => ChallengeInv'
<1> SUFFICES ASSUME ChallengeInv, [Next]_vars PROVE ChallengeInv'
  OBVIOUS
<1>1. CASE UNCHANGED vars BY <1>1 DEF vars, ChallengeInv, Types, SpentIsGone
<1>2. CASE Next
  BY <1>2, OthersMoveOn, ChallengesChange, Authenticates DEF Next, RequestStep
<1> QED BY <1>1, <1>2

\* A challenge lets one request in at most, whatever runs side by side.
THEOREM SingleUse == Spec => []ChallengeSpentOnce
<1>1. ChallengeInv => ChallengeSpentOnce BY DEF ChallengeInv, SpentIsGone, ChallengeSpentOnce
<1> QED BY <1>1, InitInv, Steps, PTL DEF Spec

-----------------------------------------------------------------------------
(* Keys.  A row of agents was written by a registration that had shown its *)
(* own key when its challenge was burnt, and the two unique indexes keep   *)
(* handles and keys one to one whoever looked at what before.              *)

Registering(r) == r.pc \in {"duplicate", "operator", "insert"}

KeyInv ==
  /\ AgentsProveTheirKey
  /\ \A s \in Slot :
       /\ request[s].pc = "burn" /\ request[s].what = "register" => request[s].signer = request[s].key
       /\ Registering(request[s]) => <<request[s].handle, request[s].key>> \in signed

\* What every step does to the keys: nothing is unsigned, one request at most
\* moves, and at most a proved row comes in that clashes with none.
LEMMA KeysKept ==
  ASSUME Types, KeyInv, signed \subseteq signed',
         \/ UNCHANGED agent
         \/ \E a : /\ agent' = agent \cup {a} /\ <<a.handle, a.key>> \in signed
                  /\ \A b \in agent : b.handle # a.handle /\ b.key # a.key,
         \/ UNCHANGED request
         \/ \E s \in Slot : \E x :
              /\ request' = [request EXCEPT ![s] = x]
              /\ x.pc = "burn" /\ x.what = "register" => x.signer = x.key
              /\ Registering(x) => <<x.handle, x.key>> \in signed'
  PROVE  KeyInv'
<1>1. AgentsProveTheirKey'
  <2>1. CASE UNCHANGED agent BY <2>1 DEF KeyInv, AgentsProveTheirKey
  <2>2. ASSUME NEW a, agent' = agent \cup {a}, <<a.handle, a.key>> \in signed,
               \A b \in agent : b.handle # a.handle /\ b.key # a.key
        PROVE  AgentsProveTheirKey'
    BY <2>2 DEF KeyInv, AgentsProveTheirKey
  <2> QED BY <2>1, <2>2
<1>2. \A s \in Slot :
       /\ request'[s].pc = "burn" /\ request'[s].what = "register" => request'[s].signer = request'[s].key
       /\ Registering(request'[s]) => <<request'[s].handle, request'[s].key>> \in signed'
  <2>1. CASE UNCHANGED request BY <2>1 DEF KeyInv
  <2>2. ASSUME NEW s \in Slot, NEW x, request' = [request EXCEPT ![s] = x],
               x.pc = "burn" /\ x.what = "register" => x.signer = x.key,
               Registering(x) => <<x.handle, x.key>> \in signed'
        PROVE  <1>2
    <3>1. \A t \in Slot : request'[t] = IF t = s THEN x ELSE request[t] BY <2>2 DEF Types
    <3> QED BY <2>2, <3>1 DEF KeyInv
  <2> QED BY <2>1, <2>2
<1> QED BY <1>1, <1>2 DEF KeyInv

LEMMA NextKeys == ChallengeInv /\ KeyInv /\ [Next]_vars => KeyInv'
<1> SUFFICES ASSUME ChallengeInv, KeyInv, [Next]_vars PROVE KeyInv'
  OBVIOUS
<1>0. Types BY DEF ChallengeInv
<1>1. ASSUME UNCHANGED <<agent, request, signed>> PROVE KeyInv' BY <1>0, <1>1, KeysKept
<1>2. CASE \/ UNCHANGED vars \/ Tick \/ SweepExpired
           \/ \E h \in Handle, c \in Challenge : IssueChallenge(h, c)
  BY <1>1, <1>2 DEF vars, Tick, SweepExpired, IssueChallenge
<1>3. \A s \in Slot : request[s] \in RequestRecord BY <1>0 DEF Types
<1>4. ASSUME NEW s \in Slot, UNCHANGED agent, signed \subseteq signed', Refused(s) PROVE KeyInv'
  <2>1. NoRequest.pc = "idle" /\ ~Registering(NoRequest) BY DEF NoRequest, Registering
  <2> QED BY <1>0, <1>4, <2>1, KeysKept DEF Refused
<1>5. ASSUME NEW s \in Slot, UNCHANGED <<agent, signed>>, NEW p,
             request' = [request EXCEPT ![s].pc = p], p # "burn",
             p \in {"duplicate", "operator", "insert"} => Registering(request[s])
      PROVE  KeyInv'
  <2> DEFINE x == [request[s] EXCEPT !.pc = p]
  <2>1. request' = [request EXCEPT ![s] = x] BY <1>5
  <2>2. x.pc = p /\ x.handle = request[s].handle /\ x.key = request[s].key BY <1>3 DEF RequestRecord
  <2>3. Registering(x) => <<x.handle, x.key>> \in signed BY <1>5, <2>2 DEF Registering, KeyInv
  <2> HIDE DEF x
  <2> QED BY <1>0, <1>5, <2>1, <2>2, <2>3, KeysKept
<1>6. ASSUME NEW s \in Slot, NEW c \in Challenge, Sends(s, c) PROVE KeyInv'
  <2>1. PICK m \in Message : request' = [request EXCEPT ![s] =
           [pc |-> "look", what |-> m.what, handle |-> m.handle, challenge |-> c, signer |-> m.signer,
            key |-> m.key, operator |-> m.operator, form |-> m.form, active |-> None]]
    BY <1>6 DEF Sends
  <2> DEFINE x == [pc |-> "look", what |-> m.what, handle |-> m.handle, challenge |-> c,
                   signer |-> m.signer, key |-> m.key, operator |-> m.operator, form |-> m.form,
                   active |-> None]
  <2>2. request' = [request EXCEPT ![s] = x] BY <2>1
  <2>3. x.pc = "look" /\ ~Registering(x) BY DEF Registering
  <2> HIDE DEF x
  <2> QED BY <1>0, <1>6, <2>2, <2>3, KeysKept DEF Sends
<1>7. ASSUME NEW s \in Slot, NEW t \in Slot, Copied(s, t) PROVE KeyInv'
  <2>1. request' = [request EXCEPT ![s] = request[t]] /\ request[t].pc = "look" BY <1>7 DEF Copied
  <2>2. ~Registering(request[t]) BY <2>1 DEF Registering
  <2> QED BY <1>0, <1>7, <2>1, <2>2, KeysKept DEF Copied
<1>8. ASSUME NEW s \in Slot, LookUp(s) PROVE KeyInv'
  <2>1. CASE Refused(s) BY <1>4, <1>8, <2>1 DEF LookUp
  <2>2. CASE ~Refused(s)
    <3>1. request' = [request EXCEPT ![s].pc = "burn"] /\ request[s].signer = VerifyKey(request[s])
      BY <1>8, <2>2 DEF LookUp
    <3> DEFINE x == [request[s] EXCEPT !.pc = "burn"]
    <3>2. request' = [request EXCEPT ![s] = x] BY <3>1
    <3>3. /\ x.pc = "burn" /\ x.what = request[s].what /\ x.key = request[s].key
          /\ x.signer = request[s].signer
      BY <1>3 DEF RequestRecord
    <3>4. ~Registering(x) BY <3>3 DEF Registering
    <3>5. x.what = "register" => x.signer = x.key BY <3>1, <3>3 DEF VerifyKey
    <3> HIDE DEF x
    <3> QED BY <1>0, <1>8, <3>2, <3>4, <3>5, KeysKept DEF LookUp
  <2> QED BY <2>1, <2>2
<1>9. ASSUME NEW s \in Slot, Burn(s) PROVE KeyInv'
  <2>1. CASE Refused(s) BY <1>4, <1>9, <2>1 DEF Burn, LetIn
  <2>2. CASE ~Refused(s)
    <3>1. LetIn(s) /\ request[s].pc = "burn" /\ UNCHANGED agent BY <1>9, <2>2 DEF Burn
    <3> DEFINE p == IF request[s].what = "register" THEN "duplicate" ELSE "active"
               x == [request[s] EXCEPT !.pc = p]
    <3>2. request' = [request EXCEPT ![s] = x] BY <3>1 DEF LetIn
    <3>3. /\ x.pc = p /\ x.handle = request[s].handle /\ x.key = request[s].key
          /\ p = "duplicate" => request[s].what = "register"
          /\ p \in {"duplicate", "active"}
      BY <1>3 DEF RequestRecord
    <3>4. signed' = signed \cup {<<request[s].handle, request[s].signer>>} BY <3>1 DEF LetIn
    <3> HIDE DEF x, p
    <3>5. Registering(x) => <<x.handle, x.key>> \in signed'
      BY <3>1, <3>3, <3>4 DEF Registering, KeyInv
    <3> QED BY <1>0, <3>1, <3>2, <3>3, <3>4, <3>5, KeysKept
  <2> QED BY <2>1, <2>2
<1>10. ASSUME NEW s \in Slot, Duplicate(s) \/ InsertOperator(s) PROVE KeyInv'
  <2>1. Registering(request[s]) /\ UNCHANGED <<agent, signed>>
    BY <1>10 DEF Duplicate, InsertOperator, Registering
  <2> QED BY <1>4, <1>5, <1>10, <2>1 DEF Duplicate, InsertOperator
<1>11. ASSUME NEW s \in Slot, InsertAgent(s) PROVE KeyInv'
  <2> DEFINE r == request[s]
             a == [handle |-> r.handle, key |-> r.key, operator |-> r.operator]
  <2>1. Registering(r) /\ Refused(s) /\ UNCHANGED signed BY <1>11 DEF InsertAgent, Registering
  <2>2. CASE Taken(r) BY <1>4, <1>11, <2>1, <2>2 DEF InsertAgent
  <2>3. CASE ~Taken(r)
    <3>1. agent' = agent \cup {a} /\ a.handle = r.handle /\ a.key = r.key BY <1>11, <2>3 DEF InsertAgent
    <3>2. \A b \in agent : b.handle # a.handle /\ b.key # a.key BY <2>3 DEF Taken, Registered
    <3>3. <<a.handle, a.key>> \in signed BY <2>1, <3>1 DEF KeyInv
    <3>4. NoRequest.pc = "idle" /\ ~Registering(NoRequest) BY DEF NoRequest, Registering
    <3> HIDE DEF a, r
    <3> QED BY <1>0, <2>1, <3>1, <3>2, <3>3, <3>4, KeysKept DEF Refused
  <2> QED BY <2>2, <2>3
<1>12. ASSUME NEW s \in Slot, FindActive(s) PROVE KeyInv'
  <2>1. UNCHANGED <<agent, signed>> BY <1>12 DEF FindActive
  <2>2. CASE Refused(s) BY <1>4, <2>1, <2>2
  <2>3. CASE request' = [request EXCEPT ![s].pc = "file"] BY <1>5, <2>1, <2>3
  <2>4. CASE \E i : request' = [request EXCEPT ![s].pc = "void", ![s].active = i]
    <3>1. PICK i : request' = [request EXCEPT ![s].pc = "void", ![s].active = i] BY <2>4
    <3> DEFINE x == [request[s] EXCEPT !.pc = "void", !.active = i]
    <3>2. request' = [request EXCEPT ![s] = x] BY <1>0, <3>1 DEF Types
    <3>3. x.pc = "void" /\ ~Registering(x) BY <1>3 DEF RequestRecord, Registering
    <3> HIDE DEF x
    <3> QED BY <1>0, <2>1, <3>2, <3>3, KeysKept
  <2> QED BY <1>12, <2>2, <2>3, <2>4 DEF FindActive
<1>13. ASSUME NEW s \in Slot, VoidActive(s) PROVE KeyInv' BY <1>5, <1>13 DEF VoidActive
<1>14. ASSUME NEW s \in Slot, FileForm(s) \/ Fails(s) PROVE KeyInv' BY <1>4, <1>14 DEF FileForm, Fails
<1> QED
  BY <1>2, <1>6, <1>7, <1>8, <1>9, <1>10, <1>11, <1>12, <1>13, <1>14 DEF Next, RequestStep

\* An agent's key is its own: it showed it on a challenge for its handle, no
\* other agent has the key and no other key the handle, also when registrations
\* of one handle or one key run side by side and statements fail between them.
THEOREM KeysAreProved == Spec => []AgentsProveTheirKey
<1>1. Init => KeyInv
  <2>1. Init => \A s \in Slot : request[s].pc = "idle" BY NoRequestTyped DEF Init
  <2> QED
    BY <2>1, IdentityAssumption DEF Init, KeyInv, AgentsProveTheirKey, Registering
<1>2. KeyInv => AgentsProveTheirKey BY DEF KeyInv
<1> QED BY <1>1, <1>2, InitInv, Steps, NextKeys, PTL DEF Spec


-----------------------------------------------------------------------------
(* Forms.  What FindActive has seen stays so until the form is filed,      *)
(* unless a second filing of the agent crosses it or a statement fails.    *)

Filers(h) == {s \in Slot : request[s].handle = h /\ request[s].pc \in {"void", "file"}}

\* One filing of an agent at a time is past its look, and it knows the agent's
\* active rows: the one it is to void, or none.  With no filing under way an
\* agent that has filed has one.
OneForm(h) ==
  /\ \A s, t \in Filers(h) : s = t
  /\ \A s \in Filers(h) :
       Active(h) = IF request[s].pc = "void" THEN {request[s].active} ELSE {}
  /\ Filers(h) = {} =>
       \/ \A i \in DOMAIN hom : hom[i].handle # h
       \/ \E i \in DOMAIN hom : Active(h) = {i}

FormInv ==
  /\ faults \in Nat
  /\ \A s \in Slot : request[s].pc = "void" =>
       /\ request[s].active \in DOMAIN hom
       /\ hom[request[s].active].handle = request[s].handle
  /\ faults = 0 => \A h \in Handle \ crossed : OneForm(h)

\* An agent whose rows and whose filings a step leaves as they were.
LEMMA FormKept ==
  ASSUME NEW h, OneForm(h), UNCHANGED Active(h), UNCHANGED Filers(h),
         \A s \in Filers(h) : request'[s] = request[s],
         (\A i \in DOMAIN hom : hom[i].handle # h) => \A i \in DOMAIN hom' : hom'[i].handle # h,
         DOMAIN hom \subseteq DOMAIN hom'
  PROVE  OneForm(h)'
BY DEF OneForm

\* A step that files nothing.
LEMMA NothingFiled ==
  ASSUME Types, FormInv, UNCHANGED <<hom, crossed, faults>>,
         \/ UNCHANGED request
         \/ \E s \in Slot : \E x :
              /\ request' = [request EXCEPT ![s] = x]
              /\ request[s].pc \notin {"void", "file"} /\ x.pc \notin {"void", "file"}
  PROVE  FormInv'
<1>1. \A s \in Slot : \/ request'[s] = request[s]
                      \/ /\ request[s].pc \notin {"void", "file"}
                         /\ request'[s].pc \notin {"void", "file"}
  BY DEF Types
<1>2. \A h : UNCHANGED Filers(h) /\ UNCHANGED Active(h)
  <2> TAKE h
  <2>1. UNCHANGED Filers(h) BY <1>1 DEF Filers
  <2>2. UNCHANGED Active(h) BY DEF Active
  <2> QED BY <2>1, <2>2
<1>3. \A h : \A s \in Filers(h) : request'[s] = request[s] BY <1>1 DEF Filers
<1>4. ASSUME NEW h, OneForm(h) PROVE OneForm(h)' BY <1>2, <1>3, <1>4, FormKept
<1>5. \A s \in Slot : request'[s].pc = "void" =>
        request'[s].active \in DOMAIN hom' /\ hom'[request'[s].active].handle = request'[s].handle
  BY <1>1 DEF FormInv
<1>6. faults' = 0 => \A h \in Handle \ crossed' : OneForm(h)' BY <1>4 DEF FormInv
<1>7. faults' \in Nat BY DEF FormInv
<1> QED BY <1>5, <1>6, <1>7 DEF FormInv

LEMMA FormSteps == ChallengeInv /\ FormInv /\ [Next]_vars => FormInv'
<1> SUFFICES ASSUME ChallengeInv, FormInv, [Next]_vars PROVE FormInv'
  OBVIOUS
<1>0. Types BY DEF ChallengeInv
<1>1. \A s \in Slot : request[s] \in RequestRecord BY <1>0 DEF Types
<1>2. hom \in Seq(Homologation) BY <1>0 DEF Types
<1>3. ASSUME UNCHANGED <<hom, crossed, faults, request>> PROVE FormInv' BY <1>0, <1>3, NothingFiled
<1>4. CASE \/ UNCHANGED vars \/ Tick \/ SweepExpired
           \/ \E h \in Handle, c \in Challenge : IssueChallenge(h, c)
  BY <1>3, <1>4 DEF vars, Tick, SweepExpired, IssueChallenge
<1>5. ASSUME NEW s \in Slot, UNCHANGED <<hom, crossed, faults>>, request[s].pc \notin {"void", "file"},
             Refused(s)
      PROVE  FormInv'
  <2>1. NoRequest.pc = "idle" BY DEF NoRequest
  <2> QED BY <1>0, <1>5, <2>1, NothingFiled DEF Refused
<1>6. ASSUME NEW s \in Slot, UNCHANGED <<hom, crossed, faults>>, request[s].pc \notin {"void", "file"},
             NEW p, p \notin {"void", "file"}, request' = [request EXCEPT ![s].pc = p]
      PROVE  FormInv'
  <2> DEFINE x == [request[s] EXCEPT !.pc = p]
  <2>1. request' = [request EXCEPT ![s] = x] BY <1>6
  <2>2. x.pc = p BY <1>1 DEF RequestRecord
  <2> HIDE DEF x
  <2> QED BY <1>0, <1>6, <2>1, <2>2, NothingFiled
<1>7. ASSUME NEW s \in Slot, NEW c \in Challenge, Sends(s, c) PROVE FormInv'
  <2>1. PICK m \in Message : request' = [request EXCEPT ![s] =
           [pc |-> "look", what |-> m.what, handle |-> m.handle, challenge |-> c, signer |-> m.signer,
            key |-> m.key, operator |-> m.operator, form |-> m.form, active |-> None]]
    BY <1>7 DEF Sends
  <2> DEFINE x == [pc |-> "look", what |-> m.what, handle |-> m.handle, challenge |-> c,
                   signer |-> m.signer, key |-> m.key, operator |-> m.operator, form |-> m.form,
                   active |-> None]
  <2>2. request' = [request EXCEPT ![s] = x] BY <2>1
  <2>3. x.pc = "look" OBVIOUS
  <2> HIDE DEF x
  <2> QED BY <1>0, <1>7, <2>2, <2>3, NothingFiled DEF Sends
<1>8. ASSUME NEW s \in Slot, NEW t \in Slot, Copied(s, t) PROVE FormInv'
  <2>1. /\ request' = [request EXCEPT ![s] = request[t]] /\ UNCHANGED <<hom, crossed, faults>>
        /\ request[s].pc = "idle" /\ request[t].pc = "look"
    BY <1>8 DEF Copied
  <2> QED BY <1>0, <2>1, NothingFiled
<1>9. ASSUME NEW s \in Slot, LookUp(s) PROVE FormInv'
  <2>1. /\ UNCHANGED <<hom, crossed, faults>> /\ request[s].pc = "look"
        /\ Refused(s) \/ request' = [request EXCEPT ![s].pc = "burn"]
    BY <1>9 DEF LookUp
  <2>2. CASE Refused(s) BY <1>5, <2>1, <2>2
  <2>3. CASE request' = [request EXCEPT ![s].pc = "burn"]
    <3>1. "burn" \notin {"void", "file"} OBVIOUS
    <3> QED BY <1>6, <2>1, <2>3, <3>1
  <2> QED BY <2>1, <2>2, <2>3
<1>10. ASSUME NEW s \in Slot, Burn(s) PROVE FormInv'
  <2>1. /\ UNCHANGED <<hom, crossed, faults>> /\ request[s].pc = "burn"
        /\ Refused(s) \/ LetIn(s)
    BY <1>10 DEF Burn
  <2>2. CASE LetIn(s)
    <3> DEFINE p == IF request[s].what = "register" THEN "duplicate" ELSE "active"
    <3>1. request' = [request EXCEPT ![s].pc = p] BY <2>2 DEF LetIn
    <3>2. p \notin {"void", "file"} OBVIOUS
    <3> HIDE DEF p
    <3> QED BY <1>6, <2>1, <3>1, <3>2
  <2> QED BY <1>5, <2>1, <2>2
<1>11. ASSUME NEW s \in Slot, Duplicate(s) \/ InsertOperator(s) \/ InsertAgent(s) PROVE FormInv'
  <2>1. /\ UNCHANGED <<hom, crossed, faults>> /\ request[s].pc \notin {"void", "file"}
        /\ \/ Refused(s)
           \/ request' = [request EXCEPT ![s].pc = "operator"]
           \/ request' = [request EXCEPT ![s].pc = "insert"]
    BY <1>11 DEF Duplicate, InsertOperator, InsertAgent
  <2>2. CASE Refused(s) BY <1>5, <2>1, <2>2
  <2>3. CASE request' = [request EXCEPT ![s].pc = "operator"]
    <3>1. "operator" \notin {"void", "file"} OBVIOUS
    <3> QED BY <1>6, <2>1, <2>3, <3>1
  <2>4. CASE request' = [request EXCEPT ![s].pc = "insert"]
    <3>1. "insert" \notin {"void", "file"} OBVIOUS
    <3> QED BY <1>6, <2>1, <2>4, <3>1
  <2> QED BY <2>1, <2>2, <2>3, <2>4
<1>12. ASSUME NEW s \in Slot, FindActive(s) PROVE FormInv'
  <2>1. CASE Refused(s)
    <3> SUFFICES ASSUME faults' = 0, NEW h \in Handle \ crossed' PROVE OneForm(h)'
      <4>1. faults' \in Nat BY <1>12 DEF FindActive, FormInv
      <4>2. \A t \in Slot : request'[t] = request[t] \/ request'[t].pc = "idle"
        BY <1>0, <2>1 DEF Refused, Types, NoRequest
      <4>3. \A t \in Slot : request'[t].pc = "void" =>
              request'[t].active \in DOMAIN hom' /\ hom'[request'[t].active].handle = request'[t].handle
        BY <1>12, <4>2 DEF FindActive, FormInv
      <4> QED BY <4>1, <4>3 DEF FormInv
    <3>1. OneForm(h) /\ UNCHANGED hom BY <1>12 DEF FindActive, FormInv
    <3>2. \A t \in Slot : \/ request'[t] = request[t]
                          \/ /\ request[t].pc \notin {"void", "file"}
                             /\ request'[t].pc \notin {"void", "file"}
      BY <1>0, <1>12, <2>1 DEF FindActive, Refused, NoRequest, Types
    <3>3. UNCHANGED Filers(h) /\ \A t \in Filers(h) : request'[t] = request[t] BY <3>2 DEF Filers
    <3>4. UNCHANGED Active(h) BY <3>1 DEF Active
    <3> QED BY <3>1, <3>3, <3>4, FormKept
  <2>2. ASSUME NEW x, request' = [request EXCEPT ![s] = x], x.handle = request[s].handle,
               \/ x.pc = "file" /\ Active(x.handle) = {}
               \/ x.pc = "void" /\ x.active \in Active(x.handle)
        PROVE  FormInv'
    <3>1. \A t \in Slot : request'[t] = IF t = s THEN x ELSE request[t] BY <1>0, <2>2 DEF Types
    <3>2. UNCHANGED <<hom, faults>> /\ request[s].pc = "active" BY <1>12 DEF FindActive
    <3>3. \A t \in Slot : request'[t].pc = "void" =>
            request'[t].active \in DOMAIN hom' /\ hom'[request'[t].active].handle = request'[t].handle
      BY <2>2, <3>1, <3>2 DEF FormInv, Active
    <3>4. ASSUME faults' = 0, NEW h \in Handle \ crossed' PROVE OneForm(h)'
      <4>1. OneForm(h) BY <1>12, <3>2, <3>4 DEF FindActive, FormInv
      <4>2. UNCHANGED Active(h) BY <3>2 DEF Active
      <4>3. CASE h # x.handle
        <5>1. UNCHANGED Filers(h) /\ \A t \in Filers(h) : request'[t] = request[t]
          BY <2>2, <3>1, <4>3 DEF Filers
        <5> QED BY <3>2, <4>1, <4>2, <5>1, FormKept
      <4>4. CASE h = x.handle
        <5>1. Filers(h) = {}
          BY <1>12, <2>2, <3>2, <3>4, <4>4 DEF FindActive, Filing, Filers
        <5>2. Filers(h)' = {s}
          <6>1. \A t \in Slot : t \in Filers(h)' <=> t = s BY <2>2, <3>1, <4>4, <5>1 DEF Filers
          <6> QED BY <6>1 DEF Filers
        <5>3. request'[s] = x BY <3>1
        <5>4. x.pc = "void" => Active(h) = {x.active}
          BY <2>2, <4>1, <4>4, <5>1 DEF OneForm, Active
        <5> QED BY <2>2, <4>2, <4>4, <5>2, <5>3, <5>4 DEF OneForm
      <4> QED BY <4>3, <4>4
    <3> QED BY <3>2, <3>3, <3>4 DEF FormInv
  <2>3. CASE Active(request[s].handle) = {} /\ request' = [request EXCEPT ![s].pc = "file"]
    <3> DEFINE x == [request[s] EXCEPT !.pc = "file"]
    <3>1. request' = [request EXCEPT ![s] = x] BY <2>3
    <3>2. x.pc = "file" /\ x.handle = request[s].handle BY <1>1 DEF RequestRecord
    <3> HIDE DEF x
    <3> QED BY <2>2, <2>3, <3>1, <3>2
  <2>4. CASE \E i \in Active(request[s].handle) :
               request' = [request EXCEPT ![s].pc = "void", ![s].active = i]
    <3>1. PICK i \in Active(request[s].handle) :
            request' = [request EXCEPT ![s].pc = "void", ![s].active = i]
      BY <2>4
    <3> DEFINE x == [request[s] EXCEPT !.pc = "void", !.active = i]
    <3>2. request' = [request EXCEPT ![s] = x] BY <1>0, <3>1 DEF Types
    <3>3. x.pc = "void" /\ x.handle = request[s].handle /\ x.active = i BY <1>1 DEF RequestRecord
    <3> HIDE DEF x
    <3> QED BY <2>2, <3>1, <3>2, <3>3
  <2> QED BY <1>12, <2>1, <2>3, <2>4 DEF FindActive
<1>13. ASSUME NEW s \in Slot, VoidActive(s) PROVE FormInv'
  <2> DEFINE r == request[s]
             x == [r EXCEPT !.pc = "file"]
  <2>1. /\ r.pc = "void" /\ request' = [request EXCEPT ![s] = x]
        /\ hom' = [hom EXCEPT ![r.active].voided = TRUE] /\ UNCHANGED <<crossed, faults>>
    BY <1>13 DEF VoidActive
  <2>2. x.pc = "file" /\ x.handle = r.handle BY <1>1 DEF RequestRecord
  <2>3. r.active \in DOMAIN hom /\ hom[r.active].handle = r.handle BY <2>1 DEF FormInv
  <2> HIDE DEF x
  <2>4. \A t \in Slot : request'[t] = IF t = s THEN x ELSE request[t] BY <1>0, <2>1 DEF Types
  <2>5. /\ DOMAIN hom' = DOMAIN hom
        /\ \A i \in DOMAIN hom : /\ hom'[i].handle = hom[i].handle
                                 /\ hom'[i].voided = (hom[i].voided \/ i = r.active)
    <3>1. \A i \in DOMAIN hom : hom[i] \in Homologation BY <1>2
    <3> HIDE DEF r
    <3> QED BY <2>1, <3>1 DEF Homologation
  <2> HIDE DEF r
  <2>6. \A t \in Slot : request'[t].pc = "void" =>
          request'[t].active \in DOMAIN hom' /\ hom'[request'[t].active].handle = request'[t].handle
    BY <2>2, <2>4, <2>5 DEF FormInv
  <2>7. \A h : Active(h)' = Active(h) \ {r.active}
    <3>1. ASSUME NEW h, NEW i PROVE i \in Active(h)' <=> i \in Active(h) /\ i # r.active
      BY <2>5 DEF Active
    <3> QED BY <3>1
  <2>8. ASSUME faults' = 0, NEW h \in Handle \ crossed' PROVE OneForm(h)'
    <3>1. OneForm(h) BY <2>1, <2>8 DEF FormInv
    <3>2. Filers(h)' = Filers(h) BY <2>1, <2>2, <2>4 DEF Filers, r
    <3>3. CASE h # r.handle
      <4>1. Active(h)' = Active(h) BY <2>3, <2>7, <3>3 DEF Active
      <4>2. \A t \in Filers(h) : request'[t] = request[t] BY <2>4, <3>3 DEF Filers, r
      <4> QED BY <2>5, <3>1, <3>2, <4>1, <4>2, FormKept
    <3>4. CASE h = r.handle
      <4>1. s \in Filers(h) BY <2>1, <3>4 DEF Filers, r
      <4>2. Active(h) = {r.active} BY <2>1, <3>1, <4>1 DEF OneForm, r
      <4>3. Active(h)' = {} BY <2>7, <4>2
      <4>4. \A t \in Filers(h) : t = s BY <3>1, <4>1 DEF OneForm
      <4> QED BY <2>2, <2>4, <3>2, <4>1, <4>3, <4>4 DEF OneForm
    <3> QED BY <3>3, <3>4
  <2> QED BY <2>1, <2>6, <2>8 DEF FormInv
<1>14. ASSUME NEW s \in Slot, FileForm(s) PROVE FormInv'
  <2> DEFINE r == request[s]
             row == [handle |-> r.handle, form |-> r.form, voided |-> FALSE]
             n == Len(hom) + 1
  <2>1. /\ r.pc = "file" /\ request' = [request EXCEPT ![s] = NoRequest]
        /\ hom' = Append(hom, row) /\ UNCHANGED <<crossed, faults>>
    BY <1>14 DEF FileForm, Refused
  <2>2. row.handle = r.handle /\ ~row.voided OBVIOUS
  <2> HIDE DEF row, r
  <2>3. \A t \in Slot : request'[t] = IF t = s THEN NoRequest ELSE request[t] BY <1>0, <2>1 DEF Types
  <2>4. NoRequest.pc = "idle" BY DEF NoRequest
  <2>5. /\ DOMAIN hom' = DOMAIN hom \cup {n} /\ n \notin DOMAIN hom
        /\ \A i \in DOMAIN hom : hom'[i] = hom[i]
        /\ hom'[n] = row
    BY <1>2, <2>1
  <2> HIDE DEF n
  <2>6. \A t \in Slot : request'[t].pc = "void" =>
          request'[t].active \in DOMAIN hom' /\ hom'[request'[t].active].handle = request'[t].handle
    BY <2>3, <2>4, <2>5 DEF FormInv
  <2>7. \A h : Active(h)' = IF h = r.handle THEN Active(h) \cup {n} ELSE Active(h)
    BY <2>2, <2>5 DEF Active
  <2>8. ASSUME faults' = 0, NEW h \in Handle \ crossed' PROVE OneForm(h)'
    <3>1. OneForm(h) BY <2>1, <2>8 DEF FormInv
    <3>2. CASE h # r.handle
      <4>1. Active(h)' = Active(h) BY <2>7, <3>2
      <4>2. Filers(h)' = Filers(h) /\ \A t \in Filers(h) : request'[t] = request[t]
        BY <2>3, <2>4, <3>2 DEF Filers, r
      <4>3. (\A i \in DOMAIN hom : hom[i].handle # h) => \A i \in DOMAIN hom' : hom'[i].handle # h
        BY <2>2, <2>5, <3>2
      <4> QED BY <2>5, <3>1, <4>1, <4>2, <4>3, FormKept
    <3>3. CASE h = r.handle
      <4>1. s \in Filers(h) BY <2>1, <3>3 DEF Filers, r
      <4>2. Active(h) = {} BY <2>1, <3>1, <4>1 DEF OneForm, r
      <4>3. Active(h)' = {n} BY <2>7, <3>3, <4>2
      <4>4. Filers(h)' = {} BY <2>3, <2>4, <3>1, <4>1 DEF OneForm, Filers
      <4> QED BY <2>5, <4>3, <4>4 DEF OneForm
    <3> QED BY <3>2, <3>3
  <2> QED BY <2>1, <2>6, <2>8 DEF FormInv
<1>15. ASSUME NEW s \in Slot, Fails(s) PROVE FormInv'
  <2>1. /\ request' = [request EXCEPT ![s] = NoRequest] /\ UNCHANGED hom
        /\ faults' = faults + 1 /\ faults \in Nat
    BY <1>15 DEF Fails, Refused, FormInv
  <2>2. \A t \in Slot : request'[t] = request[t] \/ request'[t].pc = "idle"
    BY <1>0, <2>1 DEF Types, NoRequest
  <2> QED BY <2>1, <2>2 DEF FormInv
<1> QED
  BY <1>4, <1>7, <1>8, <1>9, <1>10, <1>11, <1>12, <1>13, <1>14, <1>15 DEF Next, RequestStep

\* With nothing under way and no failed statement, an agent that has filed has
\* one active form, however the filings of other agents run beside its own.
THEOREM OneFormIsActive == Spec => []OneActiveForm
<1>1. Init => FormInv
  <2>1. Init => \A s \in Slot : request[s].pc = "idle" BY NoRequestTyped DEF Init
  <2> QED BY <2>1 DEF Init, FormInv, OneForm, Filers
<1>2. FormInv => OneActiveForm
  <2> SUFFICES ASSUME FormInv, \A s \in Slot : request[s].pc = "idle", faults = 0,
                      NEW h \in Handle \ crossed, \E i \in DOMAIN hom : hom[i].handle = h
               PROVE  Cardinality(Active(h)) = 1
    BY DEF OneActiveForm
  <2>1. Filers(h) = {} /\ OneForm(h) BY DEF FormInv, Filers
  <2>2. PICK i : Active(h) = {i} BY <2>1 DEF OneForm
  <2> QED BY <2>2, FS_Singleton
<1> QED BY <1>1, <1>2, InitInv, Steps, FormSteps, PTL DEF Spec

-----------------------------------------------------------------------------
(* Types, and which rows exist.                                            *)

RequestState ==
  [pc : {"idle", "put", "fetch", "spend", "mark"}, agent : Agent \cup {None}, url : Url \cup {None}]
Copies == UNION {[S -> Bell] : S \in SUBSET Agent}
CronState ==
  [pc : {"idle", "game", "ring", "rang", "failed"}, bells : Copies,
   games : SUBSET Game, event : (Game \X Nat) \cup {None},
   left : SUBSET Agent, agent : Agent \cup {None}, rang : SUBSET Agent]

TypeOK ==
  /\ bell \in [Agent -> Bell \cup {None}] /\ pending \in [Agent -> Proof \cup {None}]
  /\ turn \in [Game -> Nat] /\ waiting \in [Game -> SUBSET Agent]
  /\ call \in [Request -> RequestState] /\ cron \in [Cron -> CronState]
  /\ streak \in [Agent -> Nat]

\* A tick is about to record for an agent exactly when it has just rung it.
Ringing(c) ==
  /\ c.left \subseteq DOMAIN c.bells
  /\ c.agent # None <=> c.pc \in {"rang", "failed"}
  /\ c.agent # None => c.agent \in (DOMAIN c.bells \cap c.rang) \ c.left

\* Whatever is under way for an agent is about a row that is there.
RowsAreThere ==
  /\ \A r \in Request :
       /\ call[r].pc # "idle" => call[r].agent \in Agent /\ call[r].url \in Url
       /\ call[r].agent # None => bell[call[r].agent] # None
  /\ \A a \in Agent : pending[a] # None => bell[a] # None
  /\ \A k \in Cron : Ringing(cron[k]) /\ \A a \in DOMAIN cron[k].bells : bell[a] # None

-----------------------------------------------------------------------------
(* Proofs of URLs.                                                         *)

\* What the row of agent a, its request and the copies of its row say of a's URL.
Proved(a) ==
  /\ bell[a] # None => (bell[a].verified => <<a, bell[a].url>> \in proved)
  /\ \A q, r \in Request : call[q].agent = a /\ call[r].agent = a => q = r
  /\ \A r \in Request :
       call[r].agent = a =>
         /\ call[r].url = bell[a].url
         /\ call[r].pc \in {"spend", "mark"} => <<a, bell[a].url>> \in proved
  /\ pending[a] # None /\ (\A r \in Request : call[r].agent = a => call[r].pc # "put")
       => pending[a].url = bell[a].url
  /\ \A k \in Cron : a \in DOMAIN cron[k].bells => <<a, cron[k].bells[a].url>> \in proved

ProofInv == \A a \in Agent \ met : Proved(a)

-----------------------------------------------------------------------------
(* Counts.                                                                 *)

InOrder(a) ==
  /\ bell[a].failures = streak[a] /\ streak[a] <= MaxFailures
  /\ streak[a] = MaxFailures => bell[a].disabled
  /\ bell[a].disabled => streak[a] = MaxFailures \/ a \in stopped

\* The copy of a's row that the tick k has: what it counts on from.  The row was
\* in order when the copy was listed.
CopyOf(k, a) ==
  LET n == cron[k].bells[a].failures
  IN /\ bell[a] # None /\ bell[a].disabled => a \in stopped
     /\ cron[k].agent # a /\ a \notin cron[k].rang => n = streak[a] /\ n < MaxFailures
     /\ cron[k].agent = a /\ cron[k].pc = "rang" => streak[a] = 0
     /\ cron[k].agent = a /\ cron[k].pc = "failed" => streak[a] = n + 1 /\ n < MaxFailures

Counted(a) ==
  /\ bell[a] # None /\ (\A k \in Cron : cron[k].agent # a) => InOrder(a)
  /\ \A j, k \in Cron : a \in DOMAIN cron[j].bells /\ a \in DOMAIN cron[k].bells => j = k
  /\ \A k \in Cron : a \in DOMAIN cron[k].bells => CopyOf(k, a)

CountInv == \A a \in Agent \ (met \cup twice) : Counted(a)

IInv == TypeOK /\ RowsAreThere /\ ProofInv /\ CountInv
-----------------------------------------------------------------------------
(* Rows, copies and tasks.                                                 *)

LEMMA CopiesAre ==
  ASSUME NEW f
  PROVE  f \in Copies <=> DOMAIN f \subseteq Agent /\ f \in [DOMAIN f -> Bell]
<1>1. ASSUME f \in Copies PROVE DOMAIN f \subseteq Agent /\ f \in [DOMAIN f -> Bell]
  <2>1. PICK S \in SUBSET Agent : f \in [S -> Bell] BY <1>1 DEF Copies
  <2> QED BY <2>1
<1>2. ASSUME DOMAIN f \subseteq Agent, f \in [DOMAIN f -> Bell] PROVE f \in Copies
  <2>1. DOMAIN f \in SUBSET Agent BY <1>2
  <2> QED BY <1>2, <2>1 DEF Copies
<1> QED BY <1>1, <1>2

\* A task goes on without touching the copies.
LEMMA TaskTyped ==
  ASSUME TypeOK, NEW k \in Cron
  PROVE  /\ cron[k] \in CronState /\ DOMAIN cron = Cron
         /\ DOMAIN cron[k].bells \subseteq Agent
         /\ \A a \in DOMAIN cron[k].bells : cron[k].bells[a] \in Bell
BY CopiesAre DEF TypeOK, CronState

LEMMA InitTyped == DoorbellAssumption /\ DoorbellInit => TypeOK /\ RowsAreThere
<1> SUFFICES ASSUME DoorbellAssumption, DoorbellInit PROVE TypeOK /\ RowsAreThere
  OBVIOUS
<1>1. Asleep \in CronState
  <2>1. Asleep.bells \in Copies BY CopiesAre DEF Asleep
  <2> QED BY <2>1 DEF Asleep, CronState
<1>2. Idle \in RequestState BY DEF Idle, RequestState
<1>3. TypeOK BY <1>1, <1>2 DEF DoorbellInit, TypeOK, DoorbellAssumption
<1>4. RowsAreThere BY DEF DoorbellInit, RowsAreThere, Ringing, Idle, Asleep
<1> QED BY <1>3, <1>4

\* A call's step puts a state s in the place of its own, and no row away.
LEMMA OneRequest ==
  ASSUME DoorbellAssumption, TypeOK, RowsAreThere, NEW r \in Request, NEW s \in RequestState,
         call' = [call EXCEPT ![r] = s],
         s.pc # "idle" => s.agent \in Agent /\ s.url \in Url,
         s.agent # None => bell'[s.agent] # None,
         bell' \in [Agent -> Bell \cup {None}], \A a \in Agent : bell[a] # None => bell'[a] # None,
         pending' \in [Agent -> Proof \cup {None}], \A a \in Agent : pending'[a] # None => bell'[a] # None,
         streak' \in [Agent -> Nat], UNCHANGED <<cron, turn, waiting>>
  PROVE  TypeOK' /\ RowsAreThere'
<1>1. TypeOK' BY DEF TypeOK
<1>2. ASSUME NEW q \in Request
      PROVE  /\ call'[q].pc # "idle" => call'[q].agent \in Agent /\ call'[q].url \in Url
             /\ call'[q].agent # None => bell'[call'[q].agent] # None
  <2>1. call[q].agent \in Agent \cup {None} BY DEF TypeOK, RequestState
  <2>2. CASE q = r BY <2>2 DEF TypeOK
  <2>3. CASE q # r
    <3>1. call'[q] = call[q] BY <2>3 DEF TypeOK
    <3> QED BY <2>1, <3>1 DEF RowsAreThere
  <2> QED BY <2>2, <2>3
<1>3. ASSUME NEW k \in Cron, NEW a \in DOMAIN cron'[k].bells PROVE bell'[a] # None
  BY <1>3, TaskTyped DEF RowsAreThere
<1> QED BY <1>1, <1>2, <1>3 DEF RowsAreThere

LEMMA RequestsTyped ==
  ASSUME DoorbellAssumption, TypeOK, RowsAreThere, NEW r \in Request, CallStep(r)
  PROVE  TypeOK' /\ RowsAreThere'
<1> DEFINE s == call[r]
           a0 == s.agent
<1>a. s \in RequestState /\ (s.pc # "idle" => a0 \in Agent /\ s.url \in Url)
      /\ (a0 # None => bell[a0] # None)
  BY DEF TypeOK, RowsAreThere
<1>b. /\ bell \in [Agent -> Bell \cup {None}] /\ pending \in [Agent -> Proof \cup {None}]
      /\ streak \in [Agent -> Nat] /\ call \in [Request -> RequestState]
      /\ \A a \in Agent : pending[a] # None => bell[a] # None
  BY DEF TypeOK, RowsAreThere
<1>c. Idle \in RequestState /\ Idle.pc = "idle" /\ Idle.agent = None BY DEF Idle, RequestState
<1>d. None \notin Agent /\ None \notin Bell /\ None \notin Proof BY DEF DoorbellAssumption
<1>1. ASSUME NEW a \in Agent, ReadsChallenge(r, a) PROVE TypeOK' /\ RowsAreThere'
  <2>1. UNCHANGED <<bell, streak, cron, turn, waiting>> /\ pending[a] # None
    BY <1>1 DEF ReadsChallenge, rooms
  <2>2. CASE pending[a].expired
    <3>1. pending' = [pending EXCEPT ![a] = None] /\ call' = [call EXCEPT ![r] = s]
      BY <1>1, <1>b, <2>2 DEF ReadsChallenge
    <3> QED BY <1>a, <1>b, <2>1, <3>1, OneRequest
  <2>3. CASE ~pending[a].expired
    <3> DEFINE n == [pc |-> "fetch", agent |-> a, url |-> pending[a].url]
    <3>1. call' = [call EXCEPT ![r] = n] /\ pending' = pending
      BY <1>1, <2>3 DEF ReadsChallenge
    <3>2. pending[a].url \in Url BY <1>b, <2>1 DEF Proof
    <3>3. n \in RequestState /\ n.agent = a /\ n.url \in Url BY <3>2 DEF RequestState
    <3> HIDE DEF n
    <3> QED BY <1>b, <2>1, <3>1, <3>3, OneRequest
  <2> QED BY <2>2, <2>3
<1>2. ASSUME NEW a \in Agent, NEW u \in Url, Registers(r, a, u) PROVE TypeOK' /\ RowsAreThere'
  <2> DEFINE b == [url |-> u, verified |-> FALSE, cursor |-> None, failures |-> 0, disabled |-> FALSE]
             n == [pc |-> "put", agent |-> a, url |-> u]
  <2>1. b \in Bell BY DEF Bell
  <2>2. n \in RequestState /\ n.agent = a /\ n.url = u BY DEF RequestState
  <2>3. /\ bell' = [bell EXCEPT ![a] = b] /\ call' = [call EXCEPT ![r] = n]
        /\ streak' = [streak EXCEPT ![a] = 0] /\ UNCHANGED <<pending, cron, turn, waiting>>
    BY <1>2 DEF Registers
  <2> HIDE DEF b, n
  <2>4. b # None BY <1>d, <2>1
  <2>5. bell' \in [Agent -> Bell \cup {None}] /\ bell'[a] # None
        /\ \A x \in Agent : bell[x] # None => bell'[x] # None
    BY <1>b, <2>1, <2>3, <2>4
  <2>6. streak' \in [Agent -> Nat] BY <1>b, <2>3
  <2> QED BY <1>b, <2>2, <2>3, <2>5, <2>6, OneRequest
<1>3. CASE PutChallenge(r)
  <2> DEFINE c == [url |-> s.url, expired |-> FALSE]
  <2>1. /\ pending' = [pending EXCEPT ![a0] = c] /\ call' = [call EXCEPT ![r] = Idle]
        /\ s.pc = "put" /\ UNCHANGED <<bell, streak, cron, turn, waiting>>
    BY <1>3 DEF PutChallenge, rooms, history
  <2>2. a0 \in Agent /\ c \in Proof /\ bell[a0] # None BY <1>a, <1>d, <2>1 DEF Proof
  <2> HIDE DEF c
  <2>3. pending' \in [Agent -> Proof \cup {None}] /\ \A a \in Agent : pending'[a] # None => bell'[a] # None
    BY <1>b, <2>1, <2>2
  <2> QED BY <1>b, <1>c, <2>1, <2>3, OneRequest
<1>4. CASE EndpointAnswers(r)
  <2>1. UNCHANGED <<bell, pending, streak, cron, turn, waiting>> /\ s.pc = "fetch"
    BY <1>4 DEF EndpointAnswers, rooms
  <2>2. CASE call' = [call EXCEPT ![r] = Idle] BY <1>b, <1>c, <2>1, <2>2, OneRequest
  <2>3. CASE call' = [call EXCEPT ![r].pc = "spend"]
    <3> DEFINE n == [s EXCEPT !.pc = "spend"]
    <3>1. n \in RequestState /\ n.agent = a0 /\ n.url = s.url BY <1>a DEF RequestState
    <3>2. call' = [call EXCEPT ![r] = n] BY <2>3
    <3> HIDE DEF n
    <3> QED BY <1>a, <1>b, <2>1, <3>1, <3>2, OneRequest
  <2> QED BY <1>4, <2>2, <2>3 DEF EndpointAnswers
<1>5. CASE SpendsChallenge(r)
  <2> DEFINE n == [s EXCEPT !.pc = "mark"]
  <2>1. /\ pending' = [pending EXCEPT ![a0] = None] /\ call' = [call EXCEPT ![r] = n]
        /\ s.pc = "spend" /\ UNCHANGED <<bell, streak, cron, turn, waiting>>
    BY <1>5 DEF SpendsChallenge, rooms, history
  <2>2. n \in RequestState /\ n.agent = a0 /\ n.url = s.url BY <1>a DEF RequestState
  <2> HIDE DEF n
  <2>3. pending' \in [Agent -> Proof \cup {None}] /\ \A a \in Agent : pending'[a] # None => bell'[a] # None
    BY <1>b, <2>1
  <2> QED BY <1>a, <1>b, <2>1, <2>2, <2>3, OneRequest
<1>6. CASE MarksVerified(r)
  <2>1. /\ bell' = [bell EXCEPT ![a0].verified = TRUE, ![a0].failures = 0, ![a0].disabled = FALSE]
        /\ call' = [call EXCEPT ![r] = Idle] /\ streak' = [streak EXCEPT ![a0] = 0]
        /\ s.pc = "mark" /\ UNCHANGED <<pending, cron, turn, waiting>>
    BY <1>6 DEF MarksVerified, rooms
  <2>2. a0 \in Agent /\ bell[a0] \in Bell BY <1>a, <1>b, <1>d, <2>1
  <2>3. bell' \in [Agent -> Bell \cup {None}] /\ \A a \in Agent : bell[a] # None => bell'[a] # None
    <3> DEFINE b == [bell[a0] EXCEPT !.verified = TRUE, !.failures = 0, !.disabled = FALSE]
    <3>1. b \in Bell BY <2>2 DEF Bell
    <3>2. bell' = [bell EXCEPT ![a0] = b] BY <1>b, <2>1, <2>2
    <3> HIDE DEF b
    <3> QED BY <1>b, <1>d, <2>2, <3>1, <3>2
  <2>4. streak' \in [Agent -> Nat] BY <1>b, <2>1
  <2> QED BY <1>b, <1>c, <2>1, <2>3, <2>4, OneRequest
<1> QED BY <1>1, <1>2, <1>3, <1>4, <1>5, <1>6 DEF CallStep

\* A tick's step puts a task c in the place of its own, and no row away.
LEMMA OneTask ==
  ASSUME DoorbellAssumption, TypeOK, RowsAreThere, NEW k \in Cron, NEW c \in CronState,
         cron' = [cron EXCEPT ![k] = c], Ringing(c), \A a \in DOMAIN c.bells : bell[a] # None,
         bell' \in [Agent -> Bell \cup {None}], \A a \in Agent : bell[a] # None => bell'[a] # None,
         streak' \in [Agent -> Nat], UNCHANGED <<pending, turn, waiting, call>>
  PROVE  TypeOK' /\ RowsAreThere'
<1>1. TypeOK' BY DEF TypeOK
<1>2. \A j \in Cron : Ringing(cron'[j]) BY DEF RowsAreThere, TypeOK
<1>3. ASSUME NEW j \in Cron, NEW a \in DOMAIN cron'[j].bells PROVE bell'[a] # None
  <2>1. DOMAIN cron[j].bells \subseteq Agent /\ DOMAIN c.bells \subseteq Agent
    BY CopiesAre DEF TypeOK, CronState
  <2> QED BY <1>3, <2>1 DEF RowsAreThere, TypeOK
<1>4. \A r \in Request : call[r].agent \in Agent \cup {None} BY DEF TypeOK, RequestState
<1> QED BY <1>1, <1>2, <1>3, <1>4 DEF RowsAreThere

LEMMA TicksTyped ==
  ASSUME DoorbellAssumption, TypeOK, RowsAreThere, NEW k \in Cron, CronStep(k)
  PROVE  TypeOK' /\ RowsAreThere'
<1> DEFINE c == cron[k]
<1>a. c \in CronState /\ DOMAIN cron = Cron
  BY TaskTyped
<1>b. DOMAIN c.bells \subseteq Agent /\ \A a \in DOMAIN c.bells : c.bells[a] \in Bell /\ bell[a] \in Bell
  BY TaskTyped DEF RowsAreThere, TypeOK
<1>c. Ringing(c) /\ \A a \in DOMAIN c.bells : bell[a] # None
  BY DEF RowsAreThere
<1>d. bell \in [Agent -> Bell \cup {None}] /\ streak \in [Agent -> Nat] /\ turn \in [Game -> Nat]
  BY DEF TypeOK
<1>1. CASE ListsBells(k)
  <2> DEFINE f == [a \in ActiveBells |-> bell[a]]
             d == [Asleep EXCEPT !.pc = "game", !.games = Game, !.bells = f]
  <2>1. f \in Copies BY <1>d, CopiesAre DEF ActiveBells, IsActive
  <2>2. d \in CronState /\ Ringing(d) BY <2>1 DEF CronState, Asleep, Ringing
  <2>3. \A a \in DOMAIN d.bells : bell[a] # None BY DEF Asleep, ActiveBells, IsActive
  <2>4. cron' = [cron EXCEPT ![k] = d] /\ UNCHANGED <<bell, streak, pending, turn, waiting, call>>
    BY <1>1 DEF ListsBells, rooms
  <2> HIDE DEF d
  <2> QED BY <1>d, <2>2, <2>3, <2>4, OneTask
<1>2. CASE Sleeps(k)
  <2>1. Asleep.bells \in Copies BY CopiesAre DEF Asleep
  <2>2. Asleep \in CronState /\ Ringing(Asleep) /\ DOMAIN Asleep.bells = {}
    BY <2>1 DEF CronState, Asleep, Ringing
  <2>3. cron' = [cron EXCEPT ![k] = Asleep] /\ UNCHANGED <<bell, streak, pending, turn, waiting, call>>
    BY <1>2 DEF Sleeps, rooms, history
  <2> QED BY <1>d, <2>2, <2>3, OneTask
<1>3. CASE RecordsDelivery(k)
  <2> DEFINE a == c.agent
             f == [c.bells EXCEPT ![a].cursor = c.event]
             d == [c EXCEPT !.pc = GoesOn(k), !.agent = None, !.bells[a].cursor = c.event]
  <2>1. a \in DOMAIN c.bells /\ a \in Agent BY <1>3, <1>b, <1>c DEF RecordsDelivery, Ringing
  <2>2. c.event \in (Game \X Nat) \cup {None} BY <1>a DEF CronState
  <2>3. f \in Copies /\ DOMAIN f = DOMAIN c.bells
    <3>1. \A b \in DOMAIN f : f[b] \in Bell BY <1>b, <2>1, <2>2 DEF Bell
    <3> QED BY <1>b, <3>1, CopiesAre
  <2>4. d \in CronState /\ d.bells = f /\ d.agent = None /\ d.left = c.left /\ d.pc \in {"game", "ring"}
    BY <1>a, <2>3 DEF CronState, GoesOn
  <2>5. Ringing(d) /\ \A b \in DOMAIN d.bells : bell[b] # None
    BY <1>c, <2>3, <2>4 DEF Ringing
  <2>6. bell' = [bell EXCEPT ![a].failures = 0, ![a].cursor = c.event]
    BY <1>3 DEF RecordsDelivery
  <2>7. bell' \in [Agent -> Bell \cup {None}] /\ \A b \in Agent : bell[b] # None => bell'[b] # None
    <3> DEFINE rec == [bell[a] EXCEPT !.failures = 0, !.cursor = c.event]
    <3>1. bell[a] \in Bell BY <1>b, <1>d, <2>1
    <3>2. rec \in Bell BY <2>2, <3>1 DEF Bell
    <3>3. rec # None BY <3>2 DEF DoorbellAssumption
    <3>4. bell' = [bell EXCEPT ![a] = rec] BY <2>6
    <3> HIDE DEF rec
    <3> QED BY <1>b, <1>d, <3>2, <3>3, <3>4
  <2>8. cron' = [cron EXCEPT ![k] = d] /\ UNCHANGED <<streak, pending, turn, waiting, call>>
    BY <1>3 DEF RecordsDelivery, rooms, history
  <2> HIDE DEF d
  <2> QED BY <1>d, <2>4, <2>5, <2>7, <2>8, OneTask
<1>4. CASE RecordsFailure(k)
  <2> DEFINE a == c.agent
             n == c.bells[a].failures + 1
             others == [b \in DOMAIN c.bells \ {a} |-> c.bells[b]]
             f == IF n >= MaxFailures THEN others ELSE [c.bells EXCEPT ![a].failures = n]
             d == IF n >= MaxFailures
                  THEN [c EXCEPT !.pc = GoesOn(k), !.agent = None, !.bells = others]
                  ELSE [c EXCEPT !.pc = GoesOn(k), !.agent = None, !.bells[a].failures = n]
  <2>1. a \in DOMAIN c.bells /\ a \in Agent /\ a \notin c.left
    BY <1>4, <1>b, <1>c DEF RecordsFailure, Ringing
  <2>2. n \in Nat BY <1>b, <2>1 DEF Bell
  <2>3. f \in Copies /\ DOMAIN f \subseteq DOMAIN c.bells /\ DOMAIN c.bells \ {a} \subseteq DOMAIN f
    <3>1. \A b \in DOMAIN f : f[b] \in Bell BY <1>b, <2>1, <2>2 DEF Bell
    <3> QED BY <1>b, <3>1, CopiesAre
  <2>4. d \in CronState /\ d.bells = f /\ d.agent = None /\ d.left = c.left /\ d.pc \in {"game", "ring"}
    <3>1. CASE n >= MaxFailures BY <1>a, <2>3, <3>1 DEF CronState, GoesOn
    <3>2. CASE ~(n >= MaxFailures) BY <1>a, <2>3, <3>2 DEF CronState, GoesOn
    <3> QED BY <3>1, <3>2
  <2>5. Ringing(d) /\ \A b \in DOMAIN d.bells : bell[b] # None
    BY <1>c, <2>1, <2>3, <2>4 DEF Ringing
  <2>6. bell' = [bell EXCEPT ![a].failures = n, ![a].disabled = @ \/ n >= MaxFailures]
    BY <1>4 DEF RecordsFailure
  <2>7. bell' \in [Agent -> Bell \cup {None}] /\ \A b \in Agent : bell[b] # None => bell'[b] # None
    <3> DEFINE rec == [bell[a] EXCEPT !.failures = n, !.disabled = @ \/ n >= MaxFailures]
    <3>1. bell[a] \in Bell BY <1>b, <1>d, <2>1
    <3>2. rec \in Bell BY <2>2, <3>1 DEF Bell
    <3>3. rec # None BY <3>2 DEF DoorbellAssumption
    <3>4. bell' = [bell EXCEPT ![a] = rec] BY <2>6
    <3> HIDE DEF rec
    <3> QED BY <1>b, <1>d, <3>2, <3>3, <3>4
  <2>8. cron' = [cron EXCEPT ![k] = d] /\ UNCHANGED <<streak, pending, turn, waiting, call>>
    BY <1>4 DEF RecordsFailure, rooms, history
  <2> HIDE DEF d
  <2> QED BY <1>d, <2>4, <2>5, <2>7, <2>8, OneTask
<1>5. ASSUME NEW g \in Game, AsksRoom(k, g) PROVE TypeOK' /\ RowsAreThere'
  <2>1. PICK left \in {Due(k, g), {}}, pc \in {"ring", "game"} :
          cron' = [cron EXCEPT ![k].games = @ \ {g}, ![k].event = <<g, turn[g]>>,
                               ![k].left = left, ![k].pc = pc]
    BY <1>5 DEF AsksRoom
  <2> DEFINE d == [c EXCEPT !.games = @ \ {g}, !.event = <<g, turn[g]>>, !.left = left, !.pc = pc]
  <2>2. Due(k, g) \subseteq DOMAIN c.bells /\ Due(k, g) \subseteq Agent BY <1>b DEF Due
  <2>3. /\ d \in CronState /\ d.bells = c.bells /\ d.agent = c.agent /\ d.left \subseteq Due(k, g)
        /\ d.pc \in {"game", "ring"}
    BY <1>a, <1>d, <2>2 DEF CronState
  <2>4. c.agent = None BY <1>5, <1>c DEF AsksRoom, Ringing
  <2>5. Ringing(d) /\ \A a \in DOMAIN d.bells : bell[a] # None
    BY <1>c, <2>2, <2>3, <2>4 DEF Ringing
  <2>6. UNCHANGED <<bell, streak, pending, turn, waiting, call>>
    BY <1>5 DEF AsksRoom, rooms, history
  <2>7. cron' = [cron EXCEPT ![k] = d] BY <1>a, <2>1
  <2> HIDE DEF d
  <2> QED BY <1>d, <2>3, <2>5, <2>6, <2>7, OneTask
<1>6. ASSUME NEW a \in Agent, Rings(k, a) PROVE TypeOK' /\ RowsAreThere'
  <2>1. PICK pc \in {"rang", "failed"}, n \in {0, streak[a] + 1} :
          /\ cron' = [cron EXCEPT ![k].pc = pc, ![k].agent = a,
                                  ![k].left = @ \ {a}, ![k].rang = @ \cup {a}]
          /\ streak' = [streak EXCEPT ![a] = n]
    BY <1>6 DEF Rings
  <2> DEFINE d == [c EXCEPT !.pc = pc, !.agent = a, !.left = @ \ {a}, !.rang = @ \cup {a}]
  <2>2. a \in c.left BY <1>6 DEF Rings
  <2>3. /\ d \in CronState /\ d.bells = c.bells /\ d.agent = a /\ d.left = c.left \ {a}
        /\ d.rang = c.rang \cup {a} /\ d.pc \in {"rang", "failed"}
    BY <1>a DEF CronState
  <2>4. Ringing(d) /\ \A b \in DOMAIN d.bells : bell[b] # None
    BY <1>c, <2>2, <2>3, DoorbellAssumption DEF Ringing, DoorbellAssumption
  <2>5. streak' \in [Agent -> Nat] BY <1>d, <2>1
  <2>6. UNCHANGED <<bell, pending, turn, waiting, call>>
    BY <1>6 DEF Rings, rooms
  <2>7. cron' = [cron EXCEPT ![k] = d] BY <1>a, <2>1
  <2> HIDE DEF d
  <2> QED BY <1>d, <2>3, <2>4, <2>5, <2>6, <2>7, OneTask
<1> QED BY <1>1, <1>2, <1>3, <1>4, <1>5, <1>6 DEF CronStep

LEMMA OthersTyped ==
  ASSUME DoorbellAssumption, TypeOK, RowsAreThere,
         (\E a \in Agent : ChallengeExpires(a) \/ Disables(a)) \/ (\E g \in Game : Plays(g))
  PROVE  TypeOK' /\ RowsAreThere'
<1>1. ASSUME NEW a \in Agent, ChallengeExpires(a) PROVE TypeOK' /\ RowsAreThere'
  BY <1>1 DEF ChallengeExpires, TypeOK, RowsAreThere, Proof, rooms, history, DoorbellAssumption
<1>2. ASSUME NEW a \in Agent, Disables(a) PROVE TypeOK' /\ RowsAreThere'
  <2>1. bell' = [bell EXCEPT ![a].disabled = TRUE] /\ bell[a] # None
        /\ UNCHANGED <<pending, turn, waiting, call, cron, streak>>
    BY <1>2 DEF Disables, rooms, history
  <2> DEFINE b == [bell[a] EXCEPT !.disabled = TRUE]
  <2>2. b \in Bell
    <3>1. bell[a] \in Bell BY <2>1 DEF TypeOK
    <3> QED BY <3>1 DEF Bell
  <2>3. bell' = [bell EXCEPT ![a] = b] BY <2>1 DEF TypeOK
  <2> HIDE DEF b
  <2>4. b # None BY <2>2 DEF DoorbellAssumption
  <2>5. TypeOK' BY <2>1, <2>2, <2>3 DEF TypeOK
  <2>6. \A x \in Agent : bell[x] # None => bell'[x] # None BY <2>3, <2>4 DEF TypeOK
  <2>7. \A r \in Request : call[r].agent \in Agent \cup {None} BY DEF TypeOK, RequestState
  <2>8. \A k \in Cron : DOMAIN cron[k].bells \subseteq Agent BY TaskTyped
  <2> QED BY <2>1, <2>5, <2>6, <2>7, <2>8 DEF RowsAreThere
<1>3. ASSUME NEW g \in Game, Plays(g) PROVE TypeOK' /\ RowsAreThere'
  BY <1>3 DEF Plays, TypeOK, RowsAreThere, history, DoorbellAssumption
<1> QED BY <1>1, <1>2, <1>3

LEMMA Typed == DoorbellAssumption /\ TypeOK /\ RowsAreThere /\ [DoorbellNext]_doorbellVars => TypeOK' /\ RowsAreThere'
<1> SUFFICES ASSUME DoorbellAssumption, TypeOK, RowsAreThere, [DoorbellNext]_doorbellVars PROVE TypeOK' /\ RowsAreThere'
  OBVIOUS
<1>1. CASE UNCHANGED doorbellVars
  <2>1. TypeOK' BY <1>1 DEF doorbellVars, TypeOK
  <2>2. RowsAreThere' BY <1>1 DEF doorbellVars, RowsAreThere
  <2> QED BY <2>1, <2>2
<1> QED BY <1>1, RequestsTyped, TicksTyped, OthersTyped DEF DoorbellNext

THEOREM TypeCorrect == ASSUME DoorbellAssumption PROVE DoorbellSpec => [](TypeOK /\ RowsAreThere)
<1>1. DoorbellInit => TypeOK /\ RowsAreThere BY InitTyped
<1>2. TypeOK /\ RowsAreThere /\ [DoorbellNext]_doorbellVars => (TypeOK /\ RowsAreThere)' BY Typed
<1> QED BY <1>1, <1>2, PTL DEF DoorbellSpec

-----------------------------------------------------------------------------
(* Proofs of URLs, step by step.                                           *)

LEMMA InitProved == DoorbellAssumption /\ DoorbellInit => ProofInv
BY DEF DoorbellInit, ProofInv, Proved, Idle, Asleep, DoorbellAssumption

LEMMA RequestsProve ==
  ASSUME DoorbellAssumption, TypeOK, RowsAreThere, ProofInv, NEW r \in Request, CallStep(r)
  PROVE  ProofInv'
<1> SUFFICES ASSUME NEW x \in Agent, x \notin met' PROVE Proved(x)'
  BY DEF ProofInv
<1>0. /\ bell \in [Agent -> Bell \cup {None}] /\ pending \in [Agent -> Proof \cup {None}]
      /\ call \in [Request -> RequestState]
  BY DEF TypeOK
<1>1. ASSUME NEW a \in Agent, ReadsChallenge(r, a) PROVE Proved(x)'
  <2>1. x \notin met /\ Proved(x) BY <1>1 DEF ReadsChallenge, ProofInv
  <2>2. \A q \in Request : call[q].agent = a => x # a BY <1>1 DEF ReadsChallenge
  <2> QED BY <1>0, <1>1, <2>1, <2>2 DEF ReadsChallenge, Proved, Idle, RequestState
<1>2. ASSUME NEW a \in Agent, NEW u \in Url, Registers(r, a, u) PROVE Proved(x)'
  <2>1. x \notin met /\ Proved(x) BY <1>2 DEF Registers, ProofInv
  <2>2. x = a => ~Underway(a, r) BY <1>2 DEF Registers
  <2> QED BY <1>0, <1>2, <2>1, <2>2 DEF Registers, Proved, Idle, RequestState, Underway
<1>3. CASE PutChallenge(r)
  <2>1. x \notin met /\ Proved(x) BY <1>3 DEF PutChallenge, history, ProofInv
  <2>2. call[r].agent \in Agent /\ call'[r] = Idle /\ Idle.agent # x
        /\ \A q \in Request \ {r} : call'[q] = call[q]
    BY <1>0, <1>3 DEF PutChallenge, Idle, RowsAreThere, DoorbellAssumption
  <2>3. pending'[call[r].agent].url = call[r].url
        /\ (x # call[r].agent => pending'[x] = pending[x])
    BY <1>0, <1>3, <2>2 DEF PutChallenge
  <2>4. call[r].agent = x => call[r].url = bell[x].url BY <2>1 DEF Proved
  <2>5. UNCHANGED <<bell, cron, proved>> BY <1>3 DEF PutChallenge, rooms, history
  <2> QED BY <2>1, <2>2, <2>3, <2>4, <2>5 DEF Proved
<1>4. CASE EndpointAnswers(r)
  <2>1. x \notin met /\ Proved(x) BY <1>4 DEF EndpointAnswers, ProofInv
  <2>2. UNCHANGED <<bell, pending, cron>> /\ proved \subseteq proved' /\ call[r].agent \in Agent
    BY <1>4 DEF EndpointAnswers, rooms, RowsAreThere
  <2>3. CASE call' = [call EXCEPT ![r] = Idle]
    BY <1>0, <1>4, <2>1, <2>2, <2>3 DEF EndpointAnswers, Proved, Idle, DoorbellAssumption
  <2>4. CASE /\ call' = [call EXCEPT ![r].pc = "spend"]
             /\ proved' = proved \cup {<<call[r].agent, call[r].url>>}
    <3>1. /\ call'[r].agent = call[r].agent /\ call'[r].url = call[r].url
          /\ call'[r].pc = "spend" /\ call[r].pc = "fetch"
          /\ \A q \in Request \ {r} : call'[q] = call[q]
      BY <1>0, <1>4, <2>4 DEF EndpointAnswers, RequestState
    <3>2. call[r].agent = x => <<x, bell[x].url>> \in proved' BY <2>1, <2>4 DEF Proved
    <3> QED BY <2>1, <2>2, <3>1, <3>2 DEF Proved
  <2> QED BY <1>4, <2>3, <2>4 DEF EndpointAnswers
<1>5. CASE SpendsChallenge(r)
  <2>1. x \notin met /\ Proved(x) BY <1>5 DEF SpendsChallenge, history, ProofInv
  <2> QED BY <1>0, <1>5, <2>1 DEF SpendsChallenge, rooms, history, Proved, RequestState, RowsAreThere
<1>6. CASE MarksVerified(r)
  <2>1. x \notin met /\ Proved(x) BY <1>6 DEF MarksVerified, ProofInv
  <2>2. UNCHANGED <<pending, cron, proved>> /\ call[r].pc = "mark" /\ call[r].agent \in Agent
    BY <1>6 DEF MarksVerified, rooms, RowsAreThere
  <2>3. /\ call'[r] = Idle /\ Idle.agent # x
        /\ \A q \in Request \ {r} : call'[q] = call[q]
    BY <1>0, <1>6 DEF MarksVerified, Idle, DoorbellAssumption
  <2>4. bell[call[r].agent] \in Bell BY <1>0, <2>2, DoorbellAssumption DEF RowsAreThere, DoorbellAssumption
  <2>5. /\ x # call[r].agent => bell'[x] = bell[x]
        /\ bell'[x].url = bell[x].url
    BY <1>0, <1>6, <2>4 DEF MarksVerified, Bell
  <2>6. x = call[r].agent => <<x, bell[x].url>> \in proved BY <2>1, <2>2 DEF Proved
  <2>7. x = call[r].agent => \A q \in Request : call'[q].agent # x BY <2>1, <2>3 DEF Proved
  <2>8. CASE x = call[r].agent
    <3>1. pending[x] # None => pending[x].url = bell[x].url BY <2>1, <2>2, <2>8 DEF Proved
    <3> QED BY <2>1, <2>2, <2>5, <2>6, <2>7, <2>8, <3>1, <2>4 DEF Proved, DoorbellAssumption
  <2>9. CASE x # call[r].agent BY <2>1, <2>2, <2>3, <2>5, <2>9 DEF Proved
  <2> QED BY <2>8, <2>9
<1> QED BY <1>1, <1>2, <1>3, <1>4, <1>5, <1>6 DEF CallStep

LEMMA TicksProve ==
  ASSUME DoorbellAssumption, TypeOK, RowsAreThere, ProofInv, NEW k \in Cron, CronStep(k)
  PROVE  ProofInv'
<1> SUFFICES ASSUME NEW x \in Agent, x \notin met' PROVE Proved(x)'
  BY DEF ProofInv
<1>0. /\ bell \in [Agent -> Bell \cup {None}] /\ cron \in [Cron -> CronState]
      /\ cron[k] \in CronState
      /\ DOMAIN cron[k].bells \subseteq Agent
      /\ \A a \in DOMAIN cron[k].bells : cron[k].bells[a] \in Bell
  BY TaskTyped DEF TypeOK
<1>1. CASE ListsBells(k)
  <2>1. x \notin met /\ Proved(x) BY <1>1 DEF ListsBells, ProofInv
  <2> QED BY <1>0, <1>1, <2>1 DEF ListsBells, rooms, Proved, Asleep, ActiveBells, IsActive
<1>2. CASE Sleeps(k)
  <2>1. x \notin met /\ Proved(x) BY <1>2 DEF Sleeps, history, ProofInv
  <2> QED BY <1>0, <1>2, <2>1 DEF Sleeps, rooms, history, Proved, Asleep
<1>3. CASE RecordsDelivery(k)
  <2>1. x \notin met /\ Proved(x) BY <1>3 DEF RecordsDelivery, history, ProofInv
  <2>2. cron[k].agent \in DOMAIN cron[k].bells
    BY <1>3 DEF RecordsDelivery, RowsAreThere, Ringing
  <2>3. bell[cron[k].agent] \in Bell /\ bell[cron[k].agent] # None BY <1>0, <2>2 DEF RowsAreThere
  <2>4. /\ bell'[x].url = bell[x].url /\ bell'[x].verified = bell[x].verified
        /\ bell'[x] # None => bell[x] # None
    BY <1>0, <1>3, <2>2, <2>3 DEF RecordsDelivery, Bell
  <2>5. /\ \A j \in Cron \ {k} : cron'[j] = cron[j]
        /\ \A b \in DOMAIN cron'[k].bells :
             b \in DOMAIN cron[k].bells /\ cron'[k].bells[b].url = cron[k].bells[b].url
    BY <1>0, <1>3, <2>2 DEF RecordsDelivery, CronState, Bell
  <2>6. UNCHANGED <<pending, call, proved>> BY <1>3 DEF RecordsDelivery, rooms, history
  <2> QED BY <2>1, <2>4, <2>5, <2>6 DEF Proved
<1>4. CASE RecordsFailure(k)
  <2>1. x \notin met /\ Proved(x) BY <1>4 DEF RecordsFailure, history, ProofInv
  <2>2. cron[k].agent \in DOMAIN cron[k].bells
    BY <1>4 DEF RecordsFailure, RowsAreThere, Ringing
  <2>3. bell[cron[k].agent] \in Bell /\ bell[cron[k].agent] # None BY <1>0, <2>2 DEF RowsAreThere
  <2>4. /\ bell'[x].url = bell[x].url /\ bell'[x].verified = bell[x].verified
        /\ bell'[x] # None => bell[x] # None
    BY <1>0, <1>4, <2>2, <2>3 DEF RecordsFailure, Bell
  <2>5. /\ \A j \in Cron \ {k} : cron'[j] = cron[j]
        /\ \A b \in DOMAIN cron'[k].bells :
             b \in DOMAIN cron[k].bells /\ cron'[k].bells[b].url = cron[k].bells[b].url
    BY <1>0, <1>4, <2>2 DEF RecordsFailure, CronState, Bell
  <2>6. UNCHANGED <<pending, call, proved>> BY <1>4 DEF RecordsFailure, rooms, history
  <2> QED BY <2>1, <2>4, <2>5, <2>6 DEF Proved
<1>5. ASSUME NEW g \in Game, AsksRoom(k, g) PROVE Proved(x)'
  <2>1. x \notin met /\ Proved(x) BY <1>5 DEF AsksRoom, history, ProofInv
  <2> QED BY <1>0, <1>5, <2>1 DEF AsksRoom, rooms, history, Proved, CronState
<1>6. ASSUME NEW a \in Agent, Rings(k, a) PROVE Proved(x)'
  <2>1. x \notin met /\ Proved(x) BY <1>6 DEF Rings, ProofInv
  <2> QED BY <1>0, <1>6, <2>1 DEF Rings, rooms, Proved, CronState
<1> QED BY <1>1, <1>2, <1>3, <1>4, <1>5, <1>6 DEF CronStep

LEMMA OthersProve ==
  ASSUME DoorbellAssumption, TypeOK, RowsAreThere, ProofInv,
         (\E a \in Agent : ChallengeExpires(a) \/ Disables(a)) \/ (\E g \in Game : Plays(g))
  PROVE  ProofInv'
<1>0. bell \in [Agent -> Bell \cup {None}] /\ pending \in [Agent -> Proof \cup {None}]
  BY DEF TypeOK
<1>1. ASSUME NEW a \in Agent, ChallengeExpires(a) PROVE ProofInv'
  BY <1>0, <1>1 DEF ChallengeExpires, rooms, history, ProofInv, Proved, Proof
<1>2. ASSUME NEW a \in Agent, Disables(a) PROVE ProofInv'
  BY <1>0, <1>2 DEF Disables, rooms, history, ProofInv, Proved, Bell
<1>3. ASSUME NEW g \in Game, Plays(g) PROVE ProofInv'
  BY <1>3 DEF Plays, history, ProofInv, Proved
<1> QED BY <1>1, <1>2, <1>3

\* Every URL a tick holds for its agent was proved by it, unless the agent is in met.
THEOREM UrlsAreProved == ASSUME DoorbellAssumption PROVE DoorbellSpec => []RungUrlIsProved
<1> DEFINE Inv == TypeOK /\ RowsAreThere /\ ProofInv
<1>1. DoorbellInit => Inv BY InitTyped, InitProved
<1>2. Inv /\ [DoorbellNext]_doorbellVars => Inv'
  <2> SUFFICES ASSUME Inv, [DoorbellNext]_doorbellVars PROVE Inv'
    OBVIOUS
  <2>1. TypeOK' /\ RowsAreThere' BY Typed
  <2>2. UNCHANGED doorbellVars => ProofInv' BY DEF doorbellVars, ProofInv, Proved
  <2>3. ProofInv' BY <2>2, RequestsProve, TicksProve, OthersProve DEF DoorbellNext
  <2> QED BY <2>1, <2>3
<1>3. Inv => RungUrlIsProved
  <2> SUFFICES ASSUME TypeOK, ProofInv PROVE RungUrlIsProved
    OBVIOUS
  <2>1. \A k \in Cron : DOMAIN cron[k].bells \subseteq Agent BY TaskTyped
  <2> QED BY <2>1 DEF ProofInv, Proved, RungUrlIsProved
<1> HIDE DEF Inv
<1> QED BY <1>1, <1>2, <1>3, PTL DEF DoorbellSpec

-----------------------------------------------------------------------------
(* Counts, step by step.                                                   *)

LEMMA InitCounted == DoorbellAssumption /\ DoorbellInit => CountInv
BY DEF DoorbellInit, CountInv, Counted, Asleep

\* A step that keeps x's row, its copies and what is rung for it keeps the count.
LEMMA CountKept ==
  ASSUME NEW x, Counted(x), bell[x] # None \/ bell'[x] = None,
         bell'[x] # None => bell'[x].failures = bell[x].failures,
         bell'[x] # None /\ bell[x].disabled => bell'[x].disabled,
         bell'[x] # None /\ bell'[x].disabled => bell[x].disabled \/ x \in stopped',
         x \in stopped => x \in stopped', streak'[x] = streak[x],
         \A k \in Cron :
           /\ cron'[k].agent = x <=> cron[k].agent = x
           /\ x \in DOMAIN cron'[k].bells =>
                /\ x \in DOMAIN cron[k].bells
                /\ cron'[k].bells[x].failures = cron[k].bells[x].failures
                /\ x \in cron'[k].rang <=> x \in cron[k].rang
                /\ cron[k].agent = x => cron'[k].pc = cron[k].pc
  PROVE  Counted(x)'
<1>1. bell'[x] # None /\ (\A k \in Cron : cron'[k].agent # x) => InOrder(x)'
  BY DEF Counted, InOrder
<1>2. \A k \in Cron : x \in DOMAIN cron'[k].bells => CopyOf(k, x)'
  BY DEF Counted, CopyOf
<1> QED BY <1>1, <1>2 DEF Counted

LEMMA RequestsCount ==
  ASSUME DoorbellAssumption, TypeOK, RowsAreThere, CountInv, NEW r \in Request, CallStep(r)
  PROVE  CountInv'
<1> SUFFICES ASSUME NEW x \in Agent, x \notin met', x \notin twice' PROVE Counted(x)'
  BY DEF CountInv
<1>0. /\ bell \in [Agent -> Bell \cup {None}] /\ streak \in [Agent -> Nat]
      /\ \A k \in Cron : cron[k].agent # None => cron[k].agent \in DOMAIN cron[k].bells
  BY DEF TypeOK, RowsAreThere, Ringing
<1>1. ASSUME NEW a \in Agent, ReadsChallenge(r, a) PROVE Counted(x)'
  <2>1. x \notin met /\ x \notin twice /\ UNCHANGED <<bell, cron, streak, stopped>>
    BY <1>1 DEF ReadsChallenge
  <2>2. Counted(x) BY <2>1 DEF CountInv
  <2> QED BY <2>1, <2>2, CountKept
<1>2. ASSUME NEW a \in Agent, NEW u \in Url, Registers(r, a, u) PROVE Counted(x)'
  <2>1. x \notin met /\ x \notin twice /\ UNCHANGED cron BY <1>2 DEF Registers
  <2>2. Counted(x) BY <2>1 DEF CountInv
  <2>3. CASE x # a
    <3>1. bell'[x] = bell[x] /\ streak'[x] = streak[x] /\ (x \in stopped' <=> x \in stopped)
      BY <1>0, <1>2, <2>3 DEF Registers
    <3> QED BY <2>1, <2>2, <3>1, CountKept
  <2>4. CASE x = a
    <3>1. \A k \in Cron : x \notin DOMAIN cron[k].bells BY <1>2, <2>4 DEF Registers, Underway
    <3>2. bell'[x].failures = 0 /\ ~bell'[x].disabled /\ streak'[x] = 0
      BY <1>0, <1>2, <2>4 DEF Registers
    <3>3. InOrder(x)' BY <3>2, DoorbellAssumption DEF InOrder, DoorbellAssumption
    <3> QED BY <2>1, <3>1, <3>3 DEF Counted
  <2> QED BY <2>3, <2>4
<1>3. CASE PutChallenge(r) \/ EndpointAnswers(r) \/ SpendsChallenge(r)
  <2>1. x \notin met /\ x \notin twice /\ UNCHANGED <<bell, cron, streak, stopped>>
    BY <1>3 DEF PutChallenge, EndpointAnswers, SpendsChallenge, history
  <2>2. Counted(x) BY <2>1 DEF CountInv
  <2> QED BY <2>1, <2>2, CountKept
<1>4. CASE MarksVerified(r)
  <2> DEFINE a == call[r].agent
  <2>1. x \notin met /\ x \notin twice /\ UNCHANGED cron BY <1>4 DEF MarksVerified, rooms
  <2>2. Counted(x) BY <2>1 DEF CountInv
  <2>3. CASE x # a
    <3>1. bell'[x] = bell[x] /\ streak'[x] = streak[x] /\ (x \in stopped' <=> x \in stopped)
      BY <1>0, <1>4, <2>3 DEF MarksVerified
    <3> QED BY <2>1, <2>2, <3>1, CountKept
  <2>4. CASE x = a
    <3>1. \A k \in Cron : x \notin DOMAIN cron[k].bells BY <1>4, <2>4 DEF MarksVerified
    <3>2. bell[a] \in Bell
      <4>1. a # None BY <1>4, DoorbellAssumption DEF MarksVerified, RowsAreThere, DoorbellAssumption
      <4> QED BY <1>0, <2>4, <4>1 DEF RowsAreThere
    <3>3. bell'[x].failures = 0 /\ ~bell'[x].disabled /\ streak'[x] = 0
      BY <1>0, <1>4, <2>4, <3>2 DEF MarksVerified, Bell
    <3>4. InOrder(x)' BY <3>3, DoorbellAssumption DEF InOrder, DoorbellAssumption
    <3> QED BY <2>1, <3>1, <3>4 DEF Counted
  <2> QED BY <2>3, <2>4
<1> QED BY <1>1, <1>2, <1>3, <1>4 DEF CallStep

LEMMA OthersCount ==
  ASSUME DoorbellAssumption, TypeOK, RowsAreThere, CountInv,
         (\E a \in Agent : ChallengeExpires(a) \/ Disables(a)) \/ (\E g \in Game : Plays(g))
  PROVE  CountInv'
<1> SUFFICES ASSUME NEW x \in Agent, x \notin met', x \notin twice' PROVE Counted(x)'
  BY DEF CountInv
<1>1. UNCHANGED <<met, twice, streak, cron>> BY DEF ChallengeExpires, Disables, Plays, history
<1>2. Counted(x) BY <1>1 DEF CountInv
<1>3. /\ bell[x] # None \/ bell'[x] = None
      /\ bell'[x] # None => bell'[x].failures = bell[x].failures
      /\ bell'[x] # None /\ bell[x].disabled => bell'[x].disabled
      /\ bell'[x] # None /\ bell'[x].disabled => bell[x].disabled \/ x \in stopped'
      /\ x \in stopped => x \in stopped'
  <2>1. CASE UNCHANGED <<bell, stopped>> BY <2>1
  <2>2. ASSUME NEW a \in Agent, Disables(a) PROVE <1>3
    BY <2>2 DEF Disables, TypeOK, Bell
  <2> QED BY <2>1, <2>2 DEF ChallengeExpires, Plays, history
<1> QED BY <1>1, <1>2, <1>3, CountKept

LEMMA TicksCount ==
  ASSUME DoorbellAssumption, TypeOK, RowsAreThere, CountInv, NEW k \in Cron, CronStep(k)
  PROVE  CountInv'
<1> SUFFICES ASSUME NEW x \in Agent, x \notin met', x \notin twice' PROVE Counted(x)'
  BY DEF CountInv
<1> DEFINE c == cron[k]
           a0 == c.agent
<1>a. /\ bell \in [Agent -> Bell \cup {None}] /\ streak \in [Agent -> Nat]
      /\ cron \in [Cron -> CronState] /\ c \in CronState
      /\ DOMAIN c.bells \subseteq Agent
      /\ \A a \in DOMAIN c.bells : c.bells[a] \in Bell /\ bell[a] \in Bell /\ bell[a] # None
  BY TaskTyped DEF TypeOK, RowsAreThere
<1>b. \A j \in Cron : Ringing(cron[j])
  BY DEF RowsAreThere
<1>c. MaxFailures \in Nat \ {0} /\ None \notin Agent
  BY DEF DoorbellAssumption
<1>d. \A j \in Cron \ {k} : cron'[j] = cron[j]
  BY <1>a DEF CronStep, ListsBells, Sleeps, RecordsDelivery, RecordsFailure, AsksRoom, Rings
<1>1. CASE ListsBells(k)
  <2>1. /\ x \notin met /\ x \notin twice /\ UNCHANGED <<bell, streak, stopped>> /\ c.pc = "idle"
        /\ x \in ActiveBells => \A j \in Cron \ {k} : x \notin DOMAIN cron[j].bells
    BY <1>1 DEF ListsBells, rooms
  <2>2. Counted(x) BY <2>1 DEF CountInv
  <2>3. /\ cron'[k].agent = None /\ c.agent = None /\ cron'[k].rang = {}
        /\ cron'[k].bells = [a \in ActiveBells |-> bell[a]]
    BY <1>1, <1>a, <1>b, <2>1 DEF ListsBells, Asleep, Ringing
  <2>4. CASE x \in ActiveBells
    <3>1. \A j \in Cron \ {k} : cron[j].agent # x BY <1>b, <1>c, <2>1, <2>4 DEF Ringing
    <3>2. InOrder(x) /\ bell[x] # None /\ ~bell[x].disabled
      BY <1>c, <2>2, <2>3, <2>4, <3>1 DEF Counted, ActiveBells, IsActive
    <3>3. InOrder(x)' BY <2>1, <3>2 DEF InOrder
    <3>4. bell[x].failures = streak[x] /\ streak[x] < MaxFailures
      BY <1>a, <1>c, <3>2 DEF InOrder
    <3>5. CopyOf(k, x)' BY <1>c, <2>1, <2>3, <2>4, <3>2, <3>4 DEF CopyOf
    <3> QED BY <1>d, <2>1, <2>4, <3>3, <3>5 DEF Counted
  <2>5. CASE x \notin ActiveBells
    <3>1. x \notin DOMAIN cron'[k].bells BY <2>3, <2>5
    <3> QED BY <1>c, <1>d, <2>1, <2>2, <2>3, <3>1, CountKept
  <2> QED BY <2>4, <2>5
<1>2. CASE Sleeps(k)
  <2>1. x \notin met /\ x \notin twice /\ UNCHANGED <<bell, streak, stopped>> /\ c.pc = "game"
    BY <1>2 DEF Sleeps, rooms, history
  <2>2. Counted(x) BY <2>1 DEF CountInv
  <2>3. cron'[k].agent = None /\ c.agent = None /\ DOMAIN cron'[k].bells = {}
    BY <1>2, <1>a, <1>b, <2>1 DEF Sleeps, Asleep, Ringing
  <2> QED BY <1>c, <1>d, <2>1, <2>2, <2>3, CountKept
<1>3. CASE RecordsDelivery(k)
  <2>1. x \notin met /\ x \notin twice /\ UNCHANGED <<streak, stopped>> /\ c.pc = "rang"
    BY <1>3 DEF RecordsDelivery, rooms, history
  <2>2. Counted(x) BY <2>1 DEF CountInv
  <2>3. a0 \in DOMAIN c.bells /\ a0 \in c.rang BY <1>b, <2>1 DEF Ringing
  <2>4. /\ bell'[a0].failures = 0 /\ bell'[a0].disabled = bell[a0].disabled
        /\ \A b \in Agent \ {a0} : bell'[b] = bell[b]
    BY <1>3, <1>a, <2>3 DEF RecordsDelivery, Bell
  <2>5. /\ cron'[k].agent = None /\ cron'[k].rang = c.rang /\ DOMAIN cron'[k].bells = DOMAIN c.bells
        /\ \A b \in DOMAIN c.bells : cron'[k].bells[b].failures = c.bells[b].failures
    BY <1>3, <1>a, <2>3 DEF RecordsDelivery, CronState, Bell
  <2>6. CASE x # a0
    <3>1. \A j \in Cron : cron'[j].agent = x <=> cron[j].agent = x
      BY <1>c, <1>d, <2>5, <2>6
    <3> QED BY <1>d, <2>1, <2>2, <2>4, <2>5, <2>6, <3>1, CountKept
  <2>7. CASE x = a0
    <3>1. streak[x] = 0 /\ (bell'[x].disabled => x \in stopped')
      BY <1>a, <1>c, <2>1, <2>2, <2>3, <2>4, <2>7 DEF Counted, CopyOf
    <3>2. InOrder(x)' BY <1>c, <2>1, <2>4, <2>7, <3>1 DEF InOrder
    <3>3. CopyOf(k, x)' BY <1>c, <2>3, <2>5, <2>7, <3>1 DEF CopyOf
    <3> QED BY <1>d, <2>2, <2>3, <2>5, <2>7, <3>2, <3>3 DEF Counted
  <2> QED BY <2>6, <2>7
<1>4. CASE RecordsFailure(k)
  <2> DEFINE n == c.bells[a0].failures + 1
  <2>1. x \notin met /\ x \notin twice /\ UNCHANGED <<streak, stopped>> /\ c.pc = "failed"
    BY <1>4 DEF RecordsFailure, rooms, history
  <2>2. Counted(x) BY <2>1 DEF CountInv
  <2>3. a0 \in DOMAIN c.bells /\ a0 \in c.rang /\ n \in Nat
    BY <1>a, <1>b, <2>1 DEF Ringing, Bell
  <2>4. /\ bell'[a0].failures = n /\ (bell'[a0].disabled <=> bell[a0].disabled \/ n >= MaxFailures)
        /\ \A b \in Agent \ {a0} : bell'[b] = bell[b]
    BY <1>4, <1>a, <2>3 DEF RecordsFailure, Bell
  <2>5. /\ cron'[k].agent = None /\ cron'[k].rang = c.rang /\ DOMAIN cron'[k].bells \subseteq DOMAIN c.bells
        /\ \A b \in DOMAIN cron'[k].bells \ {a0} : cron'[k].bells[b].failures = c.bells[b].failures
        /\ a0 \in DOMAIN cron'[k].bells => ~(n >= MaxFailures)
    BY <1>4, <1>a, <2>3 DEF RecordsFailure, CronState, Bell
  <2>6. CASE x # a0
    <3>1. \A j \in Cron : cron'[j].agent = x <=> cron[j].agent = x
      BY <1>c, <1>d, <2>5, <2>6
    <3> QED BY <1>d, <2>1, <2>2, <2>4, <2>5, <2>6, <3>1, CountKept
  <2>7. CASE x = a0
    <3>1. streak[x] = n /\ n <= MaxFailures /\ (bell[x].disabled => x \in stopped)
      BY <1>a, <1>c, <2>1, <2>2, <2>3, <2>7 DEF Counted, CopyOf, Bell
    <3>2. bell'[x].disabled => n = MaxFailures \/ x \in stopped'
      BY <1>c, <2>1, <2>3, <2>4, <2>7, <3>1
    <3>3. InOrder(x)' BY <1>c, <2>1, <2>3, <2>4, <2>7, <3>1, <3>2 DEF InOrder
    <3>4. x \in DOMAIN cron'[k].bells => CopyOf(k, x)'
      <4>1. x \in DOMAIN cron'[k].bells /\ bell'[x].disabled => x \in stopped'
        BY <2>1, <2>4, <2>5, <2>7, <3>1
      <4> QED BY <1>c, <2>3, <2>5, <2>7, <4>1 DEF CopyOf
    <3> QED BY <1>d, <2>2, <2>3, <2>5, <2>7, <3>3, <3>4 DEF Counted
  <2> QED BY <2>6, <2>7
<1>5. ASSUME NEW g \in Game, AsksRoom(k, g) PROVE Counted(x)'
  <2>1. x \notin met /\ x \notin twice /\ UNCHANGED <<bell, streak, stopped>> /\ c.pc = "game"
    BY <1>5 DEF AsksRoom, rooms, history
  <2>2. Counted(x) BY <2>1 DEF CountInv
  <2>3. cron'[k].agent = c.agent /\ c.agent = None /\ cron'[k].bells = c.bells /\ cron'[k].rang = c.rang
    BY <1>5, <1>a, <1>b, <2>1 DEF AsksRoom, CronState, Ringing
  <2> QED BY <1>c, <1>d, <2>1, <2>2, <2>3, CountKept
<1>6. ASSUME NEW a \in Agent, Rings(k, a) PROVE Counted(x)'
  <2>1. /\ x \notin met /\ x \notin twice /\ UNCHANGED <<bell, stopped>> /\ c.pc = "ring"
        /\ x = a => a \notin c.rang
    BY <1>6 DEF Rings, rooms
  <2>2. Counted(x) BY <2>1 DEF CountInv
  <2>3. c.agent = None /\ a \in DOMAIN c.bells BY <1>6, <1>b, <2>1 DEF Rings, Ringing
  <2>4. cron'[k].agent = a /\ cron'[k].bells = c.bells /\ cron'[k].rang = c.rang \cup {a}
    BY <1>6, <1>a DEF Rings, CronState
  <2>5. \/ cron'[k].pc = "rang" /\ streak' = [streak EXCEPT ![a] = 0]
        \/ cron'[k].pc = "failed" /\ streak' = [streak EXCEPT ![a] = @ + 1]
    BY <1>6, <1>a DEF Rings, CronState
  <2>6. CASE x # a
    <3>1. streak'[x] = streak[x] BY <1>a, <2>5, <2>6
    <3> QED BY <1>c, <1>d, <2>1, <2>2, <2>3, <2>4, <2>6, <3>1, CountKept
  <2>7. CASE x = a
    <3>1. /\ c.bells[x].failures = streak[x] /\ c.bells[x].failures < MaxFailures
          /\ bell'[x] # None /\ bell'[x].disabled => x \in stopped'
      BY <1>c, <2>1, <2>2, <2>3, <2>7 DEF Counted, CopyOf
    <3>2. \/ cron'[k].pc = "rang" /\ streak'[x] = 0
          \/ cron'[k].pc = "failed" /\ streak'[x] = streak[x] + 1
      BY <1>a, <2>5, <2>7
    <3>3. CopyOf(k, x)' BY <2>4, <2>7, <3>1, <3>2 DEF CopyOf
    <3> QED BY <1>d, <2>2, <2>3, <2>4, <2>7, <3>3 DEF Counted
  <2> QED BY <2>6, <2>7
<1> QED BY <1>1, <1>2, <1>3, <1>4, <1>5, <1>6 DEF CronStep

\* The failures of a row are those since the last delivery; a doorbell is out of
\* order after MaxFailures of them, and never before unless its agent asked for it:
\* for every agent whose requests do not meet a tick and that no tick rings twice.
THEOREM FailuresAreCounted == ASSUME DoorbellAssumption PROVE DoorbellSpec => []FailuresInARow
<1> DEFINE Inv == TypeOK /\ RowsAreThere /\ CountInv
<1>1. DoorbellInit => Inv BY InitTyped, InitCounted
<1>2. Inv /\ [DoorbellNext]_doorbellVars => Inv'
  <2> SUFFICES ASSUME Inv, [DoorbellNext]_doorbellVars PROVE Inv'
    OBVIOUS
  <2>1. TypeOK' /\ RowsAreThere' BY Typed
  <2>2. UNCHANGED doorbellVars => CountInv' BY DEF doorbellVars, CountInv, Counted, InOrder, CopyOf
  <2>3. CountInv' BY <2>2, RequestsCount, TicksCount, OthersCount DEF DoorbellNext
  <2> QED BY <2>1, <2>3
<1>3. Inv => FailuresInARow BY DEF CountInv, Counted, InOrder, FailuresInARow
<1> HIDE DEF Inv
<1> QED BY <1>1, <1>2, <1>3, PTL DEF DoorbellSpec

=============================================================================
