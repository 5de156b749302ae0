------------------------------ MODULE Identity -----------------------------
(***************************************************************************)
(* Who an agent is: signing challenges (src/identity/auth.ts), registration *)
(* (register.ts) and homologation (homologation.ts), with the handlers     *)
(* that call them.                                                         *)
(*                                                                         *)
(* Every request is a row of statements on the database, each an await:    *)
(* requests run side by side, the copies of one signed request among them. *)
(* A challenge ages by ticks; Ttl ticks are its five minutes and Grace the *)
(* minute the cron leaves it beyond them.  A signature verifies when it    *)
(* was made with the key it is verified against; what else it covers       *)
(* (method, path, body) is one and the same in all copies of a request.    *)
(***************************************************************************)
EXTENDS Absent, Integers, Sequences, FiniteSets

CONSTANTS
  Handle, PubKey, Operator,
  Challenge,         \* the random challenges the server draws
  Enrolled,          \* the rows of agents registered before: [handle, key, operator]
  Message,           \* what clients send: [what : "register", "homologate"; handle, signer,
                     \*   key, operator, form: a hash and its division], see Sends
  Slot,              \* requests under way
  Ttl, Grace,
  MaxFaults          \* bound: statements that fail

ASSUME IdentityAssumption ==
  /\ Ttl \in Nat /\ Grace \in Nat \ {0} /\ MaxFaults \in Nat
  /\ Enrolled \subseteq [handle : Handle, key : PubKey, operator : Operator]
  /\ \A a, b \in Enrolled : a.handle = b.handle \/ a.key = b.key => a = b
  /\ \A m \in Message : m.what \in {"register", "homologate"}
  /\ None \notin Handle \cup PubKey \cup Challenge

VARIABLES
  challenge,   \* auth_challenges: [Challenge -> [handle, age] or None]
  drawn,       \* challenges drawn so far
  agent,       \* the rows of agents: [handle, key, operator]
  operator,    \* the rows of operators
  hom,         \* the homologations, in the order of their inserts
  request,     \* the requests under way
  accepted,    \* history: how many requests a challenge let in
  signed,      \* history: <<handle, key>> of the requests that were let in
  crossed,     \* history: agents two of whose filings ran at once
  faults

vars == <<challenge, drawn, agent, operator, hom, request, accepted, signed, crossed, faults>>

NoRequest == [pc |-> "idle", what |-> None, handle |-> None, challenge |-> None,
              signer |-> None, key |-> None, operator |-> None, form |-> None, active |-> None]

Registered(h) == {a \in agent : a.handle = h}
KeyOf(h) == (CHOOSE a \in agent : a.handle = h).key

Init ==
  /\ challenge = [c \in Challenge |-> None]
  /\ drawn = {} /\ hom = <<>>
  /\ agent = Enrolled /\ operator = {a.operator : a \in Enrolled}
  /\ request = [s \in Slot |-> NoRequest]
  /\ accepted = [c \in Challenge |-> 0] /\ signed = {<<a.handle, a.key>> : a \in Enrolled} /\ crossed = {} /\ faults = 0

-----------------------------------------------------------------------------
(* Challenges.                                                             *)

\* GET /api/auth/challenge, for any handle.
IssueChallenge(h, c) ==
  /\ c \notin drawn
  /\ drawn' = drawn \cup {c}
  /\ challenge' = [challenge EXCEPT ![c] = [handle |-> h, age |-> 0]]
  /\ UNCHANGED <<agent, operator, hom, request, accepted, signed, crossed, faults>>

\* Time passes; beyond the sweep's bound a challenge is as old as it gets.
Oldest == Ttl + Grace + 1
Tick ==
  /\ \E c \in Challenge : challenge[c] # None /\ challenge[c].age < Oldest
  /\ challenge' = [c \in Challenge |->
       IF challenge[c] # None /\ challenge[c].age < Oldest
       THEN [challenge[c] EXCEPT !.age = @ + 1] ELSE challenge[c]]
  /\ UNCHANGED <<drawn, agent, operator, hom, request, accepted, signed, crossed, faults>>

Expired(c) == challenge[c].age > Ttl
Sweepable(c) == challenge[c] # None /\ challenge[c].age > Ttl + Grace

\* Mutant: the sweep asks for a challenge older than any gets.
SweepExpiredNever ==
  /\ \E c \in Challenge : challenge[c] # None /\ challenge[c].age > Oldest
  /\ challenge' = [c \in Challenge |->
       IF challenge[c] # None /\ challenge[c].age > Oldest THEN None ELSE challenge[c]]
  /\ UNCHANGED <<drawn, agent, operator, hom, request, accepted, signed, crossed, faults>>

\* The cron's sweepExpiredChallenges.
SweepExpired ==
  /\ \E c \in Challenge : Sweepable(c)
  /\ challenge' = [c \in Challenge |-> IF Sweepable(c) THEN None ELSE challenge[c]]
  /\ UNCHANGED <<drawn, agent, operator, hom, request, accepted, signed, crossed, faults>>

-----------------------------------------------------------------------------
(* authenticate.                                                           *)

\* The slots are alike, so a request takes any free one.
FreeSlot == CHOOSE s \in Slot : request[s].pc = "idle"

\* A client sends a registration of a key or a filing for the season, signed
\* with some key, on a challenge that was given out.
Sends(s, c) ==
  /\ request[s].pc = "idle" /\ s = FreeSlot /\ c \in drawn
  /\ \E m \in Message :
       request' = [request EXCEPT ![s] =
         [pc |-> "look", what |-> m.what, handle |-> m.handle, challenge |-> c, signer |-> m.signer,
          key |-> m.key, operator |-> m.operator, form |-> m.form, active |-> None]]
  /\ UNCHANGED <<challenge, drawn, agent, operator, hom, accepted, signed, crossed, faults>>

\* The same request arrives once more.
Copied(s, t) ==
  /\ request[s].pc = "idle" /\ s = FreeSlot /\ request[t].pc = "look"
  /\ request' = [request EXCEPT ![s] = request[t]]
  /\ UNCHANGED <<challenge, drawn, agent, operator, hom, accepted, signed, crossed, faults>>

Known(r) == r.what = "register" \/ Registered(r.handle) # {}
VerifyKey(r) == IF r.what = "register" THEN r.key ELSE KeyOf(r.handle)
Stored(r) == challenge[r.challenge] # None /\ challenge[r.challenge].handle = r.handle

Refused(s) == request' = [request EXCEPT ![s] = NoRequest]

\* The agent's row, the challenge, its time, the signature.
LookUp(s) ==
  LET r == request[s]
  IN /\ r.pc = "look"
     /\ IF Known(r) /\ Stored(r)
        THEN IF Expired(r.challenge)
             THEN Refused(s) /\ challenge' = [challenge EXCEPT ![r.challenge] = None]
             ELSE /\ UNCHANGED challenge
                  /\ IF r.signer = VerifyKey(r)
                     THEN request' = [request EXCEPT ![s].pc = "burn"] ELSE Refused(s)
        ELSE Refused(s) /\ UNCHANGED challenge
     /\ UNCHANGED <<drawn, agent, operator, hom, accepted, signed, crossed, faults>>

LetIn(s) ==
  LET r == request[s]
  IN /\ request' = [request EXCEPT ![s].pc = IF r.what = "register" THEN "duplicate" ELSE "active"]
     /\ accepted' = [accepted EXCEPT ![r.challenge] = @ + 1]
     /\ signed' = signed \cup {<<r.handle, r.signer>>}

\* Mutant: the row is deleted without asking whether there was one.
BurnBlindly(s) ==
  LET r == request[s]
  IN /\ r.pc = "burn"
     /\ LetIn(s) /\ challenge' = [challenge EXCEPT ![r.challenge] = None]
     /\ UNCHANGED <<drawn, agent, operator, hom, crossed, faults>>

\* DELETE ... RETURNING: who gets the row is let in.
Burn(s) ==
  LET r == request[s]
  IN /\ r.pc = "burn"
     /\ IF Stored(r)
        THEN LetIn(s) /\ challenge' = [challenge EXCEPT ![r.challenge] = None]
        ELSE Refused(s) /\ UNCHANGED <<challenge, accepted, signed>>
     /\ UNCHANGED <<drawn, agent, operator, hom, crossed, faults>>

-----------------------------------------------------------------------------
(* registerAgent.                                                          *)

Taken(r) == Registered(r.handle) # {} \/ \E a \in agent : a.key = r.key

Duplicate(s) ==
  /\ request[s].pc = "duplicate"
  /\ IF Taken(request[s]) THEN Refused(s) ELSE request' = [request EXCEPT ![s].pc = "operator"]
  /\ UNCHANGED <<challenge, drawn, agent, operator, hom, accepted, signed, crossed, faults>>
InsertOperator(s) ==
  /\ request[s].pc = "operator"
  /\ operator' = operator \cup {request[s].operator}
  /\ request' = [request EXCEPT ![s].pc = "insert"]
  /\ UNCHANGED <<challenge, drawn, agent, hom, accepted, signed, crossed, faults>>

\* Mutant: a row with the handle is replaced.
InsertOrReplaceAgent(s) ==
  LET r == request[s]
  IN /\ r.pc = "insert"
     /\ agent' = (agent \ Registered(r.handle))
                  \cup {[handle |-> r.handle, key |-> r.key, operator |-> r.operator]}
     /\ Refused(s)
     /\ UNCHANGED <<challenge, drawn, operator, hom, accepted, signed, crossed, faults>>

\* The unique indexes on handle and key decide between two who looked at once.
InsertAgent(s) ==
  LET r == request[s]
  IN /\ r.pc = "insert"
     /\ agent' = IF Taken(r) THEN agent
                 ELSE agent \cup {[handle |-> r.handle, key |-> r.key, operator |-> r.operator]}
     /\ Refused(s)
     /\ UNCHANGED <<challenge, drawn, operator, hom, accepted, signed, crossed, faults>>

-----------------------------------------------------------------------------
(* homologate, for one season.                                             *)

Active(h) == {i \in DOMAIN hom : hom[i].handle = h /\ ~hom[i].voided}

\* Who else is between the look and the insert for this agent.
Filing(s, h) ==
  \E t \in Slot \ {s} : request[t].handle = h /\ request[t].pc \in {"void", "file"}

\* Filing what is active already changes nothing.
FindActive(s) ==
  LET r == request[s]
  IN /\ r.pc = "active"
     /\ crossed' = IF Filing(s, r.handle) THEN crossed \cup {r.handle} ELSE crossed
     /\ \/ /\ Active(r.handle) = {}
           /\ request' = [request EXCEPT ![s].pc = "file"]
        \/ \E i \in Active(r.handle) :   \* one row of several, if there are: no ORDER BY
             IF hom[i].form = r.form THEN Refused(s)
             ELSE request' = [request EXCEPT ![s].pc = "void", ![s].active = i]
     /\ UNCHANGED <<challenge, drawn, agent, operator, hom, accepted, signed, faults>>

\* Mutant: the old row stays active.
VoidNothing(s) ==
  /\ request[s].pc = "void"
  /\ request' = [request EXCEPT ![s].pc = "file"]
  /\ UNCHANGED <<challenge, drawn, agent, operator, hom, accepted, signed, crossed, faults>>

VoidActive(s) ==
  /\ request[s].pc = "void"
  /\ hom' = [hom EXCEPT ![request[s].active].voided = TRUE]
  /\ request' = [request EXCEPT ![s].pc = "file"]
  /\ UNCHANGED <<challenge, drawn, agent, operator, accepted, signed, crossed, faults>>

FileForm(s) ==
  LET r == request[s]
  IN /\ r.pc = "file"
     /\ hom' = Append(hom, [handle |-> r.handle, form |-> r.form, voided |-> FALSE])
     /\ Refused(s)
     /\ UNCHANGED <<challenge, drawn, agent, operator, accepted, signed, crossed, faults>>

\* A statement throws: 500, and what was done so far stays done.
Fails(s) ==
  /\ faults < MaxFaults /\ request[s].pc # "idle"
  /\ faults' = faults + 1
  /\ Refused(s)
  /\ UNCHANGED <<challenge, drawn, agent, operator, hom, accepted, signed, crossed>>

-----------------------------------------------------------------------------
RequestStep(s) ==
  \/ LookUp(s) \/ Burn(s)
  \/ Duplicate(s) \/ InsertOperator(s) \/ InsertAgent(s)
  \/ FindActive(s) \/ VoidActive(s) \/ FileForm(s)

Next ==
  \/ \E h \in Handle, c \in Challenge : IssueChallenge(h, c)
  \/ Tick \/ SweepExpired
  \/ \E s \in Slot : (\E c \in Challenge : Sends(s, c)) \/ RequestStep(s) \/ Fails(s)
  \/ \E s, t \in Slot : Copied(s, t)

Spec == Init /\ [][Next]_vars
\* Time passes and the cron runs every five minutes.
FairSpec == Spec /\ WF_vars(Tick) /\ WF_vars(SweepExpired)

-----------------------------------------------------------------------------
\* A challenge lets one request in at most, however many copies of it, expiries
\* and sweeps meet ("single use", auth.ts:171-176).
ChallengeSpentOnce ==
  \A c \in Challenge : accepted[c] <= 1

\* A handle has one key and a key one handle, and both were proved: the agent
\* was let in with that key on a challenge for that handle.
AgentsProveTheirKey ==
  /\ \A a \in agent : <<a.handle, a.key>> \in signed
  /\ \A a, b \in agent : a.handle = b.handle \/ a.key = b.key => a = b

\* Once nothing is under way, an agent that has filed has one active form for
\* the season (homologation.ts:13-15); not so one two of whose filings ran side
\* by side, and not after a statement failed between the void and the insert.
OneActiveForm ==
  (\A s \in Slot : request[s].pc = "idle") /\ faults = 0 =>
     \A h \in Handle \ crossed :
       (\E i \in DOMAIN hom : hom[i].handle = h) => Cardinality(Active(h)) = 1

\* A challenge nobody uses does not stay for ever.
Goes(c) == challenge[c] # None ~> challenge[c] = None

=============================================================================
