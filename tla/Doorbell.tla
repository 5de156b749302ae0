------------------------------ MODULE Doorbell -----------------------------
(***************************************************************************)
(* Doorbells (src/identity/doorbell.ts): an agent registers a URL, proves  *)
(* that it controls it, and the cron's ringDoorbells (src/api/cron.ts)     *)
(* posts to it when a game waits for the agent.                            *)
(*                                                                         *)
(* Each step is one statement on the database or the KV store or one fetch *)
(* of the agent's endpoint.  Requests run side by side with each other and *)
(* with the ticks of the cron, two of which overlap when one is slow.      *)
(***************************************************************************)
EXTENDS Absent, Integers, FiniteSets

CONSTANTS
  Agent, Url, Game,
  Controls,        \* whose key signs at an endpoint: a set of <<agent, url>>
  Seats,           \* [Game -> SUBSET Agent]
  Request,         \* requests under way
  Cron,            \* ticks under way
  MaxFailures,     \* failed deliveries in a row that disable a doorbell
  MaxTurns,        \* bound: turns of a game
  MaxRegistrations \* bound: registrations of an agent

\* A row of doorbells, and a challenge of the KV store.
Bell == [url : Url, verified : BOOLEAN, cursor : (Game \X Nat) \cup {None},
         failures : Nat, disabled : BOOLEAN]
Proof == [url : Url, expired : BOOLEAN]

DoorbellAssumption ==
  /\ MaxFailures \in Nat \ {0}
  /\ Seats \in [Game -> SUBSET Agent]
  /\ None \notin Agent /\ None \notin Bell /\ None \notin Proof

VARIABLES
  bell,       \* the rows of doorbells: [Agent -> Bell or None]
  pending,    \* the challenges in the KV store: [Agent -> [url, expired] or None]
  turn, waiting,   \* what the rooms answer to /state
  call, cron,
  registrations,
  proved,     \* history: <<agent, url>> an endpoint answered for
  streak,     \* history: deliveries to an agent's registration that failed in a row
  met,        \* history: agents whose registration met a request or a ring under way
  twice,      \* history: agents that were rung in one tick for several games, or by two ticks
  stopped     \* history: agents whose registration was last disabled by themselves

doorbellVars ==
  <<bell, pending, turn, waiting, call, cron, registrations, proved, streak, met, twice, stopped>>
history == <<proved, streak, met, twice, stopped>>
rooms == <<turn, waiting, registrations>>

Idle == [pc |-> "idle", agent |-> None, url |-> None]
Asleep == [pc |-> "idle", bells |-> [a \in {} |-> None], games |-> {}, event |-> None,
           left |-> {}, agent |-> None, rang |-> {}]

DoorbellInit ==
  /\ bell = [a \in Agent |-> None] /\ pending = [a \in Agent |-> None]
  /\ turn = [g \in Game |-> 0] /\ waiting \in [Game -> SUBSET Agent]
  /\ \A g \in Game : waiting[g] \subseteq Seats[g] /\ waiting[g] # {}
  /\ call = [r \in Request |-> Idle] /\ cron = [k \in Cron |-> Asleep]
  /\ registrations = [a \in Agent |-> 0]
  /\ proved = {} /\ met = {} /\ twice = {} /\ stopped = {}
  /\ streak = [a \in Agent |-> 0]

-----------------------------------------------------------------------------
(* The agent's requests.                                                   *)

\* Someone holds what a registration of this agent is about to replace.
Underway(a, r) ==
  \/ \E q \in Request \ {r} : call[q].agent = a
  \/ \E k \in Cron : a \in DOMAIN cron[k].bells

\* POST /api/doorbell: the row starts anew, then the challenge is stored.
Registers(r, a, u) ==
  /\ call[r] = Idle /\ registrations[a] < MaxRegistrations
  /\ registrations' = [registrations EXCEPT ![a] = @ + 1]
  /\ bell' = [bell EXCEPT ![a] =
       [url |-> u, verified |-> FALSE, cursor |-> None, failures |-> 0, disabled |-> FALSE]]
  /\ call' = [call EXCEPT ![r] = [pc |-> "put", agent |-> a, url |-> u]]
  /\ met' = IF Underway(a, r) THEN met \cup {a} ELSE met
  /\ streak' = [streak EXCEPT ![a] = 0] /\ stopped' = stopped \ {a}
  /\ UNCHANGED <<pending, turn, waiting, cron, proved, twice>>

PutChallenge(r) ==
  LET a == call[r].agent
  IN /\ call[r].pc = "put"
     /\ pending' = [pending EXCEPT ![a] = [url |-> call[r].url, expired |-> FALSE]]
     /\ call' = [call EXCEPT ![r] = Idle]
     /\ UNCHANGED <<bell, rooms, cron, history>>

\* Fifteen minutes pass.
ChallengeExpires(a) ==
  /\ pending[a] # None /\ ~pending[a].expired
  /\ pending' = [pending EXCEPT ![a].expired = TRUE]
  /\ UNCHANGED <<bell, rooms, call, cron, history>>

\* POST /api/doorbell/verify: an expired challenge is dropped, a live one is
\* sent to the URL it was made for.
ReadsChallenge(r, a) ==
  /\ call[r] = Idle /\ pending[a] # None
  /\ IF pending[a].expired
     THEN pending' = [pending EXCEPT ![a] = None] /\ UNCHANGED call
     ELSE /\ UNCHANGED pending
          /\ call' = [call EXCEPT ![r] = [pc |-> "fetch", agent |-> a, url |-> pending[a].url]]
  /\ met' = IF \E q \in Request : call[q].agent = a THEN met \cup {a} ELSE met
  /\ UNCHANGED <<bell, rooms, cron, proved, streak, twice, stopped>>

\* Mutant: whatever the endpoint answers will do.
AnyAnswer(r) ==
  /\ call[r].pc = "fetch"
  /\ call' = [call EXCEPT ![r].pc = "spend"]
  /\ UNCHANGED <<bell, pending, rooms, cron, history>>

\* The endpoint cannot be reached or does not sign, or its signature verifies.
EndpointAnswers(r) ==
  /\ call[r].pc = "fetch"
  /\ \/ call' = [call EXCEPT ![r] = Idle] /\ UNCHANGED proved
     \/ /\ <<call[r].agent, call[r].url>> \in Controls
        /\ proved' = proved \cup {<<call[r].agent, call[r].url>>}
        /\ call' = [call EXCEPT ![r].pc = "spend"]
  /\ UNCHANGED <<bell, pending, rooms, cron, streak, met, twice, stopped>>

SpendsChallenge(r) ==
  /\ call[r].pc = "spend"
  /\ pending' = [pending EXCEPT ![call[r].agent] = None]
  /\ call' = [call EXCEPT ![r].pc = "mark"]
  /\ UNCHANGED <<bell, rooms, cron, history>>

MarksVerified(r) ==
  LET a == call[r].agent
  IN /\ call[r].pc = "mark"
     /\ bell' = [bell EXCEPT ![a].verified = TRUE, ![a].failures = 0, ![a].disabled = FALSE]
     /\ met' = IF \E k \in Cron : a \in DOMAIN cron[k].bells THEN met \cup {a} ELSE met
     /\ streak' = [streak EXCEPT ![a] = 0] /\ stopped' = stopped \ {a}
     /\ call' = [call EXCEPT ![r] = Idle]
     /\ UNCHANGED <<pending, rooms, cron, proved, twice>>

\* POST /api/doorbell/disable.
Disables(a) ==
  /\ bell[a] # None
  /\ bell' = [bell EXCEPT ![a].disabled = TRUE]
  /\ stopped' = stopped \cup {a}
  /\ UNCHANGED <<pending, rooms, call, cron, proved, streak, met, twice>>

-----------------------------------------------------------------------------
\* A game goes on to its next turn.
Plays(g) ==
  /\ turn[g] < MaxTurns
  /\ turn' = [turn EXCEPT ![g] = @ + 1]
  /\ \E w \in SUBSET Seats[g] \ {{}} : waiting' = [waiting EXCEPT ![g] = w]
  /\ UNCHANGED <<bell, pending, call, cron, registrations, history>>

-----------------------------------------------------------------------------
(* A tick's ringDoorbells.                                                 *)

IsActive(a) == bell[a] # None /\ bell[a].verified /\ ~bell[a].disabled
ActiveBells == {a \in Agent : IsActive(a)}

\* The rows of verified doorbells, and then the live games.
ListsBells(k) ==
  /\ cron[k].pc = "idle" /\ ActiveBells # {}
  /\ cron' = [cron EXCEPT ![k] = [Asleep EXCEPT !.pc = "game", !.games = Game,
                                  !.bells = [a \in ActiveBells |-> bell[a]]]]
  /\ met' = met \cup {a \in ActiveBells : \E r \in Request : call[r].agent = a}
  /\ twice' = twice \cup {a \in ActiveBells : \E j \in Cron \ {k} : a \in DOMAIN cron[j].bells}
  /\ UNCHANGED <<bell, pending, rooms, call, proved, streak, stopped>>

\* The room of the next game is asked whom it waits for; it may not answer.
\* Who has been rung for this turn is not rung again.
Due(k, g) == {a \in waiting[g] \cap DOMAIN cron[k].bells : cron[k].bells[a].cursor # <<g, turn[g]>>}
AsksRoom(k, g) ==
  /\ cron[k].pc = "game" /\ g \in cron[k].games
  /\ \E answers \in BOOLEAN :
       cron' = [cron EXCEPT ![k].games = @ \ {g}, ![k].event = <<g, turn[g]>>,
                            ![k].left = IF answers THEN Due(k, g) ELSE {},
                            ![k].pc = IF answers /\ Due(k, g) # {} THEN "ring" ELSE "game"]
  /\ UNCHANGED <<bell, pending, rooms, call, history>>

\* The tick is over.
Sleeps(k) ==
  /\ cron[k].pc = "game" /\ cron[k].games = {}
  /\ cron' = [cron EXCEPT ![k] = Asleep]
  /\ UNCHANGED <<bell, pending, rooms, call, history>>

\* The POST to the URL of the row that was listed, delivered or not.
Rings(k, a) ==
  /\ cron[k].pc = "ring" /\ a \in cron[k].left
  /\ \E ok \in BOOLEAN :
       /\ cron' = [cron EXCEPT ![k].pc = IF ok THEN "rang" ELSE "failed", ![k].agent = a,
                               ![k].left = @ \ {a}, ![k].rang = @ \cup {a}]
       /\ streak' = [streak EXCEPT ![a] = IF ok THEN 0 ELSE @ + 1]
  /\ twice' = IF a \in cron[k].rang THEN twice \cup {a} ELSE twice
  /\ UNCHANGED <<bell, pending, rooms, call, proved, met, stopped>>

GoesOn(k) == IF cron[k].left = {} THEN "game" ELSE "ring"

\* Delivered: the count starts anew, in the row and not in the listed copy.
RecordsDelivery(k) ==
  LET a == cron[k].agent
  IN /\ cron[k].pc = "rang"
     /\ bell' = [bell EXCEPT ![a].failures = 0, ![a].cursor = cron[k].event]
     /\ cron' = [cron EXCEPT ![k] = [@ EXCEPT !.pc = GoesOn(k), !.agent = None,
                                              !.bells[a].cursor = cron[k].event]]
     /\ UNCHANGED <<pending, rooms, call, history>>

\* Mutants: the count is kept in the listed copy only; the limit is off by one.
FailureForgotten(k) ==
  /\ cron[k].pc = "failed"
  /\ cron' = [cron EXCEPT ![k] = [@ EXCEPT !.pc = GoesOn(k), !.agent = None]]
  /\ UNCHANGED <<bell, pending, rooms, call, history>>
DisablesEarly(k) ==
  LET a == cron[k].agent
      n == cron[k].bells[a].failures + 1
  IN /\ cron[k].pc = "failed"
     /\ bell' = [bell EXCEPT ![a].failures = n, ![a].disabled = @ \/ n >= MaxFailures - 1]
     /\ cron' = [cron EXCEPT ![k] =
          IF n >= MaxFailures - 1
          THEN [@ EXCEPT !.pc = GoesOn(k), !.agent = None,
                         !.bells = [b \in DOMAIN @ \ {a} |-> @[b]]]
          ELSE [@ EXCEPT !.pc = GoesOn(k), !.agent = None, !.bells[a].failures = n]]
     /\ UNCHANGED <<pending, rooms, call, history>>

\* Failed: counted on from the listed copy; the fifth time disables the doorbell
\* and the tick forgets it.
RecordsFailure(k) ==
  LET a == cron[k].agent
      n == cron[k].bells[a].failures + 1
      others == [b \in DOMAIN cron[k].bells \ {a} |-> cron[k].bells[b]]
  IN /\ cron[k].pc = "failed"
     /\ bell' = [bell EXCEPT ![a].failures = n, ![a].disabled = @ \/ n >= MaxFailures]
     /\ cron' = [cron EXCEPT ![k] =
          IF n >= MaxFailures
          THEN [@ EXCEPT !.pc = GoesOn(k), !.agent = None, !.bells = others]
          ELSE [@ EXCEPT !.pc = GoesOn(k), !.agent = None, !.bells[a].failures = n]]
     /\ UNCHANGED <<pending, rooms, call, history>>

-----------------------------------------------------------------------------
CallStep(r) ==
  \/ \E a \in Agent : ReadsChallenge(r, a) \/ \E u \in Url : Registers(r, a, u)
  \/ PutChallenge(r) \/ EndpointAnswers(r) \/ SpendsChallenge(r) \/ MarksVerified(r)
CronStep(k) ==
  \/ ListsBells(k) \/ Sleeps(k) \/ RecordsDelivery(k) \/ RecordsFailure(k)
  \/ \E g \in Game : AsksRoom(k, g)
  \/ \E a \in Agent : Rings(k, a)

DoorbellNext ==
  \/ \E r \in Request : CallStep(r)
  \/ \E k \in Cron : CronStep(k)
  \/ \E a \in Agent : ChallengeExpires(a) \/ Disables(a)
  \/ \E g \in Game : Plays(g)

DoorbellSpec == DoorbellInit /\ [][DoorbellNext]_doorbellVars

-----------------------------------------------------------------------------
\* Every URL the cron is about to post to has been proved by the agent that
\* registered it; not so once a registration met a verification under way, whose
\* proof is then taken for the new URL (doorbell.ts:109-126).
RungUrlIsProved ==
  \A k \in Cron : \A a \in DOMAIN cron[k].bells \ met : <<a, cron[k].bells[a].url>> \in proved

\* A doorbell counts the failures since its last delivery; the fifth in a row
\* puts it out of order, and nothing else does but the agent's own request: for
\* an agent whose requests do not meet a tick and that plays one game.  For one
\* that waits in two games the copy the tick listed counts on across a delivery
\* (doorbell.ts:177).
FailuresInARow ==
  \A a \in Agent \ (met \cup twice) :
    bell[a] # None /\ (\A k \in Cron : cron[k].agent # a) =>
      /\ bell[a].failures = streak[a]
      /\ streak[a] <= MaxFailures
      /\ streak[a] = MaxFailures => bell[a].disabled
      /\ bell[a].disabled => streak[a] = MaxFailures \/ a \in stopped

=============================================================================
