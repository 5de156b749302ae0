---------------------------- MODULE Matchmaking -----------------------------
(***************************************************************************)
(* The lobby and the pairer (src/match/pairing.ts, src/match/lobby.ts) with *)
(* the join handler and its quota (src/api/handlers.ts, src/api/quota.ts). *)
(*                                                                         *)
(* Requests and pairing sweeps run side by side and meet in the database:  *)
(* every step here is what happens between two awaits that matter.  The    *)
(* sweeps of one isolate follow one another (tickChain); isolates do not   *)
(* know of each other.  Ratings stand still while a game forms, and seat   *)
(* order, which is drawn, is left out: no property depends on it.          *)
(***************************************************************************)
EXTENDS Integers, Sequences, FiniteSets, SequencesExt, FiniteSetsExt, Functions

CONSTANTS
  None,
  NAgents,           \* agents are 1 .. NAgents, ordered as their ids are
  House,             \* the house agents among them (handles house-...)
  Entry,             \* the lobby keys agents ask for: subset of Queue \X Agent
  OperatorOf,        \* [Agent -> operator]
  Rating,            \* [Agent -> Nat]
  NQueues,           \* queues (game, variant, division) in the order of their keys
  SeatsFor,          \* [Queue -> Nat]
  Roster,            \* [Queue \cup House -> roster key or None], both tagged
  Isolate,           \* the worker's isolates
  NRequests,         \* bound: join requests under way at once
  BaseBand, BandStep, UnboundedAfter, BackfillAfter, HouseConcurrency,
  DailyJoins, ConcurrentGames,
  Fault, MaxFaults,  \* which calls fail: "create" (room or games row), "put" (KV)
  MaxJoins           \* bound: joins in a behaviour

Agent == 1 .. NAgents
Queue == 1 .. NQueues
Request == 1 .. NRequests
Cron == 0   \* who asked for a sweep, when it was no request
Key == Queue \X Agent

ASSUME MatchmakingAssumption ==
  /\ NAgents \in Nat /\ NQueues \in Nat /\ NRequests \in Nat
  /\ House \subseteq Agent /\ Entry \subseteq Key
  /\ SeatsFor \in [Queue -> Nat \ {0, 1}]
  /\ Rating \in [Agent -> Nat] /\ DOMAIN OperatorOf = Agent
  /\ DOMAIN Roster = {<<"queue", q>> : q \in Queue} \cup {<<"agent", h>> : h \in House}
  /\ {BaseBand, BandStep, UnboundedAfter, BackfillAfter, HouseConcurrency,
      DailyJoins, ConcurrentGames, MaxFaults, MaxJoins} \subseteq Nat

VARIABLES
  lobby,     \* the lobby table, oldest row first
  joined,    \* rows inserted so far, by lobby key
  used,      \* quotas: joins spent today
  games,     \* the live rows of the games table: [queue, seats], oldest first
  opened,    \* games opened so far for an entrant, by lobby key
  stored,    \* the sweep counters in KV, by lobby key
  request,   \* the join requests under way
  chain,     \* per isolate, who waits for a sweep
  tick,      \* per isolate, the sweep that runs
  faults

vars == <<lobby, joined, used, games, opened, stored, request, chain, tick, faults>>

Row == [queue : Queue, agent : Agent]
KeyOf(row) == <<row.queue, row.agent>>
InLobby(key) == \E i \in DOMAIN lobby : KeyOf(lobby[i]) = key

\* The rows of a sequence that are in S, in their order.
Only(rows, S) ==
  LET kept[n \in 0 .. Len(rows)] ==
        IF n = 0 THEN <<>>
        ELSE LET before == kept[n - 1]
             IN IF rows[n] \in S THEN Append(before, rows[n]) ELSE before
  IN kept[Len(rows)]

Seated(g) == ToSet(g.seats)
LiveGames(a) == Cardinality({i \in DOMAIN games : a \in Seated(games[i])})

NoRequest == [pc |-> "idle", key |-> None, isolate |-> None]
NoTick == [pc |-> "idle", by |-> None, sweeps |-> <<>>, tables |-> <<>>,
           matched |-> {}, next |-> <<>>]

-----------------------------------------------------------------------------
(* The sweep's plan: which tables a snapshot of the lobby gives.           *)

\* The waited sweeps of an entry; one beyond every threshold is as good as more.
MaxWait == IF UnboundedAfter > BackfillAfter THEN UnboundedAfter ELSE BackfillAfter
Waited(sweeps, row) == IF KeyOf(row) \in DOMAIN sweeps THEN sweeps[KeyOf(row)] ELSE 0

OneMore(n) == IF n < MaxWait THEN n + 1 ELSE n

Accepts(n, gap) == n >= UnboundedAfter \/ gap <= BaseBand + BandStep * n
Compatible(sweeps, a, b) ==
  LET gap == IF Rating[a.agent] > Rating[b.agent] THEN Rating[a.agent] - Rating[b.agent]
             ELSE Rating[b.agent] - Rating[a.agent]
  IN Accepts(Waited(sweeps, a), gap) /\ Accepts(Waited(sweeps, b), gap)

\* Mutant: agents are compared where their operators should be.
OperatorClashByAgent(group, c) ==
  c.agent \notin House /\ \E m \in ToSet(group) : m.agent \notin House /\ m.agent = c.agent
OperatorClash(group, c) ==
  /\ c.agent \notin House
  /\ \E m \in ToSet(group) : m.agent \notin House /\ OperatorOf[m.agent] = OperatorOf[c.agent]

\* The anchor and, oldest first, everyone still open who fits all taken so far.
Group(anchor, entries, open, sweeps, seats) ==
  LET Fits(group, c) ==
        /\ Len(group) < seats
        /\ c # anchor /\ c \in open
        /\ \A m \in ToSet(group) : Compatible(sweeps, m, c)
        /\ ~OperatorClash(group, c)
      taken[n \in 0 .. Len(entries)] ==
        IF n = 0 THEN <<anchor>>
        ELSE LET group == taken[n - 1]
             IN IF Fits(group, entries[n]) THEN Append(group, entries[n]) ELSE group
  IN taken[Len(entries)]

\* Mutant: the cap is tested as if the new seat were counted already.
EligibleHouseOneOver(q, taken, load) ==
  {h \in House :
     /\ Roster[<<"agent", h>>] = Roster[<<"queue", q>>]
     /\ h \notin taken
     /\ Roster[<<"queue", q>>] # None => load[h] <= HouseConcurrency}

\* By roster, and in rostered games by load; nobody twice in one sweep.
EligibleHouse(q, taken, load) ==
  {h \in House :
     /\ Roster[<<"agent", h>>] = Roster[<<"queue", q>>]
     /\ h \notin taken
     /\ Roster[<<"queue", q>>] # None => load[h] < HouseConcurrency}

\* By load, and among equals by id.
Least(pool, load) ==
  CHOOSE h \in pool : \A g \in pool : load[h] < load[g] \/ (load[h] = load[g] /\ h <= g)
LeastLoaded(pool, need, load) ==
  LET fill[n \in 0 .. need] ==
        IF n = 0 THEN <<>>
        ELSE LET before == fill[n - 1]
             IN Append(before, Least(pool \ ToSet(before), load))
  IN fill[need]

Table(q, group, fill) ==
  [queue |-> q, seats |-> [i \in DOMAIN group |-> group[i].agent] \o fill, rows |-> group]

KeysOf(table) == {KeyOf(row) : row \in ToSet(table.rows)}

\* plan: what the sweep has decided so far; open: the queue's entries not seated.
WithTable(plan, table) ==
  [plan EXCEPT !.tables = Append(@, table),
               !.open = @ \ ToSet(table.rows),
               !.taken = @ \cup {h \in House : \E i \in Len(table.rows) + 1 .. Len(table.seats) :
                                   table.seats[i] = h}]

\* Pass 1: full tables of entrants, the oldest anchor first.
FullTable(q, entries, sweeps, plan, a) ==
  LET group == Group(a, entries, plan.open, sweeps, SeatsFor[q])
  IN IF a \in plan.open /\ Len(group) = SeatsFor[q]
     THEN WithTable(plan, Table(q, group, <<>>)) ELSE plan
FullTables(q, entries, sweeps, plan0) ==
  LET plan[n \in 0 .. Len(entries)] ==
        IF n = 0 THEN plan0 ELSE FullTable(q, entries, sweeps, plan[n - 1], entries[n])
  IN plan[Len(entries)]

\* Pass 2: those who have waited long enough get house agents to fill theirs.
BackfilledTable(q, entries, sweeps, load, plan, a) ==
  LET group == Group(a, entries, plan.open, sweeps, SeatsFor[q])
      need == SeatsFor[q] - Len(group)
      pool == EligibleHouse(q, plan.taken, load)
  IN IF a \in plan.open /\ Waited(sweeps, a) >= BackfillAfter /\ Cardinality(pool) >= need
     THEN WithTable(plan, Table(q, group, LeastLoaded(pool, need, load))) ELSE plan
BackfilledTables(q, entries, sweeps, load, plan0) ==
  LET plan[n \in 0 .. Len(entries)] ==
        IF n = 0 THEN plan0 ELSE BackfilledTable(q, entries, sweeps, load, plan[n - 1], entries[n])
  IN plan[Len(entries)]

\* The entries left over wait one more sweep; credit of others is dropped.
PlanQueue(rows, sweeps, load, plan0, q) ==
  LET entries == Only(rows, {r \in Row : r.queue = q})
      full == FullTables(q, entries, sweeps, [plan0 EXCEPT !.open = ToSet(entries)])
      plan == BackfilledTables(q, entries, sweeps, load, full)
      waiting == {KeyOf(r) : r \in plan.open}
  IN [plan EXCEPT !.next =
        [k \in DOMAIN @ \cup waiting |->
           IF k \in waiting
           THEN OneMore(Waited(sweeps, CHOOSE r \in plan.open : KeyOf(r) = k))
           ELSE plan.next[k]]]

NoPlan == [tables |-> <<>>, open |-> {}, taken |-> {}, next |-> <<>>]
Plan(rows, sweeps, load) ==
  LET plan[q \in 0 .. NQueues] ==
        IF q = 0 THEN NoPlan ELSE PlanQueue(rows, sweeps, load, plan[q - 1], q)
  IN plan[NQueues]

-----------------------------------------------------------------------------
(* POST /api/lobby/join and /leave.                                        *)

Init ==
  /\ lobby = <<>> /\ joined = [key \in Entry |-> 0]
  /\ used = [a \in Agent |-> 0]
  /\ games = <<>> /\ opened = [key \in Entry |-> 0]
  /\ stored = <<>>
  /\ request = [r \in Request |-> NoRequest]
  /\ chain = [i \in Isolate |-> <<>>]
  /\ tick = [i \in Isolate |-> NoTick]
  /\ faults = 0

SumJoined == FoldFunction(LAMBDA m, n : m + n, 0, joined)
Inserting == {r \in Request : request[r].pc = "insert"}

\* Everything that can be refused is refused before anything is spent.
JoinChecked(r, i, key) ==
  /\ request[r].pc = "idle" /\ \A s \in Request : s < r => request[s].pc # "idle"
  /\ SumJoined + Cardinality(Inserting) < MaxJoins
  /\ ~InLobby(key)
  /\ used[key[2]] < DailyJoins
  /\ LiveGames(key[2]) < ConcurrentGames
  /\ request' = [request EXCEPT ![r] = [pc |-> "insert", key |-> key, isolate |-> i]]
  /\ UNCHANGED <<lobby, joined, used, games, opened, stored, chain, tick, faults>>

InsertRow(r) ==
  /\ request[r].pc = "insert"
  /\ ~InLobby(request[r].key)
  /\ joined' = [joined EXCEPT ![request[r].key] = @ + 1]
  /\ lobby' = Append(lobby, [queue |-> request[r].key[1], agent |-> request[r].key[2]])
  /\ request' = [request EXCEPT ![r].pc = "spend"]
  /\ UNCHANGED <<used, games, opened, stored, chain, tick, faults>>

\* The primary key: another request of the agent was faster, this one answers 500.
InsertClash(r) ==
  /\ request[r].pc = "insert"
  /\ InLobby(request[r].key)
  /\ request' = [request EXCEPT ![r] = NoRequest]
  /\ UNCHANGED <<lobby, joined, used, games, opened, stored, chain, tick, faults>>

\* spendJoin; then the handler asks for a sweep.
SpendJoin(r) ==
  /\ request[r].pc = "spend"
  /\ used' = [used EXCEPT ![request[r].key[2]] = @ + 1]
  /\ request' = [request EXCEPT ![r].pc = "sweep"]
  /\ chain' = [chain EXCEPT ![request[r].isolate] = Append(@, r)]
  /\ UNCHANGED <<lobby, joined, games, opened, stored, tick, faults>>

Leave(key) ==
  /\ InLobby(key)
  /\ lobby' = Only(lobby, {row \in Row : KeyOf(row) # key})
  /\ UNCHANGED <<joined, used, games, opened, stored, request, chain, tick, faults>>

\* The five-minute cron; ticks of the cron do not pile up.
CronCanFire == \A j \in Isolate : Cron \notin ToSet(chain[j]) /\ tick[j].by # Cron
CronFires(i) ==
  /\ CronCanFire
  /\ chain' = [chain EXCEPT ![i] = Append(@, Cron)]
  /\ UNCHANGED <<lobby, joined, used, games, opened, stored, request, tick, faults>>

-----------------------------------------------------------------------------
(* cronTick: one sweep of an isolate.                                      *)

\* The counters from KV, the live games of every house agent, the lobby: from
\* here on the sweep works on what it has read.
TickRead(i) ==
  /\ tick[i].pc = "idle" /\ chain[i] # <<>>
  /\ chain' = [chain EXCEPT ![i] = Tail(@)]
  /\ LET plan == Plan(lobby, stored, [h \in House |-> LiveGames(h)])
     IN tick' = [tick EXCEPT ![i] =
          [NoTick EXCEPT !.pc = "create", !.by = Head(chain[i]), !.sweeps = stored,
             !.tables = plan.tables, !.next = plan.next]]
  /\ UNCHANGED <<lobby, joined, used, games, opened, stored, request, faults>>

\* createGame: the room, the season, the games row; the vkey put is guarded.
CreateGame(i) ==
  /\ tick[i].pc = "create" /\ tick[i].tables # <<>>
  /\ LET table == Head(tick[i].tables)
     IN /\ games' = Append(games, [queue |-> table.queue, seats |-> table.seats])
        /\ opened' = [key \in Entry |-> opened[key] + IF key \in KeysOf(table) THEN 1 ELSE 0]
        /\ tick' = [tick EXCEPT ![i].tables = Tail(@), ![i].matched = @ \cup KeysOf(table)]
  /\ UNCHANGED <<lobby, joined, used, stored, request, chain, faults>>

\* Whoever asked for the sweep goes on, whether it ended well or threw.
Release(by) ==
  request' = IF by \in Request THEN [request EXCEPT ![by] = NoRequest] ELSE request

\* createGame throws: the whole sweep is given up, seated rows are not removed.
CreateFails(i) ==
  /\ "create" \in Fault /\ faults < MaxFaults
  /\ tick[i].pc = "create" /\ tick[i].tables # <<>>
  /\ faults' = faults + 1
  /\ tick' = [tick EXCEPT ![i] = NoTick]
  /\ Release(tick[i].by)
  /\ UNCHANGED <<lobby, joined, used, games, opened, stored, chain>>

\* Mutant: the seated agents are taken out of every queue.
RemoveAgents(i) ==
  /\ tick[i].pc = "create" /\ tick[i].tables = <<>> /\ tick[i].matched # {}
  /\ lobby' = Only(lobby, {row \in Row : \A key \in tick[i].matched : row.agent # key[2]})
  /\ tick' = [tick EXCEPT ![i].matched = {}]
  /\ UNCHANGED <<joined, used, games, opened, stored, request, chain, faults>>

\* Mutant: the rows of the tables are left to the next sweep.
RemoveNothing(i) ==
  /\ tick[i].pc = "create" /\ tick[i].tables = <<>> /\ tick[i].matched # {}
  /\ tick' = [tick EXCEPT ![i].matched = {}]
  /\ UNCHANGED <<lobby, joined, used, games, opened, stored, request, chain, faults>>

\* lobby.remove(matchedKeys): one statement for each key, in any order.
RemoveRows(i) ==
  /\ tick[i].pc = "create" /\ tick[i].tables = <<>>
  /\ \E key \in tick[i].matched :
       /\ lobby' = Only(lobby, {row \in Row : KeyOf(row) # key})
       /\ tick' = [tick EXCEPT ![i].matched = @ \ {key}]
  /\ UNCHANGED <<joined, used, games, opened, stored, request, chain, faults>>

\* Mutant: the counters of this sweep are not stored.
TickSaveNothing(i) ==
  /\ tick[i].pc = "create" /\ tick[i].tables = <<>> /\ tick[i].matched = {}
  /\ tick' = [tick EXCEPT ![i] = NoTick]
  /\ Release(tick[i].by)
  /\ UNCHANGED <<lobby, joined, used, games, opened, stored, chain, faults>>

\* The counters go to KV; the put is guarded (as is the docket row of a starved
\* queue, which nothing reads).
TickSave(i) ==
  /\ tick[i].pc = "create" /\ tick[i].tables = <<>> /\ tick[i].matched = {}
  /\ \/ stored' = tick[i].next /\ UNCHANGED faults
     \/ /\ "put" \in Fault /\ faults < MaxFaults /\ tick[i].next # tick[i].sweeps
        /\ faults' = faults + 1 /\ UNCHANGED stored
  /\ tick' = [tick EXCEPT ![i] = NoTick]
  /\ Release(tick[i].by)
  /\ UNCHANGED <<lobby, joined, used, games, opened, chain>>

\* A game ends (GameRoom's finalize): it no longer counts as a load.
GameEnds(n) ==
  /\ n \in DOMAIN games
  /\ games' = RemoveAt(games, n)
  /\ UNCHANGED <<lobby, joined, used, opened, stored, request, chain, tick, faults>>

-----------------------------------------------------------------------------
TickStep(i) ==
  TickRead(i) \/ CreateGame(i) \/ RemoveRows(i) \/ TickSave(i)
RequestStep(r) == InsertRow(r) \/ InsertClash(r) \/ SpendJoin(r)

Next ==
  \/ \E r \in Request, i \in Isolate, key \in Entry : JoinChecked(r, i, key)
  \/ \E r \in Request : RequestStep(r)
  \/ \E key \in Entry : Leave(key)
  \/ \E i \in Isolate : CronFires(i) \/ TickStep(i) \/ CreateFails(i)
  \/ \E n \in 1 .. MaxJoins : GameEnds(n)

Spec == Init /\ [][Next]_vars

\* The cron fires again and again, what has begun goes on, games come to an
\* end (GameRoom!EventuallyFinalized).  Weak fairness with the conditions for
\* the steps spelled out, which spares TLC to find them by trying the plan.
TickCanStep(i) == tick[i].pc # "idle" \/ chain[i] # <<>>
RequestCanStep(r) == request[r].pc \in {"insert", "spend"}

Fairness ==
  /\ <>[]CronCanFire => []<><<\E i \in Isolate : CronFires(i)>>_vars
  /\ \A i \in Isolate : <>[]TickCanStep(i) => []<><<TickStep(i)>>_vars
  /\ \A r \in Request : <>[]RequestCanStep(r) => []<><<RequestStep(r)>>_vars
  /\ <>[](games # <<>>) => []<><<\E n \in 1 .. MaxJoins : GameEnds(n)>>_vars

FairSpec == Spec /\ Fairness

-----------------------------------------------------------------------------

\* Every table that is opened has its number of seats, nobody sits at it twice,
\* no two entrants at it share an operator, and house agents come from its roster.
TablesAreLegal ==
  \A n \in DOMAIN games :
    LET g == games[n]
    IN /\ Len(g.seats) = SeatsFor[g.queue]
       /\ Cardinality(Seated(g)) = Len(g.seats)
       /\ \A a, b \in Seated(g) \ House : OperatorOf[a] = OperatorOf[b] => a = b
       /\ \A h \in Seated(g) \cap House : Roster[<<"agent", h>>] = Roster[<<"queue", g.queue>>]

\* One join opens one game at most ("must not double-create games from the same
\* lobby snapshot", pairing.ts:781).
OneGamePerJoin == \A key \in Entry : opened[key] <= joined[key]

\* The same, as long as no game failed to be created.
SweepsSeatOnce == faults = 0 => OneGamePerJoin

\* No rostered house agent plays more games at once than houseConcurrency.
HouseNotOverloaded ==
  \A h \in House : Roster[<<"agent", h>>] # None => LiveGames(h) <= HouseConcurrency

\* A row leaves the lobby because its agent left, or because its agent was
\* seated in a game of that very queue.
NoRowLost ==
  [][\A key \in Entry : InLobby(key) /\ ~InLobby(key)' => Leave(key) \/ opened[key] > 0]_vars

\* Nobody waits for ever: sweeps on joins and by the cron, ever wider bands and
\* the house agents empty the lobby.
EventuallySeated == \A key \in Entry : InLobby(key) ~> ~InLobby(key)

=============================================================================
