----------------------------- MODULE HouseDriver ----------------------------
(***************************************************************************)
(* The house driver (src/rooms/house-driver.ts) in its room: house seats   *)
(* are moved by the room's own alarm, which they share with the deadline   *)
(* of the turn (room.ts: persist, nextAlarmMs, alarm).                     *)
(*                                                                         *)
(* A wake moves up to PerWake house seats, one adapter after the other,    *)
(* and stores them together.  An adapter may think, and requests are       *)
(* handled in the meantime; storage lets nobody in.  Points in time are    *)
(* counted down to.  The game is reduced to the seats each turn waits for; *)
(* puts of the core that fail, and what happens after the end of a game,   *)
(* are in GameRoom.                                                        *)
(***************************************************************************)
EXTENDS Absent, Integers, Sequences, FiniteSets

CONSTANTS
  Unread,            \* the record is to be read
  House, Real,       \* seats (numbers) by who plays them
  Silent,            \* house seats whose adapter throws or is always rejected
  Movers,            \* the seats each turn waits for
  PerWake,           \* HOUSE_MOVES_PER_WAKE
  Delay, Retry,      \* HOUSE_MOVE_DELAY_MS and HOUSE_RETRY_MS, in ticks
  AlarmRetry,        \* ALARM_RETRY_MS
  Budget,            \* the time for a turn
  SlowAdapters,      \* are others handled while an adapter thinks?
  Faults, MaxDriverFaults, \* what may go wrong, each once, and how much of it
  LateAlarm          \* may one alarm come late?

Seat == House \cup Real
Core == [turn : Nat \ {0}, moved : SUBSET Seat, left : Nat]
DueRecord == [at : Nat, turn : Nat \ {0}]

DriverAssumption ==
  /\ IsFiniteSet(House) /\ Seat \subseteq Nat /\ House \cap Real = {} /\ Silent \subseteq House
  /\ Movers \in Seq(SUBSET Seat \ {{}})
  /\ {PerWake, Delay, Retry, AlarmRetry, Budget} \subseteq Nat \ {0}
  /\ SlowAdapters \in BOOLEAN /\ LateAlarm \in BOOLEAN /\ MaxDriverFaults \in Nat
  /\ Faults \subseteq {"arm", "drive", "crash", "torn"}
  /\ None \notin Nat \cup Core \cup DueRecord /\ \A S \in SUBSET House : None # S
  /\ Unread \notin DueRecord \cup {None}

\* A wake has room for a seat that answers, beside those that never do.
SilentAreFew == \A t \in DOMAIN Movers : Cardinality(Silent \cap Movers[t]) < PerWake

\* The time of a turn is enough to wake for every house seat, and once more for
\* everything that goes wrong.
Slowest == IF Delay < Retry THEN Retry ELSE Delay
TimeIsEnough ==
  Slowest + (Cardinality(House \ Silent) - 1) * Retry + MaxDriverFaults * (AlarmRetry + Slowest) < Budget

VARIABLES
  core,     \* the session in memory, or None: the turn, who moved in it, time left
  due,      \* the driver's record: [at, turn], None, or Unread
  saved,    \* storage 'core'
  dueRow,   \* storage 'housedue'
  alarm,    \* ticks until the alarm, or None
  queue,    \* the seats a wake has still to move, or None: no wake runs
  start,    \* the turn of the view the next adapter thinks about
  drove,    \* did this wake move anybody?
  struck,   \* history: house seats the clock moved
  driverFaults,
  late      \* history: has an alarm been late: "no", "now" or "over"?

driverVars == <<core, due, saved, dueRow, alarm, queue, start, drove, struck, driverFaults, late>>
wake == <<queue, start, drove>>

Ended(c) == c.turn > Len(Movers)
Waiting(c) == IF Ended(c) THEN {} ELSE Movers[c.turn] \ c.moved

\* The core that a handler works on, and the record: read back when needed.
Current == IF core = None THEN saved ELSE core
CurrentDue == IF due = Unread THEN dueRow ELSE due

NextTurn(c) == [turn |-> c.turn + 1, moved |-> {}, left |-> Budget]
Submit(c, s) ==
  IF s \notin Waiting(c) \/ c.left = 0 THEN c
  ELSE IF Waiting(c) = {s} THEN NextTurn(c) ELSE [c EXCEPT !.moved = @ \cup {s}]

PastDeadline(c) == ~Ended(c) /\ c.left = 0
Expire(c) == IF PastDeadline(c) THEN NextTurn(c) ELSE c
Strike(c) == struck' = struck \cup (IF PastDeadline(c) THEN Waiting(c) \cap House ELSE {})

\* One more thing goes wrong.
Failing(F) ==
  /\ F \subseteq Faults \ driverFaults
  /\ driverFaults' = driverFaults \cup F
  /\ Cardinality(driverFaults') <= MaxDriverFaults

-----------------------------------------------------------------------------
(* arm, and the tail of persist.                                           *)

Pending(c) == Waiting(c) \cap House

\* Mutant: every persist arms afresh.
ArmedAfresh(c, d) == IF Pending(c) = {} THEN None ELSE [at |-> Delay, turn |-> c.turn]

\* arm: once per turn.
Armed(c, d) ==
  IF Pending(c) = {} THEN None
  ELSE IF d # None /\ d.turn = c.turn THEN d
  ELSE [at |-> Delay, turn |-> c.turn]

\* Mutant: house seats come before the deadline.
HouseBeforeDeadline(c, d) ==
  IF Ended(c) THEN None ELSE IF d # None THEN d.at ELSE c.left

\* nextAlarmMs: whichever comes first.
NextAlarm(c, d) ==
  IF Ended(c) THEN None
  ELSE IF d # None /\ d.at < c.left THEN d.at ELSE c.left

\* persist: the core, the record, the alarm.  A record that cannot be written
\* is in memory all the same, and no request fails over it.
Persist(c, d) ==
  /\ core' = c /\ saved' = c
  /\ due' = Armed(c, d)
  /\ \/ dueRow' = due' /\ Failing({})
     \/ UNCHANGED dueRow /\ Failing({"arm"})
  /\ alarm' = NextAlarm(c, due')

\* The instance dies between the put of the core and the arming.
DiesStored(c) ==
  /\ Failing({"torn"})
  /\ core' = None /\ due' = Unread /\ saved' = c
  /\ UNCHANGED dueRow

-----------------------------------------------------------------------------
(* Requests, which an adapter that thinks does not keep out.               *)

Admitted == ~Ended(Current) /\ (queue = None \/ (queue # {} /\ SlowAdapters))

\* A wake that is cut off is delivered again.
Interrupted ==
  /\ alarm' = IF queue = None THEN alarm ELSE 0
  /\ queue' = None /\ start' = 0 /\ drove' = FALSE

\* handleMove with a move of seat s, or handleTick.
Serve(c) ==
  /\ Admitted
  /\ Strike(Current) /\ UNCHANGED late
  /\ \/ Persist(c, CurrentDue) /\ UNCHANGED wake
     \/ DiesStored(c) /\ Interrupted

RealMove(s) == s \in Waiting(Expire(Current)) /\ Serve(Submit(Expire(Current), s))
CronTick == Serve(Expire(Current))

-----------------------------------------------------------------------------
(* alarm, run and drive.                                                   *)

HouseDue == CurrentDue # None /\ CurrentDue.at = 0

\* The seats of a wake: the first of those pending, in seat order.
Batch(c) == {s \in Pending(c) : Cardinality({q \in Pending(c) : q < s}) < PerWake}

Called ==
  /\ queue = None /\ alarm = 0 /\ ~Ended(Current)
  /\ late' = IF late = "now" THEN "over" ELSE late

WakeHouse ==
  /\ Called /\ HouseDue
  /\ core' = Current /\ due' = CurrentDue /\ alarm' = None
  /\ queue' = Batch(Current) /\ start' = Current.turn /\ drove' = FALSE
  /\ UNCHANGED <<saved, dueRow, struck, driverFaults>>

\* The deadline, or an alarm nobody needs any more.
WakeTimeout ==
  /\ Called /\ ~HouseDue
  /\ Strike(Current)
  /\ \/ Persist(Expire(Current), CurrentDue) /\ UNCHANGED wake
     \/ DiesStored(Expire(Current)) /\ alarm' = 0 /\ UNCHANGED wake

\* The adapter of the next seat answers.  If the turn has gone on meanwhile,
\* nobody else is moved; a seat that moved meanwhile is passed over.
Drive ==
  /\ queue \notin {None, {}}
  /\ \E s \in queue :
       /\ \A q \in queue : s <= q
       /\ IF Ended(core) \/ core.turn # start
          THEN queue' = {} /\ UNCHANGED <<core, start, drove>>
          ELSE /\ core' = IF s \in Silent THEN core ELSE Submit(core, s)
               /\ queue' = queue \ {s} /\ start' = core'.turn
               /\ drove' = (drove \/ core' # core)
  /\ UNCHANGED <<due, saved, dueRow, alarm, struck, driverFaults, late>>

\* When the driver wants to be woken again: as long as it makes progress.
NextDue ==
  IF drove /\ Pending(core) # {} THEN [at |-> Retry, turn |-> core.turn] ELSE None

\* The record, then everything the wake did, in one put.
EndWake ==
  /\ queue = {}
  /\ queue' = None /\ start' = 0 /\ drove' = FALSE
  /\ UNCHANGED <<struck, late>>
  /\ \/ Persist(core, NextDue)
     \/ DiesStored(core) /\ alarm' = 0

\* The record cannot be written: the wake's moves are dropped with the memory,
\* the record of the failed write stays, and the alarm tries again.
EndWakeFails ==
  /\ queue = {} /\ Failing({"drive"})
  /\ queue' = None /\ start' = 0 /\ drove' = FALSE
  /\ core' = None /\ due' = NextDue /\ alarm' = AlarmRetry
  /\ UNCHANGED <<saved, dueRow, struck, late>>

\* The instance dies in the middle of a wake, before or after it wrote the
\* record: its moves are lost and the alarm is delivered again.
WakeDies ==
  /\ queue # None /\ Failing({"crash"})
  /\ core' = None /\ due' = Unread
  /\ \/ UNCHANGED dueRow
     \/ queue = {} /\ dueRow' = NextDue
  /\ Interrupted
  /\ UNCHANGED <<saved, struck, late>>

-----------------------------------------------------------------------------
\* A room that was just created, and stored.
DriverInit ==
  LET c == [turn |-> 1, moved |-> {}, left |-> Budget]
  IN
  /\ core = c /\ saved = c
  /\ due = Armed(c, None) /\ dueRow = Armed(c, None)
  /\ alarm = NextAlarm(c, Armed(c, None))
  /\ queue = None /\ start = 0 /\ drove = FALSE
  /\ struck = {} /\ driverFaults = {} /\ late = "no"

Evict ==
  /\ queue = None /\ core # None
  /\ core' = None /\ due' = Unread
  /\ UNCHANGED <<saved, dueRow, alarm, wake, struck, driverFaults, late>>

Sooner(n) == IF n \in Nat \ {0} THEN n - 1 ELSE n
Aged(c) == IF c = None THEN None ELSE [c EXCEPT !.left = Sooner(@)]
Nearer(d) == IF d \in {None, Unread} THEN d ELSE [d EXCEPT !.at = Sooner(@)]

\* Time passes between wakes.  A due alarm comes at once, or late.
Age ==
  /\ queue = None /\ ~Ended(saved)
  /\ IF alarm = 0 THEN LateAlarm /\ late # "over" /\ late' = "now" ELSE UNCHANGED late
  /\ core' = Aged(core) /\ saved' = Aged(saved)
  /\ due' = Nearer(due) /\ dueRow' = Nearer(dueRow)
  /\ alarm' = Sooner(alarm)
  /\ UNCHANGED <<wake, struck, driverFaults>>

Alarm == WakeHouse \/ WakeTimeout \/ Drive \/ EndWake \/ EndWakeFails
DriverNext ==
  \/ Alarm \/ WakeDies \/ CronTick \/ Evict \/ Age
  \/ \E s \in Real : RealMove(s)

DriverSpec == DriverInit /\ [][DriverNext]_driverVars
\* Time passes, and a due alarm is delivered and its handler goes on.
FairDriver == DriverSpec /\ WF_driverVars(Age) /\ WF_driverVars(Alarm)

-----------------------------------------------------------------------------
\* The clock never moves a house seat that has a policy: not while real seats
\* move and the cron ticks, whatever turn the due time was set in, nor after a
\* lost record, a failed wake or a dead instance.  Only a late alarm may.
HouseSeatsMoveInTime == late = "no" /\ "torn" \notin driverFaults => struck \subseteq Silent

\* The one alarm that wakes and deadlines share brings every game to its end,
\* also when adapters refuse and alarms are late.
EventuallyOver == <>[](Ended(saved))
=============================================================================
