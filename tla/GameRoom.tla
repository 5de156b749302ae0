------------------------------ MODULE GameRoom ------------------------------
(***************************************************************************)
(* The Durable Object around a game session (src/rooms/room.ts, class      *)
(* GameRoom): the session object in memory, its rows and core record in    *)
(* storage, the alarm, and the finalization into the database D1 and the   *)
(* ratings, under failed writes, lost instances and slow requests.         *)
(*                                                                         *)
(* A handler runs alone between two awaits.  While it awaits storage the   *)
(* runtime delivers nothing else (`gate'); while it awaits a request body, *)
(* R2, D1 or the ratings, other handlers run (house-driver.ts says so in   *)
(* its header).  A handler keeps the session object it loaded even when    *)
(* the instance drops it, so objects are cells of a heap.                  *)
(*                                                                         *)
(* The session is reduced to what storage can lose or double: a log of who *)
(* moved on each turn, an agent's request or the clock.  RoomCore models   *)
(* the rest.  Left out: /create (rooms start created), the migration of    *)
(* legacy blobs and other puts of more than 128 keys, the replay file in   *)
(* R2, the house driver, and what spectators and private views hold.       *)
(***************************************************************************)
EXTENDS Naturals, Sequences, FiniteSets

CONSTANTS
  Request,     \* POST /move requests, each sent once
  TurnOf,      \* [Request -> Nat]: the turn_index each one is signed for
  GameLength,  \* turns of the game
  TurnTime,    \* the move budget, in clock ticks
  BatchSize,   \* D1_BATCH: statements in one batch
  EventRows,   \* rows of spectator_events and private_views, after those of the log
  Faults,      \* what may fail: "put", "setAlarm", "d1", "ratings", "crash"
  MaxFaults,   \* how often, at most
  SlowBodies,  \* do others run while the body of a request is on its way?
  None

ASSUME RoomAssumption ==
  /\ TurnOf \in [Request -> Nat]
  /\ GameLength \in Nat \ {0} /\ TurnTime \in Nat \ {0}
  /\ BatchSize \in Nat \ {0} /\ EventRows \in Nat
  /\ Faults \subseteq {"put", "setAlarm", "d1", "ratings", "crash"}
  /\ MaxFaults \in Nat /\ SlowBodies \in BOOLEAN
  /\ IsFiniteSet(Request) /\ Request \cap {"alarm", "cron", "clock"} = {}
  /\ None \notin Request \cup Nat \cup {"alarm", "cron", "clock", "ok", "rejected", "persist_failed"}

Thread == Request \cup {"alarm", "cron"}
Cell == 0 .. Cardinality(Thread)

VARIABLES
  rows,    \* storage 'log:<seq>': who moved on each turn
  record,  \* storage 'core': the bounded snapshot and the row count
  alarm,   \* storage: ticks until the alarm, or None
  heap,    \* session objects: [Cell -> Session or None]
  mem,     \* this.core: a cell or None
  mark,    \* this.persisted
  pc,      \* where each handler is
  ref,     \* its local `core': a cell or None
  answer,  \* what a request's handler is about to reply
  gate,    \* the handler that awaits storage, or None
  d1,      \* the status of the games row and the game_log of this game
  sent,    \* statements a handler has sent to D1 so far
  rated,
  faults

memory  == <<heap, mem, mark>>
control == <<pc, ref, answer, gate>>
outside == <<d1, sent, rated>>
vars == <<rows, record, alarm, heap, mem, mark, pc, ref, answer, gate, d1, sent, rated, faults>>

Mover == Request \cup {"clock"}
\* board stands for everything the bounded snapshot holds of the game: its
\* state after the moves of the log.
Session == [log : Seq(Mover), board : Seq(Mover), left : 0 .. TurnTime, final : BOOLEAN]

Ended(c) == Len(c.board) = GameLength

-----------------------------------------------------------------------------
(* What the handlers do to a session (rooms/core.ts, see RoomCore).        *)

Play(c, who) ==
  [c EXCEPT !.log = Append(@, who), !.board = Append(@, who),
            !.left = IF Len(c.board) + 1 = GameLength THEN 0 ELSE TurnTime]

Expire(c) == IF ~Ended(c) /\ c.left = 0 THEN Play(c, "clock") ELSE c

Accepts(c, r) == ~Ended(c) /\ c.left > 0 /\ TurnOf[r] = Len(c.board)
Submit(c, r) == IF Accepts(c, r) THEN Play(c, r) ELSE c

-----------------------------------------------------------------------------
(* load, persist, resetMemory.                                             *)

\* What storage says of the game: the rows up to the recorded count.
Stored == SubSeq(rows, 1, record.count)

\* Mutant: the slice of the rows ends one row early.
ReassembleShort ==
  [log |-> SubSeq(rows, 1, record.count - 1), board |-> SubSeq(rows, 1, record.count - 1),
   left |-> record.left, final |-> record.final]

Reassemble == [log |-> Stored, board |-> record.board, left |-> record.left, final |-> record.final]

\* load(): the cell, the session and the watermark a handler goes on with.
Free == CHOOSE c \in Cell : c # mem /\ \A t \in Thread : ref[t] # c
Loaded == IF mem = None THEN Free ELSE mem
Current == IF mem = None THEN Reassemble ELSE heap[mem]
Watermark == IF mem = None THEN record.count ELSE mark

\* Objects nobody holds any more are forgotten.
Held(h) == [c \in Cell |-> IF c = mem' \/ \E t \in Thread : ref'[t] = c THEN h[c] ELSE None]

\* Mutant: the record counts the rows that were there before.
WriteOldCount(c, w) ==
  /\ rows' = [i \in 1 .. (IF Len(c.log) > Len(rows) THEN Len(c.log) ELSE Len(rows)) |->
                IF i \in w + 1 .. Len(c.log) THEN c.log[i] ELSE rows[i]]
  /\ record' = [count |-> w, board |-> c.board, left |-> c.left, final |-> c.final]
  /\ mark' = Len(c.log)

\* persist(c), from watermark w: the new rows and the core record in one put.
Write(c, w) ==
  /\ rows' = [i \in 1 .. (IF Len(c.log) > Len(rows) THEN Len(c.log) ELSE Len(rows)) |->
                IF i \in w + 1 .. Len(c.log) THEN c.log[i] ELSE rows[i]]
  /\ record' = [count |-> Len(c.log), board |-> c.board, left |-> c.left, final |-> c.final]
  /\ mark' = Len(c.log)

\* The faults F happen now.
Failing(F) ==
  /\ F \subseteq Faults /\ faults + Cardinality(F) <= MaxFaults
  /\ faults' = faults + Cardinality(F)

\* setAlarm or deleteAlarm, whose failure is only logged.
SetAlarm(at, F) ==
  \/ alarm' = at /\ Failing(F)
  \/ UNCHANGED alarm /\ Failing(F \cup {"setAlarm"})

\* The put failed and the instance drops its memory.
ResetMemory == mem' = None /\ mark' = 0 /\ UNCHANGED <<rows, record>>

Goes(t, where) == pc' = [pc EXCEPT ![t] = where]
\* The handler returns.
Returns(t) ==
  /\ Goes(t, IF t \in Request THEN "done" ELSE "idle")
  /\ ref' = [ref EXCEPT ![t] = None]
  /\ gate' = None

\* The put went through; the alarm is set next.
Stores(t, c, w) ==
  /\ Write(c, w)
  /\ Failing({})
  /\ gate' = t

-----------------------------------------------------------------------------
(* handleMove.                                                             *)

\* The session is loaded, and the body awaited.
Receive(r) ==
  /\ gate = None
  /\ pc[r] = "new"
  /\ Goes(r, "body")
  /\ ref' = [ref EXCEPT ![r] = Loaded]
  /\ mem' = Loaded /\ mark' = Watermark
  /\ heap' = [heap EXCEPT ![Loaded] = Current]
  /\ gate' = IF SlowBodies THEN None ELSE r
  /\ UNCHANGED <<rows, record, alarm, answer, outside, faults>>

\* The expired deadline first, then the submission.
Handle(r) ==
  LET c == Expire(heap[ref[r]])
  IN
  /\ gate \in {None, r}
  /\ pc[r] = "body"
  /\ answer' = [answer EXCEPT ![r] = IF Accepts(c, r) THEN "ok" ELSE "rejected"]
  /\ Goes(r, "stored")
  /\ Stores(r, Submit(c, r), mark)
  /\ heap' = [heap EXCEPT ![ref[r]] = Submit(c, r)]
  /\ UNCHANGED <<alarm, mem, ref, outside>>

\* Mutants of HandleFails: the failed put is not noticed; memory is kept.
HandleUnaware(r) ==
  LET c == Expire(heap[ref[r]])
  IN
  /\ gate \in {None, r}
  /\ pc[r] = "body"
  /\ answer' = [answer EXCEPT ![r] = IF Accepts(c, r) THEN "ok" ELSE "rejected"]
  /\ Returns(r)
  /\ Failing({"put"})
  /\ ResetMemory
  /\ heap' = Held([heap EXCEPT ![ref[r]] = Submit(c, r)])
  /\ UNCHANGED <<alarm, outside>>
HandleFailsWithMemory(r) ==
  LET c == Expire(heap[ref[r]])
  IN
  /\ gate \in {None, r}
  /\ pc[r] = "body"
  /\ answer' = [answer EXCEPT ![r] = "persist_failed"]
  /\ Returns(r)
  /\ Failing({"put"})
  /\ UNCHANGED <<rows, record, alarm, mem, mark, outside>>
  /\ heap' = Held([heap EXCEPT ![ref[r]] = Submit(c, r)])

\* The same, and the put fails.  The object has been changed all the same.
HandleFails(r) ==
  LET c == Expire(heap[ref[r]])
  IN
  /\ gate \in {None, r}
  /\ pc[r] = "body"
  /\ answer' = [answer EXCEPT ![r] = "persist_failed"]
  /\ Returns(r)
  /\ Failing({"put"})
  /\ ResetMemory
  /\ heap' = Held([heap EXCEPT ![ref[r]] = Submit(c, r)])
  /\ UNCHANGED <<alarm, outside>>

-----------------------------------------------------------------------------
(* alarm, and handleTick: the cron ticks the games D1 has as live.         *)

Called(t) ==
  /\ gate = None
  /\ pc[t] = "idle"
  /\ IF t = "alarm" THEN alarm = 0 ELSE d1.status = "live"
  /\ alarm' = IF t = "alarm" THEN None ELSE alarm

\* The alarm has nothing to time out in a game that is over.
TimesOut(t) == t = "cron" \/ ~Ended(Current)

Wake(t) ==
  /\ Called(t)
  /\ TimesOut(t)
  /\ Goes(t, "stored")
  /\ ref' = [ref EXCEPT ![t] = Loaded]
  /\ mem' = Loaded
  /\ Stores(t, Expire(Current), Watermark)
  /\ heap' = [heap EXCEPT ![Loaded] = Expire(Current)]
  /\ UNCHANGED <<answer, outside>>

\* The put fails: a tick drops the memory at once, the alarm only after it has
\* awaited the docket.
TickFails ==
  /\ Called("cron")
  /\ Failing({"put"})
  /\ Returns("cron")
  /\ ResetMemory
  /\ heap' = Held(IF mem = None THEN heap ELSE [heap EXCEPT ![mem] = Expire(Current)])
  /\ UNCHANGED <<answer, outside>>

\* Mutant: the failed put does not keep the alarm from finalizing.
AlarmFailsAndFinalizes ==
  /\ Called("alarm")
  /\ TimesOut("alarm")
  /\ Failing({"put"})
  /\ Goes("alarm", IF Ended(Expire(Current)) THEN "archive" ELSE "docket")
  /\ ref' = [ref EXCEPT !["alarm"] = Loaded]
  /\ mem' = Loaded /\ mark' = Watermark
  /\ heap' = [heap EXCEPT ![Loaded] = Expire(Current)]
  /\ UNCHANGED <<rows, record, answer, gate, outside>>

AlarmFails ==
  /\ Called("alarm")
  /\ TimesOut("alarm")
  /\ Failing({"put"})
  /\ Goes("alarm", "docket")
  /\ mem' = Loaded /\ mark' = Watermark
  /\ heap' = [heap EXCEPT ![Loaded] = Expire(Current)]
  /\ UNCHANGED <<rows, record, ref, answer, gate, outside>>

Docketed ==
  /\ gate = None
  /\ pc["alarm"] = "docket"
  /\ Returns("alarm")
  /\ ResetMemory
  /\ heap' = Held(heap)
  /\ SetAlarm(0, {})
  /\ UNCHANGED <<answer, outside>>

\* A retry of the finalization, or nothing at all.
AlarmAfterEnd ==
  /\ Called("alarm")
  /\ Ended(Current)
  /\ mem' = Loaded /\ mark' = Watermark
  /\ heap' = [heap EXCEPT ![Loaded] = Current]
  /\ IF Current.final
     THEN UNCHANGED <<pc, ref>>
     ELSE Goes("alarm", "archive") /\ ref' = [ref EXCEPT !["alarm"] = Loaded]
  /\ UNCHANGED <<rows, record, answer, gate, outside, faults>>

-----------------------------------------------------------------------------
(* syncAlarm and finalize.                                                 *)

\* Mutant: a game that is over needs no alarm.
NextAlarmWhileRunning(c) == IF ~Ended(c) THEN c.left ELSE None

\* The next wake: the deadline, or a retry as long as the end is not final.
NextAlarm(c) == IF ~Ended(c) THEN c.left ELSE IF c.final THEN None ELSE 0

\* The tail of persist, and then finalize if it is time.
SyncAlarm(t) ==
  LET c == heap[ref[t]]
  IN
  /\ pc[t] \in {"stored", "flagged"}
  /\ SetAlarm(NextAlarm(c), {})
  /\ UNCHANGED <<rows, record, mem, mark, answer, outside>>
  /\ IF pc[t] = "flagged" THEN Goes(t, "rate") /\ gate' = None /\ UNCHANGED <<ref, heap>>
     ELSE IF Ended(c) /\ ~c.final THEN Goes(t, "archive") /\ gate' = None /\ UNCHANGED <<ref, heap>>
     ELSE Returns(t) /\ heap' = Held(heap)

\* finalizeD1: the games row, the rows of the log, then those of the events,
\* in batches that are awaited one by one.  Rows that are there are replaced.
Statements(log) == 1 + Len(log) + EventRows
LastRow(n, log) == IF n + BatchSize <= Len(log) THEN n + BatchSize - 1 ELSE Len(log)
Replaced(old, log, n, last) ==
  [i \in 1 .. (IF Len(old) > last THEN Len(old) ELSE last) |->
     IF i \in n .. last THEN log[i] ELSE old[i]]
AfterBatch(t) ==
  LET log == heap[ref[t]].log
  IN [status |-> "ended", log |-> Replaced(d1.log, log, sent[t], LastRow(sent[t], log))]

Archive(t) ==
  LET n == sent[t] + BatchSize
  IN
  /\ gate = None
  /\ pc[t] = "archive"
  /\ d1' = AfterBatch(t)
  /\ IF n < Statements(heap[ref[t]].log)
     THEN sent' = [sent EXCEPT ![t] = n] /\ UNCHANGED pc
     ELSE sent' = [sent EXCEPT ![t] = 0] /\ Goes(t, "archived")
  /\ UNCHANGED <<rows, record, alarm, memory, ref, answer, gate, rated, faults>>

\* A batch is one transaction: it fails whole, or only its answer is lost.
BatchFails(t) ==
  /\ gate = None
  /\ pc[t] = "archive"
  /\ d1' \in {d1, AfterBatch(t)}
  /\ sent' = [sent EXCEPT ![t] = 0]

\* Mutants: nothing is scheduled after a failure; the failure is only logged,
\* like that of R2 and of the ratings.
ArchiveFailsForGood(t) ==
  /\ BatchFails(t)
  /\ Failing({"d1"})
  /\ Returns(t)
  /\ UNCHANGED <<rows, record, alarm, mem, mark, answer, rated>>
  /\ heap' = Held(heap)
ArchiveGoesOn(t) ==
  /\ BatchFails(t)
  /\ Failing({"d1"})
  /\ Goes(t, "archived")
  /\ UNCHANGED <<rows, record, alarm, memory, ref, answer, gate, rated>>

\* A retry is scheduled, which starts with the first batch again.
ArchiveFails(t) ==
  /\ BatchFails(t)
  /\ SetAlarm(0, {"d1"})
  /\ Returns(t)
  /\ UNCHANGED <<rows, record, mem, mark, answer, rated>>
  /\ heap' = Held(heap)

Finalized(c) == [c EXCEPT !.final = TRUE]

MarkFinalized(t) ==
  /\ gate = None
  /\ pc[t] = "archived"
  /\ Goes(t, "flagged")
  /\ Stores(t, Finalized(heap[ref[t]]), mark)
  /\ heap' = [heap EXCEPT ![ref[t]] = Finalized(@)]
  /\ UNCHANGED <<alarm, mem, ref, answer, outside>>

\* The flag cannot be stored: finalize returns, and so does its caller.
MarkFinalizedFails(t) ==
  /\ gate = None
  /\ pc[t] = "archived"
  /\ Failing({"put"})
  /\ Returns(t)
  /\ ResetMemory
  /\ heap' = Held([heap EXCEPT ![ref[t]] = Finalized(@)])
  /\ UNCHANGED <<alarm, answer, outside>>

\* applyGameRatings, at most once; its failure is only logged.
Rate(t) ==
  /\ gate = None
  /\ pc[t] = "rate"
  /\ \/ rated' = TRUE /\ Failing({})
     \/ UNCHANGED rated /\ Failing({"ratings"})
  /\ Returns(t)
  /\ UNCHANGED <<rows, record, alarm, mem, mark, answer, d1, sent>>
  /\ heap' = Held(heap)

-----------------------------------------------------------------------------
Init ==
  /\ rows = <<>>
  /\ record = [count |-> 0, board |-> <<>>, left |-> TurnTime, final |-> FALSE]
  /\ alarm = TurnTime
  /\ heap = [c \in Cell |-> None]
  /\ mem = None /\ mark = 0
  /\ pc = [t \in Thread |-> IF t \in Request THEN "new" ELSE "idle"]
  /\ ref = [t \in Thread |-> None]
  /\ answer = [r \in Request |-> None]
  /\ gate = None
  \* The pairer inserts the games row after the room exists, or dies before.
  /\ d1 \in [status : {"none", "live"}, log : {<<>>}]
  /\ sent = [t \in Thread |-> 0]
  /\ rated = FALSE
  /\ faults = 0

\* Deadlines and alarms are points in time: each copy is a tick closer.
Sooner(n) == IF n \in Nat \ {0} THEN n - 1 ELSE n
Age ==
  /\ record' = [record EXCEPT !.left = Sooner(@)]
  /\ alarm' = Sooner(alarm)
  /\ heap' = [c \in Cell |-> IF heap[c] = None THEN None ELSE [heap[c] EXCEPT !.left = Sooner(@)]]
  /\ <<record, alarm, heap>>' # <<record, alarm, heap>>
  /\ UNCHANGED <<rows, mem, mark, control, outside, faults>>

AtRest(t) == pc[t] \in {"new", "idle", "done", "lost"}

\* An idle instance is evicted.
Evict ==
  /\ mem # None
  /\ \A t \in Thread : AtRest(t)
  /\ heap' = [c \in Cell |-> None] /\ mem' = None /\ mark' = 0
  /\ UNCHANGED <<rows, record, alarm, control, outside, faults>>

\* The instance dies.  Alarms are delivered at least once: one that was being
\* handled comes again, for certain as long as the end is not final.
Crash ==
  /\ Failing({"crash"})
  /\ \E t \in Thread : ~AtRest(t)
  /\ heap' = [c \in Cell |-> None] /\ mem' = None /\ mark' = 0
  /\ pc' = [t \in Thread |-> IF AtRest(t) THEN pc[t] ELSE IF t \in Request THEN "lost" ELSE "idle"]
  /\ ref' = [t \in Thread |-> None]
  /\ gate' = None
  /\ IF pc["alarm"] = "idle" \/ alarm # None THEN UNCHANGED alarm
     ELSE alarm' \in IF record.final THEN {None, 0} ELSE {0}
  /\ sent' = [t \in Thread |-> 0]
  /\ UNCHANGED <<rows, record, answer, d1, rated>>

Finalize(t) ==
  SyncAlarm(t) \/ Archive(t) \/ ArchiveFails(t) \/ MarkFinalized(t) \/ MarkFinalizedFails(t) \/ Rate(t)
Alarm == Wake("alarm") \/ AlarmFails \/ Docketed \/ AlarmAfterEnd
Next ==
  \/ Age \/ Evict \/ Crash \/ Alarm
  \/ Wake("cron") \/ TickFails
  \/ \E r \in Request : Receive(r) \/ Handle(r) \/ HandleFails(r)
  \/ \E t \in Thread : Finalize(t)

Spec == Init /\ [][Next]_vars

\* Time passes, a due alarm is delivered and a handler that runs goes on to its
\* end: the runtime queues what the gate holds back, hence strong fairness.
\* The cron is only a backup, and nobody has to send a move.
Fairness ==
  /\ WF_vars(Age) /\ SF_vars(Alarm)
  /\ \A r \in Request : SF_vars(Handle(r) \/ HandleFails(r))
  /\ \A t \in Thread : SF_vars(Finalize(t))
FairSpec == Spec /\ Fairness

-----------------------------------------------------------------------------
(* Properties.                                                             *)

Replied(r, what) == pc[r] = "done" /\ answer[r] = what
IsStored(r) == \E i \in DOMAIN Stored : Stored[i] = r

\* A move an agent was told is in is in storage, whatever fails later.
AckedMoveIsDurable == \A r \in Request : Replied(r, "ok") => IsStored(r)

\* A move an agent was told to send again, or that was turned down, never
\* turns up (room.ts: 'the submission effectively never happened').
FailedMoveNeverLands ==
  \A r \in Request : Replied(r, "persist_failed") \/ Replied(r, "rejected") => ~IsStored(r)

\* Nothing that was stored is taken back or replaced.
StoredGameOnlyGrows ==
  [][Len(Stored) <= Len(Stored') /\ \A i \in DOMAIN Stored : Stored'[i] = Stored[i]]_vars

\* The rows that storage has are those of the game the core record is of: a
\* put never mixes two histories, and the hash chain of the log is whole.
StoredGameIsCoherent == Stored = record.board

\* What the public record says of the game is what its room has stored of a
\* game that is over, or the beginning of it: a log that lacks batches is there
\* only as long as the end is not final, so that the room tries again.
ArchiveIsTheGame ==
  /\ Len(d1.log) <= Len(Stored) /\ d1.log = SubSeq(Stored, 1, Len(d1.log))
  /\ d1.status = "ended" \/ d1.log # <<>> => Ended(record)
  /\ record.final => d1.status = "ended" /\ d1.log = Stored

\* An unfinished game always has something that will wake its room.
UnfinishedHasAlarm ==
  record.final \/ alarm # None \/ pc["alarm"] # "idle" \/ gate # None

\* Every game ends, and its end reaches the public record for good.
EventuallyFinalized == <>[](record.final /\ d1.status = "ended" /\ d1.log = Stored)
=============================================================================
