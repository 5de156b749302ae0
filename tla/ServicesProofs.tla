--------------------------- MODULE ServicesProofs ---------------------------
(***************************************************************************)
(* Two services beside the sessions: the house driver, whose seats are     *)
(* moved in time, and the signed log, whose entries can be proved.  They   *)
(* share no state, and neither is said anything of in the other's proof.   *)
(***************************************************************************)
EXTENDS HouseDriver, Checkpoint, FiniteSetTheorems, WellFoundedInduction, TLAPS

-----------------------------------------------------------------------------
(***************************************************************************)
(* The clock moves no house seat that could have moved, for any seats,     *)
(* turns, delays and faults, if a wake has room for a seat that answers    *)
(* and the time of a turn is enough (SilentAreFew, TimeIsEnough).          *)
(*                                                                         *)
(* The invariant is a budget.  At every moment the time left for the turn  *)
(* exceeds what the house may still need: the time to the next alarm, a    *)
(* delay if that alarm may find no due record of this turn, a retry for    *)
(* every further seat that can still move, and a reserve for every fault   *)
(* still to come.  A wake moves one such seat at least, and pays for its   *)
(* retry with it; a fault pays with its reserve for a wake that is lost.   *)
(***************************************************************************)

\* The house seats that can still move in the turn.
Able(c) == (Waiting(c) \cap House) \ Silent

\* The time left is enough for a wake in `wait` ticks, the wakes after it, and so
\* many faults.
Enough(c, wait, spare) ==
  Able(c) # {} =>
    wait + (Cardinality(Able(c)) - 1) * Retry + spare * (AlarmRetry + Slowest) < c.left

Spare == MaxDriverFaults - Cardinality(driverFaults)

-----------------------------------------------------------------------------
Typed ==
  /\ core \in Core \cup {None} /\ saved \in Core
  /\ due \in DueRecord \cup {None, Unread} /\ dueRow \in DueRecord \cup {None}
  /\ alarm \in Nat \cup {None}
  /\ queue \in (SUBSET House) \cup {None} /\ start \in Nat /\ drove \in BOOLEAN
  /\ driverFaults \subseteq Faults /\ Spare \in 0 .. MaxDriverFaults

\* No record is due later than the longest delay.
NotFar(d) == d \notin {None, Unread} => d.at <= Slowest
RecordsNear == NotFar(due) /\ NotFar(dueRow)

\* Memory is that of the last put, but for a wake's.
InStep ==
  /\ queue = None /\ core # None => core = saved
  /\ queue # None => core # None /\ due # Unread
  /\ due = Unread => core = None

\* The next alarm finds a record of this turn that is due, whatever is read.
Sure ==
  /\ CurrentDue # None /\ CurrentDue.turn = saved.turn /\ CurrentDue.at <= alarm
  /\ due \in {Unread, dueRow}

\* Between wakes.
Resting ==
  queue = None /\ ~Ended(saved) =>
    /\ alarm \in Nat
    /\ Enough(saved, alarm + (IF Sure THEN 0 ELSE Slowest), Spare)

\* In a wake.  What it moves is lost with the instance, so the stored core needs
\* the time as well.
Driving ==
  queue # None =>
    /\ Enough(saved, 0, Spare)
    /\ core.turn # start => start < core.turn /\ core.left = Budget
    /\ core.turn = start /\ drove => Enough(core, Retry, Spare)
    /\ core.turn = start /\ ~drove =>
         Enough(core, 0, Spare) /\ (Able(core) # {} => Able(core) \cap queue # {})

InTime == late = "no" /\ "torn" \notin driverFaults => Resting /\ Driving /\ struck \subseteq Silent

IInv == Typed /\ RecordsNear /\ InStep /\ InTime

-----------------------------------------------------------------------------
(* Cores, and the time they have.                                          *)

LEMMA Delays ==
  ASSUME DriverAssumption
  PROVE  /\ Delay \in Nat \ {0} /\ Retry \in Nat \ {0} /\ AlarmRetry \in Nat \ {0} /\ Budget \in Nat \ {0}
         /\ Slowest \in Nat \ {0} /\ Delay <= Slowest /\ Retry <= Slowest
         /\ MaxDriverFaults \in Nat
BY DEF DriverAssumption, Slowest

LEMMA AbleFacts ==
  ASSUME DriverAssumption, NEW c \in Core
  PROVE  /\ Waiting(c) \subseteq Seat /\ Pending(c) \subseteq House /\ IsFiniteSet(Pending(c))
         /\ Able(c) \subseteq House \ Silent /\ Able(c) \subseteq Pending(c)
         /\ IsFiniteSet(Able(c)) /\ Cardinality(Able(c)) \in Nat
         /\ Able(c) # {} => Cardinality(Able(c)) >= 1
<1>1. Waiting(c) \subseteq Seat
  BY DEF DriverAssumption, Waiting, Ended, Core
<1>2. Pending(c) \subseteq House /\ Able(c) \subseteq House \ Silent /\ Able(c) \subseteq Pending(c)
  BY DEF Pending, Able
<1>3. IsFiniteSet(Pending(c)) BY <1>2, FS_Subset DEF DriverAssumption
<1>4. IsFiniteSet(Able(c)) BY <1>2, <1>3, FS_Subset
<1>5. Cardinality(Able(c)) \in Nat BY <1>4, FS_CardinalityType
<1>6. Able(c) # {} => Cardinality(Able(c)) # 0 BY <1>4, FS_EmptySet
<1> QED BY <1>1, <1>2, <1>3, <1>4, <1>5, <1>6

\* Products that grow with a factor.
LEMMA Times ==
  ASSUME NEW k \in Nat, NEW m \in Int, NEW n \in Int, m <= n
  PROVE  /\ m * k \in Int /\ n * k \in Int /\ m * k <= n * k
         /\ m < n => m * k + k <= n * k
<1>1. PICK d \in Nat : n = m + d
  <2>1. n - m \in Nat /\ n = m + (n - m) OBVIOUS
  <2> QED BY <2>1
<1>2. n * k = m * k + d * k /\ m * k \in Int /\ d * k \in Nat BY <1>1
<1>3. m < n => d * k >= k
  <2>1. SUFFICES ASSUME m < n PROVE d * k >= k OBVIOUS
  <2>2. PICK e \in Nat : d = e + 1
    <3>1. d - 1 \in Nat /\ d = (d - 1) + 1 BY <1>1, <2>1
    <3> QED BY <3>1
  <2>3. d * k = e * k + k /\ e * k \in Nat BY <2>2
  <2> QED BY <2>3
<1> QED BY <1>2, <1>3

\* Less to do, sooner, with fewer faults to come.
LEMMA EnoughLess ==
  ASSUME DriverAssumption, NEW c \in Core, NEW d \in Core, NEW v \in Nat, NEW w \in Nat,
         NEW m \in Nat, NEW n \in Nat,
         Enough(c, w, n), Able(d) \subseteq Able(c), d.left = c.left, v <= w, m <= n
  PROVE  Enough(d, v, m)
<1> SUFFICES ASSUME Able(d) # {}
             PROVE  v + (Cardinality(Able(d)) - 1) * Retry + m * (AlarmRetry + Slowest) < d.left
  BY DEF Enough
<1> DEFINE x == Cardinality(Able(d)) - 1
           y == Cardinality(Able(c)) - 1
           k == AlarmRetry + Slowest
<1>1. /\ IsFiniteSet(Able(c)) /\ Able(c) # {}
      /\ x \in Int /\ y \in Int /\ k \in Nat /\ Retry \in Nat
  BY AbleFacts, Delays
<1>2. x <= y
  BY <1>1, AbleFacts, FS_Subset
<1>3. w + y * Retry + n * k < c.left BY <1>1 DEF Enough
<1>4. c.left \in Nat BY DEF Core
<1> HIDE DEF x, y, k
<1>5. x * Retry \in Int /\ y * Retry \in Int /\ x * Retry <= y * Retry BY <1>1, <1>2, Times
<1>6. m * k \in Int /\ n * k \in Int /\ m * k <= n * k BY <1>1, Times
<1>7. v + x * Retry + m * k < d.left BY <1>3, <1>4, <1>5, <1>6
<1> QED BY <1>7 DEF x, k

\* A fault is paid for with its reserve.
LEMMA EnoughSpent ==
  ASSUME DriverAssumption, NEW c \in Core, NEW v \in Nat, NEW w \in Nat,
         NEW m \in Nat, NEW n \in Nat,
         Enough(c, w, n), m < n, v <= w + AlarmRetry + Slowest
  PROVE  Enough(c, v, m)
<1> SUFFICES ASSUME Able(c) # {}
             PROVE  v + (Cardinality(Able(c)) - 1) * Retry + m * (AlarmRetry + Slowest) < c.left
  BY DEF Enough
<1> DEFINE y == Cardinality(Able(c)) - 1
           k == AlarmRetry + Slowest
<1>1. y \in Int /\ k \in Nat /\ Retry \in Nat /\ AlarmRetry \in Nat /\ Slowest \in Nat
  BY AbleFacts, Delays
<1>2. w + y * Retry + n * k < c.left BY DEF Enough
<1>3. c.left \in Nat BY DEF Core
<1>4. v <= w + k BY <1>1
<1> HIDE DEF y, k
<1>5. m * k \in Int /\ n * k \in Int /\ m * k + k <= n * k BY <1>1, Times
<1>6. y * Retry \in Int BY <1>1
<1>7. v + y * Retry + m * k < c.left BY <1>1, <1>2, <1>3, <1>4, <1>5, <1>6
<1> QED BY <1>7 DEF y, k

\* A seat that moved pays for the next wake.
LEMMA EnoughMoved ==
  ASSUME DriverAssumption, NEW c \in Core, NEW d \in Core, NEW w \in Nat, NEW n \in Nat,
         Enough(c, w, n), NEW s \in Able(c), Able(d) \subseteq Able(c) \ {s}, d.left = c.left
  PROVE  Enough(d, w + Retry, n)
<1> SUFFICES ASSUME Able(d) # {}
             PROVE  w + Retry + (Cardinality(Able(d)) - 1) * Retry + n * (AlarmRetry + Slowest) < d.left
  BY DEF Enough
<1> DEFINE x == Cardinality(Able(d)) - 1
           y == Cardinality(Able(c)) - 1
           k == AlarmRetry + Slowest
<1>1. /\ IsFiniteSet(Able(c)) /\ Able(c) # {}
      /\ x \in Int /\ y \in Int /\ k \in Nat /\ Retry \in Nat
  BY AbleFacts, Delays
<1>2. x < y
  <2>0. Cardinality(Able(c)) \in Nat /\ Cardinality(Able(d)) \in Nat BY AbleFacts
  <2>1. IsFiniteSet(Able(c) \ {s}) /\ Cardinality(Able(c) \ {s}) = Cardinality(Able(c)) - 1
    BY <1>1, FS_RemoveElement, FS_Subset
  <2>2. Cardinality(Able(d)) <= Cardinality(Able(c) \ {s}) BY <2>1, FS_Subset
  <2> QED BY <2>0, <2>1, <2>2
<1>3. w + y * Retry + n * k < c.left BY <1>1 DEF Enough
<1>4. c.left \in Nat BY DEF Core
<1> HIDE DEF x, y, k
<1>5. x * Retry \in Int /\ y * Retry \in Int /\ x * Retry + Retry <= y * Retry BY <1>1, <1>2, Times
<1>6. n * k \in Nat BY <1>1
<1>7. w + Retry + x * Retry + n * k < d.left BY <1>1, <1>3, <1>4, <1>5, <1>6
<1> QED BY <1>7 DEF x, k

\* The time of a new turn is enough for all it may bring.
LEMMA EnoughFresh ==
  ASSUME DriverAssumption, TimeIsEnough, NEW c \in Core, c.left = Budget,
         NEW w \in Nat, w <= Slowest, NEW n \in Nat, n <= MaxDriverFaults
  PROVE  Enough(c, w, n)
<1> SUFFICES ASSUME Able(c) # {}
             PROVE  w + (Cardinality(Able(c)) - 1) * Retry + n * (AlarmRetry + Slowest) < c.left
  BY DEF Enough
<1> DEFINE x == Cardinality(Able(c)) - 1
           y == Cardinality(House \ Silent) - 1
           k == AlarmRetry + Slowest
<1>1. IsFiniteSet(House \ Silent) BY FS_Subset DEF DriverAssumption
<1>2. /\ x \in Int /\ y \in Int /\ k \in Nat /\ Retry \in Nat /\ Slowest \in Nat
      /\ MaxDriverFaults \in Nat /\ Budget \in Nat
  BY <1>1, AbleFacts, Delays, FS_CardinalityType
<1>3. x <= y
  <2>1. Cardinality(Able(c)) <= Cardinality(House \ Silent) BY <1>1, AbleFacts, FS_Subset
  <2>2. Cardinality(Able(c)) \in Nat /\ Cardinality(House \ Silent) \in Nat
    BY <1>1, AbleFacts, FS_CardinalityType
  <2> QED BY <2>1, <2>2
<1>4. Slowest + y * Retry + MaxDriverFaults * k < Budget BY DEF TimeIsEnough
<1> HIDE DEF x, y, k
<1>5. x * Retry \in Int /\ y * Retry \in Int /\ x * Retry <= y * Retry BY <1>2, <1>3, Times
<1>6. n * k \in Int /\ MaxDriverFaults * k \in Int /\ n * k <= MaxDriverFaults * k BY <1>2, Times
<1>7. w + x * Retry + n * k < c.left BY <1>2, <1>4, <1>5, <1>6
<1> QED BY <1>7 DEF x, k

\* Time passes.
LEMMA EnoughAged ==
  ASSUME DriverAssumption, NEW c \in Core, NEW d \in Core, NEW w \in Nat, NEW v \in Nat, NEW n \in Nat,
         Enough(c, w, n), Able(d) = Able(c), Able(c) # {} => d.left = c.left - 1, v = w - 1
  PROVE  Enough(d, v, n)
<1> SUFFICES ASSUME Able(c) # {}
             PROVE  v + (Cardinality(Able(c)) - 1) * Retry + n * (AlarmRetry + Slowest) < d.left
  BY DEF Enough
<1> DEFINE a == (Cardinality(Able(c)) - 1) * Retry
           b == n * (AlarmRetry + Slowest)
<1>1. a \in Int /\ b \in Int BY AbleFacts, Delays
<1>2. w + a + b < c.left BY DEF Enough
<1>3. c.left \in Nat /\ d.left = c.left - 1 BY DEF Core
<1> HIDE DEF a, b
<1>4. v + a + b < d.left BY <1>1, <1>2, <1>3
<1> QED BY <1>4 DEF a, b

\* Who has time is not past the deadline, nor about to be.
LEMMA EnoughLeft ==
  ASSUME DriverAssumption, NEW c \in Core, NEW w \in Nat, NEW n \in Nat, Enough(c, w, n), Able(c) # {}
  PROVE  w < c.left
<1> DEFINE a == (Cardinality(Able(c)) - 1) * Retry
           b == n * (AlarmRetry + Slowest)
<1>1. Cardinality(Able(c)) - 1 \in Nat /\ Retry \in Nat /\ AlarmRetry + Slowest \in Nat
  BY AbleFacts, Delays
<1>2. a \in Nat /\ b \in Nat BY <1>1
<1>3. w + a + b < c.left BY DEF Enough
<1>4. c.left \in Nat BY DEF Core
<1> HIDE DEF a, b
<1> QED BY <1>2, <1>3, <1>4

-----------------------------------------------------------------------------
(* What the model's operators do to a core and its record.                 *)

LEMMA NextTurnFacts ==
  ASSUME DriverAssumption, NEW c \in Core
  PROVE  NextTurn(c) \in Core /\ NextTurn(c).left = Budget /\ NextTurn(c).turn = c.turn + 1
BY Delays DEF NextTurn, Core

\* A move changes the turn, or takes its seat out of those to move.
LEMMA SubmitFacts ==
  ASSUME DriverAssumption, NEW c \in Core, NEW s \in Seat, NEW d, d = Submit(c, s)
  PROVE  /\ d \in Core
         /\ d.turn # c.turn => d.left = Budget /\ d.turn = c.turn + 1
         /\ d.turn = c.turn => d.left = c.left /\ Able(d) \subseteq Able(c)
         /\ (d # c /\ s \in Able(c) /\ d.turn = c.turn) => Able(d) \subseteq Able(c) \ {s}
         /\ d # c => s \in Waiting(c)
         /\ s \in Waiting(c) /\ c.left # 0 => d # c
         /\ d.turn = c.turn /\ s \notin House => Able(d) = Able(c)
         /\ d.turn = c.turn => \A q \in Able(c) : q # s => q \in Able(d)
<1>1. CASE s \notin Waiting(c) \/ c.left = 0
  <2>1. d = c BY <1>1 DEF Submit
  <2> QED BY <1>1, <2>1
<1>2. CASE s \in Waiting(c) /\ c.left # 0 /\ Waiting(c) = {s}
  <2>1. d = NextTurn(c) BY <1>2 DEF Submit
  <2>2. d \in Core /\ d.left = Budget /\ d.turn = c.turn + 1 /\ d.turn # c.turn
    BY <2>1, NextTurnFacts DEF Core
  <2> QED BY <1>2, <2>2
<1>3. CASE s \in Waiting(c) /\ c.left # 0 /\ Waiting(c) # {s}
  <2>1. d = [c EXCEPT !.moved = @ \cup {s}] BY <1>3 DEF Submit
  <2>2. d \in Core /\ d.left = c.left /\ d.turn = c.turn /\ d.moved = c.moved \cup {s} BY <2>1 DEF Core
  <2>3. Waiting(d) = Waiting(c) \ {s} BY <2>2 DEF Waiting, Ended
  <2>4. s \notin c.moved BY <1>3 DEF Waiting
  <2>5. Able(d) = Able(c) \ {s} BY <2>3 DEF Able
  <2>6. s \in House \/ Able(d) = Able(c) BY <2>5 DEF Able
  <2>7. d # c BY <2>2, <2>4
  <2> QED BY <1>3, <2>2, <2>5, <2>6, <2>7
<1> QED BY <1>1, <1>2, <1>3

\* A deadline that passes starts a turn; it takes no seat that can still move.
LEMMA ExpireFacts ==
  ASSUME DriverAssumption, NEW c \in Core
  PROVE  /\ Expire(c) \in Core
         /\ Expire(c) = c \/ (Expire(c).left = Budget /\ Expire(c).turn = c.turn + 1)
         /\ (Able(c) # {} => c.left # 0) => (PastDeadline(c) => Waiting(c) \cap House \subseteq Silent)
BY NextTurnFacts DEF Expire, PastDeadline, Able

LEMMA ArmedFacts ==
  ASSUME DriverAssumption, NEW c \in Core, NEW d \in DueRecord \cup {None}, NotFar(d)
  PROVE  /\ Armed(c, d) \in DueRecord \cup {None} /\ NotFar(Armed(c, d))
         /\ Able(c) # {} =>
              /\ Armed(c, d) \in DueRecord /\ Armed(c, d).turn = c.turn /\ Armed(c, d).at <= Slowest
              /\ d # None /\ d.turn = c.turn => Armed(c, d) = d
<1>1. [at |-> Delay, turn |-> c.turn] \in DueRecord BY Delays DEF DueRecord, Core
<1>2. None \notin DueRecord /\ Unread \notin DueRecord BY DEF DriverAssumption
<1>3. Able(c) # {} => Pending(c) # {} BY AbleFacts
<1>4. CASE Pending(c) = {} BY <1>3, <1>4 DEF Armed, NotFar
<1>5. CASE Pending(c) # {} /\ d # None /\ d.turn = c.turn
  BY <1>2, <1>5 DEF Armed, NotFar
<1>6. CASE Pending(c) # {} /\ (d # None => d.turn # c.turn)
  <2>1. Armed(c, d) = [at |-> Delay, turn |-> c.turn] BY <1>6 DEF Armed
  <2> QED BY <1>1, <1>2, <1>6, <2>1, Delays DEF NotFar
<1> QED BY <1>4, <1>5, <1>6

\* Something goes wrong, or nothing.
LEMMA FailingFacts ==
  ASSUME DriverAssumption, driverFaults \subseteq Faults, Spare \in Nat, NEW F, Failing(F)
  PROVE  /\ driverFaults' \subseteq Faults /\ Spare' \in Nat /\ driverFaults \subseteq driverFaults'
         /\ Spare' <= Spare /\ Spare <= MaxDriverFaults /\ Spare' <= MaxDriverFaults
         /\ F # {} => Spare' < Spare
         /\ F \subseteq driverFaults'
<1>1. driverFaults' = driverFaults \cup F /\ F \subseteq Faults \ driverFaults /\ Cardinality(driverFaults') <= MaxDriverFaults
  BY DEF Failing
<1>2. IsFiniteSet({"arm", "drive", "crash", "torn"})
  <2>1. IsFiniteSet({"torn"}) BY FS_Singleton
  <2>2. IsFiniteSet({"torn"} \cup {"crash"}) BY <2>1, FS_AddElement
  <2>3. IsFiniteSet({"torn"} \cup {"crash"} \cup {"drive"}) BY <2>2, FS_AddElement
  <2>4. IsFiniteSet({"torn"} \cup {"crash"} \cup {"drive"} \cup {"arm"}) BY <2>3, FS_AddElement
  <2>5. {"torn"} \cup {"crash"} \cup {"drive"} \cup {"arm"} = {"arm", "drive", "crash", "torn"} OBVIOUS
  <2> QED BY <2>4, <2>5
<1>3. IsFiniteSet(Faults) BY <1>2, FS_Subset DEF DriverAssumption
<1>4. IsFiniteSet(driverFaults') BY <1>1, <1>3, FS_Subset
<1>5. IsFiniteSet(driverFaults) BY <1>3, FS_Subset
<1>6. Cardinality(driverFaults) \in Nat /\ Cardinality(driverFaults') \in Nat
  BY <1>4, <1>5, FS_CardinalityType
<1>8. /\ Cardinality(driverFaults) <= Cardinality(driverFaults')
      /\ driverFaults # driverFaults' => Cardinality(driverFaults) < Cardinality(driverFaults')
  <2>1. driverFaults \in SUBSET driverFaults' BY <1>1
  <2> QED BY <1>4, <1>6, <2>1, FS_Subset
<1>7. F # {} => driverFaults # driverFaults' BY <1>1
<1> QED BY <1>1, <1>6, <1>7, <1>8, Delays DEF Spare

-----------------------------------------------------------------------------
(* persist, and what requests make of it.                                  *)

\* What persist leaves: the core it was given, with time for the record it armed.
LEMMA PersistFacts ==
  ASSUME DriverAssumption, Typed, RecordsNear, NEW c \in Core, NEW d \in DueRecord \cup {None}, NotFar(d),
         Persist(c, d)
  PROVE  /\ core' = c /\ saved' = c /\ due' \in DueRecord \cup {None} /\ due' # Unread
         /\ dueRow' \in DueRecord \cup {None} /\ alarm' \in Nat \cup {None} /\ RecordsNear'
         /\ driverFaults' \subseteq Faults /\ Spare' \in Nat /\ driverFaults \subseteq driverFaults'
         /\ Spare' <= Spare /\ Spare' <= MaxDriverFaults
         /\ (Able(c) # {} => Enough(c, Armed(c, d).at, Spare)) => Resting'
<1>1. core' = c /\ saved' = c /\ due' = Armed(c, d) /\ alarm' = NextAlarm(c, due')
  BY DEF Persist
<1>2. due' \in DueRecord \cup {None} /\ NotFar(due') /\ due' # Unread
  BY <1>1, ArmedFacts DEF DriverAssumption
<1>3. dueRow' \in DueRecord \cup {None} /\ NotFar(dueRow')
  BY <1>2 DEF Persist, Typed, RecordsNear
<1>4. alarm' \in Nat \cup {None} /\ (~Ended(c) => alarm' \in Nat)
  BY <1>1, <1>2 DEF NextAlarm, Core, DueRecord
<1>5. RecordsNear' BY <1>2, <1>3 DEF RecordsNear, NotFar
<1>6. /\ driverFaults' \subseteq Faults /\ Spare' \in Nat /\ driverFaults \subseteq driverFaults'
      /\ Spare' <= Spare /\ Spare' <= MaxDriverFaults
      /\ dueRow' = due' \/ Spare' < Spare
  <2>1. (Failing({}) /\ dueRow' = due') \/ Failing({"arm"}) BY DEF Persist
  <2> QED BY <2>1, FailingFacts, Delays DEF Typed
<1>7. ASSUME Able(c) # {} => Enough(c, Armed(c, d).at, Spare), ~Ended(c)
      PROVE  Enough(c, alarm' + (IF Sure' THEN 0 ELSE Slowest), Spare')
  <2>1. CASE Able(c) = {} BY <2>1 DEF Enough
  <2>2. CASE Able(c) # {}
    <3>1. /\ due' \in DueRecord /\ due'.turn = c.turn /\ due'.at <= Slowest /\ due'.at \in Nat
          /\ Enough(c, due'.at, Spare)
      BY <1>1, <1>7, <2>2, ArmedFacts DEF DueRecord
    <3>2. Spare \in 0 .. MaxDriverFaults /\ Spare \in Nat /\ Slowest \in Nat /\ AlarmRetry \in Nat BY Delays DEF Typed
    <3>3. due'.at < c.left BY <2>2, <3>1, <3>2, EnoughLeft
    <3>4. due' # None BY <3>1 DEF DriverAssumption
    <3>5. alarm' = due'.at BY <1>1, <1>7, <3>3, <3>4 DEF NextAlarm
    <3>6. CASE dueRow' = due'
      <4>1. CurrentDue' = due' BY <1>2 DEF CurrentDue
      <4>2. Sure' BY <1>1, <3>1, <3>4, <3>5, <3>6, <4>1 DEF Sure
      <4>3. Enough(c, alarm', Spare') BY <1>6, <3>1, <3>2, <3>5, EnoughLess
      <4> QED BY <3>1, <3>5, <4>2, <4>3
    <3>7. CASE Spare' < Spare
      <4>1. Enough(c, alarm', Spare') /\ Enough(c, alarm' + Slowest, Spare')
        <5>1. alarm' <= due'.at + AlarmRetry + Slowest /\ alarm' + Slowest <= due'.at + AlarmRetry + Slowest
          BY <3>1, <3>2, <3>5
        <5> QED BY <1>6, <3>1, <3>2, <3>5, <3>7, <5>1, EnoughSpent
      <4> QED BY <3>1, <3>5, <4>1
    <3> QED BY <1>6, <3>6, <3>7
  <2> QED BY <2>1, <2>2
<1>8. (Able(c) # {} => Enough(c, Armed(c, d).at, Spare)) => Resting'
  BY <1>1, <1>4, <1>7 DEF Resting
<1> QED BY <1>1, <1>2, <1>3, <1>4, <1>5, <1>6, <1>8

\* A core that requests or a deadline make of another: of a later turn, or one in
\* which as many house seats can move.
Follows(c, d) ==
  \/ c.turn < d.turn /\ d.left = Budget
  \/ d.turn = c.turn /\ d.left = c.left /\ Able(d) = Able(c)

LEMMA RequestFollows ==
  ASSUME DriverAssumption, NEW c \in Core
  PROVE  /\ Expire(c) \in Core /\ Follows(c, Expire(c))
         /\ \A s \in Real : Submit(Expire(c), s) \in Core /\ Follows(c, Submit(Expire(c), s))
<1>1. Expire(c) \in Core /\ (Expire(c) = c \/ (Expire(c).left = Budget /\ Expire(c).turn = c.turn + 1))
  BY ExpireFacts
<1>2. Follows(c, Expire(c)) BY <1>1 DEF Follows, Core
<1>3. ASSUME NEW s \in Real PROVE Submit(Expire(c), s) \in Core /\ Follows(c, Submit(Expire(c), s))
  <2> DEFINE e == Expire(c)
             d == Submit(e, s)
  <2>1. s \in Seat /\ s \notin House BY DEF DriverAssumption, Seat
  <2> HIDE DEF e
  <2>2. e \in Core BY <1>1 DEF e
  <2>3. /\ d \in Core
        /\ d.turn # e.turn => d.left = Budget /\ d.turn = e.turn + 1
        /\ d.turn = e.turn => d.left = e.left /\ Able(d) = Able(e)
    BY <2>1, <2>2, SubmitFacts
  <2>4. (e.turn = c.turn /\ e.left = c.left /\ Able(e) = Able(c)) \/ (e.left = Budget /\ e.turn = c.turn + 1)
    BY <1>1 DEF e
  <2> HIDE DEF d
  <2>5. Follows(c, d) BY <2>2, <2>3, <2>4 DEF Follows, Core
  <2> QED BY <2>3, <2>5 DEF d, e
<1> QED BY <1>1, <1>2, <1>3

\* Between wakes: whatever is put has time for the record that is then armed.
LEMMA Rearmed ==
  ASSUME DriverAssumption, TimeIsEnough, Typed, RecordsNear, InStep, queue = None, Resting,
         NEW c \in Core, Follows(saved, c), CurrentDue \in DueRecord \cup {None}, NotFar(CurrentDue),
         Able(c) # {}
  PROVE  Enough(c, Armed(c, CurrentDue).at, Spare)
<1>1. /\ Armed(c, CurrentDue).at \in Nat /\ Armed(c, CurrentDue).at <= Slowest
      /\ CurrentDue # None /\ CurrentDue.turn = c.turn => Armed(c, CurrentDue) = CurrentDue
  BY ArmedFacts DEF DueRecord
<1>2. saved \in Core /\ Spare \in Nat /\ Spare <= MaxDriverFaults /\ Slowest \in Nat
  BY Delays DEF Typed
<1>3. CASE c.left = Budget BY <1>1, <1>2, <1>3, EnoughFresh
<1>4. CASE c.turn = saved.turn /\ c.left = saved.left /\ Able(c) = Able(saved)
  <2>1. ~Ended(saved) BY <1>4 DEF Able, Waiting
  <2>2. alarm \in Nat /\ Enough(saved, alarm + (IF Sure THEN 0 ELSE Slowest), Spare) BY <2>1 DEF Resting
  <2>3. CASE Sure
    <3>1. Armed(c, CurrentDue).at <= alarm BY <1>1, <1>4, <2>3 DEF Sure
    <3>2. Enough(saved, alarm, Spare) BY <2>2, <2>3
    <3> QED BY <1>1, <1>2, <1>4, <2>2, <3>1, <3>2, EnoughLess
  <2>4. CASE ~Sure
    <3>1. Armed(c, CurrentDue).at <= alarm + Slowest BY <1>1, <1>2, <2>2
    <3>2. Enough(saved, alarm + Slowest, Spare) BY <2>2, <2>4
    <3> QED BY <1>1, <1>2, <1>4, <2>2, <3>1, <3>2, EnoughLess
  <2> QED BY <2>3, <2>4
<1> QED BY <1>3, <1>4 DEF Follows

-----------------------------------------------------------------------------
(* One step of the budget.                                                 *)

LEMMA CurrentFacts ==
  ASSUME DriverAssumption, Typed, RecordsNear, InStep
  PROVE  /\ Current \in Core
         /\ queue = None => Current = saved
         /\ queue # None => (Current = core /\ core \in Core)
         /\ CurrentDue \in DueRecord \cup {None} /\ NotFar(CurrentDue)
BY DEF DriverAssumption, Typed, RecordsNear, InStep, Current, CurrentDue

\* What holds as long as no alarm was late and no put was torn.
Punctual == late = "no" /\ "torn" \notin driverFaults

LEMMA PunctualBefore ==
  ASSUME driverFaults \subseteq driverFaults', late' = "no" => late = "no", Punctual'
  PROVE  Punctual
BY DEF Punctual

LEMMA InTimeHolds ==
  ASSUME InTime, Punctual
  PROVE  Resting /\ Driving /\ struck \subseteq Silent
BY DEF InTime, Punctual

LEMMA CurrentHasTime ==
  ASSUME DriverAssumption, IInv, Punctual, Able(Current) # {}
  PROVE  Current.left # 0
<1>1. Resting /\ Driving BY InTimeHolds DEF IInv
<1>2. /\ Current \in Core
      /\ queue = None => Current = saved
      /\ queue # None => Current = core
      /\ Spare \in Nat /\ Slowest \in Nat /\ Retry \in Nat /\ Budget \in Nat \ {0}
  BY CurrentFacts, Delays DEF IInv, Typed
<1>3. CASE queue = None
  <2>1. ~Ended(saved) BY <1>2, <1>3 DEF Able, Waiting
  <2>2. alarm \in Nat /\ Enough(saved, alarm + (IF Sure THEN 0 ELSE Slowest), Spare)
    BY <1>1, <1>3, <2>1 DEF Resting
  <2>3. alarm + (IF Sure THEN 0 ELSE Slowest) \in Nat BY <1>2, <2>2
  <2>4. alarm + (IF Sure THEN 0 ELSE Slowest) < Current.left
    BY <1>2, <1>3, <2>2, <2>3, EnoughLeft
  <2> QED BY <2>3, <2>4
<1>4. CASE queue # None
  <2>1. \/ core.left = Budget \/ Enough(core, Retry, Spare) \/ Enough(core, 0, Spare)
    BY <1>1, <1>4, drove \in BOOLEAN DEF Driving, IInv, Typed
  <2>2. Enough(core, Retry, Spare) => Retry < core.left BY <1>2, <1>4, EnoughLeft
  <2>3. Enough(core, 0, Spare) => 0 < core.left BY <1>2, <1>4, EnoughLeft
  <2> QED BY <1>2, <1>4, <2>1, <2>2, <2>3
<1> QED BY <1>3, <1>4

LEMMA StrikesSilent ==
  ASSUME DriverAssumption, IInv, Punctual, Strike(Current)
  PROVE  struck' \subseteq Silent
<1>1. Current \in Core /\ struck \subseteq Silent BY CurrentFacts, InTimeHolds DEF IInv
<1>2. PastDeadline(Current) => Waiting(Current) \cap House \subseteq Silent
  BY <1>1, CurrentHasTime, ExpireFacts
<1> QED BY <1>1, <1>2 DEF Strike

\* What a wake still needs is there for whatever core follows its own.
LEMMA DrivesOn ==
  ASSUME DriverAssumption, TimeIsEnough, IInv, Punctual, queue # None, NEW c \in Core, Follows(core, c),
         core' = c, saved' = c, UNCHANGED wake, Spare' \in Nat, Spare' <= Spare
  PROVE  Driving'
<1>1. Driving /\ core \in Core /\ start \in Nat /\ drove \in BOOLEAN
  BY InTimeHolds, CurrentFacts DEF IInv, Typed
<1>2. /\ Spare \in Nat /\ Spare' <= MaxDriverFaults /\ Slowest \in Nat /\ Retry \in Nat /\ Retry <= Slowest
      /\ 0 <= Slowest /\ 0 <= Retry
  BY Delays DEF IInv, Typed
<1>3. queue' = queue /\ start' = start /\ drove' = drove BY DEF wake
<1>4. ASSUME NEW d \in Core, d.left = Budget, NEW w \in Nat, w <= Slowest PROVE Enough(d, w, Spare')
  BY <1>2, <1>4, EnoughFresh
<1>5. CASE core.turn < c.turn /\ c.left = Budget
  <2>1. start < c.turn BY <1>1, <1>5 DEF Driving, Core
  <2>2. c.turn # start BY <1>1, <2>1 DEF Core
  <2>3. Enough(c, 0, Spare') BY <1>2, <1>4, <1>5
  <2> QED BY <1>3, <1>5, <2>1, <2>2, <2>3 DEF Driving
<1>6. CASE c.turn = core.turn /\ c.left = core.left /\ Able(c) = Able(core)
  <2>1. CASE core.turn # start
    <3>1. start < c.turn /\ c.left = Budget BY <1>1, <1>6, <2>1 DEF Driving
    <3>2. Enough(c, 0, Spare') BY <1>2, <1>4, <3>1
    <3> QED BY <1>3, <1>6, <2>1, <3>1, <3>2 DEF Driving
  <2>2. CASE core.turn = start /\ drove
    <3>1. Enough(core, Retry, Spare) BY <1>1, <2>2 DEF Driving
    <3>2. Enough(c, Retry, Spare') /\ Enough(c, 0, Spare') BY <1>1, <1>2, <1>6, <3>1, EnoughLess
    <3> QED BY <1>3, <1>6, <2>2, <3>2 DEF Driving
  <2>3. CASE core.turn = start /\ ~drove
    <3>1. Enough(core, 0, Spare) /\ (Able(core) # {} => Able(core) \cap queue # {}) BY <1>1, <2>3 DEF Driving
    <3>2. Enough(c, 0, Spare') BY <1>1, <1>2, <1>6, <3>1, EnoughLess
    <3> QED BY <1>3, <1>6, <2>3, <3>1, <3>2 DEF Driving
  <2> QED BY <2>1, <2>2, <2>3
<1> QED BY <1>5, <1>6 DEF Follows

\* A request or a deadline puts a core that follows the current one.
LEMMA PutKeeps ==
  ASSUME DriverAssumption, TimeIsEnough, IInv, NEW c \in Core, Follows(Current, c),
         Strike(Current), Persist(c, CurrentDue), UNCHANGED wake, late' = "no" => late = "no"
  PROVE  IInv'
<1>1. /\ Current \in Core
      /\ queue = None => Current = saved
      /\ queue # None => Current = core
      /\ CurrentDue \in DueRecord \cup {None} /\ NotFar(CurrentDue)
      /\ Typed /\ RecordsNear /\ InStep
  BY CurrentFacts DEF IInv
<1>2. /\ core' = c /\ saved' = c /\ due' \in DueRecord \cup {None} /\ due' # Unread
      /\ dueRow' \in DueRecord \cup {None} /\ alarm' \in Nat \cup {None} /\ RecordsNear'
      /\ driverFaults' \subseteq Faults /\ Spare' \in Nat /\ driverFaults \subseteq driverFaults'
      /\ Spare' <= Spare /\ Spare' <= MaxDriverFaults
      /\ (Able(c) # {} => Enough(c, Armed(c, CurrentDue).at, Spare)) => Resting'
  BY <1>1, PersistFacts
<1>3. queue' = queue /\ start' = start /\ drove' = drove BY DEF wake
<1>4. Typed' BY <1>1, <1>2, <1>3, Delays DEF Typed
<1>5. InStep' BY <1>2, <1>3, None \notin Core DEF InStep, DriverAssumption
<1>6. ASSUME Punctual' PROVE Resting' /\ Driving' /\ struck' \subseteq Silent
  <2>1. Punctual BY <1>2, <1>6, PunctualBefore
  <2>2. Resting /\ Driving BY <2>1, InTimeHolds DEF IInv
  <2>3. struck' \subseteq Silent BY <2>1, StrikesSilent
  <2>4. CASE queue = None
    <3>1. Able(c) # {} => Enough(c, Armed(c, CurrentDue).at, Spare)
      BY <1>1, <2>2, <2>4, Rearmed
    <3> QED BY <1>2, <1>3, <2>3, <2>4, <3>1 DEF Driving
  <2>5. CASE queue # None
    <3>1. Driving' BY <1>1, <1>2, <2>1, <2>5, DrivesOn
    <3> QED BY <1>3, <2>3, <2>5, <3>1 DEF Resting
  <2> QED BY <2>4, <2>5
<1> QED BY <1>2, <1>4, <1>5, <1>6 DEF IInv, InTime, Punctual

\* A torn put leaves types alone: of time, nothing is said after it.
LEMMA TornKeeps ==
  ASSUME DriverAssumption, IInv, NEW c \in Core, DiesStored(c),
         queue' = None, start' \in Nat, drove' \in BOOLEAN, alarm' \in Nat \cup {None}
  PROVE  IInv'
<1>1. /\ driverFaults' \subseteq Faults /\ Spare' \in Nat /\ Spare' <= MaxDriverFaults /\ {"torn"} \subseteq driverFaults'
  BY FailingFacts DEF DiesStored, IInv, Typed
<1>2. core' = None /\ due' = Unread /\ saved' = c /\ dueRow' = dueRow BY DEF DiesStored
<1>3. Typed' BY <1>1, <1>2, Delays DEF IInv, Typed
<1>4. RecordsNear' /\ InStep' BY <1>2 DEF IInv, RecordsNear, NotFar, InStep
<1> QED BY <1>1, <1>3, <1>4 DEF IInv, InTime

-----------------------------------------------------------------------------
(* One lemma per action.                                                   *)

LEMMA ServeKeeps ==
  ASSUME DriverAssumption, TimeIsEnough, IInv, NEW c \in Core, Follows(Current, c), Serve(c)
  PROVE  IInv'
<1>1. CASE Persist(c, CurrentDue) /\ UNCHANGED wake BY <1>1, PutKeeps DEF Serve
<1>2. CASE DiesStored(c) /\ Interrupted
  <2>1. alarm' \in Nat \cup {None} BY <1>2 DEF Interrupted, IInv, Typed
  <2> QED BY <1>2, <2>1, TornKeeps DEF Interrupted
<1> QED BY <1>1, <1>2 DEF Serve

LEMMA WakeTimeoutKeeps ==
  ASSUME DriverAssumption, TimeIsEnough, IInv, WakeTimeout
  PROVE  IInv'
<1>1. Expire(Current) \in Core /\ Follows(Current, Expire(Current))
  BY CurrentFacts, RequestFollows DEF IInv
<1>2. queue = None /\ (late' = "no" => late = "no") BY DEF WakeTimeout, Called
<1>3. CASE Persist(Expire(Current), CurrentDue) /\ UNCHANGED wake
  BY <1>1, <1>2, <1>3, PutKeeps DEF WakeTimeout
<1>4. CASE DiesStored(Expire(Current)) /\ alarm' = 0 /\ UNCHANGED wake
  <2>1. queue' = None /\ start' \in Nat /\ drove' \in BOOLEAN /\ alarm' \in Nat \cup {None}
    BY <1>2, <1>4 DEF wake, IInv, Typed
  <2> QED BY <1>1, <1>4, <2>1, TornKeeps
<1> QED BY <1>3, <1>4 DEF WakeTimeout

LEMMA LeastNumber ==
  ASSUME NEW T \in SUBSET Nat, T # {}
  PROVE  \E m \in T : \A n \in T : m <= n
<1>1. \E m \in T : \A n \in T : ~(<<n, m>> \in OpToRel(<, Nat))
  BY NatLessThanWellFounded, WFMin
<1>2. PICK m \in T : \A n \in T : ~(n < m) BY <1>1 DEF OpToRel
<1> QED BY <1>2

\* A wake has a seat that can move, if there is one: before the first such seat
\* come silent ones only, and they are few.
LEMMA BatchMoves ==
  ASSUME DriverAssumption, SilentAreFew, NEW c \in Core, Able(c) # {}
  PROVE  Able(c) \cap Batch(c) # {}
<1>1. Able(c) \subseteq Pending(c) /\ Pending(c) \subseteq House /\ House \subseteq Nat /\ IsFiniteSet(Silent)
  BY AbleFacts, FS_Subset DEF DriverAssumption, Seat
<1>2. PICK s \in Able(c) : \A q \in Able(c) : s <= q
  BY <1>1, LeastNumber, Able(c) \in SUBSET Nat
<1> DEFINE earlier == {q \in Pending(c) : q < s}
<1>3. c.turn \in DOMAIN Movers /\ Waiting(c) \subseteq Movers[c.turn]
  BY DEF Able, Waiting, Ended, Core, DriverAssumption
<1>4. earlier \subseteq Silent \cap Movers[c.turn]
  <2> SUFFICES ASSUME NEW q \in Pending(c), q < s PROVE q \in Silent \cap Movers[c.turn]
    OBVIOUS
  <2>1. q \notin Able(c)
    <3>1. q \in Nat /\ s \in Nat BY <1>1, <1>2
    <3>2. ~(s <= q) BY <3>1
    <3> QED BY <1>2, <3>2
  <2>2. q \in Waiting(c) \cap House BY DEF Pending
  <2> QED BY <1>3, <2>1, <2>2 DEF Able
<1>5. IsFiniteSet(Silent \cap Movers[c.turn])
  <2>1. Silent \cap Movers[c.turn] \in SUBSET Silent OBVIOUS
  <2> QED BY <1>1, <2>1, FS_Subset
<1>6. /\ IsFiniteSet(earlier) /\ Cardinality(earlier) <= Cardinality(Silent \cap Movers[c.turn])
  <2>1. earlier \in SUBSET (Silent \cap Movers[c.turn]) BY <1>4
  <2> QED BY <1>5, <2>1, FS_Subset
<1>7. Cardinality(Silent \cap Movers[c.turn]) < PerWake BY <1>3 DEF SilentAreFew
<1>8. /\ Cardinality(earlier) \in Nat /\ Cardinality(Silent \cap Movers[c.turn]) \in Nat /\ PerWake \in Nat
  BY <1>5, <1>6, FS_CardinalityType DEF DriverAssumption
<1>9. Cardinality(earlier) < PerWake BY <1>6, <1>7, <1>8
<1>10. s \in Batch(c) BY <1>1, <1>2, <1>9 DEF Batch
<1> QED BY <1>2, <1>10

LEMMA WakeHouseKeeps ==
  ASSUME DriverAssumption, SilentAreFew, IInv, WakeHouse
  PROVE  IInv'
<1>1. /\ queue = None /\ alarm = 0 /\ ~Ended(saved) /\ Current = saved /\ Current \in Core
      /\ late' = "no" => late = "no"
  BY CurrentFacts DEF WakeHouse, Called, IInv
<1>2. CurrentDue \in DueRecord \cup {None} /\ NotFar(CurrentDue) BY CurrentFacts DEF IInv
<1>3. /\ core' = saved /\ due' = CurrentDue /\ alarm' = None /\ queue' = Batch(saved)
      /\ start' = saved.turn /\ drove' = FALSE
      /\ UNCHANGED <<saved, dueRow, struck, driverFaults>>
  BY <1>1 DEF WakeHouse
<1>4. Batch(saved) \in SUBSET House BY <1>1, AbleFacts DEF Batch
<1>5. queue' # None BY <1>3, <1>4 DEF DriverAssumption
<1>6. Spare' = Spare BY <1>3 DEF Spare
<1>7. Typed'
  BY <1>1, <1>2, <1>3, <1>4, <1>6 DEF IInv, Typed, Core
<1>8. RecordsNear' BY <1>2, <1>3 DEF IInv, RecordsNear, NotFar
<1>9. InStep' BY <1>1, <1>2, <1>3, <1>5 DEF InStep, DriverAssumption
<1>10. ASSUME Punctual' PROVE Resting' /\ Driving' /\ struck' \subseteq Silent
  <2>1. Resting /\ struck \subseteq Silent BY <1>1, <1>3, <1>10, PunctualBefore, InTimeHolds DEF IInv
  <2>2. Enough(saved, 0 + (IF Sure THEN 0 ELSE Slowest), Spare) BY <1>1, <2>1 DEF Resting
  <2>3. Enough(saved, 0, Spare)
    <3>1. Spare \in Nat /\ Slowest \in Nat /\ 0 + (IF Sure THEN 0 ELSE Slowest) \in Nat
      BY Delays DEF IInv, Typed
    <3> QED BY <1>1, <2>2, <3>1, EnoughLess
  <2>4. Able(saved) # {} => Able(saved) \cap Batch(saved) # {} BY <1>1, BatchMoves
  <2>5. Driving' BY <1>3, <1>6, <2>3, <2>4 DEF Driving
  <2> QED BY <1>3, <1>5, <2>1, <2>5 DEF Resting
<1> QED BY <1>7, <1>8, <1>9, <1>10 DEF IInv, InTime, Punctual

LEMMA DriveKeeps ==
  ASSUME DriverAssumption, TimeIsEnough, IInv, Drive
  PROVE  IInv'
<1>1. /\ queue # None /\ core \in Core /\ queue \in SUBSET House /\ start \in Nat /\ drove \in BOOLEAN
      /\ UNCHANGED <<due, saved, dueRow, alarm, struck, driverFaults, late>>
  BY CurrentFacts DEF Drive, IInv, Typed
<1>2. Spare' = Spare BY <1>1 DEF Spare
<1>3. PICK s \in queue :
        IF Ended(core) \/ core.turn # start
        THEN queue' = {} /\ UNCHANGED <<core, start, drove>>
        ELSE /\ core' = IF s \in Silent THEN core ELSE Submit(core, s)
             /\ queue' = queue \ {s} /\ start' = core'.turn
             /\ drove' = (drove \/ core' # core)
  BY DEF Drive
<1>4. s \in House /\ s \in Seat BY <1>1 DEF Seat
<1>5. /\ Submit(core, s) \in Core
      /\ Submit(core, s).turn # core.turn => Submit(core, s).left = Budget /\ Submit(core, s).turn = core.turn + 1
      /\ Submit(core, s).turn = core.turn =>
           Submit(core, s).left = core.left /\ Able(Submit(core, s)) \subseteq Able(core)
      /\ (Submit(core, s) # core /\ s \in Able(core) /\ Submit(core, s).turn = core.turn) =>
           Able(Submit(core, s)) \subseteq Able(core) \ {s}
      /\ Submit(core, s) # core => s \in Waiting(core)
      /\ (s \in Waiting(core) /\ core.left # 0) => Submit(core, s) # core
  BY <1>1, <1>4, SubmitFacts
<1>6. /\ core' \in Core /\ queue' \in SUBSET House /\ start' \in Nat /\ drove' \in BOOLEAN
  BY <1>1, <1>3, <1>5 DEF Core
<1>7. queue' # None /\ core' # None BY <1>6 DEF DriverAssumption
<1>8. Typed' BY <1>1, <1>2, <1>6 DEF IInv, Typed
<1>9. RecordsNear' BY <1>1 DEF IInv, RecordsNear, NotFar
<1>10. InStep' BY <1>1, <1>7 DEF IInv, InStep
<1>11. ASSUME Punctual' PROVE Resting' /\ Driving' /\ struck' \subseteq Silent
  <2>1. Punctual BY <1>1, <1>11, PunctualBefore
  <2>2. Driving /\ struck \subseteq Silent BY <2>1, InTimeHolds DEF IInv
  <2>3. Enough(saved', 0, Spare') BY <1>1, <1>2, <2>2 DEF Driving
  <2>4. /\ Spare \in Nat /\ Spare <= MaxDriverFaults /\ Retry \in Nat /\ Retry <= Slowest /\ Slowest \in Nat
    BY Delays DEF IInv, Typed
  <2>5. Driving'
    <3>1. CASE Ended(core) \/ core.turn # start
      <4>1. queue' = {} /\ core' = core /\ start' = start /\ drove' = drove BY <1>3, <3>1
      <4>2. core.turn = start => Able(core) = {} BY <3>1 DEF Able, Waiting
      <4>3. core.turn = start => Enough(core, Retry, Spare) /\ Enough(core, 0, Spare) BY <4>2 DEF Enough
      <4>4. core.turn # start => start < core.turn /\ core.left = Budget BY <1>1, <2>2 DEF Driving
      <4>5. /\ core'.turn = start' => Enough(core', Retry, Spare') /\ Enough(core', 0, Spare') /\ Able(core') = {}
            /\ core'.turn # start' => start' < core'.turn /\ core'.left = Budget
        BY <1>2, <4>1, <4>2, <4>3, <4>4
      <4> QED BY <2>3, <4>5 DEF Driving
    <3>2. CASE ~(Ended(core) \/ core.turn # start)
      <4>1. /\ core' = IF s \in Silent THEN core ELSE Submit(core, s)
            /\ queue' = queue \ {s} /\ start' = core'.turn
            /\ drove' = (drove \/ core' # core)
        BY <1>3, <3>2
      <4>2. CASE core' = core
        <5>1. start' = core.turn /\ core.turn = start BY <3>2, <4>1, <4>2
        <5>3. (drove' => drove) /\ (drove => drove') BY <4>1, <4>2
        <5>2. ASSUME ~drove, Able(core) # {} PROVE Able(core) \cap (queue \ {s}) # {}
          <6>1. Enough(core, 0, Spare) /\ Able(core) \cap queue # {}
            BY <1>1, <2>2, <3>2, <5>2 DEF Driving
          <6>2. core.left # 0 BY <1>1, <2>4, <5>2, <6>1, EnoughLeft DEF Core
          <6>3. s \notin Able(core)
            <7> SUFFICES ASSUME s \in Able(core) PROVE FALSE OBVIOUS
            <7>1. s \in Waiting(core) /\ s \notin Silent BY DEF Able
            <7> QED BY <1>5, <4>1, <4>2, <6>2, <7>1
          <6> QED BY <6>1, <6>3
        <5> QED BY <1>1, <1>2, <2>2, <2>3, <3>2, <4>1, <4>2, <5>1, <5>2, <5>3 DEF Driving
      <4>3. CASE core' # core
        <5>1. core' = Submit(core, s) /\ s \in Waiting(core) /\ s \notin Silent /\ drove' BY <1>5, <4>1, <4>3
        <5>2. s \in Able(core) BY <1>4, <5>1 DEF Able
        <5>3. CASE core'.turn # core.turn
          <6>1. core'.left = Budget BY <1>5, <5>1, <5>3
          <6>2. Enough(core', Retry, Spare) BY <1>6, <2>4, <6>1, EnoughFresh
          <6> QED BY <1>2, <2>3, <4>1, <5>1, <6>2 DEF Driving
        <5>4. CASE core'.turn = core.turn
          <6>1. core'.left = core.left /\ Able(core') \subseteq Able(core) \ {s}
            BY <1>5, <4>3, <5>1, <5>2, <5>4
          <6>2. Enough(core, 0, Spare)
            <7>1. CASE drove
              <8>1. Enough(core, Retry, Spare) BY <1>1, <2>2, <3>2, <7>1 DEF Driving
              <8> QED BY <1>1, <2>4, <8>1, EnoughLess
            <7>2. CASE ~drove BY <1>1, <2>2, <3>2, <7>2 DEF Driving
            <7> QED BY <1>1, <7>1, <7>2
          <6>3. Enough(core', 0 + Retry, Spare) BY <1>1, <1>6, <2>4, <5>2, <6>1, <6>2, EnoughMoved
          <6>4. Enough(core', Retry, Spare) BY <2>4, <6>3
          <6> QED BY <1>2, <2>3, <4>1, <5>1, <6>4 DEF Driving
        <5> QED BY <5>3, <5>4
      <4> QED BY <4>2, <4>3
    <3> QED BY <3>1, <3>2
  <2> QED BY <1>1, <1>7, <2>2, <2>5 DEF Resting
<1> QED BY <1>8, <1>9, <1>10, <1>11 DEF IInv, InTime, Punctual

\* The record a wake leaves: with time for it, if the wake has had time.
LEMMA NextDueFacts ==
  ASSUME DriverAssumption, IInv, queue # None
  PROVE  NextDue \in DueRecord \cup {None} /\ NotFar(NextDue)
<1>1. core \in Core BY CurrentFacts DEF IInv
<1>2. [at |-> Retry, turn |-> core.turn] \in DueRecord BY <1>1, Delays DEF Core, DueRecord
<1> QED BY <1>2, Delays DEF NextDue, NotFar

LEMMA EndWakeKeeps ==
  ASSUME DriverAssumption, TimeIsEnough, IInv, EndWake
  PROVE  IInv'
<1>1. /\ queue = {} /\ queue # None /\ queue' = None /\ start' = 0 /\ drove' = FALSE
      /\ UNCHANGED <<struck, late>>
  BY DEF EndWake, DriverAssumption
<1>2. core \in Core /\ start \in Nat /\ drove \in BOOLEAN /\ Typed /\ RecordsNear /\ InStep
  BY <1>1, CurrentFacts DEF IInv, Typed
<1>3. NextDue \in DueRecord \cup {None} /\ NotFar(NextDue) BY <1>1, NextDueFacts
<1>4. CASE Persist(core, NextDue)
  <2>1. /\ core' = core /\ saved' = core /\ due' \in DueRecord \cup {None} /\ due' # Unread
        /\ dueRow' \in DueRecord \cup {None} /\ alarm' \in Nat \cup {None} /\ RecordsNear'
        /\ driverFaults' \subseteq Faults /\ Spare' \in Nat /\ driverFaults \subseteq driverFaults'
        /\ Spare' <= Spare /\ Spare' <= MaxDriverFaults
        /\ (Able(core) # {} => Enough(core, Armed(core, NextDue).at, Spare)) => Resting'
    BY <1>2, <1>3, <1>4, PersistFacts
  <2>2. Typed'
    <3>1. queue' \in (SUBSET House) \cup {None} /\ start' \in Nat /\ drove' \in BOOLEAN BY <1>1
    <3>2. Spare' \in 0 .. MaxDriverFaults BY <2>1, Delays
    <3> QED BY <1>2, <2>1, <3>1, <3>2 DEF Typed
  <2>3. InStep' BY <1>1, <2>1 DEF InStep
  <2>4. ASSUME Punctual' PROVE Resting' /\ Driving' /\ struck' \subseteq Silent
    <3>1. Driving /\ struck \subseteq Silent
      BY <1>1, <2>1, <2>4, PunctualBefore, InTimeHolds DEF IInv
    <3>2. ASSUME Able(core) # {} PROVE Enough(core, Armed(core, NextDue).at, Spare)
      <4>1. /\ Armed(core, NextDue).at \in Nat /\ Armed(core, NextDue).at <= Slowest
            /\ NextDue # None /\ NextDue.turn = core.turn => Armed(core, NextDue) = NextDue
        BY <1>2, <1>3, <3>2, ArmedFacts DEF DueRecord
      <4>2. CASE core.turn # start
        <5>1. core.left = Budget BY <1>1, <3>1, <4>2 DEF Driving
        <5>2. Spare \in Nat /\ Spare <= MaxDriverFaults BY <1>2, Delays DEF Typed
        <5> QED BY <1>2, <4>1, <5>1, <5>2, EnoughFresh
      <4>3. CASE core.turn = start /\ drove
        <5>1. Enough(core, Retry, Spare) BY <1>1, <3>1, <4>3 DEF Driving
        <5>2. Pending(core) # {} BY <1>2, <3>2, AbleFacts
        <5>3. NextDue = [at |-> Retry, turn |-> core.turn] BY <4>3, <5>2 DEF NextDue
        <5>4. NextDue # None BY <1>2, <5>3, Delays DEF DriverAssumption, DueRecord, Core
        <5> QED BY <4>1, <5>1, <5>3, <5>4
      <4>4. CASE core.turn = start /\ ~drove
        <5>1. Able(core) \cap queue # {} BY <1>1, <3>1, <3>2, <4>4 DEF Driving
        <5> QED BY <1>1, <5>1
      <4> QED BY <1>2, <4>2, <4>3, <4>4
    <3> QED BY <1>1, <2>1, <3>1, <3>2 DEF Driving
  <2> QED BY <2>1, <2>2, <2>3, <2>4 DEF IInv, InTime, Punctual
<1>5. CASE DiesStored(core) /\ alarm' = 0
  <2>1. queue' = None /\ start' \in Nat /\ drove' \in BOOLEAN /\ alarm' \in Nat \cup {None}
    BY <1>1, <1>5
  <2> QED BY <1>2, <1>5, <2>1, TornKeeps
<1> QED BY <1>4, <1>5 DEF EndWake

\* A wake that is lost for a fault: the reserve of that fault pays for another.
LEMMA WakeLost ==
  ASSUME DriverAssumption, IInv, queue # None, NEW F, Failing(F), F # {},
         queue' = None, start' = 0, drove' = FALSE, core' = None,
         due' \in DueRecord \cup {None, Unread}, dueRow' \in DueRecord \cup {None}, RecordsNear',
         UNCHANGED <<saved, struck, late>>, alarm' \in Nat, alarm' <= AlarmRetry
  PROVE  IInv'
<1>1. /\ driverFaults' \subseteq Faults /\ Spare' \in Nat /\ driverFaults \subseteq driverFaults'
      /\ Spare' < Spare /\ Spare' <= MaxDriverFaults /\ Spare \in Nat
  BY FailingFacts, Delays DEF IInv, Typed
<1>2. Typed'
  <2>1. queue' \in (SUBSET House) \cup {None} /\ start' \in Nat /\ drove' \in BOOLEAN OBVIOUS
  <2>2. Spare' \in 0 .. MaxDriverFaults BY <1>1, Delays
  <2>3. core' \in Core \cup {None} /\ saved' \in Core BY DEF IInv, Typed
  <2> QED BY <1>1, <2>1, <2>2, <2>3 DEF Typed
<1>3. InStep' BY DEF InStep
<1>4. ASSUME Punctual' PROVE Resting' /\ Driving' /\ struck' \subseteq Silent
  <2>1. Driving /\ struck \subseteq Silent BY <1>1, <1>4, PunctualBefore, InTimeHolds DEF IInv
  <2>2. Enough(saved, 0, Spare) /\ saved \in Core BY <2>1 DEF Driving, IInv, Typed
  <2>3. AlarmRetry \in Nat /\ Slowest \in Nat BY Delays
  <2>4. \A v \in Nat : v <= 0 + AlarmRetry + Slowest => Enough(saved, v, Spare')
    BY <1>1, <2>2, EnoughSpent
  <2>5. Enough(saved, alarm' + (IF Sure' THEN 0 ELSE Slowest), Spare') BY <2>3, <2>4
  <2> QED BY <2>1, <2>5 DEF Resting, Driving
<1> QED BY <1>1, <1>2, <1>3, <1>4 DEF IInv, InTime, Punctual

LEMMA EndWakeFailsKeeps ==
  ASSUME DriverAssumption, IInv, EndWakeFails
  PROVE  IInv'
<1>1. queue # None BY DEF EndWakeFails, DriverAssumption
<1>2. NextDue \in DueRecord \cup {None} /\ NotFar(NextDue) BY <1>1, NextDueFacts
<1>3. due' = NextDue /\ UNCHANGED dueRow /\ alarm' = AlarmRetry BY DEF EndWakeFails
<1>4. RecordsNear' BY <1>2, <1>3 DEF IInv, RecordsNear, NotFar
<1>5. due' \in DueRecord \cup {None, Unread} /\ dueRow' \in DueRecord \cup {None}
  BY <1>2, <1>3 DEF IInv, Typed
<1>6. alarm' \in Nat /\ alarm' <= AlarmRetry BY <1>3, Delays
<1>7. Failing({"drive"}) /\ {"drive"} # {} BY DEF EndWakeFails
<1> QED BY <1>1, <1>4, <1>5, <1>6, <1>7, WakeLost DEF EndWakeFails

LEMMA WakeDiesKeeps ==
  ASSUME DriverAssumption, IInv, WakeDies
  PROVE  IInv'
<1>1. queue # None /\ due' = Unread /\ (dueRow' = dueRow \/ dueRow' = NextDue) BY DEF WakeDies
<1>2. NextDue \in DueRecord \cup {None} /\ NotFar(NextDue) BY <1>1, NextDueFacts
<1>3. RecordsNear' BY <1>1, <1>2 DEF IInv, RecordsNear, NotFar
<1>4. due' \in DueRecord \cup {None, Unread} /\ dueRow' \in DueRecord \cup {None}
  BY <1>1, <1>2 DEF IInv, Typed
<1>5. alarm' \in Nat /\ alarm' <= AlarmRetry BY <1>1, Delays DEF WakeDies, Interrupted
<1>6. Failing({"crash"}) /\ {"crash"} # {} BY DEF WakeDies
<1> QED BY <1>1, <1>3, <1>4, <1>5, <1>6, WakeLost DEF WakeDies, Interrupted

LEMMA EvictKeeps ==
  ASSUME DriverAssumption, IInv, Evict
  PROVE  IInv'
<1>1. /\ queue = None /\ core' = None /\ due' = Unread
      /\ UNCHANGED <<saved, dueRow, alarm, queue, start, drove, struck, driverFaults, late>>
  BY DEF Evict, wake
<1>2. Spare' = Spare BY <1>1 DEF Spare
<1>3. Typed' BY <1>1, <1>2 DEF IInv, Typed
<1>4. RecordsNear' BY <1>1 DEF IInv, RecordsNear, NotFar
<1>5. InStep' BY <1>1 DEF InStep
<1>6. Resting => Resting'
  <2> SUFFICES ASSUME Resting, ~Ended(saved)
               PROVE  alarm \in Nat /\ Enough(saved, alarm + (IF Sure' THEN 0 ELSE Slowest), Spare)
    BY <1>1, <1>2 DEF Resting
  <2>1. alarm \in Nat /\ Enough(saved, alarm + (IF Sure THEN 0 ELSE Slowest), Spare) BY <1>1 DEF Resting
  <2>2. Sure => Sure' BY <1>1 DEF Sure, CurrentDue
  <2>3. saved \in Core /\ Spare \in Nat /\ Slowest \in Nat BY Delays DEF IInv, Typed
  <2>4. CASE Sure BY <2>1, <2>2, <2>4
  <2>5. CASE ~Sure
    <3>1. Enough(saved, alarm + Slowest, Spare) BY <2>1, <2>5
    <3>2. Enough(saved, alarm, Spare) BY <2>1, <2>3, <3>1, EnoughLess
    <3> QED BY <2>1, <3>1, <3>2
  <2> QED BY <2>4, <2>5
<1>7. InTime' BY <1>1, <1>6 DEF IInv, InTime, Driving
<1> QED BY <1>3, <1>4, <1>5, <1>7 DEF IInv

\* Counting down.
LEMMA AgedFacts ==
  ASSUME DriverAssumption, NEW c \in Core
  PROVE  /\ Aged(c) \in Core /\ Aged(c).turn = c.turn /\ Able(Aged(c)) = Able(c)
         /\ c.left # 0 => Aged(c).left = c.left - 1
<1>1. Aged(c) = [c EXCEPT !.left = Sooner(c.left)] BY DEF Aged, DriverAssumption
<1>2. Sooner(c.left) \in Nat /\ (c.left # 0 => Sooner(c.left) = c.left - 1) BY DEF Sooner, Core
<1>3. /\ Aged(c) \in Core /\ Aged(c).turn = c.turn /\ Aged(c).moved = c.moved
      /\ Aged(c).left = Sooner(c.left)
  BY <1>1, <1>2 DEF Core
<1>4. Able(Aged(c)) = Able(c) BY <1>3 DEF Able, Waiting, Ended
<1> QED BY <1>2, <1>3, <1>4

LEMMA NearerFacts ==
  ASSUME DriverAssumption, NEW d \in DueRecord
  PROVE  /\ Nearer(d) \in DueRecord /\ Nearer(d) \notin {None, Unread} /\ Nearer(d).turn = d.turn
         /\ Nearer(d).at <= d.at /\ (d.at # 0 => Nearer(d).at = d.at - 1)
<1>1. d \notin {None, Unread} BY DEF DriverAssumption
<1>2. Nearer(d) = [d EXCEPT !.at = Sooner(d.at)] BY <1>1 DEF Nearer
<1>3. Sooner(d.at) \in Nat /\ Sooner(d.at) <= d.at /\ (d.at # 0 => Sooner(d.at) = d.at - 1)
  BY DEF Sooner, DueRecord
<1>4. Nearer(d) \in DueRecord BY <1>2, <1>3 DEF DueRecord
<1> QED BY <1>2, <1>3, <1>4 DEF DriverAssumption, DueRecord

LEMMA AgeKeeps ==
  ASSUME DriverAssumption, IInv, Age
  PROVE  IInv'
<1>1. /\ queue = None /\ ~Ended(saved) /\ core' = Aged(core) /\ saved' = Aged(saved)
      /\ due' = Nearer(due) /\ dueRow' = Nearer(dueRow) /\ alarm' = Sooner(alarm)
      /\ UNCHANGED <<queue, start, drove, struck, driverFaults>>
  BY DEF Age, wake
<1>2. Spare' = Spare BY <1>1 DEF Spare
<1>3. /\ core \in Core \cup {None} /\ saved \in Core /\ due \in DueRecord \cup {None, Unread}
      /\ dueRow \in DueRecord \cup {None} /\ alarm \in Nat \cup {None} /\ None \notin Nat
  BY DEF IInv, Typed, DriverAssumption
<1>4. saved' \in Core /\ core' \in Core \cup {None} BY <1>1, <1>3, AgedFacts DEF Aged
<1>5. due' \in DueRecord \cup {None, Unread} /\ dueRow' \in DueRecord \cup {None}
  BY <1>1, <1>3, NearerFacts DEF Nearer
<1>6. alarm' \in Nat \cup {None} BY <1>1, <1>3 DEF Sooner
<1>7. Typed' BY <1>1, <1>2, <1>4, <1>5, <1>6 DEF IInv, Typed
<1>8. RecordsNear'
  <2>1. ASSUME NEW d \in DueRecord \cup {None, Unread}, NotFar(d) PROVE NotFar(Nearer(d))
    <3>1. CASE d \in DueRecord
      <4>1. d \notin {None, Unread} BY <3>1 DEF DriverAssumption
      <4>2. Nearer(d) \in DueRecord /\ Nearer(d).at <= d.at BY <3>1, NearerFacts
      <4>3. d.at \in Nat /\ Nearer(d).at \in Nat /\ Slowest \in Nat BY <3>1, <4>2, Delays DEF DueRecord
      <4>4. d.at <= Slowest BY <2>1, <4>1 DEF NotFar
      <4>5. Nearer(d).at <= Slowest BY <4>2, <4>3, <4>4
      <4> QED BY <4>5 DEF NotFar
    <3>2. CASE d \in {None, Unread} BY <3>2 DEF Nearer, NotFar
    <3> QED BY <3>1, <3>2
  <2> QED BY <1>1, <1>3, <2>1 DEF IInv, RecordsNear
<1>9. InStep'
  <2>1. due' = Unread => due = Unread BY <1>1, <1>3, NearerFacts DEF Nearer, DriverAssumption
  <2>2. core' # None => core # None BY <1>1 DEF Aged
  <2> QED BY <1>1, <2>1, <2>2 DEF IInv, InStep, Aged
<1>10. ASSUME Punctual' PROVE Resting' /\ Driving' /\ struck' \subseteq Silent
  <2>1. alarm # 0 /\ late = "no" BY <1>10 DEF Age, Punctual
  <2>2. Punctual BY <1>1, <1>10, <2>1 DEF Punctual
  <2>3. Resting /\ struck \subseteq Silent BY <2>2, InTimeHolds DEF IInv
  <2>4. alarm \in Nat /\ Enough(saved, alarm + (IF Sure THEN 0 ELSE Slowest), Spare)
    BY <1>1, <2>3 DEF Resting
  <2>5. alarm' \in Nat /\ alarm' = alarm - 1 BY <1>1, <2>1, <2>4 DEF Sooner
  <2>6. Spare \in Nat /\ Slowest \in Nat BY Delays DEF IInv, Typed
  <2>7. Able(saved') = Able(saved) /\ (Able(saved) # {} => saved'.left = saved.left - 1)
    <3>1. Able(saved) # {} => saved.left # 0
      BY <2>2, CurrentHasTime, CurrentFacts, <1>1 DEF IInv
    <3> QED BY <1>1, <1>3, <3>1, AgedFacts
  <2>8. CASE Sure
    <3>1. CurrentDue \in DueRecord /\ CurrentDue.turn = saved.turn /\ CurrentDue.at <= alarm /\ due \in {Unread, dueRow}
      BY <1>3, <2>8 DEF Sure, CurrentDue, DriverAssumption
    <3>2. CurrentDue = dueRow BY <3>1 DEF CurrentDue
    <3>3. due' \in {Unread, dueRow'} BY <1>1, <3>1 DEF Nearer
    <3>4. CurrentDue' = dueRow' BY <3>3 DEF CurrentDue
    <3>5. /\ dueRow' # None /\ dueRow'.turn = saved.turn /\ dueRow'.at \in Nat
          /\ dueRow.at # 0 => dueRow'.at = dueRow.at - 1
          /\ dueRow'.at <= dueRow.at /\ dueRow.at \in Nat /\ dueRow.at <= alarm
      BY <1>1, <3>1, <3>2, NearerFacts DEF DueRecord
    <3>6. dueRow'.at <= alarm' BY <2>4, <2>5, <3>5
    <3>7. saved'.turn = saved.turn BY <1>1, <1>3, AgedFacts
    <3>8. Sure' BY <3>3, <3>4, <3>5, <3>6, <3>7 DEF Sure
    <3>9. Enough(saved, alarm, Spare) BY <2>4, <2>8
    <3>10. Enough(saved', alarm', Spare) BY <1>3, <1>4, <2>4, <2>5, <2>6, <2>7, <3>9, EnoughAged
    <3> QED BY <1>1, <1>2, <1>3, <2>3, <2>5, <3>8, <3>10 DEF Resting, Driving
  <2>9. CASE ~Sure
    <3>1. Enough(saved, alarm + Slowest, Spare) BY <2>4, <2>9
    <3>2. alarm' + Slowest \in Nat /\ alarm + Slowest \in Nat /\ alarm' + Slowest = (alarm + Slowest) - 1
      BY <2>4, <2>5, <2>6
    <3>3. Enough(saved', alarm' + Slowest, Spare) BY <1>3, <1>4, <2>6, <2>7, <3>1, <3>2, EnoughAged
    <3>4. Enough(saved', alarm', Spare) BY <1>4, <2>5, <2>6, <3>3, EnoughLess
    <3> QED BY <1>1, <1>2, <2>3, <2>5, <3>3, <3>4 DEF Resting, Driving
  <2> QED BY <2>8, <2>9
<1> QED BY <1>1, <1>7, <1>8, <1>9, <1>10 DEF IInv, InTime, Punctual

-----------------------------------------------------------------------------
LEMMA InitKeeps ==
  ASSUME DriverAssumption, TimeIsEnough, DriverInit
  PROVE  IInv
<1> DEFINE c == [turn |-> 1, moved |-> {}, left |-> Budget]
<1>1. c \in Core /\ c.left = Budget BY Delays DEF Core
<1> HIDE DEF c
<1>2. /\ core = c /\ saved = c /\ due = Armed(c, None) /\ dueRow = Armed(c, None)
      /\ alarm = NextAlarm(c, Armed(c, None)) /\ queue = None /\ start = 0 /\ drove = FALSE
      /\ struck = {} /\ driverFaults = {} /\ late = "no"
  BY DEF DriverInit, c
<1>3. NotFar(None) BY DEF NotFar
<1>4. /\ Armed(c, None) \in DueRecord \cup {None} /\ NotFar(Armed(c, None))
      /\ Able(c) # {} => Armed(c, None) \in DueRecord /\ Armed(c, None).turn = c.turn /\ Armed(c, None).at <= Slowest
  BY <1>1, <1>3, ArmedFacts
<1>5. alarm \in Nat \cup {None} /\ (~Ended(c) => alarm \in Nat)
  BY <1>1, <1>2, <1>4 DEF NextAlarm, Core, DueRecord
<1>6. Spare = MaxDriverFaults /\ MaxDriverFaults \in Nat BY <1>2, FS_EmptySet, Delays DEF Spare
<1>7. Typed
  <2>1. queue \in (SUBSET House) \cup {None} /\ start \in Nat /\ drove \in BOOLEAN BY <1>2
  <2>2. Spare \in 0 .. MaxDriverFaults /\ driverFaults \subseteq Faults BY <1>2, <1>6
  <2> QED BY <1>1, <1>2, <1>4, <1>5, <2>1, <2>2 DEF Typed
<1>8. RecordsNear BY <1>2, <1>4 DEF RecordsNear
<1>9. due # Unread BY <1>2, <1>4 DEF DriverAssumption
<1>10. InStep BY <1>2, <1>9 DEF InStep
<1>11. Resting
  <2>1. ASSUME ~Ended(c), Able(c) # {} PROVE Enough(c, alarm + (IF Sure THEN 0 ELSE Slowest), Spare)
    <3>1. /\ due \in DueRecord /\ due # None /\ due.turn = c.turn /\ due.at <= Slowest /\ due.at \in Nat
      BY <1>2, <1>4, <2>1 DEF DueRecord, DriverAssumption
    <3>2. Enough(c, due.at, Spare) BY <1>1, <1>6, <3>1, EnoughFresh
    <3>3. due.at < c.left BY <1>1, <1>6, <2>1, <3>1, <3>2, EnoughLeft
    <3>4. alarm = due.at BY <1>2, <2>1, <3>1, <3>3 DEF NextAlarm
    <3>5. Sure BY <1>2, <1>9, <3>1, <3>4 DEF Sure, CurrentDue
    <3> QED BY <3>1, <3>2, <3>4, <3>5
  <2>2. ASSUME Able(c) = {} PROVE Enough(c, alarm + (IF Sure THEN 0 ELSE Slowest), Spare)
    BY <2>2 DEF Enough
  <2> QED BY <1>2, <1>5, <2>1, <2>2 DEF Resting
<1> QED BY <1>2, <1>7, <1>8, <1>10, <1>11 DEF IInv, InTime, Driving

LEMMA StepKeeps ==
  ASSUME DriverAssumption, SilentAreFew, TimeIsEnough, IInv, [DriverNext]_driverVars
  PROVE  IInv'
<1>1. CASE UNCHANGED driverVars
  <2>1. /\ UNCHANGED <<core, due, saved, dueRow, alarm, queue, start, drove, struck, driverFaults, late>>
    BY <1>1 DEF driverVars
  <2>2. Spare' = Spare BY <2>1 DEF Spare
  <2>3. Typed' /\ RecordsNear' /\ InStep' BY <2>1, <2>2 DEF IInv, Typed, RecordsNear, InStep
  <2>4. Sure' = Sure BY <2>1 DEF Sure, CurrentDue
  <2>5. Resting => Resting' BY <2>1, <2>2, <2>4 DEF Resting
  <2>6. Driving => Driving' BY <2>1, <2>2 DEF Driving
  <2>7. InTime' BY <2>1, <2>5, <2>6 DEF IInv, InTime
  <2> QED BY <2>3, <2>7 DEF IInv
<1>2. CASE Alarm BY <1>2, WakeHouseKeeps, WakeTimeoutKeeps, DriveKeeps, EndWakeKeeps, EndWakeFailsKeeps DEF Alarm
<1>3. CASE WakeDies BY <1>3, WakeDiesKeeps
<1>4. CASE Evict BY <1>4, EvictKeeps
<1>5. CASE Age BY <1>5, AgeKeeps
<1>6. CASE CronTick
  <2>1. Expire(Current) \in Core /\ Follows(Current, Expire(Current)) BY CurrentFacts, RequestFollows DEF IInv
  <2> QED BY <1>6, <2>1, ServeKeeps DEF CronTick
<1>7. ASSUME NEW s \in Real, RealMove(s) PROVE IInv'
  <2>1. Submit(Expire(Current), s) \in Core /\ Follows(Current, Submit(Expire(Current), s))
    BY CurrentFacts, RequestFollows DEF IInv
  <2> QED BY <1>7, <2>1, ServeKeeps DEF RealMove
<1> QED BY <1>1, <1>2, <1>3, <1>4, <1>5, <1>6, <1>7 DEF DriverNext

\* The clock moves no house seat whose adapter answers, however requests, wakes,
\* evictions and faults interleave, if each turn waits for fewer silent seats than a
\* wake moves and the time of a turn pays for the wakes and the faults.
THEOREM HouseSeatsAreInTime ==
  ASSUME DriverAssumption, SilentAreFew, TimeIsEnough
  PROVE  DriverSpec => []HouseSeatsMoveInTime
<1>1. DriverInit => IInv BY InitKeeps
<1>2. IInv /\ [DriverNext]_driverVars => IInv' BY StepKeeps
<1>3. IInv => HouseSeatsMoveInTime BY DEF IInv, InTime, HouseSeatsMoveInTime
<1> QED BY <1>1, <1>2, <1>3, PTL DEF DriverSpec

-----------------------------------------------------------------------------
(***************************************************************************)
(* Inclusion proofs, for trees of any size: at a given place, the verifier *)
(* accepts the leaf that is there with its audit path, and nothing else.   *)
(* So every entry of a signed log can be shown, however large the log, and *)
(* no proof shows another entry or place.                                  *)
(*                                                                         *)
(* The tree is defined from the root, split at a power of two; the         *)
(* verifier climbs from the leaf, halving two numbers.  They meet in Up: a *)
(* level of hashes has the same root, and the same paths but for their     *)
(* first siblings, as the level above it.                                  *)
(***************************************************************************)

-----------------------------------------------------------------------------
(* Induction.                                                              *)

LEMMA Induct ==
  ASSUME NEW T, \A n \in Nat : (\A m \in 0 .. n - 1 : m \in T) => n \in T
  PROVE  \A n \in Nat : n \in T
<1> SUFFICES ASSUME Nat \ T # {} PROVE FALSE
  OBVIOUS
<1>1. PICK m \in Nat \ T : \A n \in Nat \ T : m <= n
  BY LeastNumber, Nat \ T \in SUBSET Nat
<1>2. \A n \in 0 .. m - 1 : n \in T BY <1>1
<1> QED BY <1>1, <1>2

-----------------------------------------------------------------------------
(* Where a tree is split.                                                  *)

Doubled(n) == CHOOSE f : f = [k \in 1 .. n |-> IF 2 * k < n THEN f[2 * k] ELSE k]

LEMMA DoubledDef ==
  ASSUME NEW n \in Nat, NEW k \in 1 .. n
  PROVE  Doubled(n)[k] = IF 2 * k < n THEN Doubled(n)[2 * k] ELSE k
<1> DEFINE Is(f, j) == f = [i \in n - j .. n |-> IF 2 * i < n THEN f[2 * i] ELSE i]
           T == {j \in Nat : j < n => \E f : Is(f, j)}
<1>1. ASSUME NEW j \in Nat, \A i \in 0 .. j - 1 : i \in T PROVE j \in T
  <2> SUFFICES ASSUME j < n PROVE \E f : Is(f, j) OBVIOUS
  <2>1. CASE j = 0
    <3> DEFINE f == [i \in n .. n |-> i]
    <3>1. Is(f, 0) OBVIOUS
    <3> QED BY <2>1, <3>1
  <2>2. CASE j # 0
    <3>1. j - 1 \in T /\ j - 1 < n BY <1>1, <2>2
    <3>2. PICK f : Is(f, j - 1) BY <3>1
    <3> DEFINE m == n - j
               g == [i \in m .. n |-> IF i = m THEN (IF 2 * m < n THEN f[2 * m] ELSE m) ELSE f[i]]
    <3>3. m \in 1 .. n /\ n - (j - 1) = m + 1 BY <2>2
    <3>4. \A i \in m + 1 .. n : g[i] = f[i] /\ f[i] = IF 2 * i < n THEN f[2 * i] ELSE i
      BY <3>2, <3>3
    <3>5. \A i \in m .. n : 2 * i < n => g[2 * i] = f[2 * i] BY <3>3, <3>4
    <3>6. \A i \in m .. n : g[i] = IF 2 * i < n THEN g[2 * i] ELSE i BY <3>3, <3>4, <3>5
    <3>7. Is(g, j) BY <3>6
    <3> QED BY <3>7
  <2> QED BY <2>1, <2>2
<1>2. n - 1 \in T
  <2> HIDE DEF T
  <2> QED BY <1>1, Induct
<1>3. \E f : f = [i \in 1 .. n |-> IF 2 * i < n THEN f[2 * i] ELSE i]
  BY <1>2, n - (n - 1) = 1
<1>4. Doubled(n) = [i \in 1 .. n |-> IF 2 * i < n THEN Doubled(n)[2 * i] ELSE i]
  BY <1>3 DEF Doubled
<1> HIDE DEF Is, T
<1> QED BY <1>4

LEMMA SplitIsDoubled == ASSUME NEW n PROVE SplitPoint(n) = Doubled(n)[1]
BY DEF SplitPoint, Doubled

LEMMA SplitInside ==
  ASSUME NEW n \in Nat, n >= 2
  PROVE  SplitPoint(n) \in 1 .. n - 1
<1> DEFINE D == Doubled(n)
           T == {j \in Nat : j < n - 1 => D[n - 1 - j] \in 1 .. n - 1}
<1>1. ASSUME NEW j \in Nat, \A i \in 0 .. j - 1 : i \in T PROVE j \in T
  <2> SUFFICES ASSUME j < n - 1 PROVE D[n - 1 - j] \in 1 .. n - 1 OBVIOUS
  <2> DEFINE k == n - 1 - j
  <2>1. k \in 1 .. n - 1 /\ k \in 1 .. n OBVIOUS
  <2>2. D[k] = IF 2 * k < n THEN D[2 * k] ELSE k BY <2>1, DoubledDef
  <2>3. ASSUME 2 * k < n PROVE D[2 * k] \in 1 .. n - 1
    <3>1. (n - 1 - 2 * k) \in 0 .. j - 1 /\ n - 1 - 2 * k < n - 1 /\ n - 1 - (n - 1 - 2 * k) = 2 * k
      BY <2>1, <2>3
    <3>2. n - 1 - 2 * k \in T BY <1>1, <3>1
    <3> QED BY <3>1, <3>2
  <2> HIDE DEF D, k
  <2>4. D[k] \in 1 .. n - 1 BY <2>1, <2>2, <2>3
  <2> QED BY <2>4 DEF k
<1>2. n - 2 \in T
  <2> HIDE DEF T
  <2> QED BY <1>1, Induct
<1>3. D[1] \in 1 .. n - 1 BY <1>2, n - 1 - (n - 2) = 1
<1> QED BY <1>3, SplitIsDoubled

\* The split of a level is twice that of the level above.
LEMMA SplitHalves ==
  ASSUME NEW n \in Nat, n >= 3
  PROVE  SplitPoint(n) = 2 * SplitPoint((n + 1) \div 2)
<1> DEFINE m == (n + 1) \div 2
<1>1. m \in Nat /\ m >= 2 /\ (n = 2 * m \/ n = 2 * m - 1) OBVIOUS
<1> HIDE DEF m
<1> DEFINE D == Doubled(n)
           H == Doubled(m)
           T == {j \in Nat : j < m - 1 => D[2 * (m - 1 - j)] = 2 * H[m - 1 - j]}
<1>2. ASSUME NEW j \in Nat, \A i \in 0 .. j - 1 : i \in T PROVE j \in T
  <2> SUFFICES ASSUME j < m - 1 PROVE D[2 * (m - 1 - j)] = 2 * H[m - 1 - j] OBVIOUS
  <2> DEFINE k == m - 1 - j
  <2>1. k \in 1 .. m - 1 /\ k \in 1 .. m /\ 2 * k \in 1 .. n BY <1>1
  <2>2. D[2 * k] = IF 2 * (2 * k) < n THEN D[2 * (2 * k)] ELSE 2 * k BY <2>1, DoubledDef
  <2>3. H[k] = IF 2 * k < m THEN H[2 * k] ELSE k BY <1>1, <2>1, DoubledDef
  <2>4. 2 * (2 * k) < n <=> 2 * k < m BY <1>1, <2>1
  <2>5. ASSUME 2 * k < m PROVE D[2 * (2 * k)] = 2 * H[2 * k]
    <3>1. (m - 1 - 2 * k) \in 0 .. j - 1 /\ m - 1 - 2 * k < m - 1 /\ m - 1 - (m - 1 - 2 * k) = 2 * k
      BY <1>1, <2>1, <2>5
    <3>2. m - 1 - 2 * k \in T BY <1>2, <3>1
    <3> QED BY <3>1, <3>2
  <2> HIDE DEF D, H, k
  <2>6. D[2 * k] = 2 * H[k] BY <2>2, <2>3, <2>4, <2>5
  <2> QED BY <2>6 DEF k
<1>3. m - 2 \in T
  <2> HIDE DEF T
  <2>1. m - 2 \in Nat BY <1>1
  <2> QED BY <1>2, <2>1, Induct
<1>4. D[2 * 1] = 2 * H[1]
  <2>1. m - 2 < m - 1 /\ m - 1 - (m - 2) = 1 BY <1>1
  <2> QED BY <1>3, <2>1
<1>5. D[1] = D[2 * 1]
  <2>1. 1 \in 1 .. n /\ 2 * 1 < n OBVIOUS
  <2> QED BY <2>1, DoubledDef
<1> HIDE DEF D, H
<1>6. SplitPoint(n) = D[1] /\ SplitPoint(m) = H[1] BY SplitIsDoubled DEF D, H
<1> QED BY <1>4, <1>5, <1>6 DEF m

LEMMA SplitOfTwo == SplitPoint(2) = 1
BY SplitInside

-----------------------------------------------------------------------------
(* Trees and paths, from the root.                                         *)

LEMMA SubtreesDef ==
  ASSUME NEW X, NEW h \in Seq(X), NEW n \in 1 .. Len(h), NEW lo \in 0 .. Len(h) - n
  PROVE  /\ n = 1 => Subtrees(h)[n][lo] = h[lo + 1]
         /\ n >= 2 => Subtrees(h)[n][lo] =
              NodeHash(Subtrees(h)[SplitPoint(n)][lo], Subtrees(h)[n - SplitPoint(n)][lo + SplitPoint(n)])
<1> DEFINE N == Len(h)
           Part(f, i) == [l \in 0 .. N - i |->
             IF i = 0 THEN EmptyHash
             ELSE IF i = 1 THEN h[l + 1]
             ELSE NodeHash(f[SplitPoint(i)][l], f[i - SplitPoint(i)][l + SplitPoint(i)])]
           Is(f, j) == f = [i \in 0 .. j |-> Part(f, i)]
           T == {j \in Nat : j <= N => \E f : Is(f, j)}
<1>0. N \in Nat OBVIOUS
<1> HIDE DEF N
<1>1. ASSUME NEW f, NEW g, NEW i \in Nat, \A k \in 0 .. i - 1 : f[k] = g[k]
      PROVE  Part(f, i) = Part(g, i)
  <2>1. CASE i < 2
    <3>1. i = 0 \/ i = 1 BY <2>1
    <3> QED BY <3>1
  <2>2. CASE i >= 2
    <3>1. SplitPoint(i) \in 0 .. i - 1 /\ i - SplitPoint(i) \in 0 .. i - 1 BY <2>2, SplitInside
    <3>2. f[SplitPoint(i)] = g[SplitPoint(i)] /\ f[i - SplitPoint(i)] = g[i - SplitPoint(i)]
      BY <1>1, <3>1
    <3> QED BY <3>2
  <2> QED BY <2>1, <2>2
<1> HIDE DEF Part
<1>2. ASSUME NEW j \in Nat, \A i \in 0 .. j - 1 : i \in T PROVE j \in T
  <2> SUFFICES ASSUME j <= N PROVE \E f : Is(f, j) OBVIOUS
  <2>1. CASE j = 0
    <3> DEFINE g == [i \in 0 .. 0 |-> Part(<<>>, i)]
    <3>1. \A i \in 0 .. 0 : Part(<<>>, i) = Part(g, i) BY <1>1
    <3>2. g = [i \in 0 .. 0 |-> Part(g, i)] BY <3>1
    <3>3. Is(g, 0) BY <3>2
    <3> QED BY <2>1, <3>3
  <2>2. CASE j # 0
    <3>1. j - 1 \in T /\ j - 1 <= N BY <1>0, <1>2, <2>2
    <3>2. PICK f : Is(f, j - 1) BY <3>1
    <3> DEFINE g == [i \in 0 .. j |-> IF i = j THEN Part(f, j) ELSE f[i]]
    <3>3. f = [i \in 0 .. j - 1 |-> Part(f, i)] BY <3>2
    <3>4. \A i \in 0 .. j - 1 : f[i] = Part(f, i) BY <3>3, Zenon
    <3>5. \A i \in 0 .. j - 1 : g[i] = f[i] BY <2>2
    <3>6. g[j] = Part(f, j) BY <2>2
    <3>7. g = [i \in 0 .. j |-> g[i]] OBVIOUS
    <3> HIDE DEF g
    <3>8. \A i \in 0 .. j : Part(f, i) = Part(g, i) BY <1>1, <3>5
    <3>9. \A i \in 0 .. j : g[i] = Part(g, i) BY <2>2, <3>4, <3>5, <3>6, <3>8
    <3>10. Is(g, j) BY <3>7, <3>9
    <3> QED BY <3>10
  <2> QED BY <2>1, <2>2
<1>3. N \in T
  <2> HIDE DEF T
  <2> QED BY <1>0, <1>2, Induct
<1>4. \E f : f = [i \in 0 .. N |-> Part(f, i)] BY <1>3
<1>5. Subtrees(h) = CHOOSE f : f = [i \in 0 .. N |-> Part(f, i)] BY DEF Subtrees, Part, N
<1>6. Subtrees(h) = [i \in 0 .. N |-> Part(Subtrees(h), i)] BY <1>4, <1>5
<1>7. n \in 0 .. N /\ lo \in 0 .. N - n /\ n \in Nat BY DEF N
<1>8. Subtrees(h)[n] = Part(Subtrees(h), n) BY <1>6, <1>7
<1> HIDE DEF Is, T
<1>9. Subtrees(h)[n][lo] = Part(Subtrees(h), n)[lo] BY <1>8
<1> QED BY <1>7, <1>9 DEF Part

LEMMA AuditPathsDef ==
  ASSUME NEW X, NEW h \in Seq(X), NEW n \in 1 .. Len(h), NEW lo \in 0 .. Len(h) - n, NEW i \in 0 .. n - 1
  PROVE  /\ n < 2 => AuditPaths(h)[n][lo][i] = <<>>
         /\ n >= 2 /\ i < SplitPoint(n) => AuditPaths(h)[n][lo][i] =
              Append(AuditPaths(h)[SplitPoint(n)][lo][i],
                     Subtrees(h)[n - SplitPoint(n)][lo + SplitPoint(n)])
         /\ n >= 2 /\ i >= SplitPoint(n) => AuditPaths(h)[n][lo][i] =
              Append(AuditPaths(h)[n - SplitPoint(n)][lo + SplitPoint(n)][i - SplitPoint(n)],
                     Subtrees(h)[SplitPoint(n)][lo])
<1> DEFINE N == Len(h)
           S == Subtrees(h)
           Part(f, m) == [l \in 0 .. N - m |-> [x \in 0 .. m - 1 |->
             LET k == SplitPoint(m)
             IN IF m = 1 THEN <<>>
                ELSE IF x < k THEN Append(f[k][l][x], S[m - k][l + k])
                ELSE Append(f[m - k][l + k][x - k], S[k][l])]]
           Is(f, j) == f = [m \in 1 .. j |-> Part(f, m)]
           T == {j \in Nat : j <= N => \E f : Is(f, j)}
<1>0. N \in Nat OBVIOUS
<1> HIDE DEF N, S
<1>1. ASSUME NEW f, NEW g, NEW m \in Nat \ {0}, \A k \in 1 .. m - 1 : f[k] = g[k]
      PROVE  Part(f, m) = Part(g, m)
  <2>1. CASE m = 1 BY <2>1
  <2>2. CASE m # 1
    <3>1. SplitPoint(m) \in 1 .. m - 1 /\ m - SplitPoint(m) \in 1 .. m - 1 BY <2>2, SplitInside
    <3>2. f[SplitPoint(m)] = g[SplitPoint(m)] /\ f[m - SplitPoint(m)] = g[m - SplitPoint(m)]
      BY <1>1, <3>1
    <3> QED BY <3>2
  <2> QED BY <2>1, <2>2
<1> HIDE DEF Part
<1>2. ASSUME NEW j \in Nat, \A m \in 0 .. j - 1 : m \in T PROVE j \in T
  <2> SUFFICES ASSUME j <= N PROVE \E f : Is(f, j) OBVIOUS
  <2>1. CASE j = 0
    <3> DEFINE g == [m \in 1 .. 0 |-> <<>>]
    <3>1. g = [m \in 1 .. 0 |-> Part(g, m)] OBVIOUS
    <3>2. Is(g, 0) BY <3>1
    <3> QED BY <2>1, <3>2
  <2>2. CASE j # 0
    <3>1. j - 1 \in T /\ j - 1 <= N BY <1>0, <1>2, <2>2
    <3>2. PICK f : Is(f, j - 1) BY <3>1
    <3> DEFINE g == [m \in 1 .. j |-> IF m = j THEN Part(f, j) ELSE f[m]]
    <3>3. f = [m \in 1 .. j - 1 |-> Part(f, m)] BY <3>2
    <3>4. \A m \in 1 .. j - 1 : f[m] = Part(f, m) BY <3>3, Zenon
    <3>5. \A m \in 1 .. j - 1 : g[m] = f[m] BY <2>2
    <3>6. g[j] = Part(f, j) BY <2>2
    <3>7. g = [m \in 1 .. j |-> g[m]] OBVIOUS
    <3> HIDE DEF g
    <3>8. \A m \in 1 .. j : Part(f, m) = Part(g, m) BY <1>1, <3>5
    <3>9. \A m \in 1 .. j : g[m] = Part(g, m) BY <2>2, <3>4, <3>5, <3>6, <3>8
    <3>10. Is(g, j) BY <3>7, <3>9
    <3> QED BY <3>10
  <2> QED BY <2>1, <2>2
<1>3. N \in T
  <2> HIDE DEF T
  <2> QED BY <1>0, <1>2, Induct
<1>4. \E f : f = [m \in 1 .. N |-> Part(f, m)] BY <1>3
<1>5. AuditPaths(h) = CHOOSE f : f = [m \in 1 .. N |-> Part(f, m)] BY DEF AuditPaths, Part, N, S
<1>6. AuditPaths(h) = [m \in 1 .. N |-> Part(AuditPaths(h), m)] BY <1>4, <1>5
<1>7. n \in 1 .. N /\ lo \in 0 .. N - n BY DEF N
<1> HIDE DEF Is, T
<1>8. AuditPaths(h)[n] = Part(AuditPaths(h), n) BY <1>6, <1>7
<1>9. AuditPaths(h)[n][lo][i] = Part(AuditPaths(h), n)[lo][i] BY <1>8
<1> DEFINE k == SplitPoint(n)
           A == AuditPaths(h)
<1>10. Part(A, n)[lo][i] =
         IF n = 1 THEN <<>>
         ELSE IF i < k THEN Append(A[k][lo][i], S[n - k][lo + k])
         ELSE Append(A[n - k][lo + k][i - k], S[k][lo])
  BY <1>7, Zenon DEF Part
<1>11. n < 2 => A[n][lo][i] = <<>>
  <2>1. n < 2 => n = 1 OBVIOUS
  <2> QED BY <1>9, <1>10, <2>1
<1>12. n >= 2 => k \in 1 .. n - 1 BY SplitInside
<1> HIDE DEF A, k
<1>13. n >= 2 /\ i < k => A[n][lo][i] = Append(A[k][lo][i], S[n - k][lo + k])
  <2> SUFFICES ASSUME n >= 2, i < k PROVE A[n][lo][i] = Append(A[k][lo][i], S[n - k][lo + k]) OBVIOUS
  <2>1. n # 1 OBVIOUS
  <2> QED BY <1>9, <1>10, <2>1, Zenon DEF A
<1>14. n >= 2 /\ i >= k => A[n][lo][i] = Append(A[n - k][lo + k][i - k], S[k][lo])
  <2> SUFFICES ASSUME n >= 2, i >= k PROVE A[n][lo][i] = Append(A[n - k][lo + k][i - k], S[k][lo]) OBVIOUS
  <2>1. n # 1 /\ ~(i < k) BY <1>12
  <2> QED BY <1>9, <1>10, <2>1, Zenon DEF A
<1> QED BY <1>11, <1>13, <1>14 DEF A, k, S

LEMMA PathOfOne ==
  ASSUME NEW X, NEW h \in Seq(X), NEW n \in 1 .. Len(h), NEW lo \in 0 .. Len(h) - n, NEW i \in 0 .. n - 1,
         n < 2
  PROVE  AuditPaths(h)[n][lo][i] = <<>>
BY AuditPathsDef, Zenon

LEMMA PathOnTheLeft ==
  ASSUME NEW X, NEW h \in Seq(X), NEW n \in 1 .. Len(h), NEW lo \in 0 .. Len(h) - n, NEW i \in 0 .. n - 1,
         n >= 2, i < SplitPoint(n)
  PROVE  AuditPaths(h)[n][lo][i] =
           Append(AuditPaths(h)[SplitPoint(n)][lo][i], Subtrees(h)[n - SplitPoint(n)][lo + SplitPoint(n)])
BY AuditPathsDef, Zenon

LEMMA PathOnTheRight ==
  ASSUME NEW X, NEW h \in Seq(X), NEW n \in 1 .. Len(h), NEW lo \in 0 .. Len(h) - n, NEW i \in 0 .. n - 1,
         n >= 2, i >= SplitPoint(n)
  PROVE  AuditPaths(h)[n][lo][i] =
           Append(AuditPaths(h)[n - SplitPoint(n)][lo + SplitPoint(n)][i - SplitPoint(n)],
                  Subtrees(h)[SplitPoint(n)][lo])
BY AuditPathsDef, Zenon

-----------------------------------------------------------------------------
(* The level above: siblings joined, a last hash without one carried over. *)

Up(h) ==
  [i \in 1 .. (Len(h) + 1) \div 2 |->
     IF 2 * i <= Len(h) THEN NodeHash(h[2 * i - 1], h[2 * i]) ELSE h[2 * i - 1]]

UpNodes(h) == {Up(h)[i] : i \in 1 .. (Len(h) + 1) \div 2}

LEMMA UpDef ==
  ASSUME NEW X, NEW h \in Seq(X)
  PROVE  /\ Up(h) \in Seq(UpNodes(h))
         /\ Len(Up(h)) = (Len(h) + 1) \div 2
         /\ \A i \in Nat : 2 * i + 1 < Len(h) => Up(h)[i + 1] = NodeHash(h[2 * i + 1], h[2 * i + 2])
         /\ \A i \in Nat : 2 * i + 1 = Len(h) => Up(h)[i + 1] = h[2 * i + 1]
<1>1. Len(h) \in Nat /\ (Len(h) + 1) \div 2 \in Nat OBVIOUS
<1>2. \A i \in 1 .. (Len(h) + 1) \div 2 : Up(h)[i] \in UpNodes(h) BY Zenon DEF UpNodes
<1>3. Up(h) = [i \in 1 .. (Len(h) + 1) \div 2 |-> Up(h)[i]] BY Zenon DEF Up
<1>4. Up(h) \in Seq(UpNodes(h)) /\ Len(Up(h)) = (Len(h) + 1) \div 2
  <2> DEFINE u == Up(h)
             m == (Len(h) + 1) \div 2
             U == UpNodes(h)
  <2>1. m \in Nat /\ u = [i \in 1 .. m |-> u[i]] /\ \A i \in 1 .. m : u[i] \in U
    BY <1>1, <1>2, <1>3
  <2> HIDE DEF u, m, U
  <2>2. u \in Seq(U) /\ Len(u) = m BY <2>1
  <2> QED BY <2>2 DEF u, m, U
<1>5. ASSUME NEW i \in Nat, 2 * i + 1 < Len(h)
      PROVE  Up(h)[i + 1] = NodeHash(h[2 * i + 1], h[2 * i + 2])
  <2>1. i + 1 \in 1 .. (Len(h) + 1) \div 2 /\ 2 * (i + 1) <= Len(h) /\ 2 * (i + 1) - 1 = 2 * i + 1
        /\ 2 * (i + 1) = 2 * i + 2
    BY <1>1, <1>5
  <2> QED BY <2>1 DEF Up
<1>6. ASSUME NEW i \in Nat, 2 * i + 1 = Len(h) PROVE Up(h)[i + 1] = h[2 * i + 1]
  <2>1. i + 1 \in 1 .. (Len(h) + 1) \div 2 /\ ~(2 * (i + 1) <= Len(h)) /\ 2 * (i + 1) - 1 = 2 * i + 1
    BY <1>1, <1>6
  <2> QED BY <2>1 DEF Up
<1> QED BY <1>4, <1>5, <1>6

\* A subtree of whole pairs, or at the end, is a subtree of the level above.
LEMMA HalveRoot ==
  ASSUME NEW X, NEW h \in Seq(X)
  PROVE  \A n \in 1 .. Len(h) : \A lo \in 0 .. Len(h) - n :
           (lo % 2 = 0 /\ (n % 2 = 0 \/ lo + n = Len(h))) =>
             Subtrees(h)[n][lo] = Subtrees(Up(h))[(n + 1) \div 2][lo \div 2]
<1> DEFINE N == Len(h)
           u == Up(h)
           M == Len(u)
           U == UpNodes(h)
           Pairs(n, lo) == lo % 2 = 0 /\ (n % 2 = 0 \/ lo + n = N)
           Same(n, lo) == Subtrees(h)[n][lo] = Subtrees(u)[(n + 1) \div 2][lo \div 2]
           T == {n \in Nat : n \in 1 .. N => \A lo \in 0 .. N - n : Pairs(n, lo) => Same(n, lo)}
<1>0. N \in Nat /\ u \in Seq(U) /\ M = (N + 1) \div 2 BY UpDef
<1>1. ASSUME NEW n \in Nat, \A m \in 0 .. n - 1 : m \in T PROVE n \in T
  <2> SUFFICES ASSUME n \in 1 .. N, NEW lo \in 0 .. N - n, Pairs(n, lo) PROVE Same(n, lo) OBVIOUS
  <2> DEFINE m == (n + 1) \div 2
             at == lo \div 2
  <2>0. m \in 1 .. M /\ at \in 0 .. M - m /\ lo = 2 * at /\ (n = 2 * m \/ (n = 2 * m - 1 /\ lo + n = N))
    BY <1>0
  <2> HIDE DEF u, M, U, m, at
  <2>1. CASE n = 1
    <3>1. m = 1 /\ 2 * at + 1 = N BY <2>0, <2>1
    <3>2. Subtrees(h)[n][lo] = h[lo + 1] BY <2>1, SubtreesDef
    <3>3. Subtrees(u)[m][at] = u[at + 1] BY <1>0, <2>0, <3>1, SubtreesDef DEF M
    <3>4. u[at + 1] = h[2 * at + 1] BY <2>0, <3>1, UpDef DEF u
    <3> QED BY <2>0, <3>2, <3>3, <3>4 DEF m, at
  <2>2. CASE n = 2
    <3>1. m = 1 /\ 2 * at + 1 < N BY <2>0, <2>2
    <3>2. 1 \in 1 .. Len(h) /\ lo \in 0 .. Len(h) - 1 /\ lo + 1 \in 0 .. Len(h) - 1 BY <2>2
    <3>3. Subtrees(h)[1][lo] = h[lo + 1] /\ Subtrees(h)[1][lo + 1] = h[lo + 1 + 1] BY <3>2, SubtreesDef
    <3>4. Subtrees(h)[2][lo] = NodeHash(Subtrees(h)[1][lo], Subtrees(h)[2 - 1][lo + 1])
      <4>1. 2 \in 1 .. Len(h) /\ lo \in 0 .. Len(h) - 2 BY <2>2
      <4> QED BY <4>1, SplitOfTwo, SubtreesDef
    <3>5. Subtrees(u)[m][at] = u[at + 1] BY <1>0, <2>0, <3>1, SubtreesDef DEF M
    <3>6. u[at + 1] = NodeHash(h[2 * at + 1], h[2 * at + 2]) BY <2>0, <3>1, UpDef DEF u
    <3>7. lo + 1 = 2 * at + 1 /\ lo + 1 + 1 = 2 * at + 2 /\ 2 - 1 = 1 BY <2>0
    <3>8. Subtrees(h)[n][lo] = Subtrees(u)[m][at] BY <2>2, <3>3, <3>4, <3>5, <3>6, <3>7
    <3> QED BY <3>8 DEF m, at
  <2>3. CASE n >= 3
    <3> DEFINE k == SplitPoint(n)
               j == SplitPoint(m)
    <3>1. k = 2 * j /\ k \in 1 .. n - 1 /\ j \in 1 .. m - 1
      <4>1. m \in Nat /\ m >= 2 BY <2>0, <2>3
      <4>2. k = 2 * j BY <2>3, SplitHalves DEF m
      <4>3. k \in 1 .. n - 1 BY <2>3, SplitInside
      <4>4. j \in 1 .. m - 1 BY <4>1, SplitInside
      <4> QED BY <4>2, <4>3, <4>4
    <3> HIDE DEF k, j
    <3>2. Same(k, lo)
      <4>1. k \in T /\ k \in 1 .. N /\ lo \in 0 .. N - k /\ k % 2 = 0 BY <1>0, <1>1, <3>1
      <4> QED BY <4>1
    <3>3. Same(n - k, lo + k)
      <4>1. n - k \in 0 .. n - 1 /\ n - k \in 1 .. N /\ lo + k \in 0 .. N - (n - k)
        BY <1>0, <3>1
      <4>2. n - k \in T BY <1>1, <4>1
      <4>3. Pairs(n - k, lo + k) BY <1>0, <3>1
      <4> QED BY <4>1, <4>2, <4>3
    <3>4. (k + 1) \div 2 = j /\ (n - k + 1) \div 2 = m - j /\ (lo + k) \div 2 = at + j
      BY <2>0, <3>1
    <3>5. Subtrees(h)[n][lo] = NodeHash(Subtrees(h)[k][lo], Subtrees(h)[n - k][lo + k])
      BY <2>3, SubtreesDef DEF k
    <3>6. Subtrees(u)[m][at] = NodeHash(Subtrees(u)[j][at], Subtrees(u)[m - j][at + j])
      <4>1. m \in 1 .. Len(u) /\ at \in 0 .. Len(u) - m /\ m >= 2 BY <1>0, <2>0, <3>1 DEF M
      <4> QED BY <1>0, <4>1, SubtreesDef DEF j
    <3>7. Subtrees(h)[k][lo] = Subtrees(u)[j][at] BY <3>2, <3>4 DEF at
    <3>8. Subtrees(h)[n - k][lo + k] = Subtrees(u)[m - j][at + j] BY <3>3, <3>4
    <3>9. Subtrees(h)[n][lo] = Subtrees(u)[m][at] BY <3>5, <3>6, <3>7, <3>8
    <3> QED BY <3>9 DEF m, at
  <2> QED BY <2>1, <2>2, <2>3
<1>2. \A n \in Nat : n \in T
  <2> HIDE DEF T
  <2> QED BY <1>1, Induct
<1>3. \A n \in 1 .. N : \A lo \in 0 .. N - n : Pairs(n, lo) => Same(n, lo)
  <2> HIDE DEF Pairs, Same, N
  <2>1. \A n \in 1 .. N : n \in Nat BY <1>0
  <2> QED BY <1>2, <2>1, Zenon
<1> QED BY <1>3

-----------------------------------------------------------------------------
(* The paths of a level and of the level above.                            *)

Segments(h) == {x \in (1 .. Len(h)) \X (0 .. Len(h)) : x[2] + x[1] <= Len(h)}
Nodes(h) == {Subtrees(h)[x[1]][x[2]] : x \in Segments(h)}

LEMMA SubtreeIsNode ==
  ASSUME NEW X, NEW h \in Seq(X), NEW n \in 1 .. Len(h), NEW lo \in 0 .. Len(h) - n
  PROVE  Subtrees(h)[n][lo] \in Nodes(h)
<1>1. \E x \in Segments(h) : x[1] = n /\ x[2] = lo
  <2>1. <<n, lo>> \in Segments(h) BY DEF Segments
  <2> QED BY <2>1
<1> QED BY <1>1, Zenon DEF Nodes

LEMMA LeafIsNode ==
  ASSUME NEW X, NEW h \in Seq(X), NEW i \in 1 .. Len(h)
  PROVE  h[i] \in Nodes(h)
<1>1. 1 \in 1 .. Len(h) /\ i - 1 \in 0 .. Len(h) - 1 /\ (i - 1) + 1 = i OBVIOUS
<1>2. Subtrees(h)[1][i - 1] = h[(i - 1) + 1] BY <1>1, SubtreesDef
<1> QED BY <1>1, <1>2, SubtreeIsNode

LEMMA Lengthened == \A V, q, x : q \in Seq(V) /\ x \in V => Append(q, x) \in Seq(V) /\ Append(q, x) # <<>>
OBVIOUS

LEMMA PathIsSeq ==
  ASSUME NEW X, NEW h \in Seq(X)
  PROVE  \A n \in 1 .. Len(h) : \A lo \in 0 .. Len(h) - n : \A i \in 0 .. n - 1 :
           /\ AuditPaths(h)[n][lo][i] \in Seq(Nodes(h))
           /\ n >= 2 => AuditPaths(h)[n][lo][i] # <<>>
<1> DEFINE N == Len(h)
           P == AuditPaths(h)
           S == Subtrees(h)
           V == Nodes(h)
           Good(n, lo, i) == P[n][lo][i] \in Seq(V) /\ (n >= 2 => P[n][lo][i] # <<>>)
           T == {n \in Nat : n \in 1 .. N => \A lo \in 0 .. N - n : \A i \in 0 .. n - 1 : Good(n, lo, i)}
<1>0. N \in Nat OBVIOUS
<1>1. \A n \in 1 .. N : \A lo \in 0 .. N - n : S[n][lo] \in V BY SubtreeIsNode, Zenon
<1>2. ASSUME NEW n \in 1 .. N, NEW lo \in 0 .. N - n, NEW i \in 0 .. n - 1
      PROVE  n < 2 => P[n][lo][i] = <<>>
  BY PathOfOne, Zenon
<1>3. ASSUME NEW n \in 1 .. N, NEW lo \in 0 .. N - n, NEW i \in 0 .. n - 1, n >= 2
      PROVE  LET k == SplitPoint(n)
             IN /\ i < k => P[n][lo][i] = Append(P[k][lo][i], S[n - k][lo + k])
                /\ i >= k => P[n][lo][i] = Append(P[n - k][lo + k][i - k], S[k][lo])
  <2> DEFINE k == SplitPoint(n)
  <2>1. ASSUME i < k PROVE P[n][lo][i] = Append(P[k][lo][i], S[n - k][lo + k])
    BY <1>3, <2>1, PathOnTheLeft, Zenon
  <2>2. ASSUME i >= k PROVE P[n][lo][i] = Append(P[n - k][lo + k][i - k], S[k][lo])
    BY <1>3, <2>2, PathOnTheRight, Zenon
  <2> QED BY <2>1, <2>2
<1> HIDE DEF N, P, S, V
<1>4. ASSUME NEW n \in Nat, \A m \in 0 .. n - 1 : m \in T PROVE n \in T
  <2> SUFFICES ASSUME n \in 1 .. N, NEW lo \in 0 .. N - n, NEW i \in 0 .. n - 1 PROVE Good(n, lo, i)
    OBVIOUS
  <2>1. CASE n < 2
    <3>1. P[n][lo][i] = <<>> BY <1>2, <2>1
    <3> QED BY <2>1, <3>1
  <2>2. CASE n >= 2
    <3> DEFINE k == SplitPoint(n)
    <3>1. k \in 1 .. n - 1 BY <2>2, SplitInside
    <3> HIDE DEF k
    <3>3. CASE i < k
      <4>1. k \in 0 .. n - 1 /\ k \in 1 .. N /\ lo \in 0 .. N - k /\ i \in 0 .. k - 1
            /\ n - k \in 1 .. N /\ lo + k \in 0 .. N - (n - k)
        BY <1>0, <3>1, <3>3
      <4>2. k \in T BY <1>4, <4>1
      <4>3. P[k][lo][i] \in Seq(V) BY <4>1, <4>2
      <4>4. P[n][lo][i] = Append(P[k][lo][i], S[n - k][lo + k]) BY <1>3, <2>2, <3>3, Zenon DEF k
      <4>5. S[n - k][lo + k] \in V BY <1>1, <4>1
      <4> QED BY <4>3, <4>4, <4>5, Lengthened, Zenon
    <3>4. CASE i >= k
      <4>1. n - k \in 0 .. n - 1 /\ n - k \in 1 .. N /\ lo + k \in 0 .. N - (n - k) /\ i - k \in 0 .. n - k - 1
            /\ k \in 1 .. N /\ lo \in 0 .. N - k
        BY <1>0, <3>1, <3>4
      <4>2. n - k \in T BY <1>4, <4>1
      <4>3. P[n - k][lo + k][i - k] \in Seq(V) BY <4>1, <4>2
      <4>4. P[n][lo][i] = Append(P[n - k][lo + k][i - k], S[k][lo]) BY <1>3, <2>2, <3>4, Zenon DEF k
      <4>5. S[k][lo] \in V BY <1>1, <4>1
      <4> QED BY <4>3, <4>4, <4>5, Lengthened, Zenon
    <3> QED BY <3>1, <3>3, <3>4
  <2> QED BY <2>1, <2>2
<1>5. \A n \in Nat : n \in T
  <2> HIDE DEF T
  <2> QED BY <1>4, Induct
<1>6. \A n \in 1 .. N : \A lo \in 0 .. N - n : \A i \in 0 .. n - 1 : Good(n, lo, i)
  <2> HIDE DEF Good
  <2>1. \A n \in 1 .. N : n \in Nat BY <1>0
  <2> QED BY <1>5, <2>1, Zenon
<1> QED BY <1>6 DEF N, P, V

Joined(L, q) == L \o q
Added(q, s) == Append(q, s)

LEMMA AddedToJoined ==
  ASSUME NEW A, NEW L \in Seq(A), NEW q \in Seq(A), NEW s \in A
  PROVE  Added(Joined(L, q), s) = Joined(L, Added(q, s))
BY DEF Joined, Added

\* The sibling of a hash on its own level, if it has one.
Sibling(h, n, lo, i) ==
  IF i % 2 = 1 THEN <<h[lo + i]>>
  ELSE IF i + 1 < n THEN <<h[lo + i + 2]>>
  ELSE <<>>

LEMMA SiblingIsSeq ==
  ASSUME NEW X, NEW h \in Seq(X), NEW n \in 1 .. Len(h), NEW lo \in 0 .. Len(h) - n, NEW i \in 0 .. n - 1
  PROVE  Sibling(h, n, lo, i) \in Seq(Nodes(h))
<1>1. CASE i % 2 = 1
  <2>1. lo + i \in 1 .. Len(h) BY <1>1
  <2>2. h[lo + i] \in Nodes(h) BY <2>1, LeafIsNode
  <2> QED BY <1>1, <2>2 DEF Sibling
<1>2. CASE i % 2 # 1 /\ i + 1 < n
  <2>1. lo + i + 2 \in 1 .. Len(h) BY <1>2
  <2>2. h[lo + i + 2] \in Nodes(h) BY <2>1, LeafIsNode
  <2> QED BY <1>2, <2>2 DEF Sibling
<1>3. CASE i % 2 # 1 /\ ~(i + 1 < n) BY <1>3 DEF Sibling
<1> QED BY <1>1, <1>2, <1>3

\* A path is the sibling, if there is one, and the path on the level above.
LEMMA HalvePath ==
  ASSUME NEW X, NEW h \in Seq(X)
  PROVE  \A n \in 1 .. Len(h) : \A lo \in 0 .. Len(h) - n : \A i \in 0 .. n - 1 :
           (lo % 2 = 0 /\ (n % 2 = 0 \/ lo + n = Len(h))) =>
             AuditPaths(h)[n][lo][i] =
               Joined(Sibling(h, n, lo, i), AuditPaths(Up(h))[(n + 1) \div 2][lo \div 2][i \div 2])
<1> DEFINE N == Len(h)
           u == Up(h)
           M == Len(u)
           P == AuditPaths(h)
           Q == AuditPaths(u)
           S == Subtrees(h)
           R == Subtrees(u)
           A == Nodes(h) \cup Nodes(u)
           First(n, lo, i) == Sibling(h, n, lo, i)
           Pairs(n, lo) == lo % 2 = 0 /\ (n % 2 = 0 \/ lo + n = N)
           Same(n, lo, i) == P[n][lo][i] = First(n, lo, i) \o Q[(n + 1) \div 2][lo \div 2][i \div 2]
           T == {n \in Nat : n \in 1 .. N =>
                   \A lo \in 0 .. N - n : \A i \in 0 .. n - 1 : Pairs(n, lo) => Same(n, lo, i)}
<1>1. N \in Nat /\ u \in Seq(UpNodes(h)) /\ M = (N + 1) \div 2 BY UpDef
<1>2. ASSUME NEW n \in 1 .. N, NEW lo \in 0 .. N - n, NEW i \in 0 .. n - 1
      PROVE  n < 2 => P[n][lo][i] = <<>>
  BY PathOfOne, Zenon
<1>3. ASSUME NEW n \in 1 .. N, NEW lo \in 0 .. N - n, NEW i \in 0 .. n - 1, n >= 2
      PROVE  LET k == SplitPoint(n)
             IN /\ i < k => P[n][lo][i] = Append(P[k][lo][i], S[n - k][lo + k])
                /\ i >= k => P[n][lo][i] = Append(P[n - k][lo + k][i - k], S[k][lo])
  <2> DEFINE k == SplitPoint(n)
  <2>1. ASSUME i < k PROVE P[n][lo][i] = Append(P[k][lo][i], S[n - k][lo + k])
    BY <1>3, <2>1, PathOnTheLeft, Zenon
  <2>2. ASSUME i >= k PROVE P[n][lo][i] = Append(P[n - k][lo + k][i - k], S[k][lo])
    BY <1>3, <2>2, PathOnTheRight, Zenon
  <2> QED BY <2>1, <2>2
<1>4. ASSUME NEW n \in 1 .. M, NEW lo \in 0 .. M - n, NEW i \in 0 .. n - 1
      PROVE  n < 2 => Q[n][lo][i] = <<>>
  <2> HIDE DEF u
  <2> QED BY <1>1, PathOfOne, Zenon
<1>5. ASSUME NEW n \in 1 .. M, NEW lo \in 0 .. M - n, NEW i \in 0 .. n - 1, n >= 2
      PROVE  LET k == SplitPoint(n)
             IN /\ i < k => Q[n][lo][i] = Append(Q[k][lo][i], R[n - k][lo + k])
                /\ i >= k => Q[n][lo][i] = Append(Q[n - k][lo + k][i - k], R[k][lo])
  <2> DEFINE k == SplitPoint(n)
  <2> HIDE DEF u
  <2>1. ASSUME i < k PROVE Q[n][lo][i] = Append(Q[k][lo][i], R[n - k][lo + k])
    BY <1>1, <1>5, <2>1, PathOnTheLeft, Zenon
  <2>2. ASSUME i >= k PROVE Q[n][lo][i] = Append(Q[n - k][lo + k][i - k], R[k][lo])
    BY <1>1, <1>5, <2>2, PathOnTheRight, Zenon
  <2> QED BY <2>1, <2>2
<1>6. ASSUME NEW n \in 1 .. N, NEW lo \in 0 .. N - n
      PROVE  /\ S[n][lo] \in A
             /\ n < 2 => S[n][lo] = h[lo + 1]
             /\ Pairs(n, lo) => S[n][lo] = R[(n + 1) \div 2][lo \div 2]
  <2>1. S[n][lo] \in A BY SubtreeIsNode
  <2>2. n < 2 => S[n][lo] = h[lo + 1] BY SubtreesDef
  <2>3. Pairs(n, lo) => S[n][lo] = R[(n + 1) \div 2][lo \div 2] BY HalveRoot, Zenon
  <2> QED BY <2>1, <2>2, <2>3
<1>7. ASSUME NEW n \in 1 .. M, NEW lo \in 0 .. M - n, NEW i \in 0 .. n - 1
      PROVE  Q[n][lo][i] \in Seq(A)
  <2> DEFINE V == Nodes(u)
  <2>1. Q[n][lo][i] \in Seq(V)
    <3> HIDE DEF u
    <3> QED BY <1>1, PathIsSeq, Zenon
  <2>2. V \subseteq A OBVIOUS
  <2> HIDE DEF Q, A, V
  <2> QED BY <2>1, <2>2
<1>8. ASSUME NEW n \in 1 .. N, NEW lo \in 0 .. N - n, NEW i \in 0 .. n - 1
      PROVE  First(n, lo, i) \in Seq(A)
  <2> DEFINE V == Nodes(h)
  <2>1. First(n, lo, i) \in Seq(V) BY SiblingIsSeq, Zenon
  <2>2. V \subseteq A OBVIOUS
  <2> HIDE DEF First, A, V
  <2> QED BY <2>1, <2>2
<1>9. \A n, lo, i : First(n, lo, i) =
        IF i % 2 = 1 THEN <<h[lo + i]>> ELSE IF i + 1 < n THEN <<h[lo + i + 2]>> ELSE <<>>
  BY Zenon DEF Sibling
<1> HIDE DEF N, u, M, P, Q, S, R, A, First
<1>10. ASSUME NEW n \in Nat, \A m \in 0 .. n - 1 : m \in T PROVE n \in T
  <2> SUFFICES ASSUME n \in 1 .. N, NEW lo \in 0 .. N - n, Pairs(n, lo), NEW i \in 0 .. n - 1
               PROVE  Same(n, lo, i)
    OBVIOUS
  <2> DEFINE m == (n + 1) \div 2
             at == lo \div 2
             half == i \div 2
  <2>0. /\ m \in 1 .. M /\ at \in 0 .. M - m /\ half \in 0 .. m - 1 /\ lo = 2 * at
        /\ n = 2 * m \/ (n = 2 * m - 1 /\ lo + n = N)
        /\ i = 2 * half \/ i = 2 * half + 1
    BY <1>1
  <2> SUFFICES P[n][lo][i] = First(n, lo, i) \o Q[m][at][half] OBVIOUS
  <2>1. CASE n = 1
    <3>1. m = 1 /\ i = 0 BY <2>1
    <3> HIDE DEF m, at, half
    <3>2. P[n][lo][i] = <<>> BY <1>2, <2>1
    <3>3. Q[m][at][half] = <<>> BY <1>4, <2>0, <3>1
    <3>4. First(n, lo, i) = <<>> BY <1>9, <2>1, <3>1
    <3> QED BY <3>2, <3>3, <3>4
  <2>2. CASE n = 2
    <3>1. m = 1 /\ (i = 0 \/ i = 1) BY <2>2
    <3> HIDE DEF m, at, half
    <3>2. 1 \in 1 .. N /\ lo \in 0 .. N - 1 /\ lo + 1 \in 0 .. N - 1 /\ 0 \in 0 .. 1 - 1
      BY <1>1, <2>2
    <3>3. Q[m][at][half] = <<>> BY <1>4, <2>0, <3>1
    <3>4. CASE i = 0
      <4>1. P[n][lo][i] = Append(P[1][lo][i], S[n - 1][lo + 1])
        <5>1. n >= 2 /\ SplitPoint(n) = 1 /\ i < SplitPoint(n) BY <2>2, <3>4, SplitOfTwo
        <5> QED BY <1>3, <5>1, Zenon
      <4>2. P[1][lo][i] = <<>> BY <1>2, <3>2, <3>4
      <4>3. S[n - 1][lo + 1] = h[lo + i + 2]
        <5>1. n - 1 = 1 /\ (lo + 1) + 1 = lo + i + 2 BY <2>2, <3>4
        <5>2. S[1][lo + 1] = h[(lo + 1) + 1] BY <1>6, <3>2
        <5> QED BY <5>1, <5>2
      <4>4. First(n, lo, i) = <<h[lo + i + 2]>> BY <1>9, <2>2, <3>4
      <4> QED BY <3>3, <4>1, <4>2, <4>3, <4>4
    <3>5. CASE i = 1
      <4>1. P[n][lo][i] = Append(P[n - 1][lo + 1][i - 1], S[1][lo])
        <5>1. n >= 2 /\ SplitPoint(n) = 1 /\ i >= SplitPoint(n) BY <2>2, <3>5, SplitOfTwo
        <5> QED BY <1>3, <5>1, Zenon
      <4>2. P[n - 1][lo + 1][i - 1] = <<>>
        <5>1. n - 1 = 1 /\ i - 1 = 0 BY <2>2, <3>5
        <5>2. P[1][lo + 1][0] = <<>> BY <1>2, <3>2
        <5> QED BY <5>1, <5>2
      <4>3. S[1][lo] = h[lo + i]
        <5>1. S[1][lo] = h[lo + 1] BY <1>6, <3>2
        <5> QED BY <3>5, <5>1
      <4>4. First(n, lo, i) = <<h[lo + i]>> BY <1>9, <3>5
      <4> QED BY <3>3, <4>1, <4>2, <4>3, <4>4
    <3> QED BY <3>1, <3>4, <3>5
  <2>3. CASE n >= 3
    <3> DEFINE k == SplitPoint(n)
               j == SplitPoint(m)
    <3>1. k = 2 * j /\ k \in 1 .. n - 1 /\ j \in 1 .. m - 1 BY <2>0, <2>3, SplitHalves, SplitInside
    <3>2. n >= 2 BY <2>3
    <3> HIDE DEF k, j
    <3>3. k \in 1 .. N /\ lo \in 0 .. N - k /\ n - k \in 1 .. N /\ lo + k \in 0 .. N - (n - k)
      BY <1>1, <3>1
    <3>4. /\ j \in 1 .. M /\ at \in 0 .. M - j /\ m - j \in 1 .. M /\ at + j \in 0 .. M - (m - j)
          /\ m >= 2
      BY <1>1, <2>0, <3>1
    <3>5. Pairs(k, lo) /\ Pairs(n - k, lo + k) BY <1>1, <3>1
    <3>6. (k + 1) \div 2 = j /\ (n - k + 1) \div 2 = m - j /\ (lo + k) \div 2 = at + j BY <2>0, <3>1
    <3> HIDE DEF Pairs
    <3>7. S[k][lo] = R[j][at] /\ S[k][lo] \in A BY <1>6, <3>3, <3>5, <3>6
    <3>8. S[n - k][lo + k] = R[m - j][at + j] /\ S[n - k][lo + k] \in A
      BY <1>6, <3>3, <3>5, <3>6
    <3>9. First(n, lo, i) \in Seq(A) BY <1>8
    <3>10. CASE i < k
      <4>1. k \in 0 .. n - 1 /\ i \in 0 .. k - 1 /\ half \in 0 .. j - 1 /\ half < j BY <2>0, <3>1, <3>10
      <4>2. k \in T BY <1>10, <4>1
      <4>3. Same(k, lo, i) BY <3>3, <3>5, <4>1, <4>2
      <4>4. First(k, lo, i) = First(n, lo, i)
        <5>1. i % 2 = 1 \/ (i + 1 < k /\ i + 1 < n) BY <3>1, <3>10
        <5> QED BY <1>9, <5>1
      <4>5. P[k][lo][i] = First(n, lo, i) \o Q[j][at][half] BY <3>6, <4>3, <4>4
      <4>6. P[n][lo][i] = Append(P[k][lo][i], S[n - k][lo + k]) BY <1>3, <3>2, <3>10, Zenon DEF k
      <4>7. Q[m][at][half] = Append(Q[j][at][half], R[m - j][at + j])
        BY <1>5, <2>0, <3>4, <4>1, Zenon DEF j
      <4>8. Q[j][at][half] \in Seq(A) BY <1>7, <3>4, <4>1
      <4>9. PICK q : q = Q[j][at][half] OBVIOUS
      <4>10. PICK s : s = S[n - k][lo + k] OBVIOUS
      <4>11. PICK L : L = First(n, lo, i) OBVIOUS
      <4>12. L \in Seq(A) /\ q \in Seq(A) /\ s \in A BY <3>8, <3>9, <4>8, <4>9, <4>10, <4>11
      <4>13. Append(L \o q, s) = L \o Append(q, s)
        <5>1. Added(Joined(L, q), s) = Joined(L, Added(q, s)) BY <4>12, AddedToJoined
        <5> QED BY <5>1, Zenon DEF Added, Joined
      <4>14. P[k][lo][i] = L \o q BY <4>5, <4>9, <4>11
      <4>15. P[n][lo][i] = Append(L \o q, s) BY <4>6, <4>10, <4>14, Zenon
      <4>16. Q[m][at][half] = Append(q, s) BY <3>8, <4>7, <4>9, <4>10, Zenon
      <4> QED BY <4>11, <4>13, <4>15, <4>16, Zenon
    <3>11. CASE i >= k
      <4>1. /\ n - k \in 0 .. n - 1 /\ i - k \in 0 .. n - k - 1
            /\ half >= j /\ half - j \in 0 .. m - j - 1 /\ (i - k) \div 2 = half - j
        BY <2>0, <3>1, <3>11
      <4>2. n - k \in T BY <1>10, <4>1
      <4>3. Same(n - k, lo + k, i - k) BY <3>3, <3>5, <4>1, <4>2
      <4>4. First(n - k, lo + k, i - k) = First(n, lo, i)
        <5>1. /\ (i - k) % 2 = 1 <=> i % 2 = 1
              /\ i - k + 1 < n - k <=> i + 1 < n
              /\ lo + k + (i - k) = lo + i /\ lo + k + (i - k) + 2 = lo + i + 2
          BY <3>1, <3>11
        <5> QED BY <1>9, <5>1
      <4>5. P[n - k][lo + k][i - k] = First(n, lo, i) \o Q[m - j][at + j][half - j]
        BY <3>6, <4>1, <4>3, <4>4
      <4>6. P[n][lo][i] = Append(P[n - k][lo + k][i - k], S[k][lo]) BY <1>3, <3>2, <3>11, Zenon DEF k
      <4>7. Q[m][at][half] = Append(Q[m - j][at + j][half - j], R[j][at])
        BY <1>5, <2>0, <3>4, <4>1, Zenon DEF j
      <4>8. Q[m - j][at + j][half - j] \in Seq(A) BY <1>7, <3>4, <4>1
      <4>9. PICK q : q = Q[m - j][at + j][half - j] OBVIOUS
      <4>10. PICK s : s = S[k][lo] OBVIOUS
      <4>11. PICK L : L = First(n, lo, i) OBVIOUS
      <4>12. L \in Seq(A) /\ q \in Seq(A) /\ s \in A BY <3>7, <3>9, <4>8, <4>9, <4>10, <4>11
      <4>13. Append(L \o q, s) = L \o Append(q, s)
        <5>1. Added(Joined(L, q), s) = Joined(L, Added(q, s)) BY <4>12, AddedToJoined
        <5> QED BY <5>1, Zenon DEF Added, Joined
      <4>14. P[n - k][lo + k][i - k] = L \o q BY <4>5, <4>9, <4>11
      <4>15. P[n][lo][i] = Append(L \o q, s) BY <4>6, <4>10, <4>14, Zenon
      <4>16. Q[m][at][half] = Append(q, s) BY <3>7, <4>7, <4>9, <4>10, Zenon
      <4> QED BY <4>11, <4>13, <4>15, <4>16, Zenon
    <3> QED BY <3>1, <3>10, <3>11
  <2>4. n = 1 \/ n = 2 \/ n >= 3 BY <1>1
  <2> QED BY <2>1, <2>2, <2>3, <2>4, Zenon
<1>11. \A n \in Nat : n \in T
  <2> HIDE DEF T
  <2> QED BY <1>10, Induct
<1>12. \A n \in 1 .. N : \A lo \in 0 .. N - n : \A i \in 0 .. n - 1 : Pairs(n, lo) => Same(n, lo, i)
  <2> HIDE DEF Pairs, Same
  <2>1. \A n \in 1 .. N : n \in Nat BY <1>1
  <2> QED BY <1>11, <2>1, Zenon
<1> QED BY <1>12 DEF N, u, P, Q, First, Joined

-----------------------------------------------------------------------------
(* The verifier's climb.                                                   *)

CarriedUp(n) == CHOOSE f : f = [x \in 0 .. n |-> IF x # 0 /\ x % 2 = 0 THEN f[x \div 2] ELSE x]

LEMMA CarriedUpDef ==
  ASSUME NEW n \in Nat, NEW x \in 0 .. n
  PROVE  CarriedUp(n)[x] = IF x # 0 /\ x % 2 = 0 THEN CarriedUp(n)[x \div 2] ELSE x
<1> DEFINE Part(f, i) == IF i # 0 /\ i % 2 = 0 THEN f[i \div 2] ELSE i
           Is(f, j) == f = [i \in 0 .. j |-> Part(f, i)]
           T == {j \in Nat : \E f : Is(f, j)}
<1>1. ASSUME NEW f, NEW g, NEW i \in Nat, \A k \in 0 .. i - 1 : f[k] = g[k]
      PROVE  Part(f, i) = Part(g, i)
  <2>1. i # 0 => i \div 2 \in 0 .. i - 1 OBVIOUS
  <2> QED BY <1>1, <2>1
<1> HIDE DEF Part
<1>2. ASSUME NEW j \in Nat, \A i \in 0 .. j - 1 : i \in T PROVE j \in T
  <2> SUFFICES \E f : Is(f, j) OBVIOUS
  <2>1. CASE j = 0
    <3> DEFINE g == [i \in 0 .. 0 |-> Part(<<>>, i)]
    <3>1. \A i \in 0 .. 0 : Part(<<>>, i) = Part(g, i) BY <1>1
    <3>2. g = [i \in 0 .. 0 |-> Part(g, i)] BY <3>1
    <3>3. Is(g, 0) BY <3>2
    <3> QED BY <2>1, <3>3
  <2>2. CASE j # 0
    <3>1. j - 1 \in T BY <1>2, <2>2
    <3>2. PICK f : Is(f, j - 1) BY <3>1
    <3> DEFINE g == [i \in 0 .. j |-> IF i = j THEN Part(f, j) ELSE f[i]]
    <3>3. f = [i \in 0 .. j - 1 |-> Part(f, i)] BY <3>2
    <3>4. \A i \in 0 .. j - 1 : f[i] = Part(f, i) BY <3>3, Zenon
    <3>5. \A i \in 0 .. j - 1 : g[i] = f[i] BY <2>2
    <3>6. g[j] = Part(f, j) BY <2>2
    <3>7. g = [i \in 0 .. j |-> g[i]] OBVIOUS
    <3> HIDE DEF g
    <3>8. \A i \in 0 .. j : Part(f, i) = Part(g, i) BY <1>1, <3>5
    <3>9. \A i \in 0 .. j : g[i] = Part(g, i) BY <2>2, <3>4, <3>5, <3>6, <3>8
    <3>10. Is(g, j) BY <3>7, <3>9
    <3> QED BY <3>10
  <2> QED BY <2>1, <2>2
<1>3. n \in T
  <2> HIDE DEF T
  <2> QED BY <1>2, Induct
<1>4. \E f : f = [i \in 0 .. n |-> Part(f, i)] BY <1>3
<1>5. CarriedUp(n) = CHOOSE f : f = [i \in 0 .. n |-> Part(f, i)] BY DEF CarriedUp, Part
<1>6. CarriedUp(n) = [i \in 0 .. n |-> Part(CarriedUp(n), i)] BY <1>4, <1>5
<1> HIDE DEF Is, T
<1>7. CarriedUp(n)[x] = Part(CarriedUp(n), x) BY <1>6
<1> QED BY <1>7 DEF Part

LEMMA CarriedDef ==
  ASSUME NEW n \in Nat
  PROVE  /\ (n = 0 \/ n % 2 = 1) => Carried(n) = n
         /\ (n # 0 /\ n % 2 = 0) => Carried(n) = Carried(n \div 2)
<1> DEFINE T == {x \in Nat : \A m \in Nat : x <= m => CarriedUp(m)[x] = CarriedUp(x)[x]}
<1>1. ASSUME NEW x \in Nat, \A y \in 0 .. x - 1 : y \in T PROVE x \in T
  <2> SUFFICES ASSUME NEW m \in Nat, x <= m PROVE CarriedUp(m)[x] = CarriedUp(x)[x] OBVIOUS
  <2>1. x \in 0 .. m /\ x \in 0 .. x OBVIOUS
  <2>2. CASE x # 0 /\ x % 2 = 0
    <3> DEFINE y == x \div 2
    <3>1. y \in 0 .. x - 1 /\ y \in Nat /\ y <= m /\ y <= x BY <2>2
    <3>2. CarriedUp(m)[x] = CarriedUp(m)[y] /\ CarriedUp(x)[x] = CarriedUp(x)[y]
      BY <2>1, <2>2, CarriedUpDef
    <3> HIDE DEF y
    <3>3. y \in T BY <1>1, <3>1
    <3>4. CarriedUp(m)[y] = CarriedUp(y)[y] /\ CarriedUp(x)[y] = CarriedUp(y)[y] BY <3>1, <3>3
    <3> QED BY <3>2, <3>4
  <2>3. CASE ~(x # 0 /\ x % 2 = 0)
    <3>1. CarriedUp(m)[x] = x /\ CarriedUp(x)[x] = x BY <2>1, <2>3, CarriedUpDef
    <3> QED BY <3>1
  <2> QED BY <2>2, <2>3
<1>2. \A x \in Nat : x \in T
  <2> HIDE DEF T
  <2> QED BY <1>1, Induct
<1>3. \A x \in Nat : Carried(x) = CarriedUp(x)[x] BY DEF Carried, CarriedUp
<1>4. n \in 0 .. n OBVIOUS
<1>5. CASE n = 0 \/ n % 2 = 1
  <2>1. CarriedUp(n)[n] = n BY <1>4, <1>5, CarriedUpDef
  <2> QED BY <1>3, <1>5, <2>1
<1>6. CASE n # 0 /\ n % 2 = 0
  <2> DEFINE y == n \div 2
  <2>1. y \in Nat /\ y <= n BY <1>6
  <2>2. CarriedUp(n)[n] = CarriedUp(n)[y] BY <1>4, <1>6, CarriedUpDef
  <2> HIDE DEF y
  <2>3. y \in T BY <1>2, <2>1
  <2>4. CarriedUp(n)[y] = CarriedUp(y)[y] BY <2>1, <2>3
  <2>5. Carried(n) = Carried(y) BY <1>3, <2>1, <2>2, <2>4
  <2> QED BY <1>6, <2>5 DEF y
<1> QED BY <1>5, <1>6

After(at, p) == CHOOSE f : f = [m \in 0 .. Len(p) |-> IF m = 0 THEN at ELSE Climb(f[m - 1], p[m])]

LEMMA AfterDef ==
  ASSUME NEW P, NEW p \in Seq(P), NEW at
  PROVE  /\ After(at, p)[0] = at
         /\ \A m \in 1 .. Len(p) : After(at, p)[m] = Climb(After(at, p)[m - 1], p[m])
<1> DEFINE N == Len(p)
           Part(f, i) == IF i = 0 THEN at ELSE Climb(f[i - 1], p[i])
           Is(f, j) == f = [i \in 0 .. j |-> Part(f, i)]
           T == {j \in Nat : \E f : Is(f, j)}
<1>0. N \in Nat OBVIOUS
<1> HIDE DEF N
<1>1. ASSUME NEW f, NEW g, NEW i \in Nat, \A k \in 0 .. i - 1 : f[k] = g[k]
      PROVE  Part(f, i) = Part(g, i)
  <2>1. CASE i = 0 BY <2>1
  <2>2. CASE i # 0
    <3>1. i - 1 \in 0 .. i - 1 BY <2>2
    <3>2. f[i - 1] = g[i - 1] BY <1>1, <3>1
    <3> QED BY <2>2, <3>2
  <2> QED BY <2>1, <2>2
<1>2. \A f : Part(f, 0) = at OBVIOUS
<1>3. \A f : \A i \in 1 .. N : Part(f, i) = Climb(f[i - 1], p[i]) BY <1>0
<1> HIDE DEF Part
<1>4. ASSUME NEW j \in Nat, \A i \in 0 .. j - 1 : i \in T PROVE j \in T
  <2> SUFFICES \E f : Is(f, j) OBVIOUS
  <2>1. CASE j = 0
    <3> DEFINE g == [i \in 0 .. 0 |-> Part(<<>>, i)]
    <3>1. \A i \in 0 .. 0 : Part(<<>>, i) = Part(g, i) BY <1>1
    <3>2. g = [i \in 0 .. 0 |-> Part(g, i)] BY <3>1
    <3>3. Is(g, 0) BY <3>2
    <3> QED BY <2>1, <3>3
  <2>2. CASE j # 0
    <3>1. j - 1 \in T BY <1>4, <2>2
    <3>2. PICK f : Is(f, j - 1) BY <3>1
    <3> DEFINE g == [i \in 0 .. j |-> IF i = j THEN Part(f, j) ELSE f[i]]
    <3>3. f = [i \in 0 .. j - 1 |-> Part(f, i)] BY <3>2
    <3>4. \A i \in 0 .. j - 1 : f[i] = Part(f, i) BY <3>3, Zenon
    <3>5. \A i \in 0 .. j - 1 : g[i] = f[i] BY <2>2
    <3>6. g[j] = Part(f, j) BY <2>2
    <3>7. g = [i \in 0 .. j |-> g[i]] OBVIOUS
    <3> HIDE DEF g
    <3>8. \A i \in 0 .. j : Part(f, i) = Part(g, i) BY <1>1, <3>5
    <3>9. \A i \in 0 .. j : g[i] = Part(g, i) BY <2>2, <3>4, <3>5, <3>6, <3>8
    <3>10. Is(g, j) BY <3>7, <3>9
    <3> QED BY <3>10
  <2> QED BY <2>1, <2>2
<1>5. N \in T
  <2> HIDE DEF T
  <2> QED BY <1>0, <1>4, Induct
<1>6. \E f : f = [i \in 0 .. N |-> Part(f, i)] BY <1>5
<1>7. After(at, p) = CHOOSE f : f = [i \in 0 .. N |-> Part(f, i)] BY DEF After, Part, N
<1>8. After(at, p) = [i \in 0 .. N |-> Part(After(at, p), i)] BY <1>6, <1>7
<1> HIDE DEF Is, T
<1>9. \A i \in 0 .. N : After(at, p)[i] = Part(After(at, p), i) BY <1>8, Zenon
<1>10. After(at, p)[0] = at BY <1>0, <1>9, <1>2
<1>11. \A i \in 1 .. N : After(at, p)[i] = Climb(After(at, p)[i - 1], p[i]) BY <1>0, <1>9, <1>3
<1> QED BY <1>10, <1>11 DEF N

LEMMA ClimbedIsAfter ==
  ASSUME NEW at, NEW p PROVE Climbed(at, p) = After(at, p)[Len(p)]
BY DEF Climbed, After

LEMMA ClimbedOfNone ==
  ASSUME NEW at PROVE Climbed(at, <<>>) = at
<1>1. <<>> \in Seq({}) /\ Len(<<>>) = 0 OBVIOUS
<1> QED BY <1>1, AfterDef, ClimbedIsAfter

LEMMA ClimbedOfMore ==
  ASSUME NEW P, NEW p \in Seq(P), p # <<>>, NEW at
  PROVE  Climbed(at, p) = Climbed(Climb(at, p[1]), Tail(p))
<1> DEFINE q == Tail(p)
           N == Len(p)
           F == After(at, p)
           G == After(Climb(at, p[1]), q)
           T == {m \in Nat : m <= N - 1 => F[m + 1] = G[m]}
<1>1. /\ N \in Nat \ {0} /\ q \in Seq(P) /\ Len(q) = N - 1
      /\ \A i \in 1 .. N - 1 : q[i] = p[i + 1]
  OBVIOUS
<1> HIDE DEF q
<1>2. F[0] = at /\ \A m \in 1 .. N : F[m] = Climb(F[m - 1], p[m]) BY AfterDef
<1>3. G[0] = Climb(at, p[1]) /\ \A m \in 1 .. N - 1 : G[m] = Climb(G[m - 1], q[m])
  BY <1>1, AfterDef
<1> HIDE DEF F, G, N
<1>4. ASSUME NEW m \in Nat, \A k \in 0 .. m - 1 : k \in T PROVE m \in T
  <2> SUFFICES ASSUME m <= N - 1 PROVE F[m + 1] = G[m] OBVIOUS
  <2>1. m + 1 \in 1 .. N /\ (m + 1) - 1 = m BY <1>1
  <2>2. F[m + 1] = Climb(F[m], p[m + 1]) BY <1>2, <2>1
  <2>3. CASE m = 0
    <3>1. p[m + 1] = p[1] BY <2>3
    <3> QED BY <1>2, <1>3, <2>2, <2>3, <3>1
  <2>4. CASE m # 0
    <3>1. m - 1 \in T /\ m - 1 <= N - 1 /\ m \in 1 .. N - 1 /\ (m - 1) + 1 = m BY <1>1, <1>4, <2>4
    <3>2. F[m] = G[m - 1] BY <3>1
    <3>3. G[m] = Climb(G[m - 1], q[m]) /\ q[m] = p[m + 1] BY <1>1, <1>3, <3>1
    <3> QED BY <2>2, <3>2, <3>3
  <2> QED BY <2>3, <2>4
<1>5. N - 1 \in T
  <2> HIDE DEF T
  <2>1. N - 1 \in Nat BY <1>1
  <2> QED BY <1>4, <2>1, Induct
<1>6. F[N] = G[N - 1]
  <2>1. (N - 1) + 1 = N BY <1>1
  <2> QED BY <1>1, <1>5, <2>1
<1> QED BY <1>1, <1>6, ClimbedIsAfter DEF F, G, N, q

\* A proof that went on at the root is too long.
LEMMA TooLongStays ==
  ASSUME NEW P, NEW p \in Seq(P), NEW at, at.tooLong = TRUE
  PROVE  Climbed(at, p).tooLong = TRUE
<1> DEFINE T == {n \in Nat : \A q \in Seq(P) : \A a :
                   (Len(q) = n /\ a.tooLong = TRUE) => Climbed(a, q).tooLong = TRUE}
<1>1. ASSUME NEW n \in Nat, \A m \in 0 .. n - 1 : m \in T PROVE n \in T
  <2> SUFFICES ASSUME NEW q \in Seq(P), NEW a, Len(q) = n, a.tooLong = TRUE
               PROVE  Climbed(a, q).tooLong = TRUE
    OBVIOUS
  <2>1. CASE q = <<>> BY <2>1, ClimbedOfNone
  <2>2. CASE q # <<>>
    <3>1. n # 0 /\ Tail(q) \in Seq(P) /\ Len(Tail(q)) = n - 1 BY <2>2
    <3>2. n - 1 \in T BY <1>1, <3>1
    <3>3. Climb(a, q[1]).tooLong = TRUE BY DEF Climb
    <3>4. Climbed(Climb(a, q[1]), Tail(q)).tooLong = TRUE BY <3>1, <3>2, <3>3
    <3> QED BY <2>2, <3>4, ClimbedOfMore
  <2> QED BY <2>1, <2>2
<1>2. \A n \in Nat : n \in T
  <2> HIDE DEF T
  <2> QED BY <1>1, Induct
<1>3. Len(p) \in T BY <1>2
<1> QED BY <1>3

-----------------------------------------------------------------------------
(* What the verifier accepts.                                              *)

AtLeaf(j, n, r) == [fn |-> j, sn |-> n - 1, r |-> r, tooLong |-> FALSE]
Accepts(at, p, root) ==
  LET top == Climbed(at, p)
  IN ~top.tooLong /\ top.sn = 0 /\ top.r = root

LEMMA NodesAreTerms ==
  ASSUME NEW a, NEW b, NEW c, NEW d
  PROVE  NodeHash(a, b) = NodeHash(c, d) <=> a = c /\ b = d
BY DEF NodeHash

LEMMA SplitFirst ==
  ASSUME NEW P, NEW p \in Seq(P), p # <<>>, NEW B, NEW q \in Seq(B), NEW x
  PROVE  p = Joined(<<x>>, q) <=> p[1] = x /\ Tail(p) = q
<1>1. ASSUME p = <<x>> \o q PROVE p[1] = x /\ Tail(p) = q
  <2>1. <<x>> \in Seq({x} \cup B) /\ q \in Seq({x} \cup B) OBVIOUS
  <2>2. (<<x>> \o q)[1] = x BY <2>1
  <2>3. Len(p) = Len(q) + 1 /\ \A i \in 1 .. Len(q) : p[i + 1] = q[i] BY <1>1, <2>1
  <2> DEFINE rest == Tail(p)
  <2>4. rest \in Seq(P) /\ Len(rest) = Len(p) - 1 /\ \A i \in 1 .. Len(p) - 1 : rest[i] = p[i + 1]
    OBVIOUS
  <2> HIDE DEF rest
  <2>5. Len(rest) = Len(q) /\ \A i \in 1 .. Len(q) : rest[i] = q[i] BY <2>3, <2>4
  <2>6. rest = q BY <2>4, <2>5
  <2> QED BY <1>1, <2>2, <2>6 DEF rest
<1>2. ASSUME p[1] = x, Tail(p) = q PROVE p = <<x>> \o q
  <2>1. p = <<p[1]>> \o Tail(p) OBVIOUS
  <2> QED BY <1>2, <2>1
<1> QED BY <1>1, <1>2 DEF Joined

LEMMA NoneBefore == ASSUME NEW P, NEW p \in Seq(P) PROVE <<>> \o p = p
OBVIOUS

\* A last hash without a sibling waits on its own level: the level above does as well.
LEMMA ClimbAtTheEnd ==
  ASSUME NEW i \in Nat \ {0}, NEW n, n - 1 = i, NEW r, NEW s
  PROVE  Climb(AtLeaf(i, n, r), s) =
           [fn |-> Carried(i) \div 2, sn |-> Carried(i) \div 2, r |-> NodeHash(s, r), tooLong |-> FALSE]
<1> DEFINE at == [fn |-> i, sn |-> i, r |-> r, tooLong |-> FALSE]
<1>1. AtLeaf(i, n, r) = at BY DEF AtLeaf
<1>2. at.fn = i /\ at.sn = i /\ at.r = r /\ (at.tooLong \/ at.sn = 0) = FALSE OBVIOUS
<1> HIDE DEF at
<1>3. Climb(at, s) =
        [fn |-> Carried(i) \div 2, sn |-> Carried(i) \div 2, r |-> NodeHash(s, r), tooLong |-> FALSE]
  BY <1>2, Zenon DEF Climb
<1> QED BY <1>1, <1>3

LEMMA ClimbAfterCarry ==
  ASSUME NEW j \in Nat, j # 0, j % 2 = 0, NEW r, NEW s
  PROVE  Climb(AtLeaf(j, j + 1, r), s) = Climb(AtLeaf(j \div 2, j \div 2 + 1, r), s)
<1>1. j \in Nat \ {0} /\ j \div 2 \in Nat \ {0} /\ (j + 1) - 1 = j /\ (j \div 2 + 1) - 1 = j \div 2
  OBVIOUS
<1>2. Carried(j) = Carried(j \div 2) BY CarriedDef
<1>3. Climb(AtLeaf(j, j + 1, r), s) =
        [fn |-> Carried(j) \div 2, sn |-> Carried(j) \div 2, r |-> NodeHash(s, r), tooLong |-> FALSE]
  BY <1>1, ClimbAtTheEnd, Zenon
<1>4. Climb(AtLeaf(j \div 2, j \div 2 + 1, r), s) =
        [fn |-> Carried(j \div 2) \div 2, sn |-> Carried(j \div 2) \div 2, r |-> NodeHash(s, r), tooLong |-> FALSE]
  BY <1>1, ClimbAtTheEnd, Zenon
<1> QED BY <1>2, <1>3, <1>4, Zenon

LEMMA ClimbToPair ==
  ASSUME NEW n \in Nat, n >= 2, NEW j \in 0 .. n - 1, NEW r, NEW s
  PROVE  /\ j % 2 = 1 => Climb(AtLeaf(j, n, r), s) = AtLeaf(j \div 2, (n + 1) \div 2, NodeHash(s, r))
         /\ (j % 2 = 0 /\ j + 1 < n) =>
              Climb(AtLeaf(j, n, r), s) = AtLeaf(j \div 2, (n + 1) \div 2, NodeHash(r, s))
<1>1. ((n + 1) \div 2) - 1 = (n - 1) \div 2 /\ n - 1 # 0 OBVIOUS
<1>2. ASSUME j % 2 = 1
      PROVE  Climb(AtLeaf(j, n, r), s) = AtLeaf(j \div 2, (n + 1) \div 2, NodeHash(s, r))
  <2>1. j = n - 1 => Carried(j) = j /\ Carried(n - 1) = n - 1 BY <1>2, CarriedDef
  <2> QED BY <1>1, <1>2, <2>1 DEF Climb, AtLeaf
<1>3. ASSUME j % 2 = 0, j + 1 < n
      PROVE  Climb(AtLeaf(j, n, r), s) = AtLeaf(j \div 2, (n + 1) \div 2, NodeHash(r, s))
  <2>1. j # n - 1 /\ j % 2 # 1 BY <1>3
  <2> QED BY <1>1, <2>1 DEF Climb, AtLeaf
<1> QED BY <1>2, <1>3

\* At place j of a tree: its leaf with its path, and nothing else.
AcceptedIn(n) ==
  \A X : \A h \in Seq(X) : \A P : \A p \in Seq(P) : \A r : \A j \in 0 .. n - 1 :
    Len(h) = n =>
      (Accepts(AtLeaf(j, n, r), p, Subtrees(h)[n][0]) <=> r = h[j + 1] /\ p = AuditPaths(h)[n][0][j])

LEMMA AcceptedInOne == AcceptedIn(1)
<1> SUFFICES ASSUME NEW X, NEW h \in Seq(X), NEW P, NEW p \in Seq(P), NEW r, NEW j \in 0 .. 1 - 1,
                    Len(h) = 1
             PROVE  Accepts(AtLeaf(j, 1, r), p, Subtrees(h)[1][0]) <=> r = h[j + 1] /\ p = AuditPaths(h)[1][0][j]
  BY Zenon DEF AcceptedIn
<1> DEFINE root == Subtrees(h)[1][0]
           path == AuditPaths(h)[1][0][j]
           at == AtLeaf(j, 1, r)
<1>1. j = 0 /\ 1 \in 1 .. Len(h) /\ 0 \in 0 .. Len(h) - 1 OBVIOUS
<1>2. root = h[j + 1] BY <1>1, SubtreesDef
<1>3. path = <<>>
  <2>1. 1 < 2 OBVIOUS
  <2> QED BY <1>1, <2>1, PathOfOne, Zenon
<1>4. at.sn = 0 /\ at.r = r /\ at.tooLong = FALSE BY DEF AtLeaf
<1> HIDE DEF root, path, at
<1>5. CASE p = <<>>
  <2>1. Climbed(at, p) = at BY <1>5, ClimbedOfNone
  <2> QED BY <1>2, <1>3, <1>4, <1>5, <2>1 DEF Accepts, root, path, at
<1>6. CASE p # <<>>
  <2>1. Climb(at, p[1]).tooLong = TRUE BY <1>4 DEF Climb
  <2>2. Tail(p) \in Seq(P) BY <1>6
  <2>3. Climbed(at, p) = Climbed(Climb(at, p[1]), Tail(p)) BY <1>6, ClimbedOfMore
  <2>4. Climbed(Climb(at, p[1]), Tail(p)).tooLong = TRUE BY <2>1, <2>2, TooLongStays
  <2>5. ~Accepts(at, p, root) BY <2>3, <2>4 DEF Accepts
  <2> QED BY <1>3, <1>6, <2>5 DEF root, path, at
<1> QED BY <1>5, <1>6

LEMMA AcceptedAbove ==
  ASSUME NEW n \in Nat, n >= 2, AcceptedIn((n + 1) \div 2)
  PROVE  AcceptedIn(n)
<1> SUFFICES ASSUME NEW X, NEW h \in Seq(X), NEW P, NEW p \in Seq(P), NEW r, NEW j \in 0 .. n - 1,
                    Len(h) = n
             PROVE  Accepts(AtLeaf(j, n, r), p, Subtrees(h)[n][0]) <=> r = h[j + 1] /\ p = AuditPaths(h)[n][0][j]
  BY Zenon DEF AcceptedIn
<1> DEFINE m == (n + 1) \div 2
           u == Up(h)
           U == UpNodes(h)
           i == j \div 2
           root == Subtrees(h)[n][0]
           path == AuditPaths(h)[n][0][j]
           above == AuditPaths(u)[m][0][i]
           at == AtLeaf(j, n, r)
           q == Tail(p)
           s == p[1]
           V == Nodes(u)
<1>1. u \in Seq(U) /\ Len(u) = m BY UpDef
<1>2. /\ n \in 1 .. Len(h) /\ 0 \in 0 .. Len(h) - n /\ 0 % 2 = 0 /\ 0 + n = Len(h)
      /\ m \in 1 .. m /\ 0 \in 0 .. m - m /\ i \in 0 .. m - 1 /\ 0 \div 2 = 0
  OBVIOUS
<1>3. root = Subtrees(u)[m][0]
  <2>1. Subtrees(h)[n][0] = Subtrees(Up(h))[(n + 1) \div 2][0 \div 2] BY <1>2, HalveRoot, Zenon
  <2> QED BY <1>2, <2>1
<1>4. path = Joined(Sibling(h, n, 0, j), above)
  <2>1. AuditPaths(h)[n][0][j] =
          Joined(Sibling(h, n, 0, j), AuditPaths(Up(h))[(n + 1) \div 2][0 \div 2][j \div 2])
    <3>1. \A k \in 1 .. Len(h) : \A lo \in 0 .. Len(h) - k : \A l \in 0 .. k - 1 :
            (lo % 2 = 0 /\ (k % 2 = 0 \/ lo + k = Len(h))) =>
              AuditPaths(h)[k][lo][l] =
                Joined(Sibling(h, k, lo, l), AuditPaths(Up(h))[(k + 1) \div 2][lo \div 2][l \div 2])
      BY HalvePath
    <3> QED BY <1>2, <3>1, Zenon
  <2> QED BY <1>2, <2>1
<1>5. path # <<>> BY <1>2, PathIsSeq, Zenon
<1>6. above \in Seq(V)
  <2> HIDE DEF u
  <2> QED BY <1>1, <1>2, PathIsSeq, Zenon
<1>7. ASSUME NEW x, NEW b \in Seq(P)
      PROVE  Accepts(AtLeaf(i, m, x), b, root) <=> x = u[i + 1] /\ b = above
  <2> HIDE DEF m, u, U, i
  <2>1. AcceptedIn(m) BY DEF m
  <2>2. Accepts(AtLeaf(i, m, x), b, Subtrees(u)[m][0]) <=> x = u[i + 1] /\ b = above
    BY <1>1, <1>2, <2>1 DEF AcceptedIn
  <2> HIDE DEF root, above
  <2> QED BY <1>3, <2>2, Zenon
<1>8. at.sn # 0 BY DEF AtLeaf
<1>9. CASE p = <<>>
  <2>1. Climbed(at, p) = at BY <1>9, ClimbedOfNone
  <2>2. ~Accepts(at, p, root) BY <1>8, <2>1 DEF Accepts
  <2> QED BY <1>5, <1>9, <2>2
<1>10. CASE p # <<>>
  <2>1. q \in Seq(P) BY <1>10
  <2>2. Accepts(at, p, root) <=> Accepts(Climb(at, s), q, root) BY <1>10, ClimbedOfMore, Zenon DEF Accepts
  <2>3. \A x : p = Joined(<<x>>, above) <=> s = x /\ q = above
    <3> HIDE DEF above, V
    <3> SUFFICES ASSUME NEW x PROVE p = Joined(<<x>>, above) <=> s = x /\ q = above OBVIOUS
    <3> QED BY <1>6, <1>10, SplitFirst
  <2>4. CASE j % 2 = 1
    <3>1. Climb(at, s) = AtLeaf(i, m, NodeHash(s, r)) BY <2>4, ClimbToPair
    <3>2. u[i + 1] = NodeHash(h[j], h[j + 1])
      <4>1. 2 * i + 1 < Len(h) /\ 2 * i + 1 = j /\ 2 * i + 2 = j + 1 /\ i \in Nat BY <2>4
      <4> HIDE DEF i
      <4> QED BY <4>1, UpDef
    <3>3. path = Joined(<<h[j]>>, above)
      <4>1. Sibling(h, n, 0, j) = <<h[j]>> BY <2>4 DEF Sibling
      <4> QED BY <1>4, <4>1
    <3> HIDE DEF m, u, i, root, path, above, at, q, s
    <3>4. Accepts(at, p, root) <=> NodeHash(s, r) = NodeHash(h[j], h[j + 1]) /\ q = above
      <4>1. Accepts(AtLeaf(i, m, NodeHash(s, r)), q, root) <=> NodeHash(s, r) = u[i + 1] /\ q = above BY <1>7, <2>1
      <4> QED BY <2>2, <3>1, <3>2, <4>1
    <3>5. p = path <=> s = h[j] /\ q = above BY <2>3, <3>3, Zenon
    <3>6. NodeHash(s, r) = NodeHash(h[j], h[j + 1]) <=> s = h[j] /\ r = h[j + 1] BY NodesAreTerms
    <3>7. Accepts(at, p, root) <=> r = h[j + 1] /\ p = path BY <3>4, <3>5, <3>6
    <3> QED BY <3>7 DEF at, root, path
  <2>5. CASE j % 2 = 0 /\ j + 1 < n
    <3>1. Climb(at, s) = AtLeaf(i, m, NodeHash(r, s)) BY <2>5, ClimbToPair
    <3>2. u[i + 1] = NodeHash(h[j + 1], h[j + 2])
      <4>1. 2 * i + 1 < Len(h) /\ 2 * i + 1 = j + 1 /\ 2 * i + 2 = j + 2 /\ i \in Nat BY <2>5
      <4> HIDE DEF i
      <4> QED BY <4>1, UpDef
    <3>3. path = Joined(<<h[j + 2]>>, above)
      <4>1. 0 + j + 2 = j + 2 /\ j % 2 # 1 BY <2>5
      <4>2. Sibling(h, n, 0, j) = <<h[j + 2]>> BY <2>5, <4>1 DEF Sibling
      <4> QED BY <1>4, <4>2
    <3> HIDE DEF m, u, i, root, path, above, at, q, s
    <3>4. Accepts(at, p, root) <=> NodeHash(r, s) = NodeHash(h[j + 1], h[j + 2]) /\ q = above
      <4>1. Accepts(AtLeaf(i, m, NodeHash(r, s)), q, root) <=> NodeHash(r, s) = u[i + 1] /\ q = above BY <1>7, <2>1
      <4> QED BY <2>2, <3>1, <3>2, <4>1
    <3>5. p = path <=> s = h[j + 2] /\ q = above BY <2>3, <3>3, Zenon
    <3>6. NodeHash(r, s) = NodeHash(h[j + 1], h[j + 2]) <=> r = h[j + 1] /\ s = h[j + 2] BY NodesAreTerms
    <3>7. Accepts(at, p, root) <=> r = h[j + 1] /\ p = path BY <3>4, <3>5, <3>6
    <3> QED BY <3>7 DEF at, root, path
  <2>6. CASE j % 2 = 0 /\ j + 1 = n
    <3>1. Climb(at, s) = Climb(AtLeaf(i, m, r), s)
      <4>1. j \in Nat /\ j # 0 /\ m = i + 1 BY <2>6
      <4>2. Climb(AtLeaf(j, j + 1, r), s) = Climb(AtLeaf(i, i + 1, r), s) BY <2>6, <4>1, ClimbAfterCarry
      <4> HIDE DEF m, i, s
      <4> QED BY <2>6, <4>1, <4>2
    <3>2. u[i + 1] = h[j + 1]
      <4>1. 2 * i + 1 = Len(h) /\ 2 * i + 1 = j + 1 /\ i \in Nat BY <2>6
      <4> HIDE DEF i
      <4>2. u[i + 1] = h[2 * i + 1] BY <4>1, UpDef
      <4> QED BY <4>1, <4>2
    <3>3. path = above
      <4>1. j % 2 # 1 /\ ~(j + 1 < n) BY <2>6
      <4>2. Sibling(h, n, 0, j) = <<>> BY <4>1 DEF Sibling
      <4> HIDE DEF above, path, V
      <4> QED BY <1>4, <1>6, <4>2, NoneBefore DEF Joined
    <3>4. Accepts(AtLeaf(i, m, r), p, root) <=> Accepts(Climb(AtLeaf(i, m, r), s), q, root)
      BY <1>10, ClimbedOfMore, Zenon DEF Accepts
    <3> HIDE DEF m, u, i, root, path, above, at, q, s
    <3>5. Accepts(AtLeaf(i, m, r), p, root) <=> r = h[j + 1] /\ p = path BY <1>7, <3>2, <3>3
    <3>6. Accepts(at, p, root) <=> r = h[j + 1] /\ p = path BY <2>2, <3>1, <3>4, <3>5
    <3> QED BY <3>6 DEF at, root, path
  <2> QED BY <2>4, <2>5, <2>6
<1> QED BY <1>9, <1>10

LEMMA Accepted ==
  ASSUME NEW n \in Nat \ {0}
  PROVE  AcceptedIn(n)
<1> DEFINE T == {k \in Nat : k # 0 => AcceptedIn(k)}
<1>1. ASSUME NEW k \in Nat, \A i \in 0 .. k - 1 : i \in T PROVE k \in T
  <2>1. CASE k = 0 BY <2>1
  <2>2. CASE k = 1 BY <2>2, AcceptedInOne
  <2>3. CASE k >= 2
    <3>1. (k + 1) \div 2 \in 0 .. k - 1 /\ (k + 1) \div 2 # 0 BY <2>3
    <3>2. AcceptedIn((k + 1) \div 2) BY <1>1, <3>1
    <3>3. AcceptedIn(k) BY <2>3, <3>2, AcceptedAbove
    <3> QED BY <3>3
  <2> QED BY <2>1, <2>2, <2>3
<1>2. \A k \in Nat : k \in T
  <2> HIDE DEF T
  <2> QED BY <1>1, Induct
<1> QED BY <1>2

-----------------------------------------------------------------------------
(* A proof shows one leaf at one place: of distinct leaves, no two subtrees *)
(* are equal, and so no two paths.                                         *)

Distinct(s) == \A i, j \in 1 .. Len(s) : s[i] = s[j] => i = j
NoNodes(h) == \A i \in 1 .. Len(h) : \A a, b : h[i] # NodeHash(a, b)

LEMMA OneSubtree ==
  ASSUME NEW X, NEW h \in Seq(X), Distinct(h), NoNodes(h)
  PROVE  \A n \in 1 .. Len(h) : \A lo \in 0 .. Len(h) - n : \A m \in 1 .. Len(h) : \A at \in 0 .. Len(h) - m :
           Subtrees(h)[n][lo] = Subtrees(h)[m][at] => n = m /\ lo = at
<1> DEFINE N == Len(h)
           S == Subtrees(h)
           T == {n \in Nat : n \in 1 .. N =>
                   \A lo \in 0 .. N - n : \A m \in 1 .. N : \A at \in 0 .. N - m :
                     S[n][lo] = S[m][at] => n = m /\ lo = at}
<1>1. N \in Nat OBVIOUS
<1>2. ASSUME NEW n \in 1 .. N, NEW lo \in 0 .. N - n
      PROVE  /\ n = 1 => S[n][lo] = h[lo + 1]
             /\ n >= 2 => S[n][lo] = NodeHash(S[SplitPoint(n)][lo], S[n - SplitPoint(n)][lo + SplitPoint(n)])
  BY SubtreesDef
<1>3. \A i, j \in 1 .. N : h[i] = h[j] => i = j BY DEF Distinct
<1>4. \A i \in 1 .. N : \A a, b : h[i] # NodeHash(a, b) BY DEF NoNodes
<1> HIDE DEF N, S
<1>5. ASSUME NEW n \in Nat, \A k \in 0 .. n - 1 : k \in T PROVE n \in T
  <2> SUFFICES ASSUME n \in 1 .. N, NEW lo \in 0 .. N - n, NEW m \in 1 .. N, NEW at \in 0 .. N - m,
                      S[n][lo] = S[m][at]
               PROVE  n = m /\ lo = at
    OBVIOUS
  <2>1. lo + 1 \in 1 .. N /\ at + 1 \in 1 .. N BY <1>1
  <2>2. CASE n = 1
    <3>1. S[m][at] = h[lo + 1] BY <1>2, <2>2
    <3>2. m = 1
      <4> SUFFICES ASSUME m >= 2 PROVE FALSE OBVIOUS
      <4> QED BY <1>2, <1>4, <2>1, <3>1
    <3>3. S[m][at] = h[at + 1] BY <1>2, <3>2
    <3> QED BY <1>3, <2>1, <2>2, <3>1, <3>2, <3>3
  <2>3. CASE n >= 2
    <3> DEFINE k == SplitPoint(n)
               l == SplitPoint(m)
    <3>1. S[n][lo] = NodeHash(S[k][lo], S[n - k][lo + k]) BY <1>2, <2>3
    <3>2. m >= 2
      <4> SUFFICES ASSUME m = 1 PROVE FALSE OBVIOUS
      <4>1. S[m][at] = h[at + 1] BY <1>2
      <4> QED BY <1>4, <2>1, <3>1, <4>1
    <3>3. S[m][at] = NodeHash(S[l][at], S[m - l][at + l]) BY <1>2, <3>2
    <3>4. S[k][lo] = S[l][at] /\ S[n - k][lo + k] = S[m - l][at + l]
      <4>1. NodeHash(S[k][lo], S[n - k][lo + k]) = NodeHash(S[l][at], S[m - l][at + l]) BY <3>1, <3>3
      <4> QED BY <4>1 DEF NodeHash
    <3>5. k \in 1 .. n - 1 /\ l \in 1 .. m - 1 BY <2>3, <3>2, SplitInside
    <3> HIDE DEF k, l
    <3>6. k = l /\ lo = at
      <4>1. k \in 0 .. n - 1 /\ k \in 1 .. N /\ lo \in 0 .. N - k /\ l \in 1 .. N /\ at \in 0 .. N - l
        BY <1>1, <3>5
      <4>2. k \in T BY <1>5, <4>1
      <4> QED BY <3>4, <4>1, <4>2
    <3>7. n - k = m - l
      <4>1. /\ n - k \in 0 .. n - 1 /\ n - k \in 1 .. N /\ lo + k \in 0 .. N - (n - k)
            /\ m - l \in 1 .. N /\ at + l \in 0 .. N - (m - l)
        BY <1>1, <3>5
      <4>2. n - k \in T BY <1>5, <4>1
      <4> QED BY <3>4, <4>1, <4>2
    <3> QED BY <3>5, <3>6, <3>7
  <2> QED BY <1>1, <2>2, <2>3
<1>6. \A n \in Nat : n \in T
  <2> HIDE DEF T
  <2> QED BY <1>5, Induct
<1> QED BY <1>1, <1>6 DEF N, S

LEMMA AddedIsOneToOne ==
  ASSUME NEW V, NEW a \in Seq(V), NEW b \in Seq(V), NEW x \in V, NEW y \in V, Added(a, x) = Added(b, y)
  PROVE  a = b /\ x = y
<1> DEFINE c == Append(a, x)
           d == Append(b, y)
<1>1. /\ Len(c) = Len(a) + 1 /\ c[Len(a) + 1] = x /\ \A i \in 1 .. Len(a) : c[i] = a[i]
      /\ Len(d) = Len(b) + 1 /\ d[Len(b) + 1] = y /\ \A i \in 1 .. Len(b) : d[i] = b[i]
  OBVIOUS
<1>2. c = d BY DEF Added
<1> HIDE DEF c, d
<1>3. Len(a) = Len(b) /\ x = y BY <1>1, <1>2
<1>4. a = b BY <1>1, <1>2, <1>3
<1> QED BY <1>3, <1>4

LEMMA OnePath ==
  ASSUME NEW X, NEW h \in Seq(X), Distinct(h), NoNodes(h)
  PROVE  \A n \in 1 .. Len(h) : \A lo \in 0 .. Len(h) - n : \A i, j \in 0 .. n - 1 :
           AuditPaths(h)[n][lo][i] = AuditPaths(h)[n][lo][j] => i = j
<1> DEFINE N == Len(h)
           S == Subtrees(h)
           P == AuditPaths(h)
           V == Nodes(h)
           T == {n \in Nat : n \in 1 .. N =>
                   \A lo \in 0 .. N - n : \A i, j \in 0 .. n - 1 : P[n][lo][i] = P[n][lo][j] => i = j}
<1>1. N \in Nat OBVIOUS
<1>2. ASSUME NEW n \in 1 .. N, NEW lo \in 0 .. N - n, NEW i \in 0 .. n - 1, n >= 2
      PROVE  LET k == SplitPoint(n)
             IN /\ i < k => P[n][lo][i] = Added(P[k][lo][i], S[n - k][lo + k])
                /\ i >= k => P[n][lo][i] = Added(P[n - k][lo + k][i - k], S[k][lo])
  <2> DEFINE k == SplitPoint(n)
  <2>1. ASSUME i < k PROVE P[n][lo][i] = Added(P[k][lo][i], S[n - k][lo + k])
    BY <1>2, <2>1, PathOnTheLeft, Zenon DEF Added
  <2>2. ASSUME i >= k PROVE P[n][lo][i] = Added(P[n - k][lo + k][i - k], S[k][lo])
    BY <1>2, <2>2, PathOnTheRight, Zenon DEF Added
  <2> QED BY <2>1, <2>2
<1>3. \A n \in 1 .. N : \A lo \in 0 .. N - n : S[n][lo] \in V BY SubtreeIsNode, Zenon
<1>4. \A n \in 1 .. N : \A lo \in 0 .. N - n : \A i \in 0 .. n - 1 : P[n][lo][i] \in Seq(V) BY PathIsSeq
<1>5. \A n \in 1 .. N : \A lo \in 0 .. N - n : \A m \in 1 .. N : \A at \in 0 .. N - m :
        S[n][lo] = S[m][at] => n = m /\ lo = at
  BY OneSubtree
<1> HIDE DEF N, S, P, V
<1>6. ASSUME NEW n \in Nat, \A k \in 0 .. n - 1 : k \in T PROVE n \in T
  <2> SUFFICES ASSUME n \in 1 .. N, NEW lo \in 0 .. N - n, NEW i \in 0 .. n - 1, NEW j \in 0 .. n - 1,
                      P[n][lo][i] = P[n][lo][j]
               PROVE  i = j
    OBVIOUS
  <2>1. CASE n < 2
    <3>1. n = 1 BY <2>1
    <3> QED BY <3>1
  <2>2. CASE n >= 2
    <3> DEFINE k == SplitPoint(n)
    <3>1. k \in 1 .. n - 1 BY <2>2, SplitInside
    <3>2. ASSUME NEW x \in 0 .. n - 1
          PROVE  /\ x < k => P[n][lo][x] = Added(P[k][lo][x], S[n - k][lo + k])
                 /\ x >= k => P[n][lo][x] = Added(P[n - k][lo + k][x - k], S[k][lo])
      BY <1>2, <2>2
    <3> HIDE DEF k
    <3>3. /\ k \in 0 .. n - 1 /\ k \in 1 .. N /\ lo \in 0 .. N - k
          /\ n - k \in 0 .. n - 1 /\ n - k \in 1 .. N /\ lo + k \in 0 .. N - (n - k) /\ lo # lo + k
      BY <1>1, <3>1
    <3>4. k \in T /\ n - k \in T BY <1>6, <3>3
    <3>5. S[k][lo] \in V /\ S[n - k][lo + k] \in V /\ S[k][lo] # S[n - k][lo + k] BY <1>3, <1>5, <3>3
    <3>6. ASSUME NEW x \in 0 .. n - 1
          PROVE  /\ x < k => x \in 0 .. k - 1 /\ P[k][lo][x] \in Seq(V)
                 /\ x >= k => x - k \in 0 .. n - k - 1 /\ P[n - k][lo + k][x - k] \in Seq(V)
      <4>1. CASE x < k
        <5>1. x \in 0 .. k - 1 BY <3>1, <4>1
        <5> QED BY <1>4, <3>3, <4>1, <5>1
      <4>2. CASE x >= k
        <5>1. x - k \in 0 .. n - k - 1 BY <3>1, <4>2
        <5> QED BY <1>4, <3>3, <4>2, <5>1
      <4> QED BY <3>1, <4>1, <4>2
    <3>7. CASE i < k /\ j < k
      <4>1. Added(P[k][lo][i], S[n - k][lo + k]) = Added(P[k][lo][j], S[n - k][lo + k]) BY <3>2, <3>7
      <4>2. P[k][lo][i] = P[k][lo][j] BY <3>5, <3>6, <3>7, <4>1, AddedIsOneToOne
      <4> QED BY <3>3, <3>4, <3>6, <3>7, <4>2
    <3>8. CASE i >= k /\ j >= k
      <4>1. Added(P[n - k][lo + k][i - k], S[k][lo]) = Added(P[n - k][lo + k][j - k], S[k][lo])
        BY <3>2, <3>8
      <4>2. P[n - k][lo + k][i - k] = P[n - k][lo + k][j - k]
        BY <3>5, <3>6, <3>8, <4>1, AddedIsOneToOne
      <4>3. i - k = j - k BY <3>3, <3>4, <3>6, <3>8, <4>2
      <4> QED BY <3>1, <4>3
    <3>9. ASSUME NEW x \in 0 .. n - 1, NEW y \in 0 .. n - 1, x < k, y >= k, P[n][lo][x] = P[n][lo][y]
          PROVE  FALSE
      <4>1. Added(P[k][lo][x], S[n - k][lo + k]) = Added(P[n - k][lo + k][y - k], S[k][lo])
        BY <3>2, <3>9
      <4>2. S[n - k][lo + k] = S[k][lo] BY <3>5, <3>6, <3>9, <4>1, AddedIsOneToOne
      <4> QED BY <3>5, <4>2
    <3>10. (i < k \/ i >= k) /\ (j < k \/ j >= k) BY <3>1
    <3> QED BY <3>7, <3>8, <3>9, <3>10
  <2> QED BY <2>1, <2>2
<1>7. \A n \in Nat : n \in T
  <2> HIDE DEF T
  <2> QED BY <1>6, Induct
<1> QED BY <1>1, <1>7 DEF N, P

LEMMA Prefix ==
  ASSUME NEW V, NEW s \in Seq(V), NEW n \in 0 .. Len(s)
  PROVE  /\ SubSeq(s, 1, n) \in Seq(V)
         /\ Len(SubSeq(s, 1, n)) = n
         /\ \A i \in 1 .. n : SubSeq(s, 1, n)[i] = s[i]
OBVIOUS

-----------------------------------------------------------------------------
(* The proofs of a signed list of distinct entries.                        *)

LEMMA LeafLevel ==
  ASSUME NEW E, NEW leaves \in Seq(E), Distinct(leaves)
  PROVE  /\ LeafHashes(leaves) \in Seq({LeafHash(x) : x \in E})
         /\ Len(LeafHashes(leaves)) = Len(leaves)
         /\ \A i \in 1 .. Len(leaves) : LeafHashes(leaves)[i] = LeafHash(leaves[i])
         /\ Distinct(LeafHashes(leaves)) /\ NoNodes(LeafHashes(leaves))
<1> DEFINE H == {LeafHash(x) : x \in E}
           h == LeafHashes(leaves)
           n == Len(leaves)
<1>1. n \in Nat /\ \A i \in 1 .. n : leaves[i] \in E OBVIOUS
<1>2. \A i \in 1 .. n : h[i] = LeafHash(leaves[i]) BY DEF LeafHashes
<1>3. \A i \in 1 .. n : h[i] \in H BY <1>1, <1>2
<1>4. h = [i \in 1 .. n |-> h[i]] BY DEF LeafHashes
<1>5. \A x, y : LeafHash(x) = LeafHash(y) => x = y BY DEF LeafHash
<1>6. \A x, a, b : LeafHash(x) # NodeHash(a, b) BY DEF LeafHash, NodeHash
<1>7. \A i, j \in 1 .. n : leaves[i] = leaves[j] => i = j BY DEF Distinct
<1> HIDE DEF H, h, n
<1>8. h \in Seq(H) /\ Len(h) = n BY <1>1, <1>3, <1>4
<1>9. Distinct(h) BY <1>2, <1>5, <1>7, <1>8 DEF Distinct
<1>10. NoNodes(h) BY <1>2, <1>6, <1>8 DEF NoNodes
<1> QED BY <1>2, <1>8, <1>9, <1>10 DEF H, h, n

LEMMA ShownByItsPathAlone ==
  ASSUME NEW E, NEW leaves \in Seq(E), Distinct(leaves),
         NEW l \in 0 .. Len(leaves) - 1, NEW j \in 0 .. Len(leaves) - 1, NEW P, NEW p \in Seq(P)
  PROVE  VerifyInclusion(leaves[l + 1], j, Len(leaves), p, MerkleRoot(leaves)) <=>
           l = j /\ p = InclusionProof(leaves, j)
<1> DEFINE n == Len(leaves)
           h == LeafHashes(leaves)
           H == {LeafHash(x) : x \in E}
           root == MerkleRoot(leaves)
           leaf == leaves[l + 1]
<1>1. /\ n \in Nat \ {0} /\ j \in 0 .. n - 1 /\ 0 <= j /\ j < n
      /\ l + 1 \in 1 .. n /\ j + 1 \in 1 .. n
  OBVIOUS
<1>2. h \in Seq(H) /\ Len(h) = n /\ h[j + 1] = LeafHash(leaves[j + 1]) BY <1>1, LeafLevel
<1>3. root = Subtrees(h)[n][0] /\ InclusionProof(leaves, j) = AuditPaths(h)[n][0][j]
  BY DEF MerkleRoot, InclusionProof
<1>4. LeafHash(leaf) = LeafHash(leaves[j + 1]) <=> l = j
  <2>1. LeafHash(leaf) = LeafHash(leaves[j + 1]) <=> leaf = leaves[j + 1] BY DEF LeafHash
  <2>2. leaf = leaves[j + 1] <=> l + 1 = j + 1 BY <1>1 DEF Distinct
  <2> QED BY <2>1, <2>2
<1>5. VerifyInclusion(leaf, j, n, p, root) <=> Accepts(AtLeaf(j, n, LeafHash(leaf)), p, root)
  BY <1>1, Zenon DEF VerifyInclusion, Accepts, AtLeaf
<1> HIDE DEF n, h, H, root, leaf
<1>6. Accepts(AtLeaf(j, n, LeafHash(leaf)), p, Subtrees(h)[n][0]) <=>
        LeafHash(leaf) = h[j + 1] /\ p = AuditPaths(h)[n][0][j]
  <2>1. AcceptedIn(n) BY <1>1, Accepted
  <2> QED BY <1>1, <1>2, <2>1 DEF AcceptedIn
<1>7. VerifyInclusion(leaf, j, n, p, root) <=> l = j /\ p = InclusionProof(leaves, j)
  BY <1>2, <1>3, <1>4, <1>5, <1>6
<1> QED BY <1>7 DEF n, root, leaf

LEMMA ProofIsSeq ==
  ASSUME NEW E, NEW leaves \in Seq(E), Distinct(leaves), NEW i \in 0 .. Len(leaves) - 1
  PROVE  /\ InclusionProof(leaves, i) \in Seq(Nodes(LeafHashes(leaves)))
         /\ \A j \in 0 .. Len(leaves) - 1 : InclusionProof(leaves, i) = InclusionProof(leaves, j) => i = j
<1> DEFINE n == Len(leaves)
           h == LeafHashes(leaves)
           H == {LeafHash(x) : x \in E}
<1>1. h \in Seq(H) /\ Len(h) = n /\ Distinct(h) /\ NoNodes(h) BY LeafLevel
<1>2. \A j \in 0 .. n - 1 : InclusionProof(leaves, j) = AuditPaths(h)[n][0][j] BY DEF InclusionProof
<1>3. n \in 1 .. n /\ 0 \in 0 .. n - n /\ i \in 0 .. n - 1 OBVIOUS
<1> HIDE DEF n, h, H
<1>4. AuditPaths(h)[n][0][i] \in Seq(Nodes(h)) BY <1>1, <1>3, PathIsSeq
<1>5. \A j \in 0 .. n - 1 : AuditPaths(h)[n][0][i] = AuditPaths(h)[n][0][j] => i = j
  BY <1>1, <1>3, OnePath
<1> QED BY <1>2, <1>3, <1>4, <1>5 DEF n, h

\* What EntriesAreProvable says of a checkpoint.
EachIsProvable(leaves) ==
  LET n == Len(leaves)
      root == MerkleRoot(leaves)
      shows(i, j, p) == VerifyInclusion(leaves[i + 1], j, n, p, root)
  IN \A i \in 0 .. n - 1 :
       LET p == InclusionProof(leaves, i)
       IN /\ \A j, l \in 0 .. n - 1 : shows(l, j, p) <=> l = i /\ j = i
          /\ p # <<>> => ~shows(i, i, SubSeq(p, 1, Len(p) - 1)) /\ ~shows(i, i, Append(p, p[1]))

LEMMA DistinctEntriesAreProvable ==
  ASSUME NEW E, NEW leaves \in Seq(E), Distinct(leaves)
  PROVE  EachIsProvable(leaves)
<1> DEFINE n == Len(leaves)
           root == MerkleRoot(leaves)
           shows(i, j, p) == VerifyInclusion(leaves[i + 1], j, n, p, root)
           V == Nodes(LeafHashes(leaves))
<1>1. ASSUME NEW l \in 0 .. n - 1, NEW j \in 0 .. n - 1, NEW p \in Seq(V)
      PROVE  shows(l, j, p) <=> l = j /\ p = InclusionProof(leaves, j)
  BY ShownByItsPathAlone
<1>2. ASSUME NEW i \in 0 .. n - 1
      PROVE  /\ InclusionProof(leaves, i) \in Seq(V)
             /\ \A j \in 0 .. n - 1 : InclusionProof(leaves, i) = InclusionProof(leaves, j) => i = j
  BY ProofIsSeq
<1> HIDE DEF n, root, shows, V
<1>3. ASSUME NEW i \in 0 .. n - 1
      PROVE  LET p == InclusionProof(leaves, i)
             IN /\ \A j, l \in 0 .. n - 1 : shows(l, j, p) <=> l = i /\ j = i
                /\ p # <<>> => ~shows(i, i, SubSeq(p, 1, Len(p) - 1)) /\ ~shows(i, i, Append(p, p[1]))
  <2> DEFINE p == InclusionProof(leaves, i)
  <2>1. p \in Seq(V) BY <1>2
  <2>2. ASSUME NEW j \in 0 .. n - 1, NEW l \in 0 .. n - 1
        PROVE  shows(l, j, p) <=> l = i /\ j = i
    <3>1. shows(l, j, p) <=> l = j /\ p = InclusionProof(leaves, j) BY <1>1, <2>1
    <3>2. p = InclusionProof(leaves, j) => i = j BY <1>2
    <3> QED BY <3>1, <3>2
  <2>3. \A q \in Seq(V) : q # p => ~shows(i, i, q) BY <1>1
  <2> HIDE DEF p
  <2>4. ASSUME p # <<>> PROVE ~shows(i, i, SubSeq(p, 1, Len(p) - 1)) /\ ~shows(i, i, Append(p, p[1]))
    <3> DEFINE short == SubSeq(p, 1, Len(p) - 1)
               long == Append(p, p[1])
    <3>1. short \in Seq(V) /\ Len(short) = Len(p) - 1
      <4>1. Len(p) - 1 \in 0 .. Len(p) BY <2>1, <2>4
      <4> QED BY <2>1, <4>1, Prefix
    <3>2. long \in Seq(V) /\ Len(long) = Len(p) + 1 BY <2>1, <2>4
    <3> HIDE DEF short, long
    <3>3. short # p /\ long # p BY <2>1, <3>1, <3>2
    <3>4. ~shows(i, i, short) /\ ~shows(i, i, long) BY <2>3, <3>1, <3>2, <3>3
    <3> QED BY <3>4 DEF short, long
  <2> QED BY <2>2, <2>4 DEF p
<1> QED BY <1>3, Zenon DEF EachIsProvable, n, root, shows

-----------------------------------------------------------------------------
(* Every list that a tick reads or signs is one of distinct entries.       *)

Entry == Nat \X Nat
Steps == {"idle", "compare", "read", "sign"}
Listed(s) == s \in Seq(Entry) /\ Distinct(s)

LogInv ==
  /\ stored \in [Logged -> Nat]
  /\ tick \in [LogTick -> [pc : Steps, total : Nat, leaves : Seq(Entry)]]
  /\ \A k \in LogTick : Distinct(tick[k].leaves)
  /\ checkpoint # None => Listed(checkpoint)

Rows(n, st) ==
  CHOOSE f : f = [g \in 0 .. n |->
                    IF g = 0 THEN <<>> ELSE f[g - 1] \o [i \in 1 .. st[g] |-> <<g, i - 1>>]]

LEMMA RowsDef ==
  ASSUME NEW n \in Nat, NEW st
  PROVE  /\ Rows(n, st)[0] = <<>>
         /\ \A g \in 1 .. n : Rows(n, st)[g] = Joined(Rows(n, st)[g - 1], [i \in 1 .. st[g] |-> <<g, i - 1>>])
<1> DEFINE Part(f, g) == IF g = 0 THEN <<>> ELSE f[g - 1] \o [i \in 1 .. st[g] |-> <<g, i - 1>>]
           Is(f, j) == f = [g \in 0 .. j |-> Part(f, g)]
           T == {j \in Nat : \E f : Is(f, j)}
<1>1. ASSUME NEW f, NEW h, NEW g \in Nat, \A k \in 0 .. g - 1 : f[k] = h[k]
      PROVE  Part(f, g) = Part(h, g)
  <2>1. CASE g = 0 BY <2>1
  <2>2. CASE g # 0
    <3>1. g - 1 \in 0 .. g - 1 BY <2>2
    <3>2. f[g - 1] = h[g - 1] BY <1>1, <3>1
    <3> QED BY <2>2, <3>2
  <2> QED BY <2>1, <2>2
<1>2. \A f : Part(f, 0) = <<>> OBVIOUS
<1>3. \A f : \A g \in 1 .. n : Part(f, g) = Joined(f[g - 1], [i \in 1 .. st[g] |-> <<g, i - 1>>])
  <2> SUFFICES ASSUME NEW f, NEW g \in 1 .. n
               PROVE  Part(f, g) = Joined(f[g - 1], [i \in 1 .. st[g] |-> <<g, i - 1>>])
    OBVIOUS
  <2>1. g # 0 OBVIOUS
  <2> QED BY <2>1, Zenon DEF Joined
<1> HIDE DEF Part
<1>4. ASSUME NEW j \in Nat, \A i \in 0 .. j - 1 : i \in T PROVE j \in T
  <2> SUFFICES \E f : Is(f, j) OBVIOUS
  <2>1. CASE j = 0
    <3> DEFINE h == [g \in 0 .. 0 |-> Part(<<>>, g)]
    <3>1. \A g \in 0 .. 0 : Part(<<>>, g) = Part(h, g) BY <1>1
    <3>2. h = [g \in 0 .. 0 |-> Part(h, g)] BY <3>1
    <3>3. Is(h, 0) BY <3>2
    <3> QED BY <2>1, <3>3
  <2>2. CASE j # 0
    <3>1. j - 1 \in T BY <1>4, <2>2
    <3>2. PICK f : Is(f, j - 1) BY <3>1
    <3> DEFINE h == [g \in 0 .. j |-> IF g = j THEN Part(f, j) ELSE f[g]]
    <3>3. f = [g \in 0 .. j - 1 |-> Part(f, g)] BY <3>2
    <3>4. \A g \in 0 .. j - 1 : f[g] = Part(f, g) BY <3>3, Zenon
    <3>5. \A g \in 0 .. j - 1 : h[g] = f[g] BY <2>2
    <3>6. h[j] = Part(f, j) BY <2>2
    <3>7. h = [g \in 0 .. j |-> h[g]] OBVIOUS
    <3> HIDE DEF h
    <3>8. \A g \in 0 .. j : Part(f, g) = Part(h, g) BY <1>1, <3>5
    <3>9. \A g \in 0 .. j : h[g] = Part(h, g) BY <2>2, <3>4, <3>5, <3>6, <3>8
    <3>10. Is(h, j) BY <3>7, <3>9
    <3> QED BY <3>10
  <2> QED BY <2>1, <2>2
<1>5. n \in T
  <2> HIDE DEF T
  <2> QED BY <1>4, Induct
<1>6. \E f : f = [g \in 0 .. n |-> Part(f, g)] BY <1>5
<1>7. Rows(n, st) = CHOOSE f : f = [g \in 0 .. n |-> Part(f, g)] BY DEF Rows, Part
<1>8. Rows(n, st) = [g \in 0 .. n |-> Part(Rows(n, st), g)] BY <1>6, <1>7
<1> HIDE DEF Is, T
<1>9. \A g \in 0 .. n : Rows(n, st)[g] = Part(Rows(n, st), g) BY <1>8, Zenon
<1> QED BY <1>2, <1>3, <1>9

LEMMA JoinedDef ==
  ASSUME NEW V, NEW a \in Seq(V), NEW c \in Seq(V)
  PROVE  /\ Joined(a, c) \in Seq(V)
         /\ Len(Joined(a, c)) = Len(a) + Len(c)
         /\ \A i \in 1 .. Len(a) + Len(c) :
              Joined(a, c)[i] = IF i <= Len(a) THEN a[i] ELSE c[i - Len(a)]
BY DEF Joined

LEMMA JoinedRows ==
  ASSUME NEW g \in Nat \ {0}, NEW m \in Nat, NEW a \in Seq(Entry), Distinct(a),
         \A i \in 1 .. Len(a) : a[i][1] < g
  PROVE  LET b == Joined(a, [i \in 1 .. m |-> <<g, i - 1>>])
         IN b \in Seq(Entry) /\ Distinct(b) /\ \A i \in 1 .. Len(b) : b[i][1] <= g
<1> DEFINE c == [i \in 1 .. m |-> <<g, i - 1>>]
           b == Joined(a, c)
           N == Len(a)
<1>1. c \in Seq(Entry) /\ Len(c) = m /\ \A i \in 1 .. m : c[i] = <<g, i - 1>>
  <2>1. \A i \in 1 .. m : <<g, i - 1>> \in Entry BY DEF Entry
  <2> HIDE DEF Entry
  <2> QED BY <2>1
<1>2. a \in Seq(Entry) /\ N \in Nat /\ \A i \in 1 .. N : a[i] \in Entry /\ a[i][1] < g OBVIOUS
<1>3. \A i, j \in 1 .. N : a[i] = a[j] => i = j BY DEF Distinct
<1> HIDE DEF c
<1>4. b \in Seq(Entry) /\ Len(b) = N + m /\ \A i \in 1 .. N + m : b[i] = IF i <= N THEN a[i] ELSE c[i - N]
  BY <1>1, <1>2, JoinedDef
<1> HIDE DEF b, N
<1>5. ASSUME NEW i \in 1 .. N + m
      PROVE  /\ i <= N => i \in 1 .. N /\ b[i] = a[i] /\ b[i][1] < g
             /\ i > N => b[i] = <<g, i - N - 1>> /\ b[i][1] = g
  <2>1. CASE i <= N
    <3>1. i \in 1 .. N BY <1>2, <2>1
    <3> QED BY <1>2, <1>4, <2>1, <3>1
  <2>2. CASE i > N
    <3>1. i - N \in 1 .. m BY <1>2, <2>2
    <3>2. b[i] = c[i - N] BY <1>2, <1>4, <2>2
    <3>3. c[i - N] = <<g, i - N - 1>> BY <1>1, <3>1
    <3> QED BY <1>2, <2>2, <3>2, <3>3
  <2> QED BY <1>2, <2>1, <2>2
<1>6. \A i \in 1 .. Len(b) : b[i][1] <= g
  <2> SUFFICES ASSUME NEW i \in 1 .. N + m PROVE b[i][1] <= g BY <1>4
  <2>1. CASE i <= N
    <3>1. b[i] \in Entry /\ b[i][1] < g BY <1>2, <1>5, <2>1
    <3> QED BY <3>1 DEF Entry
  <2>2. CASE i > N BY <1>5, <2>2
  <2> QED BY <1>2, <2>1, <2>2
<1>7. Distinct(b)
  <2> SUFFICES ASSUME NEW i \in 1 .. N + m, NEW j \in 1 .. N + m, b[i] = b[j] PROVE i = j
    BY <1>4 DEF Distinct
  <2>1. CASE i <= N /\ j <= N BY <1>3, <1>5, <2>1
  <2>2. CASE i > N /\ j > N
    <3>1. <<g, i - N - 1>> = <<g, j - N - 1>> BY <1>5, <2>2
    <3>2. i - N - 1 = j - N - 1 BY <3>1
    <3> QED BY <1>2, <3>2
  <2>3. CASE i <= N /\ j > N BY <1>5, <2>3
  <2>4. CASE i > N /\ j <= N BY <1>5, <2>4
  <2> QED BY <1>2, <2>1, <2>2, <2>3, <2>4
<1> QED BY <1>4, <1>6, <1>7 DEF b, c

LEMMA RowsAreListed ==
  ASSUME LogAssumption, stored \in [Logged -> Nat]
  PROVE  Listed(AllRows) /\ Total \in Nat /\ Listed(Entries)
<1> DEFINE n == Len(Length)
           R == Rows(n, stored)
           Good(g) == Listed(R[g]) /\ \A i \in 1 .. Len(R[g]) : R[g][i][1] <= g
           T == {g \in Nat : g <= n => Good(g)}
<1>1. n \in Nat /\ Logged = 1 .. n BY DEF LogAssumption, Logged
<1>2. R[0] = <<>> /\ \A g \in 1 .. n : R[g] = Joined(R[g - 1], [i \in 1 .. stored[g] |-> <<g, i - 1>>])
  BY <1>1, RowsDef
<1>3. AllRows = R[n] BY Zenon DEF AllRows, Rows
<1> HIDE DEF n, R
<1>4. ASSUME NEW g \in Nat, \A k \in 0 .. g - 1 : k \in T PROVE g \in T
  <2> SUFFICES ASSUME g <= n PROVE Good(g) OBVIOUS
  <2>1. CASE g = 0
    <3>1. R[g] = <<>> BY <1>2, <2>1
    <3> QED BY <3>1 DEF Listed, Distinct
  <2>2. CASE g # 0
    <3>1. g - 1 \in T /\ g - 1 <= n /\ g \in 1 .. n BY <1>1, <1>4, <2>2
    <3>2. Listed(R[g - 1]) /\ \A i \in 1 .. Len(R[g - 1]) : R[g - 1][i][1] <= g - 1 BY <3>1
    <3>3. \A i \in 1 .. Len(R[g - 1]) : R[g - 1][i][1] < g
      <4> SUFFICES ASSUME NEW i \in 1 .. Len(R[g - 1]) PROVE R[g - 1][i][1] < g OBVIOUS
      <4>1. R[g - 1][i] \in Entry BY <3>2 DEF Listed
      <4> QED BY <3>2, <4>1 DEF Entry
    <3>4. stored[g] \in Nat /\ g \in Nat \ {0} BY <1>1, <3>1
    <3> DEFINE a == R[g - 1]
               m == stored[g]
               b == Joined(a, [i \in 1 .. m |-> <<g, i - 1>>])
    <3>5. R[g] = b BY <1>2, <3>1
    <3>6. a \in Seq(Entry) /\ Distinct(a) /\ (\A i \in 1 .. Len(a) : a[i][1] < g) /\ m \in Nat
      BY <3>2, <3>3, <3>4 DEF Listed
    <3> HIDE DEF a, m
    <3>7. b \in Seq(Entry) /\ Distinct(b) /\ \A i \in 1 .. Len(b) : b[i][1] <= g
      BY <3>4, <3>6, JoinedRows
    <3> HIDE DEF b
    <3> QED BY <3>5, <3>7 DEF Listed
  <2> QED BY <2>1, <2>2
<1>5. \A g \in Nat : g \in T
  <2> HIDE DEF T
  <2> QED BY <1>4, Induct
<1>6. Listed(AllRows) BY <1>1, <1>3, <1>5
<1>7. Total \in Nat BY <1>6 DEF Listed, Total
<1>8. Listed(Entries)
  <2> DEFINE all == AllRows
             m == IF Total < MaxLeaves THEN Total ELSE MaxLeaves
             e == SubSeq(all, 1, m)
  <2>1. all \in Seq(Entry) /\ Distinct(all) BY <1>6 DEF Listed
  <2>2. m \in 0 .. Len(all) BY <1>7 DEF LogAssumption, Total
  <2> HIDE DEF all, m
  <2>3. e \in Seq(Entry) /\ Len(e) = m /\ \A i \in 1 .. m : e[i] = all[i] BY <2>1, <2>2, Prefix
  <2> HIDE DEF e
  <2>4. \A i, j \in 1 .. m : e[i] = e[j] => i = j BY <2>1, <2>2, <2>3 DEF Distinct
  <2>5. Listed(e) BY <2>3, <2>4 DEF Listed, Distinct
  <2> QED BY <2>5 DEF e, m, all, Entries
<1> QED BY <1>6, <1>7, <1>8

LEMMA LogInitInv == LogInit => LogInv
<1> SUFFICES ASSUME LogInit PROVE LogInv OBVIOUS
<1> USE DEF LogInit
<1>1. stored \in [Logged -> Nat] OBVIOUS
<1>2. \A k \in LogTick : tick[k] = Settled OBVIOUS
<1>3. <<>> \in Seq(Entry) /\ Distinct(<<>>) BY DEF Distinct
<1>4. Settled \in [pc : Steps, total : Nat, leaves : Seq(Entry)] /\ Settled.leaves = <<>>
  BY <1>3 DEF Settled, Steps
<1>5. tick \in [LogTick -> [pc : Steps, total : Nat, leaves : Seq(Entry)]] BY <1>4
<1>6. \A k \in LogTick : Distinct(tick[k].leaves) BY <1>2, <1>3, <1>4
<1> QED BY <1>1, <1>5, <1>6 DEF LogInv

\* A tick whose leaves are distinct entries, and the others as they were.
LEMMA TickKeepsInv ==
  ASSUME LogInv, NEW k \in LogTick, NEW r, tick' = [tick EXCEPT ![k] = r],
         r \in [pc : Steps, total : Nat, leaves : Seq(Entry)], Distinct(r.leaves)
  PROVE  /\ tick' \in [LogTick -> [pc : Steps, total : Nat, leaves : Seq(Entry)]]
         /\ \A l \in LogTick : Distinct(tick'[l].leaves)
<1> DEFINE R == [pc : Steps, total : Nat, leaves : Seq(Entry)]
<1>1. tick \in [LogTick -> R] /\ \A l \in LogTick : Distinct(tick[l].leaves) BY DEF LogInv
<1> HIDE DEF R
<1>2. tick' \in [LogTick -> R] BY <1>1 DEF R
<1>3. \A l \in LogTick : tick'[l] = IF l = k THEN r ELSE tick[l] BY <1>1
<1>4. \A l \in LogTick : Distinct(tick'[l].leaves) BY <1>1, <1>3
<1> QED BY <1>2, <1>4 DEF R

LEMMA LogNextInv ==
  ASSUME LogAssumption, LogInv, [LogNext]_logVars
  PROVE  LogInv'
<1> DEFINE R == [pc : Steps, total : Nat, leaves : Seq(Entry)]
<1>1. Settled \in R /\ Distinct(Settled.leaves)
  <2>1. <<>> \in Seq(Entry) /\ Distinct(<<>>) BY DEF Distinct
  <2> QED BY <2>1 DEF Settled, Steps
<1>2. stored \in [Logged -> Nat] /\ tick \in [LogTick -> R] /\ (checkpoint # None => Listed(checkpoint))
      /\ \A k \in LogTick : tick[k] \in R /\ Distinct(tick[k].leaves)
  BY DEF LogInv
<1>3. CASE UNCHANGED logVars BY <1>3 DEF LogInv, logVars, Listed, Distinct
<1>4. ASSUME NEW g \in Logged, Stores(g) PROVE LogInv'
  <2>1. UNCHANGED <<checkpoint, tick>> BY <1>4 DEF Stores
  <2>2. Length[g] \in Nat /\ stored[g] \in Nat /\ RowBatch \in Nat
    BY <1>2 DEF LogAssumption, Logged
  <2>3. stored' \in [Logged -> Nat] BY <1>2, <1>4, <2>2 DEF Stores
  <2> QED BY <2>1, <2>3 DEF LogInv, Listed, Distinct
<1>5. ASSUME NEW k \in LogTick, Counts(k) PROVE LogInv'
  <2> DEFINE r == [Settled EXCEPT !.pc = "compare", !.total = Total]
  <2>1. Total \in Nat BY <1>2, RowsAreListed
  <2>2. r \in R /\ r.leaves = <<>>
    <3>1. <<>> \in Seq(Entry) OBVIOUS
    <3> QED BY <2>1, <3>1 DEF Settled, Steps
  <2>3. tick' = [tick EXCEPT ![k] = r] /\ UNCHANGED <<stored, checkpoint>> BY <1>5 DEF Counts
  <2> HIDE DEF r
  <2>4. Distinct(r.leaves) BY <2>2 DEF Distinct
  <2> QED BY <1>2, <2>2, <2>3, <2>4, TickKeepsInv DEF LogInv, Listed, Distinct
<1>6. ASSUME NEW k \in LogTick, Compares(k) PROVE LogInv'
  <2> DEFINE r == IF checkpoint # None /\ Len(checkpoint) = tick[k].total
                  THEN Settled ELSE [tick[k] EXCEPT !.pc = "read"]
  <2>1. r \in R /\ Distinct(r.leaves)
    <3>1. [tick[k] EXCEPT !.pc = "read"] \in R /\ [tick[k] EXCEPT !.pc = "read"].leaves = tick[k].leaves
      BY <1>2 DEF Steps
    <3> QED BY <1>1, <1>2, <3>1
  <2>2. tick' = [tick EXCEPT ![k] = r] /\ UNCHANGED <<stored, checkpoint>> BY <1>6 DEF Compares
  <2> HIDE DEF r
  <2> QED BY <1>2, <2>1, <2>2, TickKeepsInv DEF LogInv, Listed, Distinct
<1>7. ASSUME NEW k \in LogTick, Reads(k) PROVE LogInv'
  <2> DEFINE r == [tick[k] EXCEPT !.pc = "sign", !.leaves = Entries]
  <2>1. Entries \in Seq(Entry) /\ Distinct(Entries) BY <1>2, RowsAreListed DEF Listed
  <2>2. r \in R /\ r.leaves = Entries BY <1>2, <2>1 DEF Steps
  <2>3. tick' = [tick EXCEPT ![k] = r] /\ UNCHANGED <<stored, checkpoint>> BY <1>7 DEF Reads
  <2> HIDE DEF r
  <2>4. Distinct(r.leaves) BY <2>1, <2>2
  <2> QED BY <1>2, <2>2, <2>3, <2>4, TickKeepsInv DEF LogInv, Listed, Distinct
<1>8. ASSUME NEW k \in LogTick, Signs(k) PROVE LogInv'
  <2>1. tick' = [tick EXCEPT ![k] = Settled] /\ checkpoint' = tick[k].leaves /\ UNCHANGED stored
    BY <1>8 DEF Signs
  <2>2. Listed(tick[k].leaves) BY <1>2 DEF Listed
  <2>3. Listed(checkpoint)' BY <2>1, <2>2 DEF Listed, Distinct
  <2>4. tick' \in [LogTick -> R] /\ \A l \in LogTick : Distinct(tick'[l].leaves) BY <1>1, <2>1, TickKeepsInv
  <2> QED BY <1>2, <2>1, <2>3, <2>4 DEF LogInv, Distinct
<1> QED BY <1>3, <1>4, <1>5, <1>6, <1>7, <1>8 DEF LogNext, TickStep

\* What the cron signs can be shown, entry by entry, whatever the games and
\* however their rows and the ticks overlap: the audit path of an entry shows
\* that entry at that place, and neither another one nor another place, nor does a
\* proof cut short or drawn out (checkpoint.ts:85-119).
THEOREM SignedEntriesAreProvable ==
  ASSUME LogAssumption
  PROVE  LogSpec => []EntriesAreProvable
<1>1. LogInv => EntriesAreProvable
  <2> SUFFICES ASSUME LogInv, checkpoint # None PROVE EachIsProvable(checkpoint)
    BY Zenon DEF EntriesAreProvable, EachIsProvable
  <2> QED BY DistinctEntriesAreProvable DEF LogInv, Listed
<1> QED BY <1>1, LogInitInv, LogNextInv, PTL DEF LogSpec

=============================================================================
