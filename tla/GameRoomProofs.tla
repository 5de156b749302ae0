--------------------------- MODULE GameRoomProofs ---------------------------
(***************************************************************************)
(* Theorems about GameRoom, for any requests, game length, move budget and *)
(* number of faults.                                                       *)
(*                                                                         *)
(* What storage holds is safe unless a put can fail while some body is on  *)
(* its way (Prompt excludes that, and only that).  The argument: the core  *)
(* record and its rows are one game (Coherent); the session in memory is   *)
(* that game, or, between a failed put of the alarm and the drop of the    *)
(* memory, that game and moves of the clock (Ahead); and a handler that    *)
(* keeps a session of its own across an await either has the one in memory *)
(* or one of a game that is over (InStep).  So whatever is written goes on *)
(* from what was stored.                                                   *)
(***************************************************************************)
EXTENDS GameRoom, TLAPS, FiniteSetTheorems, SequenceTheorems

Prompt == SlowBodies => "put" \notin Faults

-----------------------------------------------------------------------------
(* Sequences of movers.                                                    *)

Extends(L, K) == Len(K) <= Len(L) /\ \A i \in 1 .. Len(K) : L[i] = K[i]
Has(L, who) == \E i \in 1 .. Len(L) : L[i] = who
\* L is K, and after it only moves of the clock.
ClocksOnly(L, K) == Extends(L, K) /\ \A i \in Len(K) + 1 .. Len(L) : L[i] = "clock"

LEMMA ClockIsNoRequest == "clock" \in Mover /\ Request \subseteq Mover /\ "clock" \notin Request
BY RoomAssumption DEF Mover

LEMMA AppendFacts ==
  ASSUME NEW L \in Seq(Mover), NEW who \in Mover
  PROVE  /\ Append(L, who) \in Seq(Mover) /\ Len(Append(L, who)) = Len(L) + 1
         /\ Extends(Append(L, who), L) /\ Has(Append(L, who), who)
         /\ \A x \in Mover : Has(Append(L, who), x) <=> x = who \/ Has(L, x)
BY DEF Extends, Has

LEMMA ExtendsTransitive ==
  ASSUME NEW K \in Seq(Mover), NEW L \in Seq(Mover), NEW M \in Seq(Mover),
         Extends(L, K), Extends(M, L)
  PROVE  Extends(M, K)
BY DEF Extends

LEMMA ExtendsItself ==
  ASSUME NEW L \in Seq(Mover)
  PROVE  Extends(L, L) /\ ClocksOnly(L, L)
BY DEF Extends, ClocksOnly

LEMMA SameLength ==
  ASSUME NEW K \in Seq(Mover), NEW L \in Seq(Mover), Extends(L, K), Len(L) <= Len(K)
  PROVE  L = K
BY SeqEqual DEF Extends

LEMMA OneMoreClock ==
  ASSUME NEW K \in Seq(Mover), NEW L \in Seq(Mover), ClocksOnly(L, K)
  PROVE  ClocksOnly(Append(L, "clock"), K)
BY ClockIsNoRequest DEF ClocksOnly, Extends

\* Moves of the clock are of no request.
LEMMA ClocksAreNobodys ==
  ASSUME NEW K \in Seq(Mover), NEW L \in Seq(Mover), ClocksOnly(L, K), NEW r \in Request
  PROVE  Has(L, r) <=> Has(K, r)
<1>1. r # "clock" BY ClockIsNoRequest
<1>2. Len(K) \in Nat /\ Len(L) \in Nat /\ Len(K) <= Len(L) BY DEF ClocksOnly, Extends
<1>3. \A i \in 1 .. Len(L) : i \in 1 .. Len(K) \/ L[i] = "clock" BY <1>2 DEF ClocksOnly
<1> QED BY <1>1, <1>2, <1>3 DEF ClocksOnly, Extends, Has

-----------------------------------------------------------------------------
(* Sessions.                                                               *)

\* A session whose rows and snapshot are of one game.
Sound(s) == s \in Session /\ s.log = s.board /\ Len(s.board) <= GameLength

LEMMA PlayIsSound ==
  ASSUME NEW s, Sound(s), ~Ended(s), NEW who \in Mover
  PROVE  /\ Sound(Play(s, who)) /\ Play(s, who).final = s.final
         /\ Play(s, who).board = Append(s.board, who)
<1> DEFINE l == Append(s.log, who)
           b == Append(s.board, who)
           left == IF Len(s.board) + 1 = GameLength THEN 0 ELSE TurnTime
<1>1. s \in Session /\ s.log = s.board /\ Len(s.board) \in Nat /\ Len(s.board) <= GameLength
      /\ Len(s.board) # GameLength
  BY DEF Sound, Session, Ended
<1>2. l \in Seq(Mover) /\ b \in Seq(Mover) /\ l = b /\ Len(b) = Len(s.board) + 1
  BY <1>1 DEF Session
<1>3. left \in 0 .. TurnTime BY RoomAssumption
<1>4. Play(s, who) = [s EXCEPT !.log = l, !.board = b, !.left = left] BY DEF Play
<1> HIDE DEF l, b, left
<1>5. /\ Play(s, who) \in Session /\ Play(s, who).log = l /\ Play(s, who).board = b
      /\ Play(s, who).final = s.final
  BY <1>1, <1>2, <1>3, <1>4 DEF Session
<1>6. Len(b) <= GameLength BY <1>1, <1>2, RoomAssumption
<1> QED BY <1>2, <1>5, <1>6 DEF Sound, b

LEMMA ExpireIsSound ==
  ASSUME NEW s, Sound(s)
  PROVE  /\ Sound(Expire(s)) /\ Expire(s).final = s.final
         /\ Expire(s).board = s.board \/ Expire(s).board = Append(s.board, "clock")
         /\ Ended(s) => Expire(s) = s
BY PlayIsSound, ClockIsNoRequest DEF Expire

LEMMA SubmitIsSound ==
  ASSUME NEW s, Sound(s), NEW r \in Request
  PROVE  /\ Sound(Submit(s, r)) /\ Submit(s, r).final = s.final
         /\ Accepts(s, r) => Submit(s, r).board = Append(s.board, r)
         /\ ~Accepts(s, r) => Submit(s, r) = s
         /\ Ended(s) => Submit(s, r) = s
BY PlayIsSound, ClockIsNoRequest DEF Submit, Accepts

\* What a request's handler makes of a session that has only moves of the
\* clock more than what is stored.
LEMMA HandledSession ==
  ASSUME NEW s, Sound(s), NEW K \in Seq(Mover), ClocksOnly(s.board, K), NEW r \in Request
  PROVE  LET c == Expire(s)
             n == Submit(c, r)
         IN  /\ Sound(c) /\ ClocksOnly(c.board, K)
             /\ Sound(n) /\ Extends(n.board, K) /\ n.final = s.final
             /\ Accepts(c, r) => Has(n.board, r)
             /\ ~Accepts(c, r) => n = c
             /\ \A q \in Request \ {r} : Has(n.board, q) <=> Has(K, q)
             /\ Ended(s) => n = s /\ c = s /\ ~Accepts(c, r)
<1> DEFINE c == Expire(s)
           n == Submit(c, r)
<1>1. Sound(c) /\ c.final = s.final /\ (c.board = s.board \/ c.board = Append(s.board, "clock"))
      /\ (Ended(s) => c = s)
  BY ExpireIsSound
<1>2. s.board \in Seq(Mover) /\ c.board \in Seq(Mover) BY <1>1 DEF Sound, Session
<1> HIDE DEF c
<1>3. ClocksOnly(c.board, K) BY <1>1, <1>2, OneMoreClock
<1>4. /\ Sound(n) /\ n.final = c.final
      /\ Accepts(c, r) => n.board = Append(c.board, r)
      /\ ~Accepts(c, r) => n = c
      /\ Ended(c) => n = c
  BY <1>1, SubmitIsSound
<1> HIDE DEF n
<1>5. n.board \in Seq(Mover) BY <1>4 DEF Sound, Session
<1>6. r \in Mover /\ Request \subseteq Mover BY ClockIsNoRequest
<1>7. Extends(c.board, K) BY <1>3 DEF ClocksOnly
<1>8. Extends(n.board, K)
  <2>1. CASE Accepts(c, r)
    <3>1. n.board = Append(c.board, r) BY <1>4, <2>1
    <3>2. Extends(n.board, c.board) BY <1>2, <1>6, <3>1, AppendFacts
    <3> QED BY <1>2, <1>5, <1>7, <3>2, ExtendsTransitive
  <2>2. CASE ~Accepts(c, r) BY <1>4, <1>7, <2>2
  <2> QED BY <2>1, <2>2
<1>9. Accepts(c, r) => Has(n.board, r)
  <2>1. Has(Append(c.board, r), r) BY <1>2, <1>6, AppendFacts
  <2> QED BY <1>4, <2>1
<1>10. ASSUME NEW q \in Request \ {r} PROVE Has(n.board, q) <=> Has(K, q)
  <2>1. Has(c.board, q) <=> Has(K, q) BY <1>2, <1>3, ClocksAreNobodys
  <2>2. Has(Append(c.board, r), q) <=> Has(c.board, q) BY <1>2, <1>6, AppendFacts
  <2> QED BY <1>4, <2>1, <2>2
<1>11. Ended(s) => n = s /\ c = s /\ ~Accepts(c, r) BY <1>1, <1>4 DEF Accepts
<1> QED BY <1>1, <1>3, <1>4, <1>8, <1>9, <1>10, <1>11 DEF c, n

-----------------------------------------------------------------------------
(* The inductive invariant.                                                *)

PC == {"new", "idle", "body", "docket", "stored", "archive", "archived", "flagged", "rate", "done", "lost"}
\* Where a handler keeps a session of its own.
Busy == {"body", "stored", "archive", "archived", "flagged", "rate"}
Over == {"archive", "archived", "flagged", "rate"}

Typed ==
  /\ rows \in Seq(Mover)
  /\ record \in [count : Nat, board : Seq(Mover), left : 0 .. TurnTime, final : BOOLEAN]
  /\ heap \in [Cell -> Session \cup {None}]
  /\ mem \in Cell \cup {None} /\ mark \in Nat
  /\ pc \in [Thread -> PC]
  /\ ref \in [Thread -> Cell \cup {None}]
  /\ gate \in Thread \cup {None}

\* The record and the rows it counts are one game.
Coherent ==
  /\ record.count = Len(record.board) /\ record.count <= Len(rows)
  /\ Stored = record.board
  /\ mark <= record.count
  /\ Len(record.board) <= GameLength

Cells ==
  /\ mem # None => Sound(heap[mem])
  /\ \A t \in Thread : ref[t] # None => Sound(heap[ref[t]])

\* What memory has and storage has not are moves of the clock, and only while
\* an alarm whose put failed awaits the docket.
Ahead ==
  mem # None =>
    /\ ClocksOnly(heap[mem].board, record.board)
    /\ pc["alarm"] # "docket" => heap[mem].board = record.board

InStep ==
  \A t \in Thread :
    /\ ref[t] # None <=> pc[t] \in Busy
    /\ pc[t] = "body" => t \in Request /\ ref[t] = mem /\ (SlowBodies \/ gate = t)
    /\ pc[t] \in {"stored", "flagged"} => gate = t
    /\ pc[t] \in Busy \ {"body"} => heap[ref[t]].board = record.board
    /\ pc[t] \in Over => Ended(record)
    /\ pc[t] = "docket" => t = "alarm" /\ "put" \in Faults

\* Who was told that its move is in is whose move is stored.
Answered ==
  /\ answer \in [Request -> {None, "ok", "rejected", "persist_failed"}]
  /\ \A r \in Request :
       /\ answer[r] = "ok" <=> Has(record.board, r)
       /\ pc[r] \in {"new", "body"} => answer[r] = None

\* The whole log is in D1.
Whole == d1.status = "ended" /\ d1.log = record.board

\* D1 has the beginning of a game that is over: all of it once a handler is
\* past its last batch, and the rows of the batches that one has sent.
Public ==
  /\ d1 \in [status : {"none", "live", "ended"}, log : Seq(Mover)]
  /\ sent \in [Thread -> Nat]
  /\ Extends(record.board, d1.log)
  /\ d1.status = "ended" \/ d1.log # <<>> => Ended(record)
  /\ record.final => Whole
  /\ mem # None /\ heap[mem].final => Whole
  /\ \A t \in Thread :
       /\ ref[t] # None /\ heap[ref[t]].final => Whole
       /\ pc[t] = "archived" => Whole
       /\ sent[t] # 0 => pc[t] = "archive" /\ (sent[t] <= Len(d1.log) + 1 \/ d1.log = record.board)

IInv == Typed /\ Coherent /\ Cells /\ Ahead /\ InStep /\ Answered /\ Public

LEMMA ThreadsAreFinite == IsFiniteSet(Thread) /\ Cardinality(Thread) \in Nat
<1>1. IsFiniteSet({"alarm"} \cup {"cron"})
  BY FS_Singleton, FS_Union
<1>2. Thread = Request \cup ({"alarm"} \cup {"cron"}) BY DEF Thread
<1> QED BY <1>1, <1>2, RoomAssumption, FS_Union, FS_CardinalityType

LEMMA NoneIsNothing ==
  None \notin Cell /\ None \notin Thread /\ None \notin {"ok", "rejected", "persist_failed"}
<1>1. Cardinality(Thread) \in Nat BY ThreadsAreFinite
<1>2. Cell \subseteq Nat BY <1>1 DEF Cell
<1> QED BY <1>2, RoomAssumption DEF Thread

\* There are more cells than handlers.
LEMMA FreeIsFree ==
  ASSUME Typed, mem = None
  PROVE  Free \in Cell /\ \A t \in Thread : ref[t] # Free
<1>1. IsFiniteSet(Thread) /\ Cardinality(Thread) \in Nat BY ThreadsAreFinite
<1>2. IsFiniteSet(Cell) /\ Cardinality(Cell) = Cardinality(Thread) + 1
  BY <1>1, FS_Interval DEF Cell
<1>3. \E c \in Cell : \A t \in Thread : ref[t] # c
  <2> SUFFICES ASSUME \A c \in Cell : \E t \in Thread : ref[t] = c PROVE FALSE
    OBVIOUS
  <2> DEFINE holder == [c \in Cell |-> CHOOSE t \in Thread : ref[t] = c]
  <2>1. holder \in [Cell -> Thread] /\ \A c \in Cell : ref[holder[c]] = c OBVIOUS
  <2> HIDE DEF holder
  <2>2. Cardinality(Thread) < Cardinality(Cell) BY <1>1, <1>2
  <2>3. \E c, d \in Cell : c # d /\ holder[c] = holder[d]
    BY <1>1, <1>2, <2>1, <2>2, FS_PigeonHole
  <2> QED BY <2>1, <2>3
<1>4. \A c \in Cell : c # mem BY NoneIsNothing
<1> QED BY <1>3, <1>4 DEF Free

\* A session that goes on from what is stored is stored whole, whatever the
\* watermark says.
LEMMA WriteStores ==
  ASSUME Typed, Coherent, NEW s, Sound(s), Extends(s.board, record.board),
         NEW w \in Nat, w <= record.count, Write(s, w)
  PROVE  /\ rows' \in Seq(Mover) /\ mark' \in Nat
         /\ record' \in [count : Nat, board : Seq(Mover), left : 0 .. TurnTime, final : BOOLEAN]
         /\ Coherent' /\ record'.board = s.board /\ record'.final = s.final
<1> DEFINE n == IF Len(s.log) > Len(rows) THEN Len(s.log) ELSE Len(rows)
<1>1. s \in Session /\ s.log = s.board /\ s.board \in Seq(Mover) /\ Len(s.board) \in Nat
      /\ Len(s.board) <= GameLength /\ s.left \in 0 .. TurnTime /\ s.final \in BOOLEAN
  BY DEF Sound, Session
<1>2. rows \in Seq(Mover) /\ Len(rows) \in Nat /\ record.board \in Seq(Mover) /\ record.count \in Nat
      /\ record.count = Len(record.board) /\ record.count <= Len(rows)
  BY DEF Typed, Coherent
<1>3. \A i \in 1 .. record.count : Stored[i] = rows[i]
  <2>1. \A i \in 1 .. record.count : rows[i] \in Mover BY <1>2
  <2>2. \A i \in 1 .. record.count - 1 + 1 : SubSeq(rows, 1, record.count)[i] = rows[1 + i - 1]
    BY <1>2, <2>1, SubSeqProperties
  <2> QED BY <1>2, <2>2 DEF Stored
<1>4. \A i \in 1 .. record.count : rows[i] = s.board[i]
  BY <1>2, <1>3 DEF Coherent, Extends
<1>5. n \in Nat /\ Len(s.board) <= n /\ Len(rows) <= n BY <1>1, <1>2
<1>6. rows' = [i \in 1 .. n |-> IF i \in w + 1 .. Len(s.board) THEN s.board[i] ELSE rows[i]]
  BY <1>1 DEF Write
<1> HIDE DEF n
<1>7. \A i \in 1 .. Len(s.board) : rows'[i] = s.board[i]
  BY <1>1, <1>2, <1>4, <1>5, <1>6
<1>8. \A i \in 1 .. n : rows'[i] \in Mover
  <2>1. ASSUME NEW i \in 1 .. n PROVE rows'[i] \in Mover
    <3>1. CASE i \in 1 .. Len(s.board) BY <1>1, <1>7, <3>1
    <3>2. CASE i \notin 1 .. Len(s.board)
      <4>1. i \in 1 .. Len(rows) /\ rows'[i] = rows[i] BY <1>1, <1>2, <1>5, <1>6, <2>1, <3>2 DEF n
      <4> QED BY <1>2, <4>1
    <3> QED BY <3>1, <3>2
  <2> QED BY <2>1
<1>9. rows' \in Seq(Mover) /\ Len(rows') = n
  <2>1. rows' \in [1 .. n -> Mover] BY <1>6, <1>8
  <2> QED BY <1>5, <2>1, IsASeq
<1>10. record' = [count |-> Len(s.board), board |-> s.board, left |-> s.left, final |-> s.final]
       /\ mark' = Len(s.board)
  BY <1>1 DEF Write
<1>11. SubSeq(rows', 1, Len(s.board)) = s.board
  <2>1. \A i \in 1 .. Len(s.board) : rows'[i] \in Mover BY <1>1, <1>7
  <2>2. /\ SubSeq(rows', 1, Len(s.board)) \in Seq(Mover)
        /\ Len(SubSeq(rows', 1, Len(s.board))) = IF 1 <= Len(s.board) THEN Len(s.board) - 1 + 1 ELSE 0
        /\ \A i \in 1 .. Len(s.board) - 1 + 1 : SubSeq(rows', 1, Len(s.board))[i] = rows'[1 + i - 1]
    BY <1>1, <2>1, SubSeqProperties
  <2>3. Len(SubSeq(rows', 1, Len(s.board))) = Len(s.board) BY <1>1, <2>2
  <2>4. \A i \in 1 .. Len(s.board) : SubSeq(rows', 1, Len(s.board))[i] = s.board[i]
    BY <1>1, <1>7, <2>2
  <2> QED BY <1>1, <2>2, <2>3, <2>4, SeqEqual
<1>12. Coherent' BY <1>1, <1>5, <1>9, <1>10, <1>11 DEF Coherent, Stored
<1> QED BY <1>1, <1>9, <1>10, <1>12

-----------------------------------------------------------------------------
(* What the actions share.                                                 *)

LEMMA RecordFacts ==
  ASSUME IInv
  PROVE  /\ record.board \in Seq(Mover) /\ Len(record.board) \in Nat
         /\ Len(record.board) <= GameLength /\ record.count \in Nat
         /\ Ended(record) <=> Len(record.board) = GameLength
BY DEF IInv, Typed, Coherent, Ended

\* A game that is over is not gone on with.
LEMMA EndedStays ==
  ASSUME IInv, Ended(record), NEW s, Sound(s), Extends(s.board, record.board)
  PROVE  s.board = record.board /\ Ended(s)
<1>1. s.board \in Seq(Mover) /\ Len(s.board) <= GameLength BY DEF Sound, Session
<1>2. Len(s.board) <= Len(record.board) BY <1>1, RecordFacts
<1>3. s.board = record.board BY <1>1, <1>2, RecordFacts, SameLength
<1> QED BY <1>3, RecordFacts DEF Ended

\* Only a handler past the end keeps a session while another one stores.
LEMMA OthersRest ==
  ASSUME IInv, NEW t \in Thread, gate \in {None, t}, NEW u \in Thread, u # t
  PROVE  /\ pc[u] \in {"body"} \cup Over <=> ref[u] # None
         /\ pc[u] \in Over => Ended(record)
         /\ pc[u] \notin {"stored", "flagged"}
         /\ pc[u] = "body" => SlowBodies
BY NoneIsNothing DEF IInv, InStep, Busy, Over

\* load() returns the stored game, or the one in memory.
LEMMA LoadedFacts ==
  ASSUME IInv
  PROVE  /\ Loaded \in Cell /\ Loaded # None
         /\ Sound(Current) /\ ClocksOnly(Current.board, record.board)
         /\ Watermark \in Nat /\ Watermark <= record.count
         /\ \A t \in Thread : ref[t] = Loaded => mem = Loaded
         /\ pc["alarm"] # "docket" => Current.board = record.board
         /\ Current.final => Whole
<1>0. Current.final => Whole BY DEF Current, Reassemble, IInv, Public
<1>1. CASE mem = None
  <2>1. Reassemble \in Session /\ Reassemble.log = Reassemble.board /\ Reassemble.board = record.board
    BY RecordFacts DEF Reassemble, Session, IInv, Coherent, Typed
  <2>2. ClocksOnly(record.board, record.board) BY RecordFacts, ExtendsItself
  <2>3. Free \in Cell /\ \A t \in Thread : ref[t] # Free BY <1>1, FreeIsFree DEF IInv
  <2> QED
    BY <1>0, <1>1, <2>1, <2>2, <2>3, NoneIsNothing, RecordFacts DEF Loaded, Current, Watermark, Sound
<1>2. CASE mem # None
  BY <1>0, <1>2, NoneIsNothing DEF Loaded, Current, Watermark, IInv, Typed, Coherent, Cells, Ahead
<1> QED BY <1>1, <1>2

\* A step that sends nothing to D1 and finalizes nothing on its own.
LEMMA PublicStays ==
  ASSUME IInv, d1' = d1, sent' = sent \/ sent' = [t \in Thread |-> 0],
         record'.board \in Seq(Mover), Extends(record'.board, record.board),
         Ended(record) => record'.board = record.board,
         record'.final => record.final \/ Whole,
         mem' # None /\ heap'[mem'].final => Whole,
         \A t \in Thread : ref'[t] # None /\ heap'[ref'[t]].final => Whole,
         \A t \in Thread : pc'[t] = "archived" => pc[t] = "archived",
         \A t \in Thread : pc[t] = "archive" => pc'[t] = "archive" \/ sent'[t] = 0
  PROVE  Public'
<1>1. /\ d1 \in [status : {"none", "live", "ended"}, log : Seq(Mover)] /\ sent \in [Thread -> Nat]
      /\ Extends(record.board, d1.log) /\ (d1.status = "ended" \/ d1.log # <<>> => Ended(record))
  BY DEF IInv, Public
<1>2. Whole => Ended(record) /\ Whole' BY <1>1 DEF Whole
<1>3. Ended(record) => Ended(record') BY DEF Ended
<1>4. Extends(record'.board, d1.log) BY <1>1, RecordFacts, ExtendsTransitive
<1>5. d1.log = record.board => Len(d1.log) <= Len(record.board) /\ Len(record.board) \in Nat
  BY RecordFacts
<1>6. ASSUME NEW t \in Thread, sent'[t] # 0
      PROVE  pc'[t] = "archive" /\ (sent'[t] <= Len(d1.log) + 1 \/ d1.log = record'.board)
  <2>1. sent'[t] = sent[t] BY <1>6
  <2>2. pc[t] = "archive" /\ (sent[t] <= Len(d1.log) + 1 \/ d1.log = record.board)
    BY <1>6, <2>1 DEF IInv, Public
  <2>3. Ended(record) BY <2>2 DEF IInv, InStep, Over
  <2> QED BY <1>6, <2>1, <2>2, <2>3
<1>7. sent' \in [Thread -> Nat] BY <1>1
<1>8. \A t \in Thread : pc'[t] = "archived" => Whole' BY <1>2 DEF IInv, Public
<1>9. record'.final => Whole' BY <1>2 DEF IInv, Public
<1> QED BY <1>1, <1>2, <1>3, <1>4, <1>6, <1>7, <1>8, <1>9 DEF Public

\* The invariant without what is said of the requests.
Storage == Typed /\ Coherent /\ Cells /\ Ahead /\ InStep /\ Public

\* A put that goes through.
LEMMA StoreStep ==
  ASSUME IInv, NEW t \in Thread, NEW k \in Cell, NEW s, Sound(s), Extends(s.board, record.board),
         NEW w \in Nat, w <= record.count, Write(s, w),
         gate \in {None, t}, gate' = t,
         heap' = [heap EXCEPT ![k] = s],
         NEW x \in {"stored", "flagged"}, pc' = [pc EXCEPT ![t] = x],
         ref' = [ref EXCEPT ![t] = k],
         x = "flagged" => Ended(record),
         mem' = mem \/ (mem = None /\ mem' = k),
         mem' # k => mem' = None \/ Ended(record),
         s.final => Whole, pc[t] # "archive",
         UNCHANGED <<d1, sent>>
  PROVE  Storage' /\ record'.board = s.board
<1>1. Typed /\ Coherent BY DEF IInv
<1>2. /\ rows' \in Seq(Mover) /\ mark' \in Nat
      /\ record' \in [count : Nat, board : Seq(Mover), left : 0 .. TurnTime, final : BOOLEAN]
      /\ Coherent' /\ record'.board = s.board /\ record'.final = s.final
  BY <1>1, WriteStores
<1>3. s \in Session /\ s.board \in Seq(Mover) BY DEF Sound, Session
<1>4. Typed' BY <1>1, <1>2, <1>3 DEF Typed, PC
<1>5. heap'[k] = s /\ \A c \in Cell : c # k => heap'[c] = heap[c] BY <1>1 DEF Typed
<1>6. ref'[t] = k /\ pc'[t] = x /\ \A u \in Thread : u # t => ref'[u] = ref[u] /\ pc'[u] = pc[u]
  BY <1>1 DEF Typed
<1>7. Ended(record) => record'.board = record.board /\ Ended(record')
  BY <1>2, EndedStays, RecordFacts DEF Ended
<1>8. Cells'
  <2>1. mem' # None => Sound(heap'[mem'])
    BY <1>1, <1>5 DEF IInv, Cells, Typed
  <2>2. ASSUME NEW u \in Thread, ref'[u] # None PROVE Sound(heap'[ref'[u]])
    BY <1>1, <1>5, <1>6, <2>2 DEF IInv, Cells, Typed
  <2> QED BY <2>1, <2>2 DEF Cells
<1>9. Ahead'
  <2> SUFFICES ASSUME mem' # None
               PROVE  ClocksOnly(heap'[mem'].board, record'.board) /\ heap'[mem'].board = record'.board
    BY DEF Ahead
  <2>1. CASE mem' = k BY <1>2, <1>3, <1>5, <2>1, ExtendsItself
  <2>2. CASE mem' # k
    <3>1. mem' = mem /\ mem \in Cell /\ heap'[mem'] = heap[mem] /\ Ended(record)
      BY <1>1, <1>5, <2>2 DEF Typed
    <3>2. Sound(heap[mem]) /\ ClocksOnly(heap[mem].board, record.board)
      BY <3>1, NoneIsNothing DEF IInv, Cells, Ahead
    <3>3. heap[mem].board = record.board BY <3>1, <3>2, EndedStays DEF ClocksOnly
    <3> QED BY <1>7, <3>1, <3>2, <3>3
  <2> QED BY <2>1, <2>2
<1>10. InStep'
  <2>1. ASSUME NEW u \in Thread, u # t
        PROVE  /\ ref'[u] # None <=> pc'[u] \in Busy
               /\ pc'[u] = "body" => u \in Request /\ ref'[u] = mem' /\ SlowBodies
               /\ pc'[u] \notin {"stored", "flagged"}
               /\ pc'[u] \in Busy \ {"body"} => heap'[ref'[u]].board = record'.board
               /\ pc'[u] \in Over => Ended(record')
               /\ pc'[u] = "docket" => u = "alarm" /\ "put" \in Faults
    <3>1. /\ pc[u] \in {"body"} \cup Over <=> ref[u] # None
          /\ pc[u] \in Over => Ended(record)
          /\ pc[u] \notin {"stored", "flagged"}
          /\ pc[u] = "body" => SlowBodies
      BY <2>1, OthersRest
    <3>2. pc[u] = "body" => ref'[u] = mem' /\ u \in Request
      BY <1>1, <1>6, <2>1, <3>1, NoneIsNothing DEF IInv, InStep, Typed
    <3>3. pc[u] \in Over => heap[ref[u]].board = record.board /\ ref[u] \in Cell
      BY <1>1, <2>1, <3>1 DEF IInv, InStep, Typed, Over, Busy
    <3>4. pc[u] \in Over => heap'[ref'[u]].board = record'.board
      BY <1>2, <1>5, <1>6, <1>7, <2>1, <3>1, <3>3
    <3> QED BY <1>6, <1>7, <2>1, <3>1, <3>2, <3>4 DEF IInv, InStep, Over, Busy
  <2>2. heap'[ref'[t]].board = record'.board BY <1>2, <1>5, <1>6
  <2> QED BY <1>6, <1>7, <2>1, <2>2, NoneIsNothing DEF InStep, Over, Busy
<1>11. Public'
  <2>1. /\ mem' # None /\ heap'[mem'].final => Whole
        /\ \A u \in Thread : ref'[u] # None /\ heap'[ref'[u]].final => Whole
    BY <1>1, <1>5, <1>6 DEF IInv, Public, Typed
  <2>2. \A u \in Thread : (pc'[u] = "archived" => pc[u] = "archived")
                          /\ (pc[u] = "archive" => pc'[u] = "archive")
    BY <1>6
  <2> QED BY <1>2, <1>3, <1>7, <2>1, <2>2, PublicStays
<1> QED BY <1>2, <1>4, <1>8, <1>9, <1>10, <1>11 DEF Storage

\* Objects nobody holds are forgotten, the others are what they were.
LEMMA HeldFacts ==
  ASSUME NEW h \in [Cell -> Session \cup {None}], heap' = Held(h)
  PROVE  /\ heap' \in [Cell -> Session \cup {None}]
         /\ mem' \in Cell => heap'[mem'] = h[mem']
         /\ \A t \in Thread : ref'[t] \in Cell => heap'[ref'[t]] = h[ref'[t]]
BY DEF Held

\* A handler that returns, and whose put has failed if memory is dropped.
LEMMA ReturnStep ==
  ASSUME IInv, Prompt, NEW t \in Thread, gate \in {None, t}, Returns(t),
         UNCHANGED <<rows, record>>,
         Public' \/ (UNCHANGED <<d1, sent>> /\ pc[t] # "archive"),
         NEW h \in [Cell -> Session \cup {None}], heap' = Held(h),
         \A u \in Thread \ {t} : pc[u] \in Over =>
            Sound(h[ref[u]]) /\ h[ref[u]].board = record.board,
         \A u \in Thread \ {t} : ref[u] # None /\ h[ref[u]].final => Whole,
         \/ mem' = None /\ mark' = 0 /\ "put" \in Faults
         \/ mem' = mem /\ mark' = mark /\ pc[t] # "docket" /\ h = heap
  PROVE  Storage'
<1> DEFINE x == IF t \in Request THEN "done" ELSE "idle"
<1>1. Typed /\ Coherent BY DEF IInv
<1>2. pc' = [pc EXCEPT ![t] = x] /\ ref' = [ref EXCEPT ![t] = None] /\ gate' = None
  BY DEF Returns, Goes
<1>3. x \in {"done", "idle"} OBVIOUS
<1> HIDE DEF x
<1>4. /\ ref'[t] = None /\ pc'[t] = x
      /\ \A u \in Thread : u # t => ref'[u] = ref[u] /\ pc'[u] = pc[u]
  BY <1>1, <1>2 DEF Typed
<1>5. /\ heap' \in [Cell -> Session \cup {None}]
      /\ mem' \in Cell => heap'[mem'] = h[mem']
      /\ \A u \in Thread : ref'[u] \in Cell => heap'[ref'[u]] = h[ref'[u]]
  BY HeldFacts
<1>6. Typed' BY <1>1, <1>2, <1>3, <1>5 DEF Typed, PC
<1>7. Coherent' BY <1>1, RecordFacts DEF Coherent, Stored
<1>8. mem' # None => mem' = mem /\ mem \in Cell /\ heap'[mem] = heap[mem]
  <2> SUFFICES ASSUME mem' # None PROVE mem' = mem /\ mem \in Cell /\ heap'[mem] = heap[mem]
    OBVIOUS
  <2>1. mem' = mem /\ mem \in Cell BY <1>1 DEF Typed
  <2>2. h[mem] = heap[mem] BY <2>1, NoneIsNothing
  <2> QED BY <1>5, <2>1, <2>2
<1>9. ASSUME NEW u \in Thread, u # t
      PROVE  /\ pc[u] \in {"body"} \cup Over <=> ref[u] # None
             /\ pc[u] \in Over => Ended(record)
             /\ pc[u] \notin {"stored", "flagged"}
             /\ pc[u] = "body" => SlowBodies /\ mem' = mem /\ u \in Request /\ ref[u] = mem
             /\ ref[u] # None => ref'[u] = ref[u] /\ ref[u] \in Cell /\ heap'[ref[u]] = h[ref[u]]
  <2>1. /\ pc[u] \in {"body"} \cup Over <=> ref[u] # None
        /\ pc[u] \in Over => Ended(record)
        /\ pc[u] \notin {"stored", "flagged"}
        /\ pc[u] = "body" => SlowBodies
    BY <1>9, OthersRest
  <2>2. pc[u] = "body" => mem' = mem BY <2>1 DEF Prompt
  <2>3. ref[u] # None => ref'[u] = ref[u] /\ ref[u] \in Cell /\ heap'[ref[u]] = h[ref[u]]
    BY <1>1, <1>4, <1>5, <1>9 DEF Typed
  <2> QED BY <2>1, <2>2, <2>3 DEF IInv, InStep
<1>10. Cells'
  <2>1. mem' # None => Sound(heap'[mem']) BY <1>8 DEF IInv, Cells
  <2>2. ASSUME NEW u \in Thread, ref'[u] # None PROVE Sound(heap'[ref'[u]])
    <3>1. u # t BY <1>4, <2>2
    <3>2. ref[u] # None /\ ref'[u] = ref[u] /\ heap'[ref[u]] = h[ref[u]] BY <1>4, <1>9, <2>2, <3>1
    <3>3. CASE pc[u] \in Over BY <3>1, <3>2, <3>3
    <3>4. CASE pc[u] = "body"
      <4>1. ref[u] = mem /\ mem' = mem BY <1>9, <3>1, <3>4
      <4> QED BY <1>8, <3>2, <4>1 DEF IInv, Cells
    <3> QED BY <1>9, <3>1, <3>2, <3>3, <3>4
  <2> QED BY <2>1, <2>2 DEF Cells
<1>11. Ahead'
  <2>1. mem' # None => (pc'["alarm"] # "docket" => pc["alarm"] # "docket")
    BY <1>1, <1>4 DEF Typed, Thread
  <2> QED BY <1>8, <2>1 DEF IInv, Ahead
<1>12. InStep'
  <2>1. ASSUME NEW u \in Thread, u # t
        PROVE  /\ ref'[u] # None <=> pc'[u] \in Busy
               /\ pc'[u] = "body" => u \in Request /\ ref'[u] = mem' /\ SlowBodies
               /\ pc'[u] \notin {"stored", "flagged"}
               /\ pc'[u] \in Busy \ {"body"} => heap'[ref'[u]].board = record'.board
               /\ pc'[u] \in Over => Ended(record')
               /\ pc'[u] = "docket" => u = "alarm" /\ "put" \in Faults
    <3>1. pc[u] \in Over => heap'[ref[u]].board = record.board /\ ref'[u] = ref[u]
      BY <1>9, <2>1 DEF Over
    <3>2. Ended(record) => Ended(record') BY DEF Ended
    <3> QED BY <1>4, <1>9, <2>1, <3>1, <3>2 DEF IInv, InStep, Over, Busy
  <2> QED BY <1>3, <1>4, <2>1, NoneIsNothing DEF InStep, Over, Busy
<1>13. Public'
  <2> SUFFICES ASSUME UNCHANGED <<d1, sent>>, pc[t] # "archive" PROVE Public'
    OBVIOUS
  <2>1. /\ mem' # None /\ heap'[mem'].final => Whole
        /\ \A u \in Thread : ref'[u] # None /\ heap'[ref'[u]].final => Whole
    BY <1>1, <1>4, <1>5, <1>8 DEF IInv, Public, Typed
  <2>2. \A u \in Thread : (pc'[u] = "archived" => pc[u] = "archived")
                          /\ (pc[u] = "archive" => pc'[u] = "archive")
    BY <1>3, <1>4
  <2>3. d1' = d1 /\ sent' = sent /\ record' = record OBVIOUS
  <2>4. Extends(record'.board, record.board) /\ record'.board \in Seq(Mover)
    BY <2>3, RecordFacts, ExtendsItself
  <2> QED BY <2>1, <2>2, <2>3, <2>4, PublicStays
<1> QED BY <1>6, <1>7, <1>10, <1>11, <1>12, <1>13 DEF Storage

\* A handler that goes on with the finalization.
LEMMA GoesOn ==
  ASSUME IInv, NEW t \in Thread, gate \in {None, t}, pc[t] \in Busy \ {"body"}, Ended(record),
         NEW x \in {"archive", "archived", "rate"}, Goes(t, x), gate' = None,
         UNCHANGED <<rows, record, heap, mem, mark, ref>>, Public'
  PROVE  Storage'
<1>1. Typed BY DEF IInv
<1>2. pc' = [pc EXCEPT ![t] = x] BY DEF Goes
<1>3. pc'[t] = x /\ \A u \in Thread : u # t => pc'[u] = pc[u] BY <1>1, <1>2 DEF Typed
<1>4. Typed' BY <1>1, <1>2 DEF Typed, PC, Over
<1>5. Coherent' BY DEF IInv, Coherent, Stored
<1>6. Cells' BY DEF IInv, Cells
<1>7. Ahead'
  <2>1. pc'["alarm"] # "docket" => pc["alarm"] # "docket" \/ t = "alarm" BY <1>3 DEF Thread
  <2>2. t = "alarm" => pc["alarm"] # "docket" BY DEF Busy
  <2> QED BY <2>1, <2>2 DEF IInv, Ahead
<1>8. InStep'
  <2>1. ASSUME NEW u \in Thread, u # t
        PROVE  /\ pc[u] \notin {"stored", "flagged"}
               /\ pc[u] = "body" => SlowBodies
    BY <2>1, OthersRest
  <2>2. Ended(record) => Ended(record') BY DEF Ended
  <2> QED BY <1>3, <2>1, <2>2 DEF IInv, InStep, Over, Busy
<1> QED BY <1>4, <1>5, <1>6, <1>7, <1>8 DEF Storage

\* A handler that has loaded the session, or worked on it without a put.
LEMMA LoadStep ==
  ASSUME IInv, NEW t \in Thread, gate = None, ref[t] = None,
         mem' = Loaded, mark' = Watermark,
         NEW s, Sound(s), ClocksOnly(s.board, record.board),
         heap' = [heap EXCEPT ![Loaded] = s],
         NEW x \in PC, pc' = [pc EXCEPT ![t] = x],
         x \in {"idle", "docket", "archive"} => t = "alarm",
         x = "docket" => "put" \in Faults,
         x = "body" => t \in Request /\ (SlowBodies \/ gate' = t),
         \/ x \in {"body", "archive"} /\ ref' = [ref EXCEPT ![t] = Loaded]
         \/ x \in {"idle", "docket"} /\ UNCHANGED ref,
         x # "docket" => s.board = Current.board,
         x \in {"archive", "idle"} => Ended(record),
         gate' \in {None, t},
         s.final => Whole,
         UNCHANGED <<rows, record, d1, sent>>
  PROVE  Storage'
<1>1. Typed /\ Coherent BY DEF IInv
<1>2. /\ Loaded \in Cell /\ Loaded # None
      /\ Sound(Current) /\ ClocksOnly(Current.board, record.board)
      /\ Watermark \in Nat /\ Watermark <= record.count
      /\ \A u \in Thread : ref[u] = Loaded => mem = Loaded
      /\ pc["alarm"] # "docket" => Current.board = record.board
  BY LoadedFacts
<1>3. s \in Session /\ s.board \in Seq(Mover) BY DEF Sound, Session
<1>4. Typed' BY <1>1, <1>2, <1>3 DEF Typed
<1>5. Coherent' BY <1>1, <1>2 DEF Coherent, Stored
<1>6. heap'[Loaded] = s /\ \A c \in Cell : c # Loaded => heap'[c] = heap[c] BY <1>1, <1>2 DEF Typed
<1>7. pc'[t] = x /\ \A u \in Thread : u # t => ref'[u] = ref[u] /\ pc'[u] = pc[u] BY <1>1 DEF Typed
<1>8. ref'[t] = IF x \in {"body", "archive"} THEN Loaded ELSE None BY <1>1 DEF Typed
<1>9. Cells'
  <2>1. ASSUME NEW u \in Thread, ref'[u] # None PROVE Sound(heap'[ref'[u]])
    BY <1>1, <1>6, <1>7, <1>8, <2>1 DEF IInv, Cells, Typed
  <2> QED BY <1>6, <2>1 DEF Cells
<1>10. Ahead'
  <2>1. pc'["alarm"] # "docket" => s.board = record.board
    <3>1. CASE t = "alarm"
      <4>1. CASE x = "archive" \/ x = "idle"
        BY <4>1, <1>3, EndedStays DEF ClocksOnly
      <4> QED BY <1>7, <3>1, <4>1, RoomAssumption DEF Thread
    <3>2. CASE t # "alarm" BY <1>2, <1>7, <3>2 DEF Thread
    <3> QED BY <3>1, <3>2
  <2> QED BY <1>6, <2>1 DEF Ahead
<1>11. InStep'
  <2>1. ASSUME NEW u \in Thread, u # t
        PROVE  /\ ref'[u] # None <=> pc'[u] \in Busy
               /\ pc'[u] = "body" => u \in Request /\ ref'[u] = mem' /\ SlowBodies
               /\ pc'[u] \notin {"stored", "flagged"}
               /\ pc'[u] \in Busy \ {"body"} => heap'[ref'[u]].board = record'.board
               /\ pc'[u] \in Over => Ended(record')
               /\ pc'[u] = "docket" => u = "alarm" /\ "put" \in Faults
    <3>1. /\ pc[u] \in {"body"} \cup Over <=> ref[u] # None
          /\ pc[u] \in Over => Ended(record)
          /\ pc[u] \notin {"stored", "flagged"}
          /\ pc[u] = "body" => SlowBodies
      BY <2>1, OthersRest
    <3>2. pc[u] = "body" => ref'[u] = mem' /\ u \in Request
      BY <1>1, <1>2, <1>7, <2>1, <3>1 DEF IInv, InStep, Typed, Loaded
    <3>3. pc[u] \in Over => heap[ref[u]].board = record.board /\ ref[u] \in Cell
      BY <1>1, <2>1, <3>1 DEF IInv, InStep, Typed, Over, Busy
    <3>4. Ended(record) => s.board = record.board BY EndedStays DEF ClocksOnly
    <3>5. pc[u] \in Over => heap'[ref'[u]].board = record.board
      BY <1>6, <1>7, <2>1, <3>1, <3>3, <3>4
    <3>6. Ended(record) => Ended(record') BY DEF Ended
    <3> QED BY <1>7, <2>1, <3>1, <3>2, <3>5, <3>6 DEF IInv, InStep, Over, Busy
  <2>2. x = "archive" => heap'[ref'[t]].board = record'.board /\ Ended(record')
    BY <1>6, <1>8, EndedStays DEF ClocksOnly, Ended
  <2> QED BY <1>2, <1>7, <1>8, <2>1, <2>2 DEF InStep, Over, Busy
<1>12. Public'
  <2>1. /\ mem' # None /\ heap'[mem'].final => Whole
        /\ \A u \in Thread : ref'[u] # None /\ heap'[ref'[u]].final => Whole
    <3>1. heap'[mem'].final => Whole BY <1>6
    <3>2. ASSUME NEW u \in Thread, ref'[u] # None, heap'[ref'[u]].final PROVE Whole
      <4>1. CASE ref'[u] = Loaded BY <1>6, <3>2, <4>1
      <4>2. CASE ref'[u] # Loaded
        <5>1. u # t BY <1>8, <3>2, <4>2
        <5>2. ref'[u] = ref[u] /\ ref[u] \in Cell \cup {None} BY <1>1, <1>7, <5>1 DEF Typed
        <5>3. ref[u] # None /\ heap[ref[u]].final BY <1>6, <3>2, <4>2, <5>2
        <5> QED BY <5>3 DEF IInv, Public
      <4> QED BY <4>1, <4>2
    <3> QED BY <3>1, <3>2
  <2>2. pc[t] # "archive" BY DEF IInv, InStep, Busy
  <2>3. \A u \in Thread : /\ pc'[u] = "archived" => pc[u] = "archived"
                         /\ pc[u] = "archive" => pc'[u] = "archive"
    BY <1>7, <2>2
  <2> QED BY <2>1, <2>3, RecordFacts, ExtendsItself, PublicStays DEF IInv, Public
<1> QED BY <1>4, <1>5, <1>9, <1>10, <1>11, <1>12 DEF Storage

LEMMA AnsweredStays ==
  ASSUME IInv, UNCHANGED answer,
         \A r \in Request : Has(record'.board, r) <=> Has(record.board, r),
         \A r \in Request : pc'[r] \in {"new", "body"} => pc[r] \in {"new", "body"}
  PROVE  Answered'
BY DEF IInv, Answered

LEMMA StorageAndAnswers == Storage' /\ Answered' => IInv'
BY DEF Storage, IInv

\* What was stored is what is stored, or its beginning.
Grows == Extends(record'.board, record.board)

LEMMA NothingStored ==
  ASSUME IInv, UNCHANGED record
  PROVE  Grows
BY RecordFacts, ExtendsItself DEF Grows

\* Only a handler's own stage changes.
LEMMA OneStage ==
  ASSUME IInv, NEW t \in Thread, NEW x \in PC \ {"new", "body"}, pc' = [pc EXCEPT ![t] = x]
  PROVE  \A r \in Request : pc'[r] \in {"new", "body"} => pc[r] \in {"new", "body"}
BY DEF IInv, Typed, Thread

LEMMA RequestsAreThreads == Request \subseteq Thread /\ "alarm" \in Thread \ Request /\ "cron" \in Thread \ Request
BY RoomAssumption DEF Thread

-----------------------------------------------------------------------------
(* One lemma per action.                                                   *)

LEMMA ReceiveStep ==
  ASSUME IInv, Prompt, NEW r \in Request, Receive(r)
  PROVE  IInv' /\ Grows
<1>1. r \in Thread BY RequestsAreThreads
<1>2. ref[r] = None BY <1>1 DEF Receive, IInv, InStep, Busy
<1>3. /\ Sound(Current) /\ ClocksOnly(Current.board, record.board)
      /\ Current.final => Whole
  BY LoadedFacts
<1>4. Storage'
  <2>1. "body" \in PC BY DEF PC
  <2> QED BY <1>1, <1>2, <1>3, <2>1, LoadStep DEF Receive, Goes, outside
<1>5. Answered'
  <2>1. \A q \in Request : pc'[q] \in {"new", "body"} => pc[q] \in {"new", "body"}
    BY <1>1 DEF Receive, Goes, IInv, Typed, Thread
  <2> QED BY <2>1, AnsweredStays DEF Receive
<1> QED BY <1>4, <1>5, StorageAndAnswers, NothingStored DEF Receive

\* A request's handler finds the session it has loaded in memory.
LEMMA BodyFacts ==
  ASSUME IInv, NEW r \in Request, pc[r] = "body"
  PROVE  /\ r \in Thread /\ ref[r] = mem /\ mem \in Cell
         /\ Sound(heap[mem]) /\ ClocksOnly(heap[mem].board, record.board)
         /\ answer[r] = None /\ ~Has(record.board, r)
         /\ heap[mem].final => Whole
<1>1. r \in Thread BY RequestsAreThreads
<1>2. ref[r] = mem /\ mem # None BY <1>1 DEF IInv, InStep, Busy
<1>3. heap[mem].final => Whole BY <1>2 DEF IInv, Public
<1> QED BY <1>1, <1>2, <1>3, NoneIsNothing DEF IInv, Typed, Cells, Ahead, Answered

LEMMA HandleStep ==
  ASSUME IInv, Prompt, NEW r \in Request, Handle(r)
  PROVE  IInv' /\ Grows
<1> DEFINE s == heap[ref[r]]
           c == Expire(s)
           n == Submit(c, r)
<1>1. /\ gate \in {None, r} /\ pc[r] = "body" /\ gate' = r
      /\ answer' = [answer EXCEPT ![r] = IF Accepts(c, r) THEN "ok" ELSE "rejected"]
      /\ pc' = [pc EXCEPT ![r] = "stored"] /\ Write(n, mark)
      /\ heap' = [heap EXCEPT ![ref[r]] = n] /\ UNCHANGED <<mem, ref, d1, sent>>
  BY DEF Handle, Stores, Goes, outside
<1>2. /\ r \in Thread /\ ref[r] = mem /\ mem \in Cell
      /\ Sound(s) /\ ClocksOnly(s.board, record.board)
      /\ answer[r] = None /\ ~Has(record.board, r)
      /\ s.final => Whole
  BY <1>1, BodyFacts
<1>3. /\ Sound(n) /\ Extends(n.board, record.board) /\ (n.final => Whole)
      /\ Accepts(c, r) => Has(n.board, r)
      /\ ~Accepts(c, r) => n = c
      /\ ClocksOnly(c.board, record.board) /\ Sound(c)
      /\ \A q \in Request \ {r} : Has(n.board, q) <=> Has(record.board, q)
  BY <1>2, RecordFacts, HandledSession
<1> HIDE DEF n, c
<1>4. mark \in Nat /\ mark <= record.count BY DEF IInv, Typed, Coherent
<1>5. Storage' /\ record'.board = n.board
  <2>1. ref' = [ref EXCEPT ![r] = mem] BY <1>1, <1>2 DEF IInv, Typed
  <2> QED BY <1>1, <1>2, <1>3, <1>4, <2>1, StoreStep
<1>6. Answered'
  <2>1. answer' \in [Request -> {None, "ok", "rejected", "persist_failed"}]
    BY <1>1 DEF IInv, Answered
  <2>2. ASSUME NEW q \in Request, q # r
        PROVE  /\ answer'[q] = "ok" <=> Has(record'.board, q)
               /\ pc'[q] \in {"new", "body"} => answer'[q] = None
    BY <1>1, <1>2, <1>3, <1>5, <2>2, RequestsAreThreads DEF IInv, Answered, Typed
  <2>3. answer'[r] = "ok" <=> Has(record'.board, r)
    <3>1. CASE Accepts(c, r) BY <1>1, <1>3, <1>5, <3>1 DEF IInv, Answered
    <3>2. CASE ~Accepts(c, r)
      <4>1. ~Has(n.board, r)
        <5>1. c.board \in Seq(Mover) BY <1>3 DEF Sound, Session
        <5> QED BY <1>2, <1>3, <3>2, <5>1, RecordFacts, ClocksAreNobodys
      <4> QED BY <1>1, <1>5, <3>2, <4>1 DEF IInv, Answered
    <3> QED BY <3>1, <3>2
  <2>4. pc'[r] = "stored" BY <1>1, <1>2 DEF IInv, Typed
  <2> QED BY <2>1, <2>2, <2>3, <2>4 DEF Answered
<1> QED BY <1>3, <1>5, <1>6, StorageAndAnswers DEF Grows

LEMMA HandleFailsStep ==
  ASSUME IInv, Prompt, NEW r \in Request, HandleFails(r)
  PROVE  IInv' /\ Grows
<1> DEFINE s == heap[ref[r]]
           n == Submit(Expire(s), r)
           h == [heap EXCEPT ![ref[r]] = n]
<1>1. /\ gate \in {None, r} /\ pc[r] = "body"
      /\ answer' = [answer EXCEPT ![r] = "persist_failed"]
      /\ Returns(r) /\ mem' = None /\ mark' = 0 /\ "put" \in Faults
      /\ heap' = Held(h) /\ UNCHANGED <<rows, record, d1, sent>>
  BY DEF HandleFails, Failing, ResetMemory, outside
<1>2. /\ r \in Thread /\ ref[r] = mem /\ mem \in Cell
      /\ Sound(s) /\ ClocksOnly(s.board, record.board)
      /\ answer[r] = None /\ ~Has(record.board, r)
      /\ s.final => Whole
  BY <1>1, BodyFacts
<1>3. Sound(n) /\ Extends(n.board, record.board) /\ (n.final => Whole)
  BY <1>2, RecordFacts, HandledSession
<1> HIDE DEF n
<1>4. h \in [Cell -> Session \cup {None}] BY <1>3 DEF Sound, IInv, Typed
<1>5. ASSUME NEW u \in Thread \ {r}, pc[u] \in Over
      PROVE  Sound(h[ref[u]]) /\ h[ref[u]].board = record.board
  <2>1. /\ Ended(record) /\ ref[u] \in Cell /\ Sound(heap[ref[u]])
        /\ heap[ref[u]].board = record.board
    BY <1>5 DEF IInv, InStep, Typed, Cells, Over, Busy
  <2>2. CASE ref[u] = mem
    <3>1. h[ref[u]] = n BY <1>2, <2>2 DEF IInv, Typed
    <3> QED BY <1>3, <2>1, <3>1, EndedStays
  <2>3. CASE ref[u] # mem BY <1>2, <2>1, <2>3 DEF IInv, Typed
  <2> QED BY <2>2, <2>3
<1>6. \A u \in Thread \ {r} : ref[u] # None /\ h[ref[u]].final => Whole
  BY <1>2, <1>3 DEF IInv, Public, Typed
<1>7. Storage'
  <2> HIDE DEF h
  <2> QED BY <1>1, <1>2, <1>4, <1>5, <1>6, ReturnStep
<1>8. Answered'
  <2>1. pc'[r] = "done" /\ \A q \in Request : q # r => pc'[q] = pc[q]
    BY <1>1, <1>2, RequestsAreThreads DEF Returns, Goes, IInv, Typed
  <2> QED BY <1>1, <1>2, <2>1 DEF IInv, Answered
<1> QED BY <1>1, <1>7, <1>8, StorageAndAnswers, NothingStored

\* What a wake makes of the session it loads.
LEMMA ExpiredSession ==
  ASSUME IInv
  PROVE  /\ Sound(Expire(Current)) /\ ClocksOnly(Expire(Current).board, record.board)
         /\ Extends(Expire(Current).board, record.board)
         /\ Expire(Current).final => Whole
<1>1. /\ Sound(Current) /\ ClocksOnly(Current.board, record.board)
      /\ Current.final => Whole
  BY LoadedFacts
<1>2. /\ Sound(Expire(Current)) /\ Expire(Current).final = Current.final
      /\ Expire(Current).board \in {Current.board, Append(Current.board, "clock")}
  BY <1>1, ExpireIsSound
<1>3. Current.board \in Seq(Mover) BY <1>1 DEF Sound, Session
<1>4. ClocksOnly(Append(Current.board, "clock"), record.board)
  BY <1>1, <1>3, RecordFacts, OneMoreClock
<1> QED BY <1>1, <1>2, <1>4 DEF ClocksOnly

\* Moves of the clock change nothing for the requests.
LEMMA ClocksAnswerNobody ==
  ASSUME IInv, ClocksOnly(record'.board, record.board), record'.board \in Seq(Mover)
  PROVE  \A r \in Request : Has(record'.board, r) <=> Has(record.board, r)
BY RecordFacts, ClocksAreNobodys

LEMMA WakeStep ==
  ASSUME IInv, Prompt, NEW t \in {"alarm", "cron"}, Wake(t)
  PROVE  IInv' /\ Grows
<1> DEFINE s == Expire(Current)
<1>1. t \in Thread /\ t \notin Request BY RequestsAreThreads
<1>2. /\ gate = None /\ gate' = t /\ pc[t] = "idle" /\ pc' = [pc EXCEPT ![t] = "stored"]
      /\ ref' = [ref EXCEPT ![t] = Loaded] /\ mem' = Loaded /\ Write(s, Watermark)
      /\ heap' = [heap EXCEPT ![Loaded] = s] /\ UNCHANGED <<answer, d1, sent>>
  BY DEF Wake, Called, Stores, Goes, outside
<1>3. /\ Sound(s) /\ ClocksOnly(s.board, record.board) /\ Extends(s.board, record.board)
      /\ s.final => Whole
  BY ExpiredSession
<1>4. Loaded \in Cell /\ Watermark \in Nat /\ Watermark <= record.count BY LoadedFacts
<1>5. mem' = mem \/ (mem = None /\ mem' = Loaded) BY <1>2 DEF Loaded
<1> HIDE DEF s
<1>6. Storage' /\ record'.board = s.board BY <1>1, <1>2, <1>3, <1>4, <1>5, StoreStep
<1>7. record'.board \in Seq(Mover) BY <1>6 DEF Storage, Typed
<1>8. Answered'
  <2>1. \A r \in Request : pc'[r] \in {"new", "body"} => pc[r] \in {"new", "body"}
    BY <1>1, <1>2, OneStage DEF PC
  <2>2. \A r \in Request : Has(record'.board, r) <=> Has(record.board, r)
    BY <1>3, <1>6, <1>7, ClocksAnswerNobody
  <2> QED BY <1>2, <2>1, <2>2, AnsweredStays
<1> QED BY <1>3, <1>6, <1>8, StorageAndAnswers DEF Grows

\* A step of a handler that stores nothing and answers no request.
LEMMA QuietStep ==
  ASSUME IInv, Storage', NEW t \in Thread, NEW x \in PC \ {"new", "body"},
         pc' = [pc EXCEPT ![t] = x], UNCHANGED <<record, answer>>
  PROVE  IInv' /\ Grows
<1>1. Answered' BY OneStage, AnsweredStays
<1> QED BY <1>1, StorageAndAnswers, NothingStored

LEMMA QuietReturn ==
  ASSUME IInv, Storage', NEW t \in Thread, Returns(t), UNCHANGED <<record, answer>>
  PROVE  IInv' /\ Grows
<1>1. PICK x \in {"done", "idle"} : pc' = [pc EXCEPT ![t] = x] BY DEF Returns, Goes
<1>2. x \in PC \ {"new", "body"} BY DEF PC
<1> QED BY <1>1, <1>2, QuietStep

\* A change of the session in memory that keeps what storage has of a game
\* that is over does not touch a handler past the end.
LEMMA OthersKeepTheirs ==
  ASSUME IInv, NEW k \in Cell, NEW s, Sound(s), Extends(s.board, record.board),
         NEW u \in Thread, pc[u] \in Over
  PROVE  LET h == [heap EXCEPT ![k] = s]
         IN  Sound(h[ref[u]]) /\ h[ref[u]].board = record.board
<1>1. /\ Ended(record) /\ ref[u] \in Cell /\ Sound(heap[ref[u]])
      /\ heap[ref[u]].board = record.board
  BY DEF IInv, InStep, Typed, Cells, Over, Busy
<1>2. s.board = record.board BY <1>1, EndedStays
<1> QED BY <1>1, <1>2 DEF IInv, Typed

LEMMA TickFailsStep ==
  ASSUME IInv, Prompt, TickFails
  PROVE  IInv' /\ Grows
<1> DEFINE s == Expire(Current)
           h == IF mem = None THEN heap ELSE [heap EXCEPT ![mem] = s]
<1>1. /\ gate = None /\ Returns("cron") /\ mem' = None /\ mark' = 0 /\ "put" \in Faults
      /\ heap' = Held(h) /\ UNCHANGED <<rows, record, answer, d1, sent>>
      /\ pc["cron"] = "idle"
  BY DEF TickFails, Called, Failing, ResetMemory, outside
<1>2. "cron" \in Thread BY RequestsAreThreads
<1>3. Sound(s) /\ Extends(s.board, record.board) /\ (s.final => Whole) BY ExpiredSession
<1> HIDE DEF s
<1>4. h \in [Cell -> Session \cup {None}] BY <1>3 DEF Sound, IInv, Typed
<1>5. ASSUME NEW u \in Thread, pc[u] \in Over
      PROVE  Sound(h[ref[u]]) /\ h[ref[u]].board = record.board
  <2>1. CASE mem = None BY <1>5, <2>1 DEF IInv, Cells, InStep, Over, Busy
  <2>2. CASE mem # None
    <3>1. mem \in Cell BY <2>2 DEF IInv, Typed
    <3> QED BY <1>3, <1>5, <2>2, <3>1, OthersKeepTheirs
  <2> QED BY <2>1, <2>2
<1>6. \A u \in Thread \ {"cron"} : ref[u] # None /\ h[ref[u]].final => Whole
  BY <1>3 DEF IInv, Public, Typed
<1>7. Storage'
  <2> HIDE DEF h
  <2> QED BY <1>1, <1>2, <1>4, <1>5, <1>6, ReturnStep
<1> QED BY <1>1, <1>2, <1>7, QuietReturn

LEMMA AlarmFailsStep ==
  ASSUME IInv, Prompt, AlarmFails
  PROVE  IInv' /\ Grows
<1> DEFINE s == Expire(Current)
<1>1. /\ gate = None /\ gate' = None /\ pc["alarm"] = "idle" /\ "put" \in Faults
      /\ pc' = [pc EXCEPT !["alarm"] = "docket"] /\ mem' = Loaded /\ mark' = Watermark
      /\ heap' = [heap EXCEPT ![Loaded] = s] /\ UNCHANGED <<rows, record, ref, answer, d1, sent>>
  BY DEF AlarmFails, Called, Failing, Goes, outside
<1>2. Sound(s) /\ ClocksOnly(s.board, record.board) /\ (s.final => Whole) BY ExpiredSession
<1>3. "alarm" \in Thread BY RequestsAreThreads
<1>4. ref["alarm"] = None BY <1>1, <1>3 DEF IInv, InStep, Busy
<1>5. "docket" \in PC \ {"new", "body"} BY DEF PC
<1> HIDE DEF s
<1>6. Storage' BY <1>1, <1>2, <1>3, <1>4, <1>5, LoadStep
<1> QED BY <1>1, <1>3, <1>5, <1>6, QuietStep

LEMMA DocketedStep ==
  ASSUME IInv, Prompt, Docketed
  PROVE  IInv' /\ Grows
<1>1. /\ gate = None /\ pc["alarm"] = "docket" /\ Returns("alarm") /\ mem' = None /\ mark' = 0
      /\ heap' = Held(heap) /\ UNCHANGED <<rows, record, answer, d1, sent>>
  BY DEF Docketed, ResetMemory, outside
<1>2. "alarm" \in Thread BY RequestsAreThreads
<1>3. "put" \in Faults BY <1>1, <1>2 DEF IInv, InStep
<1>4. \A u \in Thread : pc[u] \in Over => Sound(heap[ref[u]]) /\ heap[ref[u]].board = record.board
  BY DEF IInv, Cells, InStep, Over, Busy
<1>5. \A u \in Thread : ref[u] # None /\ heap[ref[u]].final => Whole BY DEF IInv, Public
<1>6. heap \in [Cell -> Session \cup {None}] BY DEF IInv, Typed
<1>7. Storage' BY <1>1, <1>2, <1>3, <1>4, <1>5, <1>6, ReturnStep
<1> QED BY <1>1, <1>2, <1>7, QuietReturn

\* The session in memory of a game whose stored record is over is over too,
\* and one that the alarm loads is over only if the stored record is.
LEMMA AlarmAfterEndStep ==
  ASSUME IInv, Prompt, AlarmAfterEnd
  PROVE  IInv' /\ Grows
<1> DEFINE x == IF Current.final THEN "idle" ELSE "archive"
<1>1. /\ gate = None /\ gate' = None /\ pc["alarm"] = "idle" /\ Ended(Current)
      /\ mem' = Loaded /\ mark' = Watermark /\ heap' = [heap EXCEPT ![Loaded] = Current]
      /\ UNCHANGED <<rows, record, answer, d1, sent>>
      /\ IF Current.final THEN UNCHANGED <<pc, ref>>
         ELSE pc' = [pc EXCEPT !["alarm"] = "archive"] /\ ref' = [ref EXCEPT !["alarm"] = Loaded]
  BY DEF AlarmAfterEnd, Called, Goes, outside
<1>2. "alarm" \in Thread BY RequestsAreThreads
<1>3. ref["alarm"] = None BY <1>1, <1>2 DEF IInv, InStep, Busy
<1>4. /\ Sound(Current) /\ ClocksOnly(Current.board, record.board) /\ Current.board = record.board
      /\ Current.final => Whole
  BY <1>1, LoadedFacts
<1>5. Ended(record) BY <1>1, <1>4 DEF Ended
<1>6. x \in PC \ {"new", "body"} /\ pc' = [pc EXCEPT !["alarm"] = x] BY <1>1, <1>2 DEF PC, IInv, Typed
<1>7. \/ x = "archive" /\ ref' = [ref EXCEPT !["alarm"] = Loaded]
      \/ x = "idle" /\ UNCHANGED ref
  BY <1>1
<1> HIDE DEF x
<1>8. Storage' BY <1>1, <1>2, <1>3, <1>4, <1>5, <1>6, <1>7, LoadStep
<1> QED BY <1>1, <1>2, <1>6, <1>8, QuietStep

\* A handler with a session of its own that is not a request's body: the
\* session is the stored game.
LEMMA OwnSession ==
  ASSUME IInv, NEW t \in Thread, pc[t] \in Busy \ {"body"}
  PROVE  /\ ref[t] \in Cell /\ Sound(heap[ref[t]]) /\ heap[ref[t]].board = record.board
         /\ pc[t] \in Over => Ended(record)
BY DEF IInv, Typed, Cells, InStep

\* A handler that returns and has changed no session.
LEMMA PlainReturn ==
  ASSUME IInv, Prompt, NEW t \in Thread, gate \in {None, t}, Returns(t), pc[t] # "docket",
         UNCHANGED <<rows, record, mem, mark, answer>>, heap' = Held(heap),
         Public' \/ (UNCHANGED <<d1, sent>> /\ pc[t] # "archive")
  PROVE  IInv' /\ Grows
<1>1. \A u \in Thread : pc[u] \in Over => Sound(heap[ref[u]]) /\ heap[ref[u]].board = record.board
  BY OwnSession DEF Over, Busy
<1>2. heap \in [Cell -> Session \cup {None}] BY DEF IInv, Typed
<1>3. \A u \in Thread : ref[u] # None /\ heap[ref[u]].final => Whole BY DEF IInv, Public
<1>4. Storage' BY <1>1, <1>2, <1>3, ReturnStep
<1> QED BY <1>4, QuietReturn

LEMMA SyncAlarmStep ==
  ASSUME IInv, Prompt, NEW t \in Thread, SyncAlarm(t)
  PROVE  IInv' /\ Grows
<1>1. /\ pc[t] \in {"stored", "flagged"} /\ UNCHANGED <<rows, record, mem, mark, answer, d1, sent>>
      /\ \/ /\ pc[t] = "flagged" /\ Goes(t, "rate") /\ gate' = None /\ UNCHANGED <<ref, heap>>
         \/ /\ Ended(heap[ref[t]]) /\ Goes(t, "archive") /\ gate' = None /\ UNCHANGED <<ref, heap>>
         \/ Returns(t) /\ heap' = Held(heap)
  BY DEF SyncAlarm, outside
<1>2. pc[t] \in Busy \ {"body"} /\ pc[t] # "docket" BY <1>1 DEF Busy
<1>3. gate = t BY <1>1 DEF IInv, InStep
<1>4. heap[ref[t]].board = record.board /\ (pc[t] \in Over => Ended(record))
  BY <1>2, OwnSession
<1>5. ASSUME NEW x \in {"archive", "rate"}, Goes(t, x), Ended(record), gate' = None,
             UNCHANGED <<ref, heap>>
      PROVE  IInv' /\ Grows
  <2>1. Public'
    <3>1. \A u \in Thread : u # t => pc'[u] = pc[u] BY <1>5 DEF Goes, IInv, Typed
    <3>2. pc'[t] = x BY <1>5 DEF Goes, IInv, Typed
    <3>3. /\ mem' # None /\ heap'[mem'].final => Whole
          /\ \A u \in Thread : ref'[u] # None /\ heap'[ref'[u]].final => Whole
      BY <1>1, <1>5 DEF IInv, Public
    <3> QED BY <1>1, <3>1, <3>2, <3>3, RecordFacts, ExtendsItself, PublicStays DEF IInv, Public
  <2>2. Storage' BY <1>1, <1>2, <1>3, <1>5, <2>1, GoesOn
  <2>3. x \in PC \ {"new", "body"} BY DEF PC
  <2> QED BY <1>1, <1>5, <2>2, <2>3, QuietStep DEF Goes
<1>6. CASE pc[t] = "flagged" /\ Goes(t, "rate") /\ gate' = None /\ UNCHANGED <<ref, heap>>
  BY <1>4, <1>5, <1>6 DEF Over
<1>7. CASE Ended(heap[ref[t]]) /\ Goes(t, "archive") /\ gate' = None /\ UNCHANGED <<ref, heap>>
  BY <1>4, <1>5, <1>7 DEF Ended
<1>8. CASE Returns(t) /\ heap' = Held(heap)
  BY <1>1, <1>2, <1>3, <1>8, PlainReturn
<1> QED BY <1>1, <1>6, <1>7, <1>8

\* A batch goes on with the rows that D1 has; the one with the last row makes
\* the log whole.
LEMMA BatchFacts ==
  ASSUME IInv, NEW t \in Thread, pc[t] = "archive"
  PROVE  LET b == AfterBatch(t)
             n == sent[t] + BatchSize
         IN  /\ b.status = "ended" /\ b.log \in Seq(Mover) /\ Extends(record.board, b.log)
             /\ b = [status |-> b.status, log |-> b.log]
             /\ Len(d1.log) <= Len(b.log)
             /\ n <= Len(b.log) + 1 \/ b.log = record.board
             /\ n >= Statements(heap[ref[t]].log) => b.log = record.board
<1> DEFINE L == record.board
           D == d1.log
           n == sent[t] + BatchSize
           last == IF n <= Len(L) THEN n - 1 ELSE Len(L)
           m == IF Len(D) > last THEN Len(D) ELSE last
           B == AfterBatch(t).log
<1>1. heap[ref[t]].log = L /\ pc[t] \in Busy \ {"body"}
  BY OwnSession DEF Busy, Sound
<1>2. L \in Seq(Mover) /\ Len(L) \in Nat BY RecordFacts
<1>3. /\ D \in Seq(Mover) /\ Len(D) \in Nat /\ Len(D) <= Len(L) /\ \A i \in 1 .. Len(D) : D[i] = L[i]
      /\ sent[t] \in Nat /\ (sent[t] # 0 => sent[t] <= Len(D) + 1 \/ D = L)
  BY DEF IInv, Public, Extends
<1>4. n \in Nat /\ sent[t] < n /\ BatchSize \in Nat BY <1>3, RoomAssumption
<1>5. /\ B = [i \in 1 .. m |-> IF i \in sent[t] .. last THEN L[i] ELSE D[i]]
      /\ AfterBatch(t) = [status |-> "ended", log |-> B]
  <2>1. AfterBatch(t) = [status |-> "ended", log |-> Replaced(D, L, sent[t], LastRow(sent[t], L))]
    BY <1>1 DEF AfterBatch
  <2>2. LastRow(sent[t], L) = last BY <1>2, <1>3, RoomAssumption DEF LastRow
  <2>3. Replaced(D, L, sent[t], last) = [i \in 1 .. m |-> IF i \in sent[t] .. last THEN L[i] ELSE D[i]]
    BY DEF Replaced
  <2> QED BY <2>1, <2>2, <2>3
<1> HIDE DEF B
<1>6. last \in Nat /\ last <= Len(L) /\ m \in Nat /\ m <= Len(L) /\ Len(D) <= m /\ last <= m
  <2>1. last \in Int /\ last <= Len(L)
    <3>1. CASE n <= Len(L) BY <1>2, <1>4, <3>1
    <3>2. CASE ~(n <= Len(L)) BY <1>2, <3>2
    <3> QED BY <3>1, <3>2
  <2>2. last >= 0
    <3>1. n >= 1 BY <1>3, <1>4
    <3>2. CASE n <= Len(L) BY <1>4, <3>1, <3>2
    <3>3. CASE ~(n <= Len(L)) BY <1>2, <3>3
    <3> QED BY <3>2, <3>3
  <2> HIDE DEF last
  <2>3. CASE Len(D) > last BY <1>2, <1>3, <2>1, <2>2, <2>3
  <2>4. CASE ~(Len(D) > last) BY <1>2, <1>3, <2>1, <2>2, <2>4
  <2> QED BY <2>3, <2>4
<1>7. \A i \in 1 .. m : B[i] = L[i]
  <2>1. ASSUME NEW i \in 1 .. m PROVE B[i] = L[i]
    <3>1. CASE i \in sent[t] .. last BY <1>5, <2>1, <3>1
    <3>2. CASE i \notin sent[t] .. last
      <4>1. i \in 1 .. Len(D)
        <5>1. CASE i > last BY <1>3, <1>6, <2>1, <5>1
        <5>2. CASE i < sent[t] BY <1>2, <1>3, <1>6, <2>1, <5>2
        <5> QED BY <1>3, <1>6, <2>1, <3>2, <5>1, <5>2
      <4> QED BY <1>3, <1>5, <2>1, <3>2, <4>1
    <3> QED BY <3>1, <3>2
  <2> QED BY <2>1
<1>8. B \in Seq(Mover) /\ Len(B) = m
  <2>1. \A i \in 1 .. m : B[i] \in Mover BY <1>2, <1>6, <1>7
  <2>2. B \in [1 .. m -> Mover] BY <1>5, <2>1
  <2> QED BY <1>6, <2>2, IsASeq
<1>9. Extends(L, B) BY <1>6, <1>7, <1>8 DEF Extends
<1>10. n > Len(L) => B = L
  <2>1. n > Len(L) => last = Len(L) BY <1>2, <1>4
  <2>2. last = Len(L) => m = Len(L) BY <1>2, <1>3
  <2> QED BY <1>2, <1>7, <1>8, <2>1, <2>2, SeqEqual
<1>11. n <= Len(B) + 1 \/ B = L
  <2>1. n <= Len(L) => n - 1 <= m BY <1>2, <1>4, <1>6
  <2> QED BY <1>2, <1>4, <1>6, <1>8, <1>10, <2>1
<1>12. n >= Statements(heap[ref[t]].log) => B = L
  BY <1>1, <1>2, <1>4, <1>10, RoomAssumption DEF Statements
<1> HIDE DEF last, m
<1> QED BY <1>5, <1>6, <1>8, <1>9, <1>11, <1>12 DEF B

\* What is public stays so when a batch is sent, or fails.
LEMMA BatchStep ==
  ASSUME IInv, NEW t \in Thread, pc[t] = "archive", d1' \in {d1, AfterBatch(t)},
         NEW k \in Nat, sent' = [sent EXCEPT ![t] = k],
         k = 0 \/ (k = sent[t] + BatchSize /\ d1' = AfterBatch(t)),
         NEW x, pc' = [pc EXCEPT ![t] = x], k # 0 => x = "archive",
         x = "archived" => d1' = AfterBatch(t) /\ sent[t] + BatchSize >= Statements(heap[ref[t]].log),
         UNCHANGED record,
         mem' # None /\ heap'[mem'].final => Whole,
         \A u \in Thread : ref'[u] # None /\ heap'[ref'[u]].final => Whole
  PROVE  Public'
<1> DEFINE b == AfterBatch(t)
<1>1. /\ b.status = "ended" /\ b.log \in Seq(Mover) /\ Extends(record.board, b.log)
      /\ b = [status |-> b.status, log |-> b.log]
      /\ Len(d1.log) <= Len(b.log)
      /\ sent[t] + BatchSize <= Len(b.log) + 1 \/ b.log = record.board
      /\ sent[t] + BatchSize >= Statements(heap[ref[t]].log) => b.log = record.board
  BY BatchFacts
<1> HIDE DEF b
<1>2. /\ d1 \in [status : {"none", "live", "ended"}, log : Seq(Mover)] /\ sent \in [Thread -> Nat]
      /\ Extends(record.board, d1.log)
  BY DEF IInv, Public
<1>3. Ended(record) /\ Ended(record') BY OwnSession DEF Busy, Over, Ended
<1>4. /\ d1' \in [status : {"none", "live", "ended"}, log : Seq(Mover)]
      /\ Extends(record.board, d1'.log) /\ Len(d1.log) <= Len(d1'.log)
      /\ d1' = d1 \/ d1'.status = "ended"
  <2>1. CASE d1' = d1 BY <1>2, <2>1
  <2>2. CASE d1' = b BY <1>1, <2>2
  <2> QED BY <2>1, <2>2 DEF b
<1>5. record.board \in Seq(Mover) /\ d1.log \in Seq(Mover) /\ d1'.log \in Seq(Mover) BY <1>2, <1>4, RecordFacts
<1>6. d1.log = record.board => d1'.log = record.board BY <1>4, <1>5, SameLength
<1>7. Whole => Whole' BY <1>4, <1>6 DEF Whole
<1>8. \A u \in Thread : u # t => pc'[u] = pc[u] /\ sent'[u] = sent[u] BY <1>2 DEF IInv, Typed
<1>9. pc'[t] = x /\ sent'[t] = k BY <1>2 DEF IInv, Typed
<1>10. ASSUME NEW u \in Thread, sent'[u] # 0
       PROVE  pc'[u] = "archive" /\ (sent'[u] <= Len(d1'.log) + 1 \/ d1'.log = record.board)
  <2>1. CASE u = t
    <3>1. k = sent[t] + BatchSize /\ d1' = b /\ x = "archive" BY <1>9, <1>10, <2>1 DEF b
    <3> QED BY <1>1, <1>9, <2>1, <3>1
  <2>2. CASE u # t
    <3>1. pc[u] = "archive" /\ (sent[u] <= Len(d1.log) + 1 \/ d1.log = record.board) /\ sent[u] \in Nat
      BY <1>2, <1>8, <1>10, <2>2 DEF IInv, Public
    <3> QED BY <1>4, <1>5, <1>6, <1>8, <2>2, <3>1
  <2> QED BY <2>1, <2>2
<1>11. ASSUME NEW u \in Thread, pc'[u] = "archived" PROVE Whole'
  <2>1. CASE u = t BY <1>1, <1>9, <1>11, <2>1 DEF Whole, b
  <2>2. CASE u # t BY <1>7, <1>8, <1>11, <2>2 DEF IInv, Public
  <2> QED BY <2>1, <2>2
<1>12. sent' \in [Thread -> Nat] BY <1>2
<1>13. record'.final => Whole' BY <1>7 DEF IInv, Public
<1> QED BY <1>3, <1>4, <1>7, <1>10, <1>11, <1>12, <1>13 DEF Public

\* The sessions that memory and the handlers keep are final only when the whole
\* log is in D1, and stay so when none is changed.
LEMMA FinalsStay ==
  ASSUME IInv, NEW t \in Thread, UNCHANGED mem,
         \/ UNCHANGED <<heap, ref>>
         \/ heap' = Held(heap) /\ ref' = [ref EXCEPT ![t] = None]
  PROVE  /\ mem' # None /\ heap'[mem'].final => Whole
         /\ \A u \in Thread : ref'[u] # None /\ heap'[ref'[u]].final => Whole
<1>1. CASE UNCHANGED <<heap, ref>> BY <1>1 DEF IInv, Public
<1>2. CASE heap' = Held(heap) /\ ref' = [ref EXCEPT ![t] = None]
  <2>1. /\ mem' \in Cell => heap'[mem'] = heap[mem']
        /\ \A u \in Thread : ref'[u] \in Cell => heap'[ref'[u]] = heap[ref'[u]]
    BY <1>2, HeldFacts DEF IInv, Typed
  <2> QED BY <1>2, <2>1 DEF IInv, Public, Typed
<1> QED BY <1>1, <1>2

LEMMA ArchiveStep ==
  ASSUME IInv, Prompt, NEW t \in Thread, Archive(t)
  PROVE  IInv' /\ Grows
<1> DEFINE n == sent[t] + BatchSize
<1>1. /\ gate = None /\ gate' = None /\ pc[t] = "archive" /\ d1' = AfterBatch(t)
      /\ UNCHANGED <<rows, record, heap, mem, mark, ref, answer>>
      /\ \/ sent' = [sent EXCEPT ![t] = n] /\ UNCHANGED pc
         \/ n >= Statements(heap[ref[t]].log) /\ sent' = [sent EXCEPT ![t] = 0] /\ Goes(t, "archived")
  <2>1. ~(n < Statements(heap[ref[t]].log)) => n >= Statements(heap[ref[t]].log)
    <3>1. pc[t] = "archive" BY DEF Archive
    <3>2. heap[ref[t]].log = record.board BY <3>1, OwnSession DEF Busy, Sound
    <3> QED BY <3>2, RecordFacts, RoomAssumption DEF Statements, IInv, Public
  <2> QED BY <2>1 DEF Archive, memory
<1>2. pc[t] \in Busy \ {"body"} BY <1>1 DEF Busy
<1>3. Ended(record) BY <1>1, <1>2, OwnSession DEF Over
<1>4. n \in Nat BY RoomAssumption DEF IInv, Public
<1>5. PICK x \in {"archive", "archived"} :
        /\ pc' = [pc EXCEPT ![t] = x]
        /\ \/ x = "archive" /\ sent' = [sent EXCEPT ![t] = n]
           \/ /\ x = "archived" /\ n >= Statements(heap[ref[t]].log)
              /\ sent' = [sent EXCEPT ![t] = 0]
  <2>1. CASE UNCHANGED pc /\ sent' = [sent EXCEPT ![t] = n]
    <3>1. pc' = [pc EXCEPT ![t] = "archive"] BY <1>1, <2>1 DEF IInv, Typed
    <3> QED BY <2>1, <3>1
  <2>2. CASE Goes(t, "archived") BY <1>1, <2>2 DEF Goes
  <2> QED BY <1>1, <2>1, <2>2
<1> HIDE DEF n
<1>6. /\ mem' # None /\ heap'[mem'].final => Whole
      /\ \A u \in Thread : ref'[u] # None /\ heap'[ref'[u]].final => Whole
  BY <1>1, FinalsStay
<1>7. Public' BY <1>1, <1>4, <1>5, <1>6, BatchStep DEF n
<1>8. Storage' BY <1>1, <1>2, <1>3, <1>5, <1>7, GoesOn DEF Goes
<1>9. x \in PC \ {"new", "body"} BY DEF PC
<1> QED BY <1>1, <1>5, <1>8, <1>9, QuietStep

LEMMA ArchiveFailsStep ==
  ASSUME IInv, Prompt, NEW t \in Thread, ArchiveFails(t)
  PROVE  IInv' /\ Grows
<1>1. /\ gate = None /\ pc[t] = "archive" /\ d1' \in {d1, AfterBatch(t)}
      /\ sent' = [sent EXCEPT ![t] = 0] /\ Returns(t) /\ heap' = Held(heap)
      /\ UNCHANGED <<rows, record, mem, mark, answer>>
  BY DEF ArchiveFails, BatchFails
<1>2. /\ mem' # None /\ heap'[mem'].final => Whole
      /\ \A u \in Thread : ref'[u] # None /\ heap'[ref'[u]].final => Whole
  BY <1>1, FinalsStay DEF Returns
<1>3. PICK x \in {"done", "idle"} : pc' = [pc EXCEPT ![t] = x] BY <1>1 DEF Returns, Goes
<1>4. Public' BY <1>1, <1>2, <1>3, BatchStep
<1> QED BY <1>1, <1>4, PlainReturn

LEMMA FinalizedIsSound ==
  ASSUME NEW s, Sound(s)
  PROVE  Sound(Finalized(s)) /\ Finalized(s).board = s.board
BY DEF Finalized, Sound, Session

LEMMA MarkFinalizedStep ==
  ASSUME IInv, Prompt, NEW t \in Thread, MarkFinalized(t)
  PROVE  IInv' /\ Grows
<1> DEFINE s == Finalized(heap[ref[t]])
<1>1. /\ gate = None /\ gate' = t /\ pc[t] = "archived" /\ pc' = [pc EXCEPT ![t] = "flagged"]
      /\ Write(s, mark) /\ heap' = [heap EXCEPT ![ref[t]] = Finalized(@)]
      /\ UNCHANGED <<mem, ref, answer, d1, sent>>
  BY DEF MarkFinalized, Stores, Goes, outside
<1>2. pc[t] \in Busy \ {"body"} BY <1>1 DEF Busy
<1>3. /\ ref[t] \in Cell /\ Sound(heap[ref[t]]) /\ heap[ref[t]].board = record.board
      /\ Ended(record)
  BY <1>1, <1>2, OwnSession DEF Over
<1>4. Sound(s) /\ s.board = record.board BY <1>3, FinalizedIsSound
<1>5. heap' = [heap EXCEPT ![ref[t]] = s] BY <1>1, <1>3 DEF IInv, Typed
<1>6. ref' = [ref EXCEPT ![t] = ref[t]] BY <1>1 DEF IInv, Typed
<1>7. Extends(s.board, record.board) BY <1>4, RecordFacts, ExtendsItself
<1>8. mark \in Nat /\ mark <= record.count BY DEF IInv, Typed, Coherent
<1> HIDE DEF s
<1>9. Storage' /\ record'.board = s.board
  <2>1. /\ gate \in {None, t} /\ gate' = t /\ pc' = [pc EXCEPT ![t] = "flagged"]
        /\ Write(s, mark) /\ mem' = mem /\ UNCHANGED <<d1, sent>>
        /\ (s.final => Whole) /\ pc[t] # "archive"
    BY <1>1 DEF IInv, Public
  <2>2. ref[t] \in Cell /\ Ended(record) /\ Sound(s) BY <1>3, <1>4
  <2>3. mem' # ref[t] => mem' = None \/ Ended(record) BY <2>2
  <2>4. mem' = mem \/ (mem = None /\ mem' = ref[t]) BY <2>1
  <2> QED BY <2>1, <2>2, <2>3, <2>4, <1>5, <1>6, <1>7, <1>8, StoreStep
<1>10. Answered'
  <2>1. \A r \in Request : pc'[r] \in {"new", "body"} => pc[r] \in {"new", "body"}
    BY <1>1, OneStage DEF PC
  <2> QED BY <1>1, <1>4, <1>9, <2>1, AnsweredStays
<1> QED BY <1>7, <1>9, <1>10, StorageAndAnswers DEF Grows

LEMMA MarkFinalizedFailsStep ==
  ASSUME IInv, Prompt, NEW t \in Thread, MarkFinalizedFails(t)
  PROVE  IInv' /\ Grows
<1> DEFINE s == Finalized(heap[ref[t]])
           h == [heap EXCEPT ![ref[t]] = s]
<1>1. /\ gate = None /\ pc[t] = "archived" /\ Returns(t) /\ mem' = None /\ mark' = 0
      /\ "put" \in Faults /\ heap' = Held([heap EXCEPT ![ref[t]] = Finalized(@)])
      /\ UNCHANGED <<rows, record, answer, d1, sent>>
  BY DEF MarkFinalizedFails, ResetMemory, Failing, outside
<1>2. pc[t] \in Busy \ {"body"} BY <1>1 DEF Busy
<1>3. /\ ref[t] \in Cell /\ Sound(heap[ref[t]]) /\ heap[ref[t]].board = record.board
  BY <1>2, OwnSession
<1>4. Sound(s) /\ s.board = record.board BY <1>3, FinalizedIsSound
<1>5. heap' = Held(h) BY <1>1, <1>3 DEF IInv, Typed
<1> HIDE DEF s
<1>6. h \in [Cell -> Session \cup {None}] BY <1>3, <1>4 DEF Sound, IInv, Typed
<1>7. \A u \in Thread : pc[u] \in Over => Sound(h[ref[u]]) /\ h[ref[u]].board = record.board
  <2>1. Extends(s.board, record.board) BY <1>4, RecordFacts, ExtendsItself
  <2> QED BY <1>3, <1>4, <2>1, OthersKeepTheirs
<1>8. Whole BY <1>1 DEF IInv, Public
<1>9. Storage'
  <2> HIDE DEF h
  <2> QED BY <1>1, <1>5, <1>6, <1>7, <1>8, ReturnStep
<1> QED BY <1>1, <1>9, QuietReturn

LEMMA RateStep ==
  ASSUME IInv, Prompt, NEW t \in Thread, Rate(t)
  PROVE  IInv' /\ Grows
<1>1. pc[t] = "rate" /\ UNCHANGED <<d1, sent>> BY DEF Rate
<1> QED BY <1>1, PlainReturn DEF Rate

LEMMA SoonerFacts ==
  ASSUME NEW n \in 0 .. TurnTime
  PROVE  Sooner(n) \in 0 .. TurnTime
BY RoomAssumption DEF Sooner

LEMMA AgeStep ==
  ASSUME IInv, Age
  PROVE  IInv' /\ Grows
<1>1. /\ record' = [record EXCEPT !.left = Sooner(@)]
      /\ heap' = [c \in Cell |-> IF heap[c] = None THEN None ELSE [heap[c] EXCEPT !.left = Sooner(@)]]
      /\ UNCHANGED <<rows, mem, mark, pc, ref, answer, gate, d1, sent>>
  BY DEF Age, control, outside
<1>2. /\ record' \in [count : Nat, board : Seq(Mover), left : 0 .. TurnTime, final : BOOLEAN]
      /\ record'.board = record.board /\ record'.count = record.count
      /\ record'.final = record.final
  BY <1>1, SoonerFacts DEF IInv, Typed
<1>3. ASSUME NEW s \in Session
      PROVE  LET n == [s EXCEPT !.left = Sooner(@)]
             IN  n \in Session /\ n.log = s.log /\ n.board = s.board /\ n.final = s.final
  BY SoonerFacts DEF Session
<1>4. ASSUME NEW c \in Cell
      PROVE  /\ heap'[c] \in Session \cup {None}
             /\ Sound(heap[c]) => /\ Sound(heap'[c]) /\ heap'[c].board = heap[c].board
                                 /\ heap'[c].final = heap[c].final
  BY <1>1, <1>3 DEF IInv, Typed, Sound
<1>5. Typed'
  <2>1. heap' \in [Cell -> Session \cup {None}] BY <1>1, <1>4
  <2> QED BY <1>1, <1>2, <2>1 DEF IInv, Typed
<1>6. Coherent' BY <1>1, <1>2 DEF IInv, Coherent, Stored
<1>7. (Ended(record) => Ended(record')) BY <1>2 DEF Ended
<1>8. mem # None => mem \in Cell /\ Sound(heap[mem])
  BY DEF IInv, Typed, Cells
<1>9. \A t \in Thread : ref[t] # None => ref[t] \in Cell /\ Sound(heap[ref[t]])
  BY DEF IInv, Typed, Cells
<1>10. Cells' BY <1>1, <1>4, <1>8, <1>9 DEF IInv, Cells
<1>11. Ahead' BY <1>1, <1>2, <1>4, <1>8 DEF IInv, Ahead
<1>12. InStep'
  <2>1. \A t \in Thread : pc[t] \in Busy \ {"body"} => heap'[ref[t]].board = record.board
    BY <1>4, OwnSession
  <2> QED BY <1>1, <1>2, <1>7, <2>1 DEF IInv, InStep
<1>13. Answered' BY <1>1, <1>2 DEF IInv, Answered
<1>14. Public'
  <2>1. /\ mem' # None /\ heap'[mem'].final => Whole
        /\ \A t \in Thread : ref'[t] # None /\ heap'[ref'[t]].final => Whole
    BY <1>1, <1>4, <1>8, <1>9 DEF IInv, Public
  <2> QED BY <1>1, <1>2, <2>1, RecordFacts, ExtendsItself, PublicStays
<1>15. Grows BY <1>2, RecordFacts, ExtendsItself DEF Grows
<1> QED BY <1>5, <1>6, <1>10, <1>11, <1>12, <1>13, <1>14, <1>15 DEF IInv

\* Memory and every handler's own session are gone, storage is what it was.
LEMMA LostMemory ==
  ASSUME IInv, heap' = [c \in Cell |-> None], mem' = None, mark' = 0, gate' \in {None, gate},
         ref' = [t \in Thread |-> None], pc' \in [Thread -> {"new", "idle", "done", "lost"}],
         \A t \in Thread : pc'[t] = "new" => pc[t] = "new",
         sent' = [t \in Thread |-> 0], UNCHANGED <<rows, record, answer, d1>>
  PROVE  IInv' /\ Grows
<1>1. Typed' BY DEF IInv, Typed, PC
<1>2. Coherent' BY RecordFacts DEF IInv, Coherent, Stored
<1>3. Cells' /\ Ahead' BY DEF Cells, Ahead
<1>4. InStep' BY DEF InStep, Busy, Over
<1>5. Answered' BY RequestsAreThreads DEF IInv, Answered
<1>6. Public' BY RecordFacts, ExtendsItself, PublicStays
<1> QED BY <1>1, <1>2, <1>3, <1>4, <1>5, <1>6, NothingStored DEF IInv

LEMMA EvictStep ==
  ASSUME IInv, Evict
  PROVE  IInv' /\ Grows
<1>1. pc \in [Thread -> {"new", "idle", "done", "lost"}] BY DEF Evict, AtRest, IInv, Typed
<1>2. ref = [t \in Thread |-> None] BY <1>1 DEF IInv, InStep, Busy, Typed
<1>3. sent = [t \in Thread |-> 0]
  <2>1. \A t \in Thread : sent[t] = 0 BY <1>1 DEF IInv, Public
  <2> QED BY <2>1 DEF IInv, Public
<1> QED BY <1>1, <1>2, <1>3, LostMemory DEF Evict, control, outside

LEMMA CrashStep ==
  ASSUME IInv, Crash
  PROVE  IInv' /\ Grows
<1>1. pc' = [t \in Thread |-> IF AtRest(t) THEN pc[t] ELSE IF t \in Request THEN "lost" ELSE "idle"]
  BY DEF Crash
<1>2. pc' \in [Thread -> {"new", "idle", "done", "lost"}] BY <1>1 DEF AtRest
<1>3. \A t \in Thread : pc'[t] = "new" => pc[t] = "new" BY <1>1
<1> QED BY <1>2, <1>3, LostMemory DEF Crash, outside

LEMMA StutterStep ==
  ASSUME IInv, UNCHANGED vars
  PROVE  IInv' /\ Grows
<1>1. Typed' /\ Coherent' BY DEF vars, IInv, Typed, Coherent, Stored
<1>2. Cells' /\ Ahead' BY DEF vars, IInv, Cells, Ahead
<1>3. InStep' BY DEF vars, IInv, InStep, Ended
<1>4. Answered' /\ Public' BY DEF vars, IInv, Answered, Public, Ended, Whole
<1> QED BY <1>1, <1>2, <1>3, <1>4, NothingStored DEF IInv, vars

LEMMA InitIInv == Init => IInv
<1> SUFFICES ASSUME Init PROVE IInv
  OBVIOUS
<1>1. Thread # {} /\ None \notin Thread BY NoneIsNothing DEF Thread
<1>2. Typed BY RoomAssumption DEF Init, Typed, PC
<1>3. Coherent BY RoomAssumption DEF Init, Coherent, Stored
<1>4. Cells /\ Ahead BY DEF Init, Cells, Ahead
<1>5. InStep BY DEF Init, InStep, Busy, Over
<1>6. Answered BY NoneIsNothing DEF Init, Answered, Has
<1>7. Public
  <2>1. d1.log = <<>> /\ record.board = <<>> /\ ~record.final /\ mem = None /\ d1.status # "ended"
    BY DEF Init
  <2>2. \A t \in Thread : ref[t] = None /\ pc[t] # "archived" /\ sent[t] = 0 BY DEF Init
  <2>3. d1 \in [status : {"none", "live", "ended"}, log : Seq(Mover)]
    <3>1. d1 \in [status : {"none", "live"}, log : {<<>>}] BY DEF Init
    <3>2. <<>> \in Seq(Mover) OBVIOUS
    <3> QED BY <3>1, <3>2
  <2>4. sent \in [Thread -> Nat] BY DEF Init
  <2> QED BY <2>1, <2>2, <2>3, <2>4 DEF Public, Extends
<1> QED BY <1>2, <1>3, <1>4, <1>5, <1>6, <1>7 DEF IInv

LEMMA NextIInv ==
  ASSUME Prompt, IInv, [Next]_vars
  PROVE  IInv' /\ Grows
<1>1. CASE Age BY <1>1, AgeStep
<1>2. CASE Evict BY <1>2, EvictStep
<1>3. CASE Crash BY <1>3, CrashStep
<1>4. CASE Alarm BY <1>4, WakeStep, AlarmFailsStep, DocketedStep, AlarmAfterEndStep DEF Alarm
<1>5. CASE Wake("cron") BY <1>5, WakeStep
<1>6. CASE TickFails BY <1>6, TickFailsStep
<1>7. CASE \E r \in Request : Receive(r) \/ Handle(r) \/ HandleFails(r)
  BY <1>7, ReceiveStep, HandleStep, HandleFailsStep
<1>8. CASE \E t \in Thread : Finalize(t)
  BY <1>8, SyncAlarmStep, ArchiveStep, ArchiveFailsStep, MarkFinalizedStep,
     MarkFinalizedFailsStep, RateStep DEF Finalize
<1>9. CASE UNCHANGED vars BY <1>9, StutterStep
<1> QED BY <1>1, <1>2, <1>3, <1>4, <1>5, <1>6, <1>7, <1>8, <1>9 DEF Next

-----------------------------------------------------------------------------
(* The theorems.                                                           *)

LEMMA Invariance == ASSUME Prompt PROVE Spec => []IInv
<1>1. IInv /\ [Next]_vars => IInv' BY NextIInv
<1> QED BY <1>1, InitIInv, PTL DEF Spec

\* Where the rows are, and which requests they are of.
LEMMA StoredFacts ==
  ASSUME IInv
  PROVE  /\ Stored = record.board
         /\ \A r \in Request : IsStored(r) <=> Has(record.board, r)
<1>1. DOMAIN record.board = 1 .. Len(record.board) BY RecordFacts
<1> QED BY <1>1 DEF IInv, Coherent, IsStored, Has

\* The rows and the core record of storage (room.ts persist) are always those
\* of one game, however often the put, the alarm, D1 or the instance fails.
THEOREM CoherentStorage == ASSUME Prompt PROVE Spec => []StoredGameIsCoherent
<1>1. IInv => StoredGameIsCoherent BY StoredFacts DEF StoredGameIsCoherent
<1> QED BY <1>1, Invariance, PTL

\* A move whose request was answered with ok (handleMove, after persist) is in
\* storage for good.
THEOREM DurableMoves == ASSUME Prompt PROVE Spec => []AckedMoveIsDurable
<1>1. IInv => AckedMoveIsDurable
  BY StoredFacts DEF AckedMoveIsDurable, Replied, IInv, Answered
<1> QED BY <1>1, Invariance, PTL

\* A move whose request was answered with persist_failed, or turned down, is
\* never in storage, whatever handlers run later.
THEOREM RefusedMoves == ASSUME Prompt PROVE Spec => []FailedMoveNeverLands
<1>1. IInv => FailedMoveNeverLands
  BY StoredFacts DEF FailedMoveNeverLands, Replied, IInv, Answered
<1> QED BY <1>1, Invariance, PTL

\* What finalize has written to D1 is the log that storage has of a game that
\* is over, or the rows of its first batches; all of them once the flag is set.
THEOREM FaithfulArchive == ASSUME Prompt PROVE Spec => []ArchiveIsTheGame
<1>1. ASSUME IInv PROVE ArchiveIsTheGame
  <2>1. /\ d1.log \in Seq(Mover) /\ Extends(record.board, d1.log)
        /\ d1.status = "ended" \/ d1.log # <<>> => Ended(record)
        /\ record.final => Whole
    BY <1>1 DEF IInv, Public
  <2>2. Stored = record.board /\ record.board \in Seq(Mover) /\ Len(record.board) \in Nat
    BY <1>1, StoredFacts, RecordFacts
  <2>3. Len(d1.log) \in Nat /\ Len(d1.log) <= Len(record.board) BY <2>1 DEF Extends
  <2>4. d1.log = SubSeq(record.board, 1, Len(d1.log))
    <3> DEFINE q == SubSeq(record.board, 1, Len(d1.log))
    <3>1. \A i \in 1 .. Len(d1.log) : record.board[i] \in Mover BY <2>2, <2>3
    <3>2. /\ q \in Seq(Mover)
          /\ Len(q) = IF 1 <= Len(d1.log) THEN Len(d1.log) - 1 + 1 ELSE 0
          /\ \A i \in 1 .. Len(d1.log) - 1 + 1 : q[i] = record.board[1 + i - 1]
      BY <2>3, <3>1, SubSeqProperties
    <3> HIDE DEF q
    <3>3. Len(q) = Len(d1.log) BY <2>3, <3>2
    <3>4. \A i \in 1 .. Len(d1.log) : q[i] = d1.log[i] BY <2>1, <2>3, <3>2 DEF Extends
    <3>5. q = d1.log BY <2>1, <3>2, <3>3, <3>4, SeqEqual
    <3> QED BY <3>5 DEF q
  <2> QED BY <2>1, <2>2, <2>3, <2>4 DEF ArchiveIsTheGame, Whole
<1> QED BY <1>1, Invariance, PTL

\* No step takes back or replaces a stored move.
THEOREM NothingIsTakenBack == ASSUME Prompt PROVE Spec => StoredGameOnlyGrows
<1> DEFINE Kept == Len(Stored) <= Len(Stored') /\ \A i \in DOMAIN Stored : Stored'[i] = Stored[i]
<1>1. IInv /\ IInv' /\ [Next]_vars => [Kept]_vars
  <2> SUFFICES ASSUME IInv, IInv', [Next]_vars PROVE Kept
    OBVIOUS
  <2>1. Extends(record'.board, record.board) BY NextIInv DEF Grows
  <2>2. Stored = record.board /\ Stored' = record'.board BY DEF IInv, Coherent
  <2>3. DOMAIN record.board = 1 .. Len(record.board) BY RecordFacts
  <2> QED BY <2>1, <2>2, <2>3 DEF Extends
<1> QED BY <1>1, Invariance, PTL DEF Spec, StoredGameOnlyGrows

-----------------------------------------------------------------------------
(* The wakes.  As long as neither a put nor the setting of an alarm fails, *)
(* no handler is left with an object that memory has dropped (OneObject),  *)
(* and a game whose end is not final has an alarm or one being handled.    *)

Scheduled == Faults \cap {"put", "setAlarm"} = {}

OneObject ==
  /\ \A t \in Thread : ref[t] # None => ref[t] = mem
  /\ mem # None => heap[mem].final = record.final
  /\ \A t \in Thread : pc[t] \in {"flagged", "rate"} => record.final

Waking ==
  /\ alarm \in Nat \cup {None}
  /\ record.final \/ alarm # None \/ pc["alarm"] # "idle"

WInv == IInv /\ OneObject /\ Waking

LEMMA ScheduledFacts ==
  ASSUME Scheduled
  PROVE  /\ Prompt
         /\ ~Failing({"put"}) /\ \A F : ~Failing(F \cup {"setAlarm"})
         /\ \A at, F : SetAlarm(at, F) => alarm' = at
BY DEF Scheduled, Prompt, Failing, SetAlarm

LEMMA AlarmIsThread == "alarm" \in Thread /\ "alarm" \notin Request /\ None \notin Nat
BY RoomAssumption DEF Thread

\* The session a handler loads is final if the stored record is.
LEMMA LoadedIsFinal ==
  ASSUME WInv
  PROVE  /\ Loaded \in Cell /\ Current.final = record.final /\ Current \in Session
         /\ Expire(Current).final = record.final
         /\ \A t \in Thread : ref[t] # None => ref[t] = Loaded
<1>1. Current.final = record.final BY DEF WInv, OneObject, Current, Reassemble
<1>2. Sound(Current) /\ Loaded \in Cell BY LoadedFacts DEF WInv
<1>3. \A t \in Thread : ref[t] # None => ref[t] = Loaded BY DEF WInv, OneObject, Loaded
<1> QED BY <1>1, <1>2, <1>3, ExpireIsSound DEF Sound

\* A handler has put a session that goes on from the one in memory.
LEMMA StoreWakes ==
  ASSUME WInv, NEW t \in Thread, NEW k \in Cell, k = Loaded, NEW s \in Session,
         NEW w, Write(s, w), heap' = [heap EXCEPT ![k] = s], mem' = k,
         ref' = [ref EXCEPT ![t] = k], NEW x, pc' = [pc EXCEPT ![t] = x],
         s.final = record.final \/ s.final,
         x \in {"stored", "flagged"}, x = "flagged" => s.final,
         \/ UNCHANGED alarm
         \/ t = "alarm" /\ alarm' = None
  PROVE  OneObject' /\ Waking'
<1>1. record'.final = s.final /\ (record.final => record'.final) BY DEF Write
<1>2. ref \in [Thread -> Cell \cup {None}] /\ pc \in [Thread -> PC]
      /\ heap \in [Cell -> Session \cup {None}]
  BY DEF WInv, IInv, Typed
<1>3. heap'[mem'].final = record'.final BY <1>1, <1>2
<1>4. \A u \in Thread : ref'[u] # None => ref'[u] = mem' BY <1>2, LoadedIsFinal
<1>5. \A u \in Thread : pc'[u] \in {"flagged", "rate"} => record'.final
  BY <1>1, <1>2 DEF WInv, OneObject
<1>6. Waking'
  <2>1. pc["alarm"] # "idle" => pc'["alarm"] # "idle" BY <1>2, AlarmIsThread
  <2>2. t = "alarm" => pc'["alarm"] # "idle" BY <1>2, AlarmIsThread
  <2> QED BY <1>1, <2>1, <2>2 DEF WInv, Waking
<1> QED BY <1>3, <1>4, <1>5, <1>6 DEF OneObject

\* A handler goes to x, and no session is changed but for what nobody holds.
LEMMA MoveWakes ==
  ASSUME WInv, NEW t \in Thread, NEW x \in PC \ {"flagged"}, pc' = [pc EXCEPT ![t] = x],
         x = "rate" => record.final,
         UNCHANGED <<record, mem>>, heap' = heap \/ heap' = Held(heap),
         ref' = ref \/ ref' = [ref EXCEPT ![t] = None],
         \/ alarm' \in Nat
         \/ UNCHANGED alarm /\ (t = "alarm" /\ x = "idle" => record.final)
         \/ alarm' = None /\ record.final
  PROVE  OneObject' /\ Waking'
<1>1. ref \in [Thread -> Cell \cup {None}] /\ pc \in [Thread -> PC] /\ mem \in Cell \cup {None}
      /\ heap \in [Cell -> Session \cup {None}]
  BY DEF WInv, IInv, Typed
<1>2. mem' # None => heap'[mem'] = heap[mem] BY <1>1, HeldFacts
<1>3. \A u \in Thread : ref'[u] # None => ref'[u] = mem' BY <1>1 DEF WInv, OneObject
<1>4. \A u \in Thread : pc'[u] \in {"flagged", "rate"} => record'.final
  BY <1>1 DEF WInv, OneObject
<1>5. Waking'
  <2>1. pc["alarm"] # "idle" /\ pc'["alarm"] = "idle" => t = "alarm" /\ x = "idle"
    BY <1>1, AlarmIsThread
  <2> QED BY <2>1, AlarmIsThread DEF WInv, Waking
<1> QED BY <1>2, <1>3, <1>4, <1>5 DEF WInv, OneObject

\* A handler has loaded the session and stores nothing yet.
LEMMA LoadWakes ==
  ASSUME WInv, NEW t \in Thread, heap' = [heap EXCEPT ![Loaded] = Current], mem' = Loaded,
         UNCHANGED record, NEW x \in PC \ {"flagged", "rate"}, pc' = [pc EXCEPT ![t] = x],
         ref' = ref \/ ref' = [ref EXCEPT ![t] = Loaded],
         \/ UNCHANGED alarm /\ t # "alarm"
         \/ t = "alarm" /\ alarm' = None /\ (x # "idle" \/ record.final)
  PROVE  OneObject' /\ Waking'
<1>1. ref \in [Thread -> Cell \cup {None}] /\ pc \in [Thread -> PC]
      /\ heap \in [Cell -> Session \cup {None}]
  BY DEF WInv, IInv, Typed
<1>2. heap'[mem'].final = record'.final BY <1>1, LoadedIsFinal
<1>3. \A u \in Thread : ref'[u] # None => ref'[u] = mem' BY <1>1, LoadedIsFinal
<1>4. \A u \in Thread : pc'[u] \in {"flagged", "rate"} => record'.final
  BY <1>1 DEF WInv, OneObject
<1>5. Waking' BY <1>1, AlarmIsThread DEF WInv, Waking
<1> QED BY <1>2, <1>3, <1>4, <1>5 DEF OneObject

\* One step per action; those of a failed put do not occur.
LEMMA NextWakes ==
  ASSUME Scheduled, WInv, [Next]_vars
  PROVE  OneObject' /\ Waking'
<1> USE DEF outside
<1>1. IInv /\ Prompt BY ScheduledFacts DEF WInv
<1>2. /\ ref \in [Thread -> Cell \cup {None}] /\ pc \in [Thread -> PC] /\ mem \in Cell \cup {None}
      /\ heap \in [Cell -> Session \cup {None}]
  BY <1>1 DEF IInv, Typed
<1>3. ASSUME Age PROVE OneObject' /\ Waking'
  <2>1. record'.final = record.final BY <1>1, <1>3 DEF Age, IInv, Typed
  <2>2. mem # None => heap'[mem].final = heap[mem].final
    <3>1. mem # None => mem \in Cell /\ heap[mem] \in Session BY <1>1 DEF IInv, Typed, Cells, Sound
    <3> QED BY <1>3, <3>1 DEF Age, Session
  <2>3. alarm' \in Nat \cup {None} /\ (alarm' = None => alarm = None)
    BY <1>3, AlarmIsThread DEF Age, Sooner, WInv, Waking
  <2>4. UNCHANGED <<mem, ref, pc>> BY <1>3 DEF Age, control
  <2> QED BY <2>1, <2>2, <2>3, <2>4 DEF WInv, OneObject, Waking
<1>4. ASSUME Evict PROVE OneObject' /\ Waking'
  <2>1. \A t \in Thread : ref[t] = None BY <1>1, <1>4 DEF Evict, AtRest, IInv, InStep, Busy
  <2>2. UNCHANGED <<record, alarm, pc, ref>> /\ mem' = None BY <1>4 DEF Evict, control
  <2> QED BY <2>1, <2>2 DEF WInv, OneObject, Waking
<1>5. ASSUME Crash PROVE OneObject' /\ Waking'
  <2>1. \A t \in Thread : ref'[t] = None BY <1>5 DEF Crash
  <2>2. UNCHANGED record /\ mem' = None
        /\ \A t \in Thread : pc'[t] \in {"flagged", "rate"} => pc[t] \in {"flagged", "rate"}
    BY <1>5 DEF Crash, AtRest
  <2>3. Waking'
    <3>1. CASE pc["alarm"] = "idle" \/ alarm # None
      BY <1>5, <2>2, <3>1 DEF Crash, WInv, Waking
    <3>2. CASE ~(pc["alarm"] = "idle" \/ alarm # None)
      <4>1. alarm' \in IF record.final THEN {None, 0} ELSE {0} BY <1>5, <3>2 DEF Crash
      <4> QED BY <2>2, <4>1, AlarmIsThread DEF Waking
    <3> QED BY <3>1, <3>2
  <2> QED BY <2>1, <2>2, <2>3 DEF WInv, OneObject
<1>6. ASSUME NEW t \in {"alarm", "cron"}, Wake(t) PROVE OneObject' /\ Waking'
  <2>1. t \in Thread BY AlarmIsThread DEF Thread
  <2>2. /\ Write(Expire(Current), Watermark) /\ heap' = [heap EXCEPT ![Loaded] = Expire(Current)]
        /\ mem' = Loaded /\ ref' = [ref EXCEPT ![t] = Loaded] /\ pc' = [pc EXCEPT ![t] = "stored"]
        /\ UNCHANGED alarm \/ (t = "alarm" /\ alarm' = None)
    BY <1>6 DEF Wake, Called, Stores, Goes
  <2>3. Expire(Current) \in Session BY <1>1, ExpiredSession DEF Sound
  <2> HIDE DEF outside
  <2> QED BY <2>1, <2>2, <2>3, LoadedIsFinal, StoreWakes
<1>7. ~AlarmFails /\ ~TickFails BY ScheduledFacts DEF AlarmFails, TickFails
<1>8. ~Docketed
  <2>1. pc["alarm"] = "docket" => "put" \in Faults BY <1>1, AlarmIsThread DEF IInv, InStep
  <2> QED BY <2>1 DEF Docketed, Scheduled
<1>9. ASSUME AlarmAfterEnd PROVE OneObject' /\ Waking'
  <2>1. /\ mem' = Loaded /\ heap' = [heap EXCEPT ![Loaded] = Current] /\ UNCHANGED record
        /\ alarm' = None
    BY <1>9 DEF AlarmAfterEnd, Called
  <2>2. CASE Current.final
    <3>1. UNCHANGED ref /\ pc' = [pc EXCEPT !["alarm"] = "idle"] /\ record.final
      BY <1>2, <1>9, <2>2, AlarmIsThread, LoadedIsFinal DEF AlarmAfterEnd, Called
    <3> QED BY <2>1, <3>1, AlarmIsThread, LoadWakes DEF PC
  <2>3. CASE ~Current.final
    BY <1>9, <2>1, <2>3, AlarmIsThread, LoadWakes DEF AlarmAfterEnd, Goes, PC
  <2> QED BY <2>2, <2>3
<1>10. ASSUME NEW r \in Request, Receive(r) PROVE OneObject' /\ Waking'
  <2>1. r \in Thread /\ r # "alarm" BY RequestsAreThreads
  <2> QED BY <1>10, <2>1, LoadWakes DEF Receive, Goes, PC
<1>11. ASSUME NEW r \in Request, Handle(r) PROVE OneObject' /\ Waking'
  <2> DEFINE s == Submit(Expire(heap[ref[r]]), r)
  <2>1. /\ pc[r] = "body" /\ pc' = [pc EXCEPT ![r] = "stored"] /\ Write(s, mark)
        /\ heap' = [heap EXCEPT ![ref[r]] = s] /\ UNCHANGED <<alarm, mem, ref>>
    BY <1>11 DEF Handle, Stores, Goes
  <2>2. r \in Thread /\ ref[r] = mem /\ mem \in Cell /\ Sound(heap[mem]) BY <1>1, <2>1, BodyFacts
  <2>3. Sound(s) /\ s.final = record.final
    <3>1. /\ Sound(Expire(heap[mem])) /\ Expire(heap[mem]).final = heap[mem].final
      BY <2>2, ExpireIsSound
    <3>2. heap[mem].final = record.final BY <2>2, NoneIsNothing DEF WInv, OneObject
    <3> QED BY <2>2, <3>1, <3>2, SubmitIsSound
  <2>4. mem = Loaded BY <2>2, NoneIsNothing DEF Loaded
  <2>5. ref' = [ref EXCEPT ![r] = mem] BY <1>2, <2>1, <2>2
  <2> HIDE DEF s, outside
  <2> QED BY <2>1, <2>2, <2>3, <2>4, <2>5, StoreWakes DEF Sound
<1>12. ASSUME NEW r \in Request, HandleFails(r) PROVE FALSE
  BY <1>12, ScheduledFacts DEF HandleFails
<1>13. ASSUME NEW t \in Thread, SyncAlarm(t) PROVE OneObject' /\ Waking'
  <2> DEFINE c == heap[ref[t]]
  <2>1. /\ pc[t] \in {"stored", "flagged"} /\ UNCHANGED <<record, mem>> /\ alarm' = NextAlarm(c)
    BY <1>13, ScheduledFacts DEF SyncAlarm
  <2>2. ref[t] # None /\ Sound(c) /\ c.final = record.final
    BY <1>1, <2>1 DEF WInv, OneObject, IInv, InStep, Busy, Cells
  <2>3. alarm' \in Nat \/ (alarm' = None /\ record.final)
    BY <2>1, <2>2 DEF NextAlarm, Sound, Session
  <2>4. pc[t] = "flagged" => record.final BY DEF WInv, OneObject
  <2>5. ASSUME NEW x \in PC \ {"flagged"}, Goes(t, x), x = "rate" => pc[t] = "flagged",
               UNCHANGED heap \/ heap' = Held(heap), UNCHANGED ref \/ ref' = [ref EXCEPT ![t] = None]
        PROVE  OneObject' /\ Waking'
    BY <2>1, <2>3, <2>4, <2>5, MoveWakes DEF Goes
  <2> QED BY <1>13, <2>5 DEF SyncAlarm, Returns, PC
<1>14. ASSUME NEW t \in Thread, Archive(t) PROVE OneObject' /\ Waking'
  <2>1. PICK x \in {"archive", "archived"} : pc' = [pc EXCEPT ![t] = x]
    <3>1. CASE Goes(t, "archived") BY <3>1 DEF Goes
    <3>2. CASE UNCHANGED pc
      <4>1. pc' = [pc EXCEPT ![t] = "archive"] BY <1>2, <1>14, <3>2 DEF Archive
      <4> QED BY <4>1
    <3> QED BY <1>14, <3>1, <3>2 DEF Archive
  <2>2. UNCHANGED <<record, mem, heap, ref, alarm>> BY <1>14 DEF Archive, memory
  <2> QED BY <2>1, <2>2, MoveWakes DEF PC
<1>15. ASSUME NEW t \in Thread, ArchiveFails(t) PROVE OneObject' /\ Waking'
  <2>1. alarm' = 0 BY <1>15, ScheduledFacts DEF ArchiveFails
  <2> QED BY <1>15, <2>1, MoveWakes DEF ArchiveFails, BatchFails, Returns, Goes, PC
<1>16. ASSUME NEW t \in Thread, MarkFinalized(t) PROVE OneObject' /\ Waking'
  <2> DEFINE s == Finalized(heap[ref[t]])
  <2>1. /\ pc[t] = "archived" /\ pc' = [pc EXCEPT ![t] = "flagged"] /\ Write(s, mark)
        /\ heap' = [heap EXCEPT ![ref[t]] = Finalized(@)] /\ UNCHANGED <<alarm, mem, ref>>
    BY <1>16 DEF MarkFinalized, Stores, Goes
  <2>2. ref[t] \in Cell /\ Sound(heap[ref[t]]) BY <1>1, <2>1, OwnSession DEF Busy
  <2>3. ref[t] = mem /\ mem = Loaded BY <2>2, NoneIsNothing DEF WInv, OneObject, Loaded
  <2>4. s \in Session /\ s.final BY <2>2 DEF Finalized, Sound, Session
  <2>5. heap' = [heap EXCEPT ![mem] = s] /\ ref' = [ref EXCEPT ![t] = mem] /\ mem' = mem /\ mem \in Cell
    BY <1>2, <2>1, <2>2, <2>3
  <2> HIDE DEF s, outside
  <2> QED BY <2>1, <2>3, <2>4, <2>5, StoreWakes
<1>17. ASSUME NEW t \in Thread, MarkFinalizedFails(t) PROVE FALSE
  BY <1>17, ScheduledFacts DEF MarkFinalizedFails
<1>18. ASSUME NEW t \in Thread, Rate(t) PROVE OneObject' /\ Waking'
  <2>1. record.final BY <1>18 DEF Rate, WInv, OneObject
  <2> QED BY <1>18, <2>1, MoveWakes DEF Rate, Returns, Goes, PC
<1>19. ASSUME UNCHANGED vars PROVE OneObject' /\ Waking'
  BY <1>19 DEF vars, WInv, OneObject, Waking
<1> QED
  BY <1>3, <1>4, <1>5, <1>6, <1>7, <1>8, <1>9, <1>10, <1>11, <1>12, <1>13, <1>14, <1>15, <1>16,
     <1>17, <1>18, <1>19 DEF Next, Alarm, Finalize

\* A game whose end is not final always has an alarm, or a handler that has
\* taken it or awaits storage (room.ts persist and syncAlarm), if no put and no
\* setAlarm fails: D1, the ratings and the instance may fail at any time.
THEOREM UnfinishedGamesWake == ASSUME Scheduled PROVE Spec => []UnfinishedHasAlarm
<1>1. Prompt BY ScheduledFacts
<1>2. Init => WInv
  <2>1. Init => OneObject /\ Waking BY RoomAssumption DEF Init, OneObject, Waking, Thread
  <2> QED BY <2>1, InitIInv DEF WInv
<1>3. WInv /\ [Next]_vars => WInv' BY <1>1, NextIInv, NextWakes DEF WInv
<1>4. WInv => UnfinishedHasAlarm BY DEF WInv, Waking, UnfinishedHasAlarm
<1> QED BY <1>2, <1>3, <1>4, PTL DEF Spec

=============================================================================
