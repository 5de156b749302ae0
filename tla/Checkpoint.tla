----------------------------- MODULE Checkpoint ----------------------------
(***************************************************************************)
(* The cron's signLogCheckpoint (src/api/cron.ts): the log rows that rooms *)
(* store when they finish are counted, compared with the last checkpoint,  *)
(* read in order and signed as one Merkle tree.  Rooms go on storing while *)
(* a tick is between two of its statements, and ticks may overlap.         *)
(***************************************************************************)
EXTENDS Absent, Merkle

CONSTANTS
  Length,      \* rows of each game, in the order of the games' ids: <<3, 2>>
  RowBatch,    \* rows stored at once (D1_BATCH)
  MaxLeaves,   \* CHECKPOINT_MAX_LEAVES
  LogTick      \* ticks of the cron under way

LogAssumption ==
  Length \in Seq(Nat) /\ {RowBatch, MaxLeaves} \subseteq Nat \ {0}

VARIABLES
  stored,      \* rows of each game in game_log
  checkpoint,  \* the last row of checkpoints, or None: the leaves whose number and
               \* MerkleRoot were signed
  tick         \* [LogTick -> [pc, total, leaves]]

logVars == <<stored, checkpoint, tick>>

Logged == DOMAIN Length
Settled == [pc |-> "idle", total |-> 0, leaves |-> <<>>]

LogInit ==
  /\ stored = [g \in Logged |-> 0] /\ checkpoint = None
  /\ tick = [k \in LogTick |-> Settled]

\* A finished room stores the next batch of its log; a retry replaces what is
\* there by the same.
Stores(g) ==
  /\ stored[g] < Length[g]
  /\ stored' = [stored EXCEPT ![g] = IF @ + RowBatch < Length[g] THEN @ + RowBatch ELSE Length[g]]
  /\ UNCHANGED <<checkpoint, tick>>

\* Ordered by game and sequence; <<game, seq>> stands for the hash of the entry.
AllRows ==
  LET rows[g \in 0 .. Len(Length)] ==
        IF g = 0 THEN <<>> ELSE rows[g - 1] \o [i \in 1 .. stored[g] |-> <<g, i - 1>>]
  IN rows[Len(Length)]

Total == Len(AllRows)
Entries == SubSeq(AllRows, 1, IF Total < MaxLeaves THEN Total ELSE MaxLeaves)

Counts(k) ==
  /\ tick[k].pc = "idle"
  /\ tick' = [tick EXCEPT ![k] = [Settled EXCEPT !.pc = "compare", !.total = Total]]
  /\ UNCHANGED <<stored, checkpoint>>

\* Mutant: a checkpoint is due only when the log is larger than the limit.
ComparesWithLimit(k) ==
  /\ tick[k].pc = "compare"
  /\ tick' = [tick EXCEPT ![k] =
       IF checkpoint # None /\ tick[k].total <= MaxLeaves THEN Settled ELSE [@ EXCEPT !.pc = "read"]]
  /\ UNCHANGED <<stored, checkpoint>>

\* Nothing to do when the last checkpoint has as many leaves.
Compares(k) ==
  /\ tick[k].pc = "compare"
  /\ tick' = [tick EXCEPT ![k] =
       IF checkpoint # None /\ Len(checkpoint) = tick[k].total
       THEN Settled ELSE [@ EXCEPT !.pc = "read"]]
  /\ UNCHANGED <<stored, checkpoint>>

Reads(k) ==
  /\ tick[k].pc = "read"
  /\ tick' = [tick EXCEPT ![k] = [@ EXCEPT !.pc = "sign", !.leaves = Entries]]
  /\ UNCHANGED <<stored, checkpoint>>

Signs(k) ==
  /\ tick[k].pc = "sign"
  /\ checkpoint' = tick[k].leaves
  /\ tick' = [tick EXCEPT ![k] = Settled]
  /\ UNCHANGED stored

TickStep(k) == Counts(k) \/ Compares(k) \/ Reads(k) \/ Signs(k)

LogNext == (\E g \in Logged : Stores(g)) \/ (\E k \in LogTick : TickStep(k))

LogSpec == LogInit /\ [][LogNext]_logVars
\* The cron runs every five minutes, and its statements are answered.
FairLog == LogSpec /\ \A k \in LogTick : WF_logVars(TickStep(k))

-----------------------------------------------------------------------------
\* Between ticks, whoever holds the checkpoint can be shown every entry it covers, at its place;
\* the proof shows neither another entry nor another place, and neither a
\* shortened nor a lengthened one shows anything (checkpoint.ts:85-119).
EntriesAreProvable ==
  checkpoint # None /\ (\A k \in LogTick : tick[k] = Settled) =>
    LET n == Len(checkpoint)
        root == MerkleRoot(checkpoint)
        shows(i, j, p) == VerifyInclusion(checkpoint[i + 1], j, n, p, root)
    IN \A i \in 0 .. n - 1 :
         LET p == InclusionProof(checkpoint, i)
         IN /\ \A j, l \in 0 .. n - 1 : shows(l, j, p) <=> l = i /\ j = i
            /\ p # <<>> => ~shows(i, i, SubSeq(p, 1, Len(p) - 1)) /\ ~shows(i, i, Append(p, p[1]))

\* However rooms and ticks overlap: the log is signed in the end, as far as the
\* limit allows, and stays so.
EventuallySigned == <>[](checkpoint = Entries)

=============================================================================
