------------------------------- MODULE Merkle ------------------------------
(***************************************************************************)
(* RFC 6962 trees and inclusion proofs (src/crypto/checkpoint.ts).  A hash *)
(* is the term it was computed from: equal only if what was hashed is, the *)
(* prefix byte of leaves and nodes included.                               *)
(***************************************************************************)
EXTENDS Integers, Sequences

LeafHash(leaf) == <<0, leaf>>
NodeHash(left, right) == <<1, left, right>>
EmptyHash == <<>>
LeafHashes(leaves) == [i \in 1 .. Len(leaves) |-> LeafHash(leaves[i])]

\* The largest power of two below n: 1, doubled as long as it is.
SplitPoint(n) ==
  LET doubled[k \in 1 .. n] == IF 2 * k < n THEN doubled[2 * k] ELSE k
  IN doubled[1]

\* subtreeRoot: the head of the n hashes after the first lo, for all n and lo.
Subtrees(hashes) ==
  LET root[n \in 0 .. Len(hashes)] ==
        [lo \in 0 .. Len(hashes) - n |->
           IF n = 0 THEN EmptyHash
           ELSE IF n = 1 THEN hashes[lo + 1]
           ELSE NodeHash(root[SplitPoint(n)][lo], root[n - SplitPoint(n)][lo + SplitPoint(n)])]
  IN root

\* auditPath: the siblings of a hash, from the leaf to the root; indices count from 0.
AuditPaths(hashes) ==
  LET path[n \in 1 .. Len(hashes)] ==
        [lo \in 0 .. Len(hashes) - n |-> [index \in 0 .. n - 1 |->
           LET k == SplitPoint(n)
           IN IF n = 1 THEN <<>>
              ELSE IF index < k THEN Append(path[k][lo][index], Subtrees(hashes)[n - k][lo + k])
              ELSE Append(path[n - k][lo + k][index - k], Subtrees(hashes)[k][lo])]]
  IN path

MerkleRoot(leaves) == Subtrees(LeafHashes(leaves))[Len(leaves)][0]
InclusionProof(leaves, index) == AuditPaths(LeafHashes(leaves))[Len(leaves)][0][index]

\* Mutant: a node without a sibling stays at its level.
CarriedNowhere(fn) == fn

\* A last node without a sibling is carried up to where it has one.
Carried(fn) ==
  LET up[x \in 0 .. fn] == IF x # 0 /\ x % 2 = 0 THEN up[x \div 2] ELSE x
  IN up[fn]

\* One sibling: to the left of an odd or last node, to the right of the others.
Climb(at, p) ==
  LET up(x) == (IF at.fn = at.sn THEN Carried(x) ELSE x) \div 2
  IN [fn |-> up(at.fn), sn |-> up(at.sn),
      r |-> IF at.fn % 2 = 1 \/ at.fn = at.sn THEN NodeHash(p, at.r) ELSE NodeHash(at.r, p),
      tooLong |-> at.tooLong \/ at.sn = 0]

Climbed(at, proof) ==
  LET after[m \in 0 .. Len(proof)] == IF m = 0 THEN at ELSE Climb(after[m - 1], proof[m])
  IN after[Len(proof)]

VerifyInclusion(leaf, index, treeSize, proof, root) ==
  /\ 0 <= index /\ index < treeSize
  /\ LET top == Climbed([fn |-> index, sn |-> treeSize - 1, r |-> LeafHash(leaf), tooLong |-> FALSE], proof)
     IN ~top.tooLong /\ top.sn = 0 /\ top.r = root

=============================================================================
