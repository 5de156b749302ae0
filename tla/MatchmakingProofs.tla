------------------------- MODULE MatchmakingProofs --------------------------
(***************************************************************************)
(* Whatever the lobby holds, however long its entries waited and however   *)
(* many agents, queues, seats and requests there are: what a sweep plans is *)
(* legal, and what sweeps, joins, leaves and crons make of it side by side *)
(* stays so.                                                               *)
(*                                                                         *)
(* A plan is computed by recursive functions.  What they return is proved  *)
(* by induction on their argument: a set of numbers that misses one misses *)
(* a least one.                                                            *)
(***************************************************************************)
EXTENDS Matchmaking, FiniteSetTheorems, TLAPS

-----------------------------------------------------------------------------
(* Induction.                                                              *)

\* A set of numbers has a least one.
LEMMA LeastNumber ==
  ASSUME NEW T \in SUBSET Nat, T # {}
  PROVE  \E m \in T : \A n \in T : m <= n
<1>1. \E m \in T : \A n \in T : ~(<<n, m>> \in OpToRel(<, Nat))
  BY NatLessThanWellFounded, WFMin
<1>2. PICK m \in T : \A n \in T : ~(n < m) BY <1>1 DEF OpToRel
<1> QED BY <1>2

LEMMA Induct ==
  ASSUME NEW N \in Nat, NEW T, 0 \in T, \A n \in 1 .. N : n - 1 \in T => n \in T
  PROVE  \A n \in 0 .. N : n \in T
<1> SUFFICES ASSUME (0 .. N) \ T # {} PROVE FALSE
  OBVIOUS
<1>1. PICK m \in (0 .. N) \ T : \A n \in (0 .. N) \ T : m <= n
  BY LeastNumber, (0 .. N) \ T \in SUBSET Nat
<1>2. m \in 1 .. N /\ m - 1 \in (0 .. N) BY <1>1
<1> QED BY <1>1, <1>2

\* f begins with b and goes on by step, N times.
Computed(f, N, b, step) ==
  /\ f = [n \in 0 .. N |-> f[n]]
  /\ f[0] = b
  /\ \A n \in 1 .. N : f[n] = step[n][f[n - 1]]

\* A function that is computed step by step within sets P[0], P[1], ... exists.
LEMMA StepByStep ==
  ASSUME NEW N \in Nat, NEW P, NEW b \in P[0], NEW step,
         \A n \in 1 .. N : \A x \in P[n - 1] : step[n][x] \in P[n]
  PROVE  \E f : Computed(f, N, b, step) /\ \A n \in 0 .. N : f[n] \in P[n]
<1> DEFINE Is(f, k) == Computed(f, k, b, step) /\ \A n \in 0 .. k : f[n] \in P[n]
           T == {k \in 0 .. N : \E f : Is(f, k)}
<1>1. 0 \in T
  <2> DEFINE f == [n \in 0 .. 0 |-> b]
  <2>1. Is(f, 0) BY DEF Computed
  <2> HIDE DEF f, Is
  <2> QED BY <2>1
<1>2. ASSUME NEW k \in 1 .. N, k - 1 \in T PROVE k \in T
  <2>1. PICK f : Is(f, k - 1) BY <1>2
  <2> DEFINE g == [n \in 0 .. k |-> IF n = k THEN step[k][f[k - 1]] ELSE f[n]]
  <2>2. f[k - 1] \in P[k - 1] BY <2>1
  <2>3. \A n \in 0 .. k : g[n] \in P[n] BY <2>1, <2>2
  <2>4. Computed(g, k, b, step)
    <3>1. f[0] = b /\ \A n \in 1 .. k - 1 : f[n] = step[n][f[n - 1]] BY <2>1 DEF Computed
    <3>2. g[0] = b BY <3>1
    <3>3. \A n \in 1 .. k : g[n] = step[n][g[n - 1]] BY <3>1
    <3>4. g = [n \in 0 .. k |-> g[n]] OBVIOUS
    <3> HIDE DEF g
    <3> QED BY <3>2, <3>3, <3>4 DEF Computed
  <2>5. Is(g, k) BY <2>3, <2>4
  <2> HIDE DEF g, Is
  <2> QED BY <2>5
<1> HIDE DEF Is
<1>3. N \in T
  <2>1. \A k \in 1 .. N : k - 1 \in T => k \in T BY <1>2
  <2> HIDE DEF T
  <2> QED BY <1>1, <2>1, Induct
<1>4. PICK f : Is(f, N) BY <1>3
<1> QED BY <1>4 DEF Is

\* And every function that is computed so stays within them.
LEMMA WithinBounds ==
  ASSUME NEW N \in Nat, NEW P, NEW f, f[0] \in P[0],
         \A n \in 1 .. N : f[n - 1] \in P[n - 1] => f[n] \in P[n]
  PROVE  f[N] \in P[N]
<1> DEFINE T == {n \in 0 .. N : f[n] \in P[n]}
<1>1. \A n \in 0 .. N : n \in T
  <2>1. 0 \in T /\ \A n \in 1 .. N : n - 1 \in T => n \in T OBVIOUS
  <2> HIDE DEF T
  <2> QED BY <2>1, Induct
<1> QED BY <1>1

-----------------------------------------------------------------------------
(* Sequences.                                                              *)

Distinct(s) == \A i, j \in DOMAIN s : s[i] = s[j] => i = j

LEMMA Appended ==
  ASSUME NEW X, NEW s \in Seq(X), NEW x \in X
  PROVE  /\ Append(s, x) \in Seq(X)
         /\ ToSet(Append(s, x)) = ToSet(s) \cup {x}
         /\ Distinct(s) /\ x \notin ToSet(s) => Distinct(Append(s, x))
<1>1. /\ Append(s, x) \in Seq(X) /\ DOMAIN Append(s, x) = DOMAIN s \cup {Len(s) + 1}
      /\ Append(s, x)[Len(s) + 1] = x /\ \A i \in DOMAIN s : Append(s, x)[i] = s[i]
  OBVIOUS
<1> DEFINE t == Append(s, x)
<1> HIDE DEF t
<1>2. ToSet(t) = ToSet(s) \cup {x} BY <1>1 DEF ToSet, t
<1>3. Distinct(s) /\ x \notin ToSet(s) => Distinct(t) BY <1>1 DEF ToSet, Distinct, t
<1> QED BY <1>1, <1>2, <1>3 DEF t

\* A sequence without repetitions is as long as it has elements.
LEMMA DistinctLength ==
  ASSUME NEW X, NEW s \in Seq(X), Distinct(s)
  PROVE  IsFiniteSet(ToSet(s)) /\ Cardinality(ToSet(s)) = Len(s)
<1>1. s \in [1 .. Len(s) -> ToSet(s)] BY DEF ToSet
<1>2. s \in Bijection(1 .. Len(s), ToSet(s))
  BY <1>1 DEF Distinct, Bijection, Injection, Surjection, IsInjective, ToSet
<1>3. ExistsBijection(1 .. Len(s), ToSet(s)) BY <1>2 DEF ExistsBijection
<1>4. Len(s) \in Nat OBVIOUS
<1> QED BY <1>3, <1>4, FS_CountingElements, FS_NatBijection

LEMMA OnlyFacts ==
  ASSUME NEW X, NEW rows \in Seq(X), NEW S
  PROVE  /\ Only(rows, S) \in Seq(X)
         /\ ToSet(Only(rows, S)) = ToSet(rows) \cap S
         /\ Distinct(rows) => Distinct(Only(rows, S))
<1> DEFINE N == Len(rows)
           First(n) == {rows[k] : k \in 1 .. n}
           Then(g, n) == IF rows[n] \in S THEN Append(g, rows[n]) ELSE g
           Kept(g, n) == /\ ToSet(g) = First(n) \cap S
                         /\ Distinct(rows) => Distinct(g)
           P == [n \in 0 .. N |-> {g \in Seq(X) : Kept(g, n)}]
           F == CHOOSE f : f = [n \in 0 .. N |-> IF n = 0 THEN <<>> ELSE Then(f[n - 1], n)]
<1>1. Only(rows, S) = F[N] BY DEF Only
<1>2. <<>> \in P[0] BY DEF ToSet, Distinct
<1>3. ASSUME NEW n \in 1 .. N, NEW g \in P[n - 1] PROVE Then(g, n) \in P[n]
  <2>1. /\ g \in Seq(X) /\ rows[n] \in X /\ ToSet(g) = First(n - 1) \cap S
        /\ Distinct(rows) => Distinct(g)
    OBVIOUS
  <2>2. First(n) = First(n - 1) \cup {rows[n]} OBVIOUS
  <2>3. Distinct(rows) => rows[n] \notin First(n - 1) BY DEF Distinct
  <2>4. Then(g, n) = IF rows[n] \in S THEN Append(g, rows[n]) ELSE g OBVIOUS
  <2> HIDE DEF First, Then
  <2>5. /\ Then(g, n) \in Seq(X) /\ ToSet(Then(g, n)) = First(n) \cap S
        /\ Distinct(rows) => Distinct(Then(g, n))
    BY <2>1, <2>2, <2>3, <2>4, Appended
  <2> QED BY <2>5
<1> HIDE DEF P, Then
<1>4. N \in Nat OBVIOUS
<1> HIDE DEF N
<1>5. F = [n \in 0 .. N |-> IF n = 0 THEN <<>> ELSE Then(F[n - 1], n)]
  <2> DEFINE step == [n \in 1 .. N |-> [g \in P[n - 1] |-> Then(g, n)]]
  <2>1. \A n \in 1 .. N : \A g \in P[n - 1] : step[n][g] = Then(g, n) OBVIOUS
  <2>2. \A n \in 1 .. N : \A g \in P[n - 1] : step[n][g] \in P[n] BY <1>3, <2>1
  <2> HIDE DEF step, F
  <2>3. PICK f : Computed(f, N, <<>>, step) /\ \A n \in 0 .. N : f[n] \in P[n]
    BY <1>2, <1>4, <2>2, StepByStep
  <2>4. \A n \in 1 .. N : f[n] = Then(f[n - 1], n)
    <3>1. \A n \in 1 .. N : n - 1 \in 0 .. N BY <1>4
    <3> QED BY <2>1, <2>3, <3>1 DEF Computed
  <2>5. f = [n \in 0 .. N |-> IF n = 0 THEN <<>> ELSE Then(f[n - 1], n)]
    <3>1. f = [n \in 0 .. N |-> f[n]] /\ f[0] = <<>> BY <2>3 DEF Computed
    <3>2. \A n \in 0 .. N : n = 0 \/ n \in 1 .. N BY <1>4
    <3>3. \A n \in 0 .. N : f[n] = IF n = 0 THEN <<>> ELSE Then(f[n - 1], n)
      BY ONLY <2>4, <3>1, <3>2
    <3> QED BY ONLY <3>1, <3>3
  <2> QED BY <2>5 DEF F
<1> HIDE DEF F
<1>6. F[N] \in P[N]
  <2>1. F[0] \in P[0] BY <1>2, <1>4, <1>5
  <2>2. \A n \in 1 .. N : F[n - 1] \in P[n - 1] => F[n] \in P[n] BY <1>3, <1>4, <1>5
  <2> QED BY <1>4, <2>1, <2>2, WithinBounds
<1>7. First(N) = ToSet(rows) BY DEF ToSet, N
<1> HIDE DEF Kept, First
<1>8. F[N] \in Seq(X) /\ Kept(F[N], N) BY <1>4, <1>6 DEF P
<1> QED BY <1>1, <1>7, <1>8 DEF Kept

-----------------------------------------------------------------------------
(* The parts of a plan.                                                    *)

LEMMA LeastIsThere ==
  ASSUME NEW pool \in SUBSET Nat, pool # {}, NEW load, \A h \in pool : load[h] \in Nat
  PROVE  Least(pool, load) \in pool
<1>1. PICK n \in {load[h] : h \in pool} : \A m \in {load[h] : h \in pool} : n <= m
  BY LeastNumber, {load[h] : h \in pool} \in SUBSET Nat, {load[h] : h \in pool} # {}
<1> DEFINE Same == {h \in pool : load[h] = n}
<1>2. Same \in SUBSET Nat /\ Same # {} OBVIOUS
<1>3. PICK h \in Same : \A g \in Same : h <= g
  <2> HIDE DEF Same
  <2> QED BY <1>2, LeastNumber
<1>4. \A g \in pool : load[h] < load[g] \/ (load[h] = load[g] /\ h <= g) BY <1>1, <1>3
<1> QED BY <1>3, <1>4 DEF Least

\* As many house agents as are needed, no one twice.
LEMMA LeastLoadedFacts ==
  ASSUME NEW pool \in SUBSET Nat, IsFiniteSet(pool), NEW need \in 0 .. Cardinality(pool),
         NEW load, \A h \in pool : load[h] \in Nat
  PROVE  /\ LeastLoaded(pool, need, load) \in Seq(pool)
         /\ Len(LeastLoaded(pool, need, load)) = need
         /\ Distinct(LeastLoaded(pool, need, load))
<1> DEFINE Then(g, n) == Append(g, Least(pool \ ToSet(g), load))
           Found(g, n) == Len(g) = n /\ Distinct(g)
           P == [n \in 0 .. need |-> {g \in Seq(pool) : Found(g, n)}]
           F == CHOOSE f : f = [n \in 0 .. need |-> IF n = 0 THEN <<>> ELSE Then(f[n - 1], n)]
<1>0. Cardinality(pool) \in Nat /\ need \in Nat BY FS_CardinalityType
<1>1. LeastLoaded(pool, need, load) = F[need] BY DEF LeastLoaded
<1>2. <<>> \in P[0] BY <1>0 DEF Distinct
<1>3. ASSUME NEW n \in 1 .. need, NEW g \in P[n - 1] PROVE Then(g, n) \in P[n]
  <2>1. g \in Seq(pool) /\ Len(g) = n - 1 /\ Distinct(g) BY <1>0
  <2>2. Cardinality(ToSet(g)) = n - 1 BY <2>1, DistinctLength
  <2>3. ToSet(g) \subseteq pool BY <2>1 DEF ToSet
  <2>4. pool \ ToSet(g) # {} BY <1>0, <2>2, <2>3
  <2> DEFINE x == Least(pool \ ToSet(g), load)
  <2>5. x \in pool \ ToSet(g) BY <2>4, LeastIsThere
  <2> HIDE DEF x
  <2>6. Append(g, x) \in Seq(pool) /\ Distinct(Append(g, x)) BY <2>1, <2>5, Appended
  <2>7. Len(Append(g, x)) = n BY <2>1, <2>5
  <2>8. Then(g, n) = Append(g, x) BY DEF x
  <2>9. Found(Append(g, x), n) BY <2>6, <2>7
  <2> HIDE DEF Found, Then
  <2> QED BY <2>6, <2>8, <2>9
<1> HIDE DEF P, Then
<1>5. F = [n \in 0 .. need |-> IF n = 0 THEN <<>> ELSE Then(F[n - 1], n)]
  <2> DEFINE step == [n \in 1 .. need |-> [g \in P[n - 1] |-> Then(g, n)]]
  <2>1. \A n \in 1 .. need : \A g \in P[n - 1] : step[n][g] = Then(g, n) OBVIOUS
  <2>2. \A n \in 1 .. need : \A g \in P[n - 1] : step[n][g] \in P[n] BY <1>3, <2>1
  <2> HIDE DEF step, F
  <2>3. PICK f : Computed(f, need, <<>>, step) /\ \A n \in 0 .. need : f[n] \in P[n]
    BY <1>0, <1>2, <2>2, StepByStep
  <2>4. \A n \in 1 .. need : f[n] = Then(f[n - 1], n)
    <3>1. \A n \in 1 .. need : n - 1 \in 0 .. need BY <1>0
    <3> QED BY <2>1, <2>3, <3>1 DEF Computed
  <2>5. f = [n \in 0 .. need |-> IF n = 0 THEN <<>> ELSE Then(f[n - 1], n)]
    <3>1. f = [n \in 0 .. need |-> f[n]] /\ f[0] = <<>> BY <2>3 DEF Computed
    <3>2. \A n \in 0 .. need : n = 0 \/ n \in 1 .. need BY <1>0
    <3>3. \A n \in 0 .. need : f[n] = IF n = 0 THEN <<>> ELSE Then(f[n - 1], n)
      BY ONLY <2>4, <3>1, <3>2
    <3> QED BY ONLY <3>1, <3>3
  <2> QED BY <2>5 DEF F
<1> HIDE DEF F
<1>6. F[need] \in P[need]
  <2>1. F[0] \in P[0] BY <1>0, <1>2, <1>5
  <2>2. \A n \in 1 .. need : F[n - 1] \in P[n - 1] => F[n] \in P[n] BY <1>0, <1>3, <1>5
  <2> QED BY <1>0, <2>1, <2>2, WithinBounds
<1> HIDE DEF Found
<1>7. F[need] \in Seq(pool) /\ Found(F[need], need) BY <1>0, <1>6 DEF P
<1> QED BY <1>1, <1>7 DEF Found

\* A group holds its anchor, entries that are open and different, no two of an
\* operator, and no more than there are seats.
LEMMA GroupFacts ==
  ASSUME NEW entries \in Seq(Row), Distinct(entries), NEW open \in SUBSET Row,
         \A r \in open : r.agent \notin House, NEW anchor \in open,
         NEW sweeps, NEW seats \in Nat \ {0}
  PROVE  LET g == Group(anchor, entries, open, sweeps, seats)
         IN  /\ g \in Seq(Row) /\ Len(g) <= seats
             /\ ToSet(g) \subseteq open /\ Distinct(g)
             /\ \A r, s \in ToSet(g) : OperatorOf[r.agent] = OperatorOf[s.agent] => r = s
<1> DEFINE N == Len(entries)
           Fits(group, c) ==
             /\ Len(group) < seats
             /\ c # anchor /\ c \in open
             /\ \A m \in ToSet(group) : Compatible(sweeps, m, c)
             /\ ~OperatorClash(group, c)
           Then(g, n) == IF Fits(g, entries[n]) THEN Append(g, entries[n]) ELSE g
           First(n) == {anchor} \cup {entries[k] : k \in 1 .. n}
           Grown(g, n) ==
             /\ Len(g) <= seats /\ Distinct(g)
             /\ ToSet(g) \subseteq open /\ ToSet(g) \subseteq First(n)
             /\ \A r, s \in ToSet(g) : OperatorOf[r.agent] = OperatorOf[s.agent] => r = s
           P == [n \in 0 .. N |-> {g \in Seq(Row) : Grown(g, n)}]
           F == CHOOSE f : f = [n \in 0 .. N |-> IF n = 0 THEN <<anchor>> ELSE Then(f[n - 1], n)]
<1>1. Group(anchor, entries, open, sweeps, seats) = F[N] BY DEF Group
<1>2. <<anchor>> \in P[0]
  <2>1. <<anchor>> \in Seq(Row) /\ Len(<<anchor>>) = 1 /\ ToSet(<<anchor>>) = {anchor} BY DEF ToSet
  <2>2. Distinct(<<anchor>>) BY DEF Distinct
  <2>3. Grown(<<anchor>>, 0) BY <2>1, <2>2
  <2>4. N \in Nat OBVIOUS
  <2> HIDE DEF Grown, N
  <2> QED BY <2>1, <2>3, <2>4
<1>3. ASSUME NEW n \in 1 .. N, NEW g \in P[n - 1] PROVE Then(g, n) \in P[n]
  <2> DEFINE c == entries[n]
  <2>0. n \in 1 .. Len(entries) /\ n - 1 \in 0 .. N BY DEF N
  <2>11. c \in Row BY <2>0
  <2>12. g \in {f \in Seq(Row) : Grown(f, n - 1)}
    <3> HIDE DEF Grown, N
    <3> QED BY <2>0
  <2>1. g \in Seq(Row) /\ Grown(g, n - 1) /\ c \in Row
    <3> HIDE DEF Grown
    <3> QED BY <2>11, <2>12
  <2>2. First(n) = First(n - 1) \cup {c} BY DEF N
  <2>3. c \notin {entries[k] : k \in 1 .. n - 1} BY DEF N, Distinct
  <2>4. CASE ~Fits(g, c)
    <3>1. Then(g, n) = g BY <2>4
    <3>2. Grown(g, n) BY <2>1, <2>2
    <3> QED BY <2>1, <3>1, <3>2
  <2>5. CASE Fits(g, c)
    <3>1. Then(g, n) = Append(g, c) BY <2>5
    <3>2. c \in open /\ c # anchor /\ c \notin ToSet(g) BY <2>1, <2>3, <2>5
    <3>3. \A m \in ToSet(g) : OperatorOf[m.agent] # OperatorOf[c.agent]
      BY <2>1, <2>5, <3>2 DEF OperatorClash
    <3>4. Append(g, c) \in Seq(Row) /\ ToSet(Append(g, c)) = ToSet(g) \cup {c} /\ Distinct(Append(g, c))
      BY <2>1, <3>2, Appended
    <3>5. Len(Append(g, c)) = Len(g) + 1 /\ Len(g) < seats BY <2>1, <2>5
    <3>6. Grown(Append(g, c), n)
      <4> DEFINE t == Append(g, c)
      <4> HIDE DEF t, c, First
      <4>1. /\ \A r, s \in ToSet(g) : OperatorOf[r.agent] = OperatorOf[s.agent] => r = s
            /\ ToSet(g) \subseteq open /\ ToSet(g) \subseteq First(n - 1) /\ Len(g) \in Nat
        BY <2>1
      <4>2. /\ ToSet(t) = ToSet(g) \cup {c} /\ Distinct(t) /\ Len(t) = Len(g) + 1
        BY <3>4, <3>5 DEF t
      <4>3. Len(t) <= seats BY <3>5, <4>1, <4>2
      <4>4. ToSet(t) \subseteq open /\ ToSet(t) \subseteq First(n) BY <2>2, <3>2, <4>1, <4>2
      <4>5. \A r, s \in ToSet(t) : OperatorOf[r.agent] = OperatorOf[s.agent] => r = s
        BY <3>3, <4>1, <4>2
      <4> QED BY <4>2, <4>3, <4>4, <4>5 DEF t
    <3> HIDE DEF Grown, c, Then
    <3> QED BY <3>1, <3>4, <3>6
  <2> QED BY <2>4, <2>5
<1> HIDE DEF P, Then
<1>4. N \in Nat OBVIOUS
<1> HIDE DEF N
<1>5. F = [n \in 0 .. N |-> IF n = 0 THEN <<anchor>> ELSE Then(F[n - 1], n)]
  <2> DEFINE step == [n \in 1 .. N |-> [g \in P[n - 1] |-> Then(g, n)]]
  <2>1. \A n \in 1 .. N : \A g \in P[n - 1] : step[n][g] = Then(g, n) OBVIOUS
  <2>2. \A n \in 1 .. N : \A g \in P[n - 1] : step[n][g] \in P[n] BY <1>3, <2>1
  <2> HIDE DEF step, F
  <2>3. PICK f : Computed(f, N, <<anchor>>, step) /\ \A n \in 0 .. N : f[n] \in P[n]
    BY <1>2, <1>4, <2>2, StepByStep
  <2>4. \A n \in 1 .. N : f[n] = Then(f[n - 1], n)
    <3>1. \A n \in 1 .. N : n - 1 \in 0 .. N BY <1>4
    <3> QED BY <2>1, <2>3, <3>1 DEF Computed
  <2>5. f = [n \in 0 .. N |-> IF n = 0 THEN <<anchor>> ELSE Then(f[n - 1], n)]
    <3>1. f = [n \in 0 .. N |-> f[n]] /\ f[0] = <<anchor>> BY <2>3 DEF Computed
    <3>2. \A n \in 0 .. N : n = 0 \/ n \in 1 .. N BY <1>4
    <3>3. \A n \in 0 .. N : f[n] = IF n = 0 THEN <<anchor>> ELSE Then(f[n - 1], n)
      BY ONLY <2>4, <3>1, <3>2
    <3> QED BY ONLY <3>1, <3>3
  <2> QED BY <2>5 DEF F
<1> HIDE DEF F
<1>6. F[N] \in P[N]
  <2>1. F[0] \in P[0] BY <1>2, <1>4, <1>5
  <2>2. \A n \in 1 .. N : F[n - 1] \in P[n - 1] => F[n] \in P[n] BY <1>3, <1>4, <1>5
  <2> QED BY <1>4, <2>1, <2>2, WithinBounds
<1> HIDE DEF Grown
<1>7. F[N] \in Seq(Row) /\ Grown(F[N], N) BY <1>4, <1>6 DEF P
<1> QED BY <1>1, <1>7 DEF Grown

-----------------------------------------------------------------------------
(* Plans.                                                                  *)

TableSet == [queue : Queue, seats : Seq(Agent), rows : Seq(Row)]
Credits == UNION {[K -> Nat] : K \in SUBSET Key}
Plans == [tables : Seq(TableSet), open : SUBSET Row, taken : SUBSET House, next : Credits]

Legal(g) ==
  /\ Len(g.seats) = SeatsFor[g.queue]
  /\ Distinct(g.seats)
  /\ \A a, b \in Seated(g) \ House : OperatorOf[a] = OperatorOf[b] => a = b
  /\ \A h \in Seated(g) \cap House : Roster[<<"agent", h>>] = Roster[<<"queue", g.queue>>]

\* What a sweep has read: the rows, none of them a house agent's, credits, loads.
Snapshot(rows, sweeps, load) ==
  /\ rows \in Seq(Row) /\ Distinct(rows)
  /\ \A r \in ToSet(rows) : r.agent \notin House
  /\ sweeps \in Credits
  /\ load \in [House -> Nat]

\* A table of the snapshot: legal, of rows of its queue, and no rostered house
\* agent at it has all the games it may have.
Fair(table, rows, load) ==
  /\ Legal(table)
  /\ \A r \in ToSet(table.rows) : r \in ToSet(rows) /\ r.queue = table.queue
  /\ \A h \in Seated(table) \cap House :
       Roster[<<"agent", h>>] # None => load[h] < HouseConcurrency

HouseAt(table) == Seated(table) \cap House

\* Who sits after the table's rows.
Filled(table) == {table.seats[i] : i \in Len(table.rows) + 1 .. Len(table.seats)}

\* No row and no house agent is at two tables of a plan.
Apart(tables) ==
  \A i, j \in DOMAIN tables : i # j =>
    /\ ToSet(tables[i].rows) \cap ToSet(tables[j].rows) = {}
    /\ HouseAt(tables[i]) \cap HouseAt(tables[j]) = {}

Sound(plan, rows, load) ==
  /\ plan.open \subseteq ToSet(rows)
  /\ \A i \in DOMAIN plan.tables :
       /\ Fair(plan.tables[i], rows, load)
       /\ ToSet(plan.tables[i].rows) \cap plan.open = {}
       /\ HouseAt(plan.tables[i]) \subseteq plan.taken
  /\ Apart(plan.tables)

\* While queue q is planned.
Here(plan, q, rows, load) ==
  /\ Sound(plan, rows, load)
  /\ \A r \in plan.open : r.queue = q
  /\ \A i \in DOMAIN plan.tables : plan.tables[i].queue <= q

\* One more table, of open rows and house agents that are not taken.
LEMMA OneMoreTable ==
  ASSUME NEW rows, NEW load, NEW q \in Queue, NEW plan \in Plans, Here(plan, q, rows, load),
         NEW table \in TableSet, Fair(table, rows, load), table.queue = q,
         ToSet(table.rows) \subseteq plan.open,
         HouseAt(table) \cap plan.taken = {},
         HouseAt(table) \subseteq Filled(table)
  PROVE  WithTable(plan, table) \in Plans /\ Here(WithTable(plan, table), q, rows, load)
<1> DEFINE fill == {h \in House : \E i \in Len(table.rows) + 1 .. Len(table.seats) : table.seats[i] = h}
           new == WithTable(plan, table)
<1>1. /\ new.tables = Append(plan.tables, table) /\ new.open = plan.open \ ToSet(table.rows)
      /\ new.taken = plan.taken \cup fill /\ new.next = plan.next
      /\ new = [tables |-> new.tables, open |-> new.open, taken |-> new.taken, next |-> new.next]
  <2>1. new = [tables |-> Append(plan.tables, table), open |-> plan.open \ ToSet(table.rows),
                taken |-> plan.taken \cup fill, next |-> plan.next]
    <3>1. plan = [tables |-> plan.tables, open |-> plan.open, taken |-> plan.taken, next |-> plan.next]
      BY DEF Plans
    <3>2. new = [plan EXCEPT !.tables = Append(plan.tables, table),
                             !.open = plan.open \ ToSet(table.rows),
                             !.taken = plan.taken \cup fill]
      BY Zenon DEF WithTable
    <3> HIDE DEF new, fill
    <3> QED BY ONLY <3>1, <3>2
  <2> HIDE DEF new, fill
  <2> QED BY ONLY <2>1
<1>2. plan.tables \in Seq(TableSet) BY DEF Plans
<1>3. new \in Plans
  <2>1. new.tables \in Seq(TableSet) BY <1>1, <1>2
  <2>2. new.open \in SUBSET Row /\ new.taken \in SUBSET House /\ new.next \in Credits
    BY <1>1 DEF Plans
  <2> HIDE DEF new
  <2> QED BY <1>1, <2>1, <2>2 DEF Plans
<1> DEFINE n == Len(plan.tables) + 1
<1>4. /\ DOMAIN new.tables = DOMAIN plan.tables \cup {n} /\ n \notin DOMAIN plan.tables
      /\ new.tables[n] = table /\ \A i \in DOMAIN plan.tables : new.tables[i] = plan.tables[i]
  BY <1>1, <1>2
<1>5. HouseAt(table) \subseteq fill BY DEF HouseAt, Filled
<1> HIDE DEF new, fill, n
<1>6. \A i \in DOMAIN plan.tables :
        /\ ToSet(plan.tables[i].rows) \cap ToSet(table.rows) = {}
        /\ HouseAt(plan.tables[i]) \cap HouseAt(table) = {}
  BY DEF Here, Sound
<1>7. \A i \in DOMAIN new.tables :
        /\ Fair(new.tables[i], rows, load)
        /\ ToSet(new.tables[i].rows) \cap new.open = {}
        /\ HouseAt(new.tables[i]) \subseteq new.taken
        /\ new.tables[i].queue <= q
  <2> TAKE i \in DOMAIN new.tables
  <2>1. CASE i = n BY <1>1, <1>4, <1>5, <2>1 DEF Queue
  <2>2. CASE i \in DOMAIN plan.tables BY <1>1, <1>4, <2>2 DEF Here, Sound
  <2> QED BY <1>4, <2>1, <2>2
<1>8. Apart(new.tables)
  <2>1. Apart(plan.tables) BY DEF Here, Sound
  <2> QED BY <1>4, <1>6, <2>1 DEF Apart
<1>9. new.open \subseteq ToSet(rows) /\ \A r \in new.open : r.queue = q
  BY <1>1 DEF Here, Sound
<1> QED BY <1>3, <1>7, <1>8, <1>9 DEF Here, Sound, new

\* Entrants who can be at one table of queue q, and house agents who can fill it.
Entrants(group, q, rows) ==
  /\ group \in Seq(Row) /\ Distinct(group)
  /\ \A r, s \in ToSet(group) : OperatorOf[r.agent] = OperatorOf[s.agent] => r = s
  /\ \A r \in ToSet(group) : r \in ToSet(rows) /\ r.queue = q /\ r.agent \notin House

Fillers(fill, q, load) ==
  /\ fill \in Seq(House) /\ Distinct(fill)
  /\ \A h \in ToSet(fill) :
       /\ Roster[<<"agent", h>>] = Roster[<<"queue", q>>]
       /\ Roster[<<"queue", q>>] # None => load[h] < HouseConcurrency

\* A group and house agents of the queue's roster make a table of the snapshot.
LEMMA TableFacts ==
  ASSUME NEW rows, NEW load, NEW q \in Queue,
         NEW group, Entrants(group, q, rows), NEW fill, Fillers(fill, q, load),
         Len(group) + Len(fill) = SeatsFor[q]
  PROVE  LET table == Table(q, group, fill)
         IN  /\ table \in TableSet /\ Fair(table, rows, load)
             /\ HouseAt(table) = ToSet(fill)
             /\ HouseAt(table) \subseteq Filled(table)
<1> DEFINE table == Table(q, group, fill)
           mine == [i \in DOMAIN group |-> group[i].agent]
<1>0. House \subseteq Agent BY MatchmakingAssumption
<1>a. /\ group \in Seq(Row) /\ Distinct(group)
      /\ \A r, s \in ToSet(group) : OperatorOf[r.agent] = OperatorOf[s.agent] => r = s
      /\ \A r \in ToSet(group) : r \in ToSet(rows) /\ r.queue = q /\ r.agent \notin House
  BY DEF Entrants
<1>b. /\ fill \in Seq(House) /\ Distinct(fill)
      /\ \A h \in ToSet(fill) :
           /\ Roster[<<"agent", h>>] = Roster[<<"queue", q>>]
           /\ Roster[<<"queue", q>>] # None => load[h] < HouseConcurrency
  BY DEF Fillers
<1> USE <1>a, <1>b
<1>1. mine \in Seq(Agent) /\ Len(mine) = Len(group) /\ \A i \in DOMAIN group : mine[i] = group[i].agent
  <2>1. \A i \in DOMAIN group : group[i].agent \in Agent
    <3>1. \A i \in DOMAIN group : group[i] \in Row OBVIOUS
    <3> QED BY <3>1 DEF Row
  <2>2. Len(group) \in Nat /\ DOMAIN group = 1 .. Len(group) OBVIOUS
  <2>3. mine \in [1 .. Len(group) -> Agent] BY ONLY <2>1, <2>2
  <2>4. mine \in Seq(Agent) /\ Len(mine) = Len(group) BY ONLY <2>2, <2>3
  <2> QED BY <2>4
<1>2. table.queue = q /\ table.rows = group /\ table.seats = mine \o fill BY DEF Table
<1> HIDE DEF mine
<1>3. fill \in Seq(Agent) BY <1>0
<1>4. /\ table.seats \in Seq(Agent) /\ Len(table.seats) = Len(group) + Len(fill)
      /\ \A i \in 1 .. Len(group) : table.seats[i] = group[i].agent
      /\ \A i \in 1 .. Len(fill) : table.seats[Len(group) + i] = fill[i]
  <2>1. \A s, t \in Seq(Agent) : /\ s \o t \in Seq(Agent) /\ Len(s \o t) = Len(s) + Len(t)
                                 /\ \A i \in 1 .. Len(s) : (s \o t)[i] = s[i]
                                 /\ \A i \in 1 .. Len(t) : (s \o t)[Len(s) + i] = t[i]
    OBVIOUS
  <2>2. /\ mine \o fill \in Seq(Agent) /\ Len(mine \o fill) = Len(mine) + Len(fill)
        /\ \A i \in 1 .. Len(mine) : (mine \o fill)[i] = mine[i]
        /\ \A i \in 1 .. Len(fill) : (mine \o fill)[Len(mine) + i] = fill[i]
    BY <1>1, <1>3, <2>1
  <2>3. DOMAIN group = 1 .. Len(group) OBVIOUS
  <2> HIDE DEF table
  <2> QED BY <1>1, <1>2, <2>2, <2>3
<1>5. table \in TableSet
  <2>1. table = [queue |-> q, seats |-> table.seats, rows |-> group] BY DEF Table
  <2> HIDE DEF table
  <2> QED BY <1>4, <2>1 DEF TableSet
<1> HIDE DEF table
<1> DEFINE L == Len(group)
           K == Len(fill)
<1>6. /\ L \in Nat /\ K \in Nat /\ DOMAIN group = 1 .. L /\ DOMAIN fill = 1 .. K
      /\ DOMAIN table.seats = 1 .. L + K
  BY <1>4
<1>7. \A i \in 1 .. L + K : \/ i \in 1 .. L
                            \/ i - L \in 1 .. K /\ i = L + (i - L)
  BY <1>6
<1> HIDE DEF L, K
<1>8. \A i \in 1 .. L + K : \/ i \in 1 .. L /\ table.seats[i] = group[i].agent
                            \/ i - L \in 1 .. K /\ table.seats[i] = fill[i - L]
  BY <1>4, <1>7 DEF L, K
<1>9. /\ \A i \in 1 .. L : group[i] \in ToSet(group) /\ group[i].agent \notin House
      /\ \A i \in 1 .. K : fill[i] \in ToSet(fill) /\ fill[i] \in House
  <2>1. \A i \in 1 .. L : group[i] \in ToSet(group) BY <1>6 DEF ToSet
  <2>2. \A i \in DOMAIN fill : fill[i] \in ToSet(fill) /\ fill[i] \in House BY DEF ToSet
  <2> QED BY <1>6, <2>1, <2>2
<1>10. Distinct(table.seats)
  <2> SUFFICES ASSUME NEW i \in 1 .. L + K, NEW j \in 1 .. L + K, table.seats[i] = table.seats[j]
               PROVE  i = j
    BY <1>6 DEF Distinct
  <2>1. CASE i \in 1 .. L /\ j \in 1 .. L /\ table.seats[i] = group[i].agent /\ table.seats[j] = group[j].agent
    <3>1. group[i] = group[j] BY <1>9, <2>1
    <3> QED BY <1>6, <2>1, <3>1 DEF Distinct
  <2>2. CASE i - L \in 1 .. K /\ j - L \in 1 .. K /\ table.seats[i] = fill[i - L] /\ table.seats[j] = fill[j - L]
    <3>1. i - L = j - L BY <1>6, <2>2 DEF Distinct
    <3> QED BY <1>6, <3>1
  <2> QED BY <1>8, <1>9, <2>1, <2>2
<1>11. Seated(table) = {table.seats[i] : i \in 1 .. L + K} BY <1>6 DEF Seated, ToSet
<1>12. \A a \in Seated(table) \ House : \E r \in ToSet(group) : a = r.agent
  BY <1>8, <1>9, <1>11
<1>13. \A a, b \in Seated(table) \ House : OperatorOf[a] = OperatorOf[b] => a = b BY <1>12
<1>14. HouseAt(table) = ToSet(fill)
  <2>1. HouseAt(table) \subseteq ToSet(fill) BY <1>8, <1>9, <1>11 DEF HouseAt
  <2>2. \A i \in 1 .. K : fill[i] = table.seats[L + i] /\ L + i \in 1 .. L + K BY <1>4, <1>6 DEF L, K
  <2>3. \A i \in 1 .. K : fill[i] \in HouseAt(table) BY <1>9, <1>11, <2>2 DEF HouseAt
  <2>4. ToSet(fill) \subseteq HouseAt(table) BY <1>6, <2>3 DEF ToSet
  <2> QED BY <2>1, <2>4
<1>15. HouseAt(table) \subseteq {table.seats[i] : i \in L + 1 .. L + K}
  <2>1. \A i \in 1 .. K : fill[i] = table.seats[L + i] /\ L + i \in L + 1 .. L + K BY <1>4, <1>6 DEF L, K
  <2>2. ToSet(fill) = {fill[i] : i \in 1 .. K} BY <1>6 DEF ToSet
  <2> QED BY <1>14, <2>1, <2>2
<1>16. Legal(table)
  <2>1. Len(table.seats) = SeatsFor[table.queue] BY <1>2, <1>4
  <2>2. \A h \in Seated(table) \cap House : Roster[<<"agent", h>>] = Roster[<<"queue", table.queue>>]
    BY <1>2, <1>14 DEF HouseAt
  <2> QED BY <1>10, <1>13, <2>1, <2>2 DEF Legal
<1>17. Fair(table, rows, load)
  BY <1>2, <1>14, <1>16 DEF Fair, HouseAt
<1>18. Len(table.rows) = L /\ Len(table.seats) = L + K BY <1>2, <1>4 DEF L, K
<1> QED BY <1>5, <1>14, <1>15, <1>17, <1>18 DEF table, Filled

\* What the passes over a queue start from and keep.
Queued(entries, q, rows) ==
  /\ entries \in Seq(Row) /\ Distinct(entries)
  /\ ToSet(entries) \subseteq {r \in ToSet(rows) : r.queue = q}

LEMMA OpenGroup ==
  ASSUME NEW rows, NEW sweeps, NEW load, Snapshot(rows, sweeps, load),
         NEW q \in Queue, NEW entries, Queued(entries, q, rows),
         NEW plan \in Plans, Here(plan, q, rows, load), NEW a \in plan.open
  PROVE  LET g == Group(a, entries, plan.open, sweeps, SeatsFor[q])
         IN  /\ Entrants(g, q, rows) /\ ToSet(g) \subseteq plan.open
             /\ Len(g) \in Nat /\ SeatsFor[q] \in Nat \ {0} /\ Len(g) <= SeatsFor[q]
<1> DEFINE g == Group(a, entries, plan.open, sweeps, SeatsFor[q])
<1>1. plan.open \in SUBSET Row BY DEF Plans
<1>2. \A r \in plan.open : r \in ToSet(rows) /\ r.queue = q /\ r.agent \notin House
  BY DEF Here, Sound, Snapshot
<1>3. SeatsFor[q] \in Nat \ {0} BY MatchmakingAssumption
<1>4. entries \in Seq(Row) /\ Distinct(entries) BY DEF Queued
<1>5. /\ g \in Seq(Row) /\ Len(g) <= SeatsFor[q] /\ ToSet(g) \subseteq plan.open /\ Distinct(g)
      /\ \A r, s \in ToSet(g) : OperatorOf[r.agent] = OperatorOf[s.agent] => r = s
  BY <1>1, <1>2, <1>3, <1>4, GroupFacts
<1> HIDE DEF g
<1>6. Len(g) \in Nat BY <1>5
<1>7. \A r \in ToSet(g) : r \in ToSet(rows) /\ r.queue = q /\ r.agent \notin House BY <1>2, <1>5
<1> QED BY <1>3, <1>5, <1>6, <1>7 DEF g, Entrants

\* Pass 1, one anchor.
LEMMA FullTableFacts ==
  ASSUME NEW rows, NEW sweeps, NEW load, Snapshot(rows, sweeps, load),
         NEW q \in Queue, NEW entries, Queued(entries, q, rows),
         NEW plan \in Plans, Here(plan, q, rows, load), NEW a
  PROVE  LET new == FullTable(q, entries, sweeps, plan, a)
         IN  new \in Plans /\ Here(new, q, rows, load)
<1> DEFINE g == Group(a, entries, plan.open, sweeps, SeatsFor[q])
           new == FullTable(q, entries, sweeps, plan, a)
<1>1. CASE ~(a \in plan.open /\ Len(g) = SeatsFor[q])
  <2>1. new = plan BY <1>1 DEF FullTable
  <2> QED BY <2>1
<1>2. CASE a \in plan.open /\ Len(g) = SeatsFor[q]
  <2> DEFINE none == <<>>
             table == Table(q, g, none)
  <2>1. new = WithTable(plan, table) BY <1>2 DEF FullTable
  <2>2. Entrants(g, q, rows) /\ ToSet(g) \subseteq plan.open /\ Len(g) \in Nat
    BY <1>2, OpenGroup
  <2> HIDE DEF g
  <2>3. Fillers(none, q, load) /\ ToSet(none) = {} /\ Len(g) + Len(none) = SeatsFor[q]
    BY <1>2, <2>2 DEF Distinct, ToSet, Fillers
  <2>4. /\ table \in TableSet /\ Fair(table, rows, load) /\ table.queue = q /\ table.rows = g
        /\ HouseAt(table) = {}
    <3> HIDE DEF none
    <3>0. Len(g) + Len(none) = SeatsFor[q] /\ Entrants(g, q, rows) /\ Fillers(none, q, load)
      BY <2>2, <2>3
    <3>3. /\ table \in TableSet /\ Fair(table, rows, load)
          /\ HouseAt(table) = ToSet(none) /\ HouseAt(table) \subseteq Filled(table)
      BY ONLY <3>0, q \in Queue, TableFacts
    <3>1. table \in TableSet /\ Fair(table, rows, load) /\ HouseAt(table) = {}
      BY <2>3, <3>3
    <3>2. table.queue = q /\ table.rows = g BY DEF Table
    <3> HIDE DEF table
    <3> QED BY <3>1, <3>2
  <2> HIDE DEF table, new
  <2>5. ToSet(table.rows) \subseteq plan.open /\ HouseAt(table) \cap plan.taken = {}
    BY <2>2, <2>4
  <2>6. WithTable(plan, table) \in Plans /\ Here(WithTable(plan, table), q, rows, load)
    BY <2>4, <2>5, OneMoreTable
  <2> QED BY <2>1, <2>6 DEF new
<1> QED BY <1>1, <1>2

\* Pass 2, one anchor.
LEMMA BackfilledTableFacts ==
  ASSUME NEW rows, NEW sweeps, NEW load, Snapshot(rows, sweeps, load),
         NEW q \in Queue, NEW entries, Queued(entries, q, rows),
         NEW plan \in Plans, Here(plan, q, rows, load), NEW a
  PROVE  LET new == BackfilledTable(q, entries, sweeps, load, plan, a)
         IN  new \in Plans /\ Here(new, q, rows, load)
<1> DEFINE g == Group(a, entries, plan.open, sweeps, SeatsFor[q])
           need == SeatsFor[q] - Len(g)
           pool == EligibleHouse(q, plan.taken, load)
           new == BackfilledTable(q, entries, sweeps, load, plan, a)
<1>1. CASE ~(a \in plan.open /\ Waited(sweeps, a) >= BackfillAfter /\ Cardinality(pool) >= need)
  <2>1. new = plan BY <1>1 DEF BackfilledTable
  <2> QED BY <2>1
<1>2. CASE a \in plan.open /\ Waited(sweeps, a) >= BackfillAfter /\ Cardinality(pool) >= need
  <2> DEFINE fill == LeastLoaded(pool, need, load)
             table == Table(q, g, fill)
  <2>1. new = WithTable(plan, table) BY <1>2 DEF BackfilledTable
  <2>2. /\ Entrants(g, q, rows) /\ ToSet(g) \subseteq plan.open
        /\ Len(g) \in Nat /\ SeatsFor[q] \in Nat /\ Len(g) <= SeatsFor[q]
    BY <1>2, OpenGroup
  <2> HIDE DEF g
  <2>3. /\ pool \subseteq House /\ pool \cap plan.taken = {}
        /\ \A h \in pool : /\ Roster[<<"agent", h>>] = Roster[<<"queue", q>>]
                           /\ Roster[<<"queue", q>>] # None => load[h] < HouseConcurrency
    BY DEF EligibleHouse
  <2>4. pool \in SUBSET Nat /\ IsFiniteSet(pool) /\ Cardinality(pool) \in Nat
    <3>1. pool \subseteq 1 .. NAgents /\ NAgents \in Nat BY <2>3, MatchmakingAssumption DEF Agent
    <3>2. IsFiniteSet(1 .. NAgents) BY <3>1, FS_Interval
    <3> HIDE DEF pool
    <3>3. IsFiniteSet(pool) BY <3>1, <3>2, FS_Subset
    <3>4. pool \in SUBSET Nat BY <3>1
    <3> QED BY <3>3, <3>4, FS_CardinalityType
  <2>5. \A h \in pool : load[h] \in Nat BY <2>3 DEF Snapshot
  <2> HIDE DEF pool
  <2>6. need \in 0 .. Cardinality(pool) /\ Len(g) + need = SeatsFor[q] BY <1>2, <2>2, <2>4
  <2> HIDE DEF need
  <2>7. fill \in Seq(pool) /\ Len(fill) = need /\ Distinct(fill)
    BY <2>4, <2>5, <2>6, LeastLoadedFacts
  <2> HIDE DEF fill
  <2>8. ToSet(fill) \subseteq pool /\ Fillers(fill, q, load)
    BY <2>3, <2>7 DEF ToSet, Fillers
  <2>9. /\ table \in TableSet /\ Fair(table, rows, load) /\ table.queue = q /\ table.rows = g
        /\ HouseAt(table) = ToSet(fill)
        /\ HouseAt(table) \subseteq Filled(table)
    <3>1. Len(g) + Len(fill) = SeatsFor[q] BY <2>6, <2>7
    <3>2. Entrants(g, q, rows) /\ Fillers(fill, q, load) BY <2>2, <2>8
    <3>3. /\ table \in TableSet /\ Fair(table, rows, load)
          /\ HouseAt(table) = ToSet(fill) /\ HouseAt(table) \subseteq Filled(table)
      BY ONLY <3>1, <3>2, q \in Queue, TableFacts
    <3>4. table.queue = q /\ table.rows = g BY DEF Table
    <3> HIDE DEF table
    <3> QED BY <3>3, <3>4
  <2> HIDE DEF table, new
  <2>10. ToSet(table.rows) \subseteq plan.open /\ HouseAt(table) \cap plan.taken = {}
    BY <2>2, <2>3, <2>8, <2>9
  <2>11. WithTable(plan, table) \in Plans /\ Here(WithTable(plan, table), q, rows, load)
    BY <2>9, <2>10, OneMoreTable
  <2> QED BY <2>1, <2>11 DEF new
<1> QED BY <1>1, <1>2

\* Pass 1.
LEMMA FullTablesFacts ==
  ASSUME NEW rows, NEW sweeps, NEW load, Snapshot(rows, sweeps, load),
         NEW q \in Queue, NEW entries, Queued(entries, q, rows),
         NEW plan0 \in Plans, Here(plan0, q, rows, load)
  PROVE  LET new == FullTables(q, entries, sweeps, plan0)
         IN  new \in Plans /\ Here(new, q, rows, load)
<1> DEFINE N == Len(entries)
           Then(p, n) == FullTable(q, entries, sweeps, p, entries[n])
           OK == {p \in Plans : Here(p, q, rows, load)}
           P == [n \in 0 .. N |-> OK]
           F == CHOOSE f : f = [n \in 0 .. N |-> IF n = 0 THEN plan0 ELSE Then(f[n - 1], n)]
<1>1. FullTables(q, entries, sweeps, plan0) = F[N] BY DEF FullTables
<1>2. N \in Nat BY DEF Queued
<1> HIDE DEF N
<1>3. ASSUME NEW p \in OK, NEW n PROVE Then(p, n) \in OK
  BY FullTableFacts
<1>4. plan0 \in OK OBVIOUS
<1> HIDE DEF OK, Then
<1>5. F = [n \in 0 .. N |-> IF n = 0 THEN plan0 ELSE Then(F[n - 1], n)]
  <2> DEFINE step == [n \in 1 .. N |-> [p \in OK |-> Then(p, n)]]
  <2>1. \A n \in 1 .. N : \A p \in OK : step[n][p] = Then(p, n) OBVIOUS
  <2>2. \A n \in 1 .. N : \A p \in P[n - 1] : step[n][p] \in P[n] BY <1>2, <1>3, <2>1
  <2>3. plan0 \in P[0] BY <1>2, <1>4
  <2>4. \A n \in 0 .. N : P[n] = OK OBVIOUS
  <2> HIDE DEF step, F, P
  <2>5. PICK f : Computed(f, N, plan0, step) /\ \A n \in 0 .. N : f[n] \in P[n]
    BY <1>2, <2>2, <2>3, StepByStep
  <2>6. \A n \in 1 .. N : f[n] = Then(f[n - 1], n)
    <3>1. \A n \in 1 .. N : n - 1 \in 0 .. N BY <1>2
    <3> QED BY <2>1, <2>4, <2>5, <3>1 DEF Computed
  <2>7. f = [n \in 0 .. N |-> IF n = 0 THEN plan0 ELSE Then(f[n - 1], n)]
    <3>1. f = [n \in 0 .. N |-> f[n]] /\ f[0] = plan0 BY <2>5 DEF Computed
    <3>2. \A n \in 0 .. N : n = 0 \/ n \in 1 .. N BY <1>2
    <3>3. \A n \in 0 .. N : f[n] = IF n = 0 THEN plan0 ELSE Then(f[n - 1], n)
      BY ONLY <2>6, <3>1, <3>2
    <3> QED BY ONLY <3>1, <3>3
  <2> QED BY <2>7 DEF F
<1> HIDE DEF F
<1>6. F[N] \in P[N]
  <2>1. F[0] \in P[0] BY <1>2, <1>4, <1>5
  <2>2. \A n \in 1 .. N : F[n - 1] \in P[n - 1] => F[n] \in P[n] BY <1>2, <1>3, <1>5
  <2> HIDE DEF P
  <2> QED BY <1>2, <2>1, <2>2, WithinBounds
<1>7. F[N] \in OK BY <1>2, <1>6
<1> QED BY <1>1, <1>7 DEF OK

\* Pass 2.
LEMMA BackfilledTablesFacts ==
  ASSUME NEW rows, NEW sweeps, NEW load, Snapshot(rows, sweeps, load),
         NEW q \in Queue, NEW entries, Queued(entries, q, rows),
         NEW plan0 \in Plans, Here(plan0, q, rows, load)
  PROVE  LET new == BackfilledTables(q, entries, sweeps, load, plan0)
         IN  new \in Plans /\ Here(new, q, rows, load)
<1> DEFINE N == Len(entries)
           Then(p, n) == BackfilledTable(q, entries, sweeps, load, p, entries[n])
           OK == {p \in Plans : Here(p, q, rows, load)}
           P == [n \in 0 .. N |-> OK]
           F == CHOOSE f : f = [n \in 0 .. N |-> IF n = 0 THEN plan0 ELSE Then(f[n - 1], n)]
<1>1. BackfilledTables(q, entries, sweeps, load, plan0) = F[N] BY DEF BackfilledTables
<1>2. N \in Nat BY DEF Queued
<1> HIDE DEF N
<1>3. ASSUME NEW p \in OK, NEW n PROVE Then(p, n) \in OK
  BY BackfilledTableFacts
<1>4. plan0 \in OK OBVIOUS
<1> HIDE DEF OK, Then
<1>5. F = [n \in 0 .. N |-> IF n = 0 THEN plan0 ELSE Then(F[n - 1], n)]
  <2> DEFINE step == [n \in 1 .. N |-> [p \in OK |-> Then(p, n)]]
  <2>1. \A n \in 1 .. N : \A p \in OK : step[n][p] = Then(p, n) OBVIOUS
  <2>2. \A n \in 1 .. N : \A p \in P[n - 1] : step[n][p] \in P[n] BY <1>2, <1>3, <2>1
  <2>3. plan0 \in P[0] BY <1>2, <1>4
  <2>4. \A n \in 0 .. N : P[n] = OK OBVIOUS
  <2> HIDE DEF step, F, P
  <2>5. PICK f : Computed(f, N, plan0, step) /\ \A n \in 0 .. N : f[n] \in P[n]
    BY <1>2, <2>2, <2>3, StepByStep
  <2>6. \A n \in 1 .. N : f[n] = Then(f[n - 1], n)
    <3>1. \A n \in 1 .. N : n - 1 \in 0 .. N BY <1>2
    <3> QED BY <2>1, <2>4, <2>5, <3>1 DEF Computed
  <2>7. f = [n \in 0 .. N |-> IF n = 0 THEN plan0 ELSE Then(f[n - 1], n)]
    <3>1. f = [n \in 0 .. N |-> f[n]] /\ f[0] = plan0 BY <2>5 DEF Computed
    <3>2. \A n \in 0 .. N : n = 0 \/ n \in 1 .. N BY <1>2
    <3>3. \A n \in 0 .. N : f[n] = IF n = 0 THEN plan0 ELSE Then(f[n - 1], n)
      BY ONLY <2>6, <3>1, <3>2
    <3> QED BY ONLY <3>1, <3>3
  <2> QED BY <2>7 DEF F
<1> HIDE DEF F
<1>6. F[N] \in P[N]
  <2>1. F[0] \in P[0] BY <1>2, <1>4, <1>5
  <2>2. \A n \in 1 .. N : F[n - 1] \in P[n - 1] => F[n] \in P[n] BY <1>2, <1>3, <1>5
  <2> HIDE DEF P
  <2> QED BY <1>2, <2>1, <2>2, WithinBounds
<1>7. F[N] \in OK BY <1>2, <1>6
<1> QED BY <1>1, <1>7 DEF OK

\* Between queues q and q + 1.
UpTo(plan, q, rows, load) ==
  /\ Sound(plan, rows, load)
  /\ \A i \in DOMAIN plan.tables : plan.tables[i].queue <= q

LEMMA CreditType ==
  ASSUME NEW sweeps \in Credits
  PROVE  /\ DOMAIN sweeps \subseteq Key /\ \A k \in DOMAIN sweeps : sweeps[k] \in Nat
         /\ \A r : Waited(sweeps, r) \in Nat /\ OneMore(Waited(sweeps, r)) \in Nat
<1>1. PICK K \in SUBSET Key : sweeps \in [K -> Nat] BY DEF Credits
<1>2. \A r : Waited(sweeps, r) \in Nat BY <1>1 DEF Waited
<1>3. \A n \in Nat : OneMore(n) \in Nat BY DEF OneMore
<1> QED BY <1>1, <1>2, <1>3

\* A queue is planned after those before it.
LEMMA PlanQueueFacts ==
  ASSUME NEW rows, NEW sweeps, NEW load, Snapshot(rows, sweeps, load),
         NEW q \in Queue, NEW plan0 \in Plans, UpTo(plan0, q - 1, rows, load)
  PROVE  LET new == PlanQueue(rows, sweeps, load, plan0, q)
         IN  new \in Plans /\ UpTo(new, q, rows, load)
<1> DEFINE entries == Only(rows, {r \in Row : r.queue = q})
           start == [plan0 EXCEPT !.open = ToSet(entries)]
           full == FullTables(q, entries, sweeps, start)
           plan == BackfilledTables(q, entries, sweeps, load, full)
           waiting == {KeyOf(r) : r \in plan.open}
           next == [k \in DOMAIN plan.next \cup waiting |->
                     IF k \in waiting
                     THEN OneMore(Waited(sweeps, CHOOSE r \in plan.open : KeyOf(r) = k))
                     ELSE plan.next[k]]
           new == PlanQueue(rows, sweeps, load, plan0, q)
<1>1. new = [plan EXCEPT !.next = next] BY DEF PlanQueue
<1>2. Queued(entries, q, rows)
  <2>1. rows \in Seq(Row) /\ Distinct(rows) BY DEF Snapshot
  <2>2. /\ entries \in Seq(Row) /\ Distinct(entries)
        /\ ToSet(entries) = ToSet(rows) \cap {r \in Row : r.queue = q}
    BY <2>1, OnlyFacts
  <2> HIDE DEF entries
  <2> QED BY <2>2 DEF Queued
<1>3. start \in Plans /\ Here(start, q, rows, load)
  <2> HIDE DEF entries
  <2>1. plan0 = [tables |-> plan0.tables, open |-> plan0.open, taken |-> plan0.taken, next |-> plan0.next]
    BY DEF Plans
  <2>2. start = [tables |-> plan0.tables, open |-> ToSet(entries), taken |-> plan0.taken, next |-> plan0.next]
    BY <2>1
  <2>3. ToSet(entries) \in SUBSET Row BY <1>2 DEF Queued, ToSet
  <2>4. start \in Plans
    <3>1. /\ plan0.tables \in Seq(TableSet) /\ plan0.taken \in SUBSET House /\ plan0.next \in Credits
      BY DEF Plans
    <3> HIDE DEF start
    <3> QED BY <2>2, <2>3, <3>1 DEF Plans
  <2>5. /\ start.tables = plan0.tables /\ start.open = ToSet(entries) /\ start.taken = plan0.taken
    BY <2>2
  <2> HIDE DEF start
  <2>6. \A i \in DOMAIN plan0.tables : ToSet(plan0.tables[i].rows) \cap ToSet(entries) = {}
    <3> TAKE i \in DOMAIN plan0.tables
    <3>1. \A r \in ToSet(plan0.tables[i].rows) : r.queue = plan0.tables[i].queue
      BY DEF UpTo, Sound, Fair
    <3>2. \A r \in ToSet(entries) : r.queue = q BY <1>2 DEF Queued
    <3>3. plan0.tables[i].queue <= q - 1 BY DEF UpTo
    <3>4. plan0.tables[i].queue \in Int /\ q \in Int
      <4>1. plan0.tables \in Seq(TableSet) BY DEF Plans
      <4>2. plan0.tables[i] \in TableSet BY <4>1
      <4> QED BY <4>2 DEF TableSet, Queue
    <3> QED BY <3>1, <3>2, <3>3, <3>4
  <2>7. Sound(start, rows, load)
    <3>1. ToSet(entries) \subseteq ToSet(rows) BY <1>2 DEF Queued
    <3> QED BY <2>5, <2>6, <3>1 DEF UpTo, Sound
  <2>8. \A i \in DOMAIN start.tables : start.tables[i].queue <= q
    <3> TAKE i \in DOMAIN start.tables
    <3>1. plan0.tables[i] \in TableSet
      <4>1. plan0.tables \in Seq(TableSet) BY DEF Plans
      <4> QED BY <2>5, <4>1
    <3>2. plan0.tables[i].queue \in Int /\ q \in Int BY <3>1 DEF TableSet, Queue
    <3>3. plan0.tables[i].queue <= q - 1 BY <2>5 DEF UpTo
    <3> QED BY <2>5, <3>2, <3>3
  <2>9. \A r \in start.open : r.queue = q BY <1>2, <2>5 DEF Queued
  <2> QED BY <2>4, <2>7, <2>8, <2>9 DEF Here
<1> HIDE DEF entries, start
<1>4. full \in Plans /\ Here(full, q, rows, load) BY <1>2, <1>3, FullTablesFacts
<1> HIDE DEF full
<1>5. plan \in Plans /\ Here(plan, q, rows, load) BY <1>2, <1>4, BackfilledTablesFacts
<1> HIDE DEF plan
<1>6. /\ plan = [tables |-> plan.tables, open |-> plan.open, taken |-> plan.taken, next |-> plan.next]
      /\ plan.tables \in Seq(TableSet) /\ plan.open \in SUBSET Row
      /\ plan.taken \in SUBSET House /\ plan.next \in Credits
  BY <1>5 DEF Plans
<1>7. next \in Credits
  <2>1. waiting \subseteq Key
    <3>1. \A r \in Row : KeyOf(r) \in Key BY DEF Row, KeyOf, Key
    <3> QED BY <1>6, <3>1
  <2>2. DOMAIN plan.next \subseteq Key /\ \A k \in DOMAIN plan.next : plan.next[k] \in Nat
    BY <1>6, CreditType
  <2>3. \A r : OneMore(Waited(sweeps, r)) \in Nat BY CreditType DEF Snapshot
  <2> HIDE DEF waiting
  <2> DEFINE K == DOMAIN plan.next \cup waiting
  <2>4. K \in SUBSET Key BY <2>1, <2>2
  <2>5. next \in [K -> Nat] BY <2>2, <2>3
  <2> HIDE DEF next, K
  <2> QED BY <2>4, <2>5 DEF Credits
<1> HIDE DEF next
<1>8. new = [tables |-> plan.tables, open |-> plan.open, taken |-> plan.taken, next |-> next]
  BY ONLY <1>1, <1>6
<1> HIDE DEF new
<1>9. new \in Plans BY <1>6, <1>7, <1>8 DEF Plans
<1>10. new.tables = plan.tables /\ new.open = plan.open /\ new.taken = plan.taken BY <1>8
<1>11. UpTo(new, q, rows, load) BY <1>5, <1>10 DEF UpTo, Here, Sound
<1> QED BY <1>9, <1>11 DEF new

\* The whole plan of a sweep.
LEMMA PlanFacts ==
  ASSUME NEW rows, NEW sweeps, NEW load, Snapshot(rows, sweeps, load)
  PROVE  LET plan == Plan(rows, sweeps, load)
         IN  plan \in Plans /\ Sound(plan, rows, load)
<1> DEFINE N == NQueues
           Then(p, q) == PlanQueue(rows, sweeps, load, p, q)
           OK(q) == {p \in Plans : UpTo(p, q, rows, load)}
           P == [q \in 0 .. N |-> OK(q)]
           F == CHOOSE f : f = [q \in 0 .. N |-> IF q = 0 THEN NoPlan ELSE Then(f[q - 1], q)]
<1>1. Plan(rows, sweeps, load) = F[N] BY DEF Plan
<1>2. N \in Nat BY MatchmakingAssumption
<1>3. ASSUME NEW q \in 1 .. N, NEW p \in OK(q - 1) PROVE Then(p, q) \in OK(q)
  <2>1. q \in Queue BY DEF Queue
  <2>2. p \in Plans /\ UpTo(p, q - 1, rows, load) OBVIOUS
  <2> QED BY <2>1, <2>2, PlanQueueFacts
<1>4. NoPlan \in OK(0)
  <2>1. <<>> \in Credits
    <3>1. <<>> \in [{} -> Nat] /\ {} \in SUBSET Key OBVIOUS
    <3> QED BY <3>1 DEF Credits
  <2>2. <<>> \in Seq(TableSet) /\ DOMAIN <<>> = {} OBVIOUS
  <2>3. NoPlan \in Plans BY <2>1, <2>2 DEF NoPlan, Plans
  <2>4. NoPlan.open = {} /\ DOMAIN NoPlan.tables = {} BY DEF NoPlan
  <2>5. UpTo(NoPlan, 0, rows, load) BY <2>4 DEF UpTo, Sound, Apart
  <2> QED BY <2>3, <2>5
<1> HIDE DEF N, OK, Then
<1>5. F = [q \in 0 .. N |-> IF q = 0 THEN NoPlan ELSE Then(F[q - 1], q)]
  <2> DEFINE step == [q \in 1 .. N |-> [p \in OK(q - 1) |-> Then(p, q)]]
  <2>1. \A q \in 1 .. N : \A p \in OK(q - 1) : step[q][p] = Then(p, q) OBVIOUS
  <2>2. \A q \in 0 .. N : P[q] = OK(q) OBVIOUS
  <2>3. \A q \in 1 .. N : q - 1 \in 0 .. N /\ q \in 0 .. N BY <1>2
  <2> HIDE DEF step, F, P
  <2>4. \A q \in 1 .. N : \A p \in P[q - 1] : step[q][p] \in P[q] BY <1>3, <2>1, <2>2, <2>3
  <2>5. NoPlan \in P[0] BY <1>2, <1>4, <2>2
  <2>6. PICK f : Computed(f, N, NoPlan, step) /\ \A q \in 0 .. N : f[q] \in P[q]
    BY <1>2, <2>4, <2>5, StepByStep
  <2>7. \A q \in 1 .. N : f[q] = Then(f[q - 1], q)
    BY <2>1, <2>2, <2>3, <2>6 DEF Computed
  <2>8. f = [q \in 0 .. N |-> IF q = 0 THEN NoPlan ELSE Then(f[q - 1], q)]
    <3>1. f = [q \in 0 .. N |-> f[q]] /\ f[0] = NoPlan BY <2>6 DEF Computed
    <3>2. \A q \in 0 .. N : q = 0 \/ q \in 1 .. N BY <1>2
    <3>3. \A q \in 0 .. N : f[q] = IF q = 0 THEN NoPlan ELSE Then(f[q - 1], q)
      BY ONLY <2>7, <3>1, <3>2
    <3> QED BY ONLY <3>1, <3>3
  <2> QED BY <2>8 DEF F
<1> HIDE DEF F
<1>6. F[N] \in P[N]
  <2>1. \A q \in 0 .. N : P[q] = OK(q) OBVIOUS
  <2>2. \A q \in 1 .. N : q - 1 \in 0 .. N /\ q \in 0 .. N BY <1>2
  <2> HIDE DEF P
  <2>3. F[0] \in P[0] BY <1>2, <1>4, <1>5, <2>1
  <2>4. \A q \in 1 .. N : F[q] = Then(F[q - 1], q) BY <1>2, <1>5
  <2>5. \A q \in 1 .. N : F[q - 1] \in P[q - 1] => F[q] \in P[q] BY <1>3, <2>1, <2>2, <2>4
  <2> QED BY <1>2, <2>3, <2>5, WithinBounds
<1>7. F[N] \in OK(N) BY <1>2, <1>6
<1> QED BY <1>1, <1>7 DEF OK, UpTo

-----------------------------------------------------------------------------
(* The states.                                                             *)

\* House agents are seated by sweeps and join no lobby: the house driver only moves.
NoHouseEntrant == \A key \in Entry : key[2] \notin House

\* The sweeps are those of one isolate, which follow one another.
OneIsolate == \A i, j \in Isolate : i = j

Caller == Request \cup {Cron}
Game == [queue : Queue, seats : Seq(Agent)]
Requests == [pc : {"idle", "insert", "spend", "sweep"}, key : Entry \cup {None},
             isolate : Isolate \cup {None}]
Ticks == [pc : {"idle", "create"}, by : Caller \cup {None}, sweeps : Credits,
          tables : Seq(TableSet), matched : SUBSET Key, next : Credits]

Typed ==
  /\ lobby \in Seq(Row) /\ Distinct(lobby)
  /\ \A r \in ToSet(lobby) : KeyOf(r) \in Entry
  /\ joined \in [Entry -> Nat] /\ opened \in [Entry -> Nat]
  /\ games \in Seq(Game)
  /\ stored \in Credits
  /\ request \in [Request -> Requests]
  /\ \A r \in Request : request[r].pc \in {"insert", "spend"} =>
       request[r].key \in Entry /\ request[r].isolate \in Isolate
  /\ chain \in [Isolate -> Seq(Caller)]
  /\ tick \in [Isolate -> Ticks]
  /\ faults \in Nat

Load == [h \in House |-> LiveGames(h)]

LEMMA KeyFacts ==
  /\ \A r \in Row : KeyOf(r) \in Key /\ KeyOf(r)[1] = r.queue /\ KeyOf(r)[2] = r.agent
  /\ \A r, s \in Row : KeyOf(r) = KeyOf(s) => r = s
  /\ \A key \in Key : /\ [queue |-> key[1], agent |-> key[2]] \in Row
                      /\ KeyOf([queue |-> key[1], agent |-> key[2]]) = key
BY DEF Row, KeyOf, Key

LEMMA NoTickTyped == NoTick \in Ticks /\ <<>> \in Credits
<1>1. <<>> \in Credits
  <2>1. <<>> \in [{} -> Nat] /\ {} \in SUBSET Key OBVIOUS
  <2> QED BY <2>1 DEF Credits
<1>2. <<>> \in Seq(TableSet) OBVIOUS
<1> QED BY <1>1, <1>2 DEF NoTick, Ticks

LEMMA RemoveAtFacts ==
  ASSUME NEW X, NEW s \in Seq(X), NEW n \in DOMAIN s
  PROVE  /\ RemoveAt(s, n) \in Seq(X)
         /\ DOMAIN RemoveAt(s, n) = 1 .. Len(s) - 1
         /\ \A i \in 1 .. Len(s) - 1 : RemoveAt(s, n)[i] = IF i < n THEN s[i] ELSE s[i + 1]
<1> DEFINE a == SubSeq(s, 1, n - 1)
           b == SubSeq(s, n + 1, Len(s))
<1>1. Len(s) \in Nat /\ n \in 1 .. Len(s) OBVIOUS
<1>2. a \in Seq(X) /\ Len(a) = n - 1 /\ \A i \in 1 .. n - 1 : a[i] = s[i] BY <1>1
<1>3. b \in Seq(X) /\ Len(b) = Len(s) - n /\ \A i \in 1 .. Len(s) - n : b[i] = s[n + i] BY <1>1
<1>4. RemoveAt(s, n) = a \o b BY DEF RemoveAt
<1> HIDE DEF a, b
<1>5. /\ a \o b \in Seq(X) /\ Len(a \o b) = Len(s) - 1
      /\ \A i \in 1 .. n - 1 : (a \o b)[i] = a[i]
      /\ \A i \in 1 .. Len(s) - n : (a \o b)[n - 1 + i] = b[i]
  <2>1. \A t, u \in Seq(X) : /\ t \o u \in Seq(X) /\ Len(t \o u) = Len(t) + Len(u)
                             /\ \A i \in 1 .. Len(t) : (t \o u)[i] = t[i]
                             /\ \A i \in 1 .. Len(u) : (t \o u)[Len(t) + i] = u[i]
    OBVIOUS
  <2>2. /\ a \o b \in Seq(X) /\ Len(a \o b) = Len(a) + Len(b)
        /\ \A i \in 1 .. Len(a) : (a \o b)[i] = a[i]
        /\ \A i \in 1 .. Len(b) : (a \o b)[Len(a) + i] = b[i]
    BY <1>2, <1>3, <2>1
  <2>3. Len(a) + Len(b) = Len(s) - 1 BY <1>1, <1>2, <1>3
  <2> QED BY <1>2, <1>3, <2>2, <2>3
<1>6. \A i \in 1 .. Len(s) - 1 : (a \o b)[i] = IF i < n THEN s[i] ELSE s[i + 1]
  <2> TAKE i \in 1 .. Len(s) - 1
  <2>1. CASE i < n
    <3>1. i \in 1 .. n - 1 BY <1>1, <2>1
    <3> QED BY <1>2, <1>5, <2>1, <3>1
  <2>2. CASE ~(i < n)
    <3>1. PICK k \in 1 .. Len(s) - n : i = n - 1 + k
      <4>1. i - n + 1 \in 1 .. Len(s) - n /\ i = n - 1 + (i - n + 1) BY <1>1, <2>2
      <4> QED BY <4>1
    <3>2. (a \o b)[i] = b[k] /\ b[k] = s[n + k] BY <1>3, <1>5, <3>1
    <3>3. n + k = i + 1 BY <1>1, <3>1
    <3> QED BY <2>2, <3>2, <3>3
  <2> QED BY <2>1, <2>2
<1>7. DOMAIN (a \o b) = 1 .. Len(s) - 1 BY <1>5
<1> QED BY <1>4, <1>5, <1>6, <1>7

\* What a sweep reads is a snapshot.
LEMMA ReadsSnapshot ==
  ASSUME NoHouseEntrant, Typed
  PROVE  Snapshot(lobby, stored, Load)
<1>1. \A h \in House : LiveGames(h) \in Nat
  <2> TAKE h \in House
  <2> DEFINE S == {n \in DOMAIN games : h \in Seated(games[n])}
  <2>1. DOMAIN games = 1 .. Len(games) /\ Len(games) \in Nat BY DEF Typed
  <2>2. IsFiniteSet(DOMAIN games) BY <2>1, FS_Interval
  <2>3. IsFiniteSet(S) BY <2>2, FS_Subset
  <2>4. LiveGames(h) = Cardinality(S) BY DEF LiveGames
  <2> HIDE DEF S
  <2> QED BY <2>3, <2>4, FS_CardinalityType
<1>2. Load \in [House -> Nat] BY <1>1 DEF Load
<1>3. \A r \in ToSet(lobby) : r.agent \notin House
  <2>1. \A r \in ToSet(lobby) : r \in Row /\ KeyOf(r) \in Entry BY DEF Typed, ToSet
  <2> QED BY <2>1, KeyFacts DEF NoHouseEntrant
<1> QED BY <1>2, <1>3 DEF Typed, Snapshot

\* TickRead.
LEMMA Reads ==
  ASSUME NoHouseEntrant, Typed, NEW i \in Isolate, TickRead(i)
  PROVE  LET plan == Plan(lobby, stored, Load)
             new == [pc |-> "create", by |-> Head(chain[i]), sweeps |-> stored,
                     tables |-> plan.tables, matched |-> {}, next |-> plan.next]
         IN  /\ plan \in Plans /\ Sound(plan, lobby, Load)
             /\ new \in Ticks /\ tick' = [tick EXCEPT ![i] = new]
             /\ chain' \in [Isolate -> Seq(Caller)]
<1> DEFINE plan == Plan(lobby, stored, Load)
           new == [pc |-> "create", by |-> Head(chain[i]), sweeps |-> stored,
                   tables |-> plan.tables, matched |-> {}, next |-> plan.next]
<1>1. plan \in Plans /\ Sound(plan, lobby, Load) BY ReadsSnapshot, PlanFacts
<1>2. tick' = [tick EXCEPT ![i] = new]
  <2>1. tick' = [tick EXCEPT ![i] =
          [NoTick EXCEPT !.pc = "create", !.by = Head(chain[i]), !.sweeps = stored,
             !.tables = plan.tables, !.next = plan.next]]
    BY Zenon DEF TickRead, Load
  <2> HIDE DEF plan
  <2> DEFINE n == [NoTick EXCEPT !.pc = "create", !.by = Head(chain[i]), !.sweeps = stored,
                     !.tables = plan.tables, !.next = plan.next]
  <2>2. n = new
    <3>1. DOMAIN n = {"pc", "by", "sweeps", "tables", "matched", "next"} BY DEF NoTick
    <3>2. n.pc = "create" /\ n.by = Head(chain[i]) /\ n.sweeps = stored BY DEF NoTick
    <3>3. n.tables = plan.tables /\ n.matched = {} /\ n.next = plan.next BY DEF NoTick
    <3>4. n = [x \in DOMAIN n |-> n[x]] OBVIOUS
    <3> HIDE DEF n
    <3> QED BY <3>1, <3>2, <3>3, <3>4
  <2> QED BY ONLY <2>1, <2>2
<1> HIDE DEF plan
<1>3. chain[i] \in Seq(Caller) /\ chain[i] # <<>> BY DEF Typed, TickRead
<1>4. Head(chain[i]) \in Caller /\ Tail(chain[i]) \in Seq(Caller) BY <1>3
<1>5. chain' = [chain EXCEPT ![i] = Tail(chain[i])] BY DEF TickRead
<1>6. chain' \in [Isolate -> Seq(Caller)] BY <1>4, <1>5 DEF Typed
<1>7. plan.tables \in Seq(TableSet) /\ plan.next \in Credits BY <1>1 DEF Plans
<1>8. new \in Ticks BY <1>4, <1>7 DEF Ticks, Typed
<1> QED BY <1>1, <1>2, <1>6, <1>8 DEF plan

\* CreateGame.
LEMMA Creates ==
  ASSUME Typed, NEW i \in Isolate, CreateGame(i)
  PROVE  LET old == tick[i]
             table == Head(old.tables)
             new == [pc |-> old.pc, by |-> old.by, sweeps |-> old.sweeps, tables |-> Tail(old.tables),
                     matched |-> old.matched \cup KeysOf(table), next |-> old.next]
         IN  /\ old \in Ticks /\ old.tables \in Seq(TableSet) /\ old.tables # <<>>
             /\ table \in TableSet /\ table = old.tables[1]
             /\ new \in Ticks /\ tick' = [tick EXCEPT ![i] = new]
             /\ games' = Append(games, [queue |-> table.queue, seats |-> table.seats])
<1> DEFINE old == tick[i]
           table == Head(old.tables)
           new == [pc |-> old.pc, by |-> old.by, sweeps |-> old.sweeps, tables |-> Tail(old.tables),
                   matched |-> old.matched \cup KeysOf(table), next |-> old.next]
<1>1. old \in Ticks BY DEF Typed
<1>2. old.tables \in Seq(TableSet) /\ old.tables # <<>> BY <1>1 DEF Ticks, CreateGame
<1>3. table \in TableSet /\ table = old.tables[1] /\ Tail(old.tables) \in Seq(TableSet) BY <1>2
<1>4. KeysOf(table) \subseteq Key
  <2>1. \A r \in ToSet(table.rows) : r \in Row BY <1>3 DEF TableSet, ToSet
  <2> QED BY <2>1, KeyFacts DEF KeysOf
<1>5. tick' = [tick EXCEPT ![i] = new]
  <2>1. tick' = [tick EXCEPT ![i] = [old EXCEPT !.tables = Tail(old.tables),
                                                !.matched = old.matched \cup KeysOf(table)]]
    BY DEF CreateGame, Typed
  <2>2. old = [pc |-> old.pc, by |-> old.by, sweeps |-> old.sweeps, tables |-> old.tables,
               matched |-> old.matched, next |-> old.next]
    BY <1>1 DEF Ticks
  <2> DEFINE n == [old EXCEPT !.tables = Tail(old.tables), !.matched = old.matched \cup KeysOf(table)]
  <2>3. n = new
    <3>1. DOMAIN n = {"pc", "by", "sweeps", "tables", "matched", "next"} BY <2>2
    <3>2. n.pc = old.pc /\ n.by = old.by /\ n.sweeps = old.sweeps /\ n.next = old.next BY <2>2
    <3>3. n.tables = Tail(old.tables) /\ n.matched = old.matched \cup KeysOf(table) BY <2>2
    <3>4. n = [x \in DOMAIN n |-> n[x]] BY <2>2
    <3> HIDE DEF n, old, table
    <3> QED BY <3>1, <3>2, <3>3, <3>4
  <2> QED BY ONLY <2>1, <2>3
<1>6. new \in Ticks
  <2> HIDE DEF table
  <2> QED BY <1>1, <1>3, <1>4 DEF Ticks
<1>7. games' = Append(games, [queue |-> table.queue, seats |-> table.seats]) BY DEF CreateGame
<1> QED BY <1>1, <1>2, <1>3, <1>5, <1>6, <1>7

\* RemoveRows: the row of one key goes, and the key from those to remove.
LEMMA Removes ==
  ASSUME Typed, NEW i \in Isolate, RemoveRows(i)
  PROVE  \E k \in tick[i].matched :
           LET old == tick[i]
               new == [pc |-> old.pc, by |-> old.by, sweeps |-> old.sweeps, tables |-> old.tables,
                       matched |-> old.matched \ {k}, next |-> old.next]
           IN  /\ lobby' = Only(lobby, {row \in Row : KeyOf(row) \notin {k}})
               /\ new \in Ticks /\ tick' = [tick EXCEPT ![i] = new] /\ old.tables = <<>>
<1>0. PICK k \in tick[i].matched :
        /\ lobby' = Only(lobby, {row \in Row : KeyOf(row) # k})
        /\ tick' = [tick EXCEPT ![i].matched = @ \ {k}]
  BY DEF RemoveRows
<1> DEFINE old == tick[i]
           new == [pc |-> old.pc, by |-> old.by, sweeps |-> old.sweeps, tables |-> old.tables,
                   matched |-> old.matched \ {k}, next |-> old.next]
<1>1. old \in Ticks BY DEF Typed
<1>2. tick' = [tick EXCEPT ![i] = new]
  <2>1. tick' = [tick EXCEPT ![i] = [old EXCEPT !.matched = old.matched \ {k}]] BY <1>0 DEF Typed
  <2>2. old = [pc |-> old.pc, by |-> old.by, sweeps |-> old.sweeps, tables |-> old.tables,
               matched |-> old.matched, next |-> old.next]
    BY <1>1 DEF Ticks
  <2>3. [old EXCEPT !.matched = old.matched \ {k}] = new BY ONLY <2>2
  <2> QED BY ONLY <2>1, <2>3
<1>3. new \in Ticks BY <1>1 DEF Ticks
<1>4. old.tables = <<>> BY DEF RemoveRows
<1>5. lobby' = Only(lobby, {row \in Row : KeyOf(row) \notin {k}})
  <2>1. {row \in Row : KeyOf(row) \notin {k}} = {row \in Row : KeyOf(row) # k} OBVIOUS
  <2> QED BY <1>0, <2>1
<1> HIDE DEF old, new
<1> QED BY <1>2, <1>3, <1>4, <1>5 DEF old, new

LEMMA InLobbyFacts ==
  /\ \A key : InLobby(key) <=> \E r \in ToSet(lobby) : KeyOf(r) = key
  /\ \A key : InLobby(key)' <=> \E r \in ToSet(lobby') : KeyOf(r) = key
BY DEF InLobby, ToSet

\* What the lobby gains and loses.
LEMMA InsertsRow ==
  ASSUME Typed, NEW r \in Request, InsertRow(r)
  PROVE  /\ request[r].key \in Entry /\ ~InLobby(request[r].key)
         /\ lobby' \in Seq(Row) /\ Distinct(lobby') /\ \A x \in ToSet(lobby') : KeyOf(x) \in Entry
         /\ \A key : InLobby(key)' <=> InLobby(key) \/ key = request[r].key
<1> DEFINE k == request[r].key
           row == [queue |-> k[1], agent |-> k[2]]
<1>1. k \in Entry /\ ~InLobby(k) /\ lobby' = Append(lobby, row) BY DEF Typed, InsertRow
<1>2. row \in Row /\ KeyOf(row) = k BY <1>1, KeyFacts, MatchmakingAssumption
<1> HIDE DEF k, row
<1>3. row \notin ToSet(lobby) BY <1>1, <1>2, InLobbyFacts
<1>4. /\ lobby' \in Seq(Row) /\ ToSet(lobby') = ToSet(lobby) \cup {row} /\ Distinct(lobby')
  BY <1>1, <1>2, <1>3, Appended DEF Typed
<1>5. \A x \in ToSet(lobby') : KeyOf(x) \in Entry BY <1>1, <1>2, <1>4 DEF Typed
<1>6. \A key : InLobby(key)' <=> InLobby(key) \/ key = k BY <1>2, <1>4, InLobbyFacts
<1> QED BY <1>1, <1>4, <1>5, <1>6 DEF k

LEMMA LosesRows ==
  ASSUME Typed, NEW K, lobby' = Only(lobby, {row \in Row : KeyOf(row) \notin K})
  PROVE  /\ lobby' \in Seq(Row) /\ Distinct(lobby') /\ \A x \in ToSet(lobby') : KeyOf(x) \in Entry
         /\ \A key : InLobby(key)' <=> InLobby(key) /\ key \notin K
<1> DEFINE S == {row \in Row : KeyOf(row) \notin K}
<1>1. lobby \in Seq(Row) /\ Distinct(lobby) /\ lobby' = Only(lobby, S) BY DEF Typed
<1>2. lobby' \in Seq(Row) /\ ToSet(lobby') = ToSet(lobby) \cap S /\ Distinct(lobby')
  <2> HIDE DEF S
  <2>1. /\ Only(lobby, S) \in Seq(Row) /\ ToSet(Only(lobby, S)) = ToSet(lobby) \cap S
        /\ Distinct(lobby) => Distinct(Only(lobby, S))
    BY ONLY <1>1, OnlyFacts
  <2> QED BY <1>1, <2>1
<1>3. ToSet(lobby) \subseteq Row BY <1>1 DEF ToSet
<1>4. \A x \in ToSet(lobby') : KeyOf(x) \in Entry BY <1>2 DEF Typed
<1>5. \A key : InLobby(key)' <=> InLobby(key) /\ key \notin K BY <1>2, <1>3, InLobbyFacts
<1> QED BY <1>2, <1>4, <1>5

\* Leave and RemoveRows are both of this kind.
LEMMA LeavesRow ==
  ASSUME Typed, NEW key \in Entry, Leave(key)
  PROVE  lobby' = Only(lobby, {row \in Row : KeyOf(row) \notin {key}})
<1>1. {row \in Row : KeyOf(row) \notin {key}} = {row \in Row : KeyOf(row) # key} OBVIOUS
<1> QED BY <1>1 DEF Leave

LEMMA InitTyped == Init => Typed
<1> SUFFICES ASSUME Init PROVE Typed
  OBVIOUS
<1>1. lobby \in Seq(Row) /\ Distinct(lobby) /\ ToSet(lobby) = {} BY DEF Init, Distinct, ToSet
<1>2. joined \in [Entry -> Nat] /\ opened \in [Entry -> Nat] /\ faults \in Nat BY DEF Init
<1>3. games \in Seq(Game) /\ stored \in Credits BY NoTickTyped DEF Init
<1>4. NoRequest \in Requests /\ NoRequest.pc = "idle" BY DEF NoRequest, Requests
<1>5. request \in [Request -> Requests] /\ \A r \in Request : request[r].pc = "idle"
  BY <1>4 DEF Init
<1>6. chain \in [Isolate -> Seq(Caller)] /\ tick \in [Isolate -> Ticks]
  BY NoTickTyped DEF Init
<1> QED BY <1>1, <1>2, <1>3, <1>5, <1>6 DEF Typed

LEMMA Releases ==
  ASSUME Typed, NEW by, Release(by)
  PROVE  /\ request' \in [Request -> Requests]
         /\ \A r \in Request : request'[r].pc \in {"insert", "spend"} =>
              request'[r].key \in Entry /\ request'[r].isolate \in Isolate
<1>1. NoRequest \in Requests /\ NoRequest.pc = "idle" BY DEF NoRequest, Requests
<1> QED BY <1>1 DEF Release, Typed

LEMMA JoinsTyped ==
  ASSUME Typed, NEW r \in Request, NEW i \in Isolate, NEW key \in Entry,
         JoinChecked(r, i, key) \/ RequestStep(r)
  PROVE  Typed'
<1>0. request[r] \in Requests BY DEF Typed
<1>1. CASE JoinChecked(r, i, key)
  <2> DEFINE new == [pc |-> "insert", key |-> key, isolate |-> i]
  <2>1. new \in Requests BY DEF Requests
  <2>2. request' = [request EXCEPT ![r] = new] BY <1>1 DEF JoinChecked
  <2>3. /\ request' \in [Request -> Requests]
        /\ \A s \in Request : request'[s].pc \in {"insert", "spend"} =>
             request'[s].key \in Entry /\ request'[s].isolate \in Isolate
    BY <2>1, <2>2 DEF Typed
  <2> QED BY <1>1, <2>3 DEF JoinChecked, Typed
<1>2. CASE InsertRow(r)
  <2> DEFINE new == [pc |-> "spend", key |-> request[r].key, isolate |-> request[r].isolate]
  <2>1. request' = [request EXCEPT ![r] = new]
    <3>1. request' = [request EXCEPT ![r] = [request[r] EXCEPT !.pc = "spend"]] BY <1>2 DEF InsertRow, Typed
    <3>2. [request[r] EXCEPT !.pc = "spend"] = new BY <1>0 DEF Requests
    <3> QED BY ONLY <3>1, <3>2
  <2>2. request[r].key \in Entry /\ request[r].isolate \in Isolate BY <1>2 DEF InsertRow, Typed
  <2>3. new \in Requests BY <2>2 DEF Requests
  <2>4. /\ request' \in [Request -> Requests]
        /\ \A s \in Request : request'[s].pc \in {"insert", "spend"} =>
             request'[s].key \in Entry /\ request'[s].isolate \in Isolate
    BY <2>1, <2>2, <2>3 DEF Typed
  <2>5. joined' \in [Entry -> Nat] BY <1>2, <2>2 DEF InsertRow, Typed
  <2>6. lobby' \in Seq(Row) /\ Distinct(lobby') /\ \A x \in ToSet(lobby') : KeyOf(x) \in Entry
    BY <1>2, InsertsRow
  <2> QED BY <1>2, <2>4, <2>5, <2>6 DEF InsertRow, Typed
<1>3. CASE InsertClash(r)
  <2>1. NoRequest \in Requests /\ NoRequest.pc = "idle" BY DEF NoRequest, Requests
  <2>2. request' = [request EXCEPT ![r] = NoRequest] BY <1>3 DEF InsertClash
  <2>3. /\ request' \in [Request -> Requests]
        /\ \A s \in Request : request'[s].pc \in {"insert", "spend"} =>
             request'[s].key \in Entry /\ request'[s].isolate \in Isolate
    BY <2>1, <2>2 DEF Typed
  <2> QED BY <1>3, <2>3 DEF InsertClash, Typed
<1>4. CASE SpendJoin(r)
  <2> DEFINE new == [pc |-> "sweep", key |-> request[r].key, isolate |-> request[r].isolate]
  <2>1. request' = [request EXCEPT ![r] = new]
    <3>1. request' = [request EXCEPT ![r] = [request[r] EXCEPT !.pc = "sweep"]] BY <1>4 DEF SpendJoin, Typed
    <3>2. [request[r] EXCEPT !.pc = "sweep"] = new BY <1>0 DEF Requests
    <3> QED BY ONLY <3>1, <3>2
  <2>2. request[r].key \in Entry /\ request[r].isolate \in Isolate BY <1>4 DEF SpendJoin, Typed
  <2>3. new \in Requests BY <2>2 DEF Requests
  <2>4. /\ request' \in [Request -> Requests]
        /\ \A s \in Request : request'[s].pc \in {"insert", "spend"} =>
             request'[s].key \in Entry /\ request'[s].isolate \in Isolate
    BY <2>1, <2>2, <2>3 DEF Typed
  <2>5. chain' \in [Isolate -> Seq(Caller)]
    <3> DEFINE j == request[r].isolate
    <3>1. chain' = [chain EXCEPT ![j] = Append(chain[j], r)] BY <1>4 DEF SpendJoin
    <3>2. chain[j] \in Seq(Caller) /\ r \in Caller BY <2>2 DEF Typed, Caller
    <3>3. Append(chain[j], r) \in Seq(Caller) BY <3>2
    <3> QED BY <3>1, <3>3 DEF Typed
  <2> QED BY <1>4, <2>4, <2>5 DEF SpendJoin, Typed
<1> QED BY <1>1, <1>2, <1>3, <1>4 DEF RequestStep

LEMMA SweepsTyped ==
  ASSUME NoHouseEntrant, Typed, NEW i \in Isolate, CronFires(i) \/ TickStep(i) \/ CreateFails(i)
  PROVE  Typed'
<1>1. CASE CronFires(i)
  <2>1. chain' = [chain EXCEPT ![i] = Append(chain[i], Cron)] BY <1>1 DEF CronFires
  <2>2. chain[i] \in Seq(Caller) /\ Cron \in Caller BY DEF Typed, Caller
  <2>3. Append(chain[i], Cron) \in Seq(Caller) BY <2>2
  <2>4. chain' \in [Isolate -> Seq(Caller)] BY <2>1, <2>3 DEF Typed
  <2> QED BY <1>1, <2>4 DEF CronFires, Typed
<1>2. CASE TickRead(i)
  <2>1. chain' \in [Isolate -> Seq(Caller)] BY <1>2, Reads
  <2>2. PICK new \in Ticks : tick' = [tick EXCEPT ![i] = new] BY <1>2, Reads
  <2>3. tick' \in [Isolate -> Ticks] BY <2>2 DEF Typed
  <2> QED BY <1>2, <2>1, <2>3 DEF TickRead, Typed
<1>3. CASE CreateGame(i)
  <2>1. PICK new \in Ticks : tick' = [tick EXCEPT ![i] = new] BY <1>3, Creates
  <2>2. tick' \in [Isolate -> Ticks] BY <2>1 DEF Typed
  <2>3. PICK table \in TableSet : games' = Append(games, [queue |-> table.queue, seats |-> table.seats])
    BY <1>3, Creates
  <2>4. [queue |-> table.queue, seats |-> table.seats] \in Game BY DEF TableSet, Game
  <2>5. games' \in Seq(Game) BY <2>3, <2>4, Appended DEF Typed
  <2>6. opened' \in [Entry -> Nat]
    <3>1. opened' = [key \in Entry |-> opened[key] + IF key \in KeysOf(Head(tick[i].tables)) THEN 1 ELSE 0]
      BY <1>3 DEF CreateGame
    <3> QED BY <3>1 DEF Typed
  <2> QED BY <1>3, <2>2, <2>5, <2>6 DEF CreateGame, Typed
<1>4. CASE RemoveRows(i)
  <2>1. PICK new \in Ticks : tick' = [tick EXCEPT ![i] = new] BY <1>4, Removes
  <2>2. tick' \in [Isolate -> Ticks] BY <2>1 DEF Typed
  <2>3. lobby' \in Seq(Row) /\ Distinct(lobby') /\ \A x \in ToSet(lobby') : KeyOf(x) \in Entry
    <3>1. PICK k : lobby' = Only(lobby, {row \in Row : KeyOf(row) \notin {k}}) BY <1>4, Removes
    <3> QED BY <3>1, LosesRows
  <2> QED BY <1>4, <2>2, <2>3 DEF RemoveRows, Typed
<1>5. CASE TickSave(i)
  <2>1. tick' \in [Isolate -> Ticks] BY <1>5, NoTickTyped DEF TickSave, Typed
  <2>2. stored' \in Credits /\ faults' \in Nat
    <3>1. tick[i].next \in Credits BY DEF Typed, Ticks
    <3> QED BY <1>5, <3>1 DEF TickSave, Typed
  <2>3. Release(tick[i].by) BY <1>5 DEF TickSave
  <2> QED BY <1>5, <2>1, <2>2, <2>3, Releases DEF TickSave, Typed
<1>6. CASE CreateFails(i)
  <2>1. tick' \in [Isolate -> Ticks] BY <1>6, NoTickTyped DEF CreateFails, Typed
  <2>2. Release(tick[i].by) BY <1>6 DEF CreateFails
  <2> QED BY <1>6, <2>1, <2>2, Releases DEF CreateFails, Typed
<1> QED BY <1>1, <1>2, <1>3, <1>4, <1>5, <1>6 DEF TickStep

LEMMA NextTyped == ASSUME NoHouseEntrant, Typed, [Next]_vars PROVE Typed'
<1>1. CASE \E r \in Request, i \in Isolate, key \in Entry : JoinChecked(r, i, key)
  BY <1>1, JoinsTyped
<1>2. CASE \E r \in Request : RequestStep(r)
  <2>1. PICK r \in Request : RequestStep(r) BY <1>2
  <2>2. CASE request[r].pc = "idle"
    BY <2>1, <2>2 DEF RequestStep, InsertRow, InsertClash, SpendJoin
  <2>3. CASE request[r].pc \in {"insert", "spend"}
    BY <2>1, <2>3, JoinsTyped DEF Typed
  <2> QED BY <2>1, <2>2, <2>3 DEF RequestStep, InsertRow, InsertClash, SpendJoin
<1>3. CASE \E key \in Entry : Leave(key)
  <2>1. PICK key \in Entry : Leave(key) BY <1>3
  <2>2. lobby' \in Seq(Row) /\ Distinct(lobby') /\ \A x \in ToSet(lobby') : KeyOf(x) \in Entry
    BY <2>1, LeavesRow, LosesRows
  <2> QED BY <2>1, <2>2 DEF Leave, Typed
<1>4. CASE \E i \in Isolate : CronFires(i) \/ TickStep(i) \/ CreateFails(i)
  BY <1>4, SweepsTyped
<1>5. CASE \E n \in 1 .. MaxJoins : GameEnds(n)
  <2>1. PICK n \in 1 .. MaxJoins : GameEnds(n) BY <1>5
  <2>2. games' \in Seq(Game) BY <2>1, RemoveAtFacts DEF GameEnds, Typed
  <2> QED BY <2>1, <2>2 DEF GameEnds, Typed
<1>6. CASE UNCHANGED vars BY <1>6 DEF vars, Typed, KeyOf
<1> QED BY <1>1, <1>2, <1>3, <1>4, <1>5, <1>6 DEF Next

-----------------------------------------------------------------------------
(* What is opened is legal, and what is removed was opened.                *)

\* Every table, opened or planned, is legal.  A sweep's tables have no row and
\* no house agent in common; an idle isolate has no tables; whose row a sweep is
\* about to remove has been seated.
Lawful ==
  /\ \A n \in DOMAIN games : Legal(games[n])
  /\ \A i \in Isolate :
       /\ \A n \in DOMAIN tick[i].tables : Legal(tick[i].tables[n])
       /\ Apart(tick[i].tables)
       /\ tick[i].pc = "idle" => tick[i].tables = <<>> /\ tick[i].matched = {}
       /\ \A key \in tick[i].matched : key \in Entry => opened[key] > 0

Inv == Typed /\ Lawful

LEMMA EmptyTables == DOMAIN <<>> = {} /\ Apart(<<>>)
BY DEF Apart

LEMMA TailFacts ==
  ASSUME NEW X, NEW s \in Seq(X), s # <<>>
  PROVE  /\ Tail(s) \in Seq(X)
         /\ \A n \in DOMAIN Tail(s) : n + 1 \in DOMAIN s /\ n + 1 # 1 /\ Tail(s)[n] = s[n + 1]
OBVIOUS

LEMMA TailApart ==
  ASSUME NEW s \in Seq(TableSet), s # <<>>, Apart(s)
  PROVE  /\ Apart(Tail(s))
         /\ \A n \in DOMAIN Tail(s) : /\ ToSet(Tail(s)[n].rows) \cap ToSet(s[1].rows) = {}
                                      /\ HouseAt(Tail(s)[n]) \cap HouseAt(s[1]) = {}
<1> DEFINE t == Tail(s)
<1>1. \A n \in DOMAIN t : n + 1 \in DOMAIN s /\ n + 1 # 1 /\ t[n] = s[n + 1] BY TailFacts
<1>2. 1 \in DOMAIN s OBVIOUS
<1>3. DOMAIN t \subseteq Int OBVIOUS
<1> HIDE DEF t
<1>4. Apart(t)
  <2> SUFFICES ASSUME NEW i \in DOMAIN t, NEW j \in DOMAIN t, i # j
               PROVE  /\ ToSet(t[i].rows) \cap ToSet(t[j].rows) = {}
                      /\ HouseAt(t[i]) \cap HouseAt(t[j]) = {}
    BY DEF Apart
  <2>1. i + 1 # j + 1 BY <1>3
  <2> QED BY <1>1, <2>1 DEF Apart
<1>5. \A n \in DOMAIN t : /\ ToSet(t[n].rows) \cap ToSet(s[1].rows) = {}
                          /\ HouseAt(t[n]) \cap HouseAt(s[1]) = {}
  BY <1>1, <1>2 DEF Apart
<1> QED BY <1>4, <1>5 DEF t

\* A sweep that has ended.
LEMMA EndsLawful ==
  ASSUME Typed, Lawful, NEW i \in Isolate, tick' = [tick EXCEPT ![i] = NoTick],
         UNCHANGED <<games, opened>>
  PROVE  Lawful'
<1>1. \A j \in Isolate : tick'[j] = tick[j] \/ tick'[j] = NoTick BY DEF Typed
<1>2. NoTick.tables = <<>> /\ NoTick.matched = {} BY DEF NoTick
<1> QED BY <1>1, <1>2, EmptyTables DEF Lawful

LEMMA ReadsLawful ==
  ASSUME NoHouseEntrant, Typed, Lawful, NEW i \in Isolate, TickRead(i)
  PROVE  Lawful'
<1> DEFINE plan == Plan(lobby, stored, Load)
<1>1. /\ Sound(plan, lobby, Load)
      /\ tick' = [tick EXCEPT ![i] =
           [pc |-> "create", by |-> Head(chain[i]), sweeps |-> stored,
            tables |-> plan.tables, matched |-> {}, next |-> plan.next]]
  BY Reads
<1> HIDE DEF plan
<1>2. \A n \in DOMAIN plan.tables : Legal(plan.tables[n]) BY <1>1 DEF Sound, Fair
<1>3. Apart(plan.tables) BY <1>1 DEF Sound
<1>4. /\ tick'[i].tables = plan.tables /\ tick'[i].matched = {} /\ tick'[i].pc = "create"
      /\ \A j \in Isolate : j # i => tick'[j] = tick[j]
  BY <1>1 DEF Typed
<1>5. UNCHANGED <<games, opened>> BY DEF TickRead
<1> QED BY <1>2, <1>3, <1>4, <1>5 DEF Lawful

LEMMA CreatesLawful ==
  ASSUME Typed, Lawful, NEW i \in Isolate, CreateGame(i)
  PROVE  Lawful'
<1> DEFINE old == tick[i]
           table == Head(old.tables)
           g == [queue |-> table.queue, seats |-> table.seats]
<1>1. /\ old.tables \in Seq(TableSet) /\ old.tables # <<>> /\ table = old.tables[1]
      /\ tick' = [tick EXCEPT ![i] =
           [pc |-> old.pc, by |-> old.by, sweeps |-> old.sweeps, tables |-> Tail(old.tables),
            matched |-> old.matched \cup KeysOf(table), next |-> old.next]]
      /\ games' = Append(games, g)
  BY Creates
<1>2. /\ tick'[i].tables = Tail(old.tables) /\ tick'[i].matched = old.matched \cup KeysOf(table)
      /\ tick'[i].pc = old.pc /\ \A j \in Isolate : j # i => tick'[j] = tick[j]
  <2> HIDE DEF old, table
  <2> QED BY <1>1 DEF Typed
<1>3. Legal(g)
  <2>1. Legal(table) BY <1>1 DEF Lawful
  <2>2. g.queue = table.queue /\ g.seats = table.seats OBVIOUS
  <2> HIDE DEF g, table
  <2> QED BY <2>1, <2>2 DEF Legal, Seated
<1>4. \A n \in DOMAIN games' : Legal(games'[n])
  <2>1. games \in Seq(Game) BY DEF Typed
  <2> HIDE DEF g
  <2>2. \A n \in DOMAIN games' : games'[n] = g \/ (n \in DOMAIN games /\ games'[n] = games[n])
    BY <1>1, <2>1
  <2> QED BY <1>3, <2>2 DEF Lawful
<1>5. Apart(tick'[i].tables) BY <1>1, <1>2, TailApart DEF Lawful
<1>6. \A n \in DOMAIN tick'[i].tables : Legal(tick'[i].tables[n])
  BY <1>1, <1>2, TailFacts DEF Lawful
<1>7. tick'[i].pc # "idle" BY <1>2 DEF CreateGame
<1>8. \A key \in Entry : /\ opened'[key] >= opened[key] /\ opened[key] \in Nat
                         /\ key \in KeysOf(table) => opened'[key] > 0
  <2>1. opened' = [key \in Entry |-> opened[key] + IF key \in KeysOf(table) THEN 1 ELSE 0]
    BY DEF CreateGame
  <2> HIDE DEF table
  <2> QED BY <2>1 DEF Typed
<1>9. \A j \in Isolate : \A key \in tick'[j].matched : key \in Entry => opened'[key] > 0
  <2> SUFFICES ASSUME NEW j \in Isolate, NEW key \in tick'[j].matched, key \in Entry
               PROVE  opened'[key] > 0
    OBVIOUS
  <2>1. opened'[key] \in Int
    <3>1. opened' = [k \in Entry |-> opened[k] + IF k \in KeysOf(table) THEN 1 ELSE 0]
      BY DEF CreateGame
    <3> HIDE DEF table
    <3> QED BY <3>1 DEF Typed
  <2>2. CASE key \in tick[j].matched
    <3>1. opened[key] > 0 BY <2>2 DEF Lawful
    <3> QED BY <1>8, <2>1, <3>1
  <2>3. CASE key \notin tick[j].matched
    <3> HIDE DEF table
    <3> QED BY <1>2, <1>8, <2>3
  <2> QED BY <2>2, <2>3
<1> HIDE DEF old, table
<1> QED BY <1>2, <1>4, <1>5, <1>6, <1>7, <1>9 DEF Lawful

LEMMA NextLawful == ASSUME NoHouseEntrant, Typed, Lawful, [Next]_vars PROVE Lawful'
<1>1. CASE UNCHANGED <<games, opened, tick>> BY <1>1 DEF Lawful
<1>2. CASE \E i \in Isolate : TickStep(i) \/ CreateFails(i)
  <2>1. PICK i \in Isolate : TickStep(i) \/ CreateFails(i) BY <1>2
  <2>2. CASE TickRead(i) BY <2>2, ReadsLawful
  <2>3. CASE CreateGame(i) BY <2>3, CreatesLawful
  <2>4. CASE RemoveRows(i)
    <3>1. PICK k \in tick[i].matched :
            tick' = [tick EXCEPT ![i] =
               [pc |-> tick[i].pc, by |-> tick[i].by, sweeps |-> tick[i].sweeps,
                tables |-> tick[i].tables, matched |-> tick[i].matched \ {k}, next |-> tick[i].next]]
      BY <2>4, Removes
    <3>2. /\ tick'[i].tables = tick[i].tables /\ tick'[i].matched = tick[i].matched \ {k}
          /\ tick'[i].pc = tick[i].pc
          /\ \A j \in Isolate : j # i => tick'[j] = tick[j]
      BY <3>1 DEF Typed
    <3>3. UNCHANGED <<games, opened>> BY <2>4 DEF RemoveRows
    <3> QED BY <3>2, <3>3 DEF Lawful
  <2>5. CASE TickSave(i) BY <2>5, EndsLawful DEF TickSave
  <2>6. CASE CreateFails(i) BY <2>6, EndsLawful DEF CreateFails
  <2> QED BY <2>1, <2>2, <2>3, <2>4, <2>5, <2>6 DEF TickStep
<1>3. CASE \E n \in 1 .. MaxJoins : GameEnds(n)
  <2>1. PICK n \in DOMAIN games : games' = RemoveAt(games, n) BY <1>3 DEF GameEnds
  <2>2. \A m \in DOMAIN games' : \E k \in DOMAIN games : games'[m] = games[k]
    <3>1. games \in Seq(Game) BY DEF Typed
    <3>2. /\ DOMAIN games' = 1 .. Len(games) - 1
          /\ \A m \in 1 .. Len(games) - 1 : games'[m] = IF m < n THEN games[m] ELSE games[m + 1]
      BY <2>1, <3>1, RemoveAtFacts
    <3>3. \A m \in 1 .. Len(games) - 1 : m \in DOMAIN games /\ m + 1 \in DOMAIN games BY <3>1
    <3> QED BY <3>2, <3>3
  <2>3. UNCHANGED <<opened, tick>> BY <1>3 DEF GameEnds
  <2> QED BY <2>2, <2>3 DEF Lawful
<1>4. CASE UNCHANGED vars BY <1>1, <1>4 DEF vars
<1>5. CASE \E r \in Request, i \in Isolate, key \in Entry : JoinChecked(r, i, key)
  BY <1>1, <1>5 DEF JoinChecked
<1>6. CASE \E r \in Request : RequestStep(r)
  BY <1>1, <1>6 DEF RequestStep, InsertRow, InsertClash, SpendJoin
<1>7. CASE \E key \in Entry : Leave(key) BY <1>1, <1>7 DEF Leave
<1>8. CASE \E i \in Isolate : CronFires(i) BY <1>1, <1>8 DEF CronFires
<1> QED BY <1>2, <1>3, <1>4, <1>5, <1>6, <1>7, <1>8 DEF Next

LEMMA InitInv == Init => Inv
<1> SUFFICES ASSUME Init PROVE Lawful
  BY InitTyped DEF Inv
<1>1. games = <<>> /\ tick = [i \in Isolate |-> NoTick] BY DEF Init
<1>2. NoTick.tables = <<>> /\ NoTick.matched = {} BY DEF NoTick
<1> QED BY <1>1, <1>2, EmptyTables DEF Lawful

LEMMA Invariance == ASSUME NoHouseEntrant PROVE Spec => []Inv
<1>1. Inv /\ [Next]_vars => Inv' BY NextTyped, NextLawful DEF Inv
<1> QED BY <1>1, InitInv, PTL DEF Spec

\* A table that is opened is full, seats nobody twice and no two entrants of one
\* operator, and takes house agents from its own roster: whatever the lobby held,
\* and however many isolates sweep it at once.
THEOREM LegalTables == ASSUME NoHouseEntrant PROVE Spec => []TablesAreLegal
<1>1. Inv => TablesAreLegal
  <2> SUFFICES ASSUME Inv, NEW n \in DOMAIN games
               PROVE  LET g == games[n]
                      IN /\ Len(g.seats) = SeatsFor[g.queue]
                         /\ Cardinality(Seated(g)) = Len(g.seats)
                         /\ \A a, b \in Seated(g) \ House : OperatorOf[a] = OperatorOf[b] => a = b
                         /\ \A h \in Seated(g) \cap House :
                              Roster[<<"agent", h>>] = Roster[<<"queue", g.queue>>]
    BY DEF TablesAreLegal
  <2>1. Legal(games[n]) BY DEF Inv, Lawful
  <2>2. games[n].seats \in Seq(Agent)
    <3>1. games \in Seq(Game) BY DEF Inv, Typed
    <3>2. games[n] \in Game BY <3>1
    <3> QED BY <3>2 DEF Game
  <2>3. Cardinality(Seated(games[n])) = Len(games[n].seats)
    BY <2>1, <2>2, DistinctLength DEF Legal, Seated
  <2> QED BY <2>1, <2>3 DEF Legal
<1> QED BY <1>1, Invariance, PTL

\* No sweep takes an entrant's row out of the lobby without having seated it in a
\* game of that queue: a row goes when its agent leaves, or after a game opened.
THEOREM RowsAreSeated == ASSUME NoHouseEntrant PROVE Spec => NoRowLost
<1> DEFINE Kept(key) == InLobby(key) /\ ~InLobby(key)' => Leave(key) \/ opened[key] > 0
<1>1. ASSUME Inv, [Next]_vars, NEW key \in Entry, InLobby(key), ~InLobby(key)'
      PROVE  Leave(key) \/ opened[key] > 0
  <2>1. Typed /\ Lawful BY <1>1 DEF Inv
  <2>2. lobby' # lobby BY <1>1 DEF InLobby
  <2>3. CASE \E r \in Request : InsertRow(r) BY <1>1, <2>1, <2>3, InsertsRow
  <2>4. CASE \E k \in Entry : Leave(k)
    <3>1. PICK k \in Entry : Leave(k) BY <2>4
    <3>2. key = k BY <1>1, <2>1, <3>1, LeavesRow, LosesRows
    <3> QED BY <3>1, <3>2
  <2>5. CASE \E i \in Isolate : RemoveRows(i)
    <3>1. PICK i \in Isolate : RemoveRows(i) BY <2>5
    <3>2. PICK k \in tick[i].matched : lobby' = Only(lobby, {row \in Row : KeyOf(row) \notin {k}})
      BY <2>1, <3>1, Removes
    <3>3. key = k BY <1>1, <2>1, <3>2, LosesRows
    <3> QED BY <2>1, <3>2, <3>3 DEF Lawful
  <2>6. \/ \E r \in Request : InsertRow(r)
        \/ \E k \in Entry : Leave(k)
        \/ \E i \in Isolate : RemoveRows(i)
    BY <1>1, <2>2 DEF Next, vars, JoinChecked, RequestStep, InsertClash, SpendJoin, CronFires,
                     TickStep, TickRead, CreateGame, TickSave, CreateFails, GameEnds
  <2> QED BY <2>3, <2>4, <2>5, <2>6
<1>2. Inv /\ [Next]_vars => [\A key \in Entry : Kept(key)]_vars BY <1>1
<1> QED BY <1>2, Invariance, PTL DEF Spec, NoRowLost

-----------------------------------------------------------------------------
(* One isolate: no join is seated twice, no rostered house agent has more   *)
(* games than it may have.                                                 *)

At(gs, a) == {n \in DOMAIN gs : a \in Seated(gs[n])}

LEMMA LiveCount ==
  ASSUME Typed, NEW a
  PROVE  /\ LiveGames(a) = Cardinality(At(games, a)) /\ LiveGames(a)' = Cardinality(At(games', a))
         /\ IsFiniteSet(At(games, a)) /\ LiveGames(a) \in Nat
<1>1. LiveGames(a) = Cardinality(At(games, a)) BY DEF LiveGames, At
<1>2. LiveGames(a)' = Cardinality(At(games', a)) BY DEF LiveGames, At
<1>3. games \in Seq(Game) BY DEF Typed
<1>4. IsFiniteSet(1 .. Len(games)) /\ DOMAIN games = 1 .. Len(games) BY <1>3, FS_Interval
<1>5. At(games, a) \subseteq DOMAIN games BY DEF At
<1>6. IsFiniteSet(At(games, a)) BY <1>4, <1>5, FS_Subset
<1> QED BY <1>1, <1>2, <1>6, FS_CardinalityType

\* A game that opens is one more for those who sit at it, and for nobody else.
LEMMA LiveOpens ==
  ASSUME Typed, NEW g, games' = Append(games, g), NEW a
  PROVE  LiveGames(a)' = IF a \in Seated(g) THEN LiveGames(a) + 1 ELSE LiveGames(a)
<1>1. games \in Seq(Game) BY DEF Typed
<1> DEFINE n == Len(games) + 1
           S == At(games, a)
           T == At(games', a)
<1>2. /\ DOMAIN games' = DOMAIN games \cup {n} /\ n \notin DOMAIN games
      /\ games'[n] = g /\ \A m \in DOMAIN games : games'[m] = games[m]
  BY <1>1
<1> HIDE DEF n
<1>3. T = IF a \in Seated(g) THEN S \cup {n} ELSE S BY <1>2 DEF At
<1>4. n \notin S BY <1>2 DEF At
<1>5. LiveGames(a) = Cardinality(S) /\ LiveGames(a)' = Cardinality(T) /\ IsFiniteSet(S) BY LiveCount
<1> HIDE DEF S, T
<1>6. Cardinality(S \cup {n}) = Cardinality(S) + 1 BY <1>4, <1>5, FS_AddElement
<1> QED BY <1>3, <1>5, <1>6

\* A game that ends is one more for nobody.
LEMMA LiveEnds ==
  ASSUME Typed, NEW n \in DOMAIN games, games' = RemoveAt(games, n), NEW a
  PROVE  LiveGames(a)' <= LiveGames(a) /\ LiveGames(a)' \in Nat
<1> DEFINE L == Len(games)
           S == At(games, a)
           T == At(games', a)
           f == [m \in T |-> IF m < n THEN m ELSE m + 1]
<1>1. games \in Seq(Game) /\ L \in Nat /\ n \in 1 .. L /\ DOMAIN games = 1 .. L BY DEF Typed
<1>2. /\ DOMAIN games' = 1 .. L - 1
      /\ \A m \in 1 .. L - 1 : games'[m] = IF m < n THEN games[m] ELSE games[m + 1]
  BY <1>1, RemoveAtFacts
<1> HIDE DEF L
<1>3. \A m \in T : m \in 1 .. L - 1 /\ a \in Seated(games'[m]) BY <1>2 DEF At
<1>4. \A m \in T : f[m] \in S
  <2> TAKE m \in T
  <2>1. m \in 1 .. L - 1 /\ a \in Seated(games'[m]) BY <1>3
  <2>2. CASE m < n
    <3>1. games'[m] = games[m] /\ m \in DOMAIN games BY <1>1, <1>2, <2>1, <2>2
    <3> QED BY <2>1, <2>2, <3>1 DEF At
  <2>3. CASE ~(m < n)
    <3>1. games'[m] = games[m + 1] /\ m + 1 \in DOMAIN games BY <1>1, <1>2, <2>1, <2>3
    <3> QED BY <2>1, <2>3, <3>1 DEF At
  <2> QED BY <2>2, <2>3
<1>5. f \in Injection(T, S)
  <2>1. f \in [T -> S] BY <1>4
  <2>2. \A l, m \in T : f[l] = f[m] => l = m BY <1>1, <1>3
  <2> HIDE DEF f, S, T
  <2> QED BY <2>1, <2>2 DEF Injection, IsInjective
<1>6. LiveGames(a) = Cardinality(S) /\ LiveGames(a)' = Cardinality(T) /\ IsFiniteSet(S) BY LiveCount
<1> HIDE DEF f, S, T
<1>7. IsFiniteSet(T) /\ Cardinality(T) <= Cardinality(S) BY <1>5, <1>6, FS_Injection
<1> QED BY <1>6, <1>7, FS_CardinalityType

Pending(i, key) == \E n \in DOMAIN tick[i].tables : key \in KeysOf(tick[i].tables[n])
Called(i, h) == \E n \in DOMAIN tick[i].tables : h \in HouseAt(tick[i].tables[n])

\* Whoever is in the lobby, or at a table that is not open yet, is owed a game by
\* a join, but for rows that are about to be removed.
Owed(key) ==
  /\ opened[key] <= joined[key]
  /\ \A i \in Isolate :
       (InLobby(key) /\ key \notin tick[i].matched) \/ Pending(i, key) => opened[key] < joined[key]

SeatsOnce == faults = 0 => \A key \in Entry : Owed(key)

\* A rostered house agent can take the games it plays and the one it is called to.
Bears(h) ==
  /\ LiveGames(h) <= HouseConcurrency
  /\ \A i \in Isolate : Called(i, h) => LiveGames(h) < HouseConcurrency

NotOverloaded == \A h \in House : Roster[<<"agent", h>>] # None => Bears(h)

\* A sweep that reads calls entrants of the lobby, and house agents who can play.
LEMMA ReadsCalls ==
  ASSUME NoHouseEntrant, Typed, NEW i \in Isolate, TickRead(i)
  PROVE  /\ \A key : Pending(i, key)' => InLobby(key)
         /\ \A h \in House : Called(i, h)' /\ Roster[<<"agent", h>>] # None =>
              LiveGames(h) < HouseConcurrency
         /\ tick'[i].matched = {}
<1> DEFINE plan == Plan(lobby, stored, Load)
<1>1. /\ Sound(plan, lobby, Load)
      /\ tick' = [tick EXCEPT ![i] =
           [pc |-> "create", by |-> Head(chain[i]), sweeps |-> stored,
            tables |-> plan.tables, matched |-> {}, next |-> plan.next]]
  BY Reads
<1> HIDE DEF plan
<1>2. tick'[i].tables = plan.tables /\ tick'[i].matched = {} BY <1>1 DEF Typed
<1>3. \A n \in DOMAIN plan.tables : Fair(plan.tables[n], lobby, Load) BY <1>1 DEF Sound
<1>4. \A key : Pending(i, key)' => InLobby(key)
  <2> SUFFICES ASSUME NEW key, NEW n \in DOMAIN plan.tables, key \in KeysOf(plan.tables[n])
               PROVE  InLobby(key)
    BY <1>2 DEF Pending
  <2>1. PICK r \in ToSet(plan.tables[n].rows) : KeyOf(r) = key BY DEF KeysOf
  <2>2. r \in ToSet(lobby) BY <1>3 DEF Fair
  <2> QED BY <2>1, <2>2, InLobbyFacts
<1>5. \A h \in House : Called(i, h)' /\ Roster[<<"agent", h>>] # None => LiveGames(h) < HouseConcurrency
  <2> SUFFICES ASSUME NEW h \in House, NEW n \in DOMAIN plan.tables, h \in HouseAt(plan.tables[n]),
                      Roster[<<"agent", h>>] # None
               PROVE  LiveGames(h) < HouseConcurrency
    BY <1>2 DEF Called
  <2>1. Load[h] < HouseConcurrency BY <1>3 DEF Fair, HouseAt
  <2> QED BY <2>1 DEF Load
<1> QED BY <1>2, <1>4, <1>5

\* The first table is opened: its rows and its house agents are at no other.
LEMMA CreatesCalls ==
  ASSUME Typed, Lawful, NEW i \in Isolate, CreateGame(i)
  PROVE  LET table == Head(tick[i].tables)
         IN  /\ \A key : Pending(i, key)' => Pending(i, key) /\ key \notin KeysOf(table)
             /\ \A key \in KeysOf(table) : Pending(i, key)
             /\ \A h : Called(i, h)' => Called(i, h) /\ h \notin HouseAt(table)
             /\ \A h \in HouseAt(table) : Called(i, h)
             /\ tick'[i].matched = tick[i].matched \cup KeysOf(table)
             /\ games' = Append(games, [queue |-> table.queue, seats |-> table.seats])
<1> DEFINE old == tick[i]
           tables == old.tables
           table == Head(tables)
<1>1. /\ tables \in Seq(TableSet) /\ tables # <<>> /\ table = tables[1] /\ table \in TableSet
      /\ tick' = [tick EXCEPT ![i] =
           [pc |-> old.pc, by |-> old.by, sweeps |-> old.sweeps, tables |-> Tail(tables),
            matched |-> old.matched \cup KeysOf(table), next |-> old.next]]
      /\ games' = Append(games, [queue |-> table.queue, seats |-> table.seats])
  BY Creates
<1>2. tick'[i].tables = Tail(tables) /\ tick'[i].matched = old.matched \cup KeysOf(table)
  <2> HIDE DEF old, table, tables
  <2> QED BY <1>1 DEF Typed
<1>3. 1 \in DOMAIN tables BY <1>1
<1>4. \A n \in DOMAIN Tail(tables) : n + 1 \in DOMAIN tables /\ Tail(tables)[n] = tables[n + 1]
  BY <1>1, TailFacts
<1>5. \A n \in DOMAIN Tail(tables) :
        /\ ToSet(Tail(tables)[n].rows) \cap ToSet(table.rows) = {}
        /\ HouseAt(Tail(tables)[n]) \cap HouseAt(table) = {}
  BY <1>1, TailApart DEF Lawful
<1>6. \A n \in DOMAIN Tail(tables) : KeysOf(Tail(tables)[n]) \cap KeysOf(table) = {}
  <2> SUFFICES ASSUME NEW n \in DOMAIN Tail(tables), NEW r \in ToSet(Tail(tables)[n].rows),
                      NEW x \in ToSet(table.rows), KeyOf(r) = KeyOf(x)
               PROVE  FALSE
    BY DEF KeysOf
  <2>1. tables[n + 1] \in TableSet /\ Tail(tables)[n] = tables[n + 1] BY <1>1, <1>4
  <2>2. r \in Row /\ x \in Row
    <3>1. \A t \in TableSet : \A y \in ToSet(t.rows) : y \in Row BY DEF TableSet, ToSet
    <3> HIDE DEF table, tables
    <3> QED BY <1>1, <2>1, <3>1
  <2>3. r = x BY <2>2, KeyFacts
  <2> QED BY <1>5, <2>3
<1> HIDE DEF table, tables
<1>7. \A key : Pending(i, key)' => Pending(i, key) /\ key \notin KeysOf(table)
  BY <1>2, <1>4, <1>6 DEF Pending, tables
<1>8. \A h : Called(i, h)' => Called(i, h) /\ h \notin HouseAt(table)
  BY <1>2, <1>4, <1>5 DEF Called, tables
<1>9. \A key \in KeysOf(table) : Pending(i, key) BY <1>1, <1>3 DEF Pending, tables
<1>10. \A h \in HouseAt(table) : Called(i, h) BY <1>1, <1>3 DEF Called, tables
<1> QED BY <1>1, <1>2, <1>7, <1>8, <1>9, <1>10 DEF table, tables

\* RemoveRows, and the end of a sweep.
LEMMA QuietCalls ==
  ASSUME Typed, NEW i \in Isolate, RemoveRows(i) \/ TickSave(i) \/ CreateFails(i)
  PROVE  \A key : ~Pending(i, key)' /\ \A h : ~Called(i, h)'
<1>1. tick'[i].tables = <<>>
  <2>1. CASE RemoveRows(i)
    <3> DEFINE old == tick[i]
    <3>1. PICK k :
            /\ tick' = [tick EXCEPT ![i] =
                 [pc |-> old.pc, by |-> old.by, sweeps |-> old.sweeps, tables |-> old.tables,
                  matched |-> old.matched \ {k}, next |-> old.next]]
            /\ old.tables = <<>>
      BY <2>1, Removes
    <3> HIDE DEF old
    <3> QED BY <3>1 DEF Typed
  <2>2. CASE TickSave(i) \/ CreateFails(i)
    <3>1. tick'[i] = NoTick BY <2>2 DEF TickSave, CreateFails, Typed
    <3> QED BY <3>1 DEF NoTick
  <2> QED BY <2>1, <2>2
<1> QED BY <1>1, EmptyTables DEF Pending, Called

LEMMA SeatsOnceStep ==
  ASSUME NoHouseEntrant, OneIsolate, Typed, Lawful, SeatsOnce, [Next]_vars
  PROVE  SeatsOnce'
<1> SUFFICES ASSUME faults' = 0, NEW key \in Entry PROVE Owed(key)'
  BY DEF SeatsOnce
<1> USE DEF Owed
<1>0. /\ opened[key] \in Nat /\ joined[key] \in Nat
      /\ faults = 0 => Owed(key)
  BY DEF Typed, SeatsOnce
<1>1. CASE UNCHANGED <<joined, opened, faults, lobby, tick>>
  BY <1>0, <1>1 DEF InLobby, Pending
<1>2. CASE \E r \in Request : InsertRow(r)
  <2>1. PICK r \in Request : InsertRow(r) BY <1>2
  <2>2. /\ joined' = [joined EXCEPT ![request[r].key] = joined[request[r].key] + 1]
        /\ UNCHANGED <<opened, faults, tick>>
    BY <2>1 DEF InsertRow
  <2>3. \A k : InLobby(k)' <=> InLobby(k) \/ k = request[r].key BY <2>1, InsertsRow
  <2>4. \A i \in Isolate : Pending(i, key)' <=> Pending(i, key) BY <2>2 DEF Pending
  <2>5. CASE key = request[r].key
    <3>1. joined'[key] = joined[key] + 1 BY <2>2, <2>5 DEF Typed
    <3> QED BY <1>0, <2>2, <3>1
  <2>6. CASE key # request[r].key
    <3>1. joined'[key] = joined[key] BY <2>2, <2>6 DEF Typed
    <3> QED BY <1>0, <2>2, <2>3, <2>4, <2>6, <3>1
  <2> QED BY <2>5, <2>6
<1>3. CASE \E k \in Entry : Leave(k)
  <2>1. PICK k \in Entry : Leave(k) BY <1>3
  <2>2. UNCHANGED <<joined, opened, faults, tick>> BY <2>1 DEF Leave
  <2>3. InLobby(key)' => InLobby(key) BY <2>1, LeavesRow, LosesRows
  <2>4. \A i \in Isolate : Pending(i, key)' <=> Pending(i, key) BY <2>2 DEF Pending
  <2> QED BY <1>0, <2>2, <2>3, <2>4
<1>4. CASE \E i \in Isolate : TickRead(i)
  <2>1. PICK i \in Isolate : TickRead(i) BY <1>4
  <2>2. UNCHANGED <<joined, opened, faults, lobby>> BY <2>1 DEF TickRead
  <2>3. Pending(i, key)' => InLobby(key) BY <2>1, ReadsCalls
  <2>4. tick[i].matched = {} BY <2>1 DEF TickRead, Lawful
  <2>5. InLobby(key)' <=> InLobby(key) BY <2>2 DEF InLobby
  <2>6. \A j \in Isolate : j = i BY DEF OneIsolate
  <2> QED BY <1>0, <2>2, <2>3, <2>4, <2>5, <2>6
<1>5. CASE \E i \in Isolate : CreateGame(i)
  <2>1. PICK i \in Isolate : CreateGame(i) BY <1>5
  <2> DEFINE table == Head(tick[i].tables)
  <2>2. /\ UNCHANGED <<joined, faults, lobby>>
        /\ opened' = [k \in Entry |-> opened[k] + IF k \in KeysOf(table) THEN 1 ELSE 0]
    BY <2>1 DEF CreateGame
  <2>3. /\ Pending(i, key)' => Pending(i, key) /\ key \notin KeysOf(table)
        /\ key \in KeysOf(table) => Pending(i, key)
        /\ tick'[i].matched = tick[i].matched \cup KeysOf(table)
    BY <2>1, CreatesCalls
  <2>4. InLobby(key)' <=> InLobby(key) BY <2>2 DEF InLobby
  <2>5. \A j \in Isolate : j = i BY DEF OneIsolate
  <2> HIDE DEF table
  <2>6. opened'[key] = opened[key] + IF key \in KeysOf(table) THEN 1 ELSE 0 BY <2>2
  <2> QED BY <1>0, <2>2, <2>3, <2>4, <2>5, <2>6
<1>6. CASE \E i \in Isolate : RemoveRows(i)
  <2>1. PICK i \in Isolate : RemoveRows(i) BY <1>6
  <2>2. UNCHANGED <<joined, opened, faults>> BY <2>1 DEF RemoveRows
  <2>3. InLobby(key)' /\ key \notin tick'[i].matched => InLobby(key) /\ key \notin tick[i].matched
    <3>1. PICK k \in tick[i].matched :
            /\ lobby' = Only(lobby, {row \in Row : KeyOf(row) \notin {k}})
            /\ tick' = [tick EXCEPT ![i] =
                 [pc |-> tick[i].pc, by |-> tick[i].by, sweeps |-> tick[i].sweeps,
                  tables |-> tick[i].tables, matched |-> tick[i].matched \ {k}, next |-> tick[i].next]]
      BY <2>1, Removes
    <3>2. InLobby(key)' <=> InLobby(key) /\ key # k BY <3>1, LosesRows
    <3>3. tick'[i].matched = tick[i].matched \ {k} BY <3>1 DEF Typed
    <3> QED BY <3>2, <3>3
  <2>4. ~Pending(i, key)' BY <2>1, QuietCalls
  <2>5. \A j \in Isolate : j = i BY DEF OneIsolate
  <2> QED BY <1>0, <2>2, <2>3, <2>4, <2>5
<1>7. CASE \E i \in Isolate : TickSave(i) \/ CreateFails(i)
  <2>1. PICK i \in Isolate : TickSave(i) \/ CreateFails(i) BY <1>7
  <2>2. UNCHANGED <<joined, opened, lobby>> /\ faults = 0 /\ TickSave(i)
    BY <2>1 DEF TickSave, CreateFails, Typed
  <2>3. tick[i].matched = {} BY <2>2 DEF TickSave
  <2>4. ~Pending(i, key)' BY <2>1, QuietCalls
  <2>5. InLobby(key)' <=> InLobby(key) BY <2>2 DEF InLobby
  <2>6. \A j \in Isolate : j = i BY DEF OneIsolate
  <2> QED BY <1>0, <2>2, <2>3, <2>4, <2>5, <2>6
<1>8. \/ UNCHANGED <<joined, opened, faults, lobby, tick>>
      \/ \E r \in Request : InsertRow(r)
      \/ \E k \in Entry : Leave(k)
      \/ \E i \in Isolate : TickRead(i) \/ CreateGame(i) \/ RemoveRows(i) \/ TickSave(i) \/ CreateFails(i)
  BY DEF Next, vars, JoinChecked, RequestStep, InsertClash, SpendJoin, CronFires, TickStep, GameEnds
<1> QED BY <1>1, <1>2, <1>3, <1>4, <1>5, <1>6, <1>7, <1>8

LEMMA NotOverloadedStep ==
  ASSUME NoHouseEntrant, OneIsolate, Typed, Lawful, NotOverloaded, [Next]_vars
  PROVE  NotOverloaded'
<1> SUFFICES ASSUME NEW h \in House, Roster[<<"agent", h>>] # None PROVE Bears(h)'
  BY DEF NotOverloaded
<1> USE DEF Bears
<1>0. /\ LiveGames(h) \in Nat /\ HouseConcurrency \in Nat /\ Bears(h)
  BY LiveCount, MatchmakingAssumption DEF NotOverloaded
<1>1. CASE UNCHANGED <<games, tick>>
  <2>1. LiveGames(h)' = LiveGames(h) BY <1>1 DEF LiveGames
  <2>2. \A i \in Isolate : Called(i, h)' <=> Called(i, h) BY <1>1 DEF Called
  <2> QED BY <1>0, <2>1, <2>2
<1>2. CASE \E i \in Isolate : TickRead(i)
  <2>1. PICK i \in Isolate : TickRead(i) BY <1>2
  <2>2. LiveGames(h)' = LiveGames(h) BY <2>1 DEF TickRead, LiveGames
  <2>3. Called(i, h)' => LiveGames(h) < HouseConcurrency BY <2>1, ReadsCalls
  <2>4. \A j \in Isolate : j = i BY DEF OneIsolate
  <2> QED BY <1>0, <2>2, <2>3, <2>4
<1>3. CASE \E i \in Isolate : CreateGame(i)
  <2>1. PICK i \in Isolate : CreateGame(i) BY <1>3
  <2> DEFINE table == Head(tick[i].tables)
             g == [queue |-> table.queue, seats |-> table.seats]
  <2>2. /\ Called(i, h)' => Called(i, h) /\ h \notin HouseAt(table)
        /\ h \in HouseAt(table) => Called(i, h)
        /\ games' = Append(games, g)
    BY <2>1, CreatesCalls
  <2>3. Seated(g) = Seated(table)
    <3>1. g.seats = table.seats OBVIOUS
    <3> HIDE DEF g, table
    <3> QED BY <3>1 DEF Seated
  <2>4. h \in Seated(g) <=> h \in HouseAt(table) BY <2>3 DEF HouseAt
  <2>5. \A j \in Isolate : j = i BY DEF OneIsolate
  <2> HIDE DEF g, table
  <2>6. LiveGames(h)' = IF h \in HouseAt(table) THEN LiveGames(h) + 1 ELSE LiveGames(h)
    BY <2>2, <2>4, LiveOpens
  <2> QED BY <1>0, <2>2, <2>5, <2>6
<1>4. CASE \E i \in Isolate : RemoveRows(i) \/ TickSave(i) \/ CreateFails(i)
  <2>1. PICK i \in Isolate : RemoveRows(i) \/ TickSave(i) \/ CreateFails(i) BY <1>4
  <2>2. LiveGames(h)' = LiveGames(h) BY <2>1 DEF RemoveRows, TickSave, CreateFails, LiveGames
  <2>3. ~Called(i, h)' BY <2>1, QuietCalls
  <2>4. \A j \in Isolate : j = i BY DEF OneIsolate
  <2> QED BY <1>0, <2>2, <2>3, <2>4
<1>5. CASE \E n \in 1 .. MaxJoins : GameEnds(n)
  <2>1. PICK n \in DOMAIN games : games' = RemoveAt(games, n) BY <1>5 DEF GameEnds
  <2>2. LiveGames(h)' <= LiveGames(h) /\ LiveGames(h)' \in Nat BY <2>1, LiveEnds
  <2>3. UNCHANGED tick BY <1>5 DEF GameEnds
  <2>4. \A i \in Isolate : Called(i, h)' <=> Called(i, h) BY <2>3 DEF Called
  <2> QED BY <1>0, <2>2, <2>4
<1>6. \/ UNCHANGED <<games, tick>>
      \/ \E i \in Isolate : TickRead(i) \/ CreateGame(i) \/ RemoveRows(i) \/ TickSave(i) \/ CreateFails(i)
      \/ \E n \in 1 .. MaxJoins : GameEnds(n)
  BY DEF Next, vars, JoinChecked, RequestStep, InsertRow, InsertClash, SpendJoin, Leave, CronFires, TickStep
<1> QED BY <1>1, <1>2, <1>3, <1>4, <1>5, <1>6

LEMMA InitOnce == Init => SeatsOnce /\ NotOverloaded
<1> SUFFICES ASSUME Init PROVE SeatsOnce /\ NotOverloaded
  OBVIOUS
<1>1. games = <<>> /\ lobby = <<>> /\ \A i \in Isolate : tick[i].tables = <<>>
  BY DEF Init, NoTick
<1>2. /\ \A key : ~InLobby(key) /\ \A i \in Isolate : ~Pending(i, key)
      /\ \A h : \A i \in Isolate : ~Called(i, h)
  BY <1>1, EmptyTables DEF InLobby, Pending, Called
<1>3. \A key \in Entry : opened[key] = 0 /\ joined[key] = 0 BY DEF Init
<1>4. \A h : LiveGames(h) = 0
  <2>1. \A h : At(games, h) = {} BY <1>1, EmptyTables DEF At
  <2> QED BY <2>1, InitTyped, LiveCount, FS_EmptySet
<1>5. HouseConcurrency \in Nat BY MatchmakingAssumption
<1> QED BY <1>2, <1>3, <1>4, <1>5 DEF SeatsOnce, Owed, NotOverloaded, Bears

\* As long as no game failed to be created, one isolate's sweeps, joins, leaves and
\* rejoins open no more games for an entrant than it has joined.
THEOREM JoinsSeatOnce == ASSUME NoHouseEntrant, OneIsolate PROVE Spec => []SweepsSeatOnce
<1> DEFINE All == Inv /\ SeatsOnce
<1>1. Init => All BY InitInv, InitOnce
<1>2. All /\ [Next]_vars => All' BY NextTyped, NextLawful, SeatsOnceStep DEF Inv
<1>3. All => SweepsSeatOnce BY DEF SeatsOnce, Owed, SweepsSeatOnce, OneGamePerJoin
<1> HIDE DEF All
<1> QED BY <1>1, <1>2, <1>3, PTL DEF Spec

\* No rostered house agent plays more games than houseConcurrency, although a
\* sweep counts the games once and opens its tables one by one.
THEOREM HouseCanPlay == ASSUME NoHouseEntrant, OneIsolate PROVE Spec => []HouseNotOverloaded
<1> DEFINE All == Inv /\ NotOverloaded
<1>1. Init => All BY InitInv, InitOnce
<1>2. All /\ [Next]_vars => All' BY NextTyped, NextLawful, NotOverloadedStep DEF Inv
<1>3. All => HouseNotOverloaded BY DEF NotOverloaded, Bears, HouseNotOverloaded
<1> HIDE DEF All
<1> QED BY <1>1, <1>2, <1>3, PTL DEF Spec

=============================================================================
