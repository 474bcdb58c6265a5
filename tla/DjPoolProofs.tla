----------------------------- MODULE DjPoolProofs -----------------------------
(* What the pool keeps, for any lanes, cues, depth, chunk and window, and any *)
(* number of reports, replans, commands, deliveries lost and songs played.    *)
EXTENDS DjPool, FiniteSetTheorems, WellFoundedInduction, TLAPS

-----------------------------------------------------------------------------
(* Sequences without some of their members *)

LEMMA LeastNat ==
  ASSUME NEW T, T \subseteq Nat, T # {}
  PROVE  \E x \in T : \A y \in T : x <= y
<1>1. IsWellFoundedOn(OpToRel(<, Nat), Nat)
  BY NatLessThanWellFounded
<1>2. PICK x \in T : \A y \in T : ~(<<y, x>> \in OpToRel(<, Nat))
  BY <1>1, WFMin
<1>3. \A y \in T : ~(y < x)
  BY <1>2 DEF OpToRel
<1> QED
  BY <1>3

\* Function f holds what the first 0, 1, ... n members of s leave without S.
KeptTo(s, S, f, n) ==
  /\ f \in [0 .. n -> Seq(Tracks)]
  /\ f[0] = <<>>
  /\ \A k \in 1 .. n :
       f[k] = IF s[k] \in S THEN f[k - 1] ELSE Append(f[k - 1], s[k])

LEMMA KeptExists ==
  ASSUME NEW s \in Seq(Tracks), NEW S
  PROVE  \E f : KeptTo(s, S, f, Len(s))
<1> DEFINE Bad == {n \in 0 .. Len(s) : ~ \E f : KeptTo(s, S, f, n)}
<1>1. Len(s) \in Nat
  OBVIOUS
<1>2. ASSUME NEW n \in Bad, \A m \in Bad : n <= m
      PROVE  FALSE
  <2>1. CASE n = 0
    <3> DEFINE g == [k \in 0 .. 0 |-> <<>>]
    <3>1. g \in [0 .. 0 -> Seq(Tracks)] /\ g[0] = <<>>
      OBVIOUS
    <3>2. \A k \in 1 .. 0 : FALSE
      OBVIOUS
    <3>3. KeptTo(s, S, g, 0)
      BY <3>1, <3>2 DEF KeptTo
    <3> QED
      BY <2>1, <3>3
  <2>2. CASE n # 0
    <3>1. n \in 1 .. Len(s) /\ n - 1 \in 0 .. Len(s) /\ n - 1 \notin Bad
      BY <1>1, <1>2, <2>2
    <3>2. PICK f : KeptTo(s, S, f, n - 1)
      BY <3>1
    <3> DEFINE next == IF s[n] \in S THEN f[n - 1] ELSE Append(f[n - 1], s[n])
               g == [k \in 0 .. n |-> IF k = n THEN next ELSE f[k]]
    <3>3. f \in [0 .. n - 1 -> Seq(Tracks)] /\ f[n - 1] \in Seq(Tracks) /\ s[n] \in Tracks
      <4>1. f \in [0 .. n - 1 -> Seq(Tracks)]
        BY <3>2 DEF KeptTo
      <4>2. n - 1 \in 0 .. n - 1
        BY <3>1
      <4>3. s[n] \in Tracks
        BY <3>1
      <4> QED
        BY <4>1, <4>2, <4>3
    <3>4. next \in Seq(Tracks)
      BY <3>3
    <3> HIDE DEF next
    <3>5. g \in [0 .. n -> Seq(Tracks)] /\ g[0] = f[0] /\ g[n] = next
          /\ \A k \in 0 .. n - 1 : g[k] = f[k]
      BY <3>1, <3>3, <3>4
    <3> HIDE DEF g
    <3>6. g[0] = <<>>
      BY <3>2, <3>5 DEF KeptTo
    <3>7. ASSUME NEW k \in 1 .. n
          PROVE  g[k] = IF s[k] \in S THEN g[k - 1] ELSE Append(g[k - 1], s[k])
      <4>1. CASE k = n
        <5>1. g[n - 1] = f[n - 1]
          BY <3>1, <3>5
        <5> QED
          BY <3>5, <4>1, <5>1 DEF next
      <4>2. CASE k # n
        <5>1. k \in 1 .. n - 1 /\ k \in 0 .. n - 1 /\ k - 1 \in 0 .. n - 1
          BY <3>1, <3>7, <4>2
        <5>2. g[k] = f[k] /\ g[k - 1] = f[k - 1]
          BY <3>5, <5>1
        <5> QED
          BY <3>2, <5>1, <5>2 DEF KeptTo
      <4> QED
        BY <4>1, <4>2
    <3>8. KeptTo(s, S, g, n)
      BY <3>5, <3>6, <3>7 DEF KeptTo
    <3> QED
      BY <3>8
  <2> QED
    BY <2>1, <2>2
<1>3. Bad \subseteq Nat
  BY <1>1
<1>4. Bad = {}
  BY <1>2, <1>3, LeastNat
<1> QED
  BY <1>1, <1>4

LEMMA WithoutIsKept ==
  ASSUME NEW s \in Seq(Tracks), NEW S
  PROVE  \E f : KeptTo(s, S, f, Len(s)) /\ Without(s, S) = f[Len(s)]
<1> DEFINE Rule(f, n) == IF n = 0 THEN <<>>
                         ELSE IF s[n] \in S THEN f[n - 1] ELSE Append(f[n - 1], s[n])
           kept == CHOOSE f : f = [n \in 0 .. Len(s) |-> Rule(f, n)]
<1>1. PICK f : KeptTo(s, S, f, Len(s))
  BY KeptExists
<1>2. f = [n \in 0 .. Len(s) |-> Rule(f, n)]
  <2>1. ASSUME NEW n \in 0 .. Len(s)
        PROVE  f[n] = Rule(f, n)
    <3>1. n = 0 \/ n \in 1 .. Len(s)
      OBVIOUS
    <3>2. n \in 1 .. Len(s) => n # 0
      OBVIOUS
    <3> QED
      BY <1>1, <3>1, <3>2 DEF KeptTo
  <2>2. f = [n \in 0 .. Len(s) |-> f[n]]
    BY <1>1 DEF KeptTo
  <2> HIDE DEF Rule
  <2> QED
    BY <2>1, <2>2
<1>3. kept = [n \in 0 .. Len(s) |-> Rule(kept, n)]
  BY <1>2
<1>4. Without(s, S) = kept[Len(s)]
  BY DEF Without
<1> HIDE DEF kept
<1>5. ASSUME NEW n \in 0 .. Len(s)
      PROVE  kept[n] = Rule(kept, n) /\ f[n] = Rule(f, n)
  <2> HIDE DEF Rule
  <2> QED
    BY <1>2, <1>3
<1> DEFINE Bad == {n \in 0 .. Len(s) : kept[n] # f[n]}
<1>6. ASSUME NEW n \in Bad, \A m \in Bad : n <= m
      PROVE  FALSE
  <2>1. CASE n = 0
    BY <1>5, <2>1
  <2>2. CASE n # 0
    <3>1. n - 1 \in 0 .. Len(s) /\ n - 1 \notin Bad
      BY <1>6, <2>2
    <3>2. kept[n - 1] = f[n - 1]
      BY <3>1
    <3> QED
      BY <1>5, <2>2, <3>2
  <2> QED
    BY <2>1, <2>2
<1>7. Bad \subseteq Nat
  OBVIOUS
<1>8. Bad = {}
  BY <1>6, <1>7, LeastNat
<1>9. Len(s) \in 0 .. Len(s)
  OBVIOUS
<1>10. kept[Len(s)] = f[Len(s)]
  BY <1>8, <1>9
<1> QED
  BY <1>1, <1>4, <1>10

\* What f[k] holds is what the first k members of s leave, in their order.
Holds(s, S, f, k) ==
  /\ \A i \in DOMAIN f[k] : f[k][i] \notin S /\ \E j \in 1 .. k : f[k][i] = s[j]
  /\ \A j \in 1 .. k : s[j] \notin S => \E i \in DOMAIN f[k] : f[k][i] = s[j]
  /\ IsInjective(s) => IsInjective(f[k])
  /\ Len(f[k]) <= k
  /\ \A m \in 0 .. k : (\A j \in 1 .. m : s[j] \in S) => Len(f[k]) <= k - m

LEMMA HoldsNext ==
  ASSUME NEW s \in Seq(Tracks), NEW S, NEW f, KeptTo(s, S, f, Len(s)),
         NEW k \in 1 .. Len(s), Holds(s, S, f, k - 1)
  PROVE  Holds(s, S, f, k)
<1>1. f[k - 1] \in Seq(Tracks) /\ f[k] \in Seq(Tracks) /\ s[k] \in Tracks /\ k \in DOMAIN s
  <2>1. k - 1 \in 0 .. Len(s) /\ k \in 0 .. Len(s) /\ k \in DOMAIN s
    OBVIOUS
  <2> QED
    BY <2>1 DEF KeptTo
<1>2. f[k] = IF s[k] \in S THEN f[k - 1] ELSE Append(f[k - 1], s[k])
  BY DEF KeptTo
<1> DEFINE p == f[k - 1]
           q == f[k]
<1>3. /\ \A i \in DOMAIN p : p[i] \notin S /\ \E j \in 1 .. k - 1 : p[i] = s[j]
      /\ \A j \in 1 .. k - 1 : s[j] \notin S => \E i \in DOMAIN p : p[i] = s[j]
      /\ IsInjective(s) => IsInjective(p)
      /\ Len(p) <= k - 1
      /\ \A m \in 0 .. k - 1 : (\A j \in 1 .. m : s[j] \in S) => Len(p) <= k - 1 - m
  BY DEF Holds
<1>4. q = IF s[k] \in S THEN p ELSE Append(p, s[k])
  BY <1>2
<1>5. p \in Seq(Tracks) /\ q \in Seq(Tracks)
  BY <1>1
<1> HIDE DEF p, q
<1>6. s[k] \notin S => /\ Len(q) = Len(p) + 1 /\ DOMAIN q = 1 .. Len(p) + 1
                       /\ q[Len(p) + 1] = s[k]
                       /\ \A i \in 1 .. Len(p) : q[i] = p[i]
                       /\ DOMAIN p = 1 .. Len(p) /\ Len(p) \in Nat
  BY <1>1, <1>4, <1>5
<1>7. \A i \in DOMAIN q : q[i] \notin S /\ \E j \in 1 .. k : q[i] = s[j]
  <2>1. \A j \in 1 .. k - 1 : j \in 1 .. k
    OBVIOUS
  <2>2. CASE s[k] \in S
    BY <1>3, <1>4, <2>1, <2>2
  <2>3. CASE s[k] \notin S
    <3> TAKE i \in DOMAIN q
    <3>1. i \in 1 .. Len(p) \/ i = Len(p) + 1
      BY <1>6, <2>3
    <3>2. k \in 1 .. k
      OBVIOUS
    <3> QED
      BY <1>3, <1>6, <2>1, <2>3, <3>1, <3>2
  <2> QED
    BY <2>2, <2>3
<1>8. \A j \in 1 .. k : s[j] \notin S => \E i \in DOMAIN q : q[i] = s[j]
  <2> SUFFICES ASSUME NEW j \in 1 .. k, s[j] \notin S
               PROVE  \E i \in DOMAIN q : q[i] = s[j]
    OBVIOUS
  <2>1. j = k \/ j \in 1 .. k - 1
    OBVIOUS
  <2>2. CASE s[k] \in S
    BY <1>3, <1>4, <2>1, <2>2
  <2>3. CASE s[k] \notin S
    <3>1. Len(p) + 1 \in DOMAIN q /\ \A i \in DOMAIN p : i \in DOMAIN q /\ q[i] = p[i]
      BY <1>6, <2>3
    <3> QED
      BY <1>3, <1>6, <2>1, <2>3, <3>1
  <2> QED
    BY <2>2, <2>3
<1>9. IsInjective(s) => IsInjective(q)
  <2> SUFFICES ASSUME IsInjective(s)
               PROVE  IsInjective(q)
    OBVIOUS
  <2>1. CASE s[k] \in S
    BY <1>3, <1>4, <2>1
  <2>2. CASE s[k] \notin S
    <3>1. \A i \in DOMAIN p : p[i] # s[k]
      <4> TAKE i \in DOMAIN p
      <4>1. PICK j \in 1 .. k - 1 : p[i] = s[j]
        BY <1>3
      <4>2. j \in DOMAIN s /\ k \in DOMAIN s /\ j # k
        OBVIOUS
      <4> QED
        BY <4>1, <4>2 DEF IsInjective
    <3>2. IsInjective(p)
      BY <1>3
    <3>3. \A a, b \in DOMAIN p : p[a] = p[b] => a = b
      BY <3>2 DEF IsInjective
    <3>4. \A a \in DOMAIN q : a \in DOMAIN p \/ a = Len(p) + 1
      BY <1>6, <2>2
    <3>5. \A a, b \in DOMAIN q : q[a] = q[b] => a = b
      BY <1>6, <2>2, <3>1, <3>3, <3>4
    <3> QED
      BY <3>5 DEF IsInjective
  <2> QED
    BY <2>1, <2>2
<1>10. Len(p) \in Nat /\ Len(q) <= Len(p) + 1 /\ (s[k] \in S => Len(q) = Len(p))
  BY <1>4, <1>5, <1>6
<1>11. Len(q) <= k
  BY <1>3, <1>10
<1>12. ASSUME NEW m \in 0 .. k, \A j \in 1 .. m : s[j] \in S
       PROVE  Len(q) <= k - m
  <2>1. CASE m = k
    <3>1. k - 1 \in 0 .. k - 1 /\ k \in 1 .. m /\ \A j \in 1 .. k - 1 : j \in 1 .. m
      BY <2>1
    <3>2. s[k] \in S /\ \A j \in 1 .. k - 1 : s[j] \in S
      BY <1>12, <3>1
    <3>3. Len(p) <= k - 1 - (k - 1)
      BY <1>3, <3>1, <3>2
    <3> QED
      BY <1>10, <2>1, <3>2, <3>3
  <2>2. CASE m # k
    <3>1. m \in 0 .. k - 1
      BY <2>2
    <3>2. Len(p) <= k - 1 - m
      BY <1>3, <1>12, <3>1
    <3> QED
      BY <1>10, <3>1, <3>2
  <2> QED
    BY <2>1, <2>2
<1> QED
  BY <1>7, <1>8, <1>9, <1>11, <1>12 DEF Holds, q

LEMMA HoldsToEnd ==
  ASSUME NEW s \in Seq(Tracks), NEW S, NEW f, KeptTo(s, S, f, Len(s))
  PROVE  Holds(s, S, f, Len(s))
<1> DEFINE Bad == {n \in 0 .. Len(s) : ~Holds(s, S, f, n)}
<1>1. ASSUME NEW n \in Bad, \A m \in Bad : n <= m
      PROVE  FALSE
  <2>1. CASE n = 0
    <3>1. f[0] = <<>> /\ Len(<<>>) = 0 /\ DOMAIN (<<>>) = {}
      BY DEF KeptTo
    <3>2. (\A m \in 0 .. 0 : m = 0) /\ 0 - 0 = 0 /\ 1 .. 0 = {}
      OBVIOUS
    <3>3. Holds(s, S, f, 0)
      BY <3>1, <3>2 DEF Holds, IsInjective
    <3> QED
      BY <2>1, <3>3
  <2>2. CASE n # 0
    <3>1. n \in 1 .. Len(s) /\ n - 1 \in 0 .. Len(s) /\ n - 1 \notin Bad
      BY <1>1, <2>2
    <3> QED
      BY <3>1, HoldsNext
  <2> QED
    BY <2>1, <2>2
<1>2. Bad \subseteq Nat
  OBVIOUS
<1>3. Bad = {}
  BY <1>1, <1>2, LeastNat
<1>4. Len(s) \in 0 .. Len(s)
  OBVIOUS
<1> QED
  BY <1>3, <1>4

\* What is left is without S, and all the rest of s, in its order: nothing twice
\* that s has once, and shorter by every member of S that s begins with.
LEMMA WithoutDoes ==
  ASSUME NEW s \in Seq(Tracks), NEW S
  PROVE  /\ Without(s, S) \in Seq(Tracks)
         /\ ToSet(Without(s, S)) = ToSet(s) \ S
         /\ IsInjective(s) => IsInjective(Without(s, S))
         /\ Len(Without(s, S)) <= Len(s)
         /\ \A m \in 0 .. Len(s) :
              (\A j \in 1 .. m : s[j] \in S) => Len(Without(s, S)) <= Len(s) - m
<1>1. PICK f : KeptTo(s, S, f, Len(s)) /\ Without(s, S) = f[Len(s)]
  BY WithoutIsKept
<1>2. Holds(s, S, f, Len(s))
  BY <1>1, HoldsToEnd
<1>3. Without(s, S) \in Seq(Tracks)
  <2>1. Len(s) \in 0 .. Len(s)
    OBVIOUS
  <2> QED
    BY <1>1, <2>1 DEF KeptTo
<1>4. ToSet(Without(s, S)) = ToSet(s) \ S
  <2>1. DOMAIN s = 1 .. Len(s)
    OBVIOUS
  <2>2. ToSet(Without(s, S)) \subseteq ToSet(s) \ S
    BY <1>1, <1>2, <2>1 DEF Holds, ToSet
  <2>3. ToSet(s) \ S \subseteq ToSet(Without(s, S))
    BY <1>1, <1>2, <2>1 DEF Holds, ToSet
  <2> QED
    BY <2>2, <2>3
<1> QED
  BY <1>1, <1>2, <1>3, <1>4 DEF Holds

-----------------------------------------------------------------------------
(* Batches *)

LEMMA SliceDoes ==
  ASSUME NEW s \in Seq(Tracks), NEW a \in Nat, NEW b \in Nat, a <= b, b <= Len(s)
  PROVE  /\ SubSeq(s, a + 1, b) \in Seq(Tracks)
         /\ Len(SubSeq(s, a + 1, b)) = b - a
         /\ \A i \in 1 .. b - a : SubSeq(s, a + 1, b)[i] = s[a + i]
         /\ ToSet(SubSeq(s, a + 1, b)) = {s[j] : j \in a + 1 .. b}
         /\ IsInjective(s) => IsInjective(SubSeq(s, a + 1, b))
<1> DEFINE w == SubSeq(s, a + 1, b)
<1>1. /\ w \in Seq(Tracks) /\ Len(w) = b - a /\ DOMAIN w = 1 .. b - a
      /\ \A i \in 1 .. b - a : w[i] = s[a + i]
  OBVIOUS
<1> HIDE DEF w
<1>2. ToSet(w) = {s[j] : j \in a + 1 .. b}
  <2>1. \A i \in 1 .. b - a : a + i \in a + 1 .. b
    OBVIOUS
  <2>2. \A j \in a + 1 .. b : j - a \in 1 .. b - a /\ a + (j - a) = j
    OBVIOUS
  <2>3. ToSet(w) \subseteq {s[j] : j \in a + 1 .. b}
    BY <1>1, <2>1 DEF ToSet
  <2>4. \A j \in a + 1 .. b : s[j] = w[j - a] /\ j - a \in DOMAIN w
    BY <1>1, <2>2
  <2>5. {s[j] : j \in a + 1 .. b} \subseteq ToSet(w)
    BY <2>4 DEF ToSet
  <2> QED
    BY <2>3, <2>5
<1>3. IsInjective(s) => IsInjective(w)
  <2> SUFFICES ASSUME IsInjective(s), NEW i \in DOMAIN w, NEW k \in DOMAIN w, w[i] = w[k]
               PROVE  i = k
    BY DEF IsInjective
  <2>1. a + i \in DOMAIN s /\ a + k \in DOMAIN s /\ s[a + i] = s[a + k]
    BY <1>1
  <2>2. a + i = a + k
    BY <2>1 DEF IsInjective
  <2> QED
    BY <1>1, <2>2
<1> QED
  BY <1>1, <1>2, <1>3 DEF w

\* How much of n songs the first k chunks hold.
Upto(n, k) == IF k * Chunk < n THEN k * Chunk ELSE n

LEMMA UptoDoes ==
  ASSUME NEW n \in Nat
  PROVE  /\ (n + Chunk - 1) \div Chunk \in Nat
         /\ n > 0 => (n + Chunk - 1) \div Chunk >= 1
         /\ n = 0 => (n + Chunk - 1) \div Chunk = 0
         /\ \A k \in 1 .. (n + Chunk - 1) \div Chunk :
              /\ (k - 1) * Chunk \in Nat /\ (k - 1) * Chunk < n
              /\ Upto(n, k - 1) = (k - 1) * Chunk
              /\ Upto(n, k) \in Nat /\ (k - 1) * Chunk <= Upto(n, k) /\ Upto(n, k) <= n
         /\ Upto(n, 0) = 0
<1> DEFINE N == (n + Chunk - 1) \div Chunk
<1>1. Chunk \in Nat /\ Chunk > 0
  BY PoolAssumption
<1>2. n + Chunk - 1 \in Nat
  BY <1>1
<1>3. N \in Nat /\ Chunk * N <= n + Chunk - 1 /\ n + Chunk - 1 < Chunk * N + Chunk
  BY <1>1, <1>2
<1> HIDE DEF N
<1>4. n > 0 => N >= 1
  <2>1. N = 0 => Chunk * N = 0
    BY <1>1
  <2> QED
    BY <1>1, <1>3, <2>1
<1>5. n = 0 => N = 0
  <2>1. N >= 1 => Chunk * N >= Chunk
    BY <1>1, <1>3
  <2> QED
    BY <1>1, <1>3, <2>1
<1>6. ASSUME NEW k \in 1 .. N
      PROVE  /\ (k - 1) * Chunk \in Nat /\ (k - 1) * Chunk < n
             /\ Upto(n, k - 1) = (k - 1) * Chunk
             /\ Upto(n, k) \in Nat /\ (k - 1) * Chunk <= Upto(n, k) /\ Upto(n, k) <= n
  <2>1. k - 1 \in Nat /\ (k - 1) * Chunk \in Nat /\ k * Chunk \in Nat
        /\ k * Chunk = (k - 1) * Chunk + Chunk
    BY <1>1, <1>3
  <2>2. k * Chunk <= N * Chunk /\ N * Chunk = Chunk * N
    BY <1>1, <1>3
  <2>3. (k - 1) * Chunk < n
    BY <1>1, <1>3, <2>1, <2>2
  <2> QED
    BY <1>1, <2>1, <2>3 DEF Upto
<1>7. Upto(n, 0) = 0
  BY <1>1 DEF Upto
<1> QED
  BY <1>3, <1>4, <1>5, <1>6, <1>7 DEF N

\* Chunks of ids: each a part of ids, the first to do op and the rest to add.
LEMMA ChunksDo ==
  ASSUME NEW op \in Ops, NEW ids \in Seq(Tracks)
  PROVE  /\ Chunks(op, ids) \in Seq(Batch)
         /\ Len(Chunks(op, ids)) = (Len(ids) + Chunk - 1) \div Chunk
         /\ \A k \in DOMAIN Chunks(op, ids) :
              /\ Chunks(op, ids)[k].op = IF k = 1 THEN op ELSE "queue"
              /\ ToSet(Chunks(op, ids)[k].ids) \subseteq ToSet(ids)
              /\ IsInjective(ids) => IsInjective(Chunks(op, ids)[k].ids)
              /\ Len(Chunks(op, ids)[k].ids) = Upto(Len(ids), k) - Upto(Len(ids), k - 1)
<1> DEFINE n == Len(ids)
           N == (n + Chunk - 1) \div Chunk
           Part(k) == SubSeq(ids, (k - 1) * Chunk + 1, Upto(n, k))
           C == Chunks(op, ids)
<1>1. n \in Nat /\ Chunk \in Nat /\ Chunk > 0
  BY PoolAssumption
<1>2. N \in Nat
  BY <1>1, UptoDoes
<1>3. ASSUME NEW k \in 1 .. N
      PROVE  /\ Part(k) \in Seq(Tracks) /\ ToSet(Part(k)) \subseteq ToSet(ids)
             /\ IsInjective(ids) => IsInjective(Part(k))
             /\ Len(Part(k)) = Upto(n, k) - Upto(n, k - 1)
  <2> DEFINE a == (k - 1) * Chunk
             b == Upto(n, k)
  <2>1. a \in Nat /\ b \in Nat /\ a <= b /\ b <= n /\ Upto(n, k - 1) = a
    BY <1>1, UptoDoes
  <2> HIDE DEF a, b, N
  <2>2. /\ SubSeq(ids, a + 1, b) \in Seq(Tracks)
        /\ Len(SubSeq(ids, a + 1, b)) = b - a
        /\ ToSet(SubSeq(ids, a + 1, b)) = {ids[j] : j \in a + 1 .. b}
        /\ IsInjective(ids) => IsInjective(SubSeq(ids, a + 1, b))
    BY <2>1, SliceDoes
  <2>3. {ids[j] : j \in a + 1 .. b} \subseteq ToSet(ids)
    <3>1. \A j \in a + 1 .. b : j \in DOMAIN ids
      BY <2>1
    <3> QED
      BY <3>1 DEF ToSet
  <2> QED
    BY <2>1, <2>2, <2>3 DEF a, b
<1>4. C = [k \in 1 .. N |-> [op |-> IF k = 1 THEN op ELSE "queue", ids |-> Part(k)]]
  BY DEF Chunks, Upto
<1> HIDE DEF Part, N
<1>5. \A k \in 1 .. N : C[k] = [op |-> IF k = 1 THEN op ELSE "queue", ids |-> Part(k)]
  BY <1>4
<1>6. "queue" \in Ops
  BY DEF Ops
<1>7. ASSUME NEW k \in 1 .. N
      PROVE  C[k] \in Batch
  <2>1. (IF k = 1 THEN op ELSE "queue") \in Ops
    BY <1>6
  <2>2. Part(k) \in Seq(Tracks)
    BY <1>3
  <2>3. \A o \in Ops, p \in Seq(Tracks) : [op |-> o, ids |-> p] \in Batch
    BY DEF Batch
  <2>4. [op |-> IF k = 1 THEN op ELSE "queue", ids |-> Part(k)] \in Batch
    BY <2>1, <2>2, <2>3
  <2> QED
    BY <1>5, <2>4
<1>8. DOMAIN C = 1 .. N
  BY <1>4
<1> HIDE DEF C
<1>9. C \in [1 .. N -> Batch]
  <2>1. C = [k \in 1 .. N |-> C[k]]
    BY <1>4, <1>5
  <2> QED
    BY <1>7, <2>1
<1>10. C \in Seq(Batch) /\ Len(C) = N
  BY <1>2, <1>8, <1>9
<1>11. \A k \in DOMAIN C :
         /\ C[k].op = IF k = 1 THEN op ELSE "queue"
         /\ ToSet(C[k].ids) \subseteq ToSet(ids)
         /\ IsInjective(ids) => IsInjective(C[k].ids)
         /\ Len(C[k].ids) = Upto(Len(ids), k) - Upto(Len(ids), k - 1)
  BY <1>3, <1>5, <1>8
<1> QED
  BY <1>10, <1>11 DEF C, N

Handlers == {"top_up", "replan"}

\* What a handler sends: a replan's first batch replaces, all others add; they
\* hold nothing but its picks and its cues' songs, and none has a song twice.
LEMMA BatchesDo ==
  ASSUME NEW h \in Handlers, NEW j \in Job, j.picks # <<>>,
         IsInjective(j.picks), IsInjective(j.cues)
  PROVE  /\ Batches(h, j) \in Seq(Batch) /\ Batches(h, j) # <<>>
         /\ \A k \in DOMAIN Batches(h, j) :
              /\ IsInjective(Batches(h, j)[k].ids)
              /\ ToSet(Batches(h, j)[k].ids) \subseteq ToSet(j.picks) \cup ToSet(j.cues)
              /\ (Batches(h, j)[k].op = "replace_upcoming") <=> (h = "replan" /\ k = 1)
<1>1. j.picks \in Seq(Tracks) /\ j.cues \in Seq(Tracks)
  BY DEF Job
<1> DEFINE B == Batches(h, j)
<1>2. CASE h = "replan"
  <2>1. B = Chunks("replace_upcoming", j.picks)
    BY <1>2 DEF Batches
  <2>2. Len(j.picks) > 0 /\ Len(j.picks) \in Nat
    BY <1>1
  <2>3. Len(B) >= 1
    BY <1>1, <2>1, <2>2, ChunksDo, UptoDoes DEF Ops
  <2>4. /\ B \in Seq(Batch)
        /\ \A k \in DOMAIN B :
             /\ B[k].op = IF k = 1 THEN "replace_upcoming" ELSE "queue"
             /\ ToSet(B[k].ids) \subseteq ToSet(j.picks)
             /\ IsInjective(B[k].ids)
    BY <1>1, <2>1, ChunksDo DEF Ops
  <2> HIDE DEF B
  <2>5. B # <<>>
    BY <2>3, <2>4
  <2>6. \A k \in DOMAIN B :
          /\ IsInjective(B[k].ids)
          /\ ToSet(B[k].ids) \subseteq ToSet(j.picks) \cup ToSet(j.cues)
          /\ (B[k].op = "replace_upcoming") <=> (h = "replan" /\ k = 1)
    BY <1>2, <2>4
  <2> QED
    BY <2>4, <2>5, <2>6 DEF B
<1>3. CASE h = "top_up"
  <2> DEFINE w == Without(j.picks, ToSet(j.cues))
             rest == Chunks("queue", w)
             cue == [op |-> "play_next", ids |-> j.cues]
             first == IF j.cues = <<>> THEN <<>> ELSE <<cue>>
  <2>1. w \in Seq(Tracks) /\ ToSet(w) = ToSet(j.picks) \ ToSet(j.cues) /\ IsInjective(w)
    BY <1>1, WithoutDoes
  <2>2. B = first \o rest
    BY <1>3 DEF Batches
  <2> HIDE DEF w
  <2>3. /\ rest \in Seq(Batch) /\ Len(rest) = (Len(w) + Chunk - 1) \div Chunk
        /\ \A k \in DOMAIN rest :
             /\ rest[k].op = "queue"
             /\ ToSet(rest[k].ids) \subseteq ToSet(w)
             /\ IsInjective(rest[k].ids)
    BY <2>1, ChunksDo DEF Ops
  <2> HIDE DEF rest
  <2>4. cue \in Batch /\ cue.ids = j.cues /\ cue.op = "play_next"
    BY <1>1 DEF Batch, Ops
  <2> HIDE DEF cue
  <2>5. first \in Seq(Batch)
    BY <2>4
  <2>6. /\ B \in Seq(Batch) /\ Len(B) = Len(first) + Len(rest)
        /\ \A k \in DOMAIN B : \/ k \in DOMAIN first /\ B[k] = first[k]
                               \/ k - Len(first) \in DOMAIN rest
                                  /\ B[k] = rest[k - Len(first)]
    BY <2>2, <2>3, <2>5
  <2>7. \A k \in DOMAIN first : first[k] = cue
    BY <2>4
  <2>8. B # <<>>
    <3>1. CASE j.cues = <<>>
      <4>1. ToSet(j.cues) = {}
        BY <3>1 DEF ToSet
      <4>2. j.picks[1] \in ToSet(w)
        <5>1. 1 \in DOMAIN j.picks
          BY <1>1
        <5>2. j.picks[1] \in ToSet(j.picks)
          BY <5>1 DEF ToSet
        <5> QED
          BY <2>1, <4>1, <5>2
      <4>3. w # <<>> /\ Len(w) \in Nat
        BY <2>1, <4>2 DEF ToSet
      <4>4. Len(w) > 0
        BY <2>1, <4>3
      <4>5. Len(rest) >= 1
        BY <2>3, <4>3, <4>4, UptoDoes
      <4> QED
        BY <2>3, <2>5, <2>6, <4>5
    <3>2. CASE j.cues # <<>>
      <4>1. Len(first) = 1
        BY <3>2
      <4> QED
        BY <2>3, <2>6, <4>1
    <3> QED
      BY <3>1, <3>2
  <2> HIDE DEF first, B
  <2>9. \A k \in DOMAIN B :
          /\ IsInjective(B[k].ids)
          /\ ToSet(B[k].ids) \subseteq ToSet(j.picks) \cup ToSet(j.cues)
          /\ B[k].op # "replace_upcoming"
    BY <2>1, <2>3, <2>4, <2>6, <2>7
  <2> QED
    BY <1>3, <2>6, <2>8, <2>9 DEF B
<1> QED
  BY <1>2, <1>3 DEF Handlers

-----------------------------------------------------------------------------
(* Type correctness *)

Seen == [blind: BOOLEAN, crossed: BOOLEAN, left: BOOLEAN, asked: SUBSET Tracks,
         asks: Nat]

\* A report is of a phone that plays something; who has to send has what to send.
Sound(r) == r.at \in 1 .. Len(r.queue)

Steady ==
  /\ report = NoReport \/ Sound(report)
  /\ job["top_up"].step = "sampled" => Sound(job["top_up"].sample)
  /\ \A h \in Handlers : job[h].step = "sending" => job[h].batches # <<>>

Types == TypeOK /\ Steady

LEMMA ReportDoes ==
  ASSUME NEW r \in Report, Sound(r)
  PROVE  /\ Playing(r) \in Tracks
         /\ After(r) \in Seq(Tracks) /\ Before(r) \in Seq(Tracks)
         /\ Len(After(r)) = Len(r.queue) - r.at
         /\ ToSet(After(r)) = {r.queue[i] : i \in r.at + 1 .. Len(r.queue)}
<1>1. r.queue \in Seq(Tracks) /\ r.at \in Nat /\ r.at \in 1 .. Len(r.queue)
  BY DEF Report, Sound
<1>2. Playing(r) \in Tracks
  BY <1>1 DEF Playing
<1>3. /\ After(r) \in Seq(Tracks) /\ Len(After(r)) = Len(r.queue) - r.at
      /\ ToSet(After(r)) = {r.queue[i] : i \in r.at + 1 .. Len(r.queue)}
  <2>1. r.at <= Len(r.queue) /\ Len(r.queue) \in Nat /\ Len(r.queue) <= Len(r.queue)
    BY <1>1
  <2> QED
    BY <1>1, <2>1, SliceDoes, Zenon DEF After
<1>4. Before(r) \in Seq(Tracks)
  BY <1>1 DEF Before
<1> QED
  BY <1>2, <1>3, <1>4

LEMMA IdleType == Idle \in Job /\ NoReport \in Report
<1>1. NoReport \in Report
  BY DEF NoReport, Report
<1>2. <<>> \in Seq(Tracks) /\ <<>> \in Seq(Batch)
  OBVIOUS
<1> QED
  BY <1>1, <1>2 DEF Idle, Job

\* Job j begins to pick: the cues' songs cp are picked, and as much as is missing.
Starts(j, c, rest, cp) ==
  /\ j \in Job /\ j.step = "picking" /\ j.picks = cp /\ j.cues = cp
  /\ j.batches = <<>> /\ j.cur = c
  /\ j.need \in Nat /\ Len(cp) <= j.need
  /\ \/ j.need = Len(cp)
     \/ Len(rest) < RefillAt /\ j.need = Ahead - Len(rest)

LEMMA StartingDoes ==
  ASSUME NEW c \in Tracks, NEW rest \in Seq(Tracks), NEW inq \in Seq(Tracks),
         NEW hist \in Seq(Tracks), NEW cp \in Seq(Tracks), heard \subseteq Tracks
  PROVE  Starts(Starting(c, rest, inq, hist, cp), c, rest, cp)
<1> DEFINE j == Starting(c, rest, inq, hist, cp)
           queued == inq \o <<c>> \o rest
           blocked == ToSet(queued) \cup heard
           fill == IF Len(rest) >= RefillAt THEN 0 ELSE Ahead - Len(rest)
           need == IF Len(cp) > fill THEN Len(cp) ELSE fill
           past == hist \o Without(queued, ToSet(hist))
<1>1. queued \in Seq(Tracks)
  OBVIOUS
<1> HIDE DEF queued
<1>2. ToSet(queued) \subseteq Tracks /\ ToSet(hist) \subseteq Tracks
  BY <1>1 DEF ToSet
<1>3. past \in Seq(Tracks)
  <2>1. Without(queued, ToSet(hist)) \in Seq(Tracks)
    BY <1>1, WithoutDoes
  <2> QED
    BY <2>1
<1>4. fill \in Nat
  BY PoolAssumption
<1>5. need \in Nat /\ Len(cp) <= need
      /\ (need = Len(cp) \/ (Len(rest) < RefillAt /\ need = Ahead - Len(rest)))
  BY PoolAssumption
<1>6. blocked \subseteq Tracks /\ ToSet(hist) \cup blocked \subseteq Tracks
  BY <1>2
<1>7. j = [Idle EXCEPT !.step = "picking", !.cur = c, !.need = need,
             !.skip = ToSet(hist) \cup blocked, !.bar = blocked, !.past = past,
             !.cues = cp, !.picks = cp]
  BY DEF Starting, queued
<1> HIDE DEF need, fill, past, blocked, j
<1>8. Idle \in Job /\ Idle.batches = <<>>
  BY IdleType DEF Idle
<1>9. /\ j \in Job /\ j.step = "picking" /\ j.picks = cp /\ j.cues = cp
      /\ j.batches = <<>> /\ j.cur = c /\ j.need = need
  <2> DEFINE skips == ToSet(hist) \cup blocked
             k == [Idle EXCEPT !.step = "picking", !.cur = c, !.need = need,
                     !.skip = skips, !.bar = blocked, !.past = past,
                     !.cues = cp, !.picks = cp]
  <2>1. skips \subseteq Tracks /\ blocked \subseteq Tracks
    BY <1>6
  <2>2. j = k
    BY <1>7
  <2> HIDE DEF skips
  <2>3. /\ k \in Job /\ k.step = "picking" /\ k.picks = cp /\ k.cues = cp
        /\ k.batches = <<>> /\ k.cur = c /\ k.need = need
    BY <1>3, <1>5, <1>8, <2>1 DEF Job
  <2> HIDE DEF k
  <2> QED
    BY <2>2, <2>3
<1>10. j.need \in Nat /\ Len(cp) <= j.need
       /\ (j.need = Len(cp) \/ (Len(rest) < RefillAt /\ j.need = Ahead - Len(rest)))
  BY <1>5, <1>9 DEF need, fill
<1> QED
  BY <1>9, <1>10 DEF Starts, j

\* The songs of some cues as the sequence the pool picks: no more than the cues.
LEMMA CuePicks ==
  ASSUME NEW D, D \subseteq Cues
  PROVE  LET s == SetToSeq({q.play : q \in D})
         IN  /\ s \in Seq(Tracks) /\ IsInjective(s)
             /\ ToSet(s) \subseteq {q.play : q \in D}
             /\ IsFiniteSet(D) /\ Len(s) <= Cardinality(D)
<1> DEFINE P == {q.play : q \in D}
           f == [q \in D |-> q.play]
           s == SetToSeq(P)
           n == Cardinality(P)
<1>1. IsFiniteSet(D)
  BY FS_Subset, PoolAssumption
<1>2. f \in Surjection(D, P)
  BY DEF Surjection
<1>3. IsFiniteSet(P) /\ n <= Cardinality(D)
  BY <1>1, <1>2, FS_Surjection
<1>4. P \subseteq Tracks
  BY PoolAssumption
<1> HIDE DEF P
<1>5. n \in Nat /\ ExistsBijection(1 .. n, P)
  BY <1>3, FS_CardinalityType
<1>6. \E g \in [1 .. n -> P] : IsInjective(g)
  BY <1>5 DEF ExistsBijection, Bijection, Injection
<1>7. s \in [1 .. n -> P] /\ IsInjective(s)
  BY <1>6 DEF SetToSeq
<1> HIDE DEF s, n
<1>8. s \in [1 .. n -> Tracks]
  BY <1>4, <1>7
<1>9. s \in Seq(Tracks) /\ Len(s) = n
  BY <1>5, <1>8
<1>10. ToSet(s) \subseteq P
  BY <1>7 DEF ToSet
<1> QED
  BY <1>1, <1>3, <1>7, <1>9, <1>10 DEF P, s, n

LEMMA PickTypes ==
  ASSUME Types, NEW h \in Handlers, NEW l \in Lanes, NEW t \in TracksOf[l], Pick(h, l, t)
  PROVE  Types'
<1>1. TypeOK /\ Steady
  BY DEF Types
<1>2. t \in Tracks /\ job[h] \in Job
  BY <1>1, PoolAssumption DEF TypeOK, Handlers
<1> DEFINE picked == [job[h] EXCEPT !.picks = Append(job[h].picks, t)]
<1>3. /\ picked \in Job /\ picked.step = "picking" /\ job[h].step = "picking"
  <2>1. Append(job[h].picks, t) \in Seq(Tracks)
    BY <1>2 DEF Job
  <2> QED
    BY <1>2, <2>1 DEF Job, Pick
<1>4. job' = [job EXCEPT ![h] = picked]
  BY <1>1 DEF Pick, TypeOK
<1> HIDE DEF picked
<1>5. job' \in [{"top_up", "replan"} -> Job] /\ job'[h] = picked
      /\ \A g \in Handlers : g # h => job'[g] = job[g]
  BY <1>1, <1>3, <1>4 DEF TypeOK, Handlers
<1>6. last' \in [Lanes -> Int] /\ turn' \in Nat
  BY <1>1 DEF Pick, TypeOK
<1>7. Steady'
  BY <1>1, <1>3, <1>5 DEF Steady, Handlers, Pick
<1>8. TypeOK'
  BY <1>1, <1>5, <1>6 DEF TypeOK, Pick, phone
<1> QED
  BY <1>7, <1>8 DEF Types

\* What a handler that has picked is to send.
Sending(B) == [Idle EXCEPT !.step = "sending", !.batches = B]

LEMMA SendingType ==
  ASSUME NEW B \in Seq(Batch)
  PROVE  Sending(B) \in Job /\ Sending(B).step = "sending" /\ Sending(B).batches = B
BY IdleType DEF Sending, Job

\* Neither the cues' songs nor the picks have one twice.
Distinct == \A h \in Handlers : /\ IsInjective(job[h].picks) /\ IsInjective(job[h].cues)
                                /\ \A k \in DOMAIN job[h].batches :
                                     IsInjective(job[h].batches[k].ids)

LEMMA PickedTypes ==
  ASSUME Types, Distinct, NEW h \in Handlers, Picked(h)
  PROVE  Types'
<1>1. TypeOK /\ Steady
  BY DEF Types
<1>2. job[h] \in Job /\ played \in Seq(Tracks) /\ job[h].picks \in Seq(Tracks)
  BY <1>1 DEF TypeOK, Handlers, Job
<1>3. played' \in Seq(Tracks) /\ lastTop' \in Tracks \cup {NoTrack}
  BY <1>2 DEF Picked, Job
<1> DEFINE next == IF job[h].picks = <<>> THEN Idle ELSE Sending(Batches(h, job[h]))
<1>4. next \in Job /\ (next.step = "sending" => next.batches # <<>>) /\ next.step # "sampled"
  <2>1. CASE job[h].picks = <<>>
    BY <2>1, IdleType DEF Idle
  <2>2. CASE job[h].picks # <<>>
    BY <1>2, <2>2, BatchesDo, SendingType DEF Distinct
  <2> QED
    BY <2>1, <2>2
<1>5. job' = [job EXCEPT ![h] = next]
  BY DEF Picked, Sending
<1> HIDE DEF next
<1>6. job' \in [{"top_up", "replan"} -> Job] /\ job'[h] = next
      /\ \A g \in Handlers : g # h => job'[g] = job[g]
  BY <1>1, <1>4, <1>5 DEF TypeOK, Handlers
<1>7. seen' \in Seen
  <2>1. (seen.left \/ (h = "replan" /\ job[h].picks = <<>>)) \in BOOLEAN
    OBVIOUS
  <2> QED
    BY <1>1, <2>1 DEF TypeOK, Seen, Picked
<1>8. Steady'
  BY <1>1, <1>4, <1>6 DEF Steady, Handlers, Picked
<1>9. TypeOK'
  BY <1>1, <1>3, <1>6, <1>7 DEF TypeOK, Picked, phone, Seen
<1> QED
  BY <1>8, <1>9 DEF Types

\* What waits on the bus.
Sent == [op: Ops, ids: Seq(Tracks), late: BOOLEAN]

LEMMA TailDoes ==
  ASSUME NEW S, NEW q \in Seq(S), q # <<>>
  PROVE  /\ Head(q) \in S /\ Head(q) = q[1] /\ 1 \in DOMAIN q
         /\ Tail(q) \in Seq(S) /\ Len(Tail(q)) = Len(q) - 1
         /\ Len(q) \in Nat /\ Len(q) >= 1
         /\ Len(q) = 1 => Tail(q) = <<>>
         /\ Len(q) # 1 => Tail(q) # <<>>
         /\ \A k \in DOMAIN Tail(q) : k + 1 \in DOMAIN q /\ Tail(q)[k] = q[k + 1]
<1> DEFINE t == Tail(q)
<1>1. Len(q) \in Nat /\ Len(q) >= 1 /\ Head(q) = q[1] /\ 1 \in DOMAIN q /\ q[1] \in S
  OBVIOUS
<1>2. t \in Seq(S) /\ Len(t) = Len(q) - 1
  OBVIOUS
<1>3. \A k \in DOMAIN t : k + 1 \in DOMAIN q /\ t[k] = q[k + 1]
  OBVIOUS
<1> HIDE DEF t
<1>4. \A r \in Seq(S) : Len(r) = 0 <=> r = <<>>
  OBVIOUS
<1>5. (Len(q) = 1 => t = <<>>) /\ (Len(q) # 1 => t # <<>>)
  BY <1>1, <1>2, <1>4
<1> QED
  BY <1>1, <1>2, <1>3, <1>5 DEF t

LEMMA EnqueueDoes ==
  ASSUME TypeOK, NEW op \in Ops, NEW ids \in Seq(Tracks), Enqueue(op, ids)
  PROVE  /\ commands' \in Seq(Sent)
         /\ \/ commands' = commands
            \/ commands' = Append(commands, [op |-> op, ids |-> Without(ids, Guarded(op)),
                                             late |-> FALSE])
<1>1. Without(ids, Guarded(op)) \in Seq(Tracks)
  BY WithoutDoes
<1> DEFINE c == [op |-> op, ids |-> Without(ids, Guarded(op)), late |-> FALSE]
<1>2. c \in Sent
  BY <1>1 DEF Sent
<1>3. commands' = commands \/ commands' = Append(commands, c)
  BY DEF Enqueue
<1> HIDE DEF c
<1>4. commands \in Seq(Sent)
  BY DEF TypeOK, Sent
<1>5. commands' \in Seq(Sent)
  BY <1>2, <1>3, <1>4
<1> QED
  BY <1>3, <1>5 DEF c

LEMMA SendTypes ==
  ASSUME Types, NEW h \in Handlers, Send(h)
  PROVE  /\ Types'
         /\ job[h].batches \in Seq(Batch) /\ job[h].batches # <<>>
         /\ job'[h].picks = <<>> \/ job'[h].picks = job[h].picks
         /\ job'[h].cues = <<>> \/ job'[h].cues = job[h].cues
         /\ job'[h].batches = Tail(job[h].batches)
         /\ job'[h] = Idle \/ job'[h].step = "sending"
         /\ \A g \in Handlers : g # h => job'[g] = job[g]
<1> DEFINE todo == job[h].batches
           next == IF Len(todo) = 1 THEN Idle ELSE [job[h] EXCEPT !.batches = Tail(todo)]
<1>1. TypeOK /\ Steady
  BY DEF Types
<1>2. job[h] \in Job /\ todo \in Seq(Batch) /\ todo # <<>> /\ job[h].step = "sending"
  BY <1>1 DEF TypeOK, Handlers, Job, Steady, Send
<1>3. Head(todo) \in Batch
  BY <1>2
<1>4. commands' \in Seq(Sent)
  <2>1. Head(todo).op \in Ops /\ Head(todo).ids \in Seq(Tracks)
    BY <1>3 DEF Batch
  <2>2. Enqueue(Head(todo).op, Head(todo).ids)
    BY DEF Send
  <2> QED
    BY <1>1, <2>1, <2>2, EnqueueDoes
<1>5. Tail(todo) \in Seq(Batch) /\ (Len(todo) # 1 => Tail(todo) # <<>>)
      /\ (Len(todo) = 1 => Tail(todo) = <<>>)
  BY <1>2, TailDoes
<1>6. job' = [job EXCEPT ![h] = next]
  <2>1. CASE Len(job[h].batches) = 1
    BY <2>1 DEF Send
  <2>2. CASE Len(job[h].batches) # 1
    BY <2>2 DEF Send
  <2> QED
    BY <2>1, <2>2
<1>7. /\ next \in Job
      /\ next.step # "sampled" /\ (next.step = "sending" => next.batches # <<>>)
      /\ next.picks = <<>> \/ next.picks = job[h].picks
      /\ next.cues = <<>> \/ next.cues = job[h].cues
      /\ next.batches = Tail(todo)
      /\ next = Idle \/ next.step = "sending"
  <2>1. CASE Len(todo) = 1
    BY <1>5, <2>1, IdleType DEF Idle
  <2>2. CASE Len(todo) # 1
    BY <1>2, <1>5, <2>2 DEF Job
  <2> QED
    BY <2>1, <2>2
<1> HIDE DEF next, todo
<1>8. job' \in [{"top_up", "replan"} -> Job] /\ job'[h] = next
      /\ \A g \in Handlers : g # h => job'[g] = job[g]
  BY <1>1, <1>6, <1>7 DEF TypeOK, Handlers
<1>9. seen' \in Seen
  <2>1. Blindly(Head(job[h].batches).op, Recalled(h)) \in BOOLEAN
    BY DEF Blindly
  <2>2. (seen.left \/ (Head(job[h].batches).op = "replace_upcoming"
                       /\ commands' = commands)) \in BOOLEAN
    OBVIOUS
  <2> QED
    BY <1>1, <2>1, <2>2 DEF TypeOK, Seen, Send
<1>10. Steady'
  BY <1>1, <1>7, <1>8 DEF Steady, Handlers, Send
<1>11. TypeOK'
  BY <1>1, <1>4, <1>8, <1>9 DEF TypeOK, Send, phone, pool, Seen, Sent
<1> QED
  BY <1>2, <1>7, <1>8, <1>10, <1>11 DEF Types, todo

\* A job that has just begun to pick: its picks are its cues' songs so far.
Begun(j, cp) ==
  /\ j \in Job /\ j.step = "picking" /\ j.picks = cp /\ j.cues = cp /\ j.batches = <<>>
  /\ j.need \in Nat /\ Len(cp) <= j.need

\* A report is stored; it may begin a top-up, with the songs of the cues it is time for.
LEMMA SetStateDoes ==
  ASSUME Types, SetState
  PROVE  /\ report' = job["top_up"].sample /\ report' \in Report /\ Sound(report')
         /\ UNCHANGED <<paused, last, turn, played, phone, commands, heard, events>>
         /\ \/ /\ job' = [job EXCEPT !["top_up"] = Idle]
               /\ UNCHANGED <<pending, seen>>
               /\ lastTop' \in Tracks \cup {NoTrack}
            \/ \E D \in SUBSET pending, cp \in Seq(Tracks), j \in Job :
                 /\ Begun(j, cp) /\ job' = [job EXCEPT !["top_up"] = j]
                 /\ IsInjective(cp) /\ ToSet(cp) \subseteq {q.play : q \in D}
                 /\ Len(cp) <= Cardinality(D)
                 /\ pending' = pending \ D /\ lastTop' = lastTop
                 /\ \/ j.need = Len(cp)
                    \/ /\ Len(After(report')) < RefillAt
                       /\ j.need = Ahead - Len(After(report'))
                 /\ seen' = [seen EXCEPT !.crossed = Crossing("replan", report')]
<1> DEFINE r == job["top_up"].sample
           c == Playing(r)
           cp == SetToSeq({q.play : q \in Due(c)})
           j == Starting(c, After(r), r.queue, played, cp)
<1>1. TypeOK /\ Steady
  BY DEF Types
<1>2. /\ r \in Report /\ Sound(r) /\ report' = r
      /\ UNCHANGED <<paused, last, turn, played, phone, commands, heard, events>>
  BY <1>1 DEF TypeOK, Job, Steady, SetState
<1>3. \/ /\ job' = [job EXCEPT !["top_up"] = Idle]
         /\ UNCHANGED <<pending, seen>>
         /\ lastTop' = lastTop \/ lastTop' = c
      \/ /\ pending' = pending \ Due(c) /\ lastTop' = lastTop
         /\ job' = [job EXCEPT !["top_up"] = j]
         /\ seen' = [seen EXCEPT !.crossed = Crossing("replan", r)]
  BY DEF SetState
<1> HIDE DEF r
<1>4. c \in Tracks /\ After(r) \in Seq(Tracks) /\ r.queue \in Seq(Tracks)
  BY <1>2, ReportDoes DEF Report
<1>5. Due(c) \subseteq pending /\ pending \subseteq Cues
  BY <1>1 DEF Due, TypeOK
<1>6. /\ cp \in Seq(Tracks) /\ IsInjective(cp)
      /\ ToSet(cp) \subseteq {q.play : q \in Due(c)} /\ Len(cp) <= Cardinality(Due(c))
  BY <1>5, CuePicks
<1>7. played \in Seq(Tracks) /\ heard \subseteq Tracks /\ lastTop \in Tracks \cup {NoTrack}
  BY <1>1 DEF TypeOK
<1> DEFINE D == Due(c)
<1>8. j = Starting(c, After(r), r.queue, played, cp)
  OBVIOUS
<1> HIDE DEF c, cp, j
<1>9. /\ j \in Job /\ j.step = "picking" /\ j.picks = cp /\ j.cues = cp
      /\ j.batches = <<>> /\ j.need \in Nat /\ Len(cp) <= j.need
      /\ \/ j.need = Len(cp)
         \/ Len(After(r)) < RefillAt /\ j.need = Ahead - Len(After(r))
  <2>1. Starts(Starting(c, After(r), r.queue, played, cp), c, After(r), cp)
    BY <1>4, <1>6, <1>7, StartingDoes, Zenon
  <2> QED
    BY <1>8, <2>1 DEF Starts
<1>10. Begun(j, cp)
  BY <1>9 DEF Begun
<1>11. /\ D \in SUBSET pending /\ ToSet(cp) \subseteq {q.play : q \in D}
       /\ Len(cp) <= Cardinality(D)
  BY <1>5, <1>6
<1>12. CASE /\ job' = [job EXCEPT !["top_up"] = Idle]
            /\ UNCHANGED <<pending, seen>>
            /\ lastTop' = lastTop \/ lastTop' = c
  BY <1>2, <1>4, <1>7, <1>12 DEF r
<1>13. CASE /\ pending' = pending \ D /\ lastTop' = lastTop
            /\ job' = [job EXCEPT !["top_up"] = j]
            /\ seen' = [seen EXCEPT !.crossed = Crossing("replan", r)]
  <2> HIDE DEF D
  <2>1. /\ Begun(j, cp) /\ job' = [job EXCEPT !["top_up"] = j]
        /\ IsInjective(cp) /\ ToSet(cp) \subseteq {q.play : q \in D}
        /\ Len(cp) <= Cardinality(D)
        /\ pending' = pending \ D /\ lastTop' = lastTop
        /\ \/ j.need = Len(cp)
           \/ /\ Len(After(report')) < RefillAt
              /\ j.need = Ahead - Len(After(report'))
        /\ seen' = [seen EXCEPT !.crossed = Crossing("replan", report')]
    BY <1>2, <1>6, <1>9, <1>10, <1>11, <1>13
  <2>2. D \in SUBSET pending /\ cp \in Seq(Tracks) /\ j \in Job
    BY <1>6, <1>9, <1>11
  <2>3. /\ report' = job["top_up"].sample /\ report' \in Report /\ Sound(report')
        /\ UNCHANGED <<paused, last, turn, played, phone, commands, heard, events>>
    BY <1>2 DEF r
  <2> QED
    BY <2>1, <2>2, <2>3
<1> QED
  BY <1>3, <1>12, <1>13

LEMMA SetStateTypes ==
  ASSUME Types, SetState
  PROVE  Types'
<1>1. TypeOK /\ Steady
  BY DEF Types
<1>2. /\ report' \in Report /\ Sound(report')
      /\ UNCHANGED <<paused, last, turn, played, queue, at, commands, heard, events>>
  BY SetStateDoes DEF phone
<1>3. PICK j \in Job :
        /\ job' = [job EXCEPT !["top_up"] = j]
        /\ j.step \in {"idle", "picking"}
        /\ pending' \subseteq pending /\ lastTop' \in Tracks \cup {NoTrack} /\ seen' \in Seen
  <2>1. Crossing("replan", report') \in BOOLEAN
    BY DEF Crossing
  <2>2. seen \in Seen /\ [seen EXCEPT !.crossed = Crossing("replan", report')] \in Seen
    BY <1>1, <2>1 DEF TypeOK, Seen
  <2> QED
    BY <1>1, <2>2, SetStateDoes, IdleType DEF TypeOK, Begun, Idle
<1>4. job' \in [{"top_up", "replan"} -> Job] /\ job'["top_up"] = j
      /\ job'["replan"] = job["replan"]
  BY <1>1, <1>3 DEF TypeOK
<1>5. Steady'
  BY <1>1, <1>2, <1>3, <1>4 DEF Steady, Handlers
<1>6. TypeOK'
  BY <1>1, <1>2, <1>3, <1>4 DEF TypeOK, Seen
<1> QED
  BY <1>5, <1>6 DEF Types

\* A lane is paused: either there was no report, or a replan of the stored one begins.
LEMMA PauseLaneDoes ==
  ASSUME Types, NEW l \in Lanes, PauseLane(l)
  PROVE  /\ paused' = paused \cup {l} /\ events < MaxEvents /\ events' = events + 1
         /\ UNCHANGED <<last, turn, lastTop, pending, phone, report, commands, heard>>
         /\ \/ /\ seen' = [seen EXCEPT !.left = TRUE]
               /\ UNCHANGED <<played, job>>
            \/ /\ played' \in Seq(Tracks)
               /\ Sound(report) /\ report \in Report
               /\ seen' = [seen EXCEPT !.crossed = Crossing("top_up", report)]
               /\ \E j \in Job : /\ Begun(j, <<>>) /\ j.need <= Ahead
                                 /\ job' = [job EXCEPT !["replan"] = j]
<1>1. TypeOK /\ Steady
  BY DEF Types
<1> DEFINE kept == Without(played, ToSet(After(report)))
           j == Starting(Playing(report), <<>>, Before(report), kept, <<>>)
<1>2. kept \in Seq(Tracks) /\ heard \subseteq Tracks
  BY <1>1, WithoutDoes DEF TypeOK
<1>3. /\ paused' = paused \cup {l} /\ events < MaxEvents /\ events' = events + 1
      /\ UNCHANGED <<last, turn, lastTop, pending, phone, report, commands, heard>>
      /\ \/ /\ seen' = [seen EXCEPT !.left = TRUE]
            /\ UNCHANGED <<played, job>>
         \/ /\ report # NoReport
            /\ played' = kept
            /\ job' = [job EXCEPT !["replan"] = j]
            /\ seen' = [seen EXCEPT !.crossed = Crossing("top_up", report)]
  BY DEF PauseLane, Event
<1> HIDE DEF kept
<1>4. report # NoReport
      => /\ Sound(report) /\ report \in Report
         /\ Playing(report) \in Tracks /\ Before(report) \in Seq(Tracks)
  BY <1>1, ReportDoes DEF Steady, TypeOK
<1>5. <<>> \in Seq(Tracks) /\ Len(<<>>) = 0 /\ Ahead \in Nat
  BY PoolAssumption
<1> DEFINE none == <<>>
<1>6. /\ none \in Seq(Tracks) /\ Len(none) = 0
      /\ j = Starting(Playing(report), none, Before(report), kept, none)
  BY <1>5
<1> HIDE DEF j, none
<1>7. ASSUME report # NoReport
      PROVE  j \in Job /\ Begun(j, none) /\ j.need <= Ahead
  <2>1. /\ j \in Job /\ j.step = "picking" /\ j.picks = none /\ j.cues = none
        /\ j.batches = <<>> /\ j.need \in Nat /\ Len(none) <= j.need
        /\ j.need = Len(none) \/ j.need = Ahead - Len(none)
    <3>1. Starts(Starting(Playing(report), none, Before(report), kept, none),
                 Playing(report), none, none)
      BY <1>2, <1>4, <1>6, <1>7, StartingDoes, Zenon
    <3> QED
      BY <1>6, <3>1 DEF Starts
  <2> QED
    BY <1>5, <1>6, <2>1 DEF Begun
<1> QED
  BY <1>2, <1>3, <1>4, <1>7 DEF none

LEMMA LaneTypes ==
  ASSUME Types, NEW l \in Lanes, PauseLane(l) \/ ResumeLane(l)
  PROVE  Types'
<1>1. TypeOK /\ Steady
  BY DEF Types
<1>2. CASE PauseLane(l)
  <2>1. /\ paused' \subseteq Lanes /\ events' \in 0 .. MaxEvents
        /\ UNCHANGED <<last, turn, lastTop, pending, queue, at, report, commands, heard>>
    <3>1. /\ paused' = paused \cup {l} /\ events < MaxEvents /\ events' = events + 1
          /\ UNCHANGED <<last, turn, lastTop, pending, phone, report, commands, heard>>
      BY <1>2, PauseLaneDoes
    <3>2. paused \subseteq Lanes /\ events \in 0 .. MaxEvents /\ MaxEvents \in Nat
      BY <1>1, PoolAssumption DEF TypeOK
    <3> QED
      BY <3>1, <3>2 DEF phone
  <2>2. seen' \in Seen
    <3>1. Crossing("top_up", report) \in BOOLEAN
      BY DEF Crossing
    <3>2. seen \in Seen
      BY <1>1 DEF TypeOK, Seen
    <3>3. /\ [seen EXCEPT !.left = TRUE] \in Seen
          /\ [seen EXCEPT !.crossed = Crossing("top_up", report)] \in Seen
      BY <3>1, <3>2 DEF Seen
    <3> QED
      BY <1>2, <3>3, PauseLaneDoes
  <2>3. /\ played' \in Seq(Tracks)
        /\ \/ job' = job
           \/ \E j \in Job : j.step = "picking" /\ job' = [job EXCEPT !["replan"] = j]
    BY <1>1, <1>2, PauseLaneDoes DEF TypeOK, Begun
  <2>4. /\ job' \in [{"top_up", "replan"} -> Job] /\ job'["top_up"] = job["top_up"]
        /\ job'["replan"] = job["replan"] \/ job'["replan"].step = "picking"
    BY <1>1, <2>3 DEF TypeOK
  <2>5. Steady'
    BY <1>1, <2>1, <2>4 DEF Steady, Handlers
  <2>6. TypeOK'
    BY <1>1, <2>1, <2>2, <2>3, <2>4 DEF TypeOK, Seen
  <2> QED
    BY <2>5, <2>6 DEF Types
<1>3. CASE ResumeLane(l)
  <2>1. events' \in 0 .. MaxEvents
    BY <1>1, <1>3, PoolAssumption DEF ResumeLane, Event, TypeOK
  <2> QED
    BY <1>1, <1>3, <2>1 DEF ResumeLane, Types, TypeOK, Steady, phone
<1> QED
  BY <1>2, <1>3

LEMMA AgentTypes ==
  ASSUME Types, NEW op \in Ops, NEW t \in Others, AgentSends(op, t)
  PROVE  Types'
<1>1. TypeOK /\ Steady
  BY DEF Types
<1>2. t \in Tracks /\ <<t>> \in Seq(Tracks)
  BY PoolAssumption
<1>3. commands' \in Seq(Sent)
  BY <1>1, <1>2, EnqueueDoes DEF AgentSends
<1>4. events' \in 0 .. MaxEvents
  BY <1>1, PoolAssumption DEF AgentSends, Event, TypeOK
<1>5. seen' \in Seen
  <2>1. Blindly(op, {}) \in BOOLEAN
    BY DEF Blindly
  <2>2. seen.asked \cup {t} \in SUBSET Tracks /\ seen.asks + 1 \in Nat
    BY <1>1, <1>2 DEF TypeOK
  <2> QED
    BY <1>1, <2>1, <2>2 DEF TypeOK, Seen, AgentSends
<1>6. TypeOK'
  BY <1>1, <1>3, <1>4, <1>5 DEF TypeOK, AgentSends, pool, phone, Seen, Sent
<1>7. Steady'
  BY <1>1 DEF Steady, AgentSends
<1> QED
  BY <1>6, <1>7 DEF Types

LEMMA SampleTypes ==
  ASSUME Types, Sample
  PROVE  Types'
<1>1. TypeOK /\ Steady
  BY DEF Types
<1> DEFINE n == [queue |-> queue, at |-> at]
           s == [Idle EXCEPT !.step = "sampled", !.sample = n]
<1>2. n \in Report /\ Sound(n)
  BY <1>1 DEF TypeOK, Report, Sound
<1> HIDE DEF n
<1>3. s \in Job /\ s.step = "sampled" /\ s.sample = n
  BY <1>2, IdleType DEF Job
<1>4. job' = [job EXCEPT !["top_up"] = s]
  BY DEF Sample, n
<1> HIDE DEF s
<1>5. job' \in [{"top_up", "replan"} -> Job] /\ job'["top_up"] = s
      /\ job'["replan"] = job["replan"]
  BY <1>1, <1>3, <1>4 DEF TypeOK
<1>6. TypeOK'
  BY <1>1, <1>5 DEF TypeOK, Sample, pool, phone
<1>7. Steady'
  BY <1>1, <1>2, <1>3, <1>5 DEF Steady, Handlers, Sample
<1> QED
  BY <1>6, <1>7 DEF Types

LEMMA LoseTypes ==
  ASSUME Types, NEW i \in DOMAIN commands, Lose(i)
  PROVE  Types'
<1>1. TypeOK /\ Steady
  BY DEF Types
<1>2. commands \in Seq(Sent)
  BY <1>1 DEF TypeOK, Sent
<1>3. commands' \in Seq(Sent)
  <2>1. commands[i] \in Sent
    BY <1>2
  <2>2. [commands[i] EXCEPT !.late = TRUE] \in Sent
    BY <2>1 DEF Sent
  <2> DEFINE c == [commands[i] EXCEPT !.late = TRUE]
  <2>3. commands' = [commands EXCEPT ![i] = c]
    BY DEF Lose
  <2> HIDE DEF c
  <2> QED
    BY <1>2, <2>2, <2>3 DEF c
<1>4. events' \in 0 .. MaxEvents
  BY <1>1, PoolAssumption DEF Lose, Event, TypeOK
<1>5. TypeOK'
  BY <1>1, <1>3, <1>4 DEF TypeOK, Lose, pool, phone, Sent
<1>6. Steady'
  BY <1>1 DEF Steady, Lose
<1> QED
  BY <1>5, <1>6 DEF Types

\* What is left of a sequence without its i-th member.
LEMMA RemoveDoes ==
  ASSUME NEW S, NEW q \in Seq(S), NEW i \in DOMAIN q
  PROVE  /\ RemoveAt(q, i) \in Seq(S)
         /\ Len(RemoveAt(q, i)) = Len(q) - 1
         /\ \A k \in DOMAIN RemoveAt(q, i) :
              /\ k < i => k \in DOMAIN q /\ RemoveAt(q, i)[k] = q[k]
              /\ k >= i => k + 1 \in DOMAIN q /\ RemoveAt(q, i)[k] = q[k + 1]
<1> DEFINE a == SubSeq(q, 1, i - 1)
           b == SubSeq(q, i + 1, Len(q))
           r == a \o b
<1>1. i \in 1 .. Len(q) /\ Len(q) \in Nat
  OBVIOUS
<1>2. a \in Seq(S) /\ Len(a) = i - 1 /\ \A k \in 1 .. i - 1 : a[k] = q[k]
  BY <1>1
<1>3. b \in Seq(S) /\ Len(b) = Len(q) - i /\ \A k \in 1 .. Len(q) - i : b[k] = q[i + k]
  BY <1>1
<1> HIDE DEF a, b
<1>4. r \in Seq(S) /\ Len(r) = Len(q) - 1
  BY <1>1, <1>2, <1>3
<1>5. \A k \in 1 .. i - 1 : r[k] = q[k]
  BY <1>1, <1>2, <1>3
<1>6. \A k \in i .. Len(q) - 1 : r[k] = q[k + 1]
  <2> SUFFICES ASSUME NEW k \in i .. Len(q) - 1
               PROVE  r[k] = q[k + 1]
    OBVIOUS
  <2>1. r[k] = b[k - (i - 1)]
    BY <1>1, <1>2, <1>3
  <2>2. k - (i - 1) \in 1 .. Len(q) - i /\ i + (k - (i - 1)) = k + 1
    BY <1>1
  <2> QED
    BY <1>3, <2>1, <2>2
<1>7. RemoveAt(q, i) = r
  BY DEF RemoveAt, a, b
<1> HIDE DEF r
<1>8. \A k \in DOMAIN r : /\ k < i => k \in DOMAIN q /\ r[k] = q[k]
                          /\ k >= i => k + 1 \in DOMAIN q /\ r[k] = q[k + 1]
  BY <1>1, <1>4, <1>5, <1>6
<1> QED
  BY <1>4, <1>7, <1>8

LEMMA JoinDoes ==
  ASSUME NEW S, NEW a \in Seq(S), NEW b \in Seq(S)
  PROVE  /\ a \o b \in Seq(S) /\ Len(a \o b) = Len(a) + Len(b)
         /\ \A k \in 1 .. Len(a) : (a \o b)[k] = a[k]
         /\ \A k \in 1 .. Len(b) : (a \o b)[Len(a) + k] = b[k]
OBVIOUS

\* What the phone plays next after a command.
LEMMA AppliedDoes ==
  ASSUME TypeOK, NEW op \in Ops, NEW ids \in Seq(Tracks)
  PROVE  /\ Applied(op, ids) \in Seq(Tracks)
         /\ Len(Applied(op, ids))
            = (IF op = "replace_upcoming" THEN at ELSE Len(queue)) + Len(ids)
         /\ at \in 1 .. Len(Applied(op, ids))
         /\ \A k \in 1 .. at : Applied(op, ids)[k] = queue[k]
<1> DEFINE now == SubSeq(queue, 1, at)
           rest == SubSeq(queue, at + 1, Len(queue))
           new == Applied(op, ids)
<1>1. queue \in Seq(Tracks) /\ at \in 1 .. Len(queue) /\ Len(queue) \in Nat
  BY DEF TypeOK
<1>2. now \in Seq(Tracks) /\ Len(now) = at /\ \A k \in 1 .. at : now[k] = queue[k]
  BY <1>1
<1>3. rest \in Seq(Tracks) /\ Len(rest) = Len(queue) - at
  BY <1>1
<1>4. new = CASE op = "queue" -> queue \o ids
              [] op = "play_next" -> now \o ids \o rest
              [] op = "replace_upcoming" -> now \o ids
  BY DEF Applied
<1> HIDE DEF now, rest, new
<1>5. CASE op = "queue"
  <2>1. new = queue \o ids
    BY <1>4, <1>5
  <2>2. new \in Seq(Tracks) /\ Len(new) = Len(queue) + Len(ids)
        /\ \A k \in 1 .. at : new[k] = queue[k]
    <3>1. \A k \in 1 .. at : k \in 1 .. Len(queue)
      BY <1>1
    <3> QED
      BY <1>1, <2>1, <3>1, JoinDoes
  <2> QED
    BY <1>1, <1>5, <2>2 DEF new
<1>6. CASE op = "play_next"
  <2>1. new = now \o ids \o rest
    BY <1>4, <1>6
  <2> DEFINE front == now \o ids
  <2>2. front \in Seq(Tracks) /\ Len(front) = at + Len(ids)
        /\ \A k \in 1 .. at : front[k] = now[k]
    BY <1>1, <1>2
  <2>3. new = front \o rest
    BY <2>1
  <2> HIDE DEF front
  <2>4. new \in Seq(Tracks) /\ Len(new) = Len(front) + Len(rest)
        /\ \A k \in 1 .. at : new[k] = front[k]
    <3>1. \A k \in 1 .. at : k \in 1 .. Len(front)
      BY <1>1, <2>2
    <3> QED
      BY <1>3, <2>2, <2>3, <3>1, JoinDoes
  <2>5. Len(new) = Len(queue) + Len(ids) /\ \A k \in 1 .. at : new[k] = queue[k]
    BY <1>1, <1>2, <1>3, <2>2, <2>4
  <2>6. at \in 1 .. Len(new)
    BY <1>1, <2>5
  <2> QED
    BY <1>6, <2>4, <2>5, <2>6 DEF new
<1>7. CASE op = "replace_upcoming"
  <2>1. new = now \o ids
    BY <1>4, <1>7
  <2>2. new \in Seq(Tracks) /\ Len(new) = at + Len(ids)
        /\ \A k \in 1 .. at : new[k] = now[k]
    BY <1>2, <2>1, JoinDoes
  <2> QED
    BY <1>1, <1>2, <1>7, <2>2 DEF new
<1> QED
  BY <1>5, <1>6, <1>7 DEF Ops

LEMMA ExecuteTypes ==
  ASSUME Types, NEW i \in DOMAIN commands, Execute(i)
  PROVE  Types'
<1>1. TypeOK /\ Steady
  BY DEF Types
<1>2. commands \in Seq(Sent)
  BY <1>1 DEF TypeOK, Sent
<1>3. commands' \in Seq(Sent)
  BY <1>2, RemoveDoes DEF Execute
<1>4. queue' \in Seq(Tracks) /\ at \in 1 .. Len(queue')
  <2>1. commands[i] \in Sent
    BY <1>2
  <2>2. commands[i].op \in Ops /\ commands[i].ids \in Seq(Tracks)
    BY <2>1 DEF Sent
  <2> QED
    BY <1>1, <2>2, AppliedDoes DEF Execute
<1>5. TypeOK'
  BY <1>1, <1>3, <1>4 DEF TypeOK, Execute, pool, Sent
<1>6. Steady'
  BY <1>1 DEF Steady, Execute
<1> QED
  BY <1>5, <1>6 DEF Types

LEMMA PhoneTypes ==
  ASSUME Types, NextSong \/ \E t \in Others : PlayOther(t)
  PROVE  Types'
<1>1. TypeOK /\ Steady
  BY DEF Types
<1>2. CASE NextSong
  <2>1. at' \in 1 .. Len(queue)
    BY <1>1, <1>2 DEF NextSong, TypeOK
  <2>2. heard' \subseteq Tracks /\ events' \in 0 .. MaxEvents
    <3>1. queue[at] \in Tracks
      BY <1>1 DEF TypeOK
    <3> QED
      BY <1>1, <1>2, <3>1, PoolAssumption DEF NextSong, TypeOK, Event
  <2>3. seen' \in Seen
    <3>1. (seen.blind \/ \E i \in DOMAIN commands : commands[i].op = "replace_upcoming")
          \in BOOLEAN
      OBVIOUS
    <3> QED
      BY <1>1, <1>2, <3>1 DEF NextSong, TypeOK, Seen
  <2>4. TypeOK'
    BY <1>1, <1>2, <2>1, <2>2, <2>3 DEF TypeOK, NextSong, pool, Seen
  <2> QED
    BY <1>1, <1>2, <2>4 DEF Types, Steady, NextSong
<1>3. ASSUME NEW t \in Others, PlayOther(t)
      PROVE  Types'
  <2>1. t \in Tracks
    BY PoolAssumption
  <2>2. queue' \in Seq(Tracks) /\ at' \in 1 .. Len(queue')
    <3>1. queue' = <<t>> /\ at' = 1
      BY <1>3 DEF PlayOther
    <3>2. <<t>> \in Seq(Tracks) /\ Len(<<t>>) = 1
      BY <2>1
    <3> QED
      BY <3>1, <3>2
  <2>3. events' \in 0 .. MaxEvents
    <3>1. Event
      BY <1>3 DEF PlayOther
    <3>2. events \in 0 .. MaxEvents /\ MaxEvents \in Nat
      BY <1>1, PoolAssumption DEF TypeOK
    <3> QED
      BY <3>1, <3>2 DEF Event
  <2>4. seen' \in Seen
    <3>1. (seen.blind \/ ~Settled) \in BOOLEAN /\ seen.asked \cup {t} \in SUBSET Tracks
      BY <1>1, <2>1 DEF TypeOK
    <3> QED
      BY <1>1, <1>3, <3>1 DEF PlayOther, TypeOK, Seen
  <2>5. TypeOK'
    BY <1>1, <1>3, <2>2, <2>3, <2>4 DEF TypeOK, PlayOther, pool, Seen
  <2> QED
    BY <1>1, <1>3, <2>5 DEF Types, Steady, PlayOther
<1> QED
  BY <1>2, <1>3

-----------------------------------------------------------------------------
(* What every handler holds *)

\* Nothing is picked twice, nor sent twice; who is not at it has picked nothing; the
\* cues' songs are picked first, and no more is picked than is missing.
Tidy(j) ==
  /\ IsInjective(j.picks) /\ IsInjective(j.cues)
  /\ \A k \in DOMAIN j.batches : IsInjective(j.batches[k].ids)
  /\ j.step \in {"idle", "sampled"}
     => j.picks = <<>> /\ j.cues = <<>> /\ j.batches = <<>>
  /\ j.step = "picking"
     => /\ Len(j.picks) <= j.need /\ Len(j.cues) <= Len(j.picks)
        /\ \A k \in DOMAIN j.cues : j.picks[k] = j.cues[k]

AllTidy ==
  /\ \A h \in Handlers : Tidy(job[h])
  /\ \A i \in DOMAIN commands : IsInjective(commands[i].ids)

LEMMA IdleTidy ==
  ASSUME NEW j, j.picks = <<>>, j.cues = <<>>, j.batches = <<>>, j.step # "picking"
  PROVE  Tidy(j)
<1>1. DOMAIN (<<>>) = {}
  OBVIOUS
<1>2. IsInjective(<<>>)
  BY <1>1 DEF IsInjective
<1> QED
  BY <1>1, <1>2 DEF Tidy

LEMMA BegunTidy ==
  ASSUME NEW j, NEW cp \in Seq(Tracks), Begun(j, cp), IsInjective(cp)
  PROVE  Tidy(j)
BY DEF Tidy, Begun

LEMMA AppendOnce ==
  ASSUME NEW s \in Seq(Tracks), NEW t \in Tracks
  PROVE  /\ Append(s, t) \in Seq(Tracks) /\ Len(Append(s, t)) = Len(s) + 1
         /\ ToSet(Append(s, t)) = ToSet(s) \cup {t}
         /\ \A k \in DOMAIN s : Append(s, t)[k] = s[k]
         /\ IsInjective(s) /\ t \notin ToSet(s) => IsInjective(Append(s, t))
<1> DEFINE a == Append(s, t)
<1>1. /\ a \in Seq(Tracks) /\ Len(a) = Len(s) + 1 /\ DOMAIN a = 1 .. Len(s) + 1
      /\ DOMAIN s = 1 .. Len(s) /\ Len(s) \in Nat
      /\ \A k \in DOMAIN s : a[k] = s[k] 
      /\ a[Len(s) + 1] = t
  OBVIOUS
<1> HIDE DEF a
<1>2. \A k \in DOMAIN a : k \in DOMAIN s \/ k = Len(s) + 1
  BY <1>1
<1>3. ToSet(a) = ToSet(s) \cup {t}
  <2>1. ToSet(a) \subseteq ToSet(s) \cup {t}
    BY <1>1, <1>2 DEF ToSet
  <2>2. \A k \in DOMAIN s : k \in DOMAIN a
    BY <1>1
  <2>3. Len(s) + 1 \in DOMAIN a
    BY <1>1
  <2>4. ToSet(s) \cup {t} \subseteq ToSet(a)
    BY <1>1, <2>2, <2>3 DEF ToSet
  <2> QED
    BY <2>1, <2>4
<1>4. ASSUME IsInjective(s), t \notin ToSet(s)
      PROVE  IsInjective(a)
  <2>1. \A k \in DOMAIN s : s[k] # t
    BY <1>4 DEF ToSet
  <2>2. \A k, m \in DOMAIN s : s[k] = s[m] => k = m
    BY <1>4 DEF IsInjective
  <2>3. \A k, m \in DOMAIN a : a[k] = a[m] => k = m
    BY <1>1, <1>2, <2>1, <2>2
  <2> QED
    BY <2>3 DEF IsInjective
<1> QED
  BY <1>1, <1>3, <1>4 DEF a

\* One more song is picked, of a lane that is not paused.
LEMMA PickDoes ==
  ASSUME Types, NEW h \in Handlers, NEW l \in Lanes, NEW t \in TracksOf[l], Pick(h, l, t)
  PROVE  /\ t \in Tracks /\ t \notin ToSet(job[h].picks) /\ l \notin paused
         /\ job[h] \in Job /\ job[h].step = "picking" /\ Len(job[h].picks) < job[h].need
         /\ job'[h] = [job[h] EXCEPT !.picks = Append(job[h].picks, t)]
         /\ \A g \in Handlers : g # h => job'[g] = job[g]
         /\ UNCHANGED <<paused, pending, phone, commands, seen>>
<1>1. job \in [{"top_up", "replan"} -> Job] /\ t \in Tracks
  BY PoolAssumption DEF Types, TypeOK
<1>2. t \in Candidates(job[h], l) /\ l \in Ready(job[h])
  BY DEF Pick, NextLane
<1>3. t \notin ToSet(job[h].picks)
  BY <1>2, Zenon DEF Candidates, Fresh
<1>4. l \notin paused
  BY <1>2 DEF Ready, Unpaused
<1>5. /\ job[h].step = "picking" /\ Len(job[h].picks) < job[h].need
      /\ job' = [job EXCEPT ![h] = [job[h] EXCEPT !.picks = Append(job[h].picks, t)]]
      /\ UNCHANGED <<paused, pending, phone, commands, seen>>
  BY <1>1 DEF Pick
<1> QED
  BY <1>1, <1>3, <1>4, <1>5 DEF Handlers

LEMMA PickTidy ==
  ASSUME Types, AllTidy, NEW h \in Handlers, NEW l \in Lanes, NEW t \in TracksOf[l],
         Pick(h, l, t)
  PROVE  AllTidy'
<1> DEFINE p == job[h].picks
           a == Append(p, t)
<1>1. /\ t \in Tracks /\ t \notin ToSet(p) /\ job[h] \in Job /\ job[h].step = "picking"
      /\ Len(p) < job[h].need /\ job'[h] = [job[h] EXCEPT !.picks = a]
      /\ \A g \in Handlers : g # h => job'[g] = job[g]
      /\ commands' = commands
  BY PickDoes
<1>2. Tidy(job[h])
  BY DEF AllTidy
<1>3. p \in Seq(Tracks) /\ job[h].cues \in Seq(Tracks) /\ job[h].need \in Nat
  BY <1>1 DEF Job
<1> HIDE DEF p, a
<1>4. /\ Len(a) = Len(p) + 1 /\ Len(p) \in Nat
      /\ \A k \in DOMAIN p : a[k] = p[k]
      /\ IsInjective(p) => IsInjective(a)
  BY <1>1, <1>3, AppendOnce DEF a
<1>5. IsInjective(p) /\ Len(job[h].cues) <= Len(p) /\ \A k \in DOMAIN job[h].cues : p[k] = job[h].cues[k]
  BY <1>1, <1>2 DEF Tidy, p
<1>6. \A k \in DOMAIN job[h].cues : k \in DOMAIN p
  BY <1>3, <1>5
<1>7. /\ job'[h].picks = a /\ job'[h].cues = job[h].cues /\ job'[h].batches = job[h].batches
      /\ job'[h].step = "picking" /\ job'[h].need = job[h].need
  BY <1>1 DEF Job
<1>8. IsInjective(job[h].cues) /\ \A k \in DOMAIN job[h].batches : IsInjective(job[h].batches[k].ids)
  BY <1>2 DEF Tidy
<1>9. Len(a) <= job[h].need /\ Len(job[h].cues) <= Len(a)
  BY <1>1, <1>3, <1>4, <1>5
<1>10. Tidy(job'[h])
  BY <1>4, <1>5, <1>6, <1>7, <1>8, <1>9 DEF Tidy
<1>11. \A g \in Handlers : Tidy(job'[g])
  BY <1>1, <1>10 DEF AllTidy
<1> QED
  BY <1>1, <1>11 DEF AllTidy

\* The picks are made: they are put into batches, unless there are none.
LEMMA PickedDoes ==
  ASSUME Types, AllTidy, NEW h \in Handlers, Picked(h)
  PROVE  /\ job[h] \in Job /\ job[h].step = "picking"
         /\ job[h].picks \in Seq(Tracks) /\ job[h].cues \in Seq(Tracks)
         /\ IsInjective(job[h].picks) /\ IsInjective(job[h].cues)
         /\ \/ job[h].picks = <<>> /\ job'[h] = Idle /\ seen'.left = (seen.left \/ h = "replan")
            \/ /\ job[h].picks # <<>> /\ seen'.left = seen.left
               /\ job'[h] = Sending(Batches(h, job[h])) /\ job'[h].step = "sending"
               /\ job'[h].batches = Batches(h, job[h]) /\ job'[h].batches \in Seq(Batch)
         /\ seen'.crossed = seen.crossed /\ seen'.blind = seen.blind
         /\ seen'.asked = seen.asked /\ seen'.asks = seen.asks
         /\ \A g \in Handlers : g # h => job'[g] = job[g]
         /\ UNCHANGED <<paused, pending, phone, report, commands>>
<1>1. job \in [{"top_up", "replan"} -> Job] /\ seen \in Seen
  BY DEF Types, TypeOK, Seen
<1>2. job[h] \in Job /\ job[h].step = "picking"
      /\ job[h].picks \in Seq(Tracks) /\ job[h].cues \in Seq(Tracks)
  BY <1>1 DEF Handlers, Job, Picked
<1>3. IsInjective(job[h].picks) /\ IsInjective(job[h].cues)
  BY DEF AllTidy, Tidy
<1>4. /\ job' = [job EXCEPT ![h] = IF job[h].picks = <<>> THEN Idle
                                   ELSE Sending(Batches(h, job[h]))]
      /\ seen' = [seen EXCEPT !.left = seen.left \/ (h = "replan" /\ job[h].picks = <<>>)]
      /\ UNCHANGED <<paused, pending, phone, report, commands>>
  BY DEF Picked, Sending
<1>5. job'[h] = (IF job[h].picks = <<>> THEN Idle ELSE Sending(Batches(h, job[h])))
      /\ \A g \in Handlers : g # h => job'[g] = job[g]
  BY <1>1, <1>4 DEF Handlers
<1>6. /\ seen'.left = (seen.left \/ (h = "replan" /\ job[h].picks = <<>>))
      /\ seen'.crossed = seen.crossed /\ seen'.blind = seen.blind
      /\ seen'.asked = seen.asked /\ seen'.asks = seen.asks
  BY <1>1, <1>4 DEF Seen
<1>7. CASE job[h].picks = <<>>
  <2>1. job'[h] = Idle
    BY <1>5, <1>7
  <2>2. seen'.left = (seen.left \/ h = "replan")
    BY <1>6, <1>7
  <2> QED
    BY <1>2, <1>3, <1>4, <1>5, <1>6, <1>7, <2>1, <2>2
<1>8. CASE job[h].picks # <<>>
  <2>1. Batches(h, job[h]) \in Seq(Batch)
    BY <1>2, <1>3, <1>8, BatchesDo
  <2>2. job'[h] = Sending(Batches(h, job[h]))
    BY <1>5, <1>8
  <2>3. job'[h].step = "sending" /\ job'[h].batches = Batches(h, job[h])
    BY <2>1, <2>2, SendingType
  <2>4. seen'.left = seen.left
    BY <1>1, <1>6, <1>8 DEF Seen
  <2> QED
    BY <1>2, <1>3, <1>4, <1>5, <1>6, <1>8, <2>1, <2>2, <2>3, <2>4
<1> QED
  BY <1>7, <1>8

LEMMA PickedTidy ==
  ASSUME Types, AllTidy, NEW h \in Handlers, Picked(h)
  PROVE  AllTidy'
<1>1. /\ job[h] \in Job /\ IsInjective(job[h].picks) /\ IsInjective(job[h].cues)
      /\ \/ job'[h] = Idle
         \/ job[h].picks # <<>> /\ job'[h] = Sending(Batches(h, job[h]))
      /\ \A g \in Handlers : g # h => job'[g] = job[g]
      /\ commands' = commands
  BY PickedDoes
<1>2. Tidy(job'[h])
  <2>1. CASE job'[h] = Idle
    BY <2>1, IdleTidy DEF Idle
  <2>2. CASE job[h].picks # <<>> /\ job'[h] = Sending(Batches(h, job[h]))
    <3> DEFINE B == Batches(h, job[h])
    <3>1. B \in Seq(Batch) /\ \A k \in DOMAIN B : IsInjective(B[k].ids)
      BY <1>1, <2>2, BatchesDo
    <3>2. job'[h] = Sending(B)
      BY <2>2
    <3> HIDE DEF B
    <3>3. /\ job'[h].picks = <<>> /\ job'[h].cues = <<>> /\ job'[h].batches = B
          /\ job'[h].step = "sending"
      BY <3>2 DEF Sending, Idle
    <3>4. IsInjective(<<>>)
      BY DEF IsInjective
    <3> QED
      BY <3>1, <3>3, <3>4 DEF Tidy
  <2> QED
    BY <1>1, <2>1, <2>2
<1>3. \A g \in Handlers : Tidy(job'[g])
  BY <1>1, <1>2 DEF AllTidy
<1> QED
  BY <1>1, <1>3 DEF AllTidy

\* A command for op and part of ids, those that the guard lets through, is the last.
Added(op, ids) ==
  \E kept \in Seq(Tracks), n \in Nat \ {0} :
    /\ ToSet(kept) = ToSet(ids) \ Guarded(op) /\ Len(kept) <= Len(ids)
    /\ IsInjective(ids) => IsInjective(kept)
    /\ Len(commands) = n - 1 /\ DOMAIN commands = 1 .. n - 1
    /\ Len(commands') = n /\ DOMAIN commands' = 1 .. n
    /\ \A i \in 1 .. n - 1 : commands'[i] = commands[i]
    /\ commands'[n].op = op /\ commands'[n].ids = kept /\ ~commands'[n].late

LEMMA Adds ==
  ASSUME TypeOK, NEW op \in Ops, NEW ids \in Seq(Tracks), Enqueue(op, ids)
  PROVE  commands' = commands \/ Added(op, ids)
<1> DEFINE kept == Without(ids, Guarded(op))
           c == [op |-> op, ids |-> kept, late |-> FALSE]
           n == Len(commands) + 1
<1>1. /\ kept \in Seq(Tracks) /\ ToSet(kept) = ToSet(ids) \ Guarded(op)
      /\ Len(kept) <= Len(ids) /\ (IsInjective(ids) => IsInjective(kept))
  BY WithoutDoes
<1>2. commands' = commands \/ commands' = Append(commands, c)
  BY EnqueueDoes
<1>3. commands \in Seq(Sent)
  BY DEF TypeOK, Sent
<1> HIDE DEF kept
<1>4. c \in Sent /\ c.op = op /\ c.ids = kept /\ ~c.late
  BY <1>1 DEF Sent
<1> HIDE DEF c
<1>5. ASSUME commands' = Append(commands, c)
      PROVE  Added(op, ids)
  <2>1. /\ n \in Nat \ {0} /\ Len(commands) = n - 1 /\ DOMAIN commands = 1 .. n - 1
        /\ Len(commands') = n /\ DOMAIN commands' = 1 .. n
        /\ \A i \in 1 .. n - 1 : commands'[i] = commands[i]
        /\ commands'[n] = c
    BY <1>3, <1>4, <1>5
  <2> HIDE DEF n
  <2>2. /\ ToSet(kept) = ToSet(ids) \ Guarded(op) /\ Len(kept) <= Len(ids)
        /\ IsInjective(ids) => IsInjective(kept)
        /\ Len(commands) = n - 1 /\ DOMAIN commands = 1 .. n - 1
        /\ Len(commands') = n /\ DOMAIN commands' = 1 .. n
        /\ \A i \in 1 .. n - 1 : commands'[i] = commands[i]
        /\ commands'[n].op = op /\ commands'[n].ids = kept /\ ~commands'[n].late
    BY <1>1, <1>4, <2>1
  <2> QED
    BY <1>1, <2>1, <2>2, Zenon DEF Added
<1> QED
  BY <1>2, <1>5

\* A handler sends its first batch: it becomes a command as far as it passes.
LEMMA SendDoes ==
  ASSUME Types, AllTidy, NEW h \in Handlers, Send(h),
         NEW b, b = job[h].batches[1]
  PROVE  /\ job[h] \in Job /\ job[h].step = "sending"
         /\ job[h].batches \in Seq(Batch) /\ job[h].batches # <<>>
         /\ b \in Batch /\ b.op \in Ops /\ b.ids \in Seq(Tracks) /\ IsInjective(b.ids)
         /\ job'[h].picks = <<>> \/ job'[h].picks = job[h].picks
         /\ job'[h].cues = <<>> \/ job'[h].cues = job[h].cues
         /\ job'[h].batches = Tail(job[h].batches)
         /\ job'[h] = Idle \/ job'[h].step = "sending"
         /\ \A g \in Handlers : g # h => job'[g] = job[g]
         /\ commands' = commands \/ Added(b.op, b.ids)
         /\ seen'.blind = Blindly(b.op, Recalled(h))
         /\ seen'.left = (seen.left \/ (b.op = "replace_upcoming" /\ commands' = commands))
         /\ seen'.crossed = seen.crossed
         /\ seen'.asked = seen.asked /\ seen'.asks = seen.asks
         /\ UNCHANGED <<paused, pending, phone, report, heard>>
<1> DEFINE todo == job[h].batches
<1>1. /\ job \in [{"top_up", "replan"} -> Job] /\ seen \in Seen /\ TypeOK
  BY DEF Types, TypeOK, Seen
<1>2. /\ todo \in Seq(Batch) /\ todo # <<>>
      /\ job'[h].picks = <<>> \/ job'[h].picks = job[h].picks
      /\ job'[h].cues = <<>> \/ job'[h].cues = job[h].cues
      /\ job'[h].batches = Tail(job[h].batches)
      /\ job'[h] = Idle \/ job'[h].step = "sending"
      /\ \A g \in Handlers : g # h => job'[g] = job[g]
  BY SendTypes
<1>3. Head(todo) = b /\ b \in Batch /\ 1 \in DOMAIN todo
  BY <1>2, TailDoes
<1>4. b.op \in Ops /\ b.ids \in Seq(Tracks)
  BY <1>3 DEF Batch
<1>5. IsInjective(b.ids)
  BY <1>3 DEF AllTidy, Tidy
<1>6. /\ Enqueue(Head(todo).op, Head(todo).ids)
      /\ seen' = [seen EXCEPT
           !.blind = Blindly(Head(todo).op, Recalled(h)),
           !.left = @ \/ (Head(todo).op = "replace_upcoming" /\ commands' = commands)]
      /\ job[h].step = "sending"
      /\ UNCHANGED <<paused, pending, phone, report, heard>>
  BY DEF Send, pool
<1>7. commands' = commands \/ Added(b.op, b.ids)
  BY <1>1, <1>3, <1>4, <1>6, Adds
<1> HIDE DEF todo
<1>8. /\ seen' = [seen EXCEPT
           !.blind = Blindly(b.op, Recalled(h)),
           !.left = seen.left \/ (b.op = "replace_upcoming" /\ commands' = commands)]
  BY <1>1, <1>3, <1>6
<1>9. /\ seen'.blind = Blindly(b.op, Recalled(h))
      /\ seen'.left = (seen.left \/ (b.op = "replace_upcoming" /\ commands' = commands))
      /\ seen'.crossed = seen.crossed
      /\ seen'.asked = seen.asked /\ seen'.asks = seen.asks
  BY <1>1, <1>8 DEF Seen
<1>10. job[h] \in Job
  BY <1>1 DEF Handlers
<1> QED
  BY <1>2, <1>3, <1>4, <1>5, <1>6, <1>7, <1>9, <1>10 DEF todo

LEMMA AddedTidy ==
  ASSUME \A i \in DOMAIN commands : IsInjective(commands[i].ids),
         NEW op, NEW ids, IsInjective(ids),
         commands' = commands \/ Added(op, ids)
  PROVE  \A i \in DOMAIN commands' : IsInjective(commands'[i].ids)
<1>1. CASE commands' = commands
  BY <1>1
<1>2. ASSUME Added(op, ids)
      PROVE  \A i \in DOMAIN commands' : IsInjective(commands'[i].ids)
  <2>1. PICK kept \in Seq(Tracks), n \in Nat \ {0} :
          /\ IsInjective(kept)
          /\ DOMAIN commands = 1 .. n - 1 /\ DOMAIN commands' = 1 .. n
          /\ \A i \in 1 .. n - 1 : commands'[i] = commands[i]
          /\ commands'[n].ids = kept
    BY <1>2, Zenon DEF Added
  <2>2. \A i \in 1 .. n : i \in 1 .. n - 1 \/ i = n
    OBVIOUS
  <2> QED
    BY <2>1, <2>2
<1> QED
  BY <1>1, <1>2

LEMMA SendTidy ==
  ASSUME Types, AllTidy, NEW h \in Handlers, Send(h)
  PROVE  AllTidy'
<1> DEFINE b == job[h].batches[1]
<1>1. b = job[h].batches[1]
  OBVIOUS
<1> HIDE DEF b
<1>2. /\ job[h].batches \in Seq(Batch) /\ job[h].batches # <<>> /\ IsInjective(b.ids)
      /\ job'[h].picks = <<>> \/ job'[h].picks = job[h].picks
      /\ job'[h].cues = <<>> \/ job'[h].cues = job[h].cues
      /\ job'[h].batches = Tail(job[h].batches)
      /\ job'[h] = Idle \/ job'[h].step = "sending"
      /\ \A g \in Handlers : g # h => job'[g] = job[g]
      /\ commands' = commands \/ Added(b.op, b.ids)
  BY <1>1, SendDoes
<1>3. Tidy(job[h])
  BY DEF AllTidy
<1>4. Tidy(job'[h])
  <2>1. CASE job'[h] = Idle
    BY <2>1, IdleTidy DEF Idle
  <2>2. CASE job'[h].step = "sending"
    <3> DEFINE t == Tail(job[h].batches)
    <3>1. \A k \in DOMAIN t : k + 1 \in DOMAIN job[h].batches /\ t[k] = job[h].batches[k + 1]
      BY <1>2, TailDoes
    <3>2. \A k \in DOMAIN t : IsInjective(t[k].ids)
      BY <1>3, <3>1 DEF Tidy
    <3>3. job'[h].batches = t
      BY <1>2
    <3>4. IsInjective(<<>>)
      BY DEF IsInjective
    <3> HIDE DEF t
    <3> QED
      BY <1>2, <1>3, <2>2, <3>2, <3>3, <3>4 DEF Tidy
  <2> QED
    BY <1>2, <2>1, <2>2
<1>5. \A g \in Handlers : Tidy(job'[g])
  BY <1>2, <1>4 DEF AllTidy
<1>6. \A i \in DOMAIN commands' : IsInjective(commands'[i].ids)
  BY <1>2, AddedTidy DEF AllTidy
<1> QED
  BY <1>5, <1>6 DEF AllTidy

LEMMA AgentDoes ==
  ASSUME Types, NEW op \in Ops, NEW t \in Others, AgentSends(op, t)
  PROVE  /\ t \in Tracks /\ <<t>> \in Seq(Tracks) /\ Len(<<t>>) = 1
         /\ ToSet(<<t>>) = {t} /\ IsInjective(<<t>>)
         /\ commands' = commands \/ Added(op, <<t>>)
         /\ seen'.blind = Blindly(op, {}) /\ seen'.asked = seen.asked \cup {t}
         /\ seen'.asks = seen.asks + 1 /\ seen.asks \in Nat
         /\ seen'.crossed = seen.crossed /\ seen'.left = seen.left
         /\ UNCHANGED <<pool, phone, report, job, heard>>
<1>1. seen \in Seen /\ TypeOK
  BY DEF Types, TypeOK, Seen
<1>2. t \in Tracks
  BY PoolAssumption
<1>3. <<t>> \in Seq(Tracks) /\ Len(<<t>>) = 1 /\ ToSet(<<t>>) = {t} /\ IsInjective(<<t>>)
  BY <1>2 DEF ToSet, IsInjective
<1>4. /\ Enqueue(op, <<t>>) 
      /\ seen' = [seen EXCEPT !.blind = Blindly(op, {}), !.asked = seen.asked \cup {t},
                              !.asks = seen.asks + 1]
      /\ UNCHANGED <<pool, phone, report, job, heard>>
  BY DEF AgentSends
<1>5. /\ seen'.blind = Blindly(op, {}) /\ seen'.asked = seen.asked \cup {t}
      /\ seen'.asks = seen.asks + 1 /\ seen.asks \in Nat
      /\ seen'.crossed = seen.crossed /\ seen'.left = seen.left
  BY <1>1, <1>4 DEF Seen
<1> QED
  BY <1>1, <1>2, <1>3, <1>4, <1>5, Adds

\* The commands keep their order and their songs, but for the one that is carried out.
LEMMA ExecuteDoes ==
  ASSUME Types, NEW i \in DOMAIN commands, Execute(i)
  PROVE  /\ commands[i].op \in Ops /\ commands[i].ids \in Seq(Tracks)
         /\ queue' = Applied(commands[i].op, commands[i].ids)
         /\ i \in 1 .. Len(commands) /\ Len(commands) \in Nat
         /\ Len(commands') = Len(commands) - 1
         /\ DOMAIN commands' = 1 .. Len(commands) - 1 /\ DOMAIN commands = 1 .. Len(commands)
         /\ \A k \in DOMAIN commands' :
              /\ k < i => k \in DOMAIN commands /\ commands'[k] = commands[k]
              /\ k >= i => k + 1 \in DOMAIN commands /\ commands'[k] = commands[k + 1]
         /\ commands[i].late \/ \A k \in 1 .. i - 1 : commands[k].late
         /\ UNCHANGED <<pool, at, report, job, heard, seen, events>>
<1>1. commands \in Seq(Sent)
  BY DEF Types, TypeOK, Sent
<1>2. commands[i] \in Sent /\ i \in 1 .. Len(commands) /\ Len(commands) \in Nat
      /\ DOMAIN commands = 1 .. Len(commands)
  BY <1>1
<1>3. commands[i].op \in Ops /\ commands[i].ids \in Seq(Tracks)
  BY <1>2 DEF Sent
<1>4. /\ commands' \in Seq(Sent) /\ Len(commands') = Len(commands) - 1
      /\ \A k \in DOMAIN commands' :
           /\ k < i => k \in DOMAIN commands /\ commands'[k] = commands[k]
           /\ k >= i => k + 1 \in DOMAIN commands /\ commands'[k] = commands[k + 1]
  BY <1>1, RemoveDoes DEF Execute
<1>5. DOMAIN commands' = 1 .. Len(commands')
  BY <1>4
<1>6. /\ queue' = Applied(commands[i].op, commands[i].ids)
      /\ commands[i].late \/ \A k \in 1 .. i - 1 : commands[k].late
      /\ UNCHANGED <<pool, at, report, job, heard, seen, events>>
  BY DEF Execute
<1> QED
  BY <1>2, <1>3, <1>4, <1>5, <1>6

LEMMA OtherTidy ==
  ASSUME Types, AllTidy,
         \/ SetState
         \/ \E l \in Lanes : PauseLane(l) \/ ResumeLane(l)
         \/ \E op \in Ops, t \in Others : AgentSends(op, t)
         \/ PhoneNext
  PROVE  AllTidy'
<1>1. job \in [{"top_up", "replan"} -> Job]
  BY DEF Types, TypeOK
<1>2. \A g \in Handlers : Tidy(job[g])
  BY DEF AllTidy
<1>3. \A i \in DOMAIN commands : IsInjective(commands[i].ids)
  BY DEF AllTidy
<1>4. ASSUME NEW h \in Handlers, NEW j, Tidy(j), job' = [job EXCEPT ![h] = j],
             commands' = commands
      PROVE  AllTidy'
  <2>1. \A g \in Handlers : job'[g] = j \/ job'[g] = job[g]
    BY <1>1, <1>4 DEF Handlers
  <2> QED
    BY <1>2, <1>3, <1>4, <2>1 DEF AllTidy
<1>5. Tidy(Idle)
  BY IdleTidy DEF Idle
<1>6. CASE SetState
  <2>1. commands' = commands
    BY <1>6, SetStateDoes
  <2>2. CASE job' = [job EXCEPT !["top_up"] = Idle]
    BY <1>4, <1>5, <2>1, <2>2 DEF Handlers
  <2>3. ASSUME NEW cp \in Seq(Tracks), NEW j \in Job, Begun(j, cp), IsInjective(cp),
               job' = [job EXCEPT !["top_up"] = j]
        PROVE  AllTidy'
    <3>1. Tidy(j)
      BY <2>3, BegunTidy
    <3> QED
      BY <1>4, <2>1, <2>3, <3>1 DEF Handlers
  <2> QED
    BY <1>6, <2>2, <2>3, SetStateDoes
<1>7. ASSUME NEW l \in Lanes, PauseLane(l)
      PROVE  AllTidy'
  <2>1. commands' = commands
    BY <1>7, PauseLaneDoes
  <2>2. CASE job' = job
    BY <2>1, <2>2 DEF AllTidy
  <2>3. ASSUME NEW j \in Job, Begun(j, <<>>), job' = [job EXCEPT !["replan"] = j]
        PROVE  AllTidy'
    <3>1. <<>> \in Seq(Tracks) /\ IsInjective(<<>>)
      BY DEF IsInjective
    <3>2. Tidy(j)
      BY <2>3, <3>1, BegunTidy
    <3> QED
      BY <1>4, <2>1, <2>3, <3>2 DEF Handlers
  <2> QED
    BY <1>7, <2>2, <2>3, PauseLaneDoes
<1>8. ASSUME NEW l \in Lanes, ResumeLane(l)
      PROVE  AllTidy'
  BY <1>8 DEF AllTidy, ResumeLane
<1>9. ASSUME NEW op \in Ops, NEW t \in Others, AgentSends(op, t)
      PROVE  AllTidy'
  <2>1. job' = job /\ (commands' = commands \/ Added(op, <<t>>)) /\ IsInjective(<<t>>)
    BY <1>9, AgentDoes
  <2>2. \A i \in DOMAIN commands' : IsInjective(commands'[i].ids)
    BY <1>3, <2>1, AddedTidy
  <2> QED
    BY <1>2, <2>1, <2>2 DEF AllTidy
<1>10. CASE Sample
  <2> DEFINE s == [Idle EXCEPT !.step = "sampled", !.sample = [queue |-> queue, at |-> at]]
  <2>1. s.picks = <<>> /\ s.cues = <<>> /\ s.batches = <<>> /\ s.step # "picking"
    BY DEF Idle
  <2>2. job' = [job EXCEPT !["top_up"] = s] /\ commands' = commands
    BY <1>10 DEF Sample
  <2> HIDE DEF s
  <2> QED
    BY <1>4, <2>1, <2>2, IdleTidy DEF Handlers
<1>11. ASSUME NEW i \in DOMAIN commands, Lose(i)
       PROVE  AllTidy'
  <2>1. /\ DOMAIN commands' = DOMAIN commands
        /\ \A k \in DOMAIN commands : commands'[k].ids = commands[k].ids
    <3>1. commands \in Seq(Sent)
      BY DEF Types, TypeOK, Sent
    <3>2. \A k \in DOMAIN commands : commands[k] \in Sent
      BY <3>1
    <3>3. commands' = [commands EXCEPT ![i] = [commands[i] EXCEPT !.late = TRUE]]
      BY <1>11 DEF Lose
    <3>4. [commands[i] EXCEPT !.late = TRUE].ids = commands[i].ids
      BY <3>2 DEF Sent
    <3> QED
      BY <3>1, <3>3, <3>4
  <2>2. job' = job
    BY <1>11 DEF Lose
  <2> QED
    BY <2>1, <2>2 DEF AllTidy
<1>12. ASSUME NEW i \in DOMAIN commands, Execute(i)
       PROVE  AllTidy'
  <2>1. /\ job' = job /\ DOMAIN commands' \subseteq Int /\ i \in Int
        /\ \A k \in DOMAIN commands' :
             /\ k < i => k \in DOMAIN commands /\ commands'[k] = commands[k]
             /\ k >= i => k + 1 \in DOMAIN commands /\ commands'[k] = commands[k + 1]
    BY <1>12, ExecuteDoes
  <2>2. \A k \in DOMAIN commands' : k < i \/ k >= i
    BY <2>1
  <2>3. \A k \in DOMAIN commands' : IsInjective(commands'[k].ids)
    BY <1>3, <2>1, <2>2
  <2> QED
    BY <1>2, <2>1, <2>3 DEF AllTidy
<1>13. CASE NextSong
  BY <1>13 DEF AllTidy, NextSong
<1>14. ASSUME NEW t \in Others, PlayOther(t)
       PROVE  AllTidy'
  BY <1>14 DEF AllTidy, PlayOther
<1> QED
  BY <1>6, <1>7, <1>8, <1>9, <1>10, <1>11, <1>12, <1>13, <1>14 DEF PhoneNext

\* Every step keeps the types, and every handler tidy.
LEMMA StepKeepsTypes ==
  ASSUME Types, AllTidy, [Next]_vars
  PROVE  Types' /\ AllTidy'
<1>1. Distinct
  BY DEF Distinct, AllTidy, Tidy
<1>2. job \in [{"top_up", "replan"} -> Job]
  BY DEF Types, TypeOK
<1>3. DOMAIN job = Handlers
  BY <1>2 DEF Handlers
<1>4. ASSUME SetState
      PROVE  Types' /\ AllTidy'
  BY <1>4, SetStateTypes, OtherTidy
<1>5. ASSUME NEW l \in Lanes, PauseLane(l) \/ ResumeLane(l)
      PROVE  Types' /\ AllTidy'
  BY <1>5, LaneTypes, OtherTidy
<1>6. ASSUME NEW h \in Handlers, NEW l \in Lanes, NEW t \in TracksOf[l], Pick(h, l, t)
      PROVE  Types' /\ AllTidy'
  BY <1>6, PickTypes, PickTidy
<1>7. ASSUME NEW h \in Handlers, Picked(h)
      PROVE  Types' /\ AllTidy'
  BY <1>1, <1>7, PickedTypes, PickedTidy
<1>8. ASSUME NEW h \in Handlers, Send(h)
      PROVE  Types' /\ AllTidy'
  BY <1>8, SendTypes, SendTidy
<1>9. ASSUME NEW op \in Ops, NEW t \in Others, AgentSends(op, t)
      PROVE  Types' /\ AllTidy'
  BY <1>9, AgentTypes, OtherTidy
<1>10. ASSUME PhoneNext
       PROVE  Types' /\ AllTidy'
  <2>1. AllTidy'
    BY <1>10, OtherTidy
  <2> QED
    BY <1>10, <2>1, SampleTypes, LoseTypes, ExecuteTypes, PhoneTypes DEF PhoneNext
<1>11. ASSUME UNCHANGED vars
       PROVE  Types' /\ AllTidy'
  BY <1>11 DEF vars, pool, phone, Types, TypeOK, Steady, AllTidy
<1> QED
  BY <1>3, <1>4, <1>5, <1>6, <1>7, <1>8, <1>9, <1>10, <1>11 DEF Next, PoolNext

LEMMA InitTypes == Init => Types /\ AllTidy
<1> SUFFICES ASSUME Init
             PROVE  Types /\ AllTidy
  OBVIOUS
<1>1. Idle \in Job /\ NoReport \in Report /\ Tidy(Idle) /\ Idle.step = "idle"
  BY IdleType, IdleTidy DEF Idle
<1>2. \A h \in Handlers : job[h] = Idle
  BY DEF Init, Handlers
<1>3. job \in [{"top_up", "replan"} -> Job]
  BY <1>1 DEF Init
<1>4. last \in [Lanes -> Int] /\ turn \in Nat
  BY DEF Init
<1>5. played \in Seq(Tracks) /\ commands \in Seq([op: Ops, ids: Seq(Tracks), late: BOOLEAN])
  BY DEF Init
<1>6. queue \in Seq(Tracks) /\ at \in 1 .. Len(queue)
  <2>1. <<Song>> \in Seq(Tracks) /\ Len(<<Song>>) = 1
    BY PoolAssumption
  <2> QED
    BY <2>1 DEF Init
<1>7. seen \in [blind: BOOLEAN, crossed: BOOLEAN, left: BOOLEAN, asked: SUBSET Tracks,
                asks: Nat]
  BY DEF Init
<1>8. events \in 0 .. MaxEvents /\ heard \subseteq Tracks /\ paused \subseteq Lanes
      /\ pending \subseteq Cues /\ report \in Report
  BY <1>1, PoolAssumption DEF Init
<1>9. lastTop \in Tracks \cup {NoTrack}
  BY DEF Init
<1>10. TypeOK
  BY <1>3, <1>4, <1>5, <1>6, <1>7, <1>8, <1>9 DEF TypeOK
<1>11. Steady
  BY <1>1, <1>2 DEF Steady, Handlers, Init
<1>12. DOMAIN commands = {}
  BY DEF Init
<1>13. AllTidy
  BY <1>1, <1>2, <1>12 DEF AllTidy
<1> QED
  BY <1>10, <1>11, <1>13 DEF Types

\* Every variable keeps its type: what the phone plays is in its queue, and what the
\* pool picks, what its handlers hold and what waits on the bus are songs it has,
\* whatever overlaps.
THEOREM TypeCorrect == Spec => []TypeOK
<1>1. Types => TypeOK
  BY DEF Types
<1> QED
  BY InitTypes, StepKeepsTypes, <1>1, PTL DEF Spec

-----------------------------------------------------------------------------
(* No song is to come twice *)

Ids(i) == ToSet(commands[i].ids)
Replaces(c) == c.op = "replace_upcoming"

\* Songs of the queue from the current one on are different; those of different
\* commands are; and a command has none of what will still be there when it is carried
\* out.
Once ==
  /\ \A x, y \in at .. Len(queue) : queue[x] = queue[y] => x = y
  /\ \A i, k \in DOMAIN commands : i # k => Ids(i) \cap Ids(k) = {}
  /\ \A i \in DOMAIN commands :
       /\ queue[at] \notin Ids(i)
       /\ ~Replaces(commands[i]) => \A x \in at .. Len(queue) : queue[x] \notin Ids(i)

Apart == ~seen.blind => Once

\* Where the songs of a command are in the queue that it leaves.
LEMMA AppliedPlaces ==
  ASSUME TypeOK, NEW op \in Ops, NEW ids \in Seq(Tracks)
  PROVE  \E p \in at .. Len(queue), n \in Nat :
           /\ n = Len(ids) /\ (op = "replace_upcoming" => p = at)
           /\ \A x \in 1 .. p : Applied(op, ids)[x] = queue[x]
           /\ \A x \in 1 .. n : Applied(op, ids)[p + x] = ids[x]
           /\ Len(Applied(op, ids))
              = (IF op = "replace_upcoming" THEN at ELSE Len(queue)) + n
           /\ op # "replace_upcoming"
              => \A x \in p + 1 .. Len(queue) : Applied(op, ids)[x + n] = queue[x]
<1> DEFINE now == SubSeq(queue, 1, at)
           rest == SubSeq(queue, at + 1, Len(queue))
           new == Applied(op, ids)
           n == Len(ids)
           q == Len(queue)
<1>1. queue \in Seq(Tracks) /\ at \in 1 .. q /\ q \in Nat /\ n \in Nat
  BY DEF TypeOK
<1>2. now \in Seq(Tracks) /\ Len(now) = at /\ \A k \in 1 .. at : now[k] = queue[k]
  BY <1>1
<1>3. rest \in Seq(Tracks) /\ Len(rest) = q - at /\ \A k \in 1 .. q - at : rest[k] = queue[at + k]
  BY <1>1
<1>4. new = CASE op = "queue" -> queue \o ids
              [] op = "play_next" -> now \o ids \o rest
              [] op = "replace_upcoming" -> now \o ids
  BY DEF Applied
<1>5. Len(new) = (IF op = "replace_upcoming" THEN at ELSE q) + n
  BY AppliedDoes
<1> HIDE DEF now, rest, new
<1>6. CASE op = "queue"
  <2>1. new = queue \o ids
    BY <1>4, <1>6
  <2>2. /\ \A x \in 1 .. q : new[x] = queue[x]
        /\ \A x \in 1 .. n : new[q + x] = ids[x]
    BY <1>1, <2>1, JoinDoes
  <2>3. \A x \in q + 1 .. q : FALSE
    BY <1>1
  <2>4. q \in at .. q
    BY <1>1
  <2> HIDE DEF n, q
  <2>5. /\ n = Len(ids) /\ (op = "replace_upcoming" => q = at)
        /\ \A x \in 1 .. q : new[x] = queue[x]
        /\ \A x \in 1 .. n : new[q + x] = ids[x]
        /\ Len(new) = (IF op = "replace_upcoming" THEN at ELSE q) + n
        /\ op # "replace_upcoming" => \A x \in q + 1 .. q : new[x + n] = queue[x]
    BY <1>5, <1>6, <2>2, <2>3 DEF n
  <2> QED
    BY <1>1, <2>4, <2>5 DEF new, q
<1>7. CASE op = "play_next"
  <2> DEFINE front == now \o ids
  <2>1. new = front \o rest
    BY <1>4, <1>7
  <2>2. /\ front \in Seq(Tracks) /\ Len(front) = at + n
        /\ \A x \in 1 .. at : front[x] = now[x]
        /\ \A x \in 1 .. n : front[at + x] = ids[x]
    <3>1. front = now \o ids
      OBVIOUS
    <3> HIDE DEF front
    <3>2. /\ front \in Seq(Tracks) /\ Len(front) = Len(now) + Len(ids)
          /\ \A x \in 1 .. Len(now) : front[x] = now[x]
      BY <1>2, <3>1, JoinDoes
    <3>3. \A x \in 1 .. Len(ids) : front[Len(now) + x] = ids[x]
      BY <1>2, <3>1, JoinDoes
    <3> QED
      BY <1>2, <3>2, <3>3
  <2> HIDE DEF front, n
  <2>3. /\ \A x \in 1 .. at + n : new[x] = front[x]
        /\ \A x \in 1 .. q - at : new[at + n + x] = rest[x]
    BY <1>3, <2>1, <2>2, JoinDoes
  <2>4. \A x \in 1 .. at : new[x] = queue[x]
    BY <1>1, <1>2, <2>2, <2>3
  <2>5. \A x \in 1 .. n : new[at + x] = ids[x]
    BY <1>1, <2>2, <2>3
  <2>6. \A x \in at + 1 .. q : new[x + n] = queue[x]
    <3> SUFFICES ASSUME NEW x \in at + 1 .. q
                 PROVE  new[x + n] = queue[x]
      OBVIOUS
    <3>1. x - at \in 1 .. q - at /\ at + n + (x - at) = x + n /\ at + (x - at) = x
      BY <1>1
    <3>2. new[x + n] = rest[x - at] /\ rest[x - at] = queue[x]
      BY <1>3, <2>3, <3>1
    <3> QED
      BY <3>2
  <2>7. at \in at .. q
    BY <1>1
  <2>8. /\ n = Len(ids) /\ (op = "replace_upcoming" => at = at)
        /\ \A x \in 1 .. at : new[x] = queue[x]
        /\ \A x \in 1 .. n : new[at + x] = ids[x]
        /\ Len(new) = (IF op = "replace_upcoming" THEN at ELSE q) + n
        /\ op # "replace_upcoming" => \A x \in at + 1 .. q : new[x + n] = queue[x]
    BY <1>5, <2>4, <2>5, <2>6 DEF n
  <2> QED
    BY <1>1, <2>7, <2>8 DEF new
<1>8. CASE op = "replace_upcoming"
  <2>1. new = now \o ids
    BY <1>4, <1>8
  <2>2. /\ \A x \in 1 .. at : new[x] = now[x]
        /\ \A x \in 1 .. n : new[at + x] = ids[x]
    BY <1>2, <2>1, JoinDoes
  <2> HIDE DEF n
  <2>3. at \in at .. q
    BY <1>1
  <2>4. /\ n = Len(ids) /\ (op = "replace_upcoming" => at = at)
        /\ \A x \in 1 .. at : new[x] = queue[x]
        /\ \A x \in 1 .. n : new[at + x] = ids[x]
        /\ Len(new) = (IF op = "replace_upcoming" THEN at ELSE q) + n
        /\ op # "replace_upcoming" => \A x \in at + 1 .. q : new[x + n] = queue[x]
    BY <1>2, <1>5, <1>8, <2>2 DEF n
  <2> QED
    BY <1>1, <2>3, <2>4 DEF new
<1> QED
  BY <1>6, <1>7, <1>8 DEF Ops

LEMMA ExecuteOnce ==
  ASSUME Types, AllTidy, Once, NEW i \in DOMAIN commands, Execute(i)
  PROVE  Once'
<1> DEFINE op == commands[i].op
           ids == commands[i].ids
<1>1. /\ op \in Ops /\ ids \in Seq(Tracks)
      /\ queue' = Applied(op, ids) /\ at' = at
      /\ DOMAIN commands' \subseteq Int /\ i \in Int
      /\ \A k \in DOMAIN commands' :
           /\ k < i => k \in DOMAIN commands /\ commands'[k] = commands[k]
           /\ k >= i => k + 1 \in DOMAIN commands /\ commands'[k] = commands[k + 1]
  BY ExecuteDoes
<1>2. TypeOK /\ at \in 1 .. Len(queue) /\ Len(queue) \in Nat
  BY DEF Types, TypeOK
<1>3. \A x, y \in DOMAIN ids : ids[x] = ids[y] => x = y
  BY DEF AllTidy, IsInjective
<1>4. PICK p \in at .. Len(queue), n \in Nat :
        /\ n = Len(ids) /\ (op = "replace_upcoming" => p = at)
        /\ \A x \in 1 .. p : queue'[x] = queue[x]
        /\ \A x \in 1 .. n : queue'[p + x] = ids[x]
        /\ Len(queue') = (IF op = "replace_upcoming" THEN at ELSE Len(queue)) + n
        /\ op # "replace_upcoming"
           => \A x \in p + 1 .. Len(queue) : queue'[x + n] = queue[x]
  BY <1>1, <1>2, AppliedPlaces
<1>5. DOMAIN ids = 1 .. n
  BY <1>1, <1>4
<1>6. \A x \in 1 .. n : ids[x] \in Ids(i)
  BY <1>5 DEF Ids, ToSet
<1>7. /\ queue[at] \notin Ids(i)
      /\ op # "replace_upcoming" => \A x \in at .. Len(queue) : queue[x] \notin Ids(i)
  BY DEF Once, Replaces
\* Each song to come was in the queue or is of the command.
<1> DEFINE Stays(x, y) == /\ y \in at .. Len(queue) /\ queue'[x] = queue[y]
                          /\ y \in at + 1 .. Len(queue) => op # "replace_upcoming"
                          /\ \/ x = y /\ y <= p
                             \/ x = y + n /\ y > p
           Comes(x, y) == y \in 1 .. n /\ queue'[x] = ids[y] /\ x = p + y
<1> HIDE DEF op, ids
<1>8. \A x \in at .. Len(queue') : (\E y \in Int : Stays(x, y)) \/ (\E y \in Int : Comes(x, y))
  <2> SUFFICES ASSUME NEW x \in at .. Len(queue')
               PROVE  (\E y \in Int : Stays(x, y)) \/ (\E y \in Int : Comes(x, y))
    OBVIOUS
  <2>1. CASE x <= p
    <3>1. x \in 1 .. p /\ x \in at .. Len(queue) /\ x \in Int
      BY <1>2, <2>1
    <3>2. x \in at + 1 .. Len(queue) => op # "replace_upcoming"
      BY <1>2, <1>4, <2>1
    <3>3. Stays(x, x)
      BY <1>4, <2>1, <3>1, <3>2
    <3> HIDE DEF Stays
    <3> QED
      BY <3>1, <3>3
  <2>2. CASE x > p /\ x <= p + n
    <3>1. x - p \in 1 .. n /\ x - p \in Int /\ p + (x - p) = x
      BY <1>2, <2>2
    <3>2. Comes(x, x - p)
      BY <1>4, <3>1
    <3> HIDE DEF Comes
    <3> QED
      BY <3>1, <3>2
  <2>3. CASE x > p + n
    <3>1. op # "replace_upcoming"
      BY <1>2, <1>4, <2>3
    <3>2. x - n \in p + 1 .. Len(queue) /\ x - n \in Int /\ x - n + n = x
      BY <1>2, <1>4, <2>3, <3>1
    <3>3. queue'[x] = queue[x - n]
      BY <1>4, <3>1, <3>2
    <3>4. Stays(x, x - n)
      BY <1>2, <1>4, <3>1, <3>2, <3>3
    <3> HIDE DEF Stays
    <3> QED
      BY <3>2, <3>4
  <2> QED
    BY <1>2, <1>4, <2>1, <2>2, <2>3
<1>9. \A y \in at .. Len(queue) : op # "replace_upcoming" \/ y = at => queue[y] \notin Ids(i)
  BY <1>7
<1>10. ASSUME NEW x \in at .. Len(queue'), NEW y \in at .. Len(queue'), queue'[x] = queue'[y]
       PROVE  x = y
  <2>1. ASSUME NEW a \in Int, NEW b \in Int, Stays(x, a), Stays(y, b)
        PROVE  x = y
    <3>1. a = b
      BY <1>10, <2>1 DEF Once
    <3> QED
      BY <2>1, <3>1
  <2>2. ASSUME NEW a \in Int, NEW b \in Int, Comes(x, a), Comes(y, b)
        PROVE  x = y
    <3>1. ids[a] = ids[b]
      BY <1>10, <2>2
    <3>2. a = b
      BY <1>3, <1>5, <2>2, <3>1
    <3> QED
      BY <2>2, <3>2
  <2>3. \A u, a, v, b \in Int : Stays(u, a) /\ Comes(v, b) => queue'[u] # queue'[v]
    BY <1>2, <1>6, <1>9
  <2> HIDE DEF Stays, Comes
  <2>4. x \in Int /\ y \in Int
    BY <1>2
  <2> QED
    BY <1>8, <1>10, <2>1, <2>2, <2>3, <2>4
<1>11. ASSUME NEW k \in DOMAIN commands'
       PROVE  \E j \in DOMAIN commands : j # i /\ commands'[k] = commands[j]
                                         /\ (k < i => j = k) /\ (k >= i => j = k + 1)
  BY <1>1
<1>12. ASSUME NEW j \in DOMAIN commands, j # i, NEW x \in at .. Len(queue'),
              x = at \/ ~Replaces(commands[j])
       PROVE  queue'[x] \notin Ids(j)
  <2>1. ASSUME NEW y \in Int, Stays(x, y)
        PROVE  queue'[x] \notin Ids(j)
    <3>1. x = at => y = at
      BY <1>2, <2>1
    <3>2. queue[y] \notin Ids(j)
      BY <1>2, <1>12, <2>1, <3>1 DEF Once
    <3> QED
      BY <2>1, <3>2
  <2>2. ASSUME NEW y \in Int, Comes(x, y)
        PROVE  queue'[x] \notin Ids(j)
    <3>1. queue'[x] \in Ids(i)
      BY <1>6, <2>2
    <3> QED
      BY <1>12, <3>1 DEF Once
  <2> HIDE DEF Stays, Comes
  <2> QED
    BY <1>8, <2>1, <2>2
<1>13. at \in at .. Len(queue')
  BY <1>2, <1>4
<1>14. \A k, m \in DOMAIN commands' :
         k # m => ToSet(commands'[k].ids) \cap ToSet(commands'[m].ids) = {}
  <2> SUFFICES ASSUME NEW k \in DOMAIN commands', NEW m \in DOMAIN commands', k # m
               PROVE  ToSet(commands'[k].ids) \cap ToSet(commands'[m].ids) = {}
    OBVIOUS
  <2>1. PICK a \in DOMAIN commands : commands'[k] = commands[a]
                                     /\ (k < i => a = k) /\ (k >= i => a = k + 1)
    BY <1>11
  <2>2. PICK b \in DOMAIN commands : commands'[m] = commands[b]
                                     /\ (m < i => b = m) /\ (m >= i => b = m + 1)
    BY <1>11
  <2>3. a # b
    BY <1>1, <2>1, <2>2
  <2> QED
    BY <2>1, <2>2, <2>3 DEF Once, Ids
<1>15. \A k \in DOMAIN commands' :
         /\ queue'[at] \notin ToSet(commands'[k].ids)
         /\ ~Replaces(commands'[k])
            => \A x \in at .. Len(queue') : queue'[x] \notin ToSet(commands'[k].ids)
  BY <1>11, <1>12, <1>13 DEF Ids
<1> QED
  BY <1>1, <1>10, <1>14, <1>15 DEF Once, Ids, Replaces

\* A command sent while nothing that is to come was unknown shares no song with it.
LEMMA AddedOnce ==
  ASSUME Types, Once, NEW op \in Ops, NEW ids, NEW known,
         Added(op, ids), ~Blindly(op, known), ToSet(ids) \cap known = {},
         UNCHANGED phone
  PROVE  Once'
<1>1. PICK kept \in Seq(Tracks), n \in Nat \ {0} :
        /\ ToSet(kept) = ToSet(ids) \ Guarded(op)
        /\ Len(commands) = n - 1 /\ DOMAIN commands = 1 .. n - 1
        /\ Len(commands') = n /\ DOMAIN commands' = 1 .. n
        /\ \A i \in 1 .. n - 1 : commands'[i] = commands[i]
        /\ commands'[n].op = op /\ commands'[n].ids = kept /\ ~commands'[n].late
  BY Zenon DEF Added
<1>2. at \in 1 .. Len(queue) /\ Len(queue) \in Nat /\ queue \in Seq(Tracks)
  BY DEF Types, TypeOK
<1>3. queue' = queue /\ at' = at
  BY DEF phone
<1>4. CASE op = "replace_upcoming"
  <2>1. report = Now /\ commands = <<>>
    BY <1>4 DEF Blindly
  <2>2. report # NoReport /\ Playing(report) = queue[at]
    BY <1>2, <2>1 DEF Now, NoReport, Playing
  <2>3. queue[at] \in Guarded(op)
    BY <2>2 DEF Guarded
  <2>4. n = 1
    BY <1>1, <2>1
  <2>5. \A i \in DOMAIN commands' : i = n
    BY <1>1, <2>4
  <2> QED
    BY <1>1, <1>3, <1>4, <2>3, <2>5 DEF Once, Ids, Replaces
<1>5. CASE op # "replace_upcoming"
  <2>1. ToCome \subseteq Picture \cup known
    BY <1>5 DEF Blindly
  <2>2. Picture \subseteq Guarded(op)
    BY <1>5 DEF Picture, Guarded
  <2>3. ToCome \cap ToSet(kept) = {}
    BY <1>1, <2>1, <2>2
  <2>4. \A x \in at .. Len(queue) : queue[x] \notin ToSet(kept)
    <3> DEFINE a == at - 1
    <3>1. a \in Nat /\ a <= Len(queue) /\ Len(queue) <= Len(queue) /\ a + 1 = at
      BY <1>2
    <3> HIDE DEF a
    <3>2. ToSet(SubSeq(queue, a + 1, Len(queue))) = {queue[x] : x \in a + 1 .. Len(queue)}
      BY <1>2, <3>1, SliceDoes, Zenon
    <3>3. \A x \in at .. Len(queue) : queue[x] \in ToSet(SubSeq(queue, at, Len(queue)))
      BY <3>1, <3>2
    <3> QED
      BY <2>3, <3>3 DEF ToCome
  <2>5. \A i \in DOMAIN commands : Ids(i) \cap ToSet(kept) = {}
    BY <2>3, Zenon DEF ToCome, Ids
  <2>6. at \in at .. Len(queue)
    BY <1>2
  <2>7. \A i \in DOMAIN commands' : (i \in DOMAIN commands /\ commands'[i] = commands[i]) \/ i = n
    BY <1>1
  <2>8. \A i, k \in DOMAIN commands' :
          i # k => ToSet(commands'[i].ids) \cap ToSet(commands'[k].ids) = {}
    <3> SUFFICES ASSUME NEW i \in DOMAIN commands', NEW k \in DOMAIN commands', i # k
                 PROVE  ToSet(commands'[i].ids) \cap ToSet(commands'[k].ids) = {}
      OBVIOUS
    <3>1. CASE i = n
      <4>1. k \in DOMAIN commands /\ commands'[k] = commands[k]
        BY <2>7, <3>1
      <4> QED
        BY <1>1, <2>5, <3>1, <4>1 DEF Ids
    <3>2. CASE k = n
      <4>1. i \in DOMAIN commands /\ commands'[i] = commands[i]
        BY <2>7, <3>2
      <4> QED
        BY <1>1, <2>5, <3>2, <4>1 DEF Ids
    <3>3. CASE i # n /\ k # n
      BY <2>7, <3>3 DEF Once, Ids
    <3> QED
      BY <3>1, <3>2, <3>3
  <2>9. \A i \in DOMAIN commands' :
          /\ queue[at] \notin ToSet(commands'[i].ids)
          /\ ~Replaces(commands'[i])
             => \A x \in at .. Len(queue) : queue[x] \notin ToSet(commands'[i].ids)
    BY <1>1, <2>4, <2>6, <2>7 DEF Once, Ids, Replaces
  <2> QED
    BY <1>3, <2>8, <2>9 DEF Once, Ids, Replaces
<1> QED
  BY <1>4, <1>5

LEMMA StaysApart ==
  ASSUME Types, AllTidy, Apart, [Next]_vars
  PROVE  Apart'
<1>1. DOMAIN job = Handlers
  BY DEF Types, TypeOK, Handlers
<1>2. at \in 1 .. Len(queue) /\ Len(queue) \in Nat /\ seen \in Seen
  BY DEF Types, TypeOK, Seen
<1>3. ASSUME UNCHANGED <<queue, at, commands>>, seen'.blind = seen.blind
      PROVE  Apart'
  BY <1>3 DEF Apart, Once, Ids, Replaces
<1>4. CASE SetState
  <2>1. UNCHANGED <<queue, at, commands>> /\ seen'.blind = seen.blind
    BY <1>2, <1>4, SetStateDoes DEF phone, Seen
  <2> QED
    BY <1>3, <2>1
<1>5. ASSUME NEW l \in Lanes, PauseLane(l)
      PROVE  Apart'
  <2>1. UNCHANGED <<queue, at, commands>> /\ seen'.blind = seen.blind
    BY <1>2, <1>5, PauseLaneDoes DEF phone, Seen
  <2> QED
    BY <1>3, <2>1
<1>6. ASSUME NEW l \in Lanes, ResumeLane(l)
      PROVE  Apart'
  BY <1>3, <1>6 DEF ResumeLane, phone
<1>7. ASSUME NEW h \in Handlers, NEW l \in Lanes, NEW t \in TracksOf[l], Pick(h, l, t)
      PROVE  Apart'
  BY <1>3, <1>7, PickDoes DEF phone
<1>8. ASSUME NEW h \in Handlers, Picked(h)
      PROVE  Apart'
  BY <1>3, <1>8, PickedDoes DEF phone
<1>9. ASSUME NEW h \in Handlers, Send(h)
      PROVE  Apart'
  <2> DEFINE b == job[h].batches[1]
  <2>1. b = job[h].batches[1]
    OBVIOUS
  <2> HIDE DEF b
  <2>2. /\ job[h].batches \in Seq(Batch) /\ job[h].batches # <<>> /\ b.op \in Ops
        /\ commands' = commands \/ Added(b.op, b.ids)
        /\ seen'.blind = Blindly(b.op, Recalled(h)) /\ UNCHANGED phone
    BY <1>9, <2>1, SendDoes
  <2>3. 1 \in DOMAIN job[h].batches
    BY <2>2
  <2>4. ToSet(b.ids) \cap Recalled(h) = {}
    BY <2>1, <2>3, Zenon DEF Recalled
  <2>5. SUFFICES ASSUME ~seen'.blind
                 PROVE  Once'
    BY DEF Apart
  <2>6. ~seen.blind /\ ~Blindly(b.op, Recalled(h))
    BY <2>2, <2>5 DEF Blindly
  <2>7. CASE commands' = commands
    BY <2>2, <2>6, <2>7 DEF Apart, Once, Ids, Replaces, phone
  <2>8. CASE Added(b.op, b.ids)
    BY <2>2, <2>4, <2>6, <2>8, AddedOnce DEF Apart
  <2> QED
    BY <2>2, <2>7, <2>8
<1>10. ASSUME NEW op \in Ops, NEW t \in Others, AgentSends(op, t)
       PROVE  Apart'
  <2>1. /\ commands' = commands \/ Added(op, <<t>>)
        /\ seen'.blind = Blindly(op, {}) /\ UNCHANGED phone
    BY <1>10, AgentDoes
  <2>2. SUFFICES ASSUME ~seen'.blind
                 PROVE  Once'
    BY DEF Apart
  <2>3. ~seen.blind /\ ~Blindly(op, {})
    BY <2>1, <2>2 DEF Blindly
  <2>4. CASE commands' = commands
    BY <2>1, <2>3, <2>4 DEF Apart, Once, Ids, Replaces, phone
  <2>5. CASE Added(op, <<t>>)
    <3>1. ToSet(<<t>>) \cap {} = {}
      OBVIOUS
    <3> QED
      BY <2>1, <2>3, <2>5, <3>1, AddedOnce DEF Apart
  <2> QED
    BY <2>1, <2>4, <2>5
<1>11. CASE Sample
  BY <1>3, <1>11 DEF Sample, phone
<1>12. ASSUME NEW i \in DOMAIN commands, Lose(i)
       PROVE  Apart'
  <2>1. commands \in Seq(Sent)
    BY DEF Types, TypeOK, Sent
  <2>2. \A k \in DOMAIN commands : commands[k] \in Sent
    BY <2>1
  <2>3. commands' = [commands EXCEPT ![i] = [commands[i] EXCEPT !.late = TRUE]]
        /\ queue' = queue /\ at' = at
    BY <1>12 DEF Lose, phone
  <2>4. [commands[i] EXCEPT !.late = TRUE].ids = commands[i].ids
        /\ [commands[i] EXCEPT !.late = TRUE].op = commands[i].op
    BY <2>2 DEF Sent
  <2>5. DOMAIN commands' = DOMAIN commands
        /\ \A k \in DOMAIN commands : commands'[k].ids = commands[k].ids
                                      /\ commands'[k].op = commands[k].op
    BY <2>1, <2>3, <2>4
  <2>6. seen'.blind = seen.blind
    BY <1>2, <1>12 DEF Lose, Seen
  <2> QED
    BY <2>3, <2>5, <2>6 DEF Apart, Once, Ids, Replaces
<1>13. ASSUME NEW i \in DOMAIN commands, Execute(i)
       PROVE  Apart'
  <2>1. seen' = seen
    BY <1>13, ExecuteDoes
  <2> QED
    BY <1>13, <2>1, ExecuteOnce DEF Apart
<1>14. CASE NextSong
  <2>1. /\ at < Len(queue) /\ at' = at + 1 /\ queue' = queue /\ commands' = commands
        /\ seen'.blind = (seen.blind \/ \E i \in DOMAIN commands : Replaces(commands[i]))
    BY <1>2, <1>14 DEF NextSong, Seen, Replaces
  <2>2. SUFFICES ASSUME ~seen'.blind
                 PROVE  Once'
    BY DEF Apart
  <2>3. Once /\ \A i \in DOMAIN commands : ~Replaces(commands[i])
    BY <2>1, <2>2 DEF Apart
  <2>4. at' \in at .. Len(queue) /\ at' .. Len(queue) \subseteq at .. Len(queue)
    BY <1>2, <2>1
  <2>5. \A x, y \in at' .. Len(queue) : queue[x] = queue[y] => x = y
    BY <2>3, <2>4 DEF Once
  <2>6. \A i \in DOMAIN commands : /\ queue[at'] \notin Ids(i)
                                   /\ \A x \in at' .. Len(queue) : queue[x] \notin Ids(i)
    BY <2>3, <2>4 DEF Once
  <2> QED
    BY <2>1, <2>3, <2>5, <2>6 DEF Once, Ids, Replaces
<1>15. ASSUME NEW t \in Others, PlayOther(t)
       PROVE  Apart'
  <2>1. /\ queue' = <<t>> /\ at' = 1 /\ commands' = commands
        /\ seen'.blind = (seen.blind \/ ~Settled)
    BY <1>2, <1>15 DEF PlayOther, Seen
  <2>2. SUFFICES ASSUME ~seen'.blind
                 PROVE  Once'
    BY DEF Apart
  <2>3. commands' = <<>>
    BY <2>1, <2>2 DEF Settled
  <2>4. DOMAIN commands' = {} /\ Len(queue') = 1
    BY <2>1, <2>3
  <2>5. \A x, y \in 1 .. 1 : x = y
    OBVIOUS
  <2> QED
    BY <2>1, <2>4, <2>5 DEF Once
<1>16. CASE UNCHANGED vars
  BY <1>3, <1>16 DEF vars, phone
<1> QED
  BY <1>1, <1>4, <1>5, <1>6, <1>7, <1>8, <1>9, <1>10, <1>11, <1>12, <1>13, <1>14, <1>15, <1>16
     DEF Next, PoolNext, PhoneNext

LEMMA InitApart == Init => Apart
<1> SUFFICES ASSUME Init
             PROVE  Once
  BY DEF Apart
<1>1. queue = <<Song>> /\ at = 1 /\ Len(queue) = 1 /\ DOMAIN commands = {}
  BY DEF Init
<1>2. \A x, y \in 1 .. 1 : x = y
  OBVIOUS
<1> QED
  BY <1>1, <1>2 DEF Once

\* For any lanes, cues and depth: as long as the server knew of every song to come
\* whenever it sent more, none is to come twice, in whatever order the commands of
\* top-ups, replans and agents arrive.
THEOREM ComesOnce == Spec => []NoTwice
<1>1. ASSUME Types, Apart
      PROVE  NoTwice
  <2>1. at \in 1 .. Len(queue) /\ Len(queue) \in Nat /\ queue \in Seq(Tracks)
    BY <1>1 DEF Types, TypeOK
  <2> DEFINE w == SubSeq(queue, at, Len(queue))
  <2>2. /\ DOMAIN w = 1 .. Len(queue) - at + 1
        /\ \A x \in 1 .. Len(queue) - at + 1 : w[x] = queue[at + x - 1]
                                               /\ at + x - 1 \in at .. Len(queue)
    BY <2>1
  <2> HIDE DEF w
  <2>3. ASSUME Once, NEW x \in DOMAIN w, NEW y \in DOMAIN w, w[x] = w[y]
        PROVE  x = y
    <3>1. at + x - 1 = at + y - 1
      BY <2>2, <2>3 DEF Once
    <3> QED
      BY <2>1, <2>2, <3>1
  <2>4. Once => IsInjective(w)
    BY <2>3 DEF IsInjective
  <2> QED
    BY <1>1, <2>4 DEF NoTwice, Apart, w
<1>2. Types /\ AllTidy /\ Apart /\ [Next]_vars => (Types /\ AllTidy /\ Apart)'
  BY StepKeepsTypes, StaysApart
<1> QED
  BY InitTypes, InitApart, <1>1, <1>2, PTL DEF Spec

-----------------------------------------------------------------------------
(* A paused lane is out of the queue once its replan is done *)

\* While nothing crossed, no delivery was lost, and one handler at most is at it.
InTime == ~seen.crossed => /\ \A i \in DOMAIN commands : ~commands[i].late
                           /\ ~(Busy("top_up") /\ Busy("replan"))

LEMMA AddedInTime ==
  ASSUME \A i \in DOMAIN commands : ~commands[i].late, NEW op, NEW ids,
         commands' = commands \/ Added(op, ids)
  PROVE  \A i \in DOMAIN commands' : ~commands'[i].late
<1>1. CASE commands' = commands
  BY <1>1
<1>2. ASSUME Added(op, ids)
      PROVE  \A i \in DOMAIN commands' : ~commands'[i].late
  <2>1. PICK n \in Nat \ {0} :
          /\ DOMAIN commands = 1 .. n - 1 /\ DOMAIN commands' = 1 .. n
          /\ \A i \in 1 .. n - 1 : commands'[i] = commands[i]
          /\ ~commands'[n].late
    BY <1>2, Zenon DEF Added
  <2>2. \A i \in 1 .. n : i \in 1 .. n - 1 \/ i = n
    OBVIOUS
  <2> QED
    BY <2>1, <2>2
<1> QED
  BY <1>1, <1>2

LEMMA StaysInTime ==
  ASSUME Types, AllTidy, InTime, [Next]_vars
  PROVE  InTime'
<1>1. job \in [{"top_up", "replan"} -> Job] /\ seen \in Seen /\ DOMAIN job = Handlers
  BY DEF Types, TypeOK, Seen, Handlers
<1>2. ASSUME commands' = commands, seen'.crossed = seen.crossed,
             \A h \in Handlers : Busy(h)' => Busy(h)
      PROVE  InTime'
  BY <1>2 DEF InTime, Handlers
<1>3. \A h \in Handlers : Busy(h)' <=> job'[h].step \in {"picking", "sending"}
  BY DEF Busy
<1>4. CASE SetState
  <2>1. commands' = commands
    BY <1>4, SetStateDoes
  <2>2. CASE job' = [job EXCEPT !["top_up"] = Idle] /\ seen' = seen
    <3>1. job'["top_up"] = Idle /\ job'["replan"] = job["replan"]
      BY <1>1, <2>2
    <3>2. \A h \in Handlers : Busy(h)' => Busy(h)
      BY <1>3, <3>1 DEF Busy, Idle, Handlers
    <3> QED
      BY <1>2, <2>1, <2>2, <3>2
  <2>3. ASSUME NEW j \in Job, job' = [job EXCEPT !["top_up"] = j],
               seen' = [seen EXCEPT !.crossed = Crossing("replan", report')]
        PROVE  InTime'
    <3>1. seen'.crossed = Crossing("replan", report') /\ job'["replan"] = job["replan"]
      BY <1>1, <2>3 DEF Seen
    <3>2. ~seen'.crossed => ~seen.crossed /\ ~Busy("replan")'
      BY <3>1 DEF Crossing, Busy
    <3> QED
      BY <2>1, <3>2 DEF InTime
  <2> QED
    BY <1>4, <2>2, <2>3, SetStateDoes
<1>5. ASSUME NEW l \in Lanes, PauseLane(l)
      PROVE  InTime'
  <2>1. commands' = commands
    BY <1>5, PauseLaneDoes
  <2>2. CASE job' = job /\ seen' = [seen EXCEPT !.left = TRUE]
    <3>1. seen'.crossed = seen.crossed
      BY <1>1, <2>2 DEF Seen
    <3> QED
      BY <1>2, <2>1, <2>2, <3>1 DEF Busy
  <2>3. ASSUME NEW j \in Job, job' = [job EXCEPT !["replan"] = j],
               seen' = [seen EXCEPT !.crossed = Crossing("top_up", report)]
        PROVE  InTime'
    <3>1. seen'.crossed = Crossing("top_up", report) /\ job'["top_up"] = job["top_up"]
      BY <1>1, <2>3 DEF Seen
    <3>2. ~seen'.crossed => ~seen.crossed /\ ~Busy("top_up")'
      BY <3>1 DEF Crossing, Busy
    <3> QED
      BY <2>1, <3>2 DEF InTime
  <2> QED
    BY <1>5, <2>2, <2>3, PauseLaneDoes
<1>6. ASSUME NEW l \in Lanes, ResumeLane(l)
      PROVE  InTime'
  BY <1>6 DEF ResumeLane, InTime, Busy
<1>7. ASSUME NEW h \in Handlers, NEW l \in Lanes, NEW t \in TracksOf[l], Pick(h, l, t)
      PROVE  InTime'
  <2>1. /\ commands' = commands /\ seen' = seen /\ job[h].step = "picking"
        /\ \A g \in Handlers : g # h => job'[g] = job[g]
    BY <1>7, PickDoes
  <2> QED
    BY <1>2, <1>3, <2>1 DEF Busy
<1>8. ASSUME NEW h \in Handlers, Picked(h)
      PROVE  InTime'
  <2>1. /\ commands' = commands /\ seen'.crossed = seen.crossed /\ job[h].step = "picking"
        /\ \A g \in Handlers : g # h => job'[g] = job[g]
    BY <1>8, PickedDoes
  <2> QED
    BY <1>2, <1>3, <2>1 DEF Busy
<1>9. ASSUME NEW h \in Handlers, Send(h)
      PROVE  InTime'
  <2> DEFINE b == job[h].batches[1]
  <2>1. b = job[h].batches[1]
    OBVIOUS
  <2> HIDE DEF b
  <2>2. /\ job[h].step = "sending" /\ seen'.crossed = seen.crossed
        /\ \A g \in Handlers : g # h => job'[g] = job[g]
        /\ commands' = commands \/ Added(b.op, b.ids)
    BY <1>9, <2>1, SendDoes
  <2>3. \A g \in Handlers : Busy(g)' => Busy(g)
    BY <1>3, <2>2 DEF Busy
  <2>4. SUFFICES ASSUME ~seen'.crossed
                 PROVE  /\ \A i \in DOMAIN commands' : ~commands'[i].late
                        /\ ~(Busy("top_up")' /\ Busy("replan")')
    BY DEF InTime
  <2>5. \A i \in DOMAIN commands : ~commands[i].late
    BY <2>2, <2>4 DEF InTime
  <2>6. ~(Busy("top_up")' /\ Busy("replan")')
    BY <2>2, <2>3, <2>4 DEF InTime, Handlers
  <2> QED
    BY <2>2, <2>5, <2>6, AddedInTime
<1>10. ASSUME NEW op \in Ops, NEW t \in Others, AgentSends(op, t)
       PROVE  InTime'
  <2>1. job' = job /\ seen'.crossed = seen.crossed /\ (commands' = commands \/ Added(op, <<t>>))
    BY <1>10, AgentDoes
  <2>2. SUFFICES ASSUME ~seen'.crossed
                 PROVE  /\ \A i \in DOMAIN commands' : ~commands'[i].late
                        /\ ~(Busy("top_up")' /\ Busy("replan")')
    BY DEF InTime
  <2>3. \A i \in DOMAIN commands : ~commands[i].late
    BY <2>1, <2>2 DEF InTime
  <2> QED
    BY <2>1, <2>2, <2>3, AddedInTime DEF InTime, Busy
<1>11. CASE Sample
  <2>1. job' = [job EXCEPT !["top_up"] =
          [Idle EXCEPT !.step = "sampled", !.sample = [queue |-> queue, at |-> at]]]
        /\ UNCHANGED <<commands, seen>>
    BY <1>11 DEF Sample
  <2>2. job'["top_up"].step = "sampled" /\ job'["replan"] = job["replan"]
    BY <1>1, <2>1 DEF Idle
  <2> QED
    BY <1>2, <1>3, <2>1, <2>2 DEF Busy, Handlers
<1>12. ASSUME NEW i \in DOMAIN commands, Lose(i)
       PROVE  InTime'
  <2>1. seen'.crossed = TRUE
    BY <1>1, <1>12 DEF Lose, Seen
  <2> QED
    BY <2>1 DEF InTime
<1>13. ASSUME NEW i \in DOMAIN commands, Execute(i)
       PROVE  InTime'
  <2>1. /\ UNCHANGED <<job, seen>> /\ DOMAIN commands' \subseteq Int /\ i \in Int
        /\ \A k \in DOMAIN commands' :
             /\ k < i => k \in DOMAIN commands /\ commands'[k] = commands[k]
             /\ k >= i => k + 1 \in DOMAIN commands /\ commands'[k] = commands[k + 1]
    BY <1>13, ExecuteDoes
  <2>2. \A k \in DOMAIN commands' : k < i \/ k >= i
    BY <2>1
  <2> QED
    BY <2>1, <2>2 DEF InTime, Busy
<1>14. CASE NextSong
  <2>1. UNCHANGED <<commands, job>> /\ seen'.crossed = seen.crossed
    BY <1>1, <1>14 DEF NextSong, Seen
  <2> QED
    BY <2>1 DEF InTime, Busy
<1>15. ASSUME NEW t \in Others, PlayOther(t)
       PROVE  InTime'
  <2>1. UNCHANGED <<commands, job>> /\ seen'.crossed = seen.crossed
    BY <1>1, <1>15 DEF PlayOther, Seen
  <2> QED
    BY <2>1 DEF InTime, Busy
<1>16. CASE UNCHANGED vars
  BY <1>16 DEF vars, InTime, Busy
<1> QED
  BY <1>1, <1>4, <1>5, <1>6, <1>7, <1>8, <1>9, <1>10, <1>11, <1>12, <1>13, <1>14, <1>15, <1>16
     DEF Next, PoolNext, PhoneNext

\* What may be to come: what was asked for, and what no paused lane has for itself.
Welcome ==
  seen.asked \cup {q.play : q \in Cues} \cup (UNION {TracksOf[m] : m \in Unpaused})
  \cup (Tracks \ (UNION {TracksOf[l] : l \in paused}))

JobFits(j, W) == /\ ToSet(j.picks) \subseteq W /\ ToSet(j.cues) \subseteq W
                 /\ \A k \in DOMAIN j.batches : ToSet(j.batches[k].ids) \subseteq W

\* A replan's replacement is to be sent, or is on its way with nothing but welcome songs
\* from there on, or has arrived and so it is everywhere.
ToReplace ==
  \/ job["replan"].step = "picking"
  \/ job["replan"].step = "sending" /\ Replaces(job["replan"].batches[1])
Replacing ==
  \E i \in DOMAIN commands :
    /\ Replaces(commands[i])
    /\ \A k \in DOMAIN commands : k >= i => Ids(k) \subseteq Welcome
Replaced ==
  /\ \A x \in at + 1 .. Len(queue) : queue[x] \in Welcome
  /\ \A k \in DOMAIN commands : Ids(k) \subseteq Welcome

Held ==
  ~seen.crossed /\ ~seen.left
  => /\ \A h \in Handlers : JobFits(job[h], Welcome)
     /\ ToReplace \/ Replacing \/ Replaced

LEMMA WelcomeGrows ==
  ASSUME seen.asked \subseteq seen'.asked, paused' \subseteq paused
  PROVE  Welcome \subseteq Welcome'
<1>1. Unpaused \subseteq Unpaused'
  BY DEF Unpaused
<1>2. UNION {TracksOf[m] : m \in Unpaused} \subseteq UNION {TracksOf[m] : m \in Unpaused'}
  BY <1>1, Zenon
<1>3. UNION {TracksOf[l] : l \in paused'} \subseteq UNION {TracksOf[l] : l \in paused}
  BY Zenon
<1> QED
  BY <1>2, <1>3, Zenon DEF Welcome, Unpaused

LEMMA FitsGrow ==
  ASSUME NEW j, NEW W, NEW V, JobFits(j, W), W \subseteq V
  PROVE  JobFits(j, V)
BY DEF JobFits

LEMMA EmptyFits ==
  ASSUME NEW j, NEW W, j.picks = <<>>, j.cues = <<>>, j.batches = <<>>
  PROVE  JobFits(j, W)
<1>1. DOMAIN (<<>>) = {} /\ ToSet(<<>>) = {}
  BY DEF ToSet
<1> QED
  BY <1>1 DEF JobFits

\* Nothing but the handlers' state changes.
LEMMA StillHeld ==
  ASSUME Held, UNCHANGED <<queue, at, commands>>, Welcome \subseteq Welcome',
         ~seen'.crossed /\ ~seen'.left => ~seen.crossed /\ ~seen.left,
         ~seen'.left /\ ToReplace => ToReplace',
         ~seen'.crossed /\ ~seen'.left => \A h \in Handlers : JobFits(job'[h], Welcome')
  PROVE  Held'
<1> SUFFICES ASSUME ~seen'.crossed, ~seen'.left
             PROVE  ToReplace' \/ Replacing' \/ Replaced'
  BY DEF Held
<1>1. ToReplace \/ Replacing \/ Replaced
  BY DEF Held
<1>2. Replacing => Replacing'
  BY DEF Replacing, Ids, Replaces
<1>3. Replaced => Replaced'
  BY DEF Replaced, Ids
<1> QED
  BY <1>1, <1>2, <1>3

\* A command of welcome songs is added; a replacement of them makes up for what was not.
LEMMA AddedHeld ==
  ASSUME NEW op, NEW ids, Added(op, ids), UNCHANGED <<queue, at>>,
         Welcome \subseteq Welcome', ToSet(ids) \subseteq Welcome',
         Replacing \/ Replaced \/ op = "replace_upcoming"
  PROVE  Replacing' \/ Replaced'
<1>1. PICK kept \in Seq(Tracks), n \in Nat \ {0} :
        /\ ToSet(kept) = ToSet(ids) \ Guarded(op)
        /\ DOMAIN commands = 1 .. n - 1 /\ DOMAIN commands' = 1 .. n
        /\ \A i \in 1 .. n - 1 : commands'[i] = commands[i]
        /\ commands'[n].op = op /\ commands'[n].ids = kept
  BY Zenon DEF Added
<1>2. ToSet(commands'[n].ids) \subseteq Welcome'
  BY <1>1
<1>3. \A k \in DOMAIN commands' : (k \in DOMAIN commands /\ commands'[k] = commands[k]) \/ k = n
  BY <1>1
<1>4. n \in DOMAIN commands' /\ \A k \in DOMAIN commands' : k >= n => k = n
  BY <1>1
<1>5. CASE Replaced
  <2>1. \A k \in DOMAIN commands' : ToSet(commands'[k].ids) \subseteq Welcome'
    BY <1>2, <1>3, <1>5 DEF Replaced, Ids
  <2>2. \A x \in at + 1 .. Len(queue) : queue[x] \in Welcome'
    BY <1>5 DEF Replaced
  <2> QED
    BY <2>1, <2>2 DEF Replaced, Ids
<1>6. CASE Replacing
  <2>1. PICK i \in DOMAIN commands :
          /\ Replaces(commands[i])
          /\ \A k \in DOMAIN commands : k >= i => Ids(k) \subseteq Welcome
    BY <1>6 DEF Replacing
  <2>2. i \in DOMAIN commands' /\ commands'[i] = commands[i]
    BY <1>1
  <2>3. \A k \in DOMAIN commands' : k >= i => ToSet(commands'[k].ids) \subseteq Welcome'
    BY <1>2, <1>3, <2>1 DEF Ids
  <2> QED
    BY <2>1, <2>2, <2>3 DEF Replacing, Replaces, Ids
<1>7. CASE op = "replace_upcoming"
  BY <1>1, <1>2, <1>4, <1>7 DEF Replacing, Replaces, Ids
<1> QED
  BY <1>5, <1>6, <1>7

\* Commands are carried out in their order, so what is replaced stays replaced.
LEMMA ExecuteHeld ==
  ASSUME Types, InTime, Held, NEW i \in DOMAIN commands, Execute(i)
  PROVE  Held'
<1>1. /\ commands[i].op \in Ops /\ commands[i].ids \in Seq(Tracks)
      /\ queue' = Applied(commands[i].op, commands[i].ids)
      /\ i \in 1 .. Len(commands) /\ Len(commands) \in Nat
      /\ DOMAIN commands' = 1 .. Len(commands) - 1 /\ DOMAIN commands = 1 .. Len(commands)
      /\ \A k \in DOMAIN commands' :
           /\ k < i => k \in DOMAIN commands /\ commands'[k] = commands[k]
           /\ k >= i => k + 1 \in DOMAIN commands /\ commands'[k] = commands[k + 1]
      /\ commands[i].late \/ \A k \in 1 .. i - 1 : commands[k].late
      /\ UNCHANGED <<pool, at, job, seen>>
  BY ExecuteDoes
<1>2. Welcome' = Welcome
  BY <1>1 DEF Welcome, Unpaused, pool
<1> SUFFICES ASSUME ~seen.crossed, ~seen.left
             PROVE  ToReplace' \/ Replacing' \/ Replaced'
  BY <1>1, <1>2 DEF Held
<1>3. i = 1
  <2>1. 1 \in DOMAIN commands /\ ~commands[1].late /\ ~commands[i].late
    BY <1>1 DEF InTime
  <2> QED
    BY <1>1, <2>1
<1>4. \A k \in DOMAIN commands' : k + 1 \in DOMAIN commands /\ commands'[k] = commands[k + 1]
                                  /\ k \in 1 .. Len(commands) - 1
  BY <1>1, <1>3
<1>5. TypeOK /\ at \in 1 .. Len(queue) /\ Len(queue) \in Nat
  BY DEF Types, TypeOK
<1> DEFINE op == commands[i].op
           ids == commands[i].ids
<1>6. PICK p \in at .. Len(queue), n \in Nat :
        /\ n = Len(ids) /\ (op = "replace_upcoming" => p = at)
        /\ \A x \in 1 .. p : queue'[x] = queue[x]
        /\ \A x \in 1 .. n : queue'[p + x] = ids[x]
        /\ Len(queue') = (IF op = "replace_upcoming" THEN at ELSE Len(queue)) + n
        /\ op # "replace_upcoming"
           => \A x \in p + 1 .. Len(queue) : queue'[x + n] = queue[x]
  <2>1. op \in Ops /\ ids \in Seq(Tracks) /\ queue' = Applied(op, ids)
    BY <1>1
  <2> HIDE DEF op, ids
  <2> QED
    BY <1>5, <2>1, AppliedPlaces
<1>7. \A x \in 1 .. n : ids[x] \in Ids(i)
  BY <1>1, <1>6 DEF Ids, ToSet
<1>8. ASSUME NEW W, Ids(i) \subseteq W,
             op = "replace_upcoming" \/ \A x \in at + 1 .. Len(queue) : queue[x] \in W
      PROVE  \A x \in at + 1 .. Len(queue') : queue'[x] \in W
  <2> SUFFICES ASSUME NEW x \in at + 1 .. Len(queue')
               PROVE  queue'[x] \in W
    OBVIOUS
  <2> HIDE DEF op, ids
  <2>1. CASE x <= p
    <3>1. op # "replace_upcoming" /\ x \in 1 .. p /\ x \in at + 1 .. Len(queue)
      BY <1>5, <1>6, <2>1
    <3> QED
      BY <1>6, <1>8, <3>1
  <2>2. CASE x > p /\ x <= p + n
    <3>1. x - p \in 1 .. n /\ p + (x - p) = x
      BY <1>5, <2>2
    <3>2. queue'[x] = ids[x - p]
      BY <1>6, <3>1
    <3> QED
      BY <1>7, <1>8, <3>1, <3>2
  <2>3. CASE x > p + n
    <3>1. op # "replace_upcoming"
      BY <1>5, <1>6, <2>3
    <3>2. x - n \in p + 1 .. Len(queue) /\ x - n + n = x /\ x - n \in at + 1 .. Len(queue)
      BY <1>5, <1>6, <2>3, <3>1
    <3>3. queue'[x] = queue[x - n]
      BY <1>6, <3>1, <3>2
    <3> QED
      BY <1>8, <3>1, <3>2, <3>3
  <2> QED
    BY <1>5, <1>6, <2>1, <2>2, <2>3
<1>9. ToReplace => ToReplace'
  BY <1>1 DEF ToReplace, Replaces
<1>10. ASSUME \A k \in DOMAIN commands : Ids(k) \subseteq Welcome
       PROVE  \A k \in DOMAIN commands' : ToSet(commands'[k].ids) \subseteq Welcome
  BY <1>4, <1>10 DEF Ids
<1>11. CASE Replaced
  <2>1. \A x \in at + 1 .. Len(queue') : queue'[x] \in Welcome
    BY <1>8, <1>11 DEF Replaced
  <2> QED
    BY <1>1, <1>2, <1>10, <1>11, <2>1 DEF Replaced, Ids
<1>12. CASE Replacing
  <2>1. PICK j \in DOMAIN commands :
          /\ Replaces(commands[j])
          /\ \A k \in DOMAIN commands : k >= j => Ids(k) \subseteq Welcome
    BY <1>12 DEF Replacing
  <2>2. CASE j = 1
    <3>1. \A k \in DOMAIN commands : Ids(k) \subseteq Welcome
      BY <1>1, <2>1, <2>2
    <3>2. op = "replace_upcoming" /\ Ids(i) \subseteq Welcome
      BY <1>3, <2>1, <2>2, <3>1 DEF Replaces
    <3>3. \A x \in at + 1 .. Len(queue') : queue'[x] \in Welcome
      BY <1>8, <3>2
    <3> QED
      BY <1>1, <1>2, <1>10, <3>1, <3>3 DEF Replaced, Ids
  <2>3. CASE j # 1
    <3>1. j - 1 \in DOMAIN commands' /\ commands'[j - 1] = commands[j]
      BY <1>1, <1>3, <2>3
    <3>2. \A k \in DOMAIN commands' : k >= j - 1 => ToSet(commands'[k].ids) \subseteq Welcome
      <4> SUFFICES ASSUME NEW k \in DOMAIN commands', k >= j - 1
                   PROVE  ToSet(commands'[k].ids) \subseteq Welcome
        OBVIOUS
      <4>1. k + 1 \in DOMAIN commands /\ commands'[k] = commands[k + 1] /\ k + 1 >= j
        BY <1>1, <1>4
      <4> QED
        BY <2>1, <4>1 DEF Ids
    <3>3. Replaces(commands'[j - 1])
      BY <2>1, <3>1
    <3> QED
      BY <1>2, <3>1, <3>2, <3>3, Zenon DEF Replacing, Ids, Replaces
  <2> QED
    BY <2>2, <2>3
<1> QED
  BY <1>9, <1>11, <1>12 DEF Held

LEMMA SendHeld ==
  ASSUME Types, AllTidy, Held, NEW h \in Handlers, Send(h)
  PROVE  Held'
<1> DEFINE b == job[h].batches[1]
<1>1. b = job[h].batches[1]
  OBVIOUS
<1> HIDE DEF b
<1>2. /\ job[h].step = "sending" /\ job[h].batches \in Seq(Batch) /\ job[h].batches # <<>>
      /\ job'[h].picks = <<>> \/ job'[h].picks = job[h].picks
      /\ job'[h].cues = <<>> \/ job'[h].cues = job[h].cues
      /\ job'[h].batches = Tail(job[h].batches)
      /\ \A g \in Handlers : g # h => job'[g] = job[g]
      /\ commands' = commands \/ Added(b.op, b.ids)
      /\ seen'.left = (seen.left \/ (b.op = "replace_upcoming" /\ commands' = commands))
      /\ seen'.crossed = seen.crossed /\ seen'.asked = seen.asked
      /\ UNCHANGED <<paused, phone>>
  BY <1>1, SendDoes
<1>3. Welcome' = Welcome
  BY <1>2 DEF Welcome, Unpaused
<1> SUFFICES ASSUME ~seen'.crossed, ~seen'.left
             PROVE  /\ \A g \in Handlers : JobFits(job'[g], Welcome)
                    /\ ToReplace' \/ Replacing' \/ Replaced'
  BY <1>3 DEF Held
<1>4. /\ ~seen.crossed /\ ~seen.left
      /\ b.op = "replace_upcoming" => Added(b.op, b.ids)
  BY <1>2
<1>5. \A g \in Handlers : JobFits(job[g], Welcome)
  BY <1>4 DEF Held
<1>6. 1 \in DOMAIN job[h].batches
  BY <1>2
<1>7. ToSet(b.ids) \subseteq Welcome
  BY <1>1, <1>5, <1>6 DEF JobFits
<1>8. JobFits(job'[h], Welcome)
  <2> DEFINE t == Tail(job[h].batches)
  <2>1. \A k \in DOMAIN t : k + 1 \in DOMAIN job[h].batches /\ t[k] = job[h].batches[k + 1]
    BY <1>2, TailDoes
  <2>2. \A k \in DOMAIN t : ToSet(t[k].ids) \subseteq Welcome
    BY <1>5, <2>1 DEF JobFits
  <2>3. ToSet(<<>>) = {}
    BY DEF ToSet
  <2>4. job'[h].batches = t
    BY <1>2
  <2> HIDE DEF t
  <2> QED
    BY <1>2, <1>5, <2>2, <2>3, <2>4 DEF JobFits
<1>9. \A g \in Handlers : JobFits(job'[g], Welcome)
  BY <1>2, <1>5, <1>8
<1>10. ToReplace /\ ~(h = "replan" /\ b.op = "replace_upcoming") => ToReplace'
  <2>1. ToReplace => h # "replan" \/ b.op = "replace_upcoming"
    BY <1>1, <1>2 DEF ToReplace, Replaces
  <2>2. "replan" \in Handlers
    BY DEF Handlers
  <2> QED
    BY <1>2, <2>1, <2>2 DEF ToReplace, Replaces
<1>11. CASE commands' = commands
  <2>1. b.op = "replace_upcoming" => FALSE
    BY <1>2, <1>4, <1>11
  <2>2. Replacing => Replacing'
    BY <1>2, <1>3, <1>11 DEF Replacing, Ids, Replaces
  <2>3. Replaced => Replaced'
    BY <1>2, <1>3, <1>11 DEF Replaced, Ids, phone
  <2> QED
    BY <1>4, <1>9, <1>10, <2>1, <2>2, <2>3 DEF Held
<1>12. CASE Added(b.op, b.ids)
  <2>1. UNCHANGED <<queue, at>>
    BY <1>2 DEF phone
  <2>2. Replacing \/ Replaced \/ b.op = "replace_upcoming" => Replacing' \/ Replaced'
    BY <1>3, <1>7, <1>12, <2>1, AddedHeld
  <2> QED
    BY <1>4, <1>9, <1>10, <2>2 DEF Held
<1> QED
  BY <1>2, <1>11, <1>12

LEMMA PickedHeld ==
  ASSUME Types, AllTidy, Held, NEW h \in Handlers, Picked(h)
  PROVE  Held'
<1>1. /\ job[h] \in Job /\ job[h].step = "picking"
      /\ IsInjective(job[h].picks) /\ IsInjective(job[h].cues)
      /\ \/ job[h].picks = <<>> /\ job'[h] = Idle /\ seen'.left = (seen.left \/ h = "replan")
         \/ /\ job[h].picks # <<>> /\ seen'.left = seen.left
            /\ job'[h] = Sending(Batches(h, job[h])) /\ job'[h].step = "sending"
            /\ job'[h].batches = Batches(h, job[h]) /\ job'[h].batches \in Seq(Batch)
      /\ seen'.crossed = seen.crossed /\ seen'.asked = seen.asked
      /\ \A g \in Handlers : g # h => job'[g] = job[g]
      /\ UNCHANGED <<paused, phone, commands>>
  BY PickedDoes
<1>2. Welcome' = Welcome
  BY <1>1 DEF Welcome, Unpaused
<1>3. ~seen'.crossed /\ ~seen'.left => ~seen.crossed /\ ~seen.left
  BY <1>1
<1>4. CASE job[h].picks = <<>> /\ job'[h] = Idle /\ seen'.left = (seen.left \/ h = "replan")
  <2>1. JobFits(job'[h], Welcome)
    BY <1>4, EmptyFits DEF Idle
  <2>2. ~seen'.left /\ ToReplace => ToReplace'
    BY <1>1, <1>4 DEF ToReplace, Handlers, Replaces
  <2>3. ~seen'.crossed /\ ~seen'.left => \A g \in Handlers : JobFits(job'[g], Welcome)
    BY <1>1, <1>3, <2>1 DEF Held
  <2> QED
    BY <1>1, <1>2, <1>3, <2>2, <2>3, StillHeld DEF phone
<1>5. CASE /\ job[h].picks # <<>> /\ seen'.left = seen.left
           /\ job'[h] = Sending(Batches(h, job[h])) /\ job'[h].step = "sending"
           /\ job'[h].batches = Batches(h, job[h]) /\ job'[h].batches \in Seq(Batch)
  <2> DEFINE B == Batches(h, job[h])
  <2>1. /\ B \in Seq(Batch) /\ B # <<>>
        /\ \A k \in DOMAIN B :
             /\ ToSet(B[k].ids) \subseteq ToSet(job[h].picks) \cup ToSet(job[h].cues)
             /\ (B[k].op = "replace_upcoming") <=> (h = "replan" /\ k = 1)
    BY <1>1, <1>5, BatchesDo
  <2>2. job'[h] = Sending(B) /\ job'[h].batches = B
    BY <1>5
  <2> HIDE DEF B
  <2>3. 1 \in DOMAIN B
    BY <2>1
  <2>4. h = "replan" => ToReplace'
    BY <1>5, <2>1, <2>2, <2>3 DEF ToReplace, Replaces
  <2>5. h # "replan" /\ ToReplace => ToReplace'
    <3>1. "replan" \in Handlers
      BY DEF Handlers
    <3> QED
      BY <1>1, <3>1 DEF ToReplace, Replaces
  <2>6. ASSUME JobFits(job[h], Welcome)
        PROVE  JobFits(job'[h], Welcome)
    <3>1. job'[h].picks = <<>> /\ job'[h].cues = <<>>
      BY <2>2 DEF Sending, Idle
    <3>2. ToSet(<<>>) = {}
      BY DEF ToSet
    <3> QED
      BY <2>1, <2>2, <2>6, <3>1, <3>2 DEF JobFits
  <2>7. ~seen'.crossed /\ ~seen'.left => \A g \in Handlers : JobFits(job'[g], Welcome)
    BY <1>1, <1>3, <2>6 DEF Held
  <2> QED
    BY <1>1, <1>2, <1>3, <2>4, <2>5, <2>7, StillHeld DEF phone
<1> QED
  BY <1>1, <1>4, <1>5

LEMMA StaysHeld ==
  ASSUME Types, AllTidy, InTime, Held, [Next]_vars
  PROVE  Held'
<1>1. job \in [{"top_up", "replan"} -> Job] /\ seen \in Seen /\ DOMAIN job = Handlers
      /\ pending \subseteq Cues
  BY DEF Types, TypeOK, Seen, Handlers
<1>2. \A h \in Handlers : Tidy(job[h]) /\ job[h] \in Job
  BY <1>1 DEF AllTidy, Handlers
<1>3. CASE SetState
  <2>1. UNCHANGED <<queue, at, commands, paused>>
    BY <1>3, SetStateDoes DEF phone
  <2>2. CASE job' = [job EXCEPT !["top_up"] = Idle] /\ seen' = seen
    <3>1. job'["top_up"] = Idle /\ job'["replan"] = job["replan"]
      BY <1>1, <2>2
    <3>2. Welcome' = Welcome
      BY <2>1, <2>2 DEF Welcome, Unpaused
    <3>3. JobFits(Idle, Welcome)
      BY EmptyFits DEF Idle
    <3>4. ToReplace => ToReplace'
      BY <3>1 DEF ToReplace
    <3>5. ~seen.crossed /\ ~seen.left => \A h \in Handlers : JobFits(job'[h], Welcome')
      BY <3>1, <3>2, <3>3 DEF Held, Handlers
    <3> QED
      BY <2>1, <2>2, <3>2, <3>4, <3>5, StillHeld
  <2>3. ASSUME NEW D \in SUBSET pending, NEW cp \in Seq(Tracks), NEW j \in Job,
               Begun(j, cp), job' = [job EXCEPT !["top_up"] = j],
               ToSet(cp) \subseteq {q.play : q \in D},
               seen' = [seen EXCEPT !.crossed = Crossing("replan", report')]
        PROVE  Held'
    <3>1. job'["top_up"] = j /\ job'["replan"] = job["replan"]
      BY <1>1, <2>3
    <3>2. seen'.crossed = Crossing("replan", report') /\ seen'.left = seen.left
          /\ seen'.asked = seen.asked
      BY <1>1, <2>3 DEF Seen
    <3>3. ~seen'.crossed => ~seen.crossed
      BY <3>2 DEF Crossing
    <3>4. Welcome' = Welcome
      BY <2>1, <3>2 DEF Welcome, Unpaused
    <3>5. {q.play : q \in D} \subseteq {q.play : q \in Cues}
      BY <1>1, <2>3
    <3>6. ToSet(cp) \subseteq Welcome
      BY <2>3, <3>5 DEF Welcome
    <3>7. JobFits(j, Welcome)
      BY <2>3, <3>6 DEF JobFits, Begun
    <3>8. ToReplace => ToReplace'
      BY <3>1 DEF ToReplace
    <3>9. ~seen'.crossed /\ ~seen'.left => \A h \in Handlers : JobFits(job'[h], Welcome')
      BY <3>1, <3>2, <3>3, <3>4, <3>7 DEF Held, Handlers
    <3> QED
      BY <2>1, <3>2, <3>3, <3>4, <3>8, <3>9, StillHeld
  <2> QED
    BY <1>3, <2>2, <2>3, SetStateDoes
<1>4. ASSUME NEW l \in Lanes, PauseLane(l)
      PROVE  Held'
  <2>1. UNCHANGED <<queue, at, commands>>
    BY <1>4, PauseLaneDoes DEF phone
  <2>2. CASE seen' = [seen EXCEPT !.left = TRUE]
    <3>1. seen'.left
      BY <1>1, <2>2 DEF Seen
    <3> QED
      BY <3>1 DEF Held
  <2>3. ASSUME NEW j \in Job, Begun(j, <<>>), job' = [job EXCEPT !["replan"] = j],
               seen' = [seen EXCEPT !.crossed = Crossing("top_up", report)]
        PROVE  Held'
    <3>1. job'["replan"] = j /\ job'["top_up"] = job["top_up"]
      BY <1>1, <2>3
    <3>2. seen'.crossed = Crossing("top_up", report)
      BY <1>1, <2>3 DEF Seen
    <3> SUFFICES ASSUME ~seen'.crossed
                 PROVE  /\ \A h \in Handlers : JobFits(job'[h], Welcome')
                        /\ ToReplace'
      BY DEF Held
    <3>3. ~Busy("top_up")
      BY <3>2 DEF Crossing
    <3>4. job["top_up"].step \in {"idle", "sampled"}
      BY <1>2, <3>3 DEF Busy, Handlers, Job
    <3>5. JobFits(job["top_up"], Welcome')
      BY <1>2, <3>4, EmptyFits DEF Tidy, Handlers
    <3>6. JobFits(j, Welcome')
      BY <2>3, EmptyFits DEF Begun
    <3>7. ToReplace'
      BY <2>3, <3>1 DEF ToReplace, Begun
    <3> QED
      BY <3>1, <3>5, <3>6, <3>7 DEF Handlers
  <2> QED
    BY <1>4, <2>2, <2>3, PauseLaneDoes
<1>5. ASSUME NEW l \in Lanes, ResumeLane(l)
      PROVE  Held'
  <2>1. UNCHANGED <<queue, at, commands, job, seen>> /\ paused' \subseteq paused
    BY <1>5 DEF ResumeLane, phone
  <2>2. Welcome \subseteq Welcome'
    BY <2>1, WelcomeGrows
  <2>3. ~seen.crossed /\ ~seen.left => \A h \in Handlers : JobFits(job'[h], Welcome')
    BY <2>1, <2>2, FitsGrow DEF Held
  <2>4. ToReplace => ToReplace'
    BY <2>1 DEF ToReplace
  <2> QED
    BY <2>1, <2>2, <2>3, <2>4, StillHeld
<1>6. ASSUME NEW h \in Handlers, NEW l \in Lanes, NEW t \in TracksOf[l], Pick(h, l, t)
      PROVE  Held'
  <2> DEFINE a == Append(job[h].picks, t)
  <2>1. /\ t \in Tracks /\ l \notin paused /\ job[h].step = "picking" /\ job[h] \in Job
        /\ job'[h] = [job[h] EXCEPT !.picks = a]
        /\ \A g \in Handlers : g # h => job'[g] = job[g]
        /\ UNCHANGED <<paused, queue, at, commands, seen>>
    BY <1>6, PickDoes DEF phone
  <2>2. Welcome' = Welcome
    BY <2>1 DEF Welcome, Unpaused
  <2>3. t \in Welcome
    <3>1. l \in Unpaused
      BY <2>1 DEF Unpaused
    <3> QED
      BY <3>1, Zenon DEF Welcome
  <2>4. job[h].picks \in Seq(Tracks)
    BY <2>1 DEF Job
  <2>5. ToSet(a) = ToSet(job[h].picks) \cup {t}
    BY <2>1, <2>4, AppendOnce
  <2> HIDE DEF a
  <2>6. job'[h].picks = a /\ job'[h].cues = job[h].cues /\ job'[h].batches = job[h].batches
        /\ job'[h].step = "picking"
    BY <2>1 DEF Job
  <2>7. JobFits(job[h], Welcome) => JobFits(job'[h], Welcome)
    BY <2>3, <2>5, <2>6 DEF JobFits
  <2>8. ToReplace => ToReplace'
    <3>1. "replan" \in Handlers
      BY DEF Handlers
    <3> QED
      BY <2>1, <2>6, <3>1 DEF ToReplace, Replaces
  <2>9. ~seen.crossed /\ ~seen.left => \A g \in Handlers : JobFits(job'[g], Welcome')
    BY <2>1, <2>2, <2>7 DEF Held
  <2> QED
    BY <2>1, <2>2, <2>8, <2>9, StillHeld
<1>7. ASSUME NEW op \in Ops, NEW t \in Others, AgentSends(op, t)
      PROVE  Held'
  <2>1. /\ commands' = commands \/ Added(op, <<t>>)
        /\ ToSet(<<t>>) = {t} /\ seen'.asked = seen.asked \cup {t}
        /\ seen'.crossed = seen.crossed /\ seen'.left = seen.left
        /\ UNCHANGED <<paused, queue, at, job>>
    BY <1>7, AgentDoes DEF pool, phone
  <2>2. Welcome \subseteq Welcome'
    BY <2>1, WelcomeGrows
  <2>3. ToSet(<<t>>) \subseteq Welcome'
    BY <2>1 DEF Welcome
  <2>4. ToReplace => ToReplace'
    BY <2>1 DEF ToReplace
  <2>5. ~seen.crossed /\ ~seen.left => \A h \in Handlers : JobFits(job'[h], Welcome')
    BY <2>1, <2>2, FitsGrow DEF Held
  <2>6. CASE commands' = commands
    BY <2>1, <2>2, <2>4, <2>5, <2>6, StillHeld
  <2>7. CASE Added(op, <<t>>)
    <3>1. Replacing \/ Replaced => Replacing' \/ Replaced'
      BY <2>1, <2>2, <2>3, <2>7, AddedHeld
    <3> QED
      BY <2>1, <2>4, <2>5, <3>1 DEF Held
  <2> QED
    BY <2>1, <2>6, <2>7
<1>8. CASE Sample
  <2> DEFINE s == [Idle EXCEPT !.step = "sampled", !.sample = [queue |-> queue, at |-> at]]
  <2>1. s.picks = <<>> /\ s.cues = <<>> /\ s.batches = <<>>
    BY DEF Idle
  <2>2. job' = [job EXCEPT !["top_up"] = s] /\ UNCHANGED <<queue, at, commands, seen, paused>>
    BY <1>8 DEF Sample, pool, phone
  <2> HIDE DEF s
  <2>3. job'["top_up"] = s /\ job'["replan"] = job["replan"]
    BY <1>1, <2>2
  <2>4. Welcome' = Welcome
    BY <2>2 DEF Welcome, Unpaused
  <2>5. JobFits(s, Welcome)
    BY <2>1, EmptyFits
  <2>6. ToReplace => ToReplace'
    BY <2>3 DEF ToReplace
  <2>7. ~seen.crossed /\ ~seen.left => \A h \in Handlers : JobFits(job'[h], Welcome')
    BY <2>3, <2>4, <2>5 DEF Held, Handlers
  <2> QED
    BY <2>2, <2>4, <2>6, <2>7, StillHeld
<1>9. ASSUME NEW i \in DOMAIN commands, Lose(i)
      PROVE  Held'
  <2>1. seen'.crossed = TRUE
    BY <1>1, <1>9 DEF Lose, Seen
  <2> QED
    BY <2>1 DEF Held
<1>10. CASE NextSong
  <2>1. UNCHANGED <<queue, commands, job, paused>> /\ at' = at + 1
        /\ seen'.crossed = seen.crossed /\ seen'.left = seen.left /\ seen'.asked = seen.asked
    BY <1>1, <1>10 DEF NextSong, Seen, pool
  <2>2. Welcome' = Welcome
    BY <2>1 DEF Welcome, Unpaused
  <2>3. \A x \in at' + 1 .. Len(queue) : x \in at + 1 .. Len(queue)
    <3>1. at \in 1 .. Len(queue) /\ Len(queue) \in Nat
      BY DEF Types, TypeOK
    <3> QED
      BY <2>1, <3>1
  <2>4. ToReplace => ToReplace'
    BY <2>1 DEF ToReplace
  <2>5. Replacing => Replacing'
    BY <2>1, <2>2 DEF Replacing, Ids
  <2>6. Replaced => Replaced'
    BY <2>1, <2>2, <2>3 DEF Replaced, Ids
  <2> QED
    BY <2>1, <2>2, <2>4, <2>5, <2>6 DEF Held
<1>11. ASSUME NEW t \in Others, PlayOther(t)
       PROVE  Held'
  <2>1. UNCHANGED <<commands, job, paused>> /\ at' = 1 /\ queue' = <<t>>
        /\ seen'.crossed = seen.crossed /\ seen'.left = seen.left
        /\ seen'.asked = seen.asked \cup {t}
    BY <1>1, <1>11 DEF PlayOther, Seen, pool
  <2>2. Welcome \subseteq Welcome'
    BY <2>1, WelcomeGrows
  <2>3. \A x \in at' + 1 .. Len(queue') : FALSE
    <3>1. Len(queue') = 1
      BY <2>1
    <3> QED
      BY <2>1, <3>1
  <2>4. ToReplace => ToReplace'
    BY <2>1 DEF ToReplace
  <2>5. Replacing => Replacing'
    BY <2>1, <2>2 DEF Replacing, Ids
  <2>6. Replaced => Replaced'
    BY <2>1, <2>2, <2>3 DEF Replaced, Ids
  <2>7. ~seen.crossed /\ ~seen.left => \A h \in Handlers : JobFits(job'[h], Welcome')
    BY <2>1, <2>2, FitsGrow DEF Held
  <2> QED
    BY <2>1, <2>4, <2>5, <2>6, <2>7 DEF Held
<1>12. CASE UNCHANGED vars
  <2>1. UNCHANGED <<queue, at, commands, job, paused, seen>>
    BY <1>12 DEF vars, pool, phone
  <2>2. Welcome' = Welcome
    BY <2>1 DEF Welcome, Unpaused
  <2>3. ToReplace => ToReplace'
    BY <2>1 DEF ToReplace
  <2>4. ~seen.crossed /\ ~seen.left => \A h \in Handlers : JobFits(job'[h], Welcome')
    BY <2>1, <2>2 DEF Held
  <2> QED
    BY <2>1, <2>2, <2>3, <2>4, StillHeld
<1> QED
  BY <1>1, <1>3, <1>4, <1>5, <1>6, <1>7, <1>8, <1>9, <1>10, <1>11, <1>12,
     PickedHeld, SendHeld, ExecuteHeld
     DEF Next, PoolNext, PhoneNext

LEMMA InitHeld == Init => InTime /\ Held
<1> SUFFICES ASSUME Init
             PROVE  InTime /\ Held
  OBVIOUS
<1>1. \A h \in Handlers : job[h] = Idle
  BY DEF Init, Handlers
<1>2. queue = <<Song>> /\ at = 1 /\ Len(queue) = 1 /\ DOMAIN commands = {}
  BY DEF Init
<1>3. InTime
  BY <1>1, <1>2 DEF InTime, Busy, Handlers, Idle
<1>4. \A h \in Handlers : JobFits(job[h], Welcome)
  BY <1>1, EmptyFits DEF Idle
<1>5. \A x \in 1 + 1 .. 1 : FALSE
  OBVIOUS
<1>6. Replaced
  BY <1>2, <1>5 DEF Replaced
<1> QED
  BY <1>3, <1>4, <1>6 DEF Held

\* For any lanes that share any songs: once the replan of a paused lane is done, none of
\* its songs is to come, unless it was asked for or another lane has it too.
THEOREM PauseHolds == Spec => []PauseTakesHold
<1>1. ASSUME Types, AllTidy, Held
      PROVE  PauseTakesHold
  <2> SUFFICES ASSUME Settled, ~seen.crossed, ~seen.left, NEW k \in paused,
                      NEW t \in ToSet(After(Now)), t \in TracksOf[k]
               PROVE  t \in seen.asked \cup {q.play : q \in Cues}
                            \cup UNION {TracksOf[m] : m \in Unpaused}
    BY DEF PauseTakesHold
  <2>1. commands = <<>> /\ \A h \in DOMAIN job : ~Busy(h)
    BY DEF Settled
  <2>2. "replan" \in DOMAIN job /\ DOMAIN commands = {}
    BY <1>1, <2>1 DEF Types, TypeOK
  <2>3. ~ToReplace /\ ~Replacing
    BY <2>1, <2>2 DEF ToReplace, Replacing, Busy
  <2>4. Replaced
    BY <1>1, <2>3 DEF Held
  <2>5. ToSet(After(Now)) = {queue[x] : x \in at + 1 .. Len(queue)}
    <3>1. queue \in Seq(Tracks) /\ at \in 1 .. Len(queue) /\ Len(queue) \in Nat
      BY <1>1 DEF Types, TypeOK
    <3>2. at \in Nat /\ at <= Len(queue) /\ Len(queue) <= Len(queue)
      BY <3>1
    <3>3. ToSet(SubSeq(queue, at + 1, Len(queue))) = {queue[x] : x \in at + 1 .. Len(queue)}
      BY <3>1, <3>2, SliceDoes, Zenon
    <3> QED
      BY <3>3 DEF After, Now
  <2>6. t \in Welcome
    BY <2>4, <2>5 DEF Replaced
  <2> DEFINE C == {q.play : q \in Cues}
             U == UNION {TracksOf[m] : m \in Unpaused}
             P == UNION {TracksOf[l] : l \in paused}
  <2>7. t \in P
    OBVIOUS
  <2>8. Welcome = seen.asked \cup C \cup U \cup (Tracks \ P)
    BY Zenon DEF Welcome
  <2>9. t \in seen.asked \cup C \cup U
    <3> HIDE DEF C, U, P
    <3> QED
      BY <2>6, <2>7, <2>8
  <2> QED
    BY <2>9
<1>2. Types /\ AllTidy /\ InTime /\ Held /\ [Next]_vars
      => (Types /\ AllTidy /\ InTime /\ Held)'
  BY StepKeepsTypes, StaysInTime, StaysHeld
<1> QED
  BY InitTypes, InitHeld, <1>1, <1>2, PTL DEF Spec

-----------------------------------------------------------------------------
(* The queue does not get deeper than the pool's depth *)

\* How deep the queue may be: what is wanted, what agents asked for, and the cues.
Bound == Ahead + seen.asks + Cardinality(Cues \ pending)

\* A command may make a queue that was no deeper than x no deeper than y.
Fills(x, y, c) == (IF Replaces(c) THEN Len(c.ids) ELSE x + Len(c.ids)) <= y

\* Estimates of the depth from x on as commands cs are carried out, none above B.
Course(d, x, cs, B) ==
  /\ d \in [0 .. Len(cs) -> Nat]
  /\ x <= d[0]
  /\ \A k \in 1 .. Len(cs) : Fills(d[k - 1], d[k], cs[k])
  /\ \A k \in 0 .. Len(cs) : d[k] <= B

\* A handler does not exceed B when what went before it leaves a depth of x.
HasRoom(h, j, x, B) ==
  /\ j.step = "picking" => j.need + (IF h = "replan" THEN 0 ELSE x) <= B
  /\ j.step = "sending" => \E e : Course(e, x, j.batches, B)

Estimate(d) == /\ Course(d, Len(queue) - at, commands, Bound)
               /\ \A h \in Handlers : HasRoom(h, job[h], d[Len(commands)], Bound)

Shallow == ~seen.crossed /\ ~seen.left => \E d : Estimate(d)

LEMMA BoundIsNat ==
  ASSUME Types
  PROVE  Bound \in Nat /\ Ahead \in Nat /\ Ahead <= Bound
<1>1. IsFiniteSet(Cues \ pending)
  BY PoolAssumption, FS_Difference
<1>2. Cardinality(Cues \ pending) \in Nat
  BY <1>1, FS_CardinalityType
<1>3. seen.asks \in Nat /\ Ahead \in Nat
  BY PoolAssumption DEF Types, TypeOK
<1> QED
  BY <1>2, <1>3 DEF Bound

LEMMA NextBoundIsNat ==
  ASSUME Types'
  PROVE  Bound' \in Nat
<1>1. IsFiniteSet(Cues \ pending')
  BY PoolAssumption, FS_Difference
<1>2. Cardinality(Cues \ pending') \in Nat
  BY <1>1, FS_CardinalityType
<1>3. seen'.asks \in Nat /\ Ahead \in Nat
  BY PoolAssumption DEF Types, TypeOK
<1> QED
  BY <1>2, <1>3 DEF Bound

LEMMA CourseGrows ==
  ASSUME NEW d, NEW x \in Int, NEW y \in Int, NEW cs, NEW B \in Int, NEW C \in Int,
         Course(d, x, cs, B), y <= x, B <= C, Len(cs) \in Nat
  PROVE  Course(d, y, cs, C)
<1>1. /\ d \in [0 .. Len(cs) -> Nat] /\ x <= d[0]
      /\ \A k \in 0 .. Len(cs) : d[k] <= B
      /\ \A k \in 1 .. Len(cs) : Fills(d[k - 1], d[k], cs[k])
  BY DEF Course
<1>2. 0 \in 0 .. Len(cs) /\ \A k \in 0 .. Len(cs) : d[k] \in Nat
  BY <1>1
<1>3. y <= d[0]
  BY <1>1, <1>2
<1>4. \A k \in 0 .. Len(cs) : d[k] <= C
  BY <1>1, <1>2
<1> QED
  BY <1>1, <1>3, <1>4 DEF Course

\* Commands es, n of them, are what follows command c in cs.
Moved(cs, es, c, n) ==
  c = cs[1] /\ Len(cs) = n + 1 /\ Len(es) = n /\ \A k \in 1 .. n : es[k] = cs[k + 1]

\* Estimate e does for es what d does for what comes after command c.
GoesOn(d, e, c, es, n, B) ==
  /\ Course(e, d[1], es, B) /\ e[n] = d[n + 1]
  /\ d[0] \in Nat /\ d[1] \in Nat /\ Fills(d[0], d[1], c) /\ d[1] <= B

\* The first command is over.
LEMMA CourseMoves ==
  ASSUME NEW d, NEW x \in Int, NEW cs, NEW es, NEW c, NEW n \in Nat, NEW B \in Int,
         Course(d, x, cs, B), Moved(cs, es, c, n)
  PROVE  \E e : GoesOn(d, e, c, es, n, B)
<1>0. c = cs[1] /\ Len(cs) = n + 1 /\ Len(es) = n /\ \A k \in 1 .. n : es[k] = cs[k + 1]
  BY DEF Moved
<1> DEFINE e == [k \in 0 .. n |-> d[k + 1]]
<1>1. /\ d \in [0 .. n + 1 -> Nat] /\ x <= d[0]
      /\ \A k \in 0 .. n + 1 : d[k] <= B
      /\ \A k \in 1 .. n + 1 : Fills(d[k - 1], d[k], cs[k])
  BY <1>0 DEF Course
<1>2. \A k \in 0 .. n : k + 1 \in 0 .. n + 1
  OBVIOUS
<1>3. e \in [0 .. n -> Nat] /\ \A k \in 0 .. n : e[k] = d[k + 1]
  BY <1>1, <1>2
<1> HIDE DEF e
<1>4. \A k \in 0 .. n : e[k] <= B
  BY <1>1, <1>2, <1>3
<1>5. \A k \in 1 .. n : Fills(e[k - 1], e[k], es[k])
  <2> SUFFICES ASSUME NEW k \in 1 .. n
               PROVE  Fills(e[k - 1], e[k], es[k])
    OBVIOUS
  <2>1. k - 1 \in 0 .. n /\ k \in 0 .. n /\ k - 1 + 1 = k /\ k + 1 \in 1 .. n + 1
        /\ k + 1 - 1 = k
    OBVIOUS
  <2>2. e[k - 1] = d[k] /\ e[k] = d[k + 1] /\ es[k] = cs[k + 1]
    BY <1>0, <1>3, <2>1
  <2>3. Fills(d[k + 1 - 1], d[k + 1], cs[k + 1])
    BY <1>1, <2>1
  <2> QED
    BY <2>1, <2>2, <2>3
<1>6. 0 \in 0 .. n /\ n \in 0 .. n /\ 0 + 1 = 1
  OBVIOUS
<1>7. e[0] = d[1] /\ e[n] = d[n + 1]
  BY <1>3, <1>6
<1>8. 0 \in 0 .. n + 1 /\ 1 \in 0 .. n + 1 /\ 1 \in 1 .. n + 1 /\ 1 - 1 = 0
  OBVIOUS
<1>9. d[0] \in Nat /\ d[1] \in Nat /\ d[1] <= B
  BY <1>1, <1>8
<1>10. Fills(d[0], d[1], c)
  BY <1>0, <1>1, <1>8
<1>11. d[1] <= e[0]
  BY <1>7, <1>9
<1>12. Course(e, d[1], es, B)
  BY <1>0, <1>3, <1>4, <1>5, <1>11 DEF Course
<1>13. GoesOn(d, e, c, es, n, B)
  BY <1>7, <1>9, <1>10, <1>12 DEF GoesOn
<1> QED
  BY <1>13

\* Commands es are the n of cs and then c.
Extended(cs, es, c, n) ==
  Len(cs) = n /\ Len(es) = n + 1 /\ es[n + 1] = c /\ \A k \in 1 .. n : es[k] = cs[k]

\* One more command comes last.
LEMMA CourseAppends ==
  ASSUME NEW d, NEW x \in Int, NEW cs, NEW es, NEW c, NEW n \in Nat, NEW B \in Int,
         NEW y \in Nat, Course(d, x, cs, B), Extended(cs, es, c, n), Fills(d[n], y, c), y <= B
  PROVE  \E e : Course(e, x, es, B) /\ e[n + 1] = y
<1>0. Len(cs) = n /\ Len(es) = n + 1 /\ es[n + 1] = c /\ \A k \in 1 .. n : es[k] = cs[k]
  BY DEF Extended
<1> DEFINE e == [k \in 0 .. n + 1 |-> IF k = n + 1 THEN y ELSE d[k]]
<1>1. /\ d \in [0 .. n -> Nat] /\ x <= d[0]
      /\ \A k \in 0 .. n : d[k] <= B
      /\ \A k \in 1 .. n : Fills(d[k - 1], d[k], cs[k])
  BY <1>0 DEF Course
<1>2. \A k \in 0 .. n + 1 : k = n + 1 \/ k \in 0 .. n
  OBVIOUS
<1>3. /\ e \in [0 .. n + 1 -> Nat] /\ e[n + 1] = y
      /\ \A k \in 0 .. n : e[k] = d[k]
  BY <1>1, <1>2
<1> HIDE DEF e
<1>4. \A k \in 0 .. n + 1 : e[k] <= B
  BY <1>1, <1>2, <1>3
<1>5. \A k \in 1 .. n + 1 : Fills(e[k - 1], e[k], es[k])
  <2> SUFFICES ASSUME NEW k \in 1 .. n + 1
               PROVE  Fills(e[k - 1], e[k], es[k])
    OBVIOUS
  <2>1. CASE k = n + 1
    <3>1. k - 1 = n /\ n \in 0 .. n
      BY <2>1
    <3> QED
      BY <1>0, <1>3, <2>1, <3>1
  <2>2. CASE k # n + 1
    <3>1. k \in 1 .. n /\ k \in 0 .. n /\ k - 1 \in 0 .. n
      BY <2>2
    <3> QED
      BY <1>0, <1>1, <1>3, <3>1
  <2> QED
    BY <2>1, <2>2
<1>6. x <= e[0]
  <2>1. 0 \in 0 .. n
    OBVIOUS
  <2> QED
    BY <1>1, <1>3, <2>1
<1>7. Course(e, x, es, B)
  BY <1>0, <1>3, <1>4, <1>5, <1>6 DEF Course
<1> QED
  BY <1>3, <1>7

\* One more item waits before all the commands.
LEMMA CourseRises ==
  ASSUME NEW d, NEW x \in Int, NEW cs, NEW n \in Nat, NEW B \in Int,
         Course(d, x, cs, B), Len(cs) = n,
         \A k \in 1 .. n : Len(cs[k].ids) \in Nat
  PROVE  \E e : Course(e, x + 1, cs, B + 1)
<1> DEFINE e == [k \in 0 .. n |-> d[k] + 1]
<1>1. /\ d \in [0 .. n -> Nat] /\ x <= d[0]
      /\ \A k \in 0 .. n : d[k] <= B
      /\ \A k \in 1 .. n : Fills(d[k - 1], d[k], cs[k])
  BY DEF Course
<1>2. \A k \in 0 .. n : d[k] \in Nat
  BY <1>1
<1>3. e \in [0 .. n -> Nat] /\ \A k \in 0 .. n : e[k] = d[k] + 1
  BY <1>2
<1> HIDE DEF e
<1>4. \A k \in 0 .. n : e[k] <= B + 1
  BY <1>1, <1>2, <1>3
<1>5. \A k \in 1 .. n : Fills(e[k - 1], e[k], cs[k])
  <2> SUFFICES ASSUME NEW k \in 1 .. n
               PROVE  Fills(e[k - 1], e[k], cs[k])
    OBVIOUS
  <2>1. k \in 0 .. n /\ k - 1 \in 0 .. n
    OBVIOUS
  <2>2. e[k] = d[k] + 1 /\ e[k - 1] = d[k - 1] + 1 /\ d[k] \in Nat /\ d[k - 1] \in Nat
    BY <1>2, <1>3, <2>1
  <2>3. Fills(d[k - 1], d[k], cs[k]) /\ Len(cs[k].ids) \in Nat
    BY <1>1
  <2>4. CASE Replaces(cs[k])
    BY <2>2, <2>3, <2>4 DEF Fills
  <2>5. CASE ~Replaces(cs[k])
    BY <2>2, <2>3, <2>5 DEF Fills
  <2> QED
    BY <2>4, <2>5
<1>6. x + 1 <= e[0]
  <2>1. 0 \in 0 .. n
    OBVIOUS
  <2> QED
    BY <1>1, <1>2, <1>3, <2>1
<1>7. Course(e, x + 1, cs, B + 1)
  BY <1>3, <1>4, <1>5, <1>6 DEF Course
<1> QED
  BY <1>7

\* What chunks of ids bring a queue of depth x to.
LEMMA ChunksCourse ==
  ASSUME NEW op \in Ops, NEW ids \in Seq(Tracks), NEW x \in Nat, NEW B \in Nat, x <= B,
         (IF op = "replace_upcoming" THEN Len(ids) ELSE x + Len(ids)) <= B
  PROVE  \E e : Course(e, x, Chunks(op, ids), B)
<1> DEFINE n == Len(ids)
           N == (n + Chunk - 1) \div Chunk
           C == Chunks(op, ids)
           base == IF op = "replace_upcoming" THEN 0 ELSE x
           e == [k \in 0 .. N |-> IF k = 0 THEN x ELSE base + Upto(n, k)]
<1>1. n \in Nat /\ base \in Nat /\ base + n <= B /\ base <= x
  OBVIOUS
<1>2. /\ N \in Nat
      /\ \A k \in 1 .. N : Upto(n, k) \in Nat /\ Upto(n, k) <= n
      /\ Upto(n, 0) = 0
      /\ \A k \in 1 .. N : Upto(n, k - 1) \in Nat
  BY <1>1, UptoDoes
<1>3. /\ C \in Seq(Batch) /\ Len(C) = N
      /\ \A k \in DOMAIN C :
           /\ C[k].op = IF k = 1 THEN op ELSE "queue"
           /\ Len(C[k].ids) = Upto(n, k) - Upto(n, k - 1)
  BY ChunksDo
<1> HIDE DEF C, N, base
<1>4. DOMAIN C = 1 .. N
  BY <1>3
<1>5. \A k \in 0 .. N : k = 0 \/ k \in 1 .. N
  OBVIOUS
<1>6. \A k \in 1 .. N : k # 0 /\ k \in 0 .. N
  OBVIOUS
<1>7. /\ e \in [0 .. N -> Nat] /\ e[0] = x
      /\ \A k \in 1 .. N : e[k] = base + Upto(n, k)
  BY <1>1, <1>2, <1>5, <1>6
<1> HIDE DEF e, n
<1>8. \A k \in 0 .. N : e[k] <= B
  BY <1>1, <1>2, <1>5, <1>7
<1>9. ASSUME NEW k \in 1 .. N
      PROVE  Fills(e[k - 1], e[k], C[k])
  <2>1. Len(C[k].ids) = Upto(n, k) - Upto(n, k - 1) /\ e[k] = base + Upto(n, k)
        /\ Upto(n, k) \in Nat /\ Upto(n, k - 1) \in Nat
        /\ C[k].op = IF k = 1 THEN op ELSE "queue"
    BY <1>2, <1>3, <1>4, <1>7
  <2>2. CASE k = 1
    <3>1. k - 1 = 0 /\ C[k].op = op
      BY <2>1, <2>2
    <3>2. e[k - 1] = x /\ Len(C[k].ids) = Upto(n, k)
      BY <1>2, <1>7, <2>1, <3>1
    <3>3. CASE op = "replace_upcoming"
      BY <1>1, <2>1, <3>1, <3>2, <3>3 DEF Fills, Replaces
    <3>4. CASE op # "replace_upcoming"
      BY <1>1, <2>1, <3>1, <3>2, <3>4 DEF Fills, Replaces, base
    <3> QED
      BY <3>3, <3>4
  <2>3. CASE k # 1
    <3>1. k - 1 \in 1 .. N
      BY <1>2, <2>3
    <3>2. e[k - 1] = base + Upto(n, k - 1) /\ C[k].op = "queue"
      BY <1>7, <2>1, <2>3, <3>1
    <3> QED
      BY <1>1, <2>1, <3>2 DEF Fills, Replaces
  <2> QED
    BY <2>2, <2>3
<1>10. x <= e[0]
  BY <1>7
<1>11. Course(e, x, C, B)
  BY <1>3, <1>7, <1>8, <1>9, <1>10 DEF Course
<1> QED
  BY <1>11 DEF C

\* What the picks bring a queue of depth x to: the cues' songs are not added again.
LEMMA BatchesCourse ==
  ASSUME NEW h \in Handlers, NEW j \in Job, Tidy(j), j.step = "picking",
         NEW x \in Nat, NEW B \in Nat, x <= B, HasRoom(h, j, x, B)
  PROVE  \E e : Course(e, x, Batches(h, j), B)
<1>1. /\ j.picks \in Seq(Tracks) /\ j.cues \in Seq(Tracks) /\ j.need \in Nat
      /\ Len(j.picks) \in Nat /\ Len(j.cues) \in Nat
  BY DEF Job
<1>2. /\ Len(j.picks) <= j.need /\ Len(j.cues) <= Len(j.picks)
      /\ \A k \in DOMAIN j.cues : j.picks[k] = j.cues[k]
  BY DEF Tidy
<1>3. j.need + (IF h = "replan" THEN 0 ELSE x) <= B
  BY DEF HasRoom
<1>4. CASE h = "replan"
  <2>1. Batches(h, j) = Chunks("replace_upcoming", j.picks)
    BY <1>4 DEF Batches
  <2>2. Len(j.picks) <= B
    BY <1>1, <1>2, <1>3, <1>4
  <2> QED
    BY <1>1, <2>1, <2>2, ChunksCourse DEF Ops
<1>5. CASE h = "top_up"
  <2> DEFINE w == Without(j.picks, ToSet(j.cues))
             rest == Chunks("queue", w)
             cue == [op |-> "play_next", ids |-> j.cues]
             m == Len(j.cues)
  <2>1. \A k \in 1 .. m : j.picks[k] \in ToSet(j.cues)
    <3>1. DOMAIN j.cues = 1 .. m
      BY <1>1
    <3> QED
      BY <1>2, <3>1 DEF ToSet
  <2>2. m \in 0 .. Len(j.picks)
    BY <1>1, <1>2
  <2>3. w \in Seq(Tracks) /\ Len(w) <= Len(j.picks) - m
    BY <1>1, <2>1, <2>2, WithoutDoes
  <2>4. Len(w) \in Nat /\ x + m \in Nat /\ x + m <= B /\ x + m + Len(w) <= B
    <3>1. Len(w) \in Nat
      BY <2>3
    <3>2. j.need + x <= B
      BY <1>3, <1>5
    <3>3. m \in Nat /\ m <= Len(j.picks)
      BY <1>1, <1>2
    <3> HIDE DEF w, m
    <3> QED
      BY <1>1, <1>2, <2>3, <3>1, <3>2, <3>3
  <2> HIDE DEF w
  <2>5. PICK e : Course(e, x + m, rest, B)
    BY <2>3, <2>4, ChunksCourse DEF Ops
  <2>6. rest \in Seq(Batch)
    BY <2>3, ChunksDo DEF Ops
  <2>7. Batches(h, j) = (IF j.cues = <<>> THEN <<>> ELSE <<cue>>) \o rest
    BY <1>5 DEF Batches, w
  <2> HIDE DEF rest
  <2>8. CASE j.cues = <<>>
    <3>1. Batches(h, j) = <<>> \o rest
      BY <2>7, <2>8
    <3>2. Batches(h, j) = rest
      BY <2>6, <3>1
    <3>3. m = 0
      BY <2>8
    <3> QED
      BY <2>5, <3>2, <3>3
  <2>9. CASE j.cues # <<>>
    <3> DEFINE N == Len(rest)
               bs == <<cue>> \o rest
               f == [k \in 0 .. N + 1 |-> IF k = 0 THEN x ELSE e[k - 1]]
    <3>1. N \in Nat /\ cue \in Batch /\ cue.ids = j.cues /\ cue.op = "play_next"
      BY <1>1, <2>6 DEF Batch, Ops
    <3> HIDE DEF cue
    <3>2. Len(bs) = N + 1 /\ bs[1] = cue /\ \A k \in 1 .. N : bs[k + 1] = rest[k]
      BY <2>6, <3>1
    <3>3. /\ e \in [0 .. N -> Nat] /\ x + m <= e[0]
          /\ \A k \in 1 .. N : Fills(e[k - 1], e[k], rest[k])
          /\ \A k \in 0 .. N : e[k] <= B
      BY <2>5 DEF Course
    <3>4. Batches(h, j) = bs
      BY <2>7, <2>9
    <3> HIDE DEF bs, N
    <3>5. \A k \in 0 .. N + 1 : k = 0 \/ k - 1 \in 0 .. N
      BY <3>1
    <3>6. \A k \in 1 .. N + 1 : k # 0 /\ k \in 0 .. N + 1 /\ k - 1 \in 0 .. N
      BY <3>1
    <3>7. f \in [0 .. N + 1 -> Nat] /\ \A k \in 1 .. N + 1 : f[k] = e[k - 1]
      BY <3>3, <3>5, <3>6
    <3>8. f[0] = x
      BY <3>1
    <3> HIDE DEF f
    <3>9. \A k \in 0 .. N + 1 : f[k] <= B
      <4>1. \A k \in 0 .. N + 1 : k = 0 \/ k \in 1 .. N + 1
        BY <3>1
      <4> QED
        BY <3>3, <3>6, <3>7, <3>8, <4>1
    <3>10. ASSUME NEW k \in 1 .. N + 1
           PROVE  Fills(f[k - 1], f[k], bs[k])
      <4>1. CASE k = 1
        <5>1. f[k - 1] = x /\ f[k] = e[0] /\ bs[k] = cue /\ e[0] \in Nat
          BY <3>1, <3>2, <3>3, <3>7, <3>8, <4>1
        <5> QED
          BY <3>1, <3>3, <5>1 DEF Fills, Replaces
      <4>2. CASE k # 1
        <5>1. k - 1 \in 1 .. N /\ k - 1 \in 1 .. N + 1 /\ k - 1 + 1 = k
          BY <3>1, <4>2
        <5>2. f[k - 1] = e[k - 1 - 1] /\ f[k] = e[k - 1] /\ bs[k - 1 + 1] = rest[k - 1]
          BY <3>2, <3>7, <5>1
        <5>3. Fills(e[k - 1 - 1], e[k - 1], rest[k - 1])
          BY <3>3, <5>1
        <5> QED
          BY <5>1, <5>2, <5>3
      <4> QED
        BY <4>1, <4>2
    <3>11. x <= f[0]
      BY <3>8
    <3>12. Course(f, x, bs, B)
      BY <3>2, <3>7, <3>9, <3>10, <3>11 DEF Course
    <3> QED
      BY <3>4, <3>12
  <2> QED
    BY <2>8, <2>9
<1> QED
  BY <1>4, <1>5 DEF Handlers

\* Nothing is sent, and the queue gets no deeper.
LEMMA StillShallow ==
  ASSUME Types, Types', Shallow, commands' = commands,
         Len(queue') - at' <= Len(queue) - at, Bound <= Bound',
         ~seen'.crossed /\ ~seen'.left => ~seen.crossed /\ ~seen.left,
         ~seen'.crossed /\ ~seen'.left
         => \A h \in Handlers, x \in Nat :
              x <= Bound /\ HasRoom(h, job[h], x, Bound) => HasRoom(h, job'[h], x, Bound')
  PROVE  Shallow'
<1> SUFFICES ASSUME ~seen'.crossed, ~seen'.left
             PROVE  \E d : Estimate(d)'
  BY DEF Shallow
<1>1. PICK d : Estimate(d)
  BY DEF Shallow
<1>2. Bound \in Nat /\ Bound' \in Nat
  BY BoundIsNat, NextBoundIsNat
<1>3. /\ Len(commands) \in Nat
      /\ Len(queue) - at \in Int /\ Len(queue') - at' \in Int
  <2>1. commands \in Seq(Sent)
    BY DEF Types, TypeOK, Sent
  <2>2. Len(queue) - at \in Int
    BY DEF Types, TypeOK
  <2>3. queue' \in Seq(Tracks) /\ at' \in 1 .. Len(queue')
    BY DEF Types, TypeOK
  <2>4. Len(queue') - at' \in Int
    BY <2>3
  <2> QED
    BY <2>1, <2>2, <2>4
<1>4. Course(d, Len(queue) - at, commands, Bound)
  BY <1>1 DEF Estimate
<1>5. Course(d, Len(queue') - at', commands, Bound')
  BY <1>2, <1>3, <1>4, CourseGrows
<1>6. d[Len(commands)] \in Nat /\ d[Len(commands)] <= Bound
  <2>1. Len(commands) \in 0 .. Len(commands)
    BY <1>3
  <2> QED
    BY <1>4, <2>1 DEF Course
<1>7. \A h \in Handlers : HasRoom(h, job'[h], d[Len(commands)], Bound')
  BY <1>1, <1>6 DEF Estimate
<1>8. Estimate(d)'
  BY <1>5, <1>7 DEF Estimate, Course, Fills, Replaces, HasRoom
<1> QED
  BY <1>8

LEMMA RoomGrows ==
  ASSUME NEW h, NEW j \in Job, NEW x \in Nat, NEW B \in Nat, NEW C \in Nat,
         HasRoom(h, j, x, B), B <= C
  PROVE  HasRoom(h, j, x, C)
<1>1. j.need \in Nat /\ Len(j.batches) \in Nat
  BY DEF Job
<1>2. CASE j.step = "picking"
  BY <1>1, <1>2 DEF HasRoom
<1>3. CASE j.step = "sending"
  <2>1. PICK e : Course(e, x, j.batches, B)
    BY <1>3 DEF HasRoom
  <2>2. Course(e, x, j.batches, C)
    BY <1>1, <2>1, CourseGrows
  <2> QED
    BY <1>3, <2>2 DEF HasRoom
<1>4. CASE j.step # "picking" /\ j.step # "sending"
  BY <1>4 DEF HasRoom
<1> QED
  BY <1>2, <1>3, <1>4

\* No more comes than the agent's one song, whatever was under way.
LEMMA AgentShallow ==
  ASSUME Types, Types', Shallow, NEW op \in Ops, NEW t \in Others, AgentSends(op, t)
  PROVE  Shallow'
<1>1. /\ Len(<<t>>) = 1 /\ (commands' = commands \/ Added(op, <<t>>))
      /\ seen'.asks = seen.asks + 1 /\ seen.asks \in Nat
      /\ seen'.crossed = seen.crossed /\ seen'.left = seen.left
      /\ UNCHANGED <<queue, at, job, pending>>
  BY AgentDoes DEF pool, phone
<1>2. Bound \in Nat /\ Bound' = Bound + 1
  <2>1. Cardinality(Cues \ pending) \in Nat
    BY PoolAssumption, FS_Difference, FS_CardinalityType
  <2> QED
    BY <1>1, <2>1, BoundIsNat, PoolAssumption DEF Bound
<1>3. \A h \in Handlers : job[h] \in Job /\ job'[h] = job[h]
  BY <1>1 DEF Types, TypeOK, Handlers
<1>4. CASE commands' = commands
  <2>1. \A h \in Handlers, x \in Nat :
          HasRoom(h, job[h], x, Bound) => HasRoom(h, job'[h], x, Bound')
    BY <1>2, <1>3, RoomGrows
  <2>2. Len(queue') - at' <= Len(queue) - at
    <3>1. Len(queue) - at \in Int
      BY DEF Types, TypeOK
    <3> QED
      BY <1>1, <3>1
  <2> QED
    BY <1>1, <1>2, <1>4, <2>1, <2>2, StillShallow
<1>5. CASE Added(op, <<t>>)
  <2> SUFFICES ASSUME ~seen.crossed, ~seen.left
               PROVE  \E d : Estimate(d)'
    BY <1>1 DEF Shallow
  <2>1. PICK kept \in Seq(Tracks), m \in Nat \ {0} :
          /\ Len(kept) <= Len(<<t>>)
          /\ Len(commands) = m - 1 /\ Len(commands') = m
          /\ \A i \in 1 .. m - 1 : commands'[i] = commands[i]
          /\ commands'[m].op = op /\ commands'[m].ids = kept
    BY <1>5, Zenon DEF Added
  <2> DEFINE n == m - 1
  <2>2. n \in Nat /\ n + 1 = m
    BY <2>1
  <2> HIDE DEF n
  <2>3. PICK d : Estimate(d)
    BY DEF Shallow
  <2>4. Course(d, Len(queue) - at, commands, Bound)
    BY <2>3 DEF Estimate
  <2>5. Len(commands) = n /\ Len(commands') = n + 1 /\ Len(kept) \in Nat /\ Len(kept) <= 1
        /\ \A k \in 1 .. n : commands'[k] = commands[k]
    BY <1>1, <2>1, <2>2 DEF n
  <2>6. d[n] \in Nat /\ d[n] <= Bound
    <3>1. n \in 0 .. n
      BY <2>2
    <3> QED
      BY <2>4, <2>5, <3>1 DEF Course
  <2>7. Fills(d[n], d[n] + 1, commands'[n + 1])
    BY <2>1, <2>2, <2>5, <2>6 DEF Fills, Replaces
  <2>8. Len(queue) - at \in Int
    BY DEF Types, TypeOK
  <2>9. Course(d, Len(queue) - at, commands, Bound')
    BY <1>2, <2>2, <2>4, <2>5, <2>8, CourseGrows
  <2>10. PICK e : Course(e, Len(queue) - at, commands', Bound') /\ e[n + 1] = d[n] + 1
    <3> DEFINE y == d[n] + 1
               x == Len(queue) - at
               B == Bound'
               c == commands'[n + 1]
               cs == commands
               es == commands'
    <3>1. y \in Nat /\ x \in Int /\ B \in Int /\ y <= B
      BY <1>2, <2>6, <2>8
    <3>2. Course(d, x, cs, B) /\ Fills(d[n], y, c)
      BY <2>7, <2>9
    <3>3. Extended(cs, es, c, n)
      BY <2>2, <2>5 DEF Extended
    <3> HIDE DEF y, x, B, c, cs, es
    <3>4. \E e : Course(e, x, es, B) /\ e[n + 1] = y
      BY <2>2, <3>1, <3>2, <3>3, CourseAppends
    <3> QED
      BY <3>4 DEF y, x, B, es
  <2>11. ASSUME NEW h \in Handlers
         PROVE  HasRoom(h, job'[h], d[n] + 1, Bound')
    <3>1. HasRoom(h, job[h], d[n], Bound)
      BY <2>3, <2>5 DEF Estimate
    <3>2. CASE job[h].step = "picking"
      <4>1. job[h].need \in Nat
        BY <1>3 DEF Job
      <4> QED
        BY <1>2, <1>3, <2>6, <3>1, <3>2, <4>1 DEF HasRoom
    <3>3. CASE job[h].step = "sending"
      <4> DEFINE cs == job[h].batches
      <4>1. PICK f : Course(f, d[n], cs, Bound)
        BY <3>1, <3>3 DEF HasRoom
      <4>2. cs \in Seq(Batch)
        BY <1>3 DEF Job
      <4>3. Len(cs) \in Nat /\ \A k \in 1 .. Len(cs) : cs[k] \in Batch
        BY <4>2
      <4>4. \A c \in Batch : Len(c.ids) \in Nat
        BY DEF Batch
      <4> HIDE DEF cs
      <4>5. \E g : Course(g, d[n] + 1, cs, Bound + 1)
        BY <1>2, <2>6, <4>1, <4>3, <4>4, CourseRises
      <4> QED
        BY <1>2, <1>3, <3>3, <4>5 DEF HasRoom, cs
    <3>4. CASE job[h].step # "picking" /\ job[h].step # "sending"
      BY <1>3, <3>4 DEF HasRoom
    <3> QED
      BY <3>2, <3>3, <3>4
  <2>12. Course(e, Len(queue') - at', commands', Bound')
    BY <1>1, <2>10
  <2>13. \A h \in Handlers : HasRoom(h, job'[h], e[Len(commands')], Bound')
    BY <2>5, <2>10, <2>11
  <2>14. Estimate(e)'
    BY <2>12, <2>13 DEF Estimate, Course, Fills, Replaces, HasRoom
  <2> QED
    BY <2>14
<1> QED
  BY <1>1, <1>4, <1>5

\* What is sent was counted when it was picked.
LEMMA SendShallow ==
  ASSUME Types, Types', AllTidy, InTime, Shallow, NEW h \in Handlers, Send(h)
  PROVE  Shallow'
<1> DEFINE b == job[h].batches[1]
           todo == job[h].batches
           t == Tail(todo)
<1>1. b = job[h].batches[1] /\ b = todo[1] /\ todo = job[h].batches /\ t = Tail(todo)
  OBVIOUS
<1> HIDE DEF b, todo, t
<1>2. /\ job[h].step = "sending" /\ todo \in Seq(Batch) /\ todo # <<>>
      /\ b \in Batch /\ b.ids \in Seq(Tracks)
      /\ job'[h].batches = t
      /\ job'[h] = Idle \/ job'[h].step = "sending"
      /\ \A g \in Handlers : g # h => job'[g] = job[g]
      /\ commands' = commands \/ Added(b.op, b.ids)
      /\ seen'.left = (seen.left \/ (b.op = "replace_upcoming" /\ commands' = commands))
      /\ seen'.crossed = seen.crossed /\ seen'.asks = seen.asks
      /\ UNCHANGED <<pending, queue, at>>
  BY <1>1, SendDoes DEF phone
<1> SUFFICES ASSUME ~seen'.crossed, ~seen'.left
             PROVE  \E d : Estimate(d)'
  BY DEF Shallow
<1>3. /\ ~seen.crossed /\ ~seen.left
      /\ b.op = "replace_upcoming" => commands' # commands
  BY <1>2
<1>4. PICK d : Estimate(d)
  BY <1>3 DEF Shallow
<1>5. Bound \in Nat /\ Bound' = Bound
  BY <1>2, BoundIsNat DEF Bound
<1> DEFINE n == Len(commands)
           x == Len(queue) - at
<1>6. n \in Nat /\ x \in Int
  <2>1. commands \in Seq(Sent)
    BY DEF Types, TypeOK, Sent
  <2> QED
    BY <2>1 DEF Types, TypeOK
<1>7. Course(d, x, commands, Bound)
  BY <1>4 DEF Estimate
<1>8. d[n] \in Nat /\ d[n] <= Bound
  <2>1. n \in 0 .. n
    BY <1>6
  <2> QED
    BY <1>7, <2>1 DEF Course
<1>9. PICK f : Course(f, d[n], todo, Bound)
  <2>1. job[h].step = "sending" /\ h \in Handlers /\ HasRoom(h, job[h], d[n], Bound)
    BY <1>2, <1>4 DEF Estimate, n
  <2>2. \E f : Course(f, d[n], job[h].batches, Bound)
    BY <2>1 DEF HasRoom
  <2> QED
    BY <1>1, <2>2
<1> DEFINE m == Len(t)
<1>10. /\ m \in Nat /\ Len(todo) = m + 1 /\ Len(t) = m
       /\ \A k \in 1 .. m : t[k] = todo[k + 1]
  <2>1. /\ t \in Seq(Batch) /\ Len(t) = Len(todo) - 1 /\ Len(todo) \in Nat
        /\ \A k \in DOMAIN t : t[k] = todo[k + 1]
    BY <1>1, <1>2, TailDoes
  <2>2. DOMAIN t = 1 .. Len(t) /\ Len(t) \in Nat
    BY <2>1
  <2> QED
    BY <2>1, <2>2
<1> HIDE DEF n, x, m
<1>11. PICK e : /\ Course(e, f[1], t, Bound)
                /\ f[0] \in Nat /\ f[1] \in Nat /\ Fills(f[0], f[1], b) /\ f[1] <= Bound
  <2> DEFINE z == d[n]
  <2>1. z \in Int /\ Course(f, z, todo, Bound) /\ Bound \in Int
    BY <1>5, <1>8, <1>9
  <2> HIDE DEF z
  <2>2. m \in Nat /\ Moved(todo, t, b, m)
    BY <1>1, <1>10 DEF Moved
  <2>3. PICK e : GoesOn(f, e, b, t, m, Bound)
    BY <2>1, <2>2, CourseMoves
  <2> QED
    BY <2>3 DEF GoesOn
<1>12. d[n] <= f[0]
  BY <1>9 DEF Course
<1>13. ASSUME NEW y \in Nat, y <= f[1], NEW g \in Handlers
       PROVE  HasRoom(g, job'[g], y, Bound)
  <2>1. CASE g = h
    <3>1. CASE job'[h] = Idle
      BY <2>1, <3>1 DEF HasRoom, Idle
    <3>2. CASE job'[h].step = "sending"
      <4>1. Course(e, y, t, Bound)
        BY <1>5, <1>10, <1>11, <1>13, CourseGrows
      <4> QED
        BY <1>2, <2>1, <3>2, <4>1 DEF HasRoom
    <3> QED
      BY <1>2, <3>1, <3>2
  <2>2. CASE g # h
    <3>1. ~Busy(g)
      BY <1>2, <1>3, <2>2 DEF InTime, Busy, Handlers
    <3> QED
      BY <1>2, <2>2, <3>1 DEF HasRoom, Busy
  <2> QED
    BY <2>1, <2>2
<1>14. CASE commands' = commands
  <2>1. ~Replaces(b) /\ Len(b.ids) \in Nat
    BY <1>2, <1>3, <1>14 DEF Replaces
  <2>2. d[n] <= f[1]
    BY <1>8, <1>11, <1>12, <2>1 DEF Fills
  <2>3. \A g \in Handlers : HasRoom(g, job'[g], d[n], Bound)
    BY <1>8, <1>13, <2>2
  <2>4. Estimate(d)'
    BY <1>2, <1>5, <1>7, <1>14, <2>3 DEF Estimate, Course, Fills, Replaces, HasRoom, n, x
  <2> QED
    BY <2>4
<1>15. CASE Added(b.op, b.ids)
  <2>1. PICK kept \in Seq(Tracks), i \in Nat \ {0} :
          /\ Len(kept) <= Len(b.ids)
          /\ Len(commands) = i - 1 /\ Len(commands') = i
          /\ \A k \in 1 .. i - 1 : commands'[k] = commands[k]
          /\ commands'[i].op = b.op /\ commands'[i].ids = kept
    BY <1>15, Zenon DEF Added
  <2>2. /\ Len(commands') = n + 1 /\ i = n + 1 /\ Len(kept) \in Nat /\ Len(b.ids) \in Nat
        /\ \A k \in 1 .. n : commands'[k] = commands[k]
    BY <1>2, <1>6, <2>1 DEF n
  <2>3. Fills(d[n], f[1], commands'[n + 1])
    BY <1>8, <1>11, <1>12, <2>1, <2>2 DEF Fills, Replaces
  <2>4. Len(commands) = n
    BY DEF n
  <2>5. PICK c : Course(c, x, commands', Bound) /\ c[n + 1] = f[1]
    <3> DEFINE y == f[1]
               new == commands'[n + 1]
               cs == commands
               es == commands'
    <3>1. y \in Nat /\ x \in Int /\ Bound \in Int /\ y <= Bound
      BY <1>5, <1>6, <1>11
    <3>2. Course(d, x, cs, Bound) /\ Fills(d[n], y, new)
      BY <1>7, <2>3
    <3>3. Extended(cs, es, new, n)
      BY <1>6, <2>2, <2>4 DEF Extended
    <3> HIDE DEF y, new, cs, es
    <3>4. \E c : Course(c, x, es, Bound) /\ c[n + 1] = y
      BY <1>6, <3>1, <3>2, <3>3, CourseAppends
    <3> QED
      BY <3>4 DEF y, es
  <2>6. \A g \in Handlers : HasRoom(g, job'[g], c[Len(commands')], Bound)
    BY <1>11, <1>13, <2>2, <2>5
  <2>7. Course(c, Len(queue') - at', commands', Bound)
    BY <1>2, <2>5 DEF x
  <2>8. Estimate(c)'
    BY <1>5, <2>6, <2>7 DEF Estimate, Course, Fills, Replaces, HasRoom
  <2> QED
    BY <2>8
<1> QED
  BY <1>2, <1>14, <1>15

\* What is carried out first was counted first.
LEMMA ExecuteShallow ==
  ASSUME Types, Types', InTime, Shallow, NEW i \in DOMAIN commands, Execute(i)
  PROVE  Shallow'
<1>1. /\ commands[i].op \in Ops /\ commands[i].ids \in Seq(Tracks)
      /\ queue' = Applied(commands[i].op, commands[i].ids)
      /\ i \in 1 .. Len(commands) /\ Len(commands) \in Nat
      /\ Len(commands') = Len(commands) - 1
      /\ DOMAIN commands' = 1 .. Len(commands) - 1 /\ DOMAIN commands = 1 .. Len(commands)
      /\ \A k \in DOMAIN commands' :
           /\ k < i => k \in DOMAIN commands /\ commands'[k] = commands[k]
           /\ k >= i => k + 1 \in DOMAIN commands /\ commands'[k] = commands[k + 1]
      /\ commands[i].late \/ \A k \in 1 .. i - 1 : commands[k].late
      /\ UNCHANGED <<pool, at, job, seen>>
  BY ExecuteDoes
<1> SUFFICES ASSUME ~seen.crossed, ~seen.left
             PROVE  \E d : Estimate(d)'
  BY <1>1 DEF Shallow
<1>2. i = 1
  <2>1. 1 \in DOMAIN commands /\ ~commands[1].late /\ ~commands[i].late
    BY <1>1 DEF InTime
  <2> QED
    BY <1>1, <2>1
<1>3. PICK d : Estimate(d)
  BY DEF Shallow
<1>4. Bound \in Nat /\ Bound' = Bound
  BY <1>1, BoundIsNat DEF Bound, pool
<1> DEFINE n == Len(commands')
           x == Len(queue) - at
<1>5. n \in Nat /\ Len(commands) = n + 1 /\ \A k \in 1 .. n : commands'[k] = commands[k + 1]
  BY <1>1, <1>2
<1>6. TypeOK /\ x \in Int /\ at \in Nat /\ Len(queue) \in Nat
  BY DEF Types, TypeOK
<1>7. Course(d, x, commands, Bound)
  BY <1>3 DEF Estimate
<1> HIDE DEF n, x
<1>8. PICK e : /\ Course(e, d[1], commands', Bound) /\ e[n] = d[n + 1]
               /\ d[0] \in Nat /\ d[1] \in Nat /\ Fills(d[0], d[1], commands[1]) /\ d[1] <= Bound
  <2> DEFINE cs == commands
             es == commands'
             c == commands[1]
  <2>1. Course(d, x, cs, Bound) /\ x \in Int /\ Bound \in Int
    BY <1>4, <1>6, <1>7
  <2>2. n \in Nat /\ Moved(cs, es, c, n)
    BY <1>5 DEF n, Moved
  <2> HIDE DEF cs, es, c
  <2>3. PICK e : GoesOn(d, e, c, es, n, Bound)
    BY <2>1, <2>2, CourseMoves
  <2> QED
    BY <2>3 DEF cs, es, c, GoesOn
<1>9. x <= d[0]
  BY <1>7 DEF Course
<1>10. Len(queue') = (IF commands[1].op = "replace_upcoming" THEN at ELSE Len(queue))
                     + Len(commands[1].ids)
       /\ Len(commands[1].ids) \in Nat
  <2> DEFINE op == commands[1].op
             ids == commands[1].ids
  <2>1. op \in Ops /\ ids \in Seq(Tracks) /\ queue' = Applied(op, ids) /\ Len(ids) \in Nat
    BY <1>1, <1>2
  <2> HIDE DEF op, ids
  <2>2. Len(Applied(op, ids)) = (IF op = "replace_upcoming" THEN at ELSE Len(queue)) + Len(ids)
    BY <1>6, <2>1, AppliedDoes
  <2> QED
    BY <2>1, <2>2 DEF op, ids
<1>11. Len(queue') - at <= d[1] /\ Len(queue') - at \in Int
  <2>1. CASE commands[1].op = "replace_upcoming"
    BY <1>6, <1>8, <1>10, <2>1 DEF Fills, Replaces
  <2>2. CASE commands[1].op # "replace_upcoming"
    BY <1>6, <1>8, <1>9, <1>10, <2>2 DEF Fills, Replaces, x
  <2> QED
    BY <2>1, <2>2
<1>12. Course(e, Len(queue') - at, commands', Bound)
  BY <1>4, <1>5, <1>8, <1>11, CourseGrows DEF n
<1>13. \A h \in Handlers : HasRoom(h, job[h], e[n], Bound)
  BY <1>3, <1>5, <1>8 DEF Estimate
<1>14. Estimate(e)'
  <2>1. Bound' = Bound /\ at' = at /\ job' = job /\ Len(commands') = n
    BY <1>1, <1>4 DEF n
  <2>2. Course(e, Len(queue') - at', commands', Bound')
    BY <1>12, <2>1
  <2>3. \A h \in Handlers : HasRoom(h, job'[h], e[Len(commands')], Bound')
    BY <1>13, <2>1
  <2> QED
    BY <2>2, <2>3 DEF Estimate, Course, Fills, Replaces, HasRoom
<1> QED
  BY <1>14

\* A cue's song is due: the bound is higher by at least the songs it brings.
LEMMA BoundRises ==
  ASSUME Types, NEW D \in SUBSET pending, pending' = pending \ D, seen'.asks = seen.asks
  PROVE  Bound' = Bound + Cardinality(D) /\ Cardinality(D) \in Nat
<1> DEFINE rest == Cues \ pending
<1>1. pending \subseteq Cues /\ IsFiniteSet(Cues)
  BY PoolAssumption DEF Types, TypeOK
<1>2. Cues \ (pending \ D) = rest \cup D /\ rest \cap D = {}
  BY <1>1
<1>3. IsFiniteSet(rest) /\ IsFiniteSet(D)
  BY <1>1, FS_Difference, FS_Subset
<1> HIDE DEF rest
<1>4. Cardinality(rest \cup D) = Cardinality(rest) + Cardinality(D) - Cardinality(rest \cap D)
  BY <1>3, FS_Union
<1>5. Cardinality(rest \cap D) = 0
  BY <1>2, FS_EmptySet
<1>6. Cardinality(rest) \in Nat /\ Cardinality(D) \in Nat
  BY <1>3, FS_CardinalityType
<1>7. Cardinality(Cues \ pending') = Cardinality(rest) + Cardinality(D)
  <2>1. Cues \ pending' = rest \cup D
    BY <1>2
  <2>2. Cardinality(Cues \ pending') = Cardinality(rest \cup D)
    BY <2>1
  <2> DEFINE a == Cardinality(rest \cup D)
             b == Cardinality(rest \cap D)
             r == Cardinality(rest)
             n == Cardinality(D)
  <2>3. a = r + n - b /\ b = 0 /\ r \in Nat /\ n \in Nat
    BY <1>4, <1>5, <1>6
  <2> HIDE DEF a, b, r, n
  <2>4. a = r + n
    BY <2>3
  <2> QED
    BY <2>2, <2>4 DEF a, r, n
<1>8. seen.asks \in Nat /\ Ahead \in Nat
  BY PoolAssumption DEF Types, TypeOK
<1>9. Bound = Ahead + seen.asks + Cardinality(rest)
  BY DEF Bound, rest
<1>10. Bound' = Ahead + seen.asks + (Cardinality(rest) + Cardinality(D))
  BY <1>7 DEF Bound
<1> QED
  BY <1>6, <1>8, <1>9, <1>10

\* One handler goes on, and has room; the bound is as it was.
LEMMA RoomForOne ==
  ASSUME Bound' = Bound, NEW h \in Handlers,
         \A g \in Handlers : g # h => job'[g] = job[g],
         \A x \in Nat : x <= Bound /\ HasRoom(h, job[h], x, Bound)
                        => HasRoom(h, job'[h], x, Bound)
  PROVE  \A g \in Handlers, x \in Nat :
           x <= Bound /\ HasRoom(g, job[g], x, Bound) => HasRoom(g, job'[g], x, Bound')
<1> TAKE g \in Handlers, x \in Nat
<1>1. CASE g = h
  BY <1>1
<1>2. CASE g # h
  <2>1. job'[g] = job[g]
    BY <1>2
  <2> QED
    BY <2>1
<1> QED
  BY <1>1, <1>2

\* A top-up begins to fill what the phone's queue lacks, and to add its cues' songs.
LEMMA TopUpShallow ==
  ASSUME Types, Types', Shallow,
         report' \in Report, Sound(report'), UNCHANGED <<queue, at, commands>>,
         NEW D \in SUBSET pending, NEW cp \in Seq(Tracks), NEW j \in Job,
         Begun(j, cp), job' = [job EXCEPT !["top_up"] = j],
         Len(cp) <= Cardinality(D), pending' = pending \ D,
         \/ j.need = Len(cp)
         \/ j.need = Ahead - Len(After(report')),
         seen' = [seen EXCEPT !.crossed = Crossing("replan", report')]
  PROVE  Shallow'
<1>1. job \in [{"top_up", "replan"} -> Job] /\ seen \in Seen
  BY DEF Types, TypeOK, Seen
<1>2. /\ seen'.crossed = Crossing("replan", report')
      /\ seen'.left = seen.left /\ seen'.asks = seen.asks
      /\ job'["top_up"] = j /\ job'["replan"] = job["replan"]
  BY <1>1 DEF Seen
<1> SUFFICES ASSUME ~seen'.crossed, ~seen'.left
             PROVE  \E d : Estimate(d)'
  BY DEF Shallow
<1>3. ~seen.crossed /\ ~seen.left /\ ~Busy("replan") /\ commands = <<>> /\ report' = Now
  BY <1>2 DEF Crossing
<1>4. PICK e : Estimate(e)
  BY <1>3 DEF Shallow
<1> DEFINE x == Len(queue) - at
<1>5. x \in Nat
  <2>1. at \in 1 .. Len(queue) /\ Len(queue) \in Nat
    BY DEF Types, TypeOK
  <2> QED
    BY <2>1
<1>6. Len(After(report')) = x
  <2> DEFINE r == report'
  <2>1. r \in Report /\ Sound(r) /\ r.queue = queue /\ r.at = at
    BY <1>3 DEF Now
  <2> HIDE DEF r
  <2>2. Len(After(r)) = Len(r.queue) - r.at
    BY <2>1, ReportDoes
  <2> QED
    BY <2>1, <2>2 DEF r
<1>7. Len(commands) = 0 /\ Len(commands') = 0
  BY <1>3
<1>8. x <= Bound
  <2>1. 0 \in 0 .. 0
    OBVIOUS
  <2>2. e[0] \in Nat /\ x <= e[0] /\ e[0] <= Bound
    BY <1>4, <1>7, <2>1 DEF Estimate, Course
  <2> QED
    BY <1>5, <2>2, BoundIsNat
<1>9. /\ Bound \in Nat /\ Ahead \in Nat /\ Ahead <= Bound
      /\ Bound' = Bound + Cardinality(D) /\ Cardinality(D) \in Nat
  BY <1>2, BoundIsNat, BoundRises
<1>10. j.need + x <= Bound'
  <2>1. j.need \in Nat /\ Len(cp) \in Nat
    BY DEF Begun
  <2> HIDE DEF x
  <2>2. CASE j.need = Len(cp)
    BY <1>5, <1>8, <1>9, <2>1, <2>2
  <2>3. CASE j.need = Ahead - x
    BY <1>5, <1>9, <2>3
  <2> QED
    BY <1>6, <2>2, <2>3
<1> DEFINE d == [k \in 0 .. 0 |-> x]
<1>11. d \in [0 .. 0 -> Nat] /\ d[0] = x
  BY <1>5
<1>12. x <= Bound' /\ x <= x
  BY <1>5, <1>8, <1>9
<1> HIDE DEF d, x
<1>13. Course(d, x, commands', Bound')
  <2>1. \A k \in 0 .. 0 : k = 0
    OBVIOUS
  <2>2. \A k \in 1 .. 0 : FALSE
    OBVIOUS
  <2>3. \A k \in 0 .. 0 : d[k] <= Bound'
    BY <1>11, <1>12, <2>1
  <2> QED
    BY <1>7, <1>11, <1>12, <2>2, <2>3 DEF Course
<1>14. HasRoom("top_up", j, x, Bound')
  BY <1>10 DEF HasRoom, Begun
<1>15. HasRoom("replan", job["replan"], x, Bound')
  BY <1>3 DEF HasRoom, Busy
<1>16. \A h \in Handlers : HasRoom(h, job'[h], d[Len(commands')], Bound')
  BY <1>2, <1>7, <1>11, <1>14, <1>15 DEF Handlers
<1>17. Course(d, Len(queue') - at', commands', Bound')
  <2>1. Len(queue') - at' = x
    BY DEF x
  <2> QED
    BY <1>13, <2>1
<1>18. PICK f : /\ Course(f, Len(queue') - at', commands', Bound')
                /\ \A h \in Handlers : HasRoom(h, job'[h], f[Len(commands')], Bound')
  BY <1>16, <1>17
<1>19. Estimate(f)'
  BY <1>18 DEF Estimate, Course, Fills, Replaces, HasRoom
<1> QED
  BY <1>19

\* The picks that are made fit, and so do the batches they are put into.
LEMMA PickedShallow ==
  ASSUME Types, Types', AllTidy, Shallow, NEW h \in Handlers, Picked(h)
  PROVE  Shallow'
<1> DEFINE j == job[h]
           w == Batches(h, j)
<1>1. /\ j \in Job /\ j.step = "picking"
      /\ \/ job'[h] = Idle
         \/ job'[h].step = "sending" /\ job'[h].batches = w
      /\ seen'.crossed = seen.crossed /\ seen'.left = (seen.left \/ seen'.left)
      /\ seen'.asks = seen.asks
      /\ \A g \in Handlers : g # h => job'[g] = job[g]
      /\ UNCHANGED <<pending, queue, at, commands>>
  <2>1. UNCHANGED <<queue, at>> /\ seen'.left \in BOOLEAN /\ seen.left \in BOOLEAN
    BY DEF Picked, phone, Types, TypeOK
  <2>2. /\ job[h] \in Job /\ job[h].step = "picking"
        /\ \/ job'[h] = Idle /\ seen'.left = (seen.left \/ h = "replan")
           \/ /\ seen'.left = seen.left
              /\ job'[h].step = "sending" /\ job'[h].batches = Batches(h, job[h])
        /\ seen'.crossed = seen.crossed /\ seen'.asks = seen.asks
        /\ \A g \in Handlers : g # h => job'[g] = job[g]
        /\ UNCHANGED <<pending, commands>>
    BY PickedDoes
  <2>3. seen'.left = (seen.left \/ seen'.left)
    BY <2>1, <2>2
  <2> QED
    BY <2>1, <2>2, <2>3
<1>2. Tidy(j)
  BY DEF AllTidy
<1> HIDE DEF j, w
<1>3. Bound \in Nat /\ Bound' = Bound
  BY <1>1, BoundIsNat DEF Bound
<1>4. ASSUME NEW x \in Nat, x <= Bound, HasRoom(h, j, x, Bound)
      PROVE  HasRoom(h, job'[h], x, Bound)
  <2>1. CASE job'[h] = Idle
    BY <2>1 DEF HasRoom, Idle
  <2>2. CASE job'[h].step = "sending" /\ job'[h].batches = w
    <3>1. \E e : Course(e, x, w, Bound)
      BY <1>1, <1>2, <1>3, <1>4, BatchesCourse DEF w
    <3> QED
      BY <2>2, <3>1 DEF HasRoom
  <2> QED
    BY <1>1, <2>1, <2>2
<1>5. \A g \in Handlers, x \in Nat :
        x <= Bound /\ HasRoom(g, job[g], x, Bound) => HasRoom(g, job'[g], x, Bound')
  BY <1>1, <1>3, <1>4, RoomForOne DEF j
<1>6. Len(queue') - at' <= Len(queue) - at
  <2>1. Len(queue) - at \in Int
    BY DEF Types, TypeOK
  <2> QED
    BY <1>1, <2>1
<1>7. commands' = commands /\ Bound <= Bound'
  BY <1>1, <1>3
<1>8. ~seen'.crossed /\ ~seen'.left => ~seen.crossed /\ ~seen.left
  BY <1>1
<1> QED
  BY <1>5, <1>6, <1>7, <1>8, StillShallow

LEMMA StaysShallow ==
  ASSUME Types, AllTidy, InTime, Shallow, [Next]_vars
  PROVE  Shallow'
<1>1. /\ job \in [{"top_up", "replan"} -> Job] /\ seen \in Seen /\ DOMAIN job = Handlers
      /\ \A h \in Handlers : job[h] \in Job
  BY DEF Types, TypeOK, Seen, Handlers
<1>2. Types'
  BY StepKeepsTypes
<1>3. Bound \in Nat /\ Ahead \in Nat /\ Ahead <= Bound
  BY BoundIsNat
<1>4. Len(queue) - at \in Nat /\ at \in Nat /\ Len(queue) \in Nat
  <2>1. at \in 1 .. Len(queue) /\ Len(queue) \in Nat
    BY DEF Types, TypeOK
  <2> QED
    BY <2>1
<1>5. ASSUME commands' = commands, Len(queue') - at' <= Len(queue) - at, Bound' = Bound,
             seen'.crossed = seen.crossed, seen'.left = seen.left \/ seen'.left,
             \A h \in Handlers, x \in Nat :
               HasRoom(h, job[h], x, Bound) => HasRoom(h, job'[h], x, Bound')
      PROVE  Shallow'
  <2>1. ~seen'.crossed /\ ~seen'.left => ~seen.crossed /\ ~seen.left
    BY <1>5
  <2>2. Bound <= Bound'
    BY <1>3, <1>5
  <2> QED
    BY <1>2, <1>5, <2>1, <2>2, StillShallow
<1>6. CASE SetState
  <2>1. /\ UNCHANGED <<queue, at, commands>>
        /\ report' \in Report /\ Sound(report')
    BY <1>6, SetStateDoes DEF phone
  <2>2. CASE job' = [job EXCEPT !["top_up"] = Idle] /\ UNCHANGED <<pending, seen>>
    <3>1. job'["top_up"] = Idle /\ job'["replan"] = job["replan"]
      BY <1>1, <2>2
    <3>2. Bound' = Bound
      BY <2>2 DEF Bound
    <3>3. \A h \in Handlers, x \in Nat :
            HasRoom(h, job[h], x, Bound) => HasRoom(h, job'[h], x, Bound')
      BY <3>1, <3>2 DEF HasRoom, Handlers, Idle
    <3>4. Len(queue') - at' <= Len(queue) - at
      BY <1>4, <2>1
    <3> QED
      BY <1>5, <2>1, <2>2, <3>2, <3>3, <3>4
  <2>3. ASSUME NEW D \in SUBSET pending, NEW cp \in Seq(Tracks), NEW j \in Job,
               Begun(j, cp), job' = [job EXCEPT !["top_up"] = j],
               Len(cp) <= Cardinality(D), pending' = pending \ D,
               \/ j.need = Len(cp)
               \/ j.need = Ahead - Len(After(report')),
               seen' = [seen EXCEPT !.crossed = Crossing("replan", report')]
        PROVE  Shallow'
    BY <1>2, <2>1, <2>3, TopUpShallow
  <2> QED
    BY <1>6, <2>2, <2>3, SetStateDoes
<1>7. ASSUME NEW l \in Lanes, PauseLane(l)
      PROVE  Shallow'
  <2>1. UNCHANGED <<queue, at, commands, pending>>
    BY <1>7, PauseLaneDoes DEF phone
  <2>2. CASE seen' = [seen EXCEPT !.left = TRUE]
    <3>1. seen'.left
      BY <1>1, <2>2 DEF Seen
    <3> QED
      BY <3>1 DEF Shallow
  <2>3. ASSUME NEW j \in Job, Begun(j, <<>>), j.need <= Ahead,
               job' = [job EXCEPT !["replan"] = j],
               seen' = [seen EXCEPT !.crossed = Crossing("top_up", report)]
        PROVE  Shallow'
    <3>1. job'["replan"] = j /\ job'["top_up"] = job["top_up"]
      BY <1>1, <2>3
    <3>2. seen'.crossed = Crossing("top_up", report)
          /\ seen'.left = seen.left /\ seen'.asks = seen.asks
      BY <1>1, <2>3 DEF Seen
    <3>3. ~seen'.crossed => ~seen.crossed
      BY <3>2 DEF Crossing
    <3>4. Bound' = Bound
      BY <2>1, <3>2 DEF Bound
    <3>5. j.step = "picking" /\ j.need \in Nat
      BY <2>3 DEF Begun
    <3>6. \A x \in Nat : HasRoom("replan", j, x, Bound)
      BY <1>3, <2>3, <3>5 DEF HasRoom
    <3>7. \A h \in Handlers, x \in Nat :
            x <= Bound /\ HasRoom(h, job[h], x, Bound) => HasRoom(h, job'[h], x, Bound')
      BY <3>1, <3>4, <3>6 DEF Handlers
    <3>8. Len(queue') - at' <= Len(queue) - at /\ Bound <= Bound'
      BY <1>3, <1>4, <2>1, <3>4
    <3> QED
      BY <1>2, <2>1, <3>2, <3>3, <3>7, <3>8, StillShallow
  <2> QED
    BY <1>7, <2>2, <2>3, PauseLaneDoes
<1>8. ASSUME NEW l \in Lanes, ResumeLane(l)
      PROVE  Shallow'
  <2>1. UNCHANGED <<queue, at, commands, job, seen, pending>>
    BY <1>8 DEF ResumeLane, phone
  <2>2. Bound' = Bound
    BY <2>1 DEF Bound
  <2>3. Len(queue') - at' <= Len(queue) - at
    BY <1>4, <2>1
  <2>4. \A h \in Handlers, x \in Nat :
          HasRoom(h, job[h], x, Bound) => HasRoom(h, job'[h], x, Bound')
    BY <2>1, <2>2
  <2> QED
    BY <1>5, <2>1, <2>2, <2>3, <2>4
<1>9. ASSUME NEW h \in Handlers, NEW l \in Lanes, NEW t \in TracksOf[l], Pick(h, l, t)
      PROVE  Shallow'
  <2>1. /\ job[h] \in Job /\ job[h].step = "picking"
        /\ job'[h] = [job[h] EXCEPT !.picks = Append(job[h].picks, t)]
        /\ \A g \in Handlers : g # h => job'[g] = job[g]
        /\ UNCHANGED <<pending, queue, at, commands, seen>>
    BY <1>9, PickDoes DEF phone
  <2>2. job'[h].step = "picking" /\ job'[h].need = job[h].need
    BY <2>1 DEF Job
  <2>3. Bound' = Bound
    BY <2>1 DEF Bound
  <2>4. \A x \in Nat : HasRoom(h, job[h], x, Bound) => HasRoom(h, job'[h], x, Bound)
    BY <2>1, <2>2 DEF HasRoom
  <2>5. \A g \in Handlers, x \in Nat :
          HasRoom(g, job[g], x, Bound) => HasRoom(g, job'[g], x, Bound')
    <3> TAKE g \in Handlers, x \in Nat
    <3>1. CASE g = h
      BY <2>3, <2>4, <3>1
    <3>2. CASE g # h
      BY <2>1, <2>3, <3>2
    <3> QED
      BY <3>1, <3>2
  <2>6. Len(queue') - at' <= Len(queue) - at
    BY <1>4, <2>1
  <2> QED
    BY <1>5, <2>1, <2>3, <2>5, <2>6
<1>10. CASE Sample
  <2> DEFINE s == [Idle EXCEPT !.step = "sampled", !.sample = [queue |-> queue, at |-> at]]
  <2>1. s.step = "sampled"
    BY DEF Idle
  <2>2. job' = [job EXCEPT !["top_up"] = s] /\ UNCHANGED <<queue, at, commands, seen, pending>>
    BY <1>10 DEF Sample, pool, phone
  <2> HIDE DEF s
  <2>3. job'["top_up"] = s /\ job'["replan"] = job["replan"]
    BY <1>1, <2>2
  <2>4. Bound' = Bound
    BY <2>2 DEF Bound
  <2>5. \A h \in Handlers, x \in Nat :
          HasRoom(h, job[h], x, Bound) => HasRoom(h, job'[h], x, Bound')
    BY <2>1, <2>3, <2>4 DEF HasRoom, Handlers
  <2>6. Len(queue') - at' <= Len(queue) - at
    BY <1>4, <2>2
  <2> QED
    BY <1>5, <2>2, <2>4, <2>5, <2>6
<1>11. ASSUME NEW i \in DOMAIN commands, Lose(i)
       PROVE  Shallow'
  <2>1. seen'.crossed = TRUE
    BY <1>1, <1>11 DEF Lose, Seen
  <2> QED
    BY <2>1 DEF Shallow
<1>12. ASSUME UNCHANGED <<commands, job, pending>>, Len(queue') - at' <= Len(queue) - at,
              seen'.crossed = seen.crossed, seen'.left = seen.left, seen'.asks = seen.asks
       PROVE  Shallow'
  <2>1. Bound' = Bound
    BY <1>12 DEF Bound
  <2>2. \A h \in Handlers, x \in Nat :
          HasRoom(h, job[h], x, Bound) => HasRoom(h, job'[h], x, Bound')
    BY <1>12, <2>1
  <2> QED
    BY <1>5, <1>12, <2>1, <2>2
<1>13. CASE NextSong
  <2>1. UNCHANGED <<queue, commands, job, pending>> /\ at' = at + 1
        /\ seen'.crossed = seen.crossed /\ seen'.left = seen.left /\ seen'.asks = seen.asks
    BY <1>1, <1>13 DEF NextSong, Seen, pool
  <2>2. Len(queue') - at' <= Len(queue) - at
    BY <1>4, <2>1
  <2> QED
    BY <1>12, <2>1, <2>2
<1>14. ASSUME NEW t \in Others, PlayOther(t)
       PROVE  Shallow'
  <2>1. UNCHANGED <<commands, job, pending>> /\ at' = 1 /\ queue' = <<t>>
        /\ seen'.crossed = seen.crossed /\ seen'.left = seen.left /\ seen'.asks = seen.asks
    BY <1>1, <1>14 DEF PlayOther, Seen, pool
  <2>2. Len(queue') - at' <= Len(queue) - at
    <3>1. Len(queue') = 1
      BY <2>1
    <3> QED
      BY <1>4, <2>1, <3>1
  <2> QED
    BY <1>12, <2>1, <2>2
<1>15. CASE UNCHANGED vars
  <2>1. UNCHANGED <<queue, at, commands, job, pending, seen>>
    BY <1>15 DEF vars, pool, phone
  <2>2. Len(queue') - at' <= Len(queue) - at
    BY <1>4, <2>1
  <2> QED
    BY <1>12, <2>1, <2>2
<1>16. ASSUME NEW h \in Handlers, Picked(h) \/ Send(h)
       PROVE  Shallow'
  BY <1>2, <1>16, PickedShallow, SendShallow
<1>17. ASSUME NEW op \in Ops, NEW t \in Others, AgentSends(op, t)
       PROVE  Shallow'
  BY <1>2, <1>17, AgentShallow
<1>18. ASSUME NEW i \in DOMAIN commands, Execute(i)
       PROVE  Shallow'
  BY <1>2, <1>18, ExecuteShallow
<1> QED
  BY <1>1, <1>6, <1>7, <1>8, <1>9, <1>10, <1>11, <1>13, <1>14, <1>15, <1>16, <1>17, <1>18
     DEF Next, PoolNext, PhoneNext

LEMMA InitShallow == Init => Shallow
<1> SUFFICES ASSUME Init
             PROVE  \E d : Estimate(d)
  BY DEF Shallow
<1>1. \A h \in Handlers : job[h].step = "idle"
  BY DEF Init, Handlers, Idle
<1>2. Len(queue) - at = 0 /\ Len(commands) = 0
  BY DEF Init
<1>3. Bound \in Nat
  BY InitTypes, BoundIsNat
<1> DEFINE d == [k \in 0 .. 0 |-> 0]
<1>4. d \in [0 .. 0 -> Nat] /\ \A k \in 0 .. 0 : d[k] = 0
  OBVIOUS
<1> HIDE DEF d
<1>5. Course(d, Len(queue) - at, commands, Bound)
  <2>1. \A k \in 1 .. 0 : FALSE
    OBVIOUS
  <2>2. 0 \in 0 .. 0
    OBVIOUS
  <2>3. d[0] = 0 /\ \A k \in 0 .. 0 : d[k] <= Bound
    BY <1>3, <1>4, <2>2
  <2> QED
    BY <1>2, <1>4, <2>1, <2>3 DEF Course
<1>6. \A h \in Handlers : HasRoom(h, job[h], d[Len(commands)], Bound)
  BY <1>1 DEF HasRoom
<1> QED
  BY <1>5, <1>6 DEF Estimate

\* For any depth, chunk and cues, however many songs are asked for: the phone's queue never
\* gets deeper than the pool's depth and what cues and agents add, unless a report was old.
THEOREM StaysShallowEnough == Spec => []NeverTooDeep
<1>1. ASSUME Types, Shallow
      PROVE  NeverTooDeep
  <2> SUFFICES ASSUME ~seen.crossed, ~seen.left
               PROVE  Len(queue) - at <= Bound
    BY DEF NeverTooDeep, Bound
  <2>1. PICK d : Estimate(d)
    BY <1>1 DEF Shallow
  <2>2. Len(commands) \in Nat /\ Len(queue) - at \in Int
    <3>1. commands \in Seq(Sent)
      BY <1>1 DEF Types, TypeOK, Sent
    <3> QED
      BY <1>1, <3>1 DEF Types, TypeOK
  <2>3. 0 \in 0 .. Len(commands)
    BY <2>2
  <2>4. d[0] \in Nat /\ Len(queue) - at <= d[0] /\ d[0] <= Bound
    BY <2>1, <2>3 DEF Estimate, Course
  <2> QED
    BY <1>1, <2>2, <2>4, BoundIsNat
<1>2. Types /\ AllTidy /\ InTime /\ Shallow /\ [Next]_vars
      => (Types /\ AllTidy /\ InTime /\ Shallow)'
  BY StepKeepsTypes, StaysInTime, StaysShallow
<1> QED
  BY InitTypes, InitHeld, InitShallow, <1>1, <1>2, PTL DEF Spec
=============================================================================
