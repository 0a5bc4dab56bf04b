----------------------------- MODULE DataProofs -----------------------------
(***************************************************************************)
(* What is computed from data of any length: the digest is of the whole    *)
(* file, and what is encoded can be read back.  Where the code goes from   *)
(* one character or place to the next, the proofs look at the first at     *)
(* which what is claimed would fail.                                       *)
(***************************************************************************)
EXTENDS Encodings, FiniteSetTheorems, SequenceTheorems, WellFoundedInduction, TLAPS

-----------------------------------------------------------------------------
(* Numbers, and sequences that are gone through from the front.            *)

\* A non-empty set of numbers has a least one: of the numbers below one of
\* them, the least set.
LEMMA LeastNumber ==
  ASSUME NEW n \in Nat, NEW S \in SUBSET (1..n), S # {}
  PROVE  Min(S) \in S /\ \A m \in S : Min(S) <= m
<1> DEFINE Before(k) == {m \in S : m < k}
           Family == {Before(k) : k \in S}
<1>1. IsFiniteSet(S) /\ \A k \in S : k \in Nat
  <2>1. IsFiniteSet(1..n)
    BY FS_Interval
  <2>2. S \in SUBSET (1..n)
    OBVIOUS
  <2>3. IsFiniteSet(S)
    BY <2>1, <2>2, FS_Subset, Zenon
  <2>4. \A k \in 1..n : k \in Nat
    OBVIOUS
  <2> QED
    BY <2>2, <2>3, <2>4
<1>2. Family \subseteq FiniteSubsetsOf(S)
  <2>1. \A k \in S : Before(k) \in SUBSET S /\ IsFiniteSet(Before(k))
    BY <1>1, FS_Subset
  <2> QED
    BY <2>1 DEF FiniteSubsetsOf
<1>3. Family # {}
  OBVIOUS
<1> HIDE DEF Family
<1>4. \E F \in Family : \A G \in Family : ~ (<<G, F>> \in StrictSubsetOrdering(S))
  BY <1>2, <1>3, FS_StrictSubsetOrderingWellFounded, WFMin
<1> USE DEF Family
<1>5. PICK k \in S : \A m \in S : ~ (<<Before(m), Before(k)>> \in StrictSubsetOrdering(S))
  BY <1>4
<1>6. ASSUME NEW m \in S, m < k PROVE FALSE
  <2>1. k \in Nat /\ m \in Nat /\ \A x \in S : x \in Nat
    BY <1>1
  <2>4. \A x \in Before(m) : x \in S /\ x < k
    BY <2>1, <1>6
  <2>5. ~(m < m)
    BY <2>1
  <2>2. Before(m) \subseteq Before(k) /\ m \in Before(k) /\ m \notin Before(m)
    BY <2>4, <2>5, <1>6
  <2>3. <<Before(m), Before(k)>> \in StrictSubsetOrdering(S)
    BY <2>2 DEF StrictSubsetOrdering
  <2> QED
    BY <2>3, <1>5
<1>7. \A m \in S : k <= m
  BY <1>6
<1>8. \E x \in S : \A y \in S : x <= y
  BY <1>7
<1> QED
  BY <1>8 DEF Min

\* The greatest of some numbers up to n.
LEMMA GreatestNumber ==
  ASSUME NEW n \in Nat, NEW S \in SUBSET (1..n), S # {}
  PROVE  Max(S) \in S /\ \A k \in S : k <= Max(S)
<1> DEFINE T == {n + 1 - k : k \in S}
<1>1. T \in SUBSET (1..n) /\ T # {}
  <2>1. \A k \in S : n + 1 - k \in 1..n
    OBVIOUS
  <2> QED
    BY <2>1
<1>2. PICK m \in T : \A k \in T : m <= k
  BY <1>1, LeastNumber
<1>3. PICK x \in S : m = n + 1 - x
  BY <1>2
<1>4. \A k \in S : x >= k
  BY <1>2, <1>3
<1>5. Max(S) \in S /\ \A k \in S : Max(S) >= k
  BY <1>4 DEF Max
<1>6. \A k \in S : k \in Int
  OBVIOUS
<1> QED
  BY <1>5, <1>6

\* What stands behind a place that is removed moves down.
LEMMA PlaceRemoved ==
  ASSUME NEW S, NEW s \in Seq(S), NEW p \in 1..Len(s)
  PROVE  /\ RemoveAt(s, p) \in Seq(S)
         /\ Len(RemoveAt(s, p)) = Len(s) - 1
         /\ DOMAIN RemoveAt(s, p) = 1..Len(s) - 1
         /\ \A q \in 1..Len(s) - 1 :
              RemoveAt(s, p)[q] = IF q < p THEN s[q] ELSE s[q + 1]
<1>1. Len(s) \in Nat /\ DOMAIN s = 1..Len(s)
  OBVIOUS
<1>2. RemoveAt(s, p) = SubSeq(s, 1, p - 1) \o SubSeq(s, p + 1, Len(s))
  BY DEF RemoveAt
<1>3. p \in 1..Len(s)
  OBVIOUS
<1>4. PICK front : front = SubSeq(s, 1, p - 1)
  OBVIOUS
<1>5. PICK rest : rest = SubSeq(s, p + 1, Len(s))
  OBVIOUS
<1>6. /\ front \in Seq(S) /\ Len(front) = p - 1
      /\ \A q \in 1..p - 1 : front[q] = s[q]
  <2>1. 1 \in Int /\ p - 1 \in Int /\ \A q \in 1..p - 1 : s[q] \in S
    BY <1>1, <1>3
  <2>2. /\ SubSeq(s, 1, p - 1) \in Seq(S)
        /\ Len(SubSeq(s, 1, p - 1)) = IF 1 <= p - 1 THEN p - 1 - 1 + 1 ELSE 0
        /\ \A q \in 1..p - 1 - 1 + 1 : SubSeq(s, 1, p - 1)[q] = s[1 + q - 1]
    BY <2>1, SubSeqProperties
  <2> QED
    BY <2>2, <1>1, <1>3, <1>4
<1>7. /\ rest \in Seq(S) /\ Len(rest) = Len(s) - p
       /\ \A q \in 1..Len(s) - p : rest[q] = s[p + q]
  <2>1. p + 1 \in Int /\ Len(s) \in Int /\ \A q \in p + 1..Len(s) : s[q] \in S
    BY <1>1, <1>3
  <2>2. /\ SubSeq(s, p + 1, Len(s)) \in Seq(S)
        /\ Len(SubSeq(s, p + 1, Len(s))) = IF p + 1 <= Len(s) THEN Len(s) - (p + 1) + 1 ELSE 0
        /\ \A q \in 1..Len(s) - (p + 1) + 1 : SubSeq(s, p + 1, Len(s))[q] = s[p + 1 + q - 1]
    BY <2>1, SubSeqProperties
  <2>3. p \in Int /\ 1 <= p /\ p <= Len(s)
    BY <1>1, <1>3
  <2>7. \A a, b \in Int :
          /\ a - (b + 1) + 1 = a - b
          /\ b <= a /\ ~(b + 1 <= a) => a - b = 0
    OBVIOUS
  <2>4. /\ Len(s) - (p + 1) + 1 = Len(s) - p
        /\ ~(p + 1 <= Len(s)) => Len(s) - p = 0
    <3>1. PICK a \in Nat : a = Len(s)
      BY <1>1
    <3>2. PICK b \in Int : b = p
      BY <2>3
    <3>3. /\ a - (b + 1) + 1 = a - b
          /\ ~(b + 1 <= a) => a - b = 0
      BY <2>3, <2>7, <3>1, <3>2
    <3> QED
      BY <3>1, <3>2, <3>3, Zenon
  <2>5. \A q \in 1..Len(s) - p : p + 1 + q - 1 = p + q
    BY <2>3, <1>1
  <2>6. Len(rest) = Len(s) - p
    <3>1. Len(rest) = IF p + 1 <= Len(s) THEN Len(s) - (p + 1) + 1 ELSE 0
      BY <2>2, <1>5
    <3>2. CASE p + 1 <= Len(s)
      BY <3>1, <3>2, <2>4
    <3>3. CASE ~(p + 1 <= Len(s))
      BY <3>1, <3>3, <2>4
    <3> QED
      BY <3>2, <3>3
  <2> QED
    BY <2>2, <2>4, <2>5, <2>6, <1>5
<1>8. PICK t : t = RemoveAt(s, p)
  OBVIOUS
<1>9. /\ t \in Seq(S) /\ Len(t) = Len(front) + Len(rest)
       /\ \A q \in 1..Len(front) + Len(rest) :
            t[q] = IF q <= Len(front) THEN front[q] ELSE rest[q - Len(front)]
  <2>1. front \in Seq(S) /\ rest \in Seq(S)
    BY <1>6, <1>7
  <2>2. /\ front \o rest \in Seq(S) /\ Len(front \o rest) = Len(front) + Len(rest)
        /\ \A q \in 1..Len(front) + Len(rest) :
             (front \o rest)[q] = IF q <= Len(front) THEN front[q] ELSE rest[q - Len(front)]
    BY <2>1, ConcatProperties
  <2>3. t = front \o rest
    BY <1>2, <1>4, <1>5, <1>8
  <2> QED
    BY <2>2, <2>3
<1>10. Len(t) = Len(s) - 1 /\ DOMAIN t = 1..Len(t)
  BY <1>1, <1>3, <1>6, <1>7, <1>9
<1>11. \A q \in DOMAIN t : t[q] = IF q < p THEN s[q] ELSE s[q + 1]
  <2> SUFFICES ASSUME NEW q \in 1..Len(s) - 1
               PROVE  t[q] = IF q < p THEN s[q] ELSE s[q + 1]
    BY <1>10
  <2>1. CASE q < p
    BY <2>1, <1>1, <1>3, <1>6, <1>7, <1>9
  <2>2. CASE q >= p
    <3>1. q - (p - 1) \in 1..Len(s) - p
      BY <2>2, <1>1, <1>3
    <3>5. Len(front) + Len(rest) = Len(s) - 1 /\ Len(front) = p - 1
      BY <1>1, <1>3, <1>6, <1>7
    <3>6. q \in 1..Len(front) + Len(rest) /\ ~(q <= Len(front))
      BY <2>2, <3>5, <1>1, <1>3
    <3>2. t[q] = rest[q - (p - 1)]
      BY <3>5, <3>6, <1>9
    <3>3. rest[q - (p - 1)] = s[p + (q - (p - 1))]
      BY <3>1, <1>7
    <3>4. p + (q - (p - 1)) = q + 1
      BY <1>3
    <3> QED
      BY <2>2, <3>2, <3>3, <3>4, <1>3
  <2> QED
    BY <2>1, <2>2, <1>3
<1> QED
  BY <1>1, <1>3, <1>8, <1>9, <1>10, <1>11

\* What f says of each number is the result after so many steps.
Counts(f, T, N, start, step) ==
  /\ f \in [0..N -> T] /\ f[0] = start
  /\ \A n \in 1..N : f[n] = step[n][f[n - 1]]

\* What is computed step by step is computed, if the steps stay in a set.
LEMMA StepByStep ==
  ASSUME NEW T, NEW N \in Nat, NEW start \in T, NEW step \in [1..N -> [T -> T]]
  PROVE  \E f : Counts(f, T, N, start, step)
<1> DEFINE Computes(f, m) == Counts(f, T, m, start, step)
           Bad == {m \in 1..N : ~ \E f : Computes(f, m)}
<1> USE DEF Counts
<1>1. \E f : Computes(f, 0)
  <2>1. Computes([n \in 0..0 |-> start], 0)
    OBVIOUS
  <2> QED
    BY <2>1
<1>2. ASSUME NEW m \in 1..N, NEW g, Computes(g, m - 1)
      PROVE  \E f : Computes(f, m)
  <2> DEFINE f == [n \in 0..m |-> IF n = m THEN step[m][g[m - 1]] ELSE g[n]]
  <2>1. g[m - 1] \in T /\ m - 1 \in 0..m - 1
    BY <1>2
  <2>2. step[m][g[m - 1]] \in T
    BY <2>1
  <2>3. \A n \in 0..m : n = m \/ n \in 0..m - 1
    OBVIOUS
  <2>4. f \in [0..m -> T]
    BY <2>2, <2>3, <1>2
  <2>5. f[0] = start
    BY <1>2
  <2>6. ASSUME NEW n \in 1..m PROVE f[n] = step[n][f[n - 1]]
    <3>1. f[n - 1] = g[n - 1]
      OBVIOUS
    <3>2. CASE n = m
      BY <3>1, <3>2
    <3>3. CASE n # m
      <4>1. n \in 1..m - 1
        BY <3>3
      <4> QED
        BY <4>1, <3>1, <3>3, <1>2
    <3> QED
      BY <3>2, <3>3
  <2> QED
    BY <2>4, <2>5, <2>6
<1> HIDE DEF Computes
<1>3. Bad = {}
  <2> SUFFICES ASSUME Bad # {} PROVE FALSE
    OBVIOUS
  <2>1. Bad \in SUBSET (1..N)
    OBVIOUS
  <2>2. PICK m \in 1..N : m \in Bad /\ \A k \in Bad : m <= k
    <3> HIDE DEF Bad
    <3> QED
      BY <2>1, LeastNumber
  <2>3. m - 1 \notin Bad
    <3> HIDE DEF Bad
    <3>1. ~(m <= m - 1)
      OBVIOUS
    <3> QED
      BY <2>2, <3>1
  <2>4. m - 1 = 0 \/ m - 1 \in 1..N
    BY <2>3
  <2>5. \E g : Computes(g, m - 1)
    BY <2>3, <2>4, <1>1
  <2> QED
    BY <2>2, <2>3, <2>5, <1>2
<1>4. \E f : Computes(f, N)
  <2>1. N = 0 \/ N \in 1..N
    OBVIOUS
  <2> QED
    BY <2>1, <1>1, <1>3
<1> QED
  BY <1>4 DEF Computes

\* Induction, with the places at which something fails as a set.
LEMMA NoneFails ==
  ASSUME NEW N \in Nat, NEW Bad \in SUBSET (0..N), 0 \notin Bad,
         \A n \in 1..N : n \in Bad => n - 1 \in Bad
  PROVE  Bad = {}
<1> SUFFICES ASSUME Bad # {} PROVE FALSE
  OBVIOUS
<1>1. Bad \in SUBSET (1..N)
  <2>1. \A n \in Bad : n \in 0..N /\ n # 0
    OBVIOUS
  <2> QED
    BY <2>1
<1>2. PICK m \in Bad : \A k \in Bad : m <= k
  BY <1>1, LeastNumber
<1>3. m \in 1..N /\ m - 1 \in Bad
  BY <1>1, <1>2
<1> QED
  BY <1>2, <1>3

-----------------------------------------------------------------------------
(* The digest: what has been digested and what waits in the buffer are,    *)
(* one behind the other, all that was fed.                                 *)

Block(S) == [1..64 -> S]

Fed(ctx, S, s) ==
  /\ ctx.buf \in Seq(S) /\ Len(ctx.buf) < 64
  /\ ctx.digested \in Seq(Block(S))
  /\ Joined(ctx.digested, 64) \o ctx.buf = s

LEMMA JoinedSeq ==
  ASSUME NEW S, NEW d \in Seq(Block(S))
  PROVE  /\ Joined(d, 64) \in Seq(S) /\ Len(Joined(d, 64)) = 64 * Len(d)
         /\ \A i \in 1..64 * Len(d) : Joined(d, 64)[i] = d[(i - 1) \div 64 + 1][((i - 1) % 64) + 1]
<1>1. PICK n \in Nat : n = Len(d)
  OBVIOUS
<1>2. PICK j : j = Joined(d, 64)
  OBVIOUS
<1>3. j = [i \in 1..64 * n |-> d[(i - 1) \div 64 + 1][((i - 1) % 64) + 1]]
  BY <1>1, <1>2 DEF Joined
<1>4. ASSUME NEW i \in 1..64 * n
      PROVE  d[(i - 1) \div 64 + 1][((i - 1) % 64) + 1] \in S
  <2>1. (i - 1) \div 64 + 1 \in 1..n /\ ((i - 1) % 64) + 1 \in 1..64
    BY <1>1
  <2>2. \A k \in 1..n : d[k] \in Block(S)
    BY <1>1
  <2> QED
    BY <2>1, <2>2 DEF Block
<1>5. 64 * n \in Nat
  OBVIOUS
<1>6. j \in Seq(S) /\ Len(j) = 64 * n
  BY <1>3, <1>4, <1>5, IsASeq
<1> QED
  BY <1>1, <1>2, <1>3, <1>6

\* Pieces behind pieces are the joined pieces, one behind the other.
LEMMA JoinedConcat ==
  ASSUME NEW S, NEW d \in Seq(Block(S)), NEW e \in Seq(Block(S))
  PROVE  Joined(d \o e, 64) = Joined(d, 64) \o Joined(e, 64)
<1>1. PICK m \in Nat : m = Len(d)
  OBVIOUS
<1>2. PICK n \in Nat : n = Len(e)
  OBVIOUS
<1>3. /\ d \o e \in Seq(Block(S)) /\ Len(d \o e) = m + n
      /\ \A k \in 1..m + n : (d \o e)[k] = IF k <= m THEN d[k] ELSE e[k - m]
  BY <1>1, <1>2, ConcatProperties
<1>4. PICK de : de = d \o e
  OBVIOUS
<1>5. PICK u : u = Joined(d, 64)
  OBVIOUS
<1>6. PICK v : v = Joined(e, 64)
  OBVIOUS
<1>7. PICK w : w = Joined(de, 64)
  OBVIOUS
<1>8. /\ u \in Seq(S) /\ Len(u) = 64 * m
      /\ \A i \in 1..64 * m : u[i] = d[(i - 1) \div 64 + 1][((i - 1) % 64) + 1]
  BY <1>1, <1>5, JoinedSeq
<1>9. /\ v \in Seq(S) /\ Len(v) = 64 * n
      /\ \A i \in 1..64 * n : v[i] = e[(i - 1) \div 64 + 1][((i - 1) % 64) + 1]
  BY <1>2, <1>6, JoinedSeq
<1>10. /\ w \in Seq(S) /\ Len(w) = 64 * (m + n)
       /\ \A i \in 1..64 * (m + n) : w[i] = de[(i - 1) \div 64 + 1][((i - 1) % 64) + 1]
  <2>1. de \in Seq(Block(S)) /\ Len(de) = m + n
    BY <1>3, <1>4
  <2>2. /\ w \in Seq(S) /\ Len(w) = 64 * Len(de)
        /\ \A i \in 1..64 * Len(de) : w[i] = de[(i - 1) \div 64 + 1][((i - 1) % 64) + 1]
    BY <2>1, <1>7, JoinedSeq
  <2> QED
    BY <2>1, <2>2
<1>11. /\ u \o v \in Seq(S) /\ Len(u \o v) = 64 * m + 64 * n
       /\ \A i \in 1..64 * m + 64 * n : (u \o v)[i] = IF i <= 64 * m THEN u[i] ELSE v[i - 64 * m]
  <2>1. /\ u \o v \in Seq(S) /\ Len(u \o v) = Len(u) + Len(v)
        /\ \A i \in 1..Len(u) + Len(v) : (u \o v)[i] = IF i <= Len(u) THEN u[i] ELSE v[i - Len(u)]
    BY <1>8, <1>9, ConcatProperties
  <2>2. Len(u) = 64 * m /\ Len(v) = 64 * n
    BY <1>8, <1>9
  <2> QED
    BY <2>1, <2>2, Zenon
<1>12. ASSUME NEW i \in 1..64 * (m + n) PROVE w[i] = (u \o v)[i]
  <2>1. CASE i <= 64 * m
    <3>1. (i - 1) \div 64 + 1 \in 1..m /\ i \in 1..64 * m /\ i \in 1..64 * m + 64 * n
      BY <2>1
    <3>2. (i - 1) \div 64 + 1 \in 1..m + n /\ (i - 1) \div 64 + 1 <= m
      BY <3>1
    <3>3. de[(i - 1) \div 64 + 1] = d[(i - 1) \div 64 + 1]
      BY <3>2, <1>3, <1>4
    <3>4. w[i] = u[i]
      BY <3>1, <3>3, <1>8, <1>10
    <3> QED
      BY <3>1, <3>4, <2>1, <1>11
  <2>2. CASE ~(i <= 64 * m)
    <3>1. PICK q \in 1..64 * n : q = i - 64 * m
      BY <2>2
    <3>2. /\ (i - 1) \div 64 + 1 \in 1..m + n /\ ~((i - 1) \div 64 + 1 <= m)
          /\ (i - 1) \div 64 + 1 - m = (q - 1) \div 64 + 1
          /\ (i - 1) % 64 = (q - 1) % 64 /\ i \in 1..64 * m + 64 * n
      BY <2>2, <3>1
    <3>3. de[(i - 1) \div 64 + 1] = e[(q - 1) \div 64 + 1]
      <4>1. PICK k \in 1..m + n : k = (i - 1) \div 64 + 1
        BY <3>2
      <4>2. PICK l : l = (q - 1) \div 64 + 1
        OBVIOUS
      <4>3. ~(k <= m) /\ k - m = l
        BY <3>2, <4>1, <4>2
      <4>4. de[k] = e[l]
        BY <4>1, <4>3, <1>3, <1>4
      <4> QED
        BY <4>1, <4>2, <4>4
    <3>4. w[i] = v[q]
      BY <3>1, <3>2, <3>3, <1>9, <1>10
    <3> QED
      BY <3>1, <3>2, <3>4, <2>2, <1>11
  <2> QED
    BY <2>1, <2>2
<1>13. 64 * (m + n) = 64 * m + 64 * n
  OBVIOUS
<1>14. w = u \o v
  BY <1>10, <1>11, <1>12, <1>13, SeqEqual
<1> QED
  BY <1>4, <1>5, <1>6, <1>7, <1>14

\* The first blocks of a stream, joined, are its beginning.
LEMMA BlocksJoined ==
  ASSUME NEW S, NEW s \in Seq(S), NEW n \in Nat, 64 * n <= Len(s)
  PROVE  /\ Blocks(s, n) \in Seq(Block(S)) /\ Len(Blocks(s, n)) = n
         /\ Joined(Blocks(s, n), 64) = SubSeq(s, 1, 64 * n)
<1>1. Len(s) \in Nat /\ \A i \in 1..Len(s) : s[i] \in S
  OBVIOUS
<1>2. ASSUME NEW k \in 1..n
      PROVE  /\ SubSeq(s, 64 * (k - 1) + 1, 64 * k) \in Block(S)
             /\ \A r \in 1..64 : SubSeq(s, 64 * (k - 1) + 1, 64 * k)[r] = s[64 * (k - 1) + r]
  <2>1. PICK a \in Int : a = 64 * (k - 1) + 1
    OBVIOUS
  <2>2. PICK b \in Int : b = 64 * k
    OBVIOUS
  <2>3. a <= b /\ b - a + 1 = 64 /\ a >= 1 /\ b <= Len(s)
    BY <2>1, <2>2, <1>1
  <2>4. \A i \in a..b : s[i] \in S
    BY <2>3, <1>1
  <2>5. PICK t : t = SubSeq(s, a, b)
    OBVIOUS
  <2>6. /\ t \in Seq(S) /\ Len(t) = IF a <= b THEN b - a + 1 ELSE 0
        /\ \A i \in 1..b - a + 1 : t[i] = s[a + i - 1]
    BY <2>4, <2>5, SubSeqProperties
  <2>7. t \in Seq(S) /\ Len(t) = 64 /\ \A i \in 1..64 : t[i] = s[a + i - 1]
    BY <2>3, <2>6
  <2>10. t \in [1..Len(t) -> S]
    BY <2>7, LenProperties
  <2>8. t \in [1..64 -> S]
    BY <2>7, <2>10
  <2>9. \A r \in 1..64 : t[r] = s[64 * (k - 1) + r]
    <3> SUFFICES ASSUME NEW r \in 1..64 PROVE t[r] = s[64 * (k - 1) + r]
      OBVIOUS
    <3>1. a + r - 1 = 64 * (k - 1) + r
      BY <2>1
    <3> QED
      BY <3>1, <2>7
  <2> QED
    BY <2>1, <2>2, <2>5, <2>8, <2>9 DEF Block
<1>3. PICK d : d = Blocks(s, n)
  OBVIOUS
<1>4. d = [k \in 1..n |-> SubSeq(s, 64 * (k - 1) + 1, 64 * k)]
  BY <1>3 DEF Blocks
<1>5. d \in Seq(Block(S)) /\ Len(d) = n
  <2>1. d \in [1..n -> Block(S)]
    BY <1>2, <1>4, Zenon
  <2> QED
    BY <2>1, SeqDef
<1>6. PICK j : j = Joined(d, 64)
  OBVIOUS
<1>7. /\ j \in Seq(S) /\ Len(j) = 64 * n
      /\ \A i \in 1..64 * n : j[i] = d[(i - 1) \div 64 + 1][((i - 1) % 64) + 1]
  <2>1. /\ j \in Seq(S) /\ Len(j) = 64 * Len(d)
        /\ \A i \in 1..64 * Len(d) : j[i] = d[(i - 1) \div 64 + 1][((i - 1) % 64) + 1]
    BY <1>5, <1>6, JoinedSeq
  <2> QED
    BY <2>1, <1>5
<1>8. ASSUME NEW i \in 1..64 * n PROVE j[i] = s[i]
  <2>1. PICK k \in 1..n : k = (i - 1) \div 64 + 1
    OBVIOUS
  <2>2. PICK r \in 1..64 : r = ((i - 1) % 64) + 1
    OBVIOUS
  <2>3. 64 * (k - 1) + r = i
    BY <2>1, <2>2
  <2>4. d[k][r] = s[64 * (k - 1) + r]
    <3>1. d[k] = SubSeq(s, 64 * (k - 1) + 1, 64 * k)
      BY <1>4
    <3>2. SubSeq(s, 64 * (k - 1) + 1, 64 * k)[r] = s[64 * (k - 1) + r]
      BY <1>2
    <3> QED
      BY <3>1, <3>2
  <2> QED
    BY <2>1, <2>2, <2>3, <2>4, <1>7
<1>9. PICK t : t = SubSeq(s, 1, 64 * n)
  OBVIOUS
<1>10. t \in Seq(S) /\ Len(t) = 64 * n /\ \A i \in 1..64 * n : t[i] = s[i]
  <2>1. PICK b \in Nat : b = 64 * n
    OBVIOUS
  <2>2. 1 \in Int /\ b \in Int /\ \A i \in 1..b : s[i] \in S
    BY <2>1, <1>1
  <2>3. /\ SubSeq(s, 1, b) \in Seq(S)
        /\ Len(SubSeq(s, 1, b)) = IF 1 <= b THEN b - 1 + 1 ELSE 0
        /\ \A i \in 1..b - 1 + 1 : SubSeq(s, 1, b)[i] = s[1 + i - 1]
    BY <2>2, SubSeqProperties
  <2>4. t \in Seq(S) /\ Len(t) = b /\ \A i \in 1..b : t[i] = s[i]
    BY <2>1, <2>3, <1>9
  <2> QED
    BY <2>1, <2>4
<1>11. j = t
  <2>1. Len(j) = Len(t) /\ \A i \in 1..Len(j) : j[i] = t[i]
    BY <1>7, <1>8, <1>10
  <2> QED
    BY <2>1, <1>7, <1>10, SeqEqual
<1> QED
  BY <1>3, <1>5, <1>6, <1>9, <1>11

\* A stream is its whole blocks and what is left of it.
LEMMA StreamCut ==
  ASSUME NEW S, NEW s \in Seq(S), NEW n \in Nat, n = Len(s) \div 64
  PROVE  /\ 64 * n <= Len(s)
         /\ SubSeq(s, 64 * n + 1, Len(s)) \in Seq(S)
         /\ Len(SubSeq(s, 64 * n + 1, Len(s))) < 64
         /\ SubSeq(s, 1, 64 * n) \in Seq(S)
         /\ SubSeq(s, 1, 64 * n) \o SubSeq(s, 64 * n + 1, Len(s)) = s
<1>1. PICK l \in Nat : l = Len(s)
  OBVIOUS
<1>2. PICK m \in Nat : m = 64 * n
  OBVIOUS
<1>3. m <= l /\ l - m < 64 /\ n = l \div 64
  BY <1>1, <1>2
<1>4. \A i \in 1..l : s[i] \in S
  BY <1>1
<1>5. /\ SubSeq(s, m + 1, l) \in Seq(S)
      /\ Len(SubSeq(s, m + 1, l)) = IF m + 1 <= l THEN l - (m + 1) + 1 ELSE 0
  <2>1. m + 1 \in Int /\ l \in Int /\ \A i \in m + 1..l : s[i] \in S
    BY <1>4
  <2> QED
    BY <2>1, SubSeqProperties
<1>6. SubSeq(s, 1, m) \in Seq(S)
  <2>1. 1 \in Int /\ m \in Int /\ \A i \in 1..m : s[i] \in S
    BY <1>3, <1>4
  <2> QED
    BY <2>1, SubSeqProperties
<1>7. SubSeq(s, 1, m) \o SubSeq(s, m + 1, l) = SubSeq(s, 1, l)
  <2>1. 1 \in 1..Len(s) + 1 /\ m \in 1 - 1..Len(s) /\ l \in m..Len(s)
    BY <1>1, <1>3
  <2> QED
    BY <2>1, ConcatAdjacentSubSeq
<1>8. SubSeq(s, 1, l) = s
  BY <1>1, SubSeqFull
<1>9. Len(SubSeq(s, m + 1, l)) < 64
  BY <1>3, <1>5
<1> QED
  BY <1>1, <1>2, <1>3, <1>5, <1>6, <1>7, <1>8, <1>9, Zenon

\* What is fed goes behind what was.
LEMMA UpdateFeeds ==
  ASSUME NEW S, NEW s, NEW ctx, Fed(ctx, S, s), NEW data \in Seq(S)
  PROVE  /\ Fed(sha256_update(ctx, data), S, s \o data)
         /\ sha256_update(ctx, data).count = ctx.count + Len(data)
<1>1. PICK buf : buf \in Seq(S) /\ buf = ctx.buf
  BY DEF Fed
<1>2. PICK d : d \in Seq(Block(S)) /\ d = ctx.digested
  BY DEF Fed
<1>3. PICK stream : stream \in Seq(S) /\ stream = buf \o data
  BY <1>1, ConcatProperties
<1>4. PICK n \in Nat : n = Len(stream) \div 64
  OBVIOUS
<1>5. PICK left : left = SubSeq(stream, 64 * n + 1, Len(stream))
  OBVIOUS
<1>6. PICK b : b = Blocks(stream, n)
  OBVIOUS
<1>7. sha256_update(ctx, data) = [buf |-> left, count |-> ctx.count + Len(data), digested |-> d \o b]
  BY <1>1, <1>2, <1>3, <1>4, <1>5, <1>6 DEF sha256_update
<1>8. PICK new : new = sha256_update(ctx, data)
  OBVIOUS
<1>9. /\ new.buf = left /\ new.count = ctx.count + Len(data)
      /\ new.digested = d \o b
  BY <1>7, <1>8
<1>10. /\ 64 * n <= Len(stream) /\ left \in Seq(S) /\ Len(left) < 64
       /\ SubSeq(stream, 1, 64 * n) \in Seq(S)
       /\ SubSeq(stream, 1, 64 * n) \o left = stream
  <2>1. stream \in Seq(S)
    BY <1>3
  <2>2. /\ 64 * n <= Len(stream)
        /\ SubSeq(stream, 64 * n + 1, Len(stream)) \in Seq(S)
        /\ Len(SubSeq(stream, 64 * n + 1, Len(stream))) < 64
        /\ SubSeq(stream, 1, 64 * n) \in Seq(S)
        /\ SubSeq(stream, 1, 64 * n) \o SubSeq(stream, 64 * n + 1, Len(stream)) = stream
    BY <2>1, <1>4, StreamCut
  <2> QED
    BY <2>2, <1>5, Zenon
<1>11. b \in Seq(Block(S)) /\ Joined(b, 64) = SubSeq(stream, 1, 64 * n)
  BY <1>3, <1>6, <1>10, BlocksJoined
<1>12. PICK first : first \in Seq(S) /\ first = Joined(d, 64)
  BY <1>2, JoinedSeq
<1>13. PICK second : second \in Seq(S) /\ second = Joined(b, 64)
  BY <1>11, JoinedSeq
<1>14. d \o b \in Seq(Block(S)) /\ Joined(d \o b, 64) = first \o second
  <2>1. d \o b \in Seq(Block(S))
    BY <1>2, <1>11, ConcatProperties
  <2>2. Joined(d \o b, 64) = Joined(d, 64) \o Joined(b, 64)
    BY <1>2, <1>11, JoinedConcat
  <2> QED
    BY <2>1, <2>2, <1>12, <1>13
<1>21. \A x, y, z \in Seq(S) : (x \o y) \o z = x \o (y \o z)
  BY ConcatAssociative
<1>15. (first \o second) \o left = first \o (second \o left)
  BY <1>10, <1>12, <1>13, <1>21
<1>16. second \o left = buf \o data
  BY <1>3, <1>10, <1>11, <1>13
<1>17. first \o (buf \o data) = (first \o buf) \o data
  BY <1>1, <1>12, <1>21
<1>18. first \o buf = s
  BY <1>1, <1>2, <1>12 DEF Fed
<1>19. Joined(new.digested, 64) \o new.buf = s \o data
  BY <1>9, <1>14, <1>15, <1>16, <1>17, <1>18, Zenon
<1>20. Fed(new, S, s \o data)
  BY <1>9, <1>10, <1>14, <1>19 DEF Fed
<1> QED
  BY <1>8, <1>9, <1>20

\* Whatever the length of the file, the last block is full.
LEMMA DigestOf ==
  ASSUME NEW S, NEW s \in Seq(S), 128 \in S, 0 \in S, BigEndian(8 * Len(s)) \in Seq(S)
  PROVE  /\ storage_sha256_hex(s).buf = <<>>
         /\ Joined(storage_sha256_hex(s).digested, 64) = PaddedMessage(s)
<1>1. PICK l \in Nat : l = Len(s)
  OBVIOUS
<1>2. PICK length : length \in Seq(S) /\ length = BigEndian(8 * Len(s)) /\ Len(length) = 8
  <2>1. Len(BigEndian(8 * Len(s))) = 8
    BY DEF BigEndian
  <2> QED
    BY <2>1
<1>3. PICK pad \in Nat : pad = (56 - (l + 1)) % 64
  OBVIOUS
<1>4. PICK zeros : zeros = [i \in 1..pad |-> 0]
  OBVIOUS
<1>5. zeros \in Seq(S) /\ Len(zeros) = pad
  <2>1. zeros \in [1..pad -> S]
    BY <1>4
  <2> QED
    BY <2>1, <1>4, SeqDef
<1>6. PICK mark : mark \in Seq(S) /\ mark = <<128>> /\ Len(mark) = 1
  <2>1. <<128>> \in Seq(S) /\ Len(<<128>>) = 1
    OBVIOUS
  <2> QED
    BY <2>1, Zenon
<1>7. Fed(sha256_init, S, <<>>) /\ sha256_init.count = 0
  <2>1. Joined(<<>>, 64) \o <<>> = <<>>
    BY JoinedSeq DEF Joined
  <2> QED
    BY <2>1 DEF Fed, sha256_init
<1>8. PICK whole : whole = sha256_update(sha256_init, s)
  OBVIOUS
<1>28. PICK empty : empty \in Seq(S) /\ empty = <<>>
  BY EmptySeq, Zenon
<1>9. Fed(whole, S, s) /\ whole.count = l
  <2>1. PICK start : start = sha256_init
    OBVIOUS
  <2>2. Fed(start, S, empty) /\ start.count = 0
    BY <2>1, <1>7, <1>28
  <2>3. whole = sha256_update(start, s)
    BY <2>1, <1>8
  <2>4. Fed(whole, S, empty \o s) /\ whole.count = start.count + Len(s)
    <3>1. /\ Fed(sha256_update(start, s), S, empty \o s)
          /\ sha256_update(start, s).count = start.count + Len(s)
      BY <2>2, UpdateFeeds
    <3> QED
      BY <2>3, <3>1
  <2>5. empty \o s = s
    BY <1>28, ConcatEmptySeq
  <2> QED
    BY <2>2, <2>4, <2>5, <1>1
<1>10. PICK marked : marked = sha256_update(whole, <<128>>)
  OBVIOUS
<1>11. Fed(marked, S, s \o mark) /\ marked.count = l + 1
  <2>2. marked = sha256_update(whole, mark)
    BY <1>6, <1>10
  <2>1. Fed(marked, S, s \o mark) /\ marked.count = whole.count + Len(mark)
    <3>1. /\ Fed(sha256_update(whole, mark), S, s \o mark)
          /\ sha256_update(whole, mark).count = whole.count + Len(mark)
      <4>1. mark \in Seq(S)
        BY <1>6
      <4>2. Fed(whole, S, s)
        BY <1>9
      <4> QED
        BY <4>1, <4>2, UpdateFeeds
    <3> QED
      BY <2>2, <3>1
  <2> QED
    BY <2>1, <1>6, <1>9
<1>12. Zeros(marked.count) = zeros
  BY <1>3, <1>4, <1>11 DEF Zeros
<1>13. PICK padded : padded = sha256_update(marked, zeros)
  OBVIOUS
<1>14. Fed(padded, S, (s \o mark) \o zeros)
  BY <1>5, <1>11, <1>13, UpdateFeeds
<1>15. PICK final : final = sha256_update(padded, length)
  OBVIOUS
<1>16. Fed(final, S, ((s \o mark) \o zeros) \o length)
  BY <1>2, <1>14, <1>15, UpdateFeeds
<1>17. storage_sha256_hex(s) = final
  <2>1. sha256_final(whole) = sha256_update(padded, BigEndian(8 * whole.count))
    BY <1>10, <1>12, <1>13 DEF sha256_final
  <2>2. BigEndian(8 * whole.count) = length
    BY <1>1, <1>2, <1>9
  <2> QED
    BY <2>1, <2>2, <1>8, <1>15 DEF storage_sha256_hex
<1>18. PICK message : message = ((s \o mark) \o zeros) \o length
  OBVIOUS
<1>19. message \in Seq(S) /\ Len(message) = l + 1 + pad + 8
  <2>1. s \o mark \in Seq(S) /\ Len(s \o mark) = l + 1
    BY <1>1, <1>6, ConcatProperties
  <2>2. (s \o mark) \o zeros \in Seq(S) /\ Len((s \o mark) \o zeros) = l + 1 + pad
    BY <2>1, <1>5, ConcatProperties
  <2>3. PICK front : front \in Seq(S) /\ front = (s \o mark) \o zeros
    BY <2>2
  <2>4. front \o length \in Seq(S) /\ Len(front \o length) = Len(front) + Len(length)
    BY <1>2, <2>3, ConcatProperties
  <2>5. message = front \o length
    BY <2>3, <1>18
  <2> QED
    BY <2>2, <2>3, <2>4, <2>5, <1>2
<1>29. PICK blocks \in Nat : blocks = (l + 9 + 63) \div 64
  OBVIOUS
<1>30. pad = 64 * blocks - l - 9
  <2>1. 64 * blocks <= l + 72 /\ l + 72 < 64 * blocks + 64
    BY <1>29
  <2>2. PICK q \in Int : q = (56 - (l + 1)) \div 64
    OBVIOUS
  <2>3. 56 - (l + 1) = 64 * q + pad /\ pad < 64
    BY <2>2, <1>3
  <2>4. blocks = 1 - q
    BY <2>1, <2>3
  <2> QED
    BY <2>3, <2>4
<1>20. message = PaddedMessage(s)
  <2>1. pad = 64 * ((l + 9 + 63) \div 64) - l - 9
    BY <1>29, <1>30
  <2>2. zeros = [i \in 1..(64 * ((Len(s) + 9 + 63) \div 64) - Len(s) - 9) |-> 0]
    BY <2>1, <1>1, <1>4
  <2> QED
    BY <2>2, <1>2, <1>6, <1>18 DEF PaddedMessage
<1>21. PICK d : d \in Seq(Block(S)) /\ d = final.digested
  BY <1>16 DEF Fed
<1>22. PICK buf : buf \in Seq(S) /\ buf = final.buf /\ Len(buf) < 64
  BY <1>16 DEF Fed
<1>23. Joined(d, 64) \o buf = message
  BY <1>16, <1>18, <1>21, <1>22 DEF Fed
<1>24. Joined(d, 64) \in Seq(S) /\ Len(Joined(d, 64)) = 64 * Len(d)
  BY <1>21, JoinedSeq
<1>25. Len(buf) = 0
  <2>1. Len(message) = 64 * Len(d) + Len(buf)
    <3>1. PICK j : j \in Seq(S) /\ j = Joined(d, 64)
      BY <1>24
    <3>2. Len(j \o buf) = Len(j) + Len(buf)
      BY <3>1, <1>22, ConcatProperties
    <3> QED
      BY <3>1, <3>2, <1>23, <1>24
  <2>2. PICK k \in Nat : k = Len(d)
    BY <1>21
  <2>3. PICK b \in Nat : b = Len(buf)
    BY <1>22
  <2>4. 64 * k + b = l + 1 + pad + 8 /\ b < 64
    BY <2>1, <2>2, <2>3, <1>19, <1>22
  <2>5. b = 0
    <3>1. PICK j \in Nat : j = blocks
      OBVIOUS
    <3>2. 64 * k + b = 64 * j
      BY <2>4, <3>1, <1>30
    <3> QED
      BY <2>4, <3>1, <3>2
  <2> QED
    BY <2>3, <2>5
<1>26. buf = <<>>
  BY <1>25
<1>27. Joined(d, 64) \o <<>> = Joined(d, 64)
  BY <1>24, ConcatEmptySeq
<1> QED
  BY <1>17, <1>20, <1>21, <1>22, <1>23, <1>26, <1>27

\* DigestIsOfWholeFile: what is digested of a file is the whole file, padded
\* as the standard says, whatever its length is.
THEOREM DigestIsOfWholeFileCorrect == EncodingsSpec => []DigestIsOfWholeFile
<1> DEFINE Inv == /\ bytes \in Seq(0..255)
                  /\ hash \subseteq {storage_sha256_hex(bytes)}
<1>1. bytes \in Seq(0..255) /\ NothingEncoded => Inv
  BY DEF NothingEncoded
<1>2. Inv /\ [EncodingsNext]_encodingVars => Inv'
  BY DEF EncodingsNext, DigestFile, EncodeFile, EscapeName, encodingVars
<1>3. Inv => DigestIsOfWholeFile
  <2> SUFFICES ASSUME Inv PROVE DigestIsOfWholeFile
    OBVIOUS
  <2>1. PICK length : length = BigEndian(8 * Len(bytes))
    OBVIOUS
  <2> DEFINE S == 0..255 \cup {length[i] : i \in 1..8}
  <2>2. length \in [1..8 -> S]
    BY <2>1 DEF BigEndian
  <2>3. 0..255 \subseteq S /\ 128 \in S /\ 0 \in S
    OBVIOUS
  <2> HIDE DEF S
  <2>4. length \in Seq(S)
    <3>1. PICK n \in Nat : n = 8
      OBVIOUS
    <3>2. length \in [1..n -> S]
      BY <3>1, <2>2
    <3> QED
      BY <3>2, SeqDef
  <2>5. bytes \in Seq(S)
    BY <2>3, SeqMonotonic
  <2> QED
    BY <2>1, <2>3, <2>4, <2>5, DigestOf DEF DigestIsOfWholeFile
<1> HIDE DEF Inv
<1> QED
  BY <1>1, <1>2, <1>3, PTL DEF EncodingsSpec

-----------------------------------------------------------------------------
(* Names in URLs: an escape is read as the character it was written for.   *)

\* What is written of a name after n characters.
Written(s, out) ==
  /\ out \in [0..Len(s) -> Seq(0..255)] /\ out[0] = <<>>
  /\ \A n \in 1..Len(s) : out[n] = out[n - 1] \o Escape(s[n])
  /\ url_percent_encode(s) = out[Len(s)]

\* An escape is a character, or three.
LEMMA EscapeOf ==
  ASSUME NEW c \in 0..255
  PROVE  /\ Escape(c) \in Seq(0..255)
         /\ Len(Escape(c)) = IF is_unreserved(c) THEN 1 ELSE 3
         /\ \A k \in 1..Len(Escape(c)) : is_unreserved(Escape(c)[k]) \/ Escape(c)[k] = 37
<1>1. CASE is_unreserved(c)
  BY <1>1 DEF Escape
<1>2. CASE ~is_unreserved(c)
  <2>1. c \div 16 \in 0..15 /\ c % 16 \in 0..15
    OBVIOUS
  <2>2. \A d \in 0..15 : Hex(d) \in 0..255 /\ is_unreserved(Hex(d))
    BY DEF Hex, is_unreserved
  <2>3. Escape(c) = <<37, Hex(c \div 16), Hex(c % 16)>>
    BY <1>2 DEF Escape
  <2>4. PICK a \in 0..255 : a = Hex(c \div 16) /\ is_unreserved(a)
    BY <2>1, <2>2
  <2>5. PICK b \in 0..255 : b = Hex(c % 16) /\ is_unreserved(b)
    BY <2>1, <2>2
  <2>6. Escape(c) = <<37, a, b>>
    BY <2>3, <2>4, <2>5
  <2> QED
    BY <2>4, <2>5, <2>6, <1>2
<1> QED
  BY <1>1, <1>2

\* What url_percent_encode computes is what is written, character by
\* character.
LEMMA EncodeWrites ==
  ASSUME NEW s \in Seq(0..255)
  PROVE  \E out : Written(s, out)
<1>1. PICK N \in Nat : N = Len(s)
  OBVIOUS
<1>2. \A n \in 1..N : s[n] \in 0..255
  BY <1>1
<1> DEFINE T == Seq(0..255)
           step == [n \in 1..N |-> [t \in T |-> t \o Escape(s[n])]]
<1>3. \A n \in 1..N : \A t \in T : t \o Escape(s[n]) \in T
  BY <1>2, EscapeOf, ConcatProperties
<1>4. step \in [1..N -> [T -> T]] /\ <<>> \in T
  BY <1>3
<1>5. \A n \in 1..N : \A t \in T : step[n][t] = t \o Escape(s[n])
  OBVIOUS
<1> HIDE DEF step, T
<1>6. PICK f \in [0..N -> T] : f[0] = <<>> /\ \A n \in 1..N : f[n] = step[n][f[n - 1]]
  <2>1. \E f : Counts(f, T, N, <<>>, step)
    BY <1>1, <1>4, StepByStep, Zenon
  <2> QED
    BY <2>1 DEF Counts
<1>7. \A n \in 1..N : f[n] = f[n - 1] \o Escape(s[n])
  <2> TAKE n \in 1..N
  <2>1. f[n - 1] \in T
    BY <1>6
  <2> QED
    BY <2>1, <1>5, <1>6
<1> DEFINE Body(g) == [n \in 0..N |-> IF n = 0 THEN <<>> ELSE g[n - 1] \o Escape(s[n])]
<1>8. f = Body(f)
  <2>1. \A n \in 0..N : n = 0 \/ n \in 1..N
    OBVIOUS
  <2> QED
    BY <2>1, <1>6, <1>7
<1> DEFINE out == CHOOSE g : g = Body(g)
<1>9. out = Body(out)
  BY <1>8
<1>10. url_percent_encode(s) = out[N]
  BY <1>1 DEF url_percent_encode
<1> HIDE DEF out
<1>11. out[0] = <<>> /\ \A n \in 1..N : out[n] = out[n - 1] \o Escape(s[n])
  <2>1. \A n \in 0..N : out[n] = Body(out)[n]
    BY <1>9
  <2>2. \A g : \A n \in 0..N : Body(g)[n] = IF n = 0 THEN <<>> ELSE g[n - 1] \o Escape(s[n])
    OBVIOUS
  <2>3. 0 \in 0..N /\ \A n \in 1..N : n \in 0..N /\ n # 0
    OBVIOUS
  <2> HIDE DEF Body
  <2>4. \A n \in 0..N : out[n] = IF n = 0 THEN <<>> ELSE out[n - 1] \o Escape(s[n])
    BY <2>1, <2>2
  <2> QED
    BY <2>3, <2>4
\* The function is the one that was computed, so it stays where that does.
<1>12. out = [n \in 0..N |-> f[n]]
  <2> DEFINE Other == {n \in 0..N : out[n] # f[n]}
  <2>1. Other \in SUBSET (0..N) /\ 0 \notin Other
    BY <1>6, <1>11
  <2>2. \A n \in 1..N : n \in Other => n - 1 \in Other
    <3>1. \A n \in 1..N : n \in 0..N /\ n - 1 \in 0..N
      OBVIOUS
    <3> QED
      BY <3>1, <1>7, <1>11
  <2>3. Other = {}
    <3> HIDE DEF Other
    <3> QED
      BY <2>1, <2>2, NoneFails, Zenon
  <2>4. \A n \in 0..N : out[n] = f[n]
    BY <2>3
  <2>5. out = [n \in 0..N |-> Body(out)[n]]
    BY <1>9
  <2>6. \A n \in 0..N : Body(out)[n] = f[n]
    BY <1>9, <2>4
  <2> QED
    BY <2>5, <2>6
<1>13. out \in [0..N -> T]
  BY <1>6, <1>12
<1> QED
  BY <1>1, <1>10, <1>11, <1>13 DEF Written, T

\* What was written stays, and other characters are written behind it.
LEMMA WrittenStays ==
  ASSUME NEW s \in Seq(0..255), NEW out, Written(s, out), NEW n \in 0..Len(s)
  PROVE  /\ Len(out[n]) <= Len(out[Len(s)])
         /\ \A k \in 1..Len(out[n]) : out[Len(s)][k] = out[n][k]
<1>1. PICK N \in Nat : N = Len(s)
  OBVIOUS
<1>2. /\ \A m \in 0..N : out[m] \in Seq(0..255)
      /\ \A m \in 1..N : out[m] = out[m - 1] \o Escape(s[m])
      /\ \A m \in 1..N : Escape(s[m]) \in Seq(0..255)
  <2>1. \A m \in 1..N : s[m] \in 0..255
    BY <1>1
  <2> QED
    BY <1>1, <2>1, EscapeOf DEF Written
<1> DEFINE Stays(m) == /\ Len(out[n]) <= Len(out[m])
                       /\ \A k \in 1..Len(out[n]) : out[m][k] = out[n][k]
           Bad == {m \in 0..N : m >= n /\ ~Stays(m)}
<1>3. ASSUME NEW m \in 1..N, m > n, Stays(m - 1) PROVE Stays(m)
  <2>1. PICK t \in Seq(0..255) : t = out[m - 1]
    BY <1>2
  <2>2. PICK u \in Seq(0..255) : u = Escape(s[m])
    BY <1>2
  <2>3. out[m] = t \o u
    BY <1>2, <2>1, <2>2
  <2>4. PICK a \in Nat : a = Len(out[n])
    BY <1>1, <1>2
  <2>5. a <= Len(t) /\ \A k \in 1..a : t[k] = out[n][k]
    BY <1>3, <2>1, <2>4
  <2>6. Len(t) \in Nat /\ Len(u) \in Nat /\ Len(t \o u) = Len(t) + Len(u)
    BY <2>1, <2>2, ConcatProperties
  <2>7. \A k \in 1..a : (t \o u)[k] = t[k]
    <3>1. \A k \in 1..a : k \in 1..Len(t) + Len(u) /\ k <= Len(t)
      BY <2>5, <2>6
    <3> QED
      BY <2>1, <2>2, <3>1, ConcatProperties
  <2>8. a <= Len(t \o u) /\ \A k \in 1..a : (t \o u)[k] = out[n][k]
    BY <2>5, <2>6, <2>7
  <2> QED
    BY <2>3, <2>4, <2>8
<1>4. n \in 0..N /\ Stays(n)
  BY <1>1, <1>2
<1> HIDE DEF Stays
<1>5. Bad = {}
  <2>1. Bad \in SUBSET (0..N)
    OBVIOUS
  <2>2. 0 \notin Bad
    BY <1>4
  <2>3. \A m \in 1..N : m \in Bad => m - 1 \in Bad
    <3> SUFFICES ASSUME NEW m \in 1..N, m >= n, ~Stays(m), ~(m - 1 >= n) \/ Stays(m - 1) PROVE FALSE
      BY <1>1
    <3>1. m # n
      BY <1>4
    <3>2. m > n /\ m - 1 >= n
      BY <3>1, <1>4
    <3> QED
      BY <3>2, <1>3
  <2> HIDE DEF Bad
  <2> QED
    BY <1>1, <2>1, <2>2, <2>3, NoneFails
<1>6. Stays(N)
  BY <1>1, <1>4, <1>5
<1> QED
  BY <1>1, <1>6 DEF Stays

\* No character is left that would end a path segment or a query.
LEMMA NoneIsLeft ==
  ASSUME NEW s \in Seq(0..255)
  PROVE  /\ url_percent_encode(s) \in Seq(0..255)
         /\ \A c \in ToSet(url_percent_encode(s)) : is_unreserved(c) \/ c = 37
<1>1. PICK N \in Nat : N = Len(s)
  OBVIOUS
<1>2. PICK out : Written(s, out)
  BY EncodeWrites
<1>3. /\ \A m \in 0..N : out[m] \in Seq(0..255)
      /\ out[0] = <<>> /\ url_percent_encode(s) = out[N]
      /\ \A m \in 1..N : out[m] = out[m - 1] \o Escape(s[m])
      /\ \A m \in 1..N : s[m] \in 0..255
  <2>1. \A m \in 1..N : s[m] \in 0..255
    BY <1>1
  <2> QED
    BY <1>1, <1>2, <2>1 DEF Written
<1> DEFINE Plain(t) == \A k \in 1..Len(t) : is_unreserved(t[k]) \/ t[k] = 37
           Bad == {m \in 0..N : ~Plain(out[m])}
<1>4. ASSUME NEW m \in 1..N, Plain(out[m - 1]) PROVE Plain(out[m])
  <2>1. PICK t : t \in Seq(0..255) /\ t = out[m - 1] /\ Plain(t)
    BY <1>3, <1>4
  <2>2. PICK u : u \in Seq(0..255) /\ u = Escape(s[m]) /\ Plain(u)
    <3>1. s[m] \in 0..255
      BY <1>3
    <3>2. Escape(s[m]) \in Seq(0..255) /\ Plain(Escape(s[m]))
      BY <3>1, EscapeOf
    <3> QED
      BY <3>2
  <2>5. t \in Seq(0..255) /\ u \in Seq(0..255)
    BY <2>1, <2>2
  <2>3. /\ Len(t \o u) = Len(t) + Len(u) /\ Len(t) \in Nat /\ Len(u) \in Nat
        /\ \A k \in 1..Len(t) + Len(u) : (t \o u)[k] = IF k <= Len(t) THEN t[k] ELSE u[k - Len(t)]
    BY <2>5, ConcatProperties
  <2>4. Plain(t \o u)
    <3> SUFFICES ASSUME NEW k \in 1..Len(t) + Len(u)
                 PROVE  is_unreserved((t \o u)[k]) \/ (t \o u)[k] = 37
      BY <2>3
    <3>1. CASE k <= Len(t)
      BY <3>1, <2>1, <2>3
    <3>2. CASE ~(k <= Len(t))
      <4>1. k - Len(t) \in 1..Len(u)
        BY <3>2, <2>3
      <4> QED
        BY <3>2, <4>1, <2>2, <2>3
    <3> QED
      BY <3>1, <3>2
  <2> QED
    BY <2>1, <2>2, <2>4, <1>3
<1>5. Plain(out[0])
  BY <1>3
<1> HIDE DEF Plain
<1>6. Bad = {}
  <2>1. Bad \in SUBSET (0..N) /\ 0 \notin Bad
    BY <1>5
  <2>2. \A m \in 1..N : m \in Bad => m - 1 \in Bad
    <3>1. \A m \in 1..N : m - 1 \in 0..N
      OBVIOUS
    <3> QED
      BY <3>1, <1>4
  <2> HIDE DEF Bad
  <2> QED
    BY <1>1, <2>1, <2>2, NoneFails
<1>7. Plain(out[N]) /\ out[N] \in Seq(0..255)
  BY <1>1, <1>3, <1>6
<1>8. \A c \in ToSet(out[N]) : \E k \in 1..Len(out[N]) : c = out[N][k]
  BY <1>7 DEF ToSet
<1>9. \A c \in ToSet(out[N]) : is_unreserved(c) \/ c = 37
  BY <1>7, <1>8 DEF Plain
<1> QED
  BY <1>3, <1>7, <1>9

\* What a server has read of a name after so many characters.
Reads(s, read) ==
  /\ read[0] = [left |-> 0, name |-> <<>>]
  /\ \A n \in 1..Len(s) : read[n] = ReadChar(read[n - 1], s[n])
  /\ Unescaped(s) = read[Len(s)]

Reading == [left : Int, name : Seq(Int)]

\* What a server has read stays a name of numbers.
LEMMA ReadCharType ==
  ASSUME NEW r \in Reading, NEW c \in Int
  PROVE  ReadChar(r, c) \in Reading
<1>1. r.left \in Int /\ r.name \in Seq(Int)
  BY DEF Reading
<1>2. CASE r.left > 0
  <2>1. PICK x \in Seq(Int) : x = r.name
    BY <1>1
  <2>2. Digit(c) \in Int
    BY DEF Digit
  <2>3. [x EXCEPT ![Len(x)] = 16 * @ + Digit(c)] \in Seq(Int)
    <3>1. PICK n \in Nat : n = Len(x)
      BY <2>1
    <3>2. CASE n = 0
      <4>1. n \notin DOMAIN x
        BY <2>1, <3>1, <3>2
      <4>2. [x EXCEPT ![n] = 16 * @ + Digit(c)] = x
        <5>1. \A j \in DOMAIN x : [x EXCEPT ![n] = 16 * @ + Digit(c)][j] = x[j]
          BY <4>1
        <5>2. x = [j \in DOMAIN x |-> x[j]]
          BY <2>1
        <5> QED
          BY <5>1, <5>2
      <4> QED
        BY <2>1, <3>1, <4>2
    <3>3. CASE n # 0
      <4>1. n \in 1..Len(x)
        BY <3>1, <3>3
      <4>2. x[n] \in Int
        BY <2>1, <4>1
      <4>3. PICK e \in Int : e = 16 * x[n] + Digit(c)
        BY <2>2, <4>2
      <4>4. [x EXCEPT ![n] = e] \in Seq(Int)
        BY <2>1, <4>1, <4>3, ExceptSeq
      <4>5. [x EXCEPT ![n] = 16 * @ + Digit(c)] = [x EXCEPT ![n] = e]
        BY <4>3
      <4> QED
        BY <3>1, <4>4, <4>5
    <3> QED
      BY <3>2, <3>3
  <2>4. ReadChar(r, c) = [left |-> r.left - 1, name |-> [x EXCEPT ![Len(x)] = 16 * @ + Digit(c)]]
    BY <1>2, <2>1 DEF ReadChar
  <2> QED
    BY <1>1, <2>3, <2>4 DEF Reading
<1>3. CASE ~(r.left > 0)
  <2>1. Append(r.name, 0) \in Seq(Int) /\ Append(r.name, c) \in Seq(Int)
    BY <1>1
  <2>2. \/ ReadChar(r, c) = [left |-> 2, name |-> Append(r.name, 0)]
        \/ ReadChar(r, c) = [left |-> 0, name |-> Append(r.name, c)]
    BY <1>3 DEF ReadChar
  <2>3. \A x \in Seq(Int) : [left |-> 2, name |-> x] \in Reading /\ [left |-> 0, name |-> x] \in Reading
    BY DEF Reading
  <2> QED
    BY <2>1, <2>2, <2>3
<1> QED
  BY <1>2, <1>3

\* What a server makes of a text is what it reads, character by character.
LEMMA ServerReads ==
  ASSUME NEW s \in Seq(0..255)
  PROVE  \E read : Reads(s, read)
<1>1. PICK N \in Nat : N = Len(s)
  OBVIOUS
<1>2. \A n \in 1..N : s[n] \in Int
  <2>1. \A n \in 1..N : s[n] \in 0..255
    BY <1>1
  <2>2. \A x \in 0..255 : x \in Int
    OBVIOUS
  <2> QED
    BY <2>1, <2>2
<1> DEFINE start == [left |-> 0, name |-> <<>>]
           step  == [n \in 1..N |-> [r \in Reading |-> ReadChar(r, s[n])]]
<1>3. step \in [1..N -> [Reading -> Reading]]
  BY <1>2, ReadCharType
<1>4. \A n \in 1..N : \A r \in Reading : step[n][r] = ReadChar(r, s[n])
  OBVIOUS
<1>5. start \in Reading
  BY DEF Reading
<1> HIDE DEF start, step
<1>6. PICK f \in [0..N -> Reading] : f[0] = start /\ \A n \in 1..N : f[n] = step[n][f[n - 1]]
  <2>1. \E f : Counts(f, Reading, N, start, step)
    BY <1>1, <1>3, <1>5, StepByStep, Zenon
  <2> QED
    BY <2>1 DEF Counts
<1>7. \A n \in 1..N : f[n] = ReadChar(f[n - 1], s[n])
  <2> TAKE n \in 1..N
  <2>1. f[n - 1] \in Reading
    BY <1>6
  <2> QED
    BY <2>1, <1>4, <1>6
<1> DEFINE Body(g) == [n \in 0..N |-> IF n = 0 THEN start ELSE ReadChar(g[n - 1], s[n])]
<1>8. f = Body(f)
  <2>1. \A n \in 0..N : n = 0 \/ n \in 1..N
    OBVIOUS
  <2> QED
    BY <2>1, <1>6, <1>7
<1> DEFINE read == CHOOSE g : g = Body(g)
<1>9. read = Body(read)
  BY <1>8
<1>10. Unescaped(s) = read[N]
  BY <1>1 DEF Unescaped, start
<1> HIDE DEF read
<1>11. read[0] = start /\ \A n \in 1..N : read[n] = ReadChar(read[n - 1], s[n])
  <2>1. \A n \in 0..N : read[n] = Body(read)[n]
    BY <1>9
  <2>2. \A g : \A n \in 0..N : Body(g)[n] = IF n = 0 THEN start ELSE ReadChar(g[n - 1], s[n])
    OBVIOUS
  <2>3. 0 \in 0..N /\ \A n \in 1..N : n \in 0..N /\ n # 0
    OBVIOUS
  <2> HIDE DEF Body
  <2>4. \A n \in 0..N : read[n] = IF n = 0 THEN start ELSE ReadChar(read[n - 1], s[n])
    BY <2>1, <2>2
  <2> QED
    BY <2>3, <2>4
<1> QED
  BY <1>1, <1>10, <1>11 DEF Reads, start

\* The two digits of a byte.
LEMMA HexDigits ==
  ASSUME NEW c \in 0..255
  PROVE  /\ c \div 16 \in 0..15 /\ c % 16 \in 0..15 /\ 16 * (c \div 16) + (c % 16) = c
         /\ c \in Int /\ c \div 16 \in Int /\ c % 16 \in Int
OBVIOUS

\* After the first p characters of a code, those of u are read.
Follows(code, read, p, u) ==
  \A k \in 1..Len(u) : code[p + k] = u[k] /\ read[p + k] = ReadChar(read[p + k - 1], code[p + k])

\* One character, escaped or not, is read back.
LEMMA EscapeIsRead ==
  ASSUME NEW c \in 0..255, NEW x \in Seq(Int), NEW code, NEW read, NEW p \in Nat,
         read[p] = [left |-> 0, name |-> x], Follows(code, read, p, Escape(c))
  PROVE  read[p + Len(Escape(c))] = [left |-> 0, name |-> Append(x, c)]
<1> USE DEF Follows
<1>1. CASE is_unreserved(c)
  <2>1. Len(Escape(c)) = 1 /\ Escape(c)[1] = c /\ c # 37
    <3>1. Escape(c) = <<c>>
      BY <1>1 DEF Escape
    <3>2. c # 37
      BY <1>1 DEF is_unreserved
    <3> QED
      BY <3>1, <3>2
  <2>2. p + 1 - 1 = p
    OBVIOUS
  <2>3. read[p + 1] = ReadChar(read[p], c)
    BY <2>1, <2>2
  <2> QED
    BY <2>1, <2>3 DEF ReadChar
<1>2. CASE ~is_unreserved(c)
  <2> DEFINE h == c \div 16
             l == c % 16
  <2>1. h \in 0..15 /\ l \in 0..15 /\ 16 * h + l = c /\ h \in Int /\ l \in Int
    BY HexDigits
  <2>2. \A d \in 0..15 : Digit(Hex(d)) = d
    BY DEF Digit, Hex
  <2>3. Len(Escape(c)) = 3 /\ Escape(c)[1] = 37 /\ Escape(c)[2] = Hex(h) /\ Escape(c)[3] = Hex(l)
    BY <1>2 DEF Escape
  <2>4. p + 1 - 1 = p /\ p + 2 - 1 = p + 1 /\ p + 3 - 1 = p + 2
    OBVIOUS
  <2>5. 1 \in 1..3 /\ 2 \in 1..3 /\ 3 \in 1..3
    OBVIOUS
  <2> HIDE DEF h, l
  <2>6. /\ read[p + 1] = ReadChar(read[p], 37)
        /\ read[p + 2] = ReadChar(read[p + 1], Hex(h))
        /\ read[p + 3] = ReadChar(read[p + 2], Hex(l))
    BY <2>3, <2>4, <2>5
  <2>7. PICK y : y = Append(x, 0)
    OBVIOUS
  <2>8. PICK n \in Nat : n = Len(x)
    OBVIOUS
  <2>9. y \in Seq(Int) /\ Len(y) = n + 1 /\ y[n + 1] = 0 /\ \A k \in 1..n : y[k] = x[k]
    BY <2>7, <2>8
  <2>10. read[p + 1] = [left |-> 2, name |-> y]
    BY <2>6, <2>7 DEF ReadChar
  <2>11. PICK z : z = [y EXCEPT ![n + 1] = h]
    OBVIOUS
  <2>12. z \in Seq(Int) /\ Len(z) = n + 1 /\ z[n + 1] = h /\ \A k \in 1..n : z[k] = x[k]
    BY <2>1, <2>9, <2>11
  <2>13. read[p + 2] = [left |-> 1, name |-> z]
    <3>1. [y EXCEPT ![Len(y)] = 16 * @ + Digit(Hex(h))] = z
      <4>2. y[n + 1] = 0 /\ Digit(Hex(h)) = h /\ h \in Int
        <5>1. Digit(Hex(h)) = h
          BY <2>1, <2>2
        <5> QED
          BY <5>1, <2>1, <2>9
      <4>1. 16 * y[n + 1] + Digit(Hex(h)) = h
        BY <4>2
      <4> QED
        BY <4>1, <2>9, <2>11
    <3>3. PICK r : r = [left |-> 2, name |-> y]
      OBVIOUS
    <3>4. r.left = 2 /\ r.name = y
      BY <3>3
    <3>5. ReadChar(r, Hex(h)) = [left |-> r.left - 1, name |-> [r.name EXCEPT ![Len(r.name)] = 16 * @ + Digit(Hex(h))]]
      BY <3>4 DEF ReadChar
    <3>2. read[p + 2] = [left |-> 1, name |-> [y EXCEPT ![Len(y)] = 16 * @ + Digit(Hex(h))]]
      BY <2>6, <2>10, <3>3, <3>4, <3>5
    <3> QED
      BY <3>1, <3>2
  <2>14. PICK w : w = [z EXCEPT ![n + 1] = c]
    OBVIOUS
  <2>15. read[p + 3] = [left |-> 0, name |-> w]
    <3>1. [z EXCEPT ![Len(z)] = 16 * @ + Digit(Hex(l))] = w
      <4>1. 16 * z[n + 1] + Digit(Hex(l)) = c
        BY <2>1, <2>2, <2>12
      <4> QED
        BY <4>1, <2>12, <2>14
    <3>3. PICK r : r = [left |-> 1, name |-> z]
      OBVIOUS
    <3>4. r.left = 1 /\ r.name = z
      BY <3>3
    <3>5. ReadChar(r, Hex(l)) = [left |-> r.left - 1, name |-> [r.name EXCEPT ![Len(r.name)] = 16 * @ + Digit(Hex(l))]]
      BY <3>4 DEF ReadChar
    <3>2. read[p + 3] = [left |-> 0, name |-> [z EXCEPT ![Len(z)] = 16 * @ + Digit(Hex(l))]]
      BY <2>6, <2>13, <3>3, <3>4, <3>5
    <3> QED
      BY <3>1, <3>2
  <2>16. w = Append(x, c)
    <3>1. w \in Seq(Int) /\ Len(w) = n + 1 /\ w[n + 1] = c /\ \A k \in 1..n : w[k] = x[k]
      BY <2>12, <2>14
    <3>2. PICK v : v = Append(x, c)
      OBVIOUS
    <3>3. v \in Seq(Int) /\ Len(v) = n + 1 /\ v[n + 1] = c /\ \A k \in 1..n : v[k] = x[k]
      <4>1. c \in Int
        BY HexDigits
      <4> QED
        <5>1. /\ Append(x, c) \in Seq(Int) /\ Len(Append(x, c)) = Len(x) + 1
              /\ \A k \in 1..Len(x) : Append(x, c)[k] = x[k]
              /\ Append(x, c)[Len(x) + 1] = c
          BY <4>1, AppendProperties
        <5> QED
          BY <5>1, <2>8, <3>2
    <3>4. \A k \in 1..n + 1 : k \in 1..n \/ k = n + 1
      OBVIOUS
    <3>5. \A k \in 1..n + 1 : v[k] = w[k]
      BY <3>1, <3>3, <3>4
    <3>6. v = w
      BY <3>1, <3>3, <3>5, SeqEqual
    <3> QED
      BY <3>2, <3>6
  <2> QED
    BY <2>3, <2>15, <2>16
<1> QED
  BY <1>1, <1>2

\* A beginning of something.
LEMMA Beginning ==
  ASSUME NEW S, NEW m \in Nat, NEW f, \A i \in 1..m : f[i] \in S
  PROVE  /\ [i \in 1..m |-> f[i]] \in Seq(S) /\ Len([i \in 1..m |-> f[i]]) = m
         /\ \A j \in 1..m : [i \in 1..m |-> f[i]][j] = f[j]
OBVIOUS

\* A beginning of a name, and the next character.
LEMMA NextCharacter ==
  ASSUME NEW s \in Seq(0..255), NEW n \in 1..Len(s)
  PROVE  /\ s[n] \in 0..255 /\ [i \in 1..n - 1 |-> s[i]] \in Seq(Int)
         /\ Append([i \in 1..n - 1 |-> s[i]], s[n]) = [i \in 1..n |-> s[i]]
<1>1. PICK N \in Nat : N = Len(s)
  OBVIOUS
<1>2. \A i \in 1..N : s[i] \in 0..255
  BY <1>1
<1>3. \A a \in 0..255 : a \in Int
  OBVIOUS
<1>4. \A i \in 1..N : s[i] \in Int
  BY <1>2, <1>3
<1>5. n \in 1..N
  BY <1>1
<1>6. PICK x : x = [i \in 1..n - 1 |-> s[i]]
  OBVIOUS
<1>7. PICK t : t = [i \in 1..n |-> s[i]]
  OBVIOUS
<1>8. x \in Seq(Int) /\ Len(x) = n - 1 /\ \A i \in 1..n - 1 : x[i] = s[i]
  <2>1. n - 1 \in Nat /\ \A i \in 1..n - 1 : i \in 1..N
    BY <1>5
  <2> QED
    BY <2>1, <1>4, <1>6, Beginning
<1>9. t \in Seq(Int) /\ Len(t) = n /\ \A i \in 1..n : t[i] = s[i]
  <2>1. n \in Nat /\ \A i \in 1..n : i \in 1..N
    BY <1>5
  <2> QED
    BY <2>1, <1>4, <1>7, Beginning
<1>10. PICK y : y = Append(x, s[n])
  OBVIOUS
<1>11. y \in Seq(Int) /\ Len(y) = n /\ (\A i \in 1..n - 1 : y[i] = s[i]) /\ y[n] = s[n]
  <2>1. s[n] \in Int
    BY <1>4, <1>5
  <2>2. x \in Seq(Int)
    BY <1>8
  <2>3. /\ y \in Seq(Int) /\ Len(y) = Len(x) + 1
        /\ \A i \in 1..Len(x) : y[i] = x[i]
        /\ y[Len(x) + 1] = s[n]
    BY <2>1, <2>2, <1>10, AppendProperties
  <2>4. n - 1 + 1 = n
    BY <1>5
  <2> QED
    BY <2>3, <2>4, <1>8
<1>12. y = t
  <2>1. \A i \in 1..n : i \in 1..n - 1 \/ i = n
    BY <1>5
  <2>2. \A i \in 1..n : y[i] = t[i]
    BY <2>1, <1>9, <1>11
  <2> QED
    BY <2>2, <1>9, <1>11, SeqEqual
<1> QED
  BY <1>2, <1>5, <1>6, <1>7, <1>8, <1>10, <1>12

\* A server reads the name that was escaped.
LEMMA NameIsRead ==
  ASSUME NEW s \in Seq(0..255)
  PROVE  Unescaped(url_percent_encode(s)) = [left |-> 0, name |-> s]
<1>1. PICK N \in Nat : N = Len(s)
  OBVIOUS
<1>2. PICK out : Written(s, out)
  BY EncodeWrites
<1>3. PICK code : code \in Seq(0..255) /\ code = url_percent_encode(s)
  BY NoneIsLeft
<1>4. PICK read : Reads(code, read)
  BY <1>3, ServerReads
<1>5. PICK M \in Nat : M = Len(code)
  BY <1>3
<1> DEFINE Name(n) == [i \in 1..n |-> s[i]]
           Done(n) == read[Len(out[n])] = [left |-> 0, name |-> Name(n)]
           Bad == {n \in 0..N : ~Done(n)}
<1>6. /\ \A m \in 0..N : out[m] \in Seq(0..255)
      /\ out[0] = <<>> /\ code = out[N]
      /\ \A m \in 1..N : out[m] = out[m - 1] \o Escape(s[m])
  BY <1>1, <1>2, <1>3 DEF Written
<1>7. /\ read[0] = [left |-> 0, name |-> <<>>]
      /\ \A k \in 1..M : read[k] = ReadChar(read[k - 1], code[k])
      /\ Unescaped(code) = read[M]
  BY <1>4, <1>5 DEF Reads
<1>8. Done(0)
  BY <1>6, <1>7
<1>9. ASSUME NEW n \in 1..N, Done(n - 1) PROVE Done(n)
  <2> HIDE DEF Name
  <2>1. PICK t \in Seq(0..255) : t = out[n - 1]
    BY <1>6
  <2>2. PICK c \in 0..255 : c = s[n] /\ Name(n - 1) \in Seq(Int) /\ Append(Name(n - 1), c) = Name(n)
    BY <1>1, NextCharacter DEF Name
  <2>3. PICK u \in Seq(0..255) : u = Escape(c)
    BY EscapeOf
  <2>4. PICK v \in Seq(0..255) : v = out[n] /\ v = t \o u
    <3>1. n \in 0..N
      OBVIOUS
    <3>2. out[n] \in Seq(0..255)
      BY <3>1, <1>6
    <3>3. out[n] = t \o u
      BY <1>6, <2>1, <2>2, <2>3
    <3> QED
      BY <3>2, <3>3
  <2>5. PICK p \in Nat : p = Len(t)
    BY <2>1
  <2>6. PICK l \in Nat : l = Len(u)
    BY <2>3
  <2>7. Len(v) = p + l /\ \A k \in 1..l : v[p + k] = u[k]
    <3>1. /\ Len(t \o u) = p + l
          /\ \A k \in 1..p + l : (t \o u)[k] = IF k <= p THEN t[k] ELSE u[k - p]
      BY <2>5, <2>6, ConcatProperties
    <3>2. \A k \in 1..l : p + k \in 1..p + l /\ ~(p + k <= p) /\ p + k - p = k
      OBVIOUS
    <3> QED
      BY <2>4, <3>1, <3>2
  <2>8. Len(v) <= M /\ \A k \in 1..Len(v) : code[k] = v[k]
    <3>1. n \in 0..Len(s)
      BY <1>1
    <3> QED
      <4>1. Len(out[n]) <= Len(out[Len(s)]) /\ \A k \in 1..Len(out[n]) : out[Len(s)][k] = out[n][k]
        BY <1>2, <3>1, WrittenStays
      <4>2. out[Len(s)] = code /\ out[n] = v
        BY <1>1, <1>6, <2>4
      <4> QED
        BY <4>1, <4>2, <1>5
  <2>9. \A k \in 1..l : code[p + k] = u[k] /\ read[p + k] = ReadChar(read[p + k - 1], code[p + k])
    <3>1. \A k \in 1..l : p + k \in 1..p + l
      OBVIOUS
    <3>2. \A k \in 1..l : p + k \in 1..M
      BY <3>1, <2>7, <2>8
    <3> QED
      BY <3>1, <3>2, <2>7, <2>8, <1>7
  <2>10. PICK x : x \in Seq(Int) /\ x = Name(n - 1)
    BY <2>2
  <2>11. read[p] = [left |-> 0, name |-> x]
    BY <1>9, <2>1, <2>5, <2>10
  <2>12. x \in Seq(Int)
    BY <2>10
  <2>13. Follows(code, read, p, Escape(c))
    BY <2>3, <2>6, <2>9 DEF Follows
  <2>14. read[p + Len(Escape(c))] = [left |-> 0, name |-> Append(x, c)]
    BY <2>11, <2>12, <2>13, EscapeIsRead, Zenon
  <2> QED
    BY <2>2, <2>3, <2>4, <2>6, <2>7, <2>10, <2>14
<1> HIDE DEF Done
<1>10. Bad = {}
  <2>1. Bad \in SUBSET (0..N) /\ 0 \notin Bad
    BY <1>8
  <2>2. \A m \in 1..N : m \in Bad => m - 1 \in Bad
    <3>1. \A m \in 1..N : m - 1 \in 0..N
      OBVIOUS
    <3> QED
      BY <3>1, <1>9
  <2> HIDE DEF Bad
  <2> QED
    BY <1>1, <2>1, <2>2, NoneFails
<1>11. read[M] = [left |-> 0, name |-> Name(N)]
  <2>1. Done(N)
    BY <1>1, <1>10
  <2> QED
    BY <2>1, <1>5, <1>6 DEF Done
<1>12. Name(N) = s
  BY <1>1
<1> QED
  BY <1>3, <1>7, <1>11, <1>12

-----------------------------------------------------------------------------
(* base64: the bits of a group of bytes are those of its characters.       *)

\* The characters of three bytes, and their bits.
Triple(a, b, c) == a * 65536 + b * 256 + c
Characters(a, b, c) ==
  <<a \div 4, (a % 4) * 16 + (b \div 16), (b % 16) * 4 + (c \div 64), c % 64>>
Six(t) == <<t \div 262144, (t \div 4096) % 64, (t \div 64) % 64, t % 64>>

\* The six bits of the code are those cut out of the three bytes.
LEMMA CharactersOfTriple ==
  ASSUME NEW a \in 0..255, NEW b \in 0..255, NEW c \in 0..255
  PROVE  Six(Triple(a, b, c)) = Characters(a, b, c)
<1> DEFINE t == a * 65536 + b * 256 + c
<1>1. t \div 262144 = a \div 4
  OBVIOUS
<1>2. (t \div 4096) % 64 = (a % 4) * 16 + (b \div 16)
  <2>1. PICK q \in 0..63, m \in 0..3 : a = 4 * q + m
    <3>1. a \div 4 \in 0..63 /\ a % 4 \in 0..3 /\ a = 4 * (a \div 4) + (a % 4)
      OBVIOUS
    <3> QED
      BY <3>1
  <2>2. PICK u \in 0..15, v \in 0..15 : b = 16 * u + v
    <3>1. b \div 16 \in 0..15 /\ b % 16 \in 0..15 /\ b = 16 * (b \div 16) + (b % 16)
      OBVIOUS
    <3> QED
      BY <3>1
  <2>3. t = 4096 * (64 * q + 16 * m + u) + (256 * v + c)
    BY <2>1, <2>2
  <2>4. t \div 4096 = 64 * q + 16 * m + u
    BY <2>3
  <2>5. a % 4 = m /\ b \div 16 = u
    BY <2>1, <2>2
  <2>6. (64 * q + 16 * m + u) % 64 = 16 * m + u
    OBVIOUS
  <2> QED
    BY <2>4, <2>5, <2>6
<1>3. (t \div 64) % 64 = (b % 16) * 4 + (c \div 64)
  OBVIOUS
<1>4. t % 64 = c % 64
  OBVIOUS
<1> QED
  BY <1>1, <1>2, <1>3, <1>4, SMT DEF Six, Triple, Characters

\* They are places in the alphabet.
LEMMA CharactersAre ==
  ASSUME NEW a \in 0..255, NEW b \in 0..255, NEW c \in 0..255
  PROVE  \A j \in 1..4 : Characters(a, b, c)[j] \in 0..63
<1>1. /\ a \div 4 \in 0..63 /\ (a % 4) * 16 + (b \div 16) \in 0..63
      /\ (b % 16) * 4 + (c \div 64) \in 0..63 /\ c % 64 \in 0..63
  OBVIOUS
<1>2. \A x, y, z, w \in 0..63 : \A j \in 1..4 : <<x, y, z, w>>[j] \in 0..63
  OBVIOUS
<1> QED
  BY <1>1, <1>2, Zenon DEF Characters

\* The bits of four characters are those of three bytes.
Bit(n, power) == (n \div power) % 2

SameBits(six, three) ==
  /\ Bit(six[1], 32) = Bit(three[1], 128) /\ Bit(six[1], 16) = Bit(three[1], 64)
  /\ Bit(six[1], 8) = Bit(three[1], 32) /\ Bit(six[1], 4) = Bit(three[1], 16)
  /\ Bit(six[1], 2) = Bit(three[1], 8) /\ Bit(six[1], 1) = Bit(three[1], 4)
  /\ Bit(six[2], 32) = Bit(three[1], 2) /\ Bit(six[2], 16) = Bit(three[1], 1)
  /\ Bit(six[2], 8) = Bit(three[2], 128) /\ Bit(six[2], 4) = Bit(three[2], 64)
  /\ Bit(six[2], 2) = Bit(three[2], 32) /\ Bit(six[2], 1) = Bit(three[2], 16)
  /\ Bit(six[3], 32) = Bit(three[2], 8) /\ Bit(six[3], 16) = Bit(three[2], 4)
  /\ Bit(six[3], 8) = Bit(three[2], 2) /\ Bit(six[3], 4) = Bit(three[2], 1)
  /\ Bit(six[3], 2) = Bit(three[3], 128) /\ Bit(six[3], 1) = Bit(three[3], 64)
  /\ Bit(six[4], 32) = Bit(three[3], 32) /\ Bit(six[4], 16) = Bit(three[3], 16)
  /\ Bit(six[4], 8) = Bit(three[3], 8) /\ Bit(six[4], 4) = Bit(three[3], 4)
  /\ Bit(six[4], 2) = Bit(three[3], 2) /\ Bit(six[4], 1) = Bit(three[3], 1)

\* Each bit of three bytes is one of their characters.
LEMMA TripleBits ==
  ASSUME NEW a \in 0..255, NEW b \in 0..255, NEW c \in 0..255, NEW six, NEW three,
         six = Characters(a, b, c), three = <<a, b, c>>
  PROVE  SameBits(six, three)
<1> USE DEF Bit
<1>0. /\ six[1] = a \div 4 /\ six[2] = (a % 4) * 16 + (b \div 16)
      /\ six[3] = (b % 16) * 4 + (c \div 64) /\ six[4] = c % 64
      /\ three[1] = a /\ three[2] = b /\ three[3] = c
  BY DEF Characters
<1>1. Bit(six[1], 32) = Bit(three[1], 128)
  BY <1>0
<1>2. Bit(six[1], 16) = Bit(three[1], 64)
  BY <1>0
<1>3. Bit(six[1], 8) = Bit(three[1], 32)
  BY <1>0
<1>4. Bit(six[1], 4) = Bit(three[1], 16)
  BY <1>0
<1>5. Bit(six[1], 2) = Bit(three[1], 8)
  BY <1>0
<1>6. Bit(six[1], 1) = Bit(three[1], 4)
  BY <1>0
<1>7. Bit(six[2], 32) = Bit(three[1], 2)
  BY <1>0
<1>8. Bit(six[2], 16) = Bit(three[1], 1)
  BY <1>0
<1>9. Bit(six[2], 8) = Bit(three[2], 128)
  BY <1>0
<1>10. Bit(six[2], 4) = Bit(three[2], 64)
  BY <1>0
<1>11. Bit(six[2], 2) = Bit(three[2], 32)
  BY <1>0
<1>12. Bit(six[2], 1) = Bit(three[2], 16)
  BY <1>0
<1>13. Bit(six[3], 32) = Bit(three[2], 8)
  BY <1>0
<1>14. Bit(six[3], 16) = Bit(three[2], 4)
  BY <1>0
<1>15. Bit(six[3], 8) = Bit(three[2], 2)
  BY <1>0
<1>16. Bit(six[3], 4) = Bit(three[2], 1)
  BY <1>0
<1>17. Bit(six[3], 2) = Bit(three[3], 128)
  BY <1>0
<1>18. Bit(six[3], 1) = Bit(three[3], 64)
  BY <1>0
<1>19. Bit(six[4], 32) = Bit(three[3], 32)
  BY <1>0
<1>20. Bit(six[4], 16) = Bit(three[3], 16)
  BY <1>0
<1>21. Bit(six[4], 8) = Bit(three[3], 8)
  BY <1>0
<1>22. Bit(six[4], 4) = Bit(three[3], 4)
  BY <1>0
<1>23. Bit(six[4], 2) = Bit(three[3], 2)
  BY <1>0
<1>24. Bit(six[4], 1) = Bit(three[3], 1)
  BY <1>0
<1> HIDE DEF Bit
<1> QED
  BY <1>1, <1>2, <1>3, <1>4, <1>5, <1>6, <1>7, <1>8, <1>9, <1>10, <1>11, <1>12,
     <1>13, <1>14, <1>15, <1>16, <1>17, <1>18, <1>19, <1>20, <1>21, <1>22, <1>23, <1>24 DEF SameBits

\* The bits of a number, one by one.
LEMMA BitsAt ==
  ASSUME NEW n
  PROVE  /\ \A i \in 1..6 : Bits(n, 6)[i] = Bit(n, <<32, 16, 8, 4, 2, 1>>[i])
         /\ \A i \in 1..8 : Bits(n, 8)[i] = Bit(n, <<128, 64, 32, 16, 8, 4, 2, 1>>[i])
BY DEF Bits, PowersOfTwo, Bit

Agree(six, three, r) ==
  Bits(six[r \div 6 + 1], 6)[(r % 6) + 1] = Bits(three[r \div 8 + 1], 8)[(r % 8) + 1]

\* The r-th bit of the characters is the r-th of the bytes.
LEMMA BitOfTriple ==
  ASSUME NEW six, NEW three, SameBits(six, three), NEW r \in 0..23
  PROVE  Agree(six, three, r)
<1> USE DEF Agree
<1>1. CASE r \in 0..5
  <2>1. /\ Bits(six[1], 6)[1] = Bits(three[1], 8)[1]
        /\ Bits(six[1], 6)[2] = Bits(three[1], 8)[2]
        /\ Bits(six[1], 6)[3] = Bits(three[1], 8)[3]
        /\ Bits(six[1], 6)[4] = Bits(three[1], 8)[4]
        /\ Bits(six[1], 6)[5] = Bits(three[1], 8)[5]
        /\ Bits(six[1], 6)[6] = Bits(three[1], 8)[6]
    BY BitsAt DEF SameBits
  <2>2. r \div 6 = 0 /\ r % 6 = r - 0
    BY <1>1
  <2> QED
    BY <2>1, <2>2, <1>1
<1>2. CASE r \in 6..11
  <2>1. /\ Bits(six[2], 6)[1] = Bits(three[1], 8)[7]
        /\ Bits(six[2], 6)[2] = Bits(three[1], 8)[8]
        /\ Bits(six[2], 6)[3] = Bits(three[2], 8)[1]
        /\ Bits(six[2], 6)[4] = Bits(three[2], 8)[2]
        /\ Bits(six[2], 6)[5] = Bits(three[2], 8)[3]
        /\ Bits(six[2], 6)[6] = Bits(three[2], 8)[4]
    BY BitsAt DEF SameBits
  <2>2. r \div 6 = 1 /\ r % 6 = r - 6
    BY <1>2
  <2> QED
    BY <2>1, <2>2, <1>2
<1>3. CASE r \in 12..17
  <2>1. /\ Bits(six[3], 6)[1] = Bits(three[2], 8)[5]
        /\ Bits(six[3], 6)[2] = Bits(three[2], 8)[6]
        /\ Bits(six[3], 6)[3] = Bits(three[2], 8)[7]
        /\ Bits(six[3], 6)[4] = Bits(three[2], 8)[8]
        /\ Bits(six[3], 6)[5] = Bits(three[3], 8)[1]
        /\ Bits(six[3], 6)[6] = Bits(three[3], 8)[2]
    BY BitsAt DEF SameBits
  <2>2. r \div 6 = 2 /\ r % 6 = r - 12
    BY <1>3
  <2> QED
    BY <2>1, <2>2, <1>3
<1>4. CASE r \in 18..23
  <2>1. /\ Bits(six[4], 6)[1] = Bits(three[3], 8)[3]
        /\ Bits(six[4], 6)[2] = Bits(three[3], 8)[4]
        /\ Bits(six[4], 6)[3] = Bits(three[3], 8)[5]
        /\ Bits(six[4], 6)[4] = Bits(three[3], 8)[6]
        /\ Bits(six[4], 6)[5] = Bits(three[3], 8)[7]
        /\ Bits(six[4], 6)[6] = Bits(three[3], 8)[8]
    BY BitsAt DEF SameBits
  <2>2. r \div 6 = 3 /\ r % 6 = r - 18
    BY <1>4
  <2> QED
    BY <2>1, <2>2, <1>4
<1> QED
  BY <1>1, <1>2, <1>3, <1>4

-----------------------------------------------------------------------------
\* The three bytes behind the first 3 * g, zeros behind the last, and the four
\* characters of their bits.
Three(s, g) == <<ByteAt(s, 3 * g + 1), ByteAt(s, 3 * g + 2), ByteAt(s, 3 * g + 3)>>
Four(s, g) == Characters(ByteAt(s, 3 * g + 1), ByteAt(s, 3 * g + 2), ByteAt(s, 3 * g + 3))

\* What is missing of the last group counts as zero.
LEMMA BytesOfGroup ==
  ASSUME NEW s \in Seq(0..255), NEW i \in Nat \ {0}
  PROVE  ByteAt(s, i) \in 0..255
<1>1. CASE i <= Len(s)
  <2>1. i \in 1..Len(s)
    BY <1>1
  <2>2. s[i] \in 0..255
    BY <2>1, LenProperties, Zenon
  <2>3. ByteAt(s, i) = s[i]
    BY <1>1, Zenon DEF ByteAt
  <2> QED
    BY <2>2, <2>3, Zenon
<1>2. CASE ~(i <= Len(s))
  BY <1>2 DEF ByteAt
<1> QED
  BY <1>1, <1>2

\* The last characters are marked if bytes are missing.
Marked(six, n) ==
  IF n = 1 THEN <<six[1], six[2], 64, 64>>
  ELSE IF n = 2 THEN <<six[1], six[2], six[3], 64>> ELSE six

\* What the code writes for a group.
LEMMA CharactersOfGroup ==
  ASSUME NEW s \in Seq(0..255), NEW g \in Nat
  PROVE  /\ SameBits(Four(s, g), Three(s, g))
         /\ \A j \in 1..4 : Four(s, g)[j] \in 0..63
         /\ Sextets(s, 3 * g) = Marked(Four(s, g), Len(s) - 3 * g)
<1>1. 3 * g + 1 \in Nat \ {0} /\ 3 * g + 2 \in Nat \ {0} /\ 3 * g + 3 \in Nat \ {0}
  OBVIOUS
<1>2. PICK a \in 0..255 : a = ByteAt(s, 3 * g + 1)
  BY <1>1, BytesOfGroup
<1>3. PICK b \in 0..255 : b = ByteAt(s, 3 * g + 2)
  BY <1>1, BytesOfGroup
<1>4. PICK c \in 0..255 : c = ByteAt(s, 3 * g + 3)
  BY <1>1, BytesOfGroup
<1>5. Four(s, g) = Characters(a, b, c) /\ Three(s, g) = <<a, b, c>>
  BY <1>2, <1>3, <1>4 DEF Four, Three
<1>6. SameBits(Four(s, g), Three(s, g))
  BY <1>5, TripleBits, Zenon
<1>8. \A j \in 1..4 : Four(s, g)[j] \in 0..63
  BY <1>5, CharactersAre, Zenon
<1>9. Sextets(s, 3 * g) = Marked(Four(s, g), Len(s) - 3 * g)
  <2>1. Sextets(s, 3 * g) =
          Marked(Six(Triple(ByteAt(s, 3 * g + 1), ByteAt(s, 3 * g + 2), ByteAt(s, 3 * g + 3))),
                 Len(s) - 3 * g)
    BY SMT DEF Sextets, Six, Marked, Triple
  <2>2. Six(Triple(a, b, c)) = Characters(a, b, c)
    BY CharactersOfTriple, Zenon
  <2> QED
    BY <2>1, <2>2, <1>2, <1>3, <1>4, <1>5, Zenon
<1> QED
  BY <1>6, <1>8, <1>9, SMT

\* Pieces of length n, where they stand in a sequence.
JoinedAs(seq, pieces, n, L) ==
  /\ Len(seq) = n * L /\ DOMAIN seq = 1..n * L
  /\ \A k \in 0..L - 1 : \A j \in 1..n :
       n * k + j \in 1..n * L /\ seq[n * k + j] = pieces[k + 1][j]

\* The pieces of what is joined are at their places.
LEMMA JoinedAt ==
  ASSUME NEW pieces, NEW L \in Nat, Len(pieces) = L, NEW n \in {4, 6, 8}
  PROVE  JoinedAs(Joined(pieces, n), pieces, n, L)
<1>1. n * L \in Nat
  OBVIOUS
<1>2. /\ Len(Joined(pieces, n)) = n * L /\ DOMAIN Joined(pieces, n) = 1..n * L
      /\ \A i \in 1..n * L : Joined(pieces, n)[i] = pieces[(i - 1) \div n + 1][((i - 1) % n) + 1]
  BY <1>1 DEF Joined
<1>3. ASSUME NEW k \in 0..L - 1, NEW j \in 1..n
      PROVE  /\ n * k + j \in 1..n * L
             /\ (n * k + j - 1) \div n + 1 = k + 1 /\ ((n * k + j - 1) % n) + 1 = j
  <2>1. CASE n = 4
    BY <2>1
  <2>2. CASE n = 6
    BY <2>2
  <2>3. CASE n = 8
    BY <2>3
  <2> QED
    BY <2>1, <2>2, <2>3
<1>4. ASSUME NEW k \in 0..L - 1, NEW j \in 1..n
      PROVE  n * k + j \in 1..n * L /\ Joined(pieces, n)[n * k + j] = pieces[k + 1][j]
  <2>1. PICK i : i \in 1..n * L /\ i = n * k + j
    BY <1>3
  <2>2. (i - 1) \div n + 1 = k + 1 /\ ((i - 1) % n) + 1 = j
    BY <1>3, <2>1
  <2>3. Joined(pieces, n)[i] = pieces[(i - 1) \div n + 1][((i - 1) % n) + 1]
    BY <1>2, <2>1
  <2> QED
    BY <2>1, <2>2, <2>3, Zenon
<1> QED
  BY <1>2, <1>4 DEF JoinedAs

\* As many groups as there are begun, and what is missing of the last.
LEMMA Groups ==
  ASSUME NEW n \in Nat
  PROVE  (n + 2) \div 3 \in Nat /\ 3 * ((n + 2) \div 3) - n \in 0..2
OBVIOUS

\* The characters of a text: those of the bits, and "=" for each byte that is
\* missing in the last group.
EncodedAs(code, s, G, e) ==
  /\ Len(code) = 4 * G /\ DOMAIN code = 1..4 * G
  /\ \A g \in 0..G - 1 : \A j \in 1..4 :
       code[4 * g + j] = IF 4 * g + j <= 4 * G - e THEN Four(s, g)[j] ELSE 64

InGroups(n, G, e) == G = (n + 2) \div 3 /\ e = 3 * G - n

\* The text that is computed is the characters of the groups.
LEMMA EncodedText ==
  ASSUME NEW s \in Seq(0..255), NEW G \in Nat, NEW e \in 0..2, InGroups(Len(s), G, e)
  PROVE  EncodedAs(base64_encode(s), s, G, e)
<1> DEFINE pieces == [k \in 1..G |-> Sextets(s, 3 * (k - 1))]
<1>1. base64_encode(s) = Joined(pieces, 4)
  BY DEF base64_encode, InGroups
<1>2. Len(pieces) = G /\ \A g \in 0..G - 1 : pieces[g + 1] = Sextets(s, 3 * g)
  <2>1. \A g \in 0..G - 1 : g + 1 \in 1..G /\ g + 1 - 1 = g
    OBVIOUS
  <2> QED
    BY <2>1
<1> HIDE DEF pieces
<1>3. PICK N \in Nat : N = Len(s)
  OBVIOUS
<1>4. ASSUME NEW g \in 0..G - 1, NEW j \in 1..4
      PROVE  Sextets(s, 3 * g)[j] = IF 4 * g + j <= 4 * G - e THEN Four(s, g)[j] ELSE 64
  <2>1. g \in Nat
    OBVIOUS
  <2>2. PICK six : six = Four(s, g)
    OBVIOUS
  <2>3. Sextets(s, 3 * g) = Marked(six, N - 3 * g)
    BY <1>3, <2>1, <2>2, CharactersOfGroup
  <2>4. N - 3 * g = 3 * (G - g) - e
    BY <1>3 DEF InGroups
  <2>5. N - 3 * g = 1 <=> (g = G - 1 /\ e = 2)
    BY <2>4
  <2>6. N - 3 * g = 2 <=> (g = G - 1 /\ e = 1)
    BY <2>4
  <2>7. CASE g = G - 1 /\ e = 2
    <3>1. Sextets(s, 3 * g) = <<six[1], six[2], 64, 64>>
      BY <2>3, <2>5, <2>7 DEF Marked
    <3>2. 4 * g + j <= 4 * G - e <=> j <= 2
      BY <2>7
    <3> QED
      BY <3>1, <3>2, <2>2
  <2>8. CASE g = G - 1 /\ e = 1
    <3>1. Sextets(s, 3 * g) = <<six[1], six[2], six[3], 64>>
      BY <2>3, <2>5, <2>6, <2>8 DEF Marked
    <3>2. 4 * g + j <= 4 * G - e <=> j <= 3
      BY <2>8
    <3> QED
      BY <3>1, <3>2, <2>2
  <2>9. CASE ~(g = G - 1 /\ e = 2) /\ ~(g = G - 1 /\ e = 1)
    <3>1. Sextets(s, 3 * g) = six
      BY <2>3, <2>5, <2>6, <2>9 DEF Marked
    <3>2. 4 * g + j <= 4 * G - e
      BY <2>9
    <3> QED
      BY <3>1, <3>2, <2>2
  <2> QED
    BY <2>7, <2>8, <2>9
<1>5. JoinedAs(Joined(pieces, 4), pieces, 4, G)
  <2>1. 4 \in {4, 6, 8}
    OBVIOUS
  <2> QED
    BY <1>2, <2>1, JoinedAt
<1>6. ASSUME NEW g \in 0..G - 1, NEW j \in 1..4
      PROVE  Joined(pieces, 4)[4 * g + j] = IF 4 * g + j <= 4 * G - e THEN Four(s, g)[j] ELSE 64
  <2>1. Joined(pieces, 4)[4 * g + j] = pieces[g + 1][j]
    BY <1>5 DEF JoinedAs
  <2>2. pieces[g + 1][j] = Sextets(s, 3 * g)[j]
    BY <1>2
  <2> QED
    BY <2>1, <2>2, <1>4
<1>7. Len(Joined(pieces, 4)) = 4 * G /\ DOMAIN Joined(pieces, 4) = 1..4 * G
  BY <1>5 DEF JoinedAs
<1> QED
  BY <1>1, <1>6, <1>7 DEF EncodedAs

\* Zero has no bits.
LEMMA NoBits == \A m \in 1..8 : Bits(0, 8)[m] = 0
<1>1. \A m \in 1..8 : Bits(0, 8)[m] = (0 \div <<128, 64, 32, 16, 8, 4, 2, 1>>[m]) % 2
  BY BitsAt DEF Bit
<1>2. \A m \in 1..8 : m = 1 \/ m = 2 \/ m = 3 \/ m = 4 \/ m = 5 \/ m = 6 \/ m = 7 \/ m = 8
  OBVIOUS
<1>3. /\ (0 \div 128) % 2 = 0 /\ (0 \div 64) % 2 = 0 /\ (0 \div 32) % 2 = 0 /\ (0 \div 16) % 2 = 0
      /\ (0 \div 8) % 2 = 0 /\ (0 \div 4) % 2 = 0 /\ (0 \div 2) % 2 = 0 /\ (0 \div 1) % 2 = 0
  OBVIOUS
<1> QED
  BY <1>1, <1>2, <1>3

\* The bits of a sequence of numbers, one behind the other.
BitsAs(seq, numbers, n, width) ==
  /\ Len(seq) = width * n /\ DOMAIN seq = 1..width * n
  /\ \A k \in 0..n - 1 : \A j \in 1..width : seq[width * k + j] = Bits(numbers[k + 1], width)[j]

\* The bits of numbers, one behind the other.
LEMMA BitsJoined ==
  ASSUME NEW numbers, NEW n \in Nat, NEW width \in {6, 8}
  PROVE  BitsAs(Joined([i \in 1..n |-> Bits(numbers[i], width)], width), numbers, n, width)
<1> DEFINE pieces == [i \in 1..n |-> Bits(numbers[i], width)]
<1>1. Len(pieces) = n /\ \A k \in 0..n - 1 : pieces[k + 1] = Bits(numbers[k + 1], width)
  <2>1. \A k \in 0..n - 1 : k + 1 \in 1..n
    OBVIOUS
  <2> QED
    BY <2>1
<1>2. width \in {4, 6, 8}
  OBVIOUS
<1> HIDE DEF pieces
<1>3. JoinedAs(Joined(pieces, width), pieces, width, n)
  BY <1>1, <1>2, JoinedAt
<1>4. BitsAs(Joined(pieces, width), numbers, n, width)
  BY <1>1, <1>3 DEF JoinedAs, BitsAs
<1> QED
  BY <1>4 DEF pieces

\* The bits of the groups, in the text and in the file.
Sizes(N, G, e, P) == N = 3 * G - e /\ P = 4 * G - e

\* The bits sent are those meant, then zeros.
SentAsMeant(sent, meant, P, N) ==
  \A p \in 1..6 * P : sent[p] = IF p <= 8 * N THEN meant[p] ELSE 0

\* Group by group the bits sent are the bits meant.
LEMMA BitsOfGroups ==
  ASSUME NEW s \in Seq(0..255), NEW N \in Nat, Len(s) = N, NEW code, NEW sent, NEW meant,
         NEW G \in Nat, NEW e \in 0..2, NEW P \in Nat, Sizes(N, G, e, P),
         EncodedAs(code, s, G, e), BitsAs(sent, code, P, 6), BitsAs(meant, s, N, 8)
  PROVE  SentAsMeant(sent, meant, P, N)
<1>3. \A g \in 0..G - 1 : \A j \in 1..4 : 4 * g + j <= P => code[4 * g + j] = Four(s, g)[j]
  <2>1. \A g \in 0..G - 1 : \A j \in 1..4 :
          4 * g + j <= 4 * G - e => code[4 * g + j] = Four(s, g)[j]
    BY DEF EncodedAs
  <2> QED
    BY <2>1 DEF Sizes
<1>7. \A k \in 0..P - 1 : \A j \in 1..6 : sent[6 * k + j] = Bits(code[k + 1], 6)[j]
  BY DEF BitsAs
<1>8. \A k \in 0..N - 1 : \A j \in 1..8 : meant[8 * k + j] = Bits(s[k + 1], 8)[j]
  BY DEF BitsAs
<1>9. ASSUME NEW p \in 1..6 * P
      PROVE  sent[p] = IF p <= 8 * N THEN meant[p] ELSE 0
  <2>1. PICK g \in 0..G - 1, r \in 0..23 : p = 24 * g + r + 1
    <3>1. PICK g \in Int, r \in 0..23 : p = 24 * g + r + 1
      <4>1. (p - 1) \div 24 \in Int /\ (p - 1) % 24 \in 0..23 /\ p = 24 * ((p - 1) \div 24) + ((p - 1) % 24) + 1
        OBVIOUS
      <4> QED
        BY <4>1
    <3>2. g \in 0..G - 1
      BY <3>1 DEF Sizes
    <3> QED
      BY <3>1, <3>2
  <2> DEFINE j == r \div 6
             i == r % 6
             k == r \div 8
             l == r % 8
  <2>2. j \in 0..3 /\ i \in 0..5 /\ r = 6 * j + i /\ k \in 0..2 /\ l \in 0..7 /\ r = 8 * k + l
    OBVIOUS
  <2> HIDE DEF j, i, k, l
  <2>3. sent[p] = Bits(Four(s, g)[j + 1], 6)[i + 1]
    <3>1. 4 * g + j \in 0..P - 1 /\ p = 6 * (4 * g + j) + (i + 1) /\ i + 1 \in 1..6
      BY <2>1, <2>2 DEF Sizes
    <3>2. j + 1 \in 1..4 /\ 4 * g + j + 1 = 4 * g + (j + 1) /\ 4 * g + (j + 1) <= P
      BY <2>2, <3>1
    <3>3. sent[p] = Bits(code[4 * g + j + 1], 6)[i + 1]
      BY <3>1, <1>7
    <3>4. code[4 * g + (j + 1)] = Four(s, g)[j + 1]
      BY <3>2, <1>3
    <3> QED
      BY <3>2, <3>3, <3>4
  <2>4. sent[p] = Bits(Three(s, g)[k + 1], 8)[l + 1]
    <3>1. g \in Nat
      OBVIOUS
    <3>2. SameBits(Four(s, g), Three(s, g))
      BY <3>1, CharactersOfGroup
    <3>3. Bits(Four(s, g)[j + 1], 6)[i + 1] = Bits(Three(s, g)[k + 1], 8)[l + 1]
      <4>1. Agree(Four(s, g), Three(s, g), r)
        BY <2>1, <3>2, BitOfTriple
      <4> QED
        BY <4>1, Zenon DEF Agree, j, i, k, l
    <3> QED
      BY <2>3, <3>3
  <2>5. Three(s, g)[k + 1] = ByteAt(s, 3 * g + k + 1)
    <3>1. k = 0 \/ k = 1 \/ k = 2
      BY <2>2
    <3>2. /\ Three(s, g)[1] = ByteAt(s, 3 * g + 1) /\ Three(s, g)[2] = ByteAt(s, 3 * g + 2)
          /\ Three(s, g)[3] = ByteAt(s, 3 * g + 3)
      BY SMT DEF Three
    <3>3. \/ k + 1 = 1 /\ 3 * g + k + 1 = 3 * g + 1
          \/ k + 1 = 2 /\ 3 * g + k + 1 = 3 * g + 2
          \/ k + 1 = 3 /\ 3 * g + k + 1 = 3 * g + 3
      BY <3>1
    <3> QED
      BY <3>2, <3>3, Zenon
  <2>6. p <= 8 * N <=> 3 * g + k + 1 <= N
    BY <2>1, <2>2 DEF Sizes
  <2>7. CASE p <= 8 * N
    <3>1. 3 * g + k \in 0..N - 1 /\ p = 8 * (3 * g + k) + (l + 1) /\ l + 1 \in 1..8
      BY <2>1, <2>2, <2>6, <2>7
    <3>2. meant[p] = Bits(s[3 * g + k + 1], 8)[l + 1]
      BY <3>1, <1>8
    <3>3. ByteAt(s, 3 * g + k + 1) = s[3 * g + k + 1]
      BY <2>6, <2>7 DEF ByteAt
    <3> QED
      BY <3>2, <3>3, <2>4, <2>5, <2>7
  <2>8. CASE ~(p <= 8 * N)
    <3>1. ByteAt(s, 3 * g + k + 1) = 0
      BY <2>6, <2>8 DEF ByteAt
    <3>2. \A m \in 1..8 : Bits(0, 8)[m] = 0
      BY NoBits
    <3>3. l + 1 \in 1..8
      BY <2>2
    <3> QED
      BY <3>1, <3>2, <3>3, <2>4, <2>5, <2>8
  <2> QED
    BY <2>7, <2>8
<1> QED
  BY <1>9 DEF SentAsMeant

\* What stands before the first "=".
Present(code) ==
  LET ends == {i \in DOMAIN code : code[i] = 64}
  IN IF ends = {} THEN code ELSE SubSeq(code, 1, Min(ends) - 1)

\* The first P characters of L are digits, and the others "=".
EndsAfter(code, L, P) ==
  /\ Len(code) = L /\ DOMAIN code = 1..L
  /\ \A i \in 1..P : code[i] \in 0..63
  /\ \A i \in P + 1..L : code[i] = 64

IsBeginning(part, code, P) ==
  Len(part) = P /\ DOMAIN part = 1..P /\ \A i \in 1..P : part[i] = code[i]

\* The characters that are no "=" are the first of the text.
LEMMA PresentText ==
  ASSUME NEW code, NEW L \in Nat, NEW P \in 0..L, EndsAfter(code, L, P)
  PROVE  IsBeginning(Present(code), code, P)
<1> USE DEF EndsAfter, IsBeginning
<1> DEFINE ends == {i \in DOMAIN code : code[i] = 64}
<1>1. \A i \in 1..L : i \in 1..P \/ i \in P + 1..L
  OBVIOUS
<1>2. \A i \in 1..P : code[i] # 64
  <2>1. \A x \in 0..63 : x # 64
    OBVIOUS
  <2> QED
    BY <2>1
<1>3. ends = P + 1..L
  <2>1. \A i \in P + 1..L : i \in 1..L
    OBVIOUS
  <2> QED
    BY <1>1, <1>2, <2>1
<1>4. Present(code) = IF ends = {} THEN code ELSE SubSeq(code, 1, Min(ends) - 1)
  BY DEF Present
<1> HIDE DEF ends
<1>5. CASE P = L
  <2>1. ends = {}
    BY <1>3, <1>5
  <2> QED
    BY <2>1, <1>4, <1>5
<1>6. CASE P # L
  <2>1. P + 1 \in ends
    BY <1>3, <1>6
  <2>2. Min(ends) = P + 1
    <3>1. ends \in SUBSET (1..L)
      BY <1>3
    <3>2. Min(ends) \in ends /\ \A m \in ends : Min(ends) <= m
      BY <2>1, <3>1, LeastNumber
    <3>3. Min(ends) \in P + 1..L /\ Min(ends) <= P + 1
      BY <3>2, <2>1, <1>3
    <3> QED
      BY <3>3
  <2>3. Present(code) = SubSeq(code, 1, P)
    BY <2>1, <2>2, <1>4
  <2>4. /\ SubSeq(code, 1, P) \in Seq(0..63)
        /\ Len(SubSeq(code, 1, P)) = IF 1 <= P THEN P - 1 + 1 ELSE 0
        /\ \A i \in 1..P - 1 + 1 : SubSeq(code, 1, P)[i] = code[1 + i - 1]
    BY SubSeqProperties
  <2>5. PICK t : t \in Seq(0..63) /\ t = Present(code)
    BY <2>3, <2>4
  <2>6. Len(t) = P /\ \A i \in 1..P : t[i] = code[i]
    BY <2>3, <2>4, <2>5
  <2>7. DOMAIN t = 1..P
    BY <2>5, <2>6
  <2> QED
    BY <2>5, <2>6, <2>7
<1> QED
  BY <1>5, <1>6

\* What is decoded of the text is the file.
TextUndone(code, s) ==
  LET sent  == Joined([i \in DOMAIN Present(code) |-> Bits(Present(code)[i], 6)], 6)
      meant == Joined([i \in DOMAIN s |-> Bits(s[i], 8)], 8)
  IN /\ Len(code) = 4 * ((Len(s) + 2) \div 3)
     /\ \A i \in DOMAIN code : IF i <= Len(Present(code)) THEN code[i] \in 0..63 ELSE code[i] = 64
     /\ IsPrefix(meant, sent) /\ Len(sent) - Len(meant) < 6
     /\ \A i \in Len(meant) + 1..Len(sent) : sent[i] = 0

\* Whatever bytes are encoded, they are what the text stands for.
LEMMA TextIsRead ==
  ASSUME NEW s \in Seq(0..255)
  PROVE  TextUndone(base64_encode(s), s)
<1>1. PICK N \in Nat : N = Len(s)
  OBVIOUS
<1>2. PICK G \in Nat, e \in 0..2 : InGroups(N, G, e)
  BY Groups DEF InGroups
<1>3. PICK P \in Nat : P = 4 * G - e
  BY <1>2 DEF InGroups
<1>4. Sizes(N, G, e, P) /\ G = (N + 2) \div 3
  BY <1>2, <1>3 DEF Sizes, InGroups
<1>5. PICK code : code = base64_encode(s) /\ EncodedAs(code, s, G, e)
  BY <1>1, <1>2, EncodedText
<1>6. /\ Len(code) = 4 * G /\ DOMAIN code = 1..4 * G /\ P \in 0..4 * G
      /\ \A i \in 1..P : code[i] \in 0..63
      /\ \A i \in P + 1..4 * G : code[i] = 64
  <2>1. ASSUME NEW i \in 1..4 * G
        PROVE  (i <= P => code[i] \in 0..63) /\ (~(i <= P) => code[i] = 64)
    <3>1. PICK g \in 0..G - 1, j \in 1..4 : i = 4 * g + j
      <4>1. (i - 1) \div 4 \in 0..G - 1 /\ ((i - 1) % 4) + 1 \in 1..4 /\ i = 4 * ((i - 1) \div 4) + (((i - 1) % 4) + 1)
        OBVIOUS
      <4> QED
        BY <4>1
    <3>2. g \in Nat /\ Four(s, g)[j] \in 0..63
      <4>1. g \in Nat /\ j \in 1..4
        BY <3>1, <1>2
      <4> QED
        BY <4>1, CharactersOfGroup
    <3>3. code[i] = IF i <= P THEN Four(s, g)[j] ELSE 64
      BY <1>3, <1>5, <3>1 DEF EncodedAs
    <3> QED
      BY <3>2, <3>3
  <2>2. P \in 0..4 * G
    BY <1>2, <1>3 DEF InGroups
  <2>3. /\ \A i \in 1..P : i \in 1..4 * G /\ i <= P
        /\ \A i \in P + 1..4 * G : i \in 1..4 * G /\ ~(i <= P)
    BY <2>2
  <2> QED
    BY <1>5, <2>1, <2>2, <2>3 DEF EncodedAs
<1>7. /\ Len(Present(code)) = P /\ DOMAIN Present(code) = 1..P
      /\ \A i \in 1..P : Present(code)[i] = code[i]
  <2>1. PICK L \in Nat : L = 4 * G
    BY <1>2
  <2>2. L \in Nat /\ P \in 0..L /\ EndsAfter(code, L, P)
    BY <1>6, <2>1 DEF EndsAfter
  <2>3. IsBeginning(Present(code), code, P)
    BY <2>2, PresentText
  <2> QED
    BY <2>3 DEF IsBeginning
<1>8. PICK sent : sent = Joined([i \in DOMAIN Present(code) |-> Bits(Present(code)[i], 6)], 6)
  OBVIOUS
<1>9. PICK meant : meant = Joined([i \in DOMAIN s |-> Bits(s[i], 8)], 8)
  OBVIOUS
<1>10. BitsAs(sent, code, P, 6) /\ BitsAs(meant, s, N, 8)
  <2>1. [i \in DOMAIN Present(code) |-> Bits(Present(code)[i], 6)] = [i \in 1..P |-> Bits(code[i], 6)]
    BY <1>7
  <2>2. DOMAIN s = 1..N
    BY <1>1
  <2>3. 6 \in {6, 8} /\ 8 \in {6, 8}
    OBVIOUS
  <2> QED
    BY <2>1, <2>2, <2>3, <1>8, <1>9, BitsJoined
<1>11. \A p \in 1..6 * P : sent[p] = IF p <= 8 * N THEN meant[p] ELSE 0
  <2>1. /\ N \in Nat /\ G \in Nat /\ e \in 0..2 /\ P \in Nat /\ Len(s) = N
        /\ Sizes(N, G, e, P) /\ EncodedAs(code, s, G, e)
    BY <1>1, <1>2, <1>3, <1>4, <1>5
  <2>2. SentAsMeant(sent, meant, P, N)
    BY <2>1, <1>10, BitsOfGroups
  <2> QED
    BY <2>2 DEF SentAsMeant
<1>12. Len(sent) = 6 * P /\ Len(meant) = 8 * N
  BY <1>10 DEF BitsAs
<1>13. 8 * N <= 6 * P /\ 6 * P - 8 * N < 6
  BY <1>4 DEF Sizes
<1>14. SubSeq(meant, 1, 8 * N) = SubSeq(sent, 1, 8 * N)
  <2>1. \A p \in 1..8 * N : meant[p] = sent[p]
    BY <1>11, <1>13
  <2> QED
    BY <2>1
<1>15. \A i \in 8 * N + 1..6 * P : sent[i] = 0
  BY <1>11
<1>16. IsPrefix(meant, sent)
  BY <1>12, <1>13, <1>14 DEF IsPrefix
<1>17. \A i \in DOMAIN code : IF i <= P THEN code[i] \in 0..63 ELSE code[i] = 64
  BY <1>6
<1>18. TextUndone(code, s)
  BY <1>1, <1>4, <1>6, <1>7, <1>8, <1>9, <1>12, <1>13, <1>15, <1>16, <1>17 DEF TextUndone
<1> QED
  BY <1>5, <1>18

-----------------------------------------------------------------------------
EncodingsInv ==
  /\ bytes \in Seq(0..255)
  /\ b64 \subseteq {base64_encode(bytes)} /\ encoded_id \subseteq {url_percent_encode(bytes)}

\* What Gemini and the servers decode of a file or a name is what was encoded:
\* the bits of the characters before "=" are those of the file, and a name is
\* what its escapes stand for (storage_base64_encode, url_percent_encode).
THEOREM EncodingsCanBeUndoneCorrect == EncodingsSpec => []EncodingsCanBeUndone
<1>1. bytes \in Seq(0..255) /\ NothingEncoded => EncodingsInv
  BY DEF NothingEncoded, EncodingsInv
<1>2. EncodingsInv /\ [EncodingsNext]_encodingVars => EncodingsInv'
  BY DEF EncodingsInv, EncodingsNext, encodingVars, DigestFile, EncodeFile, EscapeName
<1>3. EncodingsInv => EncodingsCanBeUndone
  <2> SUFFICES ASSUME EncodingsInv PROVE EncodingsCanBeUndone
    OBVIOUS
  <2>1. \A code \in b64 : TextUndone(code, bytes)
    BY TextIsRead DEF EncodingsInv
  <2>2. ASSUME NEW id \in encoded_id
        PROVE  /\ Unescaped(id) = [left |-> 0, name |-> bytes]
               /\ \A c \in ToSet(id) : is_unreserved(c) \/ c = 37
    BY NameIsRead, NoneIsLeft DEF EncodingsInv
  <2> QED
    BY <2>1, <2>2, Zenon DEF EncodingsCanBeUndone, TextUndone, Present
<1> QED
  BY <1>1, <1>2, <1>3, PTL DEF EncodingsSpec
=============================================================================
