----------------------------- MODULE DataLemmas -----------------------------
(* What the proofs need to know of the code's data: lists that get an      *)
(* element in front or lose one, sets that are counted, and indices that   *)
(* run modulo the size of a buffer.                                        *)
EXTENDS Integers, Sequences, FiniteSets, SequenceTheorems, FiniteSetTheorems,
        WellFoundedInduction, TLAPS

(* A sequence with an element put in front of it. *)
LEMMA PrependFacts ==
    ASSUME NEW S, NEW x \in S, NEW s \in Seq(S)
    PROVE  /\ <<x>> \o s \in Seq(S)
           /\ Len(s) \in Nat /\ Len(<<x>> \o s) = Len(s) + 1
           /\ DOMAIN (<<x>> \o s) = 1..(Len(s) + 1)
           /\ (<<x>> \o s)[1] = x
           /\ \A i \in 2..(Len(s) + 1) : (<<x>> \o s)[i] = s[i - 1]
<1>1. <<x>> \in Seq(S) /\ Len(<<x>>) = 1 /\ <<x>>[1] = x /\ Len(s) \in Nat
    OBVIOUS
<1>2. /\ <<x>> \o s \in Seq(S)
      /\ Len(<<x>> \o s) = Len(<<x>>) + Len(s)
      /\ \A i \in 1..(Len(<<x>>) + Len(s)) :
            (<<x>> \o s)[i] = IF i <= Len(<<x>>) THEN <<x>>[i] ELSE s[i - Len(<<x>>)]
    BY <1>1, ConcatProperties
<1>3. Len(<<x>> \o s) = Len(s) + 1 /\ DOMAIN (<<x>> \o s) = 1..Len(<<x>> \o s)
    BY <1>1, <1>2
<1>. QED BY <1>1, <1>2, <1>3

(* A sequence without its k-th element. *)
LEMMA DeleteFacts ==
    ASSUME NEW S, NEW s \in Seq(S), NEW k \in 1..Len(s)
    PROVE  LET Rest == SubSeq(s, 1, k - 1) \o SubSeq(s, k + 1, Len(s)) IN
           /\ Rest \in Seq(S)
           /\ Len(Rest) = Len(s) - 1
           /\ DOMAIN Rest = 1..(Len(s) - 1)
           /\ \A i \in 1..(Len(s) - 1) :
                 Rest[i] = IF i < k THEN s[i] ELSE s[i + 1]
<1>. DEFINE Rest == SubSeq(s, 1, k - 1) \o SubSeq(s, k + 1, Len(s))
<1>0. Len(s) \in Nat /\ k \in 1..Len(s) /\ \A i \in 1..Len(s) : s[i] \in S
    OBVIOUS
<1>1. /\ SubSeq(s, 1, k - 1) \in Seq(S)
      /\ Len(SubSeq(s, 1, k - 1)) = k - 1
      /\ \A i \in 1..(k - 1) : SubSeq(s, 1, k - 1)[i] = s[i]
    <2>1. /\ Len(SubSeq(s, 1, k - 1)) = IF 1 <= k - 1 THEN k - 1 - 1 + 1 ELSE 0
          /\ SubSeq(s, 1, k - 1) \in Seq(S)
          /\ \A i \in 1..(k - 1 - 1 + 1) : SubSeq(s, 1, k - 1)[i] = s[1 + i - 1]
        BY <1>0, SubSeqProperties
    <2>. QED BY <2>1, <1>0
<1>2. /\ SubSeq(s, k + 1, Len(s)) \in Seq(S)
      /\ Len(SubSeq(s, k + 1, Len(s))) = Len(s) - k
      /\ \A i \in 1..(Len(s) - k) : SubSeq(s, k + 1, Len(s))[i] = s[k + i]
    <2>1. /\ Len(SubSeq(s, k + 1, Len(s))) =
                 IF k + 1 <= Len(s) THEN Len(s) - (k + 1) + 1 ELSE 0
          /\ SubSeq(s, k + 1, Len(s)) \in Seq(S)
          /\ \A i \in 1..(Len(s) - (k + 1) + 1) :
                SubSeq(s, k + 1, Len(s))[i] = s[k + 1 + i - 1]
        BY <1>0, SubSeqProperties
    <2>. QED BY <2>1, <1>0
<1>. DEFINE a == SubSeq(s, 1, k - 1)
            b == SubSeq(s, k + 1, Len(s))
<1>. HIDE DEF a, b, Rest
<1>3. /\ a \o b \in Seq(S)
      /\ Len(a \o b) = Len(a) + Len(b)
      /\ \A i \in 1..(Len(a) + Len(b)) :
            (a \o b)[i] = IF i <= Len(a) THEN a[i] ELSE b[i - Len(a)]
    BY <1>1, <1>2, ConcatProperties DEF a, b
<1>4. Rest = a \o b /\ Len(a) = k - 1 /\ Len(b) = Len(s) - k
    BY <1>1, <1>2 DEF a, b, Rest
<1>5. ASSUME NEW i \in 1..(Len(s) - 1)
      PROVE  Rest[i] = IF i < k THEN s[i] ELSE s[i + 1]
    <2>1. CASE i < k
        BY <2>1, <1>0, <1>1, <1>3, <1>4 DEF a
    <2>2. CASE ~(i < k)
        <3>1. i - (k - 1) \in 1..(Len(s) - k)
            BY <2>2, <1>0
        <3>2. b[i - (k - 1)] = s[k + (i - (k - 1))]
            BY <3>1, <1>2 DEF b
        <3>3. k + (i - (k - 1)) = i + 1
            BY <1>0
        <3>4. i \in 1..(Len(a) + Len(b)) /\ ~(i <= Len(a)) /\ i - Len(a) = i - (k - 1)
            BY <2>2, <1>0, <1>4
        <3>5. Rest[i] = b[i - (k - 1)]
            BY <3>4, <1>3, <1>4
        <3>. QED BY <2>2, <3>2, <3>3, <3>5
    <2>. QED BY <2>1, <2>2
<1>6. Len(Rest) = Len(s) - 1
    <2>1. Len(Rest) = (k - 1) + (Len(s) - k)
        BY <1>3, <1>4
    <2>. QED BY <2>1, <1>0
<1>7. DOMAIN Rest = 1..(Len(s) - 1)
    <2>1. Rest \in Seq(S)
        BY <1>3, <1>4
    <2>. QED BY <2>1, <1>6
<1>8. Rest \in Seq(S)
    BY <1>3, <1>4
<1>. QED BY <1>5, <1>6, <1>7, <1>8 DEF Rest

(* f counts the elements of T. *)
Enumerates(f, n, T) ==
    /\ n \in Nat /\ f \in [1..n -> T]
    /\ \A i, j \in 1..n : f[i] = f[j] => i = j
    /\ \A y \in T : \E i \in 1..n : f[i] = y

LEMMA EnumeratedSet ==
    ASSUME NEW f, NEW n, NEW T, Enumerates(f, n, T)
    PROVE  IsFiniteSet(T) /\ Cardinality(T) = n
<1>1. f \in [1..n -> T] /\ n \in Nat
    BY DEF Enumerates
<1>2. f \in Bijection(1..n, T)
    BY <1>1 DEF Enumerates, Bijection, Injection, Surjection, IsInjective
<1>3. IsFiniteSet(1..n) /\ Cardinality(1..n) = n
    <2>1. IsFiniteSet(1..n) /\ Cardinality(1..n) = IF 1 > n THEN 0 ELSE n - 1 + 1
        BY <1>1, FS_Interval
    <2>. QED BY <1>1, <2>1
<1>4. ExistsBijection(1..n, T)
    BY <1>2 DEF ExistsBijection
<1>. QED BY <1>3, <1>4, FS_Bijection

-----------------------------------------------------------------------------
(* Division with remainder, and that there is only one way to do it.       *)
LEMMA ModFacts ==
    ASSUME NEW a \in Nat, NEW n \in Nat \ {0}
    PROVE  /\ (a % n) \in 0..(n - 1)
           /\ \E q \in Nat : a = (q * n) + (a % n)
<1>1. (a \div n) \in Nat /\ a = ((a \div n) * n) + (a % n) /\ (a % n) \in 0..(n - 1)
    OBVIOUS
<1>. QED BY <1>1

LEMMA ModIs ==
    ASSUME NEW q \in Nat, NEW n \in Nat \ {0}, NEW r \in 0..(n - 1)
    PROVE  ((q * n) + r) % n = r
OBVIOUS

LEMMA ModSmall ==
    ASSUME NEW n \in Nat \ {0}, NEW a \in 0..(n - 1)
    PROVE  a % n = a
OBVIOUS

(* A remainder may be taken before or after something is added.            *)
LEMMA ModShift ==
    ASSUME NEW a \in Nat, NEW b \in Nat, NEW n \in Nat \ {0}
    PROVE  ((a % n) + b) % n = (a + b) % n
<1>. DEFINE x == (a % n) + b
            r == x % n
<1>1. PICK q \in Nat : a = (q * n) + (a % n)
    BY ModFacts
<1>2. x \in Nat
    BY ModFacts
<1>3. r \in 0..(n - 1) /\ \E p \in Nat : x = (p * n) + r
    BY <1>2, ModFacts
<1>4. PICK p \in Nat : x = (p * n) + r
    BY <1>3
<1>. HIDE DEF r
<1>5. a + b = (q * n) + ((p * n) + r)
    BY <1>1, <1>4, ModFacts
<1>6. a + b = ((q + p) * n) + r
    BY <1>5, <1>3
<1>. DEFINE z == q + p
<1>7. z \in Nat /\ a + b = (z * n) + r
    BY <1>6
<1>. HIDE DEF z
<1>8. ((z * n) + r) % n = r
    BY <1>3, <1>7, ModIs
<1>. QED BY <1>7, <1>8 DEF r

(* It may be taken modulo a multiple first.                                *)
LEMMA ModOfMod ==
    ASSUME NEW a \in Nat, NEW b \in Nat, NEW n \in Nat \ {0},
           NEW m \in Nat \ {0}, m % n = 0
    PROVE  ((a % m) + b) % n = (a + b) % n
<1>1. PICK k \in Nat : m = (k * n) + (m % n)
    BY ModFacts
<1>2. PICK q \in Nat : a = (q * m) + (a % m)
    BY ModFacts
<1>. DEFINE x == (a % m) + b
            r == x % n
<1>3. x \in Nat
    BY ModFacts
<1>4. r \in 0..(n - 1) /\ \E p \in Nat : x = (p * n) + r
    BY <1>3, ModFacts
<1>5. PICK p \in Nat : x = (p * n) + r
    BY <1>4
<1>. HIDE DEF r
<1>6. q * m = (q * k) * n /\ q * k \in Nat
    BY <1>1
<1>7. a + b = (((q * k) + p) * n) + r
    <2>. DEFINE z == q * k
    <2>1. a + b = (z * n) + ((p * n) + r) /\ z \in Nat
        <3>1. (a % m) \in Nat
            BY ModFacts
        <3>2. a + b = (q * m) + x
            BY <1>2, <3>1
        <3>3. q * m = z * n /\ z \in Nat
            BY <1>6
        <3>. QED BY <1>5, <3>2, <3>3
    <2>. HIDE DEF z
    <2>2. a + b = ((z + p) * n) + r
        BY <2>1, <1>4
    <2>. QED BY <2>2 DEF z
<1>. DEFINE y == (q * k) + p
<1>8. y \in Nat /\ a + b = (y * n) + r
    BY <1>6, <1>7
<1>. HIDE DEF y
<1>9. ((y * n) + r) % n = r
    BY <1>4, <1>8, ModIs
<1>. QED BY <1>8, <1>9 DEF r

(* The distance of two counters, from their remainders.                    *)
LEMMA ModDistance ==
    ASSUME NEW a \in Nat, NEW d \in Nat, NEW n \in Nat \ {0}, d < n
    PROVE  (((a + d) % n) + (n - (a % n))) % n = d
<1>1. PICK q \in Nat : a = (q * n) + (a % n)
    BY ModFacts
<1>. DEFINE r == a % n
            b == n - r
<1>2. r \in 0..(n - 1) /\ b \in Nat
    BY ModFacts
<1>4. a = (q * n) + r
    BY <1>1
<1>. HIDE DEF r
<1>. DEFINE e == a + d
            z == q + 1
<1>5. z \in Nat /\ e \in Nat /\ d \in 0..(n - 1)
    OBVIOUS
<1>6. e + b = (z * n) + d
    BY <1>2, <1>4
<1>. HIDE DEF e, z, b
<1>7. ((z * n) + d) % n = d
    BY <1>5, ModIs
<1>8. ((e % n) + b) % n = (e + b) % n
    BY <1>2, <1>5, ModShift
<1>. QED BY <1>6, <1>7, <1>8 DEF e, b, r

(* Numbers less than n apart have different remainders.                    *)
LEMMA ModDistinct ==
    ASSUME NEW a \in Nat, NEW d \in Nat, NEW n \in Nat \ {0}, 0 < d, d < n
    PROVE  a % n # (a + d) % n
<1>. SUFFICES ASSUME a % n = (a + d) % n PROVE FALSE
    OBVIOUS
<1>. DEFINE r == a % n
            e == a + d
<1>1. e \in Nat /\ e % n = r /\ r \in 0..(n - 1)
    BY ModFacts
<1>2. PICK q \in Nat : a = (q * n) + r
    BY ModFacts
<1>. HIDE DEF e
<1>3. PICK p \in Nat : e = (p * n) + r
    <2>1. PICK p \in Nat : e = (p * n) + (e % n)
        BY <1>1, ModFacts
    <2>. QED BY <1>1, <2>1
<1>. HIDE DEF r
<1>. DEFINE u == q * n
            v == p * n
<1>4. d = v - u
    <2>1. u \in Nat /\ v \in Nat /\ r \in Nat /\ a = u + r /\ e = v + r
        BY <1>1, <1>2, <1>3
    <2>. HIDE DEF u, v
    <2>. QED BY <2>1 DEF e
<1>5. d = (p - q) * n
    BY <1>4
<1>6. p - q >= 1
    BY <1>5
<1>7. (p - q) * n >= n
    BY <1>6
<1>. QED BY <1>5, <1>7

(* Every set of numbers that is not empty has a least one. *)
LEMMA LeastNumber ==
    ASSUME NEW S \in SUBSET Nat, NEW n \in S
    PROVE  \E m \in S : \A k \in S : m <= k
<1>1. PICK m \in S : \A k \in S : <<k, m>> \notin OpToRel(<, Nat)
    BY WFMin, NatLessThanWellFounded, Zenon
<1>2. \A k \in S : ~(k < m)
    BY <1>1, Zenon DEF OpToRel
<1>. QED BY <1>2

(* Adding 0, 1 ... n - 1 to a number gives every remainder. *)
LEMMA ModCovers ==
    ASSUME NEW a \in Nat, NEW n \in Nat \ {0}, NEW s \in 0..(n - 1)
    PROVE  \E d \in 0..(n - 1) : (a + d) % n = s
<1>1. PICK r \in 0..(n - 1) : r = a % n
    BY ModFacts
<1>2. CASE r <= s
    <2>1. PICK d \in 0..(n - 1) : d = s - r
        BY <1>2
    <2>2. (a + d) % n = (r + d) % n
        BY <1>1, ModShift
    <2>3. r + d = s
        BY <2>1
    <2>. QED BY <2>2, <2>3, ModSmall
<1>3. CASE ~(r <= s)
    <2>1. PICK d \in 0..(n - 1) : d = (s - r) + n
        BY <1>3
    <2>2. (a + d) % n = (r + d) % n
        BY <1>1, ModShift
    <2>3. r + d = (1 * n) + s
        BY <2>1
    <2>4. ((1 * n) + s) % n = s
        BY ModIs
    <2>. QED BY <2>2, <2>3, <2>4
<1>. QED BY <1>2, <1>3
(* An index counted backwards from a head h: moving the head one on moves  *)
(* everything behind it one place back, and no two places are the same.    *)
LEMMA ShiftedIndex ==
    ASSUME NEW n \in Nat \ {0}, NEW h \in 0..(n - 1), NEW k \in 0..(n - 2)
    PROVE  (((h + 1) % n) + n - (k + 1)) % n = (h + n - k) % n
<1>. DEFINE b == n - (k + 1)
<1>1. b \in Nat /\ h + 1 \in Nat
    OBVIOUS
<1>2. (((h + 1) % n) + b) % n = ((h + 1) + b) % n
    BY <1>1, ModShift
<1>3. (h + 1) % n \in 0..(n - 1)
    BY <1>1, ModFacts
<1>4. ((h + 1) % n) + b = ((h + 1) % n) + n - (k + 1) /\ (h + 1) + b = h + n - k
    BY <1>3
<1>. QED BY <1>2, <1>4

(* Different offsets have different slots. *)
LEMMA OffsetsDiffer ==
    ASSUME NEW n \in Nat \ {0}, NEW h \in 0..(n - 1), NEW k \in 1..(n - 1)
    PROVE  (h + n - k) % n # h
<1>1. CASE k <= h
    <2>1. h + n - k = 1 * n + (h - k) /\ h - k \in 0..(n - 1)
        BY <1>1
    <2>. QED BY <2>1, ModIs
<1>2. CASE k > h
    <2>1. h + n - k \in 0..(n - 1)
        BY <1>2
    <2>2. (h + n - k) % n = h + n - k
        BY <2>1, ModSmall
    <2>. QED BY <2>2
<1>. QED BY <1>1, <1>2

-----------------------------------------------------------------------------
(* Unsigned subtraction of two remainders gives the difference, if it fits. *)
LEMMA ModDifference ==
    ASSUME NEW a \in Nat, NEW d \in Nat, NEW n \in Nat \ {0}, d < n
    PROVE  (((a + d) % n) - (a % n)) % n = d
<1>. DEFINE r == a % n
            s == (a + d) % n
<1>1. r \in 0..(n - 1) /\ s \in 0..(n - 1)
    BY ModFacts
<1>2. (s + (n - r)) % n = d
    BY ModDistance
<1>. HIDE DEF r, s
<1>3. CASE s >= r
    <2>1. s - r \in 0..(n - 1) /\ s + (n - r) = (1 * n) + (s - r)
        BY <1>1, <1>3
    <2>2. d = s - r
        BY <1>2, <2>1, ModIs
    <2>. QED BY <2>1, <2>2, ModSmall DEF r, s
<1>4. CASE s < r
    <2>1. s + (n - r) \in 0..(n - 1)
        BY <1>1, <1>4
    <2>2. d = s + (n - r)
        BY <1>2, <2>1, ModSmall
    <2>3. s - r = ((-1) * n) + d
        BY <1>1, <2>2
    <2>4. (((-1) * n) + d) % n = d
        <3>1. d \in 0..(n - 1)
            OBVIOUS
        <3>. HIDE DEF r, s
        <3>. QED BY <3>1
    <2>. QED BY <2>3, <2>4 DEF r, s
<1>. QED BY <1>1, <1>3, <1>4

(* A part of m, scaled by k, is at most k times m. *)
LEMMA ShareBounded ==
    ASSUME NEW d \in Nat, NEW m \in Nat \ {0}, NEW k \in Nat, d <= m
    PROVE  (d * k) \div m \in 0..k
<1>. DEFINE x == d * k
            q == x \div m
<1>1. x \in Nat /\ x <= m * k
    OBVIOUS
<1>2. q \in Nat /\ x >= m * q
    <2>. HIDE DEF x
    <2>. QED BY <1>1
<1>. HIDE DEF x, q
<1>3. SUFFICES ASSUME q > k PROVE FALSE
    BY <1>2 DEF q, x
<1>4. m * q >= m * (k + 1)
    BY <1>2, <1>3
<1>5. m * (k + 1) = m * k + m
    OBVIOUS
<1>6. m * k \in Nat /\ m * q \in Nat
    BY <1>2
<1>. QED BY <1>1, <1>2, <1>4, <1>5, <1>6
==============================================================================
