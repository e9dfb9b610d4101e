-------------------------- MODULE EnvTable_proofs --------------------------
(***************************************************************************)
(* Proofs about the environment's hash table, for any names, hashes, sizes  *)
(* and sequences of commands.                                               *)
(***************************************************************************)
EXTENDS EnvTable, FiniteSetTheorems, TLAPS

-----------------------------------------------------------------------------
(* Arithmetic.                                                              *)

\* Every set of natural numbers has a least element.
LEMMA Least ==
  ASSUME NEW T \in SUBSET Nat, T # {}
  PROVE  \E n \in T : \A m \in T : n <= m
<1> DEFINE U == {0..(n - 1) : n \in T}
           R == StrictSubsetOrdering(Nat)
<1>1. U \subseteq FiniteSubsetsOf(Nat)
  <2> SUFFICES ASSUME NEW n \in T PROVE 0..(n - 1) \in FiniteSubsetsOf(Nat)
    OBVIOUS
  <2>1. IsFiniteSet(0..(n - 1))
    BY FS_Interval
  <2> QED BY <2>1 DEF FiniteSubsetsOf
<1>2. U # {}
  OBVIOUS
<1>3. \E x \in U : \A y \in U : ~(<<y, x>> \in R)
  <2> HIDE DEF U, R
  <2>1. IsWellFoundedOn(R, FiniteSubsetsOf(Nat))
    BY FS_StrictSubsetOrderingWellFounded DEF R
  <2> QED BY <1>1, <1>2, <2>1, WFMin
<1>4. PICK n \in T : \A m \in T : ~(<<0..(m - 1), 0..(n - 1)>> \in R)
  BY <1>3
<1>5. ASSUME NEW m \in T, m < n PROVE FALSE
  <2>1. 0..(m - 1) \subseteq 0..(n - 1) /\ 0..(m - 1) \subseteq Nat /\ 0..(n - 1) \subseteq Nat
    BY <1>5
  <2>2. n - 1 \in 0..(n - 1) /\ n - 1 \notin 0..(m - 1)
    BY <1>5
  <2>3. 0..(m - 1) # 0..(n - 1)
    BY <2>2
  <2> QED BY <1>4, <2>1, <2>3 DEF StrictSubsetOrdering
<1> QED BY <1>5

\* What Min returns.
LEMMA MinProps ==
  ASSUME NEW T \in SUBSET Nat, T # {}
  PROVE  Min(T) \in T /\ \A m \in T : Min(T) <= m
  BY Least DEF Min

LEMMA MaxProps ==
  ASSUME NEW T \in SUBSET Nat, NEW b \in Nat, T # {}, \A m \in T : m <= b
  PROVE  Max(T) \in T /\ \A m \in T : m <= Max(T)
<1> DEFINE U == {u \in Nat : \E m \in T : u = b - m}
<1>1. U \in SUBSET Nat /\ U # {}
  <2>1. PICK m \in T : TRUE
    OBVIOUS
  <2>2. m \in Nat /\ m <= b
    OBVIOUS
  <2>3. b - m \in U
    BY <2>2
  <2> QED BY <2>3
<1>2. PICK u \in U : \A w \in U : u <= w
  <2> HIDE DEF U
  <2> QED BY <1>1, Least
<1>3. PICK t \in T : u = b - t
  OBVIOUS
<1>4. ASSUME NEW m \in T PROVE t >= m
  <2>1. m \in Nat /\ m <= b /\ t \in Nat
    OBVIOUS
  <2>2. b - m \in U
    BY <2>1
  <2>3. u <= b - m
    BY <1>2, <2>2
  <2> QED BY <2>1, <2>3, <1>3
<1> QED BY <1>4 DEF Max

\* Division with remainder.
LEMMA Division ==
  ASSUME NEW a \in Int, NEW s \in Nat, s > 0
  PROVE  /\ a % s \in 0..(s - 1) /\ (a \div s) \in Int
         /\ a = s * (a \div s) + (a % s)
  OBVIOUS

LEMMA Remainder ==
  ASSUME NEW a \in Int, NEW s \in Nat, s > 0, NEW q \in Int, NEW r \in 0..(s - 1),
         a = s * q + r
  PROVE  a % s = r
  OBVIOUS

Divides(d, n) == \E e \in Nat : n = d * e

LEMMA DividesMod ==
  ASSUME NEW d \in Nat, d > 0, NEW n \in Nat
  PROVE  Divides(d, n) <=> n % d = 0
<1>1. ASSUME n % d = 0 PROVE Divides(d, n)
  <2>1. n = d * (n \div d) /\ (n \div d) \in Int
    BY <1>1, Division
  <2>2. n \div d >= 0
    OBVIOUS
  <2> QED BY <2>1, <2>2 DEF Divides
<1>2. ASSUME NEW e \in Nat, n = d * e PROVE n % d = 0
  BY <1>2, Remainder
<1> QED BY <1>1, <1>2 DEF Divides

Prime(s) == s \in Nat /\ s > 1 /\ \A d \in Nat : Divides(d, s) => d \in {1, s}

\* The least common multiple of a prime and a smaller number is their product.
LEMMA Euclid ==
  ASSUME NEW s \in Nat, Prime(s), NEW k \in 1..(s - 1), NEW n \in 1..(s - 1)
  PROVE  (n * k) % s # 0
<1> DEFINE T == {m \in 1..(s - 1) : (m * k) % s = 0}
<1> SUFFICES ASSUME T # {} PROVE FALSE
  OBVIOUS
<1>1. PICK m \in T : \A l \in T : m <= l
  <2>1. T \in SUBSET Nat
    OBVIOUS
  <2> HIDE DEF T
  <2> QED BY <2>1, Least
<1> DEFINE q == s \div m
           r == s % m
           w == (m * k) \div s
<1>2. /\ m \in Nat /\ m > 0 /\ m < s /\ q \in Int /\ r \in 0..(m - 1) /\ s = m * q + r
  BY Division
<1>3. w \in Int /\ m * k = s * w
  BY Division, <1>2
<1> HIDE DEF q, r, w
<1>4. r * k = s * (k - q * w)
  <2>1. r * k = (s - m * q) * k
    BY <1>2
  <2>2. (s - m * q) * k = s * k - q * (m * k)
    BY <1>2
  <2>3. q * (m * k) = q * (s * w)
    BY <1>3
  <2>4. s * k - q * (s * w) = s * (k - q * w)
    BY <1>2, <1>3
  <2> QED BY <2>1, <2>2, <2>3, <2>4
<1>5. (r * k) % s = 0
  <2>1. r * k \in Int /\ k - q * w \in Int
    BY <1>2, <1>3
  <2> QED BY <1>4, <2>1, Remainder, <1>2
<1>6. r = 0
  <2>1. SUFFICES ASSUME r > 0 PROVE FALSE
    BY <1>2
  <2>2. r \in T
    BY <1>2, <1>5, <2>1
  <2> QED BY <1>1, <1>2, <2>2
<1>7. m = 1
  <2>1. q >= 0
    BY <1>2, <1>6
  <2>2. Divides(m, s)
    BY <1>2, <1>6, <2>1 DEF Divides
  <2> QED BY <2>2, <1>2 DEF Prime
<1>8. (1 * k) % s = k
  BY Remainder, k = s * 0 + k
<1> QED BY <1>1, <1>7, <1>8

-----------------------------------------------------------------------------
(* The sizes of tables (hcreate_r).                                         *)

\* Every factor of an odd number is odd.
LEMMA OddFactor ==
  ASSUME NEW d \in Nat, NEW e \in Nat, (d * e) % 2 = 1
  PROVE  d % 2 = 1
<1>1. SUFFICES ASSUME d % 2 = 0 PROVE FALSE
  OBVIOUS
<1>2. PICK q \in Nat : d = 2 * q
  BY <1>1
<1> DEFINE a == d * e
           b == q * e
<1>3. a = 2 * b /\ a \in Nat /\ b \in Nat
  BY <1>2
<1>4. a % 2 = 1
  OBVIOUS
<1> HIDE DEF a, b
<1> QED BY <1>3, <1>4

\* A factor is not above the root, or its cofactor is not.
LEMMA SmallFactor ==
  ASSUME NEW c \in Nat, NEW e \in Nat, NEW d \in Nat, c <= e, d * d >= c * e
  PROVE  c <= d
<1>1. SUFFICES ASSUME c >= d + 1 PROVE FALSE
  OBVIOUS
<1>2. c * e >= c * c
  OBVIOUS
<1>3. c * c >= (d + 1) * (d + 1)
  BY <1>1
<1>4. (d + 1) * (d + 1) > d * d
  OBVIOUS
<1>5. c * e \in Nat /\ c * c \in Nat /\ d * d \in Nat /\ (d + 1) * (d + 1) \in Nat
  OBVIOUS
<1> QED BY <1>2, <1>3, <1>4, <1>5

\* The trial division of isprime is right about odd numbers above 3.
LEMMA TrialDivision ==
  ASSUME NEW n \in Nat, n > 3, n % 2 = 1, IsPrime(n)
  PROVE  Prime(n)
<1> DEFINE Stops(d) == d * d >= n \/ n % d = 0
           First(d) == d % 2 = 1 /\ Stops(d) /\ \A c \in 3..(d - 1) : c % 2 = 1 => ~Stops(c)
           div == CHOOSE d \in 3..(n + 3) : First(d)
           D == {d \in 3..(n + 3) : d % 2 = 1 /\ Stops(d)}
<1>1. \E d \in 3..(n + 3) : First(d)
  <2>1. D \in SUBSET Nat
    OBVIOUS
  <2>2. n \in D
    <3>1. n * n >= n
      OBVIOUS
    <3> QED BY <3>1
  <2>3. PICK d \in D : \A c \in D : d <= c
    <3> HIDE DEF D
    <3> QED BY <2>1, <2>2, Least
  <2>4. ASSUME NEW c \in 3..(d - 1), c % 2 = 1, Stops(c) PROVE FALSE
    <3>1. c \in D /\ c < d
      BY <2>4
    <3> HIDE DEF D
    <3>2. d <= c
      BY <3>1, <2>3
    <3> QED BY <2>1, <2>3, <3>1, <3>2
  <2>5. First(d)
    BY <2>4
  <2> QED BY <2>5
<1>2. div \in 3..(n + 3) /\ First(div)
  <2> HIDE DEF First
  <2> QED BY <1>1, Zenon
<1>3. n % div # 0
  BY DEF IsPrime
<1> HIDE DEF div
<1>4. div * div >= n /\ \A c \in 3..(div - 1) : c % 2 = 1 => n % c # 0
  BY <1>2, <1>3
<1>5. ASSUME NEW c \in Nat, NEW e \in Nat, n = c * e, c <= e, c # 1 PROVE FALSE
  <2>1. c % 2 = 1
    BY <1>5, OddFactor
  <2>2. c # 0
    BY <2>1
  <2>3. c >= 3
    BY <2>1, <2>2, <1>5
  <2>4. c <= div
    BY <1>2, <1>4, <1>5, SmallFactor
  <2>5. n % c = 0
    <3>1. Divides(c, n)
      BY <1>5 DEF Divides
    <3> QED BY <3>1, <2>3, DividesMod
  <2>6. c # div
    BY <1>3, <2>5
  <2>7. div \in Nat
    BY <1>2
  <2>8. c \in 3..(div - 1)
    BY <2>3, <2>4, <2>6, <2>7
  <2> QED BY <1>4, <2>1, <2>5, <2>8
<1>6. ASSUME NEW d \in Nat, NEW e \in Nat, n = d * e PROVE d \in {1, n}
  <2>1. CASE d <= e
    <3>1. d = 1
      BY <1>5, <1>6, <2>1
    <3> QED BY <3>1
  <2>2. CASE e <= d
    <3>1. n = e * d
      BY <1>6
    <3>2. e = 1
      BY <1>5, <3>1, <2>2
    <3> QED BY <3>2, <1>6
  <2> QED BY <2>1, <2>2
<1> QED BY <1>6 DEF Prime, Divides

\* hcreate_r makes tables whose sizes are primes above 3.
LEMMA SizesPrime ==
  ASSUME NEW nel \in Nels
  PROVE  TableSize(nel) \in Nat /\ TableSize(nel) > 3 /\ Prime(TableSize(nel))
<1> DEFINE odd == IF nel % 2 = 0 THEN nel + 1 ELSE nel
           C == {s \in odd..(2 * odd) : (s - odd) % 2 = 0 /\ IsPrime(s)}
<1>1. nel \in Nat /\ nel > 3
  BY NelsAssumption
<1>2. odd \in Nat /\ odd > 3 /\ odd >= nel /\ odd <= nel + 1 /\ odd % 2 = 1
  BY <1>1
<1>3. PICK s \in nel..(2 * nel) : s % 2 = 1 /\ IsPrime(s)
  BY SizeAssumption
<1>4. s >= odd
  BY <1>1, <1>3
<1> HIDE DEF odd
<1>5. s \in C
  BY <1>1, <1>2, <1>3, <1>4
<1>6. C \in SUBSET Nat
  BY <1>2
<1>7. Min(C) \in C
  <2> HIDE DEF C
  <2> QED BY <1>5, <1>6, MinProps
<1>8. TableSize(nel) \in C
  BY <1>7 DEF TableSize, odd
<1>9. TableSize(nel) \in Nat /\ TableSize(nel) > 3 /\ TableSize(nel) % 2 = 1 /\ IsPrime(TableSize(nel))
  BY <1>8, <1>2
<1> QED BY <1>9, TrialDivision

-----------------------------------------------------------------------------
(* The probe sequence.  Each step goes back by hval2, modulo the size.      *)

Hval2(h) == 1 + (h % (size - 2))
Position(h, n) == 1 + ((h - 1 - n * Hval2(h)) % size)

LEMMA Hval2Range ==
  ASSUME size \in Nat, size > 3, NEW h \in Nat
  PROVE  Hval2(h) \in 1..(size - 2)
  BY Division DEF Hval2

LEMMA StepValue ==
  ASSUME NEW h, NEW i
  PROVE  Step(h, i) = IF i <= Hval2(h) THEN size + i - Hval2(h) ELSE i - Hval2(h)
  BY DEF Step, Hval2

LEMMA PositionStep ==
  ASSUME size \in Nat, size > 3, NEW h \in 1..(size - 1), NEW n \in 1..size
  PROVE  Position(h, n) = Step(h, Position(h, n - 1))
<1> DEFINE k == Hval2(h)
           a == h - 1 - (n - 1) * k
           i == 1 + (a % size)
           j == 1 + ((a - k) % size)
<1>1. k \in 1..(size - 2)
  BY Hval2Range
<1>2. a \in Int /\ h - 1 - n * k = a - k
  <2> HIDE DEF k
  <2>1. n * k = (n - 1) * k + k /\ n * k \in Int /\ (n - 1) * k \in Int
    BY <1>1
  <2> QED BY <2>1, <1>1
<1>3. Position(h, n) = j /\ Position(h, n - 1) = i
  BY <1>2 DEF Position
<1> DEFINE q == a \div size
           r == a % size
           b == a - k
<1>4. /\ q \in Int /\ r \in 0..(size - 1) /\ a = size * q + r
      /\ a \in Int /\ b \in Int /\ b = a - k
  <2>1. a \in Int
    BY <1>2
  <2> HIDE DEF a, k
  <2> QED BY <1>1, <2>1, Division
<1>5. i = 1 + r /\ j = 1 + (b % size)
  OBVIOUS
<1> HIDE DEF k, a, i, j, q, r, b
<1>6. j = IF i <= k THEN size + i - k ELSE i - k
  <2>1. CASE 1 + r <= k
    <3>1. size * (q - 1) = size * q - size /\ q - 1 \in Int
      BY <1>4
    <3>2. b = size * (q - 1) + (size + r - k) /\ size + r - k \in 0..(size - 1)
      BY <1>1, <1>4, <2>1, <3>1
    <3>3. b % size = size + r - k
      <4> DEFINE q1 == q - 1
                 r1 == size + r - k
      <4>1. q1 \in Int /\ b = size * q1 + r1 /\ r1 \in 0..(size - 1) /\ b \in Int
        BY <1>4, <3>1, <3>2
      <4> HIDE DEF q1, r1
      <4>2. b % size = r1
        BY <4>1, Remainder
      <4> QED BY <4>2 DEF r1
    <3> QED BY <1>1, <1>4, <1>5, <2>1, <3>3
  <2>2. CASE ~(1 + r <= k)
    <3>1. b = size * q + (r - k) /\ r - k \in 0..(size - 1)
      BY <1>1, <1>4, <2>2
    <3>2. b % size = r - k
      <4> DEFINE r1 == r - k
      <4>1. q \in Int /\ b = size * q + r1 /\ r1 \in 0..(size - 1) /\ b \in Int
        BY <1>4, <3>1
      <4> HIDE DEF r1
      <4>2. b % size = r1
        BY <4>1, Remainder
      <4> QED BY <4>2 DEF r1
    <3> QED BY <1>1, <1>4, <1>5, <2>2, <3>2
  <2> QED BY <2>1, <2>2
<1> QED BY <1>3, <1>6, StepValue DEF k

LEMMA PositionRange ==
  ASSUME size \in Nat, size > 3, NEW h \in 1..(size - 1), NEW n \in 0..size
  PROVE  Position(h, n) \in Index
<1>1. h - 1 - n * Hval2(h) \in Int
  BY Hval2Range
<1>2. \A x \in Int : x % size \in 0..(size - 1)
  BY Division
<1> QED BY <1>1, <1>2 DEF Position, Index

\* The search begins at the hash, and after size steps it is back there.
LEMMA PositionEnds ==
  ASSUME size \in Nat, size > 3, NEW h \in 1..(size - 1)
  PROVE  Position(h, 0) = h /\ Position(h, size) = h
<1> DEFINE k == Hval2(h)
<1>1. k \in Int
  BY Hval2Range
<1> HIDE DEF k
<1> DEFINE x == h - 1 - size * k
           y == 0 - k
<1>2. h - 1 - 0 * k = size * 0 + (h - 1) /\ x = size * y + (h - 1) /\ x \in Int /\ y \in Int
  BY <1>1
<1>3. (h - 1 - 0 * k) % size = h - 1
  BY <1>1, <1>2, Remainder
<1> HIDE DEF x, y
<1>4. x % size = h - 1
  BY <1>2, Remainder
<1> QED BY <1>3, <1>4 DEF Position, k, x

\* The recursive definition of Probe has the solution Position, and no other.
LEMMA ProbeIsPosition ==
  ASSUME size \in Nat, size > 3, NEW h \in 1..(size - 1)
  PROVE  /\ Probe(h) \in [0..size -> Index]
         /\ \A n \in 0..size : Probe(h)[n] = Position(h, n)
<1> DEFINE c == [n \in 0..size |-> Position(h, n)]
           p == Probe(h)
<1>1. c = [n \in 0..size |-> IF n = 0 THEN h ELSE Step(h, c[n - 1])]
  <2> SUFFICES ASSUME NEW n \in 0..size
               PROVE  c[n] = IF n = 0 THEN h ELSE Step(h, c[n - 1])
    OBVIOUS
  <2>1. CASE n = 0
    BY <2>1, PositionEnds
  <2>2. CASE n # 0
    <3>1. n \in 1..size /\ n - 1 \in 0..size
      BY <2>2
    <3>2. c[n] = Step(h, Position(h, n - 1))
      BY <3>1, PositionStep
    <3> QED BY <3>1, <3>2, <2>2
  <2> QED BY <2>1, <2>2
<1> HIDE DEF c
<1>2. p = [n \in 0..size |-> IF n = 0 THEN h ELSE Step(h, p[n - 1])]
  BY <1>1 DEF Probe
<1> HIDE DEF p
<1>3. \A n \in 0..size : p[n] = c[n]
  <2> DEFINE D == {n \in 0..size : p[n] # c[n]}
  <2> SUFFICES ASSUME D # {} PROVE FALSE
    OBVIOUS
  <2>1. PICK n \in D : \A m \in D : n <= m
    <3>1. D \in SUBSET Nat
      OBVIOUS
    <3> HIDE DEF D
    <3> QED BY <3>1, Least
  <2>2. n # 0
    BY <1>1, <1>2
  <2>3. n - 1 \in 0..size /\ n - 1 \notin D
    BY <2>1, <2>2
  <2>4. p[n - 1] = c[n - 1]
    BY <2>3
  <2>5. p[n] = Step(h, p[n - 1]) /\ c[n] = Step(h, c[n - 1])
    BY <1>1, <1>2, <2>2
  <2> QED BY <2>4, <2>5
<1>4. p \in [0..size -> Index]
  <2>1. \A n \in 0..size : p[n] \in Index
    BY <1>3, PositionRange DEF c
  <2> QED BY <1>2, <2>1
<1> QED BY <1>3, <1>4 DEF c, p

\* With a prime size no bucket is met twice in a round.
LEMMA PositionsDiffer ==
  ASSUME size \in Nat, size > 3, Prime(size), NEW h \in 1..(size - 1),
         NEW m \in 0..(size - 1), NEW n \in 0..(size - 1), m < n
  PROVE  Position(h, m) # Position(h, n)
<1> DEFINE k == Hval2(h)
           a == h - 1 - m * k
           b == h - 1 - n * k
<1>1. k \in 1..(size - 2)
  BY Hval2Range
<1>2. SUFFICES ASSUME a % size = b % size PROVE FALSE
  <2>1. a \in Int /\ b \in Int
    BY <1>1
  <2>2. a % size \in Int /\ b % size \in Int
    BY <2>1, Division
  <2> QED BY <2>2 DEF Position
<1> HIDE DEF k
<1>3. a \in Int /\ b \in Int /\ a - b = (n - m) * k
  BY <1>1
<1> HIDE DEF a, b
<1> DEFINE qa == a \div size
           qb == b \div size
<1>4. qa \in Int /\ qb \in Int /\ a = size * qa + (a % size) /\ b = size * qb + (b % size)
      /\ a % size \in Int
  BY <1>3, Division
<1> HIDE DEF qa, qb
<1> DEFINE x == (n - m) * k
           y == qa - qb
<1>5. x = size * y
  <2>1. size * y = size * qa - size * qb /\ size * qa \in Int /\ size * qb \in Int
    BY <1>4
  <2> HIDE DEF x, y
  <2>2. x = a - b
    BY <1>3 DEF x
  <2> QED BY <1>2, <1>3, <1>4, <2>1, <2>2
<1>6. x \in Int /\ y \in Int /\ n - m \in 1..(size - 1) /\ k \in 1..(size - 1)
  BY <1>1, <1>4
<1>7. x % size # 0
  BY <1>6, Euclid
<1> HIDE DEF x, y
<1> QED BY <1>5, <1>6, <1>7, Remainder, x = size * y + 0

\* The table is of a size that hcreate_r chose.
Proper == size \in Nat /\ size > 3 /\ Prime(size)

\* A round of the search meets every bucket once.
LEMMA RoundCovers ==
  ASSUME Proper, NEW h \in 1..(size - 1)
  PROVE  /\ \A i \in Index : \E n \in 0..(size - 1) : Probe(h)[n] = i
         /\ \A m, n \in 0..(size - 1) : Probe(h)[m] = Probe(h)[n] => m = n
<1> DEFINE f == [n \in 0..(size - 1) |-> Probe(h)[n]]
<1>1. /\ size \in Nat /\ size > 3 /\ Prime(size) /\ Probe(h) \in [0..size -> Index]
      /\ \A n \in 0..size : Probe(h)[n] = Position(h, n)
  BY ProbeIsPosition DEF Proper
<1>2. ASSUME NEW m \in 0..(size - 1), NEW n \in 0..(size - 1), Probe(h)[m] = Probe(h)[n], m # n
      PROVE  FALSE
  <2>1. Position(h, m) = Position(h, n)
    BY <1>1, <1>2
  <2>2. m < n \/ n < m
    BY <1>1, <1>2
  <2> QED BY <2>1, <2>2, <1>1, PositionsDiffer
<1>3. f \in Injection(0..(size - 1), Index)
  <2>1. f \in [0..(size - 1) -> Index]
    BY <1>1
  <2> QED BY <2>1, <1>2 DEF Injection, IsInjective
<1>4. IsFiniteSet(Index) /\ Cardinality(Index) = size /\ Cardinality(0..(size - 1)) = size
  BY FS_Interval, <1>1 DEF Index
<1>5. f \in Surjection(0..(size - 1), Index)
  <2> HIDE DEF f
  <2> QED BY <1>3, <1>4, FS_Injection
<1> QED BY <1>2, <1>5 DEF Surjection

LEMMA ProbeEnds ==
  ASSUME Proper, NEW h \in 1..(size - 1)
  PROVE  Probe(h) \in [0..size -> Index] /\ Probe(h)[0] = h /\ Probe(h)[size] = h
<1>1. size \in Nat /\ size > 3
  BY DEF Proper
<1> QED BY <1>1, ProbeIsPosition, PositionEnds

\* Every probe sequence of a proper table visits every bucket.
LEMMA ProperProbesAll == Proper => ProbesAll
<1> SUFFICES ASSUME Proper, NEW h \in 1..(size - 1)
             PROVE  {Probe(h)[n] : n \in 0..(size - 1)} = Index
  BY DEF ProbesAll
<1>1. size \in Nat
  BY DEF Proper
<1>2. \A n \in 0..(size - 1) : Probe(h)[n] \in Index
  BY <1>1, ProbeEnds
<1> QED BY <1>2, RoundCovers

-----------------------------------------------------------------------------
(* The invariant of the table.  An entry stays reachable because no bucket  *)
(* on the way to it is ever given back: used[i] does not become 0 again.    *)

\* The n-th index of the search with hash h is one that the search looks at.
LooksAt(h, n) == \A m \in 0..n : used[Probe(h)[m]] # 0 /\ (m > 0 => Probe(h)[m] # h)

Reached(h, i) == \E n \in 0..(size - 1) : Probe(h)[n] = i /\ LooksAt(h, n)

\* Bucket i has the entry of k, at a place where the search finds it.
Holds(i, k, h) == /\ key[i] = k /\ data[i] \in Values
                  /\ used[i] = h /\ h = Hval(k)
                  /\ Reached(h, i)

TableTypes == /\ filled \in 0..size
              /\ used \in [Index -> -1..size]
              /\ key \in [Index -> Keys \cup {NoKey}]
              /\ data \in [Index -> Values \cup {Unset}]

Entries == \A i \in Live : \E k \in Keys, h \in 1..(size - 1) : Holds(i, k, h)

OneEach == \A i, j \in Live : key[i] = key[j] => i = j

\* filled never falls below the number of entries; an entry that is overwritten is counted twice.
Counted == filled >= Cardinality(Live) /\ FilledCounts

GoodTable == Proper /\ TableTypes /\ Entries /\ OneEach /\ Counted

LEMMA HvalRange ==
  ASSUME Proper, NEW k \in Keys
  PROVE  Hval(k) \in 1..(size - 1)
<1>1. size \in Nat /\ size > 3 /\ HashOf[k] \in Nat
  BY HashAssumption DEF Proper
<1>2. HashOf[k] % size \in 0..(size - 1)
  BY <1>1, Division
<1> QED BY <1>1, <1>2 DEF Hval

LEMMA LiveFinite ==
  ASSUME Proper
  PROVE  Live \subseteq Index /\ IsFiniteSet(Live) /\ IsFiniteSet(Index) /\ Cardinality(Live) \in Nat
<1>1. size \in Nat
  BY DEF Proper
<1>2. IsFiniteSet(Index)
  BY <1>1, FS_Interval DEF Index
<1>3. Live \subseteq Index
  BY DEF Live
<1> QED BY <1>2, <1>3, FS_Subset, FS_CardinalityType

\* Where the search for a key ends.
LEMMA StopProps ==
  ASSUME Proper, NEW h \in 1..(size - 1)
  PROVE  /\ Stop(h) \in 0..size
         /\ \A m \in 0..(Stop(h) - 1) : used[Probe(h)[m]] # 0 /\ (m > 0 => Probe(h)[m] # h)
         /\ used[Probe(h)[Stop(h)]] = 0 \/ (Stop(h) > 0 /\ Probe(h)[Stop(h)] = h)
         /\ \A n \in 0..(size - 1) : LooksAt(h, n) => n < Stop(h)
<1> DEFINE p == Probe(h)
           A == {n \in 0..size : used[p[n]] = 0 \/ (n > 0 /\ p[n] = h)}
           T == A \cup {size}
<1>1. size \in Nat /\ size > 3 /\ p[size] = h
  BY ProbeEnds DEF Proper
<1>2. T \in SUBSET Nat /\ T # {} /\ T = A
  BY <1>1
<1>3. Stop(h) = Min(T)
  BY DEF Stop
<1>4. Min(T) \in T /\ \A m \in T : Min(T) <= m
  <2> HIDE DEF T
  <2> QED BY <1>2, MinProps
<1> HIDE DEF p, T
<1>5. Stop(h) \in A
  BY <1>2, <1>3, <1>4
<1>6. ASSUME NEW m \in 0..(Stop(h) - 1) PROVE used[p[m]] # 0 /\ (m > 0 => p[m] # h)
  <2>1. m \in 0..size /\ m < Stop(h) /\ Stop(h) \in Nat
    BY <1>1, <1>5
  <2>2. m \notin A
    BY <1>2, <1>3, <1>4, <2>1
  <2> QED BY <2>1, <2>2
<1>7. ASSUME NEW n \in 0..(size - 1), LooksAt(h, n), ~(n < Stop(h)) PROVE FALSE
  <2>1. Stop(h) \in 0..n
    BY <1>1, <1>5, <1>7
  <2>2. used[p[Stop(h)]] # 0 /\ (Stop(h) > 0 => p[Stop(h)] # h)
    BY <2>1, <1>7 DEF LooksAt, p
  <2> QED BY <2>2, <1>5
<1> QED BY <1>5, <1>6, <1>7 DEF p

\* A search finds the entry of its key, and nothing when there is none.
LEMMA FindProps ==
  ASSUME Proper, TableTypes, Entries, OneEach, NEW k \in Keys
  PROVE  /\ Find(k) \in 0..size
         /\ {i \in Live : key[i] = k} = {Find(k)} \ {0}
<1> DEFINE h == Hval(k)
           p == Probe(h)
           hits == {n \in 0..(Stop(h) - 1) : Matches(k, p[n])}
<1>1. size \in Nat /\ size > 3 /\ h \in 1..(size - 1)
  BY HvalRange DEF Proper
<1>2. p \in [0..size -> Index] /\ Stop(h) \in 0..size
  BY <1>1, ProbeEnds, StopProps
<1>3. Find(k) = IF hits = {} THEN 0 ELSE p[Min(hits)]
  BY DEF Find
<1>4. ASSUME NEW i \in Index, Matches(k, i) PROVE i \in Live /\ key[i] = k
  BY <1>1, <1>4 DEF Matches, Live
<1>5. ASSUME NEW i \in Live, key[i] = k PROVE hits # {}
  <2>1. used[i] = h /\ Reached(h, i)
    BY <1>5 DEF Entries, Holds
  <2>2. PICK n \in 0..(size - 1) : p[n] = i /\ LooksAt(h, n)
    BY <2>1 DEF Reached
  <2>3. n < Stop(h)
    BY <1>1, <2>2, StopProps
  <2>4. n \in hits
    BY <1>2, <1>5, <2>1, <2>2, <2>3 DEF Matches
  <2> QED BY <2>4
<1>6. CASE hits = {}
  <2>1. Find(k) = 0
    BY <1>3, <1>6
  <2> QED BY <1>1, <1>5, <1>6, <2>1
<1>7. CASE hits # {}
  <2>1. hits \in SUBSET Nat
    OBVIOUS
  <2>2. Min(hits) \in hits
    <3> HIDE DEF hits
    <3> QED BY <1>7, <2>1, MinProps
  <2>3. Find(k) = p[Min(hits)] /\ Min(hits) \in 0..size /\ Matches(k, p[Min(hits)])
    BY <1>1, <1>2, <1>3, <1>7, <2>2
  <2>4. Find(k) \in Index /\ Matches(k, Find(k))
    BY <1>2, <2>3
  <2> HIDE DEF hits, p
  <2>5. Find(k) \in Live /\ key[Find(k)] = k
    BY <1>4, <2>4
  <2>6. Find(k) \in 1..size
    BY <2>4 DEF Index
  <2> QED BY <2>5, <2>6 DEF OneEach
<1> QED BY <1>6, <1>7

\* The bucket of a new entry is one the search will look at, and it is taken from another
\* entry only when no bucket is left that was never used.
LEMMA BucketProps ==
  ASSUME Proper, TableTypes, NEW k \in Keys
  PROVE  /\ Bucket(k) \in Index
         /\ \E n \in 0..(size - 1) :
              /\ Probe(Hval(k))[n] = Bucket(k)
              /\ \A m \in 0..n : /\ m < n => used[Probe(Hval(k))[m]] # 0
                                 /\ m > 0 => Probe(Hval(k))[m] # Hval(k)
         /\ EmptyBucket => Bucket(k) \notin Live
<1> DEFINE h == Hval(k)
           p == Probe(h)
           st == Stop(h)
           b == Bucket(k)
<1>1. size \in Nat /\ size > 3 /\ h \in 1..(size - 1)
  BY HvalRange DEF Proper
<1>2. p \in [0..size -> Index] /\ p[0] = h /\ p[size] = h
  BY <1>1, ProbeEnds
<1>3. /\ st \in 0..size
      /\ \A m \in 0..(st - 1) : used[p[m]] # 0 /\ (m > 0 => p[m] # h)
      /\ used[p[st]] = 0 \/ (st > 0 /\ p[st] = h)
      /\ \A n \in 0..(size - 1) : LooksAt(h, n) => n < st
  BY <1>1, StopProps
<1>4. b = IF used[h] = Deleted THEN h ELSE p[st]
  BY DEF Bucket
<1>5. h \in Index
  BY <1>1 DEF Index
<1>6. /\ \A i \in Index : \E n \in 0..(size - 1) : p[n] = i
      /\ \A m, n \in 0..(size - 1) : p[m] = p[n] => m = n
  BY <1>1, RoundCovers
<1>7. used[h] \in -1..size
  BY <1>5 DEF TableTypes
<1> HIDE DEF h, p, st, b
<1>8. CASE b = h
  <2>1. \E n \in 0..(size - 1) : p[n] = b /\ \A m \in 0..n : (m < n => used[p[m]] # 0) /\ (m > 0 => p[m] # h)
    <3>1. 0 \in 0..(size - 1) /\ p[0] = b
      BY <1>1, <1>2, <1>8
    <3> QED BY <3>1
  <2>2. ASSUME EmptyBucket, used[h] > 0 PROVE FALSE
    <3>1. PICK e \in Index : used[e] = 0
      BY <2>2 DEF EmptyBucket
    <3>2. PICK n \in 0..(size - 1) : p[n] = e
      BY <1>6
    <3>3. st > 0 /\ p[st] = h
      <4>1. used[h] # Deleted
        BY <2>2, <1>7 DEF Deleted
      <4>2. p[st] = h
        BY <4>1, <1>4, <1>8
      <4>3. used[p[st]] # 0
        BY <4>2, <2>2, <1>7
      <4> QED BY <4>2, <4>3, <1>3
    <3>4. st = size
      <4>1. SUFFICES ASSUME st # size PROVE FALSE
        OBVIOUS
      <4>2. st \in 0..(size - 1) /\ 0 \in 0..(size - 1)
        BY <1>1, <1>3, <4>1
      <4>3. st = 0
        BY <4>2, <3>3, <1>2, <1>6
      <4> QED BY <3>3, <4>3
    <3>5. n \in 0..(st - 1)
      BY <3>4
    <3> QED BY <1>3, <3>1, <3>2, <3>5
  <2> QED BY <1>5, <1>8, <2>1, <2>2 DEF h, p, b, Live
<1>9. CASE b # h
  <2>1. b = p[st] /\ used[h] # Deleted /\ used[p[st]] = 0
    BY <1>3, <1>4, <1>9
  <2>2. st \in 0..(size - 1)
    BY <1>1, <1>2, <1>3, <1>9, <2>1
  <2>3. ASSUME NEW m \in 0..st PROVE (m < st => used[p[m]] # 0) /\ (m > 0 => p[m] # h)
    <3>1. CASE m < st
      BY <3>1, <1>3, <2>2
    <3>2. CASE m = st
      BY <3>2, <1>9, <2>1, <2>2
    <3> QED BY <3>1, <3>2, <2>2
  <2>4. b \in Index
    BY <1>1, <1>2, <2>1, <2>2
  <2>5. b \notin Live
    BY <2>1 DEF Live
  <2> QED BY <2>1, <2>2, <2>3, <2>4, <2>5 DEF h, p, b
<1> QED BY <1>8, <1>9

LEMMA SameProbe ==
  ASSUME size' = size
  PROVE  /\ \A h : (Probe(h))' = Probe(h)
         /\ \A k : (Hval(k))' = Hval(k)
         /\ Index' = Index /\ (Proper)' = Proper
  BY DEF Probe, Step, Hval, Index, Proper, Prime, Divides

\* What is reached stays reached, since no bucket is given back.
LEMMA StaysReached ==
  ASSUME Proper, size' = size, \A j \in Index : used'[j] = 0 => used[j] = 0,
         NEW h \in 1..(size - 1), NEW i, Reached(h, i)
  PROVE  Reached(h, i)'
<1>1. size \in Nat /\ Probe(h) \in [0..size -> Index] /\ (Probe(h))' = Probe(h)
  BY ProbeEnds, SameProbe DEF Proper
<1>2. PICK n \in 0..(size - 1) : Probe(h)[n] = i /\ LooksAt(h, n)
  BY DEF Reached
<1>3. LooksAt(h, n)'
  <2> SUFFICES ASSUME NEW m \in 0..n
               PROVE  used'[Probe(h)'[m]] # 0 /\ (m > 0 => Probe(h)'[m] # h)
    BY DEF LooksAt
  <2>1. used[Probe(h)[m]] # 0 /\ (m > 0 => Probe(h)[m] # h)
    BY <1>2 DEF LooksAt
  <2>2. m \in 0..size
    BY <1>1
  <2> QED BY <1>1, <2>1, <2>2
<1> QED BY <1>1, <1>2, <1>3 DEF Reached

-----------------------------------------------------------------------------
(* Changes of the table.                                                    *)

\* A new table.
LEMMA HcreateGood ==
  ASSUME NEW nel \in Nels, HcreateR(nel)
  PROVE  GoodTable' /\ Live' = {} /\ size' = TableSize(nel)
<1> DEFINE s == TableSize(nel)
<1>1. s \in Nat /\ s > 3 /\ Prime(s)
  BY SizesPrime
<1> HIDE DEF s
<1>2. /\ size' = s /\ filled' = 0 /\ used' = [i \in 1..s |-> 0]
      /\ key' = [i \in 1..s |-> NoKey] /\ data' = [i \in 1..s |-> Unset]
  BY DEF HcreateR, s
<1>3. Live' = {}
  BY <1>2 DEF Live, Index
<1>4. Proper'
  <2>1. \A x : x = s => (x \in Nat /\ x > 3 /\ Prime(x))
    BY <1>1
  <2> QED BY <2>1, <1>2 DEF Proper, Prime, Divides
<1>5. TableTypes'
  BY <1>1, <1>2 DEF TableTypes, Index
<1>6. Entries' /\ OneEach'
  BY <1>3 DEF Entries, OneEach
<1>7. Counted'
  BY <1>2, <1>3, FS_EmptySet DEF Counted, FilledCounts
<1> QED BY <1>2, <1>3, <1>4, <1>5, <1>6, <1>7 DEF GoodTable, s

\* A change of one bucket b that does not become unused: what must be shown of it.
LEMMA OneBucket ==
  ASSUME GoodTable, size' = size, TableTypes', NEW b \in Index,
         used'[b] # 0,
         \A j \in Index \ {b} : used'[j] = used[j] /\ key'[j] = key[j] /\ data'[j] = data[j],
         b \in Live' => \E k \in Keys, h \in 1..(size - 1) :
                          Holds(b, k, h)' /\ \A j \in Live \ {b} : key[j] # k
  PROVE  Proper' /\ Entries' /\ OneEach' /\ (EmptyBucket' => EmptyBucket)
         /\ Live' \ {b} = Live \ {b}
<1>1. Proper /\ size \in Nat /\ Proper' /\ Index' = Index
  BY SameProbe DEF GoodTable, Proper
<1>2. \A j \in Index : used'[j] = 0 => used[j] = 0
  OBVIOUS
<1>3. Live' \ {b} = Live \ {b}
  BY <1>1 DEF Live
<1>4. ASSUME NEW i \in Live', i # b
      PROVE  \E k \in Keys, h \in 1..(size - 1) : Holds(i, k, h)'
  <2>1. i \in Live /\ i \in Index
    BY <1>1, <1>3, <1>4 DEF Live
  <2>2. PICK k \in Keys, h \in 1..(size - 1) : Holds(i, k, h)
    BY <2>1 DEF GoodTable, Entries
  <2>3. Reached(h, i)'
    BY <1>1, <1>2, <2>2, StaysReached DEF Holds
  <2>4. (Hval(k))' = Hval(k)
    BY SameProbe
  <2> QED BY <1>4, <2>1, <2>2, <2>3, <2>4 DEF Holds
<1>5. Entries'
  <2> SUFFICES ASSUME NEW i \in Live'
               PROVE  \E k \in Keys, h \in 1..(size' - 1) : Holds(i, k, h)'
    BY DEF Entries
  <2> QED BY <1>4
<1>6. OneEach'
  <2> SUFFICES ASSUME NEW i \in Live', NEW j \in Live', key'[i] = key'[j], i # j PROVE FALSE
    BY DEF OneEach
  <2>1. \A x \in Live' : x # b => x \in Live \ {b} /\ x \in Index /\ key'[x] = key[x]
    BY <1>1, <1>3 DEF Live
  <2>2. CASE i # b /\ j # b
    BY <2>1, <2>2 DEF GoodTable, OneEach
  <2>3. b \in Live' => \A x \in Live \ {b} : key[x] # key'[b]
    BY DEF Holds
  <2> QED BY <2>1, <2>2, <2>3
<1>7. EmptyBucket' => EmptyBucket
  BY <1>1, <1>2 DEF EmptyBucket
<1> QED BY <1>1, <1>3, <1>5, <1>6, <1>7

LEMMA SameTable ==
  ASSUME GoodTable, UNCHANGED table
  PROVE  /\ GoodTable' /\ size' = size /\ Live' = Live /\ Index' = Index
         /\ (EmptyBucket' => EmptyBucket)
<1>1. size' = size /\ filled' = filled /\ used' = used /\ key' = key /\ data' = data
  BY DEF table
<1>2. Proper' /\ Index' = Index /\ Live' = Live /\ (EmptyBucket' => EmptyBucket)
  BY <1>1, SameProbe DEF Live, GoodTable, EmptyBucket
<1>3. TableTypes' /\ OneEach' /\ Counted'
  BY <1>1, <1>2 DEF GoodTable, TableTypes, OneEach, Counted, FilledCounts
<1>4. Entries'
  <2> SUFFICES ASSUME NEW i \in Live
               PROVE  \E k \in Keys, h \in 1..(size - 1) : Holds(i, k, h)'
    BY <1>1, <1>2 DEF Entries
  <2>1. PICK k \in Keys, h \in 1..(size - 1) : Holds(i, k, h)
    BY DEF GoodTable, Entries
  <2>2. Reached(h, i)' /\ (Hval(k))' = Hval(k)
    BY <1>1, <2>1, StaysReached, SameProbe DEF Holds, GoodTable
  <2> QED BY <1>1, <2>1, <2>2 DEF Holds
<1> QED BY <1>1, <1>2, <1>3, <1>4 DEF GoodTable

\* Marking a bucket as deleted.
LEMMA MarkGood ==
  ASSUME GoodTable, NEW b \in Index, size' = size,
         used' = [used EXCEPT ![b] = Deleted], key' = [key EXCEPT ![b] = NoKey],
         data' = [data EXCEPT ![b] = Unset],
         filled' \in 0..size, filled' >= Cardinality(Live \ {b}),
         EmptyBucket => filled' = Cardinality(Live \ {b})
  PROVE  GoodTable' /\ Live' = Live \ {b} /\ (EmptyBucket' => EmptyBucket)
<1>1. Proper /\ TableTypes /\ size \in Nat /\ Index' = Index
  BY SameProbe DEF GoodTable, Proper
<1>2. TableTypes'
  BY <1>1 DEF TableTypes, Deleted
<1>3. used'[b] = Deleted /\ \A j \in Index \ {b} : used'[j] = used[j] /\ key'[j] = key[j] /\ data'[j] = data[j]
  BY <1>1 DEF TableTypes
<1>4. b \notin Live'
  BY <1>3 DEF Live, Deleted
<1>5. Proper' /\ Entries' /\ OneEach' /\ (EmptyBucket' => EmptyBucket) /\ Live' \ {b} = Live \ {b}
  BY <1>2, <1>3, <1>4, OneBucket DEF Deleted
<1>6. Live' = Live \ {b}
  BY <1>4, <1>5
<1>7. Counted'
  BY <1>5, <1>6 DEF Counted, FilledCounts
<1> QED BY <1>2, <1>5, <1>6, <1>7 DEF GoodTable

\* Deleting a variable (hdelete_r) leaves a good table without it.
LEMMA HdeleteGood ==
  ASSUME GoodTable, NEW k \in Keys, NEW ok \in BOOLEAN, HdeleteR(k, ok)
  PROVE  /\ GoodTable' /\ size' = size /\ (EmptyBucket' => EmptyBucket)
         /\ \/ ~ok /\ UNCHANGED table
            \/ Find(k) = 0 /\ UNCHANGED table
            \/ \E b \in Index : /\ b = Find(k) /\ b \in Live /\ key[b] = k /\ ok
                                /\ Live' = Live \ {b}
                                /\ \A j \in Live' : key'[j] = key[j] /\ data'[j] = data[j]
                                /\ \A j \in Index : used'[j] # 0 <=> (used[j] # 0 \/ j = b)
<1>1. Proper /\ TableTypes /\ Entries /\ OneEach /\ Counted /\ size \in Nat
  BY DEF GoodTable, Proper
<1>2. Find(k) \in 0..size /\ {i \in Live : key[i] = k} = {Find(k)} \ {0}
  BY <1>1, FindProps
<1>3. CASE UNCHANGED table
  <2>1. Find(k) = 0 \/ ~ok
    <3>1. SUFFICES ASSUME Find(k) # 0, ok PROVE FALSE
      OBVIOUS
    <3>2. Find(k) \in Live
      BY <1>2, <3>1
    <3>3. Find(k) \in Index /\ used[Find(k)] > 0 /\ used' = [used EXCEPT ![Find(k)] = Deleted]
      BY <3>1, <3>2 DEF Live, HdeleteR, Delete
    <3>4. used'[Find(k)] = Deleted
      BY <1>1, <3>3 DEF TableTypes
    <3> QED BY <1>3, <3>3, <3>4 DEF table, Deleted
  <2>2. GoodTable' /\ size' = size /\ (EmptyBucket' => EmptyBucket)
    BY <1>3, SameTable
  <2> QED BY <1>3, <2>1, <2>2
<1>4. CASE Find(k) # 0 /\ ok
  <2>1. PICK b \in Index : b = Find(k)
    BY <1>2, <1>4 DEF Index
  <2>2. b \in Live /\ key[b] = k
    BY <1>2, <1>4, <2>1
  <2>3. /\ used' = [used EXCEPT ![b] = Deleted] /\ key' = [key EXCEPT ![b] = NoKey]
        /\ data' = [data EXCEPT ![b] = Unset] /\ filled' = filled - 1 /\ size' = size
    BY <1>4, <2>1 DEF HdeleteR, Delete
  <2>4. Cardinality(Live \ {b}) = Cardinality(Live) - 1 /\ Cardinality(Live) \in Nat
        /\ Cardinality(Live \ {b}) \in Nat
    BY <1>1, <2>2, LiveFinite, FS_RemoveElement, FS_CardinalityType
  <2>5. filled' \in 0..size /\ filled' >= Cardinality(Live \ {b})
        /\ (EmptyBucket => filled' = Cardinality(Live \ {b}))
    BY <1>1, <2>3, <2>4 DEF TableTypes, Counted, FilledCounts
  <2>6. GoodTable' /\ Live' = Live \ {b} /\ (EmptyBucket' => EmptyBucket)
    BY <2>3, <2>5, MarkGood
  <2>7. /\ \A j \in Live' : key'[j] = key[j] /\ data'[j] = data[j]
        /\ \A j \in Index : used'[j] # 0 <=> (used[j] # 0 \/ j = b)
    BY <1>1, <2>3, <2>6 DEF TableTypes, Live, Deleted
  <2> QED BY <1>4, <2>1, <2>2, <2>3, <2>6, <2>7
<1> QED BY <1>3, <1>4 DEF HdeleteR

\* Setting a variable (hsearch_r with ENTER): it is changed in place, refused, or it gets a new
\* bucket, which belonged to another entry only if no unused bucket is left.
LEMMA EnterGood ==
  ASSUME GoodTable, NEW k \in Keys, NEW v \in Values, NEW ok \in BOOLEAN, Enter(k, v, ok)
  PROVE  /\ GoodTable' /\ size' = size /\ (EmptyBucket' => EmptyBucket)
         /\ \/ UNCHANGED table /\ (ok => filled = size)
            \/ \E b \in Live : /\ key[b] = k /\ ok
                               /\ Live' = Live /\ data'[b] = v
                               /\ \A j \in Live : key'[j] = key[j]
                               /\ \A j \in Live \ {b} : data'[j] = data[j]
                               /\ used' = used
            \/ \E b \in Index : /\ EmptyBucket => b \notin Live
                                /\ \A i \in Live : key[i] # k
                                /\ IF ok THEN Live' = Live \cup {b} /\ key'[b] = k /\ data'[b] = v
                                         ELSE Live' = Live \ {b}
                                /\ \A j \in Live \ {b} : key'[j] = key[j] /\ data'[j] = data[j]
                                /\ \A j \in Index : used'[j] # 0 <=> (used[j] # 0 \/ j = b)
<1>1. Proper /\ TableTypes /\ Entries /\ OneEach /\ Counted /\ size \in Nat /\ size > 3
  BY DEF GoodTable, Proper
<1>2. Find(k) \in 0..size /\ {i \in Live : key[i] = k} = {Find(k)} \ {0}
  BY <1>1, FindProps
<1>3. CASE Find(k) # 0 /\ ok
  <2>1. PICK b \in Live : b = Find(k) /\ key[b] = k
    BY <1>2, <1>3
  <2>2. b \in Index
    BY DEF Live
  <2>3. data' = [data EXCEPT ![b] = v] /\ size' = size /\ filled' = filled /\ used' = used /\ key' = key
    BY <1>3, <2>1 DEF Enter
  <2>4. Live' = Live /\ Index' = Index
    BY <2>3 DEF Live, Index
  <2>5. TableTypes' /\ data'[b] = v /\ \A j \in Index \ {b} : data'[j] = data[j]
    BY <1>1, <2>2, <2>3, <2>4 DEF TableTypes
  <2>6. \E k1 \in Keys, h \in 1..(size - 1) : Holds(b, k1, h)' /\ \A j \in Live \ {b} : key[j] # k1
    <3>1. PICK k1 \in Keys, h \in 1..(size - 1) : Holds(b, k1, h)
      BY <1>1, <2>1 DEF Entries
    <3>2. Reached(h, b)' /\ (Hval(k1))' = Hval(k1)
      BY <1>1, <2>3, <3>1, StaysReached, SameProbe DEF Holds
    <3>3. Holds(b, k1, h)'
      BY <2>3, <2>5, <3>1, <3>2 DEF Holds
    <3>4. \A j \in Live \ {b} : key[j] # k1
      BY <1>1, <3>1 DEF OneEach, Holds
    <3> QED BY <3>3, <3>4
  <2>7. used'[b] # 0
    BY <2>1, <2>3, <1>1, <2>2 DEF Live, TableTypes
  <2>8. Proper' /\ Entries' /\ OneEach' /\ (EmptyBucket' => EmptyBucket)
    BY <2>2, <2>3, <2>5, <2>6, <2>7, OneBucket
  <2>9. Counted'
    BY <1>1, <2>3, <2>4, <2>8 DEF Counted, FilledCounts
  <2> QED BY <1>3, <2>1, <2>3, <2>4, <2>5, <2>8, <2>9 DEF GoodTable, Live
<1>4. CASE Find(k) # 0 /\ ~ok
  <2>1. UNCHANGED table
    BY <1>4 DEF Enter, table
  <2> QED BY <1>4, <2>1, SameTable
<1>5. CASE Find(k) = 0 /\ filled = size
  <2>1. UNCHANGED table
    BY <1>5 DEF Enter
  <2> QED BY <1>5, <2>1, SameTable
<1>6. CASE Find(k) = 0 /\ filled # size
  <2>1. \A i \in Live : key[i] # k
    BY <1>2, <1>6
  <2>2. PICK b \in Index : b = Bucket(k)
    BY <1>1, BucketProps
  <2>3. EmptyBucket => b \notin Live
    BY <1>1, <2>2, BucketProps
  <2>4. IsFiniteSet(Live) /\ Cardinality(Live) \in Nat /\ filled \in 0..(size - 1)
    BY <1>1, <1>6, LiveFinite DEF TableTypes
  <2>5. CASE ok
    <3>1. /\ used' = [used EXCEPT ![b] = Hval(k)] /\ key' = [key EXCEPT ![b] = k]
          /\ data' = [data EXCEPT ![b] = v] /\ filled' = filled + 1 /\ size' = size
      BY <1>6, <2>2, <2>5 DEF Enter
    <3>2. PICK h \in 1..(size - 1) : h = Hval(k)
      BY <1>1, HvalRange
    <3>3. Index' = Index /\ (Hval(k))' = h /\ (Probe(h))' = Probe(h)
      BY <3>1, <3>2, SameProbe
    <3>4. /\ used'[b] = h /\ key'[b] = k /\ data'[b] = v
          /\ \A j \in Index \ {b} : used'[j] = used[j] /\ key'[j] = key[j] /\ data'[j] = data[j]
      BY <1>1, <3>1, <3>2 DEF TableTypes
    <3>5. TableTypes'
      BY <1>1, <2>4, <3>1, <3>2, <3>3 DEF TableTypes
    <3>6. Reached(h, b)'
      <4>1. PICK n \in 0..(size - 1) :
              /\ Probe(h)[n] = b
              /\ \A m \in 0..n : (m < n => used[Probe(h)[m]] # 0) /\ (m > 0 => Probe(h)[m] # h)
        BY <1>1, <2>2, <3>2, BucketProps
      <4>2. Probe(h) \in [0..size -> Index]
        BY <1>1, ProbeEnds
      <4>3. ASSUME NEW m \in 0..n PROVE used'[Probe(h)[m]] # 0 /\ (m > 0 => Probe(h)[m] # h)
        <5>1. Probe(h)[m] \in Index
          BY <1>1, <4>2
        <5>2. CASE m < n
          BY <4>1, <5>1, <5>2, <3>4
        <5>3. CASE m = n
          BY <4>1, <5>3, <3>4
        <5> QED BY <5>2, <5>3
      <4>4. LooksAt(h, n)'
        BY <3>3, <4>3 DEF LooksAt
      <4> QED BY <3>1, <3>3, <4>1, <4>4 DEF Reached
    <3>7. Holds(b, k, h)'
      BY <3>3, <3>4, <3>6 DEF Holds
    <3>8. Proper' /\ Entries' /\ OneEach' /\ (EmptyBucket' => EmptyBucket) /\ Live' \ {b} = Live \ {b}
      <4>1. used'[b] # 0
        BY <3>4
      <4> QED BY <2>1, <3>1, <3>4, <3>5, <3>7, <4>1, OneBucket
    <3>9. Live' = Live \cup {b}
      <4>1. b \in Live'
        BY <3>3, <3>4 DEF Live
      <4> QED BY <4>1, <3>8
    <3>10. Counted'
      <4>1. Cardinality(Live') = IF b \in Live THEN Cardinality(Live) ELSE Cardinality(Live) + 1
        BY <2>4, <3>9, FS_AddElement
      <4> QED BY <1>1, <2>3, <2>4, <3>1, <3>8, <4>1 DEF Counted, FilledCounts
    <3>11. GoodTable'
      BY <3>5, <3>8, <3>10 DEF GoodTable
    <3>12. /\ \A j \in Live \ {b} : key'[j] = key[j] /\ data'[j] = data[j]
           /\ \A j \in Index : used'[j] # 0 <=> (used[j] # 0 \/ j = b)
      BY <3>4 DEF Live
    <3> QED BY <2>1, <2>3, <2>5, <3>1, <3>4, <3>8, <3>9, <3>11, <3>12
  <2>6. CASE ~ok
    <3>1. /\ used' = [used EXCEPT ![b] = Deleted] /\ key' = [key EXCEPT ![b] = NoKey]
          /\ data' = [data EXCEPT ![b] = Unset] /\ filled' = (filled + 1) - 1 /\ size' = size
      BY <1>6, <2>2, <2>6 DEF Enter, Delete
    <3>2. Cardinality(Live \ {b}) = IF b \in Live THEN Cardinality(Live) - 1 ELSE Cardinality(Live)
      BY <2>4, FS_RemoveElement
    <3>3. filled' \in 0..size /\ filled' >= Cardinality(Live \ {b})
          /\ (EmptyBucket => filled' = Cardinality(Live \ {b}))
      BY <1>1, <2>3, <2>4, <3>1, <3>2 DEF Counted, FilledCounts
    <3>4. GoodTable' /\ Live' = Live \ {b} /\ (EmptyBucket' => EmptyBucket)
      BY <3>1, <3>3, MarkGood
    <3>5. /\ \A j \in Live \ {b} : key'[j] = key[j] /\ data'[j] = data[j]
          /\ \A j \in Index : used'[j] # 0 <=> (used[j] # 0 \/ j = b)
      BY <1>1, <3>1 DEF Live, TableTypes, Deleted
    <3> QED BY <2>1, <2>3, <2>6, <3>1, <3>4, <3>5
  <2> QED BY <2>5, <2>6
<1> QED BY <1>3, <1>4, <1>5, <1>6

-----------------------------------------------------------------------------
(* Exporting.                                                               *)

\* The sequence in the order of the keys exists: an entry's place in it is the number of
\* entries with keys up to its own.
LEMMA SortedProps ==
  ASSUME NEW E \in SUBSET Entry, IsFiniteSet(E),
         \A e, f \in E : e.key = f.key => e = f
  PROVE  /\ Sorted(E) \in [1..Cardinality(E) -> E] /\ Cardinality(E) \in Nat
         /\ \A e \in E : \E n \in 1..Cardinality(E) : Sorted(E)[n] = e
<1> DEFINE N == Cardinality(E)
           upto(e) == {f \in E : f.key <= e.key}
           rank == [e \in E |-> Cardinality(upto(e))]
           Inc(s) == \A m, n \in DOMAIN s : m < n => s[m].key < s[n].key
<1>1. N \in Nat /\ IsFiniteSet(1..N) /\ Cardinality(1..N) = N
  BY FS_CardinalityType, FS_Interval
<1>2. \A e \in E : e.key \in Nat
  BY KeysAssumption DEF Entry
<1>3. ASSUME NEW e \in E
      PROVE  IsFiniteSet(upto(e)) /\ Cardinality(upto(e)) \in 1..N
  <2>1. upto(e) \in SUBSET E /\ e \in upto(e)
    BY <1>2
  <2> HIDE DEF upto
  <2>2. IsFiniteSet(upto(e)) /\ Cardinality(upto(e)) <= N
    BY <2>1, FS_Subset
  <2>3. Cardinality(upto(e)) \in Nat /\ Cardinality(upto(e)) # 0
    BY <2>1, <2>2, FS_CardinalityType, FS_EmptySet
  <2> QED BY <1>1, <2>2, <2>3
<1>4. ASSUME NEW e \in E, NEW f \in E, e.key < f.key
      PROVE  Cardinality(upto(e)) < Cardinality(upto(f))
  <2>1. upto(e) \in SUBSET upto(f) /\ f \in upto(f) /\ f \notin upto(e)
    BY <1>2, <1>4
  <2>2. IsFiniteSet(upto(f)) /\ Cardinality(upto(e)) \in Nat /\ Cardinality(upto(f)) \in Nat
    BY <1>3
  <2> HIDE DEF upto
  <2>3. Cardinality(upto(e)) <= Cardinality(upto(f)) /\ Cardinality(upto(e)) # Cardinality(upto(f))
    BY <2>1, <2>2, FS_Subset
  <2> QED BY <2>2, <2>3
<1>5. rank \in Injection(E, 1..N)
  <2>1. rank \in [E -> 1..N]
    BY <1>3
  <2>2. ASSUME NEW e \in E, NEW f \in E, rank[e] = rank[f] PROVE e = f
    <3>1. Cardinality(upto(e)) = Cardinality(upto(f)) /\ Cardinality(upto(e)) \in Nat
      BY <2>2, <1>3
    <3> HIDE DEF upto
    <3>2. ~(e.key < f.key) /\ ~(f.key < e.key)
      BY <1>4, <3>1
    <3> QED BY <1>2, <3>2
  <2> HIDE DEF rank
  <2> QED BY <2>1, <2>2 DEF Injection, IsInjective
<1>6. rank \in Surjection(E, 1..N)
  <2> HIDE DEF rank
  <2> QED BY <1>1, <1>5, FS_Injection
<1>7. \A n \in 1..N : \E e \in E : Cardinality(upto(e)) = n
  BY <1>6 DEF Surjection
<1> DEFINE s == [n \in 1..N |-> CHOOSE e \in E : Cardinality(upto(e)) = n]
<1>8. \A n \in 1..N : s[n] \in E /\ Cardinality(upto(s[n])) = n
  <2> HIDE DEF upto
  <2> QED BY <1>7
<1>9. s \in [1..N -> E] /\ Inc(s)
  <2>1. s \in [1..N -> E]
    BY <1>8
  <2>2. ASSUME NEW m \in 1..N, NEW n \in 1..N, m < n PROVE s[m].key < s[n].key
    <3>1. s[m] \in E /\ s[n] \in E /\ Cardinality(upto(s[m])) = m /\ Cardinality(upto(s[n])) = n
      BY <1>8
    <3> HIDE DEF s, upto
    <3>2. s[m] # s[n]
      BY <2>2, <3>1, <1>1
    <3>3. s[m].key # s[n].key /\ s[m].key \in Nat /\ s[n].key \in Nat
      BY <3>1, <3>2, <1>2
    <3>4. ~(s[n].key < s[m].key)
      BY <1>4, <3>1, <2>2, <1>1
    <3> QED BY <3>3, <3>4
  <2> QED BY <2>1, <2>2
<1>10. Sorted(E) \in [1..N -> E] /\ Inc(Sorted(E))
  <2> HIDE DEF s
  <2>1. Sorted(E) = CHOOSE t \in [1..N -> E] : Inc(t)
    BY DEF Sorted
  <2> HIDE DEF Inc
  <2> QED BY <1>9, <2>1
<1> DEFINE S == Sorted(E)
<1> HIDE DEF S
<1>11. S \in Injection(1..N, E)
  <2>1. S \in [1..N -> E] /\ \A m, n \in 1..N : m < n => S[m].key < S[n].key
    BY <1>10 DEF S
  <2>2. ASSUME NEW m \in 1..N, NEW n \in 1..N, S[m] = S[n], m # n PROVE FALSE
    <3>1. S[m] \in E /\ S[m].key \in Nat
      BY <2>1, <1>2
    <3>2. m < n \/ n < m
      BY <2>2
    <3> QED BY <2>1, <2>2, <3>1, <3>2
  <2> QED BY <2>1, <2>2 DEF Injection, IsInjective
<1>12. S \in Surjection(1..N, E)
  BY <1>1, <1>11, FS_Injection
<1> QED BY <1>1, <1>10, <1>12 DEF S, Surjection

LEMMA ExportedProps ==
  ASSUME GoodTable
  PROVE  /\ Exported \in Seq(Entry) /\ Len(Exported) <= Cardinality(Live)
         /\ \A n \in DOMAIN Exported : \E i \in Live : Exported[n] = [key |-> key[i], data |-> data[i]]
         /\ \A i \in Live : \E n \in DOMAIN Exported : Exported[n] = [key |-> key[i], data |-> data[i]]
<1> DEFINE entry(i) == [key |-> key[i], data |-> data[i]]
           E == {entry(i) : i \in Live}
           f == [i \in Live |-> entry(i)]
<1>1. \A i \in Live : key[i] \in Keys /\ data[i] \in Values
  BY DEF GoodTable, Entries, Holds
<1>2. E \in SUBSET Entry
  BY <1>1 DEF Entry
<1>3. IsFiniteSet(Live)
  BY LiveFinite DEF GoodTable
<1>4. f \in Surjection(Live, E)
  BY DEF Surjection
<1>5. IsFiniteSet(E) /\ Cardinality(E) <= Cardinality(Live)
  <2> HIDE DEF f, E
  <2> QED BY <1>3, <1>4, FS_Surjection
<1>6. \A e1, e2 \in E : e1.key = e2.key => e1 = e2
  <2> SUFFICES ASSUME NEW i \in Live, NEW j \in Live, entry(i).key = entry(j).key
               PROVE  entry(i) = entry(j)
    OBVIOUS
  <2>1. key[i] = key[j]
    OBVIOUS
  <2>2. i = j
    BY <2>1 DEF GoodTable, OneEach
  <2> QED BY <2>2
<1>7. Exported = Sorted(E)
  BY DEF Exported
<1>8. /\ Sorted(E) \in [1..Cardinality(E) -> E] /\ Cardinality(E) \in Nat
      /\ \A e \in E : \E n \in 1..Cardinality(E) : Sorted(E)[n] = e
  <2> HIDE DEF E
  <2> QED BY <1>2, <1>5, <1>6, SortedProps
<1>9. Exported \in Seq(Entry) /\ Len(Exported) = Cardinality(E)
  <2> HIDE DEF E
  <2>1. Exported \in [1..Cardinality(E) -> Entry]
    BY <1>2, <1>7, <1>8
  <2> QED BY <2>1, <1>8
<1>10. DOMAIN Exported = 1..Cardinality(E) /\ \A n \in DOMAIN Exported : Exported[n] \in E
  <2> HIDE DEF E
  <2> QED BY <1>7, <1>8
<1>11. \A i \in Live : entry(i) \in E
  OBVIOUS
<1>12. \A n \in DOMAIN Exported : \E i \in Live : Exported[n] = entry(i)
  BY <1>10
<1>13. \A i \in Live : \E n \in DOMAIN Exported : Exported[n] = entry(i)
  <2> HIDE DEF E, entry
  <2> QED BY <1>7, <1>8, <1>10, <1>11
<1> QED BY <1>5, <1>9, <1>12, <1>13

-----------------------------------------------------------------------------
(* The map a table stands for, and how the operations change it.            *)

ContentOf(live, ky, dt) ==
  [k \in Keys |-> IF \E i \in live : ky[i] = k THEN dt[CHOOSE i \in live : ky[i] = k] ELSE Unset]

LEMMA ContentIs == /\ Content = ContentOf(Live, key, data)
                   /\ Content' = ContentOf(Live', key', data')
  BY DEF Content, ContentOf

LEMMA ContentOfProps ==
  ASSUME NEW live, NEW ky, NEW dt, \A i, j \in live : ky[i] = ky[j] => i = j
  PROVE  /\ ContentOf(live, ky, dt) = [k \in Keys |-> ContentOf(live, ky, dt)[k]]
         /\ \A i \in live : ky[i] \in Keys => ContentOf(live, ky, dt)[ky[i]] = dt[i]
         /\ \A k \in Keys : (\A i \in live : ky[i] # k) => ContentOf(live, ky, dt)[k] = Unset
<1>1. ASSUME NEW i \in live, ky[i] \in Keys PROVE ContentOf(live, ky, dt)[ky[i]] = dt[i]
  <2>1. (CHOOSE j \in live : ky[j] = ky[i]) = i
    OBVIOUS
  <2> QED BY <1>1, <2>1 DEF ContentOf
<1> QED BY <1>1 DEF ContentOf

LEMMA ContentProps ==
  ASSUME GoodTable
  PROVE  /\ Content \in [Keys -> Values \cup {Unset}]
         /\ \A i \in Live : key[i] \in Keys /\ Content[key[i]] = data[i] /\ data[i] \in Values
         /\ \A k \in Keys : (\A i \in Live : key[i] # k) => Content[k] = Unset
<1>1. \A i \in Live : key[i] \in Keys /\ data[i] \in Values
  BY DEF GoodTable, Entries, Holds
<1>2. \A i, j \in Live : key[i] = key[j] => i = j
  BY DEF GoodTable, OneEach
<1>3. /\ Content = [k \in Keys |-> Content[k]]
      /\ \A i \in Live : key[i] \in Keys => Content[key[i]] = data[i]
      /\ \A k \in Keys : (\A i \in Live : key[i] # k) => Content[k] = Unset
  BY <1>2, ContentIs, ContentOfProps
<1>4. \A k \in Keys : Content[k] \in Values \cup {Unset}
  BY <1>1, <1>3
<1> QED BY <1>1, <1>3, <1>4

LEMMA ContentPropsNext ==
  ASSUME GoodTable'
  PROVE  /\ Content' \in [Keys -> Values \cup {Unset}]
         /\ \A i \in Live' : key'[i] \in Keys /\ Content'[key'[i]] = data'[i] /\ data'[i] \in Values
         /\ \A k \in Keys : (\A i \in Live' : key'[i] # k) => Content'[k] = Unset
<1>1. \A i \in Live' : key'[i] \in Keys /\ data'[i] \in Values
  BY DEF GoodTable, Entries, Holds
<1>2. \A i, j \in Live' : key'[i] = key'[j] => i = j
  BY DEF GoodTable, OneEach
<1>3. /\ Content' = [k \in Keys |-> Content'[k]]
      /\ \A i \in Live' : key'[i] \in Keys => Content'[key'[i]] = data'[i]
      /\ \A k \in Keys : (\A i \in Live' : key'[i] # k) => Content'[k] = Unset
  BY <1>2, ContentIs, ContentOfProps
<1>4. \A k \in Keys : Content'[k] \in Values \cup {Unset}
  BY <1>1, <1>3
<1> QED BY <1>1, <1>3, <1>4

LEMMA ContentCreated ==
  ASSUME GoodTable', Live' = {}
  PROVE  Content' = [k \in Keys |-> Unset]
  BY ContentPropsNext

LEMMA ContentSame ==
  ASSUME GoodTable, UNCHANGED table
  PROVE  Content' = Content
<1>1. Live' = Live /\ key' = key /\ data' = data
  BY SameTable DEF table
<1> QED BY <1>1, ContentIs

\* A table with an unused bucket is not full.
LEMMA NotFull ==
  ASSUME GoodTable, EmptyBucket
  PROVE  filled # size
<1>1. Proper /\ size \in Nat /\ filled = Cardinality(Live)
  BY DEF GoodTable, Proper, Counted, FilledCounts
<1>2. PICK e \in Index : used[e] = 0
  BY DEF EmptyBucket
<1>3. Live \in SUBSET Index /\ e \notin Live /\ IsFiniteSet(Index)
  BY <1>1, <1>2, LiveFinite DEF Live
<1>4. Cardinality(Index) = size
  BY <1>1, FS_Interval DEF Index
<1>5. Cardinality(Index) = Cardinality(Live) => Index = Live
  BY <1>3, FS_Subset
<1> QED BY <1>1, <1>2, <1>3, <1>4, <1>5

\* Deleting a variable changes no other.
LEMMA ContentDeleted ==
  ASSUME GoodTable, NEW k \in Keys, NEW ok \in BOOLEAN, HdeleteR(k, ok)
  PROVE  Content' = IF ok THEN [Content EXCEPT ![k] = Unset] ELSE Content
<1>1. GoodTable'
  BY HdeleteGood
<1>2. CASE ~ok /\ UNCHANGED table
  BY <1>2, ContentSame
<1>3. CASE Find(k) = 0 /\ UNCHANGED table
  <2>1. {i \in Live : key[i] = k} = {}
    BY <1>3, FindProps DEF GoodTable
  <2>2. Content[k] = Unset /\ Content \in [Keys -> Values \cup {Unset}]
    BY <2>1, ContentProps
  <2> QED BY <1>3, <2>2, ContentSame
<1>4. ASSUME NEW b \in Index, b \in Live, key[b] = k, ok, Live' = Live \ {b},
             \A j \in Live' : key'[j] = key[j] /\ data'[j] = data[j]
      PROVE  Content' = [Content EXCEPT ![k] = Unset]
  <2>1. ASSUME NEW x \in Keys PROVE Content'[x] = IF x = k THEN Unset ELSE Content[x]
    <3>1. CASE x = k
      <4>1. \A i \in Live' : key'[i] # k
        BY <1>4 DEF GoodTable, OneEach
      <4> QED BY <3>1, <4>1, <1>1, ContentPropsNext
    <3>2. CASE x # k /\ \E i \in Live : key[i] = x
      <4>1. PICK i \in Live : key[i] = x
        BY <3>2
      <4>2. i \in Live' /\ key'[i] = x /\ data'[i] = data[i]
        BY <1>4, <3>2, <4>1
      <4> QED BY <1>1, <3>2, <4>1, <4>2, ContentProps, ContentPropsNext
    <3>3. CASE x # k /\ \A i \in Live : key[i] # x
      <4>1. \A i \in Live' : key'[i] # x
        BY <1>4, <3>3
      <4> QED BY <1>1, <3>3, <4>1, ContentProps, ContentPropsNext
    <3> QED BY <3>1, <3>2, <3>3
  <2>2. Content' \in [Keys -> Values \cup {Unset}] /\ Content \in [Keys -> Values \cup {Unset}]
    BY <1>1, ContentProps, ContentPropsNext
  <2> QED BY <2>1, <2>2
<1> QED BY <1>2, <1>3, <1>4, HdeleteGood

\* Setting a variable changes no other, as long as an unused bucket is left.
LEMMA ContentEntered ==
  ASSUME GoodTable, EmptyBucket, NEW k \in Keys, NEW v \in Values, NEW ok \in BOOLEAN, Enter(k, v, ok)
  PROVE  Content' = IF ok THEN [Content EXCEPT ![k] = v] ELSE Content
<1>1. GoodTable' /\ filled # size
  BY EnterGood, NotFull
<1>2. CASE UNCHANGED table /\ (ok => filled = size)
  BY <1>1, <1>2, ContentSame
<1>3. /\ Content' \in [Keys -> Values \cup {Unset}] /\ Content \in [Keys -> Values \cup {Unset}]
      /\ \A i \in Live : key[i] \in Keys /\ Content[key[i]] = data[i]
      /\ \A i \in Live' : key'[i] \in Keys /\ Content'[key'[i]] = data'[i]
      /\ \A x \in Keys : (\A i \in Live : key[i] # x) => Content[x] = Unset
      /\ \A x \in Keys : (\A i \in Live' : key'[i] # x) => Content'[x] = Unset
  BY <1>1, ContentProps, ContentPropsNext
<1>4. ASSUME NEW b \in Live, key[b] = k, ok, Live' = Live, data'[b] = v,
             \A j \in Live : key'[j] = key[j], \A j \in Live \ {b} : data'[j] = data[j]
      PROVE  Content' = [Content EXCEPT ![k] = v]
  <2>1. ASSUME NEW x \in Keys PROVE Content'[x] = IF x = k THEN v ELSE Content[x]
    <3>1. CASE \E i \in Live : key[i] = x
      <4>1. PICK i \in Live : key[i] = x
        BY <3>1
      <4>2. (i = b) <=> (x = k)
        BY <1>4, <4>1 DEF GoodTable, OneEach
      <4> QED BY <1>3, <1>4, <4>1, <4>2
    <3>2. CASE \A i \in Live : key[i] # x
      BY <1>3, <1>4, <3>2
    <3> QED BY <3>1, <3>2
  <2> QED BY <2>1, <1>3
<1>5. ASSUME NEW b \in Index, b \notin Live, \A i \in Live : key[i] # k,
             IF ok THEN Live' = Live \cup {b} /\ key'[b] = k /\ data'[b] = v ELSE Live' = Live \ {b},
             \A j \in Live \ {b} : key'[j] = key[j] /\ data'[j] = data[j]
      PROVE  Content' = IF ok THEN [Content EXCEPT ![k] = v] ELSE Content
  <2>1. ASSUME NEW x \in Keys PROVE Content'[x] = IF ok /\ x = k THEN v ELSE Content[x]
    <3>1. CASE ok /\ x = k
      BY <1>3, <1>5, <3>1
    <3>2. CASE ~(ok /\ x = k) /\ \E i \in Live : key[i] = x
      <4>1. PICK i \in Live : key[i] = x
        BY <3>2
      <4>2. i \in Live' /\ key'[i] = x /\ data'[i] = data[i]
        BY <1>5, <4>1
      <4> QED BY <1>3, <3>2, <4>1, <4>2
    <3>3. CASE ~(ok /\ x = k) /\ \A i \in Live : key[i] # x
      <4>1. \A i \in Live' : key'[i] # x
        BY <1>5, <3>3
      <4> QED BY <1>3, <3>3, <4>1
    <3> QED BY <3>1, <3>2, <3>3
  <2> QED BY <2>1, <1>3
<1> QED BY <1>2, <1>4, <1>5, EnterGood

-----------------------------------------------------------------------------
(* The invariant of the specification.                                      *)

OtherTypes == /\ pc \in {"off", "boot", "up", "shell", "import", "write"}
              /\ todo \in Seq(Entry)
              /\ listed \in BOOLEAN
              /\ vars \subseteq Keys
              /\ flash \in Seq(Entry) \cup {NoCopy}
              /\ refused \subseteq Keys

\* No table while power is off; then one of a size that was asked for.
SizeOK == IF pc = "off" THEN size = 0 /\ filled = 0 /\ used = <<>> /\ key = <<>> /\ data = <<>>
                        ELSE GoodTable /\ \E nel \in Nels : size = TableSize(nel)

\* What is on the flash fits there, and while it is written nothing else is.
Room == /\ pc = "write" => flash = NoCopy /\ Cardinality(Live) <= EnvRoom
        /\ flash # NoCopy => Len(flash) <= EnvRoom

EnvInv == OtherTypes /\ SizeOK /\ Room

LEMMA OffFacts ==
  ASSUME size = 0, filled = 0, used = <<>>, key = <<>>, data = <<>>
  PROVE  /\ TypeOK <=> OtherTypes
         /\ FilledCounts /\ ProbesAll /\ Live = {} /\ Index = {}
<1>1. Index = {}
  BY DEF Index
<1>2. Live = {}
  BY <1>1 DEF Live
<1>3. ~EmptyBucket
  BY <1>1 DEF EmptyBucket
<1>4. 1..(size - 1) = {}
  OBVIOUS
<1>5. \A S : <<>> \in [{} -> S]
  OBVIOUS
<1>6. TypeOK <=> OtherTypes
  BY <1>1, <1>5 DEF TypeOK, OtherTypes
<1> QED BY <1>1, <1>2, <1>3, <1>4, <1>6 DEF FilledCounts, ProbesAll

LEMMA EnvInvProps == EnvInv => TypeOK /\ FindsExported /\ FilledCounts /\ ProbesAll
<1> SUFFICES ASSUME EnvInv PROVE TypeOK /\ FindsExported /\ FilledCounts /\ ProbesAll
  OBVIOUS
<1>1. CASE pc = "off"
  BY <1>1, OffFacts DEF EnvInv, SizeOK, FindsExported
<1>2. CASE pc # "off"
  <2>1. GoodTable /\ OtherTypes
    BY <1>2 DEF EnvInv, SizeOK
  <2>2. TypeOK
    BY <2>1 DEF GoodTable, Proper, TableTypes, OtherTypes, TypeOK
  <2>3. FindsExported
    BY <2>1, FindProps DEF FindsExported, GoodTable
  <2> QED BY <2>1, <2>2, <2>3, ProperProbesAll DEF GoodTable, Counted
<1> QED BY <1>1, <1>2

LEMMA EnvInit == Init => EnvInv
<1> SUFFICES ASSUME Init PROVE EnvInv
  OBVIOUS
<1>1. <<>> \in Seq(Entry)
  OBVIOUS
<1> QED BY <1>1 DEF Init, EnvInv, OtherTypes, SizeOK, Room

\* The steps that change nothing in the table.
LEMMA TableKept ==
  ASSUME EnvInv, pc # "off", pc' # "off", UNCHANGED table
  PROVE  SizeOK' /\ Live' = Live /\ Content' = Content
<1>1. GoodTable /\ \E nel \in Nels : size = TableSize(nel)
  BY DEF EnvInv, SizeOK
<1>2. GoodTable' /\ size' = size /\ Live' = Live
  BY <1>1, SameTable
<1> QED BY <1>1, <1>2, ContentSame DEF SizeOK

LEMMA TableChanged ==
  ASSUME EnvInv, pc # "off", pc' # "off", GoodTable', size' = size
  PROVE  SizeOK'
  BY DEF EnvInv, SizeOK

\* The beginning of an import.
LEMMA ImportStartInv ==
  ASSUME EnvInv, NEW es \in Seq(Entry), NEW keep \in BOOLEAN, pc # "off" \/ ~keep, NEW only \in SUBSET Keys,
         ImportStart(es, keep, only), flash' = flash, pc' \in {"import", "boot"}
  PROVE  /\ EnvInv' /\ todo' = es /\ listed' = (only # {}) /\ vars' = only /\ refused' = {}
         /\ \/ keep /\ pc # "off" /\ Content' = Content
            \/ ~keep /\ \E nel \in Nels : HcreateR(nel)
<1>1. todo' = es /\ listed' = (only # {}) /\ vars' = only /\ refused' = {}
  BY DEF ImportStart
<1>2. OtherTypes' /\ Room'
  BY <1>1 DEF EnvInv, OtherTypes, Room
<1>3. CASE keep
  <2>1. UNCHANGED table
    BY <1>3 DEF ImportStart
  <2> QED BY <1>1, <1>2, <1>3, <2>1, TableKept DEF EnvInv
<1>4. CASE ~keep
  <2>1. PICK nel \in Nels : HcreateR(nel)
    BY <1>4 DEF ImportStart
  <2>2. GoodTable' /\ size' = TableSize(nel)
    BY <2>1, HcreateGood
  <2>3. SizeOK'
    BY <2>2 DEF SizeOK
  <2> QED BY <1>1, <1>2, <1>4, <2>1, <2>3 DEF EnvInv
<1> QED BY <1>3, <1>4

-----------------------------------------------------------------------------
(* Every step keeps the invariant, and is a step of the map.                *)

AbsStep == [Abs!Next]_<<Content, Saved>>

LEMMA SavedSame == flash' = flash => Saved' = Saved
  BY DEF Saved, Meaning

LEMMA AbsChange ==
  ASSUME NEW k \in Keys, NEW v \in Values \cup {Unset}, flash' = flash,
         Content' = [Content EXCEPT ![k] = v]
  PROVE  AbsStep
  BY SavedSame DEF AbsStep, Abs!Next, Abs!Change

LEMMA AbsForget ==
  ASSUME flash' = flash, Content' = [k \in Keys |-> Unset]
  PROVE  AbsStep
  BY SavedSame DEF AbsStep, Abs!Next, Abs!Forget, Abs!AllUnset

LEMMA AbsStutter ==
  ASSUME flash' = flash, Content' = Content
  PROVE  AbsStep
  BY SavedSame DEF AbsStep

\* Changes of one variable.
LEMMA EnterStep ==
  ASSUME EnvInv, pc # "off", pc' # "off", flash' = flash, pc' # "write", OtherTypes',
         NEW k \in Keys, NEW v \in Values, NEW ok \in BOOLEAN, Enter(k, v, ok)
  PROVE  EnvInv' /\ (EmptyBucket' \/ size' = 0 => AbsStep)
<1>1. GoodTable
  BY DEF EnvInv, SizeOK
<1>2. GoodTable' /\ size' = size /\ (EmptyBucket' => EmptyBucket)
  BY <1>1, EnterGood
<1>3. SizeOK' /\ Room' /\ size' # 0
  BY <1>1, <1>2, TableChanged DEF EnvInv, Room, GoodTable, Proper
<1>4. ASSUME EmptyBucket' PROVE AbsStep
  <2>1. Content' = IF ok THEN [Content EXCEPT ![k] = v] ELSE Content
    BY <1>1, <1>2, <1>4, ContentEntered
  <2> QED BY <2>1, AbsChange, AbsStutter
<1> QED BY <1>3, <1>4 DEF EnvInv

LEMMA HdeleteStep ==
  ASSUME EnvInv, pc # "off", pc' # "off", flash' = flash, pc' # "write", OtherTypes',
         NEW k \in Keys, NEW ok \in BOOLEAN, HdeleteR(k, ok)
  PROVE  EnvInv' /\ AbsStep
<1>1. GoodTable
  BY DEF EnvInv, SizeOK
<1>2. GoodTable' /\ size' = size
  BY <1>1, HdeleteGood
<1>3. SizeOK' /\ Room'
  BY <1>1, <1>2, TableChanged DEF EnvInv, Room
<1>4. Content' = IF ok THEN [Content EXCEPT ![k] = Unset] ELSE Content
  BY <1>1, ContentDeleted
<1> QED BY <1>3, <1>4, AbsChange, AbsStutter DEF EnvInv

LEMMA ImportStartStep ==
  ASSUME EnvInv, NEW es \in Seq(Entry), NEW keep \in BOOLEAN, pc # "off" \/ ~keep, NEW only \in SUBSET Keys,
         ImportStart(es, keep, only), flash' = flash, pc' \in {"import", "boot"}
  PROVE  EnvInv' /\ AbsStep
<1>1. EnvInv' /\ (\/ keep /\ pc # "off" /\ Content' = Content
                  \/ ~keep /\ \E nel \in Nels : HcreateR(nel))
  BY ImportStartInv
<1>2. ASSUME NEW nel \in Nels, HcreateR(nel) PROVE AbsStep
  <2>1. GoodTable' /\ Live' = {}
    BY <1>2, HcreateGood
  <2> QED BY <2>1, ContentCreated, AbsForget
<1> QED BY <1>1, <1>2, AbsStutter

LEMMA ImportEntryStep ==
  ASSUME EnvInv, NEW at \in {"boot", "import"}, ImportEntry(at)
  PROVE  EnvInv' /\ (EmptyBucket' \/ size' = 0 => AbsStep)
<1> DEFINE e == Head(todo)
<1>1. /\ pc = at /\ todo # <<>> /\ todo' = Tail(todo) /\ UNCHANGED <<pc, listed, flash>>
  BY DEF ImportEntry
<1>2. e \in Entry /\ Tail(todo) \in Seq(Entry) /\ e.key \in Keys /\ e.data \in Values
  <2>1. todo \in Seq(Entry)
    BY DEF EnvInv, OtherTypes
  <2>2. e \in Entry /\ Tail(todo) \in Seq(Entry)
    BY <1>1, <2>1
  <2> QED BY <2>2 DEF Entry
<1>3. CASE listed /\ e.key \notin vars
  <2>1. UNCHANGED <<table, vars, refused>>
    BY <1>3 DEF ImportEntry
  <2>2. OtherTypes'
    BY <1>1, <1>2, <2>1 DEF EnvInv, OtherTypes
  <2>3. SizeOK' /\ Content' = Content
    BY <1>1, <2>1, TableKept
  <2> QED BY <1>1, <2>2, <2>3, AbsStutter DEF EnvInv, Room
<1>4. CASE ~(listed /\ e.key \notin vars)
  <2>1. PICK ok \in BOOLEAN :
          /\ IF e.data = Empty THEN HdeleteR(e.key, ok) ELSE Enter(e.key, e.data, ok)
          /\ refused' = IF ok \/ at # "boot" THEN refused ELSE refused \cup {e.key}
    BY <1>4 DEF ImportEntry
  <2>2. vars' = vars \ {e.key}
    BY <1>4 DEF ImportEntry
  <2>3. OtherTypes'
    BY <1>1, <1>2, <2>1, <2>2 DEF EnvInv, OtherTypes
  <2>4. PICK k \in Keys, v \in Values : k = e.key /\ v = e.data
    BY <1>2
  <2>5. pc # "off" /\ pc' # "off" /\ flash' = flash /\ pc' # "write"
    BY <1>1
  <2>6. CASE v = Empty
    <3>1. HdeleteR(k, ok)
      BY <2>1, <2>4, <2>6
    <3> QED BY <2>3, <2>5, <3>1, HdeleteStep
  <2>7. CASE v # Empty
    <3>1. Enter(k, v, ok)
      BY <2>1, <2>4, <2>7
    <3> QED BY <2>3, <2>5, <3>1, EnterStep
  <2> QED BY <2>6, <2>7
<1> QED BY <1>3, <1>4

LEMMA ImportRestStep == EnvInv /\ ImportRest => EnvInv' /\ AbsStep
<1> SUFFICES ASSUME EnvInv, ImportRest PROVE EnvInv' /\ AbsStep
  OBVIOUS
<1>1. PICK k \in vars, ok \in BOOLEAN : vars' = vars \ {k} /\ HdeleteR(k, ok)
  BY DEF ImportRest
<1>2. pc = "import" /\ UNCHANGED <<pc, todo, listed, refused, flash>> /\ k \in Keys
  BY DEF ImportRest, EnvInv, OtherTypes
<1>3. OtherTypes'
  BY <1>1, <1>2 DEF EnvInv, OtherTypes
<1> QED BY <1>1, <1>2, <1>3, HdeleteStep

LEMMA ImportDoneStep ==
  ASSUME EnvInv, NEW at \in {"boot", "import"}, NEW next \in {"up", "shell"}, ImportDone(at, next)
  PROVE  EnvInv' /\ AbsStep
<1>1. pc = at /\ pc' = next /\ listed' = FALSE /\ UNCHANGED <<table, todo, vars, refused, flash>>
  BY DEF ImportDone
<1>2. SizeOK' /\ Content' = Content
  BY <1>1, TableKept
<1> QED BY <1>1, <1>2, AbsStutter DEF EnvInv, OtherTypes, Room

\* The sequence that is saved stands for the map, without the empty values.
LEMMA ExportedMeans ==
  ASSUME GoodTable
  PROVE  Meaning(Exported) = Abs!Kept(Content)
<1> DEFINE es == Exported
<1>1. /\ es \in Seq(Entry)
      /\ \A n \in DOMAIN es : \E i \in Live : es[n] = [key |-> key[i], data |-> data[i]]
      /\ \A i \in Live : \E n \in DOMAIN es : es[n] = [key |-> key[i], data |-> data[i]]
  BY ExportedProps
<1>2. /\ \A i \in Live : key[i] \in Keys /\ Content[key[i]] = data[i]
      /\ \A k \in Keys : (\A i \in Live : key[i] # k) => Content[k] = Unset
      /\ \A i, j \in Live : key[i] = key[j] => i = j
  BY ContentProps DEF GoodTable, OneEach
<1> HIDE DEF es
<1>3. ASSUME NEW k \in Keys
      PROVE  Meaning(es)[k] = IF Content[k] = Empty THEN Unset ELSE Content[k]
  <2> DEFINE at == {n \in DOMAIN es : es[n].key = k}
  <2>1. Meaning(es)[k] = IF at = {} \/ es[Max(at)].data = Empty THEN Unset ELSE es[Max(at)].data
    BY DEF Meaning
  <2>2. CASE \E i \in Live : key[i] = k
    <3>1. PICK i \in Live : key[i] = k
      BY <2>2
    <3>2. at # {}
      BY <1>1, <3>1
    <3>3. \A n \in at : es[n].data = data[i]
      BY <1>1, <1>2, <3>1
    <3>4. at \in SUBSET Nat /\ Len(es) \in Nat /\ \A m \in at : m <= Len(es)
      BY <1>1
    <3>5. Max(at) \in at
      <4> HIDE DEF at
      <4> QED BY <3>2, <3>4, MaxProps
    <3> HIDE DEF at
    <3> QED BY <1>2, <2>1, <3>1, <3>2, <3>3, <3>5
  <2>3. CASE \A i \in Live : key[i] # k
    <3>1. at = {}
      BY <1>1, <2>3
    <3> QED BY <1>2, <2>1, <2>3, <3>1
  <2> QED BY <2>2, <2>3
<1>4. Meaning(es) = [k \in Keys |-> Meaning(es)[k]]
  BY DEF Meaning
<1> QED BY <1>3, <1>4 DEF Abs!Kept, es

LEMMA SaveEraseStep == EnvInv /\ SaveErase => EnvInv' /\ AbsStep
<1> SUFFICES ASSUME EnvInv, SaveErase PROVE EnvInv' /\ AbsStep
  OBVIOUS
<1>1. /\ Prompt /\ Cardinality(Live) <= EnvRoom /\ flash' \in {flash, NoCopy}
      /\ pc' \in {"write", "shell"} /\ (pc' = "write" => flash' = NoCopy)
      /\ refused' = {} /\ UNCHANGED <<table, todo, listed, vars>>
  BY DEF SaveErase
<1>2. SizeOK' /\ Live' = Live /\ Content' = Content
  BY <1>1, TableKept DEF Prompt
<1>3. EnvInv'
  BY <1>1, <1>2 DEF EnvInv, OtherTypes, Room
<1>4. CASE flash' = flash
  BY <1>2, <1>4, AbsStutter, <1>3
<1>5. CASE flash' = NoCopy
  <2>1. Saved' = NoCopy
    BY <1>5 DEF Saved
  <2> QED BY <1>2, <1>3, <2>1 DEF AbsStep, Abs!Next, Abs!EraseCopy
<1> QED BY <1>1, <1>4, <1>5

LEMMA SaveWriteStep == EnvInv /\ SaveWrite => EnvInv' /\ AbsStep
<1> SUFFICES ASSUME EnvInv, SaveWrite PROVE EnvInv' /\ AbsStep
  OBVIOUS
<1>1. /\ pc = "write" /\ flash' \in {Exported, NoCopy} /\ pc' = "shell" /\ UNCHANGED table
      /\ todo' = todo /\ listed' = listed /\ vars' = vars /\ refused' = refused
  BY DEF SaveWrite, importing
<1>2. SizeOK' /\ Content' = Content /\ GoodTable
  BY <1>1, TableKept DEF EnvInv, SizeOK
<1>3. flash = NoCopy /\ Cardinality(Live) <= EnvRoom
  BY <1>1 DEF EnvInv, Room
<1>4. Exported \in Seq(Entry) /\ Len(Exported) <= EnvRoom /\ Exported # NoCopy
  <2>1. Exported \in Seq(Entry) /\ Len(Exported) <= Cardinality(Live) /\ Cardinality(Live) \in Nat
    BY <1>2, ExportedProps, LiveFinite DEF GoodTable
  <2>2. Len(Exported) \in Nat
    BY <2>1
  <2> QED BY <1>3, <2>1, <2>2, DefaultAssumption, NelsAssumption
<1>5. EnvInv'
  BY <1>1, <1>2, <1>4 DEF EnvInv, OtherTypes, Room
<1>6. CASE flash' = NoCopy
  BY <1>2, <1>3, <1>5, <1>6, AbsStutter
<1>7. CASE flash' = Exported
  <2>1. PICK es \in Seq(Entry) : es = Exported
    BY <1>4
  <2>2. Saved = NoCopy /\ Saved' = Meaning(es)
    BY <1>3, <1>4, <1>7, <2>1 DEF Saved, Meaning
  <2>3. Saved' = Abs!Kept(Content)
    BY <1>2, <2>1, <2>2, ExportedMeans
  <2> QED BY <1>2, <1>5, <2>2, <2>3 DEF AbsStep, Abs!Next, Abs!Save
<1> QED BY <1>1, <1>6, <1>7

LEMMA PowerCutStep == EnvInv /\ PowerCut => EnvInv' /\ AbsStep
<1> SUFFICES ASSUME EnvInv, PowerCut PROVE EnvInv' /\ AbsStep
  OBVIOUS
<1>1. /\ pc' = "off" /\ size' = 0 /\ filled' = 0 /\ used' = <<>> /\ key' = <<>> /\ data' = <<>>
      /\ todo' = <<>> /\ listed' = FALSE /\ vars' = {} /\ refused' = {} /\ flash' = flash
  BY DEF PowerCut
<1>2. <<>> \in Seq(Entry)
  OBVIOUS
<1>3. EnvInv'
  BY <1>1, <1>2 DEF EnvInv, OtherTypes, SizeOK, Room
<1>4. Live' = {}
  BY <1>1 DEF Live, Index
<1>5. Content' = [k \in Keys |-> Unset]
  BY <1>4, ContentIs DEF ContentOf
<1> QED BY <1>1, <1>3, <1>5, AbsForget

LEMMA BoundedImportsSeq == BoundedImports \subseteq Seq(Entry)
<1> SUFFICES ASSUME NEW n \in 1..MaxImport, NEW es \in [1..n -> Entry] PROVE es \in Seq(Entry)
  BY DEF BoundedImports
<1>1. n \in Nat
  BY NelsAssumption
<1> QED BY <1>1

LEMMA EnvNext == EnvInv /\ [Next]_allvars => EnvInv' /\ [EmptyBucket' \/ size' = 0 => AbsStep]_allvars
<1> SUFFICES ASSUME EnvInv, [Next]_allvars
             PROVE  EnvInv' /\ (UNCHANGED allvars \/ (EmptyBucket' \/ size' = 0 => AbsStep))
  OBVIOUS
<1>1. CASE UNCHANGED allvars
  <2>1. /\ UNCHANGED table /\ pc' = pc /\ todo' = todo /\ listed' = listed /\ vars' = vars
        /\ refused' = refused /\ flash' = flash
    BY <1>1 DEF allvars, importing
  <2>2. OtherTypes' /\ (pc # "off" => SizeOK' /\ Live' = Live)
    BY <2>1, TableKept DEF EnvInv, OtherTypes
  <2>3. pc = "off" => SizeOK'
    BY <2>1 DEF EnvInv, SizeOK, table
  <2>4. Room'
    BY <2>1, <2>2 DEF EnvInv, Room
  <2> QED BY <1>1, <2>2, <2>3, <2>4 DEF EnvInv
<1>2. CASE EnvRelocate
  <2>1. PICK es \in Seq(Entry) : es = IF flash = NoCopy THEN Default ELSE flash
    BY DefaultAssumption DEF EnvInv, OtherTypes
  <2>2. ImportStart(es, FALSE, {}) /\ pc' = "boot" /\ flash' = flash
    BY <1>2, <2>1 DEF EnvRelocate
  <2> QED BY <2>2, ImportStartStep
<1>3. CASE ImportEntry("boot")
  BY <1>3, ImportEntryStep
<1>4. CASE ImportDone("boot", "up")
  BY <1>4, ImportDoneStep
<1>5. ASSUME NEW k \in Keys, NEW v \in Values, EnvSet(k, v) PROVE EnvInv' /\ (EmptyBucket' \/ size' = 0 => AbsStep)
  <2>1. PICK ok \in BOOLEAN : Enter(k, v, ok)
    BY <1>5 DEF EnvSet
  <2>2. Prompt /\ pc' = "shell" /\ refused' = {} /\ UNCHANGED <<todo, listed, vars, flash>>
    BY <1>5 DEF EnvSet
  <2>3. OtherTypes' /\ pc # "off"
    BY <2>2 DEF EnvInv, OtherTypes, Prompt
  <2> QED BY <2>1, <2>2, <2>3, EnterStep
<1>6. ASSUME NEW k \in Keys, EnvDelete(k) PROVE EnvInv' /\ AbsStep
  <2>1. PICK ok \in BOOLEAN : HdeleteR(k, ok)
    BY <1>6 DEF EnvDelete
  <2>2. Prompt /\ pc' = "shell" /\ refused' = {} /\ UNCHANGED <<todo, listed, vars, flash>>
    BY <1>6 DEF EnvDelete
  <2>3. OtherTypes' /\ pc # "off"
    BY <2>2 DEF EnvInv, OtherTypes, Prompt
  <2> QED BY <2>1, <2>2, <2>3, HdeleteStep
<1>7. ASSUME NEW es \in BoundedImports, NEW keep \in BOOLEAN, EnvImport(es, keep) PROVE EnvInv' /\ AbsStep
  <2>1. es \in Seq(Entry) /\ pc # "off"
    BY <1>7, BoundedImportsSeq DEF EnvImport, Prompt
  <2> QED BY <1>7, <2>1, ImportStartStep DEF EnvImport
<1>8. CASE EnvDefaultAll
  BY <1>8, DefaultAssumption, ImportStartStep DEF EnvDefaultAll
<1>9. ASSUME NEW only \in SUBSET Keys \ {{}}, EnvDefaultVars(only) PROVE EnvInv' /\ AbsStep
  <2>1. pc # "off"
    BY <1>9 DEF EnvDefaultVars, Prompt
  <2> QED BY <1>9, <2>1, DefaultAssumption, ImportStartStep DEF EnvDefaultVars
<1>10. CASE ImportEntry("import")
  BY <1>10, ImportEntryStep
<1>11. CASE ImportDone("import", "shell")
  BY <1>11, ImportDoneStep
<1> QED BY <1>1, <1>2, <1>3, <1>4, <1>5, <1>6, <1>7, <1>8, <1>9, <1>10, <1>11, ImportRestStep,
           SaveEraseStep, SaveWriteStep, PowerCutStep DEF Next

\* The types of the environment's state; htab->filled never exceeds the size of the table and is
\* never decremented below zero, whatever sequence of commands, refusals and power cuts.
THEOREM EnvTypes == Spec => []TypeOK
<1>1. Spec => []EnvInv
  BY EnvInit, EnvNext, PTL DEF Spec
<1> QED BY <1>1, EnvInvProps, PTL

\* A search finds every variable that printenv and saveenv list, and nothing else, also in a
\* table whose unused buckets have been used up by deletions.
THEOREM SearchFinds == Spec => []FindsExported
<1>1. Spec => []EnvInv
  BY EnvInit, EnvNext, PTL DEF Spec
<1> QED BY <1>1, EnvInvProps, PTL

\* htab->filled counts the entries, while an unused bucket is left.
THEOREM FilledIsCount == Spec => []FilledCounts
<1>1. Spec => []EnvInv
  BY EnvInit, EnvNext, PTL DEF Spec
<1> QED BY <1>1, EnvInvProps, PTL

\* The two hash functions of hsearch_r visit every bucket of every table hcreate_r makes.
THEOREM SearchIsComplete == Spec => []ProbesAll
<1>1. Spec => []EnvInv
  BY EnvInit, EnvNext, PTL DEF Spec
<1> QED BY <1>1, EnvInvProps, PTL

\* Each step of the hash table, its import and export and the commands is a step of the map of
\* EnvStore, as long as an unused bucket is left.
THEOREM TableIsMap == Spec => ImplementsEnvStore
<1>1. EnvInv /\ [Next]_allvars => [EmptyBucket' \/ size' = 0 => [Abs!Next]_<<Content, Saved>>]_allvars
  BY EnvNext DEF AbsStep
<1>2. EnvInv /\ [Next]_allvars => EnvInv'
  BY EnvNext
<1> QED BY <1>1, <1>2, EnvInit, PTL DEF Spec, ImplementsEnvStore

-----------------------------------------------------------------------------
(* Booting restores what was saved.                                         *)

\* Every environment that is loaded fits into every table: himport_r computes the size of the
\* table from the size of the data, up to a limit.
Fits == \A nel \in Nels : Len(Default) <= TableSize(nel) /\ EnvRoom <= TableSize(nel)

Source == IF flash = NoCopy THEN Default ELSE flash

\* The meaning of the first n entries.
Upto(es, n) ==
  [k \in Keys |-> LET at == {m \in 1..n : es[m].key = k}
                  IN IF at = {} \/ es[Max(at)].data = Empty THEN Unset ELSE es[Max(at)].data]

UsedUp == {i \in Index : used[i] # 0}

\* The first n entries are imported, and each of them took at most one bucket.
Progress(es, n) == /\ n + Len(todo) = Len(es)
                   /\ \A m \in 1..Len(todo) : todo[m] = es[n + m]
                   /\ \A k \in Keys \ refused : Content[k] = Upto(es, n)[k]
                   /\ Cardinality(UsedUp) <= n

Booting == pc = "boot" => ~listed /\ \E es \in Seq(Entry), n \in Nat : es = Source /\ Progress(es, n)

BootInv == EnvInv /\ Booting /\ BootRestores

LEMMA UptoNext ==
  ASSUME NEW es \in Seq(Entry), NEW n \in Nat, n + 1 <= Len(es), NEW k \in Keys
  PROVE  Upto(es, n + 1)[k] = IF k = es[n + 1].key
                              THEN IF es[n + 1].data = Empty THEN Unset ELSE es[n + 1].data
                              ELSE Upto(es, n)[k]
<1> DEFINE at(l) == {m \in 1..l : es[m].key = k}
<1>1. \A l : Upto(es, l)[k] = IF at(l) = {} \/ es[Max(at(l))].data = Empty THEN Unset ELSE es[Max(at(l))].data
  BY DEF Upto
<1>2. CASE k = es[n + 1].key
  <2> DEFINE T == at(n + 1)
  <2>1. n + 1 \in T /\ T \in SUBSET Nat /\ \A m \in T : m <= n + 1
    BY <1>2
  <2>2. Max(T) \in T /\ \A m \in T : m <= Max(T)
    <3> HIDE DEF T
    <3> QED BY <2>1, MaxProps
  <2>3. Max(T) = n + 1 /\ T # {}
    <3> HIDE DEF T
    <3>1. Max(T) \in Nat /\ Max(T) <= n + 1 /\ n + 1 <= Max(T)
      BY <2>1, <2>2
    <3> QED BY <2>1, <3>1
  <2> HIDE DEF at
  <2> QED BY <1>1, <1>2, <2>3
<1>3. CASE k # es[n + 1].key
  <2>1. at(n + 1) = at(n)
    BY <1>3
  <2> HIDE DEF at
  <2> QED BY <1>1, <1>3, <2>1
<1> QED BY <1>2, <1>3

LEMMA UptoNone == \A es : \A k \in Keys : Upto(es, 0)[k] = Unset
  BY DEF Upto

LEMMA UptoAll ==
  ASSUME NEW es \in Seq(Entry)
  PROVE  Upto(es, Len(es)) = Meaning(es)
<1>1. DOMAIN es = 1..Len(es)
  OBVIOUS
<1> QED BY <1>1 DEF Upto, Meaning

LEMMA UsedUpFinite ==
  ASSUME Proper
  PROVE  IsFiniteSet(UsedUp) /\ Cardinality(UsedUp) \in Nat /\ (~EmptyBucket => Cardinality(UsedUp) = size)
<1>1. IsFiniteSet(Index) /\ UsedUp \in SUBSET Index
  BY LiveFinite DEF UsedUp
<1>2. IsFiniteSet(UsedUp) /\ Cardinality(UsedUp) \in Nat
  BY <1>1, FS_Subset, FS_CardinalityType
<1>3. ASSUME ~EmptyBucket PROVE Cardinality(UsedUp) = size
  <2>1. UsedUp = Index
    BY <1>3 DEF EmptyBucket, UsedUp
  <2>2. size \in Nat
    BY DEF Proper
  <2> QED BY <2>1, <2>2, FS_Interval DEF Index
<1> QED BY <1>2, <1>3

\* An operation on one variable uses up at most one more bucket.
LEMMA UsedUpGrows ==
  ASSUME GoodTable, size' = size,
         \/ used' = used
         \/ \E b \in Index : \A j \in Index : used'[j] # 0 <=> (used[j] # 0 \/ j = b)
  PROVE  Cardinality(UsedUp') \in Nat /\ Cardinality(UsedUp') <= Cardinality(UsedUp) + 1
<1>1. Index' = Index /\ Proper
  BY SameProbe DEF GoodTable
<1>2. IsFiniteSet(UsedUp) /\ Cardinality(UsedUp) \in Nat
  BY <1>1, UsedUpFinite
<1>3. CASE used' = used
  <2>1. UsedUp' = UsedUp
    BY <1>1, <1>3 DEF UsedUp
  <2> QED BY <1>2, <2>1
<1>4. ASSUME NEW b \in Index, \A j \in Index : used'[j] # 0 <=> (used[j] # 0 \/ j = b)
      PROVE  Cardinality(UsedUp') \in Nat /\ Cardinality(UsedUp') <= Cardinality(UsedUp) + 1
  <2>1. UsedUp' = UsedUp \cup {b}
    BY <1>1, <1>4 DEF UsedUp
  <2> QED BY <1>2, <2>1, FS_AddElement
<1> QED BY <1>3, <1>4

LEMMA BootEntry ==
  ASSUME Fits, BootInv, ImportEntry("boot")
  PROVE  Booting'
<1>1. /\ pc = "boot" /\ pc' = "boot" /\ ~listed /\ ~listed' /\ todo # <<>> /\ todo' = Tail(todo) /\ flash' = flash
  BY DEF ImportEntry, BootInv, Booting
<1>2. PICK es \in Seq(Entry), n \in Nat : es = Source /\ Progress(es, n)
  BY <1>1 DEF BootInv, Booting
<1>3. GoodTable /\ todo \in Seq(Entry) /\ Source' = Source
  BY <1>1 DEF BootInv, EnvInv, SizeOK, OtherTypes, Source
<1> DEFINE e == Head(todo)
<1>4. /\ Len(todo) \in Nat /\ Len(todo) > 0 /\ Len(todo') = Len(todo) - 1 /\ n + 1 <= Len(es)
      /\ e = es[n + 1] /\ e \in Entry
      /\ \A m \in 1..Len(todo') : todo'[m] = es[n + 1 + m]
  <2>1. Len(todo) \in Nat /\ Len(todo) > 0 /\ Len(todo') = Len(todo) - 1 /\ e = todo[1] /\ e \in Entry
    BY <1>1, <1>3
  <2>2. n + Len(todo) = Len(es) /\ \A m \in 1..Len(todo) : todo[m] = es[n + m]
    BY <1>2 DEF Progress
  <2>3. e = es[n + 1]
    BY <2>1, <2>2
  <2>4. ASSUME NEW m \in 1..Len(todo') PROVE todo'[m] = es[n + 1 + m]
    <3>1. todo'[m] = todo[m + 1] /\ m + 1 \in 1..Len(todo)
      BY <1>1, <1>3, <2>1
    <3>2. todo[m + 1] = es[n + (m + 1)]
      BY <2>2, <3>1
    <3>3. n + (m + 1) = n + 1 + m
      BY <2>1
    <3> QED BY <3>1, <3>2, <3>3
  <2> QED BY <2>1, <2>2, <2>3, <2>4
<1>5. PICK k \in Keys, v \in Values : k = es[n + 1].key /\ v = es[n + 1].data /\ k = e.key /\ v = e.data
  BY <1>4 DEF Entry
<1>6. PICK ok \in BOOLEAN :
        /\ IF v = Empty THEN HdeleteR(k, ok) ELSE Enter(k, v, ok)
        /\ refused' = IF ok THEN refused ELSE refused \cup {k}
  BY <1>1, <1>5 DEF ImportEntry
<1>7. EmptyBucket
  <2>1. PICK nel \in Nels : size = TableSize(nel)
    BY <1>1 DEF BootInv, EnvInv, SizeOK
  <2>2. Len(Default) <= size /\ EnvRoom <= size /\ size \in Nat /\ Len(Default) \in Nat
    BY <1>3, <2>1, DefaultAssumption DEF Fits, GoodTable, Proper
  <2>3. Len(es) <= size
    <3>1. CASE flash = NoCopy
      BY <1>2, <2>2, <3>1 DEF Source
    <3>2. CASE flash # NoCopy
      <4>1. es = flash /\ Len(flash) <= EnvRoom /\ Len(es) \in Nat
        BY <1>2, <3>2 DEF Source, BootInv, EnvInv, Room
      <4> QED BY <2>2, <4>1, NelsAssumption
    <3> QED BY <3>1, <3>2
  <2>4. Cardinality(UsedUp) <= n /\ Cardinality(UsedUp) \in Nat /\ (~EmptyBucket => Cardinality(UsedUp) = size)
    BY <1>2, <1>3, UsedUpFinite DEF Progress, GoodTable
  <2>5. Len(es) \in Nat
    OBVIOUS
  <2> QED BY <1>4, <2>2, <2>3, <2>4, <2>5
<1>8. /\ Content' = IF ~ok THEN Content ELSE [Content EXCEPT ![k] = IF v = Empty THEN Unset ELSE v]
      /\ Cardinality(UsedUp') \in Nat /\ Cardinality(UsedUp') <= Cardinality(UsedUp) + 1
  <2>1. CASE v = Empty
    <3>1. HdeleteR(k, ok)
      BY <1>6, <2>1
    <3>2. \/ used' = used
          \/ \E b \in Index : \A j \in Index : used'[j] # 0 <=> (used[j] # 0 \/ j = b)
      BY <1>3, <3>1, HdeleteGood DEF table
    <3>3. size' = size
      BY <1>3, <3>1, HdeleteGood
    <3> QED BY <1>3, <2>1, <3>1, <3>2, <3>3, ContentDeleted, UsedUpGrows
  <2>2. CASE v # Empty
    <3>1. Enter(k, v, ok)
      BY <1>6, <2>2
    <3>2. \/ used' = used
          \/ \E b \in Index : \A j \in Index : used'[j] # 0 <=> (used[j] # 0 \/ j = b)
      BY <1>3, <3>1, EnterGood DEF table
    <3>3. size' = size
      BY <1>3, <3>1, EnterGood
    <3> QED BY <1>3, <1>7, <2>2, <3>1, <3>2, <3>3, ContentEntered, UsedUpGrows
  <2> QED BY <2>1, <2>2
<1>9. ASSUME NEW x \in Keys \ refused' PROVE Content'[x] = Upto(es, n + 1)[x]
  <2>1. Content \in [Keys -> Values \cup {Unset}]
    BY <1>3, ContentProps
  <2>2. x \in Keys \ refused
    BY <1>6
  <2>3. Content[x] = Upto(es, n)[x]
    BY <1>2, <2>2 DEF Progress
  <2>4. Upto(es, n + 1)[x] = IF x = k THEN IF v = Empty THEN Unset ELSE v ELSE Upto(es, n)[x]
    <3>1. n \in Nat /\ n + 1 <= Len(es) /\ x \in Keys
      BY <1>4, <2>2
    <3>2. Upto(es, n + 1)[x] = IF x = es[n + 1].key
                               THEN IF es[n + 1].data = Empty THEN Unset ELSE es[n + 1].data
                               ELSE Upto(es, n)[x]
      BY <3>1, UptoNext
    <3> QED BY ONLY <1>5, <3>2
  <2>5. x = k => ok
    BY <1>6
  <2> QED BY <1>8, <2>1, <2>3, <2>4, <2>5
<1>10. Progress(es, n + 1)'
  <2>1. Cardinality(UsedUp') <= n + 1
    <3>1. Cardinality(UsedUp) <= n /\ Cardinality(UsedUp) \in Nat
      BY <1>2, <1>3, UsedUpFinite DEF Progress, GoodTable
    <3> QED BY <1>8, <3>1
  <2>2. (n + 1) + Len(todo') = Len(es)
    BY <1>2, <1>4 DEF Progress
  <2>3. (Upto(es, n + 1))' = Upto(es, n + 1)
    BY DEF Upto
  <2> QED BY <1>4, <1>9, <2>1, <2>2, <2>3 DEF Progress
<1> QED BY <1>1, <1>2, <1>3, <1>10 DEF Booting

LEMMA BootStart ==
  ASSUME EnvInv, EnvRelocate
  PROVE  Booting'
<1>1. PICK es \in Seq(Entry) : es = Source
  BY DefaultAssumption DEF EnvInv, OtherTypes, Source
<1>2. ImportStart(es, FALSE, {}) /\ pc' = "boot" /\ flash' = flash
  BY <1>1 DEF EnvRelocate, Source
<1>3. todo' = es /\ ~listed' /\ Source' = Source
  BY <1>2 DEF ImportStart, Source
<1>4. PICK nel \in Nels : HcreateR(nel)
  BY <1>2 DEF ImportStart
<1>5. GoodTable' /\ Live' = {}
  BY <1>4, HcreateGood
<1>6. Content' = [k \in Keys |-> Unset]
  BY <1>5, ContentCreated
<1>7. UsedUp' = {}
  BY <1>4 DEF HcreateR, UsedUp, Index
<1>8. Progress(es, 0)'
  <2>1. Len(es) \in Nat /\ \A m \in 1..Len(es) : es[m] = es[0 + m]
    OBVIOUS
  <2>2. \A k \in Keys : Content'[k] = Upto(es, 0)[k] /\ (Upto(es, 0))' = Upto(es, 0)
    BY <1>6, UptoNone DEF Upto
  <2> QED BY <1>3, <1>7, <2>1, <2>2, FS_EmptySet DEF Progress
<1> QED BY <1>1, <1>3, <1>8 DEF Booting

LEMMA BootEnd ==
  ASSUME BootInv, ImportDone("boot", "up")
  PROVE  BootRestores'
<1>1. pc = "boot" /\ todo = <<>> /\ pc' = "up" /\ refused' = refused /\ flash' = flash /\ UNCHANGED table
  BY DEF ImportDone
<1>2. PICK es \in Seq(Entry), n \in Nat : es = Source /\ Progress(es, n)
  BY <1>1 DEF BootInv, Booting
<1>3. n = Len(es)
  BY <1>1, <1>2 DEF Progress
<1>4. Content' = Content
  BY <1>1, ContentSame DEF BootInv, EnvInv, SizeOK
<1>5. \A k \in Keys \ refused : Content[k] = Meaning(es)[k]
  BY <1>2, <1>3, UptoAll DEF Progress
<1>6. es = IF flash' = NoCopy THEN Default ELSE flash'
  BY <1>1, <1>2 DEF Source
<1>7. \A k \in Keys \ refused' : Content'[k] = Meaning(es)[k] /\ (Meaning(es))' = Meaning(es)
  BY <1>1, <1>4, <1>5 DEF Meaning
<1> QED BY <1>6, <1>7 DEF BootRestores, Meaning

LEMMA BootInvInit == Init => BootInv
<1> SUFFICES ASSUME Init PROVE BootInv
  OBVIOUS
<1> QED BY EnvInit DEF Init, BootInv, Booting, BootRestores

LEMMA BootInvNext ==
  ASSUME Fits
  PROVE  BootInv /\ [Next]_allvars => BootInv'
<1> SUFFICES ASSUME BootInv, [Next]_allvars PROVE BootInv'
  OBVIOUS
<1>1. EnvInv /\ EnvInv'
  BY EnvNext DEF BootInv
<1>2. CASE UNCHANGED allvars
  <2>1. /\ size' = size /\ used' = used /\ key' = key /\ data' = data /\ pc' = pc /\ todo' = todo
        /\ listed' = listed /\ refused' = refused /\ flash' = flash
    BY <1>2 DEF allvars, table, importing
  <2>2. Content' = Content /\ Source' = Source /\ UsedUp' = UsedUp
    BY <2>1 DEF Content, Live, Index, Source, UsedUp
  <2>3. Booting'
    <3> SUFFICES ASSUME pc = "boot" PROVE ~listed /\ \E es \in Seq(Entry), n \in Nat : es = Source' /\ Progress(es, n)'
      BY <2>1 DEF Booting
    <3>1. ~listed
      BY DEF BootInv, Booting
    <3>2. PICK es \in Seq(Entry), n \in Nat : es = Source /\ Progress(es, n)
      BY DEF BootInv, Booting
    <3>3. (Upto(es, n))' = Upto(es, n)
      BY DEF Upto
    <3>4. Progress(es, n)'
      BY <2>1, <2>2, <3>2, <3>3 DEF Progress
    <3> QED BY <2>2, <3>1, <3>2, <3>4
  <2>4. BootRestores'
    BY <2>1, <2>2 DEF BootInv, BootRestores, Meaning
  <2> QED BY <1>1, <2>3, <2>4 DEF BootInv
<1>3. CASE EnvRelocate
  <2>1. pc' = "boot"
    BY <1>3 DEF EnvRelocate
  <2> QED BY <1>1, <1>3, <2>1, BootStart DEF BootInv, BootRestores
<1>4. CASE ImportEntry("boot")
  <2>1. pc' = "boot"
    BY <1>4 DEF ImportEntry
  <2> QED BY <1>1, <1>4, <2>1, BootEntry DEF BootInv, BootRestores
<1>5. CASE ImportDone("boot", "up")
  <2>1. pc' = "up"
    BY <1>5 DEF ImportDone
  <2> QED BY <1>1, <1>5, <2>1, BootEnd DEF BootInv, Booting
<1>6. CASE pc' \notin {"boot", "up"}
  BY <1>1, <1>6 DEF BootInv, Booting, BootRestores
<1>7. CASE \/ \E k \in Keys, v \in Values : EnvSet(k, v)
           \/ \E k \in Keys : EnvDelete(k)
           \/ \E es \in BoundedImports, keep \in BOOLEAN : EnvImport(es, keep)
           \/ EnvDefaultAll
           \/ \E only \in SUBSET Keys \ {{}} : EnvDefaultVars(only)
           \/ SaveErase \/ SaveWrite \/ PowerCut
  <2>1. pc' \notin {"boot", "up"}
    BY <1>7 DEF EnvSet, EnvDelete, EnvImport, EnvDefaultAll, EnvDefaultVars, SaveErase, SaveWrite, PowerCut
  <2> QED BY <1>6, <2>1
<1>8. CASE ImportEntry("import") \/ ImportRest \/ ImportDone("import", "shell")
  <2>1. pc' \notin {"boot", "up"}
    BY <1>8 DEF ImportEntry, ImportRest, ImportDone
  <2> QED BY <1>6, <2>1
<1> QED BY <1>2, <1>3, <1>4, <1>5, <1>7, <1>8 DEF Next

\* After booting, every variable has the value that was saved last, or the default one if no save
\* has completed since the flash was erased, except those whose import was refused.
THEOREM BootLoadsSaved == ASSUME Fits PROVE Spec => []BootRestores
<1>1. BootInv => BootRestores
  BY DEF BootInv
<1> QED BY <1>1, BootInvInit, BootInvNext, PTL DEF Spec
=============================================================================
