---------------------------- MODULE NumberFacts ----------------------------
(* Facts about numbers that the proofs of this project need: what counting *)
(* does to quotients and remainders, and induction.                        *)
EXTENDS Integers, FiniteSetTheorems, WellFoundedInduction, TLAPS

(* A remainder is below the divisor.                                       *)
LEMMA ModRange ==
  ASSUME NEW n \in Int, NEW w \in Nat \ {0}
  PROVE  n % w \in 0..w-1
OBVIOUS

(* A number is made of its quotient and its remainder.                     *)
LEMMA DivMod ==
  ASSUME NEW n \in Nat, NEW w \in Nat \ {0}
  PROVE  n = w * (n \div w) + (n % w) /\ n \div w \in Nat
OBVIOUS

(* Quotient and remainder are unique.                                      *)
LEMMA DivModUnique ==
  ASSUME NEW w \in Nat \ {0},
         NEW q \in Int, NEW r \in 0..w-1,
         NEW p \in Int, NEW s \in 0..w-1,
         w * q + r = w * p + s
  PROVE  q = p /\ r = s
<1>1. w * (q - p) = s - r
  OBVIOUS
<1>2. CASE q > p
  <2>1. w * (q - p) >= w
    BY <1>2
  <2> QED
    BY <1>1, <2>1
<1>3. CASE q < p
  <2>1. w * (p - q) >= w
    BY <1>3
  <2>2. w * (p - q) = r - s
    BY <1>1
  <2> QED
    BY <2>1, <2>2
<1> QED
  BY <1>1, <1>2, <1>3

(* Counting one further: the remainder goes up by one, or the quotient     *)
(* does and the remainder starts over.                                     *)
LEMMA ModStep ==
  ASSUME NEW n \in Nat, NEW w \in Nat \ {0}
  PROVE  /\ (n + 1) % w = IF n % w = w - 1 THEN 0 ELSE (n % w) + 1
         /\ (n + 1) \div w = IF n % w = w - 1 THEN (n \div w) + 1 ELSE n \div w
<1> DEFINE q == n \div w
           r == n % w
           p == (n + 1) \div w
           s == (n + 1) % w
<1>1. q \in Int /\ r \in 0..w-1 /\ p \in Int /\ s \in 0..w-1
  BY ModRange, DivMod
<1>2. n = w * q + r /\ n + 1 = w * p + s
  BY DivMod
<1> SUFFICES /\ s = IF r = w - 1 THEN 0 ELSE r + 1
             /\ p = IF r = w - 1 THEN q + 1 ELSE q
  OBVIOUS
<1> HIDE DEF q, r, p, s
<1>3. CASE r = w - 1
  <2>1. w * (q + 1) + 0 = w * p + s
    BY <1>1, <1>2, <1>3
  <2>2. q + 1 = p /\ 0 = s
    BY <1>1, <2>1, DivModUnique
  <2> QED
    BY <1>3, <2>2
<1>4. CASE r # w - 1
  <2>1. w * q + (r + 1) = w * p + s
    BY <1>1, <1>2
  <2>2. r + 1 \in 0..w-1
    BY <1>1, <1>4
  <2>3. q = p /\ r + 1 = s
    BY <1>1, <2>1, <2>2, DivModUnique
  <2> QED
    BY <1>4, <2>3
<1> QED
  BY <1>3, <1>4

(* A number below the divisor is its own remainder.                        *)
LEMMA SmallMod ==
  ASSUME NEW w \in Nat \ {0}, NEW n \in 0..w-1
  PROVE  n % w = n
<1> DEFINE q == n \div w
           r == n % w
<1>0. n \in Nat
  OBVIOUS
<1>1. q \in Nat /\ r \in 0..w-1
  <2>1. q \in Nat
    BY <1>0, DivMod
  <2>2. r \in 0..w-1
    BY ModRange
  <2> QED
    BY <2>1, <2>2
<1>2. w * 0 + n = w * q + r
  BY DivMod
<1> HIDE DEF q, r
<1>3. n = r
  BY <1>1, <1>2, DivModUnique
<1> QED
  BY <1>3 DEF r

(* Counting around: if b divides w, the remainder by b does not notice     *)
(* that the count starts over at w.                                        *)
LEMMA WrappedModStep ==
  ASSUME NEW w \in Nat \ {0}, NEW b \in Nat \ {0}, w % b = 0, NEW n \in 0..w-1
  PROVE  /\ (n + 1) % w \in 0..w-1
         /\ ((n + 1) % w) % b = IF n % b = b - 1 THEN 0 ELSE (n % b) + 1
<1>0. n \in Nat /\ n + 1 \in Nat
  OBVIOUS
<1>1. (n + 1) % w \in 0..w-1
  BY <1>0, ModRange
<1>2. (n + 1) % b = IF n % b = b - 1 THEN 0 ELSE (n % b) + 1
  BY <1>0, ModStep
<1>3. CASE n + 1 < w
  <2>1. (n + 1) % w = n + 1
    BY <1>3, SmallMod
  <2> QED
    BY <1>1, <1>2, <2>1
<1>4. CASE n + 1 = w
  <2>1. n % w = w - 1
    BY <1>4, SmallMod
  <2>2. (n + 1) % w = 0
    BY <1>0, <2>1, ModStep
  <2>3. 0 % b = 0
    BY SmallMod
  <2> QED
    BY <1>1, <1>2, <1>4, <2>2, <2>3
<1> QED
  BY <1>3, <1>4

LEMMA Distribute ==
  ASSUME NEW w \in Int, NEW a \in Int, NEW b \in Int
  PROVE  w * (a + b) = w * a + w * b
OBVIOUS

(* Adding to a remainder is adding to the number.                          *)
LEMMA ModPlus ==
  ASSUME NEW w \in Nat \ {0}, NEW a \in Int, NEW b \in Int
  PROVE  ((a % w) + b) % w = (a + b) % w
<1> DEFINE x == a \div w
           m == (a % w) + b
           n == a + b
           y == m \div w
           z == n \div w
<1>1. x \in Int /\ a = w * x + (a % w) /\ a % w \in Int
  OBVIOUS
<1>2. m \in Int /\ n \in Int /\ n = m + w * x
  BY <1>1
<1> HIDE DEF x, m, n
<1>3. /\ y \in Int /\ m % w \in 0..w-1 /\ m = w * y + (m % w)
      /\ z \in Int /\ n % w \in 0..w-1 /\ n = w * z + (n % w)
  BY <1>2
<1> HIDE DEF y, z
<1>4. w * (y + x) = w * y + w * x
  BY <1>1, <1>3, Distribute
<1> DEFINE r == m % w
<1>5. w * (y + x) + r = w * z + (n % w)
  <2>1. r \in Int /\ w * x \in Int /\ w * y \in Int /\ m = w * y + r
    BY <1>1, <1>3
  <2> HIDE DEF r
  <2>2. w * (y + x) + r = m + w * x
    BY <1>4, <2>1
  <2> QED
    BY <1>2, <1>3, <2>2
<1>6. m % w = n % w
  <2> DEFINE u == y + x
             s == n % w
  <2>1. u \in Int /\ z \in Int /\ r \in 0..w-1 /\ s \in 0..w-1 /\ w * u + r = w * z + s
    BY <1>1, <1>3, <1>5
  <2> HIDE DEF u, r, s
  <2>2. r = s
    BY <2>1, DivModUnique, Zenon
  <2> QED
    BY <2>2 DEF r, s
<1> QED
  BY <1>6 DEF m, n

(* Two pairs of counters of w values that count the same.                  *)
Balanced(w, u, S, h, I) == (u + S) % w = (h + I) % w

(* They still do with one more in a counter of each; with b more in one    *)
(* counter and less in the other; and with h taken from both.              *)
LEMMA Balance ==
  ASSUME NEW w \in Nat \ {0}, NEW u \in Int, NEW S \in Int, NEW h \in Int, NEW I \in Int,
         Balanced(w, u, S, h, I)
  PROVE  /\ Balanced(w, (u + 1) % w, S, h, I + 1)
         /\ \A b \in Int : Balanced(w, u, S, (h + b) % w, I - b)
         /\ Balanced(w, (u - h) % w, S, 0, I)
<1> USE DEF Balanced
<1>0. \A k \in Int : ((u + S) + k) % w = ((h + I) + k) % w
  <2>1. u + S \in Int /\ h + I \in Int
    OBVIOUS
  <2> DEFINE m == u + S
             n == h + I
  <2>2. m \in Int /\ n \in Int /\ m % w = n % w
    BY <2>1
  <2> HIDE DEF m, n
  <2>3. ASSUME NEW k \in Int PROVE (m + k) % w = (n + k) % w
    <3>1. ((m % w) + k) % w = (m + k) % w
      BY <2>2, ModPlus
    <3>2. ((n % w) + k) % w = (n + k) % w
      BY <2>2, ModPlus
    <3> QED
      BY <2>2, <3>1, <3>2
  <2> QED
    BY <2>3 DEF m, n
<1>1. (((u + 1) % w) + S) % w = (h + (I + 1)) % w
  <2>1. u + 1 \in Int /\ 1 \in Int
    OBVIOUS
  <2>2. (((u + 1) % w) + S) % w = ((u + 1) + S) % w
    BY <2>1, ModPlus
  <2>3. ((u + S) + 1) % w = ((h + I) + 1) % w
    BY <1>0, <2>1, ZenonT(30)
  <2>4. (u + 1) + S = (u + S) + 1 /\ h + (I + 1) = (h + I) + 1
    OBVIOUS
  <2> QED
    BY <2>2, <2>3, <2>4
<1>2. ASSUME NEW b \in Int PROVE (u + S) % w = (((h + b) % w) + (I - b)) % w
  <2>1. h + b \in Int /\ I - b \in Int
    OBVIOUS
  <2>2. (((h + b) % w) + (I - b)) % w = ((h + b) + (I - b)) % w
    BY <2>1, ModPlus
  <2>3. (h + b) + (I - b) = h + I
    OBVIOUS
  <2> QED
    BY <2>2, <2>3
<1>3. (((u - h) % w) + S) % w = (0 + I) % w
  <2>1. u - h \in Int /\ -h \in Int
    OBVIOUS
  <2>2. (((u - h) % w) + S) % w = ((u - h) + S) % w
    BY <2>1, ModPlus
  <2>3. ((u + S) + (-h)) % w = ((h + I) + (-h)) % w
    BY <1>0, <2>1, ZenonT(30)
  <2>4. (u - h) + S = (u + S) + (-h) /\ 0 + I = (h + I) + (-h)
    OBVIOUS
  <2> QED
    BY <2>2, <2>3, <2>4
<1> QED
  BY <1>1, <1>2, <1>3

(* Induction over the natural numbers, for a set.                          *)
LEMMA SetInduction ==
  ASSUME NEW S, 0 \in S, \A n \in Nat : n \in S => n + 1 \in S
  PROVE  Nat \subseteq S
<1> SUFFICES ASSUME ~(Nat \subseteq S) PROVE FALSE
  OBVIOUS
<1> DEFINE T == {0..n-1 : n \in Nat \ S}
           R == StrictSubsetOrdering(Nat)
<1>1. T \subseteq FiniteSubsetsOf(Nat)
  <2>1. \A n \in Nat : IsFiniteSet(0..n-1) /\ 0..n-1 \subseteq Nat
    BY FS_Interval
  <2> QED
    BY <2>1 DEF FiniteSubsetsOf
<1>2. T # {}
  OBVIOUS
<1>3. PICK x \in T : \A y \in T : ~(<<y, x>> \in R)
  <2> HIDE DEF T
  <2> QED
    BY <1>1, <1>2, FS_StrictSubsetOrderingWellFounded, WFMin
<1>4. PICK n \in Nat \ S : x = 0..n-1
  OBVIOUS
<1>5. n # 0 /\ n - 1 \in Nat /\ (n - 1) + 1 = n
  OBVIOUS
<1>6. n - 1 \in Nat \ S
  BY <1>5
<1>7. 0..(n-1)-1 \in T
  BY <1>6
<1>8. 0..(n-1)-1 \subseteq 0..n-1 /\ n-1 \in 0..n-1 /\ n-1 \notin 0..(n-1)-1
  BY <1>5
<1>9. 0..(n-1)-1 \in SUBSET Nat /\ 0..n-1 \in SUBSET Nat
  BY <1>5
<1>10. <<0..(n-1)-1, 0..n-1>> \in R
  BY <1>8, <1>9 DEF StrictSubsetOrdering
<1> QED
  BY <1>3, <1>4, <1>7, <1>10

(* The sums of the first k of L numbers are a function.                    *)
LEMMA SumsExist ==
  ASSUME NEW a, NEW L \in Nat
  PROVE  \E f : f = [k \in 0..L |-> IF k = 0 THEN 0 ELSE f[k - 1] + a[k - 1]]
<1> DEFINE Sums(f, n) == f = [k \in 0..n |-> IF k = 0 THEN 0 ELSE f[k - 1] + a[k - 1]]
           S == {n \in Nat : \E f : Sums(f, n)}
<1>1. 0 \in S
  <2>1. Sums([k \in 0..0 |-> 0], 0)
    OBVIOUS
  <2> QED
    BY <2>1
<1>2. ASSUME NEW n \in Nat, n \in S PROVE n + 1 \in S
  <2>1. PICK f : Sums(f, n)
    BY <1>2
  <2> DEFINE g == [k \in 0..n+1 |-> IF k = n + 1 THEN f[n] + a[n] ELSE f[k]]
  <2>2. ASSUME NEW k \in 0..n+1
        PROVE  g[k] = IF k = 0 THEN 0 ELSE g[k - 1] + a[k - 1]
    <3>1. CASE k = 0
      BY <2>1, <3>1
    <3>2. CASE k \in 1..n
      <4>1. g[k] = f[k] /\ g[k - 1] = f[k - 1] /\ k \in 0..n
        BY <3>2
      <4>2. f[k] = f[k - 1] + a[k - 1]
        BY <2>1, <3>2
      <4> QED
        BY <3>2, <4>1, <4>2
    <3>3. CASE k = n + 1
      <4>1. g[k] = f[n] + a[n] /\ k - 1 = n /\ k # 0 /\ g[n] = f[n]
        BY <3>3
      <4> QED
        BY <4>1
    <3> QED
      BY <3>1, <3>2, <3>3
  <2>3. Sums(g, n + 1)
    BY <2>2
  <2> HIDE DEF g
  <2> QED
    BY <2>3
<1> HIDE DEF S
<1>3. Nat \subseteq S
  BY <1>1, <1>2, SetInduction
<1> QED
  BY <1>3 DEF S

(* What a division with remainder is.                                      *)
LEMMA Divided ==
  ASSUME NEW n \in Nat, NEW w \in Nat \ {0}
  PROVE  /\ n \div w \in Nat /\ n % w \in 0..w-1
         /\ n = w * (n \div w) + (n % w)
<1>1. n = w * (n \div w) + (n % w) /\ n \div w \in Nat
  BY DivMod
<1>2. n % w \in 0..w-1
  BY ModRange
<1> QED
  BY <1>1, <1>2

(* A power of two is the number of subsets; one more element doubles them. *)
LEMMA PowerDoubles ==
  ASSUME NEW n \in Nat
  PROVE  2^n \in Nat /\ 2^(n+1) = 2 * 2^n
<1> DEFINE S == SUBSET (1..n)
           T == {s \cup {n+1} : s \in S}
           p == 2^n
           q == 2^(n+1)
<1>1. /\ IsFiniteSet(1..n) /\ Cardinality(1..n) = n
      /\ IsFiniteSet(1..n+1) /\ Cardinality(1..n+1) = n + 1
  BY FS_Interval
<1>2. IsFiniteSet(S) /\ Cardinality(S) = p /\ Cardinality(SUBSET (1..n+1)) = q
  BY <1>1, FS_SUBSET
<1>3. SUBSET (1..n+1) = S \cup T
  <2>1. ASSUME NEW s \in SUBSET (1..n+1), s \notin S PROVE s \in T
    <3>1. n+1 \in s /\ s = (s \ {n+1}) \cup {n+1} /\ s \ {n+1} \in S
      BY <2>1
    <3> QED
      BY <3>1
  <2>2. S \subseteq SUBSET (1..n+1)
    OBVIOUS
  <2>3. T \subseteq SUBSET (1..n+1)
    <3>1. ASSUME NEW s \in S PROVE s \cup {n+1} \in SUBSET (1..n+1)
      OBVIOUS
    <3> QED
      BY <3>1
  <2> HIDE DEF S, T
  <2> QED
    BY <2>1, <2>2, <2>3
<1>4. S \cap T = {}
  OBVIOUS
<1>5. ExistsBijection(S, T)
  <2> DEFINE f == [s \in S |-> s \cup {n+1}]
  <2>1. f \in [S -> T]
    OBVIOUS
  <2>2. ASSUME NEW a \in S, NEW b \in S, f[a] = f[b] PROVE a = b
    <3>1. a \cup {n+1} = b \cup {n+1} /\ n+1 \notin a /\ n+1 \notin b
      BY <2>2
    <3> QED
      BY <3>1
  <2>3. \A t \in T : \E s \in S : f[s] = t
    OBVIOUS
  <2>4. f \in Bijection(S, T)
    BY <2>1, <2>2, <2>3 DEF Bijection, Injection, Surjection, IsInjective
  <2> QED
    BY <2>4 DEF ExistsBijection
<1>6. IsFiniteSet(T) /\ Cardinality(T) = Cardinality(S)
  BY <1>2, <1>5, FS_Bijection
<1>7. Cardinality(S) \in Nat /\ Cardinality(S \cap T) = 0
  BY <1>2, <1>4, FS_CardinalityType, FS_EmptySet
<1>8. Cardinality(S \cup T) = Cardinality(S) + Cardinality(T) - Cardinality(S \cap T)
  BY <1>2, <1>6, FS_Union
<1>9. Cardinality(S \cup T) = q
  BY <1>2, <1>3
<1> HIDE DEF S, T, p, q
<1>10. p \in Nat /\ q = 2 * p
  BY <1>2, <1>6, <1>7, <1>8, <1>9
<1> QED
  BY <1>10 DEF p, q

LEMMA PowerIsPositive ==
  ASSUME NEW n \in Nat
  PROVE  2^n \in Nat \ {0}
<1> DEFINE S == {k \in Nat : 2^k \in Nat \ {0}}
<1>1. 0 \in S
  OBVIOUS
<1>2. ASSUME NEW k \in Nat, k \in S PROVE k + 1 \in S
  <2> DEFINE p == 2^k
             q == 2^(k+1)
  <2>1. p \in Nat \ {0} /\ q = 2 * p
    BY <1>2, PowerDoubles
  <2> HIDE DEF p, q
  <2>2. q \in Nat \ {0}
    BY <2>1
  <2> QED
    BY <2>2 DEF q
<1> HIDE DEF S
<1>3. n \in S
  BY <1>1, <1>2, SetInduction
<1> QED
  BY <1>3 DEF S

LEMMA PowerPlus ==
  ASSUME NEW m \in Nat, NEW n \in Nat
  PROVE  2^(m + n) = 2^m * 2^n
<1> DEFINE S == {k \in Nat : 2^(m + k) = 2^m * 2^k}
           b == 2^m
<1>0. b \in Nat
  BY PowerIsPositive
<1>1. 0 \in S
  <2>1. m + 0 = m /\ 2^0 = 1 /\ b * 1 = b
    BY <1>0
  <2> QED
    BY <2>1
<1>2. ASSUME NEW k \in Nat, k \in S PROVE k + 1 \in S
  <2> DEFINE p == 2^k
             q == 2^(k+1)
             x == 2^(m + k)
             y == 2^(m + (k+1))
  <2>1. p \in Nat /\ q = 2 * p
    BY PowerDoubles
  <2>2. m + (k+1) = (m + k) + 1 /\ m + k \in Nat
    OBVIOUS
  <2>3. x \in Nat /\ y = 2 * x
    BY <2>2, PowerDoubles
  <2>4. x = b * p
    BY <1>2
  <2> HIDE DEF p, q, x, y, b
  <2>5. y = b * q
    <3>1. 2 * (b * p) = b * (2 * p)
      BY <1>0, <2>1
    <3> QED
      BY <2>1, <2>3, <2>4, <3>1
  <2> QED
    BY <2>5 DEF y, b, q
<1> HIDE DEF S
<1>3. n \in S
  BY <1>1, <1>2, SetInduction
<1> QED
  BY <1>3 DEF S

LEMMA PowerMonotone ==
  ASSUME NEW m \in Nat, NEW n \in Nat, m <= n
  PROVE  2^m <= 2^n
<1> DEFINE p == 2^m
           q == 2^(n - m)
           r == 2^n
<1>1. n - m \in Nat /\ m + (n - m) = n
  OBVIOUS
<1>2. p \in Nat \ {0} /\ q \in Nat \ {0} /\ r = p * q
  BY <1>1, PowerIsPositive, PowerPlus
<1> HIDE DEF p, q, r
<1>3. p <= r
  BY <1>2
<1> QED
  BY <1>3 DEF p, r

(* Digits of a higher base: remainder and quotient by a product.           *)
DividedByProduct(a, b, c) ==
  /\ a % (b * c) = (a % b) + ((a \div b) % c) * b
  /\ a \div (b * c) = (a \div b) \div c
  /\ b * c \in Nat \ {0}

LEMMA ModProduct ==
  ASSUME NEW a \in Nat, NEW b \in Nat \ {0}, NEW c \in Nat \ {0}
  PROVE  DividedByProduct(a, b, c)
<1> DEFINE q == a \div b
           r == a % b
           p == q \div c
           s == q % c
           w == b * c
           t == r + s * b
           x == a \div w
           y == a % w
<1>1. q \in Nat /\ r \in 0..b-1 /\ a = b * q + r
  BY Divided
<1>2. p \in Nat /\ s \in 0..c-1 /\ q = c * p + s
  <2> HIDE DEF q
  <2> QED
    BY <1>1, Divided
<1>3. w \in Nat \ {0}
  OBVIOUS
<1>4. x \in Nat /\ y \in 0..w-1 /\ a = w * x + y
  <2> HIDE DEF w
  <2> QED
    BY <1>3, Divided
<1> HIDE DEF q, r, p, s, x, y
<1>5. a = w * p + t
  <2>1. b * (c * p + s) = (b * c) * p + s * b
    BY <1>2
  <2> QED
    BY <1>1, <1>2, <2>1
<1>6. t \in 0..w-1
  <2>1. s * b <= (c - 1) * b
    BY <1>2
  <2>2. (c - 1) * b = b * c - b
    OBVIOUS
  <2>3. s * b \in Nat
    BY <1>2
  <2> QED
    BY <1>1, <2>1, <2>2, <2>3
<1> HIDE DEF w, t
<1>7. x = p /\ y = t
  <2>1. w * x + y = w * p + t
    BY <1>4, <1>5
  <2> QED
    BY <1>2, <1>3, <1>4, <1>6, <2>1, DivModUnique
<1> QED
  BY <1>3, <1>7 DEF p, q, r, s, w, t, x, y, DividedByProduct

LEMMA DivProduct ==
  ASSUME NEW a \in Nat, NEW b \in Nat \ {0}, NEW c \in Nat \ {0}
  PROVE  a \div (b * c) = (a \div b) \div c
<1>1. DividedByProduct(a, b, c)
  BY ModProduct
<1> QED
  BY <1>1 DEF DividedByProduct

(* Both numbers of a division times the same.                              *)
LEMMA ScaledMod ==
  ASSUME NEW a \in Nat, NEW b \in Nat \ {0}, NEW c \in Nat \ {0}
  PROVE  /\ (a * c) % (b * c) = (a % b) * c
         /\ (a * c) \div (b * c) = a \div b
<1> DEFINE q == a \div b
           r == a % b
           w == b * c
           n == a * c
<1>1. q \in Nat /\ r \in 0..b-1 /\ a = b * q + r
  BY Divided
<1>2. w \in Nat \ {0} /\ n \in Nat
  OBVIOUS
<1> DEFINE x == n \div w
           y == n % w
<1>3. x \in Nat /\ y \in 0..w-1 /\ n = w * x + y
  <2> HIDE DEF w, n
  <2> QED
    BY <1>2, Divided
<1> HIDE DEF q, r
<1>4. n = w * q + r * c
  <2>1. (b * q + r) * c = (b * c) * q + r * c
    BY <1>1
  <2> QED
    BY <1>1, <2>1
<1>5. r * c \in 0..w-1
  <2>1. r * c <= (b - 1) * c
    BY <1>1
  <2>2. (b - 1) * c = b * c - c
    OBVIOUS
  <2>3. r * c \in Nat
    BY <1>1
  <2> QED
    BY <2>1, <2>2, <2>3
<1> DEFINE t == r * c
<1> HIDE DEF w, n, x, y, t
<1>6. x = q /\ y = t
  <2>1. t \in 0..w-1 /\ w * x + y = w * q + t
    BY <1>3, <1>4, <1>5 DEF t
  <2> QED
    BY <1>1, <1>2, <1>3, <2>1, DivModUnique
<1> QED
  BY <1>6 DEF q, r, w, n, x, y, t

(* Lower digits do not notice that higher ones are cut.                    *)
LEMMA ModOfMod ==
  ASSUME NEW a \in Nat, NEW b \in Nat \ {0}, NEW c \in Nat \ {0}
  PROVE  /\ (a % (b * c)) % b = a % b
         /\ (a % (b * c)) \div b = (a \div b) % c
<1> DEFINE q == (a \div b) % c
           r == a % b
           m == a % (b * c)
           x == m \div b
           y == m % b
<1>1. r \in 0..b-1 /\ a \div b \in Nat
  BY Divided
<1>2. q \in Nat
  <2> DEFINE n == a \div b
  <2>1. n \in Nat
    BY <1>1
  <2> HIDE DEF n
  <2>2. n % c \in 0..c-1
    BY <2>1, Divided
  <2> QED
    BY <2>2 DEF n
<1>3. m = r + q * b
  <2>1. DividedByProduct(a, b, c)
    BY ModProduct
  <2> QED
    BY <2>1 DEF DividedByProduct
<1> HIDE DEF q, r, m
<1>4. m \in Nat
  BY <1>1, <1>2, <1>3
<1>5. x \in Nat /\ y \in 0..b-1 /\ m = b * x + y
  BY <1>4, Divided
<1> HIDE DEF x, y
<1>6. b * x + y = b * q + r
  BY <1>1, <1>2, <1>3, <1>5
<1>7. x = q /\ y = r
  BY <1>1, <1>2, <1>5, <1>6, DivModUnique
<1> QED
  BY <1>7 DEF x, y, q, r, m

(* What digit n counts, of digits of w bits.                               *)
Weight(n, w) == 2^(n * w)

LEMMA WeightsAdd ==
  ASSUME NEW w \in Nat, NEW i \in Nat, NEW j \in Nat, NEW n \in Nat, n = i + j
  PROVE  Weight(n, w) = Weight(i, w) * Weight(j, w) /\ Weight(n, w) \in Nat \ {0}
<1> DEFINE a == i * w
           b == j * w
<1>1. a \in Nat /\ b \in Nat /\ n * w = a + b
  OBVIOUS
<1> HIDE DEF a, b
<1>2. 2^(a + b) = 2^a * 2^b /\ 2^(a + b) \in Nat \ {0}
  BY <1>1, PowerIsPositive, PowerPlus
<1> QED
  BY <1>1, <1>2 DEF Weight, a, b

LEMMA WeightIsPositive ==
  ASSUME NEW w \in Nat, NEW n \in Nat
  PROVE  Weight(n, w) \in Nat \ {0}
<1>1. n = n + 0
  OBVIOUS
<1> QED
  BY <1>1, WeightsAdd

LEMMA FirstWeights ==
  ASSUME NEW w \in Nat
  PROVE  Weight(0, w) = 1 /\ Weight(1, w) = 2^w
<1>1. 0 * w = 0 /\ 1 * w = w /\ 2^0 = 1
  OBVIOUS
<1> QED
  BY <1>1, Zenon DEF Weight

(* The weight of the next digit.                                           *)
LEMMA NextWeight ==
  ASSUME NEW k \in Nat, NEW w \in Nat
  PROVE  /\ Weight(k + 1, w) = Weight(k, w) * 2^w
         /\ Weight(k, w) \in Nat \ {0} /\ 2^w \in Nat \ {0} /\ Weight(k + 1, w) \in Nat \ {0}
<1> DEFINE n == k + 1
<1>1. n \in Nat /\ n = k + 1
  OBVIOUS
<1> HIDE DEF n
<1>2. Weight(n, w) = Weight(k, w) * Weight(1, w)
  BY <1>1, WeightsAdd
<1>3. Weight(n, w) \in Nat \ {0} /\ Weight(k, w) \in Nat \ {0} /\ Weight(1, w) \in Nat \ {0}
  BY <1>1, WeightIsPositive
<1> QED
  BY <1>2, <1>3, FirstWeights DEF n

-----------------------------------------------------------------------------
(* The sums of the first k digits of w bits, weighted by their position.   *)
SumsOfDigits(f, d, w, L) ==
  f = [k \in 0..L |-> IF k = 0 THEN 0 ELSE f[k - 1] + d[k - 1] * Weight(k - 1, w)]

LEMMA DigitsAreSummed ==
  ASSUME NEW f, NEW d, NEW w \in Nat, NEW L \in Nat, SumsOfDigits(f, d, w, L)
  PROVE  f[0] = 0 /\ \A k \in 0..L-1 : f[k + 1] = f[k] + d[k] * Weight(k, w)
<1>1. f[0] = 0
  BY DEF SumsOfDigits
<1>2. ASSUME NEW k \in 0..L-1 PROVE f[k + 1] = f[k] + d[k] * Weight(k, w)
  <2>1. k + 1 \in 0..L /\ k + 1 # 0 /\ (k + 1) - 1 = k
    OBVIOUS
  <2> QED
    BY <2>1 DEF SumsOfDigits
<1> QED
  BY <1>1, <1>2

(* Summed up, the lower digits of a number are the number, cut.            *)
LEMMA DigitsMakeNumber ==
  ASSUME NEW f, NEW d, NEW w \in Nat, NEW L \in Nat, NEW a \in Nat,
         SumsOfDigits(f, d, w, L), \A k \in 0..L-1 : d[k] = (a \div Weight(k, w)) % 2^w
  PROVE  f[L] = a % Weight(L, w)
<1> DEFINE S == {k \in Nat : k <= L => f[k] = a % Weight(k, w)}
<1>1. 0 \in S
  <2>1. Weight(0, w) = 1 /\ f[0] = 0
    BY DigitsAreSummed, FirstWeights
  <2>2. a % 1 = 0
    OBVIOUS
  <2> QED
    BY <2>1, <2>2
<1>2. ASSUME NEW k \in Nat, k \in S PROVE k + 1 \in S
  <2> SUFFICES ASSUME k + 1 <= L PROVE f[k + 1] = a % Weight(k + 1, w)
    OBVIOUS
  <2> DEFINE b == Weight(k, w)
             c == 2^w
  <2>1. k \in 0..L-1
    OBVIOUS
  <2>2. b \in Nat \ {0} /\ c \in Nat \ {0} /\ Weight(k + 1, w) = b * c
    BY NextWeight
  <2>3. f[k] = a % b
    BY <1>2
  <2>4. f[k + 1] = f[k] + d[k] * b
    BY <2>1, DigitsAreSummed
  <2>5. d[k] = (a \div b) % c
    BY <2>1
  <2> HIDE DEF b, c
  <2>6. a % (b * c) = (a % b) + ((a \div b) % c) * b
    <3>1. DividedByProduct(a, b, c)
      BY <2>2, ModProduct
    <3> QED
      BY <3>1 DEF DividedByProduct
  <2> QED
    BY <2>2, <2>3, <2>4, <2>5, <2>6
<1> HIDE DEF S
<1>3. L \in S
  BY <1>1, <1>2, SetInduction
<1> QED
  BY <1>3 DEF S

(* Digits can be taken from the number that they make.                     *)
LEMMA NumberHasDigits ==
  ASSUME NEW f, NEW d, NEW w \in Nat, NEW L \in Nat, SumsOfDigits(f, d, w, L),
         \A k \in 0..L-1 : d[k] \in 0..2^w - 1
  PROVE  /\ \A k \in 0..L : f[k] \in 0..Weight(k, w) - 1 /\ f[k] = f[L] % Weight(k, w)
         /\ \A k \in 0..L-1 : d[k] = (f[L] \div Weight(k, w)) % 2^w
<1> DEFINE S == {k \in Nat : k <= L => f[k] \in 0..Weight(k, w) - 1}
<1>1. 0 \in S
  <2>1. Weight(0, w) = 1 /\ f[0] = 0
    BY DigitsAreSummed, FirstWeights
  <2>2. f[0] \in 0..Weight(0, w) - 1
    BY <2>1
  <2> QED
    BY <2>2
<1>2. ASSUME NEW k \in Nat, k \in S PROVE k + 1 \in S
  <2> SUFFICES ASSUME k + 1 <= L PROVE f[k + 1] \in 0..Weight(k + 1, w) - 1
    OBVIOUS
  <2> DEFINE b == Weight(k, w)
             c == 2^w
             x == f[k]
             y == d[k]
  <2>1. k \in 0..L-1
    OBVIOUS
  <2>2. b \in Nat \ {0} /\ c \in Nat \ {0} /\ Weight(k + 1, w) = b * c
    BY NextWeight
  <2>3. x \in 0..b-1
    BY <1>2
  <2>4. f[k + 1] = x + y * b
    BY <2>1, DigitsAreSummed
  <2>5. y \in 0..c-1
    BY <2>1
  <2> HIDE DEF b, c, x, y
  <2>6. x + y * b \in 0..(b * c)-1
    <3>1. y * b <= (c - 1) * b
      BY <2>2, <2>5
    <3>2. (c - 1) * b = b * c - b
      BY <2>2
    <3>3. y * b \in Nat /\ b * c \in Nat
      BY <2>2, <2>5
    <3> QED
      BY <2>2, <2>3, <3>1, <3>2, <3>3
  <2> QED
    BY <2>2, <2>4, <2>6
<1>3. ASSUME NEW k \in 0..L PROVE f[k] \in 0..Weight(k, w) - 1
  <2> HIDE DEF S
  <2>1. k \in S
    BY <1>1, <1>2, SetInduction
  <2> QED
    BY <2>1 DEF S
<1>4. ASSUME NEW k \in 0..L-1
      PROVE  f[k] = f[k + 1] % Weight(k, w) /\ d[k] = f[k + 1] \div Weight(k, w)
  <2> DEFINE b == Weight(k, w)
             x == f[k]
             y == d[k]
             z == f[k + 1]
             q == z \div b
             r == z % b
  <2>1. b \in Nat \ {0} /\ 2^w \in Nat \ {0}
    BY NextWeight
  <2>2. x \in 0..b-1 /\ y \in Nat
    BY <1>3, <2>1
  <2>3. z = x + y * b
    BY DigitsAreSummed
  <2> HIDE DEF b, x, y, z
  <2>4. z \in Nat
    BY <2>1, <2>2, <2>3
  <2>5. q \in Nat /\ r \in 0..b-1 /\ z = b * q + r
    BY <2>1, <2>4, Divided
  <2> HIDE DEF q, r
  <2>6. b * q + r = b * y + x
    BY <2>1, <2>2, <2>3, <2>5
  <2>7. q = y /\ r = x
    BY <2>1, <2>2, <2>5, <2>6, DivModUnique
  <2> QED
    BY <2>7 DEF q, r, b, x, y, z
<1> DEFINE T == {j \in Nat : j <= L => f[L - j] = f[L] % Weight(L - j, w)}
<1>5. 0 \in T
  <2>1. L - 0 = L /\ L \in 0..L /\ L * w \in Nat
    OBVIOUS
  <2>2. f[L] \in 0..Weight(L, w) - 1 /\ Weight(L, w) \in Nat \ {0}
    BY <1>3, <2>1, WeightIsPositive
  <2>3. f[L] % Weight(L, w) = f[L]
    BY <2>2, SmallMod
  <2> QED
    BY <2>1, <2>3
<1>6. ASSUME NEW j \in Nat, j \in T PROVE j + 1 \in T
  <2> SUFFICES ASSUME j + 1 <= L PROVE f[L - (j + 1)] = f[L] % Weight(L - (j + 1), w)
    OBVIOUS
  <2> DEFINE k == L - (j + 1)
             b == Weight(k, w)
             c == 2^w
             a == f[L]
  <2>1. k \in 0..L-1 /\ k \in Nat /\ L - j = k + 1 /\ L \in 0..L
    OBVIOUS
  <2>2. f[k + 1] = a % Weight(k + 1, w)
    BY <1>6, <2>1
  <2>3. f[k] = f[k + 1] % b
    BY <1>4, <2>1
  <2>4. b \in Nat \ {0} /\ c \in Nat \ {0} /\ Weight(k + 1, w) = b * c
    BY <2>1, NextWeight
  <2>5. a \in Nat
    <3>1. a \in 0..Weight(L, w) - 1 /\ Weight(L, w) \in Nat
      <4>1. L * w \in Nat
        OBVIOUS
      <4> QED
        BY <1>3, <2>1, <4>1, WeightIsPositive
    <3> QED
      BY <3>1
  <2> HIDE DEF b, c, a
  <2>6. (a % (b * c)) % b = a % b
    BY <2>4, <2>5, ModOfMod
  <2>7. f[k] = a % b
    BY <2>2, <2>3, <2>4, <2>6
  <2> QED
    BY <2>7 DEF a, b
<1>7. ASSUME NEW k \in 0..L PROVE f[k] = f[L] % Weight(k, w)
  <2>1. L - k \in Nat /\ L - k <= L /\ L - (L - k) = k
    OBVIOUS
  <2>2. L - k \in T
    <3> HIDE DEF T
    <3> QED
      BY <1>5, <1>6, <2>1, SetInduction
  <2> QED
    BY <2>1, <2>2
<1>8. ASSUME NEW k \in 0..L-1 PROVE d[k] = (f[L] \div Weight(k, w)) % 2^w
  <2> DEFINE b == Weight(k, w)
             c == 2^w
             a == f[L]
  <2>1. k \in Nat /\ k + 1 \in 0..L /\ L \in 0..L /\ L * w \in Nat
    OBVIOUS
  <2>2. b \in Nat \ {0} /\ c \in Nat \ {0} /\ Weight(k + 1, w) = b * c
    BY <2>1, NextWeight
  <2>3. a \in Nat
    <3>1. a \in 0..Weight(L, w) - 1 /\ Weight(L, w) \in Nat
      BY <1>3, <2>1, WeightIsPositive
    <3> QED
      BY <3>1
  <2>4. d[k] = f[k + 1] \div b /\ f[k + 1] = a % Weight(k + 1, w)
    BY <1>4, <1>7, <2>1
  <2> HIDE DEF a, b, c
  <2>5. (a % (b * c)) \div b = (a \div b) % c
    BY <2>2, <2>3, ModOfMod
  <2>6. d[k] = (a \div b) % c
    BY <2>2, <2>4, <2>5
  <2> QED
    BY <2>6 DEF a, b, c
<1> QED
  BY <1>3, <1>7, <1>8

(* Of a multiple nothing remains; of a smaller number all does.            *)
LEMMA Multiples ==
  ASSUME NEW a \in Nat, NEW b \in Nat \ {0}
  PROVE  (a * b) \div b = a /\ (a * b) % b = 0
<1> DEFINE n == a * b
           q == n \div b
           r == n % b
<1>1. n \in Nat
  OBVIOUS
<1>2. n = b * a + 0
  OBVIOUS
<1> HIDE DEF n
<1>3. q \in Nat /\ r \in 0..b-1 /\ n = b * q + r
  BY <1>1, Divided
<1> HIDE DEF q, r
<1>4. q = a /\ r = 0
  <2>1. b * q + r = b * a + 0 /\ 0 \in 0..b-1
    BY <1>2, <1>3
  <2> QED
    BY <1>3, <2>1, DivModUnique
<1> QED
  BY <1>4 DEF q, r, n

LEMMA SmallDiv ==
  ASSUME NEW b \in Nat \ {0}, NEW n \in 0..b-1
  PROVE  n \div b = 0
<1> DEFINE q == n \div b
           r == n % b
<1>1. n \in Nat /\ n = b * 0 + n
  OBVIOUS
<1>2. q \in Nat /\ r \in 0..b-1 /\ n = b * q + r
  BY <1>1, Divided
<1> HIDE DEF q, r
<1>3. q = 0
  BY <1>1, <1>2, DivModUnique
<1> QED
  BY <1>3 DEF q

(* A quotient is not larger than what is divided.                          *)
LEMMA QuotientIsLess ==
  ASSUME NEW n \in Nat, NEW b \in Nat \ {0}
  PROVE  n \div b \in 0..n
<1> DEFINE q == n \div b
           r == n % b
<1>1. q \in Nat /\ r \in 0..b-1 /\ n = b * q + r
  BY Divided
<1> HIDE DEF q, r
<1>2. q <= b * q
  BY <1>1
<1>3. b * q \in Nat
  BY <1>1
<1>4. q \in 0..n
  BY <1>1, <1>2, <1>3
<1> QED
  BY <1>4 DEF q

-----------------------------------------------------------------------------
(* The digits of a number shifted by q digits: those below ...             *)
LEMMA LowDigits ==
  ASSUME NEW a \in Nat, NEW w \in Nat, NEW q \in Nat, NEW n \in Nat, n < q
  PROVE  ((a * Weight(q, w)) \div Weight(n, w)) % 2^w = 0
<1> DEFINE j == (q - n) - 1
           J == Weight(j, w)
           W == Weight(1, w)
           P == Weight(n, w)
           Q == Weight(q, w)
<1>1. j \in Nat /\ j + 1 \in Nat /\ q = (j + 1) + n
  OBVIOUS
<1> HIDE DEF j
<1>2. J \in Nat \ {0} /\ W \in Nat \ {0} /\ P \in Nat \ {0} /\ W = 2^w
  BY <1>1, WeightIsPositive, FirstWeights
<1>3. Q = (J * W) * P
  <2>1. Weight(j + 1, w) = J * W
    BY <1>1, WeightsAdd
  <2>2. Q = Weight(j + 1, w) * P
    BY <1>1, WeightsAdd
  <2> QED
    BY <2>1, <2>2
<1> HIDE DEF J, W, P, Q
<1> DEFINE b == a * J
           c == b * W
<1>4. b \in Nat
  BY <1>2
<1>5. c \in Nat
  <2> HIDE DEF b
  <2> QED
    BY <1>2, <1>4
<1>6. a * Q = c * P
  <2>1. a * ((J * W) * P) = ((a * J) * W) * P
    BY <1>2
  <2> QED
    BY <1>3, <2>1
<1>7. (c * P) \div P = c
  <2> HIDE DEF c
  <2> QED
    BY <1>2, <1>5, Multiples
<1>8. c % W = 0
  <2> HIDE DEF b
  <2> QED
    BY <1>2, <1>4, Multiples
<1> HIDE DEF c
<1>9. ((a * Q) \div P) % W = 0
  BY <1>6, <1>7, <1>8
<1> QED
  BY <1>2, <1>9 DEF P, Q

(* ... and those from q.                                                   *)
LEMMA HighDigits ==
  ASSUME NEW a \in Nat, NEW w \in Nat, NEW q \in Nat, NEW j \in Nat, NEW n \in Nat, n = q + j
  PROVE  (a * Weight(q, w)) \div Weight(n, w) = a \div Weight(j, w)
<1> DEFINE J == Weight(j, w)
           Q == Weight(q, w)
           P == Weight(n, w)
<1>1. Q \in Nat \ {0} /\ J \in Nat \ {0} /\ P = Q * J
  BY WeightIsPositive, WeightsAdd
<1> HIDE DEF J, Q, P
<1>2. P = J * Q
  BY <1>1
<1>3. (a * Q) \div (J * Q) = a \div J
  BY <1>1, ScaledMod
<1> QED
  BY <1>2, <1>3 DEF J, Q, P

(* A digit shifted by less than a digit is two digits.                     *)
LEMMA ShiftedIsTwoDigits ==
  ASSUME NEW w \in Nat \ {0}, NEW m \in 0..2^w - 1, NEW r \in 0..w-1
  PROVE  /\ m * 2^r \in Nat
         /\ (m * 2^r) \div 2^w = IF r > 0 THEN m \div 2^(w - r) ELSE 0
         /\ (m * 2^r) \div 2^w \in 0..2^w - 1
         /\ m * 2^r < 2^w * 2^w
<1> DEFINE R == 2^r
           W == 2^w
           T == 2^(w - r)
           M == m * R
<1>1. R \in Nat \ {0} /\ W \in Nat \ {0} /\ T \in Nat \ {0} /\ W = T * R
  <2>1. r \in Nat /\ w - r \in Nat /\ w = (w - r) + r
    OBVIOUS
  <2> QED
    BY <2>1, PowerIsPositive, PowerPlus
<1>2. m \in Nat /\ m < W
  BY <1>1 DEF W
<1>3. r = 0 => R = 1
  OBVIOUS
<1> HIDE DEF R, W, T
<1>4. M \in Nat
  BY <1>1, <1>2
<1>5. M \div W = m \div T /\ m \div T \in 0..W-1
  <2>1. m \div T \in 0..m
    BY <1>1, <1>2, QuotientIsLess
  <2>2. M \div W = m \div T
    BY <1>1, <1>2, ScaledMod
  <2> QED
    BY <1>1, <1>2, <2>1, <2>2
<1>6. r = 0 => m \div T = 0
  <2> SUFFICES ASSUME r = 0 PROVE m \div T = 0
    OBVIOUS
  <2>1. T = W
    BY <1>1, <1>3
  <2> QED
    BY <1>1, <1>2, <2>1, SmallDiv
<1>7. M < W * W
  <2>1. R <= W
    <3>1. R <= T * R
      BY <1>1
    <3> QED
      BY <1>1, <3>1
  <2>2. m * R <= m * W
    BY <1>1, <1>2, <2>1
  <2>3. m * W <= (W - 1) * W
    BY <1>1, <1>2
  <2>4. (W - 1) * W = W * W - W
    BY <1>1
  <2>5. m * R \in Nat /\ m * W \in Nat /\ (W - 1) * W \in Int /\ W * W \in Nat
    BY <1>1, <1>2
  <2> QED
    BY <1>1, <2>2, <2>3, <2>4, <2>5
<1> DEFINE x == m \div T
           y == M \div W
<1> HIDE DEF x, y, M
<1>8. y = (IF r > 0 THEN x ELSE 0) /\ y \in 0..W-1
  BY <1>5, <1>6 DEF x, y
<1> QED
  BY <1>4, <1>7, <1>8 DEF x, y, M, R, W, T

(* A digit m of w bits, shifted by s bits: what there is at digit n.       *)
ShiftedDigit(m, s, w, n) ==
  IF n = s \div w THEN (m * 2^(s % w)) % 2^w
  ELSE IF s % w > 0 /\ n = s \div w + 1 THEN m \div 2^(w - (s % w)) ELSE 0

LEMMA ShiftsDigits ==
  ASSUME NEW w \in Nat \ {0}, NEW m \in 0..2^w - 1, NEW s \in Nat, NEW n \in Nat
  PROVE  /\ ShiftedDigit(m, s, w, n) = ((m * 2^s) \div Weight(n, w)) % 2^w
         /\ ShiftedDigit(m, s, w, n) \in 0..2^w - 1
<1> DEFINE q == s \div w
           r == s % w
           W == 2^w
           P == Weight(n, w)
           Q == Weight(q, w)
           M == m * 2^r
           c == m \div 2^(w - r)
           a == m * 2^s
<1>1. q \in Nat /\ r \in 0..w-1 /\ r \in Nat /\ s = w * q + r
  BY Divided
<1>2. W \in Nat \ {0}
  BY PowerIsPositive
<1>3. a = M * Q
  <2>1. q * w \in Nat /\ s = r + q * w
    BY <1>1
  <2> DEFINE R == 2^r
  <2>2. 2^s = R * Q /\ R \in Nat \ {0} /\ Q \in Nat \ {0}
    <3> DEFINE b == q * w
    <3> HIDE DEF q, r, b
    <3>1. 2^(r + b) = 2^r * 2^b /\ 2^r \in Nat \ {0} /\ 2^b \in Nat \ {0}
      BY <1>1, <2>1, PowerPlus, PowerIsPositive DEF b
    <3> QED
      BY <2>1, <3>1 DEF b, Weight
  <2> HIDE DEF R, Q, q, r
  <2>3. m * (R * Q) = (m * R) * Q
    BY <2>2
  <2> QED
    BY <2>2, <2>3 DEF R
<1>4. /\ M \in Nat /\ M < W * W
      /\ M \div W = (IF r > 0 THEN c ELSE 0) /\ M \div W \in 0..W-1
  <2> HIDE DEF r
  <2> QED
    BY <1>1, ShiftedIsTwoDigits
<1> DEFINE d == IF n = q THEN M % W ELSE IF r > 0 /\ n = q + 1 THEN c ELSE 0
<1> SUFFICES d = (a \div P) % W /\ (a \div P) % W \in 0..W-1
  BY DEF ShiftedDigit
<1> HIDE DEF c, M, W, r
<1>5. CASE n < q
  <2>1. ((M * Q) \div P) % W = 0
    <3> HIDE DEF q
    <3> QED
      BY <1>1, <1>4, <1>5, LowDigits DEF W
  <2>2. d = 0
    BY <1>1, <1>5
  <2> HIDE DEF d, q, P, Q, a
  <2> QED
    BY <1>2, <1>3, <2>1, <2>2
<1>6. CASE n >= q
  <2> DEFINE j == n - q
             J == Weight(j, w)
  <2>1. j \in Nat /\ n = q + j
    BY <1>1, <1>6
  <2>2. a \div P = M \div J
    <3> HIDE DEF q, j
    <3> QED
      BY <1>1, <1>3, <1>4, <2>1, HighDigits
  <2> HIDE DEF a, P, Q, j
  <2>3. CASE j = 0
    <3>2. J = 1
      BY <2>3, FirstWeights
    <3> HIDE DEF J
    <3>3. M \div J = M
      BY <1>4, <3>2
    <3>4. M % W \in 0..W-1
      BY <1>2, <1>4, ModRange
    <3>5. d = M % W
      BY <1>1, <2>1, <2>3
    <3> HIDE DEF d
    <3> QED
      BY <2>2, <3>3, <3>4, <3>5
  <2>4. CASE j = 1
    <3>2. J = W
      BY <2>4, FirstWeights DEF W
    <3> DEFINE x == M \div W
    <3>3. x \in 0..W-1 /\ x = (IF r > 0 THEN c ELSE 0)
      BY <1>4
    <3>4. a \div P = x
      BY <2>2, <3>2
    <3> HIDE DEF x, J
    <3>5. x % W = x
      BY <1>2, <3>3, SmallMod
    <3>6. d = (IF r > 0 THEN c ELSE 0)
      BY <1>1, <2>1, <2>4
    <3> HIDE DEF d
    <3> QED
      BY <3>3, <3>4, <3>5, <3>6
  <2>5. CASE j >= 2
    <3>1. W * W <= J /\ J \in Nat \ {0}
      <4>1. j - 2 \in Nat /\ j = 2 + (j - 2) /\ 2 = 1 + 1
        BY <2>1, <2>5
      <4> DEFINE H == Weight(j - 2, w)
      <4>2. Weight(2, w) = W * W /\ H \in Nat \ {0} /\ J = Weight(2, w) * H /\ J \in Nat \ {0}
        <5>1. Weight(2, w) = Weight(1, w) * Weight(1, w) /\ Weight(1, w) = W
          BY <4>1, WeightsAdd, FirstWeights DEF W
        <5> DEFINE h == j - 2
        <5>2. h \in Nat /\ j = 2 + h
          BY <4>1
        <5> HIDE DEF h
        <5>3. Weight(h, w) \in Nat \ {0} /\ J \in Nat \ {0}
          BY <2>1, <5>2, WeightIsPositive
        <5> DEFINE two == 2
        <5>4. two \in Nat /\ j = two + h
          BY <5>2
        <5> HIDE DEF two
        <5>5. J = Weight(two, w) * Weight(h, w)
          BY <2>1, <5>2, <5>4, WeightsAdd
        <5> QED
          BY <5>1, <5>3, <5>5 DEF h, two
      <4> HIDE DEF H, J
      <4> DEFINE V == W * W
      <4>3. V \in Nat /\ J = V * H
        BY <1>2, <4>2
      <4> HIDE DEF V
      <4>4. V <= V * H
        BY <4>2, <4>3
      <4> QED
        BY <4>2, <4>3, <4>4 DEF V
    <3> HIDE DEF J
    <3>2. M \in 0..J-1
      <4>1. W * W \in Nat
        BY <1>2
      <4> QED
        BY <1>4, <3>1, <4>1
    <3>3. M \div J = 0 /\ 0 % W = 0 /\ 0 \in 0..W-1
      BY <1>2, <3>1, <3>2, SmallDiv, SmallMod
    <3>4. d = 0
      BY <1>1, <2>1, <2>5
    <3> HIDE DEF d
    <3> QED
      BY <2>2, <3>3, <3>4
  <2> QED
    BY <2>1, <2>3, <2>4, <2>5
<1> QED
  BY <1>1, <1>5, <1>6

-----------------------------------------------------------------------------
(* A digit of a number that was cut above it.                              *)
LEMMA DigitOfDigit ==
  ASSUME NEW a \in Nat, NEW w \in Nat, NEW L \in Nat, NEW n \in 0..L-1
  PROVE  ((a % Weight(L, w)) \div Weight(n, w)) % 2^w = (a \div Weight(n, w)) % 2^w
<1> DEFINE h == (L - n) - 1
           H == h + 1
           b == Weight(n, w)
           c == Weight(H, w)
           d == Weight(h, w)
           W == 2^w
           x == a \div b
<1>1. h \in Nat /\ H \in Nat /\ n \in Nat /\ L = n + H /\ H = h + 1
  OBVIOUS
<1> HIDE DEF h, H
<1>2. Weight(L, w) = b * c /\ b \in Nat \ {0} /\ c \in Nat \ {0}
  <2>1. Weight(L, w) = b * c
    BY <1>1, WeightsAdd
  <2>2. H \in Nat
    BY <1>1
  <2> QED
    BY <1>1, <2>1, <2>2, WeightIsPositive
<1>3. c = d * W /\ d \in Nat \ {0} /\ W \in Nat \ {0}
  BY <1>1, NextWeight
<1> HIDE DEF b, c, d, W
<1>4. (a % (b * c)) \div b = x % c
  BY <1>2, ModOfMod
<1>5. x \in Nat
  BY <1>2, Divided
<1> HIDE DEF x
<1>6. c = W * d
  BY <1>3
<1>7. (x % (W * d)) % W = x % W
  BY <1>3, <1>5, ModOfMod
<1>8. ((a % (b * c)) \div b) % W = x % W
  BY <1>4, <1>6, <1>7
<1> QED
  BY <1>2, <1>8 DEF b, W, x

(* The digits of w bits of a digit of L * w bits.                          *)
SameDigit(v, w, L, p, r, n) ==
  (((v \div Weight(p, w)) % Weight(L, w)) \div Weight(r, w)) % 2^w
    = (v \div Weight(n, w)) % 2^w

LEMMA DigitInDigit ==
  ASSUME NEW v \in Nat, NEW w \in Nat, NEW L \in Nat, NEW p \in Nat, NEW r \in 0..L-1,
         NEW n \in Nat, n = p + r
  PROVE  SameDigit(v, w, L, p, r, n)
<1> DEFINE P == Weight(p, w)
           R == Weight(r, w)
           N == Weight(n, w)
           a == v \div P
<1>1. r \in Nat
  OBVIOUS
<1>2. P \in Nat \ {0} /\ R \in Nat \ {0}
  BY <1>1, WeightIsPositive
<1>3. N = P * R
  BY <1>1, WeightsAdd
<1> HIDE DEF P, N
<1>4. a \in Nat
  BY <1>2, Divided
<1>5. v \div (P * R) = a \div R
  <2> HIDE DEF R
  <2> QED
    BY <1>2, DivProduct
<1> HIDE DEF a
<1>6. ((a % Weight(L, w)) \div R) % 2^w = (a \div R) % 2^w
  BY <1>4, DigitOfDigit
<1> QED
  BY <1>3, <1>5, <1>6 DEF a, P, N, R, SameDigit
=============================================================================
