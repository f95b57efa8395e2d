---------------------------- MODULE EncodingProofs ----------------------------
(***************************************************************************)
(* Targets and hashes as numbers, for every width of words and bytes, every*)
(* number of words and every compact target; and headers as bytes, whatever*)
(* the number of their levels and parents.                                 *)
(*                                                                         *)
(* A Uint256 is its number's digits, in words or in bytes; what shl puts   *)
(* into a word is that digit of the shifted number; and what the loop of   *)
(* shl has done after its first word is all it does, as the number it is   *)
(* given is less than a word.                                              *)
(*                                                                         *)
(* At every stage of the serialization, what the hasher has been given is  *)
(* the header up to there, each part where a reader looks for it, and ends *)
(* there.  Where the levels begin is a sum over the levels before, which   *)
(* the reader takes of the numbers it has read.                            *)
(***************************************************************************)
EXTENDS PowProofs

LEMMA Widths ==
  /\ WordBits \in Nat \ {0} /\ ByteBits \in Nat \ {0} /\ Words \in Nat \ {0}
  /\ Byte = 2^ByteBits /\ WordBits % ByteBits = 0 /\ 3 * ByteBits <= WordBits
  /\ Hashes \subseteq Target!Uint256
BY PowAssumption DEF Target!TargetAssumption

(* What is summed up of digits is the sums' last.                          *)
LEMMA FromDigitsIsSum ==
  ASSUME NEW d, NEW w \in Nat, NEW L \in Nat
  PROVE  \E f : SumsOfDigits(f, d, w, L) /\ Target!FromDigits(d, w, L) = f[L]
<1> DEFINE a == [n \in 0..L-1 |-> d[n] * Weight(n, w)]
           sum == CHOOSE f : SumsOfDigits(f, d, w, L)
<1>1. PICK f : f = [n \in 0..L |-> IF n = 0 THEN 0 ELSE f[n - 1] + a[n - 1]]
  <2> HIDE DEF a
  <2> QED
    BY SumsExist
<1>2. \A n \in 0..L : n # 0 => a[n - 1] = d[n - 1] * Weight(n - 1, w)
  OBVIOUS
<1>3. SumsOfDigits(f, d, w, L)
  BY <1>1, <1>2 DEF SumsOfDigits
<1>4. SumsOfDigits(sum, d, w, L)
  BY <1>3
<1>5. Target!FromDigits(d, w, L) = sum[L]
  BY DEF Target!FromDigits, SumsOfDigits, Weight
<1> HIDE DEF sum
<1> QED
  BY <1>4, <1>5

(* The number with all the digits of a is a, cut to their width.           *)
LEMMA FromDigitsOf ==
  ASSUME NEW d, NEW w \in Nat, NEW L \in Nat, NEW a \in Nat,
         \A n \in 0..L-1 : d[n] = (a \div Weight(n, w)) % 2^w
  PROVE  Target!FromDigits(d, w, L) = a % Weight(L, w)
<1>1. PICK f : SumsOfDigits(f, d, w, L) /\ Target!FromDigits(d, w, L) = f[L]
  BY FromDigitsIsSum
<1>2. f[L] = a % Weight(L, w)
  BY <1>1, DigitsMakeNumber
<1> QED
  BY <1>1, <1>2

(* And the number's digits are those that it was made of.                  *)
LEMMA DigitsOfNumber ==
  ASSUME NEW d, NEW w \in Nat, NEW L \in Nat, \A n \in 0..L-1 : d[n] \in 0..2^w - 1
  PROVE  /\ Target!FromDigits(d, w, L) \in 0..Weight(L, w) - 1
         /\ \A n \in 0..L-1 : d[n] = (Target!FromDigits(d, w, L) \div Weight(n, w)) % 2^w
<1>1. PICK f : SumsOfDigits(f, d, w, L) /\ Target!FromDigits(d, w, L) = f[L]
  BY FromDigitsIsSum
<1>2. L \in 0..L
  OBVIOUS
<1> QED
  BY <1>1, <1>2, NumberHasDigits

-----------------------------------------------------------------------------
CompactTargets == [exponent : Nat, mantissa : Target!Mantissas]

LEMMA BitsAreCompact ==
  ASSUME NEW h \in Header
  PROVE  Compact(h.bits) \in CompactTargets
<1> DEFINE M == 2^(3 * ByteBits)
           a == h.bits
<1>1. M \in Nat \ {0} /\ a \in Nat
  <2>1. 3 * ByteBits \in Nat /\ U32 * ByteBits \in Nat
    BY Widths, PowAssumption
  <2>2. 2^(3 * ByteBits) \in Nat \ {0} /\ 2^(U32 * ByteBits) \in Nat \ {0}
    BY <2>1, PowerIsPositive
  <2>3. h.bits \in Unsigned(U32)
    BY DEF Header
  <2> QED
    BY <2>2, <2>3 DEF Unsigned
<1> HIDE DEF M, a
<1>2. a \div M \in Nat /\ a % M \in 0..M-1
  BY <1>1, Divided
<1> QED
  BY <1>2 DEF M, a, Compact, CompactTargets, Target!Mantissas

(* The mantissa that is shifted fits a word, and is less than a negative   *)
(* one if digits of it were dropped.                                       *)
LEMMA MantissaFits ==
  ASSUME NEW b \in CompactTargets
  PROVE  /\ Target!Mantissa(b) \in 0..2^WordBits - 1
         /\ Target!Exponent(b) \in Nat
         /\ Target!Negative(Target!Mantissa(b))
              <=> b.exponent >= 3 /\ 2 * b.mantissa >= 2^(3 * ByteBits)
<1> DEFINE e == b.exponent
           m == b.mantissa
           half == 2^(3 * ByteBits - 1)
           full == 2^(3 * ByteBits)
           c == ByteBits * (3 - e)
<1>1. half \in Nat \ {0} /\ full = 2 * half
  <2>1. 3 * ByteBits - 1 \in Nat /\ 3 * ByteBits = (3 * ByteBits - 1) + 1
    BY Widths
  <2> DEFINE p == 3 * ByteBits - 1
  <2>2. p \in Nat /\ 3 * ByteBits = p + 1
    BY <2>1
  <2> HIDE DEF p
  <2>3. 2^p \in Nat \ {0} /\ 2^(p + 1) = 2 * 2^p
    BY <2>2, PowerIsPositive, PowerDoubles
  <2> QED
    BY <2>2, <2>3 DEF p
<1>2. e \in Nat /\ m \in 0..full - 1
  BY DEF CompactTargets, Target!Mantissas
<1>3. full <= 2^WordBits /\ 2^WordBits \in Nat
  BY Widths, PowerMonotone, PowerIsPositive
<1> HIDE DEF e, m, half, full
<1>4. CASE e < 3
  <2> DEFINE C == 2^c
             q == m \div C
  <2>1. C \in Nat /\ C >= 2
    <3>1. c \in Nat /\ c >= 1
      <4>1. 3 - e \in Nat \ {0} /\ ByteBits \in Nat \ {0}
        BY <1>2, <1>4, Widths
      <4> QED
        BY <4>1
    <3> DEFINE d == c - 1
    <3>2. d \in Nat /\ c = d + 1
      BY <3>1
    <3> HIDE DEF c, d
    <3>3. 2^(d + 1) = 2 * 2^d /\ 2^d \in Nat \ {0}
      BY <3>2, PowerDoubles, PowerIsPositive
    <3> QED
      BY <3>2, <3>3
  <2>2. m \in Nat
    BY <1>1, <1>2
  <2> HIDE DEF C
  <2>3. q \in Nat /\ m % C \in 0..C-1 /\ m = C * q + (m % C)
    <3>1. C \in Nat \ {0}
      BY <2>1
    <3> QED
      BY <2>2, <3>1, Divided
  <2> DEFINE r == m % C
  <2> HIDE DEF q, r
  <2>4. 2 * q <= C * q
    BY <2>1, <2>3
  <2>5. C * q <= m
    BY <2>1, <2>2, <2>3 DEF r
  <2>6. 2 * q < full /\ q < half /\ q \in 0..2^WordBits - 1
    BY <1>1, <1>2, <1>3, <2>1, <2>2, <2>3, <2>4, <2>5
  <2>7. Target!Mantissa(b) = q /\ Target!Exponent(b) = 0
    BY <1>2, <1>4 DEF Target!Mantissa, Target!Exponent, e, m, q, C
  <2>8. ~Target!Negative(q)
    BY <1>1, <2>3, <2>6 DEF Target!Negative, half
  <2> QED
    BY <1>2, <1>4, <2>6, <2>7, <2>8 DEF e
<1>5. CASE e >= 3
  <2>1. Target!Mantissa(b) = m
    <3>1. CASE e = 3
      <4>1. c = 0 /\ m \div 2^0 = m
        <5>1. 2^0 = 1 /\ m \in Nat
          BY <1>1, <1>2
        <5> QED
          BY <3>1, <5>1, Widths
      <4> QED
        BY <3>1, <4>1 DEF Target!Mantissa, e, m
    <3>2. CASE e > 3
      BY <1>2, <3>2 DEF Target!Mantissa, e, m
    <3> QED
      BY <1>2, <1>5, <3>1, <3>2
  <2>2. Target!Exponent(b) \in Nat
    BY <1>2, <1>5, Widths DEF Target!Exponent, e
  <2>3. m \in 0..2^WordBits - 1
    BY <1>1, <1>2, <1>3
  <2>4. Target!Negative(m) <=> 2 * m >= full
    BY <1>1, <1>2 DEF Target!Negative, half
  <2> QED
    BY <1>5, <2>1, <2>2, <2>3, <2>4 DEF e, m, full
<1> QED
  BY <1>2, <1>4, <1>5

(* What the loop of shl makes of the mantissa, ...                         *)
Expanded(b) ==
  [n \in 0..Words - 1 |->
     ShiftedDigit(Target!Mantissa(b), Target!Exponent(b), WordBits, n)]

(* ... and what the target is in the end.                                  *)
TargetOf(b) ==
  IF Target!Negative(Target!Mantissa(b)) THEN Target!Zero ELSE Expanded(b)

LEMMA ZeroIsZero ==
  Target!Zero \in Target!Uint256 /\ Target!Value(Target!Zero) = 0
<1>1. 2^WordBits \in Nat \ {0} /\ WordBits \in Nat /\ Words \in Nat
  BY Widths, PowerIsPositive
<1>2. \A n \in 0..Words - 1 : Target!Zero[n] = (0 \div Weight(n, WordBits)) % 2^WordBits
  <2> SUFFICES ASSUME NEW n \in 0..Words - 1
               PROVE  Target!Zero[n] = (0 \div Weight(n, WordBits)) % 2^WordBits
    OBVIOUS
  <2>1. Weight(n, WordBits) \in Nat \ {0} /\ Target!Zero[n] = 0
    BY <1>1, WeightIsPositive DEF Target!Zero
  <2> QED
    BY <1>1, <2>1, SmallDiv, SmallMod
<1>3. Weight(Words, WordBits) \in Nat \ {0}
  BY <1>1, WeightIsPositive
<1>4. Target!FromDigits(Target!Zero, WordBits, Words) = 0 % Weight(Words, WordBits)
  <2> DEFINE x == Target!Zero
             z == 0
  <2>1. /\ z \in Nat /\ WordBits \in Nat /\ Words \in Nat
        /\ \A n \in 0..Words - 1 : x[n] = (z \div Weight(n, WordBits)) % 2^WordBits
    BY <1>1, <1>2
  <2> HIDE DEF x, z
  <2>2. Target!FromDigits(x, WordBits, Words) = z % Weight(Words, WordBits)
    BY <2>1, FromDigitsOf
  <2> QED
    BY <2>2 DEF x, z
<1>5. Target!Zero \in Target!Uint256
  BY <1>1 DEF Target!Zero, Target!Uint256, Target!Word
<1> QED
  BY <1>3, <1>4, <1>5, SmallMod DEF Target!Value

LEMMA TargetOfIsNumber ==
  ASSUME NEW b \in CompactTargets
  PROVE  TargetOf(b) \in Target!Uint256 /\ Target!Value(TargetOf(b)) = Target!Number(b)
<1> DEFINE e == b.exponent
           m == b.mantissa
           M == Target!Mantissa(b)
           S == Target!Exponent(b)
           W == Weight(Words, WordBits)
<1>1. CASE Target!Negative(M)
  <2>1. e >= 3 /\ 2 * m >= 2^(3 * ByteBits) /\ e \in Nat
    BY <1>1, MantissaFits DEF CompactTargets
  <2>2. Target!Number(b) = 0
    BY <2>1 DEF Target!Number
  <2>3. TargetOf(b) = Target!Zero
    BY <1>1 DEF TargetOf
  <2> QED
    BY <2>2, <2>3, ZeroIsZero
<1>2. CASE ~Target!Negative(M)
  <2>1. M \in 0..2^WordBits - 1 /\ S \in Nat /\ e \in Nat
    BY MantissaFits DEF CompactTargets
  <2>2. TargetOf(b) = Expanded(b)
    BY <1>2 DEF TargetOf
  <2> HIDE DEF M, S
  <2> DEFINE a == M * 2^S
  <2>3. a \in Nat
    <3>1. 2^S \in Nat
      BY <2>1, PowerIsPositive
    <3>2. M \in Nat
      BY <2>1, PowerIsPositive
    <3> QED
      BY <3>1, <3>2
  <2>4. ASSUME NEW n \in 0..Words - 1
        PROVE  /\ Expanded(b)[n] \in 0..2^WordBits - 1
               /\ Expanded(b)[n] = (a \div Weight(n, WordBits)) % 2^WordBits
    <3>1. Expanded(b)[n] = ShiftedDigit(M, S, WordBits, n)
      BY DEF Expanded, M, S
    <3>2. n \in Nat /\ WordBits \in Nat \ {0}
      BY Widths
    <3>3. /\ ShiftedDigit(M, S, WordBits, n) = ((M * 2^S) \div Weight(n, WordBits)) % 2^WordBits
          /\ ShiftedDigit(M, S, WordBits, n) \in 0..2^WordBits - 1
      BY <2>1, <3>2, ShiftsDigits
    <3> QED
      BY <3>1, <3>3
  <2> HIDE DEF a
  <2>5. Target!Value(Expanded(b)) = a % W
    BY <2>3, <2>4, Widths, FromDigitsOf DEF Target!Value
  <2>6. Expanded(b) \in Target!Uint256
    BY <2>4 DEF Expanded, Target!Uint256, Target!Word
  <2>7. CASE e < 3
    <3>1. M = m \div 2^(ByteBits * (3 - e)) /\ S = 0
      BY <2>1, <2>7 DEF M, S, Target!Mantissa, Target!Exponent
    <3>2. Target!Number(b) = M
      BY <2>7, <3>1 DEF Target!Number
    <3>3. a = M
      BY <2>1, <3>1 DEF a
    <3>4. M \in 0..W-1 /\ W \in Nat \ {0}
      <4> DEFINE p == Words - 1
                 H == Weight(p, WordBits)
                 D == 2^WordBits
      <4>1. p \in Nat /\ Words = 1 + p
        BY Widths
      <4> HIDE DEF p
      <4>2. W = D * H /\ H \in Nat \ {0} /\ D \in Nat \ {0} /\ W \in Nat \ {0}
        <5>1. WordBits \in Nat /\ Words \in Nat
          BY Widths
        <5>2. W = Weight(1, WordBits) * H
          BY <4>1, <5>1, WeightsAdd
        <5>3. Weight(1, WordBits) = D
          BY <5>1, FirstWeights
        <5>4. H \in Nat \ {0} /\ W \in Nat \ {0} /\ D \in Nat \ {0}
          BY <4>1, <5>1, WeightIsPositive, PowerIsPositive
        <5> QED
          BY <5>2, <5>3, <5>4
      <4>3. M \in 0..D-1
        BY <2>1
      <4> HIDE DEF D, H, W
      <4>4. D <= D * H
        BY <4>2
      <4> QED
        BY <4>2, <4>3, <4>4
    <3> HIDE DEF W
    <3>5. M % W = M
      BY <3>4, SmallMod
    <3> QED
      BY <2>2, <2>5, <2>6, <3>2, <3>3, <3>5
  <2>8. CASE e >= 3
    <3>1. ~(2 * m >= 2^(3 * ByteBits))
      BY <1>2, <2>1, <2>8, MantissaFits DEF M
    <3>2. Target!Number(b) = (m * 2^(ByteBits * (e - 3))) % 2^(Words * WordBits)
      BY <2>1, <2>8, <3>1 DEF Target!Number
    <3>3. M = m /\ S = ByteBits * (e - 3)
      <4>1. CASE e = 3
        <5>1. ByteBits * (3 - e) = 0 /\ ByteBits * (e - 3) = 0 /\ 2^0 = 1
          BY <4>1, Widths
        <5>2. m \in Nat
          <6>1. 3 * ByteBits \in Nat
            BY Widths
          <6>2. 2^(3 * ByteBits) \in Nat
            BY <6>1, PowerIsPositive
          <6> QED
            BY <6>2 DEF CompactTargets, Target!Mantissas
        <5>3. m \div 1 = m
          BY <5>2
        <5> QED
          BY <4>1, <5>1, <5>3 DEF M, S, Target!Mantissa, Target!Exponent
      <4>2. CASE e > 3
        BY <2>1, <4>2 DEF M, S, Target!Mantissa, Target!Exponent
      <4> QED
        BY <2>1, <2>8, <4>1, <4>2
    <3>4. Target!Number(b) = a % W
      BY <3>2, <3>3 DEF a, Weight
    <3> QED
      BY <2>2, <2>5, <2>6, <3>4
  <2> QED
    BY <2>1, <2>7, <2>8
<1> QED
  BY <1>1, <1>2

-----------------------------------------------------------------------------
(* What there is of the target at each step of decoding it.                *)
DecodedInv ==
  LET b == Compact(header.bits)
      m == Target!Mantissa(b)
  IN  /\ phase \in IF stage = "decode" THEN {"decode", "shift"} ELSE {"compare", "done"}
      /\ phase = "decode" => target = Target!Zero
      /\ phase = "shift" =>
           /\ ~Target!Negative(m)
           /\ original = Target!FromU64(m) /\ shift = Target!Exponent(b)
           /\ word \in 0..Words
           /\ target = IF word = 0 THEN Target!Zero ELSE Expanded(b)
      /\ phase \in {"compare", "done"} => target = TargetOf(b)

(* The proof of work is some Uint256.                                      *)
OracleInv == oracle \in [Nonces -> Hashes] /\ hash \in Target!Uint256

(* A hash for which a block was made met the header's target; one for which*)
(* none was made did not.                                                  *)
SolutionInv ==
  /\ role # "miner" => Met(hash, TargetOf(Compact(header.bits)))
  /\ role = "miner" /\ stage \in Computing => pow = {}
  /\ stage = "mine" /\ pow # {} => ~Met(hash, target)

TargetInvariant == DecodedInv /\ OracleInv /\ SolutionInv

(* One step of the loop of shl does all of it, the others nothing.         *)
LEMMA ShiftsOnce ==
  ASSUME header \in Header, DecodedInv, stage = "decode", Target!ShiftWord
  PROVE  target' = Expanded(Compact(header.bits))
<1> DEFINE b == Compact(header.bits)
           m == Target!Mantissa(b)
           s == Target!Exponent(b)
           W == 2^WordBits
           q == s \div WordBits
           r == s % WordBits
<1>1. /\ phase = "shift" /\ word \in 0..Words /\ word < Words
      /\ original = Target!FromU64(m) /\ shift = s
      /\ target = IF word = 0 THEN Target!Zero ELSE Expanded(b)
  BY DEF DecodedInv, Target!ShiftWord
<1>2. WordBits \in Nat \ {0} /\ Words \in Nat \ {0} /\ m \in 0..W-1 /\ s \in Nat
  BY Widths, BitsAreCompact, MantissaFits
<1>3. /\ W \in Nat \ {0} /\ q \in Nat /\ r \in 0..WordBits-1
      /\ 2^r \in Nat \ {0} /\ (r > 0 => 2^(WordBits - r) \in Nat \ {0})
  <2>1. q \in Nat /\ r \in 0..WordBits-1
    BY <1>2, Divided
  <2> HIDE DEF q, r
  <2> QED
    BY <1>2, <2>1, PowerIsPositive
<1> HIDE DEF b, m, s
<1>4. /\ DOMAIN target' = 0..Words-1
      /\ \A n \in 0..Words-1 :
           target'[n] = target[n]
             + (IF n = word + q THEN (original[word] * 2^r) % W ELSE 0)
             + (IF r > 0 /\ n = word + q + 1
                THEN original[word] \div 2^(WordBits - r) ELSE 0)
      /\ target' = [n \in 0..Words-1 |-> target'[n]]
  BY <1>1 DEF Target!ShiftWord, Target!Shifted, Target!Carried, Target!WordShift,
    Target!BitShift, Target!Shl, Target!Shr
<1>5. CASE word = 0
  <2>1. original[word] = m
    BY <1>1, <1>2, <1>5 DEF Target!FromU64, Target!Zero
  <2>2. ASSUME NEW n \in 0..Words-1
        PROVE  target'[n] = ShiftedDigit(m, s, WordBits, n)
    <3>1. target[n] = 0
      BY <1>1, <1>5 DEF Target!Zero
    <3> DEFINE x == (m * 2^r) % W
               y == m \div 2^(WordBits - r)
    <3>2. x \in Nat /\ (r > 0 => y \in Nat)
      <4> DEFINE R == 2^r
                 D == 2^(WordBits - r)
      <4> HIDE DEF W, R, D, r
      <4>1. m \in Nat /\ m * R \in Nat
        BY <1>2, <1>3 DEF R
      <4>2. (m * R) % W \in Nat
        BY <1>3, <4>1, Divided
      <4>3. r > 0 => m \div D \in Nat
        BY <1>3, <4>1, Divided DEF D
      <4> QED
        BY <4>2, <4>3 DEF R, D
    <3>3. target'[n] = 0 + (IF n = 0 + q THEN x ELSE 0)
                         + (IF r > 0 /\ n = 0 + q + 1 THEN y ELSE 0)
      BY <1>4, <1>5, <2>1, <3>1
    <3>4. ShiftedDigit(m, s, WordBits, n)
            = IF n = q THEN x ELSE IF r > 0 /\ n = q + 1 THEN y ELSE 0
      BY DEF ShiftedDigit
    <3> HIDE DEF x, y, q, r
    <3> QED
      BY <1>3, <3>2, <3>3, <3>4
  <2>3. target' = [n \in 0..Words-1 |-> ShiftedDigit(m, s, WordBits, n)]
    BY <1>4, <2>2
  <2> QED
    BY <2>3 DEF Expanded, b, m, s
<1>6. CASE word # 0
  <2>1. original[word] = 0
    BY <1>1, <1>2, <1>6 DEF Target!FromU64, Target!Zero
  <2>2. Expanded(b) \in [0..Words-1 -> Int]
    <3>1. b \in CompactTargets
      BY BitsAreCompact DEF b
    <3>2. ASSUME NEW n \in 0..Words-1 PROVE ShiftedDigit(m, s, WordBits, n) \in Int
      <4>1. n \in Nat
        OBVIOUS
      <4>2. ShiftedDigit(m, s, WordBits, n) \in 0..2^WordBits - 1
        BY <1>2, <4>1, ShiftsDigits
      <4> QED
        BY <1>3, <4>2
    <3> QED
      BY <3>2 DEF Expanded, m, s
  <2>3. (0 * 2^r) % W = 0 /\ (r > 0 => 0 \div 2^(WordBits - r) = 0)
    <3>1. 0 * 2^r = 0
      BY <1>3
    <3>2. 0 % W = 0
      BY <1>3, SmallMod
    <3>3. r > 0 => 0 \div 2^(WordBits - r) = 0
      BY <1>3, SmallDiv
    <3> QED
      BY <3>1, <3>2, <3>3
  <2>4. ASSUME NEW n \in 0..Words-1 PROVE target'[n] = target[n]
    <3>1. target[n] \in Int
      BY <1>1, <1>6, <2>2
    <3>2. target'[n] = target[n] + (IF n = word + q THEN 0 ELSE 0)
                         + (IF r > 0 /\ n = word + q + 1 THEN 0 ELSE 0)
      BY <1>4, <2>1, <2>3
    <3> HIDE DEF q, r
    <3> QED
      BY <3>1, <3>2
  <2>5. target' = Expanded(b)
    BY <1>1, <1>4, <1>6, <2>2, <2>4
  <2> QED
    BY <2>5 DEF b
<1> QED
  BY <1>5, <1>6

LEMMA DecodeKeeps ==
  ASSUME header \in Header, DecodedInv, DecodeTarget
  PROVE  DecodedInv'
<1> DEFINE b == Compact(header.bits)
           m == Target!Mantissa(b)
<1>1. stage = "decode" /\ header' = header
      /\ stage' = IF phase' = "compare" THEN "version" ELSE stage
  BY DEF DecodeTarget
<1>2. Words \in Nat \ {0}
  BY Widths
<1>3. CASE Target!Decode
  <2>1. phase = "decode" /\ target = Target!Zero /\ target' = target
    BY <1>3 DEF Target!Decode, DecodedInv
  <2>2. CASE Target!Negative(m)
    <3>1. phase' = "compare"
      BY <1>3, <2>2 DEF Target!Decode
    <3> QED
      BY <1>1, <2>1, <2>2, <3>1 DEF DecodedInv, TargetOf
  <2>3. CASE ~Target!Negative(m)
    <3>1. /\ phase' = "shift" /\ word' = 0
          /\ original' = Target!FromU64(m) /\ shift' = Target!Exponent(b)
      BY <1>3, <2>3 DEF Target!Decode
    <3> QED
      BY <1>1, <1>2, <2>1, <2>3, <3>1 DEF DecodedInv
  <2> QED
    BY <2>2, <2>3
<1>4. CASE Target!ShiftWord
  <2>1. target' = Expanded(b)
    BY <1>1, <1>4, ShiftsOnce
  <2>2. /\ phase = "shift" /\ word < Words /\ word' = word + 1
        /\ UNCHANGED <<original, shift, phase>>
    BY <1>4 DEF Target!ShiftWord
  <2> HIDE DEF b, m
  <2>3. word \in 0..Words /\ word' \in 0..Words /\ word' # 0
    BY <1>2, <2>2 DEF DecodedInv
  <2> QED
    BY <1>1, <2>1, <2>2, <2>3 DEF DecodedInv, b
<1>5. CASE Target!EndShift
  <2>1. phase = "shift" /\ word = Words /\ phase' = "compare" /\ target' = target
    BY <1>5 DEF Target!EndShift
  <2> QED
    BY <1>1, <1>2, <2>1 DEF DecodedInv, TargetOf
<1> QED
  BY <1>3, <1>4, <1>5 DEF DecodeTarget

(* Once it is decoded the target stays, as do the header's bits.           *)
LEMMA DecodedKeeps ==
  ASSUME DecodedInv, header'.bits = header.bits, target' = target,
         stage # "decode", stage' # "decode", phase' \in {phase, "compare", "done"}
  PROVE  DecodedInv'
BY DEF DecodedInv

LEMMA InitTargetInvariant == Init => TargetInvariant
<1> SUFFICES ASSUME Init PROVE TargetInvariant
  OBVIOUS
<1>1. DecodedInv
  BY DEF Init, DecodedInv
<1>2. OracleInv
  BY ZeroIsZero DEF Init, OracleInv
<1>3. SolutionInv
  BY DEF Init, SolutionInv
<1> QED
  BY <1>1, <1>2, <1>3 DEF TargetInvariant

(* A step of neither the target, nor the hash, nor whose State it is.      *)
LEMMA OtherKeeps ==
  ASSUME TargetInvariant, UNCHANGED <<header, role, pow, oracle, hash, target>>,
         stage # "decode", stage' # "decode", phase' \in {phase, "compare", "done"},
         stage' # "mine", role = "miner" /\ stage' \in Computing => stage \in Computing
  PROVE  TargetInvariant'
<1>1. DecodedInv'
  BY DecodedKeeps DEF TargetInvariant
<1>2. OracleInv'
  BY DEF TargetInvariant, OracleInv
<1>3. SolutionInv'
  BY DEF TargetInvariant, SolutionInv
<1> QED
  BY <1>1, <1>2, <1>3 DEF TargetInvariant

LEMMA NonceKeepsTarget ==
  ASSUME PowInvariant, TargetInvariant, NEW nonce \in Nonces, TryNonce(nonce)
  PROVE  TargetInvariant'
<1>1. /\ UNCHANGED <<header, role, oracle, target>>
      /\ stage = "mine" /\ stage' = "check" /\ role = "miner"
      /\ hash' = oracle[nonce] /\ phase' = "compare"
  BY DEF TryNonce, StartCheck, Goto, PowInvariant, RoleInv
<1>2. DecodedInv'
  BY <1>1, DecodedKeeps DEF TargetInvariant
<1>3. OracleInv'
  BY <1>1, Widths DEF TargetInvariant, OracleInv
<1>4. SolutionInv'
  BY <1>1 DEF SolutionInv, Computing
<1> QED
  BY <1>2, <1>3, <1>4 DEF TargetInvariant

LEMMA BlockKeepsTarget ==
  ASSUME PowInvariant, TargetInvariant, GenerateBlock
  PROVE  TargetInvariant'
<1>1. /\ UNCHANGED <<oracle, hash, target, phase>>
      /\ stage = "check" /\ stage' = "version" /\ phase = "done"
      /\ role = "miner" /\ role' = "block_hash" /\ CheckPow /\ header' = BlockHeader
  BY DEF GenerateBlock, StartOver, Goto, targetVars
<1>2. header'.bits = header.bits
  BY <1>1 DEF PowInvariant, RoleInv, BlockHeader, Header
<1>3. target = TargetOf(Compact(header.bits))
  BY <1>1 DEF TargetInvariant, DecodedInv
<1>4. Met(hash, target)
  BY <1>1 DEF PowInvariant, Comparing
<1>5. DecodedInv'
  BY <1>1, <1>2, DecodedKeeps DEF TargetInvariant
<1>6. OracleInv'
  BY <1>1 DEF TargetInvariant, OracleInv
<1>7. SolutionInv'
  BY <1>1, <1>2, <1>3, <1>4 DEF SolutionInv
<1> QED
  BY <1>5, <1>6, <1>7 DEF TargetInvariant

LEMMA TargetStep ==
  ASSUME PowInvariant, TargetInvariant, [Next]_vars
  PROVE  TargetInvariant'
<1>1. CASE DecodeTarget
  <2>1. UNCHANGED <<header, role, state, pow, oracle, hash>> /\ stage \in Computing
          /\ stage' \in Computing
    BY <1>1, ComputingChanges
  <2>2. DecodedInv'
    BY <1>1, DecodeKeeps DEF TargetInvariant, PowInvariant, RoleInv
  <2>3. OracleInv' /\ SolutionInv'
    BY <2>1 DEF TargetInvariant, OracleInv, SolutionInv, Computing
  <2> QED
    BY <2>2, <2>3 DEF TargetInvariant
<1>2. CASE Serialize
  <2>1. /\ UNCHANGED <<header, role, pow, oracle, hash, target, phase>>
        /\ stage # "decode" /\ stage' # "decode" /\ stage \in Computing /\ stage' # "mine"
    BY <1>2 DEF Serialize, Version, Level, EndLevels, Parent, EndLevel, Root, Numbers,
      EmitBlueWork, PruningPoint, Goto, targetVars, Computing
  <2> QED
    BY <2>1, OtherKeeps
<1>3. CASE SerializeFails
  <2>1. /\ UNCHANGED <<header, role, pow, oracle, hash, target, phase>>
        /\ stage # "decode" /\ stage' = "panic"
    BY <1>3 DEF SerializeFails, Fails, Panic, Goto, targetVars
  <2> QED
    BY <2>1, OtherKeeps DEF Computing
<1>4. CASE NewState
  <2>1. /\ UNCHANGED <<header, role, pow, oracle, hash, target, phase>>
        /\ stage = "new" /\ stage' = "mine" /\ role = "miner"
    BY <1>4 DEF NewState, Goto, targetVars
  <2>2. DecodedInv'
    BY <2>1, DecodedKeeps DEF TargetInvariant
  <2>3. pow = {}
    BY <2>1 DEF TargetInvariant, SolutionInv, Computing
  <2>4. OracleInv' /\ SolutionInv'
    BY <2>1, <2>3 DEF TargetInvariant, OracleInv, SolutionInv
  <2> QED
    BY <2>2, <2>4 DEF TargetInvariant
<1>5. CASE \E nonce \in Nonces : TryNonce(nonce)
  BY <1>5, NonceKeepsTarget
<1>6. CASE CompareWord
  <2>1. /\ UNCHANGED <<header, role, pow, oracle, hash, target, stage>>
        /\ stage = "check" /\ phase' \in {phase, "compare", "done"}
    BY <1>6 DEF CompareWord, Target!CompareWord
  <2> QED
    BY <2>1, OtherKeeps DEF Computing
<1>7. CASE GenerateBlock
  BY <1>7, BlockKeepsTarget
<1>8. CASE NoBlock
  <2>1. /\ UNCHANGED <<header, role, pow, oracle, hash, target, phase>>
        /\ stage = "check" /\ stage' = "mine" /\ role = "miner" /\ phase = "done" /\ ~CheckPow
    BY <1>8 DEF NoBlock, Goto, targetVars
  <2>2. DecodedInv'
    BY <2>1, DecodedKeeps DEF TargetInvariant
  <2>3. ~Met(hash, target)
    BY <2>1 DEF PowInvariant, Comparing
  <2>4. OracleInv' /\ SolutionInv'
    BY <2>1, <2>3 DEF TargetInvariant, OracleInv, SolutionInv, Computing, Met
  <2> QED
    BY <2>2, <2>4 DEF TargetInvariant
<1>9. CASE BlockHash
  <2>1. /\ UNCHANGED <<header, pow, oracle, hash>>
        /\ role = "block_hash" /\ role' = "verifier" /\ stage' = "decode"
        /\ target' = Target!Zero /\ phase' = "decode"
    BY <1>9 DEF BlockHash, StartOver, Goto
  <2>2. DecodedInv'
    BY <2>1 DEF DecodedInv
  <2>3. OracleInv' /\ SolutionInv'
    BY <2>1 DEF TargetInvariant, OracleInv, SolutionInv
  <2> QED
    BY <2>2, <2>3 DEF TargetInvariant
<1>10. CASE Verify
  <2>1. /\ UNCHANGED <<header, role, oracle, target>>
        /\ stage = "new" /\ stage' = "check" /\ role = "verifier" /\ phase' = "compare"
    BY <1>10 DEF Verify, StartCheck, Goto
  <2>2. pow' = pow /\ hash' = hash
    BY <1>10, ReceiverRepeats
  <2> QED
    BY <2>1, <2>2, OtherKeeps
<1>11. CASE Verified
  <2>1. /\ UNCHANGED <<header, role, pow, oracle, hash, target, phase>>
        /\ stage = "check" /\ stage' \in {"accepted", "rejected"}
    BY <1>11 DEF Verified, Goto, targetVars
  <2> QED
    BY <2>1, OtherKeeps DEF Computing
<1>12. CASE UNCHANGED vars
  <2>1. UNCHANGED <<header, stage, role, state, pow, oracle, hash, target, phase, word,
                    original, shift>>
    BY <1>12 DEF vars, targetVars
  <2> QED
    BY <2>1 DEF TargetInvariant, DecodedInv, OracleInv, SolutionInv, Met
<1> QED
  BY <1>1, <1>2, <1>3, <1>4, <1>5, <1>6, <1>7, <1>8, <1>9, <1>10, <1>11, <1>12 DEF Next

LEMMA TargetInvariantHolds == Spec => [](PowInvariant /\ TargetInvariant)
<1>1. PowInvariant /\ TargetInvariant /\ [Next]_vars => TargetInvariant'
  BY TargetStep
<1> QED
  BY InitTargetInvariant, PowInvariantHolds, <1>1, PTL DEF Spec

(* Every header's target, once it is decoded, is mantissa * 256^(exponent  *)
(* - 3), rounded down and cut to 256 bits, or zero where the mantissa is   *)
(* negative; and no word of it overflows on the way.                       *)
THEOREM TargetIsNumber == Spec => []TargetIsDecoded
<1>1. PowInvariant /\ TargetInvariant => TargetIsDecoded
  <2> SUFFICES ASSUME PowInvariant, TargetInvariant PROVE TargetIsDecoded
    OBVIOUS
  <2> DEFINE b == Compact(header.bits)
  <2>1. TargetOf(b) \in Target!Uint256 /\ Target!Value(TargetOf(b)) = Target!Number(b)
    BY BitsAreCompact, TargetOfIsNumber DEF PowInvariant, RoleInv
  <2>2. Target!Zero \in Target!Uint256
    BY ZeroIsZero
  <2>3. target = Target!Zero \/ target = TargetOf(b)
    BY DEF TargetInvariant, DecodedInv, TargetOf
  <2>4. phase \in {"compare", "done"} => target = TargetOf(b)
    BY DEF TargetInvariant, DecodedInv
  <2> QED
    BY <2>1, <2>2, <2>3, <2>4 DEF TargetIsDecoded, Target!TargetIsDecoded
<1> QED
  BY <1>1, TargetInvariantHolds, PTL

-----------------------------------------------------------------------------
(* A word has a whole number of bytes.                                     *)
LEMMA WordsAreBytes ==
  /\ Target!WordBytes \in Nat \ {0} /\ Words * Target!WordBytes \in Nat
  /\ 2^WordBits = Weight(Target!WordBytes, ByteBits)
  /\ \A n \in Nat : Weight(n, WordBits) = Weight(n * Target!WordBytes, ByteBits)
<1> DEFINE K == Target!WordBytes
<1>1. K \in Nat /\ WordBits = ByteBits * K
  <2>1. WordBits = ByteBits * K + (WordBits % ByteBits) /\ K \in Nat
    BY Widths, Divided DEF Target!WordBytes
  <2> HIDE DEF K
  <2> QED
    BY <2>1, Widths
<1> HIDE DEF K
<1>2. K # 0
  BY <1>1, Widths
<1>3. WordBits = K * ByteBits
  BY <1>1, Widths
<1>4. ASSUME NEW n \in Nat PROVE n * WordBits = (n * K) * ByteBits
  BY <1>1, <1>3, Widths
<1> QED
  BY <1>1, <1>2, <1>3, <1>4, Widths DEF Weight, K

(* Byte c of a Uint256 is that digit of its number; and byte r of word n.  *)
LEMMA BytesAreDigits ==
  ASSUME NEW x \in Target!Uint256,
         NEW n \in 0..Words - 1, NEW r \in 0..Target!WordBytes - 1,
         NEW c \in 0..Words * Target!WordBytes - 1, c = n * Target!WordBytes + r
  PROVE  /\ Target!ToLeBytes(x)[c] = (x[n] \div Weight(r, ByteBits)) % 2^ByteBits
         /\ Target!ToLeBytes(x)[c]
              = (Target!Value(x) \div Weight(c, ByteBits)) % 2^ByteBits
<1> DEFINE K == Target!WordBytes
           v == Target!Value(x)
           W == Weight(n, WordBits)
           R == Weight(r, ByteBits)
           p == n * K
<1>1. K \in Nat \ {0} /\ n \in Nat /\ r \in Nat /\ c \in Nat /\ c = n * K + r
  BY WordsAreBytes, Widths
<1>2. c \div K = n /\ c % K = r
  <2> DEFINE q == c \div K
             s == c % K
  <2> HIDE DEF K
  <2>1. q \in Nat /\ s \in 0..K-1 /\ c = K * q + s
    BY <1>1, Divided
  <2> HIDE DEF q, s
  <2>2. K * q + s = K * n + r
    BY <1>1, <2>1
  <2>3. r \in 0..K-1
    BY DEF K
  <2>4. q = n /\ s = r
    BY <1>1, <2>1, <2>2, <2>3, DivModUnique
  <2> QED
    BY <2>4 DEF q, s
<1>3. Target!ToLeBytes(x)[c] = (x[n] \div R) % 2^ByteBits
  BY <1>2, Widths, Zenon DEF Target!ToLeBytes, Weight
<1>4. v \in Nat /\ x[n] = (v \div W) % 2^WordBits
  <2>1. \A i \in 0..Words - 1 : x[i] \in 0..2^WordBits - 1
    BY DEF Target!Uint256, Target!Word
  <2>2. /\ v \in 0..Weight(Words, WordBits) - 1
        /\ \A i \in 0..Words - 1 : x[i] = (v \div Weight(i, WordBits)) % 2^WordBits
    BY <2>1, Widths, DigitsOfNumber DEF Target!Value
  <2>3. Weight(Words, WordBits) \in Nat
    BY Widths, WeightIsPositive
  <2> QED
    BY <2>2, <2>3
<1>5. W = Weight(p, ByteBits) /\ 2^WordBits = Weight(K, ByteBits)
  BY <1>1, WordsAreBytes
<1>6. /\ v \in Nat /\ ByteBits \in Nat /\ p \in Nat /\ c \in Nat /\ c = p + r
      /\ K \in Nat /\ r \in 0..K-1
  BY <1>1, <1>4, Widths
<1> HIDE DEF v, W, p, K
<1>7. (((v \div Weight(p, ByteBits)) % Weight(K, ByteBits)) \div R) % 2^ByteBits
        = (v \div Weight(c, ByteBits)) % 2^ByteBits
  <2>1. SameDigit(v, ByteBits, K, p, r, c)
    BY <1>6, DigitInDigit
  <2> QED
    BY <2>1 DEF SameDigit, R
<1> QED
  BY <1>3, <1>4, <1>5, <1>7 DEF v

(* Each byte is in some word.                                              *)
LEMMA BytesHaveWords ==
  ASSUME NEW c \in 0..Words * Target!WordBytes - 1
  PROVE  \E n \in 0..Words - 1, r \in 0..Target!WordBytes - 1 : c = n * Target!WordBytes + r
<1> DEFINE K == Target!WordBytes
           n == c \div K
           r == c % K
<1>1. K \in Nat \ {0} /\ c \in Nat /\ Words \in Nat
  BY WordsAreBytes, Widths
<1> HIDE DEF K
<1>2. n \in Nat /\ r \in 0..K-1 /\ c = K * n + r
  BY <1>1, Divided
<1> HIDE DEF n, r
<1>3. c = n * K + r
  BY <1>1, <1>2
<1>4. n <= Words - 1
  <2> SUFFICES ASSUME n >= Words PROVE FALSE
    BY <1>1, <1>2
  <2>1. n * K >= Words * K
    BY <1>1, <1>2
  <2> QED
    BY <1>1, <1>2, <1>3, <2>1 DEF K
<1>5. n \in 0..Words-1
  BY <1>1, <1>2, <1>4
<1> QED
  BY <1>2, <1>3, <1>5 DEF K

LEMMA NumberOfBytes ==
  ASSUME NEW x \in Target!Uint256
  PROVE  Target!FromDigits(Target!ToLeBytes(x), ByteBits, Words * Target!WordBytes)
           = Target!Value(x)
<1> DEFINE v == Target!Value(x)
           d == Target!ToLeBytes(x)
           L == Words * Target!WordBytes
<1>1. v \in 0..Weight(Words, WordBits) - 1 /\ Weight(Words, WordBits) \in Nat \ {0}
  <2>1. \A i \in 0..Words - 1 : x[i] \in 0..2^WordBits - 1
    BY DEF Target!Uint256, Target!Word
  <2>2. v \in 0..Weight(Words, WordBits) - 1
    BY <2>1, Widths, DigitsOfNumber DEF Target!Value
  <2> QED
    BY <2>2, Widths, WeightIsPositive
<1>2. \A c \in 0..L-1 : d[c] = (v \div Weight(c, ByteBits)) % 2^ByteBits
  BY BytesHaveWords, BytesAreDigits
<1>3. L \in Nat /\ ByteBits \in Nat /\ v \in Nat
  BY <1>1, WordsAreBytes, Widths
<1>4. Weight(L, ByteBits) = Weight(Words, WordBits)
  BY WordsAreBytes, Widths
<1> HIDE DEF d, L, v
<1>5. Target!FromDigits(d, ByteBits, L) = v % Weight(L, ByteBits)
  BY <1>2, <1>3, FromDigitsOf
<1>6. v % Weight(Words, WordBits) = v
  BY <1>1, SmallMod
<1> QED
  BY <1>4, <1>5, <1>6 DEF d, L, v

LEMMA WordsOfBytes ==
  ASSUME NEW x \in Target!Uint256
  PROVE  Target!FromLeBytes(Target!ToLeBytes(x)) = x
<1> DEFINE K == Target!WordBytes
           y == Target!ToLeBytes(x)
<1>1. K \in Nat \ {0} /\ ByteBits \in Nat /\ 2^WordBits = Weight(K, ByteBits)
  BY WordsAreBytes, Widths
<1>2. ASSUME NEW n \in 0..Words - 1
      PROVE  Target!FromDigits([b \in 0..K-1 |-> y[n * K + b]], ByteBits, K) = x[n]
  <2> DEFINE d == [b \in 0..K-1 |-> y[n * K + b]]
             a == x[n]
             W == 2^WordBits
  <2>1. a \in 0..W-1 /\ W \in Nat \ {0}
    BY Widths, PowerIsPositive DEF Target!Uint256, Target!Word
  <2>2. ASSUME NEW r \in 0..K-1
        PROVE  d[r] = (a \div Weight(r, ByteBits)) % 2^ByteBits
    <3> DEFINE c == n * K + r
    <3>1. c \in 0..Words * K - 1
      <4> DEFINE L == Words
      <4>1. L \in Nat /\ n \in Nat /\ n <= L - 1 /\ r \in Nat /\ r <= K - 1
        BY <1>1, Widths
      <4> HIDE DEF K, L
      <4>2. n * K <= (L - 1) * K /\ n * K \in Nat
        BY <1>1, <4>1
      <4>3. (L - 1) * K = L * K - K /\ L * K \in Nat
        BY <1>1, <4>1
      <4> QED
        BY <1>1, <4>1, <4>2, <4>3 DEF L
    <3>2. y[c] = (x[n] \div Weight(r, ByteBits)) % 2^ByteBits
      BY <3>1, BytesAreDigits
    <3> QED
      BY <3>2
  <2> HIDE DEF d, a, K, W
  <2>3. a \in Nat
    BY <2>1
  <2>4. Target!FromDigits(d, ByteBits, K) = a % Weight(K, ByteBits)
    BY <1>1, <2>2, <2>3, FromDigitsOf
  <2>5. a % W = a
    BY <2>1, SmallMod
  <2> QED
    BY <1>1, <2>4, <2>5 DEF a, d, W
<1>3. Target!FromLeBytes(y) = [n \in 0..Words - 1 |-> x[n]]
  BY <1>2 DEF Target!FromLeBytes
<1> QED
  BY <1>3 DEF Target!Uint256

(* A number leaves as its bytes, the least significant first, and comes    *)
(* back: whatever the proof of work is, no byte of it is lost or elsewhere *)
(* than its weight says.                                                   *)
THEOREM BytesInOrder == Spec => []BytesAreLittleEndian
<1>1. TargetInvariant => BytesAreLittleEndian
  BY NumberOfBytes, WordsOfBytes
  DEF TargetInvariant, OracleInv, BytesAreLittleEndian, Target!BytesAreLittleEndian
<1> QED
  BY <1>1, TargetInvariantHolds, PTL

-----------------------------------------------------------------------------
(* cmp, from the most significant word on, compares the numbers: with the  *)
(* words below one that differs no number makes up for it.                 *)
LEMMA MetIsLessOrEqual ==
  ASSUME NEW h \in Target!Uint256, NEW t \in Target!Uint256
  PROVE  Met(h, t) <=> Target!Value(h) <= Target!Value(t)
<1> DEFINE w == WordBits
           L == Words
           W(n) == Weight(n, w)
<1>0. w \in Nat /\ L \in Nat
  BY Widths
<1>1. /\ \A n \in 0..L-1 : h[n] \in 0..2^w - 1
      /\ \A n \in 0..L-1 : t[n] \in 0..2^w - 1
  BY DEF Target!Uint256, Target!Word
<1>2. PICK f : SumsOfDigits(f, h, w, L) /\ Target!Value(h) = f[L]
  BY <1>0, FromDigitsIsSum DEF Target!Value
<1>3. PICK g : SumsOfDigits(g, t, w, L) /\ Target!Value(t) = g[L]
  BY <1>0, FromDigitsIsSum DEF Target!Value
<1>4. \A n \in 0..L : f[n] \in 0..W(n)-1 /\ g[n] \in 0..W(n)-1
  <2>1. \A n \in 0..L : f[n] \in 0..W(n)-1
    BY <1>0, <1>1, <1>2, NumberHasDigits
  <2>2. \A n \in 0..L : g[n] \in 0..W(n)-1
    BY <1>0, <1>1, <1>3, NumberHasDigits
  <2> QED
    BY <2>1, <2>2
<1>5. \A n \in 0..L-1 : f[n + 1] = f[n] + h[n] * W(n) /\ g[n + 1] = g[n] + t[n] * W(n)
  <2>1. \A n \in 0..L-1 : f[n + 1] = f[n] + h[n] * W(n)
    BY <1>0, <1>2, DigitsAreSummed
  <2>2. \A n \in 0..L-1 : g[n + 1] = g[n] + t[n] * W(n)
    BY <1>0, <1>3, DigitsAreSummed
  <2> QED
    BY <2>1, <2>2
<1>6. f[0] = 0 /\ g[0] = 0
  BY <1>0, <1>2, <1>3, DigitsAreSummed
\* Of the lowest n words the highest that differs decides.
<1> DEFINE Below(n) == \A j \in 0..n-1 :
                         h[j] # t[j] /\ (\A i \in j+1..n-1 : h[i] = t[i]) => h[j] < t[j]
           S == {n \in Nat : n <= L => (Below(n) <=> f[n] <= g[n])}
<1>7. 0 \in S
  BY <1>6
<1>8. ASSUME NEW n \in Nat, n \in S PROVE n + 1 \in S
  <2> SUFFICES ASSUME n + 1 <= L PROVE Below(n + 1) <=> f[n + 1] <= g[n + 1]
    OBVIOUS
  <2>1. n \in 0..L-1 /\ n \in 0..L /\ (n + 1) - 1 = n
    BY <1>0
  <2>2. Below(n) <=> f[n] <= g[n]
    BY <1>8, <2>1
  <2>3. CASE h[n] = t[n]
    <3>1. Below(n + 1) <=> Below(n)
      <4>1. ASSUME Below(n), NEW j \in 0..n, h[j] # t[j], \A i \in j+1..n : h[i] = t[i]
            PROVE  h[j] < t[j]
        <5>1. j \in 0..n-1 /\ \A i \in j+1..n-1 : h[i] = t[i]
          BY <2>3, <4>1
        <5> QED
          BY <4>1, <5>1
      <4>2. ASSUME Below(n + 1), NEW j \in 0..n-1, h[j] # t[j],
                   \A i \in j+1..n-1 : h[i] = t[i]
            PROVE  h[j] < t[j]
        <5>1. j \in 0..n /\ \A i \in j+1..n : h[i] = t[i]
          BY <2>3, <4>2
        <5> QED
          BY <2>1, <4>2, <5>1
      <4> QED
        BY <2>1, <4>1, <4>2
    <3>2. f[n + 1] <= g[n + 1] <=> f[n] <= g[n]
      <4> DEFINE x == h[n] * W(n)
      <4>1. f[n + 1] = f[n] + x /\ g[n + 1] = g[n] + x
        BY <1>5, <2>1, <2>3
      <4>2. x \in Int /\ f[n] \in Int /\ g[n] \in Int
        <5>1. h[n] \in Nat /\ W(n) \in Nat
          BY <1>0, <1>1, <2>1, WeightIsPositive, PowerIsPositive
        <5> QED
          BY <1>4, <2>1, <5>1
      <4> HIDE DEF x
      <4> QED
        BY <4>1, <4>2
    <3> QED
      BY <2>2, <3>1, <3>2
  <2>4. CASE h[n] # t[n]
    <3>1. Below(n + 1) <=> h[n] < t[n]
      <4>1. ASSUME Below(n + 1) PROVE h[n] < t[n]
        <5>1. n \in 0..(n+1)-1 /\ n+1..(n+1)-1 = {}
          OBVIOUS
        <5> QED
          BY <2>4, <4>1, <5>1
      <4>2. ASSUME h[n] < t[n], NEW j \in 0..(n+1)-1, h[j] # t[j],
                   \A i \in j+1..(n+1)-1 : h[i] = t[i]
            PROVE  h[j] < t[j]
        <5>1. j = n
          BY <2>4, <4>2
        <5> QED
          BY <4>2, <5>1
      <4> QED
        BY <4>1, <4>2
    <3>2. f[n + 1] <= g[n + 1] <=> h[n] < t[n]
      <4> DEFINE b == W(n)
                 x == h[n]
                 y == t[n]
                 p == f[n]
                 q == g[n]
      <4>1. b \in Nat \ {0} /\ x \in Nat /\ y \in Nat
        BY <1>0, <1>1, <2>1, WeightIsPositive, PowerIsPositive
      <4>2. p \in 0..b-1 /\ q \in 0..b-1 /\ x # y
        BY <1>4, <2>1, <2>4
      <4>3. f[n + 1] = p + x * b /\ g[n + 1] = q + y * b
        BY <1>5, <2>1
      <4> HIDE DEF b, x, y, p, q
      <4>4. CASE x < y
        <5>1. (x + 1) * b <= y * b /\ (x + 1) * b = x * b + b
          BY <4>1, <4>4
        <5>2. x * b \in Nat /\ y * b \in Nat
          BY <4>1
        <5> QED
          BY <4>1, <4>2, <4>3, <4>4, <5>1, <5>2 DEF x, y
      <4>5. CASE y < x
        <5>1. (y + 1) * b <= x * b /\ (y + 1) * b = y * b + b
          BY <4>1, <4>5
        <5>2. x * b \in Nat /\ y * b \in Nat
          BY <4>1
        <5>3. ~(f[n + 1] <= g[n + 1])
          BY <4>1, <4>2, <4>3, <4>5, <5>1, <5>2
        <5>4. ~(x < y)
          BY <4>1, <4>5
        <5> QED
          BY <5>3, <5>4 DEF x, y
      <4> QED
        BY <4>1, <4>2, <4>4, <4>5
    <3> QED
      BY <3>1, <3>2
  <2> QED
    BY <2>3, <2>4
<1>9. Below(L) <=> f[L] <= g[L]
  <2>1. L \in S
    <3> HIDE DEF S
    <3> QED
      BY <1>0, <1>7, <1>8, SetInduction
  <2> QED
    BY <1>0, <2>1
<1> QED
  BY <1>2, <1>3, <1>9 DEF Met

(* Exactly the nonces whose hash, as a number, is not larger than the      *)
(* target that the header's bits stand for become blocks.                  *)
THEOREM SolutionsMeetTarget == Spec => []SolutionsAreBlocks
<1>1. PowInvariant /\ TargetInvariant => SolutionsAreBlocks
  <2> SUFFICES ASSUME PowInvariant, TargetInvariant PROVE SolutionsAreBlocks
    OBVIOUS
  <2> DEFINE b == Compact(header.bits)
  <2>1. TargetOf(b) \in Target!Uint256 /\ Target!Value(TargetOf(b)) = Target!Number(b)
    BY BitsAreCompact, TargetOfIsNumber DEF PowInvariant, RoleInv
  <2>2. Met(hash, TargetOf(b)) <=> Target!Value(hash) <= Target!Number(b)
    BY <2>1, MetIsLessOrEqual DEF TargetInvariant, OracleInv
  <2>3. stage = "mine" => target = TargetOf(b)
    BY DEF TargetInvariant, DecodedInv
  <2> QED
    BY <2>2, <2>3 DEF TargetInvariant, SolutionInv, SolutionsAreBlocks
<1> QED
  BY <1>1, TargetInvariantHolds, PTL
-----------------------------------------------------------------------------
(* These bytes are in o, from position p on.                               *)
Written(o, p, bytes) ==
  \A b \in DOMAIN bytes : p + b - 1 \in DOMAIN o /\ o[p + b - 1] = bytes[b]

(* What is given to the hasher stays where it is, and more comes behind it.*)
LEMMA EmitWrites ==
  ASSUME NEW o \in Seq(Nat), NEW bytes \in Seq(Nat)
  PROVE  /\ o \o bytes \in Seq(Nat) /\ Len(o \o bytes) = Len(o) + Len(bytes)
         /\ Written(o \o bytes, Len(o) + 1, bytes)
         /\ \A p, s : Written(o, p, s) => Written(o \o bytes, p, s)
<1> DEFINE q == o \o bytes
<1>1. /\ q \in Seq(Nat) /\ Len(q) = Len(o) + Len(bytes)
      /\ \A n \in 1..Len(o) : q[n] = o[n]
      /\ \A n \in 1..Len(bytes) : q[Len(o) + n] = bytes[n]
  BY Joined
<1>2. /\ DOMAIN q = 1..Len(o) + Len(bytes) /\ DOMAIN o = 1..Len(o)
      /\ DOMAIN bytes = 1..Len(bytes) /\ Len(o) \in Nat /\ Len(bytes) \in Nat
  BY <1>1
<1> HIDE DEF q
<1>3. Written(q, Len(o) + 1, bytes)
  <2> SUFFICES ASSUME NEW b \in 1..Len(bytes)
               PROVE  /\ (Len(o) + 1) + b - 1 \in 1..Len(o) + Len(bytes)
                      /\ q[(Len(o) + 1) + b - 1] = bytes[b]
    BY <1>2 DEF Written
  <2>1. (Len(o) + 1) + b - 1 = Len(o) + b
    BY <1>2
  <2> QED
    BY <1>1, <1>2, <2>1
<1>4. ASSUME NEW p, NEW s, Written(o, p, s) PROVE Written(q, p, s)
  BY <1>1, <1>2, <1>4 DEF Written
<1> QED
  BY <1>1, <1>3, <1>4 DEF q

(* A sequence is a function on the numbers up to its length.               *)
LEMMA TupleIsSeq ==
  ASSUME NEW V, NEW m \in Nat, NEW f \in [1..m -> V]
  PROVE  f \in Seq(V) /\ Len(f) = m
OBVIOUS

(* The first elements of a sequence.                                       *)
LEMMA Beginning ==
  ASSUME NEW V, NEW s \in Seq(V), NEW n \in Nat, n <= Len(s)
  PROVE  /\ SubSeq(s, 1, n) \in Seq(V) /\ Len(SubSeq(s, 1, n)) = n
         /\ \A j \in 1..n : SubSeq(s, 1, n)[j] = s[j]
OBVIOUS

LEMMA LittleEndianIsBytes ==
  ASSUME NEW n \in Nat, NEW w \in Nat
  PROVE  LittleEndian(n, w) \in Seq(Nat) /\ Len(LittleEndian(n, w)) = w
<1>1. Byte \in Nat \ {0} /\ ByteBits \in Nat
  BY Widths, PowerIsPositive
<1>2. ASSUME NEW b \in 1..w PROVE (n \div 2^((b - 1) * ByteBits)) % Byte \in Nat
  <2> DEFINE e == (b - 1) * ByteBits
             P == 2^e
             x == n \div P
  <2>1. e \in Nat
    BY <1>1
  <2> HIDE DEF e
  <2>2. P \in Nat \ {0}
    BY <2>1, PowerIsPositive
  <2> HIDE DEF P
  <2>3. x \in Nat
    BY <2>2, Divided
  <2> HIDE DEF x
  <2>4. x % Byte \in Nat
    BY <1>1, <2>3, Divided
  <2> QED
    BY <2>4 DEF x, P, e
<1> DEFINE d == [b \in 1..w |-> (n \div 2^((b - 1) * ByteBits)) % Byte]
<1>3. d \in [1..w -> Nat]
  BY <1>2
<1> HIDE DEF d
<1>4. d \in Seq(Nat) /\ Len(d) = w
  BY <1>3, TupleIsSeq
<1> QED
  BY <1>4 DEF d, LittleEndian

LEMMA DecodedIsBytes ==
  ASSUME NEW string \in Seq(0..Digit), NEW n \in Nat, Len(string) = 2 * n
  PROVE  Decoded(string) \in Seq(Nat) /\ Len(Decoded(string)) = n
<1>1. Len(string) \div 2 = n /\ Digit \in Nat
  BY PowAssumption
<1>2. ASSUME NEW b \in 1..n PROVE string[2 * b - 1] * Digit + string[2 * b] \in Nat
  <2>1. 2 * b - 1 \in 1..Len(string) /\ 2 * b \in 1..Len(string)
    OBVIOUS
  <2> DEFINE x == string[2 * b - 1]
             y == string[2 * b]
  <2>2. x \in Nat /\ y \in Nat
    BY <1>1, <2>1
  <2> HIDE DEF x, y
  <2>3. x * Digit + y \in Nat
    BY <1>1, <2>2
  <2> QED
    BY <2>3 DEF x, y
<1>3. Decoded(string) = [b \in 1..n |-> string[2 * b - 1] * Digit + string[2 * b]]
  BY <1>1 DEF Decoded
<1>4. Decoded(string) \in [1..n -> Nat]
  BY <1>2, <1>3
<1> QED
  BY <1>4

-----------------------------------------------------------------------------
(* Where the parents of a level begin, by the header.                      *)
LevelLength(h, l) == U64 + Len(h.parents[l]) * HashLen

IsStart(s, h) ==
  s = [l \in 1..Len(h.parents) + 1 |->
         IF l = 1 THEN 1 + U16 + U64 ELSE s[l - 1] + LevelLength(h, l - 1)]

Start(h) == CHOOSE s : IsStart(s, h)

IntegerSizes == U16 \in Nat /\ U32 \in Nat /\ U64 \in Nat /\ HashLen \in Nat

LEMMA IntegersAre == IntegerSizes
BY PowAssumption, UnsignedIsNat DEF IntegerSizes

(* What a header is made of.                                               *)
LEMMA HeaderParts ==
  ASSUME NEW h \in Header
  PROVE  /\ Len(h.parents) \in Unsigned(U64) /\ Len(h.parents) \in Nat
         /\ DOMAIN h.parents = 1..Len(h.parents)
         /\ \A l \in 1..Len(h.parents) :
              /\ Len(h.parents[l]) \in Unsigned(U64) /\ Len(h.parents[l]) \in Nat
              /\ DOMAIN h.parents[l] = 1..Len(h.parents[l])
              /\ \A j \in 1..Len(h.parents[l]) : h.parents[l][j] \in Seq(0..Digit)
         /\ \A r \in 1..3 : h.roots[r] \in Seq(0..Digit)
         /\ h.pruningPoint \in Seq(0..Digit) /\ h.blueWork \in Seq(0..Digit)
         /\ h.timestamp \in Unsigned(U64) /\ h.bits \in Unsigned(U32)
         /\ h.nonce \in Unsigned(U64) /\ h.daaScore \in Unsigned(U64)
         /\ h.blueScore \in Unsigned(U64)
<1> DEFINE String == Seq(0..Digit)
<1> HIDE DEF String
<1>1. h.parents \in Vec(Vec(String))
  BY DEF Header, String
<1>2. h.parents \in Seq(Vec(String)) /\ Len(h.parents) \in Unsigned(U64)
  BY <1>1 DEF Vec
<1>3. Len(h.parents) \in Nat /\ DOMAIN h.parents = 1..Len(h.parents)
  BY <1>2
<1>4. ASSUME NEW l \in 1..Len(h.parents)
      PROVE  /\ Len(h.parents[l]) \in Unsigned(U64) /\ Len(h.parents[l]) \in Nat
             /\ DOMAIN h.parents[l] = 1..Len(h.parents[l])
             /\ \A j \in 1..Len(h.parents[l]) : h.parents[l][j] \in String
  <2>1. h.parents[l] \in Vec(String)
    BY <1>2
  <2>2. h.parents[l] \in Seq(String) /\ Len(h.parents[l]) \in Unsigned(U64)
    BY <2>1 DEF Vec
  <2> QED
    BY <2>2
<1>5. /\ \A r \in 1..3 : h.roots[r] \in Seq(0..Digit)
      /\ h.pruningPoint \in Seq(0..Digit) /\ h.blueWork \in Seq(0..Digit)
      /\ h.timestamp \in Unsigned(U64) /\ h.bits \in Unsigned(U32)
      /\ h.nonce \in Unsigned(U64) /\ h.daaScore \in Unsigned(U64)
      /\ h.blueScore \in Unsigned(U64)
  BY DEF Header
<1> QED
  BY <1>2, <1>3, <1>4, <1>5 DEF String

LEMMA StartsFollow ==
  ASSUME NEW h \in Header
  PROVE  /\ IsStart(Start(h), h)
         /\ Start(h)[1] = 1 + U16 + U64
         /\ \A l \in 1..Len(h.parents) : Start(h)[l + 1] = Start(h)[l] + LevelLength(h, l)
         /\ \A l \in 1..Len(h.parents) + 1 : Start(h)[l] \in Nat \ {0}
<1> DEFINE n == Len(h.parents)
           a == [j \in 0..n-1 |-> LevelLength(h, j + 1)]
<1>1. n \in Nat /\ \A l \in 1..n : LevelLength(h, l) \in Nat
  <2>1. n \in Nat /\ \A l \in 1..n : Len(h.parents[l]) \in Nat
    BY HeaderParts
  <2> HIDE DEF n
  <2>2. ASSUME NEW l \in 1..n PROVE LevelLength(h, l) \in Nat
    <3> DEFINE parents == Len(h.parents[l])
    <3>1. parents \in Nat
      BY <2>1
    <3> HIDE DEF parents
    <3>2. U64 + parents * HashLen \in Nat
      BY <3>1, IntegersAre DEF IntegerSizes
    <3> QED
      BY <3>2 DEF LevelLength, parents
  <2> QED
    BY <2>1, <2>2
<1> HIDE DEF n
<1>2. PICK f : f = [j \in 0..n |-> IF j = 0 THEN 0 ELSE f[j - 1] + a[j - 1]]
  <2> HIDE DEF a
  <2> QED
    BY <1>1, SumsExist
<1> DEFINE s == [l \in 1..n+1 |-> 1 + U16 + U64 + f[l - 1]]
           F == {j \in Nat : j <= n => f[j] \in Nat}
<1>3. f[0] = 0 /\ \A j \in 1..n : f[j] = f[j - 1] + LevelLength(h, j)
  <2>1. ASSUME NEW j \in 1..n PROVE f[j] = f[j - 1] + LevelLength(h, j)
    <3>1. j \in 0..n /\ j # 0 /\ j - 1 \in 0..n-1 /\ (j - 1) + 1 = j
      BY <1>1
    <3> QED
      BY <1>2, <3>1
  <2> QED
    BY <1>1, <1>2, <2>1
<1>4. ASSUME NEW j \in 0..n PROVE f[j] \in Nat
  <2>1. 0 \in F
    BY <1>3
  <2>2. ASSUME NEW i \in Nat, i \in F PROVE i + 1 \in F
    <3> SUFFICES ASSUME i + 1 <= n PROVE f[i + 1] \in Nat
      OBVIOUS
    <3>1. f[i] \in Nat /\ i + 1 \in 1..n /\ (i + 1) - 1 = i
      BY <1>1, <2>2
    <3>2. f[i + 1] = f[i] + LevelLength(h, i + 1)
      BY <1>3, <3>1
    <3> QED
      BY <1>1, <3>1, <3>2
  <2> HIDE DEF F
  <2>3. j \in F
    BY <1>1, <2>1, <2>2, SetInduction
  <2> QED
    BY <1>1, <2>3 DEF F
<1>5. IsStart(s, h)
  <2> SUFFICES ASSUME NEW l \in 1..n+1
               PROVE  s[l] = IF l = 1 THEN 1 + U16 + U64
                             ELSE s[l - 1] + LevelLength(h, l - 1)
    BY DEF IsStart, n
  <2>1. CASE l = 1
    BY <1>1, <1>3, <2>1, IntegersAre DEF IntegerSizes
  <2>2. CASE l # 1
    <3>1. l - 1 \in 1..n /\ (l - 1) - 1 \in 0..n /\ l - 1 \in 1..n+1
      BY <1>1, <2>2
    <3>2. f[l - 1] = f[(l - 1) - 1] + LevelLength(h, l - 1)
      BY <1>3, <3>1
    <3>3. f[(l - 1) - 1] \in Nat /\ LevelLength(h, l - 1) \in Nat
      BY <1>1, <1>4, <3>1
    <3> QED
      BY <2>2, <3>1, <3>2, <3>3, IntegersAre DEF IntegerSizes
  <2> QED
    BY <2>1, <2>2
<1>6. IsStart(Start(h), h)
  BY <1>5 DEF Start
<1> DEFINE t == Start(h)
<1>7. t = [l \in 1..n+1 |-> IF l = 1 THEN 1 + U16 + U64
                            ELSE t[l - 1] + LevelLength(h, l - 1)]
  BY <1>6 DEF IsStart, n
<1> HIDE DEF t
<1>8. t[1] = 1 + U16 + U64
  BY <1>1, <1>7
<1>9. ASSUME NEW l \in 1..n PROVE t[l + 1] = t[l] + LevelLength(h, l)
  <2>1. l + 1 \in 1..n+1 /\ l + 1 # 1 /\ (l + 1) - 1 = l
    BY <1>1
  <2> QED
    BY <1>7, <2>1
<1> DEFINE T == {j \in Nat : j <= n => t[j + 1] \in Nat \ {0}}
<1>10. ASSUME NEW l \in 1..n+1 PROVE t[l] \in Nat \ {0}
  <2>1. 0 \in T
    BY <1>8, IntegersAre DEF IntegerSizes
  <2>2. ASSUME NEW i \in Nat, i \in T PROVE i + 1 \in T
    <3> SUFFICES ASSUME i + 1 <= n PROVE t[(i + 1) + 1] \in Nat \ {0}
      OBVIOUS
    <3>1. t[i + 1] \in Nat \ {0} /\ i + 1 \in 1..n
      BY <1>1, <2>2
    <3>2. t[(i + 1) + 1] = t[i + 1] + LevelLength(h, i + 1)
      BY <1>9, <3>1
    <3> QED
      BY <1>1, <3>1, <3>2
  <2>3. l - 1 \in Nat /\ l - 1 <= n /\ (l - 1) + 1 = l
    BY <1>1
  <2>4. l - 1 \in T
    <3> HIDE DEF T
    <3> QED
      BY <2>1, <2>2, <2>3, SetInduction
  <2> QED
    BY <2>3, <2>4
<1> QED
  BY <1>6, <1>8, <1>9, <1>10 DEF t, n

(* The parts of a header, at position p.                                   *)
IntegerWritten(o, p, n, w) == n \in Unsigned(w) /\ Written(o, p, LittleEndian(n, w))

HashWritten(o, p, string) ==
  /\ string \in Seq(0..Digit) /\ Len(string) = 2 * HashLen
  /\ Written(o, p, Decoded(string))

HashesWritten(o, p, hashes, m) ==
  \A j \in 1..m : HashWritten(o, p + (j - 1) * HashLen, hashes[j])

LengthWritten(o, h, l) == IntegerWritten(o, Start(h)[l], Len(h.parents[l]), U64)

(* The header up to its first m levels, and all its levels.                *)
LevelsWritten(o, h, m) ==
  /\ IntegerWritten(o, 1, h.version, U16)
  /\ IntegerWritten(o, 1 + U16, Len(h.parents), U64)
  /\ \A l \in 1..m :
       /\ LengthWritten(o, h, l)
       /\ HashesWritten(o, Start(h)[l] + U64, h.parents[l], Len(h.parents[l]))

AllLevelsWritten(o, h) == LevelsWritten(o, h, Len(h.parents))

RootsAt(h) == Start(h)[Len(h.parents) + 1]

RootsWritten(o, h) == AllLevelsWritten(o, h) /\ HashesWritten(o, RootsAt(h), h.roots, 3)

(* Then the numbers, with this time and nonce.                             *)
NumbersAt(h) == RootsAt(h) + 3 * HashLen

NumbersWritten(o, h, time, nonce) ==
  LET p == NumbersAt(h)
  IN  /\ RootsWritten(o, h)
      /\ IntegerWritten(o, p, time, U64)
      /\ IntegerWritten(o, p + U64, h.bits, U32)
      /\ IntegerWritten(o, p + U64 + U32, nonce, U64)
      /\ IntegerWritten(o, p + U64 + U32 + U64, h.daaScore, U64)
      /\ IntegerWritten(o, p + U64 + U32 + U64 + U64, h.blueScore, U64)

BlueWorkAt(h) == NumbersAt(h) + U64 + U32 + U64 + U64 + U64

BlueWorkWritten ==
  /\ NumbersWritten(out, header, HashedTimestamp, HashedNonce)
  /\ BlueWork \in Seq(0..Digit) /\ Len(BlueWork) = 2 * BlueWorkLen
  /\ IntegerWritten(out, BlueWorkAt(header), BlueWorkLen, U64)
  /\ Written(out, BlueWorkAt(header) + U64, Decoded(BlueWork))

PruningPointAt == BlueWorkAt(header) + U64 + BlueWorkLen

(* The inductive invariant: at every stage, what is given to the hasher    *)
(* is the header up to where the stage is, and ends there.                 *)
SerializedInv ==
  LET levels == Len(header.parents)
  IN
  /\ out \in Seq(Nat) /\ buffer \in Seq(Nat) /\ Len(buffer) = HashLen
  /\ stage \in {"decode", "version"} => out = <<>> /\ level = 1
  /\ stage = "level" =>
       /\ level \in 1..levels + 1
       /\ LevelsWritten(out, header, level - 1)
       /\ Len(out) + 1 = Start(header)[level]
  /\ stage = "parent" =>
       /\ level \in 1..levels /\ k \in 1..Len(header.parents[level]) + 1
       /\ LevelsWritten(out, header, level - 1)
       /\ LengthWritten(out, header, level)
       /\ HashesWritten(out, Start(header)[level] + U64, header.parents[level], k - 1)
       /\ Len(out) + 1 = Start(header)[level] + U64 + (k - 1) * HashLen
  /\ stage = "roots" =>
       /\ k \in 1..3
       /\ AllLevelsWritten(out, header)
       /\ HashesWritten(out, RootsAt(header), header.roots, k - 1)
       /\ Len(out) + 1 = RootsAt(header) + (k - 1) * HashLen
  /\ stage = "numbers" =>
       RootsWritten(out, header) /\ Len(out) + 1 = NumbersAt(header)
  /\ stage = "blueWork" =>
       /\ NumbersWritten(out, header, HashedTimestamp, HashedNonce)
       /\ Len(out) + 1 = BlueWorkAt(header)
  /\ stage = "pruningPoint" => BlueWorkWritten /\ Len(out) + 1 = PruningPointAt
  /\ stage = "new" =>
       /\ BlueWorkWritten
       /\ HashWritten(out, PruningPointAt, header.pruningPoint)
       /\ Len(out) + 1 = PruningPointAt + HashLen

-----------------------------------------------------------------------------
(* What is written stays written while more is given to the hasher.        *)
LEMMA WrittenStays ==
  ASSUME NEW o, NEW q, \A p, s : Written(o, p, s) => Written(q, p, s)
  PROVE  /\ \A p, n, w : IntegerWritten(o, p, n, w) => IntegerWritten(q, p, n, w)
         /\ \A p, hashes, m : HashesWritten(o, p, hashes, m) => HashesWritten(q, p, hashes, m)
         /\ \A h, m : LevelsWritten(o, h, m) => LevelsWritten(q, h, m)
         /\ \A h : RootsWritten(o, h) => RootsWritten(q, h)
         /\ \A h, time, nonce :
              NumbersWritten(o, h, time, nonce) => NumbersWritten(q, h, time, nonce)
<1>1. \A p, n, w : IntegerWritten(o, p, n, w) => IntegerWritten(q, p, n, w)
  BY DEF IntegerWritten
<1>2. \A p, hashes, m : HashesWritten(o, p, hashes, m) => HashesWritten(q, p, hashes, m)
  BY DEF HashesWritten, HashWritten
<1>3. \A h, m : LevelsWritten(o, h, m) => LevelsWritten(q, h, m)
  BY <1>1, <1>2 DEF LevelsWritten, LengthWritten
<1>4. \A h : RootsWritten(o, h) => RootsWritten(q, h)
  BY <1>2, <1>3 DEF RootsWritten, AllLevelsWritten
<1>5. ASSUME NEW h, NEW time, NEW nonce, NumbersWritten(o, h, time, nonce)
      PROVE  NumbersWritten(q, h, time, nonce)
  BY <1>1, <1>4, <1>5 DEF NumbersWritten
<1> QED
  BY <1>1, <1>2, <1>3, <1>4, <1>5

(* Where what is written next begins.                                      *)
LEMMA GoesOn ==
  ASSUME NEW o \in Seq(Nat), NEW w \in Nat
  PROVE  (Len(o) + w) + 1 = (Len(o) + 1) + w
OBVIOUS

(* One more integer, or one more hash.                                     *)
LEMMA IntegerIsWritten ==
  ASSUME NEW o \in Seq(Nat), NEW w \in Nat, NEW n \in Unsigned(w)
  PROVE  LET q == o \o LittleEndian(n, w)
         IN  /\ q \in Seq(Nat) /\ Len(q) + 1 = (Len(o) + 1) + w
             /\ IntegerWritten(q, Len(o) + 1, n, w)
             /\ \A p, s : Written(o, p, s) => Written(q, p, s)
<1>1. n \in Nat
  BY UnsignedIsNat
<1> DEFINE bytes == LittleEndian(n, w)
           q == o \o bytes
<1>2. bytes \in Seq(Nat) /\ Len(bytes) = w
  BY <1>1, LittleEndianIsBytes
<1> HIDE DEF bytes
<1>3. /\ q \in Seq(Nat) /\ Len(q) = Len(o) + Len(bytes)
      /\ Written(q, Len(o) + 1, bytes)
      /\ \A p, s : Written(o, p, s) => Written(q, p, s)
  BY <1>2, EmitWrites
<1> HIDE DEF q
<1>4. Len(q) + 1 = (Len(o) + 1) + w
  BY <1>2, <1>3, GoesOn
<1> QED
  BY <1>3, <1>4 DEF IntegerWritten, q, bytes

LEMMA HashIsWritten ==
  ASSUME NEW o \in Seq(Nat), NEW string \in Seq(0..Digit), Decodes(string, HashLen)
  PROVE  LET q == o \o Decoded(string)
         IN  /\ q \in Seq(Nat) /\ Len(q) + 1 = (Len(o) + 1) + HashLen
             /\ Decoded(string) \in Seq(Nat) /\ Len(Decoded(string)) = HashLen
             /\ HashWritten(q, Len(o) + 1, string)
             /\ \A p, s : Written(o, p, s) => Written(q, p, s)
<1>1. Len(string) = 2 * HashLen /\ HashLen \in Nat
  BY IntegersAre DEF Decodes, IntegerSizes
<1>2. Decoded(string) \in Seq(Nat) /\ Len(Decoded(string)) = HashLen
  BY <1>1, DecodedIsBytes
<1> DEFINE bytes == Decoded(string)
           q == o \o bytes
<1> HIDE DEF bytes
<1>3. /\ q \in Seq(Nat) /\ Len(q) = Len(o) + Len(bytes)
      /\ Written(q, Len(o) + 1, bytes)
      /\ \A p, s : Written(o, p, s) => Written(q, p, s)
  BY <1>2, EmitWrites DEF bytes
<1> HIDE DEF q
<1>4. Len(q) + 1 = (Len(o) + 1) + HashLen
  BY <1>1, <1>2, <1>3, GoesOn DEF bytes
<1> QED
  BY <1>1, <1>2, <1>3, <1>4 DEF HashWritten, q, bytes

(* One more hash of several.                                               *)
LEMMA HashesGrow ==
  ASSUME NEW o, NEW p \in Nat, NEW hashes, NEW m \in Nat \ {0},
         HashesWritten(o, p, hashes, m - 1),
         HashWritten(o, p + (m - 1) * HashLen, hashes[m])
  PROVE  HashesWritten(o, p, hashes, m)
<1> SUFFICES ASSUME NEW j \in 1..m
             PROVE  HashWritten(o, p + (j - 1) * HashLen, hashes[j])
  BY DEF HashesWritten
<1>1. CASE j = m
  BY <1>1
<1>2. CASE j # m
  <2>1. j \in 1..m-1
    BY <1>2
  <2> QED
    BY <2>1 DEF HashesWritten
<1> QED
  BY <1>1, <1>2

-----------------------------------------------------------------------------
(* The steps of the serialization, one by one.                             *)
Joins(a, b) ==
  /\ a \o b \in Seq(Nat) /\ Len(a \o b) = Len(a) + Len(b)
  /\ \A n \in 1..Len(a) : (a \o b)[n] = a[n]
  /\ \A n \in 1..Len(b) : (a \o b)[Len(a) + n] = b[n]

LEMMA BytesJoin ==
  ASSUME NEW a \in Seq(Nat), NEW b \in Seq(Nat)
  PROVE  Joins(a, b)
BY Joined DEF Joins

Regroups(a, b, c) == a \o (b \o c) = (a \o b) \o c

LEMMA Regrouped ==
  ASSUME NEW a \in Seq(Nat), NEW b \in Seq(Nat), NEW c \in Seq(Nat)
  PROVE  Regroups(a, b, c)
<1> DEFINE bc == b \o c
           ab == a \o b
           q == a \o bc
           r == ab \o c
           n == Len(a) + Len(b) + Len(c)
<1>1. Len(a) \in Nat /\ Len(b) \in Nat /\ Len(c) \in Nat
  OBVIOUS
<1>2. /\ bc \in Seq(Nat) /\ Len(bc) = Len(b) + Len(c)
      /\ \A i \in 1..Len(b) : bc[i] = b[i]
      /\ \A i \in 1..Len(c) : bc[Len(b) + i] = c[i]
  BY BytesJoin DEF Joins
<1>3. /\ ab \in Seq(Nat) /\ Len(ab) = Len(a) + Len(b)
      /\ \A i \in 1..Len(a) : ab[i] = a[i]
      /\ \A i \in 1..Len(b) : ab[Len(a) + i] = b[i]
  BY BytesJoin DEF Joins
<1> HIDE DEF bc, ab, q, r
<1>4. /\ q \in Seq(Nat) /\ Len(q) = Len(a) + Len(bc)
      /\ \A i \in 1..Len(a) : q[i] = a[i]
      /\ \A i \in 1..Len(bc) : q[Len(a) + i] = bc[i]
  <2>1. Joins(a, bc)
    BY <1>2, BytesJoin
  <2> QED
    BY <2>1 DEF Joins, q
<1>5. /\ r \in Seq(Nat) /\ Len(r) = Len(ab) + Len(c)
      /\ \A i \in 1..Len(ab) : r[i] = ab[i]
      /\ \A i \in 1..Len(c) : r[Len(ab) + i] = c[i]
  <2>1. Joins(ab, c)
    BY <1>3, BytesJoin
  <2> QED
    BY <2>1 DEF Joins, r
<1>6. Len(q) = n /\ Len(r) = n
  BY <1>1, <1>2, <1>3, <1>4, <1>5
<1>7. ASSUME NEW i \in 1..n PROVE q[i] = r[i]
  <2>1. CASE i <= Len(a)
    BY <1>1, <1>3, <1>4, <1>5, <2>1
  <2>2. CASE i > Len(a) /\ i <= Len(a) + Len(b)
    <3> DEFINE m == i - Len(a)
    <3>1. m \in 1..Len(b) /\ m \in 1..Len(bc) /\ i = Len(a) + m /\ i \in 1..Len(ab)
      BY <1>1, <1>2, <1>3, <2>2
    <3> HIDE DEF m
    <3>2. q[Len(a) + m] = bc[m] /\ bc[m] = b[m] /\ ab[Len(a) + m] = b[m]
      BY <1>2, <1>3, <1>4, <3>1
    <3> QED
      BY <1>5, <3>1, <3>2
  <2>3. CASE i > Len(a) + Len(b)
    <3> DEFINE m == i - (Len(a) + Len(b))
    <3>1. /\ m \in 1..Len(c) /\ i = Len(ab) + m /\ i = Len(a) + (Len(b) + m)
          /\ Len(b) + m \in 1..Len(bc)
      BY <1>1, <1>2, <1>3, <2>3
    <3> HIDE DEF m
    <3>2. q[Len(a) + (Len(b) + m)] = bc[Len(b) + m] /\ bc[Len(b) + m] = c[m]
      BY <1>2, <1>4, <3>1
    <3>3. r[Len(ab) + m] = c[m]
      BY <1>5, <3>1
    <3> QED
      BY <3>1, <3>2, <3>3
  <2> QED
    BY <1>1, <2>1, <2>2, <2>3
<1>8. q = r
  <2>1. q \in Seq(Nat) /\ r \in Seq(Nat) /\ Len(q) = n /\ Len(r) = n
    BY <1>4, <1>5, <1>6
  <2> HIDE DEF n
  <2> QED
    BY <1>7, <2>1
<1> QED
  BY <1>8 DEF Regroups, q, r, bc, ab

LEMMA VersionIsWritten ==
  ASSUME header \in Header, SerializedInv, Version
  PROVE  SerializedInv'
<1> DEFINE a == LittleEndian(header.version, U16)
           b == LittleEndian(Len(header.parents), U64)
           q == out \o a
<1>1. /\ stage' = "level" /\ UNCHANGED <<header, level, k, buffer, role>>
      /\ out' = out \o (a \o b) /\ header.version \in Unsigned(U16) /\ stage = "version"
  BY DEF Version, Emit, Goto
<1>2. out \in Seq(Nat) /\ Len(out) = 0 /\ level = 1
  BY <1>1 DEF SerializedInv
<1>3. Len(header.parents) \in Unsigned(U64) /\ Len(header.parents) \in Nat
  BY HeaderParts
<1>4. a \in Seq(Nat) /\ b \in Seq(Nat)
  BY <1>1, <1>3, IntegersAre, UnsignedIsNat, LittleEndianIsBytes DEF IntegerSizes
<1>5. out' = q \o b
  <2>1. Regroups(out, a, b)
    BY <1>2, <1>4, Regrouped
  <2> QED
    BY <1>1, <2>1 DEF Regroups
<1>6. /\ q \in Seq(Nat) /\ Len(q) + 1 = 1 + U16
      /\ IntegerWritten(q, 1, header.version, U16)
  <2>1. Len(out) + 1 = 1 /\ U16 \in Nat
    BY <1>2, IntegersAre DEF IntegerSizes
  <2>2. /\ q \in Seq(Nat) /\ Len(q) + 1 = (Len(out) + 1) + U16
        /\ IntegerWritten(q, Len(out) + 1, header.version, U16)
    BY <1>1, <1>2, <2>1, IntegerIsWritten
  <2> HIDE DEF q
  <2> QED
    BY <2>1, <2>2
<1> HIDE DEF q, a
<1>7. /\ out' \in Seq(Nat) /\ Len(out') + 1 = 1 + U16 + U64
      /\ IntegerWritten(out', 1 + U16, Len(header.parents), U64)
      /\ \A p, s : Written(q, p, s) => Written(out', p, s)
  BY <1>3, <1>5, <1>6, IntegersAre, IntegerIsWritten DEF IntegerSizes
<1>8. IntegerWritten(out', 1, header.version, U16)
  BY <1>6, <1>7, WrittenStays
<1>9. LevelsWritten(out', header, 0)
  BY <1>7, <1>8 DEF LevelsWritten
<1>10. Len(out') + 1 = Start(header)[1]
  BY <1>7, StartsFollow
<1>11. level' \in 1..Len(header.parents) + 1 /\ level' - 1 = 0
  BY <1>1, <1>2, <1>3
<1> QED
  BY <1>1, <1>7, <1>9, <1>10, <1>11 DEF SerializedInv

LEMMA LevelIsWritten ==
  ASSUME header \in Header, SerializedInv, Level
  PROVE  SerializedInv'
<1> DEFINE n == Len(header.parents[level])
<1>1. /\ stage' = "parent" /\ UNCHANGED <<header, level, buffer, role>> /\ k' = 1
      /\ out' = out \o LittleEndian(n, U64) /\ stage = "level" /\ level <= Len(header.parents)
  BY DEF Level, Emit, Goto
<1>2. /\ out \in Seq(Nat) /\ LevelsWritten(out, header, level - 1)
      /\ Len(out) + 1 = Start(header)[level] /\ level \in 1..Len(header.parents) + 1
  BY <1>1 DEF SerializedInv
<1>3. level \in 1..Len(header.parents) /\ n \in Unsigned(U64) /\ n \in Nat
  <2>1. level \in 1..Len(header.parents)
    BY <1>1, <1>2, HeaderParts
  <2> QED
    BY <2>1, HeaderParts
<1> HIDE DEF n
<1>4. /\ out' \in Seq(Nat) /\ Len(out') + 1 = (Len(out) + 1) + U64
      /\ IntegerWritten(out', Len(out) + 1, n, U64)
      /\ \A p, s : Written(out, p, s) => Written(out', p, s)
  BY <1>1, <1>2, <1>3, IntegersAre, IntegerIsWritten DEF IntegerSizes
<1>5. LengthWritten(out', header, level)
  BY <1>2, <1>4 DEF LengthWritten, n
<1>6. LevelsWritten(out', header, level - 1)
  BY <1>2, <1>4, WrittenStays
<1>7. HashesWritten(out', Start(header)[level] + U64, header.parents[level], k' - 1)
  BY <1>1 DEF HashesWritten
<1>8. Len(out') + 1 = Start(header)[level] + U64 + (k' - 1) * HashLen
  <2>1. (k' - 1) * HashLen = 0
    BY <1>1, IntegersAre DEF IntegerSizes
  <2>2. Start(header)[level] \in Nat /\ Len(out') + 1 = Start(header)[level] + U64
    BY <1>2, <1>3, <1>4, HeaderParts, StartsFollow
  <2> QED
    BY <2>1, <2>2, IntegersAre DEF IntegerSizes
<1>9. k' \in 1..n + 1
  BY <1>1, <1>3
<1> QED
  BY <1>1, <1>3, <1>4, <1>5, <1>6, <1>7, <1>8, <1>9 DEF SerializedInv, n

LEMMA LevelsAreWritten ==
  ASSUME header \in Header, SerializedInv, EndLevels
  PROVE  SerializedInv'
<1>1. /\ stage' = "roots" /\ UNCHANGED <<header, level, buffer, role, out>> /\ k' = 1
      /\ stage = "level" /\ level > Len(header.parents)
  BY DEF EndLevels, Goto
<1>2. /\ LevelsWritten(out, header, level - 1)
      /\ Len(out) + 1 = Start(header)[level] /\ level \in 1..Len(header.parents) + 1
  BY <1>1 DEF SerializedInv
<1>3. level = Len(header.parents) + 1 /\ level - 1 = Len(header.parents)
  BY <1>1, <1>2, HeaderParts
<1>4. AllLevelsWritten(out, header)
  BY <1>2, <1>3 DEF AllLevelsWritten
<1>5. HashesWritten(out, RootsAt(header), header.roots, k' - 1)
  BY <1>1 DEF HashesWritten
<1>6. Len(out) + 1 = RootsAt(header) + (k' - 1) * HashLen
  <2>1. (k' - 1) * HashLen = 0 /\ out \in Seq(Nat)
    BY <1>1, IntegersAre DEF IntegerSizes, SerializedInv
  <2> QED
    BY <1>2, <1>3, <2>1 DEF RootsAt
<1> QED
  BY <1>1, <1>4, <1>5, <1>6 DEF SerializedInv

(* Where the hash after the first m of several ends.                       *)
LEMMA NextHash ==
  ASSUME NEW m \in Nat
  PROVE  (m + 1) * HashLen = m * HashLen + HashLen /\ m * HashLen \in Nat
<1>1. HashLen \in Nat
  BY IntegersAre DEF IntegerSizes
<1> QED
  BY <1>1

LEMMA ParentIsWritten ==
  ASSUME header \in Header, SerializedInv, Parent
  PROVE  SerializedInv'
<1> DEFINE hashes == header.parents[level]
           s == Start(header)[level]
           d == Decoded(hashes[k])
<1>1. /\ stage' = "parent" /\ UNCHANGED <<header, level, role>> /\ k' = k + 1
      /\ out' = out \o d /\ buffer' = d /\ Decodes(hashes[k], HashLen)
      /\ stage = "parent" /\ k <= Len(hashes)
  BY DEF Parent, EmitHash, Emit
<1>2. /\ out \in Seq(Nat) /\ LevelsWritten(out, header, level - 1)
      /\ LengthWritten(out, header, level)
      /\ HashesWritten(out, s + U64, hashes, k - 1)
      /\ Len(out) + 1 = s + U64 + (k - 1) * HashLen
      /\ level \in 1..Len(header.parents) /\ k \in 1..Len(hashes) + 1
  BY <1>1 DEF SerializedInv
<1>3. hashes[k] \in Seq(0..Digit) /\ k \in 1..Len(hashes) /\ Len(hashes) \in Nat
  <2>1. /\ Len(hashes) \in Nat
        /\ \A j \in 1..Len(hashes) : hashes[j] \in Seq(0..Digit)
    BY <1>2, HeaderParts
  <2> HIDE DEF hashes
  <2>2. k \in 1..Len(hashes)
    BY <1>1, <1>2, <2>1
  <2> QED
    BY <2>1, <2>2
<1>4. s \in Nat
  <2>1. \A l \in 1..Len(header.parents) + 1 : Start(header)[l] \in Nat
    BY StartsFollow
  <2>2. level \in 1..Len(header.parents) + 1
    BY <1>2, HeaderParts
  <2> QED
    BY <2>1, <2>2
<1> HIDE DEF hashes, s
<1>5. /\ out' \in Seq(Nat) /\ Len(out') + 1 = (Len(out) + 1) + HashLen
      /\ buffer' \in Seq(Nat) /\ Len(buffer') = HashLen
      /\ HashWritten(out', Len(out) + 1, hashes[k])
      /\ \A p, t : Written(out, p, t) => Written(out', p, t)
  BY <1>1, <1>2, <1>3, HashIsWritten
<1> HIDE DEF d
<1>6. /\ LevelsWritten(out', header, level - 1) /\ LengthWritten(out', header, level)
      /\ HashesWritten(out', s + U64, hashes, k - 1)
  BY <1>2, <1>5, WrittenStays DEF LengthWritten
<1>7. HashesWritten(out', s + U64, hashes, k)
  <2>1. k \in Nat \ {0} /\ s + U64 \in Nat
    BY <1>3, <1>4, IntegersAre DEF IntegerSizes
  <2> QED
    BY <2>1, <1>2, <1>5, <1>6, HashesGrow
<1>8. k' - 1 = k /\ k' \in 1..Len(hashes) + 1
  BY <1>1, <1>3
<1>9. Len(out') + 1 = s + U64 + k * HashLen
  <2>1. k - 1 \in Nat /\ (k - 1) + 1 = k
    BY <1>3
  <2>2. k * HashLen = (k - 1) * HashLen + HashLen /\ (k - 1) * HashLen \in Nat
    BY <2>1, NextHash
  <2> DEFINE e == (k - 1) * HashLen
  <2>3. Len(out') + 1 = s + U64 + e + HashLen /\ k * HashLen = e + HashLen /\ e \in Nat
    BY <1>2, <1>5, <2>2
  <2> HIDE DEF e
  <2> QED
    BY <1>4, <2>3, IntegersAre DEF IntegerSizes
<1> QED
  BY <1>1, <1>2, <1>5, <1>6, <1>7, <1>8, <1>9 DEF SerializedInv, hashes, s

LEMMA ParentsAreWritten ==
  ASSUME header \in Header, SerializedInv, EndLevel
  PROVE  SerializedInv'
<1> DEFINE hashes == header.parents[level]
           s == Start(header)[level]
<1>1. /\ stage' = "level" /\ UNCHANGED <<header, k, buffer, out, role>> /\ level' = level + 1
      /\ stage = "parent" /\ k > Len(hashes)
  BY DEF EndLevel, Goto
<1>2. /\ out \in Seq(Nat) /\ LevelsWritten(out, header, level - 1)
      /\ LengthWritten(out, header, level)
      /\ HashesWritten(out, s + U64, hashes, k - 1)
      /\ Len(out) + 1 = s + U64 + (k - 1) * HashLen
      /\ level \in 1..Len(header.parents) /\ k \in 1..Len(hashes) + 1
  BY <1>1 DEF SerializedInv
<1>3. Len(hashes) \in Nat /\ Len(header.parents) \in Nat
  BY <1>2, HeaderParts
<1>4. k - 1 = Len(hashes) /\ level' - 1 = level /\ level' \in 1..Len(header.parents) + 1
  BY <1>1, <1>2, <1>3
<1>5. LevelsWritten(out, header, level)
  <2> SUFFICES ASSUME NEW l \in 1..level
               PROVE  /\ LengthWritten(out, header, l)
                      /\ HashesWritten(out, Start(header)[l] + U64, header.parents[l],
                                       Len(header.parents[l]))
    BY <1>2 DEF LevelsWritten
  <2>1. CASE l = level
    BY <1>2, <1>4, <2>1
  <2>2. CASE l # level
    <3>1. l \in 1..level-1
      BY <1>2, <2>2
    <3> QED
      BY <1>2, <3>1 DEF LevelsWritten
  <2> QED
    BY <2>1, <2>2
<1>6. Start(header)[level + 1] = s + LevelLength(header, level) /\ s \in Nat
  BY <1>2, <1>3, StartsFollow
<1> HIDE DEF s
<1>7. Len(out) + 1 = Start(header)[level']
  <2>1. Len(hashes) * HashLen \in Nat
    BY <1>3, NextHash
  <2>2. Start(header)[level + 1] = s + (U64 + Len(hashes) * HashLen)
    BY <1>6 DEF LevelLength
  <2> HIDE DEF hashes
  <2> QED
    BY <1>1, <1>2, <1>4, <1>6, <2>1, <2>2, IntegersAre DEF IntegerSizes
<1> QED
  BY <1>1, <1>4, <1>5, <1>7 DEF SerializedInv

LEMMA RootIsWritten ==
  ASSUME header \in Header, SerializedInv, Root
  PROVE  SerializedInv'
<1> DEFINE d == Decoded(header.roots[k])
           p == RootsAt(header)
<1>1. /\ stage' = (IF k = 3 THEN "numbers" ELSE "roots")
      /\ UNCHANGED <<header, level, role>> /\ k' = k + 1
      /\ out' = out \o d /\ buffer' = d /\ Decodes(header.roots[k], HashLen)
      /\ stage = "roots"
  BY DEF Root, EmitHash, Emit, Goto
<1>2. /\ out \in Seq(Nat) /\ k \in 1..3 /\ AllLevelsWritten(out, header)
      /\ HashesWritten(out, p, header.roots, k - 1)
      /\ Len(out) + 1 = p + (k - 1) * HashLen
  BY <1>1 DEF SerializedInv
<1>3. header.roots[k] \in Seq(0..Digit)
  BY <1>2, HeaderParts
<1>4. p \in Nat
  <2>1. Len(header.parents) + 1 \in 1..Len(header.parents) + 1
    BY HeaderParts
  <2> QED
    BY <2>1, StartsFollow DEF RootsAt
<1> HIDE DEF p
<1>5. /\ out' \in Seq(Nat) /\ Len(out') + 1 = (Len(out) + 1) + HashLen
      /\ buffer' \in Seq(Nat) /\ Len(buffer') = HashLen
      /\ HashWritten(out', Len(out) + 1, header.roots[k])
      /\ \A r, t : Written(out, r, t) => Written(out', r, t)
  BY <1>1, <1>2, <1>3, HashIsWritten
<1> HIDE DEF d
<1>6. AllLevelsWritten(out', header) /\ HashesWritten(out', p, header.roots, k - 1)
  BY <1>2, <1>5, WrittenStays DEF AllLevelsWritten
<1>7. HashesWritten(out', p, header.roots, k)
  <2>1. k \in Nat \ {0}
    BY <1>2
  <2> QED
    BY <2>1, <1>2, <1>4, <1>5, <1>6, HashesGrow
<1>8. Len(out') + 1 = p + k * HashLen /\ k' - 1 = k
  <2>1. k - 1 \in Nat /\ (k - 1) + 1 = k /\ k' - 1 = k
    BY <1>1, <1>2
  <2>2. k * HashLen = (k - 1) * HashLen + HashLen /\ (k - 1) * HashLen \in Nat
    BY <2>1, NextHash
  <2> DEFINE e == (k - 1) * HashLen
  <2>3. Len(out') + 1 = p + e + HashLen /\ k * HashLen = e + HashLen /\ e \in Nat
    BY <1>2, <1>5, <2>2
  <2> HIDE DEF e
  <2>4. Len(out') + 1 = p + k * HashLen
    BY <1>4, <2>3, IntegersAre DEF IntegerSizes
  <2> QED
    BY <2>1, <2>4
<1>9. CASE k = 3
  <2>1. RootsWritten(out', header) /\ Len(out') + 1 = NumbersAt(header)
    BY <1>6, <1>7, <1>8, <1>9 DEF RootsWritten, NumbersAt, p
  <2> QED
    BY <1>1, <1>5, <1>9, <2>1 DEF SerializedInv
<1>10. CASE k # 3
  <2>1. k' \in 1..3
    BY <1>1, <1>2, <1>10
  <2> QED
    BY <1>1, <1>5, <1>6, <1>7, <1>8, <1>10, <2>1 DEF SerializedInv, p
<1> QED
  BY <1>9, <1>10

LEMMA NumbersAreWritten ==
  ASSUME header \in Header, SerializedInv, Numbers
  PROVE  SerializedInv'
<1> DEFINE a == LittleEndian(HashedTimestamp, U64)
           b == LittleEndian(header.bits, U32)
           c == LittleEndian(HashedNonce, U64)
           d == LittleEndian(header.daaScore, U64)
           e == LittleEndian(header.blueScore, U64)
           p == NumbersAt(header)
           o1 == out \o a
           o2 == o1 \o b
           o3 == o2 \o c
           o4 == o3 \o d
           o5 == o4 \o e
<1>1. /\ stage' = "blueWork" /\ UNCHANGED <<header, level, k, buffer, role>>
      /\ out' = out \o ((((a \o b) \o c) \o d) \o e) /\ stage = "numbers"
  BY DEF Numbers, Emit, Goto
<1>2. /\ out \in Seq(Nat) /\ RootsWritten(out, header) /\ Len(out) + 1 = p
  BY <1>1 DEF SerializedInv
<1>3. /\ HashedTimestamp \in Unsigned(U64) /\ header.bits \in Unsigned(U32)
      /\ HashedNonce \in Unsigned(U64) /\ header.daaScore \in Unsigned(U64)
      /\ header.blueScore \in Unsigned(U64)
  BY HeaderParts, IntegersAre, UnsignedIsNat DEF HashedTimestamp, HashedNonce, IntegerSizes
<1>4. p \in Nat
  BY <1>2
<1> HIDE DEF p
<1>5. /\ o1 \in Seq(Nat) /\ Len(o1) + 1 = p + U64
      /\ IntegerWritten(o1, p, HashedTimestamp, U64) /\ RootsWritten(o1, header)
  <2>1. /\ o1 \in Seq(Nat) /\ Len(o1) + 1 = (Len(out) + 1) + U64
        /\ IntegerWritten(o1, Len(out) + 1, HashedTimestamp, U64)
        /\ \A r, s : Written(out, r, s) => Written(o1, r, s)
    BY <1>2, <1>3, IntegersAre, IntegerIsWritten DEF IntegerSizes
  <2> HIDE DEF o1
  <2>2. Len(o1) + 1 = p + U64
    BY <1>2, <2>1
  <2> QED
    BY <1>2, <2>1, <2>2, WrittenStays
<1> HIDE DEF o1
<1>6. /\ o2 \in Seq(Nat) /\ Len(o2) + 1 = p + U64 + U32
      /\ IntegerWritten(o2, p + U64, header.bits, U32)
      /\ IntegerWritten(o2, p, HashedTimestamp, U64) /\ RootsWritten(o2, header)
  <2>1. /\ o2 \in Seq(Nat) /\ Len(o2) + 1 = (Len(o1) + 1) + U32
        /\ IntegerWritten(o2, Len(o1) + 1, header.bits, U32)
        /\ \A r, s : Written(o1, r, s) => Written(o2, r, s)
    BY <1>3, <1>5, IntegersAre, IntegerIsWritten DEF IntegerSizes
  <2> HIDE DEF o2
  <2>2. Len(o2) + 1 = p + U64 + U32
    BY <1>5, <2>1
  <2> QED
    BY <1>5, <2>1, <2>2, WrittenStays
<1> HIDE DEF o2
<1>7. /\ o3 \in Seq(Nat) /\ Len(o3) + 1 = p + U64 + U32 + U64
      /\ IntegerWritten(o3, p + U64 + U32, HashedNonce, U64)
      /\ IntegerWritten(o3, p + U64, header.bits, U32)
      /\ IntegerWritten(o3, p, HashedTimestamp, U64) /\ RootsWritten(o3, header)
  <2>1. /\ o3 \in Seq(Nat) /\ Len(o3) + 1 = (Len(o2) + 1) + U64
        /\ IntegerWritten(o3, Len(o2) + 1, HashedNonce, U64)
        /\ \A r, s : Written(o2, r, s) => Written(o3, r, s)
    BY <1>3, <1>6, IntegersAre, IntegerIsWritten DEF IntegerSizes
  <2> HIDE DEF o3
  <2>2. Len(o3) + 1 = p + U64 + U32 + U64
    BY <1>6, <2>1
  <2> QED
    BY <1>6, <2>1, <2>2, WrittenStays
<1> HIDE DEF o3
<1>8. /\ o4 \in Seq(Nat) /\ Len(o4) + 1 = p + U64 + U32 + U64 + U64
      /\ IntegerWritten(o4, p + U64 + U32 + U64, header.daaScore, U64)
      /\ IntegerWritten(o4, p + U64 + U32, HashedNonce, U64)
      /\ IntegerWritten(o4, p + U64, header.bits, U32)
      /\ IntegerWritten(o4, p, HashedTimestamp, U64) /\ RootsWritten(o4, header)
  <2>1. /\ o4 \in Seq(Nat) /\ Len(o4) + 1 = (Len(o3) + 1) + U64
        /\ IntegerWritten(o4, Len(o3) + 1, header.daaScore, U64)
        /\ \A r, s : Written(o3, r, s) => Written(o4, r, s)
    BY <1>3, <1>7, IntegersAre, IntegerIsWritten DEF IntegerSizes
  <2> HIDE DEF o4
  <2>2. Len(o4) + 1 = p + U64 + U32 + U64 + U64
    BY <1>7, <2>1
  <2> QED
    BY <1>7, <2>1, <2>2, WrittenStays
<1> HIDE DEF o4
<1>9. /\ o5 \in Seq(Nat) /\ Len(o5) + 1 = p + U64 + U32 + U64 + U64 + U64
      /\ NumbersWritten(o5, header, HashedTimestamp, HashedNonce)
  <2>1. /\ o5 \in Seq(Nat) /\ Len(o5) + 1 = (Len(o4) + 1) + U64
        /\ IntegerWritten(o5, Len(o4) + 1, header.blueScore, U64)
        /\ \A r, s : Written(o4, r, s) => Written(o5, r, s)
    BY <1>3, <1>8, IntegersAre, IntegerIsWritten DEF IntegerSizes
  <2> HIDE DEF o5
  <2>2. Len(o5) + 1 = p + U64 + U32 + U64 + U64 + U64
    BY <1>8, <2>1
  <2> QED
    BY <1>8, <2>1, <2>2, WrittenStays DEF NumbersWritten, p
<1>10. out' = o5
  <2>1. /\ a \in Seq(Nat) /\ b \in Seq(Nat) /\ c \in Seq(Nat) /\ d \in Seq(Nat)
        /\ e \in Seq(Nat) /\ out \in Seq(Nat)
    BY <1>2, <1>3, IntegersAre, UnsignedIsNat, LittleEndianIsBytes DEF IntegerSizes
  <2> HIDE DEF a, b, c, d, e
  <2> DEFINE ab == a \o b
             abc == ab \o c
             abcd == abc \o d
  <2> HIDE DEF ab, abc, abcd
  <2>2. ab \in Seq(Nat)
    BY <2>1, Joined DEF ab
  <2>3. Regroups(out, a, b) /\ Regroups(out, ab, c)
    BY <2>1, <2>2, Regrouped
  <2>4. abc \in Seq(Nat)
    BY <2>1, <2>2, Joined DEF abc
  <2>5. Regroups(out, abc, d)
    BY <2>1, <2>4, Regrouped
  <2>6. abcd \in Seq(Nat)
    BY <2>1, <2>4, Joined DEF abcd
  <2>7. Regroups(out, abcd, e)
    BY <2>1, <2>6, Regrouped
  <2>8. out' = out \o (abcd \o e)
    BY <1>1, Zenon DEF a, b, c, d, e, ab, abc, abcd
  <2> QED
    BY <2>3, <2>5, <2>7, <2>8, Zenon DEF Regroups, ab, abc, abcd, o1, o2, o3, o4, o5
<1>11. Len(out') + 1 = BlueWorkAt(header)
  BY <1>9, <1>10 DEF BlueWorkAt, p
<1>12. out' \in Seq(Nat) /\ NumbersWritten(out', header, HashedTimestamp', HashedNonce')
  BY <1>1, <1>9, <1>10 DEF HashedTimestamp, HashedNonce, ForPrePow
<1> QED
  BY <1>1, <1>11, <1>12 DEF SerializedInv

LEMMA BlueWorkIsWritten ==
  ASSUME header \in Header, SerializedInv, EmitBlueWork
  PROVE  SerializedInv'
<1> DEFINE n == BlueWorkLen
           d == Decoded(BlueWork)
           tail == SubSeq(buffer, n + 1, HashLen)
           p == BlueWorkAt(header)
           a == LittleEndian(n, U64)
           q == out \o a
<1>1. /\ stage' = "pruningPoint" /\ UNCHANGED <<header, level, k, role>>
      /\ n <= HashLen /\ Decodes(BlueWork, n) /\ stage = "blueWork"
      /\ buffer' = d \o tail
      /\ out' = out \o (a \o BlueWorkBytes(buffer'))
  BY DEF EmitBlueWork, Emit, Goto
<1>2. /\ out \in Seq(Nat) /\ NumbersWritten(out, header, HashedTimestamp, HashedNonce)
      /\ Len(out) + 1 = p /\ buffer \in Seq(Nat) /\ Len(buffer) = HashLen
  BY <1>1 DEF SerializedInv
<1>3. BlueWork \in Seq(0..Digit) /\ Len(BlueWork) = 2 * n /\ n \in Nat
  <2>1. BlueWork \in Seq(0..Digit)
    <3>1. header.blueWork \in Seq(0..Digit) /\ 0 \in 0..Digit
      BY HeaderParts, PowAssumption
    <3>2. <<0>> \o header.blueWork \in Seq(0..Digit)
      BY <3>1
    <3> QED
      BY <3>1, <3>2 DEF BlueWork
  <2>2. Len(BlueWork) \in Nat
    BY <2>1
  <2> QED
    BY <1>1, <2>1, <2>2 DEF Decodes, BlueWorkLen
<1>4. d \in Seq(Nat) /\ Len(d) = n
  BY <1>3, DecodedIsBytes
<1>5. n \in Unsigned(U64)
  <2>1. HashLen \in Unsigned(U64) /\ HashLen \in Nat /\ U64 \in Nat
    BY PowAssumption, IntegersAre DEF IntegerSizes
  <2>2. U64 * ByteBits \in Nat
    BY <2>1, Widths
  <2>3. 2^(U64 * ByteBits) \in Nat
    BY <2>2, PowerIsPositive
  <2> HIDE DEF n
  <2> QED
    BY <1>1, <1>3, <2>1, <2>3 DEF Unsigned
<1>6. BlueWorkLen' = n /\ BlueWork' = BlueWork
  BY <1>1 DEF BlueWorkLen, BlueWork
<1> HIDE DEF d
<1>7. tail \in Seq(Nat) /\ Len(tail) = HashLen - n
  <2> HIDE DEF n
  <2>1. HashLen \in Nat /\ n \in Nat /\ n <= HashLen
    BY <1>1, <1>3, IntegersAre DEF IntegerSizes
  <2>2. buffer \in Seq(Nat) /\ Len(buffer) = HashLen
    BY <1>2
  <2>3. tail = [j \in 1..HashLen - n |-> buffer[j + n]]
    BY <2>1, <2>2
  <2>4. HashLen - n \in Nat /\ \A j \in 1..HashLen - n : j + n \in 1..HashLen
    BY <2>1
  <2>5. \A j \in 1..HashLen - n : buffer[j + n] \in Nat
    BY <2>2, <2>4
  <2> HIDE DEF tail
  <2>6. tail \in [1..HashLen - n -> Nat]
    BY <2>3, <2>5
  <2> QED
    BY <2>4, <2>6
<1> HIDE DEF tail
<1>8. buffer' \in Seq(Nat) /\ Len(buffer') = HashLen /\ SubSeq(buffer', 1, n) = d
  <2> HIDE DEF n
  <2>1. /\ buffer' \in Seq(Nat) /\ Len(buffer') = Len(d) + Len(tail)
        /\ \A j \in 1..Len(d) : buffer'[j] = d[j]
    BY <1>1, <1>4, <1>7, Joined
  <2>2. Len(buffer') = HashLen
    BY <1>3, <1>4, <1>7, <2>1, IntegersAre DEF IntegerSizes
  <2>3. /\ SubSeq(buffer', 1, n) \in Seq(Nat) /\ Len(SubSeq(buffer', 1, n)) = n
        /\ \A j \in 1..n : SubSeq(buffer', 1, n)[j] = buffer'[j]
    BY <1>1, <1>3, <2>1, <2>2, Beginning
  <2>4. \A j \in 1..n : SubSeq(buffer', 1, n)[j] = d[j]
    BY <1>4, <2>1, <2>3
  <2> QED
    BY <1>4, <2>1, <2>2, <2>3, <2>4
<1>9. BlueWorkBytes(buffer') = d
  BY <1>8 DEF BlueWorkBytes
<1> HIDE DEF n
<1>10. a \in Seq(Nat)
  BY <1>3, IntegersAre, LittleEndianIsBytes DEF IntegerSizes
<1>11. out' = q \o d
  <2>1. out' = out \o (a \o d) /\ out \in Seq(Nat)
    BY <1>1, <1>2, <1>9
  <2> HIDE DEF a
  <2>2. Regroups(out, a, d)
    BY <1>4, <1>10, <2>1, Regrouped
  <2> QED
    BY <2>1, <2>2 DEF Regroups
<1>12. /\ q \in Seq(Nat) /\ Len(q) + 1 = (Len(out) + 1) + U64
       /\ IntegerWritten(q, p, n, U64)
       /\ \A r, s : Written(out, r, s) => Written(q, r, s)
  BY <1>2, <1>5, IntegersAre, IntegerIsWritten DEF IntegerSizes
<1> HIDE DEF q, a
<1>13. /\ out' \in Seq(Nat) /\ Len(out') + 1 = (Len(q) + 1) + n
       /\ Written(out', Len(q) + 1, d)
       /\ \A r, s : Written(q, r, s) => Written(out', r, s)
  <2>1. /\ out' \in Seq(Nat) /\ Len(out') = Len(q) + n
        /\ Written(out', Len(q) + 1, d)
        /\ \A r, s : Written(q, r, s) => Written(out', r, s)
    BY <1>4, <1>11, <1>12, EmitWrites
  <2>2. (Len(q) + n) + 1 = (Len(q) + 1) + n
    BY <1>3, <1>12, GoesOn
  <2> QED
    BY <2>1, <2>2
<1>14. NumbersWritten(q, header, HashedTimestamp, HashedNonce)
  BY <1>2, <1>12, WrittenStays
<1>15. NumbersWritten(out', header, HashedTimestamp, HashedNonce)
         /\ IntegerWritten(out', p, n, U64)
  BY <1>12, <1>13, <1>14, WrittenStays
<1>16. Len(q) + 1 = p + U64 /\ Len(out') + 1 = p + U64 + n
  BY <1>2, <1>12, <1>13
<1>17. BlueWorkWritten'
  <2>1. HashedTimestamp' = HashedTimestamp /\ HashedNonce' = HashedNonce
    BY <1>1 DEF HashedTimestamp, HashedNonce, ForPrePow
  <2> QED
    BY <1>1, <1>3, <1>6, <1>13, <1>15, <1>16, <2>1 DEF BlueWorkWritten, d, n
<1>18. Len(out') + 1 = PruningPointAt'
  BY <1>1, <1>6, <1>16 DEF PruningPointAt, n
<1> QED
  BY <1>1, <1>8, <1>13, <1>17, <1>18 DEF SerializedInv

LEMMA PruningPointIsWritten ==
  ASSUME header \in Header, SerializedInv, PruningPoint
  PROVE  SerializedInv'
<1>1. /\ stage' = "new" /\ UNCHANGED <<header, level, k, role>> /\ stage = "pruningPoint"
      /\ Decodes(header.pruningPoint, HashLen)
      /\ out' = out \o Decoded(header.pruningPoint) /\ buffer' = Decoded(header.pruningPoint)
  BY DEF PruningPoint, EmitHash, Emit, Goto
<1>2. out \in Seq(Nat) /\ BlueWorkWritten /\ Len(out) + 1 = PruningPointAt
  BY <1>1 DEF SerializedInv
<1>3. /\ out' \in Seq(Nat) /\ Len(out') + 1 = (Len(out) + 1) + HashLen
      /\ buffer' \in Seq(Nat) /\ Len(buffer') = HashLen
      /\ HashWritten(out', PruningPointAt, header.pruningPoint)
      /\ \A p, s : Written(out, p, s) => Written(out', p, s)
  <2>1. header.pruningPoint \in Seq(0..Digit)
    BY HeaderParts
  <2> QED
    BY <1>1, <1>2, <2>1, HashIsWritten
<1>4. PruningPointAt' = PruningPointAt /\ BlueWork' = BlueWork /\ BlueWorkLen' = BlueWorkLen
  BY <1>1 DEF PruningPointAt, BlueWorkLen, BlueWork
<1>5. BlueWorkWritten'
  <2>1. HashedTimestamp' = HashedTimestamp /\ HashedNonce' = HashedNonce
    BY <1>1 DEF HashedTimestamp, HashedNonce, ForPrePow
  <2>2. /\ NumbersWritten(out', header, HashedTimestamp, HashedNonce)
        /\ IntegerWritten(out', BlueWorkAt(header), BlueWorkLen, U64)
        /\ Written(out', BlueWorkAt(header) + U64, Decoded(BlueWork))
    BY <1>2, <1>3, WrittenStays DEF BlueWorkWritten
  <2> QED
    BY <1>1, <1>2, <1>4, <2>1, <2>2 DEF BlueWorkWritten
<1>6. Len(out') + 1 = PruningPointAt + HashLen
  BY <1>2, <1>3
<1> QED
  BY <1>1, <1>3, <1>4, <1>5, <1>6 DEF SerializedInv

-----------------------------------------------------------------------------
(* All others start a serialization, or leave it alone.                    *)
LEMMA InitSerialized == Init => SerializedInv
<1> SUFFICES ASSUME Init PROVE SerializedInv
  OBVIOUS
<1>1. buffer \in Seq(Nat) /\ Len(buffer) = HashLen
  BY IntegersAre DEF Init, IntegerSizes
<1>2. out \in Seq(Nat) /\ out = <<>> /\ level = 1 /\ stage = "decode"
  BY DEF Init
<1> QED
  BY <1>1, <1>2 DEF SerializedInv

LEMMA NotSerializing ==
  ASSUME SerializedInv, UNCHANGED <<out, buffer>>,
         stage' \in {"mine", "check", "accepted", "rejected", "panic"}
  PROVE  SerializedInv'
BY DEF SerializedInv

LEMMA SerializesAgain ==
  ASSUME NEW s \in {"decode", "version"}, StartOver(s)
  PROVE  SerializedInv'
<1>1. buffer' = [n \in 1..HashLen |-> 0] /\ out' = <<>> /\ level' = 1 /\ stage' = s
  BY DEF StartOver, Goto
<1>2. buffer' \in Seq(Nat) /\ Len(buffer') = HashLen
  BY <1>1, IntegersAre DEF IntegerSizes
<1>3. out' \in Seq(Nat) /\ stage' \in {"decode", "version"} /\ out' = <<>> /\ level' = 1
  BY <1>1
<1> QED
  BY <1>2, <1>3 DEF SerializedInv

LEMMA SerializedStep ==
  ASSUME PowInvariant, SerializedInv, [Next]_vars
  PROVE  SerializedInv'
<1>h. header \in Header
  BY DEF PowInvariant, RoleInv
<1>1. CASE DecodeTarget
  <2>1. UNCHANGED <<out, buffer, level>> /\ stage = "decode" /\ stage' \in {"version", "decode"}
    BY <1>1 DEF DecodeTarget, serializeVars
  <2> QED
    BY <2>1 DEF SerializedInv
<1>2. CASE Serialize
  BY <1>h, <1>2, VersionIsWritten, LevelIsWritten, LevelsAreWritten, ParentIsWritten,
    ParentsAreWritten, RootIsWritten, NumbersAreWritten, BlueWorkIsWritten,
    PruningPointIsWritten DEF Serialize
<1>3. CASE SerializeFails
  BY <1>3, NotSerializing DEF SerializeFails, Panic, Goto, serializeVars
<1>4. CASE NewState
  BY <1>4, NotSerializing DEF NewState, Goto, serializeVars
<1>5. CASE \E nonce \in Nonces : TryNonce(nonce)
  BY <1>5, NotSerializing DEF TryNonce, StartCheck, Goto, serializeVars
<1>6. CASE CompareWord
  BY <1>6, NotSerializing DEF CompareWord, serializeVars
<1>7. CASE GenerateBlock
  BY <1>7, SerializesAgain DEF GenerateBlock
<1>8. CASE NoBlock
  BY <1>8, NotSerializing DEF NoBlock, Goto, serializeVars
<1>9. CASE BlockHash
  BY <1>9, SerializesAgain DEF BlockHash
<1>10. CASE Verify
  BY <1>10, NotSerializing DEF Verify, StartCheck, Goto, serializeVars
<1>11. CASE Verified
  BY <1>11, NotSerializing DEF Verified, Goto, serializeVars
<1>12. CASE UNCHANGED vars
  <2>1. UNCHANGED <<header, stage, level, k, buffer, out, role>>
    BY <1>12 DEF vars, serializeVars
  <2> QED
    BY <2>1 DEF SerializedInv, BlueWorkWritten, PruningPointAt, BlueWorkLen, BlueWork,
      HashedTimestamp, HashedNonce, ForPrePow
<1> QED
  BY <1>1, <1>2, <1>3, <1>4, <1>5, <1>6, <1>7, <1>8, <1>9, <1>10, <1>11, <1>12 DEF Next

-----------------------------------------------------------------------------
(* The reader finds what is written.                                       *)
LEMMA ReadIsWritten ==
  ASSUME NEW p, NEW n \in Nat, NEW bytes \in Seq(Nat), Len(bytes) = n, Written(out, p, bytes)
  PROVE  Read(p, n) = bytes
<1>1. bytes = [b \in 1..n |-> bytes[b]] /\ DOMAIN bytes = 1..n
  OBVIOUS
<1>2. ASSUME NEW b \in 1..n
      PROVE  (IF p + b - 1 \in DOMAIN out THEN out[p + b - 1] ELSE 0) = bytes[b]
  BY <1>1 DEF Written
<1>3. Read(p, n) = [b \in 1..n |-> bytes[b]]
  BY <1>2 DEF Read
<1> QED
  BY <1>1, <1>3

LEMMA IntegerIsRead ==
  ASSUME NEW p, NEW w \in Nat, NEW n, IntegerWritten(out, p, n, w)
  PROVE  ReadInteger(p, w) = n
<1> DEFINE d == [b \in 0..w-1 |-> Read(p, w)[b + 1]]
<1>1. n \in Nat /\ n \in Unsigned(w)
  BY UnsignedIsNat DEF IntegerWritten
<1>2. Read(p, w) = LittleEndian(n, w)
  BY <1>1, LittleEndianIsBytes, ReadIsWritten DEF IntegerWritten
<1>3. ASSUME NEW b \in 0..w-1
      PROVE  d[b] = (n \div Weight(b, ByteBits)) % 2^ByteBits
  <2>1. b + 1 \in 1..w /\ (b + 1) - 1 = b
    OBVIOUS
  <2>2. LittleEndian(n, w)[b + 1] = (n \div 2^(((b + 1) - 1) * ByteBits)) % Byte
    BY <2>1 DEF LittleEndian
  <2>3. LittleEndian(n, w)[b + 1] = (n \div 2^(b * ByteBits)) % Byte
    BY <2>1, <2>2
  <2> QED
    BY <1>2, <2>3, Widths DEF Weight
<1> HIDE DEF d
<1>4. Target!FromDigits(d, ByteBits, w) = n % Weight(w, ByteBits)
  BY <1>1, <1>3, Widths, FromDigitsOf
<1>5. n % Weight(w, ByteBits) = n
  <2>1. Weight(w, ByteBits) \in Nat \ {0}
    BY Widths, WeightIsPositive
  <2>2. n \in 0..Weight(w, ByteBits) - 1
    BY <1>1 DEF Unsigned, Weight
  <2> HIDE DEF Weight
  <2> QED
    BY <2>1, <2>2, SmallMod
<1> QED
  BY <1>4, <1>5 DEF ReadInteger, d

LEMMA HashIsRead ==
  ASSUME NEW p, NEW string, HashWritten(out, p, string)
  PROVE  Read(p, HashLen) = Decoded(string)
<1>1. HashLen \in Nat
  BY IntegersAre DEF IntegerSizes
<1>2. Decoded(string) \in Seq(Nat) /\ Len(Decoded(string)) = HashLen
  BY <1>1, DecodedIsBytes DEF HashWritten
<1> QED
  BY <1>1, <1>2, ReadIsWritten DEF HashWritten

LEMMA HashesAreRead ==
  ASSUME NEW p, NEW m \in Nat, NEW hashes, HashesWritten(out, p, hashes, m)
  PROVE  ReadHashes(p, m) = [j \in 1..m |-> Decoded(hashes[j])]
<1>1. ASSUME NEW j \in 1..m
      PROVE  Read(p + (j - 1) * HashLen, HashLen) = Decoded(hashes[j])
  BY HashIsRead DEF HashesWritten
<1> QED
  BY <1>1 DEF ReadHashes

(* And that the levels are where they are.                                 *)
LEMMA StartsAreRead ==
  ASSUME header \in Header, AllLevelsWritten(out, header)
  PROVE  LevelStarts(Len(header.parents)) = Start(header)
<1> DEFINE n == Len(header.parents)
           s == Start(header)
           Starts(f) == f = [l \in 1..n + 1 |->
                               IF l = 1 THEN 1 + U16 + U64
                               ELSE f[l - 1] + U64 + ReadInteger(f[l - 1], U64) * HashLen]
           r == CHOOSE f : Starts(f)
<1>1. n \in Nat
  BY HeaderParts
<1>2. ASSUME NEW l \in 1..n
      PROVE  /\ ReadInteger(s[l], U64) = Len(header.parents[l])
             /\ s[l + 1] = s[l] + U64 + ReadInteger(s[l], U64) * HashLen
  <2>1. ReadInteger(s[l], U64) = Len(header.parents[l])
    BY IntegersAre, IntegerIsRead
      DEF AllLevelsWritten, LevelsWritten, LengthWritten, IntegerSizes
  <2>2. s[l + 1] = s[l] + (U64 + Len(header.parents[l]) * HashLen)
    BY StartsFollow DEF LevelLength
  <2>3. s[l] \in Nat
    BY <1>1, StartsFollow
  <2>4. Len(header.parents[l]) \in Nat
    BY HeaderParts
  <2>5. Len(header.parents[l]) * HashLen \in Nat /\ U64 \in Nat
    BY <2>4, NextHash, IntegersAre DEF IntegerSizes
  <2> QED
    BY <2>1, <2>2, <2>3, <2>5
<1>3. s = [l \in 1..n + 1 |-> s[l]] /\ s[1] = 1 + U16 + U64
  BY StartsFollow DEF IsStart
<1> HIDE DEF s, n
<1>4. Starts(s)
  <2>1. ASSUME NEW l \in 1..n + 1, l # 1
        PROVE  s[l] = s[l - 1] + U64 + ReadInteger(s[l - 1], U64) * HashLen
    <3>1. l - 1 \in 1..n /\ (l - 1) + 1 = l
      BY <1>1, <2>1
    <3> QED
      BY <1>2, <3>1
  <2> QED
    BY <1>3, <2>1
<1>5. Starts(r)
  BY <1>4
<1> HIDE DEF r
<1> DEFINE S == {j \in Nat : j <= n => r[j + 1] = s[j + 1]}
<1>6. 0 \in S
  BY <1>1, <1>3, <1>5
<1>7. ASSUME NEW j \in Nat, j \in S PROVE j + 1 \in S
  <2> SUFFICES ASSUME j + 1 <= n PROVE r[(j + 1) + 1] = s[(j + 1) + 1]
    OBVIOUS
  <2>1. r[j + 1] = s[j + 1]
    BY <1>1, <1>7
  <2>2. (j + 1) + 1 \in 1..n + 1 /\ (j + 1) + 1 # 1 /\ ((j + 1) + 1) - 1 = j + 1
    BY <1>1
  <2>3. \A f : Starts(f) =>
          f[(j + 1) + 1] = f[j + 1] + U64 + ReadInteger(f[j + 1], U64) * HashLen
    BY <2>2
  <2> HIDE DEF Starts
  <2> QED
    BY <1>4, <1>5, <2>1, <2>3
<1>8. ASSUME NEW l \in 1..n + 1 PROVE r[l] = s[l]
  <2>1. l - 1 \in Nat /\ l - 1 <= n /\ (l - 1) + 1 = l
    BY <1>1
  <2> HIDE DEF S
  <2>2. l - 1 \in S
    BY <1>6, <1>7, <2>1, SetInduction
  <2> USE DEF S
  <2> QED
    BY <2>1, <2>2
<1>9. r = s
  BY <1>3, <1>5, <1>8
<1>10. LevelStarts(n) = r
  BY DEF LevelStarts, r
<1> QED
  BY <1>9, <1>10 DEF n, s

LEMMA SerializedHolds == Spec => [](PowInvariant /\ SerializedInv)
<1>1. PowInvariant /\ SerializedInv /\ [Next]_vars => SerializedInv'
  BY SerializedStep
<1> QED
  BY InitSerialized, PowInvariantHolds, <1>1, PTL DEF Spec

LEMMA HeaderIsRead ==
  ASSUME PowInvariant, SerializedInv
  PROVE  SerializationReadsBack
<1> SUFFICES ASSUME stage = "new" PROVE SerializationReadsBack
  BY DEF SerializationReadsBack
<1> DEFINE levels == ReadInteger(1 + U16, U64)
           start == LevelStarts(levels)
           roots == start[levels + 1]
           timestamp == roots + 3 * HashLen
           bits == timestamp + U64
           nonce == bits + U32
           daaScore == nonce + U64
           length == daaScore + 2 * U64
           blueWorkLen == ReadInteger(length, U64)
           pruningPoint == length + U64 + blueWorkLen
           n == Len(header.parents)
           p == NumbersAt(header)
<1>1. /\ BlueWorkWritten /\ HashWritten(out, PruningPointAt, header.pruningPoint)
      /\ Len(out) + 1 = PruningPointAt + HashLen /\ out \in Seq(Nat)
  BY DEF SerializedInv
<1>2. /\ NumbersWritten(out, header, HashedTimestamp, HashedNonce)
      /\ IntegerWritten(out, BlueWorkAt(header), BlueWorkLen, U64)
      /\ Written(out, BlueWorkAt(header) + U64, Decoded(BlueWork))
      /\ BlueWork \in Seq(0..Digit) /\ Len(BlueWork) = 2 * BlueWorkLen
  BY <1>1 DEF BlueWorkWritten
<1>3. /\ AllLevelsWritten(out, header)
      /\ HashesWritten(out, RootsAt(header), header.roots, 3)
      /\ IntegerWritten(out, p, HashedTimestamp, U64)
      /\ IntegerWritten(out, p + U64, header.bits, U32)
      /\ IntegerWritten(out, p + U64 + U32, HashedNonce, U64)
      /\ IntegerWritten(out, p + U64 + U32 + U64, header.daaScore, U64)
      /\ IntegerWritten(out, p + U64 + U32 + U64 + U64, header.blueScore, U64)
  BY <1>2 DEF NumbersWritten, RootsWritten
<1>4. /\ IntegerWritten(out, 1, header.version, U16) /\ IntegerWritten(out, 1 + U16, n, U64)
      /\ \A l \in 1..n :
           /\ IntegerWritten(out, Start(header)[l], Len(header.parents[l]), U64)
           /\ HashesWritten(out, Start(header)[l] + U64, header.parents[l],
                            Len(header.parents[l]))
  BY <1>3 DEF AllLevelsWritten, LevelsWritten, LengthWritten
<1>5. header \in Header
  BY DEF PowInvariant, RoleInv
<1>6. U16 \in Nat /\ U32 \in Nat /\ U64 \in Nat /\ HashLen \in Nat
  BY IntegersAre DEF IntegerSizes
<1>7. levels = n /\ start = Start(header) /\ roots = RootsAt(header) /\ timestamp = p
  <2>1. levels = n
    BY <1>4, <1>6, IntegerIsRead
  <2>2. start = Start(header)
    BY <1>3, <1>5, <2>1, StartsAreRead
  <2> QED
    BY <2>1, <2>2 DEF RootsAt, NumbersAt
<1>8. p \in Nat
  <2>1. n + 1 \in 1..n + 1
    BY <1>5, HeaderParts
  <2>2. RootsAt(header) \in Nat
    BY <1>5, <2>1, StartsFollow DEF RootsAt
  <2> QED
    BY <1>6, <2>2 DEF NumbersAt
<1> HIDE DEF levels, start, roots, n, timestamp, p
<1>9. bits = p + U64 /\ nonce = p + U64 + U32 /\ daaScore = p + U64 + U32 + U64
  BY <1>7
<1>10. daaScore + U64 = p + U64 + U32 + U64 + U64 /\ length = BlueWorkAt(header)
  <2>1. length = p + U64 + U32 + U64 + U64 + U64
    BY <1>6, <1>7, <1>8
  <2> QED
    BY <1>9, <2>1 DEF BlueWorkAt, p
<1> HIDE DEF bits, nonce, daaScore, length
<1>11. blueWorkLen = BlueWorkLen /\ pruningPoint = PruningPointAt
  <2>1. blueWorkLen = BlueWorkLen
    BY <1>2, <1>6, <1>10, IntegerIsRead
  <2> QED
    BY <1>10, <2>1 DEF PruningPointAt
<1> HIDE DEF blueWorkLen, pruningPoint
<1>12. /\ ReadInteger(1, U16) = header.version
       /\ ReadInteger(timestamp, U64) = HashedTimestamp
       /\ ReadInteger(bits, U32) = header.bits
       /\ ReadInteger(nonce, U64) = HashedNonce
       /\ ReadInteger(daaScore, U64) = header.daaScore
       /\ ReadInteger(daaScore + U64, U64) = header.blueScore
  BY <1>3, <1>4, <1>6, <1>7, <1>9, <1>10, IntegerIsRead
<1>13. [l \in 1..levels |-> ReadHashes(start[l] + U64, ReadInteger(start[l], U64))]
         = [l \in DOMAIN header.parents |->
              [j \in DOMAIN header.parents[l] |-> Decoded(header.parents[l][j])]]
  <2>1. n \in Nat /\ DOMAIN header.parents = 1..n
    BY <1>5, HeaderParts DEF n
  <2>2. ASSUME NEW l \in 1..n
        PROVE  ReadHashes(start[l] + U64, ReadInteger(start[l], U64))
                 = [j \in DOMAIN header.parents[l] |-> Decoded(header.parents[l][j])]
    <3>1. /\ Len(header.parents[l]) \in Nat
          /\ DOMAIN header.parents[l] = 1..Len(header.parents[l])
      BY <1>5, HeaderParts DEF n
    <3>2. ReadInteger(start[l], U64) = Len(header.parents[l])
      BY <1>4, <1>6, <1>7, IntegerIsRead
    <3> QED
      BY <1>4, <1>7, <3>1, <3>2, HashesAreRead
  <2> QED
    BY <1>7, <2>1, <2>2
<1>14. ReadHashes(roots, 3) = [r \in 1..3 |-> Decoded(header.roots[r])]
  <2>1. HashesWritten(out, roots, header.roots, 3) /\ 3 \in Nat
    BY <1>3, <1>7
  <2>2. \A m \in Nat : HashesWritten(out, roots, header.roots, m) =>
          ReadHashes(roots, m) = [r \in 1..m |-> Decoded(header.roots[r])]
    BY HashesAreRead
  <2> QED
    BY <2>1, <2>2
<1>15. Read(length + U64, blueWorkLen) = Decoded(BlueWork)
  <2>1. BlueWorkLen \in Nat
    BY <1>2, <1>6, UnsignedIsNat DEF IntegerWritten
  <2>2. Decoded(BlueWork) \in Seq(Nat) /\ Len(Decoded(BlueWork)) = BlueWorkLen
    BY <1>2, <2>1, DecodedIsBytes
  <2> QED
    BY <1>2, <1>10, <1>11, <2>1, <2>2, ReadIsWritten
<1>16. Read(pruningPoint, HashLen) = Decoded(header.pruningPoint)
  BY <1>1, <1>11, HashIsRead
<1>17. pruningPoint + HashLen = Len(out) + 1
  BY <1>1, <1>11
<1>18. HashedTimestamp = (IF role = "block_hash" THEN header.timestamp ELSE 0)
         /\ HashedNonce = (IF role = "block_hash" THEN header.nonce ELSE 0)
  BY DEF HashedTimestamp, HashedNonce, ForPrePow
<1>19. ReadHeader =
         [version |-> ReadInteger(1, U16),
          parents |-> [l \in 1..levels |->
                         ReadHashes(start[l] + U64, ReadInteger(start[l], U64))],
          roots |-> ReadHashes(roots, 3),
          timestamp |-> ReadInteger(timestamp, U64),
          bits |-> ReadInteger(bits, U32),
          nonce |-> ReadInteger(nonce, U64),
          daaScore |-> ReadInteger(daaScore, U64),
          blueScore |-> ReadInteger(daaScore + U64, U64),
          blueWork |-> Read(length + U64, blueWorkLen),
          pruningPoint |-> Read(pruningPoint, HashLen),
          next |-> pruningPoint + HashLen]
  BY DEF ReadHeader, levels, start, roots, timestamp, bits, nonce, daaScore, length, blueWorkLen,
    pruningPoint
<1> QED
  BY <1>12, <1>13, <1>14, <1>15, <1>16, <1>17, <1>18, <1>19 DEF SerializationReadsBack

(* What is given to the hasher of a header, of whatever length and with any*)
(* number of levels and parents, is read back by who knows the format and  *)
(* not the header: all of it is there, but nonce and time for the proof of *)
(* work, and nothing else is.                                              *)
THEOREM HeadersReadBack == Spec => []SerializationReadsBack
<1>1. PowInvariant /\ SerializedInv => SerializationReadsBack
  BY HeaderIsRead
<1> QED
  BY <1>1, SerializedHolds, PTL
=============================================================================
