-------------------------- MODULE PowMatrixProofs --------------------------
(* That heavy_hash computes the product it is to compute, in the arithmetic*)
(* that it has, is proved for every matrix, hash and size that satisfies   *)
(* HeavyHashAssumption: for 64 columns, nibbles of 16 values and a scale of*)
(* 2^10 this is 64 * 15 * 15 = 14400, less than 16 * 2^10 = 16384 and less *)
(* than 2^16.                                                              *)
(*                                                                         *)
(* That the matrix it multiplies with is invertible, and that generate     *)
(* rejects no other, is proved in the second half: elimination keeps the   *)
(* solutions of the system of equations whose coefficients are the matrix. *)
EXTENDS PowMatrix, NumberFacts

Largest == (Nibble - 1) * (Nibble - 1)

LEMMA ProductOfNibbles ==
  ASSUME NEW m \in Nibbles, NEW n \in Nibbles
  PROVE  m * n \in 0..Largest
<1>1. Nibble \in Nat \ {0} /\ m \in 0..Nibble - 1 /\ n \in 0..Nibble - 1
  BY HeavyHashAssumption DEF Nibbles
<1>2. m * n \in Nat /\ m * n <= (Nibble - 1) * n
  BY <1>1
<1>3. (Nibble - 1) * n <= Largest
  BY <1>1 DEF Largest
<1> QED
  BY <1>1, <1>2, <1>3 DEF Largest

(* After n of N products a sum is still less than the bounds of the        *)
(* assumption.                                                             *)
LEMMA SumsAreSmall ==
  ASSUME NEW n \in 0..N
  PROVE  /\ Largest \in Nat
         /\ LargestSum(n) = n * Largest
         /\ LargestSum(n) \in Nat
         /\ LargestSum(n) < SumWidth
         /\ LargestSum(n) < Nibble * Scale
<1>1. Nibble \in Nat \ {0} /\ Largest \in Nat
  BY HeavyHashAssumption DEF Largest
<1>2. N \in Nat /\ N * Largest < SumWidth /\ N * Largest < Nibble * Scale
  BY HeavyHashAssumption DEF Largest
<1>3. n * Largest <= N * Largest /\ n * Largest \in Nat
  BY <1>1, <1>2
<1>4. LargestSum(n) = n * Largest
  BY DEF LargestSum, Largest
<1>5. Nibble * Scale \in Nat /\ SumWidth \in Nat
  BY HeavyHashAssumption
<1> QED
  BY <1>1, <1>2, <1>3, <1>4, <1>5

(* One more product is added to a sum without leaving its width.           *)
LEMMA AddProduct ==
  ASSUME NEW n \in 0..N, n < N,
         NEW sum \in 0..LargestSum(n), NEW a \in Nibbles, NEW b \in Nibbles
  PROVE  /\ (sum + a * b) % SumWidth = sum + a * b
         /\ sum + a * b \in 0..LargestSum(n + 1)
<1>1. N \in Nat /\ n + 1 \in 0..N
  BY HeavyHashAssumption
<1>2. /\ Largest \in Nat /\ LargestSum(n) = n * Largest
      /\ LargestSum(n) \in Nat
  BY SumsAreSmall
<1>3. /\ LargestSum(n + 1) = (n + 1) * Largest
      /\ LargestSum(n + 1) < SumWidth /\ LargestSum(n + 1) \in Nat
  BY <1>1, SumsAreSmall
<1>4. (n + 1) * Largest = n * Largest + Largest
  BY <1>1, <1>2
<1>5. a * b \in 0..Largest
  BY ProductOfNibbles
<1>6. sum + a * b \in 0..LargestSum(n + 1)
  <2> DEFINE p == a * b
             q == n * Largest
  <2>1. p \in 0..Largest /\ q \in Nat /\ sum \in 0..q /\ LargestSum(n + 1) = q + Largest
    BY <1>2, <1>3, <1>4, <1>5
  <2> HIDE DEF p, q
  <2>2. sum + p \in 0..LargestSum(n + 1)
    BY <1>2, <2>1
  <2> QED
    BY <2>2 DEF p
<1>7. SumWidth \in Nat \ {0}
  BY HeavyHashAssumption
<1>8. sum + a * b \in 0..SumWidth - 1
  BY <1>3, <1>6, <1>7
<1> DEFINE s == sum + a * b
<1> HIDE DEF s
<1>9. s \in 0..SumWidth - 1 => s % SumWidth = s
  BY <1>7, SmallMod
<1> QED
  BY <1>6, <1>8, <1>9 DEF s

(* A sum of N products is cut to a nibble.                                 *)
LEMMA CutIsNibble ==
  ASSUME NEW sum \in 0..LargestSum(N)
  PROVE  Cut(sum) \in Nibbles
<1>1. /\ N \in 0..N /\ Nibble \in Nat \ {0} /\ Scale \in Nat \ {0}
  BY HeavyHashAssumption
<1>2. LargestSum(N) \in Nat /\ LargestSum(N) < Nibble * Scale
  BY <1>1, SumsAreSmall
<1> DEFINE q == sum \div Scale
           r == sum % Scale
<1>3. sum \in Nat /\ sum < Nibble * Scale
  BY <1>1, <1>2
<1>4. sum = Scale * q + r /\ q \in Nat
  BY <1>1, <1>3, DivMod
<1>5. r \in 0..Scale - 1
  BY <1>1, <1>3, ModRange
<1> HIDE DEF q, r
<1>6. Scale * q < Nibble * Scale
  BY <1>1, <1>3, <1>4, <1>5
<1>7. ~(q >= Nibble)
  <2> SUFFICES ASSUME q >= Nibble PROVE FALSE
    OBVIOUS
  <2>1. Scale * q >= Scale * Nibble
    BY <1>1, <1>4
  <2>2. Scale * Nibble = Nibble * Scale /\ Scale * q \in Nat /\ Nibble * Scale \in Nat
    BY <1>1, <1>4
  <2> QED
    BY <1>6, <2>1, <2>2
<1>8. q \in 0..Nibble - 1
  BY <1>1, <1>4, <1>7
<1> QED
  BY <1>8 DEF q, Cut, Nibbles

(* The rows and the nibbles of byte b are within the matrix and the vector,*)
(* and all bytes cover all of them.                                        *)
LEMMA Halves ==
  /\ N \div 2 \in Nat /\ 2 * (N \div 2) = N
  /\ \A b \in Bytes : b \in Nat /\ 2 * b \in Indices /\ 2 * b + 1 \in Indices
  /\ \A b \in 0..N \div 2 : b \in Bytes <=> b # N \div 2
<1> DEFINE q == N \div 2
<1>1. N \in Nat \ {0} /\ N % 2 = 0
  BY HeavyHashAssumption
<1>2. N = 2 * q + (N % 2) /\ q \in Nat
  BY <1>1, DivMod
<1>3. N = 2 * q
  BY <1>1, <1>2
<1> HIDE DEF q
<1>4. \A b \in 0..q - 1 : b \in Nat /\ 2 * b \in 0..N - 1 /\ 2 * b + 1 \in 0..N - 1
  BY <1>2, <1>3
<1>5. \A b \in 0..q : b \in 0..q - 1 <=> b # q
  BY <1>2
<1> QED
  BY <1>2, <1>3, <1>4, <1>5 DEF q, Bytes, Indices

-----------------------------------------------------------------------------
LEMMA NoHashIsAHash == ZeroHash \in [Bytes -> Byte]
<1>1. 0 \in Nibbles
  BY HeavyHashAssumption DEF Nibbles
<1> QED
  BY <1>1 DEF ZeroHash, Byte

LEMMA InvariantInit == Init => HeavyHashInvariant
<1> SUFFICES ASSUME Init PROVE HeavyHashInvariant
  OBVIOUS
<1>1. N \in Nat /\ 0 \in 0..N /\ 0 \in 0..N \div 2
  BY HeavyHashAssumption, Halves
<1>2. LargestSum(0) \in Nat
  BY <1>1, SumsAreSmall
<1>3. hash \in [Bytes -> Byte]
  BY NoHashIsAHash DEF Init, Idle
<1>4. \A n \in Indices : ~(n < 2 * i)
  BY <1>1 DEF Init, Idle, Indices
<1> QED
  BY <1>1, <1>2, <1>3, <1>4 DEF Init, Idle, HeavyHashInvariant

LEMMA InvariantNext == HeavyHashInvariant /\ [Next]_vars => HeavyHashInvariant'
<1> SUFFICES ASSUME HeavyHashInvariant, [Next]_vars PROVE HeavyHashInvariant'
  OBVIOUS
<1> USE DEF HeavyHashInvariant
<1>0. N \in Nat /\ 0 \in 0..N /\ 0 \in 0..N \div 2 /\ N \div 2 \in Nat
  BY HeavyHashAssumption, Halves
<1>1. LargestSum(0) \in Nat
  BY <1>0, SumsAreSmall
<1>2. CASE SplitByte
  <2>1. /\ i \in Bytes /\ i \in Nat /\ i' = i + 1 /\ i' \in 0..N \div 2
        /\ 2 * i \in Indices /\ 2 * i + 1 \in Indices
    BY <1>0, <1>2, Halves DEF SplitByte, Bytes
  <2>2. hash[i].high \in Nibbles /\ hash[i].low \in Nibbles
    BY <2>1 DEF Byte
  <2>3. vec' \in [Indices -> Nibbles \cup {Uninit}]
    BY <1>2, <2>2 DEF SplitByte
  <2>4. ASSUME NEW n \in Indices, n < 2 * i'
        PROVE  vec'[n] \in Nibbles
    <3>1. n \in Nat /\ (n < 2 * i \/ n = 2 * i \/ n = 2 * i + 1)
      BY <1>0, <2>1, <2>4 DEF Indices
    <3> QED
      BY <1>2, <2>1, <2>2, <3>1 DEF SplitByte, Indices
  <2>5. /\ matrix' = matrix /\ hash' = hash /\ phase' = phase /\ phase' = "split"
        /\ j' = j /\ sum1' = sum1 /\ sum2' = sum2
    BY <1>2 DEF SplitByte
  <2>6. LargestSum(j') = LargestSum(j)
    BY <2>5
  <2>7. i' \notin Bytes => j' = 0
    BY <1>0, <1>2, <2>1, <2>5 DEF SplitByte, Bytes
  <2> QED
    BY <2>1, <2>3, <2>4, <2>5, <2>6, <2>7
<1>3. CASE EndSplit
  <2>1. i = N \div 2 /\ 2 * i = N
    BY <1>3, Halves DEF EndSplit
  <2>2. \A n \in Indices : vec[n] \in Nibbles
    BY <1>0, <1>3, <2>1 DEF EndSplit, Indices
  <2>3. j = 0
    BY <1>3 DEF EndSplit
  <2> QED
    BY <1>0, <1>3, <2>2, <2>3 DEF EndSplit
<1>4. CASE Multiply
  <2>1. i \in Bytes /\ 2 * i \in Indices /\ 2 * i + 1 \in Indices
    BY <1>4, Halves DEF Multiply
  <2>2. j \in 0..N /\ j < N /\ j \in Indices /\ j + 1 \in 0..N
    BY <1>0, <1>4 DEF Multiply, Indices
  <2>3. /\ vec[j] \in Nibbles
        /\ matrix[2 * i][j] \in Nibbles /\ matrix[2 * i + 1][j] \in Nibbles
    BY <1>4, <2>1, <2>2 DEF Multiply
  <2>4. sum1' \in 0..LargestSum(j') /\ sum2' \in 0..LargestSum(j')
    BY <1>4, <2>2, <2>3, AddProduct DEF Multiply
  <2> QED
    BY <1>4, <2>1, <2>2, <2>4 DEF Multiply
<1>5. CASE EndRow
  <2>1. i' \in 0..N \div 2
    BY <1>0, <1>5 DEF EndRow, Bytes
  <2>2. sum1' \in 0..LargestSum(j') /\ sum2' \in 0..LargestSum(j') /\ j' = 0
    BY <1>1, <1>5 DEF EndRow
  <2> QED
    BY <1>0, <1>5, <2>1, <2>2 DEF EndRow
<1>6. CASE EndMultiply
  BY <1>0, <1>6 DEF EndMultiply
<1>7. CASE XorByte
  <2>1. i' \in 0..N \div 2
    BY <1>0, <1>7 DEF XorByte, Bytes
  <2> QED
    BY <1>7, <2>1 DEF XorByte
<1>8. CASE Finish
  BY <1>8 DEF Finish
<1>9. CASE UNCHANGED vars
  BY <1>9 DEF vars, Idle
<1>10. ASSUME NEW h \in [Bytes -> Byte], Call(h)
       PROVE  HeavyHashInvariant'
  <2>1. \A n \in Indices : ~(n < 2 * i)
    BY <1>0, <1>10 DEF Call, Idle, Indices
  <2> QED
    BY <1>0, <1>1, <1>10, <2>1 DEF Call, Idle
<1>11. CASE Return
  <2>1. \A n \in Indices : ~(n < 2 * i')
    BY <1>0, <1>11 DEF Return, Indices
  <2>2. vec' \in [Indices -> Nibbles \cup {Uninit}]
    BY <1>11 DEF Return
  <2>3. Idle'
    BY <1>11 DEF Return, Idle
  <2> QED
    BY <1>0, <1>1, <1>11, <2>1, <2>2, <2>3, NoHashIsAHash DEF Return
<1> QED
  BY <1>2, <1>3, <1>4, <1>5, <1>6, <1>7, <1>8, <1>9, <1>10, <1>11 DEF Next

(* The invariant is what the properties rest on.                           *)
LEMMA InvariantSuffices == HeavyHashInvariant => VectorIsWritten /\ NibblesDoNotOverlap
<1>0. HeavyHashInvariant => VectorIsWritten
  BY DEF HeavyHashInvariant, VectorIsWritten
<1>1. HeavyHashInvariant => NibblesDoNotOverlap
  <2> SUFFICES ASSUME HeavyHashInvariant, phase = "multiply", j \notin Indices
               PROVE  Cut(sum1) \in Nibbles /\ Cut(sum2) \in Nibbles
    BY DEF NibblesDoNotOverlap
  <2>1. j = N
    BY HeavyHashAssumption DEF HeavyHashInvariant, Indices
  <2>2. sum1 \in 0..LargestSum(N) /\ sum2 \in 0..LargestSum(N)
    BY <2>1 DEF HeavyHashInvariant
  <2> QED
    BY <2>2, CutIsNibble
<1> QED
  BY <1>0, <1>1

LEMMA MultiplyingAdds ==
  HeavyHashInvariant /\ [Next]_vars
    => [phase = "multiply" /\ j \in Indices => sum1' >= sum1 /\ sum2' >= sum2]_vars
<1> SUFFICES ASSUME HeavyHashInvariant, Next, phase = "multiply", j \in Indices
             PROVE  sum1' >= sum1 /\ sum2' >= sum2
  OBVIOUS
<1> USE DEF HeavyHashInvariant
<1>0. N \in Nat /\ 0 \in Indices /\ LargestSum(j) \in Nat
  BY HeavyHashAssumption, SumsAreSmall DEF Indices
<1>1. CASE Multiply
  <2>1. 2 * i \in Indices /\ 2 * i + 1 \in Indices
    BY <1>1, Halves DEF Multiply
  <2>2. j \in 0..N /\ j < N
    BY <1>0 DEF Indices
  <2>3. /\ vec[j] \in Nibbles
        /\ matrix[2 * i][j] \in Nibbles /\ matrix[2 * i + 1][j] \in Nibbles
    BY <2>1
  <2>4. /\ sum1' = sum1 + matrix[2 * i][j] * vec[j]
        /\ sum2' = sum2 + matrix[2 * i + 1][j] * vec[j]
    BY <1>1, <2>2, <2>3, AddProduct DEF Multiply
  <2>5. /\ matrix[2 * i][j] * vec[j] \in Nat
        /\ matrix[2 * i + 1][j] * vec[j] \in Nat
    BY <2>3, ProductOfNibbles, SumsAreSmall, <1>0
  <2> QED
    BY <1>0, <2>4, <2>5
<1>2. CASE ~Multiply
  BY <1>0, <1>2 DEF Next, Call, Return, SplitByte, EndSplit, EndRow, EndMultiply, XorByte, Finish
<1> QED
  BY <1>1, <1>2

(* In every reachable state what the loops have done so far is known.      *)
THEOREM HeavyHashInvariantHolds == Spec => []HeavyHashInvariant
  BY InvariantInit, InvariantNext, PTL DEF Spec

(* The uninitialized array is read only after all of it has been written.  *)
THEOREM NothingUninitializedIsRead == Spec => []VectorIsWritten
BY InvariantSuffices, HeavyHashInvariantHolds, PTL

(* The 16 bits of a sum are enough for its products.                       *)
THEOREM SumsFit == Spec => SumsDoNotWrap
BY MultiplyingAdds, HeavyHashInvariantHolds, PTL DEF Spec, SumsDoNotWrap

(* The four bits of a half of a byte are enough for what a sum is cut to.  *)
THEOREM HalvesOfBytesAreNibbles == Spec => []NibblesDoNotOverlap
BY InvariantSuffices, HeavyHashInvariantHolds, PTL

-----------------------------------------------------------------------------
(* A row's sum of products grows by one product at a time.                 *)
LEMMA SumOfProductsGrows ==
  ASSUME NEW n
  PROVE  /\ SumOfProducts(n, 0) = 0
         /\ \A k \in Indices :
              SumOfProducts(n, k + 1) = SumOfProducts(n, k) + matrix[n][k] * NibbleOf(hash, k)
<1> DEFINE a == [k \in Indices |-> matrix[n][k] * NibbleOf(hash, k)]
           Is(f) == f = [k \in 0..N |->
                           IF k = 0 THEN 0 ELSE f[k - 1] + matrix[n][k - 1] * NibbleOf(hash, k - 1)]
           sum == CHOOSE f : Is(f)
<1>0. N \in Nat \ {0}
  BY HeavyHashAssumption
<1>1. \E f : Is(f)
  <2>1. PICK f : f = [k \in 0..N |-> IF k = 0 THEN 0 ELSE f[k - 1] + a[k - 1]]
    <3> HIDE DEF a
    <3> QED
      BY <1>0, SumsExist
  <2>2. \A k \in 0..N : k # 0 => a[k - 1] = matrix[n][k - 1] * NibbleOf(hash, k - 1)
    BY <1>0 DEF Indices
  <2>3. Is(f)
    BY <2>1, <2>2
  <2> QED
    BY <2>3
<1>2. Is(sum)
  BY <1>1
<1>3. \A m : SumOfProducts(n, m) = sum[m]
  BY DEF SumOfProducts
<1> HIDE DEF sum
<1>4. sum[0] = 0
  BY <1>0, <1>2
<1>5. \A k \in Indices : sum[k + 1] = sum[k] + matrix[n][k] * NibbleOf(hash, k)
  <2> SUFFICES ASSUME NEW k \in Indices
               PROVE  sum[k + 1] = sum[k] + matrix[n][k] * NibbleOf(hash, k)
    OBVIOUS
  <2>1. k + 1 \in 0..N /\ k + 1 # 0 /\ (k + 1) - 1 = k
    BY <1>0 DEF Indices
  <2> QED
    BY <1>2, <2>1
<1> QED
  BY <1>3, <1>4, <1>5

(* The nibbles of a byte of the hash.                                      *)
LEMMA NibblesOfByte ==
  ASSUME NEW bytes, NEW b \in Bytes
  PROVE  /\ NibbleOf(bytes, 2 * b) = bytes[b].high
         /\ NibbleOf(bytes, 2 * b + 1) = bytes[b].low
<1>1. b \in Nat
  BY Halves
<1>2. (2 * b) % 2 = 0 /\ (2 * b) \div 2 = b /\ (2 * b + 1) % 2 = 1 /\ (2 * b + 1) \div 2 = b
  BY <1>1
<1> QED
  BY <1>2 DEF NibbleOf

(* Every index is that of a byte's high nibble or of its low one.          *)
LEMMA NibbleOfSomeByte ==
  ASSUME NEW n \in Indices
  PROVE  \E b \in Bytes : n = 2 * b \/ n = 2 * b + 1
<1> DEFINE q == N \div 2
           b == n \div 2
<1>1. n \in Nat /\ n < 2 * q /\ q \in Nat
  BY Halves, HeavyHashAssumption DEF Indices
<1>2. n = 2 * b + (n % 2) /\ b \in Nat /\ n % 2 \in 0..1
  BY <1>1
<1> HIDE DEF q, b
<1>3. b \in 0..q-1 /\ (n = 2 * b \/ n = 2 * b + 1)
  BY <1>1, <1>2
<1> QED
  BY <1>3 DEF Bytes, q

(* The byte of the product that the rows of byte b make, and what it is    *)
(* after it is combined with the hash.                                     *)
RowsByte(b) == [high |-> Cut(RowProduct(2 * b)), low |-> Cut(RowProduct(2 * b + 1))]

CombinedByte(b) ==
  [high |-> Xor(Cut(RowProduct(2 * b)), hash[b].high),
   low |-> Xor(Cut(RowProduct(2 * b + 1)), hash[b].low)]

(* What of that is there already: the nibbles that are written, the sums   *)
(* of so many products, the bytes that are made.                           *)
ProductInvariant ==
  /\ product = [b \in Bytes |-> product[b]]
  /\ \A n \in Indices :
       phase \in {"multiply", "xor", "done"} \/ (phase = "split" /\ n < 2 * i)
         => vec[n] = NibbleOf(hash, n)
  /\ phase = "multiply" /\ i \in Bytes =>
       sum1 = SumOfProducts(2 * i, j) /\ sum2 = SumOfProducts(2 * i + 1, j)
  /\ phase = "multiply" => \A b \in Bytes : b < i => product[b] = RowsByte(b)
  /\ phase = "xor" =>
       \A b \in Bytes : product[b] = IF b < i THEN CombinedByte(b) ELSE RowsByte(b)
  /\ phase = "done" => \A b \in Bytes : product[b] = CombinedByte(b)

LEMMA SameRows ==
  ASSUME UNCHANGED <<matrix, hash>>
  PROVE  /\ \A n, m : SumOfProducts(n, m)' = SumOfProducts(n, m)
         /\ \A n : NibbleOf(hash, n)' = NibbleOf(hash, n)
         /\ \A b : RowsByte(b)' = RowsByte(b) /\ CombinedByte(b)' = CombinedByte(b)
<1>1. \A n, m : SumOfProducts(n, m)' = SumOfProducts(n, m)
  BY DEF SumOfProducts, NibbleOf
<1>2. \A n : RowProduct(n)' = RowProduct(n)
  BY <1>1 DEF RowProduct
<1>3. \A n : NibbleOf(hash, n)' = NibbleOf(hash, n)
  BY DEF NibbleOf
<1> QED
  BY <1>1, <1>2, <1>3 DEF RowsByte, CombinedByte

LEMMA ProductInit == Init => ProductInvariant
BY DEF Init, Idle, ProductInvariant, ZeroHash

LEMMA ProductSplit ==
  ASSUME HeavyHashInvariant, ProductInvariant, SplitByte
  PROVE  ProductInvariant'
<1>1. /\ phase = "split" /\ phase' = "split" /\ i \in Bytes /\ i' = i + 1 /\ i \in Nat
      /\ 2 * i \in Indices /\ 2 * i + 1 \in Indices
      /\ UNCHANGED <<matrix, hash, product>>
  BY Halves DEF SplitByte
<1>2. ASSUME NEW n \in Indices, n < 2 * i'
      PROVE  vec'[n] = NibbleOf(hash, n)
  <2>1. n \in Nat /\ (n < 2 * i \/ n = 2 * i \/ n = 2 * i + 1)
    BY <1>1, <1>2, HeavyHashAssumption DEF Indices
  <2>2. CASE n < 2 * i
    <3>1. n # 2 * i /\ n # 2 * i + 1 /\ vec[n] = NibbleOf(hash, n)
      BY <1>1, <2>1, <2>2 DEF ProductInvariant
    <3> QED
      BY <3>1 DEF SplitByte, HeavyHashInvariant
  <2>3. CASE n = 2 * i
    BY <1>1, <2>3, NibblesOfByte DEF SplitByte, HeavyHashInvariant
  <2>4. CASE n = 2 * i + 1
    BY <1>1, <2>4, NibblesOfByte DEF SplitByte, HeavyHashInvariant
  <2> QED
    BY <2>1, <2>2, <2>3, <2>4
<1>3. \A n : NibbleOf(hash, n)' = NibbleOf(hash, n)
  BY <1>1, SameRows
<1> QED
  BY <1>1, <1>2, <1>3 DEF ProductInvariant

LEMMA ProductEndSplit ==
  ASSUME HeavyHashInvariant, ProductInvariant, EndSplit
  PROVE  ProductInvariant'
<1>1. /\ phase = "split" /\ phase' = "multiply" /\ i = N \div 2 /\ 2 * i = N /\ i' = 0
      /\ UNCHANGED <<matrix, hash, j, vec, sum1, sum2, product>>
  BY Halves DEF EndSplit, HeavyHashInvariant
<1>2. \A n \in Indices : vec[n] = NibbleOf(hash, n)
  BY <1>1, HeavyHashAssumption DEF ProductInvariant, Indices
<1>3. sum1 = 0 /\ sum2 = 0 /\ j = 0
  <2>1. j = 0 /\ 0 \in 0..N
    BY <1>1, HeavyHashAssumption DEF HeavyHashInvariant, EndSplit
  <2>2. LargestSum(0) = 0
    BY <2>1, SumsAreSmall
  <2> QED
    BY <2>1, <2>2 DEF HeavyHashInvariant
<1>4. \A b \in Bytes : ~(b < 0)
  BY Halves
<1> QED
  BY <1>1, <1>2, <1>3, <1>4, SameRows, SumOfProductsGrows DEF ProductInvariant

LEMMA ProductMultiply ==
  ASSUME HeavyHashInvariant, ProductInvariant, Multiply
  PROVE  ProductInvariant'
<1>1. /\ phase = "multiply" /\ phase' = "multiply" /\ i \in Bytes /\ j \in Indices
      /\ 2 * i \in Indices /\ 2 * i + 1 \in Indices
      /\ j' = j + 1 /\ UNCHANGED <<matrix, hash, i, vec, product>>
  BY Halves DEF Multiply
<1>2. j \in 0..N /\ j < N
  BY <1>1, HeavyHashAssumption DEF Indices
<1>3. /\ vec[j] \in Nibbles /\ vec[j] = NibbleOf(hash, j)
      /\ matrix[2 * i][j] \in Nibbles /\ matrix[2 * i + 1][j] \in Nibbles
  BY <1>1 DEF HeavyHashInvariant, ProductInvariant
<1>4. sum1 = SumOfProducts(2 * i, j) /\ sum2 = SumOfProducts(2 * i + 1, j)
  BY <1>1 DEF ProductInvariant
<1>5. /\ sum1' = sum1 + matrix[2 * i][j] * vec[j]
      /\ sum2' = sum2 + matrix[2 * i + 1][j] * vec[j]
  BY <1>2, <1>3, AddProduct DEF Multiply, HeavyHashInvariant
<1>6. /\ sum1' = SumOfProducts(2 * i, j + 1)
      /\ sum2' = SumOfProducts(2 * i + 1, j + 1)
  BY <1>1, <1>3, <1>4, <1>5, SumOfProductsGrows
<1>7. /\ sum1' = SumOfProducts(2 * i, j)' /\ sum2' = SumOfProducts(2 * i + 1, j)'
      /\ \A n : NibbleOf(hash, n)' = NibbleOf(hash, n)
      /\ \A b : RowsByte(b)' = RowsByte(b)
  BY <1>1, <1>6, SameRows
<1> QED
  BY <1>1, <1>7 DEF ProductInvariant

LEMMA ProductEndRow ==
  ASSUME HeavyHashInvariant, ProductInvariant, EndRow
  PROVE  ProductInvariant'
<1>1. /\ phase = "multiply" /\ phase' = "multiply" /\ i \in Bytes /\ i \in Nat /\ j \notin Indices
      /\ i' = i + 1 /\ j' = 0 /\ sum1' = 0 /\ sum2' = 0
      /\ UNCHANGED <<matrix, hash, vec>>
  BY Halves DEF EndRow
<1>2. j = N
  BY <1>1, HeavyHashAssumption DEF HeavyHashInvariant, Indices
<1>3. [high |-> Cut(sum1), low |-> Cut(sum2)] = RowsByte(i)
  BY <1>1, <1>2 DEF ProductInvariant, RowsByte, RowProduct
<1>4. product' = [b \in Bytes |-> IF b = i THEN RowsByte(i) ELSE product[b]]
  BY <1>1, <1>3 DEF EndRow, ProductInvariant
<1>5. ASSUME NEW b \in Bytes, b < i' PROVE product'[b] = RowsByte(b)
  <2>1. b \in Nat /\ (b < i \/ b = i)
    BY <1>1, <1>5, Halves
  <2> QED
    BY <1>1, <1>4, <2>1 DEF ProductInvariant
<1>6. \A n : SumOfProducts(n, 0)' = 0
  BY <1>1, SameRows, SumOfProductsGrows
<1>7. /\ \A n : NibbleOf(hash, n)' = NibbleOf(hash, n)
      /\ \A b : RowsByte(b)' = RowsByte(b)
  BY <1>1, SameRows
<1>8. product' = [b \in Bytes |-> product'[b]]
  BY <1>4
<1> QED
  BY <1>1, <1>5, <1>6, <1>7, <1>8 DEF ProductInvariant

LEMMA ProductEndMultiply ==
  ASSUME HeavyHashInvariant, ProductInvariant, EndMultiply
  PROVE  ProductInvariant'
<1>1. /\ phase = "multiply" /\ phase' = "xor" /\ i \notin Bytes /\ i' = 0
      /\ UNCHANGED <<matrix, hash, vec, product>>
  BY DEF EndMultiply
<1>2. i = N \div 2
  BY <1>1, Halves DEF HeavyHashInvariant
<1>3. \A b \in Bytes : b < i /\ ~(b < 0)
  BY <1>2, Halves DEF Bytes
<1>4. \A b \in Bytes : product[b] = RowsByte(b)
  BY <1>1, <1>3 DEF ProductInvariant
<1> QED
  BY <1>1, <1>3, <1>4, SameRows DEF ProductInvariant

LEMMA ProductXor ==
  ASSUME HeavyHashInvariant, ProductInvariant, XorByte
  PROVE  ProductInvariant'
<1>1. /\ phase = "xor" /\ phase' = "xor" /\ i \in Bytes /\ i \in Nat /\ i' = i + 1
      /\ UNCHANGED <<matrix, hash, vec>>
  BY Halves DEF XorByte
<1>2. product[i] = RowsByte(i)
  BY <1>1 DEF ProductInvariant
<1>3. product' = [b \in Bytes |-> IF b = i THEN CombinedByte(i) ELSE product[b]]
  <2>1. product[i].high = Cut(RowProduct(2 * i)) /\ product[i].low = Cut(RowProduct(2 * i + 1))
    BY <1>2 DEF RowsByte
  <2>2. [high |-> Xor(product[i].high, hash[i].high), low |-> Xor(product[i].low, hash[i].low)]
          = CombinedByte(i)
    BY <2>1 DEF CombinedByte
  <2>3. product = [b \in Bytes |-> product[b]]
    BY DEF ProductInvariant
  <2>4. product' = [product EXCEPT ![i] = CombinedByte(i)]
    BY <2>2 DEF XorByte
  <2> QED
    BY <2>3, <2>4
<1>4. ASSUME NEW b \in Bytes
      PROVE  product'[b] = IF b < i' THEN CombinedByte(b) ELSE RowsByte(b)
  <2>1. b \in Nat /\ (b < i' <=> b < i \/ b = i) /\ ~(i < i)
    BY <1>1, Halves
  <2> QED
    BY <1>1, <1>3, <2>1 DEF ProductInvariant
<1>5. product' = [b \in Bytes |-> product'[b]]
  BY <1>3
<1> QED
  BY <1>1, <1>4, <1>5, SameRows DEF ProductInvariant

LEMMA ProductFinish ==
  ASSUME HeavyHashInvariant, ProductInvariant, Finish
  PROVE  ProductInvariant'
<1>1. /\ phase = "xor" /\ phase' = "done" /\ i \notin Bytes
      /\ UNCHANGED <<matrix, hash, vec, product>>
  BY DEF Finish
<1>2. i = N \div 2
  BY <1>1, Halves DEF HeavyHashInvariant
<1>3. \A b \in Bytes : b < i
  BY <1>2, Halves DEF Bytes
<1>4. \A b \in Bytes : product[b] = CombinedByte(b)
  BY <1>1, <1>3 DEF ProductInvariant
<1> QED
  BY <1>1, <1>4, SameRows DEF ProductInvariant

LEMMA ProductNext == HeavyHashInvariant /\ ProductInvariant /\ [Next]_vars => ProductInvariant'
<1> SUFFICES ASSUME HeavyHashInvariant, ProductInvariant, [Next]_vars
             PROVE  ProductInvariant'
  OBVIOUS
<1>1. ASSUME NEW h \in [Bytes -> Byte], Call(h) PROVE ProductInvariant'
  <2>1. phase' = "split" /\ i' = 0 /\ product' = ZeroHash
    BY <1>1 DEF Call, HeavyHashInvariant, Idle
  <2>2. \A n \in Indices : ~(n < 2 * 0)
    BY HeavyHashAssumption DEF Indices
  <2> QED
    BY <2>1, <2>2 DEF ProductInvariant, ZeroHash
<1>2. CASE Return
  BY <1>2 DEF Return, ProductInvariant, ZeroHash
<1>3. CASE UNCHANGED vars
  BY <1>3, SameRows DEF vars, ProductInvariant
<1> QED
  BY <1>1, <1>2, <1>3, ProductSplit, ProductEndSplit, ProductMultiply, ProductEndRow,
     ProductEndMultiply, ProductXor, ProductFinish DEF Next

LEMMA ProductInvariantHolds == Spec => []ProductInvariant
BY ProductInit, ProductNext, HeavyHashInvariantHolds, PTL DEF Spec

LEMMA ProductSuffices == ProductInvariant => ProductIsCorrect
<1> SUFFICES ASSUME ProductInvariant, phase = "done", NEW n \in Indices
             PROVE  NibbleOf(product, n) = Xor(RowProduct(n) \div Scale, NibbleOf(hash, n))
  BY DEF ProductIsCorrect
<1>1. PICK b \in Bytes : n = 2 * b \/ n = 2 * b + 1
  BY NibbleOfSomeByte
<1>2. product[b] = CombinedByte(b)
  BY DEF ProductInvariant
<1>3. CASE n = 2 * b
  BY <1>2, <1>3, NibblesOfByte DEF CombinedByte, Cut
<1>4. CASE n = 2 * b + 1
  BY <1>2, <1>4, NibblesOfByte DEF CombinedByte, Cut
<1> QED
  BY <1>1, <1>3, <1>4

(* What heavy_hash hands to the last Keccak is, nibble by nibble, the      *)
(* product of the matrix with the hash, scaled down, xor the hash: in      *)
(* sixteen bits, with two rows at a time, and through the reused bytes.    *)
THEOREM HashIsMatrixProduct == Spec => []ProductIsCorrect
BY ProductSuffices, ProductInvariantHolds, PTL

-----------------------------------------------------------------------------
(* The greatest common divisor, by which fractions are reduced.            *)

(* Euclid's algorithm has a result: a function on the pairs whose second   *)
(* number is at most n is extended to n + 1.                               *)
EuclidUpTo(f, n) ==
  \A a \in Nat : \A b \in 0..n :
    f[<<a, b>>] = IF b = 0 THEN a ELSE f[<<b, a % b>>]

LEMMA EuclidExtends ==
  ASSUME NEW n \in Nat
  PROVE  \E f : EuclidUpTo(f, n)
<1> DEFINE S == {k \in Nat : \E f : EuclidUpTo(f, k)}
<1>1. 0 \in S
  <2> DEFINE f == [p \in Nat \X {0} |-> p[1]]
  <2>1. EuclidUpTo(f, 0)
    BY DEF EuclidUpTo
  <2> QED
    BY <2>1
<1>2. ASSUME NEW k \in Nat, k \in S PROVE k + 1 \in S
  <2>1. PICK f : EuclidUpTo(f, k)
    BY <1>2
  <2> DEFINE m == k + 1
             g == [p \in Nat \X (0..m) |-> IF p[2] = m THEN f[<<m, p[1] % m>>] ELSE f[p]]
  <2>2. m \in Nat \ {0} /\ 0..k \subseteq 0..m
    OBVIOUS
  <2>3. ASSUME NEW a \in Nat, NEW b \in 0..k PROVE g[<<a, b>>] = f[<<a, b>>]
    <3>1. <<a, b>> \in Nat \X (0..m) /\ b # m
      BY <2>2
    <3> QED
      BY <3>1
  <2>4. ASSUME NEW a \in Nat PROVE g[<<a, m>>] = f[<<m, a % m>>]
    <3>1. <<a, m>> \in Nat \X (0..m)
      BY <2>2
    <3> QED
      BY <3>1
  <2>5. ASSUME NEW a \in Nat, NEW b \in 0..m, b # 0 PROVE b \in Nat /\ a % b \in 0..k
    <3>1. b \in Nat \ {0} /\ b - 1 <= k
      BY <2>5
    <3>2. a % b \in 0..b-1
      BY <3>1, Divided
    <3> QED
      BY <3>1, <3>2
  <2>6. 0 \in 0..k /\ \A b \in 0..m : b # m => b \in 0..k
    OBVIOUS
  <2> HIDE DEF g
  <2>7. ASSUME NEW a \in Nat, NEW b \in 0..m
        PROVE  g[<<a, b>>] = IF b = 0 THEN a ELSE g[<<b, a % b>>]
    <3>1. CASE b = 0
      <4>1. g[<<a, 0>>] = f[<<a, 0>>] /\ f[<<a, 0>>] = a
        BY <2>1, <2>3, <2>6 DEF EuclidUpTo
      <4> QED
        BY <3>1, <4>1
    <3>2. CASE b # 0 /\ b # m
      <4>1. b \in 0..k /\ b \in Nat /\ a % b \in 0..k
        BY <2>5, <2>6, <3>2
      <4>2. g[<<a, b>>] = f[<<a, b>>] /\ g[<<b, a % b>>] = f[<<b, a % b>>]
        BY <2>3, <4>1
      <4>3. f[<<a, b>>] = f[<<b, a % b>>]
        BY <2>1, <3>2, <4>1 DEF EuclidUpTo
      <4> QED
        BY <3>2, <4>2, <4>3
    <3>3. CASE b = m
      <4>1. b # 0 /\ a % b \in 0..k /\ b \in Nat
        BY <2>2, <2>5, <3>3
      <4>2. g[<<a, b>>] = f[<<b, a % b>>] /\ g[<<b, a % b>>] = f[<<b, a % b>>]
        BY <2>3, <2>4, <3>3, <4>1
      <4> QED
        BY <4>1, <4>2
    <3> QED
      BY <3>1, <3>2, <3>3
  <2>8. EuclidUpTo(g, m)
    BY <2>7 DEF EuclidUpTo
  <2> QED
    BY <2>8
<1> HIDE DEF S
<1>3. n \in S
  BY <1>1, <1>2, SetInduction
<1> QED
  BY <1>3 DEF S

(* And there is one result.                                                *)
LEMMA EuclidAgrees ==
  ASSUME NEW n \in Nat, NEW f, EuclidUpTo(f, n), NEW m \in Nat, NEW g, EuclidUpTo(g, m),
         NEW a \in Nat, NEW b \in Nat, b <= n, b <= m
  PROVE  f[<<a, b>>] = g[<<a, b>>]
<1> DEFINE Agree(k) == \A c \in Nat : \A d \in 0..k : f[<<c, d>>] = g[<<c, d>>]
           S == {k \in Nat : k <= n /\ k <= m => Agree(k)}
<1>1. 0 \in S
  <2>1. ASSUME NEW c \in Nat PROVE f[<<c, 0>>] = g[<<c, 0>>]
    <3>1. 0 \in 0..n /\ 0 \in 0..m
      OBVIOUS
    <3> QED
      BY <3>1 DEF EuclidUpTo
  <2>2. \A d \in 0..0 : d = 0
    OBVIOUS
  <2>3. Agree(0)
    BY <2>1, <2>2
  <2> HIDE DEF Agree
  <2> QED
    BY <2>3
<1>2. ASSUME NEW k \in Nat, k \in S PROVE k + 1 \in S
  <2> SUFFICES ASSUME k + 1 <= n, k + 1 <= m PROVE Agree(k + 1)
    OBVIOUS
  <2> SUFFICES ASSUME NEW c \in Nat, NEW d \in 0..k+1 PROVE f[<<c, d>>] = g[<<c, d>>]
    OBVIOUS
  <2>1. \A x \in Nat : \A y \in 0..k : f[<<x, y>>] = g[<<x, y>>]
    <3>1. k <= n /\ k <= m
      OBVIOUS
    <3> HIDE DEF Agree
    <3>2. Agree(k)
      BY <1>2, <3>1
    <3> QED
      BY <3>2 DEF Agree
  <2>2. CASE d \in 0..k
    BY <2>1, <2>2
  <2>3. CASE d = k + 1
    <3>1. d \in Nat \ {0} /\ d \in 0..n /\ d \in 0..m /\ d # 0 /\ d - 1 = k
      BY <2>3
    <3>2. c % d \in 0..k
      BY <3>1, Divided
    <3>3. f[<<c, d>>] = f[<<d, c % d>>] /\ g[<<c, d>>] = g[<<d, c % d>>]
      BY <3>1 DEF EuclidUpTo
    <3> QED
      BY <2>1, <3>1, <3>2, <3>3
  <2> QED
    BY <2>2, <2>3
<1> HIDE DEF S
<1>3. b \in S
  BY <1>1, <1>2, SetInduction
<1> QED
  BY <1>3 DEF S

(* The recursion of Gcd, which is over all pairs, defines a function.      *)
LEMMA GcdIs ==
  \A a, b \in Nat :
    Matrix!Gcd[<<a, b>>] = IF b = 0 THEN a ELSE Matrix!Gcd[<<b, a % b>>]
<1> DEFINE IsGcd(f) ==
             f = [p \in Nat \X Nat |-> IF p[2] = 0 THEN p[1] ELSE f[<<p[2], p[1] % p[2]>>]]
           F(n) == CHOOSE f : EuclidUpTo(f, n)
           g == [p \in Nat \X Nat |-> F(p[2])[p]]
<1>1. ASSUME NEW n \in Nat PROVE EuclidUpTo(F(n), n)
  BY EuclidExtends
<1> HIDE DEF F
<1>2. ASSUME NEW a \in Nat, NEW b \in Nat
      PROVE  g[<<a, b>>] = IF b = 0 THEN a ELSE g[<<b, a % b>>]
  <2>1. g[<<a, b>>] = F(b)[<<a, b>>]
    OBVIOUS
  <2>2. CASE b = 0
    <3>1. EuclidUpTo(F(b), b) /\ b \in 0..b
      BY <1>1
    <3>2. F(b)[<<a, b>>] = a
      BY <2>2, <3>1 DEF EuclidUpTo
    <3> QED
      BY <2>1, <2>2, <3>2
  <2>3. CASE b # 0
    <3> DEFINE r == a % b
    <3>1. r \in Nat /\ r <= b /\ r <= r /\ b \in 0..b
      BY <2>3, Divided
    <3>2. F(b)[<<a, b>>] = F(b)[<<b, r>>]
      BY <1>1, <2>3, <3>1 DEF EuclidUpTo
    <3> HIDE DEF r
    <3>3. g[<<b, r>>] = F(r)[<<b, r>>]
      BY <3>1
    <3>4. F(b)[<<b, r>>] = F(r)[<<b, r>>]
      BY <1>1, <3>1, EuclidAgrees
    <3>5. g[<<a, b>>] = g[<<b, r>>]
      BY <2>1, <3>2, <3>3, <3>4
    <3> QED
      BY <2>3, <3>5 DEF r
  <2> QED
    BY <2>2, <2>3
<1>3. g = [p \in Nat \X Nat |-> IF p[2] = 0 THEN p[1] ELSE g[<<p[2], p[1] % p[2]>>]]
  <2>1. ASSUME NEW p \in Nat \X Nat
        PROVE  g[p] = IF p[2] = 0 THEN p[1] ELSE g[<<p[2], p[1] % p[2]>>]
    <3>1. p = <<p[1], p[2]>> /\ p[1] \in Nat /\ p[2] \in Nat
      OBVIOUS
    <3> HIDE DEF g
    <3> QED
      BY <1>2, <3>1
  <2>2. g = [p \in Nat \X Nat |-> g[p]]
    OBVIOUS
  <2> HIDE DEF g
  <2> QED
    BY <2>1, <2>2
<1> HIDE DEF g
<1>4. IsGcd(Matrix!Gcd)
  <2>1. \E f : IsGcd(f)
    BY <1>3
  <2> QED
    BY <2>1, Zenon DEF Matrix!Gcd
<1>5. ASSUME NEW a \in Nat, NEW b \in Nat
      PROVE  Matrix!Gcd[<<a, b>>] = IF b = 0 THEN a ELSE Matrix!Gcd[<<b, a % b>>]
  <2> DEFINE f == Matrix!Gcd
  <2>1. f = [p \in Nat \X Nat |-> IF p[2] = 0 THEN p[1] ELSE f[<<p[2], p[1] % p[2]>>]]
    BY <1>4
  <2> HIDE DEF f
  <2>2. f[<<a, b>>] = IF b = 0 THEN a ELSE f[<<b, a % b>>]
    BY <2>1
  <2> QED
    BY <2>2 DEF f
<1> QED
  BY <1>5

Divides(d, n) == \E a \in Int : n = a * d

(* What divides the second number and the remainder divides both numbers.  *)
LEMMA DividesBoth ==
  ASSUME NEW m \in Nat, NEW n \in Nat \ {0}, NEW d \in Nat \ {0},
         Divides(d, n), Divides(d, m % n)
  PROVE  Divides(d, m)
<1>1. PICK a \in Int : n = a * d
  BY DEF Divides
<1>2. PICK b \in Int : m % n = b * d
  BY DEF Divides
<1> DEFINE q == m \div n
<1>3. m = n * q + (m % n) /\ q \in Nat
  BY Divided
<1> HIDE DEF q
<1>4. m = (a * d) * q + b * d
  BY <1>1, <1>2, <1>3
<1>5. (a * d) * q + b * d = (a * q + b) * d /\ a * q + b \in Int
  BY <1>1, <1>2, <1>3
<1> QED
  BY <1>4, <1>5 DEF Divides

(* What Gcd computes divides both numbers, and is not zero.                *)
LEMMA GcdDivides ==
  ASSUME NEW m \in Nat, NEW n \in Nat, m # 0 \/ n # 0
  PROVE  LET g == Matrix!Gcd[<<m, n>>]
         IN  g \in Nat \ {0} /\ Divides(g, m) /\ Divides(g, n)
<1> DEFINE G(a, b) == Matrix!Gcd[<<a, b>>]
           Good(a, b) ==
             a # 0 \/ b # 0 => G(a, b) \in Nat \ {0} /\ Divides(G(a, b), a) /\ Divides(G(a, b), b)
           P(k) == \A a \in Nat : \A b \in 0..k : Good(a, b)
           S == {k \in Nat : P(k)}
<1>0. \A a, b \in Nat : G(a, b) = IF b = 0 THEN a ELSE G(b, a % b)
  BY GcdIs
<1> HIDE DEF G
<1>1. ASSUME NEW a \in Nat PROVE Good(a, 0)
  <2>1. G(a, 0) = a
    BY <1>0
  <2>2. a = 1 * a /\ 0 = 0 * a
    OBVIOUS
  <2>3. Divides(a, a) /\ Divides(a, 0)
    BY <2>2 DEF Divides
  <2> QED
    BY <2>1, <2>3
<1>2. ASSUME NEW a \in Nat, NEW b \in Nat \ {0}, Good(b, a % b) PROVE Good(a, b)
  <2>1. G(a, b) = G(b, a % b)
    BY <1>0
  <2>2. G(b, a % b) \in Nat \ {0} /\ Divides(G(b, a % b), b) /\ Divides(G(b, a % b), a % b)
    BY <1>2
  <2>3. Divides(G(b, a % b), a)
    BY <2>2, DividesBoth
  <2> QED
    BY <2>1, <2>2, <2>3
<1> HIDE DEF Good
<1>3. 0 \in S
  <2>1. \A b \in 0..0 : b = 0
    OBVIOUS
  <2>2. P(0)
    BY <1>1, <2>1
  <2> HIDE DEF P
  <2> QED
    BY <2>2
<1>4. ASSUME NEW k \in Nat, k \in S PROVE k + 1 \in S
  <2>1. P(k)
    BY <1>4
  <2>2. ASSUME NEW a \in Nat, NEW b \in 0..k+1 PROVE Good(a, b)
    <3>1. CASE b = 0
      BY <1>1, <3>1
    <3>2. CASE b # 0
      <4>1. b \in Nat \ {0} /\ b - 1 <= k
        BY <3>2
      <4>2. a % b \in 0..b-1
        BY <4>1, Divided
      <4>3. a % b \in 0..k
        BY <4>1, <4>2
      <4>4. Good(b, a % b)
        BY <2>1, <4>1, <4>3
      <4> QED
        BY <1>2, <4>1, <4>4
    <3> QED
      BY <3>1, <3>2
  <2>3. P(k + 1)
    BY <2>2
  <2> HIDE DEF P
  <2> QED
    BY <2>3
<1> HIDE DEF S
<1>5. n \in S
  BY <1>3, <1>4, SetInduction
<1>6. P(n)
  BY <1>5 DEF S
<1>7. Good(m, n)
  BY <1>6
<1> QED
  BY <1>7 DEF Good, G

-----------------------------------------------------------------------------
(* A fraction, and that it is a number a / d.                              *)
Fractions == [num : Int, den : Int \ {0}]

IsRatio(x, a, d) == x.num * d = a * x.den

(* Nothing of a multiple remains, whatever its sign.                       *)
LEMMA DividedExactly ==
  ASSUME NEW n \in Int, NEW d \in Nat \ {0}, Divides(d, n)
  PROVE  n \div d \in Int /\ n = (n \div d) * d
<1>1. PICK a \in Int : n = a * d
  BY DEF Divides
<1> DEFINE q == n \div d
           r == n % d
<1>2. q \in Int /\ r \in 0..d-1 /\ n = d * q + r
  OBVIOUS
<1>3. n = d * a + 0
  BY <1>1
<1> HIDE DEF q, r
<1>4. q = a
  BY <1>2, <1>3, DivModUnique
<1> QED
  BY <1>1, <1>4 DEF q

(* What divides the magnitude of a number divides the number.              *)
LEMMA DividesMagnitude ==
  ASSUME NEW n \in Int, NEW d \in Nat \ {0}, Divides(d, Matrix!Magnitude(n))
  PROVE  Divides(d, n)
<1>1. PICK a \in Int : Matrix!Magnitude(n) = a * d
  BY DEF Divides
<1>2. n = a * d \/ n = (-a) * d
  BY <1>1 DEF Matrix!Magnitude
<1>3. a \in Int /\ -a \in Int
  OBVIOUS
<1> QED
  BY <1>2, <1>3 DEF Divides

(* Reducing a fraction leaves it the number that it is.                    *)
LEMMA ReducedIsFraction ==
  ASSUME NEW n \in Int, NEW d \in Int \ {0}
  PROVE  /\ Matrix!Reduced(n, d) \in Fractions
         /\ \A a, b \in Int : n * b = a * d => IsRatio(Matrix!Reduced(n, d), a, b)
<1> DEFINE M == Matrix!Magnitude(n)
           K == Matrix!Magnitude(d)
           g == Matrix!Gcd[<<M, K>>]
           x == n \div g
           y == d \div g
           z == Matrix!Reduced(n, d)
<1>1. M \in Nat /\ K \in Nat \ {0}
  BY DEF Matrix!Magnitude
<1>2. g \in Nat \ {0} /\ Divides(g, M) /\ Divides(g, K)
  BY <1>1, GcdDivides
<1>3. Divides(g, n) /\ Divides(g, d)
  BY <1>2, DividesMagnitude
<1>4. z = [num |-> x, den |-> y]
  BY DEF Matrix!Reduced
<1> HIDE DEF g, z
<1>5. x \in Int /\ n = x * g /\ y \in Int /\ d = y * g
  BY <1>2, <1>3, DividedExactly
<1> HIDE DEF x, y
<1>6. y # 0
  BY <1>2, <1>5
<1>7. z \in Fractions /\ z.num = x /\ z.den = y
  BY <1>4, <1>5, <1>6 DEF Fractions
<1>8. ASSUME NEW a \in Int, NEW b \in Int, n * b = a * d
      PROVE  x * b = a * y
  <2>1. g * (x * b - a * y) = n * b - a * d
    BY <1>2, <1>5
  <2>2. g * (x * b - a * y) = 0
    <3>1. n * b \in Int /\ a * d \in Int
      BY <1>8
    <3> QED
      BY <1>8, <2>1, <3>1
  <2> DEFINE t == x * b - a * y
  <2>3. t \in Int /\ x * b \in Int /\ a * y \in Int
    BY <1>5
  <2>4. t = 0
    <3> HIDE DEF t
    <3>1. g * t = 0
      BY <2>2 DEF t
    <3> QED
      BY <1>2, <2>3, <3>1
  <2> QED
    BY <2>3, <2>4
<1> QED
  BY <1>7, <1>8 DEF IsRatio, z

(* A fraction is zero if the number is.                                    *)
LEMMA ZeroRatio ==
  ASSUME NEW x \in Fractions, NEW a \in Int, NEW d \in Int \ {0}, IsRatio(x, a, d)
  PROVE  Matrix!IsZero(x) <=> a = 0
<1> DEFINE n == x.num
           e == x.den
<1>1. n \in Int /\ e \in Int \ {0} /\ n * d = a * e
  BY DEF Fractions, IsRatio
<1> HIDE DEF n, e
<1>2. n = 0 <=> a = 0
  BY <1>1
<1> QED
  BY <1>2 DEF Matrix!IsZero, n

(* A number can be written with larger numbers.                            *)
LEMMA ScaledRatio ==
  ASSUME NEW x \in Fractions, NEW a \in Int, NEW d \in Int, NEW k \in Int, IsRatio(x, a, d)
  PROVE  IsRatio(x, a * k, d * k)
<1> DEFINE n == x.num
           e == x.den
<1>1. n \in Int /\ e \in Int /\ n * d = a * e
  BY DEF Fractions, IsRatio
<1> HIDE DEF n, e
<1>2. n * (d * k) = (n * d) * k /\ (a * e) * k = (a * k) * e
  BY <1>1
<1>3. n * (d * k) = (a * k) * e
  BY <1>1, <1>2
<1> QED
  BY <1>3 DEF IsRatio, n, e

(* A fraction by another, both over the same d.                            *)
LEMMA DividedRatios ==
  ASSUME NEW x \in Fractions, NEW y \in Fractions,
         NEW a \in Int, NEW b \in Int, NEW d \in Int \ {0},
         IsRatio(x, a, d), IsRatio(y, b, d), b # 0
  PROVE  Matrix!Divide(x, y) \in Fractions /\ IsRatio(Matrix!Divide(x, y), a, b)
<1> DEFINE n == x.num
           e == x.den
           m == y.num
           f == y.den
<1>1. /\ n \in Int /\ e \in Int \ {0} /\ n * d = a * e
      /\ m \in Int /\ f \in Int \ {0} /\ m * d = b * f
  BY DEF Fractions, IsRatio
<1>2. Matrix!Divide(x, y) = Matrix!Reduced(n * f, e * m)
  BY DEF Matrix!Divide
<1> HIDE DEF n, e, m, f
<1>3. m # 0
  BY <1>1
<1>4. n * f \in Int /\ e * m \in Int \ {0}
  BY <1>1, <1>3
<1>5. (n * f) * b = a * (e * m)
  <2>1. (n * f) * b = n * (b * f) /\ n * (m * d) = (n * d) * m /\ (a * e) * m = a * (e * m)
    BY <1>1
  <2>2. n * (b * f) = n * (m * d) /\ (n * d) * m = (a * e) * m
    BY <1>1
  <2> QED
    BY <2>1, <2>2
<1> QED
  BY <1>2, <1>4, <1>5, ReducedIsFraction

(* Common denominators: the numerators over them.                          *)
LEMMA DifferenceOfProducts ==
  ASSUME NEW n \in Int, NEW e \in Int, NEW m \in Int, NEW f \in Int, NEW k \in Int, NEW h \in Int,
         NEW a \in Int, NEW p \in Int, NEW b \in Int, NEW c \in Int, NEW d \in Int,
         n * d = a * e, m * b = p * f, k * d = c * h
  PROVE  (n * f * h - m * k * e) * (d * b) = (a * b - p * c) * (e * f * h)
<1> DEFINE u == f * h * b
           v == e * d
<1>1. (n * f * h) * (d * b) = (n * d) * (f * h * b) /\ f * h * b \in Int
  OBVIOUS
<1>2. (n * d) * (f * h * b) = (a * e) * (f * h * b)
  BY <1>1
<1>3. (m * k * e) * (d * b) = ((m * b) * (k * d)) * e
  OBVIOUS
<1>4. ((m * b) * (k * d)) * e = ((p * f) * (c * h)) * e
  OBVIOUS
<1>5. (n * f * h - m * k * e) * (d * b) = (n * f * h) * (d * b) - (m * k * e) * (d * b)
  OBVIOUS
<1>6. (a * b - p * c) * (e * f * h) = (a * e) * (f * h * b) - ((p * f) * (c * h)) * e
  OBVIOUS
<1> QED
  BY <1>1, <1>2, <1>3, <1>4, <1>5, <1>6

(* Taking a multiple of a fraction off another.                            *)
LEMMA RatioLessProduct ==
  ASSUME NEW x \in Fractions, NEW y \in Fractions, NEW z \in Fractions,
         NEW a \in Int, NEW p \in Int, NEW b \in Int \ {0}, NEW c \in Int, NEW d \in Int \ {0},
         IsRatio(x, a, d), IsRatio(y, p, b), IsRatio(z, c, d)
  PROVE  /\ Matrix!MinusProduct(x, y, z) \in Fractions
         /\ IsRatio(Matrix!MinusProduct(x, y, z), a * b - p * c, d * b)
<1> DEFINE n == x.num
           e == x.den
           m == y.num
           f == y.den
           k == z.num
           h == z.den
           top == n * f * h - m * k * e
           bottom == e * f * h
           q == a * b - p * c
           r == d * b
<1>1. /\ n \in Int /\ e \in Int \ {0} /\ n * d = a * e
      /\ m \in Int /\ f \in Int \ {0} /\ m * b = p * f
      /\ k \in Int /\ h \in Int \ {0} /\ k * d = c * h
  BY DEF Fractions, IsRatio
<1>2. Matrix!MinusProduct(x, y, z) = Matrix!Reduced(top, bottom)
  BY DEF Matrix!MinusProduct
<1> HIDE DEF n, e, m, f, k, h
<1>3. top * r = q * bottom
  BY <1>1, DifferenceOfProducts
<1>4. top \in Int /\ q \in Int /\ r \in Int
  BY <1>1
<1>5. bottom \in Int \ {0}
  <2>1. e * f \in Int \ {0}
    BY <1>1
  <2> QED
    BY <1>1, <2>1
<1> HIDE DEF top, bottom
<1> QED
  BY <1>2, <1>3, <1>4, <1>5, ReducedIsFraction

-----------------------------------------------------------------------------
(* Rows, vectors and their products.                                       *)

(* The product of a row with a vector, from column c on.                   *)
Vectors == [Indices -> Int]

ProductFrom(row, v, c) ==
  LET sum[n \in 0..N] == IF n = 0 THEN 0 ELSE sum[n - 1] + row[N - n] * v[N - n]
  IN  sum[N - c]

(* A product has nothing after the last column, and one term more with     *)
(* every column to the left.                                               *)
LEMMA ProductGrows ==
  ASSUME NEW row, NEW v
  PROVE  /\ ProductFrom(row, v, N) = 0
         /\ \A c \in Indices : ProductFrom(row, v, c) = ProductFrom(row, v, c + 1) + row[c] * v[c]
<1> DEFINE Is(f) == f = [n \in 0..N |->
                           IF n = 0 THEN 0 ELSE f[n - 1] + row[N - n] * v[N - n]]
           sum == CHOOSE f : Is(f)
<1>0. N \in Nat \ {0}
  BY HeavyHashAssumption
<1>1. \E f : Is(f)
  <2> DEFINE a == [k \in Indices |-> row[N - (k + 1)] * v[N - (k + 1)]]
  <2>1. PICK f : f = [k \in 0..N |-> IF k = 0 THEN 0 ELSE f[k - 1] + a[k - 1]]
    <3> HIDE DEF a
    <3> QED
      BY <1>0, SumsExist
  <2>2. \A k \in 0..N : k # 0 => a[k - 1] = row[N - k] * v[N - k]
    <3> SUFFICES ASSUME NEW k \in 0..N, k # 0 PROVE a[k - 1] = row[N - k] * v[N - k]
      OBVIOUS
    <3>1. k - 1 \in Indices /\ (k - 1) + 1 = k
      BY <1>0 DEF Indices
    <3> QED
      BY <3>1
  <2>3. Is(f)
    BY <2>1, <2>2
  <2> QED
    BY <2>3
<1>2. Is(sum)
  BY <1>1
<1>3. \A c : ProductFrom(row, v, c) = sum[N - c]
  BY DEF ProductFrom
<1> HIDE DEF sum
<1>4. sum[N - N] = 0
  <2>1. N - N = 0 /\ 0 \in 0..N
    BY <1>0
  <2> QED
    BY <1>2, <2>1
<1>5. ASSUME NEW c \in Indices
      PROVE  sum[N - c] = sum[N - (c + 1)] + row[c] * v[c]
  <2> DEFINE n == N - c
  <2>1. n \in 0..N /\ n # 0 /\ n - 1 = N - (c + 1) /\ N - n = c
    BY <1>0 DEF Indices
  <2> HIDE DEF n
  <2>2. sum[n] = sum[n - 1] + row[N - n] * v[N - n]
    BY <1>2, <2>1
  <2> QED
    BY <2>1, <2>2 DEF n
<1> QED
  BY <1>3, <1>4, <1>5

(* Induction from the last column to the first.                            *)
LEMMA FromTheLast ==
  ASSUME NEW S, N \in S, \A c \in Indices : c + 1 \in S => c \in S
  PROVE  0..N \subseteq S
<1> DEFINE T == {n \in Nat : n <= N => N - n \in S}
<1>0. N \in Nat
  BY HeavyHashAssumption
<1>1. 0 \in T
  BY <1>0
<1>2. ASSUME NEW n \in Nat, n \in T PROVE n + 1 \in T
  <2> SUFFICES ASSUME n + 1 <= N PROVE N - (n + 1) \in S
    BY <1>2
  <2> DEFINE c == N - (n + 1)
  <2>1. c \in Indices /\ c + 1 = N - n /\ n <= N
    BY <1>0 DEF Indices
  <2>2. N - n \in S
    BY <1>2, <2>1
  <2> QED
    BY <2>1, <2>2
<1> HIDE DEF T
<1>3. Nat \subseteq T
  BY <1>1, <1>2, SetInduction
<1>4. ASSUME NEW c \in 0..N PROVE c \in S
  <2>1. N - c \in Nat /\ N - c <= N /\ N - (N - c) = c
    BY <1>0
  <2> QED
    BY <1>3, <2>1 DEF T
<1> QED
  BY <1>4

LEMMA ProductIsInt ==
  ASSUME NEW row \in Vectors, NEW v \in Vectors, NEW c \in 0..N
  PROVE  ProductFrom(row, v, c) \in Int
<1> DEFINE S == {k \in 0..N : ProductFrom(row, v, k) \in Int}
<1>1. N \in S
  BY ProductGrows, HeavyHashAssumption
<1>2. ASSUME NEW k \in Indices, k + 1 \in S PROVE k \in S
  <2>1. k \in 0..N
    BY HeavyHashAssumption DEF Indices
  <2>2. ProductFrom(row, v, k) = ProductFrom(row, v, k + 1) + row[k] * v[k]
    BY ProductGrows
  <2>3. row[k] \in Int /\ v[k] \in Int
    BY DEF Vectors
  <2>4. row[k] * v[k] \in Int
    BY <2>3
  <2> QED
    BY <1>2, <2>1, <2>2, <2>4
<1> HIDE DEF S
<1>3. c \in S
  BY <1>1, <1>2, FromTheLast
<1> QED
  BY <1>3 DEF S

(* A row is made of two others.                                            *)
IsCombination(row, x, b, z, e) == \A k \in Indices : row[k] = x[k] * b - z[k] * e

ProductsCombine(row, x, b, z, e, v, c) ==
  ProductFrom(row, v, c) = ProductFrom(x, v, c) * b - ProductFrom(z, v, c) * e

(* What is taken off a row's elements is taken off its products.           *)
LEMMA ProductIsLinear ==
  ASSUME NEW row \in Vectors, NEW x \in Vectors, NEW z \in Vectors, NEW v \in Vectors,
         NEW b \in Int, NEW e \in Int, NEW c \in 0..N, IsCombination(row, x, b, z, e)
  PROVE  ProductsCombine(row, x, b, z, e, v, c)
<1> DEFINE Linear(k) == ProductsCombine(row, x, b, z, e, v, k)
           S == {k \in 0..N : Linear(k)}
<1>1. N \in S
  <2>1. ProductFrom(row, v, N) = 0 /\ ProductFrom(x, v, N) = 0 /\ ProductFrom(z, v, N) = 0
    BY ProductGrows
  <2>2. Linear(N)
    BY <2>1 DEF ProductsCombine
  <2> HIDE DEF Linear
  <2> QED
    BY <2>2, HeavyHashAssumption
<1>2. ASSUME NEW k \in Indices, k + 1 \in S PROVE k \in S
  <2> SUFFICES Linear(k)
    BY HeavyHashAssumption DEF Indices
  <2>1. k + 1 \in 0..N
    BY HeavyHashAssumption DEF Indices
  <2>2. Linear(k + 1)
    <3> HIDE DEF Linear
    <3> QED
      BY <1>2
  <2> DEFINE r == ProductFrom(row, v, k + 1)
             s == ProductFrom(x, v, k + 1)
             t == ProductFrom(z, v, k + 1)
             m == x[k]
             n == z[k]
             w == v[k]
  <2>3. /\ ProductFrom(row, v, k) = r + row[k] * w
        /\ ProductFrom(x, v, k) = s + m * w
        /\ ProductFrom(z, v, k) = t + n * w
    BY ProductGrows
  <2>4. r = s * b - t * e
    BY <2>2 DEF ProductsCombine
  <2>5. row[k] = m * b - n * e
    BY DEF IsCombination
  <2>6. r \in Int /\ s \in Int /\ t \in Int /\ m \in Int /\ n \in Int /\ w \in Int
    BY <2>1, ProductIsInt DEF Vectors
  <2> HIDE DEF r, s, t, m, n, w
  <2>7. (s * b - t * e) + (m * b - n * e) * w = (s + m * w) * b - (t + n * w) * e
    BY <2>6
  <2>8. ProductFrom(row, v, k) = (s * b - t * e) + (m * b - n * e) * w
    BY <2>3, <2>4, <2>5
  <2> QED
    BY <2>3, <2>7, <2>8 DEF ProductsCombine
<1> HIDE DEF S
<1>3. c \in S
  BY <1>1, <1>2, FromTheLast
<1> QED
  BY <1>3 DEF S

(* The product with a vector that ends before column c.                    *)
LEMMA ProductWithZeros ==
  ASSUME NEW row \in Vectors, NEW v \in Vectors, NEW c \in 0..N,
         \A k \in Indices : k >= c => v[k] = 0
  PROVE  ProductFrom(row, v, c) = 0
<1> DEFINE S == {k \in 0..N : k >= c => ProductFrom(row, v, k) = 0}
<1>1. N \in S
  BY ProductGrows, HeavyHashAssumption
<1>2. ASSUME NEW k \in Indices, k + 1 \in S PROVE k \in S
  <2> SUFFICES ASSUME k >= c PROVE ProductFrom(row, v, k) = 0
    BY HeavyHashAssumption DEF Indices
  <2>1. k + 1 >= c
    BY HeavyHashAssumption DEF Indices
  <2>2. ProductFrom(row, v, k) = ProductFrom(row, v, k + 1) + row[k] * v[k]
    BY ProductGrows
  <2>3. ProductFrom(row, v, k + 1) = 0 /\ v[k] = 0
    BY <1>2, <2>1
  <2>4. row[k] \in Int
    BY DEF Vectors
  <2>5. row[k] * 0 = 0
    BY <2>4
  <2> QED
    BY <2>2, <2>3, <2>5
<1> HIDE DEF S
<1>3. c \in S
  BY <1>1, <1>2, FromTheLast
<1> QED
  BY <1>3 DEF S

(* The system of equations that is left when k columns are eliminated with *)
(* the rows in q: the unknown of each of these columns is given by those of*)
(* the other columns, and the rows that are not selected still stand.      *)
Solves(A, d, q, k, rows, v) ==
  /\ \A c \in 0..k-1 : ProductFrom(A[q[c]], v, k) + d * v[c] = 0
  /\ \A r \in Indices \ rows : ProductFrom(A[r], v, k) = 0

(* What eliminating column k with row p makes of the numerators.           *)
Subtracted(A, d, k, p) ==
  [r \in Indices |->
     [c \in Indices |->
        IF r = p THEN A[p][c] * d ELSE A[r][c] * A[p][k] - A[p][c] * A[r][k]]]

WithPivot(q, k, p) == [c \in 0..k |-> IF c = k THEN p ELSE q[c]]

LEMMA SubtractedIsMatrix ==
  ASSUME NEW A \in [Indices -> Vectors], NEW d \in Int, NEW k \in Indices, NEW p \in Indices
  PROVE  /\ Subtracted(A, d, k, p) \in [Indices -> Vectors]
         /\ \A r \in Indices : A[r] \in Vectors /\ \A c \in Indices : A[r][c] \in Int
<1>1. \A r \in Indices : A[r] \in Vectors /\ \A c \in Indices : A[r][c] \in Int
  BY DEF Vectors
<1>2. ASSUME NEW r \in Indices, NEW c \in Indices
      PROVE  (IF r = p THEN A[p][c] * d ELSE A[r][c] * A[p][k] - A[p][c] * A[r][k]) \in Int
  <2>1. A[p][c] \in Int /\ A[r][c] \in Int /\ A[p][k] \in Int /\ A[r][k] \in Int
    BY <1>1
  <2> QED
    BY <2>1
<1> QED
  BY <1>1, <1>2 DEF Subtracted, Vectors

(* Where the pivot's equation s + b * w = 0 holds, taking it from another  *)
(* one leaves that as true or as false as it was.                          *)
LEMMA PivotAlgebra ==
  ASSUME NEW t \in Int, NEW s \in Int, NEW b \in Int \ {0}, NEW w \in Int, NEW e \in Int,
         NEW d \in Int, NEW x \in Int, s + b * w = 0
  PROVE  (t * b - s * e) + (d * b) * x = 0 <=> (t + e * w) + d * x = 0
<1> DEFINE y == (t + e * w) + d * x
<1>1. s = -(b * w)
  OBVIOUS
<1>2. (t * b - s * e) + (d * b) * x = (t * b + (b * w) * e) + (d * b) * x
  BY <1>1
<1>3. (t * b + (b * w) * e) + (d * b) * x = y * b
  OBVIOUS
<1>4. y \in Int
  OBVIOUS
<1> HIDE DEF y
<1>5. y * b = 0 <=> y = 0
  BY <1>4
<1> QED
  BY <1>2, <1>3, <1>5 DEF y

(* The equation of another row than the pivot's says the same as before.   *)
SaysTheSame(A, d, k, p, v, r, x) ==
  ProductFrom(Subtracted(A, d, k, p)[r], v, k + 1) + (d * A[p][k]) * x = 0
    <=> ProductFrom(A[r], v, k) + d * x = 0

LEMMA OtherRow ==
  ASSUME NEW A \in [Indices -> Vectors], NEW d \in Int, NEW k \in Indices, NEW p \in Indices,
         NEW v \in Vectors, NEW r \in Indices, NEW x \in Int,
         r # p, A[p][k] # 0, ProductFrom(A[p], v, k) = 0
  PROVE  SaysTheSame(A, d, k, p, v, r, x)
<1> DEFINE B == Subtracted(A, d, k, p)
           t == ProductFrom(A[r], v, k + 1)
           s == ProductFrom(A[p], v, k + 1)
           b == A[p][k]
           e == A[r][k]
           w == v[k]
<1>0. k + 1 \in 0..N
  BY HeavyHashAssumption DEF Indices
<1>1. /\ A[r] \in Vectors /\ A[p] \in Vectors /\ B[r] \in Vectors
      /\ b \in Int \ {0} /\ e \in Int /\ w \in Int
  BY SubtractedIsMatrix DEF Vectors
<1>2. t \in Int /\ s \in Int
  BY <1>0, <1>1, ProductIsInt
<1>3. ProductFrom(B[r], v, k + 1) = t * b - s * e
  <2>1. IsCombination(B[r], A[r], b, A[p], e)
    BY DEF Subtracted, IsCombination
  <2>2. ProductsCombine(B[r], A[r], b, A[p], e, v, k + 1)
    <3> HIDE DEF B, b, e
    <3> QED
      BY <1>0, <1>1, <2>1, ProductIsLinear
  <2> QED
    BY <2>2 DEF ProductsCombine
<1>4. ProductFrom(A[r], v, k) = t + e * w /\ s + b * w = 0
  BY ProductGrows
<1> HIDE DEF B, t, s, b, e, w
<1>5. (t * b - s * e) + (d * b) * x = 0 <=> (t + e * w) + d * x = 0
  BY <1>1, <1>2, <1>4, PivotAlgebra
<1> QED
  BY <1>3, <1>4, <1>5 DEF B, b, SaysTheSame

(* So does the pivot's, which gives the unknown of column k.               *)
LEMMA PivotRow ==
  ASSUME NEW A \in [Indices -> Vectors], NEW d \in Int \ {0}, NEW k \in Indices,
         NEW p \in Indices, NEW v \in Vectors
  PROVE  ProductFrom(Subtracted(A, d, k, p)[p], v, k + 1) + (d * A[p][k]) * v[k] = 0
           <=> ProductFrom(A[p], v, k) = 0
<1> DEFINE B == Subtracted(A, d, k, p)
           s == ProductFrom(A[p], v, k + 1)
           b == A[p][k]
           w == v[k]
<1>0. k + 1 \in 0..N
  BY HeavyHashAssumption DEF Indices
<1>1. A[p] \in Vectors /\ B[p] \in Vectors /\ b \in Int /\ w \in Int
  BY SubtractedIsMatrix DEF Vectors
<1>2. s \in Int
  BY <1>0, <1>1, ProductIsInt
<1>3. ProductFrom(B[p], v, k + 1) = s * d - s * 0
  <2>1. \A c \in Indices : B[p][c] = A[p][c] * d
    BY DEF Subtracted
  <2>2. \A c \in Indices : A[p][c] \in Int /\ A[p][c] * d \in Int
    BY <1>1 DEF Vectors
  <2>3. IsCombination(B[p], A[p], d, A[p], 0)
    <3> HIDE DEF B
    <3> QED
      BY <2>1, <2>2 DEF IsCombination
  <2>4. ProductsCombine(B[p], A[p], d, A[p], 0, v, k + 1)
    <3> HIDE DEF B
    <3> QED
      BY <1>0, <1>1, <2>3, ProductIsLinear
  <2> QED
    BY <2>4 DEF ProductsCombine
<1>4. ProductFrom(A[p], v, k) = s + b * w
  BY ProductGrows
<1> HIDE DEF B, s, b, w
<1>5. (s * d - s * 0) + (d * b) * w = (s + b * w) * d
  BY <1>1, <1>2
<1> DEFINE y == s + b * w
<1>6. y \in Int
  BY <1>1, <1>2
<1>7. y * d = 0 <=> y = 0
  <2> HIDE DEF y
  <2> QED
    BY <1>6
<1> QED
  BY <1>3, <1>4, <1>5, <1>7 DEF B, b, w

(* Eliminating a column does not change the solutions.                     *)
LEMMA EliminationKeepsSolutions ==
  ASSUME NEW A \in [Indices -> Vectors], NEW d \in Int \ {0}, NEW k \in Indices,
         NEW rows \in SUBSET Indices, NEW q \in [0..k-1 -> rows], NEW p \in Indices \ rows,
         NEW v \in Vectors, A[p][k] # 0
  PROVE  Solves(A, d, q, k, rows, v)
           <=> Solves(Subtracted(A, d, k, p), d * A[p][k], WithPivot(q, k, p), k + 1,
                      rows \cup {p}, v)
<1> DEFINE B == Subtracted(A, d, k, p)
           Q == WithPivot(q, k, p)
           f == d * A[p][k]
           S == ProductFrom(A[p], v, k) = 0
           Old(r, x) == ProductFrom(A[r], v, k) + d * x = 0
           New(r, x) == ProductFrom(B[r], v, k + 1) + f * x = 0
<1>0. N \in Nat /\ k \in 0..N-1
  BY HeavyHashAssumption DEF Indices
<1>1. /\ k \in Nat /\ 0..(k + 1)-1 = 0..k /\ k \in 0..k
      /\ \A c \in 0..k-1 : c \in Indices /\ c \in 0..k /\ c # k
      /\ \A c \in 0..k : c \in 0..k-1 \/ c = k
  BY <1>0 DEF Indices
<1>2. ASSUME S, NEW r \in Indices, r # p, NEW x \in Int
      PROVE  New(r, x) <=> Old(r, x)
  <2>1. SaysTheSame(A, d, k, p, v, r, x)
    <3> HIDE DEF B, Q, f, Old, New
    <3> QED
      BY <1>2, OtherRow
  <2> QED
    BY <2>1 DEF SaysTheSame
<1>3. New(p, v[k]) <=> S
  BY PivotRow
<1>4. \A c \in 0..k-1 : v[c] \in Int /\ q[c] \in Indices /\ q[c] # p /\ Q[c] = q[c]
  <2>1. \A c \in 0..k-1 : v[c] \in Int
    BY <1>1 DEF Vectors
  <2>2. \A c \in 0..k-1 : q[c] \in Indices /\ q[c] # p
    OBVIOUS
  <2>3. \A c \in 0..k-1 : Q[c] = q[c]
    BY <1>1 DEF WithPivot
  <2> QED
    BY <2>1, <2>2, <2>3
<1>5. Q[k] = p
  BY <1>1 DEF WithPivot
<1>6. Solves(A, d, q, k, rows, v) <=>
        /\ \A c \in 0..k-1 : Old(q[c], v[c])
        /\ \A r \in Indices \ rows : Old(r, 0)
  <2>1. ASSUME NEW r \in Indices
        PROVE  Old(r, 0) <=> ProductFrom(A[r], v, k) = 0
    <3> DEFINE t == ProductFrom(A[r], v, k)
    <3>1. A[r] \in Vectors /\ k \in 0..N
      BY <1>0
    <3>2. t \in Int
      BY <3>1, ProductIsInt
    <3> HIDE DEF t
    <3>3. d * 0 = 0 /\ t + 0 = t
      BY <3>2
    <3> QED
      BY <3>3 DEF t
  <2> QED
    BY <2>1 DEF Solves
<1>7. Solves(B, f, Q, k + 1, rows \cup {p}, v) <=>
        /\ \A c \in 0..k : New(Q[c], v[c])
        /\ \A r \in Indices \ (rows \cup {p}) : New(r, 0)
  <2>1. ASSUME NEW r \in Indices
        PROVE  New(r, 0) <=> ProductFrom(B[r], v, k + 1) = 0
    <3> DEFINE t == ProductFrom(B[r], v, k + 1)
    <3>1. B[r] \in Vectors /\ k + 1 \in 0..N
      BY <1>0, SubtractedIsMatrix
    <3>2. t \in Int
      <4> HIDE DEF B
      <4> QED
        BY <3>1, ProductIsInt
    <3>4. f \in Int
      BY SubtractedIsMatrix
    <3> HIDE DEF t, f
    <3>3. f * 0 = 0 /\ t + 0 = t
      BY <3>2, <3>4
    <3> QED
      BY <3>3 DEF t
  <2> HIDE DEF B, f, Q
  <2> QED
    BY <1>1, <2>1 DEF Solves
<1>8. S <=> Old(p, 0)
  <2> DEFINE t == ProductFrom(A[p], v, k)
  <2>1. A[p] \in Vectors /\ k \in 0..N
    BY <1>0
  <2>2. t \in Int
    BY <2>1, ProductIsInt
  <2> HIDE DEF t
  <2>3. d * 0 = 0 /\ t + 0 = t
    BY <2>2
  <2> QED
    BY <2>3 DEF t
<1> HIDE DEF Old, New, S, B, Q, f
<1>9. ASSUME \A c \in 0..k-1 : Old(q[c], v[c]), \A r \in Indices \ rows : Old(r, 0)
      PROVE  /\ \A c \in 0..k : New(Q[c], v[c])
             /\ \A r \in Indices \ (rows \cup {p}) : New(r, 0)
  <2>1. S
    BY <1>8, <1>9
  <2>2. \A c \in 0..k-1 : New(Q[c], v[c])
    BY <1>2, <1>4, <1>9, <2>1
  <2>3. New(Q[k], v[k])
    BY <1>3, <1>5, <2>1
  <2>4. \A r \in Indices \ (rows \cup {p}) : New(r, 0)
    BY <1>2, <1>9, <2>1
  <2> QED
    BY <1>1, <2>2, <2>3, <2>4
<1>10. ASSUME \A c \in 0..k : New(Q[c], v[c]), \A r \in Indices \ (rows \cup {p}) : New(r, 0)
       PROVE  /\ \A c \in 0..k-1 : Old(q[c], v[c])
              /\ \A r \in Indices \ rows : Old(r, 0)
  <2>1. S
    BY <1>1, <1>3, <1>5, <1>10
  <2>2. \A c \in 0..k-1 : Old(q[c], v[c])
    BY <1>1, <1>2, <1>4, <1>10, <2>1
  <2>3. \A r \in Indices \ rows : r = p \/ r \in Indices \ (rows \cup {p})
    OBVIOUS
  <2>4. \A r \in Indices \ rows : Old(r, 0)
    BY <1>2, <1>8, <1>10, <2>1, <2>3
  <2> QED
    BY <2>2, <2>4
<1>11. Solves(A, d, q, k, rows, v) <=> Solves(B, f, Q, k + 1, rows \cup {p}, v)
  BY <1>6, <1>7, <1>9, <1>10
<1> QED
  BY <1>11 DEF B, f, Q

(* A column in which only selected rows have anything left is a combination*)
(* of the columns before it.                                               *)
LEMMA ColumnWithoutPivot ==
  ASSUME NEW A \in [Indices -> Vectors], NEW d \in Int \ {0}, NEW k \in Indices,
         NEW rows \in SUBSET Indices, NEW q \in [0..k-1 -> rows],
         \A r \in Indices \ rows : A[r][k] = 0
  PROVE  \E v \in Vectors : Solves(A, d, q, k, rows, v) /\ v[k] # 0
<1> DEFINE v == [c \in Indices |-> IF c = k THEN d ELSE IF c < k THEN -A[q[c]][k] ELSE 0]
<1>0. N \in Nat /\ k \in 0..N-1 /\ k \in 0..N /\ k + 1 \in 0..N /\ k \in Nat
  BY HeavyHashAssumption DEF Indices
<1>1. \A c \in 0..k-1 : c \in Indices /\ c < k /\ c # k
  BY <1>0 DEF Indices
<1>2. \A c \in Indices : c \in Nat /\ (c < k => c \in 0..k-1) /\ (c >= k + 1 => ~(c < k) /\ c # k)
  BY <1>0 DEF Indices
<1>3. \A r \in Indices : A[r] \in Vectors /\ A[r][k] \in Int
  BY DEF Vectors
<1>4. \A c \in 0..k-1 : q[c] \in Indices
  OBVIOUS
<1>5. v \in Vectors
  <2>1. ASSUME NEW c \in Indices
        PROVE  (IF c = k THEN d ELSE IF c < k THEN -A[q[c]][k] ELSE 0) \in Int
    <3>1. CASE c < k
      <4>1. A[q[c]][k] \in Int
        BY <1>2, <1>3, <1>4, <3>1
      <4> QED
        BY <4>1
    <3> QED
      BY <3>1
  <2> QED
    BY <2>1 DEF Vectors
<1>6. v[k] = d /\ \A c \in 0..k-1 : v[c] = -A[q[c]][k]
  BY <1>1
<1>7. \A c \in Indices : c >= k + 1 => v[c] = 0
  BY <1>2
<1> HIDE DEF v
<1>8. ASSUME NEW r \in Indices PROVE ProductFrom(A[r], v, k) = A[r][k] * d
  <2>1. ProductFrom(A[r], v, k + 1) = 0
    BY <1>0, <1>3, <1>5, <1>7, ProductWithZeros
  <2>2. ProductFrom(A[r], v, k) = ProductFrom(A[r], v, k + 1) + A[r][k] * v[k]
    BY ProductGrows
  <2>3. A[r][k] * d \in Int
    BY <1>3
  <2> QED
    BY <1>6, <2>1, <2>2, <2>3
<1>9. ASSUME NEW c \in 0..k-1 PROVE ProductFrom(A[q[c]], v, k) + d * v[c] = 0
  <2> DEFINE a == A[q[c]][k]
  <2>1. a \in Int /\ ProductFrom(A[q[c]], v, k) = a * d /\ v[c] = -a
    BY <1>3, <1>4, <1>6, <1>8
  <2> HIDE DEF a
  <2>2. a * d + d * (-a) = 0
    BY <2>1
  <2> QED
    BY <2>1, <2>2
<1>10. ASSUME NEW r \in Indices \ rows PROVE ProductFrom(A[r], v, k) = 0
  <2>1. ProductFrom(A[r], v, k) = 0 * d
    BY <1>8
  <2> QED
    BY <2>1
<1> QED
  BY <1>5, <1>6, <1>9, <1>10 DEF Solves

-----------------------------------------------------------------------------
(* What is drawn.                                                          *)

(* The words of the generator are numbers.                                 *)
LEMMA WordsAreNumbers ==
  /\ WordBits \in Nat \ {0} /\ Matrix!Indices = Indices
  /\ \A n \in Int : Matrix!Wrap(n) \in Int
  /\ \A word \in Int : \A n \in 1..WordBits - 1 : Matrix!RotateLeft(word, n) \in Int
<1>1. WordBits \in Nat \ {0}
  BY PowMatrixAssumption DEF Matrix!GenerateAssumption
<1>2. ASSUME NEW n \in Int PROVE Matrix!Wrap(n) \in Int
  <2> DEFINE w == 2^WordBits
  <2>1. w \in Nat \ {0}
    BY <1>1, PowerIsPositive
  <2> HIDE DEF w
  <2>2. n % w \in Int
    BY <2>1
  <2> QED
    BY <2>2 DEF Matrix!Wrap, w
<1>3. ASSUME NEW word \in Int, NEW n \in 1..WordBits - 1 PROVE Matrix!RotateLeft(word, n) \in Int
  <2> DEFINE h == 2^n
             w == 2^(WordBits - n)
  <2>1. n \in Nat /\ WordBits - n \in Nat
    BY <1>1
  <2>2. h \in Nat \ {0} /\ w \in Nat \ {0}
    BY <2>1, PowerIsPositive
  <2> HIDE DEF h, w
  <2>3. word * h \in Int /\ word \div w \in Int
    BY <2>2
  <2>4. Matrix!Wrap(word * h) + word \div w \in Int
    BY <1>2, <2>3
  <2> QED
    BY <2>4 DEF Matrix!RotateLeft, h, w
<1> QED
  BY <1>1, <1>2, <1>3 DEF Matrix!Indices, Indices

(* Xor, which sums bits, has a number as its result.                       *)
LEMMA XorIsNumber ==
  ASSUME NEW m \in Int, NEW n \in Int
  PROVE  Matrix!Xor(m, n) \in Int
<1> DEFINE bit == [k \in 0..WordBits - 1 |-> ((m \div 2^k) + (n \div 2^k)) % 2]
           Is(f) == f = [k \in 0..WordBits |->
                           IF k = 0 THEN 0 ELSE f[k - 1] + bit[k - 1] * 2^(k - 1)]
           sum == CHOOSE f : Is(f)
<1>0. WordBits \in Nat \ {0}
  BY WordsAreNumbers
<1>1. ASSUME NEW k \in 0..WordBits - 1 PROVE bit[k] * 2^k \in Int
  <2> DEFINE p == 2^k
  <2>1. p \in Nat \ {0}
    BY <1>0, PowerIsPositive
  <2>2. bit[k] = ((m \div p) + (n \div p)) % 2
    OBVIOUS
  <2> HIDE DEF p, bit
  <2>3. (m \div p) + (n \div p) \in Int
    BY <2>1
  <2>4. bit[k] \in Int
    BY <2>2, <2>3
  <2>5. bit[k] * p \in Int
    BY <2>1, <2>4
  <2> QED
    BY <2>5 DEF p
<1> HIDE DEF bit
<1>2. \E f : Is(f)
  <2> DEFINE a == [k \in 0..WordBits - 1 |-> bit[k] * 2^k]
  <2>1. PICK f : f = [k \in 0..WordBits |-> IF k = 0 THEN 0 ELSE f[k - 1] + a[k - 1]]
    <3> HIDE DEF a
    <3> QED
      BY <1>0, SumsExist
  <2>2. \A k \in 0..WordBits : k # 0 => a[k - 1] = bit[k - 1] * 2^(k - 1)
    <3> SUFFICES ASSUME NEW k \in 0..WordBits, k # 0 PROVE a[k - 1] = bit[k - 1] * 2^(k - 1)
      OBVIOUS
    <3>1. k - 1 \in 0..WordBits - 1
      BY <1>0
    <3> QED
      BY <3>1
  <2>3. Is(f)
    BY <2>1, <2>2
  <2> QED
    BY <2>3
<1>3. Is(sum)
  BY <1>2
<1>4. Matrix!Xor(m, n) = sum[WordBits]
  BY DEF Matrix!Xor, bit
<1> HIDE DEF sum
<1> DEFINE S == {k \in Nat : k <= WordBits => sum[k] \in Int}
<1>5. 0 \in S
  <2>1. 0 \in 0..WordBits
    BY <1>0
  <2> QED
    BY <1>3, <2>1
<1>6. ASSUME NEW k \in Nat, k \in S PROVE k + 1 \in S
  <2> SUFFICES ASSUME k + 1 <= WordBits PROVE sum[k + 1] \in Int
    BY <1>6
  <2>1. k + 1 \in 0..WordBits /\ k + 1 # 0 /\ (k + 1) - 1 = k /\ k \in 0..WordBits - 1
    BY <1>0
  <2>2. sum[k + 1] = sum[k] + bit[k] * 2^k
    BY <1>3, <2>1
  <2>3. sum[k] \in Int /\ bit[k] * 2^k \in Int
    BY <1>0, <1>1, <1>6, <2>1
  <2> QED
    BY <2>2, <2>3
<1> HIDE DEF S, Is
<1>7. WordBits \in S
  BY <1>0, <1>5, <1>6, SetInduction
<1> QED
  BY <1>0, <1>4, <1>7 DEF S

Generators == [0..3 -> Int]

(* The generator stays one of four numbers, and has a number as its output.*)
LEMMA AdvanceIsGenerator ==
  ASSUME NEW g \in Generators
  PROVE  Matrix!Advance(g) \in Generators /\ Matrix!Output(g) \in Int
<1>0. /\ g[0] \in Int /\ g[1] \in Int /\ g[2] \in Int /\ g[3] \in Int
      /\ RotateSum \in 1..WordBits - 1 /\ RotateState \in 1..WordBits - 1 /\ ShiftBy \in Nat
  BY PowMatrixAssumption DEF Generators, Matrix!GenerateAssumption
<1> DEFINE t == Matrix!Wrap(g[1] * 2^ShiftBy)
           s2 == Matrix!Xor(g[2], g[0])
           s3 == Matrix!Xor(g[3], g[1])
<1>1. t \in Int
  <2> DEFINE p == 2^ShiftBy
  <2>1. p \in Nat
    BY <1>0, PowerIsPositive
  <2> HIDE DEF p
  <2>2. g[1] * p \in Int
    BY <1>0, <2>1
  <2>3. Matrix!Wrap(g[1] * p) \in Int
    BY <2>2, WordsAreNumbers
  <2> QED
    BY <2>3 DEF p
<1>2. s2 \in Int /\ s3 \in Int
  BY <1>0, XorIsNumber
<1>3. Matrix!Advance(g) = [n \in 0..3 |-> CASE n = 0 -> Matrix!Xor(g[0], s3)
                                            [] n = 1 -> Matrix!Xor(g[1], s2)
                                            [] n = 2 -> Matrix!Xor(s2, t)
                                            [] n = 3 -> Matrix!RotateLeft(s3, RotateState)]
  BY DEF Matrix!Advance
<1> HIDE DEF t, s2, s3
<1>4. /\ Matrix!Xor(g[0], s3) \in Int /\ Matrix!Xor(g[1], s2) \in Int
      /\ Matrix!Xor(s2, t) \in Int /\ Matrix!RotateLeft(s3, RotateState) \in Int
  BY <1>0, <1>1, <1>2, XorIsNumber, WordsAreNumbers
<1>5. Matrix!Advance(g) \in Generators
  BY <1>3, <1>4 DEF Generators
<1>6. Matrix!Output(g) \in Int
  <2>1. Matrix!Wrap(g[0] + g[3]) \in Int
    BY <1>0, WordsAreNumbers
  <2>2. Matrix!RotateLeft(Matrix!Wrap(g[0] + g[3]), RotateSum) \in Int
    BY <1>0, <2>1, WordsAreNumbers
  <2>3. g[0] + Matrix!RotateLeft(Matrix!Wrap(g[0] + g[3]), RotateSum) \in Int
    BY <1>0, <2>2
  <2> QED
    BY <2>3, WordsAreNumbers DEF Matrix!Output
<1> QED
  BY <1>5, <1>6

(* So it is after any number of words.                                     *)
LEMMA AdvancedByIsGenerator ==
  ASSUME NEW n \in Nat, generator \in Generators
  PROVE  Matrix!AdvancedBy(n) \in Generators
<1> DEFINE Is(f, m) == f = [k \in 0..m |-> IF k = 0 THEN generator
                                           ELSE Matrix!Advance(f[k - 1])]
           g == CHOOSE f : Is(f, n)
           S == {m \in Nat : \E f : Is(f, m)}
<1>1. 0 \in S
  <2>1. Is([k \in 0..0 |-> generator], 0)
    OBVIOUS
  <2> QED
    BY <2>1
<1>2. ASSUME NEW m \in Nat, m \in S PROVE m + 1 \in S
  <2>1. PICK f : Is(f, m)
    BY <1>2
  <2> DEFINE h == [k \in 0..m+1 |-> IF k = m + 1 THEN Matrix!Advance(f[m]) ELSE f[k]]
  <2>2. ASSUME NEW k \in 0..m+1
        PROVE  h[k] = IF k = 0 THEN generator ELSE Matrix!Advance(h[k - 1])
    <3>1. CASE k = 0
      BY <2>1, <3>1
    <3>2. CASE k \in 1..m
      <4>1. h[k] = f[k] /\ h[k - 1] = f[k - 1] /\ k \in 0..m
        BY <3>2
      <4>2. f[k] = Matrix!Advance(f[k - 1])
        BY <2>1, <3>2
      <4> QED
        BY <3>2, <4>1, <4>2
    <3>3. CASE k = m + 1
      <4>1. h[k] = Matrix!Advance(f[m]) /\ k - 1 = m /\ k # 0 /\ h[m] = f[m]
        BY <3>3
      <4> QED
        BY <4>1
    <3> QED
      BY <3>1, <3>2, <3>3
  <2>3. Is(h, m + 1)
    BY <2>2
  <2> HIDE DEF h
  <2> QED
    BY <2>3
<1> HIDE DEF S
<1>3. n \in S
  BY <1>1, <1>2, SetInduction
<1>4. Is(g, n)
  BY <1>3 DEF S
<1>5. Matrix!AdvancedBy(n) = g[n]
  BY DEF Matrix!AdvancedBy
<1> HIDE DEF g
<1> DEFINE T == {k \in Nat : k <= n => g[k] \in Generators}
<1>6. 0 \in T
  BY <1>4
<1>7. ASSUME NEW k \in Nat, k \in T PROVE k + 1 \in T
  <2> SUFFICES ASSUME k + 1 <= n PROVE g[k + 1] \in Generators
    OBVIOUS
  <2>1. k + 1 \in 0..n /\ k + 1 # 0 /\ (k + 1) - 1 = k
    OBVIOUS
  <2>2. g[k + 1] = Matrix!Advance(g[k])
    BY <1>4, <2>1
  <2>3. g[k] \in Generators
    BY <1>7
  <2> QED
    BY <2>2, <2>3, AdvanceIsGenerator
<1> HIDE DEF T, Is
<1>8. n \in T
  BY <1>6, <1>7, SetInduction
<1> QED
  BY <1>5, <1>8 DEF T

(* What is drawn are nibbles.                                              *)
LEMMA DrawnRowIsOfNibbles ==
  ASSUME generator \in Generators
  PROVE  /\ Matrix!DrawnRow \in [Indices -> Nibbles]
         /\ Matrix!AdvancedBy(N \div NibblesPerWord) \in Generators
<1>0. /\ N \in Nat \ {0} /\ Nibble \in Nat \ {0} /\ NibbleBits \in Nat
      /\ NibblesPerWord \in Nat \ {0}
  BY HeavyHashAssumption, PowMatrixAssumption DEF Matrix!GenerateAssumption
<1>1. ASSUME NEW c \in Indices
      PROVE  (Matrix!Output(Matrix!AdvancedBy(c \div NibblesPerWord))
                \div 2^(NibbleBits * (c % NibblesPerWord))) % Nibble \in Nibbles
  <2> DEFINE e == NibbleBits * (c % NibblesPerWord)
             p == 2^e
             x == Matrix!Output(Matrix!AdvancedBy(c \div NibblesPerWord))
  <2>1. c \in Nat
    BY <1>0 DEF Indices
  <2>2. c \div NibblesPerWord \in Nat /\ c % NibblesPerWord \in Nat
    BY <1>0, <2>1, Divided
  <2>3. e \in Nat
    BY <1>0, <2>2
  <2>4. p \in Nat \ {0}
    <3> HIDE DEF e
    <3> QED
      BY <2>3, PowerIsPositive
  <2>5. x \in Int
    BY <2>2, AdvancedByIsGenerator, AdvanceIsGenerator
  <2> HIDE DEF p, x
  <2>6. x \div p \in Int
    BY <2>4, <2>5
  <2>7. (x \div p) % Nibble \in 0..Nibble - 1
    BY <1>0, <2>6, ModRange
  <2> QED
    BY <2>7 DEF p, x, Nibbles
<1>2. N \div NibblesPerWord \in Nat
  BY <1>0, Divided
<1> QED
  BY <1>1, <1>2, AdvancedByIsGenerator, WordsAreNumbers DEF Matrix!DrawnRow

-----------------------------------------------------------------------------
(* The invariant of the elimination.                                       *)

(* A vector is annihilated by the matrix, and by an invertible one only    *)
(* zero is.                                                                *)
Annihilates(m, v) == \A r \in Indices : ProductFrom(m[r], v, 0) = 0

Invertible(m) == \A v \in Vectors : Annihilates(m, v) => \A c \in Indices : v[c] = 0

(* From column k on the fractions are those of the numerators A over d.    *)
Represents(fractions, A, d, k) ==
  \A r, c \in Indices : c >= k => IsRatio(fractions[r][c], A[r][c], d)

(* The columns before `line` are eliminated: what the matrix annihilates   *)
(* solves the system that is left, and nothing else does.                  *)
EliminatedTo(A, d, q) ==
  /\ A \in [Indices -> Vectors] /\ d \in Int \ {0} /\ q \in [0..line - 1 -> selected]
  /\ Represents(float, A, d, line)
  /\ \A v \in Vectors : Annihilates(matrix, v) <=> Solves(A, d, q, line, selected, v)

(* As long as every column has had its pivot the system is equivalent; a   *)
(* column without one shows a vector that the matrix annihilates.          *)
Eliminating ==
  /\ float \in [Indices -> [Indices -> Fractions]]
  /\ selected \in SUBSET Indices
  /\ rank \in 0..line
  /\ rank = line => \E A, d, q : EliminatedTo(A, d, q)
  /\ rank < line => ~Invertible(matrix)

GenerateInvariant ==
  /\ generator \in Generators
  /\ matrix \in [Indices -> [Indices -> Nibbles]]
  /\ drawing \in {"draw", "rank", "done"}
  /\ line \in 0..N
  /\ drawing = "rank" => Eliminating
  /\ drawing = "done" => Invertible(matrix)

-----------------------------------------------------------------------------
(* The first pivot is one.                                                 *)
LEMMA LeastIsMember ==
  ASSUME NEW S \in SUBSET Nat, S # {}
  PROVE  \E m \in S : \A n \in S : m <= n
<1> SUFFICES ASSUME \A m \in S : \E n \in S : n < m PROVE FALSE
  OBVIOUS
<1> DEFINE T == {k \in Nat : \A n \in 0..k : n \notin S}
<1>1. 0 \in T
  <2>1. 0 \notin S
    OBVIOUS
  <2> QED
    BY <2>1
<1>2. ASSUME NEW k \in Nat, k \in T PROVE k + 1 \in T
  <2>1. \A n \in 0..k : n \notin S
    BY <1>2
  <2>2. k + 1 \notin S
    <3> SUFFICES ASSUME k + 1 \in S PROVE FALSE
      OBVIOUS
    <3>1. PICK n \in S : n < k + 1
      OBVIOUS
    <3>2. n \in 0..k
      BY <3>1
    <3> QED
      BY <2>1, <3>2
  <2>3. \A n \in 0..k+1 : n \in 0..k \/ n = k + 1
    OBVIOUS
  <2> QED
    BY <2>1, <2>2, <2>3
<1> HIDE DEF T
<1>3. Nat \subseteq T
  BY <1>1, <1>2, SetInduction
<1>4. PICK m \in S : TRUE
  OBVIOUS
<1>5. m \in T /\ m \in 0..m
  BY <1>3
<1> QED
  BY <1>4, <1>5 DEF T

(* With no column eliminated the system is that of the matrix itself.      *)
LEMMA NothingEliminated ==
  ASSUME matrix \in [Indices -> [Indices -> Nibbles]], NEW v \in Vectors, NEW q
  PROVE  /\ matrix \in [Indices -> Vectors]
         /\ Annihilates(matrix, v) <=> Solves(matrix, 1, q, 0, {}, v)
<1>1. Nibbles \subseteq Int
  BY HeavyHashAssumption DEF Nibbles
<1>2. matrix \in [Indices -> Vectors]
  BY <1>1 DEF Vectors
<1>3. 0..0-1 = {}
  OBVIOUS
<1> QED
  BY <1>2, <1>3 DEF Annihilates, Solves

(* convert_to_float: the numerators are the matrix, the denominator is 1.  *)
LEMMA BeginsToEliminate ==
  ASSUME matrix \in [Indices -> [Indices -> Nibbles]], matrix' = matrix,
         line' = 0, rank' = 0, selected' = {},
         float' = [r \in Indices |-> [c \in Indices |-> Matrix!Fraction(matrix[r][c])]]
  PROVE  Eliminating'
<1> DEFINE q == [c \in {} |-> 0]
<1>1. Nibbles \subseteq Int
  BY HeavyHashAssumption DEF Nibbles
<1>2. \A r, c \in Indices : matrix[r][c] \in Int
  BY <1>1
<1>3. ASSUME NEW n \in Int
      PROVE  Matrix!Fraction(n) \in Fractions /\ IsRatio(Matrix!Fraction(n), n, 1)
  <2>1. Matrix!Fraction(n) = [num |-> n, den |-> 1]
    BY DEF Matrix!Fraction
  <2> QED
    BY <2>1 DEF Fractions, IsRatio
<1>4. float' \in [Indices -> [Indices -> Fractions]]
  BY <1>2, <1>3
<1>5. Represents(float', matrix, 1, 0)
  BY <1>2, <1>3 DEF Represents
<1>6. matrix \in [Indices -> Vectors] /\ 1 \in Int \ {0}
  BY <1>2 DEF Vectors
<1>7. q \in [0..0-1 -> {}]
  <2>1. 0..0-1 = {}
    OBVIOUS
  <2> QED
    BY <2>1
<1>8. \A v \in Vectors : Annihilates(matrix, v) <=> Solves(matrix, 1, q, 0, {}, v)
  BY NothingEliminated
<1> HIDE DEF q
<1>9. EliminatedTo(matrix, 1, q)'
  BY <1>5, <1>6, <1>7, <1>8 DEF EliminatedTo, Represents, Annihilates, Solves, ProductFrom
<1> QED
  BY <1>4, <1>9 DEF Eliminating

(* Fractions stay fractions.                                               *)
LEMMA FractionsAreClosed ==
  ASSUME NEW x \in Fractions, NEW y \in Fractions
  PROVE  /\ ~Matrix!IsZero(y) => Matrix!Divide(x, y) \in Fractions
         /\ \A z \in Fractions : Matrix!MinusProduct(x, y, z) \in Fractions
<1> DEFINE n == x.num
           e == x.den
           m == y.num
           f == y.den
<1>1. n \in Int /\ e \in Int \ {0} /\ m \in Int /\ f \in Int \ {0}
  BY DEF Fractions
<1>2. ASSUME ~Matrix!IsZero(y) PROVE Matrix!Divide(x, y) \in Fractions
  <2>1. m # 0 /\ Matrix!Divide(x, y) = Matrix!Reduced(n * f, e * m)
    BY <1>2 DEF Matrix!IsZero, Matrix!Divide
  <2> HIDE DEF n, e, m, f
  <2>2. n * f \in Int /\ e * m \in Int \ {0}
    BY <1>1, <2>1
  <2> QED
    BY <2>1, <2>2, ReducedIsFraction
<1>3. ASSUME NEW z \in Fractions PROVE Matrix!MinusProduct(x, y, z) \in Fractions
  <2> DEFINE k == z.num
             h == z.den
             top == n * f * h - m * k * e
             bottom == e * f * h
  <2>1. k \in Int /\ h \in Int \ {0}
    BY DEF Fractions
  <2>2. Matrix!MinusProduct(x, y, z) = Matrix!Reduced(top, bottom)
    BY DEF Matrix!MinusProduct
  <2> HIDE DEF n, e, m, f, k, h
  <2>3. top \in Int
    BY <1>1, <2>1
  <2>4. bottom \in Int \ {0}
    <3>1. e * f \in Int \ {0}
      BY <1>1
    <3> QED
      BY <2>1, <3>1
  <2> HIDE DEF top, bottom
  <2> QED
    BY <2>2, <2>3, <2>4, ReducedIsFraction
<1> QED
  BY <1>2, <1>3

(* After an elimination step as well: no pivot is zero.                    *)
LEMMA EliminatedAreFractions ==
  ASSUME line \in Indices, float \in [Indices -> [Indices -> Fractions]],
         NEW p \in Indices, ~Matrix!IsZero(float[p][line])
  PROVE  /\ Matrix!Normalized(p) \in [Indices -> Fractions]
         /\ \A r \in Indices : Matrix!Eliminated(r, p) \in [Indices -> Fractions]
<1> DEFINE n == Matrix!Normalized(p)
<1>1. \A r, c \in Indices : float[r][c] \in Fractions
  OBVIOUS
<1>2. n = [c \in Indices |-> IF c > line THEN Matrix!Divide(float[p][c], float[p][line])
                             ELSE float[p][c]]
  BY WordsAreNumbers DEF Matrix!Normalized
<1> HIDE DEF n
<1>3. \A c \in Indices : n[c] \in Fractions
  BY <1>1, <1>2, FractionsAreClosed
<1>4. n \in [Indices -> Fractions]
  BY <1>2, <1>3
<1>5. ASSUME NEW r \in Indices PROVE Matrix!Eliminated(r, p) \in [Indices -> Fractions]
  <2>1. CASE r = p
    BY <1>4, <2>1 DEF Matrix!Eliminated, n
  <2>2. CASE r # p /\ Matrix!IsZero(float[r][line])
    BY <2>2 DEF Matrix!Eliminated
  <2>3. CASE r # p /\ ~Matrix!IsZero(float[r][line])
    <3>1. Matrix!Eliminated(r, p)
            = [c \in Indices |->
                 IF c > line THEN Matrix!MinusProduct(float[r][c], n[c], float[r][line])
                 ELSE float[r][c]]
      BY <2>3, WordsAreNumbers DEF Matrix!Eliminated, n
    <3>2. \A c \in Indices :
            Matrix!MinusProduct(float[r][c], n[c], float[r][line]) \in Fractions
      BY <1>1, <1>3, FractionsAreClosed
    <3> QED
      BY <1>1, <3>1, <3>2
  <2> QED
    BY <2>1, <2>2, <2>3
<1> QED
  BY <1>4, <1>5 DEF n

(* What one step leaves of a fraction right of its column.                 *)
LEMMA EliminatedFractions ==
  ASSUME line \in Indices, float \in [Indices -> [Indices -> Fractions]],
         NEW A \in [Indices -> Vectors], NEW d \in Int \ {0}, NEW p \in Indices,
         Represents(float, A, d, line), A[p][line] # 0,
         float' = [r \in Indices |-> Matrix!Eliminated(r, p)]
  PROVE  Represents(float', Subtracted(A, d, line, p), d * A[p][line], line + 1)
<1> DEFINE B == Subtracted(A, d, line, p)
           b == A[p][line]
           n == Matrix!Normalized(p)
<1>0. /\ line \in Nat /\ \A c \in Indices : c \in Nat
      /\ \A r, c \in Indices : float[r][c] \in Fractions /\ A[r][c] \in Int
  <2>1. line \in Nat /\ \A c \in Indices : c \in Nat
    BY HeavyHashAssumption DEF Indices
  <2>2. \A r, c \in Indices : float[r][c] \in Fractions
    OBVIOUS
  <2>3. \A r, c \in Indices : A[r][c] \in Int
    BY DEF Vectors
  <2> QED
    BY <2>1, <2>2, <2>3
<1>1. \A r, c \in Indices : c >= line => IsRatio(float[r][c], A[r][c], d)
  BY DEF Represents
<1>2. b \in Int \ {0} /\ d * b \in Int \ {0}
  <2>1. b \in Int \ {0}
    BY <1>0
  <2> HIDE DEF b
  <2> QED
    BY <2>1
<1>3. n = [c \in Indices |-> IF c > line THEN Matrix!Divide(float[p][c], float[p][line])
                             ELSE float[p][c]]
  BY WordsAreNumbers DEF Matrix!Normalized
<1> HIDE DEF n
<1>4. \A c \in Indices : n[c] \in Fractions
  <2>1. ~Matrix!IsZero(float[p][line])
    BY <1>0, <1>1, ZeroRatio
  <2>2. n \in [Indices -> Fractions]
    BY <2>1, EliminatedAreFractions DEF n
  <2> QED
    BY <2>2
<1>5. ASSUME NEW c \in Indices, c > line PROVE IsRatio(n[c], A[p][c], b)
  <2>1. n[c] = Matrix!Divide(float[p][c], float[p][line])
    BY <1>3, <1>5
  <2>2. IsRatio(float[p][c], A[p][c], d) /\ IsRatio(float[p][line], b, d)
    BY <1>0, <1>1, <1>5
  <2> HIDE DEF b
  <2> QED
    BY <1>0, <1>2, <2>1, <2>2, DividedRatios
<1>6. ASSUME NEW r \in Indices, NEW c \in Indices, c > line
      PROVE  IsRatio(float'[r][c], B[r][c], d * b)
  <2>1. CASE r = p
    <3>1. float'[r] = n
      BY <2>1 DEF Matrix!Eliminated, n
    <3>2. B[r][c] = A[p][c] * d
      BY <2>1 DEF Subtracted
    <3>3. IsRatio(n[c], A[p][c] * d, b * d)
      BY <1>0, <1>2, <1>4, <1>5, <1>6, ScaledRatio
    <3>4. b * d = d * b
      BY <1>2
    <3> QED
      BY <3>1, <3>2, <3>3, <3>4
  <2>2. CASE r # p /\ Matrix!IsZero(float[r][line])
    <3>1. float'[r] = float[r]
      BY <2>2 DEF Matrix!Eliminated
    <3>2. A[r][line] = 0
      <4>1. IsRatio(float[r][line], A[r][line], d)
        BY <1>0, <1>1
      <4> QED
        BY <1>0, <2>2, <4>1, ZeroRatio
    <3>3. B[r][c] = A[r][c] * b - A[p][c] * 0
      BY <2>2, <3>2 DEF Subtracted
    <3>4. A[r][c] * b - A[p][c] * 0 = A[r][c] * b
      <4>1. A[p][c] \in Int /\ A[r][c] * b \in Int
        BY <1>0, <1>2
      <4> QED
        BY <4>1
    <3>5. IsRatio(float[r][c], A[r][c], d)
      BY <1>0, <1>1, <1>6
    <3>6. IsRatio(float[r][c], A[r][c] * b, d * b)
      BY <1>0, <1>2, <3>5, ScaledRatio
    <3> QED
      BY <3>1, <3>3, <3>4, <3>6
  <2>3. CASE r # p /\ ~Matrix!IsZero(float[r][line])
    <3> DEFINE x == Matrix!MinusProduct(float[r][c], n[c], float[r][line])
    <3>1. float'[r][c] = x
      BY <1>6, <2>3, WordsAreNumbers DEF Matrix!Eliminated, n
    <3>2. B[r][c] = A[r][c] * b - A[p][c] * A[r][line]
      BY <2>3 DEF Subtracted
    <3>3. IsRatio(float[r][c], A[r][c], d) /\ IsRatio(float[r][line], A[r][line], d)
      <4>1. c >= line /\ line >= line
        BY <1>0, <1>6
      <4> QED
        BY <1>1, <4>1
    <3>5. IsRatio(n[c], A[p][c], b)
      BY <1>5, <1>6
    <3>4. IsRatio(x, A[r][c] * b - A[p][c] * A[r][line], d * b)
      <4> HIDE DEF b
      <4> QED
        BY <1>0, <1>2, <1>4, <3>3, <3>5, RatioLessProduct
    <3> HIDE DEF x, b, B
    <3> QED
      BY <3>1, <3>2, <3>4
  <2> QED
    BY <2>1, <2>2, <2>3
<1>7. \A c \in Indices : c >= line + 1 => c > line
  BY <1>0
<1> QED
  BY <1>6, <1>7 DEF Represents

(* A column with a pivot.                                                  *)
LEMMA EliminatesColumn ==
  ASSUME line \in Indices, Eliminating, rank = line,
         NEW p \in Indices \ selected, ~Matrix!IsZero(float[p][line]),
         float' = [r \in Indices |-> Matrix!Eliminated(r, p)],
         selected' = selected \cup {p}, line' = line + 1, matrix' = matrix
  PROVE  \E A, d, q : EliminatedTo(A, d, q)'
<1>1. PICK A, d, q : EliminatedTo(A, d, q)
  BY DEF Eliminating
<1> DEFINE B == Subtracted(A, d, line, p)
           f == d * A[p][line]
           Q == WithPivot(q, line, p)
<1>2. /\ A \in [Indices -> Vectors] /\ d \in Int \ {0} /\ q \in [0..line - 1 -> selected]
      /\ Represents(float, A, d, line)
      /\ float \in [Indices -> [Indices -> Fractions]] /\ selected \in SUBSET Indices
      /\ line \in Nat
  BY <1>1, HeavyHashAssumption DEF EliminatedTo, Eliminating, Indices
<1>3. A[p][line] \in Int \ {0}
  <2>1. IsRatio(float[p][line], A[p][line], d)
    BY <1>2 DEF Represents
  <2>2. float[p][line] \in Fractions /\ A[p][line] \in Int
    BY <1>2 DEF Vectors
  <2> QED
    BY <1>2, <2>1, <2>2, ZeroRatio
<1>4. B \in [Indices -> Vectors] /\ f \in Int \ {0}
  <2>1. B \in [Indices -> Vectors]
    BY <1>2, SubtractedIsMatrix
  <2> DEFINE b == A[p][line]
  <2>2. f = d * b /\ b \in Int \ {0}
    BY <1>3
  <2> HIDE DEF b, f
  <2>3. d * b \in Int \ {0}
    BY <1>2, <2>2
  <2> QED
    BY <2>1, <2>2, <2>3
<1>5. Q \in [0..line -> selected \cup {p}]
  <2>1. \A c \in 0..line : c # line => c \in 0..line - 1
    BY <1>2
  <2> QED
    BY <1>2, <2>1 DEF WithPivot
<1>6. Represents(float', B, f, line + 1)
  BY <1>2, <1>3, EliminatedFractions
<1>7. ASSUME NEW v \in Vectors
      PROVE  Annihilates(matrix, v) <=> Solves(B, f, Q, line + 1, selected \cup {p}, v)
  <2>1. Annihilates(matrix, v) <=> Solves(A, d, q, line, selected, v)
    BY <1>1 DEF EliminatedTo
  <2>2. Solves(A, d, q, line, selected, v) <=> Solves(B, f, Q, line + 1, selected \cup {p}, v)
    BY <1>2, <1>3, EliminationKeepsSolutions
  <2> QED
    BY <2>1, <2>2
<1>8. line' - 1 = line
  BY <1>2
<1> HIDE DEF B, f, Q
<1>9. ASSUME NEW X, NEW e, NEW R, X = B, e = f, R = Q
      PROVE  EliminatedTo(X, e, R)'
  <2>1. /\ X \in [Indices -> Vectors] /\ e \in Int \ {0}
        /\ R \in [0..line' - 1 -> selected']
    BY <1>4, <1>5, <1>8, <1>9
  <2>2. Represents(float', X, e, line')
    BY <1>6, <1>9
  <2>3. \A v \in Vectors :
          Annihilates(matrix', v) <=> Solves(X, e, R, line', selected', v)
    BY <1>7, <1>9
  <2> QED
    BY <2>1, <2>2, <2>3 DEF EliminatedTo, Represents, Annihilates, Solves, ProductFrom
<1> QED
  BY <1>9

(* A column without: another vector than zero is annihilated.              *)
LEMMA MissesColumn ==
  ASSUME line \in Indices, Eliminating, rank = line,
         \A r \in Indices \ selected : Matrix!IsZero(float[r][line])
  PROVE  ~Invertible(matrix)
<1>1. PICK A, d, q : EliminatedTo(A, d, q)
  BY DEF Eliminating
<1>2. /\ A \in [Indices -> Vectors] /\ d \in Int \ {0} /\ q \in [0..line - 1 -> selected]
      /\ Represents(float, A, d, line)
      /\ float \in [Indices -> [Indices -> Fractions]] /\ selected \in SUBSET Indices
      /\ line \in Nat
  BY <1>1, HeavyHashAssumption DEF EliminatedTo, Eliminating, Indices
<1>3. ASSUME NEW r \in Indices \ selected PROVE A[r][line] = 0
  <2>1. IsRatio(float[r][line], A[r][line], d)
    BY <1>2 DEF Represents
  <2>2. float[r][line] \in Fractions /\ A[r][line] \in Int
    BY <1>2 DEF Vectors
  <2> QED
    BY <1>2, <2>1, <2>2, ZeroRatio
<1>4. PICK v \in Vectors : Solves(A, d, q, line, selected, v) /\ v[line] # 0
  BY <1>2, <1>3, ColumnWithoutPivot
<1>5. Annihilates(matrix, v)
  BY <1>1, <1>4 DEF EliminatedTo
<1> QED
  BY <1>4, <1>5 DEF Invertible

(* EliminateColumn keeps the invariant, with a pivot and without.          *)
LEMMA EliminatingStep ==
  ASSUME line \in 0..N, Eliminating, Matrix!EliminateColumn
  PROVE  Eliminating'
<1>1. /\ line \in Indices /\ line' = line + 1 /\ matrix' = matrix /\ line \in Nat
      /\ float \in [Indices -> [Indices -> Fractions]] /\ selected \in SUBSET Indices
      /\ rank \in 0..line
  BY WordsAreNumbers DEF Matrix!EliminateColumn, Eliminating
<1>2. Invertible(matrix)' <=> Invertible(matrix)
  BY <1>1 DEF Invertible, Annihilates, ProductFrom
<1>3. Matrix!Pivots = {r \in Indices \ selected : ~Matrix!IsZero(float[r][line])}
  BY WordsAreNumbers DEF Matrix!Pivots
<1>4. CASE Matrix!Pivots = {}
  <2>1. UNCHANGED <<float, selected, rank>>
    BY <1>4 DEF Matrix!EliminateColumn
  <2>2. rank < line'  /\ rank \in 0..line'
    BY <1>1
  <2>3. ~Invertible(matrix)
    <3>1. CASE rank = line
      <4>1. \A r \in Indices \ selected : Matrix!IsZero(float[r][line])
        BY <1>3, <1>4
      <4> QED
        BY <1>1, <3>1, <4>1, MissesColumn
    <3>2. CASE rank < line
      BY <3>2 DEF Eliminating
    <3> QED
      BY <1>1, <3>1, <3>2
  <2> QED
    BY <1>1, <1>2, <2>1, <2>2, <2>3 DEF Eliminating
<1>5. CASE Matrix!Pivots # {}
  <2>1. PICK p \in Matrix!Pivots :
          /\ float' = [r \in Indices |-> Matrix!Eliminated(r, p)]
          /\ selected' = selected \cup {p}
          /\ rank' = rank + 1
    <3> DEFINE p == Matrix!Min(Matrix!Pivots)
    <3>1. /\ float' = [r \in Indices |-> Matrix!Eliminated(r, p)]
          /\ selected' = selected \cup {p}
          /\ rank' = rank + 1
      BY <1>5, WordsAreNumbers DEF Matrix!EliminateColumn
    <3>2. Matrix!Pivots \in SUBSET Nat
      BY <1>3, HeavyHashAssumption DEF Indices
    <3>3. p \in Matrix!Pivots
      BY <1>5, <3>2, LeastIsMember DEF Matrix!Min
    <3> QED
      BY <3>1, <3>3
  <2>2. p \in Indices \ selected /\ ~Matrix!IsZero(float[p][line])
    BY <1>3
  <2>3. /\ float' \in [Indices -> [Indices -> Fractions]]
        /\ selected' \in SUBSET Indices
        /\ rank' \in 0..line'
    <3>1. selected' \in SUBSET Indices /\ rank' \in 0..line'
      BY <1>1, <2>1, <2>2
    <3>2. float' \in [Indices -> [Indices -> Fractions]]
      BY <1>1, <2>1, <2>2, EliminatedAreFractions
    <3> QED
      BY <3>1, <3>2
  <2>4. rank' = line' <=> rank = line
    BY <1>1, <2>1
  <2>5. rank' < line' <=> rank < line
    BY <1>1, <2>1
  <2>6. rank' = line' => \E A, d, q : EliminatedTo(A, d, q)'
    BY <1>1, <2>1, <2>2, <2>4, EliminatesColumn
  <2>7. rank' < line' => ~Invertible(matrix)'
    BY <1>2, <2>5 DEF Eliminating
  <2> QED
    BY <2>3, <2>6, <2>7 DEF Eliminating
<1> QED
  BY <1>4, <1>5

(* When all columns are eliminated the rank says whether the matrix is     *)
(* invertible.                                                             *)
LEMMA FullRankIsInvertible ==
  ASSUME Eliminating, line = N
  PROVE  rank = N <=> Invertible(matrix)
<1>1. ASSUME rank = N PROVE Invertible(matrix)
  <2>1. PICK A, d, q : EliminatedTo(A, d, q)
    BY <1>1 DEF Eliminating
  <2> SUFFICES ASSUME NEW v \in Vectors, Annihilates(matrix, v), NEW c \in Indices
               PROVE  v[c] = 0
    BY DEF Invertible
  <2>2. Solves(A, d, q, N, selected, v) /\ d \in Int \ {0}
    BY <2>1 DEF EliminatedTo
  <2>3. ProductFrom(A[q[c]], v, N) + d * v[c] = 0
    BY <2>2 DEF Solves, Indices
  <2>4. ProductFrom(A[q[c]], v, N) = 0
    BY ProductGrows
  <2>5. v[c] \in Int
    BY DEF Vectors
  <2> DEFINE x == v[c]
  <2>6. x \in Int /\ d * x = 0
    <3>1. d * x \in Int
      BY <2>2, <2>5
    <3> QED
      BY <2>3, <2>4, <2>5, <3>1
  <2> HIDE DEF x
  <2>7. x = 0
    BY <2>2, <2>6
  <2> QED
    BY <2>7 DEF x
<1>2. ASSUME rank # N PROVE ~Invertible(matrix)
  <2>1. rank < line
    BY <1>2, HeavyHashAssumption DEF Eliminating
  <2> QED
    BY <2>1 DEF Eliminating
<1> QED
  BY <1>1, <1>2

LEMMA GenerateInvariantInit == PowMatrixInit => GenerateInvariant
<1> SUFFICES ASSUME PowMatrixInit PROVE GenerateInvariant
  OBVIOUS
<1>1. generator \in Generators
  <2>1. Seeds \subseteq [0..3 -> Matrix!Words]
    BY PowMatrixAssumption DEF Matrix!GenerateAssumption
  <2>2. Matrix!Words \subseteq Int
    BY DEF Matrix!Words
  <2> QED
    BY <2>1, <2>2 DEF PowMatrixInit, Matrix!Init, Generators
<1>2. matrix \in [Indices -> [Indices -> Nibbles]]
  <2>1. 0 \in Nibbles
    BY HeavyHashAssumption DEF Nibbles
  <2> QED
    BY <2>1, WordsAreNumbers DEF PowMatrixInit, Matrix!Init, Matrix!ZeroRow
<1>3. drawing = "draw" /\ line = 0 /\ 0 \in 0..N
  BY HeavyHashAssumption DEF PowMatrixInit, Matrix!Init
<1> QED
  BY <1>1, <1>2, <1>3 DEF GenerateInvariant

(* Every step of MatrixGenerate keeps its invariant.                       *)
LEMMA Drawing ==
  ASSUME GenerateInvariant, Matrix!Next
  PROVE  GenerateInvariant'
<1>0. /\ N \in Nat /\ 0 \in Nibbles /\ Matrix!Indices = Indices /\ Indices = 0..N - 1
      /\ generator \in Generators /\ matrix \in [Indices -> [Indices -> Nibbles]]
      /\ line \in 0..N
  <2>1. N \in Nat /\ 0 \in Nibbles
    BY HeavyHashAssumption DEF Nibbles
  <2>2. Matrix!Indices = Indices /\ Indices = 0..N - 1
    BY WordsAreNumbers DEF Indices
  <2> QED
    BY <2>1, <2>2 DEF GenerateInvariant
<1>1. CASE Matrix!DrawRow
  <2>1. /\ drawing' = "draw" /\ line \in Indices /\ line' = line + 1
        /\ matrix' = [matrix EXCEPT ![line] = Matrix!DrawnRow]
        /\ generator' = Matrix!AdvancedBy(N \div NibblesPerWord)
    BY <1>0, <1>1 DEF Matrix!DrawRow
  <2>2. matrix' \in [Indices -> [Indices -> Nibbles]] /\ generator' \in Generators
    BY <1>0, <2>1, DrawnRowIsOfNibbles
  <2>3. line' \in 0..N
    BY <1>0, <2>1
  <2> QED
    BY <2>1, <2>2, <2>3 DEF GenerateInvariant
<1>2. CASE Matrix!BeginRank
  <2>1. /\ drawing' = "rank" /\ line' = 0 /\ rank' = 0 /\ selected' = {}
        /\ float' = [r \in Indices |-> [c \in Indices |-> Matrix!Fraction(matrix[r][c])]]
        /\ matrix' = matrix /\ generator' = generator
    BY <1>0, <1>2 DEF Matrix!BeginRank
  <2>2. Eliminating'
    BY <1>0, <2>1, BeginsToEliminate
  <2> QED
    BY <1>0, <2>1, <2>2 DEF GenerateInvariant
<1>3. CASE Matrix!EliminateColumn
  <2>1. /\ drawing = "rank" /\ drawing' = "rank" /\ line \in Indices /\ line' = line + 1
        /\ matrix' = matrix /\ generator' = generator
    BY <1>0, <1>3 DEF Matrix!EliminateColumn
  <2>2. Eliminating'
    BY <1>0, <1>3, <2>1, EliminatingStep DEF GenerateInvariant
  <2>3. line' \in 0..N
    BY <1>0, <2>1
  <2> QED
    BY <1>0, <2>1, <2>2, <2>3 DEF GenerateInvariant
<1>4. CASE Matrix!DrawAgain
  <2>1. /\ drawing' = "draw" /\ line' = 0 /\ generator' = generator
        /\ matrix' = [r \in Indices |-> [c \in Indices |-> 0]]
    BY <1>0, <1>4 DEF Matrix!DrawAgain, Matrix!ZeroRow
  <2> QED
    BY <1>0, <2>1 DEF GenerateInvariant
<1>5. CASE Matrix!Accept
  <2>1. /\ drawing = "rank" /\ drawing' = "done" /\ line \notin Indices /\ rank = N
        /\ UNCHANGED <<generator, matrix, line>>
    BY <1>0, <1>5 DEF Matrix!Accept
  <2>2. Eliminating /\ line = N
    BY <1>0, <2>1 DEF GenerateInvariant
  <2>3. Invertible(matrix)
    BY <2>1, <2>2, FullRankIsInvertible
  <2>4. Invertible(matrix)'
    BY <2>1, <2>3 DEF Invertible, Annihilates, ProductFrom
  <2> QED
    BY <1>0, <2>1, <2>4 DEF GenerateInvariant
<1> QED
  BY <1>1, <1>2, <1>3, <1>4, <1>5 DEF Matrix!Next

-----------------------------------------------------------------------------
(* calculate_pow is not called before the matrix is there.                 *)
PowMatrixInvariant ==
  /\ GenerateInvariant /\ HeavyHashInvariant /\ ProductInvariant
  /\ drawing # "done" => phase = "idle"

LEMMA PowMatrixInvariantInit == PowMatrixInit => PowMatrixInvariant
<1> SUFFICES ASSUME PowMatrixInit PROVE PowMatrixInvariant
  OBVIOUS
<1>1. GenerateInvariant
  BY GenerateInvariantInit
<1>2. Init
  BY <1>1 DEF PowMatrixInit, GenerateInvariant, Init
<1>3. phase = "idle"
  BY <1>2 DEF Init, Idle
<1> QED
  BY <1>1, <1>2, <1>3, InvariantInit, ProductInit DEF PowMatrixInvariant

LEMMA PowMatrixInvariantNext ==
  PowMatrixInvariant /\ [PowMatrixNext]_powMatrixVars => PowMatrixInvariant'
<1> SUFFICES ASSUME PowMatrixInvariant, [PowMatrixNext]_powMatrixVars
             PROVE  PowMatrixInvariant'
  OBVIOUS
<1>1. CASE Draw
  <2>1. Matrix!Next /\ UNCHANGED callVars
    BY <1>1 DEF Draw
  <2>2. GenerateInvariant'
    BY <2>1, Drawing DEF PowMatrixInvariant
  <2>3. drawing # "done"
    BY <2>1 DEF Matrix!Next, Matrix!DrawRow, Matrix!BeginRank, Matrix!EliminateColumn,
                Matrix!DrawAgain, Matrix!Accept
  <2>4. phase = "idle" /\ phase' = "idle"
    BY <2>1, <2>3 DEF PowMatrixInvariant, callVars
  <2>5. Idle /\ Idle'
    BY <2>1, <2>4 DEF PowMatrixInvariant, HeavyHashInvariant, Idle, callVars
  <2>6. matrix' \in [Indices -> [Indices -> Nibbles]]
    BY <2>2 DEF GenerateInvariant
  <2>7. HeavyHashInvariant'
    BY <2>1, <2>4, <2>5, <2>6 DEF PowMatrixInvariant, HeavyHashInvariant, callVars
  <2>8. ProductInvariant'
    BY <2>1, <2>4 DEF PowMatrixInvariant, ProductInvariant, callVars
  <2> QED
    BY <2>2, <2>4, <2>7, <2>8 DEF PowMatrixInvariant
<1>2. CASE Multiplying
  <2>1. drawing = "done" /\ Next /\ UNCHANGED drawingVars
    BY <1>2 DEF Multiplying
  <2>2. matrix' = matrix
    BY <2>1 DEF Next, Call, SplitByte, EndSplit, Multiply, EndRow, EndMultiply, XorByte,
                Finish, Return
  <2>3. GenerateInvariant'
    BY <2>1, <2>2 DEF PowMatrixInvariant, GenerateInvariant, drawingVars, Invertible,
                      Annihilates, ProductFrom
  <2>4. HeavyHashInvariant' /\ ProductInvariant'
    BY <2>1, InvariantNext, ProductNext DEF PowMatrixInvariant
  <2> QED
    BY <2>1, <2>3, <2>4 DEF PowMatrixInvariant, drawingVars
<1>3. CASE UNCHANGED powMatrixVars
  <2>1. UNCHANGED vars /\ UNCHANGED drawingVars
    BY <1>3 DEF powMatrixVars
  <2>2. HeavyHashInvariant' /\ ProductInvariant'
    BY <2>1, InvariantNext, ProductNext DEF PowMatrixInvariant
  <2>3. UNCHANGED <<generator, matrix, drawing, line, float, selected, rank, phase>>
    BY <2>1 DEF vars, drawingVars
  <2>4. Invertible(matrix) <=> Invertible(matrix)'
    BY <2>3 DEF Invertible, Annihilates, ProductFrom
  <2>5. Eliminating => Eliminating'
    <3>1. ASSUME NEW A, NEW d, NEW q, EliminatedTo(A, d, q)
          PROVE  EliminatedTo(A, d, q)'
      <4>1. /\ A \in [Indices -> Vectors] /\ d \in Int \ {0}
            /\ q \in [0..line' - 1 -> selected'] /\ Represents(float', A, d, line')
        BY <2>3, <3>1 DEF EliminatedTo
      <4>2. \A v \in Vectors :
              Annihilates(matrix', v) <=> Solves(A, d, q, line', selected', v)
        BY <2>3, <3>1 DEF EliminatedTo
      <4> QED
        BY <4>1, <4>2 DEF EliminatedTo, Represents, Annihilates, Solves, ProductFrom
    <3>2. (\E A, d, q : EliminatedTo(A, d, q)) => \E A, d, q : EliminatedTo(A, d, q)'
      BY <3>1
    <3> QED
      BY <2>3, <2>4, <3>2 DEF Eliminating
  <2>6. GenerateInvariant'
    BY <2>3, <2>4, <2>5 DEF PowMatrixInvariant, GenerateInvariant
  <2> QED
    BY <2>2, <2>3, <2>6 DEF PowMatrixInvariant
<1> QED
  BY <1>1, <1>2, <1>3 DEF PowMatrixNext

LEMMA PowMatrixInvariantHolds == PowMatrixSpec => []PowMatrixInvariant
BY PowMatrixInvariantInit, PowMatrixInvariantNext, PTL DEF PowMatrixSpec

(* The rank that compute_rank has counted when it is through is N if the   *)
(* matrix is invertible, and less if it is not: whatever is in its columns,*)
(* and in the arithmetic of fractions.                                     *)
THEOREM RankDecidesInvertibility ==
  PowMatrixSpec => [](drawing = "rank" /\ line = N => (rank = N <=> Invertible(matrix)))
<1>1. PowMatrixInvariant => (drawing = "rank" /\ line = N => (rank = N <=> Invertible(matrix)))
  BY FullRankIsInvertible DEF PowMatrixInvariant, GenerateInvariant
<1> QED
  BY <1>1, PowMatrixInvariantHolds, PTL

(* No nonce is hashed with a matrix that is not invertible.                *)
THEOREM MatrixIsInvertible == PowMatrixSpec => [](phase # "idle" => Invertible(matrix))
<1>1. PowMatrixInvariant => (phase # "idle" => Invertible(matrix))
  BY DEF PowMatrixInvariant, GenerateInvariant
<1> QED
  BY <1>1, PowMatrixInvariantHolds, PTL

(* With the matrices that are drawn heavy_hash computes what it computes   *)
(* with any.                                                               *)
THEOREM PowMatrixIsCorrect ==
  PowMatrixSpec =>
    /\ []HeavyHashInvariant
    /\ []VectorIsWritten
    /\ []NibblesDoNotOverlap
    /\ []ProductIsCorrect
    /\ SumsDoNotWrap
<1>1. PowMatrixInvariant => HeavyHashInvariant /\ ProductInvariant
  BY DEF PowMatrixInvariant
<1>2. PowMatrixInvariant /\ [PowMatrixNext]_powMatrixVars
        => [phase = "multiply" /\ j \in Indices => sum1' >= sum1 /\ sum2' >= sum2]_vars
  <2> SUFFICES ASSUME PowMatrixInvariant, [PowMatrixNext]_powMatrixVars
               PROVE  [phase = "multiply" /\ j \in Indices => sum1' >= sum1 /\ sum2' >= sum2]_vars
    OBVIOUS
  <2>1. CASE Draw
    <3>1. drawing # "done"
      BY <2>1 DEF Draw, Matrix!Next, Matrix!DrawRow, Matrix!BeginRank, Matrix!EliminateColumn,
                  Matrix!DrawAgain, Matrix!Accept
    <3>2. phase = "idle"
      BY <3>1 DEF PowMatrixInvariant
    <3> QED
      BY <3>2
  <2>2. CASE Multiplying
    BY <1>1, <2>2, MultiplyingAdds DEF Multiplying
  <2>3. CASE UNCHANGED powMatrixVars
    BY <2>3 DEF powMatrixVars
  <2> QED
    BY <2>1, <2>2, <2>3 DEF PowMatrixNext
<1> QED
  BY <1>1, <1>2, InvariantSuffices, ProductSuffices, PowMatrixInvariantHolds, PTL
     DEF PowMatrixSpec, SumsDoNotWrap
=============================================================================
