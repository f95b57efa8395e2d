----------------------------- MODULE HeavyHash -----------------------------
(***************************************************************************)
(* Matrix::heavy_hash (src/pow/heavy_hash.rs) up to the final Keccak: the  *)
(* hash is split into nibbles, multiplied with the matrix, cut down to     *)
(* nibbles again and combined with itself.  Its loops are taken one turn   *)
(* at a time.  A byte is the pair of its nibbles, high and low.            *)
(*                                                                         *)
(* The matrix is that of a State, and stays; calculate_pow calls the       *)
(* function for one nonce after the other.  (PowMatrix puts this and       *)
(* MatrixGenerate, which draws the matrix, together.)                      *)
(***************************************************************************)
EXTENDS Integers, FiniteSetsExt

CONSTANTS
  N,           \* rows and columns of the matrix; 64 in the code
  Nibble,      \* values of a nibble; 16 in the code
  NibbleBits,  \* its bits; 4 in the code
  Scale,       \* 2^10 in the code: what a sum is divided by
  SumWidth     \* values of a sum, a u16; 2^16 in the code

Nibbles == 0..Nibble - 1

Indices == 0..N - 1

Bytes == 0..N \div 2 - 1

ASSUME HeavyHashAssumption ==
  /\ N \in Nat \ {0} /\ N % 2 = 0
  /\ NibbleBits \in Nat \ {0} /\ Nibble = 2^NibbleBits
  /\ Nibble \in Nat \ {0} /\ Scale \in Nat \ {0} /\ SumWidth \in Nat \ {0}
  /\ N * ((Nibble - 1) * (Nibble - 1)) < Nibble * Scale
  /\ N * ((Nibble - 1) * (Nibble - 1)) < SumWidth

Uninit == -1  \* an element of a MaybeUninit array before it is written

VARIABLES
  matrix, hash,
  phase,      \* "idle", "split", "multiply", "xor" or "done"
  i, j,       \* counters of the outer and the inner loop
  vec,        \* the nibbles of the hash
  sum1, sum2, \* the sums for the rows 2i and 2i + 1
  product     \* the bytes of the result

vars == <<matrix, hash, phase, i, j, vec, sum1, sum2, product>>

Byte == [high : Nibbles, low : Nibbles]

ZeroHash == [b \in Bytes |-> [high |-> 0, low |-> 0]]

(* Not called yet.                                                         *)
Idle ==
  /\ hash = ZeroHash
  /\ phase = "idle"
  /\ i = 0 /\ j = 0
  /\ vec = [n \in Indices |-> Uninit]
  /\ sum1 = 0 /\ sum2 = 0
  /\ product = ZeroHash

Init == matrix \in [Indices -> [Indices -> Nibbles]] /\ Idle

-----------------------------------------------------------------------------
(* calculate_pow, with the hash of another nonce.                          *)
Call(h) ==
  /\ phase = "idle"
  /\ hash' = h
  /\ phase' = "split"
  /\ UNCHANGED <<matrix, i, j, vec, sum1, sum2, product>>

(* Mutant of SplitByte: the halves of the vector in place of its pairs.    *)
SplitHalves ==
  /\ phase = "split" /\ i \in Bytes
  /\ vec' = [vec EXCEPT ![i] = hash[i].high, ![i + 1] = hash[i].low]
  /\ i' = i + 1
  /\ UNCHANGED <<matrix, hash, phase, j, sum1, sum2, product>>

SplitByte ==
  /\ phase = "split" /\ i \in Bytes
  /\ vec' = [vec EXCEPT ![2 * i] = hash[i].high, ![2 * i + 1] = hash[i].low]
  /\ i' = i + 1
  /\ UNCHANGED <<matrix, hash, phase, j, sum1, sum2, product>>

(* The vector is transmuted to one of bytes.                               *)
EndSplit ==
  /\ phase = "split" /\ i \notin Bytes
  /\ phase' = "multiply"
  /\ i' = 0
  /\ UNCHANGED <<matrix, hash, j, vec, sum1, sum2, product>>

Multiply ==
  /\ phase = "multiply" /\ i \in Bytes /\ j \in Indices
  /\ sum1' = (sum1 + matrix[2 * i][j] * vec[j]) % SumWidth
  /\ sum2' = (sum2 + matrix[2 * i + 1][j] * vec[j]) % SumWidth
  /\ j' = j + 1
  /\ UNCHANGED <<matrix, hash, phase, i, vec, product>>

(* Mutant of Cut: a sum is cut to its low bits.                            *)
CutLow(sum) == sum % Nibble

(* Mutant of Cut: one bit too little is cut off.                           *)
CutLess(sum) == sum \div (Scale \div 2)

Cut(sum) == sum \div Scale

(* Mutant of EndRow: the sums are not started anew.                        *)
EndRowAddingOn ==
  /\ phase = "multiply" /\ i \in Bytes /\ j \notin Indices
  /\ product' = [product EXCEPT ![i] = [high |-> Cut(sum1), low |-> Cut(sum2)]]
  /\ i' = i + 1
  /\ j' = 0
  /\ UNCHANGED <<matrix, hash, phase, vec, sum1, sum2>>

(* Both sums are cut to a nibble, and the nibbles are put into a byte.     *)
EndRow ==
  /\ phase = "multiply" /\ i \in Bytes /\ j \notin Indices
  /\ product' = [product EXCEPT ![i] = [high |-> Cut(sum1), low |-> Cut(sum2)]]
  /\ i' = i + 1
  /\ j' = 0
  /\ sum1' = 0 /\ sum2' = 0
  /\ UNCHANGED <<matrix, hash, phase, vec>>

EndMultiply ==
  /\ phase = "multiply" /\ i \notin Bytes
  /\ phase' = "xor"
  /\ i' = 0
  /\ UNCHANGED <<matrix, hash, j, vec, sum1, sum2, product>>

Xor(m, n) ==
  MapThenSumSet(LAMBDA k : (((m \div 2^k) + (n \div 2^k)) % 2) * 2^k, 0..NibbleBits - 1)

XorByte ==
  /\ phase = "xor" /\ i \in Bytes
  /\ product' = [product EXCEPT ![i] = [high |-> Xor(@.high, hash[i].high),
                                        low |-> Xor(@.low, hash[i].low)]]
  /\ i' = i + 1
  /\ UNCHANGED <<matrix, hash, phase, j, vec, sum1, sum2>>

(* What is left is the hash by HeavyHasher.                                *)
Finish ==
  /\ phase = "xor" /\ i \notin Bytes
  /\ phase' = "done"
  /\ UNCHANGED <<matrix, hash, i, j, vec, sum1, sum2, product>>

(* The locals of the call are gone.                                        *)
Return ==
  /\ phase = "done"
  /\ hash' = ZeroHash
  /\ phase' = "idle"
  /\ i' = 0 /\ j' = 0
  /\ vec' = [n \in Indices |-> Uninit]
  /\ sum1' = 0 /\ sum2' = 0
  /\ product' = ZeroHash
  /\ UNCHANGED matrix

Next ==
  \/ \E h \in [Bytes -> Byte] : Call(h)
  \/ SplitByte \/ EndSplit \/ Multiply \/ EndRow \/ EndMultiply \/ XorByte \/ Finish
  \/ Return

Spec == Init /\ [][Next]_vars

-----------------------------------------------------------------------------
(* "The loop above wrote into all indexes": nothing of the vector that is  *)
(* read was left uninitialized.                                            *)
VectorIsWritten ==
  phase \notin {"idle", "split"} => \A n \in Indices : vec[n] \in Nibbles

(* The sums of 64 products of nibbles never overflow 16 bits.              *)
SumsDoNotWrap ==
  [][phase = "multiply" /\ j \in Indices => sum1' >= sum1 /\ sum2' >= sum2]_vars

(* What a sum is cut to is a nibble: the two halves of a byte, which are   *)
(* put together by "or", do not overlap.                                   *)
NibblesDoNotOverlap ==
  phase = "multiply" /\ j \notin Indices => {Cut(sum1), Cut(sum2)} \subseteq Nibbles

(* What these rest on: how much of the vector is written, and how large the*)
(* sums are after j products.                                              *)
LargestSum(n) == n * ((Nibble - 1) * (Nibble - 1))

HeavyHashInvariant ==
  /\ matrix \in [Indices -> [Indices -> Nibbles]] /\ hash \in [Bytes -> Byte]
  /\ phase \in {"idle", "split", "multiply", "xor", "done"}
  /\ i \in 0..N \div 2 /\ j \in 0..N
  /\ vec \in [Indices -> Nibbles \cup {Uninit}]
  /\ \A n \in Indices :
       phase \notin {"idle", "split"} \/ n < 2 * i => vec[n] \in Nibbles
  /\ sum1 \in 0..LargestSum(j) /\ sum2 \in 0..LargestSum(j)
  /\ phase # "multiply" \/ i \notin Bytes => j = 0
  /\ phase = "idle" => Idle

(* The result is, nibble by nibble, the product of the matrix with the     *)
(* nibbles of the hash, scaled, xor the hash.                              *)
NibbleOf(bytes, n) ==
  IF n % 2 = 0 THEN bytes[n \div 2].high ELSE bytes[n \div 2].low

SumOfProducts(n, m) ==
  LET sum[k \in 0..N] ==
        IF k = 0 THEN 0 ELSE sum[k - 1] + matrix[n][k - 1] * NibbleOf(hash, k - 1)
  IN  sum[m]

RowProduct(n) == SumOfProducts(n, N)

ProductIsCorrect ==
  phase = "done" =>
    \A n \in Indices :
      NibbleOf(product, n) = Xor(RowProduct(n) \div Scale, NibbleOf(hash, n))
=============================================================================
