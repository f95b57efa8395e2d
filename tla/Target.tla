------------------------------- MODULE Target -------------------------------
(***************************************************************************)
(* The 256-bit numbers of src/target.rs: the compact target of a header,   *)
(* expanded by a shift over 64-bit words, and the comparison of a hash with*)
(* it.                                                                     *)
(*                                                                         *)
(* A Uint256 is its words, least significant first.  The loops of shl and  *)
(* of cmp are taken step by step, one word at a time.                      *)
(***************************************************************************)
EXTENDS Integers

CONSTANTS
  Byte,         \* values of a byte; 256 in the code
  WordBits,     \* bits of a word; 64 in the code
  ByteBits,     \* bits of a byte; 8 in the code
  Words,        \* words of a number; 4 in the code
  MaxExponent,  \* largest exponent of a compact target; 255 in the code
  Hashes        \* bound: the numbers compared with the target

Word == 0..2^WordBits - 1

Uint256 == [0..Words - 1 -> Word]

TargetAssumption ==
  /\ WordBits \in Nat \ {0} /\ ByteBits \in Nat \ {0} /\ Words \in Nat \ {0}
  /\ Byte = 2^ByteBits
  /\ WordBits % ByteBits = 0
  /\ 3 * ByteBits <= WordBits
  /\ MaxExponent \in Nat
  /\ Hashes \subseteq Uint256

(* A mantissa is three bytes, of which the highest bit is a sign.          *)
Mantissas == 0..2^(3 * ByteBits) - 1

VARIABLES
  bits,      \* RpcBlockHeader.bits: the exponent above the mantissa
  original,  \* what is shifted
  shift,     \* ... by how many bits
  i,         \* the word the loop of shl, and then of cmp, is at
  ret,       \* the result of shl so far: the target
  hash,      \* the number compared with the target
  order,     \* the result of cmp
  phase      \* "decode", "shift", "compare" or "done"

vars == <<bits, original, shift, i, ret, hash, order, phase>>

Zero == [n \in 0..Words - 1 |-> 0]

FromU64(n) == [Zero EXCEPT ![0] = n]

Init ==
  /\ bits \in [exponent : 0..MaxExponent, mantissa : Mantissas]
  /\ hash \in Hashes
  /\ original = Zero /\ shift = 0 /\ i = 0 /\ ret = Zero
  /\ order = "none"
  /\ phase = "decode"

-----------------------------------------------------------------------------
WordBytes == WordBits \div ByteBits

(* Mutant of ToLeBytes: each word has its most significant byte first.     *)
ToMixedBytes(x) ==
  [b \in 0..Words * WordBytes - 1 |->
     (x[b \div WordBytes] \div 2^((WordBytes - 1 - (b % WordBytes)) * ByteBits)) % Byte]

ToLeBytes(x) ==
  [b \in 0..Words * WordBytes - 1 |->
     (x[b \div WordBytes] \div 2^((b % WordBytes) * ByteBits)) % Byte]

(* The number of these digits of w bits, the least significant first.      *)
FromDigits(digits, w, length) ==
  LET sum[k \in 0..length] ==
        IF k = 0 THEN 0 ELSE sum[k - 1] + digits[k - 1] * 2^((k - 1) * w)
  IN  sum[length]

FromLeBytes(bytes) ==
  [n \in 0..Words - 1 |->
     FromDigits([b \in 0..WordBytes - 1 |-> bytes[n * WordBytes + b]], ByteBits, WordBytes)]

(* Mutant of Exponent: the boundary between the two cases is off by one.   *)
ExponentOff(b) == IF b.exponent <= 2 THEN 0 ELSE ByteBits * (b.exponent - 2)

Exponent(b) == IF b.exponent <= 3 THEN 0 ELSE ByteBits * (b.exponent - 3)

Mantissa(b) ==
  IF b.exponent <= 3 THEN b.mantissa \div 2^(ByteBits * (3 - b.exponent)) ELSE b.mantissa

Negative(m) == m > 2^(3 * ByteBits - 1) - 1

(* u256_from_compact_target: a negative mantissa makes a target of zero.   *)
Decode ==
  /\ phase = "decode"
  /\ \/ /\ ~Negative(Mantissa(bits))
        /\ original' = FromU64(Mantissa(bits))
        /\ shift' = Exponent(bits)
        /\ phase' = "shift"
     \/ /\ Negative(Mantissa(bits))
        /\ phase' = "compare"
        /\ UNCHANGED <<original, shift>>
  /\ i' = IF Negative(Mantissa(bits)) THEN Words - 1 ELSE 0
  /\ UNCHANGED <<bits, ret, hash, order>>

(* u64 << and >>, by less than the width.                                  *)
Shl(word, n) == (word * 2^n) % 2^WordBits

Shr(word, n) == word \div 2^n

WordShift == shift \div WordBits

BitShift == shift % WordBits

(* Mutant of Shifted: the bits that leave a word are kept in it.           *)
ShiftedWide(n) == IF n = i + WordShift THEN original[i] * 2^BitShift ELSE 0

(* What word i of the number adds to word n of the result.                 *)
Shifted(n) == IF n = i + WordShift THEN Shl(original[i], BitShift) ELSE 0

(* Mutant of Carried: the carry of a shift by whole words is not special.  *)
CarriedAlways(n) ==
  IF n = i + WordShift + 1 THEN Shr(original[i], (WordBits - BitShift) % WordBits) ELSE 0

Carried(n) ==
  IF BitShift > 0 /\ n = i + WordShift + 1 THEN Shr(original[i], WordBits - BitShift) ELSE 0

ShiftWord ==
  /\ phase = "shift"
  /\ i < Words
  /\ ret' = [n \in 0..Words - 1 |-> ret[n] + Shifted(n) + Carried(n)]
  /\ i' = i + 1
  /\ UNCHANGED <<bits, original, shift, hash, order, phase>>

EndShift ==
  /\ phase = "shift"
  /\ i = Words
  /\ phase' = "compare"
  /\ i' = Words - 1
  /\ UNCHANGED <<bits, original, shift, ret, hash, order>>

(* Mutant of CompareWord: words are compared in the order they are stored. *)
CompareWordUpwards ==
  /\ phase = "compare"
  /\ LET j == Words - 1 - i
     IN  \/ /\ hash[j] # ret[j]
            /\ order' = IF hash[j] < ret[j] THEN "Less" ELSE "Greater"
            /\ phase' = "done"
            /\ UNCHANGED i
         \/ /\ hash[j] = ret[j] /\ i = 0
            /\ order' = "Equal"
            /\ phase' = "done"
            /\ UNCHANGED i
         \/ /\ hash[j] = ret[j] /\ i > 0
            /\ i' = i - 1
            /\ UNCHANGED <<order, phase>>
  /\ UNCHANGED <<bits, original, shift, ret, hash>>

(* cmp of hash and target: from the most significant word down to the      *)
(* first that differs.                                                     *)
CompareWord ==
  /\ phase = "compare"
  /\ \/ /\ hash[i] # ret[i]
        /\ order' = IF hash[i] < ret[i] THEN "Less" ELSE "Greater"
        /\ phase' = "done"
        /\ UNCHANGED i
     \/ /\ hash[i] = ret[i] /\ i = 0
        /\ order' = "Equal"
        /\ phase' = "done"
        /\ UNCHANGED i
     \/ /\ hash[i] = ret[i] /\ i > 0
        /\ i' = i - 1
        /\ UNCHANGED <<order, phase>>
  /\ UNCHANGED <<bits, original, shift, ret, hash>>

Next == Decode \/ ShiftWord \/ EndShift \/ CompareWord

Spec == Init /\ [][Next]_vars

-----------------------------------------------------------------------------
(* The number a Uint256 stands for.                                        *)
Value(x) == FromDigits(x, WordBits, Words)

(* Numbers go to and from the hash functions as their bytes, the least     *)
(* significant first of the whole number, and none is lost on the way.     *)
BytesAreLittleEndian ==
  phase = "done" =>
    LET bytes == ToLeBytes(hash)
    IN  /\ FromDigits(bytes, ByteBits, Words * WordBytes) = Value(hash)
        /\ FromLeBytes(bytes) = hash

(* A header's target is mantissa * 256^(exponent - 3), rounded down, as    *)
(* far as it fits 256 bits.  A negative mantissa makes a target of zero;   *)
(* below an exponent of three its sign is no longer seen.  What is shifted *)
(* into a word and what is carried into it do not meet, so that no word    *)
(* overflows.  (With debug assertions that would end the process.)         *)
Number(b) ==
  LET e == b.exponent
      m == b.mantissa
  IN  IF e < 3 THEN m \div 2^(ByteBits * (3 - e))
      ELSE IF 2 * m >= 2^(3 * ByteBits) THEN 0
      ELSE (m * 2^(ByteBits * (e - 3))) % 2^(Words * WordBits)

TargetIsDecoded ==
  /\ ret \in Uint256
  /\ phase \in {"compare", "done"} => Value(ret) = Number(bits)
=============================================================================
