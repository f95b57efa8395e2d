-------------------------------- MODULE Pow --------------------------------
(***************************************************************************)
(* pow::State (src/pow.rs, src/pow/hasher.rs): the target of a template is *)
(* decoded (Target), its header is serialized and hashed without nonce and *)
(* timestamp, nonces are tried on a copy of a hasher that has the rest, and*)
(* a block with the nonce that solves it is made.  Whoever receives the    *)
(* block, kaspad first, makes a State of its header and finds the same     *)
(* proof of work, or does not.                                             *)
(*                                                                         *)
(* A run of this specification is one template: it is serialized field by  *)
(* field, nonces are tried, and the header of the block made is serialized *)
(* again, once with nonce and timestamp for the block's hash, which is     *)
(* logged, and once by the receiver.  A string is the sequence of its      *)
(* characters, digits or anything else; integers are unsigned; and hash    *)
(* functions lose nothing: the hash of bytes is the bytes, and that of two *)
(* states of Keccak is the same for equal states only.  Which number the   *)
(* proof of work with a nonce is, is up to an oracle.                      *)
(***************************************************************************)
EXTENDS Integers, Sequences

CONSTANTS
  ByteBits, WordBits, Words, MaxExponent, Hashes,  \* see Target
  Digit,        \* values of a hexadecimal digit; 16 in the code
  HashLen,      \* bytes of a hash; 32 in the code
  U16, U32, U64,\* bytes of the integers; 2, 4 and 8 in the code
  Headers,      \* bound: headers of templates
  Nonces        \* bound: nonces that are tried

Byte == Digit * Digit

NotADigit == Digit

VARIABLES
  header,    \* the header that is serialized
  stage,     \* "decode"; what is serialized next; "new", "mine", "check";
             \* at last "accepted", "rejected" or "panic"
  level, k,  \* the parents are at hash k of this level
  buffer,    \* the local variable hash of serialize_header
  out,       \* what the HeaderHasher has been given
  role,      \* who serializes: "miner", "block_hash", "verifier"
  state,     \* State.hasher and State.nonce of the miner
  pow,       \* what calculate_pow has given to Keccak last
  oracle,    \* the proof of work with each nonce, as a number
  original, shift, word, target, hash, order, phase  \* see Target

targetVars == <<original, shift, word, target, hash, order, phase>>

serializeVars == <<level, k, buffer, out>>

vars == <<header, stage, serializeVars, role, state, pow, oracle, targetVars>>

(* bits >> 24 and bits & 0xFFFFFF.                                         *)
Compact(bits) ==
  [exponent |-> bits \div 2^(3 * ByteBits), mantissa |-> bits % 2^(3 * ByteBits)]

Target == INSTANCE Target WITH bits <- Compact(header.bits), i <- word, ret <- target

(* Integers of w bytes.                                                    *)
Unsigned(w) == 0..2^(w * ByteBits) - 1

(* A Vec: its length is an integer.                                        *)
Vec(S) == {s \in Seq(S) : Len(s) \in Unsigned(U64)}

(* RpcBlockHeader.  The strings are as long as kaspad makes them.  The time*)
(* is signed: it is the unsigned integer of the same bytes.                *)
Header ==
  LET String == Seq(0..Digit)
  IN  [version : Unsigned(U32), parents : Vec(Vec(String)), roots : [1..3 -> String],
       timestamp : Unsigned(U64), bits : Unsigned(U32), nonce : Unsigned(U64),
       daaScore : Unsigned(U64), blueScore : Unsigned(U64), blueWork : String,
       pruningPoint : String]

ASSUME PowAssumption ==
  /\ Target!TargetAssumption
  /\ Digit \in Nat
  /\ U16 \in Nat /\ U32 \in Nat /\ U64 \in Nat
  /\ HashLen \in Unsigned(U64)
  /\ Headers \subseteq Header
  /\ Nonces \subseteq Unsigned(U64)

NoState == [hasher |-> {}, nonce |-> 0]

Init ==
  /\ header \in Headers
  /\ stage = "decode"
  /\ level = 1 /\ k = 1
  /\ buffer = [n \in 1..HashLen |-> 0]
  /\ out = <<>>
  /\ role = "miner"
  /\ state = NoState
  /\ pow = {}
  /\ oracle \in [Nonces -> Hashes]
  /\ original = Target!Zero /\ shift = 0 /\ word = 0 /\ target = Target!Zero
  /\ hash = Target!Zero
  /\ order = "none"
  /\ phase = "decode"

-----------------------------------------------------------------------------
(* The first thing State::new does.                                        *)
DecodeTarget ==
  /\ stage = "decode"
  /\ UNCHANGED <<header, serializeVars, role, state, pow, oracle>>
  /\ Target!Decode \/ Target!ShiftWord \/ Target!EndShift
  /\ stage' = IF phase' = "compare" THEN "version" ELSE stage

-----------------------------------------------------------------------------
(* to_le_bytes of an integer of w bytes.                                   *)
LittleEndian(n, w) == [b \in 1..w |-> (n \div 2^((b - 1) * ByteBits)) % Byte]

(* decode_to_slice: two digits are a byte, the first the higher one.       *)
Decodes(string, length) ==
  /\ Len(string) = 2 * length
  /\ \A c \in DOMAIN string : string[c] # NotADigit

Decoded(string) ==
  [b \in 1..Len(string) \div 2 |-> string[2 * b - 1] * Digit + string[2 * b]]

Emit(bytes) == out' = out \o bytes

Goto(s) == stage' = s

(* Every unwrap of the function, and its slice of the buffer, panic.       *)
Panic ==
  /\ Goto("panic")
  /\ UNCHANGED <<header, serializeVars, role, state, pow, oracle, targetVars>>

Version ==
  /\ stage = "version"
  /\ header.version \in Unsigned(U16)
  /\ Emit(LittleEndian(header.version, U16) \o LittleEndian(Len(header.parents), U64))
  /\ Goto("level")
  /\ UNCHANGED <<header, level, k, buffer, role, state, pow, oracle, targetVars>>

Level ==
  /\ stage = "level" /\ level <= Len(header.parents)
  /\ Emit(LittleEndian(Len(header.parents[level]), U64))
  /\ Goto("parent")
  /\ k' = 1
  /\ UNCHANGED <<header, level, buffer, role, state, pow, oracle, targetVars>>

EndLevels ==
  /\ stage = "level" /\ level > Len(header.parents)
  /\ Goto("roots")
  /\ k' = 1
  /\ UNCHANGED <<header, level, buffer, out, role, state, pow, oracle, targetVars>>

(* A hash goes through the buffer, of which all is given to the hasher.    *)
EmitHash(string) ==
  /\ Decodes(string, HashLen)
  /\ buffer' = Decoded(string)
  /\ Emit(Decoded(string))

Parent ==
  /\ stage = "parent" /\ k <= Len(header.parents[level])
  /\ EmitHash(header.parents[level][k])
  /\ k' = k + 1
  /\ UNCHANGED <<header, stage, level, role, state, pow, oracle, targetVars>>

EndLevel ==
  /\ stage = "parent" /\ k > Len(header.parents[level])
  /\ Goto("level")
  /\ level' = level + 1
  /\ UNCHANGED <<header, k, buffer, out, role, state, pow, oracle, targetVars>>

(* hash_merkle_root, accepted_id_merkle_root and utxo_commitment.          *)
Root ==
  /\ stage = "roots" /\ k <= 3
  /\ EmitHash(header.roots[k])
  /\ k' = k + 1
  /\ Goto(IF k = 3 THEN "numbers" ELSE "roots")
  /\ UNCHANGED <<header, level, role, state, pow, oracle, targetVars>>

ForPrePow == role # "block_hash"

HashedNonce == IF ForPrePow THEN 0 ELSE header.nonce

HashedTimestamp == IF ForPrePow THEN 0 ELSE header.timestamp

Numbers ==
  /\ stage = "numbers"
  /\ Emit(LittleEndian(HashedTimestamp, U64) \o LittleEndian(header.bits, U32)
            \o LittleEndian(HashedNonce, U64) \o LittleEndian(header.daaScore, U64)
            \o LittleEndian(header.blueScore, U64))
  /\ Goto("blueWork")
  /\ UNCHANGED <<header, level, k, buffer, role, state, pow, oracle, targetVars>>

(* blue_work has no leading zeros, and so any number of digits: an odd one *)
(* gets a zero.                                                            *)
BlueWork == IF Len(header.blueWork) % 2 = 0 THEN header.blueWork ELSE <<0>> \o header.blueWork

BlueWorkLen == Len(BlueWork) \div 2

(* Mutant of BlueWorkBytes: the whole buffer, with what was in it before.  *)
WholeBuffer(b) == b

BlueWorkBytes(b) == SubSeq(b, 1, BlueWorkLen)

(* It is decoded into the beginning of the buffer.                         *)
EmitBlueWork ==
  /\ stage = "blueWork"
  /\ BlueWorkLen <= HashLen
  /\ Decodes(BlueWork, BlueWorkLen)
  /\ buffer' = Decoded(BlueWork) \o SubSeq(buffer, BlueWorkLen + 1, HashLen)
  /\ Emit(LittleEndian(BlueWorkLen, U64) \o BlueWorkBytes(buffer'))
  /\ Goto("pruningPoint")
  /\ UNCHANGED <<header, level, k, role, state, pow, oracle, targetVars>>

PruningPoint ==
  /\ stage = "pruningPoint"
  /\ EmitHash(header.pruningPoint)
  /\ Goto("new")
  /\ UNCHANGED <<header, level, k, role, state, pow, oracle, targetVars>>

Serialize ==
  Version \/ Level \/ EndLevels \/ Parent \/ EndLevel \/ Root \/ Numbers
    \/ EmitBlueWork \/ PruningPoint

Fails ==
  \/ stage = "version" /\ header.version \notin Unsigned(U16)
  \/ stage = "parent" /\ k <= Len(header.parents[level])
       /\ ~Decodes(header.parents[level][k], HashLen)
  \/ stage = "roots" /\ ~Decodes(header.roots[k], HashLen)
  \/ stage = "blueWork" /\ (BlueWorkLen > HashLen \/ ~Decodes(BlueWork, BlueWorkLen))
  \/ stage = "pruningPoint" /\ ~Decodes(header.pruningPoint, HashLen)

SerializeFails == Fails /\ Panic

-----------------------------------------------------------------------------
(* A state of Keccak has twenty-five words.  What has been put into it, by *)
(* xor, is a set: of the word, what was put there, and its value.          *)
Xor(words, added) == (words \cup added) \ (words \cap added)

(* The initial state of cSHAKE256("ProofOfWorkHash"), with the padding for *)
(* messages of ten words.                                                  *)
INITIAL_STATE == {<<10, "padding", "0x04">>, <<16, "padding", "0x80">>}

(* PowHasher::new; the four words of the hash of bytes are told apart.     *)
NewHasher(bytes, timestamp) ==
  Xor(INITIAL_STATE, {<<n, "preImage", <<bytes, n>>>> : n \in 0..3} \cup {<<4, "time", timestamp>>})

(* Mutant of FinalizeWithNonce: the nonce goes into the word next to time. *)
FinalizeWithNonceNext(hasher, nonce) == Xor(hasher, {<<5, "nonce", nonce>>})

(* finalize_with_nonce takes a copy of the hasher.                         *)
FinalizeWithNonce(hasher, nonce) == Xor(hasher, {<<9, "nonce", nonce>>})

(* Mutant of HasherAfter: the nonce stays in the hasher.                   *)
HasherUsed(s, nonce) == FinalizeWithNonce(s.hasher, nonce)

HasherAfter(s, nonce) == s.hasher

(* State::new, once the header is serialized.  The matrix, too, comes from *)
(* the hash.                                                               *)
NewState ==
  /\ stage = "new" /\ role = "miner"
  /\ state' = [hasher |-> NewHasher(out, header.timestamp), nonce |-> 0]
  /\ Goto("mine")
  /\ UNCHANGED <<header, serializeVars, role, pow, oracle, targetVars>>

(* cmp of the proof of work with the target starts.                        *)
StartCheck ==
  /\ Goto("check")
  /\ word' = Words - 1
  /\ order' = "none"
  /\ phase' = "compare"
  /\ UNCHANGED <<original, shift, target>>

(* calculate_pow for the nonce that the miner has put into its State.      *)
TryNonce(nonce) ==
  /\ stage = "mine"
  /\ pow' = FinalizeWithNonce(state.hasher, nonce)
  /\ hash' = oracle[nonce]
  /\ state' = [hasher |-> HasherAfter(state, nonce), nonce |-> nonce]
  /\ StartCheck
  /\ UNCHANGED <<header, serializeVars, role, oracle>>

CompareWord ==
  /\ stage = "check"
  /\ UNCHANGED <<header, stage, serializeVars, role, state, pow, oracle>>
  /\ Target!CompareWord

(* Mutant of CheckPow: a hash that is the target does not meet it.         *)
CheckPowStrictly == order = "Less"

CheckPow == order \in {"Less", "Equal"}

(* A serialization starts, with variables of its own.                      *)
StartOver(s) ==
  /\ Goto(s)
  /\ level' = 1 /\ k' = 1
  /\ buffer' = [n \in 1..HashLen |-> 0]
  /\ out' = <<>>

(* generate_block_if_pow: the template with the nonce that solves it.      *)
BlockHeader == [header EXCEPT !.nonce = state.nonce]

GenerateBlock ==
  /\ stage = "check" /\ role = "miner" /\ phase = "done"
  /\ CheckPow
  /\ header' = BlockHeader
  /\ role' = "block_hash"
  /\ StartOver("version")
  /\ UNCHANGED <<state, pow, oracle, targetVars>>

NoBlock ==
  /\ stage = "check" /\ role = "miner" /\ phase = "done"
  /\ ~CheckPow
  /\ Goto("mine")
  /\ UNCHANGED <<header, serializeVars, role, state, pow, oracle, targetVars>>

(* RpcBlock::block_hash, for the log; then the block is sent, and what     *)
(* receives it makes a State of it.                                        *)
BlockHash ==
  /\ stage = "new" /\ role = "block_hash"
  /\ role' = "verifier"
  /\ StartOver("decode")
  /\ original' = Target!Zero /\ shift' = 0 /\ word' = 0 /\ target' = Target!Zero
  /\ phase' = "decode"
  /\ UNCHANGED <<header, state, pow, oracle, hash, order>>

(* The receiver calculates the proof of work of the block: the same number *)
(* as the miner, if it gives the same to Keccak.                           *)
Verify ==
  /\ stage = "new" /\ role = "verifier"
  /\ pow' = FinalizeWithNonce(NewHasher(out, header.timestamp), header.nonce)
  /\ hash' \in IF pow' = pow THEN {hash} ELSE Hashes
  /\ StartCheck
  /\ UNCHANGED <<header, serializeVars, role, state, oracle>>

Verified ==
  /\ stage = "check" /\ role = "verifier" /\ phase = "done"
  /\ Goto(IF CheckPow THEN "accepted" ELSE "rejected")
  /\ UNCHANGED <<header, serializeVars, role, state, pow, oracle, targetVars>>

Next ==
  \/ DecodeTarget \/ Serialize \/ SerializeFails
  \/ NewState \/ \E nonce \in Nonces : TryNonce(nonce)
  \/ CompareWord \/ GenerateBlock \/ NoBlock
  \/ BlockHash \/ Verify \/ Verified

Spec == Init /\ [][Next]_vars

-----------------------------------------------------------------------------
(* A reader of the serialization, who knows its format and not the header, *)
(* at position p.                                                          *)
Read(p, n) == [b \in 1..n |-> IF p + b - 1 \in DOMAIN out THEN out[p + b - 1] ELSE 0]

ReadHashes(p, n) == [h \in 1..n |-> Read(p + (h - 1) * HashLen, HashLen)]

ReadInteger(p, w) == Target!FromDigits([b \in 0..w - 1 |-> Read(p, w)[b + 1]], ByteBits, w)

(* Where the levels begin: each behind the number of those before.         *)
LevelStarts(levels) ==
  LET start[l \in 1..levels + 1] ==
        IF l = 1 THEN 1 + U16 + U64
        ELSE start[l - 1] + U64 + ReadInteger(start[l - 1], U64) * HashLen
  IN  start

ReadHeader ==
  LET levels == ReadInteger(1 + U16, U64)
      start == LevelStarts(levels)
      roots == start[levels + 1]
      timestamp == roots + 3 * HashLen
      bits == timestamp + U64
      nonce == bits + U32
      daaScore == nonce + U64
      length == daaScore + 2 * U64
      blueWorkLen == ReadInteger(length, U64)
      pruningPoint == length + U64 + blueWorkLen
  IN  [version |-> ReadInteger(1, U16),
       parents |-> [l \in 1..levels |->
                      ReadHashes(start[l] + U64, ReadInteger(start[l], U64))],
       roots |-> ReadHashes(roots, 3),
       timestamp |-> ReadInteger(timestamp, U64),
       bits |-> ReadInteger(bits, U32),
       nonce |-> ReadInteger(nonce, U64),
       daaScore |-> ReadInteger(daaScore, U64),
       blueScore |-> ReadInteger(daaScore + U64, U64),
       blueWork |-> Read(length + U64, blueWorkLen),
       pruningPoint |-> Read(pruningPoint, HashLen),
       next |-> pruningPoint + HashLen]

(* The serialization has all of the header, for the proof of work all but  *)
(* nonce and timestamp, and nothing else, and can be read in one way only: *)
(* no two headers that differ in what is to be hashed are hashed as one.   *)
SerializationReadsBack ==
  stage = "new" =>
    ReadHeader =
      [version |-> header.version,
       parents |-> [l \in DOMAIN header.parents |->
                      [h \in DOMAIN header.parents[l] |-> Decoded(header.parents[l][h])]],
       roots |-> [r \in 1..3 |-> Decoded(header.roots[r])],
       timestamp |-> IF role = "block_hash" THEN header.timestamp ELSE 0,
       bits |-> header.bits,
       nonce |-> IF role = "block_hash" THEN header.nonce ELSE 0,
       daaScore |-> header.daaScore,
       blueScore |-> header.blueScore,
       blueWork |-> Decoded(BlueWork),
       pruningPoint |-> Decoded(header.pruningPoint),
       next |-> Len(out) + 1]

(* What goes to Keccak is a message as sponges of its rate, of seventeen   *)
(* words, take it: word by word from the first, padded behind its end and  *)
(* in the last word.  The message is the one that pow.rs names: the hash,  *)
(* the time, thirty-two bytes of zero and the nonce.                       *)
Message(bytes, timestamp, nonce) ==
  [n \in 1..4 |-> <<"preImage", <<bytes, n - 1>>>>]
    \o <<<<"time", timestamp>>>>
    \o [n \in 1..4 |-> <<"zero", 0>>]
    \o <<<<"nonce", nonce>>>>

Absorbed(message) ==
  {<<n - 1, message[n][1], message[n][2]>> : n \in {m \in DOMAIN message : message[m][1] # "zero"}}
    \cup {<<Len(message), "padding", "0x04">>, <<16, "padding", "0x80">>}

KeccakAbsorbsMessage ==
  stage = "check" =>
    pow = Absorbed(Message(out, header.timestamp,
                           IF role = "miner" THEN state.nonce ELSE header.nonce))

(* The receiver of a block accepts it: of the block alone it decodes the   *)
(* target and calculates the proof of work that made the miner send it,    *)
(* however many nonces were tried before.                                  *)
VerifierAgrees == stage # "rejected"

(* A block is made of exactly the hashes that are not larger than the      *)
(* target, as numbers: no solution is lost, and nothing else is sent.      *)
SolutionsAreBlocks ==
  LET met == Target!Value(hash) <= Target!Number(Compact(header.bits))
  IN  /\ role # "miner" => met
      /\ stage = "mine" /\ pow # {} => ~met

(* See Target, of which the following are the properties.                  *)
BytesAreLittleEndian == Target!BytesAreLittleEndian
TargetIsDecoded == Target!TargetIsDecoded
=============================================================================
