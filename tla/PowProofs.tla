----------------------------- MODULE PowProofs -----------------------------
(***************************************************************************)
(* What the miner hands to Keccak is the message of the proof of work, and *)
(* who receives a block finds the proof of work that made the miner send   *)
(* it.                                                                     *)
(*                                                                         *)
(* The receiver decodes and serializes the same header again, but for the  *)
(* nonce, which is not part of it.  So the argument is that decoding and   *)
(* serializing for the proof of work are steps of a function, Step, of what*)
(* they compute with and of the header without its nonce; that a header has*)
(* therefore one end only of its decoding and serialization; and that all  *)
(* else a proof of work depends on goes with the block.                    *)
(***************************************************************************)
EXTENDS Pow, NumberFacts

(* What is where in a sequence made of two.                                *)
LEMMA Joined ==
  ASSUME NEW V, NEW s \in Seq(V), NEW t \in Seq(V)
  PROVE  /\ s \o t \in Seq(V)
         /\ Len(s \o t) = Len(s) + Len(t)
         /\ \A n \in 1..Len(s) : (s \o t)[n] = s[n]
         /\ \A n \in 1..Len(t) : (s \o t)[Len(s) + n] = t[n]
<1>1. s \o t \in Seq(V) /\ Len(s \o t) = Len(s) + Len(t)
  OBVIOUS
<1>2. \A n \in 1..Len(s) : (s \o t)[n] = s[n]
  OBVIOUS
<1>3. ASSUME NEW n \in 1..Len(t) PROVE (s \o t)[Len(s) + n] = t[n]
  <2>1. Len(s) \in Nat /\ Len(s) + n \in Len(s)+1..Len(s)+Len(t) /\ (Len(s) + n) - Len(s) = n
    OBVIOUS
  <2> QED
    BY <2>1
<1> QED
  BY <1>1, <1>2, <1>3

(* The first fact: what is given to Keccak is the message.                 *)
LEMMA MessageIsAbsorbed ==
  ASSUME NEW bytes, NEW timestamp, NEW nonce
  PROVE  FinalizeWithNonce(NewHasher(bytes, timestamp), nonce)
           = Absorbed(Message(bytes, timestamp, nonce))
<1> DEFINE hashed == [n \in 1..4 |-> <<"preImage", <<bytes, n - 1>>>>]
           time == <<<<"time", timestamp>>>>
           zeros == [n \in 1..4 |-> <<"zero", 0>>]
           last == <<<<"nonce", nonce>>>>
           V == {hashed[n] : n \in 1..4} \cup {time[1], <<"zero", 0>>, last[1]}
           message == Message(bytes, timestamp, nonce)
<1>1. hashed \in Seq(V) /\ time \in Seq(V) /\ zeros \in Seq(V) /\ last \in Seq(V)
  OBVIOUS
<1>2. Len(hashed) = 4 /\ Len(time) = 1 /\ Len(zeros) = 4 /\ Len(last) = 1
  OBVIOUS
<1>3. message = hashed \o time \o zeros \o last
  BY DEF Message
<1>4. /\ message \in Seq(V) /\ Len(message) = 10
      /\ \A n \in 1..4 : message[n] = hashed[n]
      /\ message[5] = time[1]
      /\ \A n \in 6..9 : message[n] = zeros[n - 5]
      /\ message[10] = last[1]
  <2> HIDE DEF hashed, time, zeros, last, V, message
  <2> DEFINE two == hashed \o time
             three == two \o zeros
  <2>1. two \in Seq(V) /\ Len(two) = 5 /\ two[5] = time[1] /\ \A n \in 1..4 : two[n] = hashed[n]
    <3>1. /\ two \in Seq(V) /\ Len(two) = Len(hashed) + Len(time)
          /\ \A n \in 1..Len(hashed) : two[n] = hashed[n]
          /\ \A n \in 1..Len(time) : two[Len(hashed) + n] = time[n]
      BY <1>1, Joined
    <3> HIDE DEF two
    <3>2. two[4 + 1] = time[1]
      BY <3>1, <1>2
    <3> QED
      BY <3>1, <3>2, <1>2
  <2> HIDE DEF two
  <2>2. /\ three \in Seq(V) /\ Len(three) = 9
        /\ \A n \in 1..5 : three[n] = two[n]
        /\ \A n \in 6..9 : three[n] = zeros[n - 5]
    <3>1. /\ three \in Seq(V) /\ Len(three) = Len(two) + Len(zeros)
          /\ \A n \in 1..Len(two) : three[n] = two[n]
          /\ \A n \in 1..Len(zeros) : three[Len(two) + n] = zeros[n]
      <4>1. two \in Seq(V) /\ zeros \in Seq(V)
        BY <1>1, <2>1
      <4> QED
        BY <4>1, Joined
    <3> HIDE DEF three
    <3>2. ASSUME NEW n \in 6..9 PROVE three[n] = zeros[n - 5]
      <4>1. n - 5 \in 1..4 /\ 5 + (n - 5) = n
        OBVIOUS
      <4> QED
        BY <3>1, <4>1, <2>1, <1>2
    <3> QED
      BY <3>1, <3>2, <2>1, <1>2
  <2>3. message = three \o last
    BY <1>3 DEF two
  <2> HIDE DEF three
  <2>4. /\ message \in Seq(V) /\ Len(message) = 10
        /\ \A n \in 1..9 : message[n] = three[n]
        /\ message[10] = last[1]
    <3>1. /\ message \in Seq(V) /\ Len(message) = Len(three) + Len(last)
          /\ \A n \in 1..Len(three) : message[n] = three[n]
          /\ \A n \in 1..Len(last) : message[Len(three) + n] = last[n]
      <4>1. three \in Seq(V) /\ last \in Seq(V)
        BY <1>1, <2>2
      <4> HIDE DEF message
      <4> QED
        BY <4>1, <2>3, Joined
    <3>2. message[9 + 1] = last[1]
      BY <3>1, <2>2, <1>2
    <3> QED
      BY <3>1, <3>2, <2>2, <1>2
  <2> QED
    BY <2>1, <2>2, <2>4
<1>5. /\ DOMAIN message = 1..10
      /\ \A n \in 1..4 : message[n] = <<"preImage", <<bytes, n - 1>>>>
      /\ message[5] = <<"time", timestamp>>
      /\ \A n \in 6..9 : message[n] = <<"zero", 0>>
      /\ message[10] = <<"nonce", nonce>>
  BY <1>4
<1> HIDE DEF message
<1> DEFINE words == {<<n - 1, message[n][1], message[n][2]>> :
                       n \in {m \in DOMAIN message : message[m][1] # "zero"}}
           put == {<<n, "preImage", <<bytes, n>>>> : n \in 0..3} \cup {<<4, "time", timestamp>>}
                    \cup {<<9, "nonce", nonce>>}
<1>6. {m \in DOMAIN message : message[m][1] # "zero"} = 1..5 \cup {10}
  BY <1>5
<1>7. words = put
  <2>1. words = {<<n - 1, message[n][1], message[n][2]>> : n \in 1..5 \cup {10}}
    BY <1>6
  <2>2. \A n \in 1..4 :
          <<n - 1, message[n][1], message[n][2]>> = <<n - 1, "preImage", <<bytes, n - 1>>>>
    BY <1>5
  <2>3. <<5 - 1, message[5][1], message[5][2]>> = <<4, "time", timestamp>>
    BY <1>5
  <2>4. <<10 - 1, message[10][1], message[10][2]>> = <<9, "nonce", nonce>>
    BY <1>5
  <2>5. words \subseteq put
    <3> SUFFICES ASSUME NEW n \in 1..5 \cup {10}
                 PROVE  <<n - 1, message[n][1], message[n][2]>> \in put
      BY <2>1
    <3>1. CASE n \in 1..4
      BY <2>2, <3>1
    <3>2. CASE n = 5 \/ n = 10
      BY <2>3, <2>4, <3>2
    <3> QED
      BY <3>1, <3>2
  <2>6. \A n \in 0..3 : n + 1 \in 1..4 /\ (n + 1) - 1 = n
    OBVIOUS
  <2>7. put \subseteq words
    BY <2>1, <2>2, <2>3, <2>4, <2>6
  <2> QED
    BY <2>5, <2>7
<1>8. FinalizeWithNonce(NewHasher(bytes, timestamp), nonce) = INITIAL_STATE \cup put
  BY DEF FinalizeWithNonce, NewHasher, Xor, INITIAL_STATE
<1>9. Absorbed(message) = words \cup INITIAL_STATE
  BY <1>4 DEF Absorbed, INITIAL_STATE
<1> QED
  BY <1>7, <1>8, <1>9 DEF message

-----------------------------------------------------------------------------
(* What decoding and serializing compute with.                             *)
Config ==
  [stage |-> stage, level |-> level, k |-> k, buffer |-> buffer, out |-> out,
   original |-> original, shift |-> shift, word |-> word, target |-> target, phase |-> phase]

First ==
  [stage |-> "decode", level |-> 1, k |-> 1, buffer |-> [n \in 1..HashLen |-> 0], out |-> <<>>,
   original |-> Target!Zero, shift |-> 0, word |-> 0, target |-> Target!Zero,
   phase |-> "decode"]

(* A step of DecodeTarget.                                                 *)
DecodeStep(c) ==
  LET bits == Compact(header.bits)
      m == Target!Mantissa(bits)
      wordShift == c.shift \div WordBits
      bitShift == c.shift % WordBits
      Added(n) ==
        c.target[n]
          + (IF n = c.word + wordShift THEN Target!Shl(c.original[c.word], bitShift) ELSE 0)
          + (IF bitShift > 0 /\ n = c.word + wordShift + 1
             THEN Target!Shr(c.original[c.word], WordBits - bitShift) ELSE 0)
      done == [c EXCEPT !.phase = "compare", !.word = Words - 1, !.stage = "version"]
  IN  IF c.phase = "decode"
      THEN IF Target!Negative(m) THEN done
           ELSE [c EXCEPT !.original = Target!FromU64(m), !.shift = Target!Exponent(bits),
                          !.phase = "shift", !.word = 0]
      ELSE IF c.word < Words
           THEN [c EXCEPT !.target = [n \in 0..Words - 1 |-> Added(n)], !.word = c.word + 1]
           ELSE done

Given(c, bytes, s) == [c EXCEPT !.out = c.out \o bytes, !.stage = s]

GivenHash(c, string, s) ==
  [c EXCEPT !.buffer = Decoded(string), !.out = c.out \o Decoded(string), !.k = c.k + 1,
            !.stage = s]

(* A step of Serialize for the proof of work.                              *)
SerializeStep(c) ==
  CASE c.stage = "version" ->
         Given(c, LittleEndian(header.version, U16) \o LittleEndian(Len(header.parents), U64),
               "level")
    [] c.stage = "level" ->
         IF c.level <= Len(header.parents)
         THEN [Given(c, LittleEndian(Len(header.parents[c.level]), U64), "parent") EXCEPT !.k = 1]
         ELSE [c EXCEPT !.k = 1, !.stage = "roots"]
    [] c.stage = "parent" ->
         IF c.k <= Len(header.parents[c.level])
         THEN GivenHash(c, header.parents[c.level][c.k], "parent")
         ELSE [c EXCEPT !.level = c.level + 1, !.stage = "level"]
    [] c.stage = "roots" ->
         GivenHash(c, header.roots[c.k], IF c.k = 3 THEN "numbers" ELSE "roots")
    [] c.stage = "numbers" ->
         Given(c, LittleEndian(0, U64) \o LittleEndian(header.bits, U32)
                    \o LittleEndian(0, U64) \o LittleEndian(header.daaScore, U64)
                    \o LittleEndian(header.blueScore, U64), "blueWork")
    [] c.stage = "blueWork" ->
         LET b == Decoded(BlueWork) \o SubSeq(c.buffer, BlueWorkLen + 1, HashLen)
         IN  [Given(c, LittleEndian(BlueWorkLen, U64) \o BlueWorkBytes(b), "pruningPoint")
                EXCEPT !.buffer = b]
    [] OTHER -> [GivenHash(c, header.pruningPoint, "new") EXCEPT !.k = c.k]

Step(c) == IF c.stage = "decode" THEN DecodeStep(c) ELSE SerializeStep(c)

(* R is a run of n steps that ends in c; at stage "new" there is no next.  *)
RunTo(R, n, c) ==
  /\ R[0] = First
  /\ \A i \in 0..n-1 : R[i].stage # "new" /\ R[i + 1] = Step(R[i])
  /\ R[n] = c

Reached(c) == \E n \in Nat : \E R : RunTo(R, n, c)

(* One step further.                                                       *)
LEMMA ReachedNext ==
  ASSUME NEW c, Reached(c), c.stage # "new"
  PROVE  Reached(Step(c))
<1>n. PICK n \in Nat : \E R : RunTo(R, n, c)
  BY DEF Reached
<1>1. PICK R : RunTo(R, n, c)
  BY <1>n
<1> DEFINE Q == [i \in 0..n+1 |-> IF i = n + 1 THEN Step(c) ELSE R[i]]
<1>2. Q[0] = First /\ Q[n + 1] = Step(c)
  BY <1>1 DEF RunTo
<1>3. ASSUME NEW i \in 0..(n+1)-1
      PROVE  Q[i].stage # "new" /\ Q[i + 1] = Step(Q[i])
  <2>1. Q[i] = R[i]
    OBVIOUS
  <2>2. CASE i = n
    BY <1>1, <2>1, <2>2, <1>2 DEF RunTo
  <2>3. CASE i # n
    <3>1. i \in 0..n-1 /\ Q[i + 1] = R[i + 1]
      BY <2>3
    <3> QED
      BY <1>1, <2>1, <3>1 DEF RunTo
  <2> QED
    BY <2>2, <2>3
<1>4. RunTo(Q, n + 1, Step(c))
  <2> HIDE DEF Q
  <2> QED
    BY <1>2, <1>3 DEF RunTo
<1> QED
  BY <1>4 DEF Reached

(* Two runs to an end are the same, and so are their ends.                 *)
LEMMA OneEnd ==
  ASSUME NEW c, Reached(c), c.stage = "new",
         NEW d, Reached(d), d.stage = "new"
  PROVE  c = d
<1>n. PICK n \in Nat : \E R : RunTo(R, n, c)
  BY DEF Reached
<1>1. PICK R : RunTo(R, n, c)
  BY <1>n
<1>m. PICK m \in Nat : \E Q : RunTo(Q, m, d)
  BY DEF Reached
<1>2. PICK Q : RunTo(Q, m, d)
  BY <1>m
<1> DEFINE S == {i \in Nat : i <= n /\ i <= m => R[i] = Q[i]}
<1>3. 0 \in S
  BY <1>1, <1>2 DEF RunTo
<1>4. ASSUME NEW i \in Nat, i \in S PROVE i + 1 \in S
  <2> SUFFICES ASSUME i + 1 <= n, i + 1 <= m PROVE R[i + 1] = Q[i + 1]
    OBVIOUS
  <2>1. R[i] = Q[i] /\ i \in 0..n-1 /\ i \in 0..m-1
    BY <1>4
  <2> QED
    BY <1>1, <1>2, <2>1 DEF RunTo
<1>5. \A i \in Nat : i <= n /\ i <= m => R[i] = Q[i]
  <2>1. Nat \subseteq S
    <3> HIDE DEF S
    <3> QED
      BY <1>3, <1>4, SetInduction
  <2> QED
    BY <2>1
<1>6. ~(n < m)
  <2> SUFFICES ASSUME n < m PROVE FALSE
    OBVIOUS
  <2>1. n \in 0..m-1 /\ R[n] = Q[n]
    BY <1>5
  <2> QED
    BY <1>1, <1>2, <2>1 DEF RunTo
<1>7. ~(m < n)
  <2> SUFFICES ASSUME m < n PROVE FALSE
    OBVIOUS
  <2>1. m \in 0..n-1 /\ R[m] = Q[m]
    BY <1>5
  <2> QED
    BY <1>1, <1>2, <2>1 DEF RunTo
<1>8. n = m /\ R[n] = Q[m]
  BY <1>5, <1>6, <1>7
<1> QED
  BY <1>1, <1>2, <1>8 DEF RunTo

-----------------------------------------------------------------------------
(* All of a header that is given to the hasher for the proof of work.      *)
Hashed(h) ==
  <<h.version, h.parents, h.roots, h.bits, h.daaScore, h.blueScore, h.blueWork, h.pruningPoint>>

(* The nonce, and the time, make no difference to what is reached.         *)
LEMMA SameIsReached ==
  ASSUME Hashed(header') = Hashed(header)
  PROVE  \A c : Reached(c)' <=> Reached(c)
<1>1. /\ header'.version = header.version /\ header'.parents = header.parents
      /\ header'.roots = header.roots /\ header'.bits = header.bits
      /\ header'.daaScore = header.daaScore /\ header'.blueScore = header.blueScore
      /\ header'.blueWork = header.blueWork /\ header'.pruningPoint = header.pruningPoint
  BY DEF Hashed
<1>2. ASSUME NEW c PROVE DecodeStep(c)' = DecodeStep(c)
  BY <1>1 DEF DecodeStep
<1>3. ASSUME NEW c PROVE SerializeStep(c)' = SerializeStep(c)
  BY <1>1 DEF SerializeStep, BlueWork, BlueWorkLen, BlueWorkBytes
<1>4. \A c : Step(c)' = Step(c)
  BY <1>2, <1>3 DEF Step
<1>5. First' = First
  BY DEF First
<1> QED
  BY <1>4, <1>5 DEF Reached, RunTo

(* The steps of the specification are steps of Step.                       *)
LEMMA DecodesAsStep ==
  ASSUME DecodeTarget
  PROVE  Config' = Step(Config)
<1> DEFINE m == Target!Mantissa(Compact(header.bits))
<1>1. stage = "decode" /\ UNCHANGED <<level, k, buffer, out>> /\ Words \in Nat
  BY PowAssumption DEF DecodeTarget, serializeVars, Target!TargetAssumption
<1>2. Config.stage = "decode" /\ Config.phase = phase /\ Config.word = word
  BY <1>1 DEF Config
<1>3. Step(Config) = DecodeStep(Config)
  BY <1>2 DEF Step
<1>4. ASSUME phase' = "compare", word' = Words - 1, UNCHANGED <<original, shift, target>>,
             DecodeStep(Config)
               = [Config EXCEPT !.phase = "compare", !.word = Words - 1, !.stage = "version"]
      PROVE  Config' = Step(Config)
  <2>1. stage' = "version"
    BY <1>4 DEF DecodeTarget
  <2> QED
    BY <1>1, <1>3, <1>4, <2>1 DEF Config
<1>5. CASE Target!Decode /\ Target!Negative(m)
  <2>1. /\ phase = "decode" /\ phase' = "compare" /\ word' = Words - 1
        /\ UNCHANGED <<original, shift, target>>
    BY <1>5 DEF Target!Decode
  <2>2. DecodeStep(Config)
          = [Config EXCEPT !.phase = "compare", !.word = Words - 1, !.stage = "version"]
    BY <1>2, <1>5, <2>1 DEF DecodeStep
  <2> QED
    BY <1>4, <2>1, <2>2
<1>6. CASE Target!Decode /\ ~Target!Negative(m)
  <2> DEFINE o == Target!FromU64(m)
             e == Target!Exponent(Compact(header.bits))
  <2>1. /\ phase = "decode" /\ original' = o /\ shift' = e /\ phase' = "shift" /\ word' = 0
        /\ UNCHANGED target
    BY <1>6 DEF Target!Decode
  <2>2. stage' = stage
    BY <2>1 DEF DecodeTarget
  <2>3. DecodeStep(Config)
          = [Config EXCEPT !.original = o, !.shift = e, !.phase = "shift", !.word = 0]
    BY <1>2, <1>6, <2>1 DEF DecodeStep
  <2> HIDE DEF o, e
  <2> QED
    BY <1>1, <1>3, <2>1, <2>2, <2>3 DEF Config
<1>7. CASE Target!ShiftWord
  <2> DEFINE r == [n \in 0..Words - 1 |-> target[n] + Target!Shifted(n) + Target!Carried(n)]
  <2>1. /\ phase = "shift" /\ word < Words /\ target' = r /\ word' = word + 1
        /\ UNCHANGED <<original, shift, phase>>
    BY <1>7 DEF Target!ShiftWord
  <2>2. stage' = stage
    BY <2>1 DEF DecodeTarget
  <2>3. Config.target = target /\ Config.original = original /\ Config.shift = shift
    BY DEF Config
  <2>4. DecodeStep(Config) = [Config EXCEPT !.target = r, !.word = word + 1]
    BY <1>2, <2>1, <2>3 DEF DecodeStep, Target!Shifted, Target!Carried, Target!WordShift,
      Target!BitShift
  <2> HIDE DEF r
  <2> QED
    BY <1>1, <1>3, <2>1, <2>2, <2>4 DEF Config
<1>8. CASE Target!EndShift
  <2>1. /\ phase = "shift" /\ word = Words /\ ~(word < Words)
        /\ phase' = "compare" /\ word' = Words - 1
        /\ UNCHANGED <<original, shift, target>>
    BY <1>1, <1>8 DEF Target!EndShift
  <2>2. DecodeStep(Config)
          = [Config EXCEPT !.phase = "compare", !.word = Words - 1, !.stage = "version"]
    BY <1>2, <2>1 DEF DecodeStep
  <2> QED
    BY <1>4, <2>1, <2>2
<1> QED
  BY <1>5, <1>6, <1>7, <1>8 DEF DecodeTarget

(* The serialization is at a level and a hash that there are.              *)
AtParent ==
  /\ level \in Nat \ {0} /\ k \in Nat \ {0}
  /\ stage = "parent" => level \in 1..Len(header.parents)

LEMMA ParentsAreCounted ==
  ASSUME header \in Header
  PROVE  /\ Len(header.parents) \in Nat
         /\ \A l \in 1..Len(header.parents) : Len(header.parents[l]) \in Nat
<1> DEFINE String == Seq(0..Digit)
<1>1. header.parents \in Seq(Vec(String))
  BY DEF Header, Vec
<1> HIDE DEF String
<1>2. \A l \in 1..Len(header.parents) : header.parents[l] \in Vec(String)
  BY <1>1
<1>3. \A l \in 1..Len(header.parents) : header.parents[l] \in Seq(String)
  BY <1>2 DEF Vec
<1> QED
  BY <1>1, <1>3

(* The configuration after one more hash.                                  *)
AfterHash(o, b, n, s) ==
  [stage |-> s, level |-> level, k |-> n, buffer |-> b, out |-> o,
   original |-> original, shift |-> shift, word |-> word, target |-> target, phase |-> phase]

LEMMA HashGiven ==
  ASSUME NEW string, NEW s
  PROVE  GivenHash(Config, string, s)
           = AfterHash(out \o Decoded(string), Decoded(string), k + 1, s)
<1> DEFINE d == Decoded(string)
           o == out \o d
           n == k + 1
<1>1. Config = AfterHash(out, buffer, k, stage)
  BY DEF Config, AfterHash
<1>2. GivenHash(Config, string, s)
        = [[[[Config EXCEPT !.buffer = d] EXCEPT !.out = o] EXCEPT !.k = n] EXCEPT !.stage = s]
  <2>1. Config.out = out /\ Config.k = k
    BY DEF Config
  <2> HIDE DEF d
  <2> QED
    BY <2>1 DEF GivenHash, d
<1> HIDE DEF d, o, n
<1>3. [AfterHash(out, buffer, k, stage) EXCEPT !.buffer = d] = AfterHash(out, d, k, stage)
  BY DEF AfterHash
<1>4. [AfterHash(out, d, k, stage) EXCEPT !.out = o] = AfterHash(o, d, k, stage)
  BY DEF AfterHash
<1>5. [AfterHash(o, d, k, stage) EXCEPT !.k = n] = AfterHash(o, d, n, stage)
  BY DEF AfterHash
<1>6. [AfterHash(o, d, n, stage) EXCEPT !.stage = s] = AfterHash(o, d, n, s)
  BY DEF AfterHash
<1> QED
  BY <1>1, <1>2, <1>3, <1>4, <1>5, <1>6 DEF d, o, n

LEMMA HashAsStep ==
  ASSUME NEW string, NEW s,
         out' = out \o Decoded(string), buffer' = Decoded(string), k' = k + 1, stage' = s,
         UNCHANGED <<level, target, original, shift, word, phase>>
  PROVE  Config' = GivenHash(Config, string, s)
BY HashGiven DEF Config, AfterHash

LEMMA SerializesAsStep ==
  ASSUME Serialize, ForPrePow, header \in Header, AtParent
  PROVE  Config' = Step(Config)
<1> USE DEF Emit, Goto, targetVars
<1>0. Config.stage = stage /\ Config.level = level /\ Config.k = k /\ Config.buffer = buffer
  BY DEF Config
<1>1. CASE Version
  <2> DEFINE bytes ==
               LittleEndian(header.version, U16) \o LittleEndian(Len(header.parents), U64)
  <2>1. /\ stage = "version" /\ out' = out \o bytes /\ stage' = "level"
        /\ UNCHANGED <<level, k, buffer, target, original, shift, word, phase>>
    BY <1>1 DEF Version
  <2>2. Step(Config) = Given(Config, bytes, "level")
    BY <1>0, <2>1 DEF Step, SerializeStep
  <2> HIDE DEF bytes
  <2> QED
    BY <2>1, <2>2 DEF Config, Given
<1>2. CASE Level
  <2> DEFINE bytes == LittleEndian(Len(header.parents[level]), U64)
  <2>1. /\ stage = "level" /\ level <= Len(header.parents)
        /\ out' = out \o bytes /\ stage' = "parent" /\ k' = 1
        /\ UNCHANGED <<level, buffer, target, original, shift, word, phase>>
    BY <1>2 DEF Level
  <2>2. Step(Config) = [Given(Config, bytes, "parent") EXCEPT !.k = 1]
    BY <1>0, <2>1 DEF Step, SerializeStep
  <2> HIDE DEF bytes
  <2> QED
    BY <2>1, <2>2 DEF Config, Given
<1>3. CASE EndLevels
  <2>1. /\ stage = "level" /\ ~(level <= Len(header.parents)) /\ stage' = "roots" /\ k' = 1
        /\ UNCHANGED <<level, buffer, out, target, original, shift, word, phase>>
    BY <1>3, ParentsAreCounted DEF EndLevels, AtParent
  <2>2. Step(Config) = [Config EXCEPT !.k = 1, !.stage = "roots"]
    BY <1>0, <2>1 DEF Step, SerializeStep
  <2> QED
    BY <2>1, <2>2 DEF Config
<1>4. CASE Parent
  <2> DEFINE string == header.parents[level][k]
  <2>1. /\ stage = "parent" /\ k <= Len(header.parents[level])
        /\ out' = out \o Decoded(string) /\ buffer' = Decoded(string) /\ k' = k + 1
        /\ UNCHANGED <<stage, level, target, original, shift, word, phase>>
    BY <1>4 DEF Parent, EmitHash
  <2>2. Step(Config) = GivenHash(Config, string, "parent")
    BY <1>0, <2>1 DEF Step, SerializeStep
  <2> QED
    BY <2>1, <2>2, HashAsStep
<1>5. CASE EndLevel
  <2>1. /\ stage = "parent" /\ ~(k <= Len(header.parents[level]))
        /\ stage' = "level" /\ level' = level + 1
        /\ UNCHANGED <<k, buffer, out, target, original, shift, word, phase>>
    BY <1>5, ParentsAreCounted DEF EndLevel, AtParent
  <2>2. Step(Config) = [Config EXCEPT !.level = level + 1, !.stage = "level"]
    BY <1>0, <2>1 DEF Step, SerializeStep
  <2> QED
    BY <2>1, <2>2 DEF Config
<1>6. CASE Root
  <2> DEFINE string == header.roots[k]
             next == IF k = 3 THEN "numbers" ELSE "roots"
  <2>1. /\ stage = "roots" /\ stage' = next
        /\ out' = out \o Decoded(string) /\ buffer' = Decoded(string) /\ k' = k + 1
        /\ UNCHANGED <<level, target, original, shift, word, phase>>
    BY <1>6 DEF Root, EmitHash
  <2>2. Step(Config) = GivenHash(Config, string, next)
    BY <1>0, <2>1 DEF Step, SerializeStep
  <2> QED
    BY <2>1, <2>2, HashAsStep
<1>7. CASE Numbers
  <2> DEFINE bytes ==
               LittleEndian(0, U64) \o LittleEndian(header.bits, U32)
                 \o LittleEndian(0, U64) \o LittleEndian(header.daaScore, U64)
                 \o LittleEndian(header.blueScore, U64)
  <2>1. /\ stage = "numbers" /\ out' = out \o bytes /\ stage' = "blueWork"
        /\ UNCHANGED <<level, k, buffer, target, original, shift, word, phase>>
    BY <1>7, ForPrePow DEF Numbers, HashedNonce, HashedTimestamp
  <2>2. Step(Config) = Given(Config, bytes, "blueWork")
    BY <1>0, <2>1 DEF Step, SerializeStep
  <2> HIDE DEF bytes
  <2> QED
    BY <2>1, <2>2 DEF Config, Given
<1>8. CASE EmitBlueWork
  <2> DEFINE b == Decoded(BlueWork) \o SubSeq(buffer, BlueWorkLen + 1, HashLen)
             bytes == LittleEndian(BlueWorkLen, U64) \o BlueWorkBytes(b)
  <2>1. /\ stage = "blueWork" /\ out' = out \o bytes /\ buffer' = b /\ stage' = "pruningPoint"
        /\ UNCHANGED <<level, k, target, original, shift, word, phase>>
    BY <1>8 DEF EmitBlueWork
  <2>2. Step(Config) = [Given(Config, bytes, "pruningPoint") EXCEPT !.buffer = b]
    BY <1>0, <2>1 DEF Step, SerializeStep
  <2> HIDE DEF b, bytes
  <2> QED
    BY <2>1, <2>2 DEF Config, Given
<1>9. CASE PruningPoint
  <2> DEFINE string == header.pruningPoint
  <2>1. /\ stage = "pruningPoint" /\ stage' = "new"
        /\ out' = out \o Decoded(string) /\ buffer' = Decoded(string)
        /\ UNCHANGED <<level, k, target, original, shift, word, phase>>
    BY <1>9 DEF PruningPoint, EmitHash
  <2>2. Step(Config) = [GivenHash(Config, string, "new") EXCEPT !.k = k]
    BY <1>0, <2>1 DEF Step, SerializeStep
  <2> DEFINE o == out \o Decoded(string)
             b == Decoded(string)
             n == k + 1
  <2>3. GivenHash(Config, string, "new") = AfterHash(o, b, n, "new")
    BY HashGiven
  <2>4. [AfterHash(o, b, n, "new") EXCEPT !.k = k] = AfterHash(o, b, k, "new")
    <3> HIDE DEF o, b, n
    <3> QED
      BY DEF AfterHash
  <2>5. Config' = AfterHash(o, b, k, "new")
    BY <2>1 DEF Config, AfterHash
  <2> HIDE DEF string, o, b, n
  <2> QED
    BY <2>2, <2>3, <2>4, <2>5
<1> QED
  BY <1>1, <1>2, <1>3, <1>4, <1>5, <1>6, <1>7, <1>8, <1>9 DEF Serialize

-----------------------------------------------------------------------------
Computing ==
  {"decode", "version", "level", "parent", "roots", "numbers", "blueWork", "pruningPoint", "new"}

(* For the header's proof of work, o is hashed, and t is the target.       *)
Finished(o, t) == \E c : Reached(c) /\ c.stage = "new" /\ c.out = o /\ c.target = t

LEMMA FinishedOnce ==
  ASSUME NEW o, NEW t, Finished(o, t), NEW p, NEW u, Finished(p, u)
  PROVE  o = p /\ t = u
BY OneEnd DEF Finished

(* Of two numbers that differ, the first is the smaller one.               *)
Met(h, t) ==
  \A j \in 0..Words-1 :
    h[j] # t[j] /\ (\A n \in j+1..Words-1 : h[n] = t[n]) => h[j] < t[j]

(* cmp has found the words above the one it is at to be equal, and says in *)
(* the end which number is smaller.                                        *)
Comparing ==
  stage = "check" =>
    \/ /\ phase = "compare"
       /\ word \in 0..Words-1
       /\ \A n \in word+1..Words-1 : hash[n] = target[n]
    \/ phase = "done" /\ (CheckPow <=> Met(hash, target))

(* Where in its life a State is, and whose it is.                          *)
RoleInv ==
  /\ header \in Header
  /\ state.nonce \in Unsigned(U64)
  /\ role \in {"miner", "block_hash", "verifier"}
  /\ stage = "mine" => role = "miner"
  /\ stage = "check" => role # "block_hash"

(* What has been computed so far is what the header makes it.              *)
ComputingInv ==
  /\ AtParent
  /\ role # "block_hash" /\ stage \in Computing => Reached(Config)
  /\ stage \in {"mine", "check"} => Finished(out, target)

(* The hasher of the miner is not changed by the nonces that are tried.    *)
HasherInv ==
  /\ stage \in {"mine", "check"} /\ role = "miner" =>
       state.hasher = NewHasher(out, header.timestamp)
  /\ stage = "check" =>
       pow = FinalizeWithNonce(NewHasher(out, header.timestamp),
                               IF role = "miner" THEN state.nonce ELSE header.nonce)

(* A block was made of its header's proof of work, and that met its target.*)
BlockInv ==
  /\ role # "miner" =>
       \E o, t : /\ Finished(o, t)
                 /\ pow = FinalizeWithNonce(NewHasher(o, header.timestamp), header.nonce)
                 /\ Met(hash, t)
  /\ stage # "rejected"

PowInvariant == RoleInv /\ ComputingInv /\ HasherInv /\ BlockInv /\ Comparing

(* ... nor to what is finished.                                            *)
LEMMA SameIsFinished ==
  ASSUME Hashed(header') = Hashed(header)
  PROVE  \A o, t : Finished(o, t)' <=> Finished(o, t)
BY SameIsReached DEF Finished

LEMMA UnsignedIsNat ==
  ASSUME NEW w \in Nat
  PROVE  Unsigned(w) \subseteq Nat /\ 0 \in Unsigned(w)
<1>1. w * ByteBits \in Nat
  BY PowAssumption DEF Target!TargetAssumption
<1>2. 2^(w * ByteBits) \in Nat \ {0}
  BY <1>1, PowerIsPositive
<1> QED
  BY <1>2 DEF Unsigned

LEMMA InitPowInvariant == Init => PowInvariant
<1> SUFFICES ASSUME Init PROVE PowInvariant
  OBVIOUS
<1> USE DEF Init
<1>1. RoleInv
  BY PowAssumption, UnsignedIsNat DEF RoleInv, NoState
<1>2. Reached(Config)
  <2>1. Config = First
    BY DEF Config, First
  <2>2. RunTo([i \in 0..0 |-> First], 0, First)
    BY DEF RunTo
  <2> QED
    BY <2>1, <2>2 DEF Reached
<1>3. ComputingInv
  BY <1>2 DEF ComputingInv, AtParent
<1>4. HasherInv /\ BlockInv /\ Comparing
  BY DEF HasherInv, BlockInv, Comparing
<1> QED
  BY <1>1, <1>3, <1>4 DEF PowInvariant

(* What serializing and decoding leave alone.                              *)
LEMMA ComputingChanges ==
  ASSUME DecodeTarget \/ Serialize
  PROVE  /\ UNCHANGED <<header, role, state, pow, oracle, hash, order>>
         /\ stage \in Computing \ {"new"} /\ stage' \in Computing
<1>1. CASE DecodeTarget
  <2>1. UNCHANGED <<header, role, state, pow, oracle>> /\ stage = "decode"
    BY <1>1 DEF DecodeTarget
  <2>2. UNCHANGED <<hash, order>>
    BY <1>1 DEF DecodeTarget, Target!Decode, Target!ShiftWord, Target!EndShift
  <2>3. stage' \in {"version", "decode"}
    BY <1>1, <2>1 DEF DecodeTarget
  <2> QED
    BY <2>1, <2>2, <2>3 DEF Computing
<1>2. CASE Serialize
  BY <1>2 DEF Serialize, Version, Level, EndLevels, Parent, EndLevel, Root, Numbers,
    EmitBlueWork, PruningPoint, Goto, targetVars, Computing
<1> QED
  BY <1>1, <1>2

LEMMA StaysAtParent ==
  ASSUME DecodeTarget \/ Serialize, header \in Header, AtParent
  PROVE  AtParent'
<1>1. CASE DecodeTarget
  <2>1. UNCHANGED <<header, level, k>> /\ stage' \in {"version", "decode"}
    BY <1>1 DEF DecodeTarget, serializeVars
  <2> QED
    BY <2>1 DEF AtParent
<1>2. CASE Serialize
  <2> USE DEF AtParent, Goto
  <2>1. CASE Version
    BY <2>1 DEF Version
  <2>2. CASE Level
    BY <2>2, ParentsAreCounted DEF Level
  <2>3. CASE EndLevels
    BY <2>3 DEF EndLevels
  <2>4. CASE Parent
    BY <2>4 DEF Parent
  <2>5. CASE EndLevel
    BY <2>5 DEF EndLevel
  <2>6. CASE Root
    BY <2>6 DEF Root
  <2>7. CASE Numbers \/ EmitBlueWork \/ PruningPoint
    BY <2>7 DEF Numbers, EmitBlueWork, PruningPoint
  <2> QED
    BY <1>2, <2>1, <2>2, <2>3, <2>4, <2>5, <2>6, <2>7 DEF Serialize
<1> QED
  BY <1>1, <1>2

LEMMA ComputingKeeps ==
  ASSUME PowInvariant, DecodeTarget \/ Serialize
  PROVE  PowInvariant'
<1> USE DEF PowInvariant
<1>1. /\ UNCHANGED <<header, role, state, pow, oracle, hash, order>>
      /\ stage \in Computing \ {"new"} /\ stage' \in Computing
  BY ComputingChanges
<1>2. stage' \notin {"mine", "check", "rejected"}
  BY <1>1 DEF Computing
<1>3. \A o, t : Finished(o, t)' <=> Finished(o, t)
  BY <1>1, SameIsFinished DEF Hashed
<1>4. RoleInv'
  BY <1>1, <1>2 DEF RoleInv
<1>5. ASSUME role # "block_hash" PROVE Reached(Config)'
  <2>1. Config' = Step(Config)
    BY <1>5, DecodesAsStep, SerializesAsStep DEF ForPrePow, RoleInv, ComputingInv
  <2>2. Reached(Config) /\ Config.stage # "new"
    BY <1>1, <1>5 DEF ComputingInv, Config
  <2>3. Reached(Step(Config))
    BY <2>2, ReachedNext
  <2>4. Hashed(header') = Hashed(header)
    BY <1>1
  <2>5. \A c : Reached(c)' <=> Reached(c)
    BY <2>4, SameIsReached
  <2> QED
    BY <2>1, <2>3, <2>5
<1>6. ComputingInv'
  BY <1>1, <1>2, <1>5, StaysAtParent DEF ComputingInv, RoleInv
<1>7. HasherInv' /\ Comparing'
  BY <1>2 DEF HasherInv, Comparing
<1>8. BlockInv'
  BY <1>1, <1>2, <1>3 DEF BlockInv
<1> QED
  BY <1>4, <1>6, <1>7, <1>8

(* A step that leaves the header alone, and what is computed of it.        *)
LEMMA ComputedKeeps ==
  ASSUME ComputingInv, UNCHANGED <<header, level, k, out, target>>,
         stage' \notin Computing,
         stage' \in {"mine", "check"} => stage \in {"mine", "check"}
  PROVE  ComputingInv'
<1>1. \A o, t : Finished(o, t)' <=> Finished(o, t)
  BY SameIsFinished DEF Hashed
<1>2. AtParent'
  BY DEF ComputingInv, AtParent, Computing
<1> QED
  BY <1>1, <1>2 DEF ComputingInv

LEMMA BlockKeeps ==
  ASSUME BlockInv, UNCHANGED <<header, role, pow, hash>>, stage' # "rejected"
  PROVE  BlockInv'
<1>1. \A o, t : Finished(o, t)' <=> Finished(o, t)
  BY SameIsFinished DEF Hashed
<1> QED
  BY <1>1 DEF BlockInv

LEMMA PanicKeeps ==
  ASSUME PowInvariant, SerializeFails
  PROVE  PowInvariant'
<1> USE DEF PowInvariant, SerializeFails, Panic, Goto
<1>1. /\ UNCHANGED <<header, level, k, buffer, out, role, state, pow, hash, target>>
      /\ stage' = "panic"
  BY DEF serializeVars, targetVars
<1>2. RoleInv'
  BY <1>1 DEF RoleInv
<1>3. ComputingInv'
  BY <1>1, ComputedKeeps DEF Computing
<1>4. HasherInv' /\ Comparing'
  BY <1>1 DEF HasherInv, Comparing
<1>5. BlockInv'
  BY <1>1, BlockKeeps
<1> QED
  BY <1>2, <1>3, <1>4, <1>5

(* State::new ends what is computed of the header.                         *)
LEMMA FinishedAtNew ==
  ASSUME ComputingInv, stage = "new", role # "block_hash"
  PROVE  Finished(out, target)
<1>1. Reached(Config) /\ Config.stage = "new" /\ Config.out = out /\ Config.target = target
  BY DEF ComputingInv, Computing, Config
<1> QED
  BY <1>1 DEF Finished

LEMMA NewStateKeeps ==
  ASSUME PowInvariant, NewState
  PROVE  PowInvariant'
<1> USE DEF PowInvariant
<1>1. /\ UNCHANGED <<header, level, k, buffer, out, role, pow, hash, target>>
      /\ stage = "new" /\ stage' = "mine" /\ role = "miner"
      /\ state' = [hasher |-> NewHasher(out, header.timestamp), nonce |-> 0]
  BY DEF NewState, serializeVars, targetVars, Goto
<1>2. RoleInv'
  BY <1>1, PowAssumption, UnsignedIsNat DEF RoleInv
<1>3. ComputingInv'
  <2>1. Finished(out, target)
    BY <1>1, FinishedAtNew
  <2>2. \A o, t : Finished(o, t)' <=> Finished(o, t)
    BY <1>1, SameIsFinished DEF Hashed
  <2>3. Finished(out, target)'
    BY <1>1, <2>1, <2>2
  <2> QED
    BY <1>1, <2>3 DEF ComputingInv, AtParent, Computing
<1>4. HasherInv' /\ Comparing'
  BY <1>1 DEF HasherInv, Comparing
<1>5. BlockInv'
  BY <1>1, BlockKeeps
<1> QED
  BY <1>2, <1>3, <1>4, <1>5

LEMMA TryNonceKeeps ==
  ASSUME PowInvariant, NEW nonce \in Nonces, TryNonce(nonce)
  PROVE  PowInvariant'
<1> USE DEF PowInvariant
<1>1. /\ UNCHANGED <<header, level, k, buffer, out, role, target>>
      /\ stage = "mine" /\ stage' = "check" /\ role = "miner"
      /\ pow' = FinalizeWithNonce(state.hasher, nonce)
      /\ state' = [hasher |-> state.hasher, nonce |-> nonce]
      /\ word' = Words - 1 /\ phase' = "compare"
  BY DEF TryNonce, StartCheck, serializeVars, Goto, HasherAfter, RoleInv
<1>2. RoleInv'
  BY <1>1, PowAssumption DEF RoleInv
<1>3. ComputingInv'
  BY <1>1, ComputedKeeps DEF Computing
<1>4. HasherInv'
  BY <1>1 DEF HasherInv
<1>5. Comparing'
  BY <1>1, PowAssumption DEF Comparing, Target!TargetAssumption
<1>6. BlockInv'
  BY <1>1 DEF BlockInv
<1> QED
  BY <1>2, <1>3, <1>4, <1>5, <1>6

(* cmp: the words above the one it is at are equal, and the first that is  *)
(* not decides.                                                            *)
LEMMA ComparingIsMet ==
  ASSUME Comparing, CompareWord
  PROVE  Comparing'
<1>1. /\ stage = "check" /\ phase = "compare" /\ word \in 0..Words-1 /\ Words \in Nat
      /\ \A n \in word+1..Words-1 : hash[n] = target[n]
      /\ stage' = stage /\ UNCHANGED <<hash, target>>
  BY PowAssumption DEF Comparing, CompareWord, Target!CompareWord, Target!TargetAssumption
<1>2. CASE hash[word] # target[word]
  <2>1. phase' = "done" /\ order' = IF hash[word] < target[word] THEN "Less" ELSE "Greater"
    BY <1>2 DEF CompareWord, Target!CompareWord
  <2>2. ASSUME NEW j \in 0..Words-1, hash[j] # target[j],
               \A n \in j+1..Words-1 : hash[n] = target[n]
        PROVE  j = word
    <3>1. ~(j > word)
      BY <1>1, <2>2
    <3>2. ~(j < word)
      BY <1>1, <1>2, <2>2
    <3> QED
      BY <1>1, <3>1, <3>2
  <2>3. Met(hash, target) <=> hash[word] < target[word]
    BY <1>1, <1>2, <2>2 DEF Met
  <2> QED
    BY <1>1, <2>1, <2>3 DEF Comparing, CheckPow, Met
<1>3. CASE hash[word] = target[word] /\ word = 0
  <2>1. phase' = "done" /\ order' = "Equal"
    BY <1>3 DEF CompareWord, Target!CompareWord
  <2>2. \A n \in 0..Words-1 : hash[n] = target[n]
    BY <1>1, <1>3
  <2> QED
    BY <1>1, <2>1, <2>2 DEF Comparing, CheckPow, Met
<1>4. CASE hash[word] = target[word] /\ word > 0
  <2>1. word' = word - 1 /\ phase' = "compare"
    BY <1>1, <1>4 DEF CompareWord, Target!CompareWord
  <2> QED
    BY <1>1, <1>4, <2>1 DEF Comparing
<1> QED
  BY <1>1, <1>2, <1>3, <1>4

LEMMA CompareWordKeeps ==
  ASSUME PowInvariant, CompareWord
  PROVE  PowInvariant'
<1> USE DEF PowInvariant
<1>1. /\ UNCHANGED <<header, stage, level, k, buffer, out, role, state, pow, hash, target>>
      /\ stage = "check"
  BY DEF CompareWord, Target!CompareWord, serializeVars
<1>2. RoleInv'
  BY <1>1 DEF RoleInv
<1>3. ComputingInv'
  BY <1>1, ComputedKeeps DEF Computing
<1>4. HasherInv' /\ Comparing'
  BY <1>1, ComparingIsMet DEF HasherInv
<1>5. BlockInv'
  BY <1>1, BlockKeeps
<1> QED
  BY <1>2, <1>3, <1>4, <1>5

(* The header of a block is the template's but for the nonce.              *)
LEMMA BlockHeaderIsHashed ==
  ASSUME RoleInv
  PROVE  /\ BlockHeader \in Header
         /\ Hashed(BlockHeader) = Hashed(header)
         /\ BlockHeader.timestamp = header.timestamp /\ BlockHeader.nonce = state.nonce
<1>1. header \in Header /\ state.nonce \in Unsigned(U64)
  BY DEF RoleInv
<1>2. BlockHeader \in Header
  BY <1>1 DEF BlockHeader, Header
<1>3. BlockHeader.timestamp = header.timestamp /\ BlockHeader.nonce = state.nonce
  BY <1>1 DEF BlockHeader, Header
<1>4. Hashed(BlockHeader) = Hashed(header)
  BY <1>1 DEF BlockHeader, Header, Hashed
<1> QED
  BY <1>2, <1>3, <1>4

LEMMA GenerateBlockKeeps ==
  ASSUME PowInvariant, GenerateBlock
  PROVE  PowInvariant'
<1> USE DEF PowInvariant
<1>1. /\ UNCHANGED <<state, pow, hash, target>>
      /\ stage = "check" /\ stage' = "version" /\ role = "miner" /\ role' = "block_hash"
      /\ level' = 1 /\ k' = 1 /\ header' = BlockHeader
      /\ Met(hash, target)
  BY DEF GenerateBlock, StartOver, Goto, targetVars, Comparing
<1>2. /\ header' \in Header /\ Hashed(header') = Hashed(header)
      /\ header'.timestamp = header.timestamp /\ header'.nonce = state.nonce
  BY <1>1, BlockHeaderIsHashed
<1>3. RoleInv'
  BY <1>1, <1>2 DEF RoleInv
<1>4. ComputingInv' /\ HasherInv' /\ Comparing'
  BY <1>1 DEF ComputingInv, AtParent, HasherInv, Comparing
<1>5. BlockInv'
  <2>1. Finished(out, target)
    BY <1>1 DEF ComputingInv
  <2>2. \A o, t : Finished(o, t)' <=> Finished(o, t)
    BY <1>2, SameIsFinished
  <2>3. pow' = FinalizeWithNonce(NewHasher(out, header'.timestamp), header'.nonce)
    BY <1>1, <1>2 DEF HasherInv
  <2>4. Met(hash', target)
    BY <1>1
  <2> QED
    BY <1>1, <2>1, <2>2, <2>3, <2>4 DEF BlockInv
<1> QED
  BY <1>3, <1>4, <1>5

LEMMA NoBlockKeeps ==
  ASSUME PowInvariant, NoBlock
  PROVE  PowInvariant'
<1> USE DEF PowInvariant
<1>1. /\ UNCHANGED <<header, level, k, buffer, out, role, state, pow, hash, target>>
      /\ stage = "check" /\ stage' = "mine" /\ role = "miner"
  BY DEF NoBlock, serializeVars, targetVars, Goto
<1>2. RoleInv'
  BY <1>1 DEF RoleInv
<1>3. ComputingInv'
  BY <1>1, ComputedKeeps DEF Computing
<1>4. HasherInv' /\ Comparing'
  BY <1>1 DEF HasherInv, Comparing
<1>5. BlockInv'
  BY <1>1, BlockKeeps
<1> QED
  BY <1>2, <1>3, <1>4, <1>5

(* The receiver starts from the block alone, with variables of its own.    *)
LEMMA BlockHashKeeps ==
  ASSUME PowInvariant, BlockHash
  PROVE  PowInvariant'
<1> USE DEF PowInvariant
<1>1. /\ UNCHANGED <<header, state, pow, hash>>
      /\ stage' = "decode" /\ role = "block_hash" /\ role' = "verifier"
  BY DEF BlockHash, StartOver, Goto
<1>2. Config' = First
  BY DEF BlockHash, StartOver, Goto, Config, First
<1>3. RoleInv' /\ HasherInv' /\ Comparing'
  BY <1>1 DEF RoleInv, HasherInv, Comparing
<1>4. ComputingInv'
  <2>1. \A c : Reached(c)' <=> Reached(c)
    BY <1>1, SameIsReached DEF Hashed
  <2>2. RunTo([i \in 0..0 |-> First], 0, First)
    BY DEF RunTo
  <2>3. Reached(First)
    BY <2>2 DEF Reached
  <2>4. Reached(Config)'
    BY <1>2, <2>1, <2>3
  <2>5. AtParent'
    BY <1>1 DEF BlockHash, StartOver, AtParent
  <2> QED
    BY <1>1, <2>4, <2>5 DEF ComputingInv
<1>5. BlockInv'
  <2>1. \A o, t : Finished(o, t)' <=> Finished(o, t)
    BY <1>1, SameIsFinished DEF Hashed
  <2> QED
    BY <1>1, <2>1 DEF BlockInv
<1> QED
  BY <1>3, <1>4, <1>5

(* The receiver hashes what the miner hashed, and gets what the miner got. *)
LEMMA ReceiverRepeats ==
  ASSUME PowInvariant, Verify
  PROVE  Finished(out, target) /\ pow' = pow /\ hash' = hash
<1>1. /\ stage = "new" /\ role = "verifier"
      /\ pow' = FinalizeWithNonce(NewHasher(out, header.timestamp), header.nonce)
      /\ hash' \in IF pow' = pow THEN {hash} ELSE Hashes
  BY DEF Verify
<1>2. Finished(out, target)
  BY <1>1, FinishedAtNew DEF PowInvariant
<1>3. PICK o, t : /\ Finished(o, t)
                  /\ pow = FinalizeWithNonce(NewHasher(o, header.timestamp), header.nonce)
                  /\ Met(hash, t)
  BY <1>1 DEF PowInvariant, BlockInv
<1>4. o = out /\ t = target
  BY <1>2, <1>3, FinishedOnce
<1> QED
  BY <1>1, <1>2, <1>3, <1>4

LEMMA VerifyKeeps ==
  ASSUME PowInvariant, Verify
  PROVE  PowInvariant'
<1> USE DEF PowInvariant
<1>1. /\ UNCHANGED <<header, level, k, buffer, out, role, state, target>>
      /\ stage = "new" /\ stage' = "check" /\ role = "verifier"
      /\ pow' = FinalizeWithNonce(NewHasher(out, header.timestamp), header.nonce)
      /\ word' = Words - 1 /\ phase' = "compare"
  BY DEF Verify, StartCheck, serializeVars, Goto
<1>2. Finished(out, target) /\ pow' = pow /\ hash' = hash
  BY ReceiverRepeats
<1>3. \A q, u : Finished(q, u)' <=> Finished(q, u)
  BY <1>1, SameIsFinished DEF Hashed
<1>4. RoleInv'
  BY <1>1 DEF RoleInv
<1>5. ComputingInv'
  <2>1. Finished(out, target)'
    BY <1>1, <1>2, <1>3
  <2> QED
    BY <1>1, <2>1 DEF ComputingInv, AtParent, Computing
<1>6. HasherInv'
  BY <1>1 DEF HasherInv
<1>7. Comparing'
  BY <1>1, PowAssumption DEF Comparing, Target!TargetAssumption
<1>8. BlockInv'
  BY <1>1, <1>2, BlockKeeps
<1> QED
  BY <1>4, <1>5, <1>6, <1>7, <1>8

(* ... and so finds that it meets the target, as the miner did.            *)
LEMMA VerifiedKeeps ==
  ASSUME PowInvariant, Verified
  PROVE  PowInvariant'
<1> USE DEF PowInvariant
<1>1. /\ UNCHANGED <<header, level, k, buffer, out, role, state, pow, hash, target>>
      /\ stage = "check" /\ role = "verifier" /\ phase = "done"
      /\ stage' = IF CheckPow THEN "accepted" ELSE "rejected"
  BY DEF Verified, serializeVars, targetVars, Goto
<1>2. PICK o, t : Finished(o, t) /\ Met(hash, t)
  BY <1>1 DEF BlockInv
<1>3. t = target
  BY <1>1, <1>2, FinishedOnce DEF ComputingInv
<1>4. stage' = "accepted"
  BY <1>1, <1>2, <1>3 DEF Comparing
<1>5. RoleInv' /\ HasherInv' /\ Comparing'
  BY <1>1, <1>4 DEF RoleInv, HasherInv, Comparing
<1>6. ComputingInv'
  BY <1>1, <1>4, ComputedKeeps DEF Computing
<1>7. BlockInv'
  BY <1>1, <1>4, BlockKeeps
<1> QED
  BY <1>5, <1>6, <1>7

LEMMA StutterKeeps ==
  ASSUME PowInvariant, UNCHANGED vars
  PROVE  PowInvariant'
<1>1. UNCHANGED <<header, stage, level, k, buffer, out, role, state, pow, hash, target, phase,
                  word, order, original, shift>>
  BY DEF vars, serializeVars, targetVars
<1>2. \A o, t : Finished(o, t)' <=> Finished(o, t)
  BY <1>1, SameIsFinished DEF Hashed
<1>3. \A c : Reached(c)' <=> Reached(c)
  BY <1>1, SameIsReached DEF Hashed
<1>4. Config' = Config
  BY <1>1 DEF Config
<1>5. RoleInv' /\ HasherInv' /\ Comparing'
  BY <1>1 DEF PowInvariant, RoleInv, HasherInv, Comparing, CheckPow
<1>6. ComputingInv'
  BY <1>1, <1>2, <1>3, <1>4 DEF PowInvariant, ComputingInv, AtParent
<1>7. BlockInv'
  BY <1>1, <1>2 DEF PowInvariant, BlockInv
<1> QED
  BY <1>5, <1>6, <1>7 DEF PowInvariant

LEMMA PowInvariantHolds == Spec => []PowInvariant
<1>1. PowInvariant /\ [Next]_vars => PowInvariant'
  BY ComputingKeeps, PanicKeeps, NewStateKeeps, TryNonceKeeps, CompareWordKeeps,
     GenerateBlockKeeps, NoBlockKeeps, BlockHashKeeps, VerifyKeeps, VerifiedKeeps, StutterKeeps
  DEF Next
<1> QED
  BY InitPowInvariant, <1>1, PTL DEF Spec

(* Whenever a proof of work is calculated, by the miner for a nonce that it*)
(* tries on its copy of the hasher or by the receiver for that of a block, *)
(* what Keccak gets is the padded message of pow.rs: hash, time, zeros and *)
(* nonce.                                                                  *)
THEOREM KeccakGetsTheMessage == Spec => []KeccakAbsorbsMessage
<1>1. PowInvariant => KeccakAbsorbsMessage
  <2> SUFFICES ASSUME PowInvariant, stage = "check"
               PROVE  pow = Absorbed(Message(out, header.timestamp,
                              IF role = "miner" THEN state.nonce ELSE header.nonce))
    BY DEF KeccakAbsorbsMessage
  <2> QED
    BY MessageIsAbsorbed DEF PowInvariant, HasherInv
<1> QED
  BY <1>1, PowInvariantHolds, PTL

(* A block that the miner makes is never rejected: whatever the header and *)
(* however many nonces were tried, who makes a State of the block's header *)
(* alone calculates the miner's proof of work again, and finds that it     *)
(* meets the target.                                                       *)
THEOREM BlocksAreAccepted == Spec => []VerifierAgrees
<1>1. PowInvariant => VerifierAgrees
  BY DEF PowInvariant, BlockInv, VerifierAgrees
<1> QED
  BY <1>1, PowInvariantHolds, PTL
=============================================================================
