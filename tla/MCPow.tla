------------------------------- MODULE MCPow -------------------------------
(* Pow with binary digits, hashes of two bytes, and numbers of three words.*)
(* One header has any target, and the proof of work is any number; others  *)
(* differ in the shape of their parents, in the length of their blue work  *)
(* and, some, in that they cannot be decoded.                              *)
EXTENDS Pow

MCHash == {<<0, 1, 1, 0>>, <<1, 1, 0, 1>>}

MCBad == {<<1, 0, 1>>, <<0, 1, NotADigit, 0>>}

MCParents ==
  {<<>>, <<<<>>>>}
    \cup {<<<<a>>, <<b>>>> : a, b \in MCHash}
    \cup {<<<<a, b>>, <<>>>> : a, b \in MCHash}
    \cup {<<<<>>, <<a, b>>>> : a \in MCHash, b \in MCHash \cup MCBad}

MCRoots == {<<a, b, a>> : a \in MCHash, b \in MCHash \cup {<<1, 0, 1>>}}

MCBlueWork == {<<>>, <<1>>, <<1, 0>>, <<1, 0, 1>>, <<1, 1, 0, 1>>, <<1, 0, 0, 1, 1>>}

MCBits == 4 * Byte^3 + 5

MCShapes ==
  [version : {1, 4}, parents : MCParents, roots : MCRoots, timestamp : {6}, bits : {MCBits},
   nonce : {5}, daaScore : {1, 9}, blueScore : {12}, blueWork : MCBlueWork,
   pruningPoint : MCHash \cup {<<1, 0, 1>>}]

MCTargets ==
  LET string == <<0, 1, 1, 0>>
  IN  [version : {1}, parents : {<<>>}, roots : {<<string, string, string>>}, timestamp : {6},
       bits : 0..(MaxExponent + 1) * Byte^3 - 1, nonce : {5}, daaScore : {9}, blueScore : {12},
       blueWork : {<<1, 0>>}, pruningPoint : {string}]

MCHeaders == MCShapes \cup MCTargets

MCHashes == [0..Words - 1 -> {0, 1, 2^(WordBits - 1), 2^WordBits - 1}]

MCOracle == [nonce \in Nonces |-> IF nonce % 2 = 1 THEN [n \in 0..Words - 1 |-> 0]
                                  ELSE [n \in 0..Words - 1 |-> 2^WordBits - 1]]

MCInit ==
  /\ \/ oracle = MCOracle
     \/ oracle \in {[nonce \in Nonces |-> h] : h \in Hashes} /\ header \in MCTargets
  /\ Init

MCSpec == MCInit /\ [][Next]_vars
=============================================================================
