\* Bytes of two binary digits; integers of one and two bytes, bits of five; three
\* words of six bits, 18 bits in place of 256.
CONSTANTS
  Digit = 2
  HashLen = 2
  U16 = 1
  U32 = 5
  U64 = 2
  ByteBits = 2
  WordBits = 6
  Words = 3
  MaxExponent = 14
  Nonces = {2, 3}
  Headers <- MCHeaders
  Hashes <- MCHashes
SPECIFICATION MCSpec
INVARIANTS
  SerializationReadsBack KeccakAbsorbsMessage VerifierAgrees SolutionsAreBlocks
  BytesAreLittleEndian TargetIsDecoded
CHECK_DEADLOCK FALSE
