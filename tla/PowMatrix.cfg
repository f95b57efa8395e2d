\* A matrix of 4 by 4 nibbles of two bits, two of which are a word, and all
\* hashes.  As in the code the scale is the product of the matrix's size and the
\* nibble's.
CONSTANTS
  N = 4
  Nibble = 4
  NibbleBits = 2
  Scale = 16
  SumWidth = 40
  WordBits = 4
  NibblesPerWord = 2
  RotateSum = 1
  RotateState = 3
  ShiftBy = 1
  Seeds <- MCSeeds
SPECIFICATION PowMatrixSpec
INVARIANTS VectorIsWritten NibblesDoNotOverlap ProductIsCorrect HeavyHashInvariant
           RankIsRank
PROPERTIES SumsDoNotWrap Generates
CHECK_DEADLOCK FALSE
