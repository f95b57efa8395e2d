\* Numerals of base 2 in place of 10, so that a window is of 16 requests in place
\* of 10000: all arguments, and two windows and a half.  Suffixes of up to three
\* characters are accepted in place of 20.
CONSTANTS
  Base = 2
  MaxLength = 3
  HasDevfund = TRUE
  Window = 16
  MaxRequests = 40
  MaxTotal = 42
  MainnetPort = 1
  TestnetPort = 2
  OtherPort = 3
  MaxSuffix = 3
  MaxCpus = 2
SPECIFICATION MCSpec
INVARIANTS ShareIsDue CanonicalIsExact PercentIsBelowWhole ConnectsWhereTold AgentReadsBack
CHECK_DEADLOCK FALSE
