\* Suffixes of up to three characters are accepted in place of 20.
CONSTANTS
  MainnetPort = 1
  TestnetPort = 2
  OtherPort = 3
  MaxSuffix = 3
  MaxCpus = 2
SPECIFICATION Spec
INVARIANT PortIsAsDocumented
CHECK_DEADLOCK FALSE
