------------------------------ MODULE Numerals ------------------------------
(* The base and the length of the numbers on the command line.             *)
EXTENDS Integers

CONSTANTS
  Base,       \* base of the numerals; ten in the code
  MaxLength   \* bound: length of a part of the argument

ASSUME OptionAssumption ==
  /\ Base \in Nat /\ Base > 1
  /\ MaxLength \in Nat

Hundred == Base * Base
=============================================================================
