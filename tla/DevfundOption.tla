--------------------------- MODULE DevfundOption ---------------------------
(***************************************************************************)
(* --devfund-percent: the parser of the command line (src/cli.rs) makes the*)
(* percentage of it that the client works with.                            *)
(*                                                                         *)
(* An argument is taken apart at its dots.  Of each part the parser looks  *)
(* at two things: how long it is and what number it is read as, if it is a *)
(* number.  A percentage is a number of hundredths of a percent.           *)
(***************************************************************************)
EXTENDS Numerals

NotANumber == -1

None == -2  \* there is no second part

(* A part of one character is a digit or not a number; one of two is any   *)
(* number up to ninety-nine ("+5" is five), and so on.                     *)
Numbers(length) ==
  0..(CASE length = 0 -> 0 [] length = 1 -> Base [] length = 2 -> Hundred
        [] OTHER -> Base^length) - 1

Parts ==
  { part \in [length : 0..MaxLength, value : {NotANumber} \cup 0..Base^MaxLength - 1] :
      part.value = NotANumber \/ part.value \in Numbers(part.length) }

NoPart == [length |-> 0, value |-> None]

Arguments == [prefix : Parts, postfix : Parts \cup {NoPart}, moreDots : BOOLEAN]

VARIABLES
  argument,  \* what is given for --devfund-percent
  outcome,   \* "unread", "error" or "parsed"
  percent    \* Opt.devfund_percent

vars == <<argument, outcome, percent>>

Init ==
  /\ argument \in Arguments
  /\ outcome = "unread"
  /\ percent = 0

-----------------------------------------------------------------------------
(* Without a second part it is "0".                                        *)
Postfix == IF argument.postfix = NoPart THEN [length |-> 1, value |-> 0] ELSE argument.postfix

(* Mutant of TooLong: two digits are one too many.                         *)
TooLongByOne(part) == part.length >= 2

TooLong(part) == part.length > 2

(* The last guard of the parser, for numbers of more than two digits.      *)
TooLarge(part) == part.value >= Hundred

(* Mutant of Accepted: only the part before the dot is looked at closely.  *)
PrefixAccepted ==
  /\ ~argument.moreDots
  /\ ~TooLong(argument.prefix) /\ ~TooLarge(argument.prefix)
  /\ argument.prefix.value # NotANumber /\ Postfix.value # NotANumber

Accepted ==
  /\ ~argument.moreDots
  /\ ~TooLong(argument.prefix) /\ ~TooLong(Postfix)
  /\ argument.prefix.value # NotANumber /\ Postfix.value # NotANumber
  /\ ~TooLarge(argument.prefix) /\ ~TooLarge(Postfix)

Parse ==
  /\ outcome = "unread"
  /\ \/ /\ Accepted
        /\ percent' = argument.prefix.value * Hundred + Postfix.value
        /\ outcome' = "parsed"
     \/ /\ ~Accepted
        /\ outcome' = "error"
        /\ UNCHANGED percent
  /\ UNCHANGED argument

Next == Parse

Spec == Init /\ [][Next]_vars

-----------------------------------------------------------------------------
(* What a decimal fraction means: its first digit counts tenths, so that a *)
(* single digit after the dot stands for ten hundredths.                   *)
Hundredths(part) == IF part.length = 1 THEN part.value * Base ELSE part.value

(* An argument of the form XX.YY, or XX, that the error message asks for.  *)
Canonical ==
  /\ argument.prefix.length \in {1, 2} /\ argument.prefix.value # NotANumber
  /\ Postfix = [length |-> 1, value |-> 0] \/ argument.postfix.length = 2
  /\ argument.postfix.value # NotANumber
  /\ ~argument.moreDots

(* Arguments with two digits after the dot, or no dot, are all accepted and*)
(* taken for the number they are.                                          *)
CanonicalIsExact ==
  Canonical /\ outcome # "unread" =>
    /\ outcome = "parsed"
    /\ percent = argument.prefix.value * Hundred + Hundredths(Postfix)

(* "can't be more than 99.99%": what the client counts to in its windows of*)
(* 10000 requests is within a window (see Init of Devfund).                *)
PercentIsBelowWhole == percent \in 0..Hundred * Hundred - 1
=============================================================================
