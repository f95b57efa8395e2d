-------------------------- MODULE DevfundPayments --------------------------
(***************************************************************************)
(* DevfundOption and Devfund put together as src/main.rs does: the option  *)
(* is parsed before anything else, and every connection is given the       *)
(* percentage (add_devfund).                                               *)
(***************************************************************************)
EXTENDS Devfund, Numerals

ASSUME PaymentsAssumption == Window = Hundred * Hundred

VARIABLES argument, outcome  \* see DevfundOption

Option == INSTANCE DevfundOption WITH percent <- devfundPercent

paymentVars == <<vars, argument, outcome>>

PaymentsInit == Option!Init /\ Init

ParseOption == Option!Parse /\ UNCHANGED <<ctr, share, paid>>

RequestTemplate ==
  /\ outcome = "parsed"
  /\ Connect \/ Request
  /\ UNCHANGED <<argument, outcome>>

PaymentsNext == ParseOption \/ RequestTemplate

PaymentsSpec == PaymentsInit /\ [][PaymentsNext]_paymentVars

-----------------------------------------------------------------------------
(* Percentages written as XX or XX.YY are accepted and read exactly.       *)
CanonicalIsExact == Option!CanonicalIsExact

(* What an accepted argument makes the client count to is within a window. *)
PercentIsBelowWhole == Option!PercentIsBelowWhole
=============================================================================
