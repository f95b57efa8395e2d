------------------------------ MODULE Startup ------------------------------
(***************************************************************************)
(* What main (src/main.rs) makes of the command line, from its parser to   *)
(* the requests of every connection: DevfundPayments and CommandLine put   *)
(* together.                                                               *)
(*                                                                         *)
(* clap parses the percentage, Opt::process looks at the rest, and every   *)
(* connection is made from the same options: it has a handler with the     *)
(* percentage, whose first request on behalf of main comes before the      *)
(* threads are launched.                                                   *)
(***************************************************************************)
EXTENDS DevfundPayments

CONSTANTS MainnetPort, TestnetPort, OtherPort, MaxSuffix, MaxCpus

VARIABLES options, cores, stage, address, endpoint, extraData, launched

CommandLine == INSTANCE CommandLine

ASSUME StartupAssumption == CommandLine!CommandLineAssumption

commandVars == <<options, cores, stage, address, endpoint, extraData, launched>>

startupVars == <<paymentVars, commandVars>>

StartupInit == CommandLine!Init /\ PaymentsInit

(* The process ends with the message of the option's parser, or goes on.   *)
ParseArgument ==
  /\ stage = "start"
  /\ ParseOption
  /\ UNCHANGED commandVars

Process ==
  /\ outcome = "parsed"
  /\ CommandLine!Process
  /\ UNCHANGED paymentVars

(* KaspadHandler::connect and add_devfund.                                 *)
ConnectAndRequest ==
  /\ outcome = "parsed"
  /\ CommandLine!Connect
  /\ Connect
  /\ UNCHANGED <<argument, outcome>>

ConnectFails == CommandLine!ConnectFails /\ UNCHANGED paymentVars

(* The request of main, and then one for each notification and block.      *)
RequestOnConnection ==
  /\ \/ stage = "connected" /\ ctr = 0
     \/ stage = "mining"
  /\ outcome = "parsed"
  /\ Request
  /\ UNCHANGED <<argument, outcome>>
  /\ UNCHANGED commandVars

Launch ==
  /\ ctr > 0
  /\ CommandLine!Launch
  /\ UNCHANGED paymentVars

StartupNext ==
  \/ ParseArgument \/ Process \/ ConnectAndRequest \/ ConnectFails
  \/ RequestOnConnection \/ Launch

StartupSpec == StartupInit /\ [][StartupNext]_startupVars

-----------------------------------------------------------------------------
(* The miner connects to the host it was told to, at the port it was told  *)
(* to unless the address is complete, or not at all.                       *)
ConnectsWhereTold == CommandLine!ConnectsWhereTold

(* The user agent can be taken apart again.                                *)
AgentReadsBack == CommandLine!AgentReadsBack
=============================================================================
