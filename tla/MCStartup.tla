----------------------------- MODULE MCStartup -----------------------------
(* Startup with command lines on which one thing is out of the ordinary:   *)
(* the percentage, whom to connect to, the suffix, or the threads and the  *)
(* cores they run on.                                                      *)
EXTENDS Startup

OrdinaryArgument ==
  [prefix |-> [length |-> 1, value |-> 1], postfix |-> Option!NoPart, moreDots |-> FALSE]

OrdinaryCores == 1

OrdinaryOptions ==
  [address |-> [grpc |-> FALSE, host |-> CommandLine!DefaultHost, port |-> CommandLine!NotGiven],
   port |-> CommandLine!NotGiven, testnet |-> FALSE,
   suffix |-> CommandLine!NoSuffix, threads |-> CommandLine!NotGiven]

OrdinaryBut(names) ==
  \A name \in DOMAIN OrdinaryOptions \ names : options[name] = OrdinaryOptions[name]

MCInit ==
  /\ CommandLine!Init
  /\ \/ OrdinaryBut({})
     \/ OrdinaryBut({"address", "port", "testnet"})
     \/ OrdinaryBut({"suffix"})
     \/ OrdinaryBut({"threads"})
  /\ OrdinaryBut({"threads"}) \/ cores = OrdinaryCores
  /\ \/ argument = OrdinaryArgument
     \/ OrdinaryBut({}) /\ cores = OrdinaryCores /\ argument \in Option!Arguments
  /\ PaymentsInit

MCSpec == MCInit /\ [][StartupNext]_startupVars
=============================================================================
