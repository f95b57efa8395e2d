----------------------------- MODULE CommandLine -----------------------------
(***************************************************************************)
(* What the options say about whom to connect to and how: Opt::process     *)
(* (src/cli.rs) checks them and completes the address; connect             *)
(* (src/client.rs) makes an endpoint of the address and the user agent of  *)
(* the suffix; get_num_cpus (src/miner.rs) says how many threads to launch.*)
(*                                                                         *)
(* The text of an address is a record: whether it starts with "grpc://",   *)
(* then a host, and a port if it ends with one.  Texts of hosts are not    *)
(* taken apart.  The suffix is a sequence of characters.                   *)
(***************************************************************************)
EXTENDS Integers, Sequences, SequencesExt

CONSTANTS
  MainnetPort, TestnetPort,  \* 16110 and 16210 in the code
  OtherPort,                 \* bound: the port that is given, if one is
  MaxSuffix,                 \* characters of a suffix; 20 in the code
  MaxCpus                    \* bound: physical cores of the machine

CommandLineAssumption ==
  /\ MainnetPort \in Nat /\ TestnetPort \in Nat /\ OtherPort \in Nat
  /\ MainnetPort # TestnetPort
  /\ MaxSuffix \in Nat /\ MaxCpus \in Nat \ {0}

NotGiven == -1

DefaultHost == "127.0.0.1"

Ipv4 == {DefaultHost, "192.0.2.7"}

Ipv6 == {"::1"}

Hosts == Ipv4 \cup Ipv6 \cup {"", "[::1]", "kaspad.example"}

Characters == {"/", "x"}

EmptyText == [grpc |-> FALSE, host |-> "", port |-> NotGiven]

Texts == [grpc : BOOLEAN, host : Hosts, port : {NotGiven, OtherPort}]

GivenSuffixes == BoundedSeq(Characters, MaxSuffix + 1)

NoSuffix == <<"none">>

Version == <<"0", ".", "2">>  \* CARGO_PKG_VERSION, which has no "/" in it

Options ==
  [address : Texts, port : {NotGiven, OtherPort}, testnet : BOOLEAN,
   suffix : GivenSuffixes \cup {NoSuffix}, threads : {NotGiven, 0, 1}]

VARIABLES
  options,    \* the command line; stays as it is
  cores,      \* physical cores of the machine; stays as it is
  stage,      \* "start", "refused", "accepted", "connected", "mining", "unreachable"
  address,    \* Opt.kaspad_address
  endpoint,   \* what is connected to; without a port, at that of plain URIs
  extraData,  \* KaspadHandler.extra_data
  launched    \* threads of the last MinerManager

vars == <<options, cores, stage, address, endpoint, extraData, launched>>

NoEndpoint == [host |-> "", port |-> NotGiven]

Init ==
  /\ options \in Options
  /\ cores \in 1..MaxCpus
  /\ stage = "start"
  /\ address = options.address
  /\ endpoint = NoEndpoint
  /\ extraData = <<>>
  /\ launched = NotGiven

-----------------------------------------------------------------------------
(* IpAddr::from_str, of both families; brackets and ports are not part of  *)
(* an address.                                                             *)
IsIp(text) == ~text.grpc /\ text.host \in Ipv4 \cup Ipv6 /\ text.port = NotGiven

(* Mutant of Port: the other network's port.                               *)
PortOfTheOtherNetwork ==
  IF options.port # NotGiven THEN options.port
  ELSE IF options.testnet THEN MainnetPort ELSE TestnetPort

Port ==
  IF options.port # NotGiven THEN options.port
  ELSE IF options.testnet THEN TestnetPort ELSE MainnetPort

(* No address is the default address.                                      *)
Address == IF address = EmptyText THEN [address EXCEPT !.host = DefaultHost] ELSE address

(* An address that starts with "grpc://" is taken as it is, and the options*)
(* about the port are not looked at.                                       *)
Completed(text) ==
  IF text.grpc THEN text ELSE [text EXCEPT !.grpc = TRUE, !.port = Port]

(* Mutant of SuffixAccepted: slashes are not looked for.                   *)
AnySuffixAccepted(suffix) == Len(suffix) <= MaxSuffix

SuffixAccepted(suffix) ==
  /\ ~Contains(suffix, "/")
  /\ Len(suffix) <= MaxSuffix

Process ==
  /\ stage = "start"
  /\ \/ /\ Address.grpc \/ IsIp(Address)
        /\ address' = Completed(Address)
        /\ stage' = IF options.suffix = NoSuffix \/ SuffixAccepted(options.suffix)
                    THEN "accepted" ELSE "refused"
     \/ /\ ~(Address.grpc \/ IsIp(Address))
        /\ address' = Address
        /\ stage' = "refused"
  /\ UNCHANGED <<options, cores, endpoint, extraData, launched>>

-----------------------------------------------------------------------------
(* What can be connected to: the URI of an endpoint has a host, and no     *)
(* colons outside brackets but the one in front of its port.               *)
IsUri(text) == text.grpc /\ text.host \notin Ipv6 \cup {""}

ExtraData ==
  IF options.suffix = NoSuffix THEN Version ELSE Version \o <<"/">> \o options.suffix

(* RpcClient::connect and what KaspadHandler::connect does before it sends *)
(* anything; the same on every connection.                                 *)
Connect ==
  /\ stage \in {"accepted", "mining"}
  /\ IsUri(address)
  /\ stage' = "connected"
  /\ endpoint' = [host |-> address.host, port |-> address.port]
  /\ extraData' = ExtraData
  /\ UNCHANGED <<options, cores, address, launched>>

(* The address is none, or nobody answers there: main returns the error.   *)
ConnectFails ==
  /\ stage \in {"accepted", "mining"}
  /\ stage' = "unreachable"
  /\ UNCHANGED <<options, cores, address, endpoint, extraData, launched>>

(* get_num_cpus, for every MinerManager.                                   *)
NumCpus == IF options.threads # NotGiven THEN options.threads ELSE cores

Launch ==
  /\ stage = "connected"
  /\ stage' = "mining"
  /\ launched' = NumCpus
  /\ UNCHANGED <<options, cores, address, endpoint, extraData>>

Next == Process \/ Connect \/ ConnectFails \/ Launch

Spec == Init /\ [][Next]_vars

-----------------------------------------------------------------------------
(* The host that is named, which is the default one if no address is given.*)
ToldHost == IF options.address = EmptyText THEN DefaultHost ELSE options.address.host

(* The port that is given, or that of the network.                         *)
PortIsTold ==
  \/ options.port # NotGiven /\ endpoint.port = options.port
  \/ /\ options.port = NotGiven
     /\ endpoint.port \in {TestnetPort, MainnetPort}
     /\ (endpoint.port = TestnetPort) <=> options.testnet

(* The miner connects where it was told to, or not at all: to the host that*)
(* is named, the default one if none is, whatever the form of the address; *)
(* of an address that the code completes, only to an IP, at the port that  *)
(* is given or is its network's; and at the port in the address, if no     *)
(* other option speaks of ports.  A complete address next to --port or     *)
(* --testnet is the subject of PortIsAsDocumented.                         *)
ConnectsWhereTold ==
  stage \in {"connected", "mining"} =>
    /\ endpoint.host = ToldHost
    /\ ~options.address.grpc => endpoint.host \in Ipv4 /\ PortIsTold
    /\ options.address.port # NotGiven /\ options.port = NotGiven /\ ~options.testnet =>
         endpoint.port = options.address.port

(* --port is documented as "Kaspad port", and --testnet as "Use testnet    *)
(* instead of mainnet", without an exception: who gives one of them, and no*)
(* other port in the address, is connected to the port that it says.       *)
PortIsAsDocumented ==
  /\ stage \in {"connected", "mining"}
  /\ options.address.port = NotGiven
  /\ options.port # NotGiven \/ options.testnet
  => PortIsTold

(* The user agent can be taken apart again: what is in front of its first  *)
(* slash is the version, and what follows is all of the suffix.            *)
AgentReadsBack ==
  stage \in {"connected", "mining"} =>
    LET slashes == {n \in DOMAIN extraData : extraData[n] = "/"}
    IN  IF options.suffix = NoSuffix
        THEN slashes = {} /\ extraData = Version
        ELSE \E n \in slashes :
               /\ slashes = {n}
               /\ SubSeq(extraData, 1, n - 1) = Version
               /\ SubSeq(extraData, n + 1, Len(extraData)) = options.suffix

(* --kaspad-address is "the IP of the kaspad instance": an IP that is      *)
(* accepted is completed to what can be connected to.                      *)
AcceptedIpIsEndpoint ==
  stage # "start" /\ stage # "refused" /\ IsIp(options.address) => IsUri(address)
=============================================================================
