------------------------------ MODULE Devfund ------------------------------
(***************************************************************************)
(* Whom a template is requested for: client_get_block_template of          *)
(* src/client.rs gives a share of the requests of a connection to the      *)
(* devfund, if there is one, by counting them.  Connecting asks for one    *)
(* template for the miner that is not counted, and starts the count anew.  *)
(*                                                                         *)
(* devfund_percent is in hundredths of a percent, and the requests are     *)
(* looked at in windows of 10000.                                          *)
(***************************************************************************)
EXTENDS Integers

CONSTANTS
  HasDevfund,       \* devfund_address is given
  Window,           \* 10000 in the code
  MaxRequests,      \* bound: requests counted on one connection
  MaxTotal          \* bound: requests of the process

ASSUME DevfundAssumption ==
  /\ HasDevfund \in BOOLEAN
  /\ Window \in Nat \ {0}
  /\ MaxRequests \in Nat
  /\ MaxTotal \in Nat \ {0}

VARIABLES
  devfundPercent,  \* KaspadHandler.devfund_percent; stays as it is
  ctr,             \* KaspadHandler.block_template_ctr
  share,           \* requests of this connection that pay the devfund
  paid             \* requests of the process, by the address they pay

vars == <<devfundPercent, ctr, share, paid>>

Addresses == {"miner", "devfund"}

Total == paid["miner"] + paid["devfund"]

Pay(address) == paid' = [paid EXCEPT ![address] = @ + 1]

-----------------------------------------------------------------------------
(* Mutant of InShare: a window is one request longer.                      *)
InLongerWindow(n) == n % (Window + 1) <= devfundPercent

InShare(n) == n % Window <= devfundPercent

PayAddress(n) == IF HasDevfund /\ InShare(n) THEN "devfund" ELSE "miner"

Init ==
  /\ devfundPercent \in 0..Window - 1
  /\ ctr = 0
  /\ share = 0
  /\ paid = [address \in Addresses |-> 0]

(* connect asks for a template for the miner address; a new connection has *)
(* a new KaspadHandler, with a counter of zero.                            *)
Connect ==
  /\ Total < MaxTotal
  /\ ctr' = 0
  /\ share' = 0
  /\ Pay("miner")
  /\ devfundPercent' = devfundPercent

(* client_get_block_template, on a connection: the counter moves before    *)
(* the request is sent.                                                    *)
Request ==
  /\ Total > 0
  /\ ctr < MaxRequests /\ Total < MaxTotal
  /\ Pay(PayAddress(ctr))
  /\ share' = IF PayAddress(ctr) = "devfund" THEN share + 1 ELSE share
  /\ ctr' = ctr + 1
  /\ devfundPercent' = devfundPercent

Next == Connect \/ Request

Spec == Init /\ [][Next]_vars

-----------------------------------------------------------------------------
(* What a connection gives to the devfund: the first devfundPercent + 1    *)
(* requests of every window, be it complete or not.                        *)
Lesser(a, b) == IF a < b THEN a ELSE b

Due(n) ==
  IF HasDevfund
  THEN (devfundPercent + 1) * (n \div Window) + Lesser(n % Window, devfundPercent + 1)
  ELSE 0

ShareIsDue == share = Due(ctr)

(* --devfund-percent is documented as "the percentage of blocks to send to *)
(* the devfund": of a number of complete windows, no more than that share. *)
ShareIsPercentage ==
  ctr % Window = 0 => share * Window <= devfundPercent * ctr
=============================================================================
