-------------------------------- MODULE Pool --------------------------------
(***************************************************************************)
(* What the mining threads of one connection are to the rest of the        *)
(* process: launch_cpu_threads starts a number of them, they hash while    *)
(* there is a template in their slot, and they end, one by one, only after *)
(* the connection or the process is over.                                  *)
(*                                                                         *)
(* Miner, with its threads taken apart into steps, and Session, which has  *)
(* a pool for every connection, are both shown to implement this.          *)
(***************************************************************************)
EXTENDS Integers

CONSTANT Size  \* threads that are launched

VARIABLES
  slot,      \* there is a template in the slot of the pool
  threads,   \* threads that have not returned
  hashing,   \* how many of them have a template
  shutdown,  \* the process is ending
  open       \* there is somebody to send found blocks to

vars == <<slot, threads, hashing, shutdown, open>>

(* The pool is launched, or about to be.                                   *)
Init ==
  /\ ~slot /\ hashing = 0 /\ ~shutdown
  /\ \/ threads = Size /\ open
     \/ threads = 0 /\ ~open

Connect ==
  /\ threads = 0
  /\ open' = TRUE
  /\ UNCHANGED <<slot, threads, hashing, shutdown>>

Launch ==
  /\ threads = 0 /\ ~shutdown
  /\ threads' = Size
  /\ slot' = FALSE
  /\ UNCHANGED <<hashing, shutdown, open>>

FillSlot ==
  /\ slot' = TRUE
  /\ UNCHANGED <<threads, hashing, shutdown, open>>

EmptySlot ==
  /\ slot' = FALSE
  /\ UNCHANGED <<threads, hashing, shutdown, open>>

Disconnect ==
  /\ open' = FALSE
  /\ UNCHANGED <<slot, threads, hashing, shutdown>>

ShutDown ==
  /\ shutdown' = TRUE
  /\ UNCHANGED <<slot, threads, hashing, open>>

(* A thread that waits is given a template, and only that makes it hash.   *)
StartHashing ==
  /\ slot
  /\ hashing < threads
  /\ hashing' = hashing + 1
  /\ UNCHANGED <<slot, threads, shutdown, open>>

(* A thread that hashes goes back to waiting when the slot is empty.       *)
StopHashing ==
  /\ ~slot
  /\ hashing > 0
  /\ hashing' = hashing - 1
  /\ UNCHANGED <<slot, threads, shutdown, open>>

(* A thread that waits never ends.                                         *)
EndThread ==
  /\ shutdown \/ ~open
  /\ hashing > 0
  /\ hashing' = hashing - 1
  /\ threads' = threads - 1
  /\ UNCHANGED <<slot, shutdown, open>>

Next ==
  \/ Connect \/ Launch \/ FillSlot \/ EmptySlot \/ Disconnect \/ ShutDown
  \/ StartHashing \/ StopHashing \/ EndThread

Spec == Init /\ [][Next]_vars
=============================================================================
