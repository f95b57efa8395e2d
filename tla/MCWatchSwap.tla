---------------------------- MODULE MCWatchSwap ----------------------------
(* WatchSwap with model values for handles and addresses, both symmetric.  *)
EXTENDS WatchSwap, TLC

Symmetry == Permutations(Handles) \cup Permutations(Addrs)
=============================================================================
