----------------------------- MODULE MCPowMatrix -----------------------------
(* PowMatrix from seeds with few and with many bits, but not from zero,    *)
(* from which drawing would not end; no header is known to hash to it.     *)
EXTENDS PowMatrix

MCSeeds == [0..3 -> {0, 1, 8, 15}] \ {[n \in 0..3 |-> 0]}
=============================================================================
