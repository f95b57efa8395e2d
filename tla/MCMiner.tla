------------------------------ MODULE MCMiner ------------------------------
(* Miner with interchangeable threads, few nonces and chosen solutions:    *)
(* template 1 has two in different batches, template 2 the one that starts *)
(* a batch, so that blocks are found on old and new templates.             *)
EXTENDS Miner, TLC

MCSolutions == {<<1, 1>>, <<2, 0>>}

MCOneSolution == {<<1, 1>>}

Symmetry == Permutations(Threads)
=============================================================================
