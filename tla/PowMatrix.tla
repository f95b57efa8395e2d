------------------------------ MODULE PowMatrix ------------------------------
(***************************************************************************)
(* The matrix in the life of a pow::State (src/pow.rs): State::new draws it*)
(* (MatrixGenerate), and calculate_pow multiplies the hash of every nonce  *)
(* with it (HeavyHash), so that the products are of matrices that the      *)
(* generator draws and compute_rank accepts, and of no others.             *)
(***************************************************************************)
EXTENDS HeavyHash

CONSTANTS
  WordBits, NibblesPerWord, RotateSum, RotateState, ShiftBy, Seeds
    \* see MatrixGenerate

VARIABLES
  generator, float, selected, rank,  \* see MatrixGenerate
  drawing, line                      \* its phase and i

drawingVars == <<generator, float, selected, rank, drawing, line>>

callVars == <<hash, phase, i, j, vec, sum1, sum2, product>>

powMatrixVars == <<vars, drawingVars>>

Matrix == INSTANCE MatrixGenerate WITH phase <- drawing, i <- line

ASSUME PowMatrixAssumption == Matrix!GenerateAssumption

PowMatrixInit == Matrix!Init /\ Idle

Draw == Matrix!Next /\ UNCHANGED callVars

Multiplying == drawing = "done" /\ Next /\ UNCHANGED drawingVars

PowMatrixNext == Draw \/ Multiplying

(* State::new runs on until it has its matrix.                             *)
PowMatrixSpec ==
  PowMatrixInit /\ [][PowMatrixNext]_powMatrixVars /\ WF_powMatrixVars(Draw)

-----------------------------------------------------------------------------
(* The rank of what is drawn is counted right, so that every node accepts  *)
(* and rejects the same matrices.                                          *)
RankIsRank == Matrix!RankIsRank

(* generate comes to an end.                                               *)
Generates == Matrix!Generates
=============================================================================
