------------------------------ MODULE MCGemBo -------------------------------
(* Instances of GemBo for TLC.  Nothing tells apart threads, structures or *)
(* kernel objects, except that some objects are Foreign.                   *)
EXTENDS GemBo, TLC

BoSymmetry == Permutations(Bos)
Symmetry == Permutations(Threads) \cup Permutations(Bos) \cup Permutations(Objs)
=============================================================================
