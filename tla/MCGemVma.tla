------------------------------ MODULE MCGemVma ------------------------------
(* Instance of GemVma for TLC.  The limits are: unlimited, none, one less  *)
(* than an object in use reserves, and one that leaves room for a single   *)
(* cached object beside one in use.                                        *)
EXTENDS GemVma, TLC

MCVmaLimits == {-1, 0, 1, 4}
BoSymmetry == Permutations(Bos)
=============================================================================
