--------------------------- MODULE MCSelfHealLoop ---------------------------
(***************************************************************************)
(* Instances of SelfHealLoop for TLC. Patches are interchangeable, so the  *)
(* safety runs take them as a symmetric set.                               *)
(***************************************************************************)
EXTENDS SelfHealLoop, TLC

CONSTANTS p1, p2

MCPatches  == {p1, p2}
MCOnePatch == {p1}
PatchSymmetry == Permutations(MCPatches)
=============================================================================
