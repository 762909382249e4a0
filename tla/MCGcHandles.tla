----------------------------- MODULE MCGcHandles -----------------------------
(***************************************************************************)
(* Two objects and three structures: handles are freed in every order and  *)
(* their structures used again while others stay in use.                   *)
(***************************************************************************)
EXTENDS GcHandles, TLC

CONSTANTS o1, o2, i1, i2, i3

MCObjects == {o1, o2}
MCInfos == {i1, i2, i3}
Symmetry == Permutations(MCObjects) \cup Permutations(MCInfos)
==============================================================================
