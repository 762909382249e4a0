---------------------------- MODULE MCGcCollector ----------------------------
(* Two addresses, one root slot and one handle: chains and cycles of       *)
(* objects with finalizers, resurrection and address reuse all occur.      *)
EXTENDS GcCollector

CONSTANTS o1, o2, r, h

MCObjects == {o1, o2}
MCRootSlots == {r}
MCHandles == {h}
==============================================================================
