--------------------------- MODULE MCSizeClassPool ---------------------------
(***************************************************************************)
(* Three arenas of two blocks that share one word of use bits: arenas fill *)
(* up, empty in every order and are allocated again where an older one was.*)
(***************************************************************************)
EXTENDS SizeClassPool

CONSTANTS a1, a2, a3

MCArenas == {a1, a2, a3}

(* Enough where an arena has two words of use bits, one of them half used. *)
TwoArenas == {a1, a2}
==============================================================================
