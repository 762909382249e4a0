--------------------------- MODULE MCRuntimeThread ---------------------------
(***************************************************************************)
(* A base class whose module has a constructor and a derived class in a    *)
(* module without one; a small method, which is every constructor's, and a *)
(* larger one, which exhausts the evaluation stack before the frames.      *)
(***************************************************************************)
EXTENDS RuntimeThread

CONSTANTS parentClass, childClass, m1, m2, small, large

MCModuleOf == (parentClass :> m1) @@ (childClass :> m2)
MCParent == (parentClass :> NoClass) @@ (childClass :> parentClass)
MCMaxStack == (small :> 1) @@ (large :> 3)
MCArgSize == (small :> 0) @@ (large :> 1)
MCCctorMethod == [c \in {parentClass, childClass, m1} |-> small]
==============================================================================
