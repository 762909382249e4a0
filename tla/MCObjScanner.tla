---------------------------- MODULE MCObjScanner -----------------------------
(***************************************************************************)
(* Five objects and one static area. The heaps vary the edges of b and c   *)
(* fully, so that chains deeper than MaxDepth, cycles, shared children,    *)
(* arrays of sealed elements and a queue that fills in the middle of a     *)
(* recursion all occur, from roots and from static data.                   *)
(***************************************************************************)
EXTENDS ObjScanner, TLC

CONSTANTS a, b, c, d, e, k

MCObjects == {a, b, c, d, e}
MCStatics == {k}

Pairs(S) == S \X S

MCHeaps ==
    {h \in
        {[slots |-> (a :> sa) @@ (b :> sb) @@ (c :> sc) @@ (d :> sd) @@ (e :> se) @@ (k :> sk),
          leaves |-> {o \in {d, e} : <<o, <<>>>> \in {<<d, sd>>, <<e, se>>}},
          sealedArrays |-> sealed,
          roots |-> roots,
          marked |-> m] :
            sa \in {<<b, c>>, <<b, d>>, <<Null, a>>},
            sb \in Pairs({a, c, d}),
            sc \in Pairs({b, d, Null}),
            sd \in {<<>>, <<a>>, <<e>>},
            se \in {<<>>, <<c>>},
            sk \in {<<Null>>, <<d, b>>},
            sealed \in {{}, {c}},
            roots \in {{a}, {b, c}},
            m \in {{}, {d}}} :
        IsHeap(h)}
==============================================================================
