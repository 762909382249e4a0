--------------------------- MODULE MCFieldLayout ----------------------------
(* Three structs whose fields may be of each other's types, and a class    *)
(* with a derived one.                                                     *)
EXTENDS FieldLayout

CONSTANTS a, b, c, base, derived

MCClasses == {a, b, c, base, derived}

F(type) == [type |-> type, static |-> FALSE, at |-> 0]
S(type) == [type |-> type, static |-> TRUE, at |-> 0]
Value(fields) == [struct |-> TRUE, parent |-> NoClass, explicit |-> FALSE,
                  packing |-> 0, classSize |-> 0, fields |-> fields]
Class(parent, fields) == [Value(fields) EXCEPT !.struct = FALSE, !.parent = parent]

AFields == {<<F("i1"), F("ref")>>, <<F("i1"), F(b)>>, <<F(b), F("ref")>>,
            <<S("i4"), S(a), F("i8")>>, <<F(b), S(c), S("i4")>>}
BFields == {<<F("i1"), S(a)>>, <<F("ref"), S(a), S("i1")>>, <<S("i1"), S(c), F("i8")>>,
            <<F(c), F("i1")>>, <<>>}
CFields == {<<F("i1"), F("i4")>>, <<F("ref"), F("ref"), F(a)>>, <<S("i1"), S(b), F("ref")>>,
            <<S("ref"), F(b)>>, <<F("missing"), F("i1")>>}
BaseFields == {<<F(a), F("i1")>>, <<F("i1"), S(b)>>}
DerivedFields == {<<F("i1"), F("i8")>>, <<F(b), F("ref"), S(a)>>}

(* Layout attributes of the first struct, and a base class with offsets. *)
Sequential(fields) == {Value(fields), [Value(fields) EXCEPT !.packing = 1, !.classSize = 20]}
Offsets == [Value(<<[F("i4") EXCEPT !.at = 4], F("i8")>>) EXCEPT !.explicit = TRUE]
ExplicitBase == [Offsets EXCEPT !.struct = FALSE]
ExplicitDerived == [Class(base, <<[F(b) EXCEPT !.at = 8]>>) EXCEPT !.explicit = TRUE]

(* No struct contains itself. *)
MCPrograms ==
    { p \in { [k \in MCClasses |-> CASE k = a -> x [] k = b -> Value(y) [] k = c -> Value(z)
                                      [] k = base -> v [] OTHER -> w] :
               x \in UNION {Sequential(fields) : fields \in AFields} \cup {Offsets},
               y \in BFields,
               z \in CFields,
               v \in {Class(NoClass, fields) : fields \in BaseFields} \cup {ExplicitBase},
               w \in {Class(base, fields) : fields \in DerivedFields} \cup {ExplicitDerived} } :
      Valid(p) }
==============================================================================
