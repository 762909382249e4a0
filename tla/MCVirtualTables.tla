--------------------------- MODULE MCVirtualTables ---------------------------
(***************************************************************************)
(* Object, three classes derived from one another, and two interfaces, one *)
(* of which extends the other. F is declared in I, G and ToString in J.    *)
(***************************************************************************)
EXTENDS VirtualTables

New(name) == [name |-> name, newSlot |-> TRUE, abstract |-> FALSE]
Abstract(name) == [name |-> name, newSlot |-> TRUE, abstract |-> TRUE]
Overriding(name) == [name |-> name, newSlot |-> FALSE, abstract |-> FALSE]

Class(parent, abstract, lists, methods, impls) ==
    [parent |-> parent, interface |-> FALSE, abstract |-> abstract, lists |-> lists,
     methods |-> methods, impls |-> impls]
Interface(lists, methods, impls) ==
    [parent |-> NoClass, interface |-> TRUE, abstract |-> TRUE, lists |-> lists,
     methods |-> methods, impls |-> impls]

Object == Class(NoClass, FALSE, <<>>, <<New("ToString"), New("Finalize")>>, <<>>)
I(f) == Interface(<<>>, <<f>>, <<>>)
IF1 == <<"I", 1>>

(* void I.F() { ... } as method number n of class or interface c *)
Explicit(c, n) == <<[class |-> c, body |-> <<c, n>>, decl |-> IF1]>>

GAndToString == <<Abstract("G"), Abstract("ToString")>>

J(default) ==
    IF default
    THEN Interface(<<"I">>, GAndToString \o <<Overriding("I.F")>>, Explicit("J", 3))
    ELSE Interface(<<"I">>, GAndToString, <<>>)

Lists == {<<>>, <<"I">>, <<"J", "I">>}
F(kind) ==
    CASE kind = "none" -> <<>> [] kind = "new" -> <<New("F")>>
      [] kind = "abstract" -> <<Abstract("F")>> [] OTHER -> <<Overriding("F")>>
G(kind) ==
    CASE kind = "none" -> <<>> [] kind = "new" -> <<New("G"), Overriding("ToString")>>
      [] OTHER -> <<Overriding("G")>>

(* What a class may have; an explicit implementation is of a listed        *)
(* interface, and not beside a new method of the same name (see Supported). *)
Options(lists, fs, gs, explicits) ==
    {o \in [lists : lists, f : fs, g : gs, explicit : explicits] :
        o.explicit => o.lists # <<>> /\ o.f \in {"none", "override"}}

ClassOf(c, parent, o) ==
    Class(parent, o.f = "abstract", o.lists,
          (IF o.explicit THEN <<New("I.F")>> ELSE <<>>) \o F(o.f) \o G(o.g),
          IF o.explicit THEN Explicit(c, 1) ELSE <<>>)

Program(i, j, a, b, c) ==
    [Object |-> Object, I |-> i, J |-> j, A |-> ClassOf("A", "Object", a),
     B |-> ClassOf("B", "A", b), C |-> ClassOf("C", "B", c)]

ABC ==
    {abc \in Options(Lists, {"none", "new", "abstract"}, {"none", "new"}, BOOLEAN)
            \X Options(Lists, {"none", "new", "override"}, {"none", "new"}, BOOLEAN)
            \X Options({<<>>, <<"I">>}, {"none", "override"}, {"none"}, {FALSE}) :
        LET a == abc[1]  b == abc[2]  c == abc[3]
        IN  /\ b.f = "override" => a.f # "none"
            /\ a.f = "abstract" => b.f = "override"
            /\ c.f = "override" => a.f # "none" \/ b.f # "none"
            /\ c.lists # <<>> => c.f = "override"
            /\ a.explicit => b.f # "none" \/ c.f # "none"
            /\ a.lists = <<>> => b.lists # <<>> \/ c.lists # <<>>
            /\ a.g = "new" => 2 \in {Len(a.lists), Len(b.lists)}
            /\ b.g = "new" => Len(b.lists) = 2
            /\ Len(a.lists) = 2 => a.g = "new"
            /\ Len(b.lists) = 2 => "new" \in {a.g, b.g}}

MCPrograms ==
    {Program(I(Abstract("F")), J(FALSE), abc[1], abc[2], abc[3]) : abc \in ABC}
    \cup {Program(I(New("F")), J(FALSE), abc[1], abc[2], abc[3]) : abc \in ABC}
    \cup {Program(I(Abstract("F")), J(TRUE), abc[1], abc[2], abc[3]) :
              abc \in {x \in ABC : 2 \in {Len(x[1].lists), Len(x[2].lists)}}}
------------------------------------------------------------------------------
(***************************************************************************)
(* Programs of the kinds that Supported leaves out.                        *)
(***************************************************************************)
Nothing == <<>>
Hierarchies(i, j, k, a, b) == {[Object |-> Object, I |-> i, J |-> j, K |-> k, A |-> a, B |-> b]}
Plain(c) == Class(c, FALSE, Nothing, Nothing, Nothing)
J0 == Interface(<<"I">>, Nothing, Nothing)
JOverridesIF == Interface(<<"I">>, <<Overriding("I.F")>>, Explicit("J", 1))
KOverridesIF == Interface(<<"J", "I">>, <<Overriding("I.F")>>, Explicit("K", 1))

(* class A : I { void I.F() {...} public virtual void F() {...} } *)
ExplicitBesideOwn ==
    Hierarchies(I(Abstract("F")), J0, J0,
                Class("Object", FALSE, <<"I">>, <<New("I.F"), New("F")>>, Explicit("A", 1)),
                Plain("A"))

(* class A { public virtual void F() {...} } class B : A, I {}, I.F with a default *)
InheritedBesideDefault ==
    Hierarchies(I(New("F")), J0, J0,
                Class("Object", FALSE, Nothing, <<New("F")>>, Nothing),
                Class("A", FALSE, <<"I">>, Nothing, Nothing))

(* interface K : J { void I.F() {...} }, J with a default for I.F too; class A : K {} *)
TwoDefaults ==
    Hierarchies(I(Abstract("F")), JOverridesIF, KOverridesIF,
                Class("Object", FALSE, <<"K", "J", "I">>, Nothing, Nothing),
                Plain("A"))
==============================================================================
