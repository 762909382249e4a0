---------------------------- MODULE VirtualTables ----------------------------
(***************************************************************************)
(* The tables that virtual calls go through: Class::initialize_vtables and *)
(* setup_vtable_typedef (vm/class.cpp), and the look-up in vm/method.cpp.  *)
(* Tables and slots are numbered from 0, as in the code. Generic and array *)
(* classes are left out.                                                   *)
(***************************************************************************)
EXTENDS VirtualDispatch

CONSTANT Programs

(* The metadata: a class is derived from others and lists interfaces, once *)
(* each; a row of MethodImpl names its owner and two methods.              *)
Metadata(p) ==
    LET classes == {c \in DOMAIN p : ~p[c].interface}
        methods == UNION {{c} \X DOMAIN p[c].methods : c \in DOMAIN p}
        names == {p[m[1]].methods[m[2]].name : m \in methods}
    IN  /\ NoClass \notin DOMAIN p /\ NoMethod \notin methods
        /\ \A S \in (SUBSET classes) \ {{}} : \E c \in S : p[c].parent \notin S
        /\ \A c \in DOMAIN p :
               /\ p[c].interface \in BOOLEAN
               /\ p[c].parent \in IF p[c].interface THEN {NoClass} ELSE classes \cup {NoClass}
               /\ p[c].lists \in Seq(DOMAIN p \ classes) /\ IsInjective(p[c].lists)
               /\ p[c].methods \in Seq([name : names, newSlot : BOOLEAN, abstract : BOOLEAN])
               /\ p[c].impls \in Seq([class : {c}, body : methods, decl : methods])

ASSUME ProgramsAssumption == \A p \in Programs : Metadata(p)

VARIABLES
    initialized, \* the classes with RtClassInitPart::VirtualTable set
    calls,       \* calls of initialize_vtables in progress, and how far they are
    vtable,      \* RtClass::vtable: entries with the method declared and its implementation
    offsets,     \* RtClass::interface_vtable_offsets
    slot,        \* RtMethodInfo::slot, which is 0 until it is set
    refused      \* the classes that initialize_vtables has failed for

vars == <<program, initialized, calls, vtable, offsets, slot, refused>>

Init ==
    /\ program \in Programs
    /\ Valid
    /\ initialized = {}
    /\ calls = <<>>
    /\ vtable = [c \in Classes |-> <<>>]
    /\ offsets = [c \in Classes |-> <<>>]
    /\ slot = [m \in Methods |-> 0]
    /\ refused = {}

(* RtClass::interfaces: those of an interface are never read. *)
Interfaces(c) == IF Parent(c) = NoClass THEN <<>> ELSE program[c].lists

NewSlots(c) ==
    FoldLeft(LAMBDA so, m : IF Info(m).newSlot THEN Append(so, m) ELSE so, <<>>, Own(c))

Entry(m) == [method |-> m, impl |-> IF Info(m).abstract THEN NoMethod ELSE m]
Entries(methods) == [k \in DOMAIN methods |-> Entry(methods[k])]

(* collect_virtual_methods: those of the ancestors first *)
Hierarchy(c) == FlattenSeq([k \in DOMAIN Line[c] |-> Own(Line[c][k])])

LastMatch(methods, m) == SelectLastInSeq(methods, LAMBDA x : SameName(x, m))

InterfacesAt(table) == {table[k].interface : k \in DOMAIN table}
OffsetOf(table, i) == table[SelectInSeq(table, LAMBDA o : o.interface = i)].offset
------------------------------------------------------------------------------
(* Mutant: an interface takes one slot. *)
PlaceOne(c, placed, i) ==
    IF i \in InterfacesAt(offsets[Parent(c)]) THEN placed
    ELSE [offsets |-> Append(placed.offsets, [interface |-> i, offset |-> placed.count]),
          count |-> placed.count + 1]

(* An interface that the parent does not have gets the slots that follow. *)
Place(c, placed, i) ==
    IF i \in InterfacesAt(offsets[Parent(c)]) THEN placed
    ELSE [offsets |-> Append(placed.offsets, [interface |-> i, offset |-> placed.count]),
          count |-> placed.count + Len(vtable[i])]

InterfaceOffsets(c) ==
    FoldLeft(LAMBDA placed, i : Place(c, placed, i),
             [offsets |-> offsets[Parent(c)], count |-> Len(vtable[Parent(c)])],
             Interfaces(c)).offsets

(* The parent's table, those of the interfaces behind it, the new slots. *)
FirstTable(c, placed) ==
    LET behind(o) == o.offset >= Len(vtable[Parent(c)])
    IN  vtable[Parent(c)]
        \o FlattenSeq([k \in DOMAIN placed |-> IF behind(placed[k])
                                               THEN vtable[placed[k].interface] ELSE <<>>])
        \o Entries(NewSlots(c))

NumberedFrom(first, methods) ==
    [m \in Methods |-> IF m \in ToSet(methods)
                       THEN first + CHOOSE k \in DOMAIN methods : methods[k] = m
                       ELSE slot[m]]

(* The table as the steps of setup_vtable_typedef leave it. *)
Draft(c, placed) ==
    LET table == FirstTable(c, placed)
    IN  [table |-> table, taken |-> {}, sound |-> TRUE,
         slot |-> NumberedFrom(Len(table) - Len(NewSlots(c)) - 1, NewSlots(c))]

Refused(draft) == [draft EXCEPT !.sound = FALSE]

(* A row of MethodImpl, of c or of one of its interfaces: the first one    *)
(* for a slot counts.                                                      *)
ApplyRow(placed, draft, row) ==
    LET d == row.decl
        at == draft.slot[d] + IF IsInterface(d[1]) THEN OffsetOf(placed, d[1]) ELSE 0
    IN  IF ~draft.sound THEN draft
        ELSE IF d[1] \notin IF IsInterface(d[1]) THEN InterfacesAt(placed) ELSE Ancestors(row.class)
             THEN Refused(draft)
        ELSE IF at \in draft.taken THEN draft
        ELSE IF draft.table[at + 1].method # d THEN Refused(draft)
        ELSE [draft EXCEPT !.table[at + 1].impl = row.body, !.taken = @ \cup {at}]

(* Those of the class itself, then those of its interfaces from the last. *)
ApplyMethodImpls(c, placed, draft) ==
    LET from == <<c>> \o Reverse(Interfaces(c))
    IN  FoldLeft(LAMBDA so, row : ApplyRow(placed, so, row), draft,
                 FlattenSeq([k \in DOMAIN from |-> program[from[k]].impls]))

(* Mutant: only the slot itself is replaced. *)
OverrideSlot(c, draft, m) ==
    LET methods == Hierarchy(Parent(c))
        matched == methods[LastMatch(methods, m)]
        at == draft.slot[matched]
    IN  IF ~draft.sound THEN draft
        ELSE IF LastMatch(methods, m) = 0 THEN Refused(draft)
        ELSE IF at \in draft.taken THEN draft
        ELSE [draft EXCEPT !.table[at + 1].impl = m, !.slot[m] = at]

(* A method without a new slot takes that of the last inherited one of its *)
(* name, and its place wherever the parent's table has it.                 *)
Override(c, draft, m) ==
    LET methods == Hierarchy(Parent(c))
        matched == methods[LastMatch(methods, m)]
        at == draft.slot[matched]
    IN  IF ~draft.sound THEN draft
        ELSE IF LastMatch(methods, m) = 0 THEN Refused(draft)
        ELSE IF at \in draft.taken THEN draft
        ELSE [draft EXCEPT !.slot[m] = at,
                           !.table = [k \in DOMAIN @ |->
                               IF \/ k = at + 1
                                  \/ k <= Len(vtable[Parent(c)]) /\ @[k].impl = matched
                               THEN [@[k] EXCEPT !.impl = m] ELSE @[k]]]

ApplyOverrides(c, draft) ==
    FoldLeft(LAMBDA so, m : IF Info(m).newSlot THEN so ELSE Override(c, so, m), draft, Own(c))

(* The slots, from 1, of the interfaces that the class lists. *)
ListedSlots(c, placed) ==
    UNION {OffsetOf(placed, i) + 1 .. OffsetOf(placed, i) + Len(vtable[i]) :
               i \in ToSet(Interfaces(c))}

(* New methods implement the listed interfaces' methods of their name. *)
ApplyNewSlots(c, placed, draft) ==
    [draft EXCEPT !.table = [k \in DOMAIN @ |->
        LET matching == {m \in ToSet(NewSlots(c)) : SameName(m, @[k].method)}
        IN  IF k \in ListedSlots(c, placed) /\ matching # {}
            THEN [@[k] EXCEPT !.impl = OneOf(matching)] ELSE @[k]]]

(* Mutant: methods of the class itself are not looked for. *)
FillFromParent(c, draft) ==
    LET methods == Hierarchy(Parent(c))
        empty == {k \in DOMAIN draft.table : /\ k > Len(vtable[Parent(c)])
                                             /\ draft.table[k].impl = NoMethod}
        found(k) == LastMatch(methods, draft.table[k].method)
    IN  IF ~draft.sound \/ (\E k \in empty : found(k) = 0) THEN Refused(draft)
        ELSE [draft EXCEPT !.table = [k \in DOMAIN @ |->
                  IF k \in empty THEN [@[k] EXCEPT !.impl = methods[found(k)]] ELSE @[k]]]

(* What is still empty behind the parent's table takes the last method of  *)
(* its name, inherited or not.                                             *)
FillEmpty(c, draft) ==
    LET methods == Hierarchy(c)
        empty == {k \in DOMAIN draft.table : /\ k > Len(vtable[Parent(c)])
                                             /\ draft.table[k].impl = NoMethod}
        found(k) == LastMatch(methods, draft.table[k].method)
    IN  IF ~draft.sound \/ (\E k \in empty : found(k) = 0) THEN Refused(draft)
        ELSE [draft EXCEPT !.table = [k \in DOMAIN @ |->
                  IF k \in empty THEN [@[k] EXCEPT !.impl = methods[found(k)]] ELSE @[k]]]

(* Slot 1 may be empty in any class. *)
Complete(c, draft) ==
    \/ program[c].abstract
    \/ \A k \in DOMAIN draft.table : draft.table[k].impl # NoMethod \/ k = 2

Finished(c, placed) ==
    FillEmpty(c, ApplyNewSlots(c, placed,
                     ApplyOverrides(c, ApplyMethodImpls(c, placed, Draft(c, placed)))))
------------------------------------------------------------------------------
Current == Last(calls)
InProgress == {calls[k].class : k \in DOMAIN calls}
Serving == <<Parent(Current.class)>> \o Interfaces(Current.class)

(* initialize_vtables(c), the flag being set first *)
Use(c) ==
    /\ calls = <<>> /\ refused = {}
    /\ c \notin initialized
    /\ calls' = <<[class |-> c, served |-> 0]>>
    /\ initialized' = initialized \cup {c}
    /\ UNCHANGED <<program, vtable, offsets, slot, refused>>

(* The parent first, then the interfaces in their order. *)
Recurse ==
    /\ calls # <<>>
    /\ Current.served < Len(Serving)
    /\ LET c == Serving[Current.served + 1]
           here == Append(Front(calls), [Current EXCEPT !.served = @ + 1])
       IN  IF c = NoClass \/ c \in initialized
           THEN calls' = here /\ UNCHANGED initialized
           ELSE /\ calls' = Append(here, [class |-> c, served |-> 0])
                /\ initialized' = initialized \cup {c}
    /\ UNCHANGED <<program, vtable, offsets, slot, refused>>

AtSetUp(c) == calls # <<>> /\ Current.class = c /\ Current.served = Len(Serving)

(* System.Object and interfaces: their new slots *)
SetUpRoot(c) ==
    /\ AtSetUp(c)
    /\ Parent(c) = NoClass
    /\ vtable' = [vtable EXCEPT ![c] = Entries(NewSlots(c))]
    /\ slot' = NumberedFrom(-1, NewSlots(c))
    /\ calls' = Front(calls)
    /\ UNCHANGED <<program, initialized, offsets, refused>>

(* A class without virtual methods and interfaces has its parent's table. *)
SharesParents(c) == Own(c) = <<>> /\ Interfaces(c) = <<>>

Inherit(c) ==
    /\ AtSetUp(c)
    /\ Parent(c) # NoClass
    /\ SharesParents(c)
    /\ vtable' = [vtable EXCEPT ![c] = vtable[Parent(c)]]
    /\ offsets' = [offsets EXCEPT ![c] = offsets[Parent(c)]]
    /\ calls' = Front(calls)
    /\ UNCHANGED <<program, initialized, slot, refused>>

SetUp(c) ==
    /\ AtSetUp(c)
    /\ Parent(c) # NoClass
    /\ ~SharesParents(c)
    /\ LET placed == InterfaceOffsets(c)
           draft == Finished(c, placed)
       IN  /\ offsets' = [offsets EXCEPT ![c] = placed]
           /\ slot' = draft.slot
           /\ IF draft.sound /\ Complete(c, draft)
              THEN /\ vtable' = [vtable EXCEPT ![c] = draft.table]
                   /\ calls' = Front(calls)
                   /\ UNCHANGED refused
              ELSE /\ calls' = <<>>
                   /\ refused' = InProgress
                   /\ UNCHANGED vtable
    /\ UNCHANGED <<program, initialized>>

Next ==
    \/ \E c \in Classes : Use(c) \/ SetUpRoot(c) \/ Inherit(c) \/ SetUp(c)
    \/ Recurse

Spec == Init /\ [][Next]_vars
------------------------------------------------------------------------------
(* get_virtual_method_impl_on_klass and get_interface_method_invoke_data *)
Called(c, d) ==
    IF d[1] = c THEN d
    ELSE LET offset == IF IsInterface(d[1]) THEN OffsetOf(offsets[c], d[1]) ELSE 0
         IN  vtable[c][offset + slot[d] + 1].impl

Ready == initialized \ (InProgress \cup refused)

TypeOK ==
    /\ initialized \subseteq Classes
    /\ calls \in Seq([class : Classes, served : Nat])
    /\ \A c \in Classes : vtable[c] \in Seq([method : Methods, impl : Methods \cup {NoMethod}])
    /\ \A c \in Classes : offsets[c] \in Seq([interface : Classes, offset : Nat])
    /\ slot \in [Methods -> Nat]
    /\ refused \subseteq initialized

(***************************************************************************)
(* A virtual call runs the method that the standard names, whatever the    *)
(* order in which classes are first used.                                  *)
(***************************************************************************)
CallsAsDeclared ==
    \A c \in Ready : ~IsInterface(c) /\ ~program[c].abstract =>
        \A d \in Callable(c) : Called(c, d) = Runs(c, d)

(***************************************************************************)
(* A slot means the same in a class and in all classes derived from it,    *)
(* and no two declarations share one: slots and offsets that compiled code *)
(* and tables of derived classes hold stay true.                           *)
(***************************************************************************)
SlotsAgree ==
    \A c \in Ready : ~IsInterface(c) =>
        /\ Parent(c) # NoClass =>
               /\ offsets[Parent(c)] = SubSeq(offsets[c], 1, Len(offsets[Parent(c)]))
               /\ \A k \in DOMAIN vtable[Parent(c)] :
                      vtable[c][k].method = vtable[Parent(c)][k].method
        /\ \A j, k \in DOMAIN vtable[c] : j # k => vtable[c][j].method # vtable[c][k].method
        /\ \A k \in DOMAIN offsets[c] :
               LET o == offsets[c][k]
               IN  \A j \in DOMAIN vtable[o.interface] :
                       vtable[c][o.offset + j].method = vtable[o.interface][j].method

(* Every valid program can be used: no class of it is refused. *)
ValidProgramsLoad == refused = {}
------------------------------------------------------------------------------
(***************************************************************************)
(* What compilers produce. A class has one virtual method of a name. Each  *)
(* row of MethodImpl is for another method of an interface, which the      *)
(* class has or the interface extends, and names an own method with a      *)
(* body. An interface extends what those it lists extend, and not itself.  *)
(* A class gives or inherits something for all that is callable on it.     *)
(***************************************************************************)
ExplicitRow(c, row) ==
    /\ row.body \in ToSet(Own(c)) \cap Bodied
    /\ IsInterface(row.decl[1]) /\ Info(row.decl).newSlot
    /\ row.decl[1] \in IF IsInterface(c) THEN Listed(c) ELSE Implements(c)

Compiled ==
    \A c \in Classes :
        /\ \A m, x \in ToSet(Own(c)) : SameName(m, x) => m = x
        /\ \A row \in ToSet(program[c].impls) : ExplicitRow(c, row)
        /\ \A row, r \in ToSet(program[c].impls) : row.decl = r.decl => row = r
        /\ \A i \in Listed(c) : i # c /\ Listed(i) \subseteq Listed(c)
        /\ ~IsInterface(c) =>
               /\ Parent(c) = NoClass => Listed(c) = {}
               /\ \A d \in Callable(c) : Runs(c, d) # NoMethod

(***************************************************************************)
(* Where the tables do what is promised: an explicit implementation is not *)
(* beside a new method of the name, a default not beside what a class      *)
(* inherits, and not beside one of another interface that extends the one  *)
(* it is for.                                                              *)
(***************************************************************************)
Supported ==
    \A c \in Classes : ~IsInterface(c) =>
        \A d \in Methods : IsInterface(d[1]) /\ Info(d).newSlot =>
            /\ \A i, j \in Implements(c) : Bodies(i, d) # {} /\ Bodies(j, d) # {} => i = j
            /\ d[1] \in Listed(c) =>
                   /\ Bodies(c, d) = {} \/ NewOf(c, d) = {}
                   /\ Defaulting(c, d) # {} =>
                          Gives(c, d) = NoMethod \/ Bodies(c, d) # {} \/ NewOf(c, d) # {}

SupportedInit == Init /\ Compiled /\ Supported
SupportedSpec == SupportedInit /\ [][Next]_vars
==============================================================================
