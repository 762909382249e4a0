--------------------------- MODULE VirtualDispatch ---------------------------
(***************************************************************************)
(* Which method a virtual call runs, as ECMA-335 has it: II.10.3 for the   *)
(* methods of classes, II.12.2 for those of interfaces, and the default    *)
(* methods of interfaces that CoreCLR adds. A declaration or a method is a *)
(* pair <<class, number>>; equal names stand for equal signatures.         *)
(***************************************************************************)
EXTENDS Integers, Sequences, SequencesExt, FiniteSets

CONSTANTS
    NoClass,  \* the parent of a class without one
    NoMethod  \* no implementation

VARIABLE program
    (* For each class or interface: parent, interface, abstract; lists, the *)
    (* interfaces named in the metadata; methods, the virtual ones, with    *)
    (* name, newSlot and abstract; impls, its rows of MethodImpl.           *)

Classes == DOMAIN program
Parent(c) == program[c].parent
IsInterface(c) == program[c].interface
Listed(c) == ToSet(program[c].lists)

Own(c) == [k \in DOMAIN program[c].methods |-> <<c, k>>]
Info(m) == program[m[1]].methods[m[2]]
Methods == UNION {ToSet(Own(c)) : c \in Classes}
SameName(m, d) == Info(m).name = Info(d).name

OneOf(S) == IF S = {} THEN NoMethod ELSE CHOOSE m \in S : TRUE

(* A class after its ancestors. *)
Line[c \in Classes \cup {NoClass}] ==
    IF c = NoClass THEN <<>> ELSE Append(Line[Parent(c)], c)

Ancestors(c) == ToSet(Line[c])

(* The method with P of c or of the nearest of its ancestors that has one. *)
Nearest(c, P(_)) ==
    LET from[k \in Classes \cup {NoClass}] ==
            IF k = NoClass THEN NoMethod
            ELSE LET found == {m \in ToSet(Own(k)) : P(m)}
                 IN  IF found = {} THEN from[Parent(k)] ELSE OneOf(found)
    IN  from[c]

(* The method that introduced the slot of m. *)
Introducing(c, d) == Nearest(c, LAMBDA m : SameName(m, d) /\ Info(m).newSlot)
Original[m \in Methods] == Introducing(m[1], m)

Bodied == {m \in Methods : ~Info(m).abstract}

Bodies(c, d) ==
    {row.body : row \in {r \in ToSet(program[c].impls) :
                            IF IsInterface(d[1]) THEN r.decl = d
                            ELSE ~IsInterface(r.decl[1]) /\ Original[r.decl] = d}}

(* What class c makes of a slot, that of d, where its parent has method m. *)
(* A body named by a MethodImpl is followed when its own slot is overridden. *)
Overridden(c, d, m) ==
    LET overriding(slots) == {x \in ToSet(Own(c)) : Original[x] \in slots}
    IN  IF Bodies(c, d) # {} THEN OneOf(Bodies(c, d))
        ELSE IF overriding({d}) # {} THEN OneOf(overriding({d}))
        ELSE IF overriding({Original[m]}) # {} THEN OneOf(overriding({Original[m]}))
        ELSE m

(* What the slot that d introduced holds in class c. *)
Holds(c, d) ==
    LET held[k \in Classes] ==
            IF d[1] \notin Ancestors(k) THEN NoMethod
            ELSE Overridden(k, d, IF k = d[1] THEN d ELSE held[Parent(k)])
    IN  held[c]

Implements(c) == UNION {Listed(k) : k \in Ancestors(c)}

(***************************************************************************)
(* What class c gives for the interface method d where its parent gives m: *)
(* a MethodImpl, else a new method of a class that lists the interface,    *)
(* else what the parent gives, else any method it inherits of that name.   *)
(***************************************************************************)
NewOf(c, d) == {m \in ToSet(Own(c)) : SameName(m, d) /\ Info(m).newSlot}

Given(c, d, m) ==
    LET new == NewOf(c, d)
    IN  IF Bodies(c, d) # {} THEN OneOf(Bodies(c, d))
        ELSE IF d[1] \in Listed(c) /\ new # {} THEN OneOf(new)
        ELSE IF m # NoMethod \/ d[1] \notin Listed(c) THEN m
        ELSE Nearest(c, LAMBDA x : SameName(x, d))

Gives(c, d) ==
    LET given[k \in Classes] ==
            IF d[1] \notin Implements(k) THEN NoMethod
            ELSE Given(k, d, IF Parent(k) = NoClass THEN NoMethod ELSE given[Parent(k)])
    IN  given[c]

(* The interfaces of c with a default for d, d's own included. *)
Defaulting(c, d) ==
    {i \in Implements(c) : Bodies(i, d) # {} \/ (i = d[1] /\ ~Info(d).abstract)}

(* The most specific default: no other interface with one extends its own. *)
Default(c, d) ==
    LET best == {i \in Defaulting(c, d) : \A j \in Defaulting(c, d) : i \notin Listed(j)}
        from == CHOOSE i \in best : TRUE
    IN  IF Cardinality(best) # 1 THEN NoMethod
        ELSE IF from = d[1] THEN d ELSE OneOf(Bodies(from, d))

(* The method that a call of d runs on an object of class c. *)
Runs(c, d) ==
    IF ~IsInterface(d[1]) THEN Holds(c, Original[d])
    ELSE IF Gives(c, d) # NoMethod THEN Holds(c, Original[Gives(c, d)])
    ELSE Default(c, d)

(* What can be called on an object of class c. *)
Callable(c) ==
    {d \in Methods : \/ d[1] \in Ancestors(c)
                     \/ d[1] \in Implements(c) /\ Info(d).newSlot}

(***************************************************************************)
(* What makes a program valid: an override has something to override, and  *)
(* a class that is not abstract implements whatever can be called on it.   *)
(***************************************************************************)
Valid ==
    /\ \A m \in Methods : ~IsInterface(m[1]) => Original[m] # NoMethod
    /\ \A c \in Classes : ~IsInterface(c) /\ ~program[c].abstract =>
           \A d \in Callable(c) : Runs(c, d) \in Bodied
==============================================================================
