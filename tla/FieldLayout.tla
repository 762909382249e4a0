---------------------------- MODULE FieldLayout -----------------------------
(***************************************************************************)
(* The layout of a class: Class::initialize_fields places its instance     *)
(* fields and its static fields and notes where they hold references.      *)
(*                                                                         *)
(* A field whose type is a struct needs the size of the struct, so the     *)
(* function calls itself: for the parent, and for the type of each such    *)
(* field, static ones too. The flag that says that the fields of a class   *)
(* are initialized is set first, which ends the recursion, and a call that *)
(* finds it set returns at once: the size its caller reads next is then    *)
(* the size of a class that may not have been laid out yet, which is 0.    *)
(*                                                                         *)
(* A field of a reference type is of type "ref"; "missing" is a type that  *)
(* cannot be loaded. Object headers are left out of sizes and bitmaps.     *)
(***************************************************************************)
EXTENDS Naturals, FiniteSetsExt, SequencesExt

CONSTANTS
    Classes,
    NoClass,
    PointerSize,
    Programs     \* the metadata of the classes: of each program one

VARIABLES
    program,     \* the metadata, which does not change
    flagged,     \* the classes with RtClassInitPart::Field
    calls,       \* the calls of initialize_fields in progress, innermost last
    klass,       \* what the calls have written to each RtClass
    early,       \* who read what of a class before it was there
    failed       \* the classes whose call returned an error

vars == <<program, flagged, calls, klass, early, failed>>

Primitives == [i1 |-> 1, i4 |-> 4, i8 |-> 8, ref |-> PointerSize]
Metadata == [struct : BOOLEAN, parent : Classes \cup {NoClass}, explicit : BOOLEAN,
             packing : {0, 1, 2, 4}, classSize : Nat,
             fields : Seq([type : DOMAIN Primitives \cup Classes \cup {"missing"},
                           static : BOOLEAN, at : Nat])]

ASSUME ProgramsAssumption ==
    /\ NoClass \notin Classes
    /\ Classes \cap (DOMAIN Primitives \cup {"missing"}) = {}
    /\ Programs \subseteq [Classes -> Metadata]

ASSUME PlatformAssumption == PointerSize \in {4, 8}

(* What metadata has to be like to be loaded at all (ECMA-335 II.10, II.13):*)
(* a struct has no parent with fields, and nothing contains itself.        *)
Parts(p, k) ==
    Classes \cap ({p[k].parent} \cup {f.type : f \in {f \in ToSet(p[k].fields) : ~f.static}})

Valid(p) ==
    /\ \A k \in Classes :
           /\ p[k].parent # NoClass => ~p[k].struct /\ ~p[p[k].parent].struct
           /\ \A f \in ToSet(p[k].fields) : f.type \in Classes => p[f.type].struct
    /\ \A S \in (SUBSET Classes) \ {{}} : \E k \in S : Parts(p, k) \cap S = {}

Parent(k) == program[k].parent
Struct(t) == t \in Classes
IsValueClass(k) == program[k].struct
FieldOf(f) == program[f.class].fields[f.index]
OffsetOf(f) == klass[f.class].offsets[f.index]

Own(k, static) ==
    LET fields == program[k].fields
        UpTo[i \in 0 .. Len(fields)] ==
            IF i = 0 THEN <<>>
            ELSE UpTo[i - 1] \o IF fields[i].static = static
                                THEN <<[class |-> k, index |-> i]>> ELSE <<>>
    IN  UpTo[Len(fields)]

(* collect_instance_fields: those of the parents first. *)
InstanceFields[k \in Classes] ==
    (IF Parent(k) = NoClass THEN <<>> ELSE InstanceFields[Parent(k)]) \o Own(k, FALSE)

AlignUp(offset, align) ==
    IF align = 0 THEN 0 ELSE ((offset + align - 1) \div align) * align

(* get_field_size_and_alignment, after the type has been initialized *)
SizeOf(t) == IF Struct(t) THEN klass[t].size ELSE Primitives[t]
AlignmentOf(t) == IF Struct(t) THEN klass[t].alignment ELSE Primitives[t]

Top == calls[Len(calls)]
At(point) == calls # <<>> /\ Top.at = point
Call(k) == [of |-> k, at |-> "parent", next |-> 1, end |-> 0, alignment |-> 1, refs |-> FALSE]
Continue(call) == [calls EXCEPT ![Len(calls)] = call]
Go(point) == Continue([Top EXCEPT !.at = point, !.next = 1, !.end = 0, !.alignment = 1])

(* The fields the current point goes through, and the one it has come to. *)
Fields ==
    CASE Top.at = "references" -> Own(Top.of, FALSE)
      [] Top.at = "instance" -> InstanceFields[Top.of]
      [] Top.at = "static" -> Own(Top.of, TRUE)
      [] OTHER -> <<>>
AtField == Top.next <= Len(Fields)
Field == Fields[Top.next]
Type == FieldOf(Field).type
Skipped == Top.at = "references" /\ Top.refs   \* a reference has been found
Visits == calls # <<>> /\ AtField /\ ~Skipped
------------------------------------------------------------------------------
NotLaidOut(k) ==
    [size |-> 0, alignment |-> 0, offsets |-> [i \in DOMAIN program[k].fields |-> 0],
     hasReferences |-> FALSE, bitmap |-> {}, staticSize |-> 0, staticBitmap |-> {},
     sized |-> FALSE, done |-> FALSE]

Init ==
    /\ program \in Programs
    /\ flagged = {}
    /\ calls = <<>>
    /\ klass = [k \in Classes |-> NotLaidOut(k)]
    /\ early = {}
    /\ failed = {}

Enter(k) ==
    /\ flagged' = flagged \cup {k}
    /\ calls' = Append(calls, Call(k))
    /\ UNCHANGED <<program, klass, early, failed>>

(* Any part of the runtime may ask for any class first. *)
Initialize(k) == calls = <<>> /\ k \notin flagged /\ Enter(k)

EnterParent ==
    /\ At("parent")
    /\ Parent(Top.of) \in Classes \ flagged
    /\ Enter(Parent(Top.of))

EnterFieldType ==
    /\ Visits
    /\ Type \in Classes \ flagged
    /\ Enter(Type)

(* An error is returned through all the calls. *)
Fail ==
    /\ failed' = failed \cup {calls[i].of : i \in DOMAIN calls}
    /\ calls' = <<>>

TypeMissing ==
    /\ Visits
    /\ Type = "missing"
    /\ Fail
    /\ UNCHANGED <<program, flagged, klass, early>>

Ready == Visits /\ Type # "missing" /\ Type \notin Classes \ flagged

(* What is read of a struct that does not have it yet. *)
Reads(what) ==
    early' = early \cup
        IF Struct(Type) /\ ~klass[Type].sized
        THEN {[by |-> Top.of, of |-> Type, what |-> what]} ELSE {}
------------------------------------------------------------------------------
(* setup_field_layout, first part: does an instance hold references? *)
StartLayout ==
    /\ At("parent")
    /\ Parent(Top.of) \notin Classes \ flagged
    /\ calls' = Continue([Top EXCEPT !.at = "references",
                                     !.refs = Parent(Top.of) # NoClass
                                              /\ klass[Parent(Top.of)].hasReferences])
    /\ early' = early \cup {[by |-> Top.of, of |-> p, what |-> w] :
                               p \in {p \in {Parent(Top.of)} \ {NoClass} : ~klass[p].sized},
                               w \in {"references", "instance"}}
    /\ UNCHANGED <<program, flagged, klass, failed>>

LookForReference ==
    /\ At("references")
    /\ Ready
    /\ calls' = Continue([Top EXCEPT !.next = @ + 1,
                                     !.refs = IF Struct(Type) THEN klass[Type].hasReferences
                                              ELSE Type = "ref"])
    /\ Reads("references")
    /\ UNCHANGED <<program, flagged, klass, failed>>

StartInstance ==
    /\ At("references")
    /\ AtField => Skipped
    /\ klass' = [klass EXCEPT ![Top.of].hasReferences = Top.refs]
    /\ calls' = Go("instance")
    /\ UNCHANGED <<program, flagged, early, failed>>

(* The packing counts for structs without references. *)
Packing(k) == IF IsValueClass(k) /\ ~klass[k].hasReferences THEN program[k].packing ELSE 0
FieldAlignment(k, t) ==
    IF Packing(k) = 0 THEN AlignmentOf(t) ELSE Min({AlignmentOf(t), Packing(k)})

(* Mutant: the offset is not rounded up. *)
PlaceFieldPacked(align) ==
    /\ calls' = Continue([Top EXCEPT !.next = @ + 1, !.end = @ + SizeOf(Type),
                                     !.alignment = Max({@, align})])
    /\ klass' = IF Field.class = Top.of
                THEN [klass EXCEPT ![Top.of].offsets[Field.index] = Top.end] ELSE klass

(* One round of compute_layout's loop, which gives the field an offset,    *)
(* unless it is one that is inherited.                                     *)
PlaceField(align) ==
    LET offset == AlignUp(Top.end, align)
    IN  /\ calls' = Continue([Top EXCEPT !.next = @ + 1, !.end = offset + SizeOf(Type),
                                         !.alignment = Max({@, align})])
        /\ klass' = IF Field.class = Top.of
                    THEN [klass EXCEPT ![Top.of].offsets[Field.index] = offset] ELSE klass

(* One round of compute_explicit_layout's *)
PlaceExplicitly(align) ==
    LET offset == FieldOf(Field).at
    IN  /\ calls' = Continue([Top EXCEPT !.next = @ + 1,
                                         !.end = Max({@, offset + SizeOf(Type)}),
                                         !.alignment = Max({@, align})])
        /\ klass' = [klass EXCEPT ![Field.class].offsets[Field.index] = offset]

(* The metadata has offsets of the fields of explicit classes only. *)
NoOffset == program[Top.of].explicit /\ ~program[Field.class].explicit

OffsetMissing ==
    /\ At("instance")
    /\ Ready
    /\ NoOffset
    /\ Fail
    /\ UNCHANGED <<program, flagged, klass, early>>

PlaceInstanceField ==
    /\ At("instance")
    /\ Ready
    /\ ~NoOffset
    /\ IF program[Top.of].explicit
       THEN PlaceExplicitly(FieldAlignment(Top.of, Type))
       ELSE PlaceField(FieldAlignment(Top.of, Type))
    /\ Reads("instance")
    /\ UNCHANGED <<program, flagged, failed>>

EndInstance ==
    LET k == Top.of
        size == AlignUp(Top.end, Top.alignment)
    IN  /\ At("instance")
        /\ ~AtField
        /\ klass' = [klass EXCEPT
                ![k].size = IF IsValueClass(k) THEN Max({size, program[k].classSize, 1}) ELSE size,
                ![k].alignment = Top.alignment,
                ![k].sized = TRUE]
        /\ calls' = Go("static")
        /\ UNCHANGED <<program, flagged, early, failed>>

PlaceStaticField ==
    /\ At("static")
    /\ Ready
    /\ PlaceField(AlignmentOf(Type))
    /\ Reads("static")
    /\ UNCHANGED <<program, flagged, failed>>

EndStatic ==
    /\ At("static")
    /\ ~AtField
    /\ klass' = [klass EXCEPT ![Top.of].staticSize = AlignUp(Top.end, Top.alignment)]
    /\ calls' = Go("bitmap")
    /\ UNCHANGED <<program, flagged, early, failed>>
------------------------------------------------------------------------------
(* setup_gc_bitmap_for_field: the words of the field that hold references, *)
(* those of a struct as its own bitmap has them now.                       *)
BitsOf(f) ==
    LET t == FieldOf(f).type
        word == OffsetOf(f) \div PointerSize
    IN  IF Struct(t)
        THEN IF klass[t].hasReferences THEN {word + b : b \in klass[t].bitmap} ELSE {}
        ELSE IF t = "ref" THEN {word} ELSE {}

(* The classes up to the first that holds no references *)
Ancestry[k \in Classes] ==
    {k} \cup IF Parent(k) = NoClass THEN {} ELSE Ancestry[Parent(k)]
Holders[k \in Classes] ==
    IF klass[k].hasReferences
    THEN {k} \cup IF Parent(k) = NoClass THEN {} ELSE Holders[Parent(k)]
    ELSE {}

FieldsOf(k, static) == ToSet(Own(k, static))

(* The bitmap of struct t may still change. *)
Unmapped(t) == ~klass[t].done /\ (klass[t].sized => klass[t].hasReferences)

(* Mutant: the references of the parents are left to the parents. *)
OwnInstanceBits(k) == UNION {BitsOf(f) : f \in FieldsOf(k, FALSE)}

InstanceBits(k) == UNION {BitsOf(f) : f \in UNION {FieldsOf(c, FALSE) : c \in Holders[k]}}

(* A class that holds references and has no word with one is refused. *)
Bitmap ==
    LET k == Top.of IN
        /\ At("bitmap")
        /\ IF klass[k].hasReferences /\ InstanceBits(k) = {}
           THEN Fail /\ UNCHANGED klass
           ELSE /\ klass' = [klass EXCEPT ![k].bitmap = InstanceBits(k)]
                /\ calls' = Go("staticBitmap")
                /\ UNCHANGED failed
        /\ early' = early \cup {[by |-> k, of |-> t, what |-> "bitmap"] :
               t \in {t \in Classes : /\ Unmapped(t)
                                      /\ \E f \in ToSet(InstanceFields[k]) : FieldOf(f).type = t}}
        /\ UNCHANGED <<program, flagged>>

(* The static fields, and the memory for them; the call returns. *)
EndLayout ==
    LET k == Top.of
        unmapped == {t \in Classes \ {k} : /\ Unmapped(t)
                                           /\ \E f \in FieldsOf(k, TRUE) : FieldOf(f).type = t}
    IN  /\ At("staticBitmap")
        /\ klass' = [klass EXCEPT
                ![k].staticBitmap = IF klass[k].staticSize >= PointerSize
                                    THEN UNION {BitsOf(f) : f \in FieldsOf(k, TRUE)} ELSE {},
                ![k].done = TRUE]
        /\ calls' = Front(calls)
        /\ early' = early \cup {[by |-> k, of |-> t, what |-> "staticBitmap"] : t \in unmapped}
        /\ UNCHANGED <<program, flagged, failed>>

Next ==
    \/ \E k \in Classes : Initialize(k)
    \/ EnterParent \/ EnterFieldType \/ TypeMissing
    \/ StartLayout \/ LookForReference \/ StartInstance
    \/ OffsetMissing \/ PlaceInstanceField \/ EndInstance
    \/ PlaceStaticField \/ EndStatic
    \/ Bitmap \/ EndLayout

Spec == Init /\ [][Next]_vars
------------------------------------------------------------------------------
(***************************************************************************)
(* A class reads the size of a struct too early only if the struct's own   *)
(* initialization has failed, or goes on below the static fields of some   *)
(* class: instance fields alone never lead back to a struct. It takes over *)
(* the fields of its parent too early only if the parent's has failed.     *)
(***************************************************************************)
EarlyOnlyBelowStatics ==
    /\ (At("parent") /\ Parent(Top.of) \in flagged /\ ~klass[Parent(Top.of)].sized) =>
           Parent(Top.of) \in failed
    /\ (Visits /\ Type \in flagged /\ ~klass[Type].sized) =>
           \/ Type \in failed
           \/ \E i \in DOMAIN calls : /\ calls[i].of = Type
                                      /\ \E j \in i..Len(calls) : calls[j].at = "static"

ReadEarly(k, what) == \E c \in Ancestry[k], e \in early : e.by = c /\ e.what \in what

InBounds(f, size) == OffsetOf(f) + SizeOf(FieldOf(f).type) <= size
Apart(f, g) == \/ OffsetOf(f) + SizeOf(FieldOf(f).type) <= OffsetOf(g)
               \/ OffsetOf(g) + SizeOf(FieldOf(g).type) <= OffsetOf(f)
Placed(fields, size) ==
    /\ \A f \in fields : InBounds(f, size)
    /\ \A f, g \in fields : f # g => Apart(f, g)

(* Offsets that were computed are respected by those computed later. *)
Computed(k) == \A c \in Ancestry[k] : ~program[c].explicit

(* All fields, those inherited and those of structs with their final size. *)
InstancePlaced(k) ==
    /\ \A f \in FieldsOf(k, FALSE) :
           ~program[k].explicit => OffsetOf(f) % FieldAlignment(k, FieldOf(f).type) = 0
    /\ CASE Computed(k) -> Placed(ToSet(InstanceFields[k]), klass[k].size)
         [] program[k].explicit -> \A f \in ToSet(InstanceFields[k]) : InBounds(f, klass[k].size)
         [] OTHER -> \A f \in FieldsOf(k, FALSE) : InBounds(f, klass[k].size)

(* The assertion of compute_layout: an inherited field is where the class  *)
(* that has it placed it.                                                  *)
InheritedKept ==
    LET k == Top.of IN
        /\ At("instance") /\ Ready /\ Field.class # k
        /\ Computed(k) /\ ~ReadEarly(k, {"instance"}) /\ (Struct(Type) => klass[Type].sized)
        => OffsetOf(Field) = AlignUp(Top.end, FieldAlignment(k, Type))

(***************************************************************************)
(* Fields do not overlap, are aligned and lie in the object or in the      *)
(* memory for static fields, in whichever order classes were initialized,  *)
(* for every class that did not read a size too early. (After an explicit  *)
(* layout the offsets that are inherited are not respected.)               *)
(***************************************************************************)
LayoutsSound ==
    /\ EarlyOnlyBelowStatics
    /\ InheritedKept
    /\ \A k \in Classes :
           /\ klass[k].sized /\ ~ReadEarly(k, {"instance"}) => InstancePlaced(k)
           /\ klass[k].done /\ ~ReadEarly(k, {"static"}) =>
                  Placed(FieldsOf(k, TRUE), klass[k].staticSize)

Inside(words, size) == \A word \in words : (word + 1) * PointerSize <= size
StructsInside(fields) ==
    \A f \in fields : LET t == FieldOf(f).type
                      IN  Struct(t) => Inside(klass[t].bitmap, klass[t].size)

(***************************************************************************)
(* The collector finds every reference in an object and in static fields:  *)
(* the bitmaps name the words of all fields, as the bitmaps of structs are *)
(* in the end, for every class that did not read one too early. They name  *)
(* no word outside the object or the memory of the static fields, unless   *)
(* the class read a size too early or a struct in it has such a word. A    *)
(* word with a reference is aligned, unless the metadata says where it is. *)
(***************************************************************************)
ReferencesTraced ==
    \A k \in {k \in Classes : klass[k].done} :
        /\ ~ReadEarly(k, {"references", "bitmap"}) =>
               /\ klass[k].bitmap = UNION {BitsOf(f) : f \in ToSet(InstanceFields[k])}
               /\ klass[k].hasReferences <=> klass[k].bitmap # {}
        /\ ~ReadEarly(k, {"static", "staticBitmap"}) =>
               klass[k].staticBitmap = UNION {BitsOf(f) : f \in FieldsOf(k, TRUE)}
        /\ ~ReadEarly(k, {"instance"}) =>
               /\ (Computed(k) \/ program[k].explicit) /\ StructsInside(ToSet(InstanceFields[k])) =>
                      Inside(klass[k].bitmap, klass[k].size)
               /\ \A f \in FieldsOf(k, FALSE) :
                      ~program[k].explicit /\ BitsOf(f) # {} => OffsetOf(f) % PointerSize = 0
        /\ ~ReadEarly(k, {"static"}) /\ StructsInside(FieldsOf(k, TRUE)) =>
               Inside(klass[k].staticBitmap, klass[k].staticSize)
==============================================================================
