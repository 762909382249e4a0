----------------------------- MODULE ManagedCode -----------------------------
(***************************************************************************)
(* Managed methods as exception handling sees them: a sequence of          *)
(* instructions and the exception clauses over it, inner clauses first.    *)
(*                                                                         *)
(* A program maps each method to [code, clauses]. An instruction is        *)
(*   next          none of the below; cannot raise                         *)
(*   may           one that may raise: throw, a null check, a cast, ...    *)
(*   call          runs a method in a frame of the same interpreter loop   *)
(*   invoke        runs a method through native code, which enters the     *)
(*                 interpreter again (static constructors, internal calls) *)
(*   rethrow, leave, endfinally, ret                                       *)
(* and a clause is [kind, try, handler, entry, catches]: the offsets of    *)
(* its two blocks, the first of its handler, and the exceptions it is for. *)
(***************************************************************************)
EXTENDS Naturals, FiniteSetsExt, SequencesExt

CONSTANTS
    Programs,       \* the programs executed
    Main,           \* the method the host invokes
    Exceptions,     \* exception objects, told apart by their class
    StackOverflow,  \* the one raised when a stack is exhausted
    ExecutionEngine,\* the one raised when the program is not valid
    NoException

ClauseKinds == {"catch", "filter", "finally", "fault"}

(* The clauses whose try block contains offset p. *)
Protecting(clauses, p) == {i \in DOMAIN clauses : p \in clauses[i].try}

(* The clauses whose finally block a leave from p to target runs. *)
FinallysBetween(clauses, p, target) ==
    {i \in DOMAIN clauses :
        clauses[i].kind = "finally" /\ p \in clauses[i].try /\ target \notin clauses[i].try}

(* A catch clause is for a class, a filter for what its filter block accepts. *)
Catches(clause, ex) == clause.kind \in {"catch", "filter"} /\ ex \in clause.catches

IsCleanup(clause) == clause.kind \in {"finally", "fault"}

(***************************************************************************)
(* What a method has to be like to be run at all (ECMA-335 I.12.4.2.7,     *)
(* II.19, III.1.7.5). Clauses are nested, apart, or have the same try      *)
(* block, inner ones first; control enters a handler at its first          *)
(* instruction, leaves it by the instruction that ends it, and does not    *)
(* run off the code.                                                       *)
(***************************************************************************)
Clause ==
    [kind : ClauseKinds, try : SUBSET Nat, handler : SUBSET Nat, entry : Nat,
     catches : SUBSET Exceptions]

Unit(clause) == clause.try \cup clause.handler

Arranged(inner, outer) ==
    \/ Unit(inner) \subseteq outer.try
    \/ Unit(inner) \subseteq outer.handler
    \/ Unit(inner) \cap Unit(outer) = {}
    \/ inner.try = outer.try /\ inner.handler \cap outer.handler = {}

WellNested(clauses) ==
    /\ clauses \in Seq(Clause)
    /\ \A i \in DOMAIN clauses : /\ clauses[i].entry \in clauses[i].handler
                                 /\ clauses[i].try \cap clauses[i].handler = {}
    /\ \A i, j \in DOMAIN clauses : i < j => /\ Arranged(clauses[i], clauses[j])
                                             /\ clauses[j].entry \notin clauses[i].handler

(* The handlers p is in are, innermost first, clauses with higher numbers. *)
IsInnermost(clauses, p, i) ==
    /\ p \in clauses[i].handler
    /\ \A j \in DOMAIN clauses : p \in clauses[j].handler => i <= j

WellFormedAt(m, p) ==
    LET op == m.code[p].op
        inHandler(i, q) == q \in m.clauses[i].handler
    IN  /\ op \in {"next", "may", "call", "invoke", "rethrow", "leave", "endfinally", "ret"}
        /\ op \in {"next", "may", "call", "invoke"} =>
               /\ p + 1 \in DOMAIN m.code
               /\ \A i \in DOMAIN m.clauses : inHandler(i, p + 1) <=> inHandler(i, p)
        /\ op = "leave" =>
               /\ m.code[p].target \in DOMAIN m.code
               /\ \A i \in DOMAIN m.clauses : inHandler(i, m.code[p].target) => inHandler(i, p)
        /\ op = "endfinally" =>
               \E i \in DOMAIN m.clauses :
                   IsCleanup(m.clauses[i]) /\ IsInnermost(m.clauses, p, i)
        /\ op = "ret" => \A i \in DOMAIN m.clauses : ~inHandler(i, p)

WellFormed(program) ==
    \A n \in DOMAIN program :
        LET m == program[n]
        IN  /\ DOMAIN m.code = 1 .. Len(m.code)
            /\ 1 \in DOMAIN m.code
            /\ \A i \in DOMAIN m.clauses : /\ 1 \notin m.clauses[i].handler
                                           /\ m.clauses[i].handler \subseteq DOMAIN m.code
            /\ WellNested(m.clauses)
            /\ \A p \in DOMAIN m.code :
                   /\ WellFormedAt(m, p)
                   /\ m.code[p].op \in {"call", "invoke"} => m.code[p].method \in DOMAIN program

ASSUME CodeAssumption ==
    /\ {StackOverflow, ExecutionEngine} \subseteq Exceptions
    /\ NoException \notin Exceptions
    /\ \A program \in Programs : Main \in DOMAIN program
==============================================================================
