------------------------------ MODULE ClassInit ------------------------------
(***************************************************************************)
(* Static constructors: when the runtime runs the constructor of a class   *)
(* and that of its module, and what it does when one of them fails.        *)
(*                                                                         *)
(* The functions of Runtime call managed code, which is the constructor,   *)
(* and managed code calls them, when it uses a class: the calls in         *)
(* progress are a stack, and each has reached some point of its function.  *)
(* A call returns to the one below it, which goes on, or fails, and then   *)
(* every function below fails too, up to the managed code that used the    *)
(* class: there the exception is thrown, and may be caught.                *)
(*                                                                         *)
(* Constructors are not fixed: managed code may use any class at any time. *)
(***************************************************************************)
EXTENDS Naturals, FiniteSetsExt, SequencesExt

CONSTANTS
    Classes,
    Modules,
    ModuleOf,     \* klass->image
    Parent,       \* klass->parent
    NoClass,
    WithCctor     \* the classes and modules that have a static constructor

ASSUME ClassesAssumption ==
    /\ ModuleOf \in [Classes -> Modules]
    /\ NoClass \notin Classes
    /\ Parent \in [Classes -> Classes \cup {NoClass}]
    /\ WithCctor \subseteq Classes \cup Modules
    /\ Classes \cap Modules = {}

VARIABLES
    cctorStatus,     \* klass->cctor_status
    initFlags,       \* how far initialize_all has come
    moduleFinished,  \* module->_moduleCctorFinished
    calls,           \* the calls of Runtime in progress, innermost last
    attempts,        \* how often each constructor was about to be invoked
    ended,           \* the constructors that returned, threw or were not entered
    created          \* the classes of which an object has been created

classVars == <<cctorStatus, initFlags, moduleFinished, calls, attempts, ended, created>>

Calls == [fn : {"class", "hierarchy", "module"}, of : Classes \cup Modules,
          at : {"enter", "load", "parent", "mark", "invoke", "body"}, waited : BOOLEAN]
CallOf(function, of) == [fn |-> function, of |-> of, at |-> "enter", waited |-> FALSE]

Top == calls[Len(calls)]
At(function, point) == calls # <<>> /\ Top.fn = function /\ Top.at = point

(* The innermost call is the one of a constructor, or there is none. *)
ManagedRuns == calls # <<>> => Top.at = "body"

Advance(point) == [calls EXCEPT ![Len(calls)].at = point]
CallThen(point, call) == Append(Advance(point), call)
Return == Front(calls)

(* Mutant: managed code below is unwound with the functions of Runtime. *)
FailAll == <<>>

(* A failure is passed on to the innermost constructor below the call. *)
Fail ==
    LET bodies == {i \in 1..(Len(calls) - 1) : calls[i].at = "body"}
    IN  SubSeq(calls, 1, Max(bodies \cup {0}))

------------------------------------------------------------------------------
ClassesInit ==
    /\ cctorStatus = [k \in Classes |-> "NotInited"]
    /\ initFlags = [k \in Classes |-> "none"]
    /\ moduleFinished = [m \in Modules |-> FALSE]
    /\ calls = <<>>
    /\ attempts = [c \in WithCctor |-> 0]
    /\ ended = {}
    /\ created = {}

(* A static member of k is used, or il2cpp_runtime_class_init and          *)
(* RunClassConstructor are called: TRY_RUN_CLASS_STATIC_CCTOR. Where the   *)
(* status is no longer NotInited, the use goes on at once.                 *)
UseStatic(k) ==
    /\ ManagedRuns
    /\ cctorStatus[k] = "NotInited"
    /\ calls' = Append(calls, CallOf("class", k))
    /\ UNCHANGED <<cctorStatus, initFlags, moduleFinished, attempts, ended, created>>

(* Object::__new_object *)
NewObject(k) ==
    /\ ManagedRuns
    /\ cctorStatus[k] # "InitHierarchy"
    /\ calls' = Append(calls, CallOf("hierarchy", k))
    /\ UNCHANGED <<cctorStatus, initFlags, moduleFinished, attempts, ended, created>>

(* RuntimeHelpers.RunModuleConstructor *)
RunModule(m) ==
    /\ ManagedRuns
    /\ ~moduleFinished[m]
    /\ calls' = Append(calls, CallOf("module", m))
    /\ UNCHANGED <<cctorStatus, initFlags, moduleFinished, attempts, ended, created>>
------------------------------------------------------------------------------
(* run_module_static_constructor: the flag is set first. *)
EnterModule ==
    /\ At("module", "enter")
    /\ moduleFinished' = [moduleFinished EXCEPT ![Top.of] = TRUE]
    /\ calls' = IF ~moduleFinished[Top.of] /\ Top.of \in WithCctor
                THEN Advance("invoke") ELSE Return
    /\ UNCHANGED <<cctorStatus, initFlags, attempts, ended, created>>

(* The global type of a module without a constructor cannot be loaded; the *)
(* flag stays set.                                                         *)
LookUpFails ==
    /\ At("module", "enter")
    /\ ~moduleFinished[Top.of] /\ Top.of \notin WithCctor
    /\ moduleFinished' = [moduleFinished EXCEPT ![Top.of] = TRUE]
    /\ calls' = Fail
    /\ UNCHANGED <<cctorStatus, initFlags, attempts, ended, created>>

(* Mutant: the status changes before the constructor of the module runs. *)
EnterClassSetsStatus ==
    LET k == Top.of
        m == ModuleOf[k]
    IN  /\ At("class", "enter")
        /\ calls' = IF cctorStatus[k] = "NotInited"
                    THEN [CallThen("load", CallOf("module", m))
                             EXCEPT ![Len(calls)].waited = ~moduleFinished[m] /\ m \in WithCctor]
                    ELSE Return
        /\ cctorStatus' = [cctorStatus EXCEPT ![k] = "InitSelf"]
        /\ UNCHANGED <<initFlags, moduleFinished, attempts, ended, created>>

(* Mutant: the constructor of the module is left to RunModuleConstructor. *)
EnterClassWithoutModule ==
    /\ At("class", "enter")
    /\ calls' = IF cctorStatus[Top.of] = "NotInited" THEN Advance("load") ELSE Return
    /\ UNCHANGED <<cctorStatus, initFlags, moduleFinished, attempts, ended, created>>

(* run_class_static_constructor, up to the constructor of the module *)
EnterClass ==
    LET k == Top.of
        m == ModuleOf[k]
    IN  /\ At("class", "enter")
        /\ calls' = IF cctorStatus[k] = "NotInited"
                    THEN [CallThen("load", CallOf("module", m))
                             EXCEPT ![Len(calls)].waited = ~moduleFinished[m] /\ m \in WithCctor]
                    ELSE Return
        /\ UNCHANGED <<cctorStatus, initFlags, moduleFinished, attempts, ended, created>>

(* initialize_all fails for the first time: its flag stays set. The        *)
(* methods of the class have been set up already, or not.                  *)
LoadFails ==
    /\ At("class", "load")
    /\ initFlags[Top.of] = "none"
    /\ \E how \in {"failedEarly", "failedLate"} :
           initFlags' = [initFlags EXCEPT ![Top.of] = how]
    /\ calls' = Fail
    /\ UNCHANGED <<cctorStatus, moduleFinished, attempts, ended, created>>

(* Mutant: the status changes when the constructor has returned. *)
SetFinishedAfterwards ==
    /\ At("class", "load")
    /\ LET k == Top.of
       IN  /\ initFlags' = [initFlags EXCEPT ![k] = IF @ = "none" THEN "loaded" ELSE @]
           /\ calls' = IF k \in WithCctor /\ initFlags[k] # "failedEarly"
                       THEN Advance("invoke") ELSE Return
    /\ UNCHANGED <<cctorStatus, moduleFinished, attempts, ended, created>>

(* initialize_all succeeds, if only because its flag is set: the status    *)
(* changes, and the constructor is looked for among the methods.           *)
SetFinished ==
    /\ At("class", "load")
    /\ LET k == Top.of
       IN  /\ initFlags' = [initFlags EXCEPT ![k] = IF @ = "none" THEN "loaded" ELSE @]
           /\ cctorStatus' = [cctorStatus EXCEPT ![k] = "InitSelf"]
           /\ calls' = IF k \in WithCctor /\ initFlags[k] # "failedEarly"
                       THEN Advance("invoke") ELSE Return
    /\ UNCHANGED <<moduleFinished, attempts, ended, created>>

(* invoke_without_run_cctor enters the constructor. *)
StartBody ==
    /\ calls # <<>> /\ Top.at = "invoke"
    /\ calls' = Advance("body")
    /\ attempts' = [attempts EXCEPT ![Top.of] = @ + 1]
    /\ UNCHANGED <<cctorStatus, initFlags, moduleFinished, ended, created>>

(* It cannot: the stacks are exhausted, the method cannot be compiled, or  *)
(* the global type of a module that has a constructor cannot be loaded.    *)
RefuseBody ==
    /\ calls # <<>> /\ Top.at = "invoke"
    /\ calls' = Fail
    /\ attempts' = [attempts EXCEPT ![Top.of] = @ + 1]
    /\ ended' = ended \cup {Top.of}
    /\ UNCHANGED <<cctorStatus, initFlags, moduleFinished, created>>

BodyReturns ==
    /\ calls # <<>> /\ Top.at = "body"
    /\ calls' = Return
    /\ ended' = ended \cup {Top.of}
    /\ UNCHANGED <<cctorStatus, initFlags, moduleFinished, attempts, created>>

BodyThrows ==
    /\ calls # <<>> /\ Top.at = "body"
    /\ calls' = Fail
    /\ ended' = ended \cup {Top.of}
    /\ UNCHANGED <<cctorStatus, initFlags, moduleFinished, attempts, created>>
------------------------------------------------------------------------------
(* run_class_static_constructor_hierarchy: the class itself *)
EnterHierarchy ==
    /\ At("hierarchy", "enter")
    /\ calls' = IF cctorStatus[Top.of] = "NotInited"
                THEN CallThen("parent", CallOf("class", Top.of)) ELSE Advance("parent")
    /\ UNCHANGED <<cctorStatus, initFlags, moduleFinished, attempts, ended, created>>

(* Mutant: only the class itself. *)
EnterNoParent ==
    /\ At("hierarchy", "parent")
    /\ calls' = Advance("mark")
    /\ UNCHANGED <<cctorStatus, initFlags, moduleFinished, attempts, ended, created>>

(* Mutant: the parent is tried until its status is InitHierarchy. *)
EnterParentRepeatedly ==
    LET p == Parent[Top.of] IN
        /\ At("hierarchy", "parent")
        /\ calls' = IF p # NoClass /\ cctorStatus[p] # "InitHierarchy"
                    THEN CallThen("parent", CallOf("hierarchy", p)) ELSE Advance("mark")
        /\ UNCHANGED <<cctorStatus, initFlags, moduleFinished, attempts, ended, created>>

(* its parent *)
EnterParent ==
    LET p == Parent[Top.of] IN
        /\ At("hierarchy", "parent")
        /\ calls' = IF p # NoClass /\ cctorStatus[p] # "InitHierarchy"
                    THEN CallThen("mark", CallOf("hierarchy", p)) ELSE Advance("mark")
        /\ UNCHANGED <<cctorStatus, initFlags, moduleFinished, attempts, ended, created>>

(* The end: the status is set to InitHierarchy if it is InitHierarchy, so  *)
(* it never is. The outermost call returns to __new_object.                *)
MarkHierarchy ==
    /\ At("hierarchy", "mark")
    /\ calls' = Return
    /\ created' = IF Len(calls) > 1 /\ calls[Len(calls) - 1].at = "mark"
                  THEN created ELSE created \cup {Top.of}
    /\ UNCHANGED <<cctorStatus, initFlags, moduleFinished, attempts, ended>>

RuntimeStep ==
    \/ EnterModule
    \/ LookUpFails
    \/ EnterClass
    \/ LoadFails
    \/ SetFinished
    \/ EnterHierarchy
    \/ EnterParent
    \/ MarkHierarchy

ManagedUse ==
    \/ \E k \in Classes : UseStatic(k) \/ NewObject(k)
    \/ \E m \in Modules : RunModule(m)

ClassesNext ==
    \/ RuntimeStep
    \/ ManagedUse
    \/ StartBody
    \/ RefuseBody
    \/ BodyReturns
    \/ BodyThrows

ClassesSpec == ClassesInit /\ [][ClassesNext]_classVars
------------------------------------------------------------------------------
ClassesTypeOK ==
    /\ cctorStatus \in [Classes -> {"NotInited", "InitSelf", "InitHierarchy"}]
    /\ initFlags \in [Classes -> {"none", "loaded", "failedEarly", "failedLate"}]
    /\ moduleFinished \in [Modules -> BOOLEAN]
    /\ calls \in Seq(Calls)
    /\ attempts \in [WithCctor -> Nat]
    /\ ended \subseteq WithCctor
    /\ created \subseteq Classes

(* The i-th call is one of the constructor of c. *)
InConstructor(i, c) == calls[i].of = c /\ calls[i].at \in {"invoke", "body"}

(***************************************************************************)
(* A use of a class that goes through at once finds its constructor done,  *)
(* failed, or in progress further down the stack. The one exception is a   *)
(* class whose loading has failed: its next use goes through all the same. *)
(***************************************************************************)
FinishedMeansAttempted ==
    \A k \in Classes \cap WithCctor : cctorStatus[k] # "NotInited" =>
        \/ attempts[k] > 0
        \/ initFlags[k] = "failedEarly"
        \/ \E i \in DOMAIN calls : InConstructor(i, k)

(***************************************************************************)
(* The constructor of a class runs when that of its module has ended, or   *)
(* when code called from it uses the class, or it had failed.              *)
(***************************************************************************)
ModuleRunsFirst ==
    \A i \in DOMAIN calls : \A k \in Classes :
        InConstructor(i, k) =>
            LET m == ModuleOf[k] IN
                \/ m \notin WithCctor
                \/ m \in ended
                \/ \E j \in 1..(i - 1) : calls[j].of = m /\ calls[j].at = "body"

(* An object of a class exists only when its ancestors have been through   *)
(* their constructors, or are in them: CCotrRunWhenNewChildObject.         *)
ObjectsFollowParents ==
    \A k \in created :
        /\ cctorStatus[k] # "NotInited"
        /\ Parent[k] # NoClass => cctorStatus[Parent[k]] # "NotInited"

(***************************************************************************)
(* A constructor is not invoked twice, except by a use of the class that   *)
(* was waiting for the constructor of the module, which used the class:    *)
(* run_class_static_constructor does not look at the status again.         *)
(***************************************************************************)
SecondAttemptOnlyAfterModule ==
    [][\A c \in WithCctor : attempts'[c] > 1 =>
           \/ attempts'[c] = attempts[c]
           \/ attempts[c] = 1 /\ Top.of = c /\ Top.waited]_classVars

(* The assertion of Class::set_cctor_finished, where it is called. *)
StatusAssertion == At("class", "load") => cctorStatus[Top.of] = "NotInited"
==============================================================================
