# A TLA+ model of the LeanCLR runtime

LeanCLR is a single-threaded CLR in C++ (`src/src/runtime`): it loads ECMA-335
assemblies, translates IL to its own instruction sets, interprets them, and
collects garbage with a non-moving mark-sweep collector. This directory holds
TLA+ specifications of its core, configurations that check them with TLC, and
proofs for TLAPS. Paths below are relative to `src/src/runtime/` unless they
start with `src/`.

"Single-threaded" does not mean sequential. Native code calls managed code in
the middle of its own work (finalizers inside a collection, static constructors
inside an instruction, nested `execute()` calls inside an internal call), and
that code calls back into the same native code, over global state. The models
concentrate on this, on data structures whose caches and cursors can go stale,
and on the stack of exceptions in progress that all frames share.

## Inventory

| Component | State | Operations | Talks to | What makes it correct |
| --- | --- | --- | --- | --- |
| Object scanner `gc/obj_scanner.*` | native recursion depth, deferred queue, flush depth | visit root, scan fields, defer, flush, finish | bitmap (`visit` callback), class gc bitmaps | marks exactly what is reachable, each scanned once, bounded native stack, ends |
| Alive bitmap `utils/segmented_address_bitmap.h` | segments by address range, direct-mapped cache of segments | mark, is_marked | scanner, sweeps | is a set of addresses, whatever is cached |
| Size-class pools `gc/mark_sweep/small_heap_arena.*` | arenas, free lists, in-use words, current arena, cursor | allocate, sweep | heap, OS memory | no live block handed out, exactly the dead ones freed, cursor valid after arenas move |
| Heap `gc/mark_sweep/mark_sweep_heap.*` | pools, big objects, counters, mode | allocate, collect, set mode | all of the above, finalizers, handles | no reference to a freed object; garbage is reclaimed |
| Finalizers `gc/gc_finalizer.*` | registry by address, queue `s_freachable` | register, promote, run pending, suppress, re-register | managed code, scanner | finalized once, before being freed, never when suppressed |
| Roots `gc/gc_roots.*`, handles `vm/gchandle.*` | registered slots and ranges; handle infos and a free list | register, new/free/get/set handle, sweep weak | collector, managed code | weak handles cleared exactly when the target goes; no handle shared |
| Exceptions in the interpreter `interp/interpreter.cpp`, `interp/ll_transformer.cpp` | `s_exception_flows`, frames, ips, native stack | throw, rethrow, leave, endfinally, ret, unwind | machine state, nested `execute()` | what ECMA-335 says of try, catch, filter, finally and fault |
| Machine state `interp/machine_state.*` | frame stack, evaluation stack, save points | enter, leave, restore | interpreter | balanced on every path; live operands of suspended frames untouched; a frame returns to its caller |
| Class and module initialization `vm/runtime.cpp`, `vm/class.cpp` | per-class and per-module flags | run static constructor, module constructor, hierarchy | interpreter (nested) | at most once, before use, module and ancestors included; ends although classes need each other |
| Metadata and caches `metadata/*`, `vm/assembly.cpp` | modules, generic instances, method specs | load, resolve, inflate | everything | one runtime object per entity |
| Field layout `vm/class.cpp`, `metadata/layout.cpp` | per-class flag, sizes, offsets, gc bitmaps | initialize fields, recursively | class initialization, scanner | fields disjoint, aligned and in bounds; bitmaps name exactly the references; in whatever order classes come |
| Virtual tables `vm/class.cpp`, `vm/method.cpp` | per-class flag, tables, interface offsets, slots of methods | initialize, recursively; look up a call | class initialization, interpreter | calls run the method the standard names; slots agree with derived classes; valid classes load |
| Memory pools `alloc/*`, `utils/not_free_list.h` | regions | allocate | metadata, transformers | disjoint, aligned |
| Delegates `vm/delegate.cpp` | invocation lists | combine, remove | reflection | list algebra of `Delegate` |
| Threads, monitors `vm/rt_thread.cpp`, `vm/monitor.cpp` | one thread, lock counts | enter, exit | internal calls | waits are stubs |
| Internal calls, intrinsics, P/Invoke, platform, il2cpp API | little | bindings | host, OS | forwarding and I/O |
| LeanAOT, generator, scripts, samples, libraries, zlib, utf8 | offline or vendored | | | out of scope |

The behaviours that are hard to test: managed code inside a collection; the
order of promotion over a hash map; addresses used again; caches of absent
entries; removal from a vector while it is swept; exceptions that interrupt
finally blocks that run for exceptions or leaves; flows that outlive frames;
limits (recursion depth, queue threshold, frame and evaluation stack); flags that are set
before the work they stand for, with managed code or a recursive call in between. `PROJECT.json` lists them under
`hazards`, each at its line.

## Modules

Reading order, with what each stands for.

* **HeapGraph** – objects, reference slots, reachability, closedness.
* **ObjScanner** – the marker (`gc/obj_scanner.cpp`). The native call stack is
  a sequence of activations `[obj, slot, ...]`; an action is one visit, one slot, one
  return or one round of the flush loop. `MaxDepth` and `BatchThreshold` are
  `kMaxRecursiveVisitDepth` and `kDeferredScanBatchThreshold`. The heap is a
  variable chosen in `Init`, so one run covers many graphs.
* **MarkSet** / **AddressBitmap** – a set of addresses and its implementation
  by segments with a direct-mapped cache that also caches "no such segment".
* **BlockStore** / **SizeClassPool** – what an allocator of blocks of one size
  promises, and the pool of arenas that implements it. The sweep is a loop of
  one action per block and per arena, since its swap-remove and its cursor reset
  are what can go wrong; arenas that the system does not provide are an action.
* **GcCollector** – the collector as managed code meets it: allocation, field,
  static and handle writes, suppress and re-register, `GC.Collect`,
  `GC.WaitForPendingFinalizers`, and a stack of `run_pending_finalizers`
  activations with managed code between their rounds. Marking, promotion and sweeping
  run no managed code and are one step; what is inside it is the three
  modules above.
* **HandleStore** / **GcHandles** – what gc handles promise their holders, and the table behind them:
  `HandleInfo` structures with a free list, ids, and the map the collector goes by. A handle is named by
  address (managed code) or by id (a host before Unity 6, `il2cpp-api.cpp`). What a holder sees is the refinement mapping.
* **ManagedCode** – methods as exception handling sees them.
* **StructuredExceptions** – what ECMA-335 I.12.4.2 promises such a program:
  the abstract specification, with no flow stack: an activation has a function from the clauses
  whose handlers are in progress to what happens when these end.
* **ExceptionFlow** – the interpreter's implementation: frames, saved ips, the
  native stack of `execute()` calls, and `s_exception_flows`. One action per
  instruction of interest and per turn of the loop at `unwind_exception_handler`;
  a leave is lowered as `ll_transformer.cpp` lowers it. Assertions of the code
  are the property `AssertionsHold` and not guards. An address is a pair
  `<<method, offset>>`, a frame's address its position in the frame stack, so
  that a flow can be taken for another frame's exactly where it can in the code.
* **MachineState** – the frame stack and the evaluation stack: one action per way of
  entering a frame (from native code, from managed code, without room) and of leaving one.
  A frame keeps its base, size and the top to go back to; `live`, how many of its
  slots it still needs while it is suspended, and `caller` are what the code takes for granted and
  the properties state. A slot that `enter_frame_from_interp` leaves behind when it
  fails half-way is a frame with `entered = FALSE`.
* **ClassInit** – `run_class_static_constructor`, its hierarchy form and
  `run_module_static_constructor`. The calls in progress are a stack; managed code is
  whatever uses a class, at any time, and a constructor's body is a call at point `"body"`.
  Errors go up to the nearest body, where they are thrown; loading a class, looking a module's
  constructor up and entering a constructor may each fail. `attempts`, `ended` and `created` record
  what happened.
* **RuntimeThread** – both together: a static constructor is one `execute()`,
  inside which managed code calls, returns, throws and uses classes on stacks that may be full. It
  implements each of the two (theorems `ThreadImplementsClasses`, `ThreadImplementsStacks`).
* **FieldLayout** – `initialize_fields` with its recursion into parents and field types.
  One action per call, per field of each of the three loops (references, instance
  fields, static fields), and for each bitmap. The metadata is a variable chosen in `Init`. `early` records who
  read what of a struct that was not laid out yet.
* **VirtualDispatch** / **VirtualTables** – which method a virtual call runs by ECMA-335 and CoreCLR's default
  interface methods, and the tables by which the runtime decides it (`initialize_vtables`, `setup_vtable_typedef`). One action
  per call, per recursion into the parent or an interface and per table; within a table each pass of the code is
  an operator from draft to draft (`ApplyMethodImpls`, `ApplyOverrides`, `ApplyNewSlots`, `FillEmpty`). A row of
  MethodImpl names its owner, which is the class or one of its interfaces. Equal names stand for equal signatures.
* **MC\*** – instances for TLC. **\*Proofs** – theorems.

Operators whose comment or name says "mutant" (a dropped guard, a stale cache
entry, ...) are not part of the specifications: each shows that some property notices
such a change in the code.

### Design facts the models rest on

* Managed locals and evaluation stacks are not roots
  (`src/src/tests/managed/GcTests/Fixtures/GcTestCaseBase.cs:20`: "Managed locals
  are not GC roots; pin reachable graphs with a strong handle."), and no allocation
  collects. `GcCollector` therefore lets managed code keep across a collection only
  what roots, handles or the running finalizers' `this` lead to (`HeldAfter`).
* The order of a hash map and how far a deferring scan has come when the next
  object is promoted are left open in `Promotes`.
* Between two instructions of a managed method nothing is known about the program: in
  `RuntimeThread` each frame may call any method with any argument position, use any
  class or return. An exception that unwinds several frames is several returns.
* Waiting for a static constructor does not exist: there is one thread, and a class whose
  constructor is in progress further down counts as initialized.
* A finalizer that throws is reported and forgotten (`gc_finalizer.cpp:93`), so
  that returning and throwing are one action.

## Runs

| Run | Instance | Shows |
| --- | --- | --- |
| `obj_scanner` | 5 objects, 1 static area, every heap of a family; depth limit 1, threshold 2 | no scanned object refers to a forgotten one; exactly the reachable are marked; stack bounded; scanned once; marking ends |
| `address_bitmap` | 6 addresses over 3 segments of 2 bits, cache of 2 | cache agrees with the segments; refines `MarkSet` |
| `size_class_pool` | 3 arenas of 2 blocks | free list, words and counts agree; a new arena only when all are full; refines `BlockStore`; a sweep ends |
| `gc_collector` | 2 addresses, 1 root slot, 1 handle, 2 nested activations, finalizers that do not collect | nothing dangles; the queue is empty at promotion; an object waits for its finalizer in one place; suppressed ones do not run; finalized before freed; weak handles outlive finalization; garbage is reclaimed |
| `gc_collector_nested` | the same, finalizers collect | **violated**: `assert(s_freachable.empty())` |
| `gc_handles` | 4 handles over 3 structures, 2 objects, both kinds of holders | type; the table's assertions; refines `HandleStore` |
| `exception_flow` | 2,364 generated programs, frame stack of 3, two exception classes | type; the interpreter's assertions; no flow outlives its frame; refines `StructuredExceptions`; programs end |
| `exception_return_from_catch` | `try { try {..} catch { return; } } catch {}`, called from every kind of block | **violated**: a handled exception comes back in the caller |
| `runtime_thread` | a base and a derived class in two modules, one with a constructor; two methods; 3 frames, 4 evaluation slots | types, and constructors matched to `execute()` calls; live operands kept; stacks balanced; a frame resumes its caller; a class that counts as initialized has been attempted; module first; parents before objects; a second attempt only in the case of `RuntimeThreadModuleCctor.cfg`; initialization ends |
| `field_layout` | 2,322 programs of three structs, a class and a derived one; every order of initialization | fields disjoint, aligned, in bounds; bitmaps exact; each unless a layout was read too early, and when that can happen |
| `virtual_tables` | 596 hierarchies of three classes and two interfaces; every order of first use | calls run what the standard names; slots agree; no valid class is refused |
| `virtual_explicit_beside_own` | `class A : I { void I.F() {..} public virtual void F() {..} }` | **violated**: the public `F` runs |

Further configurations, not among the runs that `PROJECT.json` lists, show the other departures of the code
from what it promises, with `tlc -config <configuration> <module>`:

| Configuration | Module | Instance | Violates |
| --- | --- | --- | --- |
| `GcHandlesIdsWrap.cfg` | `MCGcHandles` | more handles than ids | `AssertionsHold`: a handle in use is not in the map |
| `ExceptionFlowCallBeforeTry.cfg` | `MCExceptionFlow` | `F(); try {} catch {}` | `ImplementsStructuredExceptions`: the try catches what the call raised |
| `ExceptionFlowRefusingFilter.cfg` | `MCExceptionFlow` | `try {..} catch (E) when (false) {}` | `ImplementsStructuredExceptions`: the handler runs |
| `ExceptionFlowCatchInSecondFinally.cfg` | `MCExceptionFlow` | `try { try { return; } finally {} } finally { try {..} catch {} }` | `AssertionsHold`: the return is taken off the flow stack, an assertion fails |
| `ExceptionFlowRaisingFilterHandler.cfg` | `MCExceptionFlow` | `try {..} catch (E) when (true) { throw ..; }` | `ImplementsStructuredExceptions`: the new exception is dropped |
| `RuntimeThreadModuleCctor.cfg` | `MCRuntimeThread` | as `runtime_thread` | `StatusAssertion`: the assertion of `set_cctor_finished` |
| `VirtualTablesInheritedBesideDefault.cfg` | `MCVirtualTables` | `class B : A, I {}`, with `A.F` and a default for `I.F` | `CallsAsDeclared`: the default runs |
| `VirtualTablesTwoDefaults.cfg` | `MCVirtualTables` | `class A : K {}`, where K extends J and both give a default for `I.F` | `CallsAsDeclared`: that of J runs |

`SizeClassPoolWords.cfg` (with `MCSizeClassPool`) checks the properties of `size_class_pool`, which hold, on
two arenas of three blocks with two bits to a word: there the blocks in use are spread over two words of use bits,
the second half used, and a sweep goes from one word to the next or skips one. In `size_class_pool` the two
blocks of an arena share a word; three arenas of three blocks are too many states for a run of minutes.

Bounds. In `obj_scanner` five objects are a chain longer than the depth limit
with room for a queue that fills in the middle of a recursion. In `address_bitmap` two
segments share a cache entry and two addresses share a segment. Three arenas are what
removing one in the middle by moving the last takes, two blocks an arena that is
neither empty nor full. Three `HandleInfo` structures
and four handles let a structure be used again while two others are in use. In `gc_collector` two addresses make chains, cycles and
address reuse. `MaxActivations = 2` lets finalizers nest once: in
`gc_collector_nested` the second activation is what refutes the property; in
`gc_collector` the bound is never met, since a finalizer that waits finds the queue
taken over (`QueueTakenOver`). In `exception_flow` the programs have every nesting of
two constructs, every sequence of two, and calls and nested `execute()` calls to
four callees, one of them recursive so that the frame stack overflows.
In `runtime_thread` three frames are a caller, a constructor and a constructor or callee in it; four evaluation
slots let the larger method (3, one argument) overflow while frames are left, and the smaller one fit. The two
classes and two modules give every case of `waited`, of parents and of modules with and without a
constructor. In `field_layout` the structs refer to each other in instance and static fields, directly and through a third;
a type may be missing; one struct has packing and a size of its own; a
struct, a base or a derived class may have explicit offsets. No struct contains itself (`Valid`).
In `virtual_tables` the base and middle class may list either interface, again or for the first time, have new, abstract or overriding
methods and explicit implementations, and the most derived one overrides, listing again or not; the second interface extends the first, may
give a default for its method, and has a method that is found in `System.Object`. `Supported` (in `VirtualTables`) leaves out the
programs of finding 9. `Compiled` leaves out what no C# compiler produces: two virtual methods of a class with one name and signature, two rows of MethodImpl
for one declaration, rows that name another class's method or one without a body, interface lists without what the listed interfaces extend (compilers
write all of them), interfaces of `System.Object`, and abstract classes that say nothing of an interface method they list, which are
valid by the standard and refused by the code. It also leaves out rows that are for a class's method, which C# writes for covariant returns only; signatures
are abstracted to names, under which these are no different from overrides. After a class is refused the model stops.

What the programs of `exception_flow` leave out (`Supported` in `ExceptionFlow` and the generator in `MCExceptionFlow`) is
where the interpreter departs from the standard, each shown by a configuration of its own: a call directly before a try block; a leave out of a
catch handler that also leaves an outer try block, or two catch handlers at once;
filters that refuse, that protect another handler or whose handlers raise; a
catch inside the second of two finally blocks that one leave runs.

Fairness. `ObjScanner`, `SizeClassPool` (within a sweep) and `ExceptionFlow` are
loops of native code on one thread: weak fairness of their steps says only
that the machine goes on. `GcCollector` assumes in addition that finalizers return and
that the host goes on collecting (`il2cpp_gc_collect_a_little`), as nothing else starts a
collection; `GarbageReclaimed` says nothing while the collector is disabled. Managed
steps have no fairness, except in `RuntimeThread`: there the runtime's own steps go on (weak
fairness), and managed code that can return does so, at each depth of the stack (strong fairness of
`Returns` per frame and of `CctorEnds`), since `InitEnds` is about the runtime ending what it began and not
about constructors that loop. `InitEnds` excepts the states in which a leftover frame slot has been taken for
a caller: what the code does there depends on what an older frame left in it, and the model stops. Deadlock is not checked where a system really stops: marking done,
program ended, a leftover slot resumed, every class laid out.

## Findings

The runs show 1, 3 and the first part of 9, the further configurations the others.

1. **A finalizer that collects** (`gc/gc_finalizer.cpp:48`). The nested
   collection promotes into `s_freachable`, and the outer one asserts it empty. In a
   release build it goes on with objects that may be freed. The object whose
   finalizer is running is no root either, and can be freed under it.
2. **A call directly before a try block** (`interp/interpreter.cpp:8134`). The
   saved ip, after the call, is what the search in the caller goes by.
3. **Leaving a catch handler inside an outer try block** (`interp/ll_transformer.cpp:141`).
   The leave does not pop the throw flow, and neither does the return. Depending on the caller the
   handled exception is raised again, an assertion fails or a rethrow finds
   nothing to rethrow.
4. **Filters are never evaluated** (`interp/interpreter.cpp:8104`): the handler runs at once.
5. **A catch inside the second finally block of a leave** (`interp/interpreter.cpp:8167`). The leave's
   current clause is still the first one, so the handler pops the leave, and the endfinally finds no flow.
6. **An exception raised in a filter's handler** (`interp/interpreter.cpp:379`) is taken for one of the
   filter itself: it is dropped, and the first exception goes on.
7. **A module constructor that uses a class of its module** (`vm/runtime.cpp:422`). If the first use of
   the class is what started the module constructor, the status has changed when it returns: the assertion
   of `set_cctor_finished` fails, and in a release build the static constructor of the class runs twice.
8. **Handle ids wrap** (`vm/gchandle.cpp:54`) unchecked where a structure is used again: a later handle takes
   the id and the map entry of one in use, whose target is then no root.
9. **Virtual tables.** A public virtual method replaces an explicit implementation of the same class
   (`vm/class.cpp:2033`); a default of an interface is preferred to an inherited method (`vm/class.cpp:2044`); of two defaults that
   of the interface listed later wins, which is the less specific one (`vm/class.cpp:1976`).

What the passing runs show to be exceptions, each excepted by name in a property and listed as a hazard: a frame slot that
stays when the evaluation stack is exhausted (`ResumesCaller`); a class whose loading failed
counts as loaded the next time (`FinishedMeansAttempted`); `InitHierarchy` is never reached, as the condition in
`runtime.cpp:446` is the wrong way round; a struct that has a static field of a class in whose static or instance fields
it occurs may be read with size 0 or an empty bitmap, depending on which comes first (`EarlyOnlyBelowStatics`,
`ReadEarly`); offsets inherited from a class with explicit layout are not respected (`LayoutsSound`), and a class with explicit
layout whose parent has fields without offsets is refused (`OffsetMissing`).

## Proofs

Reachability needs no induction over paths: roots are reachable, reachable sets are closed, and every
closed set holding the roots contains what is reachable (`ReachableIsLeast`).

`MarkingProofs`, of the scanner: the inductive invariant `IInv` strengthens the four properties with
* `StackShape` – the depth counters are determined by the activations on the
  stack, which is why the bound on the stack follows;
* `PendingMarked` – what is on the stack or in the queue is marked, each object in one place;
* `MarkedSound` – only reachable objects are marked;
* `RootsCovered` and `FinishingShape` – roots already visited are marked, and once
  `finish_visit` has begun no root is left.
`NoBlackToWhite` is part of it: every reference of a marked object is marked unless
the object is still to be scanned beyond it. When marking ends nothing is pending, so
the marked set is closed, contains the roots and with them the reachable
objects; with `MarkedSound` they are equal. This holds for every heap, limit and threshold.

`MarkingProofs`, of the bitmap the scanner marks in: the cache's agreement with the segments is inductive
with the type invariant and the shape of a cache entry; the refinement of `MarkSet`
is one step lemma per operation, with arithmetic on segment and bit numbers as
lemmas of its own.

`GcCollectorProofs`: the inductive invariant has two halves. `HeapSound` (roots,
handles, fields and locals refer to live objects; the registry holds the live finalizable
ones) is preserved by every step, even if finalizers collect: `AliveIsClosed` shows
that what a collection keeps contains the roots and the `Active` objects and is closed,
whatever order the promotion takes. The queues of finalizers are sound only if finalizers do not
collect, which `gc_collector_nested` shows to be needed. That half needs
`QueueTakenOver`: while finalizers run there is one activation and `s_freachable` is empty, so that
`WaitForPendingFinalizers` in a finalizer returns at once and the promotion fills
an empty queue. `NoDangling`, `FreachableEmptyAtMark` and `WaitsOnce` follow; the
action properties `SuppressedNotRun` and `FinalizedBeforeFreed` have one step per action,
and `WeakOutlivesFinalizer` is about the sweep alone.

`RuntimeThreadProofs`, of the stacks (`MachineState`): `LiveSlotsKept` and `StacksBalanced` are not inductive. `StacksIInv` adds that above the frame an `execute()`
runs there are only leftover slots (`NothingAbove`), that two entered frames in a row are caller and callee, linked by
`oldTop` and `caller`, unless an `execute()` begins between them (`FramesLinked`), that no frame has more live than it
has (`LiveInFrame`), that the host's `execute()` begins with empty stacks (`FirstExecute`), and that
save points are ordered (`TopsOrdered`). The stacks may have any size, the methods any slots and arguments.

`RuntimeThreadProofs`, of the classes (`ClassInit`), in two layers: `ClassesIInv` says of each call in progress what its point
promises (`Shape`, `ConstructorReady`) and what it is waiting for in the call above it (`WaitsFor`, `Served`);
`FinishedMeansAttempted`, `ModuleRunsFirst` and `ObjectsFollowParents` follow. On top of it `AttemptsIInv` counts: of the
calls that found the constructor of a module still to run only one waits for it (`OneWaits`), a constructor whose
flag is not set has not been attempted (`NotStartedNotAttempted`), and while a call waits the constructor of its class is
attempted at most once (`Fresh`). So a
constructor is invoked twice only after such a wait, and never three times. `Fail` cuts the stack at the innermost
body, found by well-founded induction on numbers (`GreatestExists`).

`SizeClassPoolProofs`: the invariant adds `SweepSound` – every block before the one the loops are at is free or marked,
and no marked block has been freed. It is kept when an arena is dropped because the arena that takes its place comes from
beyond the loop, and it is what makes the end of a sweep the end of a `BlockStore` sweep. The lemmas are about lists without duplicates: taking the
first element, prepending, appending, and removing by overwriting with the last (`ArenaRemoved`).

`RuntimeThreadProofs`, of the two together: a step of the thread is a step of each component or leaves it alone, so that the
invariants of both hold of the thread; `ThreadImplementsStacks` uses the invariant of `ClassInit`, which says that what is
invoked is a constructor. `CctorsAreExecutes`, the link between the two stacks, is proved with the cardinality
of the set of bodies. All safety properties of `runtime_thread` are proved for any classes, modules, methods and stack sizes.

`GcHandlesProofs`: the n-th handle has the id n (`IdsCount`), so that the map of ids holds exactly the handles in use and leads
to their structures (`MapKnowsHeld`); a structure on the free list is there once and has no id (`ListedOnce`, `FreedHaveNoId`). The
assertions and `HandlesImplementStore`, each operation of the table being that of `HandleStore`, follow under the hypothesis `IdsSuffice`: no
more handles are made than there are ids. `GcHandlesIdsWrap.cfg` shows that without it they are false.

`ExceptionFlowProofs`: types, the interpreter's assertions and `NoFlowOutlivesFrame`, for every set of exception classes, every
frame stack, and every program that is well formed and supported (`ProgramsSupported`). An assertion is about the last flow, but
flows below it come to the top when it is popped; so `FlowsKept` says of each flow what must hold when it is the last:
which clause it is at, which clauses it may still try (`next`, `remain`), and that for each of them
popping the flows of the handlers it leaves stops at the flow of the handler around it (`Reaches`, `StopsAt`). `Placed` says the same of frames: at the top
of the flows up to its own, a frame has the one of the innermost handler its ip is in. It is needed of the current frame (`CurrentPlaced`), of each
caller and of the code that waits for a nested `execute()` (`CallersPlaced`), since these go on when the flows above them are gone.
`WellFormed` (in `ManagedCode`) is what ECMA-335 asks of nested blocks and of control entering and leaving handlers, `Supported` (in `ExceptionFlow`) excludes
the programs of findings 3 to 6. The instance's programs satisfy both, which TLC evaluates (`AllSupported`).
A recursive call and a call directly before a try block are not excluded: they break no assertion.

`FlowsImplementStructuredExceptions`, in the same module: each step of the interpreter is one that `StructuredExceptions` allows, or a stutter.
The standard knows which handlers a frame is in; the interpreter's flows say so only together with where control is (the refinement
mapping), so a second inductive invariant, `HandlersIInv`, says where each flow began: in the handlers that the flows below it are for, or behind one that a throw has
left (`OriginsKept`); that an unwinding goes on from where a throw is or a block ended (`UnwindsAt`); and that callers wait behind their calls (`CallersWait`).
No two flows are then for the same handler (`Distinct`), and pushing a flow, popping some, or going where one is no longer looked for is
entering a handler and leaving others. One step lemma per action follows; those that pop are split by what
`PopOutOfScope` stops at. The further hypothesis `RaisesSupported` excludes what findings name and the standard forbids or treats otherwise: nothing is raised in a filter's
handler, filters accept everything, no call is directly before a try block, and `rethrow` is in a catch handler. The instance's programs satisfy it too.

`FieldLayoutProofs`: `LayoutsSound`, for any classes and any programs in which no class contains itself (`ProgramsValid`, which the
instance's satisfy). `StackOK` says which call waits for which: a class has at most one call, each call but the first is
for the parent or a field type of the one below it, and a chain of calls that never passes static fields leads to ever
smaller parts, so that it cannot come back to a class in progress. That is why a size is missing only below static fields or after
a failure. `FieldsLaid` says of the call that is placing fields, and of every class that has been placed, that the fields so far are
disjoint, aligned and end before `end`, provided no size was read too early (`Clean`); sizes, offsets and alignments of other classes
do not change once read (`SizedStays`, `OffsetStays`), since a call writes to its own class, and an explicit one to its ancestors only.
`ReferencesTraced` rests on it. What a call read too early still has no size while the call goes on (`RecordsWait`), so a class that
knows of no references has only field types and a parent that know of none, or has the early read on record (`ReferencesNoted`). A type with
references is as aligned as a pointer (`ReferencesAligned`), so that its bitmap can be shifted by whole words,
and static memory has room for every static field (`StaticsRoomy`). `BitsMapped` then says of each bitmap that it is empty until it is written, that it does
not change afterwards, and that once written it has exactly the bits of the fields it stands for.
Facts about the recursive definitions (`Own`, `InstanceFields`, `Ancestry`) that would be proved by induction are proved from a
minimal counterexample, along numbers or the parent relation.

`VirtualTablesProofs`: `SlotsAgree`, for every hierarchy the metadata can describe and classes first used in any order, from the
assumption on programs alone (`ProgramsAssumption`: classes are derived from classes in finite chains and list interfaces once each).
The inductive invariant `TablesInv` has two parts. `CallsFine` is about the calls of `initialize_vtables` in progress: each but the
first is for what the one below it waits for, and what a call has been served with is ready. No class is begun a second time below itself,
since a call is for the parent or an interface of the one below, interfaces wait for nothing, and chains of parents end (`NotBegun`); that is why a flag that is
set is as good as a table that is there (`NeedsReady`). `ReadyIsClosed` says of each ready class that its parent is ready too and that its table
is fine (`TableFine`): the parent's table and offsets are at its front (`Extends`), each interface has its slots at its offset (`Agrees`), no declaration
occurs twice (`NoneTwice`), and every one is of an ancestor or of an interface that has an offset (`MethodsOf`), whence the new slots cannot be there
already. The passes over a table rewrite implementations only, so that they keep its shape (`Shaped`). Interfaces are placed one
after the other; `InterfacesPlaced` follows the loop with an invariant of its own (`OffsetsFine`): the parent's table with those of the interfaces placed so far is as
long as the count says and agrees with the offsets. A refused class leaves the tables of the ready classes alone.
The code's loops are folds and flattened sequences of the community modules. What `FoldLeft` and `FlattenSeq` compute is a recursive function
chosen by its equation, so its existence comes first (`FoldExists`, `FlattenUnfolded`, `RecursionOverParents`), from the least
number for which none exists, and then one step of it.

`CallsAsDeclared` and `ValidProgramsLoad`, in the same module: for every program that is `Compiled` and `Supported`, and classes first used in
any order. The second inductive invariant, `DispatchInv`, says of each ready class which implementation its entries have (`Dispatches`): what a slot holds (`Holds`) or
what a call of an interface's method runs (`Runs`) by the standard, and that the slot of each method is where the method that introduced it is (`AtItsSlot`).
`CallsAsDeclared` is weaker: entries of abstract classes, and of interfaces seen from a derived class, are what the next table is made of.
First come the standard's definitions, unfolded along the parents: what a class makes of a slot is an own method or what its parent has (`HoldsIs`), and what it gives
for an interface's method is one of four cases (`RunsOwnRow`, `RunsNew`, `RunsGiven` and `RunsDefault`, `RunsPlaced`). Then each pass over the table is shown
to settle the cases that are its own and to leave the others for those after it: rows of MethodImpl and defaults (`RowsApplied`), overrides in every place that the parent's method
has (`OverridesApplied`), new methods for listed interfaces (`InterfaceEntry`), and what is left empty (`FilledRight`). The last depends on the code looking for the
last method of a name, which is the nearest (`NamedIsLast`, `NamedIsHeld`). A class that is not abstract thus has nothing missing (`NoneMissing`), so that it is not refused.
The tables of other ready classes stay right as a class numbers only its own methods, and what is ready has ready ancestors (`ClassAdded`).

The constants' assumptions (`ScannerAssumption` and the like, in the module that
declares them) are assumed, and TLC evaluates them in the runs; what a theorem needs
beyond them (`~FinalizersCollect`, `IdsSuffice`, `ProgramsSupported`, `RaisesSupported`, `ProgramsValid`) is a hypothesis of its own, or, in `VirtualTables`, a
conjunct of the initial states (`SupportedSpec`), which are those of the run.

The type invariants of these components and, of the pool, `ArenasDistinct` and `CursorSound` are left to the
proofs; `RuntimeThread`'s, which ties the two stacks together, is checked as well.

Only model-checked: all liveness (TLAPS has no `ENABLED` here). Every invariant of the passing runs is a theorem. The induction theorems are out of the provers' reach, and so is what a recursive definition
computes for every input, unless a minimal counterexample can be refuted in its place; no module uses a `RECURSIVE` operator.

## Not modelled, and why

`PROJECT.json` lists every component. Data transformation (IL to the two
instruction sets), parsing, I/O and bindings have little state whose order matters; the
il2cpp API forwards; the two unused GC files are empty. Big objects, byte accounting, root ranges and pinned handles are left out of modelled components, as are
the parts of `initialize_all` other than fields and vtables (super types, methods, properties, events), which read tables; all of it is one step that succeeds or fails in `ClassInit`. `FieldLayout`, `VirtualTables` and
`ClassInit` are not composed: neither `initialize_fields` nor `initialize_vtables` runs managed code. The tables of generic instances and arrays, and
variance of interfaces, are left out of `VirtualTables`.

## Plan

What would come next, most important first.

1. **MetadataCache**, **MemPool**, **Delegates** – one runtime object per entity; disjoint
   blocks; combine and remove against their definition on sequences.
2. `VirtualTables` for generic instances, arrays and covariant interfaces; a MethodImpl whose declaration is itself an override.
3. Big objects and byte accounting in a composition of pools.
