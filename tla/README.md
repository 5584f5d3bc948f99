# A verification project for the SquiLu core

SquiLu is a fork of Squirrel 3.0.4: a compiler to bytecode and a virtual machine
for a dynamic language, written in C++ and embedded in a host program.  The
program's own logic is `src/SquiLu/squirrel/`; the rest of the tree is a
standard library, bindings of other libraries, an editor, and vendored code.

The modules here model the parts of the core whose state is hardest to keep
right: the heap with its reference counts and its collector, the table of what native code
keeps alive, the hash table,
the call stack with traps, generators and suspension, the captured locals with the
blocks the compiler makes for them, and, from `SquiLu-ext`, the one binding where
threads meet a VM.  Paths below are relative
to `src/SquiLu/squirrel/` unless they begin with `SquiLu`; those are relative to `src/`.

## Inventory

The core is single threaded.  (A slave VM may run in a thread of its own; a mutex
lets one thread at a time into it.)  What interleaves in the core are *activations*: a native
function that calls back into the VM, a metamethod inside an instruction, a
generator that leaves the stack and comes back, a suspended VM that is called
before it is woken, and a destructor that triggers other destructors in the
middle of somebody else's walk over the heap.

| component | state | operations | what makes it correct |
|---|---|---|---|
| counts and collector (`sqobject.h`, `sqobject.cpp`, `sqstate.cpp`, the destructors) | `_uiRef` with its mark bit, `_next`/`_prev`, `_gc_chain`, the local `tchain` | assignment, `Null`, `Release`, `RunMark`, `CollectGarbage`, `ResurrectUnreachable`, `~SQSharedState` | no early free, no leak, links never through freed memory, the sweep frees garbage only |
| table (`sqtable.*`) | node array chained through itself, `_firstfree`, `_usednodes` | `Get`, `Set`, `NewSlot`, `IncNum`, `Remove`, `Rehash`, `Next`, `Clone`, `Clear` | it is a map; a loop over it misses nothing |
| call stack (`sqvm.cpp`, generators in `sqobject.cpp`) | `_callsstack`, `_stackbase`, `_etraps`, `_nnativecalls`, `traps` in each `Execute`, `_suspended*`, a generator's saved frame | call, return, throw, catch, yield, resume, foreach, suspend, wake up, tail call | errors reach the innermost try, frames and activations agree, native calls are counted |
| open outers (`FindOuter`, `CloseOuters`, `RelocateOuters`) | `_openouters`, sorted by address; pointers into the stack | capture, close, relocate | one outer for a slot, no pointer into a dead or moved slot |
| string table (`sqstate.cpp`) | buckets, `_scratchstr` | `Add`, `Remove`, `Resize`, scratch | equal strings are one object |
| reference table (`sqstate.cpp`, `sq_addref`) | nodes, free list, counts | `AddRef`, `Release`, `GetRefCount`, `Resize`, `Mark`, `Finalize` | native code's references keep objects alive, and no longer than it wants |
| classes and instances (`sqclass.*`) | members, default values, `_locked`, the base | `NewSlot`, `CreateInstance`, `Finalize` | instances keep the layout of their class |
| weak references, delegates (`sqobject.cpp`) | two pointers; the delegate graph | `GetWeakRef`, `SetDelegate` | never dangling; no cycle of delegates |
| release hooks (`squserdata.h`, `sqclass.h`, `sqstate.cpp`) | `_hook`, `_delayed_release_hook` | `Release`, `CallDelayedReleaseHooks` | each hook is called once |
| compiler (`sqlexer.cpp`, `sqcompiler.cpp`, `sqfuncstate.cpp`) | scopes, registers, traps, jumps to patch | one function for each production | traps and outers closed on every way out of a block |
| host API, base library (`sqapi.cpp`, `sqbaselib.cpp`) | none of their own | thin calls of the above | |
| slave VMs (`SquiLu-ext/sq_slave_vm.cpp`) | another VM, a mutex and a condition, `thread_id`, two state words | `call`, `set`, `get`, `dostring`, ..., `thread_run`, `thread_trylock`, `thread_cond_signal`, `slavevm_thread_cond_wait`, `close` | one side at a time in the VM, the stack as each side left it, the mutex comes free |
| standard library (`sqstdlib/`) | blobs, streams | | |

The components interact by direct calls: instructions of the VM operate on
tables and outers; each assignment may start a cascade of destructors; frames,
outers and the stack are roots (or, for the outers, are not) of the collector; the
compiler decides where outers are closed; a slave VM is driven through the API of the host.
`PROJECT.json` lists the components with their status, and the hazards, each at
its line with the properties that would catch it.

## Modules

| module | models | checked by | proofs |
|---|---|---|---|
| `Collector` | counting, cascades, mark and sweep, shutdown | `MCCollector` | `Collector_proofs`, `CollectorMarks_proofs`, `CollectorSweep_proofs` |
| `RefTable` | the reference table, and native instances whose release hooks use it | `MCRefTable` | `RefTable_proofs` |
| `Table` | the node array and a foreach over it | `MCTable` | `Table_proofs` |
| `TableMap` | what a table promises: a finite map | as the property `ImplementsMap` of `Table` | `TableIsMap` in `Table_proofs` |
| `ExecStack` | frames, traps, generators, activations, suspension | `MCExecStack` | `ExecStack_proofs` |
| `Outers` | captured locals, frames, blocks, a generator, a stack that moves | `MCOuters` | `Outers_proofs` |
| `Variables` | what captured locals promise: variables | as the property `ImplementsVariables` of `Outers` | `RefinesVariables` in `Outers_proofs` |
| `SlaveVm` | a slave VM shared by a script and a thread | `MCSlaveVm` | `SlaveVm_proofs` |

An operator whose comment says *Mutant* is a plausible bug, kept next to the
definition it would replace.  Each property of a passing run has one, and the
property fails under it.

### Collector

`at` says what each *place* refers to: a field of an object, a holder of the VM
or of the shared state (stack slot, root table, error handler, ...), or the
sweep's locals `t` and `nx`, which the code counts by hand (`t->_uiRef++`).
`Set` is `SQObjectPtr::_assignThis`: count the new value, then release the old
one.  An object whose count reaches zero and that has no mark begins its
destructor: `dtor` is its depth on the C++ stack and only the topmost one takes
steps (`Unlink`, `DropField`, `Free`).  So a cascade is a sequence of steps, and
every invariant holds in the middle of it.  `CollectGarbage`, `MarkObject`, `BeginSweep`,
`Finalize`, `PinNext`, `Unpin`, `Advance`, `EndSweep` are the statements of
`SQSharedState::CollectGarbage` in their order; `Shutdown` to `EndFinalSweep`
those of `sq_close` and `~SQSharedState`, up to its assertion.

Three facts about classes of objects are parameters: which holders `RunMark`
visits (`Scanned`), which fields `Mark` visits (`MarkedFld`), and which fields
`Finalize` nulls (`Cleared`).  The code does not scan everything: `SQVM::Mark`
leaves out `_atexithandler`, `_include_path` and the list `_openouters`;
`SQGenerator::Mark` leaves out `_ci._closure`; `SQClosure::Finalize` leaves
`_function` to the destructor.

Abstractions:

- The order in which `MarkObject` moves objects to `tchain` is any (the code: the
  post-order of a depth-first walk).
- Where in its destructor an object leaves the chain is any point before it is freed (the classes differ).
- `Null()` releases before it nulls the slot; `Set` nulls first.  Nothing reads
  the slot in between, except by a release hook, which is not modelled.
- A field that is not cleared is set once, at creation, to an older object.
- `REMOVE_FROM_CHAIN` in a destructor tests the mark: an object that is dying never has one.
- Weak references, delegates (which count like fields), release hooks (see `RefTable`),
  `ResurrectUnreachable` and the loop behind the assertion (`sqstate.cpp:244`)
  are left out.

### RefTable

`tab` is the table: for each object the bucket it is linked in and how often it was pinned.  A native
instance has a member the script assigns to (`fld`) and a C++ part that pins objects (`pin`); the lexer of
`sq_lexer.cpp` and the databases of `SquiLu-ext/sq_sqlite3.cpp` are of this kind.  `Pin` and `Unpin` are their constructors and
setters, `RunHook` a `sq_release` of their release hook.  `dtors` is the C++ stack of destructors:
only the innermost takes steps, and between any two `sq_release` of one hook all that the first one
started is destroyed, with the hooks in it.  `Collect` to `EndSweep` and `Close` to `BeginFinal` are the
statements of `CollectGarbage`, `sq_close` and `~SQSharedState` as seen by such objects; counts are not stored here but
derived (`Referenced`), since `Collector` has shown them to be right.

`Reach`, what a collection marks, is the least set that is closed under members.

Abstractions: a bucket is a set, so the free list and the order of a chain are left out; the chain of the collector
is walked in any order, and the table is finalized in any order; an instance has one member and pins an object once.
The VM that a native part passes to `sq_release` is the root VM.

### Table

The record `t` holds the arrays `key`, `val`, `next`, and `size`, `firstfree`, `used`.  Keys
are numbers and the main position is the remainder by the size, which is what
`HashObj(key) & (size - 1)` is for integers; the null key hashes to 0.  `Place`
is the three-way insertion of `NewSlot`, `Settle` its correction of `firstfree`,
`NewSlotIn` the whole of it with the reallocation, `Rehash` that of `Remove`.  `Find` and `Chain` are recursive functions
of the number of links that may still be followed, `size` at first; `EveryKeyFound` and `ChainsEnd` say that this is never short.
A size is a power of two, `IsSize`: 4 or more, with no odd divisor.

`Foreach`, `Visit` and `Done` are a loop over the table by `Next`, as `FOREACH_OP`
makes it; between two visits the body makes any call.  A call that adds a slot or reallocates the array
ends the loop in the model: the code promises nothing for its further visits.

`NullKey` is passed only where a script can pass it: `NewSlot` is called for keys the VM has refused null for
already, and `IncNum` takes string keys only (the parameter mask `.tsnb` of the base library).

### ExecStack

`v` is the `SQVM`.  `acts` are the activations on the C++ stack: `Execute`
with its local `traps`, its argument `raiseerror` and who called it, and native functions.
A frame's stack base is its depth; a trap is the base it restores and its nesting
within its frame (for the handler's address).  Bytecode is any that the compiler
can emit: it pops its own traps only and has none set when it returns (`sqcompiler.cpp` 821-850, 3092-3111).

`Throw` is `exception_trap` up to the error handler, `Catch` and `Unwind` are one
turn each of its loop.  `HostResume` is `sq_resume`, `WakeUp` `sq_wakeupvm`,
`HostCall` `sq_call` of the host, also into a VM that is suspended.

Which use is made of a generator is a parameter.  Two uses are kept apart because the code
does not support them together, and one run shows it:

- a foreach over a generator that yields inside a try (`exec_foreach`);
- `sq_resume` and `resume` of one generator: `sq_resume` makes its frame a root,
  `Yield` saves the flag and `resume` brings it back, so the script's `Execute` gets two roots
  and returns at the first.  `RootsMatchExecs` fails; no run shows it since no code in the tree does it.
  Nor does any call `sq_resume` with a generator that is not suspended, whose
  failure `Execute` does not look at (`sqvm.cpp:909`).

Left out: `_notifyallexceptions`, an error handler that is not set or is native,
failures of `StartCall`, stack slots and their growth, debug hooks, native functions called through
`SQVM::Call` (there the request to suspend or to tail call is ignored), waking a VM from a call into that same VM.

### Outers and Variables

`v` is the SQVM: `stack` holds the locals of all frames, `outers` the `SQOuter` objects and `open` is the list
`_openouters`.  An outer is *at* a slot of the stack, at its own value, or *gone*: it points into a buffer the stack
has left.  `EnterFrame` may move the stack at any call, tail call or resume, and
`RelocateOuters` is part of it.  `Call`, `TailCall`, `Return`, `Throw`, `Yield`, `Resume`, `Finalize` are the places where
the VM closes outers or should; `BeginScope`, `EndScope`, `Break`, `Goto` are what the compiler emits for blocks
and the jumps out of them (`sqcompiler.cpp:49-78`, 854-896).  A frame's `scopes` is the
compiler's view of the point of execution: how many locals are below each block, and whether the block is a try.

A slot and a closure carry the *variable* they stand for.  Nothing in the code does; the properties use it to say that closures
share an outer exactly if they captured the same variable (`FreeVariablesAreLexical`), and `Captured`, the
instance of `Variables` under the mapping `Calls`, `Scope`, `Cell`, `Holds`, to say that a step changes no other variable than the one it assigns to.
`Variables` has no stack and no list: calls, the variables in scope, their values, and
for each closure the variable it keeps.

`Stray` names the ways out of a block that the code does not follow up.  With `Stray = {}` the model takes
them only where no captured local is lost by them, with `"break"` it takes break and continue as they come; see the findings.

Abstractions: `_OP_CLOSE` is taken as emitted always, the compiler leaves it out where the function's
text so far captures nothing; a closure captures one variable, once; one generator, whose
function has one parameter, no blocks and no free variables and makes no tail calls; values are two, and few places have one
other than null at a time (`MaxValues`).  An outer is an object of the heap like any other, and its count and destructor are in `Collector`.

### SlaveVm

`mutex`, `id`, `stack`, `bases` are the state of `SlaveVM_st` and of the slave's stack; `pc` and `top` are those of the
operation the master is in, `slave[t]` and `kept[t].top` those of `slaveThreadTask`.  The steps
are cut where the other side may run: at the mutex, and between the check of `thread_id` (622), the lock (624), the
start (642) and the thread's own assignment (591).  `Begin` and `End` stand for `call`, `set`, `get`, `dofile`, `loadfile`
and `compilestring`, which all take the mutex, read the top, put values on the stack, do something that may fail, reset the top and
unlock; `EndDostring` for `dostring`, which resets only after an error.
`kept[t].stack` and `kept[t].bases` remember the stack when the thread waits; only `FramesKept` reads them.

The script of the master is any that follows three rules (`idle`, `holds` and `done` say when): it unlocks what was left locked, it closes
the VM when `slave_state` says the task is over, and, if `Careful`, it runs a thread when `is_thread_idle` has been true since
the last one was started.  `samples/test-slave-vm.nut` polls in this way before it signals.
The include path operations destroy the mutex (`lost`): what they do to a thread that uses it is undefined and not followed up.

Left out: the values copied across, `preload_lib`, which takes no lock at all, the release hook, a slave that is not run as a thread.

## Runs

| run | instance | what it shows |
|---|---|---|
| `collector` | 3 objects, 2 holders, a field `Finalize` clears and one it keeps; all scanned; symmetry on objects | counting, chains and collection are right together; 84 461 states up to symmetry |
| `collector_unscanned` | 2 objects, a holder and a field that are not scanned; fairness | no destructor is forgotten; collections and the shutdown end (`WalksEnd`) |
| `collector_assert` | 3 objects, a holder that is not scanned | **violation**: `assert(_gc_chain==NULL)` of `~SQSharedState` |
| `table` | 7 keys, sizes 4, 8, 16 | the node array, 93 224 states |
| `table_map` | 4 keys, 2 values, created with 4 or 8 nodes, with loops | refinement of `TableMap`, with what each call returns; a loop whose body changes the table; 55 406 states |
| `ref_table` | 3 native instances that pin and refer to each other and themselves, a table of 2 nodes that grows to 4 | pins are counted right inside destructors, and all is freed; 1.9 million states |
| `exec_stack` | 3 generators, 4 frames, 2 traps, 3 nested native calls | all invariants of the call stack, 2.5 million states |
| `exec_foreach` | 1 generator | **violation**: `assert(traps == 0)` of `_OP_RETURN` and `_OP_YIELD` |
| `outers` | 2 closures, 2 frames of 2 locals, 2 blocks, 3 slots; symmetry on closures | the list of open outers, lexical scoping and the refinement of `Variables`; 184 265 states up to symmetry |
| `outers_scoping` | 1 frame of 2 locals, 3 blocks, break as it comes | **violation**: `HISTORY:256`, "now free variables have proper lexical scoping" |
| `slave_vm` | 2 threads, 1 argument, 8 stack slots, a script that polls; fairness | exclusion, the stack each side finds, progress; 5 532 states |
| `slave_vm_race` | 2 threads, a script that does not poll | **violation**: "slavevm already running in a thread" |

Bounds.  Three objects are the fewest with a cycle, a tail that the cycle keeps
alive and a successor in the chain that dies while the sweep stands before it; with three instances there is also a hook inside a hook inside
a hook, and a pin whose owner is swept while what it pins is marked.  `ref_table` begins with two nodes instead of the four of the code,
so that three objects enlarge the table.
Seven keys are enough for growing to 16 both at an insertion and at a removal,
and contain two pairs that collide at size 8; the four keys of `table_map`
collide three deep at size 4, and one of them belongs where the first collision
is moved to.  Four frames hold a script, a native function, a second `Execute` with
a generator or an error handler in it; two traps set at a time distinguish the order in
which a generator takes and returns them; three nested native calls put the limit
within reach of each of its callers.  `VIEW Array` in `table` and `VIEW State` in
`table_map` drop only the answer of the last call, which does not decide what follows.

Two closures tell apart sharing a variable from not sharing one.  Three slots
are enough for an open outer below, at and above a slot that is closed, in one frame or in two; two blocks, one of them that of the function,
for a try or a loop around captured locals, and the violation needs a third.
A slave with two threads has one more than it means to have; eight slots hold a
thread that waits with its argument, an operation of the master above it and what a dostring left.

`table` and `table_map` check the answers with `Width` 0 and 1: `IncNum` adds with the
wrap-around of the machine, and one bit is enough to see it.

Deadlock.  The runs of `Collector`, `RefTable`, `Outers` and `SlaveVm` switch the check off: a program that is closed
does stop, a bounded stack may be full of values nothing can drop, and a slave whose mutex is lost or that is closed is at its end.

Fairness.  `FairSpec` is weak fairness of the steps the C++ code takes on its own
once it is called (destructors, marking, sweeping, closing).  Nothing else can run
in between in a single thread.  The script is under no fairness.

For `SlaveVm` it is: an operation of the master ends and a task waits or says it is done (weak), as scripts do that return;
the script unlocks what it locked (weak), and signals again and again (strong: it may signal only between two operations); `pthread_cond_wait`
gets the mutex if it is free again and again (strong).  Without the signal a thread waits
for ever, and without the mutex the master is refused for ever: the code has no timeouts.

## Findings

1. `collector_assert`: an object kept alive only by what the collector does not
   visit is finalized by a sweep, survives it, and is dropped from the chain by
   `_gc_chain = tchain`.  Its `_next` and `_prev` are stale; when it
   dies, `RemoveFromChain` with `_prev == NULL` overwrites `_gc_chain`.  The
   theorem `NothingDangles` shows that no memory is used after it is freed on the way to the assertion;
   what is lost is the content of the object, the chain and the assertion.
2. `exec_foreach`: a foreach over a generator that yields inside a try makes the local
   `traps` of `Execute` negative.  With assertions the program aborts; without, an uncaught error is
   not reported to the error handler.
3. `outers_scoping`: break and continue close the captured locals of the innermost block only, while they leave all blocks
   up to the loop.  The captured locals of the blocks in between stay open, and the next local in their slot is the same variable.
   `while (true) { local x = 1; f = function() { return x }; { local y; break } }` and then a new local: `f()` returns it.
4. `slave_vm_race`: `thread_run` looks at `thread_id` before it has the mutex, and the thread sets it by itself: two threads may
   run in one slave, the second from where the first waits.

Observed while modelling, with no run of their own:

- A catch does not close the captured locals of the try block (`sqvm.cpp:1361-1373`).  `Stray = {"error"}` shows what finding 3 shows.
- goto closes the locals of the block it stands in even if the label is in the same block, where they are still
  in scope (`sqcompiler.cpp:868`): afterwards the function and the closure see two variables.  `Stray = {"goto"}`.
- `sq_reservestack` may move the stack and does not call `RelocateOuters` (`sqapi.cpp:1607`); every open outer then points
  to freed memory.  `copy_values_between_vms` (`SquiLu-ext/sq_slave_vm.cpp:27`) asks it for more than `EnterFrame` leaves free.  `Stray = {"host"}` shows it in `OpenListExact`.
- A generator that yields and is resumed has new variables for its captured locals, with the old values; closures keep the
  old ones.  The code means it (`_OP_YIELD` closes), and `Variables` says so.
- `NewSlot` returns false for a slot it created if the array was reallocated, contrary to `sqtable.h:101`;
  `sqtable.cpp:216` knows it.  `TableMap` leaves the answer open in this case.
- `thread_run` returns false with the mutex locked if the function is missing, an argument cannot be copied or no thread starts (`SquiLu-ext/sq_slave_vm.cpp:647`), and false
  without it if it is refused.
- `dostring` of a slave reports one result and leaves it on the slave's stack (`SquiLu-ext/sq_slave_vm.cpp:551`).
- The hook of an instance that a collection sweeps may give back an object the collection has marked.  It is not destroyed then (`MARK_FLAG`
  is part of its count), and `UnMark` (`sqobject.cpp:1219`) only clears the bit: it stays allocated, without a reference, until the next collection.
  `OnlySweepForgets` says that nothing else leaves such an object.
- `~SQSharedState` frees the root VM before it empties the reference table (`sqstate.cpp:216`, 228).  Hooks that run from there on read `_closing` of the
  VM they were created with (`sqapi.cpp:231`): the freed root VM, or a friend VM that is not closing, for which `sq_release` goes on and
  `assert(0)` of `RefTable::Release` fails, as the nodes have no objects any more.
- `EnterFrame` that refuses to grow the stack within a metamethod has already pushed the frame (`sqvm.cpp:1976`), and its callers do not leave it.

## Proofs

`Collector_proofs` proves for every finite set of objects, holders and fields, and for
every choice of what is scanned and cleared:

- `TypeCorrect`, `CountsAreExact`, `NothingDangles`, `ChainStaysLinked`: the invariants
  `TypeOK`, `RefCountExact`, `NoDangling`, `ChainLinked` of `Spec`;
- `Invariance`: the inductive invariant they follow from.

Assumptions: `FinitelyMany` (places can be counted), `TagsDistinct`, `Scans`; TLC
evaluates them on each run.

`RefCountExact` alone is not inductive: that a count drops to zero says nothing is
left to point at the object only if the object was not already dying, and that a
dying object is not counted again needs that nothing refers to it.  `IInv` adds:
dying objects are exactly those with a positive depth, one for each depth, with no
reference left to them; an address that is free has empty fields and no links;
each phase of a collection says which of `t`, `nx` are set and what the two heads are.
The argument is by one lemma for the step that every action shares,
`SetKeepsHeap` (overwriting a place moves two counts by one and starts at most one
destructor), two for the chain (`AddKeepsChain`, `RemoveKeepsChain`, for either head), and one for each action,
put together by `NextKeepsIInv`.  `OverwriteCounts` counts places with the
library's theorems on finite sets.

The chain invariant is local (each link has its inverse), because it must hold also
where objects have dropped off the chain.  That the chain *contains* every object
(`ChainComplete`) is false then.

`CollectorMarks_proofs` goes on from there, under the same assumptions and again for every choice of what is scanned:

- `TchainHoldsTheMarked`, `NothingIsForgotten`: `TchainIsMarked` and `NoForgotten` of `Spec`;
- `MarksInvariance`: the inductive invariant `MarkInv`.

It adds to `IInv` that no link leads from a marked object to one that is not (`Apart`), that `t` and `nx` never refer to a marked
object (`Pins`), and that during a sweep the marked objects are exactly what the marker reaches (`Marks`): nothing that dies in a
sweep was needed to reach a marked object.  `OnChain` is the least set closed under `next`; the lemmas on `Walk` say what
taking an object out of a chain, or putting one in, does to it.

`CollectorSweep_proofs` is about what a collection achieves.  Its theorems have the hypothesis `[]Covered`: when a
collection begins, the marker reaches what the script can use.  The code does not guarantee it (finding 1), and without it they are false:

- `OnlyGarbageIsSwept`, `ChainHoldsAll`, `ShutdownFreesAll`, `CollectionIsComplete`: `SweepsGarbage`, `ChainComplete`, `ClosedFreesAll` with
  the assertion of `~SQSharedState`, and the action property `CollectComplete`;
- `SweepInvariance`: the inductive invariant `SweepInv`;
- `FullScanCollects`: if every holder and every field is scanned, as in the run `collector`, all of them hold of `Spec` alone.

`SweepInv` adds that the chain holds all that is not marked (`Whole`), that what the sweep has passed has lost the fields that `Finalize` nulls (`Passed`),
and that the fields it leaves never form a cycle (`Acyclic`): so of what the sweep passed some object is referred to by nothing, and
`NoForgotten` says that it is being destroyed.  That is why nothing is left when the sweep ends.

`RefTable_proofs` proves for every set of objects, whichever of them have hooks, and a table of any size:

- `TypeCorrect`, `CountsAreExact`, `SweepsFreeAll`, `ScriptForgetsNothing`: `TypeOK` and `RefsExact`, and the action properties `FreesAll` and `OnlySweepForgets`;
- `Invariance`: the inductive invariant they follow from.

Assumptions: `ObjectsAreNumbers` (the hash of a pointer), `SomeSlots`.  `RefsExact` needs to know that an object on the table is allocated and not dying (`Owners`),
which needs that no object is destroyed twice (`Once`); `FreesAll` needs what a sweep has done so far (`Sweep`): what it has passed has lost its member, and
what nothing refers to is dying or still ahead.

`ExecStack_proofs` proves for any number of generators and any bounds:

- `TypeCorrect`, `InnermostTryCatches`, `StackbaseFollowsCi`, `ExecuteOwnsItsRoot`, `GeneratorsRunOnce`, `NothingLeftWhenIdle`: `TypeOK`, `TrapsMatchFrames`,
  `StackbaseOfCi`, `RootsMatchExecs`, `GeneratorInOneFrame` and `QuietWhenIdle`;
- `TrapsAreCounted`, `HandlerOnlyForUncaught`, `AssertionsHold`: `TrapsExact`, `HandlerForUncaught` and `AssertNoTraps`;
- `Invariance`: the inductive invariant.

Assumptions on the constants, besides those of the module: `UsageRoot`, native code and scripts do not resume the same generator, for all of them; and `UsageTraps`, a generator
a foreach runs does not yield inside a try, for the three that are about `traps`.  These are the two uses the code does not support (see above); that `AssertionsHold` needs
no more than them says that the foreach of `exec_foreach` is the only way to the violation it shows.

No property of `ExecStack` is inductive, as all of them count.  The invariant says instead that two functions exist which the program does not store: `off`, how many
traps lie below each frame, and `seg`, how many frames lie below each activation on the C++ stack.  `Laid` says that every trap is where `off` puts it; `Matched` that the
frames between `seg[k - 1]` and `seg[k]` are a root and what it calls, or the one frame of a native function, and that the frames below `seg[0]` are those of a
suspended `Execute`; `Counted` that `traps` is the difference of two values of `off`; `Placed` where generators are; `Kept` what they keep.  A step changes the
functions at their end only: `SoundReplace` says so once, and the lemmas from `FrameEntered` to `Woken` for each thing that can happen to the top.
The properties follow by counting: `CountRoots` maps the Executes one to one to the roots, `TrapsOwned` finds the Execute a trap belongs to.

`Outers_proofs` proves for every finite set of closures, any values and any bounds on frames, locals and blocks, where nothing strays (`Stray = {}`, as in
the run `outers`: no break, goto or error leaves a captured local that the code forgets to close, and no native function moves the stack under open outers;
the findings are about the rest):

- `TypeCorrect`, `OpenListIsExact`, `ScopingIsLexical`: `TypeOK`, `OpenListExact` and `FreeVariablesAreLexical` of `Spec`;
- `Invariance`: the inductive invariant they follow from;
- `RefinesVariables`: `Spec` implies `ImplementsVariables`.

Assumptions: those of the module, `FiniteClosures`, `Bounds`, `NoneIsNoClosure`, `NoneIsNoVariable`, `NoValIsNoValue` and `NullIsAValue`.  The invariant has one part on the values, `Good`, and one on the
frames, `Shape`.  `Good` adds to the two properties that the variables on the stack differ (`Distinct`), that an outer in use is that of a closure (`Owned`), so
that one is free for each closure still to come (`FreeOuter`, by counting), and how variables are named (`Numbered`): a slot has its own number or a spare one as a closure
keeps that, from which `SpareLeft` counts that spare numbers never run out.  `Shape` says that the blocks of each frame are nested and end within it, and that each try has room for its
error.  `CutGood` is the lemma for all ways out: if the outers that are closed are those above the slots that are left, the values that remain are good.  `CutAt` is the case in which the
code closes at the right slot, whatever the place of the call; `CutExactly` the one in which a jump happens to.  `FoundGood` and `InsertGood` are the two cases of `FindOuter`; `PassedIs` says that its walk, which
stops at the first outer below the slot, has passed all those above.

The refinement has a lemma for each action of `Outers`, named after it (`CallIs`, `ThrowIs`, ...): the step is one of `Variables`, or one it does not see
(`BeginScope`, and `ReserveStack` while no outer is open).  The mapping is `Calls`, `Scope`, `Cell`, `Holds` in `Outers`.  `Cell` looks for a slot of the
variable, then for a closure that holds it, and by lexical scoping it does not matter which it finds: `CellValues` says so once, as `Values`, and `SettledIs` turns `Values` after a step into
`Settle` of `Variables`.  What is left to show of a step is that the values that leave the stack are those that the outers take along (`Takes`, proved of `CloseOuters` and
`LeaveFrames`), and that new locals have new variables (`BindIs`, from the names of `Names`).

`SlaveVm_proofs` proves for every set of threads and a script that polls (`Careful`):

- `OneThreadAtATime`, `VmIsExclusive`, `ClosedVmIsLeft`: `OneThread`, `OneInside` and `ClosedNotUsed` of `Spec`;
- `ControlInvariance`: the inductive invariant they follow from.

`OneInside` is not inductive: that the master gets the mutex only when no thread is inside needs that a thread has the mutex from its start on, and
that a second thread is never started needs what `thread_id` says.  It says nothing while a thread was just started, so `IdleMeansId` adds that none is when the VM
was seen idle.  The violation of `OneThread` in `slave_vm_race` is this conjunct without `Careful`.

The second part of the module is about the stack, under the same assumption:

- `SlaveTypes`, `FramesAreKept`, `StackIsAccounted`: `TypeOK`, `FramesKept` and `StackAccounted` of `Spec`;
- `StackInvariance`: the inductive invariant `StackInv` they follow from, together with `IInv`.

`TypeOK` needs it too: that a height is a natural number depends on what `thread_run` left on the stack for the thread to read.
`StackInv` says which calls are on the stack, and how high it is, for each place a thread can be at: prepared (`PreparedStack`),
in its function (`TaskStack`), waiting (`WaitStack`), not there (`QuietStack`).  A step of the master changes only what is above the
base on top, which `WaitIsKept` turns into `WaitStack` again; that no other step comes in between is `OneHolder` and `OneThread`.

`Table_proofs` proves for every set of numbers as keys, arrays of any size and any number of bits:

- `TypeIsCorrect`, `EveryKeyIsFound`, `RoomIsAlwaysKnown`, `ChainsAlwaysEnd`: `TypeOK`, `EveryKeyFound`, `RoomIsKnown` and `ChainsEnd` of `Spec`;
- `TableIsMap`: `Spec` implies `ImplementsMap`; `ForeachVisitsEach`: `Spec` implies `VisitsEach`;
- `Invariance`: the inductive invariant they follow from.

Assumptions: those of the module, `KeysAreNumbers`, `Sizes` (a table is created with a power of two) and `Words`.  `EveryKeyFound` is not inductive: that a
key is found says nothing of what an insertion does to its chain.  The invariant `Good` says that two functions exist which the program does not store: `c` names the chain
each node lies on, `r` orders its nodes (`Laid`).  A link goes down its chain and skips no node (`Descends`, `SkipsNone`, `Ordered`), and the main position of a
key is on its chain, not below it (`Homed`): so the walk of `_Get` meets the key, and ends.  What an insertion relies on is said of the nodes up to
`firstfree`: one without a link is a chain of its own (`Alone`), so the free node is on no other chain, and a key there is at its main position
(`Native`), which is why the code may compare the main position with `firstfree` (`sqtable.cpp:146`) before it moves a key.  `Pure` says that a key at the main position of another belongs
there itself: a stranger is moved away when the first key arrives that belongs there.  `AtMainLaid`, `AtFreeLaid` and `MoveCollidingLaid` give `c` and `r` after each of the
three ways of placing a key; the last exchanges the two nodes.

A removal keeps `c` and `r` as they are, since the removed node stays linked.  A reallocation fills an array that was just made: as long as no key is removed
from it all nodes not used lie up to `firstfree` (`Dense`), so that there is a free node while there is room, and `Grows` and `Shrinks` leave room for one key more than
is counted, the one that `NewSlot` has placed but not counted (`RehashWorks`).

`Holds` is the slot of a key as the array has it.  Each call is proved to store, add or drop one slot of `Holds` (`SetStep`, `NewSlotStep`, ...), and `ContentsFields` identifies
`Holds` with what lookups return; the refinement follows call by call (`GetMaps`, `SetMaps`, ...).  `VisitsEach` needs that a foreach has seen exactly the keys behind it that are
still there (`Toured`), which calls keep that move no key (`Keeps`).

`Find`, `Chain` and `InsertAll` are recursive functions.  The library's induction theorems do not apply (their premises are operators), so that
each of them exists (`LookupsDef`, `ChainsDef`, `FillDef`), and what it computes, is proved by contradiction from the least number at which it fails (`LeastNumber`, from the
well-foundedness of the natural numbers).

Checked by TLC only: liveness (`WalksEnd`, `LockComesFree`, `WaitsEnd`), which the provers cannot do.

## Not modelled

- `ResurrectUnreachable`, weak references, the hooks of userdata, delayed release hooks, hooks that run script code, and the last loop of the shutdown: each lets
  script code run in the middle of a cascade, and with it `Collector` is beyond what TLC finishes.
- `StringTable`: a set, whose strings have no destructors that call back.
- Classes and instances; arrays: sequential code of few states.
- Lexer, grammar, registers and constants of the compiler; regular expressions; number formatting: text.
- Base library and most of the API: a call each of what is modelled.
- Streams, blobs, the bindings in `SquiLu-ext`, the editor: input and output, or somebody else's interface.
- Vendored code (sqlite3, fltk, flu, gumbo, libharu, librs232, minizip, mpdecimal, myaxtls, discount, unql): nine tenths of
  the lines in the tree, and not this program.

## Plan

1. Done: `Collector` and `SlaveVm` with proofs, `Table` and `TableMap`, `ExecStack`, `Outers` and `Variables`, `RefTable`.
2. Proofs.  Done: every invariant and action property of the runs that is expected to hold, and that `Outers` refines `Variables` and
   `Table` refines `TableMap`.  Left: liveness.
3. `StringTable` as a module of interned strings with the one scratch string; abstract specification: a set.
4. `Instances`: class locking, the two phases of finalization, hooks of userdata and weak references on top of the cascade of `Collector`.
5. The growth of the stack in `ExecStack`, with a frame that is pushed and refused.
