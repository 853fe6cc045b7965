# A TLA+ model of the MMTk binding for Julia

This directory is the verification project of `mmtk/`, the Rust crate that
binds the MMTk garbage collectors to the Julia runtime. It holds TLA+ modules
translated from the Rust source, TLC configurations that check them on small
instances, and theorems that TLAPS checks for every value of the constants.
Paths below are relative to `src/mmtk/src/`.

## 1. The system

The crate sits between two programs that are not in this repository: Julia's C
runtime, which calls the `mmtk_*` functions of `api.rs`, and MMTk core, which
calls the `VMBinding` traits (`Collection`, `ActivePlan`, `Scanning`,
`ObjectModel`, `Slot`, `ReferenceGlue`, `GCTriggerPolicy`).

| Component | Source | State it keeps | Operations |
|---|---|---|---|
| Stop-the-world handshake | `collection.rs`, `lib.rs`, `api.rs:265-282` | `BLOCK_FOR_GC`, `WORLD_HAS_STOPPED`, `DISABLED_GC`, `USER_TRIGGERED_GC`, mutex and condition variable `STW_COND`, `GC_START` | `stop_all_mutators`, `resume_mutators`, `block_for_gc`, `mmtk_block_thread_for_gc`, `mmtk_handle_user_collection_request`, `mmtk_gc_poll` |
| GC trigger | `gc_trigger.rs`, `collection.rs:139-141` | heap target, pages before and after a GC, pauses and mutator time, thrash counter and flag, pending pages | `new`, `on_gc_start`, `on_gc_end`, `on_pending_allocation`, `is_gc_required`, `is_heap_full`, `gc_smooth`, `overallocation` |
| Finalizers | `julia_finalizer.rs`, `scanning.rs:180-203` | `finalizer_list` of every thread, the global `finalizer_list_marked` and `to_finalize` | `scan_finalizers`, `sweep_finalizer_list`, `mark_finlist` |
| Mutator registry | `lib.rs:94-99`, `api.rs:141-204`, `active_plan.rs` | `MUTATORS`, a map behind a reader-writer lock; live iterators | `mmtk_bind_mutator`, `mmtk_post_bind_mutator`, `mmtk_destroy_mutator`, `VMActivePlan`, `mmtk_new_mutator_iterator` and its next and close |
| Root scanning | `scanning.rs:24-179` | slot and node buffers of a root job | `scan_roots_in_mutator_thread`, `scan_vm_specific_roots` |
| Object scanning | `julia_scanning.rs`, `julia_types.rs`, `util.rs` | none; reads object headers, layouts, GC frames | `scan_julia_object`, `mmtk_scan_gcstack`, `read_stack`, `process_slot`, backtrace helpers |
| Slots and memory slices | `slots.rs` | an address and an offset; a slice of object memory; buffers of `RootsWorkClosure` | `load`, `store`, `copy`, `iter_slots`, `process_slot`, `process_node`, `flush` |
| Object model | `object_model.rs` | none; object headers | `copy`, `get_so_object_size`, `get_object_start_ref`, `is_object_in_los` |
| Weak references and pinning | `reference_glue.rs`, `api.rs` | referent fields, the pin bits of MMTk core | `get_referent`, `set_referent`, `clear_referent`, `mmtk_pin_object` |
| Lifecycle | `api.rs:22-139`, `lib.rs:58-70, 100-159` | `BUILDER`, `SINGLETON`, `GC_THREADS`, panic hook | `mmtk_gc_init`, `mmtk_initialize_collection`, `spawn_gc_thread`, `mmtk_start_worker` |
| Memory accounting | `api.rs` | `JULIA_MALLOC_BYTES` | read by `vm_live_bytes`, written by C |
| Allocation and write barrier entry points | `api.rs` | none | `mmtk_alloc`, `mmtk_post_alloc`, `mmtk_object_reference_write_post` and their like |
| Generated and build code | `build.rs`, `build_info.rs` | none | build strings |

### How the components interact

A Julia thread whose allocation finds the heap full (the *GC trigger* decides)
or that calls `GC.gc()` sets the request flag of MMTk core and calls
`block_for_gc`, which hands control to Julia: one thread is elected, waits for
the others at their safepoints and calls `mmtk_block_thread_for_gc`. The GC
worker, another OS thread, meanwhile calls `on_gc_start` of the trigger, then
`stop_all_mutators`, which spins on `WORLD_HAS_STOPPED` and then walks the
*mutator registry*. Workers scan *roots* and *objects* through *slots*, move
objects through the *object model*, and run the *finalizers* pass. `on_gc_end`
of the trigger computes the next heap target, and `resume_mutators` lets the
waiting thread go.

### What is hard here

* The handshake crosses three schedulers (Julia's safepoints, MMTk's workers,
  a condition variable) with two Boolean statics that are stored and tested in
  separate steps.
* The trigger is a controller with floating-point smoothing, unsigned
  subtraction, counters that saturate, and a memory of several pauses; its
  errors show after many collections.
* The finalizer lists are arrays of tagged words that are compacted in place
  while they are read, in an order that matters for generational collections.
* Root buffers are flushed when full and once at the end; a slot that falls
  between is an object that is freed while it is used.
* The registry lock is held across callbacks into MMTk core that may take it
  again, and what the map guards is memory that each thread has a shallow copy
  of.
* Objects are scanned as words: a frame holds references, addresses of
  references, tagged words and C functions side by side; a copied stack is read
  through translated addresses; inside pointers have to follow an object that
  moves while its other words are updated; and the size of an object is
  computed again, by other code than allocated it, when it is copied.

`PROJECT.json` lists each hazard at its line, with the properties that cover it.

## 2. The modules

| Module | What it is |
|---|---|
| `StopTheWorld` | the handshake, one action per operation on a shared static |
| `GCPause` | what the handshake promises: the phases of a pause |
| `StopTheWorldProofs` | its theorems |
| `GCTrigger` | the heap target, thrashing estimator and pending pages, and the allocations and pauses that drive them |
| `GCTriggerProofs` | its theorems |
| `Finalizers` | the finalizer pass, one action per loop iteration, and the runtime that fills and empties the lists |
| `FinalizerRegistry` | what the lists promise: registered and pending finalizers, without lists |
| `FinalizersProofs` | theorems about the lists at each point of the pass |
| `FinalizersRefinement` | the proof that the lists implement `FinalizerRegistry` |
| `MemorySlice` | `JuliaMemorySlice::copy`, one action per word |
| `MemorySliceProofs` | its theorems |
| `MutatorRegistry` | `MUTATORS`, its reader-writer lock, the life of a thread's entry, iterators |
| `MutatorRegistryProofs` | its theorems |
| `JuliaTypes` | offsets of fields, small tags |
| `ObjectScanning` | the slots of an object and of a task's stack |
| `ObjectModel` | sizes, starts and copies of objects |
| `RootScanning` | the roots of threads, and the buffers that C fills |
| `Tracing` | composes the last four into a collection that moves objects |
| `TracingProofs` | theorems about the roots and what stays in place, and the invariant of the closure |
| `ScanProofs` | the proof that scans find references, and the theorems about a collection that follow: what survives, where references lead, what copies hold |
| `MC*` | instances for TLC, one `.cfg` file for each run |

Names in the modules are those of the source: variables are its statics and
fields, actions its functions or, when a function is several steps, the steps
in order. Definitions named `Fault...`, and those in the sections headed
*Faults*, are not part of any specification: each is a definition of the
module with one mistake. `PROJECT.json` pairs each with the property that
notices it, so that every property is known to depend on the code.

### `StopTheWorld`

Every store, load, lock and notification of `stop_all_mutators`,
`resume_mutators`, `mmtk_block_thread_for_gc` and
`mmtk_handle_user_collection_request` is an action; the statics are `SeqCst`
or guarded by the mutex, so their interleaving is the sequential one. `pc` and
`wpc` are the control points of the mutators and of the worker. Two neighbours
are external. Julia elects one thread, which waits for the others at their
safepoints before it calls `mmtk_block_thread_for_gc`, and frees them with the
end of its GC. MMTk core keeps one request flag, which wakes the worker and is
cleared in `stop_all_mutators`' caller. `jl_gc_disabled` is read twice, by the
binding and by Julia, and may change in between.

The abstract module `GCPause` has only a phase and the set of threads in Julia
code. The mapping reads the phase off the control points and `BLOCK_FOR_GC`.

### `GCTrigger`

`on_gc_start`, `on_gc_end`, `on_pending_allocation`, `is_gc_required` and
`is_heap_full` are actions or guards, and the arithmetic of `on_gc_end`
(`MinTargetAllocs`, `MaxTargetAllocs`, `BelowUserMax`, `AboveThrashing`,
`TargetHeap`, `mmtk_overallocation`) is kept as written, in whole numbers. Two
things are abstracted: the clock, to whether a pause was longer than the time
before it, and the estimate of `target_allocs`, to any member of `Estimates`,
because the guardrails must hold for all of them. `get_reserved_pages` is the
plan's pages and `vm_live_bytes`, that is, `JULIA_MALLOC_BYTES`, which C code
raises and lowers without asking the trigger. External: MMTk core's order of
reserving, polling, requesting, reporting the pending pages and blocking.

### `Finalizers`

A list is a sequence of tagged words, two for each entry. The five loops of
`scan_finalizers_in_rust` run in the code's order (threads' lists, then the
marked list if the collection is a full one; then the marking of the threads'
lists, of the marked list from `orig_marked_len`, and of `to_finalize`), and
each iteration is one action: `SweepNull`, `SweepFreed`, `SweepOld`,
`SweepKeep`, `MarkNative`, `MarkTrace`. What a collection reaches and moves is
chosen freely at its start. An object has two possible places, and a word
remembers the one it points to, so a word that the marking misses is seen to
be stale afterwards. `debug_assertions` is a constant: the sweep takes the tag
off an entry before it looks whether the entry is empty, and
`gc_ptr_clear_tag` asserts that it is not (`julia_finalizer.rs:119, 144`), so
that a debug build panics (`gc_ptr_clear_tag_ok`) where a release build skips
the entry (`SweepNull`). External: the registration of finalizers, `finalize()`,
which removes entries or blanks those in other threads' lists, and the running
of `to_finalize`.

The abstract module `FinalizerRegistry` counts how often each finalizer is
registered and pending; a collection moves those whose object it does not
keep. During a pass the mapping shows the lists of its start; at its end,
those it left.

### `MemorySlice`

A memory of words, and copies between any two slices of it. The direction is
chosen as in the code; each `CopyWord` is one load and one store.

### `MutatorRegistry`

A key of the map, the mutator inside a `jl_tls_state_t`, is named by its
thread, and a box by its address, which the allocator uses again. `pc` follows
a thread from `mmtk_bind_mutator` to the end of `mmtk_destroy_mutator`;
`mmtk_post_bind_mutator` and `mmtk_destroy_mutator` are cut where they wait for
the write lock and at each of their effects under it, so iterators are seen
against every state of the map and of the boxes. A visitor is a GC worker in
`VMActivePlan::mutators`, which may leave its loop early, or C code between
`mmtk_new_mutator_iterator` and `mmtk_close_mutator_iterator`. A hash map
yields its keys in any order: what is left of an iterator is a set. The lock is
std's: a writer that sleeps keeps new readers out.

### `Tracing` and what it composes

Memory is a function from addresses to words, and all that the code knows of
Julia's objects is at the offsets of `JuliaTypes`, which are those that
`julia_types.rs` asserts. `scan_julia_object(obj)` is the set of slots that the
function of that name visits, a slot being an address and an offset
(`JuliaVMSlot`); its cases are those of the code, with the layouts of types
decoded from the bytes behind them. `mmtk_scan_gcstack` walks the frames of a
task, a list in memory (`Frames`, at most `MaxFrames` of them), translating each
address into the copied stack as `get_stack_addr` does.
`get_so_object_size` and `copy` work on the same words, so a wrong size loses
or clobbers some. The memory is a parameter of `ObjectScanning` and
`ObjectModel`: `RootScanning` instantiates them with its variable, `Tracing` as
`Before(it)` with the words of a heap before the collection, to say what the
same functions find there.

`RootScanning` has `scan_roots_in_mutator_thread` as one action for a thread,
and the `RootsWorkClosure` as the buffers it gives C code: `report` is what
happens when one is handed back, full or at the end, and `Renew`, `Push` and
`Finish` are what C does in between. `Tracing` goes through the stages of a
collection in the order of MMTk core, with nodes scanned and slots processed
in any order, each slot with one load, one `trace_object` and one store, of
words that other slots may have changed since it was found. Then come the weak
references, the packet with the finalizers (only which objects it keeps; the
lists are in `Finalizers`), and the sweep of the tables of threads, which asks
`mmtk_is_live_object` and `mmtk_get_possibly_forwarded`.

What is abstracted: a slot that holds nothing is dropped when it is visited and
not when it is processed, which is the same while no mutator runs; the copy of
an object is at a fixed distance from it, so that an address tells which object
it is of; work packets are joined into sets. Headers that are neither a tag nor
a type, and the branches marked `unimplemented!`, have no successor, where the
program panics. An object
may be pinned again while it is pinned, which changes nothing: the pin is one
bit, and its holders are not told apart. External: marking and forwarding, the stages, where a generic memory keeps
its elements, and the base of a stack.

Two predicates of a heap divide what is said of scans. `ScannedRightlyAtRest`:
before the collection, the scan of each object finds the words that hold
references, and no others. `SlotsFollowMoves`: of each object that may move,
those words are inside it or in memory that stays. The code does not scan all
heaps rightly; the run `trace_moves` has one without either (section 6).

## 3. The runs

| Run | What it shows |
|---|---|
| `stw_safety` | The worker visits and collects only a stopped world (`CollectOnlyStopped`, and `PauseInv` says why); a thread that goes to block has a pending request (`BlockedHasRequest`); the user request counter forgets none (`UserRequestsCounted`); the handshake implements `GCPause`. With spurious wakeups nothing deadlocks; without them a waiter may be stranded, as `stw_stranded` shows |
| `trigger_safety` | The target stays above the default interval and in its guardrails; a heap over the limit makes the next collection a full one; the thrashing estimator never moves; an allocation larger than what one GC frees is made in the end (`AllocationSucceeds`) |
| `final_safety` | In a release build: no list points to a freed object or an old place between collections; the pending flag is right; the marking finds the threads' lists empty; the pass ends; the lists implement `FinalizerRegistry` |
| `slice_safety` | A finished copy is a memmove, and a concurrent reader sees only old or new words |
| `registry_safety` | No mutator goes away under an iterator and none is left out; boxes belong to one thread each, and none leaks; a thread is in the map exactly while it may run; threads that wait for the lock get it, unless others take it again and again |
| `trace_safety` | Every root is reported, of its kind, through full and partly full buffers (`EveryRootIsReported`); whatever is visited is a reference (`SlotsHoldObjects`); of an object at rest a scan finds the references and no other words (`ScansAreRightAtRest`), and it finds them wherever the object is and in whatever order its words have been updated (`ScansFindReferences`); the size of an object is right before and after its words are updated and copied (`SizesStayRight`); what is reachable survives and nothing else does; all references and inside pointers follow their objects; what native code or a stack refers to stays; copies are whole; weak references and tables are right |

Six runs are expected to find a violation: `stw_stop`, `stw_stranded`,
`trigger_thrash`, `trigger_wrap`, `final_assert` and `trace_moves`. They are
section 6.

### Bounds

* `stw_safety`: three threads, so that one blocks, one is late and one asks for
  the next GC; a user request counter of three; spurious wakeups.
* `trigger_safety`: sizes are scaled down so that the default interval, the user
  limit and the guardrails cross each other within a few pages: with pages of
  21 bytes, an interval of 80 and a limit of 220 (80% of a memory of 275), a heap
  can be under the interval, between it and the limit, and over it. Two threads:
  one fails an allocation while the other still runs. An allocation is of three
  pages, so that several GCs may be needed for it; C code holds up to one page;
  a GC frees all or nothing, and the estimate is 0 or more than the limit.
  `MaxPages` (seven) stops new requests, never a collection. There is no
  symmetry, as liveness is checked in the same run.
* `final_safety`: two threads and two objects that move, and two entries at a
  time. Two entries make the sweep of the marked list keep one and drop the
  other, in either order, put an old and a new entry in the marked list, and
  let one object be the finalizer of the other. Threads and objects are
  symmetric; no liveness is checked under symmetry. The build is a release one,
  in which `finalize()` may have blanked entries of other threads' lists.
  `final_assert` is the same in a debug build.
* `slice_safety`: five words hold every way two slices can overlap or touch.
* `registry_safety`: two threads, two visitors and three boxes: a box is used
  again by another thread, two iterators share the lock, and a writer waits for
  both. There is no symmetry, as liveness is checked.
* `trace_safety`: five heaps, given object by object in `MCTracing`, in which
  every object moves that is not pinned, a root or named in `stay`: `arrays` (an
  array that begins inside its memory, a cycle, a struct that may be pinned),
  `memories` (each kind of layout: boxed, one pointer, several with 8- and
  16-bit offsets, a union, memory of C, memory in a string), `tasks` (direct
  and indirect frames, tagged finalizers, an exception stack, a backtrace with
  native and extended entries, a copied stack whose place another task uses, a
  task that only `live_tasks` knows), `weakrefs` (weak references to objects
  that live, die, or live for a finalizer's sake, and both tables), `modules`
  (usings inside the module and outside). Words between the references hold
  numbers that are no addresses, so a slot that is visited by mistake is seen.
  Buffers hold two roots, so that they are handed over full, partly full and
  empty. `trace_moves` has one heap, `Relocations`, in a release build.
  Of what the proofs are about, TLC evaluates the assumptions on all heaps
  (`HeapsAssumption`, `LayoutsAssumption`, `ScansAssumption`), `SlotsFollowMoves`
  on the five (`SafeHeapsAssumption`), and the parts of `Described` as invariants
  of `trace_safety`. `ScansAreRightAtRest` compares the slots that
  `scan_julia_object` finds in each object with the references of the heap, which
  `MCTracing` gives without it. No stack has more frames than `MaxFrames`, or
  `ScansAssumption` would be false. The build of `trace_safety` is one with
  `debug_assertions`, which zeroes what was copied, so that a read of the old
  place is noticed; the run passes without it too.

Deadlock is checked in `stw_safety`, `stw_stranded`, `final_safety`,
`slice_safety`, `registry_safety` and `trace_safety`. `GCTrigger` stops at its
bound on pages. In `stw_stop`, whose property is liveness, the GC may be disabled
for ever with a request pending, where the program waits too.

### Fairness

`stw_stop` assumes weak fairness of the worker and of the steps of a thread
that is inside the binding or in Julia's pause code: operating system threads
that are not blocked keep running. It assumes none for threads in Julia code,
which need not ever ask for a GC. `trigger_safety` assumes weak fairness of a
thread that has started an allocation and of the worker (`FairSpec`), and
`AllocationSucceeds` is about runs in which users stop asking for GCs and the
plan's own wish for a collection, which MMTk core decides, stops failing
allocations that find room (`Quiet`).
`registry_safety` assumes that a thread that has begun to enter or leave
the map, and is not waiting, goes on, and that every iterator is dropped in the
end: Rust's loop ends, and C closes what it opened. It does not assume that the
lock is fair, since std does not promise it, so `ThreadsComeAndGo` allows a
thread to wait for ever while others come and go. That the finalizer pass ends is stated without fairness, as a step
property (`PassProgresses`): each step is nearer to the end in a fixed order,
and with no deadlock the pass cannot stop before it.

## 4. What is proved

Theorems hold for every value of the constants that satisfies the named
assumptions of the modules; `tlapm` checks every leaf.

* `StopTheWorldProofs`. `SafetyInv` is the conjunction of the type invariant,
  `PauseInv`, `UserRequestsCounted` and `BlockedHasRequest`, and is inductive.
  `CollectOnlyStopped` alone is not: that the worker may trust
  `WORLD_HAS_STOPPED` rests on there being one elected thread (`OneElected`),
  on all others being at safepoints while it is in the function
  (`WorldIsHeld`), on the order of the stores (`BlockedBeforeStopped`,
  `ReturnsUnblocked`) and on the flag being stale only between two stores of
  `resume_mutators` (`StoppedIsParked`). From it follow the safety invariants
  of `stw_safety` and the refinement of `GCPause`, for any finite set of
  threads.
* `GCTriggerProofs`. `TriggerInv` is inductive for every page size, default
  interval, limit and set of estimates. The argument is in `GuardrailBounds`:
  whatever the estimate, limiting it, then clamping it between the guardrails,
  leaves an eighth of the interval free. `NeverThrashing` is needed for it,
  since the thrashing branch comes after the limit.
* `MemorySliceProofs`. `IInv` says that exactly the words copied so far have
  changed; its heart is that the next source word is not among them, which is
  what the comparison of the addresses is for. Memmove and the readers' view
  follow for any memory.

* `MutatorRegistryProofs`. `IInv` joins to the properties what the lock does
  (`Locked`: one writer at most, and none beside an iterator), what the map
  holds of a thread at each point of its life (`Registered`), and that what an
  iterator has returned and will return is the map (`Iterating`). They need
  each other: an iterator is complete because no writer changes the map beside
  it, and the mutators it returns are alive because only a writer frees a box,
  and frees only its own (`OneBoxPerMutator`). All safety properties of
  `registry_safety` follow, for any threads, visitors and boxes.

* `FinalizersProofs`. `IInv` says what the lists are at each point of the pass:
  lists of entries (two words, the first an object or a raw pointer, or both
  empty) of objects that exist; the threads' lists that the sweep has left are
  empty; and the words of the marked list before `orig_marked_len`, and those the
  marking has passed, are for where their objects are now. The last part is what
  `EntriesAreLive` rests on, as the marking never looks at the old part of the
  marked list in a nursery collection: it is right because that list has only
  old objects, which a nursery collection does not move. `PassProgresses` is
  proved step by step from a measure of lists that are left, then of words.
  Since the lists that a step of the compaction takes entries from are in
  ascending order of index, `AscendingExists` and `WithoutWords` are about that.
* `FinalizersRefinement`. In the middle of the pass an entry may be in two
  places: the sweep leaves what it has passed behind itself until it cuts the
  list. An entry *stands* unless it is between `j` and `i` of the list that is
  swept, and `NoneIsLost` says that of each pair of object and finalizer as many
  entries stand as there were when the pass started. With `MarkedIsKept`, that
  the marked list has only objects the collection keeps, the lists at the end of
  the pass are those of the registry's one step. `finalize()`, which takes
  entries out of some lists and blanks others, is shown by a one-to-one
  renumbering of the entries that it leaves.
* `TracingProofs`. `RootsAreReported` is about `RootScanning`: what has
  arrived, is in a buffer, is still with C or in a thread not yet scanned, is
  together the roots of the heap, at any size of the buffers. `IInv` adds that
  the roots that must stay are marked before anything may move, and that what is
  marked does not move any more; `AddressesInUseStay` follows. Their hypothesis
  `RootsAreDescribed` is about the initial state alone: a heap names as its roots
  those that C will report and those that the scans of its threads find.

  `CInv` joins to that where the words of the heap are
  and what they hold while objects are being moved. `Content(a)` is what the word
  that was at `a` holds, wherever it is now: an edge leads to the old or to the
  new place of its object, and in an inlined memory to its own elements
  (`EdgesOK`); all other words are what they were (`WordsOK`). That edges from a
  scanned object are done or have their slot among those to be processed
  (`BlackOK`) is the tricolour invariant; that marks are reachable (`MarksOK`),
  and a slot is for an edge from something marked (`SlotsOK`), bounds the closure
  from the other side. `ReachIsLeast` connects both with `Reach`, which is a
  function defined by recursion: it is a set closed under the edges and within
  every such set that contains the roots. `SweepForwardsTables` is about the last
  step: the sweep finds the tables as they were (`TablesStay`), marks are then
  exactly `Kept`, and the survivors of a table, chosen by their rank
  (`ChosenEntries`), go to its first words and to no other table.
* `ScanProofs`. That `CInv` is kept rests on `ScansFindReferences`: each scan
  finds the words of its object that hold references, wherever the object is by
  then. `ScanInv` says why it does: no reference of an object is updated before
  the object is scanned, but for the pointer of an inlined memory, which `copy`
  updates (`FreshOK`); for that, slots are those of scanned objects
  (`SlotsScanned`), and what may refer from anywhere is scanned before anything
  moves (`TPinnedScanned`). So the words from which a scan computes its slots
  are those that were there before the collection (`ReadsKept`), and the slots of
  a copy are those of the object, shifted with it or, when they are in memory of
  C or on a stack, left alone: `ScanAtCopy` goes through the kinds of objects, and `ElementsMove`
  through the layouts of generic memories. A task is scanned by way of its stack,
  words outside of it that stay (`FixedWord`): the frames are the same list, one
  after the other (`FramesKept`), with the same slots (`StackKept`), and only the
  slot of the buffer for the copied stack moves with the task (`TaskScan`). The two invariants need each other and
  are proved together (`ClosureInvariance`). What follows are `TypeOK`,
  `SlotsHoldObjects`, `ScansFindReferences`, `SurvivorsAreReachable`,
  `ReferencesFollowMoves`, `CopiesAreWhole`, `WeakRefsAreClearedOrMoved`,
  `SizesStayRight` and `TablesFollowObjects`, for any heap, layouts, order of work and choice of what moves.
  Two hypotheses are in the statements. `Described` is about the initial state
  alone: the heap names its roots, the sizes of its objects are those the code
  computes, and each object is scanned rightly at rest (`ScannedRightlyAtRest`).
  `SlotsFollowMoves` is about the objects of that heap that may move. What the
  theorems add is the collection: that a scan which is right at rest is right
  wherever the object has got to and whatever has been updated by then, and what
  follows of the closure. Where the hypotheses are false the code is wrong, and
  section 6 has a trace for each kind of object.

The assumptions are `FinalizersAssumption` (finitely many threads, the tags and
list names distinct), `RootScanningAssumption` (the kinds of roots, a buffer that
holds something), `TracingAssumption` (addresses are numbers, what may move is
an object in MMTk's heap, what has its address in use is a root of a kind that
stays, and the header has the size that `mmtk_gc_init` is given),
`HeapsAssumption` and those of the other modules; TLC evaluates each in the
runs. The parts of `HeapsAssumption` say what memory and MMTk core provide:
objects do not overlap and copies come to free memory (`ObjectsAreApart`), a
reference is a word of its object (`EdgesAreWords`), roots are words outside of
objects that move (`RootsAreEdges`), the referent of a weak reference is an
object or nothing (`WeakValues`), and the tables of threads are lists of objects,
outside the heap and apart from each other (`TablesAreOutside`). `LayoutsAssumption` leaves out the layouts for which
`scan_julia_object` is `unimplemented!`. `ScansAssumption` is about the shape of
objects: each has a type, and the words from which a scan computes its slots are
the object's own and no references, and of a task those of its stack too, which
stay as they are (`FieldsAreWords`, `StackWords`, `IsFixed`). That a stack stays
as it is rests on `scan_roots_in_mutator_thread`: what the stacks of live tasks
refer to are roots that do not move (`scanning.rs:56`). No assumption says that a
scan is right, or what may move; that is in the two hypotheses.

### Only model-checked

* Liveness: `AllocationSucceeds` and `ThreadsComeAndGo`. tlapm 1.4.5 does not prove fairness and `ENABLED`.
* That the heaps of `trace_safety` are such as the assumptions, `Described` and
  `SlotsFollowMoves` say. TLC evaluates the assumptions; of `Described`,
  `SizesStayRight` and `ScansAreRightAtRest` are invariants of the run, and if the
  roots were not those that the scans find, `EveryRootIsReported` would fail.

## 5. What is not modelled

* Lifecycle: initialization (`mmtk_gc_init`, `BUILDER`, `SINGLETON`) is
  done by one thread before any other calls the binding, and the set of GC
  threads serves the panic hook only.
* Allocation and write barrier entry points: each hands its arguments on to
  MMTk core, whose spaces, barriers and log bits are outside.
* Build code and version strings.
* Memory orders weaker than `SeqCst` (the trigger's `Relaxed` fields are
  written by the worker only), and the floating-point smoothing that feeds the
  estimates of the trigger.
* Nursery collections in `Tracing`; those of `Finalizers` are modelled.
* Two holders of the pin of one object: the pin is one bit, so the first
  `mmtk_unpin_object` of two ends both (`api.rs:470, 482`).
* The debug assertions that an object outside of the large object space has at
  most 2032 bytes (`object_model.rs:213-217, 299`).
* The subtraction of `freed_diff` (`gc_trigger.rs:133`), which may wrap when
  pending pages or C memory grow between `on_gc_start` and `on_gc_end`; the estimates it
  feeds are any value here.
* The undefined behaviour of a release build that makes an object reference of
  an empty word (`from_raw_address_unchecked` before the test for zero in
  `julia_finalizer.rs:144-145`): the test is taken as written.
* `JuliaFinalizableObject`: MMTk core's own finalizers, which Julia does not
  use.

## 6. What the violated runs show

* `stw_stop`: `resume_mutators` clears `BLOCK_FOR_GC` (`collection.rs:83`)
  before `WORLD_HAS_STOPPED` (`:84`). A thread may leave the wait, start the
  next pause and announce it between the two stores; the second store then
  erases the announcement and `stop_all_mutators` spins for ever.
* `stw_stranded`: the stores and `notify_all` of `resume_mutators` are made
  without the mutex, so they fall between a waiter's test and its wait.
* `trigger_thrash`: the thrashing counter is tested for 4 before it can be
  raised from 0; three slow cycles do not set the flag.
* `trigger_wrap`: `alloc_diff` is an unsigned difference of heap sizes of two
  collections, and memory counted in `JULIA_MALLOC_BYTES` may be freed between
  them.
* `final_assert`: `finalize()` may blank an entry in the list of another thread.
  `sweep_finalizer_list` takes the tag off each entry
  (`julia_finalizer.rs:144`) before its test for an empty one (`:145`), and
  `gc_ptr_clear_tag` asserts that there is none (`:119`): a debug build panics.
* `trace_moves`: three kinds of objects are not followed when they move. The last
  state of the trace shows all of them.

  The usings of a module are walked from `usings.items` as it is when the module
  is scanned (`julia_scanning.rs:166-178`). If the list is inside the module and
  the module has just been moved, `items` still points into the old copy: in a
  release build words of the old copy are updated and those of the new one are
  not, against the comment at `:156-159`; in a debug build the old copy has been
  zeroed, and what is only referred to by the list is not kept.

  A generic memory that owns the C memory of its elements (`how` is 1) is known by
  its owner word, which is its own address. After a move the word still holds
  the old address: `jl_gc_genericmemory_how` of the copy gives 3, and only the owner
  is visited (`:254-259`), so the elements are neither kept nor updated.

  An array whose memory has its elements in a string has an inside pointer that
  is not into that memory (`:229-241`). Below the memory it is not visited; above
  it, its distance to the memory is taken for an offset and added to the new place of
  the memory. Either way it is wrong once the string, or the memory, has moved.

  Which invariants fail depends on the kind. `ReferencesFollowMoves` and
  `ScansFindReferences` fail for each of them. `ScansAreRightAtRest` holds for the
  module, whose scan is right where it was, and fails for the other two.
  `SurvivorsAreReachable` fails for the memory with `how` = 1, for the module in a
  debug build only, and not for the array. Whether Julia moves such objects is
  outside the repository; the heaps of `trace_safety` keep them in place (`stay`),
  and the theorems name that as a hypothesis.

## 7. The plan

Done: the handshake, the trigger, the finalizers and the copy of slices, then
the registry of mutators, and the scanning, the object model and the roots,
composed in `Tracing`; of each, its safety properties proved as section 4 says,
and both refinements.

Next, if there is more to model: a
composition of `StopTheWorld` and `MutatorRegistry`, in which the worker
iterates over the registry while threads are bound and destroyed. It says more
only when Julia's rules for threads in native code are known. The project keeps
to a dozen runs: a new component takes one run for all its safety properties.
