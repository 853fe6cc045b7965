------------------------------ MODULE Tracing ------------------------------
(***************************************************************************)
(* A collection that moves objects: the roots, the closure over them, weak *)
(* references, finalizers and the tables that are swept, as the binding    *)
(* takes part in it (scanning.rs, julia_scanning.rs, object_model.rs,      *)
(* slots.rs, reference_glue.rs, api.rs).                                   *)
(*                                                                         *)
(* External: MMTk core.  It keeps work packets of nodes to scan and slots  *)
(* to process, in any order; trace_object marks an object and may copy it, *)
(* leaving the new reference where its header was; stages come one after   *)
(* the other: first what tpinned roots reach, where nothing moves, then    *)
(* root nodes, which stay, then the rest, then weak references, then the   *)
(* work of process_weak_refs, then the release.                            *)
(*                                                                         *)
(* A heap is a memory with what is true of it: the size of its objects,    *)
(* their references (from an object or 0, at a word, to a place inside an  *)
(* object), the roots, and the objects whose addresses are in use.  The    *)
(* copy of the object at o is at o + Delta, so that an address tells which *)
(* object it is of.                                                        *)
(***************************************************************************)
EXTENDS RootScanning

CONSTANTS
  Heaps,            \* by name
  Delta,
  jl_nothing,
  debug_assertions  \* does the build zero what it has copied?

\* The lists of a thread's heap that C sweeps, of a heap it.
Tables(it) ==
  {p + jl_tls_states_t.gc_tls_common + jl_gc_tls_states_common_t.heap
     + jl_thread_heap_common_t[field] : p \in it.threads,
                                        field \in {"live_tasks", "mallocarrays"}}

\* The words of a list in memory: its length and its entries.
EntryAddr(it, list, i) == Shift(it.mem[list + small_arraylist_t.items], i - 1)
TableWords(it, list) ==
  {list + small_arraylist_t.len}
  \cup {EntryAddr(it, list, i) : i \in 1 .. it.mem[list + small_arraylist_t.len]}

\* Is the word at a in the object o?
Inside(it, o, a) == o - JULIA_HEADER_SIZE <= a /\ a < o - JULIA_HEADER_SIZE + it.size[o]

\* JULIA_HEADER_SIZE is what C gives to mmtk_gc_init, the size of a
\* jl_taggedvalue_t.  MMTk moves objects that are in its heap.  What has its
\* address in use is a root of a kind that does not move.
ASSUME TracingAssumption ==
  /\ Delta \in Nat \ {0} /\ MaxFrames \in Nat
  /\ JULIA_HEADER_SIZE = BYTES_IN_ADDRESS
  /\ \A h \in DOMAIN Heaps :
       LET it == Heaps[h]
       IN  /\ DOMAIN it.size \subseteq Nat \ {0}
           /\ {it.roots, it.vmRoots} \subseteq [Kinds -> SUBSET Nat]
           /\ it.inUse \subseteq it.roots["tpinned"] \cup it.roots["nodes"]
           /\ it.roots["tpinned"] \cup it.roots["nodes"] \subseteq DOMAIN it.size
           /\ \A objects \in it.moving : /\ objects \subseteq DOMAIN it.size
                                        /\ \A o \in objects : IsMapped(o)

\* Objects are apart from each other and from where copies come to, which is
\* free: nothing refers to it.
ObjectsAreApart(it) ==
  LET objects == DOMAIN it.size
  IN  /\ IsFiniteSet(objects)
      /\ DOMAIN it.mem \subseteq Nat /\ it.mem \in [DOMAIN it.mem -> Int]
      /\ \A o \in objects :
           /\ it.size[o] \in Nat /\ it.size[o] > JULIA_HEADER_SIZE
           /\ {o - JULIA_HEADER_SIZE, o} \subseteq DOMAIN it.mem
           /\ o + Delta \notin objects /\ ~is_object_in_los(o + Delta)
           /\ \A a \in DOMAIN it.mem :
                /\ ~Inside(it, o, it.mem[a] - Delta)
                /\ Inside(it, o, a) =>
                     /\ a + Delta \in DOMAIN it.mem
                     /\ \A p \in objects : /\ ~Inside(it, p, a - Delta)
                                           /\ Inside(it, p, a) => o = p

\* An edge is in a word of its object, or outside of objects that may move.
\* It does not lead to where another object's copy would be mistaken for one.
EdgesAreWords(it) ==
  \A e \in it.edges :
    /\ e.to \in DOMAIN it.size /\ e.from \in DOMAIN it.size \cup {0} /\ e.off \in Nat
    /\ e.at \in DOMAIN it.mem /\ it.mem[e.at] = e.to + e.off
    /\ \A o \in DOMAIN it.size :
         /\ Inside(it, o, e.at) => o = e.from \/ o \in it.roots["tpinned"]
         /\ ~Inside(it, o, e.at - Delta)
         /\ ~Inside(it, o, it.mem[e.at] + Delta)
         /\ e.at # o - JULIA_HEADER_SIZE
    /\ \A f \in it.edges : e.at = f.at => e.to = f.to /\ e.off = f.off

\* What is needed for itself is in a slot that is reported, or stays.
RootsAreEdges(it) ==
  /\ \A a \in it.roots["slots"] \cup it.finalizers :
       \E e \in it.edges : e.from = 0 /\ e.at = a /\ e.off = 0
  /\ \A e \in it.edges :
       e.from = 0 => \/ e.at \in it.roots["slots"] \cup it.finalizers
                     \/ e.to \in it.roots["tpinned"] \cup it.roots["nodes"]

\* The value of a weak reference is no edge, and nothing does not move.
WeakValues(it) ==
  /\ jl_nothing \notin UNION it.moving
  /\ it.weak \subseteq DOMAIN it.size
  /\ \A r \in it.weak :
       LET value == r + jl_weakref_t.value
       IN  /\ value \in DOMAIN it.mem /\ Inside(it, r, value)
           /\ it.mem[value] \in DOMAIN it.size \cup {jl_nothing}
           /\ \A e \in it.edges : e.at # value

\* Tables are lists of objects, apart from the objects and from each other.
TablesAreOutside(it) ==
  \A list \in Tables(it) :
    LET len == list + small_arraylist_t.len
    IN  /\ it.mem[len] \in Nat /\ list + small_arraylist_t.items \in DOMAIN it.mem
        /\ \A i \in 1 .. it.mem[len] : /\ EntryAddr(it, list, i) # len
                                      /\ it.mem[EntryAddr(it, list, i)] \in DOMAIN it.size
        /\ \A other \in Tables(it) \ {list} : TableWords(it, list) \cap TableWords(it, other) = {}
        /\ \A a \in TableWords(it, list) :
             /\ a \in DOMAIN it.mem
             /\ \A o \in DOMAIN it.size : ~Inside(it, o, a) /\ ~Inside(it, o, a - Delta)
             /\ \A e \in it.edges : e.at # a

ASSUME HeapsAssumption ==
  \A h \in DOMAIN Heaps :
    LET it == Heaps[h]
    IN  /\ ObjectsAreApart(it) /\ EdgesAreWords(it) /\ RootsAreEdges(it)
        /\ WeakValues(it) /\ TablesAreOutside(it)

-----------------------------------------------------------------------------
(* What scan_julia_object finds in the objects of a heap, before any of    *)
(* them has moved.                                                         *)

Before(it) == INSTANCE ObjectScanning WITH mem <- it.mem

Found(it, o) == Before(it)!scan_julia_object(o)
HasType(it, o) ==
  ~Before(it)!IsBuffer(o) /\ Before(it)!mmtk_jl_typetagof(o) # jl_symbol_type
IsMemory(it, o) == Before(it)!HasName(o, "GenericMemory")
IsModule(it, o) == Before(it)!HasTag(o, small_tags.module)
IsTask(it, o) == Before(it)!HasTag(o, small_tags.task)

\* Objects that the roots let move.
CanMove(it) == (UNION it.moving) \ (it.roots["tpinned"] \cup it.roots["nodes"])

\* Each slot is for a reference of the object, or holds nothing and stays so.
\* Each reference has a slot; but inside pointers have none into a memory
\* itself, which copy takes care of, and into what stays.
ScanIsRight(it, o) ==
  LET edges == {e \in it.edges : e.from = o}
      visited == {e \in edges : Before(it)!Offset(e.at, e.off) \in Found(it, o)}
  IN  /\ \A slot \in Found(it, o) :
           \/ \E e \in edges : slot = Before(it)!Offset(e.at, e.off)
           \/ /\ slot = Before(it)!Simple(slot.addr)
              /\ slot.addr \in DOMAIN it.mem /\ it.mem[slot.addr] = 0
              /\ \A r \in it.weak : slot.addr # r + jl_weakref_t.value
              /\ \A p \in DOMAIN it.size : /\ ~Inside(it, p, slot.addr - Delta)
                                           /\ Inside(it, p, slot.addr) => p = o \/ p \notin CanMove(it)
      /\ \A e \in edges \ visited :
           \/ e.to \notin UNION it.moving /\ \E f \in visited : f.to = e.to
           \/ e.to = o /\ (o \in CanMove(it) => /\ e.at = o + jl_genericmemory_t.ptr
                                                /\ e.off = jl_genericmemory_t.size)

\* The words of a stack that a scan of its task reads, where they are.
StackWords(it, ta) ==
  LET at(a) == Before(it)!get_stack_addr(ta, a)
      nroots(s) == it.mem[at(s + jl_gcframe_t.nroots)] \div 4
      excstack == it.mem[ta + jl_task_t.excstack]
  IN  (UNION {{at(s + jl_gcframe_t.nroots), at(s + jl_gcframe_t.prev)}
              \cup {at(Shift(s, 2 + i)) : i \in 0 .. nroots(s) - 1} : s \in Before(it)!Frames(ta)})
      \cup (IF excstack = 0 THEN {} ELSE {excstack + jl_excstack_t.top})

\* Words that stay where they are and as they are, as what the stacks of live
\* tasks refer to is among the roots that do not move.
IsFixed(it, a) ==
  /\ a \in DOMAIN it.mem
  /\ \A p \in DOMAIN it.size : ~Inside(it, p, a - Delta) /\ (Inside(it, p, a) => p \notin CanMove(it))
  /\ \A e \in it.edges : e.at = a => e.to \notin CanMove(it)
  /\ \A r \in it.weak : a # r + jl_weakref_t.value

\* The words that tell where the slots of an object are.
FieldsAreWords(it, o) ==
  LET word(d) == /\ o + d \in DOMAIN it.mem /\ Inside(it, o, o + d)
                 /\ o \in it.weak => d # jl_weakref_t.value
      usings == jl_module_t.usings
  IN  /\ Before(it)!HasTag(o, small_tags.simplevector) => word(jl_svec_t.length)
      /\ IsModule(it, o) => word(usings + arraylist_t.len) /\ word(usings + arraylist_t.items)
      /\ IsMemory(it, o) => \A d \in {jl_genericmemory_t.length, jl_genericmemory_t.ptr,
                                      jl_genericmemory_t.size} : word(d)
      /\ Before(it)!HasName(o, "Array") =>
           \A d \in {jl_genericmemoryref_t.ptr_or_offset, jl_genericmemoryref_t.mem} :
             word(jl_array_t.ref_ + d)
      /\ IsTask(it, o) =>
           /\ \A d \in {jl_task_t.gcstack, jl_task_t.excstack, jl_task_t.tid, jl_task_t.ptls,
                        jl_task_t.ctx + jl_ucontext_t.copy_stack,
                        jl_task_t.ctx + jl_ucontext_t.stkbuf} : word(d)
           /\ Before(it)!Frames(o) \subseteq Nat /\ Before(it)!FrameAt(o)[MaxFrames] = 0
           /\ \A a \in StackWords(it, o) : IsFixed(it, a)

\* A scan of o after it has moved visits the same slots, at their new places:
\* they are inside it, or those of a list or stack outside, which is left where
\* it is.  This is not so of two kinds of objects that the scan has branches
\* for: a module with its usings inside it, whose list is walked where it was
\* (julia_scanning.rs:166-178), and a memory that owns memory of C (how = 1),
\* which is taken for one in a string (:254) once its owner is elsewhere.
SlotsMoveAlong(it, o) ==
  LET within == \A slot \in Found(it, o) : Inside(it, o, slot.addr)
      usings == Before(it)!UsingsSlots(o)
      how == Before(it)!jl_gc_genericmemory_how(o)
      stack == (UNION {Before(it)!FrameSlots(o, s) : s \in Before(it)!Frames(o)})
               \cup Before(it)!ExceptionSlots(o)
  IN  /\ ~IsMemory(it, o) /\ ~IsModule(it, o) /\ ~IsTask(it, o) => within
      /\ IsTask(it, o) => /\ \A slot \in stack : ~Inside(it, o, slot.addr)
                          /\ \A slot \in Before(it)!PointerSlots(o, Before(it)!Layout(o)) :
                               Inside(it, o, slot.addr)
      /\ IsMemory(it, o) => \/ how \in {0, 3} /\ within
                            \/ how = 2 /\ \A slot \in Found(it, o) : ~Inside(it, o, slot.addr)
      /\ IsModule(it, o) => /\ \A slot \in usings : ~Inside(it, o, slot.addr)
                            /\ \A slot \in Found(it, o) \ usings : Inside(it, o, slot.addr)

\* For memories of large structs with several pointers scan_julia_object is
\* unimplemented.
ASSUME LayoutsAssumption ==
  \A t \in DOMAIN DataTypes :
    LET l == DataTypes[t].layout
    IN  /\ PointerOffsets(l) \subseteq Nat
        /\ l.size \in Nat /\ l.first_ptr \in Int
        /\ DataTypes[t].name = "GenericMemory" /\ l.first_ptr >= 0 /\ ~l.arrayelem_isboxed
             => l.npointers = 1 \/ (l.npointers > 1 /\ l.fielddesc_type <= 1)

\* Objects have types, and the words that scans look at besides references.
ASSUME ScansAssumption ==
  \A h \in DOMAIN Heaps : LET it == Heaps[h] IN
    \A o \in DOMAIN it.size :
      HasType(it, o) => /\ Before(it)!mmtk_jl_typeof(o) \in DOMAIN DataTypes
                        /\ Before(it)!IsSmallTag(o) => ~IsMemory(it, o)
                        /\ FieldsAreWords(it, o)

ScannedRightlyAtRest(it) == \A o \in DOMAIN it.size : ScanIsRight(it, o)
SlotsFollowMoves(it) == \A o \in CanMove(it) : HasType(it, o) => SlotsMoveAlong(it, o)

VARIABLES
  heap,      \* the name of the heap that is collected
  phase,     \* the stage of the collection
  pinned,    \* objects with a pin bit
  held,      \* history: objects that native code has pinned
  moving,    \* objects that this collection moves when it can
  marked, moved,
  nodes,     \* objects to scan, at their new places
  slots,     \* slots to process
  weak       \* weak references to look at

traceVars == <<moving, marked, moved, nodes, slots>>
otherVars == <<heap, pinned, held, weak>>
vars == <<mem, rootVars, heap, phase, pinned, held, traceVars, weak>>

Heap == Heaps[heap]  \* as it was before the collection
Objects == DOMAIN Heap.size

Init == /\ heap \in DOMAIN Heaps
        /\ mem = Heap.mem
        /\ unscanned = Heap.threads
        /\ left = Heap.vmRoots
        /\ buffer = NoRoots /\ capacity = [k \in Kinds |-> 0] /\ roots = NoRoots
        /\ phase = "mutator"
        /\ pinned = {} /\ held = {}
        /\ moving = {} /\ marked = {} /\ moved = {}
        /\ nodes = {} /\ slots = {}
        /\ weak = Heap.weak

\* The object that an address, old or new, is a reference to.
ObjectAt(addr) == IF addr \in Objects THEN addr ELSE addr - Delta
Place(o) == IF o \in moved THEN o + Delta ELSE o
Live == marked

-----------------------------------------------------------------------------
(* Before the collection: native code pins objects whose address it keeps. *)

\* An object has one pin bit: a second pin of it changes nothing, and the next
\* unpin ends both.

\* Fault: objects in MMTk's heap are not pinned.
FaultPin(o) ==
  /\ phase = "mutator"
  /\ o \in Heap.pinnable
  /\ pinned' = IF mmtk_object_is_managed_by_mmtk(o) THEN pinned ELSE pinned \cup {o}
  /\ held' = held \cup {o}
  /\ UNCHANGED <<mem, rootVars, heap, phase, traceVars, weak>>

mmtk_pin_object(o) ==
  /\ phase = "mutator"
  /\ o \in Heap.pinnable
  /\ pinned' = IF mmtk_object_is_managed_by_mmtk(o) THEN pinned \cup {o} ELSE pinned
  /\ held' = held \cup {o}
  /\ UNCHANGED <<mem, rootVars, heap, phase, traceVars, weak>>

\* Fault: objects in MMTk's heap stay pinned.
FaultUnpin(o) ==
  /\ phase = "mutator"
  /\ o \in held
  /\ pinned' = IF mmtk_object_is_managed_by_mmtk(o) THEN pinned ELSE pinned \ {o}
  /\ held' = held \ {o}
  /\ UNCHANGED <<mem, rootVars, heap, phase, traceVars, weak>>

mmtk_unpin_object(o) ==
  /\ phase = "mutator"
  /\ o \in held
  /\ pinned' = IF mmtk_object_is_managed_by_mmtk(o) THEN pinned \ {o} ELSE pinned
  /\ held' = held \ {o}
  /\ UNCHANGED <<mem, rootVars, heap, phase, traceVars, weak>>

StopMutators == /\ phase = "mutator"
                /\ phase' = "roots"
                /\ UNCHANGED <<mem, rootVars, traceVars, otherVars>>

ScanRootsStep == /\ phase = "roots"
                 /\ ScanRoots
                 /\ UNCHANGED <<mem, phase, traceVars, otherVars>>

-----------------------------------------------------------------------------
(* Tracing.                                                                *)

\* trace_object, for objects that must stay.
TraceInPlace(os) == /\ marked' = marked \cup os
                    /\ nodes' = nodes \cup (os \ marked)
                    /\ UNCHANGED <<mem, moved>>

\* trace_object.  VMObjectModel::copy is called for an object that is not
\* marked; its header then holds the forwarding pointer.
trace_object(o, slot) ==
  LET moves == o \in moving \ (marked \cup pinned) /\ phase # "tpin"
      start == ref_to_object_start(o)
      end == start + get_so_object_size(o)
      old(words) == [a \in DOMAIN words |->
                       CASE a = o - JULIA_HEADER_SIZE -> o + Delta
                         [] a # o - JULIA_HEADER_SIZE /\ debug_assertions
                            /\ start <= a /\ a < end -> 0
                         [] OTHER -> words[a]]
      new == IF moves THEN o + Delta ELSE Place(o)
      words == IF moves THEN old(copy(o, o + Delta)) ELSE mem
  IN  /\ marked' = marked \cup {o}
      /\ moved' = IF moves THEN moved \cup {o} ELSE moved
      /\ nodes' = IF o \in marked THEN nodes ELSE nodes \cup {new}
      /\ mem' = [words EXCEPT ![slot.addr] = new + slot.offset]

\* A slot with no reference is skipped.  As no mutator runs, it has none
\* when it is processed if it has none when it is visited.
Visited(new) == {slot \in new : LoadSlot(slot) # 0}

\* All tracing begins with the roots that keep what they reach in place.
TraceTPinnedRoots ==
  /\ phase = "roots" /\ RootsScanned
  /\ phase' = "tpin"
  /\ moving' \in Heap.moving
  /\ TraceInPlace(roots["tpinned"])
  /\ UNCHANGED <<rootVars, slots, otherVars>>

TracePinningRoots ==
  /\ phase = "tpin" /\ nodes = {} /\ slots = {}
  /\ phase' = "closure"
  /\ TraceInPlace(roots["nodes"])
  /\ slots' = Visited({Simple(a) : a \in roots["slots"]})
  /\ UNCHANGED <<rootVars, moving, otherVars>>

ScanObject(n) ==
  /\ n \in nodes
  /\ nodes' = nodes \ {n}
  /\ slots' = slots \cup Visited(scan_julia_object(n))
  /\ UNCHANGED <<mem, rootVars, phase, moving, marked, moved, otherVars>>

\* Fault: an offset slot is stored without its offset.
FaultProcessSlot(slot) ==
  /\ slot \in slots
  /\ slots' = slots \ {slot}
  /\ trace_object(ObjectAt(LoadSlot(slot)), Simple(slot.addr))
  /\ UNCHANGED <<rootVars, phase, moving, otherVars>>

\* JuliaVMSlot::load, trace_object, JuliaVMSlot::store.
ProcessSlot(slot) ==
  /\ slot \in slots
  /\ slots' = slots \ {slot}
  /\ trace_object(ObjectAt(LoadSlot(slot)), slot)
  /\ UNCHANGED <<rootVars, phase, moving, otherVars>>

-----------------------------------------------------------------------------
(* Weak references, finalizers and tables.                                 *)

get_referent(reff) == Load(reff + jl_weakref_t.value)
SetReferent(reff, value) == mem' = [mem EXCEPT ![reff + jl_weakref_t.value] = value]

ProcessWeakRefs == /\ phase = "closure" /\ nodes = {} /\ slots = {}
                   /\ phase' = "weak"
                   /\ UNCHANGED <<mem, rootVars, traceVars, otherVars>>

\* Fault: a weak reference to a dead object is left alone.
FaultWeakRef(r) ==
  /\ phase = "weak" /\ r \in weak
  /\ weak' = weak \ {r}
  /\ LET o == ObjectAt(get_referent(Place(r)))
     IN  IF get_referent(Place(r)) # jl_nothing /\ {r, o} \subseteq Live
         THEN SetReferent(Place(r), Place(o))
         ELSE UNCHANGED mem
  /\ UNCHANGED <<rootVars, heap, phase, pinned, held, traceVars>>

\* External: MMTk core forwards the referent of a live weak reference, or
\* clears it when it is dead; it clears a weak reference that is dead.
ProcessWeakRef(r) ==
  /\ phase = "weak" /\ r \in weak
  /\ weak' = weak \ {r}
  /\ LET o == ObjectAt(get_referent(Place(r)))
     IN  IF get_referent(Place(r)) = jl_nothing THEN UNCHANGED mem
         ELSE SetReferent(Place(r), IF {r, o} \subseteq Live THEN Place(o) ELSE jl_nothing)
  /\ UNCHANGED <<rootVars, heap, phase, pinned, held, traceVars>>

\* process_weak_refs adds the packet that marks and forwards the objects of
\* the finalizer lists; the module Finalizers has what it does to the lists.
ScanFinalizersSingleThreaded ==
  /\ phase = "weak" /\ weak = {}
  /\ phase' = "vmref"
  /\ slots' = Visited({Simple(a) : a \in Heap.finalizers})
  /\ UNCHANGED <<mem, rootVars, moving, marked, moved, nodes, otherVars>>

mmtk_is_live_object(obj) == ObjectAt(obj) \in Live

\* Fault: objects are taken to be where they were.
FaultForwarded(obj) == obj

mmtk_get_possibly_forwarded(obj) == Place(ObjectAt(obj))

SweptLists == Tables(Heap)

Entries(list, words) ==
  [i \in 1 .. words[list + small_arraylist_t.len] |-> words[EntryAddr(Heap, list, i)]]

\* The entries with the indexes of a set, in order.
Chosen(entries, indexes) ==
  LET nth(k) == CHOOSE i \in indexes : Cardinality({j \in indexes : j < i}) = k - 1
  IN  [k \in 1 .. Cardinality(indexes) |-> entries[nth(k)]]

\* External: C sweeps the lists.  Entries of dead objects go, the others are
\* forwarded; what is behind them is left.
Swept(list) ==
  LET len == list + small_arraylist_t.len
      entries == Entries(list, mem)
      survivors == Chosen(entries, {i \in DOMAIN entries : mmtk_is_live_object(entries[i])})
      entry(a) == CHOOSE i \in DOMAIN entries : EntryAddr(Heap, list, i) = a
  IN  [a \in {len} \cup {EntryAddr(Heap, list, i) : i \in DOMAIN entries} |->
         CASE a = len -> Len(survivors)
           [] a # len /\ entry(a) \in DOMAIN survivors ->
                mmtk_get_possibly_forwarded(survivors[entry(a)])
           [] OTHER -> mem[a]]

SweepVMSpecific ==
  /\ phase = "vmref" /\ nodes = {} /\ slots = {}
  /\ phase' = "done"
  /\ LET writes(a) == {list \in SweptLists : a \in DOMAIN Swept(list)}
     IN  mem' = [a \in DOMAIN mem |->
                   IF writes(a) = {} THEN mem[a]
                   ELSE Swept(CHOOSE list \in writes(a) : TRUE)[a]]
  /\ UNCHANGED <<rootVars, traceVars, otherVars>>

Finished == /\ phase = "done"
            /\ UNCHANGED vars

-----------------------------------------------------------------------------

Next == \/ \E o \in Heap.pinnable : mmtk_pin_object(o) \/ mmtk_unpin_object(o)
        \/ StopMutators
        \/ ScanRootsStep
        \/ TraceTPinnedRoots
        \/ TracePinningRoots
        \/ \E n \in nodes : ScanObject(n)
        \/ \E slot \in slots : ProcessSlot(slot)
        \/ ProcessWeakRefs
        \/ \E r \in weak : ProcessWeakRef(r)
        \/ ScanFinalizersSingleThreaded
        \/ SweepVMSpecific
        \/ Finished

Spec == Init /\ [][Next]_vars

-----------------------------------------------------------------------------
(* What a collection promises, in terms of the heap as it was.             *)

InObject(o, a) == Inside(Heap, o, a)

\* Where the word at a is that was in the object o, or beside it.
Now(o, a) == IF o \in moved /\ InObject(o, a) THEN a + Delta ELSE a

\* What can be reached over references from the objects of a set.
Reach(from) ==
  LET step[n \in Nat] ==
        IF n = 0 THEN from
        ELSE LET last == step[n - 1]
             IN  last \cup {e.to : e \in {e \in Heap.edges : e.from \in last}}
  IN  step[Cardinality(Objects)]

Strong == Reach(Heap.roots["tpinned"] \cup Heap.roots["nodes"]
                \cup {Heap.mem[a] : a \in Heap.roots["slots"]})
Kept == Reach(Strong \cup {Heap.mem[a] : a \in Heap.finalizers})

\* The sets of objects stay inside the heap, each moved object is one that
\* this collection may move, and objects are scanned where they are.
TypeOK ==
  /\ marked \subseteq Objects
  /\ moved \subseteq marked \cap moving
  /\ nodes \subseteq {Place(o) : o \in marked}
  /\ pinned \subseteq held
  /\ DOMAIN mem = DOMAIN Heap.mem

\* process_slot, process_offset_slot and scan_roots_in_mutator_thread assert
\* it: a slot that is visited holds nothing or a reference to an object, and
\* a root is one, whatever else is in the frames, copied stacks, unions,
\* finalizer lists and structs around it.
SlotsHoldObjects ==
  /\ \A slot \in slots :
       LoadSlot(slot) \in Objects \cup {o + Delta : o \in moved}
  /\ roots["tpinned"] \cup roots["nodes"] \subseteq Objects

\* scan_julia_object visits the words of an object that hold references, at
\* its place, with the offset of an inside pointer, and no others; except
\* that inside pointers which are right already need no visit when what they
\* point into stays where it is and is marked, or is visited too.  For heaps
\* with SlotsFollowMoves; the run trace_moves has one without.
FindsReferences(n) ==
  LET o == ObjectAt(n)
      found == Visited(scan_julia_object(n))
      slot(e) == Offset(Now(o, e.at), e.off)
      edges == {e \in Heap.edges : e.from = o}
  IN  /\ found \subseteq {slot(e) : e \in edges}
      /\ \A e \in edges :
           \/ slot(e) \in found
           \/ /\ Load(Now(o, e.at)) = Place(e.to) + e.off
              /\ \/ e.to \in marked
                 \/ e.to \notin moving /\ \E f \in edges : f.to = e.to /\ slot(f) \in found

ScansFindReferences == \A n \in nodes : FindsReferences(n)

\* Before anything moves, the scan of every object (its type, its layout, its
\* frames, its tagged words) visits the words that hold references in the heap
\* as it was built, and no others but empty ones.
ScansAreRightAtRest == phase = "mutator" => ScannedRightlyAtRest(Heap)

\* scan_roots_in_mutator_thread and the buffers of RootsWorkClosure give
\* MMTk the roots of the heap, of each kind, all of them and no others.
EveryRootIsReported == phase \notin {"mutator", "roots"} => roots = Heap.roots

\* What the closure keeps is what can be reached from the roots before weak
\* references are looked at, and what finalizers need besides at the end.
SurvivorsAreReachable ==
  /\ phase = "weak" => Live = Strong
  /\ phase = "done" => Live = Kept

\* After the collection every reference of a surviving object, or inside
\* pointer into an object, points to the same object or place inside it as
\* before, wherever that is now, and the object survives too.  The code means
\* this of all objects ("we will need to trace and update it if the module
\* moves", julia_scanning.rs:156-159), and does it for heaps with SlotsFollowMoves.
ReferencesFollowMoves ==
  phase = "done" =>
    \A e \in Heap.edges :
      e.from \in Live \cup {0} => /\ e.to \in Live
                                   /\ Load(Now(e.from, e.at)) = Place(e.to) + e.off

Movable == CanMove(Heap)

\* Is m a memory with its elements behind it?  It has a pointer to them.
IsInlined(m) == HasName(m, "GenericMemory") /\ jl_gc_genericmemory_how(m) = 0
PointsBehind(e, m) == /\ e.from = m /\ e.at = m + jl_genericmemory_t.ptr
                      /\ e.to = m /\ e.off = jl_genericmemory_t.size

\* What the size of the object o, which is at where, is read from, besides its
\* header: words of its own, the length no reference.
HasLength(o) ==
  HasTag(o, small_tags.simplevector) \/ HasTag(o, small_tags.string) \/ HasName(o, "GenericMemory")
HasFields(o, where) ==
  /\ HasLength(where) => o \notin Heap.weak /\ \A e \in Heap.edges : e.at # o
  /\ HasName(where, "GenericMemory") =>
       \A a \in {o + jl_genericmemory_t.ptr, o + jl_genericmemory_t.size} :
         a \in DOMAIN Heap.mem /\ InObject(o, a)

\* get_so_object_size finds an object as large as it was allocated, and
\* ref_to_object_start where it starts, before and after it is copied, with
\* any of its references updated: no other memory gets inlined by it, and an
\* inlined one does not cease to be.
SizesStayRight ==
  \A o \in Movable :
    /\ HasFields(o, Place(o))
    /\ ref_to_object_start(Place(o)) = Place(o) - JULIA_HEADER_SIZE
    /\ get_so_object_size(Place(o)) = Heap.size[o]
    /\ IsInlined(Place(o)) <=> \E e \in Heap.edges : PointsBehind(e, o)

\* No object moves whose address somebody keeps where it cannot be updated:
\* native code that has pinned it, a frame of a stack, a running thread.
AddressesInUseStay == moved \cap (held \cup Heap.inUse) = {}

\* copy moves all words of an object: after the collection those that are
\* not references are what they were.
CopiesAreWhole ==
  phase = "done" =>
    \A o \in moved :
      \A a \in {a \in DOMAIN mem : InObject(o, a)} \ {e.at : e \in Heap.edges} :
        \/ o \in Heap.weak /\ a = o + jl_weakref_t.value
        \/ mem[a + Delta] = Heap.mem[a]

\* A weak reference that survives holds its object, where that is now, when
\* the object was reachable, and nothing otherwise; one that only finalizers
\* keep holds nothing.
WeakRefsAreClearedOrMoved ==
  phase = "done" =>
    \A r \in Heap.weak \cap Live :
      LET o == Heap.mem[r + jl_weakref_t.value]
      IN  get_referent(Place(r)) =
            IF {r, o} \subseteq Strong THEN Place(o) ELSE jl_nothing

\* The tables of a thread hold the tasks and memories that survive, in order
\* and at their new places.
TablesFollowObjects ==
  phase = "done" =>
    \A list \in SweptLists :
      LET entries == Entries(list, Heap.mem)
          survivors == Chosen(entries, {i \in DOMAIN entries : entries[i] \in Kept})
      IN  Entries(list, mem) = [i \in DOMAIN survivors |-> Place(survivors[i])]
=============================================================================
