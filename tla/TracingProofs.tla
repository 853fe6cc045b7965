---------------------------- MODULE TracingProofs ----------------------------
(***************************************************************************)
(* Proofs about Tracing, and about the root buffers of RootScanning, for   *)
(* any heaps, threads, objects and sizes: which roots are reported, what   *)
(* stays in place, and that a collection is right as long as the scans of  *)
(* its objects find their references (ScansFindReferences).                *)
(***************************************************************************)
EXTENDS Tracing, FiniteSetTheorems, WellFoundedInduction, TLAPS

\* llt_align rounds a size up to the next multiple of align, no further.
LEMMA AlignUp ==
  ASSUME NEW size \in Nat, NEW align \in Nat \ {0}
  PROVE  /\ llt_align(size, align) % align = 0
         /\ size <= llt_align(size, align) /\ llt_align(size, align) < size + align
  BY DEF llt_align

-----------------------------------------------------------------------------
(* The roots of a thread are a function of the memory.                     *)

LEMMA BacktraceOfMemory ==
  ASSUME mem' = mem, NEW ptls
  PROVE  BacktraceRoots(ptls)' = BacktraceRoots(ptls)
  BY DEF BacktraceRoots, BtWord, mmtk_jl_bt_is_native, mmtk_jl_bt_num_jlvals,
     mmtk_jl_bt_num_uintvals, mmtk_jl_bt_entry_jlvalue, mmtk_jl_bt_entry_size, Load

LEMMA StackRootsOfMemory ==
  ASSUME mem' = mem, NEW ptls
  PROVE  StackRoots(ptls)' = StackRoots(ptls)
<1>1. \A ta, a : /\ read_stack(ta, a)' = read_stack(ta, a)
                /\ get_stack_addr(ta, a)' = get_stack_addr(ta, a)
  BY DEF read_stack, get_stack_addr, HasCopiedStack, StkbufAddr, copy_stack, Load
<1>2. ASSUME NEW ta
      PROVE  Frames(ta)' = Frames(ta)
  <2> DEFINE prev == [s \in Nat |-> IF s = 0 THEN 0 ELSE read_stack(ta, s + jl_gcframe_t.prev)]
  <2>1. prev' = prev
    BY <1>1
  <2>2. FrameAt(ta)' = FrameAt(ta)
    BY <2>1 DEF FrameAt, Load
  <2> QED
    BY <2>2 DEF Frames
<1>3. \A ta, s : FrameSlots(ta, s)' = FrameSlots(ta, s)
  BY <1>1 DEF FrameSlots
<1>4. \A ta : mmtk_scan_gcstack(ta)' = mmtk_scan_gcstack(ta)
  BY <1>2, <1>3 DEF mmtk_scan_gcstack, ExceptionSlots, SlotsBetween, HasCopiedStack,
     StkbufAddr, copy_stack, Load
<1>5. RootTasks(ptls)' = RootTasks(ptls) /\ LiveTasks(ptls)' = LiveTasks(ptls)
  BY DEF RootTasks, LiveTasks, LiveTasksList, LiveTask, Load
<1> QED
  BY <1>4, <1>5 DEF StackRoots, Referents, LoadSlot, Load

LEMMA ThreadRootsOfMemory ==
  ASSUME mem' = mem, NEW ptls
  PROVE  ThreadRoots(ptls)' = ThreadRoots(ptls)
<1>1. RootTasks(ptls)' = RootTasks(ptls) /\ PreviousException(ptls)' = PreviousException(ptls)
  BY DEF RootTasks, PreviousException, Load
<1>2. StackRoots(ptls)' = StackRoots(ptls) /\ BacktraceRoots(ptls)' = BacktraceRoots(ptls)
  BY StackRootsOfMemory, BacktraceOfMemory
<1> QED
  BY <1>1, <1>2 DEF ThreadRoots

-----------------------------------------------------------------------------
(* Every root is reported.                                                 *)

\* What the heap says of its roots is what C reports and the scans of the
\* threads find.
RootsAreDescribed ==
  \A k \in Kinds :
    Heap.roots[k] = Heap.vmRoots[k] \cup UNION {ThreadRoots(p)[k] : p \in Heap.threads}

\* The roots that are reported, and those on their way.
OnTheirWay(k) == roots[k] \cup buffer[k] \cup left[k]
                 \cup UNION {ThreadRoots(p)[k] : p \in unscanned}

BuffersOK ==
  /\ roots = [k \in Kinds |-> roots[k]]
  /\ buffer = [k \in Kinds |-> buffer[k]]
  /\ left = [k \in Kinds |-> left[k]]
  /\ capacity \in [Kinds -> Nat]
  /\ \A k \in Kinds : IsFiniteSet(buffer[k]) /\ Cardinality(buffer[k]) <= capacity[k]

RootsInv ==
  /\ heap \in DOMAIN Heaps
  /\ BuffersOK
  /\ phase \in {"mutator", "roots"} => \A k \in Kinds : OnTheirWay(k) = Heap.roots[k]
  /\ EveryRootIsReported

LEMMA InitRoots ==
  ASSUME Init, RootsAreDescribed
  PROVE  RootsInv
<1>1. \A k \in Kinds : roots[k] = {} /\ buffer[k] = {} /\ capacity[k] = 0
  BY DEF Init, NoRoots
<1>2. IsFiniteSet({}) /\ Cardinality({}) = 0
  BY FS_EmptySet
<1>3. left = [k \in Kinds |-> left[k]]
  BY TracingAssumption DEF Init, Heap
<1>4. BuffersOK
  BY <1>1, <1>2, <1>3 DEF Init, NoRoots, BuffersOK
<1>5. \A k \in Kinds : OnTheirWay(k) = Heap.roots[k]
  BY <1>1 DEF Init, RootsAreDescribed, OnTheirWay
<1> QED
  BY <1>4, <1>5 DEF Init, RootsInv, EveryRootIsReported

\* The steps of the root scanning lose none and add none.
LEMMA ScanRootsKeepsRoots ==
  ASSUME ScanRoots, BuffersOK, mem' = mem
  PROVE  BuffersOK' /\ \A k \in Kinds : OnTheirWay(k)' = OnTheirWay(k)
<1> DEFINE Of(p, k) == ThreadRoots(p)[k]
<1>0. \A p : ThreadRoots(p)' = ThreadRoots(p)
  BY ThreadRootsOfMemory
<1>1. ASSUME NEW ptls \in unscanned, scan_roots_in_mutator_thread(ptls)
      PROVE  BuffersOK' /\ \A k \in Kinds : OnTheirWay(k)' = OnTheirWay(k)
  <2>1. /\ unscanned' = unscanned \ {ptls}
        /\ \A k \in Kinds : roots'[k] = roots[k] \cup ThreadRoots(ptls)[k]
        /\ roots' = [k \in Kinds |-> roots'[k]]
        /\ left' = left /\ buffer' = buffer /\ capacity' = capacity
    BY <1>1 DEF scan_roots_in_mutator_thread, closureVars
  <2>2. ASSUME NEW k \in Kinds
        PROVE  OnTheirWay(k)' = OnTheirWay(k)
    BY <1>0, <2>1 DEF OnTheirWay
  <2>3. BuffersOK'
    BY <2>1 DEF BuffersOK
  <2> QED
    BY <2>2, <2>3
<1>2. ASSUME NEW k \in Kinds, NEW renew \in BOOLEAN, report(k, renew),
             UNCHANGED <<unscanned, left>>
      PROVE  BuffersOK' /\ \A c \in Kinds : OnTheirWay(c)' = OnTheirWay(c)
  <2>1. /\ \A c \in Kinds : roots'[c] = IF c = k THEN roots[k] \cup buffer[k] ELSE roots[c]
        /\ \A c \in Kinds : buffer'[c] = IF c = k THEN {} ELSE buffer[c]
        /\ roots' = [c \in Kinds |-> roots'[c]]
        /\ buffer' = [c \in Kinds |-> buffer'[c]]
        /\ capacity' \in [Kinds -> Nat]
        /\ \A c \in Kinds : c # k => capacity'[c] = capacity[c]
    BY <1>2, RootScanningAssumption DEF report, BuffersOK
  <2>2. ASSUME NEW c \in Kinds
        PROVE  OnTheirWay(c)' = OnTheirWay(c)
    BY <1>0, <1>2, <2>1 DEF OnTheirWay
  <2>3. IsFiniteSet({}) /\ Cardinality({}) = 0
    BY FS_EmptySet
  <2>4. ASSUME NEW c \in Kinds
        PROVE  (IsFiniteSet(buffer[c]) /\ Cardinality(buffer[c]) <= capacity[c])'
    <3>1. CASE c = k
      <4>1. buffer'[c] = {} /\ capacity'[c] \in Nat
        BY <2>1, <3>1
      <4> QED
        BY <2>3, <4>1
    <3>2. CASE c # k
      BY <2>1, <3>2 DEF BuffersOK
    <3> QED
      BY <3>1, <3>2
  <2>5. left' = [c \in Kinds |-> left'[c]]
    BY <1>2 DEF BuffersOK
  <2> QED
    BY <2>1, <2>2, <2>4, <2>5 DEF BuffersOK
<1>3. ASSUME NEW k \in Kinds, NEW r \in left[k], Push(k, r)
      PROVE  BuffersOK' /\ \A c \in Kinds : OnTheirWay(c)' = OnTheirWay(c)
  <2>1. /\ unscanned' = unscanned /\ capacity' = capacity /\ roots' = roots
        /\ \A c \in Kinds : left'[c] = IF c = k THEN left[k] \ {r} ELSE left[c]
        /\ \A c \in Kinds : buffer'[c] = IF c = k THEN buffer[k] \cup {r} ELSE buffer[c]
        /\ left' = [c \in Kinds |-> left'[c]]
        /\ buffer' = [c \in Kinds |-> buffer'[c]]
        /\ Cardinality(buffer[k]) < capacity[k]
    BY <1>3 DEF Push, BuffersOK
  <2>2. ASSUME NEW c \in Kinds
        PROVE  OnTheirWay(c)' = OnTheirWay(c)
    BY <1>0, <1>3, <2>1 DEF OnTheirWay
  <2>3. ASSUME NEW c \in Kinds
        PROVE  (IsFiniteSet(buffer[c]) /\ Cardinality(buffer[c]) <= capacity[c])'
    <3>1. IsFiniteSet(buffer[k]) /\ Cardinality(buffer[k]) \in Nat /\ capacity[k] \in Nat
      BY FS_CardinalityType DEF BuffersOK
    <3>2. /\ IsFiniteSet(buffer[k] \cup {r})
          /\ \/ Cardinality(buffer[k] \cup {r}) = Cardinality(buffer[k])
             \/ Cardinality(buffer[k] \cup {r}) = Cardinality(buffer[k]) + 1
      BY <3>1, FS_AddElement
    <3>3. CASE c = k
      <4>1. buffer'[c] = buffer[k] \cup {r} /\ capacity'[c] = capacity[k]
        BY <2>1, <3>3
      <4>2. Cardinality(buffer[k] \cup {r}) <= capacity[k]
        BY <2>1, <3>1, <3>2
      <4> QED
        BY <3>2, <4>1, <4>2
    <3>4. CASE c # k
      BY <2>1, <3>4 DEF BuffersOK
    <3> QED
      BY <3>3, <3>4
  <2> QED
    BY <2>1, <2>2, <2>3 DEF BuffersOK
<1> QED
  BY <1>1, <1>2, <1>3 DEF ScanRoots, Renew, Finish

\* When the scanning is over all roots have arrived.
LEMMA ScannedRootsAreReported ==
  ASSUME RootsInv, phase = "roots", RootsScanned
  PROVE  roots = Heap.roots
<1>1. ASSUME NEW k \in Kinds
      PROVE  roots[k] = Heap.roots[k]
  <2>1. left[k] = {} /\ capacity[k] = 0 /\ unscanned = {}
    BY DEF RootsScanned
  <2>2. Cardinality(buffer[k]) = 0 /\ IsFiniteSet(buffer[k])
    BY <2>1, FS_CardinalityType DEF RootsInv, BuffersOK
  <2>3. buffer[k] = {}
    BY <2>2, FS_EmptySet
  <2>4. OnTheirWay(k) = Heap.roots[k]
    BY DEF RootsInv
  <2> QED
    BY <2>1, <2>3, <2>4 DEF OnTheirWay
<1>2. roots = [k \in Kinds |-> roots[k]] /\ Heap.roots = [k \in Kinds |-> Heap.roots[k]]
  BY TracingAssumption DEF RootsInv, BuffersOK, Heap
<1> QED
  BY <1>1, <1>2

\* Every other step leaves the roots alone.
LEMMA RootsStayReported ==
  ASSUME RootsInv, UNCHANGED <<heap, rootVars>>,
         \/ phase \notin {"mutator", "roots"} /\ phase' \notin {"mutator", "roots"}
         \/ phase \in {"mutator", "roots"} /\ phase' \in {"mutator", "roots"} /\ mem' = mem
         \/ phase = "roots" /\ RootsScanned /\ phase' \notin {"mutator", "roots"}
  PROVE  RootsInv'
<1>1. /\ unscanned' = unscanned /\ left' = left /\ buffer' = buffer /\ capacity' = capacity
      /\ roots' = roots /\ heap' = heap
  BY DEF rootVars, closureVars
<1>2. (heap \in DOMAIN Heaps)' /\ BuffersOK'
  BY <1>1 DEF RootsInv, BuffersOK
<1>3. Heap' = Heap
  BY <1>1 DEF Heap
<1>4. CASE phase' \notin {"mutator", "roots"}
  <2>1. roots = Heap.roots
    BY <1>4, ScannedRootsAreReported DEF RootsInv, EveryRootIsReported
  <2> QED
    BY <1>1, <1>2, <1>3, <1>4, <2>1 DEF RootsInv, EveryRootIsReported
<1>5. CASE phase' \in {"mutator", "roots"}
  <2>1. mem' = mem /\ phase \in {"mutator", "roots"}
    BY <1>5
  <2>2. \A p : ThreadRoots(p)' = ThreadRoots(p)
    BY <2>1, ThreadRootsOfMemory
  <2>3. \A k \in Kinds : OnTheirWay(k)' = OnTheirWay(k)
    BY <1>1, <2>2 DEF OnTheirWay
  <2>4. \A k \in Kinds : OnTheirWay(k)' = Heap.roots[k]'
    BY <1>3, <2>1, <2>3 DEF RootsInv
  <2> QED
    BY <1>2, <1>3, <1>5, <2>4 DEF RootsInv, EveryRootIsReported
<1> QED
  BY <1>4, <1>5

\* What the steps do to the stage and the roots.  No object is looked at before
\* all roots are there.
NothingTraced == phase \in {"mutator", "roots"} => nodes = {} /\ slots = {}

LEMMA RootsKept ==
  ASSUME RootsInv, NothingTraced, [Next]_vars
  PROVE  RootsInv' /\ NothingTraced'
<1>1. CASE ScanRootsStep
  <2>1. /\ phase = "roots" /\ ScanRoots /\ mem' = mem /\ phase' = phase /\ heap' = heap
        /\ nodes' = nodes /\ slots' = slots
    BY <1>1 DEF ScanRootsStep, otherVars, traceVars
  <2>2. BuffersOK' /\ \A k \in Kinds : OnTheirWay(k)' = OnTheirWay(k)
    BY <2>1, ScanRootsKeepsRoots DEF RootsInv
  <2>3. Heap' = Heap
    BY <2>1 DEF Heap
  <2>4. \A k \in Kinds : OnTheirWay(k)' = Heap.roots[k]'
    BY <2>1, <2>2, <2>3 DEF RootsInv
  <2> QED
    BY <2>1, <2>2, <2>3, <2>4 DEF RootsInv, EveryRootIsReported, NothingTraced
<1>2. CASE \/ \E o \in Heap.pinnable : mmtk_pin_object(o) \/ mmtk_unpin_object(o)
           \/ StopMutators
           \/ UNCHANGED vars
  <2>1. /\ UNCHANGED <<heap, rootVars>> /\ mem' = mem /\ nodes' = nodes /\ slots' = slots
        /\ phase' = phase \/ (phase = "mutator" /\ phase' = "roots")
    BY <1>2 DEF mmtk_pin_object, mmtk_unpin_object, StopMutators, vars, otherVars, traceVars
  <2>2. RootsInv'
    BY <2>1, RootsStayReported
  <2> QED
    BY <2>1, <2>2 DEF NothingTraced
<1>3. CASE \/ \E n \in nodes : ScanObject(n)
           \/ \E slot \in slots : ProcessSlot(slot)
  <2>1. UNCHANGED <<heap, rootVars>> /\ phase' = phase
    BY <1>3 DEF ScanObject, ProcessSlot, otherVars
  <2>2. phase \notin {"mutator", "roots"}
    BY <1>3 DEF NothingTraced
  <2> QED
    BY <2>1, <2>2, RootsStayReported DEF NothingTraced
<1>4. CASE TraceTPinnedRoots
  <2>1. UNCHANGED <<heap, rootVars>> /\ phase = "roots" /\ phase' = "tpin" /\ RootsScanned
    BY <1>4 DEF TraceTPinnedRoots, otherVars
  <2> QED
    BY <2>1, RootsStayReported DEF NothingTraced
<1>5. CASE \/ TracePinningRoots \/ ProcessWeakRefs \/ ScanFinalizersSingleThreaded
           \/ SweepVMSpecific \/ Finished \/ \E r \in weak : ProcessWeakRef(r)
  <2>1. /\ UNCHANGED <<heap, rootVars>>
        /\ phase \notin {"mutator", "roots"} /\ phase' \notin {"mutator", "roots"}
    BY <1>5 DEF TracePinningRoots, ProcessWeakRefs, ScanFinalizersSingleThreaded,
       SweepVMSpecific, Finished, ProcessWeakRef, otherVars, vars
  <2> QED
    BY <2>1, RootsStayReported DEF NothingTraced
<1> QED
  BY <1>1, <1>2, <1>3, <1>4, <1>5 DEF Next

\* scan_roots_in_mutator_thread and the buffers of RootsWorkClosure lose no
\* root and add none, whatever the size of the buffers and the order of threads.
THEOREM RootsAreReported == Spec /\ RootsAreDescribed => []EveryRootIsReported
<1>1. Init /\ RootsAreDescribed => RootsInv /\ NothingTraced
  BY InitRoots DEF Init, NothingTraced
<1>2. RootsInv /\ NothingTraced /\ [Next]_vars => RootsInv' /\ NothingTraced'
  BY RootsKept
<1>3. RootsInv => EveryRootIsReported
  BY DEF RootsInv
<1> QED
  BY <1>1, <1>2, <1>3, PTL DEF Spec

-----------------------------------------------------------------------------
(* Objects whose address is in use stay.                                   *)

\* trace_object marks its object, which moves at most once, when it is marked.
LEMMA TraceObject ==
  ASSUME NEW o, NEW slot, trace_object(o, slot)
  PROVE  /\ marked' = marked \cup {o}
         /\ \/ moved' = moved /\ nodes' \subseteq nodes \cup {Place(o)}
            \/ /\ moved' = moved \cup {o} /\ nodes' \subseteq nodes \cup {o + Delta}
               /\ o \in moving \ (marked \cup pinned)
               /\ phase # "tpin"
         /\ DOMAIN mem' = DOMAIN mem
<1>1. DOMAIN copy(o, o + Delta) = DOMAIN mem
  BY DEF copy, UpdateInlinedArray
<1>2. DOMAIN mem' = DOMAIN mem
  BY <1>1 DEF trace_object
<1> QED
  BY <1>2 DEF trace_object

\* The pin bits are those of MMTk's objects.
PinsOK == pinned = {o \in held : mmtk_object_is_managed_by_mmtk(o)}

NotStarted == phase \in {"mutator", "roots"}

\* The roots of the kinds that stay are marked before anything may move, and
\* what is marked does not move any more.
StayOK ==
  /\ NotStarted => marked = {} /\ moved = {}
  /\ ~NotStarted => moving \in Heap.moving /\ roots["tpinned"] \subseteq marked
  /\ phase = "tpin" => moved = {}
  /\ ~NotStarted /\ phase # "tpin" => roots["nodes"] \subseteq marked
  /\ moved \subseteq marked \cap moving
  /\ moved \cap (pinned \cup roots["tpinned"] \cup roots["nodes"]) = {}

\* Nodes are where their objects are now, and no word comes or goes.
PlacesOK ==
  /\ nodes \subseteq {Place(o) : o \in marked}
  /\ DOMAIN mem = DOMAIN Heap.mem

IInv == RootsInv /\ NothingTraced /\ PinsOK /\ StayOK /\ PlacesOK

LEMMA InitIInv ==
  ASSUME Init, RootsAreDescribed
  PROVE  IInv
<1>1. RootsInv
  BY InitRoots
<1> QED
  BY <1>1 DEF Init, IInv, NothingTraced, PinsOK, StayOK, NotStarted, PlacesOK

\* Only before the collection are pin bits set and cleared.
LEMMA PinningKeepsIInv ==
  ASSUME IInv, NEW o, mmtk_pin_object(o) \/ mmtk_unpin_object(o), RootsInv', NothingTraced'
  PROVE  IInv'
<1>1. /\ UNCHANGED <<mem, roots, heap, phase, moving, marked, moved, nodes>>
      /\ phase = "mutator"
  BY DEF mmtk_pin_object, mmtk_unpin_object, rootVars, traceVars
<1>2. PinsOK'
  BY DEF IInv, PinsOK, mmtk_pin_object, mmtk_unpin_object
<1>3. StayOK'
  BY <1>1 DEF IInv, StayOK, NotStarted
<1>4. PlacesOK'
  BY <1>1 DEF IInv, PlacesOK, Place, Heap
<1> QED
  BY <1>2, <1>3, <1>4 DEF IInv

\* Steps that trace nothing.
LEMMA StandingStillKeepsIInv ==
  ASSUME IInv, UNCHANGED <<heap, moving, marked, moved, pinned, held>>,
         nodes' \subseteq nodes, DOMAIN mem' = DOMAIN mem,
         \/ phase' = phase /\ (roots' = roots \/ phase = "roots")
         \/ phase = "mutator" /\ phase' = "roots" /\ roots' = roots
         \/ ~NotStarted /\ phase # "tpin" /\ ~NotStarted' /\ phase' # "tpin" /\ roots' = roots,
         RootsInv', NothingTraced'
  PROVE  IInv'
<1>1. PinsOK'
  BY DEF IInv, PinsOK
<1>2. StayOK'
  BY DEF IInv, StayOK, NotStarted, Heap
<1>3. PlacesOK'
  BY DEF IInv, PlacesOK, Place, Heap
<1> QED
  BY <1>1, <1>2, <1>3 DEF IInv

LEMMA TracingRootsKeepsIInv ==
  ASSUME IInv, TraceTPinnedRoots \/ TracePinningRoots, RootsInv', NothingTraced'
  PROVE  IInv'
<1>1. /\ UNCHANGED <<mem, roots, heap, pinned, held, moved>>
      /\ \/ /\ phase = "roots" /\ phase' = "tpin" /\ moving' \in Heap.moving
            /\ TraceInPlace(roots["tpinned"])
         \/ /\ phase = "tpin" /\ phase' = "closure" /\ moving' = moving
            /\ TraceInPlace(roots["nodes"])
  BY DEF TraceTPinnedRoots, TracePinningRoots, rootVars, otherVars, TraceInPlace
<1>2. PinsOK'
  BY <1>1 DEF IInv, PinsOK
<1>3. StayOK'
  BY <1>1 DEF IInv, StayOK, NotStarted, Heap, TraceInPlace
<1>4. PlacesOK'
  <2>1. moved = {}
    BY <1>1 DEF IInv, StayOK, NotStarted
  <2>2. \E os : marked' = marked \cup os /\ nodes' = nodes \cup (os \ marked)
    BY <1>1 DEF TraceInPlace
  <2>3. \A o : Place(o) = o /\ Place(o)' = o
    BY <1>1, <2>1 DEF Place
  <2>4. (nodes \subseteq {Place(o) : o \in marked})'
    BY <2>2, <2>3 DEF IInv, PlacesOK
  <2> QED
    BY <1>1, <2>4 DEF IInv, PlacesOK, Heap
<1> QED
  BY <1>2, <1>3, <1>4 DEF IInv

LEMMA ProcessSlotKeepsIInv ==
  ASSUME IInv, NEW slot \in slots, ProcessSlot(slot), RootsInv', NothingTraced'
  PROVE  IInv'
<1>1. PICK o : trace_object(o, slot) /\ UNCHANGED <<roots, heap, phase, moving, pinned, held>>
  BY DEF ProcessSlot, rootVars, otherVars
<1>2. ~NotStarted
  BY DEF IInv, NothingTraced, NotStarted
<1>3. /\ marked' = marked \cup {o}
      /\ \/ moved' = moved /\ nodes' \subseteq nodes \cup {Place(o)}
         \/ /\ moved' = moved \cup {o} /\ nodes' \subseteq nodes \cup {o + Delta}
            /\ o \in moving \ (marked \cup pinned)
            /\ phase # "tpin"
      /\ DOMAIN mem' = DOMAIN mem
  BY <1>1, TraceObject
<1>4. PinsOK'
  BY <1>1 DEF IInv, PinsOK
<1>5. StayOK'
  BY <1>1, <1>2, <1>3 DEF IInv, StayOK, NotStarted, Heap
<1>6. PlacesOK'
  <2>1. \A x \in marked : Place(x)' = Place(x)
    BY <1>3 DEF Place
  <2>2. nodes' \subseteq nodes \cup {Place(o)'}
    BY <1>3 DEF Place
  <2>3. (nodes \subseteq {Place(x) : x \in marked})'
    BY <1>3, <2>1, <2>2 DEF IInv, PlacesOK
  <2> QED
    BY <1>1, <1>3, <2>3 DEF IInv, PlacesOK, Heap
<1> QED
  BY <1>4, <1>5, <1>6 DEF IInv

LEMMA NextKeepsIInv ==
  ASSUME IInv, [Next]_vars
  PROVE  IInv'
<1>1. RootsInv' /\ NothingTraced'
  BY RootsKept DEF IInv
<1>2. ASSUME NEW o, mmtk_pin_object(o) \/ mmtk_unpin_object(o)
      PROVE  IInv'
  BY <1>1, <1>2, PinningKeepsIInv
<1>3. CASE StopMutators \/ ScanRootsStep \/ Finished \/ UNCHANGED vars
  <2>1. /\ UNCHANGED <<mem, heap, moving, marked, moved, pinned, held, nodes>>
        /\ \/ phase' = phase /\ (roots' = roots \/ phase = "roots")
           \/ phase = "mutator" /\ phase' = "roots" /\ roots' = roots
    BY <1>3 DEF StopMutators, ScanRootsStep, Finished, vars, rootVars, traceVars, otherVars
  <2> QED
    BY <1>1, <2>1, StandingStillKeepsIInv
<1>4. CASE TraceTPinnedRoots \/ TracePinningRoots
  BY <1>1, <1>4, TracingRootsKeepsIInv
<1>5. ASSUME NEW n \in nodes, ScanObject(n)
      PROVE  IInv'
  <2>1. /\ UNCHANGED <<mem, phase, roots, heap, moving, marked, moved, pinned, held>>
        /\ nodes' \subseteq nodes
    BY <1>5 DEF ScanObject, rootVars, otherVars
  <2> QED
    BY <1>1, <2>1, StandingStillKeepsIInv
<1>6. ASSUME NEW slot \in slots, ProcessSlot(slot)
      PROVE  IInv'
  BY <1>1, <1>6, ProcessSlotKeepsIInv
<1>7. CASE \/ ProcessWeakRefs \/ ScanFinalizersSingleThreaded \/ SweepVMSpecific
           \/ \E r \in weak : ProcessWeakRef(r)
  <2>1. /\ UNCHANGED <<roots, heap, moving, marked, moved, pinned, held, nodes>>
        /\ phase \in {"closure", "weak", "vmref"} /\ phase' \in {"weak", "vmref", "done"}
    BY <1>7 DEF ProcessWeakRefs, ScanFinalizersSingleThreaded, SweepVMSpecific,
       ProcessWeakRef, rootVars, traceVars, otherVars
  <2>2. DOMAIN mem' = DOMAIN mem
    <3>1. CASE SweepVMSpecific
      BY <3>1 DEF SweepVMSpecific
    <3>2. CASE ProcessWeakRefs \/ ScanFinalizersSingleThreaded
      BY <3>2 DEF ProcessWeakRefs, ScanFinalizersSingleThreaded
    <3>3. ASSUME NEW r \in weak, ProcessWeakRef(r)
          PROVE  DOMAIN mem' = DOMAIN mem
      <4>1. mem' = mem \/ \E value : SetReferent(Place(r), value)
        BY <3>3 DEF ProcessWeakRef
      <4> QED
        BY <4>1 DEF SetReferent
    <3> QED
      BY <1>7, <3>1, <3>2, <3>3
  <2> QED
    BY <1>1, <2>1, <2>2, StandingStillKeepsIInv DEF NotStarted
<1> QED
  BY <1>2, <1>3, <1>4, <1>5, <1>6, <1>7 DEF Next

THEOREM Invariance == Spec /\ RootsAreDescribed => []IInv
<1>1. Init /\ RootsAreDescribed => IInv
  BY InitIInv
<1>2. IInv /\ [Next]_vars => IInv'
  BY NextKeepsIInv
<1> QED
  BY <1>1, <1>2, PTL DEF Spec

\* No object moves whose address is kept where it cannot be updated: objects
\* pinned by mmtk_pin_object, in frames of stacks, of running threads.
THEOREM InUseStays == Spec /\ RootsAreDescribed => []AddressesInUseStay
<1>1. IInv => AddressesInUseStay
  <2> SUFFICES ASSUME IInv
               PROVE  AddressesInUseStay
    OBVIOUS
  <2>1. CASE NotStarted
    BY <2>1 DEF IInv, StayOK, AddressesInUseStay
  <2>2. CASE ~NotStarted
    <3>1. \A o \in moved : mmtk_object_is_managed_by_mmtk(o)
      BY <2>2, TracingAssumption
         DEF IInv, StayOK, RootsInv, Heap, mmtk_object_is_managed_by_mmtk
    <3>2. moved \cap held = {}
      BY <3>1 DEF IInv, StayOK, PinsOK
    <3>3. Heap.inUse \subseteq roots["tpinned"] \cup roots["nodes"]
      BY <2>2, TracingAssumption DEF IInv, RootsInv, EveryRootIsReported, NotStarted, Heap
    <3> QED
      BY <3>2, <3>3 DEF IInv, StayOK, AddressesInUseStay
  <2> QED
    BY <2>1, <2>2
<1> QED
  BY <1>1, Invariance, PTL

\* A step leaves the heap, which is the outline of what is in memory, as it is.
LEMMA NextKeepsHeap ==
  ASSUME [Next]_vars
  PROVE  heap' = heap
BY DEF Next, mmtk_pin_object, mmtk_unpin_object, StopMutators, ScanRootsStep,
   TraceTPinnedRoots, TracePinningRoots, ScanObject, ProcessSlot, ProcessWeakRefs,
   ProcessWeakRef, ScanFinalizersSingleThreaded, SweepVMSpecific, Finished, vars, otherVars

\* All that is marked is an object, as long as the slots hold objects.
LEMMA NextKeepsMarked ==
  ASSUME IInv, [Next]_vars, SlotsHoldObjects, marked \subseteq Objects
  PROVE  (marked \subseteq Objects)'
<1>1. Objects' = Objects
  BY NextKeepsHeap DEF Objects, Heap
<1>2. CASE TraceTPinnedRoots \/ TracePinningRoots
  BY <1>1, <1>2 DEF TraceTPinnedRoots, TracePinningRoots, TraceInPlace, SlotsHoldObjects
<1>3. ASSUME NEW slot \in slots, ProcessSlot(slot)
      PROVE  (marked \subseteq Objects)'
  <2>1. marked' = marked \cup {ObjectAt(LoadSlot(slot))}
    BY <1>3, TraceObject DEF ProcessSlot
  <2>2. moved \subseteq Objects
    BY DEF IInv, StayOK
  <2>3. Objects \subseteq Nat /\ Delta \in Nat
    BY TracingAssumption DEF IInv, RootsInv, Heap, Objects
  <2>4. CASE LoadSlot(slot) \in Objects
    BY <1>1, <2>1, <2>4 DEF ObjectAt
  <2>5. ASSUME NEW o \in moved, LoadSlot(slot) = o + Delta
        PROVE  (marked \subseteq Objects)'
    <3>1. LoadSlot(slot) - Delta = o
      BY <2>2, <2>3, <2>5
    <3>2. ObjectAt(LoadSlot(slot)) \in Objects
      BY <2>2, <3>1 DEF ObjectAt
    <3> QED
      BY <1>1, <2>1, <3>2
  <2> QED
    BY <2>4, <2>5 DEF SlotsHoldObjects
<1>4. CASE marked' = marked
  BY <1>1, <1>4
<1> QED
  BY <1>2, <1>3, <1>4
     DEF Next, mmtk_pin_object, mmtk_unpin_object, StopMutators, ScanRootsStep, ScanObject,
         ProcessWeakRefs, ProcessWeakRef, ScanFinalizersSingleThreaded, SweepVMSpecific,
         Finished, vars, otherVars, traceVars

\* The marks, the moves, the nodes and the memory are what they are taken to
\* be, if scan_julia_object gives no slot that does not hold an object.
THEOREM TypeCorrect == Spec /\ RootsAreDescribed /\ []SlotsHoldObjects => []TypeOK
<1>1. Init => marked \subseteq Objects
  BY DEF Init
<1>2. IInv /\ SlotsHoldObjects /\ marked \subseteq Objects /\ [Next]_vars
        => (marked \subseteq Objects)'
  BY NextKeepsMarked
<1>3. IInv /\ marked \subseteq Objects => TypeOK
  BY DEF IInv, StayOK, PinsOK, PlacesOK, TypeOK
<1> QED
  BY <1>1, <1>2, <1>3, Invariance, PTL DEF Spec

-----------------------------------------------------------------------------
(* What Reach computes.                                                    *)

LEMMA LeastNumber ==
  ASSUME NEW T \in SUBSET Nat, T # {}
  PROVE  \E n \in T : \A m \in T : n <= m
<1>1. PICK n \in T : \A m \in T : ~(<<m, n>> \in OpToRel(<, Nat))
  BY WFMin, NatLessThanWellFounded
<1>2. \A m \in T : ~(m < n)
  BY <1>1 DEF OpToRel
<1> QED
  BY <1>2

\* Functions that are defined by recursion over numbers, and their beginnings.
Iterated(f, next, first) ==
  f = [n \in Nat |-> IF n = 0 THEN first ELSE next[f[n - 1]]]
Approximates(g, m, next, first) ==
  g = [n \in 0..m |-> IF n = 0 THEN first ELSE next[g[n - 1]]]

LEMMA ApproximationsAgree ==
  ASSUME NEW next, NEW first, NEW m \in Nat, NEW n \in Nat, NEW g, NEW h,
         Approximates(g, m, next, first), Approximates(h, n, next, first),
         NEW k \in Nat, k <= m, k <= n
  PROVE  g[k] = h[k]
<1> DEFINE Bad == {i \in 0..k : g[i] # h[i]}
<1>1. SUFFICES ASSUME Bad # {}
               PROVE  FALSE
  OBVIOUS
<1>2. PICK i \in Bad : \A j \in Bad : i <= j
  <2>1. Bad \in SUBSET Nat
    OBVIOUS
  <2> HIDE DEF Bad
  <2> QED
    BY <1>1, <2>1, LeastNumber
<1>3. i \in 0..m /\ i \in 0..n /\ i \in Nat
  OBVIOUS
<1>4. g[i] = IF i = 0 THEN first ELSE next[g[i - 1]]
  BY <1>3 DEF Approximates
<1>5. h[i] = IF i = 0 THEN first ELSE next[h[i - 1]]
  BY <1>3 DEF Approximates
<1>6. i # 0
  BY <1>4, <1>5
<1>7. g[i - 1] = h[i - 1]
  BY <1>2, <1>3, <1>6
<1> QED
  BY <1>4, <1>5, <1>6, <1>7

LEMMA ApproximationsExist ==
  ASSUME NEW next, NEW first, NEW m \in Nat
  PROVE  \E g : Approximates(g, m, next, first)
<1> DEFINE Bad == {k \in Nat : ~\E g : Approximates(g, k, next, first)}
<1>1. SUFFICES ASSUME Bad # {}
               PROVE  FALSE
  OBVIOUS
<1>2. PICK k \in Bad : \A j \in Bad : k <= j
  <2>1. Bad \in SUBSET Nat
    OBVIOUS
  <2> HIDE DEF Bad
  <2> QED
    BY <1>1, <2>1, LeastNumber
<1>3. CASE k = 0
  <2>1. Approximates([n \in 0..0 |-> first], 0, next, first)
    BY DEF Approximates
  <2> QED
    BY <1>3, <2>1
<1>4. CASE k # 0
  <2>1. k - 1 \in Nat /\ k - 1 \notin Bad
    BY <1>2, <1>4
  <2>2. PICK g : Approximates(g, k - 1, next, first)
    BY <2>1
  <2> DEFINE h == [n \in 0..k |-> IF n = k THEN next[g[k - 1]] ELSE g[n]]
  <2>3. ASSUME NEW n \in 0..k
        PROVE  h[n] = IF n = 0 THEN first ELSE next[h[n - 1]]
    <3>1. CASE n = k
      <4>1. h[n] = next[g[k - 1]] /\ h[n - 1] = g[k - 1]
        BY <1>4, <3>1
      <4> QED
        BY <1>4, <3>1, <4>1
    <3>2. CASE n # k
      <4>1. n \in 0..(k - 1) /\ h[n] = g[n]
        BY <3>2
      <4>2. g[n] = IF n = 0 THEN first ELSE next[g[n - 1]]
        BY <2>2, <4>1 DEF Approximates
      <4>3. n # 0 => h[n - 1] = g[n - 1]
        BY <4>1
      <4> QED
        BY <4>1, <4>2, <4>3
    <3> QED
      BY <3>1, <3>2
  <2>4. h = [n \in 0..k |-> h[n]]
    OBVIOUS
  <2> HIDE DEF h
  <2>5. Approximates(h, k, next, first)
    BY <2>3, <2>4 DEF Approximates
  <2> QED
    BY <2>5
<1> QED
  BY <1>3, <1>4

LEMMA IterationExists ==
  ASSUME NEW next, NEW first
  PROVE  \E f : Iterated(f, next, first)
<1> DEFINE approx(n) == CHOOSE g : Approximates(g, n, next, first)
           f == [n \in Nat |-> approx(n)[n]]
<1>1. \A n \in Nat : Approximates(approx(n), n, next, first)
  BY ApproximationsExist
<1> HIDE DEF approx
<1>2. ASSUME NEW n \in Nat
      PROVE  f[n] = IF n = 0 THEN first ELSE next[f[n - 1]]
  <2>1. f[n] = IF n = 0 THEN first ELSE next[approx(n)[n - 1]]
    <3>1. approx(n) = [i \in 0..n |-> IF i = 0 THEN first ELSE next[approx(n)[i - 1]]]
      BY <1>1 DEF Approximates
    <3>2. n \in 0..n
      OBVIOUS
    <3> QED
      BY <3>1, <3>2
  <2>2. n # 0 => approx(n)[n - 1] = f[n - 1]
    BY <1>1, ApproximationsAgree
  <2> QED
    BY <2>1, <2>2
<1>3. f = [n \in Nat |-> f[n]]
  OBVIOUS
<1> HIDE DEF f
<1>4. Iterated(f, next, first)
  BY <1>2, <1>3 DEF Iterated
<1> QED
  BY <1>4

LEMMA IterationSteps ==
  ASSUME NEW f, NEW next, NEW first, Iterated(f, next, first)
  PROVE  f[0] = first /\ \A n \in Nat : f[n + 1] = next[f[n]]
<1>1. f[0] = first
  BY DEF Iterated
<1>2. ASSUME NEW n \in Nat
      PROVE  f[n + 1] = next[f[n]]
  <2>1. n + 1 \in Nat /\ n + 1 # 0 /\ (n + 1) - 1 = n
    OBVIOUS
  <2>2. \A k \in Nat : f[k] = IF k = 0 THEN first ELSE next[f[k - 1]]
    BY DEF Iterated
  <2> QED
    BY <2>1, <2>2
<1> QED
  BY <1>1, <1>2

\* Objects, and those that edges lead to from them.
Successors(set) == set \cup {e.to : e \in {e \in Heap.edges : e.from \in set}}

Iterates(f, from) ==
  f = [n \in Nat |-> IF n = 0 THEN from ELSE Successors(f[n - 1])]

LEMMA IteratesExists ==
  ASSUME NEW from
  PROVE  \E f : Iterates(f, from)
<1> DEFINE all == from \cup {e.to : e \in Heap.edges}
           next == [set \in SUBSET all |-> Successors(set)]
<1>1. /\ from \in SUBSET all
      /\ \A set \in SUBSET all : next[set] = Successors(set) /\ next[set] \in SUBSET all
  BY DEF Successors
<1> HIDE DEF all, next
<1>2. PICK f : Iterated(f, next, from)
  BY IterationExists
<1>3. /\ f = [n \in Nat |-> IF n = 0 THEN from ELSE next[f[n - 1]]]
      /\ f[0] = from /\ \A n \in Nat : f[n + 1] = next[f[n]]
  BY <1>2, IterationSteps DEF Iterated
<1> DEFINE Bad == {n \in Nat : f[n] \notin SUBSET all}
<1>4. Bad = {}
  <2>1. SUFFICES ASSUME Bad # {}
                 PROVE  FALSE
    OBVIOUS
  <2>2. PICK k \in Bad : \A j \in Bad : k <= j
    <3>1. Bad \in SUBSET Nat
      OBVIOUS
    <3> HIDE DEF Bad
    <3> QED
      BY <2>1, <3>1, LeastNumber
  <2>3. k # 0
    BY <1>1, <1>3
  <2>4. k - 1 \in Nat /\ (k - 1) + 1 = k /\ f[k - 1] \in SUBSET all
    BY <2>2, <2>3
  <2>5. f[k] = next[f[k - 1]]
    BY <1>3, <2>4
  <2> QED
    BY <1>1, <2>4, <2>5
<1>5. \A n \in Nat : n # 0 => next[f[n - 1]] = Successors(f[n - 1])
  BY <1>1, <1>4
<1>6. f = [n \in Nat |-> IF n = 0 THEN from ELSE Successors(f[n - 1])]
  BY <1>3, <1>5
<1> QED
  BY <1>6 DEF Iterates

LEMMA ReachIterates ==
  ASSUME NEW from
  PROVE  \E f : Iterates(f, from) /\ Reach(from) = f[Cardinality(Objects)]
<1> DEFINE step == CHOOSE f : Iterates(f, from)
<1>1. Iterates(step, from)
  BY IteratesExists
<1>2. Reach(from) = step[Cardinality(Objects)]
  BY DEF Reach, Iterates, Successors
<1> QED
  BY <1>1, <1>2

\* A set that edges do not lead out of.
Closed(set) == \A e \in Heap.edges : e.from \in set => e.to \in set

LEMMA IteratesSteps ==
  ASSUME NEW f, NEW from, Iterates(f, from)
  PROVE  f[0] = from /\ \A n \in Nat : f[n + 1] = Successors(f[n])
<1>1. f[0] = from
  BY DEF Iterates
<1>2. ASSUME NEW n \in Nat
      PROVE  f[n + 1] = Successors(f[n])
  <2>1. n + 1 \in Nat /\ n + 1 # 0 /\ (n + 1) - 1 = n
    OBVIOUS
  <2>2. \A k \in Nat : f[k] = IF k = 0 THEN from ELSE Successors(f[k - 1])
    BY DEF Iterates
  <2> QED
    BY <2>1, <2>2
<1> QED
  BY <1>1, <1>2

LEMMA IteratesStayIn ==
  ASSUME NEW f, NEW from, Iterates(f, from), NEW set, from \subseteq set, Closed(set)
  PROVE  \A n \in Nat : f[n] \subseteq set
<1> DEFINE Bad == {n \in Nat : ~(f[n] \subseteq set)}
<1>1. SUFFICES ASSUME Bad # {}
               PROVE  FALSE
  OBVIOUS
<1>2. PICK k \in Bad : \A j \in Bad : k <= j
  <2>1. Bad \in SUBSET Nat
    OBVIOUS
  <2> HIDE DEF Bad
  <2> QED
    BY <1>1, <2>1, LeastNumber
<1>3. k # 0
  BY IteratesSteps
<1>4. k - 1 \in Nat /\ k - 1 \notin Bad /\ (k - 1) + 1 = k
  BY <1>2, <1>3
<1>5. f[k] = Successors(f[k - 1])
  BY <1>4, IteratesSteps
<1>6. Successors(f[k - 1]) \subseteq set
  BY <1>4 DEF Successors, Closed
<1> QED
  BY <1>5, <1>6

LEMMA IteratesGrow ==
  ASSUME NEW f, NEW from, Iterates(f, from)
  PROVE  \A n \in Nat : from \subseteq f[n]
<1> DEFINE Bad == {n \in Nat : ~(from \subseteq f[n])}
<1>1. SUFFICES ASSUME Bad # {}
               PROVE  FALSE
  OBVIOUS
<1>2. PICK k \in Bad : \A j \in Bad : k <= j
  <2>1. Bad \in SUBSET Nat
    OBVIOUS
  <2> HIDE DEF Bad
  <2> QED
    BY <1>1, <2>1, LeastNumber
<1>3. k # 0
  BY IteratesSteps
<1>4. k - 1 \in Nat /\ k - 1 \notin Bad /\ (k - 1) + 1 = k
  BY <1>2, <1>3
<1>5. f[k] = Successors(f[k - 1])
  BY <1>4, IteratesSteps
<1> QED
  BY <1>4, <1>5 DEF Successors

\* Once nothing is added, nothing will be.
LEMMA IteratesRest ==
  ASSUME NEW f, NEW from, Iterates(f, from), NEW k \in Nat, f[k + 1] = f[k]
  PROVE  \A n \in Nat : n >= k => f[n] = f[k]
<1> DEFINE Bad == {n \in Nat : n >= k /\ f[n] # f[k]}
<1>1. SUFFICES ASSUME Bad # {}
               PROVE  FALSE
  OBVIOUS
<1>2. PICK n \in Bad : \A j \in Bad : n <= j
  <2>1. Bad \in SUBSET Nat
    OBVIOUS
  <2> HIDE DEF Bad
  <2> QED
    BY <1>1, <2>1, LeastNumber
<1>3. n - 1 \in Nat /\ n - 1 >= k /\ n - 1 \notin Bad /\ (n - 1) + 1 = n
  BY <1>2
<1>4. f[n - 1] = f[k]
  BY <1>3
<1>5. f[n] = Successors(f[n - 1]) /\ f[k + 1] = Successors(f[k])
  BY <1>3, IteratesSteps
<1> QED
  BY <1>4, <1>5

\* Until then each iterate has one element more at least.
LEMMA IteratesCount ==
  ASSUME NEW f, NEW from, Iterates(f, from), NEW set, IsFiniteSet(set),
         \A n \in Nat : f[n] \subseteq set,
         NEW m \in Nat, \A k \in Nat : k < m => f[k + 1] # f[k]
  PROVE  Cardinality(f[m]) >= m
<1>0. \A n \in Nat : IsFiniteSet(f[n]) /\ Cardinality(f[n]) \in Nat
  BY FS_Subset, FS_CardinalityType
<1> DEFINE Bad == {n \in 0..m : ~(Cardinality(f[n]) >= n)}
<1>1. SUFFICES ASSUME Bad # {}
               PROVE  FALSE
  BY DEF Bad
<1>2. PICK k \in Bad : \A j \in Bad : k <= j
  <2>1. Bad \in SUBSET Nat
    OBVIOUS
  <2> HIDE DEF Bad
  <2> QED
    BY <1>1, <2>1, LeastNumber
<1>3. k # 0
  BY <1>0
<1>4. k - 1 \in 0..m /\ k - 1 \in Nat /\ k - 1 \notin Bad /\ (k - 1) + 1 = k /\ k - 1 < m
  BY <1>2, <1>3
<1>5. f[k] = Successors(f[k - 1]) /\ f[k] # f[k - 1]
  BY <1>4, IteratesSteps
<1>6. PICK x \in f[k] : x \notin f[k - 1]
  BY <1>5 DEF Successors
<1>7. Cardinality(f[k - 1] \cup {x}) = Cardinality(f[k - 1]) + 1
  BY <1>0, <1>4, <1>6, FS_AddElement
<1>8. Cardinality(f[k - 1] \cup {x}) <= Cardinality(f[k])
  <2>1. f[k - 1] \cup {x} \subseteq f[k]
    BY <1>5, <1>6 DEF Successors
  <2> QED
    BY <1>0, <1>4, <2>1, FS_Subset
<1>9. Cardinality(f[k - 1]) >= k - 1
  BY <1>4
<1> QED
  BY <1>0, <1>4, <1>7, <1>8, <1>9

\* So Reach(from) is the least closed set with from.
LEMMA ReachIsLeast ==
  ASSUME IsFiniteSet(Objects), \A e \in Heap.edges : e.to \in Objects,
         NEW from \in SUBSET Objects
  PROVE  /\ from \subseteq Reach(from) /\ Reach(from) \subseteq Objects
         /\ Closed(Reach(from))
         /\ \A set : from \subseteq set /\ Closed(set) => Reach(from) \subseteq set
<1> DEFINE N == Cardinality(Objects)
<1>1. PICK f : Iterates(f, from) /\ Reach(from) = f[N]
  BY ReachIterates
<1>2. N \in Nat
  BY FS_CardinalityType
<1>3. Closed(Objects)
  BY DEF Closed
<1>4. \A n \in Nat : f[n] \subseteq Objects
  BY <1>1, <1>3, IteratesStayIn
<1>5. PICK k \in Nat : k <= N /\ f[k + 1] = f[k]
  <2>1. SUFFICES ASSUME \A k \in Nat : k < N + 1 => f[k + 1] # f[k]
                 PROVE  FALSE
    BY <1>2
  <2>2. N + 1 \in Nat
    BY <1>2
  <2> HIDE DEF N
  <2>3. Cardinality(f[N + 1]) >= N + 1
    BY <1>1, <1>4, <2>1, <2>2, IteratesCount
  <2>4. Cardinality(f[N + 1]) <= N /\ Cardinality(f[N + 1]) \in Nat
    BY <1>4, <2>2, FS_Subset, FS_CardinalityType DEF N
  <2> QED
    BY <1>2, <2>3, <2>4
<1>6. f[N] = f[k]
  BY <1>1, <1>2, <1>5, IteratesRest
<1>7. Closed(f[k])
  <2>1. f[k + 1] = Successors(f[k])
    BY <1>1, IteratesSteps
  <2> QED
    BY <1>5, <2>1 DEF Successors, Closed
<1>8. from \subseteq f[k]
  BY <1>1, IteratesGrow
<1> HIDE DEF N
<1> QED
  BY <1>1, <1>2, <1>4, <1>6, <1>7, <1>8, IteratesStayIn

-----------------------------------------------------------------------------
(* Words of the heap, wherever they are now.                               *)

\* The words of the heap that are not in the place of a copy to come.
Original == {a \in DOMAIN Heap.mem : \A o \in Objects : ~InObject(o, a - Delta)}

At(a) == IF \E o \in moved : InObject(o, a) THEN a + Delta ELSE a
Content(a) == mem[At(a)]

\* What the assumptions say of objects and words.
LEMMA Layouts ==
  ASSUME heap \in DOMAIN Heaps
  PROVE  /\ Delta \in Nat \ {0} /\ JULIA_HEADER_SIZE = 8 /\ Objects \subseteq Nat \ {0}
         /\ DOMAIN Heap.mem \subseteq Nat /\ Heap.mem \in [DOMAIN Heap.mem -> Int]
         /\ \A o \in Objects :
              /\ Heap.size[o] \in Nat /\ Heap.size[o] > 8
              /\ o - 8 \in DOMAIN Heap.mem /\ o \in DOMAIN Heap.mem
              /\ InObject(o, o - 8) /\ InObject(o, o)
              /\ o + Delta \notin Objects /\ ~is_object_in_los(o + Delta)
<1>1. /\ Delta \in Nat \ {0} /\ JULIA_HEADER_SIZE = 8 /\ Objects \subseteq Nat \ {0}
  BY TracingAssumption DEF Objects, Heap, BYTES_IN_ADDRESS
<1>2. ObjectsAreApart(Heap)
  BY HeapsAssumption DEF Heap
<1>3. DOMAIN Heap.mem \subseteq Nat /\ Heap.mem \in [DOMAIN Heap.mem -> Int]
  BY <1>2 DEF ObjectsAreApart
<1>4. ASSUME NEW o \in Objects
      PROVE  /\ Heap.size[o] \in Nat /\ Heap.size[o] > 8
             /\ o - 8 \in DOMAIN Heap.mem /\ o \in DOMAIN Heap.mem
             /\ o + Delta \notin Objects /\ ~is_object_in_los(o + Delta)
  BY <1>1, <1>2 DEF ObjectsAreApart, Objects
<1>5. ASSUME NEW o \in Objects
      PROVE  InObject(o, o - 8) /\ InObject(o, o)
  BY <1>1, <1>4 DEF InObject, Inside
<1> QED
  BY <1>1, <1>3, <1>4, <1>5

LEMMA WordsOfObjects ==
  ASSUME heap \in DOMAIN Heaps, NEW o \in Objects, NEW a \in DOMAIN Heap.mem, InObject(o, a)
  PROVE  /\ a \in Original /\ a + Delta \in DOMAIN Heap.mem
         /\ \A p \in Objects : InObject(p, a) => p = o
         /\ \A p \in Objects : ~InObject(p, a + Delta)
<1>1. ObjectsAreApart(Heap) /\ Delta \in Nat /\ DOMAIN Heap.mem \subseteq Nat
  BY HeapsAssumption, Layouts DEF Heap
<1>2. ASSUME NEW p \in Objects, NEW q \in Objects, NEW b \in DOMAIN Heap.mem, InObject(p, b)
      PROVE  b + Delta \in DOMAIN Heap.mem /\ ~InObject(q, b - Delta) /\ (InObject(q, b) => p = q)
  BY <1>1, <1>2 DEF ObjectsAreApart, InObject, Objects
<1>3. (a + Delta) - Delta = a
  BY <1>1
<1> QED
  BY <1>2, <1>3 DEF Original

\* No word comes to where another is.
LEMMA WordsStayApart ==
  ASSUME heap \in DOMAIN Heaps, moved \subseteq Objects,
         NEW a \in Original, NEW b \in Original, At(a) = At(b)
  PROVE  a = b
<1>1. Delta \in Nat /\ a \in Nat /\ b \in Nat
  BY Layouts DEF Original
<1>2. \A o \in moved : ~InObject(o, a - Delta) /\ ~InObject(o, b - Delta)
  BY DEF Original
<1>3. (a + Delta = b => b - Delta = a) /\ (b + Delta = a => a - Delta = b)
  BY <1>1
<1> QED
  BY <1>1, <1>2, <1>3 DEF At

LEMMA EdgesOfHeap ==
  ASSUME heap \in DOMAIN Heaps, NEW e \in Heap.edges
  PROVE  /\ e.to \in Objects /\ e.from \in Objects \cup {0} /\ e.off \in Nat
         /\ e.at \in Original /\ Heap.mem[e.at] = e.to + e.off
         /\ \A o \in Objects : /\ InObject(o, e.at) => o = e.from \/ o \in Heap.roots["tpinned"]
                               /\ ~InObject(o, Heap.mem[e.at] + Delta)
                               /\ e.at # o - 8
         /\ \A f \in Heap.edges : e.at = f.at => e.to = f.to /\ e.off = f.off
<1>1. EdgesAreWords(Heap) /\ JULIA_HEADER_SIZE = 8
  BY HeapsAssumption, Layouts DEF Heap
<1>2. e.to \in Objects /\ e.from \in Objects \cup {0} /\ e.off \in Nat
  BY <1>1 DEF EdgesAreWords, Objects
<1>3. e.at \in DOMAIN Heap.mem /\ Heap.mem[e.at] = e.to + e.off
  BY <1>1 DEF EdgesAreWords
<1>4. ASSUME NEW o \in Objects
      PROVE  /\ InObject(o, e.at) => o = e.from \/ o \in Heap.roots["tpinned"]
             /\ ~InObject(o, e.at - Delta)
             /\ ~InObject(o, Heap.mem[e.at] + Delta)
             /\ e.at # o - 8
  BY <1>1 DEF EdgesAreWords, Objects, InObject
<1>5. \A f \in Heap.edges : e.at = f.at => e.to = f.to /\ e.off = f.off
  BY <1>1 DEF EdgesAreWords
<1> QED
  BY <1>2, <1>3, <1>4, <1>5 DEF Original

-----------------------------------------------------------------------------
(* The invariant.                                                          *)

\* Where the word of an edge is, with the offset of what it leads to.
SlotOf(e) == Offset(At(e.at), e.off)
Follows(e) == Content(e.at) = Place(e.to) + e.off
Done(e) == e.to \in marked /\ Follows(e)
Pending(e) == SlotOf(e) \in slots

\* Is the word of an edge visited, or has been?
IsRootEdge(e) ==
  /\ e.from = 0
  /\ \/ e.at \in Heap.roots["slots"] /\ ~NotStarted /\ phase # "tpin"
     \/ e.at \in Heap.finalizers /\ phase \in {"vmref", "done"}
IsScanned(e) == IsRootEdge(e) \/ (e.from \in marked /\ Place(e.from) \notin nodes)

\* Slots are those of edges from what is marked, or from roots.
SlotsOK ==
  \A slot \in slots :
    \E e \in Heap.edges : slot = SlotOf(e) /\ (e.from \in marked \/ IsRootEdge(e))

\* Every edge from an object that was scanned, or from a root, is followed or
\* will be; except that inside pointers which are right already may have no
\* slot, when what they point into does not move and another slot leads there.
Accounted(e) ==
  \/ Pending(e) \/ Done(e)
  \/ /\ e.to \notin moving /\ Follows(e)
     /\ \E f \in Heap.edges : f.from = e.from /\ f.to = e.to /\ (Pending(f) \/ Done(f))
BlackOK == \A e \in Heap.edges : IsScanned(e) => Accounted(e)

WeakValueOf(r) == Heap.mem[r + jl_weakref_t.value]
TableOf(a) == \E list \in SweptLists : a \in TableWords(Heap, list)

\* Words that are no references are what they were.
WordsOK ==
  \A a \in Original :
    \/ Content(a) = Heap.mem[a]
    \/ \E e \in Heap.edges : a = e.at
    \/ \E r \in Heap.weak : a = r + jl_weakref_t.value
    \/ phase = "done" /\ TableOf(a)

\* References lead to where their object was, or where it is; the pointer of
\* a memory to the elements behind it, to where they are.
EdgesOK ==
  \A e \in Heap.edges :
    /\ Content(e.at) \in {e.to + e.off, Place(e.to) + e.off}
    /\ \A o \in Movable : PointsBehind(e, o) => Follows(e)

\* The words that sizes are read from are as they should be; only memories
\* that point behind themselves have done so from the start.
FieldsOK ==
  \A o \in Movable :
    /\ HasFields(o, Place(o))
    /\ HasName(Place(o), "GenericMemory")
         /\ Heap.mem[o + jl_genericmemory_t.ptr] = o + jl_genericmemory_t.size
       => \E e \in Heap.edges : PointsBehind(e, o)

MarksOK ==
  /\ marked \subseteq Objects /\ marked \subseteq Kept
  /\ phase \notin {"vmref", "done"} => marked \subseteq Strong
  /\ phase \in {"weak", "vmref", "done"} => Strong \subseteq marked
  /\ phase = "done" => Kept \subseteq marked
  /\ phase \in {"weak", "done"} => nodes = {} /\ slots = {}

\* What a weak reference holds in the end, by what was reachable.
Cleared(r) == IF {r, WeakValueOf(r)} \subseteq Strong THEN Place(WeakValueOf(r)) ELSE jl_nothing
WeakOK ==
  /\ weak \subseteq Heap.weak
  /\ phase \notin {"weak", "vmref", "done"} => weak = Heap.weak
  /\ phase \in {"vmref", "done"} => weak = {}
  /\ \A r \in Heap.weak :
       Content(r + jl_weakref_t.value) = IF r \in weak THEN WeakValueOf(r) ELSE Cleared(r)

MemoryOK == WordsOK /\ EdgesOK /\ FieldsOK /\ SizesStayRight
CInv == IInv /\ MemoryOK /\ SlotsOK /\ BlackOK /\ MarksOK /\ WeakOK

\* What is needed of the invariant of TracingProofs.
LEMMA Places ==
  ASSUME IInv, marked \subseteq Objects
  PROVE  /\ heap \in DOMAIN Heaps /\ DOMAIN mem = DOMAIN Heap.mem
         /\ moved \subseteq Objects /\ moved \subseteq marked /\ moved \subseteq Movable
         /\ moved \cap (Heap.roots["tpinned"] \cup Heap.roots["nodes"]) = {}
         /\ NotStarted => marked = {} /\ moved = {} /\ nodes = {} /\ slots = {}
         /\ ~NotStarted => /\ roots = Heap.roots /\ moving \in Heap.moving
                           /\ Heap.roots["tpinned"] \subseteq marked
                           /\ phase # "tpin" => Heap.roots["nodes"] \subseteq marked
<1>1. heap \in DOMAIN Heaps /\ DOMAIN mem = DOMAIN Heap.mem
  BY DEF IInv, RootsInv, PlacesOK
<1>2. NotStarted => marked = {} /\ moved = {} /\ nodes = {} /\ slots = {}
  BY DEF IInv, NothingTraced, StayOK, NotStarted
<1>3. ~NotStarted => roots = Heap.roots
  BY DEF IInv, RootsInv, EveryRootIsReported, NotStarted
<1>4. ~NotStarted => /\ moving \in Heap.moving
                     /\ roots["tpinned"] \subseteq marked
                     /\ phase # "tpin" => roots["nodes"] \subseteq marked
                     /\ moved \cap (roots["tpinned"] \cup roots["nodes"]) = {}
  BY DEF IInv, StayOK
<1>5. moved \subseteq marked \cap moving
  BY DEF IInv, StayOK
<1>6. moved \subseteq Movable
  BY <1>2, <1>3, <1>4, <1>5 DEF Movable, CanMove
<1> QED
  BY <1>1, <1>2, <1>3, <1>4, <1>5, <1>6

LEMMA NowIsAt ==
  ASSUME IInv, marked \subseteq Objects
  PROVE  /\ \A e \in Heap.edges : Now(e.from, e.at) = At(e.at)
         /\ \A o \in Objects, a \in DOMAIN Heap.mem : InObject(o, a) => Now(o, a) = At(a)
<1>1. heap \in DOMAIN Heaps /\ moved \subseteq Objects /\ moved \cap Heap.roots["tpinned"] = {}
  BY Places
<1>2. ASSUME NEW e \in Heap.edges
      PROVE  Now(e.from, e.at) = At(e.at)
  BY <1>1, EdgesOfHeap DEF Now, At
<1>3. ASSUME NEW o \in Objects, NEW a \in DOMAIN Heap.mem, InObject(o, a)
      PROVE  Now(o, a) = At(a)
  BY <1>1, <1>3, WordsOfObjects DEF Now, At
<1> QED
  BY <1>2, <1>3

\* The words of an object are where it is.
LEMMA AtPlace ==
  ASSUME IInv, marked \subseteq Objects, NEW o \in Objects, NEW d \in Int,
         o + d \in DOMAIN Heap.mem, InObject(o, o + d)
  PROVE  At(o + d) = Place(o) + d /\ o + d \in Original
<1>1. heap \in DOMAIN Heaps /\ moved \subseteq Objects
  BY Places
<1>2. o + d \in Original /\ \A p \in Objects : InObject(p, o + d) => p = o
  BY <1>1, WordsOfObjects
<1>3. o \in Int /\ Delta \in Int
  BY <1>1, Layouts
<1>4. (o + d) + Delta = (o + Delta) + d
  BY <1>3
<1> QED
  BY <1>1, <1>2, <1>4 DEF At, Place

LEMMA PlacesAreApart ==
  ASSUME IInv, marked \subseteq Objects, NEW o \in Objects
  PROVE  /\ ObjectAt(o) = o /\ ObjectAt(Place(o)) = o /\ ObjectAt(o + Delta) = o
         /\ Place(o) \in Nat \ {0} /\ o + Delta \notin Objects
         /\ \A p \in Objects : Place(p) = Place(o) => p = o
<1>1. /\ heap \in DOMAIN Heaps /\ Objects \subseteq Nat \ {0} /\ Delta \in Nat \ {0}
      /\ \A p \in Objects : p + Delta \notin Objects
  BY Places, Layouts
<1>2. ASSUME NEW p \in Objects
      PROVE  /\ ObjectAt(p) = p /\ ObjectAt(p + Delta) = p /\ Place(p) \in {p, p + Delta}
             /\ Place(p) \in Nat \ {0}
  <2>1. (p + Delta) - Delta = p /\ p \in Nat \ {0} /\ p + Delta \in Nat \ {0}
    BY <1>1
  <2> QED
    BY <1>1, <2>1 DEF ObjectAt, Place
<1>3. ASSUME NEW p \in Objects, Place(p) = Place(o)
      PROVE  p = o
  BY <1>2, <1>3
<1> QED
  BY <1>1, <1>2, <1>3

\* What the root edges of the two kinds lead to.
LEMMA RootEdges ==
  ASSUME heap \in DOMAIN Heaps
  PROVE  /\ \A a \in Heap.roots["slots"] \cup Heap.finalizers :
              \E e \in Heap.edges : /\ e.from = 0 /\ e.at = a /\ e.off = 0
                                    /\ e.to = Heap.mem[a]
         /\ \A e \in Heap.edges :
              e.at \in Heap.roots["slots"] \cup Heap.finalizers =>
                e.off = 0 /\ e.to = Heap.mem[e.at]
         /\ \A e \in Heap.edges :
              e.from = 0 => \/ e.at \in Heap.roots["slots"] \cup Heap.finalizers
                            \/ e.to \in Heap.roots["tpinned"] \cup Heap.roots["nodes"]
<1>1. RootsAreEdges(Heap)
  BY HeapsAssumption DEF Heap
<1>2. \A e \in Heap.edges :
        e.from = 0 => \/ e.at \in Heap.roots["slots"] \cup Heap.finalizers
                      \/ e.to \in Heap.roots["tpinned"] \cup Heap.roots["nodes"]
  BY <1>1 DEF RootsAreEdges
<1>3. ASSUME NEW a \in Heap.roots["slots"] \cup Heap.finalizers
      PROVE  /\ \E e \in Heap.edges : e.from = 0 /\ e.at = a /\ e.off = 0 /\ e.to = Heap.mem[a]
             /\ \A f \in Heap.edges : f.at = a => f.off = 0 /\ f.to = Heap.mem[a]
  <2>1. PICK e \in Heap.edges : e.from = 0 /\ e.at = a /\ e.off = 0
    BY <1>1 DEF RootsAreEdges
  <2>2. e.to = Heap.mem[a]
    <3>1. Heap.mem[a] = e.to + 0 /\ e.to \in Int
      BY <2>1, EdgesOfHeap, Layouts
    <3> QED
      BY <3>1
  <2> QED
    BY <2>1, <2>2, EdgesOfHeap
<1> QED
  BY <1>2, <1>3

-----------------------------------------------------------------------------
(* Words that never change, and the sizes that are read from them.         *)

\* A word of an object that is neither a reference nor a weak one.
LEMMA FixedWords ==
  ASSUME IInv, marked \subseteq Objects, WordsOK,
         NEW o \in Objects, NEW d \in Int, o + d \in DOMAIN Heap.mem, InObject(o, o + d),
         \A e \in Heap.edges : e.at # o + d, o \notin Heap.weak \/ d # 0
  PROVE  mem[Place(o) + d] = Heap.mem[o + d]
<1>1. heap \in DOMAIN Heaps
  BY Places
<1>2. At(o + d) = Place(o) + d /\ o + d \in Original
  BY AtPlace
<1>3. ASSUME NEW r \in Heap.weak, o + d = r + jl_weakref_t.value
      PROVE  FALSE
  <2>1. WeakValues(Heap) /\ jl_weakref_t.value = 0
    BY <1>1, HeapsAssumption DEF Heap, jl_weakref_t
  <2>2. r \in Objects /\ InObject(r, o + d)
    BY <1>3, <2>1 DEF WeakValues, Objects, InObject
  <2>3. r = o
    BY <1>1, <2>2, WordsOfObjects
  <2>4. o \in Nat
    BY <1>1, Layouts
  <2> QED
    BY <1>3, <2>1, <2>3, <2>4
<1>4. ~TableOf(o + d)
  <2>1. TablesAreOutside(Heap)
    BY <1>1, HeapsAssumption DEF Heap
  <2> QED
    BY <2>1 DEF TablesAreOutside, TableOf, SweptLists, Objects, InObject
<1>5. Content(o + d) = Heap.mem[o + d]
  BY <1>2, <1>3, <1>4 DEF WordsOK
<1> QED
  BY <1>2, <1>5 DEF Content

LEMMA MovableObjects ==
  ASSUME heap \in DOMAIN Heaps
  PROVE  Movable \subseteq Objects
  BY TracingAssumption DEF Movable, CanMove, Objects, Heap

LEMMA HeaderStays ==
  ASSUME IInv, marked \subseteq Objects, WordsOK, NEW o \in Objects
  PROVE  mem[Place(o) - 8] = Heap.mem[o - 8]
<1>1. heap \in DOMAIN Heaps
  BY Places
<1>2. o + (-8) = o - 8 /\ Place(o) + (-8) = Place(o) - 8 /\ -8 \in Int /\ -8 # 0
  BY <1>1, Layouts, PlacesAreApart
<1>3. o - 8 \in DOMAIN Heap.mem /\ InObject(o, o - 8) /\ \A e \in Heap.edges : e.at # o - 8
  BY <1>1, Layouts, EdgesOfHeap
<1> DEFINE d == -8
<1>4. d \in Int /\ d # 0 /\ o + d = o - 8 /\ Place(o) + d = Place(o) - 8
  BY <1>2
<1> HIDE DEF d
<1>5. mem[Place(o) + d] = Heap.mem[o + d]
  BY <1>3, <1>4, FixedWords
<1> QED
  BY <1>4, <1>5

LEMMA LengthStays ==
  ASSUME IInv, marked \subseteq Objects, WordsOK, FieldsOK, NEW o \in Movable,
         HasLength(Place(o))
  PROVE  mem[Place(o)] = Heap.mem[o]
<1>1. heap \in DOMAIN Heaps /\ o \in Objects
  BY Places, MovableObjects
<1>2. o \notin Heap.weak /\ \A e \in Heap.edges : e.at # o
  BY DEF FieldsOK, HasFields
<1>3. o + 0 = o /\ Place(o) + 0 = Place(o)
  BY <1>1, Layouts, PlacesAreApart
<1>4. o \in DOMAIN Heap.mem /\ InObject(o, o)
  BY <1>1, Layouts
<1>5. mem[Place(o) + 0] = Heap.mem[o + 0]
  BY <1>1, <1>2, <1>3, <1>4, FixedWords
<1> QED
  BY <1>3, <1>5

LEMMA WhatIsInlined ==
  ASSUME NEW x
  PROVE  /\ jl_gc_genericmemory_how(x) = 0 <=> mem[x + 8] = x + 16
         /\ IsInlined(x) <=> HasName(x, "GenericMemory") /\ mem[x + 8] = x + 16
<1>1. jl_gc_genericmemory_how(x) = 0 <=> mem[x + 8] = x + 16
  BY DEF jl_gc_genericmemory_how, jl_genericmemory_t, Load
<1> QED
  BY <1>1 DEF IsInlined

\* No other memory looks as if it had its elements behind it.
LEMMA InlinedPoints ==
  ASSUME IInv, marked \subseteq Objects, WordsOK, EdgesOK, FieldsOK, NEW o \in Movable,
         IsInlined(Place(o))
  PROVE  \E e \in Heap.edges : PointsBehind(e, o)
<1>1. heap \in DOMAIN Heaps /\ o \in Objects
  BY Places, MovableObjects
<1>2. HasName(Place(o), "GenericMemory") /\ mem[Place(o) + 8] = Place(o) + 16
  BY WhatIsInlined
<1>3. /\ o + 8 \in DOMAIN Heap.mem /\ o + 16 \in DOMAIN Heap.mem
      /\ InObject(o, o + 8) /\ InObject(o, o + 16)
  BY <1>2 DEF FieldsOK, HasFields, jl_genericmemory_t
<1>4. SUFFICES Heap.mem[o + 8] = o + 16
  BY <1>2 DEF FieldsOK, jl_genericmemory_t
<1>5. /\ o \in Nat /\ Delta \in Nat /\ Heap.mem[o + 8] \in Int
      /\ (Place(o) = o \/ Place(o) = o + Delta)
  BY <1>1, <1>3, Layouts DEF Place
<1>6. \/ mem[Place(o) + 8] = Heap.mem[o + 8]
      \/ mem[Place(o) + 8] = Heap.mem[o + 8] + Delta /\ ~InObject(o, Heap.mem[o + 8] + Delta)
  <2>1. CASE \A e \in Heap.edges : e.at # o + 8
    BY <1>1, <1>3, <2>1, FixedWords
  <2>2. ASSUME NEW e \in Heap.edges, e.at = o + 8
        PROVE  <1>6!:
    <3>1. At(o + 8) = Place(o) + 8
      BY <1>1, <1>3, AtPlace
    <3>2. Content(e.at) = mem[Place(o) + 8]
      BY <2>2, <3>1 DEF Content
    <3>3. /\ Heap.mem[o + 8] = e.to + e.off /\ ~InObject(o, Heap.mem[o + 8] + Delta)
          /\ e.to \in Nat /\ e.off \in Nat
      BY <1>1, <2>2, EdgesOfHeap, Layouts
    <3>4. Content(e.at) \in {e.to + e.off, Place(e.to) + e.off}
      BY DEF EdgesOK
    <3>5. (e.to + Delta) + e.off = (e.to + e.off) + Delta
      BY <1>5, <3>3
    <3> QED
      BY <3>2, <3>3, <3>4, <3>5 DEF Place
  <2> QED
    BY <2>1, <2>2
<1>7. ~InObject(o, Heap.mem[o + 8] - Delta)
  <2>1. ObjectsAreApart(Heap)
    BY <1>1, HeapsAssumption DEF Heap
  <2> QED
    BY <1>1, <1>3, <2>1 DEF ObjectsAreApart, Objects, InObject
<1>8. CASE Place(o) = o /\ mem[Place(o) + 8] = Heap.mem[o + 8]
  BY <1>2, <1>8
<1>9. CASE Place(o) = o /\ mem[Place(o) + 8] # Heap.mem[o + 8]
  BY <1>2, <1>3, <1>5, <1>6, <1>9
<1>10. CASE Place(o) = o + Delta /\ mem[Place(o) + 8] = Heap.mem[o + 8]
  <2>1. Heap.mem[o + 8] - Delta = o + 16
    BY <1>2, <1>5, <1>10
  <2> QED
    BY <1>3, <1>7, <2>1
<1>11. CASE Place(o) = o + Delta /\ mem[Place(o) + 8] # Heap.mem[o + 8]
  BY <1>2, <1>5, <1>6, <1>11
<1> QED
  BY <1>5, <1>8, <1>9, <1>10, <1>11

\* The kind of an object is read from its header, the size from its length and
\* the place of its elements besides.
LEMMA KindIsRead ==
  ASSUME NEW o, mem'[Place(o)' - 8] = mem[Place(o) - 8]
  PROVE  /\ IsBuffer(Place(o))' <=> IsBuffer(Place(o))
         /\ \A tag : HasTag(Place(o), tag)' <=> HasTag(Place(o), tag)
         /\ \A name : HasName(Place(o), name)' <=> HasName(Place(o), name)
         /\ Layout(Place(o))' = Layout(Place(o))
         /\ HasLength(Place(o))' <=> HasLength(Place(o))
<1>1. mmtk_jl_typetagof(Place(o))' = mmtk_jl_typetagof(Place(o))
  BY DEF mmtk_jl_typetagof, Load, jl_taggedvalue_t
<1>2. DataType(Place(o))' = DataType(Place(o))
  BY <1>1 DEF DataType, mmtk_jl_typeof, mmtk_jl_to_typeof
<1>3. /\ IsBuffer(Place(o))' <=> IsBuffer(Place(o))
      /\ \A tag : HasTag(Place(o), tag)' <=> HasTag(Place(o), tag)
      /\ \A name : HasName(Place(o), name)' <=> HasName(Place(o), name)
      /\ Layout(Place(o))' = Layout(Place(o))
  BY <1>1, <1>2 DEF IsBuffer, HasTag, HasName, Layout
<1> QED
  BY <1>3 DEF HasLength

LEMMA SizeIsRead ==
  ASSUME NEW o, mem'[Place(o)' - 8] = mem[Place(o) - 8], ~IsBuffer(Place(o)),
         HasLength(Place(o)) => /\ mem'[Place(o)' + 0] = mem[Place(o) + 0]
                                /\ mem'[Place(o)'] = mem[Place(o)],
         HasName(Place(o), "GenericMemory") =>
           ((jl_gc_genericmemory_how(Place(o)) = 0)' <=> jl_gc_genericmemory_how(Place(o)) = 0)
  PROVE  get_so_object_size(Place(o))' = get_so_object_size(Place(o))
<1>1. /\ IsBuffer(Place(o))' <=> IsBuffer(Place(o))
      /\ \A tag : HasTag(Place(o), tag)' <=> HasTag(Place(o), tag)
      /\ \A name : HasName(Place(o), name)' <=> HasName(Place(o), name)
      /\ Layout(Place(o))' = Layout(Place(o))
  BY KindIsRead
<1>2. HasName(Place(o), "GenericMemory")
        => GenericMemorySize(Place(o))' = GenericMemorySize(Place(o))
  BY <1>1 DEF GenericMemorySize, HasLength, Load, jl_genericmemory_t
<1> QED
  BY <1>1, <1>2 DEF get_so_object_size, HasLength, Load, jl_svec_t

LEMMA WordsStay ==
  /\ heap \in DOMAIN Heaps /\ moved \subseteq Objects
       => \A a \in Original, b \in Original : At(a) = At(b) => a = b
  /\ \A o : IsInlined(Place(o)) <=>
             HasName(Place(o), "GenericMemory") /\ mem[Place(o) + 8] = Place(o) + 16
  /\ IInv /\ marked \subseteq Objects
       => \A o \in Objects : o + 8 \in DOMAIN Heap.mem /\ InObject(o, o + 8)
                               => At(o + 8) = Place(o) + 8
  /\ IInv /\ marked \subseteq Objects /\ WordsOK
       => \A o \in Objects : mem[Place(o) - 8] = Heap.mem[o - 8]
  /\ IInv /\ marked \subseteq Objects /\ WordsOK /\ FieldsOK
       => \A o \in Movable : HasLength(Place(o)) => mem[Place(o)] = Heap.mem[o]
  /\ IInv /\ marked \subseteq Objects /\ WordsOK /\ EdgesOK /\ FieldsOK
       => \A o \in Movable : IsInlined(Place(o)) => \E e \in Heap.edges : PointsBehind(e, o)
  BY HeaderStays, LengthStays, InlinedPoints, WhatIsInlined, AtPlace,
     WordsStayApart

\* The same of the next state.
LEMMA WordsStayThen ==
  /\ (heap \in DOMAIN Heaps /\ moved \subseteq Objects
       => \A a \in Original, b \in Original : At(a) = At(b) => a = b)'
  /\ (\A o : IsInlined(Place(o)) <=>
              HasName(Place(o), "GenericMemory") /\ mem[Place(o) + 8] = Place(o) + 16)'
  /\ (IInv /\ marked \subseteq Objects
       => \A o \in Objects : o + 8 \in DOMAIN Heap.mem /\ InObject(o, o + 8)
                               => At(o + 8) = Place(o) + 8)'
  /\ (IInv /\ marked \subseteq Objects /\ WordsOK
       => \A o \in Objects : mem[Place(o) - 8] = Heap.mem[o - 8])'
  /\ (IInv /\ marked \subseteq Objects /\ WordsOK /\ FieldsOK
       => \A o \in Movable : HasLength(Place(o)) => mem[Place(o)] = Heap.mem[o])'
  /\ (IInv /\ marked \subseteq Objects /\ WordsOK /\ EdgesOK /\ FieldsOK
       => \A o \in Movable : IsInlined(Place(o)) => \E e \in Heap.edges : PointsBehind(e, o))'
  BY WordsStay, PTL

\* A step that leaves the fixed words alone and the references right leaves
\* the sizes right.
LEMMA SizesStay ==
  ASSUME IInv, marked \subseteq Objects, MemoryOK, heap' = heap, moved \subseteq moved',
         IInv', (marked \subseteq Objects)', WordsOK', EdgesOK'
  PROVE  MemoryOK'
<1>1. /\ Heap' = Heap /\ Objects' = Objects /\ Movable' = Movable
      /\ Movable \subseteq Objects /\ heap \in DOMAIN Heaps
  BY Places, MovableObjects DEF Heap, Objects, Movable, CanMove
<1>2. WordsOK /\ EdgesOK /\ FieldsOK /\ SizesStayRight
  BY DEF MemoryOK
<1>3. ASSUME NEW o \in Movable
      PROVE  mem'[Place(o)' - 8] = mem[Place(o) - 8]
  BY <1>1, <1>2, HeaderStays, WordsStayThen
<1>4. FieldsOK'
  <2>1. ASSUME NEW o \in Movable
        PROVE  /\ HasFields(o, Place(o))'
               /\ (HasName(Place(o), "GenericMemory"))'
                    /\ Heap.mem[o + jl_genericmemory_t.ptr] = o + jl_genericmemory_t.size
                  => \E e \in Heap.edges : PointsBehind(e, o)
    <3>1. /\ HasName(Place(o), "GenericMemory")' <=> HasName(Place(o), "GenericMemory")
          /\ HasLength(Place(o))' <=> HasLength(Place(o))
      BY <1>3, KindIsRead
    <3> QED
      BY <1>1, <1>2, <3>1 DEF FieldsOK, HasFields, InObject
  <2> QED
    BY <1>1, <2>1 DEF FieldsOK
<1>5. ASSUME NEW o \in Movable
      PROVE  /\ HasFields(o, Place(o))'
             /\ ref_to_object_start(Place(o))' = Place(o)' - 8
             /\ get_so_object_size(Place(o))' = Heap.size[o]
             /\ IsInlined(Place(o))' <=> \E e \in Heap.edges : PointsBehind(e, o)
  <2>1. /\ o \in Nat /\ Delta \in Nat /\ JULIA_HEADER_SIZE = 8 /\ ~is_object_in_los(o + Delta)
        /\ Place(o)' = Place(o) \/ Place(o)' = o + Delta
        /\ Place(o) \in Nat
    BY <1>1, Layouts DEF Place
  <2>2. /\ ref_to_object_start(Place(o)) = Place(o) - 8
        /\ get_so_object_size(Place(o)) = Heap.size[o]
        /\ IsInlined(Place(o)) <=> \E e \in Heap.edges : PointsBehind(e, o)
    BY <1>2, <2>1 DEF SizesStayRight
  <2>3. ~is_object_in_los(Place(o)) /\ ~IsBuffer(Place(o))
    BY <2>1, <2>2 DEF ref_to_object_start, get_object_start_ref
  <2>4. /\ IsBuffer(Place(o))' <=> IsBuffer(Place(o))
        /\ HasName(Place(o), "GenericMemory")' <=> HasName(Place(o), "GenericMemory")
        /\ HasLength(Place(o))' <=> HasLength(Place(o))
    BY <1>3, KindIsRead
  <2>5. ref_to_object_start(Place(o))' = Place(o)' - 8
    <3>1. ~is_object_in_los(Place(o))'
      BY <2>1, <2>3 DEF is_object_in_los
    <3> QED
      BY <2>1, <2>3, <2>4, <3>1 DEF ref_to_object_start, get_object_start_ref
  <2>6. IsInlined(Place(o))' <=> \E e \in Heap.edges : PointsBehind(e, o)
    <3>1. IsInlined(Place(o))' => \E e \in Heap.edges : PointsBehind(e, o)
      BY <1>1, <1>4, WordsStayThen DEF PointsBehind
    <3>2. ASSUME NEW e \in Heap.edges, PointsBehind(e, o)
          PROVE  IsInlined(Place(o))'
      <4>1. HasName(Place(o), "GenericMemory") /\ HasName(Place(o), "GenericMemory")'
        BY <2>2, <2>4, <3>2 DEF IsInlined
      <4>2. o + 8 \in DOMAIN Heap.mem /\ InObject(o, o + 8) /\ InObject(o, o + 8)'
        BY <1>1, <1>2, <4>1 DEF FieldsOK, HasFields, jl_genericmemory_t, InObject
      <4>3. At(o + 8)' = Place(o)' + 8
        BY <1>1, <4>2, WordsStayThen
      <4>4. Follows(e)' /\ e.at = o + 8 /\ e.to = o /\ e.off = 16
        BY <1>1, <3>2 DEF EdgesOK, PointsBehind, jl_genericmemory_t
      <4>5. mem'[Place(o)' + 8] = Place(o)' + 16
        BY <4>3, <4>4 DEF Follows, Content
      <4> QED
        BY <4>1, <4>5, WordsStayThen
    <3> QED
      BY <3>1, <3>2
  <2>7. get_so_object_size(Place(o))' = get_so_object_size(Place(o))
    <3>1. HasLength(Place(o)) => mem'[Place(o)'] = mem[Place(o)]
      BY <1>1, <1>2, <1>4, <2>4, LengthStays, WordsStayThen
    <3>2. Place(o)' + 0 = Place(o)' /\ Place(o) + 0 = Place(o)
      BY <2>1
    <3>3. HasName(Place(o), "GenericMemory") =>
            ((jl_gc_genericmemory_how(Place(o)) = 0)' <=> jl_gc_genericmemory_how(Place(o)) = 0)
      BY <2>2, <2>4, <2>6 DEF IsInlined
    <3> QED
      BY <1>3, <2>3, <3>1, <3>2, <3>3, SizeIsRead
  <2> QED
    BY <1>1, <1>4, <2>2, <2>5, <2>6, <2>7 DEF FieldsOK
<1>6. SizesStayRight'
  BY <1>1, <1>5, Layouts DEF SizesStayRight
<1> QED
  BY <1>4, <1>6 DEF MemoryOK

-----------------------------------------------------------------------------
(* Steps that leave the memory alone.                                      *)

LEMMA HeapStays ==
  ASSUME heap' = heap
  PROVE  /\ Heap' = Heap /\ Objects' = Objects /\ Movable' = Movable /\ Original' = Original
         /\ Strong' = Strong /\ Kept' = Kept /\ SweptLists' = SweptLists
         /\ \A set : Closed(set)' <=> Closed(set)
         /\ \A r : WeakValueOf(r)' = WeakValueOf(r)
         /\ \A o, a : InObject(o, a)' <=> InObject(o, a)
         /\ \A a : TableOf(a)' <=> TableOf(a)
<1>1. Heap' = Heap
  BY DEF Heap
<1>2. Objects' = Objects /\ Movable' = Movable
  BY <1>1 DEF Objects, Movable, CanMove
<1>3. \A o, a : InObject(o, a)' <=> InObject(o, a)
  BY <1>1 DEF InObject
<1>4. Original' = Original /\ SweptLists' = SweptLists
  BY <1>1, <1>2, <1>3 DEF Original, SweptLists
<1>5. \A from : Reach(from)' = Reach(from)
  BY <1>1, <1>2 DEF Reach
<1>6. Strong' = Strong
  BY <1>1, <1>5 DEF Strong, Reach, Objects
<1>7. Kept' = Kept
  BY <1>1, <1>6 DEF Kept, Reach, Objects
<1>8. \A set : Closed(set)' <=> Closed(set)
  BY <1>1 DEF Closed
<1>9. \A r : WeakValueOf(r)' = WeakValueOf(r)
  BY <1>1 DEF WeakValueOf
<1>10. \A a : TableOf(a)' <=> TableOf(a)
  BY <1>1, <1>4 DEF TableOf
<1> QED
  BY <1>1, <1>2, <1>3, <1>4, <1>6, <1>7, <1>8, <1>9, <1>10

LEMMA SameWords ==
  ASSUME UNCHANGED <<mem, moved, heap>>
  PROVE  /\ \A o : Place(o)' = Place(o)
         /\ \A a : At(a)' = At(a) /\ Content(a)' = Content(a)
         /\ \A e : SlotOf(e)' = SlotOf(e) /\ Follows(e)' = Follows(e)
<1>1. \A o : Place(o)' = Place(o)
  BY DEF Place
<1>2. \A a : At(a)' = At(a) /\ Content(a)' = Content(a)
  BY HeapStays DEF At, Content
<1>3. \A e : SlotOf(e)' = SlotOf(e)
  BY <1>2 DEF SlotOf
<1>4. \A e : Follows(e)' = Follows(e)
  BY <1>1, <1>2 DEF Follows
<1> QED
  BY <1>1, <1>2, <1>3, <1>4

LEMMA SameMemory ==
  ASSUME MemoryOK, UNCHANGED <<mem, moved, heap>>, phase = "done" => phase' = "done"
  PROVE  MemoryOK'
<1>1. WordsOK'
  BY HeapStays, SameWords DEF MemoryOK, WordsOK
<1>2. EdgesOK'
  BY HeapStays, SameWords DEF MemoryOK, EdgesOK
<1>3. FieldsOK' /\ SizesStayRight'
  <2>1. \A o : Place(o)' = Place(o)
    BY SameWords
  <2>2. \A x : /\ HasLength(x)' <=> HasLength(x)
               /\ HasName(x, "GenericMemory")' <=> HasName(x, "GenericMemory")
               /\ ref_to_object_start(x)' = ref_to_object_start(x)
               /\ get_so_object_size(x)' = get_so_object_size(x)
               /\ IsInlined(x)' <=> IsInlined(x)
    BY DEF HasLength, HasTag, HasName, DataType, mmtk_jl_typeof, mmtk_jl_to_typeof,
       mmtk_jl_typetagof, ref_to_object_start, get_object_start_ref, IsBuffer,
       get_so_object_size, mmtk_get_obj_size, GenericMemorySize, Layout, IsInlined,
       jl_gc_genericmemory_how, jl_gc_get_owner_address_to_mmtk, Load
  <2> QED
    BY <2>1, <2>2, HeapStays DEF MemoryOK, FieldsOK, SizesStayRight, HasFields
<1> QED
  BY <1>1, <1>2, <1>3 DEF MemoryOK

-----------------------------------------------------------------------------
(* Strong and Kept are the least closed sets with what is needed.          *)

\* What is needed for itself.
Needed == Heap.roots["tpinned"] \cup Heap.roots["nodes"]
          \cup {Heap.mem[a] : a \in Heap.roots["slots"]}
Finalized == {Heap.mem[a] : a \in Heap.finalizers}

LEMMA Reached ==
  ASSUME heap \in DOMAIN Heaps
  PROVE  /\ Needed \subseteq Strong /\ Closed(Strong)
         /\ Strong \subseteq Kept /\ Finalized \subseteq Kept /\ Closed(Kept)
         /\ Kept \subseteq Objects
         /\ \A set : Needed \subseteq set /\ Closed(set) => Strong \subseteq set
         /\ \A set : Strong \cup Finalized \subseteq set /\ Closed(set) => Kept \subseteq set
<1>1. IsFiniteSet(Objects) /\ \A e \in Heap.edges : e.to \in Objects
  BY HeapsAssumption, EdgesOfHeap DEF ObjectsAreApart, Heap, Objects
<1>2. \A a \in Heap.roots["slots"] \cup Heap.finalizers : Heap.mem[a] \in Objects
  BY <1>1, RootEdges
<1>3. Needed \subseteq Objects /\ Finalized \subseteq Objects
  BY <1>2, TracingAssumption DEF Needed, Finalized, Objects, Heap
<1>4. /\ Needed \subseteq Strong /\ Strong \subseteq Objects /\ Closed(Strong)
      /\ \A set : Needed \subseteq set /\ Closed(set) => Strong \subseteq set
  BY <1>1, <1>3, ReachIsLeast DEF Strong, Needed
<1>5. Strong \cup Finalized \subseteq Objects
  BY <1>3, <1>4
<1>6. /\ Strong \cup Finalized \subseteq Kept /\ Kept \subseteq Objects /\ Closed(Kept)
      /\ \A set : Strong \cup Finalized \subseteq set /\ Closed(set) => Kept \subseteq set
  BY <1>1, <1>5, ReachIsLeast DEF Kept, Finalized
<1> QED
  BY <1>4, <1>6

-----------------------------------------------------------------------------
(* The invariant is preserved.                                             *)

LEMMA InitCInv ==
  ASSUME Init, RootsAreDescribed, SizesStayRight
  PROVE  CInv
<1>1. IInv
  BY InitIInv
<1>2. /\ heap \in DOMAIN Heaps /\ moved = {} /\ marked = {} /\ nodes = {} /\ slots = {}
      /\ mem = Heap.mem /\ weak = Heap.weak /\ phase = "mutator"
  BY DEF Init
<1>3. \A a : At(a) = a /\ Content(a) = Heap.mem[a]
  BY <1>2 DEF At, Content
<1>4. \A o : Place(o) = o
  BY <1>2 DEF Place
<1>5. WordsOK
  BY <1>3 DEF WordsOK
<1>6. EdgesOK
  BY <1>2, <1>3, <1>4, EdgesOfHeap DEF EdgesOK, Follows
<1>7. FieldsOK
  <2>1. ASSUME NEW o \in Movable, HasName(o, "GenericMemory"),
               Heap.mem[o + jl_genericmemory_t.ptr] = o + jl_genericmemory_t.size
        PROVE  \E e \in Heap.edges : PointsBehind(e, o)
    <3>1. IsInlined(o)
      BY <1>2, <2>1, WhatIsInlined DEF jl_genericmemory_t
    <3> QED
      BY <1>4, <3>1 DEF SizesStayRight
  <2> QED
    BY <1>4, <2>1 DEF FieldsOK, SizesStayRight
<1>8. SlotsOK /\ BlackOK
  BY <1>2, EdgesOfHeap DEF SlotsOK, BlackOK, IsScanned, IsRootEdge, NotStarted
<1>9. MarksOK
  BY <1>2 DEF MarksOK
<1>10. WeakOK
  BY <1>2, <1>3 DEF WeakOK, WeakValueOf
<1> QED
  BY <1>1, <1>5, <1>6, <1>7, <1>8, <1>9, <1>10 DEF CInv, MemoryOK

\* Steps before the collection, and of the scanning of roots.
LEMMA StandingStillKeepsCInv ==
  ASSUME CInv, IInv', UNCHANGED <<mem, heap, moving, marked, moved, nodes, slots, weak>>,
         phase' = phase \/ (phase = "mutator" /\ phase' = "roots")
  PROVE  CInv'
<1>1. MemoryOK'
  BY SameMemory DEF CInv
<1>2. SlotsOK'
  BY HeapStays, SameWords DEF CInv, SlotsOK, IsRootEdge, NotStarted
<1>3. BlackOK'
  <2>1. \A e : /\ IsScanned(e)' => IsScanned(e)
               /\ Accounted(e) => Accounted(e)'
    BY HeapStays, SameWords DEF IsScanned, IsRootEdge, NotStarted, Accounted, Pending, Done
  <2> QED
    BY <2>1, HeapStays DEF CInv, BlackOK
<1>4. MarksOK'
  BY HeapStays DEF CInv, MarksOK
<1>5. WeakOK'
  BY HeapStays, SameWords DEF CInv, WeakOK, Cleared
<1> QED
  BY <1>1, <1>2, <1>3, <1>4, <1>5 DEF CInv

LEMMA TraceTPinnedRootsKeepsCInv ==
  ASSUME CInv, IInv', TraceTPinnedRoots
  PROVE  CInv'
<1>1. /\ UNCHANGED <<mem, heap, moved, slots, weak>>
      /\ phase = "roots" /\ phase' = "tpin" /\ RootsScanned
      /\ marked' = marked \cup roots["tpinned"]
      /\ nodes' = nodes \cup (roots["tpinned"] \ marked)
  BY DEF TraceTPinnedRoots, TraceInPlace, otherVars
<1>2. /\ heap \in DOMAIN Heaps /\ marked = {} /\ moved = {} /\ nodes = {} /\ slots = {}
  BY <1>1, Places DEF CInv, MarksOK, NotStarted
<1>3. roots = Heap.roots
  BY <1>1, ScannedRootsAreReported DEF CInv, IInv
<1>4. marked' = Heap.roots["tpinned"] /\ nodes' = Heap.roots["tpinned"]
  BY <1>1, <1>2, <1>3
<1>5. MemoryOK'
  BY <1>1, SameMemory DEF CInv
<1>6. SlotsOK'
  BY <1>1, <1>2 DEF SlotsOK
<1>7. BlackOK'
  <2>1. \A o : Place(o)' = o
    BY <1>1, <1>2 DEF Place
  <2>2. \A e : ~IsScanned(e)'
    BY <1>1, <1>4, <2>1 DEF IsScanned, IsRootEdge
  <2> QED
    BY <2>2 DEF BlackOK
<1>8. MarksOK'
  <2>1. Heap.roots["tpinned"] \subseteq Strong /\ Strong \subseteq Kept /\ Kept \subseteq Objects
    BY <1>2, Reached DEF Needed
  <2> QED
    BY <1>1, <1>4, <2>1, HeapStays DEF MarksOK
<1>9. WeakOK'
  BY <1>1, HeapStays, SameWords DEF CInv, WeakOK, Cleared
<1> QED
  BY <1>5, <1>6, <1>7, <1>8, <1>9 DEF CInv

\* The slots of roots and finalizers that are visited.
LEMMA RootSlots ==
  ASSUME CInv, NEW a \in Heap.roots["slots"] \cup Heap.finalizers
  PROVE  /\ Simple(a) \in Visited({Simple(a)})
         /\ \E e \in Heap.edges : e.from = 0 /\ e.at = a
         /\ \A e \in Heap.edges : e.from = 0 /\ e.at = a => SlotOf(e) = Simple(a)
<1>1. heap \in DOMAIN Heaps /\ marked \subseteq Objects /\ IInv
  BY Places DEF CInv, MarksOK
<1>2. PICK e \in Heap.edges : e.from = 0 /\ e.at = a /\ e.off = 0 /\ e.to = Heap.mem[a]
  BY <1>1, RootEdges
<1>3. At(a) = a
  <2>1. Now(0, a) = At(a) /\ 0 \notin moved
    BY <1>1, <1>2, NowIsAt, Places, Layouts
  <2> QED
    BY <2>1 DEF Now
<1>4. LoadSlot(Simple(a)) # 0
  <2>1. mem[a] \in {e.to + 0, Place(e.to) + 0}
    BY <1>2, <1>3 DEF CInv, MemoryOK, EdgesOK, Content
  <2>2. e.to \in Nat \ {0} /\ Place(e.to) \in Nat \ {0}
    BY <1>1, EdgesOfHeap, PlacesAreApart, Layouts
  <2>3. LoadSlot(Simple(a)) = mem[a] - 0
    BY DEF LoadSlot, Load, Simple
  <2> QED
    BY <2>1, <2>2, <2>3
<1>5. \A f \in Heap.edges : f.from = 0 /\ f.at = a => SlotOf(f) = Simple(a)
  BY <1>1, <1>3, RootEdges DEF SlotOf, Offset, Simple
<1> QED
  BY <1>2, <1>4, <1>5 DEF Visited

\* Once nothing is left to do, references lead from what is marked to where
\* what is marked is.
LEMMA AllDone ==
  ASSUME CInv, nodes = {}, slots = {}
  PROVE  /\ \A e \in Heap.edges : e.from \in marked \/ IsRootEdge(e) => Done(e)
         /\ Closed(marked)
         /\ ~NotStarted /\ phase # "tpin" => Needed \subseteq marked
         /\ phase \in {"vmref", "done"} => Finalized \subseteq marked
<1>1. heap \in DOMAIN Heaps /\ marked \subseteq Objects /\ IInv
  BY Places DEF CInv, MarksOK
<1>2. ASSUME NEW e \in Heap.edges, e.from \in marked \/ IsRootEdge(e)
      PROVE  Done(e)
  <2>1. Accounted(e)
    BY <1>2 DEF CInv, BlackOK, IsScanned
  <2>2. \A f : ~Pending(f)
    BY DEF Pending
  <2> QED
    BY <2>1, <2>2 DEF Accounted, Done
<1>3. Closed(marked)
  BY <1>2 DEF Closed, Done
<1>4. ASSUME NEW a \in Heap.roots["slots"] \cup Heap.finalizers,
             \/ a \in Heap.roots["slots"] /\ ~NotStarted /\ phase # "tpin"
             \/ a \in Heap.finalizers /\ phase \in {"vmref", "done"}
      PROVE  Heap.mem[a] \in marked
  <2>1. PICK e \in Heap.edges : e.from = 0 /\ e.at = a /\ e.to = Heap.mem[a]
    BY <1>1, RootEdges
  <2> QED
    BY <1>2, <1>4, <2>1 DEF IsRootEdge, Done
<1>5. ~NotStarted /\ phase # "tpin" => Needed \subseteq marked
  BY <1>1, <1>4, Places DEF Needed
<1>6. phase \in {"vmref", "done"} => Finalized \subseteq marked
  BY <1>4 DEF Finalized
<1> QED
  BY <1>2, <1>3, <1>5, <1>6

LEMMA TracePinningRootsKeepsCInv ==
  ASSUME CInv, IInv', TracePinningRoots
  PROVE  CInv'
<1>1. /\ UNCHANGED <<mem, heap, moved, weak, moving, roots>>
      /\ phase = "tpin" /\ phase' = "closure" /\ nodes = {} /\ slots = {}
      /\ marked' = marked \cup roots["nodes"]
      /\ nodes' = roots["nodes"] \ marked
      /\ slots' = Visited({Simple(a) : a \in roots["slots"]})
  BY DEF TracePinningRoots, TraceInPlace, otherVars, rootVars
<1>2. /\ heap \in DOMAIN Heaps /\ roots = Heap.roots /\ marked \subseteq Objects
      /\ moved \subseteq marked /\ IInv
  BY <1>1, Places DEF CInv, MarksOK, NotStarted
<1>3. moved = {}
  BY <1>1 DEF CInv, IInv, StayOK
<1>4. MemoryOK'
  BY <1>1, SameMemory DEF CInv
<1>5. \A a \in Heap.roots["slots"] : Simple(a) \in slots'
  BY <1>1, <1>2, RootSlots DEF Visited
<1>6. SlotsOK'
  <2>1. ASSUME NEW slot \in slots'
        PROVE  \E e \in Heap.edges : slot = SlotOf(e)' /\ IsRootEdge(e)'
    <3>1. PICK a \in Heap.roots["slots"] : slot = Simple(a)
      BY <1>1, <1>2 DEF Visited
    <3>2. PICK e \in Heap.edges : e.from = 0 /\ e.at = a /\ SlotOf(e) = Simple(a)
      BY RootSlots
    <3> QED
      BY <1>1, <3>1, <3>2, HeapStays, SameWords DEF IsRootEdge, NotStarted
  <2> QED
    BY <1>1, <2>1, HeapStays DEF SlotsOK
<1>7. BlackOK'
  <2>1. ASSUME NEW e \in Heap.edges, IsScanned(e)'
        PROVE  Pending(e)' \/ Done(e)'
    <3>1. CASE e.from = 0 /\ e.at \in Heap.roots["slots"]
      <4>1. SlotOf(e) = Simple(e.at) /\ Simple(e.at) \in slots'
        BY <1>5, <3>1, RootSlots
      <4>2. SlotOf(e)' = SlotOf(e)
        BY <1>1, SameWords
      <4> QED
        BY <4>1, <4>2 DEF Pending
    <3>2. CASE e.from \in marked' /\ Place(e.from)' \notin nodes'
      <4>1. e.from \in marked
        BY <1>1, <1>3, <3>2 DEF Place
      <4>2. Done(e)
        BY <1>1, <4>1, AllDone
      <4> QED
        BY <1>1, <4>2, SameWords DEF Done
    <3> QED
      BY <1>1, <2>1, <3>1, <3>2, HeapStays DEF IsScanned, IsRootEdge
  <2> QED
    BY <1>1, <2>1, HeapStays DEF BlackOK, Accounted
<1>8. MarksOK'
  <2>1. Heap.roots["nodes"] \subseteq Strong /\ Strong \subseteq Kept /\ Kept \subseteq Objects
    BY <1>2, Reached DEF Needed
  <2> QED
    BY <1>1, <1>2, <2>1, HeapStays DEF CInv, MarksOK
<1>9. WeakOK'
  BY <1>1, HeapStays, SameWords DEF CInv, WeakOK, Cleared
<1> QED
  BY <1>4, <1>6, <1>7, <1>8, <1>9 DEF CInv

LEMMA ScanObjectKeepsCInv ==
  ASSUME CInv, IInv', NEW n \in nodes, ScanObject(n), ScansFindReferences
  PROVE  CInv'
<1>1. /\ UNCHANGED <<mem, heap, moved, weak, moving, phase, marked>>
      /\ nodes' = nodes \ {n}
      /\ slots' = slots \cup Visited(scan_julia_object(n))
  BY DEF ScanObject, otherVars
<1>2. IInv /\ marked \subseteq Objects
  BY DEF CInv, MarksOK
<1>3. PICK o \in marked : n = Place(o)
  BY <1>2 DEF IInv, PlacesOK
<1>4. ObjectAt(n) = o
  BY <1>2, <1>3, PlacesAreApart
<1>5. /\ \A slot \in Visited(scan_julia_object(n)) :
           \E e \in Heap.edges : slot = SlotOf(e) /\ e.from = o
      /\ \A e \in Heap.edges : e.from = o =>
           \/ SlotOf(e) \in slots'
           \/ /\ Follows(e)
              /\ \/ e.to \in marked
                 \/ e.to \notin moving
                    /\ \E f \in Heap.edges : f.from = o /\ f.to = e.to /\ SlotOf(f) \in slots'
  <2>1. \A e \in Heap.edges : e.from = o =>
          Offset(Now(o, e.at), e.off) = SlotOf(e) /\ Load(Now(o, e.at)) = Content(e.at)
    BY <1>2, NowIsAt DEF SlotOf, Content, Load
  <2>2. \A slot \in Visited(scan_julia_object(n)) :
          \E e \in Heap.edges : slot = SlotOf(e) /\ e.from = o
    BY <1>4, <2>1 DEF ScansFindReferences, FindsReferences
  <2>3. ASSUME NEW e \in Heap.edges, e.from = o
        PROVE  \/ SlotOf(e) \in slots'
               \/ /\ Follows(e)
                  /\ \/ e.to \in marked
                     \/ /\ e.to \notin moving
                        /\ \E f \in Heap.edges : f.from = o /\ f.to = e.to /\ SlotOf(f) \in slots'
    BY <1>1, <1>4, <2>1, <2>3 DEF ScansFindReferences, FindsReferences, Follows
  <2> QED
    BY <2>2, <2>3
<1>6. MemoryOK'
  BY <1>1, SameMemory DEF CInv
<1>7. SlotsOK'
  <2>1. \A e : IsRootEdge(e)' <=> IsRootEdge(e)
    BY <1>1, HeapStays DEF IsRootEdge, NotStarted
  <2>2. \A slot \in slots' : \E e \in Heap.edges :
          slot = SlotOf(e) /\ (e.from \in marked \/ IsRootEdge(e))
    BY <1>1, <1>5 DEF CInv, SlotsOK
  <2> QED
    BY <1>1, <2>1, <2>2, HeapStays, SameWords DEF SlotsOK
<1>8. BlackOK'
  <2>1. ASSUME NEW e \in Heap.edges, IsScanned(e)'
        PROVE  Accounted(e)'
    <3>1. CASE IsScanned(e)
      BY <1>1, <3>1, HeapStays, SameWords DEF CInv, BlackOK, Accounted, Pending, Done
    <3>2. CASE ~IsScanned(e)
      <4>1. e.from \in marked /\ Place(e.from) = Place(o)
        BY <1>1, <1>3, <2>1, <3>2, HeapStays, SameWords DEF IsScanned, IsRootEdge, NotStarted
      <4>2. e.from = o
        BY <1>2, <4>1, PlacesAreApart
      <4> QED
        BY <1>1, <1>5, <4>2, HeapStays, SameWords DEF Accounted, Pending, Done
    <3> QED
      BY <3>1, <3>2
  <2> QED
    BY <1>1, <2>1, HeapStays DEF BlackOK
<1>9. MarksOK'
  BY <1>1, HeapStays DEF CInv, MarksOK
<1>10. WeakOK'
  BY <1>1, HeapStays, SameWords DEF CInv, WeakOK, Cleared
<1> QED
  BY <1>6, <1>7, <1>8, <1>9, <1>10 DEF CInv

LEMMA ProcessWeakRefsKeepsCInv ==
  ASSUME CInv, IInv', ProcessWeakRefs
  PROVE  CInv'
<1>1. /\ UNCHANGED <<mem, heap, moved, weak, moving, marked, nodes, slots>>
      /\ phase = "closure" /\ phase' = "weak" /\ nodes = {} /\ slots = {}
  BY DEF ProcessWeakRefs, otherVars, traceVars
<1>2. MemoryOK'
  BY <1>1, SameMemory DEF CInv
<1>3. SlotsOK'
  BY <1>1 DEF SlotsOK
<1>4. BlackOK'
  <2>1. \A e : /\ IsScanned(e)' => IsScanned(e)
               /\ Accounted(e) => Accounted(e)'
    BY <1>1, HeapStays, SameWords
       DEF IsScanned, IsRootEdge, NotStarted, Accounted, Pending, Done
  <2> QED
    BY <1>1, <2>1, HeapStays DEF CInv, BlackOK
<1>5. MarksOK'
  <2>1. heap \in DOMAIN Heaps
    BY Places DEF CInv, MarksOK
  <2>2. Needed \subseteq marked /\ Closed(marked)
    BY <1>1, AllDone DEF NotStarted
  <2>3. Strong \subseteq marked
    BY <2>1, <2>2, Reached
  <2> QED
    BY <1>1, <2>3, HeapStays DEF CInv, MarksOK
<1>6. WeakOK'
  BY <1>1, HeapStays, SameWords DEF CInv, WeakOK, Cleared
<1> QED
  BY <1>2, <1>3, <1>4, <1>5, <1>6 DEF CInv

LEMMA ScanFinalizersKeepsCInv ==
  ASSUME CInv, IInv', ScanFinalizersSingleThreaded
  PROVE  CInv'
<1>1. /\ UNCHANGED <<mem, heap, moved, weak, moving, marked, nodes>>
      /\ phase = "weak" /\ phase' = "vmref" /\ weak = {}
      /\ slots' = Visited({Simple(a) : a \in Heap.finalizers})
  BY DEF ScanFinalizersSingleThreaded, otherVars
<1>2. nodes = {} /\ slots = {}
  BY <1>1 DEF CInv, MarksOK
<1>3. MemoryOK'
  BY <1>1, SameMemory DEF CInv
<1>4. \A a \in Heap.finalizers : Simple(a) \in slots'
  BY <1>1, RootSlots DEF Visited
<1>5. SlotsOK'
  <2>1. ASSUME NEW slot \in slots'
        PROVE  \E e \in Heap.edges : slot = SlotOf(e)' /\ IsRootEdge(e)'
    <3>1. PICK a \in Heap.finalizers : slot = Simple(a)
      BY <1>1 DEF Visited
    <3>2. PICK e \in Heap.edges : e.from = 0 /\ e.at = a /\ SlotOf(e) = Simple(a)
      BY RootSlots
    <3> QED
      BY <1>1, <3>1, <3>2, HeapStays, SameWords DEF IsRootEdge, NotStarted
  <2> QED
    BY <1>1, <2>1, HeapStays DEF SlotsOK
<1>6. BlackOK'
  <2>1. ASSUME NEW e \in Heap.edges, IsScanned(e)'
        PROVE  Pending(e)' \/ Done(e)'
    <3>1. CASE e.from = 0 /\ e.at \in Heap.finalizers
      <4>1. SlotOf(e) = Simple(e.at) /\ Simple(e.at) \in slots'
        BY <1>4, <3>1, RootSlots
      <4>2. SlotOf(e)' = SlotOf(e)
        BY <1>1, SameWords
      <4> QED
        BY <4>1, <4>2 DEF Pending
    <3>2. CASE ~(e.from = 0 /\ e.at \in Heap.finalizers)
      <4>1. e.from \in marked \/ IsRootEdge(e)
        BY <1>1, <2>1, <3>2, HeapStays DEF IsScanned, IsRootEdge, NotStarted
      <4>2. Done(e)
        BY <1>2, <4>1, AllDone
      <4> QED
        BY <1>1, <4>2, SameWords DEF Done
    <3> QED
      BY <3>1, <3>2
  <2> QED
    BY <1>1, <2>1, HeapStays DEF BlackOK, Accounted
<1>7. MarksOK'
  BY <1>1, HeapStays DEF CInv, MarksOK
<1>8. WeakOK'
  BY <1>1, HeapStays, SameWords DEF CInv, WeakOK, Cleared
<1> QED
  BY <1>3, <1>5, <1>6, <1>7, <1>8 DEF CInv

-----------------------------------------------------------------------------
(* Steps that write other words.                                           *)

LEMMA SamePlaces ==
  ASSUME UNCHANGED <<moved, heap>>
  PROVE  /\ \A o : Place(o)' = Place(o)
         /\ \A a : At(a)' = At(a)
         /\ \A e : SlotOf(e)' = SlotOf(e)
<1>1. \A o : Place(o)' = Place(o)
  BY DEF Place
<1>2. \A a : At(a)' = At(a)
  BY HeapStays DEF At
<1> QED
  BY <1>1, <1>2 DEF SlotOf

LEMMA SameEdges ==
  ASSUME CInv, UNCHANGED <<heap, moved, moving, marked, nodes, slots>>,
         \A e \in Heap.edges : Content(e.at)' = Content(e.at),
         \A e \in Heap.edges : IsRootEdge(e)' <=> IsRootEdge(e)
  PROVE  EdgesOK' /\ SlotsOK' /\ BlackOK'
<1>1. \A e \in Heap.edges : Follows(e)' <=> Follows(e)
  BY SamePlaces DEF Follows
<1>2. EdgesOK'
  BY <1>1, SamePlaces, HeapStays DEF CInv, MemoryOK, EdgesOK
<1>3. SlotsOK'
  BY SamePlaces, HeapStays DEF CInv, SlotsOK
<1>4. ASSUME NEW e \in Heap.edges
      PROVE  (IsScanned(e)' => IsScanned(e)) /\ (Accounted(e) => Accounted(e)')
  BY <1>1, SamePlaces, HeapStays DEF IsScanned, Accounted, Pending, Done
<1>5. BlackOK'
  BY <1>4, HeapStays DEF CInv, BlackOK
<1> QED
  BY <1>2, <1>3, <1>5

LEMMA WeakValueWord ==
  ASSUME IInv, marked \subseteq Objects, NEW r \in Heap.weak
  PROVE  /\ r \in Objects /\ jl_weakref_t.value = 0 /\ r + jl_weakref_t.value = r
         /\ r \in Original /\ At(r) = Place(r) /\ At(r) \in DOMAIN mem
         /\ WeakValueOf(r) \in Objects \cup {jl_nothing}
         /\ \A e \in Heap.edges : e.at # r
         /\ \A a \in Original : At(a) = At(r) => a = r
         /\ jl_nothing \notin moved
<1>1. /\ heap \in DOMAIN Heaps /\ moved \subseteq Objects /\ moved \subseteq Movable
      /\ DOMAIN mem = DOMAIN Heap.mem
  BY Places
<1>2. WeakValues(Heap) /\ jl_weakref_t.value = 0
  BY <1>1, HeapsAssumption DEF Heap, jl_weakref_t
<1>3. r \in Objects /\ r + 0 = r
  BY <1>1, <1>2, Layouts DEF WeakValues, Objects
<1>4. /\ r \in DOMAIN Heap.mem /\ InObject(r, r)
      /\ WeakValueOf(r) \in Objects \cup {jl_nothing}
      /\ \A e \in Heap.edges : e.at # r
  BY <1>2, <1>3 DEF WeakValues, Objects, InObject, WeakValueOf
<1>5. At(r + 0) = Place(r) + 0 /\ r \in Original
  BY <1>3, <1>4, AtPlace
<1>6. Place(r) + 0 = Place(r)
  BY <1>3, PlacesAreApart
<1>7. At(r) \in DOMAIN mem
  BY <1>1, <1>3, <1>4, WordsOfObjects DEF At
<1>8. jl_nothing \notin moved
  BY <1>1, <1>2 DEF WeakValues, Movable, CanMove
<1> QED
  BY <1>1, <1>2, <1>3, <1>4, <1>5, <1>6, <1>7, <1>8, WordsStayApart

\* What a step that processes a weak reference does.
LEMMA ProcessedWeakRef ==
  ASSUME CInv, NEW r \in weak, ProcessWeakRef(r)
  PROVE  /\ Content(r)' = Cleared(r)
         /\ \A a \in Original : a # r => Content(a)' = Content(a)
<1>1. /\ UNCHANGED <<heap, moved, moving, marked, nodes, slots, phase>>
      /\ phase = "weak" /\ weak' = weak \ {r}
  BY DEF ProcessWeakRef, traceVars
<1>2. /\ IInv /\ marked \subseteq Objects /\ marked = Strong /\ r \in Heap.weak
      /\ heap \in DOMAIN Heaps
  BY <1>1, Places DEF CInv, MarksOK, WeakOK
<1>3. /\ r \in Objects /\ jl_weakref_t.value = 0 /\ r + jl_weakref_t.value = r
      /\ r \in Original /\ At(r) = Place(r) /\ At(r) \in DOMAIN mem
      /\ WeakValueOf(r) \in Objects \cup {jl_nothing}
      /\ \A e \in Heap.edges : e.at # r
      /\ \A a \in Original : At(a) = At(r) => a = r
      /\ jl_nothing \notin moved
  BY <1>2, WeakValueWord
<1>4. Content(r) = WeakValueOf(r)
  BY <1>2, <1>3 DEF CInv, WeakOK
<1>5. Place(r) + jl_weakref_t.value = At(r)
  BY <1>2, <1>3, PlacesAreApart
<1>6. get_referent(Place(r)) = WeakValueOf(r)
  BY <1>4, <1>5 DEF get_referent, Load, Content
<1>7. /\ Content(r)' = Cleared(r)
      /\ \A a \in Original : a # r => Content(a)' = Content(a)
  <2>1. CASE WeakValueOf(r) = jl_nothing
    <3>1. mem' = mem
      BY <1>6, <2>1 DEF ProcessWeakRef
    <3>2. Cleared(r) = jl_nothing
      BY <1>3, <2>1 DEF Cleared, Place
    <3> QED
      BY <1>1, <1>4, <2>1, <3>1, <3>2, SamePlaces DEF Content
  <2>2. CASE WeakValueOf(r) # jl_nothing
    <3>1. ObjectAt(WeakValueOf(r)) = WeakValueOf(r)
      BY <1>3, <2>2 DEF ObjectAt
    <3>2. mem' = [mem EXCEPT ![At(r)] = Cleared(r)]
      BY <1>2, <1>5, <1>6, <2>2, <3>1 DEF ProcessWeakRef, SetReferent, Live, Cleared
    <3>3. Content(r)' = mem'[At(r)] /\ \A a : Content(a)' = mem'[At(a)]
      BY <1>1, SamePlaces DEF Content
    <3> QED
      BY <1>3, <3>2, <3>3 DEF Content
  <2> QED
    BY <2>1, <2>2
<1> QED
  BY <1>7

LEMMA ProcessWeakRefKeepsCInv ==
  ASSUME CInv, IInv', NEW r \in weak, ProcessWeakRef(r)
  PROVE  CInv'
<1>1. /\ UNCHANGED <<heap, moved, moving, marked, nodes, slots, phase>>
      /\ phase = "weak" /\ weak' = weak \ {r}
  BY DEF ProcessWeakRef, traceVars
<1>2. /\ IInv /\ marked \subseteq Objects /\ marked = Strong /\ r \in Heap.weak
      /\ heap \in DOMAIN Heaps
  BY <1>1, Places DEF CInv, MarksOK, WeakOK
<1>3. /\ r \in Objects /\ jl_weakref_t.value = 0 /\ r + jl_weakref_t.value = r
      /\ r \in Original /\ At(r) = Place(r) /\ At(r) \in DOMAIN mem
      /\ WeakValueOf(r) \in Objects \cup {jl_nothing}
      /\ \A e \in Heap.edges : e.at # r
      /\ \A a \in Original : At(a) = At(r) => a = r
      /\ jl_nothing \notin moved
  BY <1>2, WeakValueWord
<1>7. /\ Content(r)' = Cleared(r)
      /\ \A a \in Original : a # r => Content(a)' = Content(a)
  BY ProcessedWeakRef
<1>8. WordsOK'
  BY <1>1, <1>2, <1>3, <1>7, HeapStays DEF CInv, MemoryOK, WordsOK
<1>9. \A e \in Heap.edges : Content(e.at)' = Content(e.at)
  BY <1>2, <1>3, <1>7, EdgesOfHeap
<1>10. \A e \in Heap.edges : IsRootEdge(e)' <=> IsRootEdge(e)
  BY <1>1, HeapStays DEF IsRootEdge, NotStarted
<1>11. EdgesOK' /\ SlotsOK' /\ BlackOK'
  BY <1>1, <1>9, <1>10, SameEdges
<1>12. MarksOK'
  BY <1>1, HeapStays DEF CInv, MarksOK
<1>13. MemoryOK'
  BY <1>1, <1>2, <1>8, <1>11, <1>12, SizesStay DEF CInv, MarksOK
<1>14. WeakOK'
  <2>1. ASSUME NEW q \in Heap.weak
        PROVE  Content(q + jl_weakref_t.value)'
                 = IF q \in weak' THEN WeakValueOf(q) ELSE Cleared(q)'
    <3>1. Cleared(q)' = Cleared(q)
      BY <1>1, HeapStays, SamePlaces DEF Cleared
    <3>2. q + jl_weakref_t.value = q /\ q \in Original
      BY <1>2, WeakValueWord
    <3>3. CASE q = r
      BY <1>1, <1>7, <3>1, <3>2, <3>3
    <3>4. CASE q # r
      BY <1>1, <1>7, <3>1, <3>2, <3>4 DEF CInv, WeakOK
    <3> QED
      BY <3>3, <3>4
  <2> QED
    BY <1>1, <2>1, HeapStays DEF CInv, WeakOK
<1> QED
  BY <1>11, <1>12, <1>13, <1>14 DEF CInv

\* The words of the tables are beside the objects.
LEMMA TableWord ==
  ASSUME IInv, marked \subseteq Objects, NEW t, TableOf(t)
  PROVE  /\ t \in Original /\ At(t) = t
         /\ \A e \in Heap.edges : e.at # t
         /\ \A r \in Heap.weak : t # r + jl_weakref_t.value
<1>1. heap \in DOMAIN Heaps /\ moved \subseteq Objects
  BY Places
<1>2. TablesAreOutside(Heap)
  BY <1>1, HeapsAssumption DEF Heap
<1>3. /\ t \in DOMAIN Heap.mem
      /\ \A o \in Objects : ~InObject(o, t) /\ ~InObject(o, t - Delta)
      /\ \A e \in Heap.edges : e.at # t
  BY <1>2 DEF TablesAreOutside, TableOf, SweptLists, Objects, InObject
<1>4. \A r \in Heap.weak : t # r + jl_weakref_t.value
  <2>1. \A r \in Heap.weak : r \in Objects /\ r + jl_weakref_t.value = r
    BY WeakValueWord
  <2> QED
    BY <1>1, <1>3, <2>1, Layouts
<1> QED
  BY <1>1, <1>3, <1>4 DEF Original, At

LEMMA SweptWords ==
  ASSUME CInv, phase # "done", NEW list \in SweptLists
  PROVE  DOMAIN Swept(list) \subseteq TableWords(Heap, list)
<1> DEFINE n == Heap.mem[list + small_arraylist_t.len]
<1>1. mem[list + small_arraylist_t.len] = n
  <2>1. TableOf(list + small_arraylist_t.len)
    BY DEF TableOf, TableWords
  <2>2. IInv /\ marked \subseteq Objects /\ WordsOK
    BY DEF CInv, MarksOK, MemoryOK
  <2>3. Content(list + small_arraylist_t.len) = n
    BY <2>1, <2>2, TableWord DEF WordsOK
  <2> QED
    BY <2>1, <2>2, <2>3, TableWord DEF Content
<1> HIDE DEF n
<1>2. DOMAIN Entries(list, mem) = 1 .. n
  BY <1>1 DEF Entries
<1>3. DOMAIN Swept(list) = {EntryAddr(Heap, list, i) : i \in 1 .. n}
                           \cup {list + small_arraylist_t.len}
  BY <1>2 DEF Swept
<1> QED
  BY <1>3 DEF TableWords, n

LEMMA SweepKeepsCInv ==
  ASSUME CInv, IInv', SweepVMSpecific
  PROVE  CInv'
<1>1. /\ UNCHANGED <<heap, moved, moving, marked, nodes, slots, weak>>
      /\ phase = "vmref" /\ phase' = "done" /\ nodes = {} /\ slots = {}
  BY DEF SweepVMSpecific, traceVars, otherVars
<1>2. IInv /\ marked \subseteq Objects /\ heap \in DOMAIN Heaps /\ moved \subseteq Objects
  BY Places DEF CInv, MarksOK
<1>3. ASSUME NEW a \in Original, ~TableOf(a)
      PROVE  Content(a)' = Content(a)
  <2>1. \A list \in SweptLists : At(a) \notin DOMAIN Swept(list)
    <3>1. SUFFICES ASSUME NEW list \in SweptLists, At(a) \in TableWords(Heap, list)
                   PROVE  FALSE
      BY <1>1, SweptWords
    <3>2. TableOf(At(a))
      BY <3>1 DEF TableOf
    <3>3. At(a) \in Original /\ At(At(a)) = At(a)
      BY <1>2, <3>2, TableWord
    <3>4. a = At(a)
      BY <1>2, <3>3, WordsStayApart
    <3> QED
      BY <1>3, <3>2, <3>4
  <2>2. At(a) \in DOMAIN mem
    BY <1>2, WordsOfObjects, Places DEF At, Original
  <2>3. mem'[At(a)] = mem[At(a)]
    BY <2>1, <2>2 DEF SweepVMSpecific
  <2> QED
    BY <1>1, <2>3, SamePlaces DEF Content
<1>4. WordsOK'
  BY <1>1, <1>3, HeapStays DEF CInv, MemoryOK, WordsOK
<1>5. \A e \in Heap.edges : Content(e.at)' = Content(e.at)
  BY <1>2, <1>3, TableWord, EdgesOfHeap
<1>6. \A e \in Heap.edges : IsRootEdge(e)' <=> IsRootEdge(e)
  BY <1>1, HeapStays DEF IsRootEdge, NotStarted
<1>7. EdgesOK' /\ SlotsOK' /\ BlackOK'
  BY <1>1, <1>5, <1>6, SameEdges
<1>8. MarksOK'
  <2>1. Closed(marked) /\ Finalized \subseteq marked /\ Strong \subseteq marked
    BY <1>1, AllDone DEF CInv, MarksOK
  <2>2. Kept \subseteq marked
    BY <1>2, <2>1, Reached
  <2> QED
    BY <1>1, <2>2, HeapStays DEF CInv, MarksOK
<1>9. MemoryOK'
  BY <1>1, <1>2, <1>4, <1>7, <1>8, SizesStay DEF CInv, MarksOK
<1>10. WeakOK'
  <2>1. ASSUME NEW r \in Heap.weak
        PROVE  Content(r + jl_weakref_t.value)' = Content(r + jl_weakref_t.value)
    <3>1. r + jl_weakref_t.value = r /\ r \in Original
      BY <1>2, WeakValueWord
    <3>2. ~TableOf(r)
      BY <1>2, <3>1, TableWord
    <3> QED
      BY <1>3, <3>1, <3>2
  <2>2. \A r : Cleared(r)' = Cleared(r)
    BY <1>1, HeapStays, SamePlaces DEF Cleared
  <2> QED
    BY <1>1, <2>1, <2>2, HeapStays DEF CInv, WeakOK
<1> QED
  BY <1>7, <1>8, <1>9, <1>10 DEF CInv

-----------------------------------------------------------------------------
(* ProcessSlot.                                                            *)

\* The copy of an object has its words, and a pointer to its own elements.
LEMMA CopiedWords ==
  ASSUME CInv, NEW o \in Movable, o \notin moved
  PROVE  /\ ref_to_object_start(o) = o - 8 /\ get_so_object_size(o) = Heap.size[o]
         /\ DOMAIN copy(o, o + Delta) = DOMAIN mem
         /\ \A a \in DOMAIN mem :
              copy(o, o + Delta)[a] =
                IF IsInlined(o) /\ a = o + Delta + 8 THEN o + Delta + 16
                ELSE IF InObject(o, a - Delta) THEN mem[a - Delta] ELSE mem[a]
<1>1. /\ heap \in DOMAIN Heaps /\ o \in Objects /\ Place(o) = o
      /\ DOMAIN mem = DOMAIN Heap.mem
  BY Places, MovableObjects DEF CInv, MarksOK, Place
<1>2. /\ o \in Nat /\ Delta \in Nat /\ JULIA_HEADER_SIZE = 8 /\ Heap.size[o] \in Nat
      /\ DOMAIN mem \subseteq Nat
  BY <1>1, Layouts
<1>3. ref_to_object_start(o) = o - 8 /\ get_so_object_size(o) = Heap.size[o]
  BY <1>1, <1>2 DEF CInv, MemoryOK, SizesStayRight
<1> DEFINE copied == [a \in DOMAIN mem |-> IF InObject(o, a - Delta) THEN mem[a - Delta] ELSE mem[a]]
<1>4. copy(o, o + Delta) = UpdateInlinedArray(o, o + Delta, copied)
  <2> DEFINE start == ref_to_object_start(o)
             dst == (o + Delta) - (o - start)
             end == dst + get_so_object_size(o)
  <2>1. start = o - 8 /\ dst = o + Delta - 8 /\ end = dst + Heap.size[o]
    BY <1>2, <1>3
  <2>2. ASSUME NEW a \in DOMAIN mem
        PROVE  /\ dst <= a /\ a < end <=> InObject(o, a - Delta)
               /\ a - dst + start = a - Delta
    BY <1>2, <2>1 DEF InObject, Inside
  <2> HIDE DEF start, dst, end
  <2>3. copied = [a \in DOMAIN mem |-> IF dst <= a /\ a < end THEN mem[a - dst + start] ELSE mem[a]]
    BY <2>2
  <2> HIDE DEF copied
  <2> QED
    BY <2>3 DEF copy, start, dst, end
<1>5. UpdateInlinedArray(o, o + Delta, copied)
        = IF IsInlined(o) THEN [copied EXCEPT ![o + Delta + 8] = o + Delta + 16] ELSE copied
  BY DEF UpdateInlinedArray, IsInlined, jl_genericmemory_t
<1> QED
  BY <1>3, <1>4, <1>5

\* What trace_object makes of memory when it moves an object: the words of the
\* heap are what they were, wherever they are then, but for that pointer.
Old(words, o) ==
  [a \in DOMAIN words |->
     CASE a = o - JULIA_HEADER_SIZE -> o + Delta
       [] a # o - JULIA_HEADER_SIZE /\ debug_assertions
          /\ ref_to_object_start(o) <= a
          /\ a < ref_to_object_start(o) + get_so_object_size(o) -> 0
       [] OTHER -> words[a]]

LEMMA MovedWords ==
  ASSUME CInv, NEW o \in Movable, o \notin moved, NEW a \in Original
  PROVE  LET place == IF InObject(o, a) THEN a + Delta ELSE At(a)
             words == Old(copy(o, o + Delta), o)
         IN  /\ place \in DOMAIN mem /\ DOMAIN words = DOMAIN mem
             /\ words[place] = IF IsInlined(o) /\ a = o + 8 THEN o + Delta + 16 ELSE Content(a)
<1> DEFINE place == IF InObject(o, a) THEN a + Delta ELSE At(a)
           words == Old(copy(o, o + Delta), o)
<1>1. /\ heap \in DOMAIN Heaps /\ o \in Objects /\ moved \subseteq Objects
      /\ DOMAIN mem = DOMAIN Heap.mem
  BY Places, MovableObjects DEF CInv, MarksOK
<1>2. /\ o \in Nat /\ Delta \in Nat \ {0} /\ JULIA_HEADER_SIZE = 8
      /\ DOMAIN mem \subseteq Nat /\ InObject(o, o - 8) /\ Heap.size[o] \in Nat
      /\ a \in Nat /\ a \in DOMAIN mem
  BY <1>1, Layouts DEF Original
<1>3. /\ ref_to_object_start(o) = o - 8 /\ get_so_object_size(o) = Heap.size[o]
      /\ DOMAIN copy(o, o + Delta) = DOMAIN mem
      /\ \A b \in DOMAIN mem :
           copy(o, o + Delta)[b] =
             IF IsInlined(o) /\ b = o + Delta + 8 THEN o + Delta + 16
             ELSE IF InObject(o, b - Delta) THEN mem[b - Delta] ELSE mem[b]
  BY CopiedWords
<1>4. DOMAIN words = DOMAIN mem
  BY <1>3 DEF Old
<1>5. ASSUME NEW b \in DOMAIN mem, ~InObject(o, b)
      PROVE  words[b] = copy(o, o + Delta)[b]
  <2>1. b \in Nat /\ b # o - 8 /\ ~(o - 8 <= b /\ b < o - 8 + Heap.size[o])
    BY <1>2, <1>5 DEF InObject, Inside
  <2> QED
    BY <1>2, <1>3, <1>4, <1>5, <2>1 DEF Old
<1>6. place \in DOMAIN mem /\ ~InObject(o, place)
  BY <1>1, <1>2, WordsOfObjects DEF At
<1>7. CASE InObject(o, a)
  <2>1. At(a) = a /\ place - Delta = a /\ (place = o + Delta + 8 <=> a = o + 8)
    BY <1>1, <1>2, <1>7, WordsOfObjects DEF At
  <2> QED
    BY <1>3, <1>4, <1>5, <1>6, <1>7, <2>1 DEF Content
<1>8. CASE ~InObject(o, a)
  <2>1. ~InObject(o, place - Delta)
    <3>1. (a + Delta) - Delta = a /\ ~InObject(o, a - Delta)
      BY <1>1, <1>2 DEF Original
    <3> QED
      BY <1>8, <3>1 DEF At
  <2>2. IsInlined(o) => place # o + Delta + 8 /\ a # o + 8
    <3>1. SUFFICES ASSUME IsInlined(o)
                   PROVE  InObject(o, o + 8)
      BY <1>2, <1>6, <1>8, <2>1
    <3>2. Place(o) = o /\ HasName(o, "GenericMemory")
      BY <3>1 DEF Place, IsInlined
    <3> QED
      BY <3>2 DEF CInv, MemoryOK, FieldsOK, HasFields, jl_genericmemory_t
  <2> QED
    BY <1>3, <1>4, <1>5, <1>6, <1>8, <2>1, <2>2 DEF Content
<1> QED
  BY <1>4, <1>6, <1>7, <1>8

Moves(o) == o \in moving \ (marked \cup pinned) /\ phase # "tpin"

LEMMA SlotEdge ==
  ASSUME CInv, NEW slot \in slots
  PROVE  \E e \in Heap.edges :
           /\ slot = SlotOf(e) /\ (e.from \in marked \/ IsRootEdge(e))
           /\ LoadSlot(slot) \in {e.to, Place(e.to)} /\ ObjectAt(LoadSlot(slot)) = e.to
<1>1. heap \in DOMAIN Heaps /\ IInv /\ marked \subseteq Objects
  BY Places DEF CInv, MarksOK
<1>2. PICK e \in Heap.edges : slot = SlotOf(e) /\ (e.from \in marked \/ IsRootEdge(e))
  BY DEF CInv, SlotsOK
<1>3. /\ e.to \in Objects /\ e.off \in Nat /\ e.to \in Nat /\ Place(e.to) \in Nat
      /\ ObjectAt(e.to) = e.to /\ ObjectAt(Place(e.to)) = e.to
  BY <1>1, EdgesOfHeap, Layouts, PlacesAreApart
<1>4. Content(e.at) \in {e.to + e.off, Place(e.to) + e.off}
  BY DEF CInv, MemoryOK, EdgesOK
<1>5. LoadSlot(slot) = Content(e.at) - e.off
  BY <1>2 DEF LoadSlot, SlotOf, Offset, Load, Content
<1>6. LoadSlot(slot) \in {e.to, Place(e.to)}
  BY <1>3, <1>4, <1>5
<1> QED
  BY <1>2, <1>3, <1>6

\* What a step that processes the slot of an edge does.
LEMMA ProcessedSlot ==
  ASSUME CInv, NEW e \in Heap.edges, e.from \in marked \cup {0}, SlotOf(e) \in slots,
         trace_object(e.to, SlotOf(e)), heap' = heap, moving' = moving
  PROVE  /\ marked' = marked \cup {e.to}
         /\ moved' = IF Moves(e.to) THEN moved \cup {e.to} ELSE moved
         /\ nodes' = IF e.to \in marked THEN nodes ELSE nodes \cup {Place(e.to)'}
         /\ ~NotStarted /\ e.to \in Objects
         /\ Moves(e.to) => e.to \in Movable /\ e.to \notin moved
         /\ \A f \in Heap.edges : f.from \in marked \cup {0} => SlotOf(f)' = SlotOf(f)
         /\ \A a \in Original :
              Content(a)' = IF a = e.at THEN Place(e.to)' + e.off
                            ELSE IF Moves(e.to) /\ IsInlined(e.to) /\ a = e.to + 8
                            THEN e.to + Delta + 16 ELSE Content(a)
<1> DEFINE o == e.to
<1>1. /\ heap \in DOMAIN Heaps /\ IInv /\ marked \subseteq Objects /\ moved \subseteq marked
      /\ moved \subseteq Objects /\ ~NotStarted
      /\ moving \in Heap.moving /\ Heap.roots["tpinned"] \subseteq marked
      /\ phase # "tpin" => Heap.roots["nodes"] \subseteq marked
      /\ DOMAIN mem = DOMAIN Heap.mem
  BY Places DEF CInv, MarksOK
<1>2. o \in Objects /\ e.at \in Original /\ e.off \in Nat
  BY <1>1, EdgesOfHeap
<1>3. Moves(o) => o \in Movable /\ o \notin moved
  BY <1>1 DEF Moves, Movable, CanMove
<1>4. /\ marked' = marked \cup {o}
      /\ moved' = IF Moves(o) THEN moved \cup {o} ELSE moved
  BY DEF trace_object, Moves
<1>5. Place(o)' = IF Moves(o) THEN o + Delta ELSE Place(o)
  BY <1>3, <1>4 DEF Place
<1>6. nodes' = IF o \in marked THEN nodes ELSE nodes \cup {Place(o)'}
  BY <1>5 DEF trace_object, Moves
<1>7. mem' = [(IF Moves(o) THEN Old(copy(o, o + Delta), o) ELSE mem)
                EXCEPT ![At(e.at)] = Place(o)' + e.off]
  BY <1>5 DEF trace_object, Moves, Old, SlotOf, Offset
<1>8. ASSUME NEW a \in Original
      PROVE  At(a)' = IF Moves(o) /\ InObject(o, a) THEN a + Delta ELSE At(a)
  BY <1>4, HeapStays DEF At
<1>9. ASSUME NEW f \in Heap.edges, f.from \in marked \cup {0}
      PROVE  At(f.at)' = At(f.at)
  <2>0. f.at \in Original
    BY <1>1, EdgesOfHeap
  <2>1. SUFFICES ASSUME Moves(o), InObject(o, f.at)
                 PROVE  FALSE
    BY <1>8, <2>0
  <2>2. o = f.from \/ o \in Heap.roots["tpinned"]
    BY <1>1, <1>2, <2>1, EdgesOfHeap
  <2>3. o \notin marked /\ o # 0
    BY <1>1, <1>2, <2>1, Layouts DEF Moves
  <2> QED
    BY <1>1, <1>9, <2>2, <2>3
<1>10. At(e.at) \in DOMAIN mem
  BY <1>1, <1>2, WordsOfObjects DEF At, Original
<1>11. ASSUME NEW a \in Original
       PROVE  Content(a)' = IF a = e.at THEN Place(o)' + e.off
                            ELSE IF Moves(o) /\ IsInlined(o) /\ a = o + 8
                            THEN o + Delta + 16 ELSE Content(a)
  <2>1. CASE a = e.at
    <3>1. Content(a)' = mem'[At(e.at)]
      BY <1>9, <2>1 DEF Content
    <3>2. At(e.at) \in DOMAIN (IF Moves(o) THEN Old(copy(o, o + Delta), o) ELSE mem)
      BY <1>2, <1>3, <1>10, MovedWords
    <3> QED
      BY <1>7, <2>1, <3>1, <3>2
  <2>2. CASE a # e.at
    <3>1. At(a)' # At(e.at)
      <4>1. moved' \subseteq Objects' /\ heap' \in DOMAIN Heaps /\ a \in Original' /\ e.at \in Original'
        BY <1>1, <1>2, <1>4, HeapStays
      <4> QED
        BY <1>9, <2>2, <4>1, WordsStayThen
    <3>2. CASE Moves(o)
      <4> DEFINE place == IF InObject(o, a) THEN a + Delta ELSE At(a)
                 words == Old(copy(o, o + Delta), o)
      <4>1. /\ place \in DOMAIN words
            /\ words[place] = IF IsInlined(o) /\ a = o + 8 THEN o + Delta + 16 ELSE Content(a)
        BY <1>3, <3>2, MovedWords
      <4>2. At(a)' = place
        BY <1>8, <3>2
      <4> HIDE DEF place, words
      <4>3. mem' = [words EXCEPT ![At(e.at)] = Place(o)' + e.off]
        BY <1>7, <3>2 DEF words
      <4>4. mem'[place] = words[place]
        BY <3>1, <4>1, <4>2, <4>3
      <4>5. Content(a)' = mem'[place]
        BY <4>2 DEF Content
      <4> QED
        BY <2>2, <3>2, <4>1, <4>4, <4>5
    <3>3. CASE ~Moves(o)
      <4>1. mem' = [mem EXCEPT ![At(e.at)] = Place(o)' + e.off] /\ At(a)' = At(a)
        BY <1>7, <1>8, <3>3
      <4>2. At(a) \in DOMAIN mem
        BY <1>1, WordsOfObjects DEF At, Original
      <4> QED
        BY <2>2, <3>1, <3>3, <4>1, <4>2 DEF Content
    <3> QED
      BY <3>2, <3>3
  <2> QED
    BY <2>1, <2>2
<1>12. \A f \in Heap.edges : f.from \in marked \cup {0} => SlotOf(f)' = SlotOf(f)
  BY <1>9 DEF SlotOf
<1> QED
  BY <1>1, <1>2, <1>3, <1>4, <1>6, <1>11, <1>12

LEMMA ProcessSlotKeepsCInv ==
  ASSUME CInv, IInv', NEW slot \in slots, ProcessSlot(slot)
  PROVE  CInv'
<1>1. /\ UNCHANGED <<heap, moving, phase, weak>> /\ slots' = slots \ {slot}
      /\ trace_object(ObjectAt(LoadSlot(slot)), slot)
  BY DEF ProcessSlot, otherVars
<1>2. PICK e \in Heap.edges :
        /\ slot = SlotOf(e) /\ (e.from \in marked \/ IsRootEdge(e))
        /\ ObjectAt(LoadSlot(slot)) = e.to
  BY SlotEdge
<1>3. e.from \in marked \cup {0}
  BY <1>2 DEF IsRootEdge
<1> DEFINE o == e.to
<1>4. /\ marked' = marked \cup {o}
      /\ moved' = IF Moves(o) THEN moved \cup {o} ELSE moved
      /\ nodes' = IF o \in marked THEN nodes ELSE nodes \cup {Place(o)'}
      /\ ~NotStarted /\ o \in Objects
      /\ Moves(o) => o \in Movable /\ o \notin moved
      /\ \A f \in Heap.edges : f.from \in marked \cup {0} => SlotOf(f)' = SlotOf(f)
      /\ \A a \in Original :
           Content(a)' = IF a = e.at THEN Place(o)' + e.off
                         ELSE IF Moves(o) /\ IsInlined(o) /\ a = o + 8
                         THEN o + Delta + 16 ELSE Content(a)
  BY <1>1, <1>2, <1>3, ProcessedSlot
<1>5. /\ heap \in DOMAIN Heaps /\ IInv /\ marked \subseteq Objects /\ moved \subseteq marked
      /\ moved \subseteq Objects
  BY Places DEF CInv, MarksOK
<1>6. \A x : Place(x)' = IF Moves(o) /\ x = o THEN o + Delta ELSE Place(x)
  BY <1>4 DEF Place
<1>7. Moves(o) => Place(o) = o /\ o \in moving /\ o \notin marked
  BY <1>4 DEF Place, Moves
<1>8. Moves(o) => (IsInlined(o) <=> \E g \in Heap.edges : PointsBehind(g, o))
  BY <1>4, <1>7 DEF CInv, MemoryOK, SizesStayRight
<1>9. ASSUME Moves(o), IsInlined(o)
      PROVE  \E g \in Heap.edges : g.at = o + 8 /\ g.to = o /\ g.off = 16
  BY <1>8, <1>9 DEF PointsBehind, jl_genericmemory_t
\* What becomes of the word of an edge.
<1>10. ASSUME NEW f \in Heap.edges
       PROVE  /\ f.at \in Original
              /\ f.at = e.at => f.to = o /\ f.off = e.off
              /\ Moves(o) /\ IsInlined(o) /\ f.at = o + 8 => f.to = o /\ f.off = 16
  BY <1>5, <1>9, EdgesOfHeap
<1>11. ASSUME NEW f \in Heap.edges, Follows(f), f.to \in marked \/ f.to \notin moving
       PROVE  Follows(f)'
  <2>1. Moves(o) => f.to # o
    BY <1>7, <1>11
  <2>2. Place(f.to)' = Place(f.to)
    BY <1>6, <2>1
  <2>3. CASE f.at = e.at
    BY <1>4, <1>10, <2>3 DEF Follows
  <2>4. CASE f.at # e.at
    <3>1. Content(f.at)' = Content(f.at)
      BY <1>4, <1>10, <2>1, <2>4
    <3> QED
      BY <1>11, <2>2, <3>1 DEF Follows
  <2> QED
    BY <2>3, <2>4
<1>12. ASSUME NEW f \in Heap.edges, Done(f)
       PROVE  Done(f)'
  BY <1>4, <1>11, <1>12 DEF Done
<1>13. EdgesOK'
  <2>1. ASSUME NEW f \in Heap.edges
        PROVE  Content(f.at)' \in {f.to + f.off, Place(f.to)' + f.off}
    <3>1. CASE f.at = e.at
      BY <1>4, <1>10, <3>1
    <3>2. CASE f.at # e.at /\ Moves(o) /\ IsInlined(o) /\ f.at = o + 8
      BY <1>4, <1>6, <1>10, <3>2
    <3>3. CASE f.at # e.at /\ ~(Moves(o) /\ IsInlined(o) /\ f.at = o + 8)
      <4>1. Content(f.at)' = Content(f.at)
        BY <1>4, <1>10, <3>3
      <4>2. Content(f.at) \in {f.to + f.off, Place(f.to) + f.off}
        BY DEF CInv, MemoryOK, EdgesOK
      <4> QED
        BY <1>6, <1>7, <4>1, <4>2
    <3> QED
      BY <3>1, <3>2, <3>3
  <2>2. ASSUME NEW f \in Heap.edges, NEW m \in Movable, PointsBehind(f, m)
        PROVE  Follows(f)'
    <3>1. f.to = m /\ f.at = m + 8 /\ f.off = 16
      BY <2>2 DEF PointsBehind, jl_genericmemory_t
    <3>2. CASE f.at = e.at
      BY <1>4, <1>10, <3>2 DEF Follows
    <3>3. CASE f.at # e.at /\ Moves(o) /\ m = o
      <4>1. Content(f.at)' = o + Delta + 16
        BY <1>4, <1>8, <1>10, <2>2, <3>1, <3>3
      <4> QED
        BY <1>6, <3>1, <3>3, <4>1 DEF Follows
    <3>4. CASE f.at # e.at /\ ~(Moves(o) /\ m = o)
      <4>1. Content(f.at)' = Content(f.at) /\ Place(f.to)' = Place(f.to)
        BY <1>4, <1>6, <1>10, <3>1, <3>4
      <4>2. Follows(f)
        BY <2>2 DEF CInv, MemoryOK, EdgesOK
      <4> QED
        BY <4>1, <4>2 DEF Follows
    <3> QED
      BY <3>2, <3>3, <3>4
  <2> QED
    BY <1>1, <2>1, <2>2, HeapStays DEF EdgesOK, PointsBehind
<1>14. ASSUME NEW a \in Original, \A f \in Heap.edges : f.at # a
       PROVE  Content(a)' = Content(a)
  BY <1>4, <1>9, <1>14
<1>15. WordsOK'
  BY <1>1, <1>14, HeapStays DEF CInv, MemoryOK, WordsOK
<1>16. \A f : IsRootEdge(f)' <=> IsRootEdge(f)
  BY <1>1, HeapStays DEF IsRootEdge, NotStarted
<1>17. SlotsOK'
  <2>1. ASSUME NEW s \in slots'
        PROVE  \E f \in Heap.edges : s = SlotOf(f)' /\ (f.from \in marked' \/ IsRootEdge(f)')
    <3>1. PICK f \in Heap.edges : s = SlotOf(f) /\ (f.from \in marked \/ IsRootEdge(f))
      BY <1>1, <2>1 DEF CInv, SlotsOK
    <3> QED
      BY <1>4, <1>16, <3>1 DEF IsRootEdge
  <2> QED
    BY <1>1, <2>1, HeapStays DEF SlotsOK
<1>18. ASSUME NEW f \in Heap.edges, f.from \in marked \cup {0}, Pending(f) \/ Done(f)
       PROVE  Pending(f)' \/ Done(f)'
  <2>1. CASE SlotOf(f) \in slots'
    BY <1>4, <1>18, <2>1 DEF Pending
  <2>2. CASE Pending(f) /\ SlotOf(f) = slot
    <3>1. At(f.at) = At(e.at)
      BY <1>2, <2>2 DEF SlotOf, Offset
    <3>2. f.at = e.at
      BY <1>5, <1>10, <3>1, WordsStayApart
    <3>3. f.to = o /\ Follows(f)'
      BY <1>4, <1>10, <3>2 DEF Follows
    <3> QED
      BY <1>4, <3>3 DEF Done
  <2>3. CASE Done(f)
    BY <1>12, <2>3
  <2> QED
    BY <1>1, <1>18, <2>1, <2>2, <2>3 DEF Pending
<1>19. BlackOK'
  <2>1. ASSUME NEW f \in Heap.edges, IsScanned(f)'
        PROVE  Accounted(f)'
    <3>1. IsScanned(f) /\ f.from \in marked \cup {0}
      BY <1>4, <1>6, <1>7, <1>16, <2>1 DEF IsScanned, IsRootEdge
    <3>2. CASE Pending(f) \/ Done(f)
      BY <1>18, <3>1, <3>2 DEF Accounted
    <3>3. CASE ~(Pending(f) \/ Done(f))
      <4>1. f.to \notin moving /\ Follows(f)
        BY <3>1, <3>3 DEF CInv, BlackOK, Accounted
      <4>2. PICK g \in Heap.edges : g.from = f.from /\ g.to = f.to /\ (Pending(g) \/ Done(g))
        BY <3>1, <3>3 DEF CInv, BlackOK, Accounted
      <4>3. Pending(g)' \/ Done(g)'
        BY <1>18, <3>1, <4>2
      <4>4. f.to \notin moving' /\ Follows(f)'
        BY <1>1, <1>11, <4>1
      <4> QED
        BY <1>1, <4>2, <4>3, <4>4, HeapStays DEF Accounted
    <3> QED
      BY <3>2, <3>3
  <2> QED
    BY <1>1, <2>1, HeapStays DEF BlackOK
<1>20. MarksOK'
  <2>1. o \in Kept /\ (phase \notin {"vmref", "done"} => o \in Strong)
    <3>1. /\ Needed \subseteq Strong /\ Closed(Strong) /\ Strong \subseteq Kept
          /\ Finalized \subseteq Kept /\ Closed(Kept)
      BY <1>5, Reached
    <3>2. CASE e.from \in marked
      BY <3>1, <3>2 DEF CInv, MarksOK, Closed
    <3>3. CASE IsRootEdge(e)
      <4>1. o = Heap.mem[e.at]
        BY <1>5, <3>3, RootEdges DEF IsRootEdge
      <4> QED
        BY <3>1, <3>3, <4>1 DEF IsRootEdge, Needed, Finalized
    <3> QED
      BY <1>2, <3>2, <3>3
  <2> QED
    BY <1>1, <1>4, <2>1, HeapStays DEF CInv, MarksOK
<1>21. WeakOK'
  <2>1. ASSUME NEW r \in Heap.weak
        PROVE  Content(r + jl_weakref_t.value)'
                 = IF r \in weak THEN WeakValueOf(r) ELSE Cleared(r)'
    <3>1. /\ r + jl_weakref_t.value = r /\ r \in Original
          /\ \A f \in Heap.edges : f.at # r
      BY <1>5, WeakValueWord
    <3>2. Content(r + jl_weakref_t.value)' = IF r \in weak THEN WeakValueOf(r) ELSE Cleared(r)
      BY <1>14, <3>1 DEF CInv, WeakOK
    <3>3. r \notin weak => Cleared(r)' = Cleared(r)
      <4>1. r \notin weak => Strong \subseteq marked
        BY DEF CInv, WeakOK, MarksOK
      <4> QED
        BY <1>1, <1>6, <1>7, <4>1, HeapStays DEF Cleared
    <3> QED
      BY <3>2, <3>3
  <2> QED
    BY <1>1, <2>1, HeapStays DEF CInv, WeakOK
<1>22. MemoryOK'
  BY <1>1, <1>4, <1>5, <1>13, <1>15, <1>20, SizesStay DEF CInv, MarksOK
<1> QED
  BY <1>17, <1>19, <1>20, <1>21, <1>22 DEF CInv

LEMMA NextKeepsCInv ==
  ASSUME CInv, ScansFindReferences, [Next]_vars
  PROVE  CInv'
<1>1. IInv'
  BY NextKeepsIInv DEF CInv
<1>2. CASE \/ \E o \in Heap.pinnable : mmtk_pin_object(o) \/ mmtk_unpin_object(o)
           \/ StopMutators \/ ScanRootsStep \/ Finished \/ UNCHANGED vars
  <2>1. /\ UNCHANGED <<mem, heap, moving, marked, moved, nodes, slots, weak>>
        /\ phase' = phase \/ (phase = "mutator" /\ phase' = "roots")
    BY <1>2 DEF mmtk_pin_object, mmtk_unpin_object, StopMutators, ScanRootsStep, Finished,
       vars, traceVars, otherVars
  <2> QED
    BY <1>1, <2>1, StandingStillKeepsCInv
<1>3. CASE TraceTPinnedRoots
  BY <1>1, <1>3, TraceTPinnedRootsKeepsCInv
<1>4. CASE TracePinningRoots
  BY <1>1, <1>4, TracePinningRootsKeepsCInv
<1>5. ASSUME NEW n \in nodes, ScanObject(n)
      PROVE  CInv'
  BY <1>1, <1>5, ScanObjectKeepsCInv
<1>6. ASSUME NEW slot \in slots, ProcessSlot(slot)
      PROVE  CInv'
  BY <1>1, <1>6, ProcessSlotKeepsCInv
<1>7. CASE ProcessWeakRefs
  BY <1>1, <1>7, ProcessWeakRefsKeepsCInv
<1>8. ASSUME NEW r \in weak, ProcessWeakRef(r)
      PROVE  CInv'
  BY <1>1, <1>8, ProcessWeakRefKeepsCInv
<1>9. CASE ScanFinalizersSingleThreaded
  BY <1>1, <1>9, ScanFinalizersKeepsCInv
<1>10. CASE SweepVMSpecific
  BY <1>1, <1>10, SweepKeepsCInv
<1> QED
  BY <1>2, <1>3, <1>4, <1>5, <1>6, <1>7, <1>8, <1>9, <1>10 DEF Next

-----------------------------------------------------------------------------
(* What follows of a collection.                                           *)

LEMMA TypesOfClosure == CInv => TypeOK
  BY DEF CInv, MarksOK, IInv, StayOK, PinsOK, PlacesOK, TypeOK

LEMMA SurvivorsOfClosure == CInv => SurvivorsAreReachable
  BY DEF CInv, MarksOK, SurvivorsAreReachable, Live

LEMMA SlotsOfClosure == CInv => SlotsHoldObjects
<1> SUFFICES ASSUME CInv
             PROVE  SlotsHoldObjects
  OBVIOUS
<1>1. IInv /\ marked \subseteq Objects /\ heap \in DOMAIN Heaps
  BY Places DEF CInv, MarksOK
<1>2. ASSUME NEW slot \in slots
      PROVE  LoadSlot(slot) \in Objects \cup {o + Delta : o \in moved}
  <2>1. PICK e \in Heap.edges : LoadSlot(slot) \in {e.to, Place(e.to)}
    BY SlotEdge
  <2>2. e.to \in Objects
    BY <1>1, EdgesOfHeap
  <2> QED
    BY <2>1, <2>2 DEF Place
<1>3. roots["tpinned"] \cup roots["nodes"] \subseteq Heap.roots["tpinned"] \cup Heap.roots["nodes"]
  <2>1. CASE NotStarted
    <3>1. \A k \in Kinds : roots[k] \subseteq Heap.roots[k]
      BY <1>1, <2>1 DEF IInv, RootsInv, NotStarted, OnTheirWay
    <3> QED
      BY <3>1, RootScanningAssumption
  <2>2. CASE ~NotStarted
    BY <1>1, <2>2, Places
  <2> QED
    BY <2>1, <2>2
<1>4. Heap.roots["tpinned"] \cup Heap.roots["nodes"] \subseteq Objects
  BY <1>1, TracingAssumption DEF Heap, Objects
<1> QED
  BY <1>2, <1>3, <1>4 DEF SlotsHoldObjects

LEMMA ReferencesOfClosure == CInv => ReferencesFollowMoves
<1> SUFFICES ASSUME CInv, phase = "done", NEW e \in Heap.edges, e.from \in marked \cup {0}
             PROVE  e.to \in marked /\ Load(Now(e.from, e.at)) = Place(e.to) + e.off
  BY DEF ReferencesFollowMoves, Live
<1>1. /\ IInv /\ marked \subseteq Objects /\ heap \in DOMAIN Heaps /\ nodes = {} /\ slots = {}
      /\ ~NotStarted
  BY Places DEF CInv, MarksOK, NotStarted
<1>2. CASE e.from \in marked \/ IsRootEdge(e)
  BY <1>1, <1>2, AllDone, NowIsAt DEF Done, Follows, Content, Load
<1>3. CASE ~(e.from \in marked \/ IsRootEdge(e))
  <2>1. e.to \in Heap.roots["tpinned"] \cup Heap.roots["nodes"]
    BY <1>1, <1>3, RootEdges DEF IsRootEdge
  <2>2. e.to \in marked /\ e.to \notin moved
    BY <1>1, <2>1, Places
  <2>3. Content(e.at) = Place(e.to) + e.off
    BY <2>2 DEF CInv, MemoryOK, EdgesOK, Place
  <2> QED
    BY <1>1, <2>2, <2>3, NowIsAt DEF Content, Load
<1> QED
  BY <1>2, <1>3

LEMMA CopiesOfClosure == CInv => CopiesAreWhole
<1> SUFFICES ASSUME CInv, NEW o \in moved, NEW a \in DOMAIN mem, InObject(o, a),
                    \A e \in Heap.edges : e.at # a,
                    ~(o \in Heap.weak /\ a = o + jl_weakref_t.value)
             PROVE  mem[a + Delta] = Heap.mem[a]
  BY DEF CopiesAreWhole
<1>1. /\ IInv /\ marked \subseteq Objects /\ heap \in DOMAIN Heaps /\ o \in Objects
      /\ DOMAIN mem = DOMAIN Heap.mem
  BY Places DEF CInv, MarksOK
<1>2. o \in Nat /\ Delta \in Nat /\ a \in Nat
  BY <1>1, Layouts
<1> DEFINE d == a - o
<1>3. d \in Int /\ o + d = a /\ (o + Delta) + d = a + Delta
  BY <1>2
<1>4. o \notin Heap.weak \/ d # 0
  BY <1>2 DEF jl_weakref_t
<1> HIDE DEF d
<1>5. mem[Place(o) + d] = Heap.mem[a]
  BY <1>1, <1>3, <1>4, FixedWords DEF CInv, MemoryOK
<1> QED
  BY <1>3, <1>5 DEF Place

LEMMA WeakRefsOfClosure == CInv => WeakRefsAreClearedOrMoved
<1> SUFFICES ASSUME CInv, phase = "done", NEW r \in Heap.weak
             PROVE  get_referent(Place(r)) = Cleared(r)
  BY DEF WeakRefsAreClearedOrMoved, Cleared, WeakValueOf
<1>1. IInv /\ marked \subseteq Objects
  BY DEF CInv, MarksOK
<1>2. r \in Objects /\ r + jl_weakref_t.value = r /\ At(r) = Place(r) /\ jl_weakref_t.value = 0
  BY <1>1, WeakValueWord
<1>3. Place(r) + 0 = Place(r)
  BY <1>1, <1>2, PlacesAreApart
<1>4. Content(r) = Cleared(r)
  BY <1>2 DEF CInv, WeakOK
<1> QED
  BY <1>2, <1>3, <1>4 DEF get_referent, Load, Content
-----------------------------------------------------------------------------
(* The tables.                                                             *)

\* The elements of a set of numbers in order: the k-th is one of them.
LEMMA NthExists ==
  ASSUME NEW S \in SUBSET Nat, IsFiniteSet(S)
  PROVE  \A k \in 0 .. Cardinality(S) - 1 :
           \E i \in S : Cardinality({j \in S : j < i}) = k
<1> DEFINE Below(i) == {j \in S : j < i}
           Missing == {k \in 0 .. Cardinality(S) - 1 : ~\E i \in S : Cardinality(Below(i)) = k}
<1>1. SUFFICES ASSUME Missing # {}
               PROVE  FALSE
  OBVIOUS
<1>2. Cardinality(S) \in Nat /\ Missing \in SUBSET Nat /\ \A j \in S : j \in Nat
  BY FS_CardinalityType
<1>3. PICK k \in Missing : \A m \in Missing : k <= m
  BY <1>1, <1>2, LeastNumber
<1>4. k \in Nat /\ k < Cardinality(S) /\ ~\E i \in S : Cardinality(Below(i)) = k
  BY <1>2, <1>3
<1>5. CASE k = 0
  <2>1. S # {}
    BY <1>4, <1>5, FS_EmptySet
  <2>2. PICK i \in S : \A j \in S : i <= j
    BY <2>1, LeastNumber
  <2>3. Below(i) = {}
    <3>1. \A j \in S : ~(j < i)
      BY <1>2, <2>2
    <3> QED
      BY <3>1
  <2> QED
    BY <1>4, <1>5, <2>3, FS_EmptySet
<1>6. CASE k # 0
  <2>1. k - 1 \in 0 .. Cardinality(S) - 1 /\ k - 1 \notin Missing
    <3> HIDE DEF Missing
    <3>1. k - 1 \in 0 .. Cardinality(S) - 1 /\ ~(k <= k - 1)
      BY <1>2, <1>4, <1>6
    <3> QED
      BY <1>3, <3>1
  <2>2. PICK i \in S : Cardinality(Below(i)) = k - 1
    BY <2>1
  <2> DEFINE above == {j \in S : j > i}
             upto == Below(i) \cup {i}
  <2>3. IsFiniteSet(Below(i)) /\ i \notin Below(i)
    BY <1>2, FS_Subset
  <2>4. Cardinality(upto) = k
    <3> HIDE DEF Below
    <3>1. Cardinality(upto) = Cardinality(Below(i)) + 1
      BY <2>3, FS_AddElement
    <3> QED
      BY <1>4, <2>2, <3>1
  <2>5. above # {}
    <3>1. SUFFICES ASSUME above = {}
                   PROVE  FALSE
      OBVIOUS
    <3>2. \A j \in S : j < i \/ j = i
      BY <1>2, <3>1
    <3>3. S = upto
      BY <3>2
    <3> QED
      <4> HIDE DEF upto
      <4>1. Cardinality(S) = k
        BY <2>4, <3>3
      <4> QED
        BY <1>4, <4>1
  <2>6. PICK next \in above : \A j \in above : next <= j
    BY <2>5, LeastNumber
  <2>7. Below(next) = upto
    <3>1. \A j \in S : j < next <=> j < i \/ j = i
      BY <1>2, <2>6
    <3> QED
      BY <3>1
  <2> QED
    BY <1>4, <2>4, <2>6, <2>7
<1> QED
  BY <1>5, <1>6

\* As many entries are chosen as there are indexes, and each is one of them.
LEMMA ChosenEntries ==
  ASSUME NEW n \in Nat, NEW entries, DOMAIN entries = 1 .. n,
         NEW indexes \in SUBSET (1 .. n)
  PROVE  /\ Cardinality(indexes) \in 0 .. n
         /\ DOMAIN Chosen(entries, indexes) = 1 .. Cardinality(indexes)
         /\ Len(Chosen(entries, indexes)) = Cardinality(indexes)
         /\ \A k \in 1 .. Cardinality(indexes) :
              \E i \in indexes : Chosen(entries, indexes)[k] = entries[i]
<1> DEFINE count == Cardinality(indexes)
           rank(i) == Cardinality({j \in indexes : j < i})
           nth(k) == CHOOSE i \in indexes : rank(i) = k - 1
<1>1. IsFiniteSet(1 .. n) /\ Cardinality(1 .. n) = n
  BY FS_Interval
<1>2. IsFiniteSet(indexes) /\ count <= n /\ count \in Nat
  <2>1. IsFiniteSet(indexes) /\ count <= Cardinality(1 .. n)
    BY <1>1, FS_Subset
  <2>2. count \in Nat
    BY <2>1, FS_CardinalityType
  <2> QED
    BY <1>1, <2>1, <2>2
<1>3. Chosen(entries, indexes) = [k \in 1 .. count |-> entries[nth(k)]]
  BY DEF Chosen
<1>4. ASSUME NEW k \in 1 .. count
      PROVE  nth(k) \in indexes
  <2>1. k - 1 \in 0 .. count - 1 /\ indexes \in SUBSET Nat
    BY <1>2
  <2>2. \E i \in indexes : rank(i) = k - 1
    BY <1>2, <2>1, NthExists
  <2> QED
    BY <2>2
<1> HIDE DEF count, nth
<1>5. Len(Chosen(entries, indexes)) = count
  BY <1>2, <1>3
<1>6. DOMAIN Chosen(entries, indexes) = 1 .. count
  BY <1>3
<1>7. ASSUME NEW k \in 1 .. count
      PROVE  \E i \in indexes : Chosen(entries, indexes)[k] = entries[i]
  BY <1>3, <1>4
<1>8. count \in 0 .. n
  BY <1>2
<1> QED
  BY <1>5, <1>6, <1>7, <1>8 DEF count

\* What is true of the lists by the assumption on heaps.
TableLen(list) == list + small_arraylist_t.len
TableCount(list) == Heap.mem[TableLen(list)]
EntryWord(list, i) == EntryAddr(Heap, list, i)

LEMMA TablesOfHeap ==
  ASSUME heap \in DOMAIN Heaps, NEW list \in SweptLists
  PROVE  /\ TableCount(list) \in Nat
         /\ TableWords(Heap, list) =
              {TableLen(list)} \cup {EntryWord(list, i) : i \in 1 .. TableCount(list)}
         /\ \A i \in 1 .. TableCount(list) :
              /\ EntryWord(list, i) # TableLen(list)
              /\ Heap.mem[EntryWord(list, i)] \in Objects
              /\ \A j \in 1 .. TableCount(list) : EntryWord(list, i) = EntryWord(list, j) => i = j
         /\ \A other \in SweptLists :
              other # list => TableWords(Heap, list) \cap TableWords(Heap, other) = {}
<1>1. TablesAreOutside(Heap) /\ Heap.mem \in [DOMAIN Heap.mem -> Int]
  BY HeapsAssumption, Layouts DEF Heap
<1>2. /\ TableCount(list) \in Nat
      /\ list + small_arraylist_t.items \in DOMAIN Heap.mem
      /\ \A i \in 1 .. TableCount(list) : /\ EntryWord(list, i) # TableLen(list)
                                         /\ Heap.mem[EntryWord(list, i)] \in Objects
      /\ \A other \in SweptLists \ {list} :
           TableWords(Heap, list) \cap TableWords(Heap, other) = {}
  BY <1>1 DEF TablesAreOutside, TableCount, TableLen, EntryWord, SweptLists, Objects
<1>3. ASSUME NEW i \in 1 .. TableCount(list), NEW j \in 1 .. TableCount(list),
             EntryWord(list, i) = EntryWord(list, j)
      PROVE  i = j
  <2> DEFINE items == Heap.mem[list + small_arraylist_t.items]
  <2>1. items \in Int /\ i \in Int /\ j \in Int
    BY <1>1, <1>2
  <2>2. items + 8 * (i - 1) = items + 8 * (j - 1)
    BY <1>3 DEF EntryWord, EntryAddr, Shift, BYTES_IN_ADDRESS
  <2> HIDE DEF items
  <2> QED
    BY <2>1, <2>2
<1>4. TableWords(Heap, list) =
        {TableLen(list)} \cup {EntryWord(list, i) : i \in 1 .. TableCount(list)}
  BY DEF TableWords, TableLen, EntryWord, TableCount
<1> QED
  BY <1>2, <1>3, <1>4

\* Until they are swept, tables are as they were.
LEMMA TablesStay ==
  ASSUME CInv, phase # "done", NEW list \in SweptLists
  PROVE  /\ Entries(list, mem) = Entries(list, Heap.mem)
         /\ TableWords(Heap, list) \subseteq DOMAIN mem
         /\ DOMAIN Entries(list, mem) = 1 .. TableCount(list)
<1>1. IInv /\ marked \subseteq Objects /\ WordsOK /\ heap \in DOMAIN Heaps
  BY Places DEF CInv, MarksOK, MemoryOK
<1>2. ASSUME NEW a \in TableWords(Heap, list)
      PROVE  a \in DOMAIN mem /\ mem[a] = Heap.mem[a]
  <2>1. TableOf(a)
    BY DEF TableOf
  <2>2. a \in Original /\ At(a) = a /\ Content(a) = Heap.mem[a]
    BY <1>1, <2>1, TableWord DEF WordsOK
  <2> QED
    BY <1>1, <2>2, Places DEF Content, Original
<1>3. mem[TableLen(list)] = TableCount(list)
  BY <1>1, <1>2, TablesOfHeap DEF TableCount
<1>4. \A i \in 1 .. TableCount(list) : mem[EntryWord(list, i)] = Heap.mem[EntryWord(list, i)]
  BY <1>1, <1>2, TablesOfHeap
<1>5. /\ Entries(list, mem) = [i \in 1 .. TableCount(list) |-> mem[EntryWord(list, i)]]
      /\ Entries(list, Heap.mem) =
           [i \in 1 .. TableCount(list) |-> Heap.mem[EntryWord(list, i)]]
  BY <1>3 DEF Entries, EntryWord, TableCount, TableLen
<1> QED
  BY <1>2, <1>4, <1>5

\* The entries of a table that survive, in order.
SurvivingEntries(list) ==
  LET entries == Entries(list, Heap.mem)
  IN  Chosen(entries, {i \in DOMAIN entries : entries[i] \in Kept})
Survivors(list) == Cardinality({i \in 1 .. TableCount(list) : Heap.mem[EntryWord(list, i)] \in Kept})

LEMMA SurvivingObjects ==
  ASSUME heap \in DOMAIN Heaps, NEW list \in SweptLists
  PROVE  /\ Survivors(list) \in 0 .. TableCount(list)
         /\ DOMAIN SurvivingEntries(list) = 1 .. Survivors(list)
         /\ Len(SurvivingEntries(list)) = Survivors(list)
         /\ \A i \in 1 .. Survivors(list) : SurvivingEntries(list)[i] \in Objects
<1> DEFINE n == TableCount(list)
           entries == [i \in 1 .. n |-> Heap.mem[EntryWord(list, i)]]
           indexes == {i \in 1 .. n : Heap.mem[EntryWord(list, i)] \in Kept}
<1>1. n \in Nat /\ \A i \in 1 .. n : entries[i] \in Objects
  BY TablesOfHeap
<1>2. Entries(list, Heap.mem) = entries
  BY DEF Entries, EntryWord, TableCount, TableLen
<1>3. {i \in DOMAIN entries : entries[i] \in Kept} = indexes
  OBVIOUS
<1>4. SurvivingEntries(list) = Chosen(entries, indexes) /\ Survivors(list) = Cardinality(indexes)
  BY <1>2, <1>3 DEF SurvivingEntries, Survivors
<1>5. DOMAIN entries = 1 .. n /\ indexes \in SUBSET (1 .. n)
  OBVIOUS
<1> HIDE DEF n, entries, indexes
<1>6. /\ Cardinality(indexes) \in 0 .. n
      /\ DOMAIN Chosen(entries, indexes) = 1 .. Cardinality(indexes)
      /\ Len(Chosen(entries, indexes)) = Cardinality(indexes)
      /\ \A k \in 1 .. Cardinality(indexes) :
           \E i \in indexes : Chosen(entries, indexes)[k] = entries[i]
  BY <1>1, <1>5, ChosenEntries
<1> QED
  BY <1>1, <1>4, <1>5, <1>6 DEF n

\* What the sweep writes in the words of a table.
LEMMA SweptTable ==
  ASSUME CInv, Kept = marked, phase # "done", NEW list \in SweptLists
  PROVE  /\ DOMAIN Swept(list) = TableWords(Heap, list)
         /\ Swept(list)[TableLen(list)] = Survivors(list)
         /\ \A i \in 1 .. Survivors(list) :
              Swept(list)[EntryWord(list, i)] = Place(SurvivingEntries(list)[i])
<1> DEFINE n == TableCount(list)
           entries == Entries(list, mem)
           survivors == Chosen(entries, {i \in DOMAIN entries : mmtk_is_live_object(entries[i])})
           entry(a) == CHOOSE i \in DOMAIN entries : EntryWord(list, i) = a
           words == {TableLen(list)} \cup {EntryWord(list, i) : i \in 1 .. n}
           word(a) == CASE a = TableLen(list) -> Len(survivors)
                        [] a # TableLen(list) /\ entry(a) \in DOMAIN survivors ->
                             mmtk_get_possibly_forwarded(survivors[entry(a)])
                        [] OTHER -> mem[a]
<1>1. IInv /\ marked \subseteq Objects /\ heap \in DOMAIN Heaps
  BY Places DEF CInv, MarksOK
<1>2. DOMAIN entries = 1 .. n /\ entries = Entries(list, Heap.mem)
  BY TablesStay
<1>3. /\ TableWords(Heap, list) = words /\ n \in Nat
      /\ \A i \in 1 .. n : /\ EntryWord(list, i) # TableLen(list)
                           /\ Heap.mem[EntryWord(list, i)] \in Objects
                           /\ \A j \in 1 .. n : EntryWord(list, i) = EntryWord(list, j) => i = j
  BY <1>1, TablesOfHeap
<1>4. \A i \in 1 .. n : entries[i] = Heap.mem[EntryWord(list, i)]
  BY <1>2 DEF Entries, EntryWord, TableCount, TableLen
<1>5. survivors = SurvivingEntries(list)
  <2>1. \A i \in DOMAIN entries : mmtk_is_live_object(entries[i]) <=> entries[i] \in Kept
    <3>1. \A o \in Objects : mmtk_is_live_object(o) <=> o \in Kept
      BY <1>1, PlacesAreApart DEF mmtk_is_live_object, Live
    <3> HIDE DEF entries
    <3> QED
      BY <1>2, <1>3, <1>4, <3>1
  <2> HIDE DEF entries
  <2>2. {i \in DOMAIN entries : mmtk_is_live_object(entries[i])} =
          {i \in DOMAIN entries : entries[i] \in Kept}
    BY <2>1
  <2> QED
    BY <1>2, <2>2 DEF SurvivingEntries
<1>6. Swept(list) = [a \in words |-> word(a)]
  <2>1. \A i : EntryAddr(Heap, list, i) = EntryWord(list, i)
    BY DEF EntryWord
  <2>2. {EntryAddr(Heap, list, i) : i \in DOMAIN entries} = {EntryWord(list, i) : i \in 1 .. n}
    BY <1>2 DEF EntryWord
  <2> QED
    BY <2>2 DEF Swept, EntryWord, TableLen
<1>7. /\ Survivors(list) \in 0 .. n
      /\ DOMAIN survivors = 1 .. Survivors(list)
      /\ Len(survivors) = Survivors(list)
      /\ \A i \in 1 .. Survivors(list) : survivors[i] \in Objects
  BY <1>1, <1>5, SurvivingObjects
<1>8. \A i \in 1 .. n : entry(EntryWord(list, i)) = i
  <2> HIDE DEF entries
  <2> QED
    BY <1>2, <1>3
<1> HIDE DEF survivors, entry, n, entries
<1>9. DOMAIN Swept(list) = words /\ Swept(list)[TableLen(list)] = Len(survivors)
  BY <1>6
<1>10. ASSUME NEW i \in 1 .. Survivors(list)
       PROVE  Swept(list)[EntryWord(list, i)] = Place(survivors[i])
  <2>1. i \in 1 .. n /\ EntryWord(list, i) \in words
    BY <1>3, <1>7
  <2>2. Swept(list)[EntryWord(list, i)] = mmtk_get_possibly_forwarded(survivors[i])
    BY <1>3, <1>6, <1>7, <1>8, <2>1
  <2>3. ObjectAt(survivors[i]) = survivors[i]
    BY <1>1, <1>7, PlacesAreApart
  <2> QED
    BY <2>2, <2>3 DEF mmtk_get_possibly_forwarded
<1> QED
  BY <1>3, <1>5, <1>7, <1>9, <1>10

LEMMA SweepForwardsTables ==
  ASSUME CInv, CInv', SweepVMSpecific
  PROVE  TablesFollowObjects'
<1>1. /\ UNCHANGED <<heap, moved, marked>> /\ phase = "vmref" /\ phase' = "done"
  BY DEF SweepVMSpecific, traceVars, otherVars
<1>2. heap \in DOMAIN Heaps /\ IInv /\ marked \subseteq Objects
  BY Places DEF CInv, MarksOK
<1>3. Heap' = Heap /\ SweptLists' = SweptLists /\ Kept' = Kept /\ \A o : Place(o)' = Place(o)
  BY <1>1, HeapStays, SamePlaces
<1>4. Kept = marked
  BY <1>1, <1>3 DEF CInv, MarksOK
<1>5. ASSUME NEW list \in SweptLists, NEW a \in TableWords(Heap, list)
      PROVE  mem'[a] = Swept(list)[a]
  <2> DEFINE writes == {other \in SweptLists : a \in DOMAIN Swept(other)}
  <2>1. \A other \in SweptLists : DOMAIN Swept(other) = TableWords(Heap, other)
    BY <1>1, <1>4, SweptTable
  <2>2. a \in DOMAIN mem
    BY <1>1, TablesStay
  <2>3. writes = {list}
    BY <1>2, <1>5, <2>1, TablesOfHeap
  <2>4. mem'[a] = IF writes = {} THEN mem[a] ELSE Swept(CHOOSE other \in writes : TRUE)[a]
    BY <2>2 DEF SweepVMSpecific
  <2> HIDE DEF writes
  <2>5. (CHOOSE other \in writes : TRUE) = list
    BY <2>3
  <2> QED
    BY <2>3, <2>4, <2>5
<1>6. ASSUME NEW list \in SweptLists
      PROVE  Entries(list, mem') = [i \in 1 .. Survivors(list) |-> Place(SurvivingEntries(list)[i])]
  <2>1. /\ TableWords(Heap, list) =
             {TableLen(list)} \cup {EntryWord(list, i) : i \in 1 .. TableCount(list)}
        /\ TableCount(list) \in Nat /\ Survivors(list) \in 0 .. TableCount(list)
    BY <1>2, TablesOfHeap, SurvivingObjects
  <2>2. mem'[TableLen(list)] = Survivors(list)
    BY <1>1, <1>4, <1>5, <2>1, SweptTable
  <2>3. \A i \in 1 .. Survivors(list) :
          mem'[EntryWord(list, i)] = Place(SurvivingEntries(list)[i])
    BY <1>1, <1>4, <1>5, <2>1, SweptTable
  <2>4. Entries(list, mem') = [i \in 1 .. Survivors(list) |-> mem'[EntryWord(list, i)]]
    BY <2>2 DEF Entries, TableLen, EntryWord
  <2> QED
    BY <2>3, <2>4
<1>7. ASSUME NEW list \in SweptLists
      PROVE  Entries(list, mem') = [i \in DOMAIN SurvivingEntries(list) |->
                                      Place(SurvivingEntries(list)[i])]
  BY <1>2, <1>6, SurvivingObjects
<1>8. \A list : Entries(list, mem)' = Entries(list, mem')
  BY <1>3 DEF Entries
<1>9. \A list : SurvivingEntries(list)' = SurvivingEntries(list)
  BY <1>3 DEF SurvivingEntries, Entries
<1>10. ASSUME NEW list \in SweptLists
       PROVE  (Entries(list, mem) = [i \in DOMAIN SurvivingEntries(list) |->
                                       Place(SurvivingEntries(list)[i])])'
  BY <1>3, <1>7, <1>8, <1>9
<1> QED
  BY <1>3, <1>10 DEF TablesFollowObjects, SurvivingEntries

\* Once they are swept, they stay as they are.
LEMMA NextKeepsTables ==
  ASSUME CInv, CInv', TablesFollowObjects, [Next]_vars
  PROVE  TablesFollowObjects'
<1>1. CASE SweepVMSpecific
  BY <1>1, SweepForwardsTables
<1>2. CASE UNCHANGED vars
  <2>1. UNCHANGED <<heap, moved, mem, phase>>
    BY <1>2 DEF vars, rootVars, traceVars, otherVars
  <2>2. Heap' = Heap /\ SweptLists' = SweptLists /\ Kept' = Kept /\ \A o : Place(o)' = Place(o)
    BY <2>1, HeapStays, SamePlaces
  <2>3. \A list : Entries(list, mem)' = Entries(list, mem)
    BY <2>1, <2>2 DEF Entries
  <2>4. \A list : SurvivingEntries(list)' = SurvivingEntries(list)
    BY <2>2 DEF SurvivingEntries, Entries
  <2>5. ASSUME NEW list \in SweptLists, phase = "done"
        PROVE  (Entries(list, mem) = [i \in DOMAIN SurvivingEntries(list) |->
                                        Place(SurvivingEntries(list)[i])])'
    <3>1. Entries(list, mem) = [i \in DOMAIN SurvivingEntries(list) |->
                                  Place(SurvivingEntries(list)[i])]
      BY <2>5 DEF TablesFollowObjects, SurvivingEntries
    <3> QED
      BY <2>2, <2>3, <2>4, <3>1
  <2> QED
    BY <2>1, <2>2, <2>5 DEF TablesFollowObjects, SurvivingEntries
<1>3. CASE phase' # "done"
  BY <1>3 DEF TablesFollowObjects
<1>4. CASE \/ \E o \in Heap.pinnable : mmtk_pin_object(o) \/ mmtk_unpin_object(o)
           \/ StopMutators \/ ScanRootsStep \/ TraceTPinnedRoots \/ TracePinningRoots
           \/ ProcessWeakRefs \/ ScanFinalizersSingleThreaded
  <2>1. phase' # "done"
    BY <1>4 DEF mmtk_pin_object, mmtk_unpin_object, StopMutators, ScanRootsStep,
       TraceTPinnedRoots, TracePinningRoots, ProcessWeakRefs, ScanFinalizersSingleThreaded
  <2> QED
    BY <1>3, <2>1
<1>5. ASSUME \/ \E n \in nodes : ScanObject(n)
             \/ \E slot \in slots : ProcessSlot(slot)
             \/ \E r \in weak : ProcessWeakRef(r)
      PROVE  TablesFollowObjects'
  <2>1. nodes # {} \/ slots # {} \/ phase = "weak"
    BY <1>5 DEF ProcessWeakRef
  <2>2. phase # "done"
    BY <2>1 DEF CInv, MarksOK
  <2>3. phase' = phase
    BY <1>5 DEF ScanObject, ProcessSlot, ProcessWeakRef
  <2> QED
    BY <1>3, <2>2, <2>3
<1>6. CASE Finished
  BY <1>2, <1>6 DEF Finished
<1> QED
  BY <1>1, <1>2, <1>4, <1>5, <1>6 DEF Next

=============================================================================
