------------------------------ MODULE ScanProofs ------------------------------
(***************************************************************************)
(* A scan of an object that finds its references at rest finds them at the *)
(* place where the object is when it is scanned, whatever was updated by   *)
(* then: what ScansFindReferences says of an object follows from what is   *)
(* true of it before the collection.  So a collection is right for all     *)
(* heaps whose objects are scanned rightly at rest (ScannedRightlyAtRest)  *)
(* and are known again by their scans where they move (SlotsFollowMoves):  *)
(* what is reachable survives and nothing else, references follow the      *)
(* objects that move, and copies are whole.                                *)
(***************************************************************************)
EXTENDS TracingProofs

-----------------------------------------------------------------------------
(* Objects are as they were, references included, until they are scanned.  *)

Unscanned(o) == o \notin marked \/ Place(o) \in nodes

\* No reference of an object is updated before its scan, but for the pointer
\* of an inlined memory, which copy updates.
FreshOK ==
  phase # "done" =>
    \A e \in Heap.edges :
      e.from \in Objects /\ InObject(e.from, e.at) /\ Unscanned(e.from) =>
        Content(e.at) = e.to + e.off \/ (e.from \in Movable /\ PointsBehind(e, e.from))

\* Slots are those of objects that were scanned, or from roots.
SlotsScanned == \A slot \in slots : \E e \in Heap.edges : slot = SlotOf(e) /\ IsScanned(e)

\* What keeps all it reaches in place is scanned before anything moves.
TPinnedScanned ==
  phase # "tpin" => \A o \in Heap.roots["tpinned"] : Place(o) \notin nodes

ScanInv == FreshOK /\ SlotsScanned /\ TPinnedScanned

LEMMA InitScanInv ==
  ASSUME Init, CInv
  PROVE  ScanInv
<1>1. heap \in DOMAIN Heaps /\ mem = Heap.mem /\ moved = {} /\ slots = {} /\ nodes = {}
  BY DEF Init
<1>2. \A e \in Heap.edges : Content(e.at) = e.to + e.off
  BY <1>1, EdgesOfHeap DEF Content, At
<1> QED
  BY <1>1, <1>2 DEF ScanInv, FreshOK, SlotsScanned, TPinnedScanned

\* A step that scans nothing, and updates no reference of a heap.
LEMMA NoScanKeepsScanInv ==
  ASSUME CInv, ScanInv, UNCHANGED <<heap, moved, marked>>, slots' \subseteq slots,
         nodes' \subseteq nodes, phase \in {"tpin", "done"} => phase' = phase,
         phase' = "done" \/ \A e \in Heap.edges : Content(e.at)' = Content(e.at),
         \A e \in Heap.edges : IsRootEdge(e) => IsRootEdge(e)'
  PROVE  ScanInv'
<1>1. \A o : Unscanned(o)' => Unscanned(o)
  BY SamePlaces DEF Unscanned
<1>2. FreshOK'
  BY <1>1, HeapStays DEF ScanInv, FreshOK, PointsBehind
<1>3. SlotsScanned'
  BY HeapStays, SamePlaces DEF ScanInv, SlotsScanned, IsScanned
<1>4. TPinnedScanned'
  BY HeapStays, SamePlaces DEF ScanInv, TPinnedScanned
<1> QED
  BY <1>2, <1>3, <1>4 DEF ScanInv

LEMMA TraceTPinnedRootsKeepsScanInv ==
  ASSUME CInv, ScanInv, TraceTPinnedRoots
  PROVE  ScanInv'
<1>1. UNCHANGED <<mem, heap, moved, slots>> /\ phase' = "tpin" /\ phase = "roots"
  BY DEF TraceTPinnedRoots, TraceInPlace, otherVars
<1>2. marked = {} /\ slots = {}
  BY <1>1, Places DEF CInv, MarksOK, NotStarted
<1>3. \A o : Unscanned(o)
  BY <1>2 DEF Unscanned
<1>4. FreshOK'
  BY <1>1, <1>3, HeapStays, SameWords DEF ScanInv, FreshOK, PointsBehind
<1> QED
  BY <1>1, <1>2, <1>4 DEF ScanInv, SlotsScanned, TPinnedScanned

LEMMA TracePinningRootsKeepsScanInv ==
  ASSUME CInv, ScanInv, TracePinningRoots
  PROVE  ScanInv'
<1>1. /\ UNCHANGED <<mem, heap, moved>> /\ phase' = "closure" /\ phase = "tpin" /\ nodes = {}
      /\ marked' = marked \cup roots["nodes"] /\ nodes' = roots["nodes"] \ marked
      /\ slots' = Visited({Simple(a) : a \in roots["slots"]})
  BY DEF TracePinningRoots, TraceInPlace, otherVars
<1>2. /\ IInv /\ marked \subseteq Objects /\ heap \in DOMAIN Heaps /\ moved \subseteq marked
      /\ roots = Heap.roots /\ Heap.roots["tpinned"] \subseteq marked /\ moved = {}
  BY <1>1, Places DEF CInv, MarksOK, NotStarted, IInv, StayOK
<1>3. \A o : Place(o) = o /\ Place(o)' = o
  BY <1>1, <1>2 DEF Place
<1>4. \A o : Unscanned(o)' => Unscanned(o)
  BY <1>1, <1>3 DEF Unscanned
<1>5. FreshOK'
  BY <1>1, <1>4, HeapStays, SameWords DEF ScanInv, FreshOK, PointsBehind
<1>6. SlotsScanned'
  <2>1. ASSUME NEW slot \in slots'
        PROVE  \E e \in Heap.edges : slot = SlotOf(e) /\ IsRootEdge(e)'
    <3>1. PICK a \in Heap.roots["slots"] : slot = Simple(a)
      BY <1>1, <1>2, <2>1 DEF Visited
    <3>2. PICK e \in Heap.edges : e.from = 0 /\ e.at = a /\ SlotOf(e) = Simple(a)
      BY RootSlots
    <3>3. IsRootEdge(e)'
      BY <1>1, <3>2, HeapStays DEF IsRootEdge, NotStarted
    <3> QED
      BY <3>1, <3>2, <3>3
  <2> QED
    BY <1>1, <2>1, HeapStays, SamePlaces DEF SlotsScanned, IsScanned
<1>7. TPinnedScanned'
  BY <1>1, <1>2, <1>3, HeapStays DEF TPinnedScanned
<1> QED
  BY <1>5, <1>6, <1>7 DEF ScanInv

LEMMA ScanObjectKeepsScanInv ==
  ASSUME CInv, ScanInv, NEW n \in nodes, ScanObject(n), ScansFindReferences
  PROVE  ScanInv'
<1>1. /\ UNCHANGED <<mem, heap, moved, phase, marked>>
      /\ nodes' = nodes \ {n}
      /\ slots' = slots \cup Visited(scan_julia_object(n))
  BY DEF ScanObject, otherVars
<1>2. IInv /\ marked \subseteq Objects
  BY DEF CInv, MarksOK
<1>3. PICK o \in marked : n = Place(o)
  BY <1>2 DEF IInv, PlacesOK
<1>4. ObjectAt(n) = o
  BY <1>2, <1>3, PlacesAreApart
<1>5. \A o1 : Unscanned(o1)' => Unscanned(o1)
  BY <1>1, SamePlaces DEF Unscanned
<1>6. FreshOK'
  BY <1>1, <1>5, HeapStays, SameWords DEF ScanInv, FreshOK, PointsBehind
<1>7. SlotsScanned'
  <2>1. ASSUME NEW slot \in slots'
        PROVE  \E e \in Heap.edges : slot = SlotOf(e) /\ IsScanned(e)'
    <3>1. CASE slot \in slots
      <4>1. PICK e \in Heap.edges : slot = SlotOf(e) /\ IsScanned(e)
        BY <3>1 DEF ScanInv, SlotsScanned
      <4>2. IsScanned(e)'
        BY <1>1, <4>1, HeapStays, SamePlaces DEF IsScanned, IsRootEdge, NotStarted
      <4> QED
        BY <4>1, <4>2
    <3>2. CASE slot \in Visited(scan_julia_object(n))
      <4>1. PICK e \in Heap.edges : e.from = o /\ slot = Offset(Now(o, e.at), e.off)
        BY <1>4, <3>2 DEF ScansFindReferences, FindsReferences
      <4>2. slot = SlotOf(e)
        BY <1>2, <4>1, NowIsAt DEF SlotOf
      <4>3. IsScanned(e)'
        BY <1>1, <1>3, <4>1, SamePlaces DEF IsScanned
      <4> QED
        BY <4>1, <4>2, <4>3
    <3> QED
      BY <1>1, <2>1, <3>1, <3>2
  <2> QED
    BY <1>1, <2>1, HeapStays, SamePlaces DEF SlotsScanned
<1>8. TPinnedScanned'
  BY <1>1, HeapStays, SamePlaces DEF ScanInv, TPinnedScanned
<1> QED
  BY <1>6, <1>7, <1>8 DEF ScanInv

LEMMA ProcessSlotKeepsScanInv ==
  ASSUME CInv, ScanInv, NEW slot \in slots, ProcessSlot(slot)
  PROVE  ScanInv'
<1>1. /\ UNCHANGED <<heap, moving, phase, weak>> /\ slots' = slots \ {slot}
      /\ trace_object(ObjectAt(LoadSlot(slot)), slot)
  BY DEF ProcessSlot, otherVars
<1>2. /\ heap \in DOMAIN Heaps /\ IInv /\ marked \subseteq Objects /\ moved \subseteq Objects
      /\ ~NotStarted => Heap.roots["tpinned"] \subseteq marked
      /\ phase = "tpin" => moved = {}
      /\ Delta \in Nat \ {0} /\ Objects \subseteq Nat \ {0}
  BY Places, Layouts DEF CInv, MarksOK, IInv, StayOK
<1>3. PICK e \in Heap.edges : slot = SlotOf(e) /\ IsScanned(e)
  BY DEF ScanInv, SlotsScanned
<1>4. e.from \in marked \cup {0} /\ e.to \in Objects /\ ObjectAt(LoadSlot(slot)) = e.to
  <2>1. PICK f \in Heap.edges : slot = SlotOf(f) /\ ObjectAt(LoadSlot(slot)) = f.to
    BY SlotEdge
  <2>2. f.at = e.at
    BY <1>2, <1>3, <2>1, EdgesOfHeap, WordsStayApart DEF SlotOf, Offset
  <2> QED
    BY <1>2, <1>3, <2>1, <2>2, EdgesOfHeap DEF IsScanned, IsRootEdge
<1> DEFINE o == e.to
<1>5. /\ marked' = marked \cup {o}
      /\ moved' = IF Moves(o) THEN moved \cup {o} ELSE moved
      /\ nodes' = IF o \in marked THEN nodes ELSE nodes \cup {Place(o)'}
      /\ ~NotStarted
      /\ Moves(o) => o \in Movable /\ o \notin moved
      /\ \A f \in Heap.edges : f.from \in marked \cup {0} => SlotOf(f)' = SlotOf(f)
      /\ \A a \in Original :
           Content(a)' = IF a = e.at THEN Place(o)' + e.off
                         ELSE IF Moves(o) /\ IsInlined(o) /\ a = o + 8
                         THEN o + Delta + 16 ELSE Content(a)
  BY <1>1, <1>3, <1>4, ProcessedSlot
<1>6. \A x : Place(x)' = IF Moves(o) /\ x = o THEN o + Delta ELSE Place(x)
  BY <1>5 DEF Place
<1>7. ASSUME NEW x \in Objects, Unscanned(x)'
      PROVE  Unscanned(x)
  <2>1. CASE x \notin marked
    BY <2>1 DEF Unscanned
  <2>2. CASE x \in marked /\ (Moves(o) => x # o)
    <3>1. Place(x)' = Place(x) /\ Place(x) \in nodes'
      BY <1>5, <1>6, <1>7, <2>2 DEF Unscanned
    <3>2. SUFFICES ASSUME o \notin marked, Place(x) = Place(o)'
                   PROVE  FALSE
      BY <1>5, <3>1 DEF Unscanned
    <3>3. CASE ~Moves(o)
      BY <1>2, <1>4, <1>6, <2>2, <3>2, <3>3, PlacesAreApart
    <3>4. CASE Moves(o)
      <4>1. Place(x) = o + Delta /\ x # o /\ o + Delta \notin Objects
        BY <1>2, <1>4, <1>6, <2>2, <3>2, <3>4, PlacesAreApart
      <4> QED
        BY <1>2, <1>4, <4>1 DEF Place
    <3> QED
      BY <3>3, <3>4
  <2> QED
    BY <2>1, <2>2 DEF Moves
<1>8. FreshOK'
  <2>1. ASSUME phase # "done", NEW f \in Heap.edges, f.from \in Objects,
               InObject(f.from, f.at), Unscanned(f.from)
        PROVE  Content(f.at)' = f.to + f.off \/ (f.from \in Movable /\ PointsBehind(f, f.from))
    <3>1. f.at \in Original /\ f.at \in DOMAIN Heap.mem
      BY <1>2, EdgesOfHeap DEF Original
    <3>2. CASE f.at = e.at
      <4>1. f.from = e.from \/ f.from \in Heap.roots["tpinned"]
        BY <1>2, <2>1, <3>2, EdgesOfHeap
      <4>2. f.from # e.from
        BY <1>2, <1>3, <2>1 DEF IsScanned, IsRootEdge, Unscanned
      <4>3. phase = "tpin"
        BY <1>2, <1>5, <2>1, <4>1, <4>2 DEF ScanInv, TPinnedScanned, Unscanned
      <4>4. Place(o)' = o /\ f.to = o /\ f.off = e.off
        BY <1>2, <1>6, <3>2, <4>3, EdgesOfHeap DEF Moves, Place
      <4> QED
        BY <1>5, <3>1, <3>2, <4>4
    <3>3. CASE f.at # e.at /\ Moves(o) /\ IsInlined(o) /\ f.at = o + 8
      <4>1. Place(o) = o /\ o \in Movable
        BY <1>5, <3>3 DEF Place
      <4>2. PICK g \in Heap.edges : PointsBehind(g, o)
        BY <3>3, <4>1 DEF CInv, MemoryOK, SizesStayRight
      <4>3. g.at = f.at /\ f.to = g.to /\ f.off = g.off
        BY <1>2, <3>3, <4>2, EdgesOfHeap DEF PointsBehind, jl_genericmemory_t
      <4>4. InObject(o, f.at)
        BY <3>3, <4>1 DEF CInv, MemoryOK, SizesStayRight, HasFields, IsInlined, jl_genericmemory_t
      <4>5. f.from = o
        BY <1>2, <1>4, <2>1, <3>1, <4>4, WordsOfObjects
      <4> QED
        BY <4>1, <4>2, <4>3, <4>5 DEF PointsBehind
    <3>4. CASE f.at # e.at /\ ~(Moves(o) /\ IsInlined(o) /\ f.at = o + 8)
      BY <1>5, <2>1, <3>1, <3>4 DEF ScanInv, FreshOK
    <3> QED
      BY <3>2, <3>3, <3>4
  <2> QED
    BY <1>1, <1>7, <2>1, HeapStays DEF FreshOK, PointsBehind
<1>9. SlotsScanned'
  <2>1. ASSUME NEW s \in slots'
        PROVE  \E f \in Heap.edges : s = SlotOf(f)' /\ IsScanned(f)'
    <3>1. PICK f \in Heap.edges : s = SlotOf(f) /\ IsScanned(f)
      BY <1>1, <2>1 DEF ScanInv, SlotsScanned
    <3>2. SlotOf(f)' = SlotOf(f)
      BY <1>5, <3>1 DEF IsScanned, IsRootEdge
    <3>3. CASE IsRootEdge(f)
      BY <1>1, <3>1, <3>2, <3>3, HeapStays DEF IsScanned, IsRootEdge, NotStarted
    <3>4. CASE ~IsRootEdge(f)
      <4>1. f.from \in Objects /\ ~Unscanned(f.from)
        BY <1>2, <3>1, <3>4 DEF IsScanned, Unscanned
      <4>2. ~Unscanned(f.from)'
        BY <1>7, <4>1
      <4> QED
        BY <3>1, <3>2, <4>2 DEF IsScanned, Unscanned
    <3> QED
      BY <3>3, <3>4
  <2> QED
    BY <1>1, <2>1, HeapStays DEF SlotsScanned
<1>10. TPinnedScanned'
  <2>1. ASSUME phase # "tpin", NEW x \in Heap.roots["tpinned"]
        PROVE  Place(x)' \notin nodes'
    <3>1. x \in Objects /\ ~Unscanned(x)
      BY <1>2, <1>5, <2>1 DEF ScanInv, TPinnedScanned, Unscanned
    <3> QED
      BY <1>7, <3>1 DEF Unscanned
  <2> QED
    BY <1>1, <2>1, HeapStays DEF TPinnedScanned
<1> QED
  BY <1>8, <1>9, <1>10 DEF ScanInv

LEMMA ScanFinalizersKeepsScanInv ==
  ASSUME CInv, ScanInv, ScanFinalizersSingleThreaded
  PROVE  ScanInv'
<1>1. /\ UNCHANGED <<mem, heap, moved, weak, moving, marked, nodes>>
      /\ phase = "weak" /\ phase' = "vmref"
      /\ slots' = Visited({Simple(a) : a \in Heap.finalizers})
  BY DEF ScanFinalizersSingleThreaded, otherVars
<1>2. \A o : Unscanned(o)' => Unscanned(o)
  BY <1>1, SamePlaces DEF Unscanned
<1>3. FreshOK'
  BY <1>1, <1>2, HeapStays, SameWords DEF ScanInv, FreshOK, PointsBehind
<1>4. SlotsScanned'
  <2>1. ASSUME NEW slot \in slots'
        PROVE  \E e \in Heap.edges : slot = SlotOf(e) /\ IsRootEdge(e)'
    <3>1. PICK a \in Heap.finalizers : slot = Simple(a)
      BY <1>1, <2>1 DEF Visited
    <3>2. PICK e \in Heap.edges : e.from = 0 /\ e.at = a /\ SlotOf(e) = Simple(a)
      BY RootSlots
    <3>3. IsRootEdge(e)'
      BY <1>1, <3>2, HeapStays DEF IsRootEdge, NotStarted
    <3> QED
      BY <3>1, <3>2, <3>3
  <2> QED
    BY <1>1, <2>1, HeapStays, SamePlaces DEF SlotsScanned, IsScanned
<1>5. TPinnedScanned'
  BY <1>1, HeapStays, SamePlaces DEF ScanInv, TPinnedScanned
<1> QED
  BY <1>3, <1>4, <1>5 DEF ScanInv

LEMMA ProcessWeakRefKeepsScanInv ==
  ASSUME CInv, ScanInv, NEW r \in weak, ProcessWeakRef(r)
  PROVE  ScanInv'
<1>1. UNCHANGED <<heap, moved, marked, nodes, slots, phase>>
  BY DEF ProcessWeakRef, traceVars
<1>2. IInv /\ marked \subseteq Objects /\ heap \in DOMAIN Heaps /\ r \in Heap.weak
  BY Places DEF CInv, MarksOK, WeakOK
<1>3. \A e \in Heap.edges : e.at # r /\ e.at \in Original
  BY <1>2, WeakValueWord, EdgesOfHeap
<1>4. \A e \in Heap.edges : Content(e.at)' = Content(e.at)
  BY <1>3, ProcessedWeakRef
<1>5. \A e \in Heap.edges : IsRootEdge(e) => IsRootEdge(e)'
  BY <1>1, HeapStays DEF IsRootEdge, NotStarted
<1> QED
  BY <1>1, <1>4, <1>5, NoScanKeepsScanInv

LEMMA NextKeepsScanInv ==
  ASSUME CInv, ScanInv, ScansFindReferences, [Next]_vars
  PROVE  ScanInv'
<1>1. CASE \/ \E o \in Heap.pinnable : mmtk_pin_object(o) \/ mmtk_unpin_object(o)
           \/ StopMutators \/ ScanRootsStep \/ ProcessWeakRefs \/ SweepVMSpecific
           \/ Finished \/ UNCHANGED vars
  <2>1. /\ UNCHANGED <<heap, moved, marked, nodes, slots>>
        /\ phase \in {"tpin", "done"} => phase' = phase
        /\ phase' = "done" \/ mem' = mem
        /\ \/ phase' = phase \/ (phase = "mutator" /\ phase' = "roots")
           \/ (phase = "closure" /\ phase' = "weak") \/ (phase = "vmref" /\ phase' = "done")
    BY <1>1 DEF mmtk_pin_object, mmtk_unpin_object, StopMutators, ScanRootsStep, ProcessWeakRefs,
       SweepVMSpecific, Finished, vars, traceVars, otherVars
  <2>2. \A e : IsRootEdge(e) => IsRootEdge(e)'
    BY <2>1, HeapStays DEF IsRootEdge, NotStarted
  <2>3. mem' = mem => \A a : Content(a)' = Content(a)
    BY <2>1, SameWords
  <2> QED
    BY <2>1, <2>2, <2>3, NoScanKeepsScanInv
<1>2. CASE TraceTPinnedRoots
  BY <1>2, TraceTPinnedRootsKeepsScanInv
<1>3. CASE TracePinningRoots
  BY <1>3, TracePinningRootsKeepsScanInv
<1>4. ASSUME NEW n \in nodes, ScanObject(n)
      PROVE  ScanInv'
  BY <1>4, ScanObjectKeepsScanInv
<1>5. ASSUME NEW slot \in slots, ProcessSlot(slot)
      PROVE  ScanInv'
  BY <1>5, ProcessSlotKeepsScanInv
<1>6. ASSUME NEW r \in weak, ProcessWeakRef(r)
      PROVE  ScanInv'
  BY <1>6, ProcessWeakRefKeepsScanInv
<1>7. CASE ScanFinalizersSingleThreaded
  BY <1>7, ScanFinalizersKeepsScanInv
<1> QED
  BY <1>1, <1>2, <1>3, <1>4, <1>5, <1>6, <1>7 DEF Next

-----------------------------------------------------------------------------
(* What a scan reads.                                                      *)

\* A word of an object that is to be scanned is what it was, but for the
\* pointer of an inlined memory that has moved.
LEMMA FreshWord ==
  ASSUME CInv, ScanInv, phase # "done", NEW o \in Objects, Unscanned(o),
         NEW d \in Int, o + d \in DOMAIN Heap.mem, InObject(o, o + d),
         o \in Heap.weak => d # 0,
         o \in moved => \A e \in Heap.edges : e.at = o + d => ~PointsBehind(e, o)
  PROVE  mem[Place(o) + d] = Heap.mem[o + d]
<1>1. /\ heap \in DOMAIN Heaps /\ IInv /\ marked \subseteq Objects /\ WordsOK
      /\ NotStarted => moved = {} /\ marked = {}
      /\ ~NotStarted => Heap.roots["tpinned"] \subseteq marked
      /\ phase = "tpin" => moved = {}
  BY Places DEF CInv, MarksOK, MemoryOK, IInv, StayOK
<1>2. CASE \A e \in Heap.edges : e.at # o + d
  BY <1>1, <1>2, FixedWords
<1>3. ASSUME NEW e \in Heap.edges, e.at = o + d
      PROVE  mem[Place(o) + d] = Heap.mem[o + d]
  <2>1. /\ At(o + d) = Place(o) + d /\ Heap.mem[o + d] = e.to + e.off
        /\ e.from = o \/ o \in Heap.roots["tpinned"]
        /\ Content(e.at) \in {e.to + e.off, Place(e.to) + e.off}
    BY <1>1, <1>3, AtPlace, EdgesOfHeap DEF CInv, MemoryOK, EdgesOK
  <2>2. SUFFICES Content(e.at) = e.to + e.off
    BY <1>3, <2>1 DEF Content
  <2>3. CASE e.from = o
    <3>1. Content(e.at) = e.to + e.off \/ PointsBehind(e, o)
      BY <1>3, <2>3 DEF ScanInv, FreshOK
    <3>2. PointsBehind(e, o) => Place(e.to) = e.to
      BY <1>3 DEF PointsBehind, Place
    <3> QED
      BY <2>1, <3>1, <3>2
  <2>4. CASE o \in Heap.roots["tpinned"]
    <3>1. moved = {}
      BY <1>1, <2>4 DEF ScanInv, TPinnedScanned, Unscanned
    <3> QED
      BY <2>1, <3>1 DEF Place
  <2> QED
    BY <2>1, <2>3, <2>4
<1> QED
  BY <1>2, <1>3

\* The kind of an object is read from its header.
LEMMA KindIsKept ==
  ASSUME IInv, marked \subseteq Objects, WordsOK, NEW o \in Objects
  PROVE  /\ mmtk_jl_typetagof(Place(o)) = Before(Heap)!mmtk_jl_typetagof(o)
         /\ mmtk_jl_typeof(Place(o)) = Before(Heap)!mmtk_jl_typeof(o)
         /\ Layout(Place(o)) = Before(Heap)!Layout(o)
         /\ IsBuffer(Place(o)) <=> Before(Heap)!IsBuffer(o)
         /\ IsSmallTag(Place(o)) <=> Before(Heap)!IsSmallTag(o)
         /\ HasPlainTag(Place(o)) <=> Before(Heap)!HasPlainTag(o)
         /\ \A tag : HasTag(Place(o), tag) <=> Before(Heap)!HasTag(o, tag)
         /\ \A name : HasName(Place(o), name) <=> Before(Heap)!HasName(o, name)
<1>1. mem[Place(o) - 8] = Heap.mem[o - 8]
  BY HeaderStays
<1>2. mmtk_jl_typetagof(Place(o)) = Before(Heap)!mmtk_jl_typetagof(o)
  BY <1>1 DEF mmtk_jl_typetagof, Before!mmtk_jl_typetagof, Load, Before!Load,
     jl_taggedvalue_t, Before!jl_taggedvalue_t
<1>3. mmtk_jl_typeof(Place(o)) = Before(Heap)!mmtk_jl_typeof(o)
  BY <1>2 DEF mmtk_jl_typeof, Before!mmtk_jl_typeof, mmtk_jl_to_typeof,
     Before!mmtk_jl_to_typeof, jl_max_tags, Before!jl_max_tags,
     BYTES_IN_ADDRESS, Before!BYTES_IN_ADDRESS
<1>4. DataType(Place(o)) = Before(Heap)!DataType(o)
  BY <1>3 DEF DataType, Before!DataType
<1>5. Layout(Place(o)) = Before(Heap)!Layout(o)
  BY <1>4 DEF Layout, Before!Layout
<1>6. \A name : HasName(Place(o), name) <=> Before(Heap)!HasName(o, name)
  BY <1>4 DEF HasName, Before!HasName
<1>7. \A tag : HasTag(Place(o), tag) <=> Before(Heap)!HasTag(o, tag)
  BY <1>2 DEF HasTag, Before!HasTag
<1>8. HasPlainTag(Place(o)) <=> Before(Heap)!HasPlainTag(o)
  BY <1>7 DEF HasPlainTag, Before!HasPlainTag, small_tags, Before!small_tags
<1>9. /\ IsBuffer(Place(o)) <=> Before(Heap)!IsBuffer(o)
      /\ IsSmallTag(Place(o)) <=> Before(Heap)!IsSmallTag(o)
  BY <1>2 DEF IsBuffer, Before!IsBuffer, IsSmallTag, Before!IsSmallTag,
     jl_max_tags, Before!jl_max_tags
<1> QED
  BY <1>2, <1>3, <1>5, <1>6, <1>7, <1>8, <1>9

\* Words and layouts are taken the same way.
LEMMA SameOperators ==
  ASSUME NEW it
  PROVE  /\ \A l : Before(it)!PointerOffsets(l) = PointerOffsets(l)
         /\ \A a, x : Before(it)!Offset(a, x) = Offset(a, x)
         /\ \A a, n : Before(it)!Shift(a, n) = Shift(a, n)
         /\ \A a, l : Before(it)!PointerSlots(a, l) = PointerSlots(a, l)
         /\ \A b, c, n : Before(it)!SlotsBetween(b, c, n) = SlotsBetween(b, c, n)
         /\ \A a : /\ Before(it)!Load(a) = it.mem[a]
                   /\ Before(it)!Simple(a) = Simple(a)
<1>1. \A l : Before(it)!PointerOffsets(l) = PointerOffsets(l)
  BY DEF PointerOffsets, Before!PointerOffsets, mmtk_jl_dt_layout_ptrs,
     Before!mmtk_jl_dt_layout_ptrs, mmtk_jl_fielddesc_size, Before!mmtk_jl_fielddesc_size
<1>2. /\ \A a, x : Before(it)!Offset(a, x) = Offset(a, x)
      /\ \A a, n : Before(it)!Shift(a, n) = Shift(a, n)
      /\ \A a : /\ Before(it)!Load(a) = it.mem[a]
                /\ Before(it)!Simple(a) = Simple(a)
  BY DEF Offset, Before!Offset, Shift, Before!Shift, Before!Load, Simple, Before!Simple,
     BYTES_IN_ADDRESS, Before!BYTES_IN_ADDRESS
<1>3. \A a, l : Before(it)!PointerSlots(a, l) = PointerSlots(a, l)
  BY <1>1, <1>2 DEF PointerSlots, Before!PointerSlots
<1>4. \A b, c, n : Before(it)!SlotsBetween(b, c, n) = SlotsBetween(b, c, n)
  BY <1>2 DEF SlotsBetween, Before!SlotsBetween
<1> QED
  BY <1>1, <1>2, <1>3, <1>4

\* What the assumptions say of the words that a scan looks at.
LEMMA Typed ==
  ASSUME heap \in DOMAIN Heaps, NEW o \in Objects, HasType(Heap, o)
  PROVE  /\ Before(Heap)!mmtk_jl_typeof(o) \in DOMAIN DataTypes
         /\ Before(Heap)!IsSmallTag(o) => ~IsMemory(Heap, o)
         /\ FieldsAreWords(Heap, o)
BY ScansAssumption DEF Heap, Objects

\* The heap is one whose objects are scanned rightly before anything moves, and
\* are known again by their scans when they have moved.
Scannable == ScannedRightlyAtRest(Heap) /\ SlotsFollowMoves(Heap)

LEMMA Scans ==
  ASSUME heap \in DOMAIN Heaps, Scannable, NEW o \in Objects
  PROVE  /\ ScanIsRight(Heap, o)
         /\ \A slot \in Found(Heap, o) : slot = Offset(slot.addr, slot.offset) /\ slot.addr \in Nat
         /\ HasType(Heap, o) /\ o \in Movable => SlotsMoveAlong(Heap, o)
<1>1. /\ ScanIsRight(Heap, o)
      /\ HasType(Heap, o) /\ o \in Movable => SlotsMoveAlong(Heap, o)
  BY DEF Scannable, ScannedRightlyAtRest, SlotsFollowMoves, Objects, Movable
<1>2. ASSUME NEW slot \in Found(Heap, o)
      PROVE  slot = Offset(slot.addr, slot.offset) /\ slot.addr \in Nat
  <2>1. CASE \E e \in Heap.edges : slot = Before(Heap)!Offset(e.at, e.off)
    <3>1. PICK e \in Heap.edges : slot = Offset(e.at, e.off)
      BY <2>1, SameOperators
    <3>2. e.at \in Nat
      BY EdgesOfHeap, Layouts DEF Original
    <3> QED
      BY <3>1, <3>2 DEF Offset
  <2>2. CASE slot = Before(Heap)!Simple(slot.addr) /\ slot.addr \in DOMAIN Heap.mem
    <3>1. slot = Simple(slot.addr) /\ slot.addr \in Nat
      BY <2>2, SameOperators, Layouts
    <3>2. slot.offset = 0
      BY <3>1 DEF Simple
    <3> QED
      BY <3>1, <3>2 DEF Simple, Offset
  <2> QED
    BY <1>1, <2>1, <2>2 DEF ScanIsRight
<1> QED
  BY <1>1, <1>2

\* The words that tell where the slots of an object are.
LEMMA ReadsKept ==
  ASSUME CInv, ScanInv, phase # "done", NEW o \in Objects, Unscanned(o),
         HasType(Heap, o)
  PROVE  /\ Before(Heap)!HasTag(o, small_tags.simplevector) => mem[Place(o) + 0] = Heap.mem[o + 0]
         /\ IsModule(Heap, o) => /\ mem[Place(o) + 64] = Heap.mem[o + 64]
                                 /\ mem[Place(o) + 80] = Heap.mem[o + 80]
         /\ IsMemory(Heap, o) => /\ mem[Place(o) + 0] = Heap.mem[o + 0]
                                 /\ mem[Place(o) + 16] = Heap.mem[o + 16]
                                 /\ mem[Place(o) + 8] = IF Heap.mem[o + 8] = o + 16
                                                        THEN Place(o) + 16 ELSE Heap.mem[o + 8]
         /\ Before(Heap)!HasName(o, "Array") => /\ mem[Place(o) + 0] = Heap.mem[o + 0]
                                                /\ mem[Place(o) + 8] = Heap.mem[o + 8]
<1>1. /\ heap \in DOMAIN Heaps /\ IInv /\ marked \subseteq Objects /\ WordsOK
      /\ moved \subseteq Movable /\ o \in Nat
  BY Places, Layouts DEF CInv, MarksOK, MemoryOK
<1>2. FieldsAreWords(Heap, o)
  BY <1>1, Typed
<1> DEFINE word(d) == /\ o + d \in DOMAIN Heap.mem /\ InObject(o, o + d)
                      /\ o \in Heap.weak => d # 0
<1>3. ASSUME NEW d \in Int, word(d), d # 8
      PROVE  mem[Place(o) + d] = Heap.mem[o + d]
  <2>1. \A e \in Heap.edges : e.at = o + d => ~PointsBehind(e, o)
    BY <1>1, <1>3 DEF PointsBehind, jl_genericmemory_t
  <2> QED
    BY <1>3, <2>1, FreshWord
<1>4. Before(Heap)!HasTag(o, small_tags.simplevector) => word(0)
  BY <1>2 DEF FieldsAreWords, InObject, jl_svec_t, jl_weakref_t
<1>5. IsModule(Heap, o) => word(64) /\ word(80)
  BY <1>2 DEF FieldsAreWords, InObject, jl_module_t, arraylist_t, jl_weakref_t
<1>6. IsMemory(Heap, o) => word(0) /\ word(8) /\ word(16)
  BY <1>2 DEF FieldsAreWords, InObject, jl_genericmemory_t, jl_weakref_t
<1>7. Before(Heap)!HasName(o, "Array") => word(0) /\ word(8)
  BY <1>2 DEF FieldsAreWords, InObject, jl_array_t, jl_genericmemoryref_t, jl_weakref_t
<1>8. ASSUME word(8), o \in moved => ~\E e \in Heap.edges : PointsBehind(e, o)
      PROVE  mem[Place(o) + 8] = Heap.mem[o + 8]
  BY <1>8, FreshWord
<1>9. ASSUME NEW e \in Heap.edges, PointsBehind(e, o)
      PROVE  e.at = o + 8 /\ e.to = o /\ e.off = 16 /\ Heap.mem[o + 8] = o + 16
  BY <1>1, <1>9, EdgesOfHeap DEF PointsBehind, jl_genericmemory_t
<1>10. ASSUME Before(Heap)!HasName(o, "Array"), o \in moved
       PROVE  ~\E e \in Heap.edges : PointsBehind(e, o)
  <2>1. ~HasName(Place(o), "GenericMemory")
    <3>1. HasName(Place(o), "Array")
      BY <1>1, <1>10, KindIsKept
    <3> QED
      BY <3>1 DEF HasName
  <2> QED
    BY <1>1, <1>10, <2>1 DEF CInv, MemoryOK, SizesStayRight, IsInlined
<1>11. ASSUME IsMemory(Heap, o)
       PROVE  mem[Place(o) + 8] = IF Heap.mem[o + 8] = o + 16 THEN Place(o) + 16 ELSE Heap.mem[o + 8]
  <2>1. CASE o \in moved /\ Heap.mem[o + 8] = o + 16
    <3>1. HasName(Place(o), "GenericMemory") /\ o \in Movable
      BY <1>1, <1>11, <2>1, KindIsKept DEF IsMemory
    <3>2. \E e \in Heap.edges : PointsBehind(e, o)
      BY <2>1, <3>1 DEF CInv, MemoryOK, FieldsOK, jl_genericmemory_t
    <3>3. IsInlined(Place(o))
      BY <3>1, <3>2 DEF CInv, MemoryOK, SizesStayRight
    <3> QED
      BY <2>1, <3>3, WhatIsInlined
  <2>2. CASE o \in moved /\ Heap.mem[o + 8] # o + 16
    BY <1>6, <1>8, <1>9, <1>11, <2>2
  <2>3. CASE o \notin moved
    BY <1>6, <1>8, <1>11, <2>3 DEF Place
  <2> QED
    BY <2>1, <2>2, <2>3
<1> HIDE DEF word
<1> QED
  BY <1>3, <1>4, <1>5, <1>6, <1>7, <1>8, <1>10, <1>11

\* Slots as the words that are read tell them.
SvecOf(o, length) == SlotsBetween(o + 8, Shift(o + 8, length), 1)
UsingsOf(o, length, items) ==
  (IF IsMapped(items) THEN {Offset(o + 80, 88)} ELSE {})
  \cup SlotsBetween(items, Shift(items, length), 4)
ModuleOf(o, length, items) ==
  {Simple(o + d) : d \in {8, 16, 24, 48, 56}} \cup UsingsOf(o, length, items)
ArrayOf(o, ptr, memory) ==
  IF IsMapped(ptr) /\ ptr > memory THEN {Offset(o + 0, ptr - memory)} ELSE {}
HowOf(o, ptr, owner) ==
  IF ptr = o + 16 THEN 0 ELSE IF owner = o THEN 1 ELSE IF owner = 0 THEN 2 ELSE 3
ElementsOf(l, length, begin) ==
  LET size == l.size \div 8
      end == Shift(begin, length * size)
  IN  CASE l.arrayelem_isboxed -> SlotsBetween(begin, Shift(begin, length), 1)
        [] ~l.arrayelem_isboxed /\ l.first_ptr < 0 -> {}
        [] ~l.arrayelem_isboxed /\ l.first_ptr >= 0 /\ l.npointers = 1 ->
             SlotsBetween(Shift(begin, l.first_ptr), end, size)
        [] ~l.arrayelem_isboxed /\ l.first_ptr >= 0 /\ l.npointers > 1 /\ l.fielddesc_type <= 1 ->
             UNION {PointerSlots(Shift(begin, k * size), l) : k \in 0 .. length - 1}
MemoryOf(o, l, length, ptr, owner) ==
  IF HowOf(o, ptr, owner) = 3 THEN {Simple(o + 16)}
  ELSE IF length = 0 THEN {} ELSE ElementsOf(l, length, ptr)

LEMMA ScansRead ==
  ASSUME NEW o \in Nat \ {0}
  PROVE  /\ SvecSlots(o) = SvecOf(o, mem[o + 0])
         /\ UsingsSlots(o) = UsingsOf(o, mem[o + 64], mem[o + 80])
         /\ ModuleSlots(o) = ModuleOf(o, mem[o + 64], mem[o + 80])
         /\ ArrayDataSlots(o) = ArrayOf(o, mem[o + 0], mem[o + 8])
         /\ jl_gc_genericmemory_how(o) = HowOf(o, mem[o + 8], mem[o + 16])
         /\ MemorySlots(o) = MemoryOf(o, Layout(o), mem[o + 0], mem[o + 8], mem[o + 16])
<1>1. SvecSlots(o) = SvecOf(o, mem[o + 0])
  BY DEF SvecSlots, SvecOf, jl_svec_t, Load
<1>2. UsingsSlots(o) = UsingsOf(o, mem[o + 64], mem[o + 80])
  <2>1. (o + 64) + 16 = o + 80 /\ (o + 64) + 0 = o + 64
    OBVIOUS
  <2> QED
    BY <2>1 DEF UsingsSlots, UsingsOf, jl_module_t, arraylist_t, Load,
       OFFSET_OF_INLINED_SPACE_IN_MODULE, mmtk_object_is_managed_by_mmtk
<1>3. ModuleSlots(o) = ModuleOf(o, mem[o + 64], mem[o + 80])
  <2>1. {Simple(o + jl_module_t[f]) : f \in {"bindings", "bindingkeyset", "parent",
                                             "usings_backedges", "scanned_methods"}}
          = {Simple(o + d) : d \in {8, 16, 24, 48, 56}}
    BY DEF jl_module_t
  <2> QED
    BY <1>2, <2>1 DEF ModuleSlots, ModuleOf
<1>4. ArrayDataSlots(o) = ArrayOf(o, mem[o + 0], mem[o + 8])
  <2>1. (o + 0) + 0 = o + 0 /\ (o + 0) + 8 = o + 8
    OBVIOUS
  <2> QED
    BY <2>1 DEF ArrayDataSlots, ArrayOf, jl_array_t, jl_genericmemoryref_t, Load,
       mmtk_object_is_managed_by_mmtk
<1>5. jl_gc_genericmemory_how(o) = HowOf(o, mem[o + 8], mem[o + 16])
  BY DEF jl_gc_genericmemory_how, HowOf, jl_gc_get_owner_address_to_mmtk, jl_genericmemory_t, Load
<1>6. ElementSlots(o) = ElementsOf(Layout(o), mem[o + 0], mem[o + 8])
  BY DEF ElementSlots, ElementsOf, jl_genericmemory_t, Load, BYTES_IN_ADDRESS
<1>7. MemorySlots(o) = MemoryOf(o, Layout(o), mem[o + 0], mem[o + 8], mem[o + 16])
  BY <1>5, <1>6 DEF MemorySlots, MemoryOf, jl_gc_get_owner_address_to_mmtk, jl_genericmemory_t, Load
<1> QED
  BY <1>1, <1>2, <1>3, <1>4, <1>5, <1>7

\* The same of the heap as it was.
LEMMA ScansReadBefore ==
  ASSUME NEW o \in Nat \ {0}, NEW it
  PROVE  /\ Before(it)!SvecSlots(o) = SvecOf(o, it.mem[o + 0])
         /\ Before(it)!UsingsSlots(o) = UsingsOf(o, it.mem[o + 64], it.mem[o + 80])
         /\ Before(it)!ModuleSlots(o) = ModuleOf(o, it.mem[o + 64], it.mem[o + 80])
         /\ Before(it)!ArrayDataSlots(o) = ArrayOf(o, it.mem[o + 0], it.mem[o + 8])
         /\ Before(it)!jl_gc_genericmemory_how(o) = HowOf(o, it.mem[o + 8], it.mem[o + 16])
         /\ Before(it)!MemorySlots(o)
              = MemoryOf(o, Before(it)!Layout(o), it.mem[o + 0], it.mem[o + 8], it.mem[o + 16])
<1>0. /\ \A a, n : Before(it)!Shift(a, n) = Shift(a, n)
      /\ \A a, x : Before(it)!Offset(a, x) = Offset(a, x)
      /\ \A a, l : Before(it)!PointerSlots(a, l) = PointerSlots(a, l)
      /\ \A b, c, n : Before(it)!SlotsBetween(b, c, n) = SlotsBetween(b, c, n)
      /\ \A a : Before(it)!Load(a) = it.mem[a] /\ Before(it)!Simple(a) = Simple(a)
  BY SameOperators
<1>1. Before(it)!SvecSlots(o) = SvecOf(o, it.mem[o + 0])
  BY <1>0 DEF Before!SvecSlots, SvecOf, Before!jl_svec_t
<1>2. Before(it)!UsingsSlots(o) = UsingsOf(o, it.mem[o + 64], it.mem[o + 80])
  <2>1. (o + 64) + 16 = o + 80 /\ (o + 64) + 0 = o + 64
    OBVIOUS
  <2> QED
    BY <1>0, <2>1 DEF Before!UsingsSlots, UsingsOf, Before!jl_module_t, Before!arraylist_t,
       Before!OFFSET_OF_INLINED_SPACE_IN_MODULE, Before!mmtk_object_is_managed_by_mmtk
<1>3. Before(it)!ModuleSlots(o) = ModuleOf(o, it.mem[o + 64], it.mem[o + 80])
  <2>1. {Simple(o + Before(it)!jl_module_t[f]) : f \in {"bindings", "bindingkeyset", "parent",
                                                        "usings_backedges", "scanned_methods"}}
          = {Simple(o + d) : d \in {8, 16, 24, 48, 56}}
    BY DEF Before!jl_module_t
  <2>2. Before(it)!ModuleSlots(o)
          = {Simple(o + Before(it)!jl_module_t[f]) : f \in {"bindings", "bindingkeyset", "parent",
                                                            "usings_backedges", "scanned_methods"}}
            \cup Before(it)!UsingsSlots(o)
    BY <1>0 DEF Before!ModuleSlots
  <2> QED
    BY <1>2, <2>1, <2>2 DEF ModuleOf
<1>4. Before(it)!ArrayDataSlots(o) = ArrayOf(o, it.mem[o + 0], it.mem[o + 8])
  <2>1. (o + 0) + 0 = o + 0 /\ (o + 0) + 8 = o + 8
    OBVIOUS
  <2> QED
    BY <1>0, <2>1 DEF Before!ArrayDataSlots, ArrayOf, Before!jl_array_t,
       Before!jl_genericmemoryref_t, Before!mmtk_object_is_managed_by_mmtk
<1>5. Before(it)!jl_gc_genericmemory_how(o) = HowOf(o, it.mem[o + 8], it.mem[o + 16])
  BY <1>0 DEF Before!jl_gc_genericmemory_how, HowOf, Before!jl_gc_get_owner_address_to_mmtk,
     Before!jl_genericmemory_t
<1>6. Before(it)!ElementSlots(o) = ElementsOf(Before(it)!Layout(o), it.mem[o + 0], it.mem[o + 8])
  <2> DEFINE l == Before(it)!Layout(o)
             begin == it.mem[o + 8]
             length == it.mem[o + 0]
             size == l.size \div 8
             structs == UNION {PointerSlots(Shift(begin, k * size), l) : k \in 0 .. length - 1}
  <2>1. structs = UNION {Before(it)!PointerSlots(Before(it)!Shift(begin, k * size), l)
                           : k \in 0 .. length - 1}
    BY <1>0
  <2>2. /\ Before(it)!Load(o + 8) = begin /\ Before(it)!Load(o + 0) = length
        /\ \A a, n : Before(it)!Shift(a, n) = Shift(a, n)
        /\ \A b, c, n : Before(it)!SlotsBetween(b, c, n) = SlotsBetween(b, c, n)
    BY <1>0
  <2> HIDE DEF l, begin, length, size, structs
  <2>3. Before(it)!ElementSlots(o)
          = CASE l.arrayelem_isboxed -> SlotsBetween(begin, Shift(begin, length), 1)
              [] ~l.arrayelem_isboxed /\ l.first_ptr < 0 -> {}
              [] ~l.arrayelem_isboxed /\ l.first_ptr >= 0 /\ l.npointers = 1 ->
                   SlotsBetween(Shift(begin, l.first_ptr), Shift(begin, length * size), size)
              [] ~l.arrayelem_isboxed /\ l.first_ptr >= 0 /\ l.npointers > 1
                   /\ l.fielddesc_type <= 1 -> structs
    BY <2>1, <2>2 DEF Before!ElementSlots, Before!jl_genericmemory_t, Before!BYTES_IN_ADDRESS,
       l, size
  <2> QED
    BY <2>3 DEF ElementsOf, l, begin, length, size, structs
<1>7. Before(it)!MemorySlots(o)
        = MemoryOf(o, Before(it)!Layout(o), it.mem[o + 0], it.mem[o + 8], it.mem[o + 16])
  BY <1>0, <1>5, <1>6 DEF Before!MemorySlots, MemoryOf, Before!jl_gc_get_owner_address_to_mmtk,
     Before!jl_genericmemory_t
<1> QED
  BY <1>1, <1>2, <1>3, <1>4, <1>5, <1>7

-----------------------------------------------------------------------------
(* The stack of a task is read as it was.                                  *)

LEMMA FixedWord ==
  ASSUME CInv, phase # "done", NEW a, IsFixed(Heap, a)
  PROVE  mem[a] = Heap.mem[a]
<1>1. /\ heap \in DOMAIN Heaps /\ IInv /\ marked \subseteq Objects /\ WordsOK
      /\ moved \subseteq Movable /\ moved \subseteq Objects
  BY Places DEF CInv, MarksOK, MemoryOK
<1>2. /\ a \in DOMAIN Heap.mem
      /\ \A p \in Objects : ~InObject(p, a - Delta) /\ (InObject(p, a) => p \notin Movable)
      /\ \A e \in Heap.edges : e.at = a => e.to \notin Movable
      /\ \A r \in Heap.weak : a # r + jl_weakref_t.value
  BY DEF IsFixed, InObject, Objects, Movable
<1>3. a \in Original /\ At(a) = a
  BY <1>1, <1>2 DEF Original, At
<1>4. Content(a) = Heap.mem[a]
  <2>1. CASE \E e \in Heap.edges : a = e.at
    <3>1. PICK e \in Heap.edges : a = e.at
      BY <2>1
    <3>2. Content(e.at) \in {e.to + e.off, Place(e.to) + e.off} /\ Heap.mem[e.at] = e.to + e.off
      BY <1>1, EdgesOfHeap DEF CInv, MemoryOK, EdgesOK
    <3>3. Place(e.to) = e.to
      BY <1>1, <1>2, <3>1 DEF Place
    <3> QED
      BY <3>1, <3>2, <3>3
  <2>2. CASE ~\E e \in Heap.edges : a = e.at
    <3>1. /\ \A e \in Heap.edges : e.at # a
          /\ \A r \in Heap.weak : a # r + jl_weakref_t.value
      BY <1>2, <2>2
    <3> QED
      BY <1>1, <1>3, <3>1 DEF WordsOK
  <2> QED
    BY <2>1, <2>2
<1> QED
  BY <1>3, <1>4 DEF Content

\* The words that are read of a frame, and of the exceptions.
LEMMA StackWordsAre ==
  ASSUME NEW it, NEW o
  PROVE  /\ \A s \in Before(it)!Frames(o) :
              /\ Before(it)!get_stack_addr(o, s + 0) \in StackWords(it, o)
              /\ Before(it)!get_stack_addr(o, s + 8) \in StackWords(it, o)
              /\ \A i \in 0 .. (Before(it)!read_stack(o, s + 0) \div 4) - 1 :
                   Before(it)!get_stack_addr(o, Shift(s, 2 + i)) \in StackWords(it, o)
         /\ it.mem[o + 176] # 0 => it.mem[o + 176] + 0 \in StackWords(it, o)
<1>1. /\ jl_gcframe_t.nroots = 0 /\ jl_gcframe_t.prev = 8
      /\ jl_task_t.excstack = 176 /\ jl_excstack_t.top = 0
  BY DEF jl_gcframe_t, jl_task_t, jl_excstack_t
<1>2. \A a : Before(it)!read_stack(o, a) = it.mem[Before(it)!get_stack_addr(o, a)]
  BY DEF Before!read_stack, Before!Load
<1> DEFINE at(a) == Before(it)!get_stack_addr(o, a)
           of(s) == {at(s + 0), at(s + 8)}
                    \cup {at(Shift(s, 2 + i)) : i \in 0 .. (it.mem[at(s + 0)] \div 4) - 1}
           frames == Before(it)!Frames(o)
           top == IF it.mem[o + 176] = 0 THEN {} ELSE {it.mem[o + 176] + 0}
<1>3. StackWords(it, o) = (UNION {of(s) : s \in frames}) \cup top
  BY <1>1 DEF StackWords
<1>4. \A s \in frames : of(s) \subseteq StackWords(it, o)
  <2> HIDE DEF of, frames, top
  <2> QED
    BY <1>3
<1> HIDE DEF frames
<1>5. ASSUME NEW s \in frames
      PROVE  /\ at(s + 0) \in StackWords(it, o) /\ at(s + 8) \in StackWords(it, o)
             /\ \A i \in 0 .. (it.mem[at(s + 0)] \div 4) - 1 : at(Shift(s, 2 + i)) \in StackWords(it, o)
  BY <1>4
<1>6. it.mem[o + 176] # 0 => it.mem[o + 176] + 0 \in StackWords(it, o)
  <2>1. it.mem[o + 176] # 0 => it.mem[o + 176] + 0 \in top
    OBVIOUS
  <2> HIDE DEF of, top
  <2> QED
    BY <1>3, <2>1
<1> HIDE DEF at
<1> QED
  BY <1>2, <1>5, <1>6 DEF frames, at

\* The words of a task that tell where its stack is.
LEMMA TaskWords ==
  ASSUME CInv, ScanInv, phase # "done", NEW o \in Objects, Unscanned(o),
         HasType(Heap, o), IsTask(Heap, o)
  PROVE  \A d \in {144, 152, 168, 176, 200, 216} :
           mem[Place(o) + d] = Heap.mem[o + d]
<1>1. heap \in DOMAIN Heaps /\ FieldsAreWords(Heap, o) /\ o \in Nat
  BY Places, Layouts, Typed DEF CInv, MarksOK
<1>2. SUFFICES ASSUME NEW d \in {144, 152, 168, 176, 200, 216}
               PROVE  mem[Place(o) + d] = Heap.mem[o + d]
  OBVIOUS
<1>3. o + d \in DOMAIN Heap.mem /\ InObject(o, o + d) /\ (o \in Heap.weak => d # 0)
  BY <1>1 DEF FieldsAreWords, InObject, jl_task_t, jl_ucontext_t, jl_weakref_t
<1>4. \A e \in Heap.edges : e.at = o + d => ~PointsBehind(e, o)
  BY <1>1, <1>2 DEF PointsBehind, jl_genericmemory_t
<1> QED
  BY <1>2, <1>3, <1>4, FreshWord

\* What does not depend on memory.
LEMMA SameLists ==
  ASSUME NEW it
  PROVE  /\ \A x, prev : Before(it)!FrameList(x, prev) = FrameList(x, prev)
         /\ \A x, list : Before(it)!RootSlotsOf(x, list) = RootSlotsOf(x, list)
<1>1. \A x, prev : Before(it)!FrameList(x, prev) = FrameList(x, prev)
  BY DEF FrameList, Before!FrameList
<1>2. \A x, list : Before(it)!RootSlotsOf(x, list) = RootSlotsOf(x, list)
  BY DEF RootSlotsOf, Before!RootSlotsOf, Simple, Before!Simple, Offset, Before!Offset
<1> QED
  BY <1>1, <1>2

LEMMA StackAddrsKept ==
  ASSUME CInv, ScanInv, phase # "done", NEW o \in Objects, Unscanned(o),
         HasType(Heap, o), IsTask(Heap, o)
  PROVE  /\ \A a : get_stack_addr(Place(o), a) = Before(Heap)!get_stack_addr(o, a)
         /\ HasCopiedStack(Place(o)) <=> Before(Heap)!HasCopiedStack(o)
         /\ StkbufAddr(Place(o)) = Place(o) + 200 /\ Before(Heap)!StkbufAddr(o) = o + 200
<1>1. o \in Nat /\ Place(o) \in Nat
  BY PlacesAreApart, Places, Layouts DEF CInv, MarksOK
<1>2. \A d \in {144, 152, 168, 176, 200, 216} : mem[Place(o) + d] = Heap.mem[o + d]
  BY TaskWords
<1>3. /\ StkbufAddr(Place(o)) = Place(o) + 200 /\ Before(Heap)!StkbufAddr(o) = o + 200
      /\ copy_stack(Place(o)) = mem[Place(o) + 216]
      /\ Before(Heap)!copy_stack(o) = Heap.mem[o + 216]
  <2>1. \A n \in Nat : (n + 192) + 8 = n + 200 /\ (n + 192) + 24 = n + 216
    OBVIOUS
  <2> QED
    BY <1>1, <2>1 DEF StkbufAddr, Before!StkbufAddr, copy_stack, Before!copy_stack, Load,
       Before!Load, jl_task_t, Before!jl_task_t, jl_ucontext_t, Before!jl_ucontext_t
<1>4. HasCopiedStack(Place(o)) <=> Before(Heap)!HasCopiedStack(o)
  BY <1>2, <1>3 DEF HasCopiedStack, Before!HasCopiedStack, Load, Before!Load
<1>5. \A a : get_stack_addr(Place(o), a) = Before(Heap)!get_stack_addr(o, a)
  BY <1>2, <1>3, <1>4 DEF get_stack_addr, Before!get_stack_addr, Load, Before!Load,
     jl_task_t, Before!jl_task_t
<1> QED
  BY <1>3, <1>4, <1>5

\* A task as it is scanned: its stack has the same frames.
LEMMA FramesKept ==
  ASSUME CInv, ScanInv, phase # "done", NEW o \in Objects, Unscanned(o),
         HasType(Heap, o), IsTask(Heap, o)
  PROVE  Frames(Place(o)) = Before(Heap)!Frames(o)
<1> DEFINE n == Place(o)
           prev == [s \in Nat |-> IF s = 0 THEN 0 ELSE read_stack(n, s + 8)]
           then == [s \in Nat |-> IF s = 0 THEN 0 ELSE Before(Heap)!read_stack(o, s + 8)]
           at == FrameAt(n)
           was == Before(Heap)!FrameAt(o)
<1>1. heap \in DOMAIN Heaps /\ FieldsAreWords(Heap, o) /\ MaxFrames \in Nat
  BY Places, Typed, TracingAssumption DEF CInv, MarksOK
<1>2. /\ at[0] = mem[n + 152] /\ \A k \in Nat : at[k + 1] = prev[at[k]]
      /\ was[0] = Heap.mem[o + 152] /\ \A k \in Nat : was[k + 1] = then[was[k]]
  <2>1. \A x, f : FrameList(x, f) = CHOOSE at_ : Iterated(at_, f, x)
    BY DEF FrameList, Iterated
  <2>2. \A x, f : Iterated(FrameList(x, f), f, x)
    BY <2>1, IterationExists
  <2>3. at = FrameList(mem[n + 152], prev)
    BY DEF FrameAt, jl_task_t, jl_gcframe_t, Load
  <2>4. was = FrameList(Heap.mem[o + 152], then)
    BY SameLists DEF Before!FrameAt, Before!jl_task_t, Before!jl_gcframe_t, Before!Load
  <2>5. Iterated(at, prev, mem[n + 152]) /\ Iterated(was, then, Heap.mem[o + 152])
    BY <2>2, <2>3, <2>4
  <2> HIDE DEF at, was, prev, then
  <2>6. at[0] = mem[n + 152] /\ \A k \in Nat : at[k + 1] = prev[at[k]]
    BY <2>5, IterationSteps
  <2>7. was[0] = Heap.mem[o + 152] /\ \A k \in Nat : was[k + 1] = then[was[k]]
    BY <2>5, IterationSteps
  <2> QED
    BY <2>6, <2>7
<1>3. at[0] = was[0]
  BY <1>2, TaskWords
<1>4. ASSUME NEW s \in Before(Heap)!Frames(o)
      PROVE  prev[s] = then[s]
  <2>1. s \in Nat
    BY <1>1 DEF FieldsAreWords
  <2>2. IsFixed(Heap, Before(Heap)!get_stack_addr(o, s + 8))
    <3>1. Before(Heap)!get_stack_addr(o, s + 8) \in StackWords(Heap, o)
      BY StackWordsAre
    <3> QED
      BY <1>1, <3>1 DEF FieldsAreWords
  <2>3. read_stack(n, s + 8) = Before(Heap)!read_stack(o, s + 8)
    BY <2>2, FixedWord, StackAddrsKept DEF read_stack, Before!read_stack, Load, Before!Load
  <2> QED
    BY <2>1, <2>3
<1>5. prev[0] = then[0]
  OBVIOUS
<1> HIDE DEF n, prev, then, at, was
<1> DEFINE Bad == {k \in 0 .. MaxFrames - 1 : at[k] # was[k]}
<1>6. Bad = {}
  <2>1. SUFFICES ASSUME Bad # {}
                 PROVE  FALSE
    OBVIOUS
  <2>2. PICK k \in Bad : \A j \in Bad : k <= j
    <3>1. Bad \in SUBSET Nat
      BY <1>1
    <3> HIDE DEF Bad
    <3> QED
      BY <2>1, <3>1, LeastNumber
  <2>3. k \in Nat /\ k < MaxFrames /\ k # 0 /\ at[k] # was[k]
    BY <1>1, <1>3
  <2>4. k - 1 \in 0 .. MaxFrames - 1 /\ k - 1 \in Nat /\ (k - 1) + 1 = k /\ ~(k <= k - 1)
    BY <1>1, <2>3
  <2>5. at[k - 1] = was[k - 1]
    BY <2>2, <2>4
  <2>6. at[k] = prev[at[k - 1]] /\ was[k] = then[was[k - 1]]
    BY <1>2, <2>4
  <2>7. was[k - 1] = 0 \/ was[k - 1] \in Before(Heap)!Frames(o)
    BY <2>4 DEF was, Before!Frames
  <2> QED
    BY <1>4, <1>5, <2>3, <2>5, <2>6, <2>7
<1> QED
  BY <1>6 DEF Frames, Before!Frames, at, was, n

\* The slots of its frames and exceptions are the same.
LEMMA StackKept ==
  ASSUME CInv, ScanInv, phase # "done", NEW o \in Objects, Unscanned(o),
         HasType(Heap, o), IsTask(Heap, o)
  PROVE  /\ \A s \in Before(Heap)!Frames(o) :
              FrameSlots(Place(o), s) = Before(Heap)!FrameSlots(o, s)
         /\ ExceptionSlots(Place(o)) = Before(Heap)!ExceptionSlots(o)
<1> DEFINE n == Place(o)
<1>1. heap \in DOMAIN Heaps /\ FieldsAreWords(Heap, o)
  BY Places, Typed DEF CInv, MarksOK
<1>2. /\ \A a : get_stack_addr(n, a) = Before(Heap)!get_stack_addr(o, a)
      /\ \A a \in StackWords(Heap, o) : mem[a] = Heap.mem[a]
  BY <1>1, FixedWord, StackAddrsKept DEF FieldsAreWords
<1> HIDE DEF n
<1>3. ASSUME NEW a, Before(Heap)!get_stack_addr(o, a) \in StackWords(Heap, o)
      PROVE  read_stack(n, a) = Before(Heap)!read_stack(o, a)
  BY <1>2, <1>3 DEF read_stack, Before!read_stack, Load, Before!Load
<1>4. ASSUME NEW s \in Before(Heap)!Frames(o)
      PROVE  FrameSlots(n, s) = Before(Heap)!FrameSlots(o, s)
  <2> DEFINE nroots == Before(Heap)!read_stack(o, s + 0)
             now == [i \in 0 .. (nroots \div 4) - 1 |->
                         [addr |-> get_stack_addr(n, Shift(s, 2 + i)),
                          word |-> read_stack(n, Shift(s, 2 + i)),
                          target |-> get_stack_addr(n, read_stack(n, Shift(s, 2 + i)))]]
             was == [i \in 0 .. (nroots \div 4) - 1 |->
                        [addr |-> Before(Heap)!get_stack_addr(o, Shift(s, 2 + i)),
                         word |-> Before(Heap)!read_stack(o, Shift(s, 2 + i)),
                         target |-> Before(Heap)!get_stack_addr(o,
                                      Before(Heap)!read_stack(o, Shift(s, 2 + i)))]]
  <2>1. read_stack(n, s + 0) = nroots
    <3>1. Before(Heap)!get_stack_addr(o, s + 0) \in StackWords(Heap, o)
      BY StackWordsAre
    <3> QED
      BY <1>3, <3>1
  <2>2. ASSUME NEW i \in 0 .. (nroots \div 4) - 1
        PROVE  read_stack(n, Shift(s, 2 + i)) = Before(Heap)!read_stack(o, Shift(s, 2 + i))
    <3>1. Before(Heap)!get_stack_addr(o, Shift(s, 2 + i)) \in StackWords(Heap, o)
      BY StackWordsAre
    <3> QED
      BY <1>3, <3>1
  <2>3. now = was
    BY <1>2, <2>2
  <2>4. FrameSlots(n, s) = RootSlotsOf(nroots % 2 = 1, now)
    BY <2>1 DEF FrameSlots, jl_gcframe_t
  <2>5. Before(Heap)!FrameSlots(o, s) = RootSlotsOf(nroots % 2 = 1, was)
    <3>1. \A x, list : Before(Heap)!RootSlotsOf(x, list) = RootSlotsOf(x, list)
      BY SameLists
    <3>2. Before(Heap)!jl_gcframe_t.nroots = 0 /\ \A a, k : Before(Heap)!Shift(a, k) = Shift(a, k)
      BY SameOperators DEF Before!jl_gcframe_t
    <3>3. was = [i \in 0 .. (nroots \div 4) - 1 |->
                   [addr |-> Before(Heap)!get_stack_addr(o, Before(Heap)!Shift(s, 2 + i)),
                    word |-> Before(Heap)!read_stack(o, Before(Heap)!Shift(s, 2 + i)),
                    target |-> Before(Heap)!get_stack_addr(o,
                                 Before(Heap)!read_stack(o, Before(Heap)!Shift(s, 2 + i)))]]
      BY <3>2
    <3>4. Before(Heap)!FrameSlots(o, s) = Before(Heap)!RootSlotsOf(nroots % 2 = 1, was)
      BY <3>2, <3>3 DEF Before!FrameSlots
    <3> QED
      BY <3>1, <3>4
  <2> QED
    BY <2>3, <2>4, <2>5
<1>5. ExceptionSlots(n) = Before(Heap)!ExceptionSlots(o)
  <2>1. mem[n + 176] = Heap.mem[o + 176]
    BY TaskWords DEF n
  <2>2. Heap.mem[o + 176] # 0 => mem[Heap.mem[o + 176] + 0] = Heap.mem[Heap.mem[o + 176] + 0]
    BY <1>2, StackWordsAre
  <2>3. /\ jl_task_t.excstack = 176 /\ Before(Heap)!jl_task_t.excstack = 176
        /\ jl_excstack_t = [top |-> 0, size |-> 16] /\ Before(Heap)!jl_excstack_t = jl_excstack_t
    BY DEF jl_task_t, Before!jl_task_t, jl_excstack_t, Before!jl_excstack_t
  <2>4. /\ \A a, k : Before(Heap)!Shift(a, k) = Shift(a, k)
        /\ \A b, c, k : Before(Heap)!SlotsBetween(b, c, k) = SlotsBetween(b, c, k)
    BY SameOperators
  <2> QED
    BY <2>1, <2>2, <2>3, <2>4 DEF ExceptionSlots, Before!ExceptionSlots, Load, Before!Load
<1> QED
  BY <1>4, <1>5 DEF n

\* So the scan finds what it would have found, with the slot of the buffer
\* that the stack is copied to where that is now.
LEMMA TaskScan ==
  ASSUME CInv, ScanInv, phase # "done", NEW o \in Objects, Unscanned(o),
         HasType(Heap, o), IsTask(Heap, o)
  PROVE  LET stack == (UNION {Before(Heap)!FrameSlots(o, s) : s \in Before(Heap)!Frames(o)})
                      \cup Before(Heap)!ExceptionSlots(o)
             copied(a) == IF Before(Heap)!HasCopiedStack(o) THEN {Simple(a)} ELSE {}
         IN  /\ mmtk_scan_gcstack(Place(o)) = copied(Place(o) + 200) \cup stack
             /\ Before(Heap)!mmtk_scan_gcstack(o) = copied(o + 200) \cup stack
<1> DEFINE frames == Before(Heap)!Frames(o)
<1>1. UNION {FrameSlots(Place(o), s) : s \in frames}
        = UNION {Before(Heap)!FrameSlots(o, s) : s \in frames}
  BY StackKept
<1>2. Frames(Place(o)) = frames /\ ExceptionSlots(Place(o)) = Before(Heap)!ExceptionSlots(o)
  BY FramesKept, StackKept
<1>3. /\ HasCopiedStack(Place(o)) <=> Before(Heap)!HasCopiedStack(o)
      /\ StkbufAddr(Place(o)) = Place(o) + 200 /\ Before(Heap)!StkbufAddr(o) = o + 200
  BY StackAddrsKept
<1>4. \A a : Before(Heap)!Simple(a) = Simple(a)
  BY SameOperators
<1>5. mmtk_scan_gcstack(Place(o))
        = (IF Before(Heap)!HasCopiedStack(o) THEN {Simple(Place(o) + 200)} ELSE {})
          \cup (UNION {Before(Heap)!FrameSlots(o, s) : s \in frames})
          \cup Before(Heap)!ExceptionSlots(o)
  <2> HIDE DEF frames
  <2> QED
    BY <1>1, <1>2, <1>3 DEF mmtk_scan_gcstack
<1>6. Before(Heap)!mmtk_scan_gcstack(o)
        = (IF Before(Heap)!HasCopiedStack(o) THEN {Simple(o + 200)} ELSE {})
          \cup (UNION {Before(Heap)!FrameSlots(o, s) : s \in frames})
          \cup Before(Heap)!ExceptionSlots(o)
  BY <1>3, <1>4 DEF Before!mmtk_scan_gcstack
<1> QED
  BY <1>5, <1>6

-----------------------------------------------------------------------------
(* A scan finds the slots of the object where it is.                       *)

\* The scan of an object that has not moved.
LEMMA ScanInPlace ==
  ASSUME CInv, ScanInv, phase # "done", NEW o \in Objects, Unscanned(o), o \notin moved
  PROVE  scan_julia_object(o) = Found(Heap, o)
<1>1. IInv /\ marked \subseteq Objects /\ WordsOK /\ Place(o) = o /\ o \in Nat \ {0}
  BY Places, Layouts DEF CInv, MarksOK, MemoryOK, Place
<1>2. /\ mmtk_jl_typetagof(o) = Before(Heap)!mmtk_jl_typetagof(o)
      /\ mmtk_jl_typeof(o) = Before(Heap)!mmtk_jl_typeof(o)
      /\ Layout(o) = Before(Heap)!Layout(o)
      /\ IsBuffer(o) <=> Before(Heap)!IsBuffer(o)
      /\ IsSmallTag(o) <=> Before(Heap)!IsSmallTag(o)
      /\ HasPlainTag(o) <=> Before(Heap)!HasPlainTag(o)
      /\ \A tag : HasTag(o, tag) <=> Before(Heap)!HasTag(o, tag)
      /\ \A name : HasName(o, name) <=> Before(Heap)!HasName(o, name)
      /\ small_tags = Before(Heap)!small_tags
  BY <1>1, KindIsKept DEF small_tags, Before!small_tags
<1>3. CASE ~HasType(Heap, o)
  BY <1>2, <1>3 DEF scan_julia_object, Before!scan_julia_object, Found, HasType
<1>4. CASE HasType(Heap, o)
  <2>1. /\ HasTag(o, small_tags.simplevector) => mem[o + 0] = Heap.mem[o + 0]
        /\ HasTag(o, small_tags.module) => /\ mem[o + 64] = Heap.mem[o + 64]
                                           /\ mem[o + 80] = Heap.mem[o + 80]
        /\ HasName(o, "GenericMemory") => /\ mem[o + 0] = Heap.mem[o + 0]
                                          /\ mem[o + 16] = Heap.mem[o + 16]
                                          /\ mem[o + 8] = Heap.mem[o + 8]
        /\ HasName(o, "Array") => mem[o + 0] = Heap.mem[o + 0] /\ mem[o + 8] = Heap.mem[o + 8]
    BY <1>1, <1>2, <1>4, ReadsKept DEF IsModule, IsMemory
  <2>2. /\ HasTag(o, small_tags.simplevector) => SvecSlots(o) = Before(Heap)!SvecSlots(o)
        /\ HasTag(o, small_tags.module) => ModuleSlots(o) = Before(Heap)!ModuleSlots(o)
        /\ HasName(o, "GenericMemory") => MemorySlots(o) = Before(Heap)!MemorySlots(o)
        /\ HasName(o, "Array") => ArrayDataSlots(o) = Before(Heap)!ArrayDataSlots(o)
    BY <1>1, <1>2, <2>1, ScansRead, ScansReadBefore
  <2>3. PointerSlots(o, Layout(o)) = Before(Heap)!PointerSlots(o, Before(Heap)!Layout(o))
    BY <1>2, SameOperators
  <2>4. HasTag(o, small_tags.task) => mmtk_scan_gcstack(o) = Before(Heap)!mmtk_scan_gcstack(o)
    BY <1>1, <1>2, <1>4, TaskScan DEF IsTask
  <2>5. HasTag(o, small_tags.task) => TaskSlots(o) = Before(Heap)!TaskSlots(o)
    BY <2>3, <2>4 DEF TaskSlots, Before!TaskSlots
  <2> QED
    BY <1>2, <2>2, <2>3, <2>5 DEF scan_julia_object, Before!scan_julia_object, Found
<1> QED
  BY <1>3, <1>4

Shifted(set) == {Offset(s.addr + Delta, s.offset) : s \in set}

LEMMA ShiftedSlots ==
  /\ \A x : \A a \in Int : Shifted({Offset(a, x)}) = {Offset(a + Delta, x)}
  /\ \A a \in Int : Shifted({Simple(a)}) = {Simple(a + Delta)}
  /\ Shifted({}) = {}
  /\ \A s, t : Shifted(s \cup t) = Shifted(s) \cup Shifted(t)
<1>1. \A x : \A a \in Int : Shifted({Offset(a, x)}) = {Offset(a + Delta, x)}
  BY DEF Shifted, Offset
<1>2. \A a \in Int : Shifted({Simple(a)}) = {Simple(a + Delta)}
  BY DEF Shifted, Simple, Offset
<1> QED
  BY <1>1, <1>2 DEF Shifted

LEMMA ShiftedWords ==
  ASSUME NEW words
  PROVE  Shifted({Simple(a) : a \in words}) = {Simple(a + Delta) : a \in words}
<1>1. ASSUME NEW a
      PROVE  Offset(Simple(a).addr + Delta, Simple(a).offset) = Simple(a + Delta)
  BY DEF Simple, Offset
<1>2. ASSUME NEW s \in Shifted({Simple(a) : a \in words})
      PROVE  s \in {Simple(a + Delta) : a \in words}
  <2>1. PICK t \in {Simple(a) : a \in words} : s = Offset(t.addr + Delta, t.offset)
    BY <1>2 DEF Shifted
  <2> QED
    BY <1>1, <2>1
<1>3. ASSUME NEW a \in words
      PROVE  Simple(a + Delta) \in Shifted({Simple(b) : b \in words})
  BY <1>1 DEF Shifted
<1> QED
  BY <1>2, <1>3

LEMMA SlotsBetweenMove ==
  ASSUME NEW b \in Int, NEW c \in Int, NEW n \in Int
  PROVE  SlotsBetween(b + Delta, c + Delta, n) = Shifted(SlotsBetween(b, c, n))
<1>1. Delta \in Nat
  BY TracingAssumption
<1>2. (c + Delta) - (b + Delta) - 1 = c - b - 1
  BY <1>1
<1>3. \A k \in Int : Shift(b + Delta, n * k) = Shift(b, n * k) + Delta
  <2>1. \A k \in Int : n * k \in Int
    OBVIOUS
  <2> QED
    BY <1>1, <2>1 DEF Shift, BYTES_IN_ADDRESS
<1> DEFINE K == 0 .. (c - b - 1) \div Shift(0, n)
           words == {Shift(b, n * k) : k \in K}
<1>4. K \subseteq Int
  OBVIOUS
<1>5. SlotsBetween(b + Delta, c + Delta, n) = {Simple(Shift(b + Delta, n * k)) : k \in K}
  BY <1>2 DEF SlotsBetween
<1>6. SlotsBetween(b, c, n) = {Simple(a) : a \in words}
  BY DEF SlotsBetween
<1> HIDE DEF K
<1>7. {Simple(Shift(b + Delta, n * k)) : k \in K} = {Simple(a + Delta) : a \in words}
  BY <1>3, <1>4
<1> HIDE DEF words
<1> QED
  BY <1>5, <1>6, <1>7, ShiftedWords

LEMMA PointerSlotsMove ==
  ASSUME NEW a \in Int, NEW l, PointerOffsets(l) \subseteq Nat
  PROVE  PointerSlots(a + Delta, l) = Shifted(PointerSlots(a, l))
<1>1. Delta \in Nat
  BY TracingAssumption
<1>2. \A w \in PointerOffsets(l) : Shift(a + Delta, w) = Shift(a, w) + Delta
  BY <1>1 DEF Shift, BYTES_IN_ADDRESS
<1> DEFINE words == {Shift(a, w) : w \in PointerOffsets(l)}
<1>3. PointerSlots(a + Delta, l) = {Simple(x + Delta) : x \in words}
  BY <1>2 DEF PointerSlots
<1>4. PointerSlots(a, l) = {Simple(x) : x \in words}
  BY DEF PointerSlots
<1> HIDE DEF words
<1> QED
  BY <1>3, <1>4, ShiftedWords

LEMMA ElementsMove ==
  ASSUME NEW l, PointerOffsets(l) \subseteq Nat, l.size \in Nat, l.first_ptr \in Int,
         l.first_ptr >= 0 /\ ~l.arrayelem_isboxed
           => l.npointers = 1 \/ (l.npointers > 1 /\ l.fielddesc_type <= 1),
         NEW length \in Int, NEW begin \in Int
  PROVE  ElementsOf(l, length, begin + Delta) = Shifted(ElementsOf(l, length, begin))
<1> DEFINE size == l.size \div 8
           end == Shift(begin, length * size)
<1>1. Delta \in Nat /\ size \in Int
  BY TracingAssumption
<1>2. \A n \in Int : Shift(begin + Delta, n) = Shift(begin, n) + Delta /\ Shift(begin, n) \in Int
  BY <1>1 DEF Shift, BYTES_IN_ADDRESS
<1>3. \A k \in Int : k * size \in Int
  BY <1>1
<1>4. Shift(begin + Delta, length * size) = end + Delta /\ end \in Int
  BY <1>2, <1>3
<1> DEFINE structs(from) == UNION {PointerSlots(Shift(from, k * size), l) : k \in 0 .. length - 1}
<1>5. SlotsBetween(begin + Delta, Shift(begin + Delta, length), 1)
        = Shifted(SlotsBetween(begin, Shift(begin, length), 1))
  BY <1>2, SlotsBetweenMove
<1>6. SlotsBetween(Shift(begin + Delta, l.first_ptr), Shift(begin + Delta, length * size), size)
        = Shifted(SlotsBetween(Shift(begin, l.first_ptr), end, size))
  <2>1. /\ Shift(begin + Delta, l.first_ptr) = Shift(begin, l.first_ptr) + Delta
        /\ Shift(begin, l.first_ptr) \in Int
    BY <1>2
  <2> HIDE DEF size, end
  <2>2. SlotsBetween(Shift(begin, l.first_ptr) + Delta, end + Delta, size)
          = Shifted(SlotsBetween(Shift(begin, l.first_ptr), end, size))
    BY <1>1, <1>4, <2>1, SlotsBetweenMove
  <2>3. Shift(begin + Delta, length * size) = end + Delta
    BY <1>4
  <2> QED
    BY <2>1, <2>2, <2>3
<1>7. structs(begin + Delta) = Shifted(structs(begin))
  <2>1. ASSUME NEW k \in 0 .. length - 1
        PROVE  PointerSlots(Shift(begin + Delta, k * size), l)
                 = Shifted(PointerSlots(Shift(begin, k * size), l))
    <3> DEFINE n == k * size
    <3>1. n \in Int
      BY <1>3
    <3> HIDE DEF n
    <3>2. Shift(begin + Delta, n) = Shift(begin, n) + Delta /\ Shift(begin, n) \in Int
      BY <1>2, <3>1
    <3>3. PointerSlots(Shift(begin, n) + Delta, l) = Shifted(PointerSlots(Shift(begin, n), l))
      BY <3>2, PointerSlotsMove
    <3> QED
      BY <3>2, <3>3 DEF n
  <2>2. structs(begin + Delta)
          = UNION {Shifted(PointerSlots(Shift(begin, k * size), l)) : k \in 0 .. length - 1}
    BY <2>1
  <2> HIDE DEF size
  <2> QED
    BY <2>2 DEF Shifted
<1>8. Shifted({}) = {}
  BY DEF Shifted
<1> HIDE DEF size, end, structs
<1>9. CASE l.arrayelem_isboxed
  <2>1. \A from : ElementsOf(l, length, from) = SlotsBetween(from, Shift(from, length), 1)
    BY <1>9 DEF ElementsOf
  <2> QED
    BY <1>5, <2>1
<1>10. CASE ~l.arrayelem_isboxed /\ l.first_ptr < 0
  <2>1. \A from : ElementsOf(l, length, from) = {}
    BY <1>10 DEF ElementsOf
  <2> QED
    BY <1>8, <2>1
<1>11. CASE ~l.arrayelem_isboxed /\ l.first_ptr >= 0 /\ l.npointers = 1
  <2>1. \A from : ElementsOf(l, length, from)
                    = SlotsBetween(Shift(from, l.first_ptr), Shift(from, length * size), size)
    BY <1>11 DEF ElementsOf, size
  <2> QED
    BY <1>6, <2>1 DEF end
<1>12. CASE ~l.arrayelem_isboxed /\ l.first_ptr >= 0 /\ l.npointers > 1 /\ l.fielddesc_type <= 1
  <2>1. \A from : ElementsOf(l, length, from) = structs(from)
    BY <1>12 DEF ElementsOf, size, structs
  <2> QED
    BY <1>7, <2>1
<1> QED
  BY <1>9, <1>10, <1>11, <1>12

\* The slots of an object where they are now.
Relocated(o, set) == {Offset(Now(o, s.addr), s.offset) : s \in set}

LEMMA RelocatedSlots ==
  ASSUME NEW o \in moved, NEW set
  PROVE  /\ (\A s \in set : InObject(o, s.addr)) => Relocated(o, set) = Shifted(set)
         /\ (\A s \in set : ~InObject(o, s.addr) /\ s = Offset(s.addr, s.offset))
              => Relocated(o, set) = set
<1>1. ASSUME \A s \in set : InObject(o, s.addr)
      PROVE  Relocated(o, set) = Shifted(set)
  <2>1. \A s \in set : Now(o, s.addr) = s.addr + Delta
    BY <1>1 DEF Now
  <2> QED
    BY <2>1 DEF Relocated, Shifted
<1>2. ASSUME \A s \in set : ~InObject(o, s.addr) /\ s = Offset(s.addr, s.offset)
      PROVE  Relocated(o, set) = set
  <2>1. \A s \in set : Offset(Now(o, s.addr), s.offset) = s
    BY <1>2 DEF Now
  <2> QED
    BY <2>1 DEF Relocated
<1> QED
  BY <1>1, <1>2

\* The kinds of an object that has moved.
LEMMA ScanOfSvecMoves ==
  ASSUME NEW o \in Nat, NEW length \in Int
  PROVE  SvecOf(o + Delta, length) = Shifted(SvecOf(o, length))
<1> DEFINE b == o + 8
           c == Shift(b, length)
<1>1. Delta \in Nat /\ b \in Int /\ c \in Int
  BY TracingAssumption DEF Shift, BYTES_IN_ADDRESS
<1>2. (o + Delta) + 8 = b + Delta /\ Shift((o + Delta) + 8, length) = c + Delta
  BY <1>1 DEF Shift, BYTES_IN_ADDRESS
<1> HIDE DEF b, c
<1>3. SlotsBetween(b + Delta, c + Delta, 1) = Shifted(SlotsBetween(b, c, 1))
  BY <1>1, SlotsBetweenMove
<1> QED
  BY <1>2, <1>3 DEF SvecOf, b, c

LEMMA ScanOfArrayMoves ==
  ASSUME NEW o \in Nat, NEW ptr, NEW memory
  PROVE  ArrayOf(o + Delta, ptr, memory) = Shifted(ArrayOf(o, ptr, memory))
<1>1. (o + Delta) + 0 = (o + 0) + Delta /\ o + 0 \in Int
  BY TracingAssumption
<1>2. Shifted({Offset(o + 0, ptr - memory)}) = {Offset((o + 0) + Delta, ptr - memory)}
  BY <1>1, ShiftedSlots
<1> QED
  BY <1>1, <1>2, ShiftedSlots DEF ArrayOf

LEMMA ScanOfModuleMoves ==
  ASSUME heap \in DOMAIN Heaps, NEW o \in moved, o \in Objects, NEW length, NEW items,
         InObject(o, o + 80),
         \A slot \in UsingsOf(o, length, items) :
           ~InObject(o, slot.addr) /\ slot = Offset(slot.addr, slot.offset)
  PROVE  ModuleOf(o + Delta, length, items) = Relocated(o, ModuleOf(o, length, items))
<1> DEFINE usings == SlotsBetween(items, Shift(items, length), 4)
           words == {o + d : d \in {8, 16, 24, 48, 56}}
           fields == {Simple(a) : a \in words}
<1>1. o \in Nat /\ Delta \in Nat /\ Heap.size[o] \in Nat /\ JULIA_HEADER_SIZE = 8
  BY Layouts
<1>2. ~IsMapped(items)
  <2>1. SUFFICES ASSUME Offset(o + 80, 88) \in UsingsOf(o, length, items)
                 PROVE  FALSE
    BY DEF UsingsOf
  <2>2. ~InObject(o, Offset(o + 80, 88).addr)
    BY <2>1
  <2> QED
    BY <2>2 DEF Offset
<1>3. \A x : UsingsOf(x, length, items) = usings
  BY <1>2 DEF UsingsOf
<1>4. {Simple(o + d) : d \in {8, 16, 24, 48, 56}} = fields
  OBVIOUS
<1>5. {Simple((o + Delta) + d) : d \in {8, 16, 24, 48, 56}} = {Simple(a + Delta) : a \in words}
  <2>1. \A d \in Int : (o + Delta) + d = (o + d) + Delta
    BY <1>1
  <2> QED
    BY <2>1
<1>6. \A s \in fields : InObject(o, s.addr)
  <2>1. \A a \in words : InObject(o, a)
    BY <1>1 DEF InObject, Inside
  <2> QED
    BY <2>1 DEF Simple
<1>7. Relocated(o, fields) = Shifted(fields)
  BY <1>6, RelocatedSlots
<1>8. Shifted(fields) = {Simple(a + Delta) : a \in words}
  BY ShiftedWords
<1>9. Relocated(o, usings) = usings
  BY <1>3, RelocatedSlots
<1>10. Relocated(o, fields \cup usings) = Relocated(o, fields) \cup Relocated(o, usings)
  BY DEF Relocated
<1> HIDE DEF words, usings, fields
<1> QED
  BY <1>3, <1>4, <1>5, <1>7, <1>8, <1>9, <1>10 DEF ModuleOf

LEMMA ScanOfMemoryMoves ==
  ASSUME heap \in DOMAIN Heaps, NEW o \in moved, o \in Objects, NEW l, NEW length \in Int,
         \A ptr \in Int : ElementsOf(l, length, ptr + Delta) = Shifted(ElementsOf(l, length, ptr)),
         NEW owner, owner # o + Delta, NEW ptr \in Int, NEW new \in Int,
         IF ptr = o + 16 THEN new = o + Delta + 16 ELSE new = ptr /\ ptr # o + Delta + 16,
         LET found == MemoryOf(o, l, length, ptr, owner)
             how == HowOf(o, ptr, owner)
         IN  /\ \A slot \in found : slot = Offset(slot.addr, slot.offset)
             /\ \/ how \in {0, 3} /\ \A slot \in found : InObject(o, slot.addr)
                \/ how = 2 /\ \A slot \in found : ~InObject(o, slot.addr)
  PROVE  MemoryOf(o + Delta, l, length, new, owner)
           = Relocated(o, MemoryOf(o, l, length, ptr, owner))
<1> DEFINE found == MemoryOf(o, l, length, ptr, owner)
<1>1. o \in Nat \ {0} /\ Delta \in Nat \ {0}
  BY Layouts
<1>2. CASE ptr = o + 16
  <2>1. HowOf(o, ptr, owner) = 0 /\ HowOf(o + Delta, new, owner) = 0 /\ new = ptr + Delta
    BY <1>1, <1>2 DEF HowOf
  <2>2. Relocated(o, found) = Shifted(found)
    BY <2>1, RelocatedSlots
  <2>3. found = IF length = 0 THEN {} ELSE ElementsOf(l, length, ptr)
    BY <2>1 DEF MemoryOf
  <2>4. MemoryOf(o + Delta, l, length, new, owner)
          = IF length = 0 THEN {} ELSE ElementsOf(l, length, ptr + Delta)
    BY <2>1 DEF MemoryOf
  <2> QED
    BY <2>2, <2>3, <2>4, ShiftedSlots
<1>3. CASE ptr # o + 16 /\ owner # o /\ owner # 0
  <2>1. HowOf(o, ptr, owner) = 3 /\ HowOf(o + Delta, new, owner) = 3
    BY <1>1, <1>3 DEF HowOf
  <2>2. Relocated(o, found) = Shifted(found)
    BY <2>1, RelocatedSlots
  <2>3. found = {Simple(o + 16)} /\ MemoryOf(o + Delta, l, length, new, owner) = {Simple((o + Delta) + 16)}
    BY <2>1 DEF MemoryOf
  <2>4. (o + Delta) + 16 = (o + 16) + Delta /\ o + 16 \in Int
    BY <1>1
  <2>5. Shifted({Simple(o + 16)}) = {Simple((o + 16) + Delta)}
    BY <2>4, ShiftedSlots
  <2> QED
    BY <2>2, <2>3, <2>4, <2>5
<1>4. CASE ptr # o + 16 /\ owner = 0
  <2>1. HowOf(o, ptr, owner) = 2 /\ HowOf(o + Delta, new, owner) = 2 /\ new = ptr
    BY <1>1, <1>4 DEF HowOf
  <2>2. Relocated(o, found) = found
    BY <2>1, RelocatedSlots
  <2>3. MemoryOf(o + Delta, l, length, new, owner) = found
    BY <2>1 DEF MemoryOf
  <2> QED
    BY <2>2, <2>3
<1>5. CASE ptr # o + 16 /\ owner = o
  BY <1>1, <1>5 DEF HowOf
<1> QED
  BY <1>2, <1>3, <1>4, <1>5

\* What is scanned of an object that has moved, by its kind.
LEMMA CopyOfSvec ==
  ASSUME heap \in DOMAIN Heaps, NEW o \in moved, o \in Objects,
         NEW new, new = Heap.mem[o + 0], o + 0 \in DOMAIN Heap.mem,
         \A slot \in SvecOf(o, Heap.mem[o + 0]) : InObject(o, slot.addr)
  PROVE  SvecOf(o + Delta, new) = Relocated(o, SvecOf(o, Heap.mem[o + 0]))
<1>1. o \in Nat /\ Heap.mem[o + 0] \in Int
  BY Layouts
<1>2. Relocated(o, SvecOf(o, Heap.mem[o + 0])) = Shifted(SvecOf(o, Heap.mem[o + 0]))
  BY RelocatedSlots
<1> QED
  BY <1>1, <1>2, ScanOfSvecMoves

LEMMA CopyOfMemory ==
  ASSUME heap \in DOMAIN Heaps, NEW o \in moved, o \in Objects,
         NEW t \in DOMAIN DataTypes, DataTypes[t].name = "GenericMemory",
         \A d \in {0, 8, 16} : o + d \in DOMAIN Heap.mem /\ InObject(o, o + d),
         NEW new, new = IF Heap.mem[o + 8] = o + 16 THEN (o + Delta) + 16 ELSE Heap.mem[o + 8],
         LET found == MemoryOf(o, DataTypes[t].layout, Heap.mem[o + 0], Heap.mem[o + 8], Heap.mem[o + 16])
             how == HowOf(o, Heap.mem[o + 8], Heap.mem[o + 16])
         IN  /\ \A slot \in found : slot = Offset(slot.addr, slot.offset)
             /\ \/ how \in {0, 3} /\ \A slot \in found : InObject(o, slot.addr)
                \/ how = 2 /\ \A slot \in found : ~InObject(o, slot.addr)
  PROVE  MemoryOf(o + Delta, DataTypes[t].layout, Heap.mem[o + 0], new, Heap.mem[o + 16])
           = Relocated(o, MemoryOf(o, DataTypes[t].layout, Heap.mem[o + 0],
                                   Heap.mem[o + 8], Heap.mem[o + 16]))
<1> DEFINE l == DataTypes[t].layout
           length == Heap.mem[o + 0]
           ptr == Heap.mem[o + 8]
           owner == Heap.mem[o + 16]
<1>1. /\ o \in Nat /\ Delta \in Nat \ {0} /\ InObject(o, o)
      /\ length \in Int /\ ptr \in Int /\ owner \in Int /\ new \in Int
  BY Layouts
<1>2. \A from \in Int : ElementsOf(l, length, from + Delta) = Shifted(ElementsOf(l, length, from))
  <2>1. /\ PointerOffsets(l) \subseteq Nat /\ l.size \in Nat /\ l.first_ptr \in Int
        /\ l.first_ptr >= 0 /\ ~l.arrayelem_isboxed
             => l.npointers = 1 \/ (l.npointers > 1 /\ l.fielddesc_type <= 1)
    BY LayoutsAssumption
  <2> HIDE DEF l, length
  <2> QED
    BY <1>1, <2>1, ElementsMove
<1>3. \A d \in {8, 16} : ~InObject(o, Heap.mem[o + d] - Delta)
  <2>1. ObjectsAreApart(Heap)
    BY HeapsAssumption DEF Heap
  <2> QED
    BY <2>1 DEF ObjectsAreApart, Objects, InObject
<1>4. owner # o + Delta
  BY <1>1, <1>3
<1>5. ptr # o + Delta + 16
  <2>1. InObject(o, o + 16)
    OBVIOUS
  <2>2. ~InObject(o, ptr - Delta)
    BY <1>3
  <2>3. ptr = o + Delta + 16 => ptr - Delta = o + 16
    BY <1>1
  <2> QED
    BY <2>1, <2>2, <2>3
<1>6. IF ptr = o + 16 THEN new = o + Delta + 16 ELSE new = ptr /\ ptr # o + Delta + 16
  BY <1>5
<1>7. LET found == MemoryOf(o, l, length, ptr, owner)
          how == HowOf(o, ptr, owner)
      IN  /\ \A slot \in found : slot = Offset(slot.addr, slot.offset)
          /\ \/ how \in {0, 3} /\ \A slot \in found : InObject(o, slot.addr)
             \/ how = 2 /\ \A slot \in found : ~InObject(o, slot.addr)
  OBVIOUS
<1>8. MemoryOf(o + Delta, l, length, new, owner) = Relocated(o, MemoryOf(o, l, length, ptr, owner))
  <2> HIDE DEF l, length, ptr, owner
  <2> QED
    BY <1>1, <1>2, <1>4, <1>6, <1>7, ScanOfMemoryMoves
<1> QED
  BY <1>8

LEMMA CopyOfPlain ==
  ASSUME heap \in DOMAIN Heaps, NEW o \in moved, o \in Objects, NEW t \in DOMAIN DataTypes,
         NEW data, NEW there, there = Shifted(data),
         \A slot \in data \cup PointerSlots(o, DataTypes[t].layout) : InObject(o, slot.addr)
  PROVE  there \cup PointerSlots(o + Delta, DataTypes[t].layout)
           = Relocated(o, data \cup PointerSlots(o, DataTypes[t].layout))
<1>1. o \in Nat /\ PointerOffsets(DataTypes[t].layout) \subseteq Nat
  BY Layouts, LayoutsAssumption
<1>2. PointerSlots(o + Delta, DataTypes[t].layout) = Shifted(PointerSlots(o, DataTypes[t].layout))
  BY <1>1, PointerSlotsMove
<1> DEFINE set == data \cup PointerSlots(o, DataTypes[t].layout)
<1>3. Relocated(o, set) = Shifted(set)
  <2>1. \A slot \in set : InObject(o, slot.addr)
    OBVIOUS
  <2> HIDE DEF set
  <2> QED
    BY <2>1, RelocatedSlots
<1>4. Shifted(set) = Shifted(data) \cup Shifted(PointerSlots(o, DataTypes[t].layout))
  BY ShiftedSlots
<1> QED
  BY <1>2, <1>3, <1>4

\* The scan of an object that has moved finds its slots where they are.
LEMMA ScanAtCopy ==
  ASSUME CInv, ScanInv, Scannable, phase # "done", NEW o \in Objects, Unscanned(o), o \in moved
  PROVE  scan_julia_object(Place(o)) = Relocated(o, Found(Heap, o))
<1> DEFINE n == o + Delta
<1>1. /\ heap \in DOMAIN Heaps /\ IInv /\ marked \subseteq Objects /\ WordsOK
      /\ o \in Movable /\ Place(o) = n /\ o \in Nat \ {0} /\ n \in Nat \ {0}
  BY Places, Layouts, PlacesAreApart DEF CInv, MarksOK, MemoryOK, Place
<1>2. /\ mmtk_jl_typetagof(n) = Before(Heap)!mmtk_jl_typetagof(o)
      /\ mmtk_jl_typeof(n) = Before(Heap)!mmtk_jl_typeof(o)
      /\ Layout(n) = Before(Heap)!Layout(o)
      /\ IsBuffer(n) <=> Before(Heap)!IsBuffer(o)
      /\ IsSmallTag(n) <=> Before(Heap)!IsSmallTag(o)
      /\ HasPlainTag(n) <=> Before(Heap)!HasPlainTag(o)
      /\ \A tag : HasTag(n, tag) <=> Before(Heap)!HasTag(o, tag)
      /\ \A name : HasName(n, name) <=> Before(Heap)!HasName(o, name)
      /\ small_tags = Before(Heap)!small_tags
  BY <1>1, KindIsKept DEF small_tags, Before!small_tags
<1>3. CASE ~HasType(Heap, o)
  <2>1. scan_julia_object(n) = {} /\ Found(Heap, o) = {}
    BY <1>2, <1>3 DEF scan_julia_object, Before!scan_julia_object, Found, HasType
  <2> QED
    BY <1>1, <2>1 DEF Relocated
<1>4. CASE HasType(Heap, o)
  <2>1. /\ \A slot \in Found(Heap, o) : slot = Offset(slot.addr, slot.offset)
        /\ Before(Heap)!mmtk_jl_typeof(o) \in DOMAIN DataTypes
        /\ Before(Heap)!IsSmallTag(o) => ~IsMemory(Heap, o)
        /\ FieldsAreWords(Heap, o) /\ SlotsMoveAlong(Heap, o)
    BY <1>1, <1>4, Typed, Scans
  <2>2. PICK t \in DOMAIN DataTypes : t = Before(Heap)!mmtk_jl_typeof(o)
    BY <2>1
  <2>3. /\ Layout(n) = DataTypes[t].layout /\ Before(Heap)!Layout(o) = DataTypes[t].layout
        /\ IsMemory(Heap, o) => DataTypes[t].name = "GenericMemory"
    BY <1>2, <2>2 DEF Before!Layout, Before!DataType, IsMemory, Before!HasName
  <2>4. /\ SvecSlots(n) = SvecOf(n, mem[n + 0])
        /\ ModuleSlots(n) = ModuleOf(n, mem[n + 64], mem[n + 80])
        /\ ArrayDataSlots(n) = ArrayOf(n, mem[n + 0], mem[n + 8])
        /\ MemorySlots(n) = MemoryOf(n, Layout(n), mem[n + 0], mem[n + 8], mem[n + 16])
    BY <1>1, ScansRead
  <2>5. /\ Before(Heap)!SvecSlots(o) = SvecOf(o, Heap.mem[o + 0])
        /\ Before(Heap)!UsingsSlots(o) = UsingsOf(o, Heap.mem[o + 64], Heap.mem[o + 80])
        /\ Before(Heap)!ModuleSlots(o) = ModuleOf(o, Heap.mem[o + 64], Heap.mem[o + 80])
        /\ Before(Heap)!ArrayDataSlots(o) = ArrayOf(o, Heap.mem[o + 0], Heap.mem[o + 8])
        /\ Before(Heap)!jl_gc_genericmemory_how(o) = HowOf(o, Heap.mem[o + 8], Heap.mem[o + 16])
        /\ Before(Heap)!MemorySlots(o) = MemoryOf(o, DataTypes[t].layout, Heap.mem[o + 0],
                                                  Heap.mem[o + 8], Heap.mem[o + 16])
        /\ Before(Heap)!PointerSlots(o, Before(Heap)!Layout(o)) = PointerSlots(o, DataTypes[t].layout)
    BY <1>1, <2>3, ScansReadBefore, SameOperators
  <2>6. /\ Before(Heap)!HasTag(o, small_tags.simplevector) => mem[n + 0] = Heap.mem[o + 0]
        /\ IsModule(Heap, o) => mem[n + 64] = Heap.mem[o + 64] /\ mem[n + 80] = Heap.mem[o + 80]
        /\ IsMemory(Heap, o) => /\ mem[n + 0] = Heap.mem[o + 0] /\ mem[n + 16] = Heap.mem[o + 16]
                                /\ mem[n + 8] = IF Heap.mem[o + 8] = o + 16
                                                THEN n + 16 ELSE Heap.mem[o + 8]
        /\ Before(Heap)!HasName(o, "Array") => mem[n + 0] = Heap.mem[o + 0] /\ mem[n + 8] = Heap.mem[o + 8]
    BY <1>1, <1>4, ReadsKept
  <2>7. /\ IsModule(Heap, o) <=> HasTag(n, small_tags.module)
        /\ IsMemory(Heap, o) <=> HasName(n, "GenericMemory")
        /\ IsTask(Heap, o) <=> HasTag(n, small_tags.task)
        /\ ~(IsBuffer(n) \/ mmtk_jl_typetagof(n) = jl_symbol_type)
    BY <1>2, <1>4 DEF IsModule, IsMemory, IsTask, HasType
  <2>8. ~IsMemory(Heap, o) /\ ~IsModule(Heap, o) /\ ~IsTask(Heap, o) =>
          \A slot \in Found(Heap, o) : InObject(o, slot.addr)
    BY <2>1 DEF SlotsMoveAlong, InObject
  <2>9. CASE HasTag(n, small_tags.simplevector)
    <3>1. scan_julia_object(n) = SvecSlots(n) /\ Found(Heap, o) = Before(Heap)!SvecSlots(o)
      BY <1>2, <1>4, <2>7, <2>9 DEF scan_julia_object, Before!scan_julia_object, Found, HasType
    <3>2. ~IsMemory(Heap, o) /\ ~IsModule(Heap, o) /\ ~IsTask(Heap, o)
      <4>1. mmtk_jl_typetagof(n) = 9 * 16
        BY <2>9 DEF HasTag, small_tags
      <4>2. IsSmallTag(n) /\ ~HasTag(n, small_tags.module) /\ ~HasTag(n, small_tags.task)
        BY <4>1 DEF IsSmallTag, HasTag, small_tags, jl_max_tags
      <4> QED
        BY <1>2, <2>1, <2>7, <4>2
    <3>3. o + 0 \in DOMAIN Heap.mem
      BY <1>1, <1>2, <2>1, <2>9 DEF FieldsAreWords, jl_svec_t
    <3>4. \A slot \in SvecOf(o, Heap.mem[o + 0]) : InObject(o, slot.addr)
      BY <2>5, <2>8, <3>1, <3>2
    <3>5. SvecOf(n, mem[n + 0]) = Relocated(o, SvecOf(o, Heap.mem[o + 0]))
      BY <1>1, <1>2, <2>6, <2>9, <3>3, <3>4, CopyOfSvec
    <3> QED
      BY <1>1, <2>4, <2>5, <3>1, <3>5
  <2>10. CASE ~HasTag(n, small_tags.simplevector) /\ HasTag(n, small_tags.module)
    <3>1. scan_julia_object(n) = ModuleSlots(n) /\ Found(Heap, o) = Before(Heap)!ModuleSlots(o)
      BY <1>2, <1>4, <2>7, <2>10 DEF scan_julia_object, Before!scan_julia_object, Found, HasType
    <3>2. InObject(o, o + 80)
      <4>1. jl_module_t.usings + arraylist_t.items = 80
        BY DEF jl_module_t, arraylist_t
      <4> QED
        BY <2>1, <2>7, <2>10, <4>1 DEF FieldsAreWords, InObject
    <3>3. \A slot \in UsingsOf(o, Heap.mem[o + 64], Heap.mem[o + 80]) :
            ~InObject(o, slot.addr) /\ slot = Offset(slot.addr, slot.offset)
      <4>1. \A slot \in Before(Heap)!UsingsSlots(o) : ~InObject(o, slot.addr)
        BY <2>1, <2>7, <2>10 DEF SlotsMoveAlong, InObject
      <4>2. UsingsOf(o, Heap.mem[o + 64], Heap.mem[o + 80]) \subseteq Found(Heap, o)
        BY <2>5, <3>1 DEF ModuleOf
      <4> QED
        BY <2>1, <2>5, <4>1, <4>2
    <3>4. ModuleOf(n, mem[n + 64], mem[n + 80])
            = Relocated(o, ModuleOf(o, Heap.mem[o + 64], Heap.mem[o + 80]))
      BY <1>1, <2>6, <2>7, <2>10, <3>2, <3>3, ScanOfModuleMoves
    <3> QED
      BY <1>1, <2>4, <2>5, <3>1, <3>4
  <2>11. CASE /\ ~HasTag(n, small_tags.simplevector) /\ ~HasTag(n, small_tags.module)
              /\ HasTag(n, small_tags.task)
    <3>1. scan_julia_object(n) = TaskSlots(n) /\ Found(Heap, o) = Before(Heap)!TaskSlots(o)
      BY <1>2, <1>4, <2>7, <2>11 DEF scan_julia_object, Before!scan_julia_object, Found, HasType
    <3> DEFINE stack == (UNION {Before(Heap)!FrameSlots(o, s) : s \in Before(Heap)!Frames(o)})
                        \cup Before(Heap)!ExceptionSlots(o)
               copied(a) == IF Before(Heap)!HasCopiedStack(o) THEN {Simple(a)} ELSE {}
               fields == PointerSlots(o, DataTypes[t].layout)
    <3>2. /\ mmtk_scan_gcstack(n) = copied(n + 200) \cup stack
          /\ Before(Heap)!mmtk_scan_gcstack(o) = copied(o + 200) \cup stack
      BY <1>1, <1>4, <2>7, <2>11, TaskScan
    <3>3. /\ TaskSlots(n) = (copied(n + 200) \cup PointerSlots(n, DataTypes[t].layout)) \cup stack
          /\ Before(Heap)!TaskSlots(o) = (copied(o + 200) \cup fields) \cup stack
      BY <2>3, <2>5, <3>2 DEF TaskSlots, Before!TaskSlots
    <3>4. /\ \A slot \in stack : ~InObject(o, slot.addr)
          /\ \A slot \in fields : InObject(o, slot.addr)
      BY <2>1, <2>5, <2>7, <2>11 DEF SlotsMoveAlong, InObject
    <3>5. \A slot \in copied(o + 200) : InObject(o, slot.addr)
      <4>1. InObject(o, o + 200)
        BY <2>1, <2>7, <2>11 DEF FieldsAreWords, InObject, jl_task_t, jl_ucontext_t
      <4> QED
        BY <4>1 DEF Simple
    <3>6. copied(n + 200) = Shifted(copied(o + 200))
      <4>1. n + 200 = (o + 200) + Delta /\ o + 200 \in Int
        BY <1>1, TracingAssumption
      <4> QED
        BY <4>1, ShiftedSlots
    <3> HIDE DEF stack, copied
    <3>7. copied(n + 200) \cup PointerSlots(n, DataTypes[t].layout)
            = Relocated(o, copied(o + 200) \cup fields)
      BY <1>1, <3>4, <3>5, <3>6, CopyOfPlain
    <3>8. Relocated(o, stack) = stack
      <4>1. \A slot \in stack : slot = Offset(slot.addr, slot.offset)
        BY <2>1, <3>1, <3>3
      <4> QED
        BY <1>1, <3>4, <4>1, RelocatedSlots
    <3>9. \A s, u : Relocated(o, s \cup u) = Relocated(o, s) \cup Relocated(o, u)
      BY DEF Relocated
    <3> QED
      BY <1>1, <3>1, <3>3, <3>7, <3>8, <3>9
  <2>12. CASE /\ ~HasTag(n, small_tags.simplevector) /\ ~HasTag(n, small_tags.module)
              /\ ~HasTag(n, small_tags.task)
              /\ IsSmallTag(n) /\ ~HasPlainTag(n)
    <3>1. scan_julia_object(n) = {} /\ Found(Heap, o) = {}
      BY <1>2, <1>4, <2>7, <2>12 DEF scan_julia_object, Before!scan_julia_object, Found, HasType
    <3> QED
      BY <1>1, <3>1 DEF Relocated
  <2>13. CASE /\ ~HasTag(n, small_tags.simplevector) /\ ~HasTag(n, small_tags.module)
              /\ ~HasTag(n, small_tags.task)
              /\ ~(IsSmallTag(n) /\ ~HasPlainTag(n)) /\ HasName(n, "GenericMemory")
    <3>1. scan_julia_object(n) = MemorySlots(n) /\ Found(Heap, o) = Before(Heap)!MemorySlots(o)
      BY <1>2, <1>4, <2>7, <2>13 DEF scan_julia_object, Before!scan_julia_object, Found, HasType
    <3>2. \A d \in {0, 8, 16} : o + d \in DOMAIN Heap.mem /\ InObject(o, o + d)
      BY <2>1, <2>7, <2>13 DEF FieldsAreWords, InObject, jl_genericmemory_t
    <3> DEFINE found == MemoryOf(o, DataTypes[t].layout, Heap.mem[o + 0], Heap.mem[o + 8], Heap.mem[o + 16])
               how == HowOf(o, Heap.mem[o + 8], Heap.mem[o + 16])
    <3>3. /\ \A slot \in found : slot = Offset(slot.addr, slot.offset)
          /\ \/ how \in {0, 3} /\ \A slot \in found : InObject(o, slot.addr)
             \/ how = 2 /\ \A slot \in found : ~InObject(o, slot.addr)
      BY <2>1, <2>5, <2>7, <2>13, <3>1 DEF SlotsMoveAlong, InObject
    <3>4. mem[n + 8] = IF Heap.mem[o + 8] = o + 16 THEN (o + Delta) + 16 ELSE Heap.mem[o + 8]
      BY <2>6, <2>7, <2>13
    <3>5. MemoryOf(o + Delta, DataTypes[t].layout, Heap.mem[o + 0], mem[n + 8], Heap.mem[o + 16])
            = Relocated(o, found)
      BY <1>1, <2>3, <2>7, <2>13, <3>2, <3>3, <3>4, CopyOfMemory
    <3> QED
      BY <1>1, <2>3, <2>4, <2>5, <2>6, <2>7, <2>13, <3>1, <3>5
  <2>14. CASE /\ ~HasTag(n, small_tags.simplevector) /\ ~HasTag(n, small_tags.module)
              /\ ~HasTag(n, small_tags.task)
              /\ ~(IsSmallTag(n) /\ ~HasPlainTag(n)) /\ ~HasName(n, "GenericMemory")
    <3>1. CASE mmtk_jl_typeof(n) = jl_weakref_type
      <4>1. scan_julia_object(n) = {} /\ Found(Heap, o) = {}
        BY <1>2, <1>4, <2>7, <2>14, <3>1 DEF scan_julia_object, Before!scan_julia_object, Found, HasType
      <4> QED
        BY <1>1, <4>1 DEF Relocated
    <3>2. CASE mmtk_jl_typeof(n) # jl_weakref_type /\ HasName(n, "Array")
      <4> DEFINE data == ArrayOf(o, Heap.mem[o + 0], Heap.mem[o + 8])
      <4>1. /\ scan_julia_object(n) = ArrayDataSlots(n) \cup PointerSlots(n, Layout(n))
            /\ Found(Heap, o) = Before(Heap)!ArrayDataSlots(o)
                                \cup Before(Heap)!PointerSlots(o, Before(Heap)!Layout(o))
        BY <1>2, <1>4, <2>7, <2>14, <3>2 DEF scan_julia_object, Before!scan_julia_object, Found, HasType
      <4>2. ArrayDataSlots(n) = Shifted(data)
        BY <1>1, <1>2, <2>4, <2>6, <3>2, ScanOfArrayMoves
      <4>3. \A slot \in data \cup PointerSlots(o, DataTypes[t].layout) : InObject(o, slot.addr)
        BY <2>5, <2>7, <2>8, <2>14, <4>1
      <4>4. ArrayDataSlots(n) \cup PointerSlots(o + Delta, DataTypes[t].layout)
              = Relocated(o, data \cup PointerSlots(o, DataTypes[t].layout))
        BY <1>1, <4>2, <4>3, CopyOfPlain
      <4> QED
        BY <1>1, <2>3, <2>5, <4>1, <4>4
    <3>3. CASE mmtk_jl_typeof(n) # jl_weakref_type /\ ~HasName(n, "Array")
      <4>1. /\ scan_julia_object(n) = PointerSlots(n, Layout(n))
            /\ Found(Heap, o) = Before(Heap)!PointerSlots(o, Before(Heap)!Layout(o))
        BY <1>2, <1>4, <2>7, <2>14, <3>3 DEF scan_julia_object, Before!scan_julia_object, Found, HasType
      <4>2. \A slot \in {} \cup PointerSlots(o, DataTypes[t].layout) : InObject(o, slot.addr)
        BY <2>5, <2>7, <2>8, <2>14, <4>1
      <4>3. {} \cup PointerSlots(o + Delta, DataTypes[t].layout)
              = Relocated(o, {} \cup PointerSlots(o, DataTypes[t].layout))
        BY <1>1, <4>2, CopyOfPlain, ShiftedSlots
      <4> QED
        BY <1>1, <2>3, <2>5, <4>1, <4>3
    <3> QED
      BY <3>1, <3>2, <3>3
  <2> QED
    BY <2>9, <2>10, <2>11, <2>12, <2>13, <2>14
<1> QED
  BY <1>3, <1>4

LEMMA ScanRelocates ==
  ASSUME CInv, ScanInv, Scannable, phase # "done", NEW o \in Objects, Unscanned(o)
  PROVE  scan_julia_object(Place(o)) = Relocated(o, Found(Heap, o))
<1>1. CASE o \notin moved
  <2>1. Place(o) = o /\ scan_julia_object(o) = Found(Heap, o) /\ heap \in DOMAIN Heaps
    BY <1>1, ScanInPlace, Places DEF Place, CInv, MarksOK
  <2>2. \A s \in Found(Heap, o) : Offset(Now(o, s.addr), s.offset) = s
    BY <1>1, <2>1, Scans DEF Now
  <2> QED
    BY <2>1, <2>2 DEF Relocated
<1> QED
  BY <1>1, ScanAtCopy

\* A slot that is blank stays so, and is not visited.
LEMMA BlankSlot ==
  ASSUME IInv, marked \subseteq Objects, WordsOK, phase # "done", NEW o \in Objects,
         NEW a \in DOMAIN Heap.mem, Heap.mem[a] = 0,
         \A r \in Heap.weak : a # r + jl_weakref_t.value,
         \A p \in Objects : /\ ~InObject(p, a - Delta)
                            /\ InObject(p, a) => p = o \/ p \notin Movable
  PROVE  mem[Now(o, a)] = 0
<1>1. heap \in DOMAIN Heaps /\ moved \subseteq Objects /\ moved \subseteq Movable
  BY Places
<1>2. a \in Original /\ Now(o, a) = At(a)
  BY <1>1 DEF Original, Now, At
<1>3. ASSUME NEW e \in Heap.edges, a = e.at
      PROVE  FALSE
  <2>1. e.to \in Nat \ {0} /\ e.off \in Nat /\ Heap.mem[e.at] = e.to + e.off
    BY <1>1, EdgesOfHeap, Layouts
  <2> QED
    BY <1>3, <2>1
<1>4. Content(a) = 0
  BY <1>2, <1>3 DEF WordsOK
<1> QED
  BY <1>2, <1>4 DEF Content

LEMMA ScanFindsReferences ==
  ASSUME CInv, ScanInv, Scannable, NEW n \in nodes
  PROVE  FindsReferences(n)
<1>1. /\ heap \in DOMAIN Heaps /\ IInv /\ marked \subseteq Objects /\ WordsOK /\ phase # "done"
      /\ moved \subseteq Movable /\ moved \subseteq moving
  BY Places DEF CInv, MarksOK, MemoryOK, IInv, StayOK
<1>2. PICK o \in marked : n = Place(o)
  BY <1>1 DEF IInv, PlacesOK
<1>3. o \in Objects /\ ObjectAt(n) = o /\ Unscanned(o)
  BY <1>1, <1>2, PlacesAreApart DEF Unscanned
<1>4. scan_julia_object(n) = Relocated(o, Found(Heap, o))
  BY <1>1, <1>2, <1>3, ScanRelocates
<1> DEFINE found == Visited(scan_julia_object(n))
           slot(e) == Offset(Now(o, e.at), e.off)
           edges == {e \in Heap.edges : e.from = o}
           visited == {e \in edges : Offset(e.at, e.off) \in Found(Heap, o)}
<1>5. /\ \A s \in Found(Heap, o) :
           \/ \E e \in edges : s = Offset(e.at, e.off)
           \/ /\ s = Simple(s.addr) /\ s.addr \in DOMAIN Heap.mem /\ Heap.mem[s.addr] = 0
              /\ \A r \in Heap.weak : s.addr # r + jl_weakref_t.value
              /\ \A p \in Objects : /\ ~InObject(p, s.addr - Delta)
                                    /\ InObject(p, s.addr) => p = o \/ p \notin Movable
      /\ \A e \in edges \ visited :
           \/ e.to \notin UNION Heap.moving /\ \E f \in visited : f.to = e.to
           \/ e.to = o /\ (o \in Movable => PointsBehind(e, o))
  <2>1. ScanIsRight(Heap, o)
    BY <1>1, <1>3, Scans
  <2>2. /\ \A a, x : Before(Heap)!Offset(a, x) = Offset(a, x)
        /\ \A a : Before(Heap)!Simple(a) = Simple(a)
    BY SameOperators
  <2> QED
    BY <2>1, <2>2 DEF ScanIsRight, InObject, Objects, Movable, PointsBehind
<1>6. found \subseteq {slot(e) : e \in edges}
  <2>1. SUFFICES ASSUME NEW s \in Found(Heap, o),
                        LoadSlot(Offset(Now(o, s.addr), s.offset)) # 0
                 PROVE  \E e \in edges : Offset(Now(o, s.addr), s.offset) = slot(e)
    BY <1>4 DEF Visited, Relocated
  <2>2. CASE \E e \in edges : s = Offset(e.at, e.off)
    BY <2>2 DEF Offset
  <2>3. CASE /\ s = Simple(s.addr) /\ s.addr \in DOMAIN Heap.mem /\ Heap.mem[s.addr] = 0
             /\ \A r \in Heap.weak : s.addr # r + jl_weakref_t.value
             /\ \A p \in Objects : /\ ~InObject(p, s.addr - Delta)
                                   /\ InObject(p, s.addr) => p = o \/ p \notin Movable
    <3>1. mem[Now(o, s.addr)] = 0
      BY <1>1, <1>3, <2>3, BlankSlot
    <3>2. s.offset = 0
      BY <2>3 DEF Simple
    <3> QED
      BY <2>1, <3>1, <3>2 DEF LoadSlot, Load, Offset
  <2> QED
    BY <1>5, <2>2, <2>3
<1>7. ASSUME NEW e \in visited
      PROVE  slot(e) \in found
  <2>1. slot(e) \in scan_julia_object(n)
    BY <1>4, <1>7 DEF Relocated, Offset
  <2>2. /\ mem[Now(o, e.at)] = Content(e.at) /\ Content(e.at) \in {e.to + e.off, Place(e.to) + e.off}
        /\ e.to \in Objects /\ e.off \in Nat
    BY <1>1, EdgesOfHeap, NowIsAt DEF CInv, MemoryOK, EdgesOK, Content
  <2>3. e.to \in Nat \ {0} /\ Place(e.to) \in Nat \ {0}
    BY <1>1, <2>2, Layouts, PlacesAreApart
  <2>4. mem[Now(o, e.at)] - e.off # 0
    BY <2>2, <2>3
  <2> QED
    BY <2>1, <2>4 DEF Visited, LoadSlot, Load, Offset
<1>8. ASSUME NEW e \in edges \ visited
      PROVE  /\ Load(Now(o, e.at)) = Place(e.to) + e.off
             /\ \/ e.to \in marked
                \/ e.to \notin moving /\ \E f \in edges : f.to = e.to /\ slot(f) \in found
  <2>1. Load(Now(o, e.at)) = Content(e.at) /\ Content(e.at) \in {e.to + e.off, Place(e.to) + e.off}
    BY <1>1, NowIsAt DEF CInv, MemoryOK, EdgesOK, Content, Load
  <2>2. CASE e.to \notin UNION Heap.moving /\ \E f \in visited : f.to = e.to
    <3>1. moving \in Heap.moving
      BY <1>1, Places
    <3>2. e.to \notin moving /\ Place(e.to) = e.to
      BY <1>1, <2>2, <3>1 DEF Place
    <3> QED
      BY <1>7, <2>1, <2>2, <3>2
  <2>3. CASE e.to = o /\ (o \in Movable => PointsBehind(e, o))
    <3>1. o \in Movable => Content(e.at) = Place(o) + e.off
      BY <2>3 DEF CInv, MemoryOK, EdgesOK, Follows
    <3>2. o \notin Movable => Place(o) = o
      BY <1>1 DEF Place
    <3> QED
      BY <2>1, <2>3, <3>1, <3>2
  <2> QED
    BY <1>5, <2>2, <2>3
<1> QED
  BY <1>3, <1>6, <1>7, <1>8 DEF FindsReferences

-----------------------------------------------------------------------------
(* So collections are right.                                               *)

\* What is true of the heap that a collection finds: its roots and the sizes of
\* its objects are those of its words, and so are the references that a scan
\* finds in each object.  TLC checks each part of it of the heaps of MCTracing,
\* in the states before a collection.  The theorems need SlotsFollowMoves of
\* the heap besides, and say so: MCTracing_moves has a heap without it.
Described == RootsAreDescribed /\ SizesStayRight /\ ScannedRightlyAtRest(Heap)

LEMMA NextKeepsScannable == Scannable /\ [Next]_vars => Scannable'
<1>1. SUFFICES ASSUME Scannable, [Next]_vars PROVE Scannable'
  OBVIOUS
<1>2. Heap' = Heap
  BY <1>1, NextKeepsHeap DEF Heap
<1> QED
  BY <1>1, <1>2 DEF Scannable

\* What is true of a collection at any time: where each word of the heap is and
\* what it holds, that an edge from a scanned object is done or has its slot,
\* that what is marked is reachable, and that what is to be scanned is fresh.
THEOREM ClosureInvariance ==
  Spec /\ Described /\ SlotsFollowMoves(Heap) => [](CInv /\ ScanInv /\ ScansFindReferences)
<1>1. Init /\ Described /\ SlotsFollowMoves(Heap) => CInv /\ ScanInv /\ Scannable
  BY InitCInv, InitScanInv DEF Described, Scannable
<1>2. CInv /\ ScanInv /\ Scannable => ScansFindReferences
  BY ScanFindsReferences DEF ScansFindReferences
<1>3. CInv /\ ScanInv /\ Scannable /\ [Next]_vars => CInv' /\ ScanInv' /\ Scannable'
  BY <1>2, NextKeepsCInv, NextKeepsScanInv, NextKeepsScannable
<1> QED
  BY <1>1, <1>2, <1>3, PTL DEF Spec

\* A scan that finds the references of an object at rest finds them whenever the
\* object is scanned: before or after it is copied, whatever words have been
\* updated, in any order of slots and nodes (process_node and scan_julia_object).
THEOREM ScansAreRight ==
  Spec /\ Described /\ SlotsFollowMoves(Heap) => []ScansFindReferences
BY ClosureInvariance, PTL

\* The slots that JuliaVMSlot loads hold references to objects, and the
\* assertions on roots hold.
THEOREM SlotsAreReferences ==
  Spec /\ Described /\ SlotsFollowMoves(Heap) => []SlotsHoldObjects
BY ClosureInvariance, SlotsOfClosure, PTL

\* Marks, moves, nodes and memory keep their types.
THEOREM ClosureTypes == Spec /\ Described /\ SlotsFollowMoves(Heap) => []TypeOK
BY ClosureInvariance, TypesOfClosure, PTL

\* What survives is what can be reached: nothing else is kept, and nothing
\* that is needed is lost, in any order of slots and nodes.
THEOREM SurvivorsAreRight ==
  Spec /\ Described /\ SlotsFollowMoves(Heap) => []SurvivorsAreReachable
BY ClosureInvariance, SurvivorsOfClosure, PTL

\* After a collection references lead where they led, wherever that is now.
THEOREM ReferencesAreRight ==
  Spec /\ Described /\ SlotsFollowMoves(Heap) => []ReferencesFollowMoves
BY ClosureInvariance, ReferencesOfClosure, PTL

\* What copy moves is whole: words that are no references are what they were.
THEOREM CopiesAreRight ==
  Spec /\ Described /\ SlotsFollowMoves(Heap) => []CopiesAreWhole
BY ClosureInvariance, CopiesOfClosure, PTL

\* Weak references are cleared or follow their object.
THEOREM WeakRefsAreRight ==
  Spec /\ Described /\ SlotsFollowMoves(Heap) => []WeakRefsAreClearedOrMoved
BY ClosureInvariance, WeakRefsOfClosure, PTL

\* get_so_object_size and ref_to_object_start are right of objects that may
\* move, all through the collection, when they are right of the heap.
THEOREM SizesAreRight ==
  Spec /\ Described /\ SlotsFollowMoves(Heap) => []SizesStayRight
<1>1. CInv => SizesStayRight
  BY DEF CInv, MemoryOK
<1> QED
  BY <1>1, ClosureInvariance, PTL

\* The tables of threads follow their objects, in order, whatever survives.
THEOREM TablesAreRight ==
  Spec /\ Described /\ SlotsFollowMoves(Heap) => []TablesFollowObjects
<1>1. Init => TablesFollowObjects
  BY DEF Init, TablesFollowObjects
<1>2. CInv /\ CInv' /\ TablesFollowObjects /\ [Next]_vars => TablesFollowObjects'
  BY NextKeepsTables
<1> QED
  BY <1>1, <1>2, ClosureInvariance, PTL DEF Spec
=============================================================================
