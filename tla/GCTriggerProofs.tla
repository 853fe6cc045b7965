-------------------------- MODULE GCTriggerProofs --------------------------
(***************************************************************************)
(* Theorems about JuliaGCTrigger for every page size, default interval,    *)
(* memory limit, estimate and number of threads.                           *)
(***************************************************************************)
EXTENDS GCTrigger, FiniteSetTheorems, TLAPS

-----------------------------------------------------------------------------
(* The arithmetic of the guardrails stays in the natural numbers.          *)

\* A number has at most USIZE_BITS bits.
LEMMA BitLengthType ==
  ASSUME GCTriggerAssumption, NEW n \in Nat
  PROVE  BitLength(n) \in 0 .. USIZE_BITS
<1> DEFINE K == 0 .. USIZE_BITS - 1
           S == {k \in K : 2^k <= n}
<1>1. USIZE_BITS \in Nat
  BY DEF GCTriggerAssumption
<1>2. IsFiniteSet(K) /\ Cardinality(K) = USIZE_BITS
  BY <1>1, FS_Interval
<1>3. S \in SUBSET K
  OBVIOUS
<1>4. IsFiniteSet(S) /\ Cardinality(S) <= Cardinality(K)
  <2> HIDE DEF K, S
  <2> QED
    BY <1>2, <1>3, FS_Subset
<1>5. Cardinality(S) \in Nat
  BY <1>4, FS_CardinalityType
<1> QED
  BY <1>1, <1>2, <1>4, <1>5 DEF BitLength

\* The overallocation curve is a number of bytes.
LEMMA OverallocationType ==
  ASSUME GCTriggerAssumption, NEW old \in Nat, NEW val \in Nat, NEW max \in Nat
  PROVE  mmtk_overallocation(old, val, max) \in Nat
<1> DEFINE e == (BitLength(old) * 7) \div 8
<1>1. e \in 0 .. USIZE_BITS
  BY BitLengthType DEF GCTriggerAssumption
<1>2. 2^e \in Nat
  BY <1>1 DEF GCTriggerAssumption
<1>3. 2^e * 4 + old \div 8 \in Nat /\ max \div 20 \in Nat
  BY <1>2
<1> QED
  BY <1>3 DEF mmtk_overallocation

\* The smoothed averages lie between 1 and the clamp, so the estimate of
\* target_allocs is made at every automatic GC (gc_trigger.rs:178).
LEMMA SmoothBounds ==
  ASSUME NEW old \in Nat, NEW new \in Nat, NEW percent \in 0 .. 100, NEW clamp \in Nat \ {0}
  PROVE  mmtk_jl_gc_smooth(old, new, percent, clamp) \in 1 .. clamp
<1>1. percent * old \in Nat /\ (100 - percent) * new \in Nat
  OBVIOUS
<1>2. (percent * old + (100 - percent) * new) \div 100 \in Int
  BY <1>1
<1> QED
  BY <1>2 DEF mmtk_jl_gc_smooth, AtMost

\* Pages are turned into a number of bytes.
LEMMA BytesType ==
  ASSUME GCTriggerAssumption, NEW pages \in Nat
  PROVE  pages_to_bytes(pages) \in Nat
<1>1. BYTES_IN_PAGE \in Nat
  BY DEF GCTriggerAssumption
<1> QED
  BY <1>1 DEF pages_to_bytes

\* The heap size and the user limit are numbers of bytes.
LEMMA SizeTypes ==
  ASSUME GCTriggerAssumption, TypeOK
  PROVE  HeapSize \in Nat /\ user_max \in Nat
<1>1. get_reserved_pages + pending_pages \in Nat
  BY DEF TypeOK, get_reserved_pages
<1>2. HeapSize \in Nat
  BY <1>1, BytesType DEF HeapSize
<1>3. user_max \in Nat
  BY DEF user_max, GCTriggerAssumption
<1> QED
  BY <1>2, <1>3

\* With no thrashing, the target leaves the minimal room and exceeds the limit
\* only by it.
LEMMA GuardrailBounds ==
  ASSUME GCTriggerAssumption, TypeOK, NEW estimate \in Estimates
  PROVE  LET allocs == TargetAllocs(estimate, FALSE)
             target == TargetHeap(allocs)
         IN  /\ allocs \in Nat
             /\ target \in Nat
             /\ target >= DEFAULT_COLLECT_INTERVAL
             /\ HeapSize + DEFAULT_COLLECT_INTERVAL \div 8 <= target
             /\ \/ target <= user_max
                \/ target <= HeapSize + MinTargetAllocs
                \/ target = DEFAULT_COLLECT_INTERVAL
<1> DEFINE lo == MinTargetAllocs
           hi == MaxTargetAllocs
           below == BelowUserMax(estimate)
           D == DEFAULT_COLLECT_INTERVAL
<1>0. HeapSize \in Nat /\ user_max \in Nat /\ estimate \in Nat /\ D \in Nat
  BY SizeTypes DEF GCTriggerAssumption
<1>1. lo \in Nat /\ lo >= D \div 8 /\ D \div 8 \in Nat
  <2>1. HeapSize \div 20 \in Nat /\ D \div 8 \in Nat
    BY <1>0
  <2> QED
    BY <2>1 DEF MinTargetAllocs, AtLeast
<1>2. hi \in Nat /\ hi >= lo
  <2>1. mmtk_overallocation(before_free_heap_size, HeapSize, user_max) \in Nat
    BY <1>0, OverallocationType DEF TypeOK
  <2> QED
    BY <2>1, <1>1 DEF MaxTargetAllocs, AtLeast
<1>3. below \in Nat /\ (below + HeapSize <= user_max \/ below <= 1)
  BY <1>0 DEF BelowUserMax
<1> DEFINE allocs == TargetAllocs(estimate, FALSE)
           target == TargetHeap(allocs)
<1>4. allocs = AtLeast(AtMost(below, hi), lo)
  BY DEF TargetAllocs, AboveThrashing
<1>5. allocs \in Nat /\ allocs >= lo /\ (allocs <= below \/ allocs = lo)
  <2> HIDE DEF lo, hi, below, allocs
  <2> QED
    BY <1>1, <1>2, <1>3, <1>4 DEF AtLeast, AtMost
<1>6. target = IF allocs + HeapSize < D THEN D ELSE allocs + HeapSize
  BY DEF TargetHeap, AtLeast
<1>7. lo >= 1
  BY <1>0, <1>1 DEF GCTriggerAssumption
<1> HIDE DEF lo, hi, below, allocs, target
<1>8. /\ allocs \in Nat
      /\ target \in Nat
      /\ target >= D
      /\ HeapSize + D \div 8 <= target
      /\ target <= user_max \/ target <= HeapSize + lo \/ target = D
  BY <1>0, <1>1, <1>3, <1>5, <1>6, <1>7
<1> QED
  BY <1>8 DEF lo, allocs, target

-----------------------------------------------------------------------------
(* The inductive invariant.                                                *)

\* A heap over the user limit at the end of a GC has asked for a full collection.
OverLimitRemembered ==
  Generational /\ phase # "collected" /\ old_heap_size > user_max => force_full

TriggerInv == /\ TypeOK /\ NeverThrashing /\ TargetWithinGuardrails
              /\ OverLimitRemembered

ThreadStep(t) == Allocate(t) \/ Retry(t) \/ CountedMallocOrFree(t) \/ UserCollection(t)

\* A thread changes no state of the policy, and keeps the types.
LEMMA ThreadStepTypes ==
  ASSUME GCTriggerAssumption, TypeOK, NEW t \in Threads, ThreadStep(t)
  PROVE  /\ UNCHANGED <<policyVars, phase, planVars>>
         /\ phase \in {"mutating", "started"}
         /\ TypeOK'
<1> USE DEF policyVars, planVars, requestVars, threadVars, heapVars, MutatorsRun
<1>1. UNCHANGED <<policyVars, phase, planVars>> /\ phase \in {"mutating", "started"}
  BY DEF ThreadStep, Allocate, Retry, CountedMallocOrFree, UserCollection, AllocateSucceeds,
         AllocateFails, on_pending_allocation
<1>2. want[t] \in Nat
  BY DEF TypeOK
<1>3. reserved' \in Nat /\ pending_pages' \in Nat
  BY <1>2 DEF TypeOK, ThreadStep, Allocate, Retry, CountedMallocOrFree, UserCollection,
              AllocateSucceeds, AllocateFails, on_pending_allocation
<1>4. JULIA_MALLOC_BYTES' \in Nat
  BY DEF TypeOK, ThreadStep, Allocate, Retry, CountedMallocOrFree, UserCollection,
         AllocateSucceeds, AllocateFails, on_pending_allocation
<1>5. pc' \in [Threads -> ThreadPC]
  BY DEF TypeOK, ThreadPC, ThreadStep, Allocate, Retry, CountedMallocOrFree, UserCollection,
         AllocateSucceeds, AllocateFails, on_pending_allocation
<1>6. want' \in [Threads -> Nat]
  BY DEF TypeOK, ThreadStep, Allocate, Retry, CountedMallocOrFree, UserCollection,
         AllocateSucceeds, AllocateFails, on_pending_allocation, GCTriggerAssumption
<1>7. gc_requested' \in BOOLEAN /\ user_triggered' \in BOOLEAN
  BY DEF TypeOK, ThreadStep, Allocate, Retry, CountedMallocOrFree, UserCollection,
         AllocateSucceeds, AllocateFails, on_pending_allocation
<1>8. TypeOK'
  BY <1>1, <1>3, <1>4, <1>5, <1>6, <1>7 DEF TypeOK
<1> QED
  BY <1>1, <1>8

\* An automatic GC leaves the estimator at rest and the target in its bounds.
LEMMA GCEndStep ==
  ASSUME GCTriggerAssumption, TriggerInv, on_gc_end
  PROVE  TriggerInv'
<1> USE DEF TriggerInv, policyVars, heapVars, planVars, requestVars, threadVars
<1>0. HeapSize \in Nat /\ user_max \in Nat /\ HeapSize' = HeapSize
  BY SizeTypes DEF on_gc_end, HeapSize, get_reserved_pages, pages_to_bytes
<1>1. CASE user_triggered
  <2>1. /\ UNCHANGED <<heap_target, thrash_counter, thrashing, slow_cycles, user_triggered>>
        /\ old_heap_size' = HeapSize
        /\ force_full' = (Generational /\ SweepFull(FALSE))
    BY <1>1 DEF on_gc_end
  <2>2. TypeOK'
    BY <1>0, <1>1, <2>1 DEF on_gc_end, TypeOK, Phases, GCTriggerAssumption, SweepFull
  <2> QED
    BY <1>0, <1>1, <2>1, <2>2
    DEF on_gc_end, NeverThrashing, TargetWithinGuardrails,
        OverLimitRemembered, SweepFull, user_max
<1>2. CASE ~user_triggered
  <2>1. PICK slow \in BOOLEAN, estimate \in Estimates :
            /\ thrashing' = NextThrashing(ThrashCount(slow))
            /\ thrash_counter' = NextThrashCount(ThrashCount(slow))
            /\ slow_cycles' = IF slow THEN AtMost(slow_cycles + 1, 3) ELSE 0
            /\ heap_target' = TargetHeap(TargetAllocs(estimate, thrashing'))
    BY <1>2 DEF on_gc_end
  <2>2. ThrashCount(slow) = 0
    BY DEF ThrashCount, NeverThrashing
  <2>3. NeverThrashing'
    BY <2>1, <2>2 DEF NeverThrashing, NextThrashing, NextThrashCount
  <2>4. heap_target' = TargetHeap(TargetAllocs(estimate, FALSE))
    BY <2>1, <2>3 DEF NeverThrashing, TargetAllocs, AboveThrashing
  <2>5. /\ heap_target' \in Nat
        /\ heap_target' >= DEFAULT_COLLECT_INTERVAL
        /\ HeapSize + DEFAULT_COLLECT_INTERVAL \div 8 <= heap_target'
        /\ \/ heap_target' <= user_max
           \/ heap_target' <= HeapSize + MinTargetAllocs
           \/ heap_target' = DEFAULT_COLLECT_INTERVAL
    BY <2>4, GuardrailBounds
  <2>6. slow_cycles' \in 0 .. 3
    BY <2>1 DEF AtMost, TypeOK
  <2>7. TypeOK'
    <3>1. force_full' \in BOOLEAN
      BY DEF on_gc_end, GCTriggerAssumption
    <3>2. thrash_counter' \in Nat /\ thrashing' \in BOOLEAN
      BY <2>1, <2>3 DEF NeverThrashing, NextThrashing
    <3> QED
      BY <1>0, <2>5, <2>6, <3>1, <3>2 DEF on_gc_end, TypeOK, Phases
  <2>8. MinTargetAllocs' = MinTargetAllocs /\ user_max' = user_max
    BY <1>0 DEF MinTargetAllocs, AtLeast, user_max
  <2>9. TargetWithinGuardrails'
    BY <1>0, <2>5, <2>8 DEF TargetWithinGuardrails
  <2>10. OverLimitRemembered'
    BY <1>0, <2>8
    DEF on_gc_end, OverLimitRemembered, SweepFull
  <2> QED
    BY <2>3, <2>7, <2>9, <2>10
<1> QED
  BY <1>1, <1>2

\* The other steps of the GC worker.
LEMMA WorkerStep ==
  ASSUME GCTriggerAssumption, TriggerInv, on_gc_start \/ StopMutators \/ Collect \/ Resume
  PROVE  TriggerInv'
<1> USE DEF TriggerInv, policyVars, heapVars, planVars, requestVars, threadVars
<1>0. HeapSize \in Nat /\ user_max \in Nat /\ user_max' = user_max
  BY SizeTypes DEF user_max
<1>1. CASE on_gc_start
  <2>1. HeapSize' = HeapSize
    BY <1>1 DEF on_gc_start, HeapSize, get_reserved_pages, pages_to_bytes
  <2>2. prev_sweep_full' \in BOOLEAN
    BY <1>1 DEF on_gc_start, GCTriggerAssumption, TypeOK
  <2>3. TypeOK'
    BY <1>0, <1>1, <2>2 DEF on_gc_start, TypeOK, Phases
  <2> QED
    BY <1>0, <1>1, <2>1, <2>3
    DEF on_gc_start, NeverThrashing, TargetWithinGuardrails,
        OverLimitRemembered
<1>2. CASE StopMutators
  <2>1. HeapSize' = HeapSize
    BY <1>2 DEF StopMutators, HeapSize, get_reserved_pages, pages_to_bytes
  <2>2. TypeOK'
    BY <1>2 DEF StopMutators, TypeOK, Phases
  <2> QED
    BY <1>0, <1>2, <2>1, <2>2
    DEF StopMutators, NeverThrashing, TargetWithinGuardrails,
        OverLimitRemembered
<1>3. CASE Collect
  <2>1. reserved' \in Nat /\ JULIA_MALLOC_BYTES' \in Nat
    <3>1. PICK share \in 0 .. 100, swept \in 0 .. 100 :
               /\ reserved' = (reserved * share) \div 100
               /\ JULIA_MALLOC_BYTES' = (JULIA_MALLOC_BYTES * swept) \div 100
      BY <1>3 DEF Collect, GCTriggerAssumption
    <3>2. reserved * share \in Nat /\ JULIA_MALLOC_BYTES * swept \in Nat
      BY DEF TypeOK
    <3> QED
      BY <3>1, <3>2
  <2>2. TypeOK'
    BY <1>3, <2>1 DEF Collect, TypeOK, Phases
  <2> QED
    BY <1>0, <1>3, <2>2
    DEF Collect, NeverThrashing, TargetWithinGuardrails,
        OverLimitRemembered
<1>4. CASE Resume
  <2>1. HeapSize' = HeapSize
    BY <1>4 DEF Resume, HeapSize, get_reserved_pages, pages_to_bytes
  <2>2. pc' \in [Threads -> ThreadPC]
    BY <1>4 DEF Resume, TypeOK, ThreadPC
  <2>3. TypeOK'
    BY <1>4, <2>2 DEF Resume, TypeOK, Phases
  <2> QED
    BY <1>0, <1>4, <2>1, <2>3
    DEF Resume, NeverThrashing, TargetWithinGuardrails,
        OverLimitRemembered
<1> QED
  BY <1>1, <1>2, <1>3, <1>4

\* The conjunction is inductive.
THEOREM TriggerInvariant == Spec => []TriggerInv
<1> USE GCTriggerAssumption
<1>1. Init => TriggerInv
  <2> SUFFICES ASSUME Init PROVE TriggerInv
    OBVIOUS
  <2>1. TypeOK
    <3>1. pc \in [Threads -> ThreadPC] /\ want \in [Threads -> Nat]
      BY DEF Init, ThreadPC
    <3>2. DEFAULT_COLLECT_INTERVAL \in Nat
      BY DEF GCTriggerAssumption
    <3>3. 0 \in Nat /\ 0 \in 0 .. 3
      OBVIOUS
    <3> QED
      BY <3>1, <3>2, <3>3 DEF Init, TypeOK, Phases
  <2>2. HeapSize \in Nat /\ user_max \in Nat
    BY <2>1, SizeTypes
  <2> QED
    BY <2>1, <2>2
    DEF Init, TriggerInv, NeverThrashing, TargetWithinGuardrails,
        OverLimitRemembered, GCTriggerAssumption
<1>2. TriggerInv /\ [Next]_vars => TriggerInv'
  <2> SUFFICES ASSUME TriggerInv, [Next]_vars PROVE TriggerInv'
    OBVIOUS
  <2>0. user_max \in Nat /\ user_max' = user_max
    BY SizeTypes DEF TriggerInv, user_max
  <2>1. ASSUME NEW t \in Threads, ThreadStep(t) PROVE TriggerInv'
    <3>1. /\ UNCHANGED <<policyVars, phase, planVars>>
          /\ phase \in {"mutating", "started"}
          /\ TypeOK'
      BY <2>1, ThreadStepTypes DEF TriggerInv
    <3> QED
      BY <2>0, <3>1
      DEF TriggerInv, policyVars, planVars, NeverThrashing, TargetWithinGuardrails, OverLimitRemembered
  <2>2. CASE Worker
    BY <2>2, GCEndStep, WorkerStep DEF Worker
  <2>3. CASE UNCHANGED vars
    <3>1. HeapSize' = HeapSize /\ MinTargetAllocs' = MinTargetAllocs
      BY <2>3 DEF vars, policyVars, heapVars, HeapSize, get_reserved_pages, pages_to_bytes, MinTargetAllocs, AtLeast
    <3> QED
      BY <2>0, <2>3, <3>1
      DEF vars, policyVars, heapVars, planVars, requestVars, threadVars, TriggerInv, TypeOK,
          NeverThrashing, TargetWithinGuardrails,
          OverLimitRemembered
  <2> QED
    BY <2>1, <2>2, <2>3 DEF Next, ThreadStep
<1> QED
  BY <1>1, <1>2, PTL DEF Spec

\* No counter or size of the policy goes below zero.
THEOREM TriggerTypes == Spec => []TypeOK
<1>1. TriggerInv => TypeOK
  BY DEF TriggerInv
<1> QED
  BY <1>1, TriggerInvariant, PTL

\* The thrashing estimator never fires, for any program and any heap.
THEOREM ThrashingIsDead == Spec => []NeverThrashing
<1>1. TriggerInv => NeverThrashing
  BY DEF TriggerInv
<1> QED
  BY <1>1, TriggerInvariant, PTL

\* The target stays above the default interval (gc_trigger.rs:252), and after
\* an automatic GC inside its guardrails.
THEOREM TargetGuarded == Spec => []TargetWithinGuardrails
<1>1. TriggerInv => TargetWithinGuardrails
  BY DEF TriggerInv
<1> QED
  BY <1>1, TriggerInvariant, PTL

\* A heap over the limit makes the next collection a full one: the request
\* (force_full_heap_collection, gc_trigger.rs:286) outlives all that comes
\* between the two.
THEOREM OverLimitCollectsFully == Spec => OverLimitForcesFull
<1>1. TriggerInv /\ [Next]_vars =>
        [phase = "stopped" /\ phase' = "collected" /\ old_heap_size > user_max => last_full']_vars
  <2> SUFFICES ASSUME TriggerInv, [Next]_vars, phase = "stopped", phase' = "collected",
                      old_heap_size > user_max
               PROVE  last_full'
    OBVIOUS
  <2>1. Collect
    BY DEF Next, Worker, Retry, Allocate, CountedMallocOrFree, AllocateSucceeds, AllocateFails, on_gc_start,
           on_pending_allocation, UserCollection, StopMutators, Resume, on_gc_end, vars
  <2> QED
    BY <2>1 DEF Collect, TriggerInv, OverLimitRemembered
<1> QED
  BY <1>1, TriggerInvariant, PTL DEF Spec, OverLimitForcesFull
=============================================================================
