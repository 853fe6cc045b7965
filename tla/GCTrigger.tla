----------------------------- MODULE GCTrigger -----------------------------
(***************************************************************************)
(* JuliaGCTrigger (gc_trigger.rs), the policy that decides when the heap   *)
(* is full, and the allocations and pauses of MMTk core that drive it.     *)
(*                                                                         *)
(* Kept: the heap target with its guardrails, the pending pages, the       *)
(* thrashing estimator, and the forcing of full collections.  Abstracted:  *)
(* the clock is one Boolean (was the pause longer than the mutator time    *)
(* before it?) and the allocation estimate, a square root of smoothed      *)
(* rates, is any member of Estimates.  The estimate is always made: the    *)
(* smoothed averages are never 0 (see mmtk_jl_gc_smooth).  Rounding the    *)
(* f64 arithmetic down changes no comparison, since the guardrails and the *)
(* heap size are whole numbers.                                            *)
(*                                                                         *)
(* The heap of the trigger has two parts: the pages of the plan, and what  *)
(* vm_live_bytes adds to them, the memory that C code counts in            *)
(* JULIA_MALLOC_BYTES as it allocates and frees it (in pages here).        *)
(*                                                                         *)
(* External: MMTk core polls the trigger for an allocation with its pages  *)
(* already reserved, sets the request flag when a GC is required, and only *)
(* then reports the pending pages and blocks the thread.  The GC worker    *)
(* calls on_gc_start before it stops the mutators.                         *)
(***************************************************************************)
EXTENDS Integers, FiniteSets

CONSTANTS
  Threads,
  DEFAULT_COLLECT_INTERVAL,  \* bytes
  BYTES_IN_PAGE,
  USIZE_BITS,       \* usize::BITS
  MaxTotalMemory,   \* max_total_memory, bytes
  Estimates,        \* values target_allocs may be computed to
  AllocPages,       \* sizes of an allocation request, pages
  SurvivalPercents, \* shares of the reserved pages a collection may keep
  Generational,     \* is the plan StickyImmix?
  MaxMallocPages,   \* bound on JULIA_MALLOC_BYTES, pages
  PlanCollects,     \* may the plan require a GC though the heap is not full?
  UserCollects,     \* may threads call GC.gc()?
  MaxPages          \* bound: from this many pages on, no new request is made

ASSUME GCTriggerAssumption ==
  /\ DEFAULT_COLLECT_INTERVAL \in Nat /\ DEFAULT_COLLECT_INTERVAL >= 8
  /\ BYTES_IN_PAGE \in Nat \ {0}
  /\ USIZE_BITS \in Nat /\ \A k \in 0 .. USIZE_BITS : 2^k \in Nat
  /\ MaxTotalMemory \in Nat /\ MaxPages \in Nat /\ MaxMallocPages \in Nat
  /\ Estimates \subseteq Nat /\ Estimates # {}
  /\ AllocPages \subseteq Nat \ {0}
  /\ SurvivalPercents \subseteq 0 .. 100
  /\ Generational \in BOOLEAN /\ PlanCollects \in BOOLEAN /\ UserCollects \in BOOLEAN

VARIABLES
  heap_target, old_heap_size, before_free_heap_size,   \* bytes
  thrash_counter, thrashing, prev_sweep_full, pending_pages,
  slow_cycles,     \* history: automatic GCs in a row that were slow, up to 3
  reserved,        \* pages of the plan
  JULIA_MALLOC_BYTES, \* in pages; get_reserved_pages() is the sum of the two
  phase,           \* where the GC worker is
  gc_requested, user_triggered,
  last_full,       \* was the last collection a full-heap one?
  force_full,      \* force_full_heap_collection() was called for the next one
  pc, want         \* of each thread: where it is, and the pages it asks for

policyVars == <<heap_target, old_heap_size, before_free_heap_size, thrash_counter,
                thrashing, prev_sweep_full, slow_cycles>>
requestVars == <<gc_requested, user_triggered>>
planVars == <<last_full, force_full>>
threadVars == <<pc, want>>
heapVars == <<reserved, JULIA_MALLOC_BYTES>>
vars == <<policyVars, pending_pages, heapVars, phase, requestVars, planVars, threadVars>>

Phases   == {"mutating", "started", "stopped", "collected", "done"}
ThreadPC == {"idle", "alloc", "failed", "blocked"}

AtLeast(a, b) == IF a < b THEN b ELSE a
AtMost(a, b)  == IF a > b THEN b ELSE a

pages_to_bytes(pages) == pages * BYTES_IN_PAGE

\* JuliaGCTrigger::new.
Init == /\ heap_target = DEFAULT_COLLECT_INTERVAL
        /\ old_heap_size = 0
        /\ before_free_heap_size = 0
        /\ thrash_counter = 0
        /\ thrashing = FALSE
        /\ prev_sweep_full = TRUE
        /\ pending_pages = 0
        /\ slow_cycles = 0
        /\ reserved = 0 /\ JULIA_MALLOC_BYTES = 0
        /\ phase = "mutating"
        /\ gc_requested = FALSE
        /\ user_triggered = FALSE
        /\ last_full = FALSE
        /\ force_full = FALSE
        /\ pc = [t \in Threads |-> "idle"]
        /\ want = [t \in Threads |-> 0]

-----------------------------------------------------------------------------
(* Pure helpers of gc_trigger.rs.                                          *)

\* percent stands for factor; the clamp is 2usize << 36 in the code.
mmtk_jl_gc_smooth(old_val, new_val, percent, clamp) ==
  LET est == (percent * old_val + (100 - percent) * new_val) \div 100
  IN  IF est <= 1 THEN 1 ELSE AtMost(est, clamp)

\* usize::BITS - leading_zeros(n): one bit for every power of two up to n.
BitLength(n) == Cardinality({k \in 0 .. USIZE_BITS - 1 : 2^k <= n})

mmtk_overallocation(old_val, val, max_val) ==
  LET inc == 2^((BitLength(old_val) * 7) \div 8) * 4 + old_val \div 8
  IN  IF inc + val > max_val /\ inc > max_val \div 20 THEN max_val \div 20 ELSE inc

get_reserved_pages == reserved + JULIA_MALLOC_BYTES

\* reserved_pages_now, in bytes: pending allocations are included.
HeapSize == pages_to_bytes(get_reserved_pages + pending_pages)

\* A thread asks with its own pages reserved.
is_heap_full(pages) == HeapSize + pages_to_bytes(pages) >= heap_target

user_max == (MaxTotalMemory * 80) \div 100

MutatorsRun == phase \in {"mutating", "started"}

BelowBound == get_reserved_pages + pending_pages < MaxPages

-----------------------------------------------------------------------------
(* Faults: the definitions below with one mistake each, see README.        *)

\* A pending allocation is not reported.
on_pending_ignored(t) ==
  /\ MutatorsRun
  /\ pc[t] = "failed"
  /\ pc' = [pc EXCEPT ![t] = "blocked"]
  /\ UNCHANGED <<policyVars, pending_pages, heapVars, phase, requestVars, planVars, want>>

\* The counter is decremented without the test.
ThrashCountUnguarded(slow) ==
  IF slow /\ thrash_counter >= 4 THEN thrash_counter + 1 ELSE thrash_counter - 1

\* The counter is incremented by every slow pause.
ThrashCountEager(slow) ==
  IF slow THEN thrash_counter + 1 ELSE AtLeast(thrash_counter - 1, 0)

\* The default interval is no lower bound.
TargetHeapUnclamped(allocs) == allocs + HeapSize

\* Only a forced GC makes the next one full.
SweepFullForced(gc_auto) == ~gc_auto /\ ~prev_sweep_full

-----------------------------------------------------------------------------
(* Allocation in MMTk core.                                                *)

\* A thread starts an allocation that needs fresh pages.
Allocate(t) ==
  /\ MutatorsRun
  /\ pc[t] = "idle"
  /\ BelowBound
  /\ \E pages \in AllocPages : want' = [want EXCEPT ![t] = pages]
  /\ pc' = [pc EXCEPT ![t] = "alloc"]
  /\ UNCHANGED <<policyVars, pending_pages, heapVars, phase, requestVars, planVars>>

\* The poll finds that no GC is required: the pages are the thread's.
AllocateSucceeds(t) ==
  /\ MutatorsRun
  /\ pc[t] = "alloc"
  /\ ~is_heap_full(want[t])
  /\ reserved' = reserved + want[t]
  /\ UNCHANGED JULIA_MALLOC_BYTES
  /\ pc' = [pc EXCEPT ![t] = "idle"]
  /\ want' = [want EXCEPT ![t] = 0]
  /\ UNCHANGED <<policyVars, pending_pages, phase, requestVars, planVars>>

\* is_gc_required: a GC is requested and the reservation is given back.
AllocateFails(t) ==
  /\ MutatorsRun
  /\ pc[t] = "alloc"
  /\ is_heap_full(want[t]) \/ (PlanCollects /\ BelowBound)
  /\ gc_requested' = TRUE
  /\ pc' = [pc EXCEPT ![t] = "failed"]
  /\ UNCHANGED <<policyVars, pending_pages, heapVars, phase, user_triggered, planVars, want>>

\* The thread then reports its pages and blocks for the GC.
on_pending_allocation(t) ==
  /\ MutatorsRun
  /\ pc[t] = "failed"
  /\ pending_pages' = pending_pages + want[t]
  /\ pc' = [pc EXCEPT ![t] = "blocked"]
  /\ UNCHANGED <<policyVars, heapVars, phase, requestVars, planVars, want>>

\* A thread allocates or frees memory of C, without a poll of the trigger.
CountedMallocOrFree(t) ==
  /\ MutatorsRun
  /\ pc[t] = "idle"
  /\ JULIA_MALLOC_BYTES' \in 0 .. MaxMallocPages
  /\ UNCHANGED <<policyVars, pending_pages, reserved, phase, requestVars, planVars, threadVars>>

\* GC.gc(): no allocation is pending.
UserCollection(t) ==
  /\ UserCollects /\ BelowBound
  /\ MutatorsRun
  /\ pc[t] = "idle"
  /\ gc_requested' = TRUE
  /\ user_triggered' = TRUE
  /\ pc' = [pc EXCEPT ![t] = "blocked"]
  /\ UNCHANGED <<policyVars, pending_pages, heapVars, phase, planVars, want>>

-----------------------------------------------------------------------------
(* A collection.                                                           *)

\* The mutators still run.
on_gc_start ==
  /\ phase = "mutating"
  /\ gc_requested
  /\ phase' = "started"
  /\ before_free_heap_size' = HeapSize
  /\ prev_sweep_full' = (Generational /\ last_full)
  /\ UNCHANGED <<heap_target, old_heap_size, thrash_counter, thrashing, slow_cycles,
                 pending_pages, heapVars, requestVars, planVars, threadVars>>

\* stop_all_mutators: a thread whose poll failed gets as far as blocking.
StopMutators ==
  /\ phase = "started"
  /\ \A t \in Threads : pc[t] # "failed"
  /\ phase' = "stopped"
  /\ gc_requested' = FALSE
  /\ UNCHANGED <<policyVars, pending_pages, heapVars, user_triggered, planVars, threadVars>>

\* Pages are released; a nursery collection may be chosen unless a full one
\* is forced or the plan has no generations.
Collect ==
  /\ phase = "stopped"
  /\ phase' = "collected"
  /\ \E share, swept \in SurvivalPercents :
       /\ reserved' = (reserved * share) \div 100
       /\ JULIA_MALLOC_BYTES' = (JULIA_MALLOC_BYTES * swept) \div 100
  /\ last_full' \in IF Generational /\ ~force_full THEN BOOLEAN ELSE {TRUE}
  /\ force_full' = FALSE
  /\ UNCHANGED <<policyVars, pending_pages, requestVars, threadVars>>

\* The thrashing estimator, for a pause that was slow or not.  A fetch_add
\* needs the counter to be at 4 already.
ThrashCount(slow) ==
  IF slow /\ thrash_counter >= 4 THEN thrash_counter + 1
  ELSE IF thrash_counter > 0 THEN thrash_counter - 1 ELSE 0

NextThrashing(count) == \/ ~thrashing /\ count >= 3
                        \/ thrashing /\ count > 2

NextThrashCount(count) == IF ~thrashing /\ count >= 3 THEN 6 ELSE count

\* The guardrails.
MinTargetAllocs == AtLeast(HeapSize \div 20, DEFAULT_COLLECT_INTERVAL \div 8)

MaxTargetAllocs ==
  AtLeast(mmtk_overallocation(before_free_heap_size, HeapSize, user_max), MinTargetAllocs)

BelowUserMax(allocs) ==
  IF allocs + HeapSize <= user_max THEN allocs
  ELSE IF HeapSize < user_max THEN user_max - HeapSize ELSE 1

ISqrt(n) == CHOOSE k \in 0 .. n : k * k <= n /\ n < (k + 1) * (k + 1)

AboveThrashing(allocs, isThrashing) ==
  IF isThrashing THEN AtLeast(allocs, ISqrt(MinTargetAllocs * MaxTargetAllocs)) ELSE allocs

\* Fault: the limit of the user is left out.
TargetAllocsUnlimited(estimate, isThrashing) ==
  AtLeast(AtMost(AboveThrashing(estimate, isThrashing), MaxTargetAllocs), MinTargetAllocs)

TargetAllocs(estimate, isThrashing) ==
  LET limited == AboveThrashing(BelowUserMax(estimate), isThrashing)
  IN  AtLeast(AtMost(limited, MaxTargetAllocs), MinTargetAllocs)

TargetHeap(allocs) == AtLeast(allocs + HeapSize, DEFAULT_COLLECT_INTERVAL)

SweepFull(gc_auto) == \/ HeapSize > user_max
                      \/ ~gc_auto /\ ~prev_sweep_full

\* The target and the estimator change only if the user did not force the GC.
on_gc_end ==
  /\ phase = "collected"
  /\ phase' = "done"
  /\ old_heap_size' = HeapSize
  /\ IF user_triggered
     THEN UNCHANGED <<heap_target, thrash_counter, thrashing, slow_cycles>>
     ELSE \E slow \in BOOLEAN, estimate \in Estimates :
            /\ thrashing' = NextThrashing(ThrashCount(slow))
            /\ thrash_counter' = NextThrashCount(ThrashCount(slow))
            /\ slow_cycles' = IF slow THEN AtMost(slow_cycles + 1, 3) ELSE 0
            /\ heap_target' = TargetHeap(TargetAllocs(estimate, thrashing'))
  /\ force_full' = (Generational /\ SweepFull(~user_triggered))
  /\ UNCHANGED <<before_free_heap_size, prev_sweep_full, pending_pages, heapVars,
                 requestVars, last_full, threadVars>>

\* resume_mutators: a blocked thread tries its allocation again.
Resume ==
  /\ phase = "done"
  /\ phase' = "mutating"
  /\ user_triggered' = FALSE
  /\ pc' = [t \in Threads |-> IF pc[t] # "blocked" THEN pc[t]
                              ELSE IF want[t] = 0 THEN "idle" ELSE "alloc"]
  /\ UNCHANGED <<policyVars, pending_pages, heapVars, gc_requested, planVars, want>>

-----------------------------------------------------------------------------
Retry(t) == AllocateSucceeds(t) \/ AllocateFails(t) \/ on_pending_allocation(t)

Worker == on_gc_start \/ StopMutators \/ Collect \/ on_gc_end \/ Resume

Next == \/ \E t \in Threads : \/ Allocate(t) \/ Retry(t)
                              \/ CountedMallocOrFree(t) \/ UserCollection(t)
        \/ Worker

Spec == Init /\ [][Next]_vars

\* A thread goes on with an allocation it started, and a requested GC is run.
FairSpec == /\ Spec
            /\ \A t \in Threads : WF_vars(Retry(t))
            /\ WF_vars(Worker)
-----------------------------------------------------------------------------
(* Properties.                                                             *)

\* Sizes and counters are usize values: none of them goes below zero.
TypeOK ==
  /\ heap_target \in Nat /\ old_heap_size \in Nat /\ before_free_heap_size \in Nat
  /\ thrash_counter \in Nat /\ thrashing \in BOOLEAN /\ prev_sweep_full \in BOOLEAN
  /\ pending_pages \in Nat /\ reserved \in Nat /\ JULIA_MALLOC_BYTES \in Nat
  /\ slow_cycles \in 0 .. 3
  /\ phase \in Phases
  /\ gc_requested \in BOOLEAN /\ user_triggered \in BOOLEAN
  /\ last_full \in BOOLEAN /\ force_full \in BOOLEAN
  /\ pc \in [Threads -> ThreadPC]
  /\ want \in [Threads -> Nat]

\* The heap target never falls below the default interval, whatever the
\* estimates and the limit on the memory are (gc_trigger.rs:252).  At the end
\* of an automatic GC the guardrails leave room for an eighth of the interval,
\* and the target exceeds the user limit only by the minimal allocation or by
\* the default interval.  The thrashing branch, which may lift the target over
\* the limit again, comes after the limit in the code.
TargetWithinGuardrails ==
  /\ heap_target >= DEFAULT_COLLECT_INTERVAL
  /\ phase = "done" /\ ~user_triggered =>
       /\ HeapSize + DEFAULT_COLLECT_INTERVAL \div 8 <= heap_target
       /\ \/ heap_target <= user_max
          \/ heap_target <= HeapSize + MinTargetAllocs
          \/ heap_target = DEFAULT_COLLECT_INTERVAL

\* The thrashing estimator is inert: the counter starts at 0 and is only ever
\* increased from 4 up (gc_trigger.rs:170-176), so no GC is found to thrash.
NeverThrashing == thrash_counter = 0 /\ ~thrashing

\* A heap over the user limit at the end of one GC makes the next collection of
\* a generational plan a full one, whatever happens between the two.
OverLimitForcesFull ==
  [][phase = "stopped" /\ phase' = "collected" /\ old_heap_size > user_max => last_full']_vars

\* From some point on no user asks for a GC, and a poll that fails finds the
\* heap full: the plan's own wishes, which ask for a collection however much
\* room there is, come to an end.
Quiet == /\ <>[](~user_triggered)
         /\ <>[][\A t \in Threads : AllocateFails(t) => is_heap_full(want[t])]_vars

\* Once it is quiet, an allocation that had to wait for a GC is made in the
\* end, even one larger than the room one GC leaves: every failure counts its
\* pages again, and the 5% guardrail grows with them (gc_trigger.rs:201, :292).
AllocationSucceeds == Quiet => \A t \in Threads : pc[t] = "failed" ~> pc[t] = "idle"

\* "require 3 consecutive thrashing cycles to force the default allocator rate"
\* (gc_trigger.rs:187).
ThrashingDetected == phase = "done" /\ slow_cycles = 3 => thrashing

\* alloc_diff (gc_trigger.rs:131) is the memory allocated since the last GC, a
\* usize: the heap that on_gc_start reads is no smaller than the one that the
\* previous on_gc_end stored.
AllocDiffNonNegative ==
  phase \in {"started", "stopped", "collected"} => before_free_heap_size >= old_heap_size
=============================================================================
