---------------------------- MODULE StopTheWorld ----------------------------
(***************************************************************************)
(* The stop-the-world handshake between Julia's mutator threads and the    *)
(* GC worker of MMTk: collection.rs, the user collection request and the   *)
(* poll of api.rs, and the statics of lib.rs they share.                   *)
(*                                                                         *)
(* Every store, load and lock operation on a shared static is a step of    *)
(* its own; SeqCst makes their interleaving semantics sequential.          *)
(*                                                                         *)
(* Two neighbours are external.  In Julia, jl_gc_prepare_to_collect elects *)
(* one thread, waits until the others are at a safepoint and has the       *)
(* elected one call mmtk_block_thread_for_gc.  In MMTk core a request flag *)
(* wakes the worker, which calls stop_all_mutators, clears the flag,       *)
(* collects and calls resume_mutators.                                     *)
(***************************************************************************)
EXTENDS Integers, FiniteSets

CONSTANTS
  Mutators,         \* threads in the MUTATORS map
  NoThread,         \* nobody holds a lock or runs a GC
  MaxUserRequests,  \* bound on USER_TRIGGERED_GC
  SpuriousWakeups   \* may Condvar::wait return without a notification?

ASSUME StopTheWorldAssumption ==
  /\ NoThread \notin Mutators
  /\ IsFiniteSet(Mutators)
  /\ MaxUserRequests \in Nat
  /\ SpuriousWakeups \in BOOLEAN

VARIABLES
  BLOCK_FOR_GC, WORLD_HAS_STOPPED, DISABLED_GC, USER_TRIGGERED_GC,
  stwMutex,          \* the holder of the mutex of STW_COND
  pc,                \* where each mutator is
  wpc,               \* where the GC worker is
  visited,           \* mutators handed to mutator_visitor in this pause
  gc_requested,      \* MMTk core's request flag
  jl_gc_running,     \* the thread that Julia elected, or NoThread
  jl_gc_disabled     \* jl_get_gc_disable_counter() # 0

flags   == <<BLOCK_FOR_GC, WORLD_HAS_STOPPED>>
userVars == <<DISABLED_GC, USER_TRIGGERED_GC>>
workerVars == <<wpc, visited, gc_requested>>
juliaVars == <<jl_gc_running, jl_gc_disabled>>
vars == <<flags, userVars, stwMutex, pc, workerVars, juliaVars>>

\* Control points of a mutator inside mmtk_block_thread_for_gc, by what it
\* does next; "waiting" is inside Condvar::wait, "woken" is on its way out.
Parking    == {"test", "enterWait", "waiting", "woken"}
InBlockFn  == {"lock", "announce", "return"} \cup Parking
\* Control points of the thread Julia elected to run the collection.
Elected    == {"stopping", "block", "endGC"} \cup InBlockFn
\* Control points at which a thread may still touch Julia objects.
InJulia    == {"running", "userCheck", "userRequest", "prepare"}
MutatorPC  == InJulia \cup {"safepoint"} \cup Elected
\* Control points of the worker; the first three of the second line are
\* the stores and the notification of resume_mutators.
WorkerPC   == {"idle", "spin", "visit", "collect"} \cup
              {"clearBlock", "clearStopped", "notify"}
\* The worker looks at, or moves, objects of the mutators.
Collecting == {"visit", "collect", "clearBlock"}

Init == /\ BLOCK_FOR_GC = FALSE
        /\ WORLD_HAS_STOPPED = FALSE
        /\ DISABLED_GC \in BOOLEAN
        /\ USER_TRIGGERED_GC = 0
        /\ stwMutex = NoThread
        /\ pc = [m \in Mutators |-> "running"]
        /\ wpc = "idle"
        /\ visited = {}
        /\ gc_requested = FALSE
        /\ jl_gc_running = NoThread
        /\ jl_gc_disabled = FALSE

Goto(m, from, to) == /\ pc[m] = from
                     /\ pc' = [pc EXCEPT ![m] = to]

is_collection_enabled == ~jl_gc_disabled

-----------------------------------------------------------------------------
(* Faults: each is an action below with one mistake.  Next has none of     *)
(* them; they show that the properties tell the code from its neighbours.  *)

\* The fetch_add is forgotten.
UserRequestUncounted(m) ==
  /\ Goto(m, "running", "userCheck")
  /\ UNCHANGED <<flags, userVars, stwMutex, workerVars, juliaVars>>

\* A store of 0 takes the place of the fetch_add of -1.
UserRequestForgetsOthers(m) ==
  /\ DISABLED_GC
  /\ Goto(m, "userCheck", "running")
  /\ USER_TRIGGERED_GC' = 0
  /\ UNCHANGED <<flags, DISABLED_GC, stwMutex, workerVars, juliaVars>>

\* An "auto" request blocks its thread although MMTk core dropped it.
CollectOnDroppedRequest(m) ==
  /\ Goto(m, "userRequest", "prepare")
  /\ gc_requested' = (gc_requested \/ is_collection_enabled)
  /\ UNCHANGED <<flags, userVars, stwMutex, wpc, visited, juliaVars>>

\* if instead of while: the thread does not test BLOCK_FOR_GC again.
BlockRelockNoTest(m) ==
  /\ stwMutex = NoThread
  /\ Goto(m, "woken", "return")
  /\ stwMutex' = m
  /\ UNCHANGED <<flags, userVars, workerVars, juliaVars>>

\* The store is forgotten.
ResumeLeavesStopped ==
  /\ wpc = "clearStopped"
  /\ wpc' = "notify"
  /\ UNCHANGED <<flags, userVars, stwMutex, pc, visited, gc_requested, juliaVars>>

-----------------------------------------------------------------------------
(* Mutators asking for a collection.                                       *)

\* mmtk_handle_user_collection_request, up to its load of DISABLED_GC.
UserRequest(m) ==
  /\ Goto(m, "running", "userCheck")
  /\ USER_TRIGGERED_GC < MaxUserRequests
  /\ USER_TRIGGERED_GC' = USER_TRIGGERED_GC + 1
  /\ UNCHANGED <<flags, DISABLED_GC, stwMutex, workerVars, juliaVars>>

UserRequestDisabled(m) ==
  /\ DISABLED_GC
  /\ Goto(m, "userCheck", "running")
  /\ USER_TRIGGERED_GC' = USER_TRIGGERED_GC - 1
  /\ UNCHANGED <<flags, DISABLED_GC, stwMutex, workerVars, juliaVars>>

UserRequestAllowed(m) ==
  /\ ~DISABLED_GC
  /\ Goto(m, "userCheck", "userRequest")
  /\ UNCHANGED <<flags, userVars, stwMutex, workerVars, juliaVars>>

\* The three kinds of jl_gc_collection_t.  "full" and "incremental" are
\* forced; "auto" is dropped by MMTk core when Julia has disabled the GC.
CollectionKinds == {"auto", "full", "incremental"}

CollectOnUserRequest(m) ==
  /\ \E kind \in CollectionKinds :
       IF kind = "auto" /\ ~is_collection_enabled
       THEN /\ Goto(m, "userRequest", "running")
            /\ UNCHANGED gc_requested
       ELSE /\ Goto(m, "userRequest", "prepare")
            /\ gc_requested' = TRUE
  /\ UNCHANGED <<flags, userVars, stwMutex, wpc, visited, juliaVars>>

\* mmtk_gc_poll, and the slow path of an allocation, find the heap full.
GCPoll(m) ==
  /\ is_collection_enabled
  /\ Goto(m, "running", "prepare")
  /\ gc_requested' = TRUE
  /\ UNCHANGED <<flags, userVars, stwMutex, wpc, visited, juliaVars>>

-----------------------------------------------------------------------------
(* Julia's side of a pause: block_for_gc calls jl_gc_prepare_to_collect.   *)

\* The GC is disabled: the thread goes on without a collection.
PrepareDisabled(m) ==
  /\ jl_gc_disabled
  /\ Goto(m, "prepare", "running")
  /\ UNCHANGED <<flags, userVars, stwMutex, workerVars, juliaVars>>

\* The thread wins the election and will stop the others.
PrepareElected(m) ==
  /\ ~jl_gc_disabled
  /\ jl_gc_running = NoThread
  /\ Goto(m, "prepare", "stopping")
  /\ jl_gc_running' = m
  /\ UNCHANGED <<flags, userVars, stwMutex, workerVars, jl_gc_disabled>>

\* Another thread won it: wait like any thread at a safepoint.
PrepareLost(m) ==
  /\ ~jl_gc_disabled
  /\ jl_gc_running # NoThread
  /\ Goto(m, "prepare", "safepoint")
  /\ UNCHANGED <<flags, userVars, stwMutex, workerVars, juliaVars>>

Safepoint(m) ==
  /\ jl_gc_running # NoThread
  /\ Goto(m, "running", "safepoint")
  /\ UNCHANGED <<flags, userVars, stwMutex, workerVars, juliaVars>>

LeaveSafepoint(m) ==
  /\ jl_gc_running = NoThread
  /\ Goto(m, "safepoint", "running")
  /\ UNCHANGED <<flags, userVars, stwMutex, workerVars, juliaVars>>

\* All other threads have stopped.  The disable counter is read again.
WorldStopped(m) ==
  /\ \A n \in Mutators \ {m} : pc[n] = "safepoint"
  /\ Goto(m, "stopping", IF jl_gc_disabled THEN "endGC" ELSE "block")
  /\ UNCHANGED <<flags, userVars, stwMutex, workerVars, juliaVars>>

\* jl_safepoint_end_gc: the threads at a safepoint may go on.
EndGC(m) ==
  /\ Goto(m, "endGC", "running")
  /\ jl_gc_running' = NoThread
  /\ UNCHANGED <<flags, userVars, stwMutex, workerVars, jl_gc_disabled>>

\* GC.enable, and C code writing the exported DISABLED_GC.
SetGCEnabled(m) ==
  /\ pc[m] = "running"
  /\ jl_gc_disabled' = ~jl_gc_disabled
  /\ UNCHANGED <<flags, userVars, stwMutex, pc, workerVars, jl_gc_running>>

SetDisabledGC(m) ==
  /\ pc[m] = "running"
  /\ DISABLED_GC' = ~DISABLED_GC
  /\ UNCHANGED <<flags, USER_TRIGGERED_GC, stwMutex, pc, workerVars, juliaVars>>

-----------------------------------------------------------------------------
(* mmtk_block_thread_for_gc, called by the elected thread.                 *)

BlockStore(m) ==
  /\ Goto(m, "block", "lock")
  /\ BLOCK_FOR_GC' = TRUE
  /\ UNCHANGED <<WORLD_HAS_STOPPED, userVars, stwMutex, workerVars, juliaVars>>

BlockLock(m) ==
  /\ stwMutex = NoThread
  /\ Goto(m, "lock", "announce")
  /\ stwMutex' = m
  /\ UNCHANGED <<flags, userVars, workerVars, juliaVars>>

BlockAnnounce(m) ==
  /\ Goto(m, "announce", "test")
  /\ WORLD_HAS_STOPPED' = TRUE
  /\ UNCHANGED <<BLOCK_FOR_GC, userVars, stwMutex, workerVars, juliaVars>>

\* The loop condition.
BlockTest(m) ==
  /\ Goto(m, "test", IF BLOCK_FOR_GC THEN "enterWait" ELSE "return")
  /\ UNCHANGED <<flags, userVars, stwMutex, workerVars, juliaVars>>

\* Condvar::wait releases the mutex and parks the thread in one step.
BlockWait(m) ==
  /\ Goto(m, "enterWait", "waiting")
  /\ stwMutex' = NoThread
  /\ UNCHANGED <<flags, userVars, workerVars, juliaVars>>

SpuriousWakeup(m) ==
  /\ SpuriousWakeups
  /\ Goto(m, "waiting", "woken")
  /\ UNCHANGED <<flags, userVars, stwMutex, workerVars, juliaVars>>

BlockRelock(m) ==
  /\ stwMutex = NoThread
  /\ Goto(m, "woken", "test")
  /\ stwMutex' = m
  /\ UNCHANGED <<flags, userVars, workerVars, juliaVars>>

\* The store after the loop; the guard is dropped on return.
BlockReturn(m) ==
  /\ Goto(m, "return", "endGC")
  /\ USER_TRIGGERED_GC' = 0
  /\ stwMutex' = NoThread
  /\ UNCHANGED <<flags, DISABLED_GC, workerVars, juliaVars>>

-----------------------------------------------------------------------------
(* The GC worker.                                                          *)

\* MMTk core schedules the collection and enters stop_all_mutators.
WorkerStart ==
  /\ wpc = "idle"
  /\ gc_requested
  /\ wpc' = "spin"
  /\ UNCHANGED <<flags, userVars, stwMutex, pc, visited, gc_requested, juliaVars>>

WorkerSeesStop ==
  /\ wpc = "spin"
  /\ WORLD_HAS_STOPPED
  /\ wpc' = "visit"
  /\ visited' = {}
  /\ UNCHANGED <<flags, userVars, stwMutex, pc, gc_requested, juliaVars>>

VisitMutator(m) ==
  /\ wpc = "visit"
  /\ m \notin visited
  /\ visited' = visited \cup {m}
  /\ UNCHANGED <<flags, userVars, stwMutex, pc, wpc, gc_requested, juliaVars>>

\* stop_all_mutators returns; MMTk core clears the request.
MutatorsPaused ==
  /\ wpc = "visit"
  /\ visited = Mutators
  /\ wpc' = "collect"
  /\ gc_requested' = FALSE
  /\ UNCHANGED <<flags, userVars, stwMutex, pc, visited, juliaVars>>

\* The collection ends and resume_mutators is called.
FinishCollection ==
  /\ wpc = "collect"
  /\ wpc' = "clearBlock"
  /\ UNCHANGED <<flags, userVars, stwMutex, pc, visited, gc_requested, juliaVars>>

ResumeClearBlock ==
  /\ wpc = "clearBlock"
  /\ wpc' = "clearStopped"
  /\ BLOCK_FOR_GC' = FALSE
  /\ UNCHANGED <<WORLD_HAS_STOPPED, userVars, stwMutex, pc, visited,
                 gc_requested, juliaVars>>

ResumeClearStopped ==
  /\ wpc = "clearStopped"
  /\ wpc' = "notify"
  /\ WORLD_HAS_STOPPED' = FALSE
  /\ UNCHANGED <<BLOCK_FOR_GC, userVars, stwMutex, pc, visited,
                 gc_requested, juliaVars>>

\* notify_all, without taking the mutex.
ResumeNotify ==
  /\ wpc = "notify"
  /\ wpc' = "idle"
  /\ pc' = [m \in Mutators |-> IF pc[m] = "waiting" THEN "woken" ELSE pc[m]]
  /\ UNCHANGED <<flags, userVars, stwMutex, visited, gc_requested, juliaVars>>

-----------------------------------------------------------------------------
\* A thread asks for, or switches off, collections of its own will.
Ask(m) == UserRequest(m) \/ GCPoll(m) \/ SetGCEnabled(m) \/ SetDisabledGC(m)

UserCall(m) == \/ UserRequestDisabled(m) \/ UserRequestAllowed(m)
               \/ CollectOnUserRequest(m)

JuliaPause(m) == \/ PrepareDisabled(m) \/ PrepareElected(m) \/ PrepareLost(m)
                 \/ Safepoint(m) \/ LeaveSafepoint(m)
                 \/ WorldStopped(m) \/ EndGC(m)

BlockThreadForGC(m) == \/ BlockStore(m) \/ BlockLock(m) \/ BlockAnnounce(m)
                       \/ BlockTest(m) \/ BlockWait(m) \/ BlockRelock(m)
                       \/ BlockReturn(m)

Worker == \/ WorkerStart \/ WorkerSeesStop
          \/ \E m \in Mutators : VisitMutator(m)
          \/ MutatorsPaused \/ FinishCollection
          \/ ResumeClearBlock \/ ResumeClearStopped \/ ResumeNotify

Next == \/ \E m \in Mutators : \/ Ask(m) \/ UserCall(m) \/ JuliaPause(m)
                               \/ BlockThreadForGC(m) \/ SpuriousWakeup(m)
        \/ Worker

Spec == Init /\ [][Next]_vars

\* A thread that has a step to take is scheduled, and one that runs Julia
\* code polls its safepoint.  Nobody has to ask for a collection, and nobody
\* is owed a spurious wakeup.
Fairness == /\ \A m \in Mutators : /\ WF_vars(UserCall(m))
                                   /\ WF_vars(JuliaPause(m))
                                   /\ WF_vars(BlockThreadForGC(m))
            /\ WF_vars(Worker)

FairSpec == Spec /\ Fairness
-----------------------------------------------------------------------------
(* Properties.                                                             *)

\* The statics, locks and control points hold values of their kind; in
\* particular the isize USER_TRIGGERED_GC never goes below zero, although
\* api.rs adds, tests and subtracts in separate steps.
TypeOK ==
  /\ BLOCK_FOR_GC \in BOOLEAN
  /\ WORLD_HAS_STOPPED \in BOOLEAN
  /\ DISABLED_GC \in BOOLEAN
  /\ USER_TRIGGERED_GC \in 0 .. MaxUserRequests
  /\ stwMutex \in Mutators \cup {NoThread}
  /\ pc \in [Mutators -> MutatorPC]
  /\ wpc \in WorkerPC
  /\ visited \subseteq Mutators
  /\ gc_requested \in BOOLEAN
  /\ jl_gc_running \in Mutators \cup {NoThread}
  /\ jl_gc_disabled \in BOOLEAN

\* While the worker visits the mutators or collects, every thread is at a
\* safepoint or inside the wait loop of mmtk_block_thread_for_gc.  The worker
\* trusts one flag for this, WORLD_HAS_STOPPED, which outlives the pause it
\* was set for if resume_mutators does not clear it in time.
CollectOnlyStopped ==
  wpc \in Collecting => \A m \in Mutators : pc[m] \in Parking \cup {"safepoint"}

\* Why CollectOnlyStopped holds: the thread that Julia elected is alone in
\* the pause, it sets BLOCK_FOR_GC before it announces the stop, and from then
\* until resume_mutators clears BLOCK_FOR_GC it cannot leave the wait loop;
\* WORLD_HAS_STOPPED is stale only between the two stores of resume_mutators.
OneElected == \A m \in Mutators : pc[m] \in Elected <=> jl_gc_running = m

WorldIsHeld ==
  \A m \in Mutators : pc[m] \in {"block"} \cup InBlockFn =>
                        \A n \in Mutators \ {m} : pc[n] = "safepoint"

BlockedBeforeStopped ==
  \A m \in Mutators : pc[m] \in {"lock", "announce"} => BLOCK_FOR_GC

ReturnsUnblocked == \A m \in Mutators : pc[m] = "return" => ~BLOCK_FOR_GC

StoppedIsParked ==
  WORLD_HAS_STOPPED /\ wpc # "clearStopped" =>
    BLOCK_FOR_GC /\ \E m \in Mutators : pc[m] \in Parking

PauseInv == /\ OneElected
            /\ WorldIsHeld
            /\ BlockedBeforeStopped
            /\ ReturnsUnblocked
            /\ StoppedIsParked
            /\ wpc \in Collecting => WORLD_HAS_STOPPED

\* A thread that goes to block for a GC has a request pending in MMTk core
\* until the worker takes it up, so it never waits for a collection that
\* nobody will run.  Requests made while one is pending are merged with it,
\* and the flag is cleared in the middle of a pause.
BlockedHasRequest ==
  \A m \in Mutators :
    pc[m] \in {"prepare", "stopping", "block", "lock", "announce"} => gc_requested

\* The threads between the fetch_add of a user request and its load of
\* DISABLED_GC: the ones that may still subtract.
AtUserCheck == {m \in Mutators : pc[m] = "userCheck"}

\* Every user request between its fetch_add and its load of DISABLED_GC is
\* counted in USER_TRIGGERED_GC: the reset at the end of a pause forgets none.
UserRequestsCounted == USER_TRIGGERED_GC >= Cardinality(AtUserCheck)

\* A thread parked on STW_COND is waiting for a GC that is not over, or the
\* worker is still going to notify it.
NoStrandedWaiter ==
  \A m \in Mutators :
    pc[m] = "waiting" => \/ BLOCK_FOR_GC
                         \/ wpc \in {"clearBlock", "clearStopped", "notify"}

\* stop_all_mutators spins while the world has not stopped: once a thread has
\* announced the stop and waits for the collection, the worker goes on.
StopIsSeen ==
  (wpc = "spin" /\ BLOCK_FOR_GC /\ \E m \in Mutators : pc[m] \in Parking)
    ~> (wpc = "visit")

-----------------------------------------------------------------------------
(* The handshake implements the pauses of GCPause.                         *)

SomeInBlockFn == \E m \in Mutators : pc[m] \in InBlockFn

PausePhase == IF ~SomeInBlockFn THEN "mutating"
              ELSE IF wpc \in Collecting THEN "collecting"
              ELSE IF BLOCK_FOR_GC THEN "blocked" ELSE "done"

Active == {m \in Mutators : pc[m] \in InJulia}

Pause == INSTANCE GCPause WITH phase <- PausePhase, active <- Active

\* Each return from mmtk_block_thread_for_gc follows a collection that began
\* after the call, and Julia code runs in no pause (GCPause).
ImplementsPause == Pause!PauseSpec
=============================================================================
