------------------------ MODULE StopTheWorldProofs ------------------------
(***************************************************************************)
(* What the stop-the-world handshake guarantees for any number of threads  *)
(* and any bound on the user requests.  The inductive invariant is         *)
(* SafetyInv: the types, the control state of the pause (PauseInv) and the *)
(* count of user requests.                                                 *)
(***************************************************************************)
EXTENDS StopTheWorld, FiniteSetTheorems, TLAPS

-----------------------------------------------------------------------------
(* Types.  USER_TRIGGERED_GC stays at or above zero only because every     *)
(* thread that may still subtract is counted.                              *)

\* AtUserCheck is finite, so its cardinality is a number, which is positive
\* as soon as one thread is at the check.
LEMMA UserCheckCount ==
  ASSUME StopTheWorldAssumption
  PROVE  /\ IsFiniteSet(AtUserCheck)
         /\ Cardinality(AtUserCheck) \in Nat
         /\ AtUserCheck # {} => Cardinality(AtUserCheck) >= 1
<1>1. IsFiniteSet(AtUserCheck)
  BY FS_Subset, AtUserCheck \subseteq Mutators DEF AtUserCheck, StopTheWorldAssumption
<1>2. Cardinality(AtUserCheck) \in Nat
  BY <1>1, FS_CardinalityType
<1>3. AtUserCheck # {} => Cardinality(AtUserCheck) # 0
  BY <1>1, FS_EmptySet
<1> QED
  BY <1>1, <1>2, <1>3

\* Adding one element to a set adds at most one to its cardinality, removing
\* one of its elements takes one away.
LEMMA CountAdd ==
  ASSUME NEW S, IsFiniteSet(S), NEW x
  PROVE  /\ Cardinality(S \cup {x}) \in Nat
         /\ Cardinality(S \cup {x}) <= Cardinality(S) + 1
<1>1. Cardinality(S) \in Nat
  BY FS_CardinalityType
<1>2. Cardinality(S \cup {x}) = IF x \in S THEN Cardinality(S) ELSE Cardinality(S) + 1
  BY FS_AddElement
<1> QED
  BY <1>1, <1>2

LEMMA CountRemove ==
  ASSUME NEW S, IsFiniteSet(S), NEW x \in S
  PROVE  Cardinality(S \ {x}) = Cardinality(S) - 1
BY FS_RemoveElement

\* The actions that leave the set of these threads, USER_TRIGGERED_GC and the
\* locks of the user request alone.
OtherMutatorStep(m) ==
  \/ CollectOnUserRequest(m) \/ GCPoll(m) \/ JuliaPause(m) \/ SetGCEnabled(m)
  \/ SetDisabledGC(m) \/ BlockStore(m) \/ BlockLock(m) \/ BlockAnnounce(m)
  \/ BlockTest(m) \/ BlockWait(m) \/ BlockRelock(m) \/ SpuriousWakeup(m)

\* None of them changes who is at the check, or the count.
LEMMA OtherMutatorStepCount ==
  ASSUME TypeOK, NEW m \in Mutators, OtherMutatorStep(m)
  PROVE  AtUserCheck' = AtUserCheck /\ USER_TRIGGERED_GC' = USER_TRIGGERED_GC
<1> USE DEF TypeOK, AtUserCheck, Goto, userVars, flags, workerVars, juliaVars
<1>1. CASE CollectOnUserRequest(m) \/ GCPoll(m) \/ SetGCEnabled(m) \/ SetDisabledGC(m)
  BY <1>1 DEF CollectOnUserRequest, GCPoll, SetGCEnabled, SetDisabledGC
<1>2. CASE JuliaPause(m)
  BY <1>2 DEF JuliaPause, PrepareDisabled, PrepareElected, PrepareLost, Safepoint,
              LeaveSafepoint, WorldStopped, EndGC
<1>3. CASE BlockStore(m) \/ BlockLock(m) \/ BlockAnnounce(m) \/ BlockTest(m)
  BY <1>3 DEF BlockStore, BlockLock, BlockAnnounce, BlockTest
<1>4. CASE BlockWait(m) \/ BlockRelock(m) \/ SpuriousWakeup(m)
  BY <1>4 DEF BlockWait, BlockRelock, SpuriousWakeup
<1> QED
  BY <1>1, <1>2, <1>3, <1>4 DEF OtherMutatorStep

\* Nor does the worker.
LEMMA WorkerStepCount ==
  ASSUME TypeOK, Worker
  PROVE  AtUserCheck' = AtUserCheck /\ USER_TRIGGERED_GC' = USER_TRIGGERED_GC
<1> USE DEF TypeOK, AtUserCheck, userVars, flags, workerVars, juliaVars
<1>1. CASE ResumeNotify
  BY <1>1 DEF ResumeNotify
<1>2. CASE ~ResumeNotify
  BY <1>2 DEF Worker, WorkerStart, WorkerSeesStop, VisitMutator, MutatorsPaused,
              FinishCollection, ResumeClearBlock, ResumeClearStopped
<1> QED
  BY <1>1, <1>2

\* The count covers the threads at the check after every step.
LEMMA CountStep ==
  ASSUME StopTheWorldAssumption, TypeOK, WorldIsHeld, UserRequestsCounted, Next
  PROVE  UserRequestsCounted' /\ USER_TRIGGERED_GC' >= 0
<1> USE DEF UserRequestsCounted
<1>0. /\ USER_TRIGGERED_GC \in Nat
      /\ IsFiniteSet(AtUserCheck)
      /\ Cardinality(AtUserCheck) \in Nat
      /\ AtUserCheck # {} => Cardinality(AtUserCheck) >= 1
  BY UserCheckCount DEF TypeOK, StopTheWorldAssumption
<1>1. ASSUME NEW m \in Mutators, UserRequest(m)
      PROVE  UserRequestsCounted' /\ USER_TRIGGERED_GC' >= 0
  <2>1. AtUserCheck' = AtUserCheck \cup {m}
    BY <1>1 DEF UserRequest, Goto, TypeOK, AtUserCheck
  <2>2. /\ Cardinality(AtUserCheck \cup {m}) \in Nat
        /\ Cardinality(AtUserCheck \cup {m}) <= Cardinality(AtUserCheck) + 1
    BY <1>0, CountAdd, Zenon
  <2>3. USER_TRIGGERED_GC' = USER_TRIGGERED_GC + 1
    BY <1>1 DEF UserRequest
  <2> QED
    BY <1>0, <2>1, <2>2, <2>3
<1>2. ASSUME NEW m \in Mutators, UserRequestDisabled(m) \/ UserRequestAllowed(m)
      PROVE  UserRequestsCounted' /\ USER_TRIGGERED_GC' >= 0
  <2>1. AtUserCheck' = AtUserCheck \ {m} /\ m \in AtUserCheck
    BY <1>2 DEF UserRequestDisabled, UserRequestAllowed, Goto, TypeOK, AtUserCheck
  <2>2. Cardinality(AtUserCheck \ {m}) = Cardinality(AtUserCheck) - 1
    BY <1>0, <2>1, CountRemove, Zenon
  <2>3. USER_TRIGGERED_GC' >= USER_TRIGGERED_GC - 1
    BY <1>0, <1>2 DEF UserRequestDisabled, UserRequestAllowed, userVars
  <2>4. USER_TRIGGERED_GC' \in Int
    BY <1>0, <1>2 DEF UserRequestDisabled, UserRequestAllowed, userVars
  <2> QED
    BY <1>0, <2>1, <2>2, <2>3, <2>4
<1>3. ASSUME NEW m \in Mutators, BlockReturn(m)
      PROVE  UserRequestsCounted' /\ USER_TRIGGERED_GC' >= 0
  <2>1. AtUserCheck' = {}
    BY <1>3 DEF BlockReturn, Goto, TypeOK, AtUserCheck, WorldIsHeld, InBlockFn
  <2>2. Cardinality(AtUserCheck') = 0
    BY <2>1, FS_EmptySet
  <2> QED
    BY <2>2, <1>3 DEF BlockReturn
<1>4. ASSUME NEW m \in Mutators, OtherMutatorStep(m)
      PROVE  UserRequestsCounted' /\ USER_TRIGGERED_GC' >= 0
  BY <1>0, <1>4, OtherMutatorStepCount
<1>5. CASE Worker
  BY <1>0, <1>5, WorkerStepCount
<1> QED
  BY <1>1, <1>2, <1>3, <1>4, <1>5
  DEF Next, Ask, UserCall, BlockThreadForGC, OtherMutatorStep

\* A step of the threads keeps the types; the lower bound of the counter comes
\* from CountStep.
LEMMA TypeStep ==
  ASSUME StopTheWorldAssumption, TypeOK, WorldIsHeld, UserRequestsCounted, [Next]_vars
  PROVE  TypeOK'
<1>0. CASE Next
  <2>1. USER_TRIGGERED_GC' >= 0
    BY <1>0, CountStep
  <2> USE <2>1 DEF TypeOK, StopTheWorldAssumption, Goto, flags, userVars, workerVars,
                   juliaVars, MutatorPC, InJulia, Elected, InBlockFn, Parking, WorkerPC
  <2>2. ASSUME NEW m \in Mutators, Ask(m) PROVE TypeOK'
    <3>1. CASE UserRequest(m)
      BY <3>1 DEF UserRequest
    <3>2. CASE GCPoll(m)
      BY <3>2 DEF GCPoll
    <3>3. CASE SetGCEnabled(m) \/ SetDisabledGC(m)
      BY <3>3 DEF SetGCEnabled, SetDisabledGC
    <3> QED
      BY <2>2, <3>1, <3>2, <3>3 DEF Ask
  <2>3. ASSUME NEW m \in Mutators, UserCall(m) PROVE TypeOK'
    <3>1. CASE UserRequestDisabled(m)
      BY <3>1 DEF UserRequestDisabled
    <3>2. CASE UserRequestAllowed(m)
      BY <3>2 DEF UserRequestAllowed
    <3>3. CASE CollectOnUserRequest(m)
      BY <3>3 DEF CollectOnUserRequest
    <3> QED
      BY <2>3, <3>1, <3>2, <3>3 DEF UserCall
  <2>4. ASSUME NEW m \in Mutators, JuliaPause(m) PROVE TypeOK'
    <3>1. CASE PrepareDisabled(m) \/ PrepareElected(m) \/ PrepareLost(m)
      BY <3>1 DEF PrepareDisabled, PrepareElected, PrepareLost
    <3>2. CASE Safepoint(m) \/ LeaveSafepoint(m)
      BY <3>2 DEF Safepoint, LeaveSafepoint
    <3>3. CASE WorldStopped(m) \/ EndGC(m)
      BY <3>3 DEF WorldStopped, EndGC
    <3> QED
      BY <2>4, <3>1, <3>2, <3>3 DEF JuliaPause
  <2>5. ASSUME NEW m \in Mutators, BlockThreadForGC(m) PROVE TypeOK'
    <3>1. CASE BlockStore(m)
      BY <3>1 DEF BlockStore
    <3>2. CASE BlockLock(m) \/ BlockRelock(m)
      BY <3>2 DEF BlockLock, BlockRelock
    <3>3. CASE BlockAnnounce(m)
      BY <3>3 DEF BlockAnnounce
    <3>4. CASE BlockTest(m)
      BY <3>4 DEF BlockTest
    <3>5. CASE BlockWait(m)
      BY <3>5 DEF BlockWait
    <3>6. CASE BlockReturn(m)
      BY <3>6 DEF BlockReturn
    <3> QED
      BY <2>5, <3>1, <3>2, <3>3, <3>4, <3>5, <3>6 DEF BlockThreadForGC
  <2>6. ASSUME NEW m \in Mutators, SpuriousWakeup(m) PROVE TypeOK'
    BY <2>6 DEF SpuriousWakeup
  <2>7. CASE Worker
    <3>1. CASE ResumeNotify
      BY <3>1 DEF ResumeNotify
    <3>2. CASE ~ResumeNotify
      BY <2>7, <3>2 DEF Worker, WorkerStart, WorkerSeesStop, VisitMutator, MutatorsPaused,
                        FinishCollection, ResumeClearBlock, ResumeClearStopped
    <3> QED
      BY <3>1, <3>2
  <2> QED
    BY <1>0, <2>2, <2>3, <2>4, <2>5, <2>6, <2>7 DEF Next
<1>1. CASE UNCHANGED vars
  BY <1>1 DEF TypeOK, vars, flags, userVars, workerVars, juliaVars
<1> QED
  BY <1>0, <1>1

-----------------------------------------------------------------------------
(* The pause.                                                              *)

\* Every step keeps PauseInv.
LEMMA PauseStep ==
  ASSUME StopTheWorldAssumption, TypeOK, PauseInv, [Next]_vars
  PROVE  PauseInv'
<1> USE DEF TypeOK, PauseInv, OneElected, WorldIsHeld, BlockedBeforeStopped,
            ReturnsUnblocked, StoppedIsParked, StopTheWorldAssumption, Goto, Collecting, WorkerPC,
            Elected, InBlockFn, Parking, flags, userVars, workerVars, juliaVars
<1>1. ASSUME NEW m \in Mutators, Ask(m) PROVE PauseInv'
  BY <1>1 DEF Ask, UserRequest, GCPoll, SetGCEnabled, SetDisabledGC
<1>2. ASSUME NEW m \in Mutators, UserCall(m) PROVE PauseInv'
  BY <1>2 DEF UserCall, UserRequestDisabled, UserRequestAllowed, CollectOnUserRequest
<1>3. ASSUME NEW m \in Mutators, JuliaPause(m) PROVE PauseInv'
  <2>1. CASE PrepareDisabled(m) \/ PrepareElected(m) \/ PrepareLost(m)
    BY <2>1 DEF PrepareDisabled, PrepareElected, PrepareLost
  <2>2. CASE Safepoint(m) \/ LeaveSafepoint(m)
    BY <2>2 DEF Safepoint, LeaveSafepoint
  <2>3. CASE WorldStopped(m)
    BY <2>3 DEF WorldStopped
  <2>4. CASE EndGC(m)
    BY <2>4 DEF EndGC
  <2> QED
    BY <1>3, <2>1, <2>2, <2>3, <2>4 DEF JuliaPause
<1>4. ASSUME NEW m \in Mutators, BlockThreadForGC(m) PROVE PauseInv'
  <2>1. CASE BlockStore(m) \/ BlockLock(m)
    BY <2>1 DEF BlockStore, BlockLock
  <2>2. CASE BlockAnnounce(m)
    BY <2>2 DEF BlockAnnounce
  <2>3. CASE BlockTest(m)
    BY <2>3 DEF BlockTest
  <2>4. CASE BlockWait(m) \/ BlockRelock(m)
    BY <2>4 DEF BlockWait, BlockRelock
  <2>5. CASE BlockReturn(m)
    BY <2>5 DEF BlockReturn
  <2> QED
    BY <1>4, <2>1, <2>2, <2>3, <2>4, <2>5 DEF BlockThreadForGC
<1>5. ASSUME NEW m \in Mutators, SpuriousWakeup(m) PROVE PauseInv'
  BY <1>5 DEF SpuriousWakeup
<1>6. CASE Worker
  <2>1. CASE ResumeNotify
    BY <2>1 DEF ResumeNotify
  <2>2. CASE ~ResumeNotify
    BY <1>6, <2>2 DEF Worker, WorkerStart, WorkerSeesStop, VisitMutator, MutatorsPaused,
                      FinishCollection, ResumeClearBlock, ResumeClearStopped
  <2> QED
    BY <2>1, <2>2
<1>7. CASE UNCHANGED vars
  BY <1>7 DEF vars
<1> QED
  BY <1>1, <1>2, <1>3, <1>4, <1>5, <1>6, <1>7 DEF Next

\* Every step keeps the promise that a thread on its way to block has a
\* request pending: the flag is cleared only while everybody is parked.
LEMMA RequestStep ==
  ASSUME StopTheWorldAssumption, TypeOK, PauseInv, BlockedHasRequest, [Next]_vars
  PROVE  BlockedHasRequest'
<1> USE DEF TypeOK, BlockedHasRequest, Goto, flags, userVars, workerVars, juliaVars
<1>1. ASSUME NEW m \in Mutators, Ask(m) PROVE BlockedHasRequest'
  BY <1>1 DEF Ask, UserRequest, GCPoll, SetGCEnabled, SetDisabledGC
<1>2. ASSUME NEW m \in Mutators, UserCall(m) PROVE BlockedHasRequest'
  BY <1>2 DEF UserCall, UserRequestDisabled, UserRequestAllowed, CollectOnUserRequest
<1>3. ASSUME NEW m \in Mutators, JuliaPause(m) PROVE BlockedHasRequest'
  BY <1>3 DEF JuliaPause, PrepareDisabled, PrepareElected, PrepareLost, Safepoint,
              LeaveSafepoint, WorldStopped, EndGC
<1>4. ASSUME NEW m \in Mutators, BlockThreadForGC(m) \/ SpuriousWakeup(m)
      PROVE  BlockedHasRequest'
  BY <1>4 DEF BlockThreadForGC, BlockStore, BlockLock, BlockAnnounce, BlockTest,
              BlockWait, BlockRelock, BlockReturn, SpuriousWakeup
<1>5. CASE MutatorsPaused
  <2>1. \A m \in Mutators : pc[m] \in Parking \cup {"safepoint"}
    BY <1>5 DEF MutatorsPaused, PauseInv, StoppedIsParked, WorldIsHeld, InBlockFn,
                Collecting
  <2> QED
    BY <1>5, <2>1 DEF MutatorsPaused, Parking
<1>6. CASE Worker /\ ~MutatorsPaused
  BY <1>6 DEF Worker, WorkerStart, WorkerSeesStop, VisitMutator, FinishCollection,
              ResumeClearBlock, ResumeClearStopped, ResumeNotify
<1>7. CASE UNCHANGED vars
  BY <1>7 DEF vars
<1> QED
  BY <1>1, <1>2, <1>3, <1>4, <1>5, <1>6, <1>7 DEF Next

-----------------------------------------------------------------------------
(* The invariants of the specification.                                    *)

SafetyInv == TypeOK /\ PauseInv /\ UserRequestsCounted /\ BlockedHasRequest

\* The conjunction of the invariants is inductive.
THEOREM SafetyInvariant == Spec => []SafetyInv
<1>1. Init => SafetyInv
  <2> SUFFICES ASSUME Init PROVE SafetyInv
    OBVIOUS
  <2> USE StopTheWorldAssumption DEF Init, StopTheWorldAssumption
  <2>1. TypeOK
    <3>1. pc \in [Mutators -> MutatorPC]
      BY DEF MutatorPC, InJulia
    <3>2. USER_TRIGGERED_GC \in 0 .. MaxUserRequests
      OBVIOUS
    <3> QED
      BY <3>1, <3>2 DEF TypeOK, WorkerPC
  <2>2. PauseInv
    BY DEF PauseInv, OneElected, WorldIsHeld, BlockedBeforeStopped, ReturnsUnblocked,
           StoppedIsParked, Elected, InBlockFn, Parking, Collecting
  <2>3. AtUserCheck = {}
    BY DEF AtUserCheck
  <2>4. UserRequestsCounted
    BY <2>3, FS_EmptySet DEF UserRequestsCounted
  <2>5. BlockedHasRequest
    BY DEF BlockedHasRequest
  <2> QED
    BY <2>1, <2>2, <2>4, <2>5 DEF SafetyInv
<1>2. SafetyInv /\ [Next]_vars => SafetyInv'
  <2> SUFFICES ASSUME SafetyInv, [Next]_vars PROVE SafetyInv'
    OBVIOUS
  <2> USE StopTheWorldAssumption DEF SafetyInv
  <2>1. TypeOK'
    BY TypeStep DEF PauseInv
  <2>2. PauseInv'
    BY PauseStep
  <2>3. UserRequestsCounted'
    <3>1. CASE Next
      BY <3>1, CountStep DEF PauseInv
    <3>2. CASE UNCHANGED vars
      BY <3>2 DEF UserRequestsCounted, AtUserCheck, vars, userVars
    <3> QED
      BY <3>1, <3>2
  <2>4. BlockedHasRequest'
    BY RequestStep
  <2> QED
    BY <2>1, <2>2, <2>3, <2>4
<1> QED
  BY <1>1, <1>2, PTL DEF Spec

\* The statics, locks and control points always hold values of their kind.
THEOREM TypeCorrect == Spec => []TypeOK
<1>1. SafetyInv => TypeOK
  BY DEF SafetyInv
<1> QED
  BY <1>1, SafetyInvariant, PTL

\* The worker never looks at the mutators, or collects, while a thread runs.
THEOREM CollectsOnlyStoppedWorld == Spec => []CollectOnlyStopped
<1>1. SafetyInv => CollectOnlyStopped
  BY DEF SafetyInv, PauseInv, StoppedIsParked, WorldIsHeld, CollectOnlyStopped, InBlockFn,
         Collecting
<1> QED
  BY <1>1, SafetyInvariant, PTL

\* One thread is elected, it holds the others, and WORLD_HAS_STOPPED is true
\* only while it waits or the worker is about to clear it.
THEOREM PauseIsControlled == Spec => []PauseInv
<1>1. SafetyInv => PauseInv
  BY DEF SafetyInv
<1> QED
  BY <1>1, SafetyInvariant, PTL

\* No thread blocks for a collection that nobody requested.
THEOREM NoBlockWithoutRequest == Spec => []BlockedHasRequest
<1>1. SafetyInv => BlockedHasRequest
  BY DEF SafetyInv
<1> QED
  BY <1>1, SafetyInvariant, PTL

\* USER_TRIGGERED_GC covers every thread that may still subtract from it.
THEOREM UserRequestsAreCounted == Spec => []UserRequestsCounted
<1>1. SafetyInv => UserRequestsCounted
  BY DEF SafetyInv
<1> QED
  BY <1>1, SafetyInvariant, PTL

-----------------------------------------------------------------------------
(* The handshake implements GCPause.                                       *)

\* A step that keeps the phase and the threads in Julia code is a stutter.
LEMMA PauseStutter ==
  ASSUME Active' = Active, SomeInBlockFn' = SomeInBlockFn,
         (wpc \in Collecting)' = (wpc \in Collecting), BLOCK_FOR_GC' = BLOCK_FOR_GC
  PROVE  UNCHANGED <<PausePhase, Active>>
BY DEF PausePhase

\* A step of a thread outside mmtk_block_thread_for_gc is a stutter, or the
\* thread parks, or it goes back to Julia code.
LEMMA ParkStep ==
  ASSUME TypeOK, NEW m \in Mutators, NEW to \in MutatorPC \ InBlockFn,
         Goto(m, pc[m], to), ~SomeInBlockFn, UNCHANGED <<flags, wpc>>
  PROVE  UNCHANGED <<PausePhase, Active>> \/ Pause!Park(m) \/ Pause!Unpark(m)
<1>1. pc' = [pc EXCEPT ![m] = to]
  BY DEF Goto
<1>2. ~SomeInBlockFn'
  BY <1>1 DEF SomeInBlockFn, TypeOK
<1>3. PausePhase = "mutating" /\ PausePhase' = "mutating"
  BY <1>2 DEF PausePhase
<1>4. CASE to \in InJulia
  <2>1. Active' = Active \cup {m}
    BY <1>1, <1>4 DEF Active, TypeOK
  <2> QED
    BY <1>3, <2>1 DEF Pause!Unpark
<1>5. CASE to \notin InJulia
  <2>1. Active' = Active \ {m}
    BY <1>1, <1>5 DEF Active, TypeOK
  <2> QED
    BY <1>3, <2>1 DEF Pause!Park
<1> QED
  BY <1>4, <1>5

\* A thread that runs is alone with no pause, by WorldIsHeld; so is one that
\* is elected and has not called mmtk_block_thread_for_gc, or has left it.
LEMMA NobodyBlocks ==
  ASSUME TypeOK, PauseInv, NEW m \in Mutators,
         \/ pc[m] \in InJulia \cup {"stopping", "endGC"}
         \/ jl_gc_running = NoThread /\ NoThread \notin Mutators
  PROVE  ~SomeInBlockFn
BY DEF TypeOK, PauseInv, OneElected, WorldIsHeld, SomeInBlockFn, InJulia, InBlockFn,
       Parking, Elected

\* Every step of the handshake is a step of GCPause or leaves its state alone.
LEMMA PauseRefinementStep ==
  ASSUME StopTheWorldAssumption, TypeOK, PauseInv, [Next]_vars
  PROVE  [Pause!PauseNext]_<<PausePhase, Active>>
<1> USE DEF flags, userVars, workerVars, juliaVars
<1> DEFINE Implements == [Pause!PauseNext]_<<PausePhase, Active>>
<1>1. ASSUME NEW m \in Mutators, Ask(m) \/ UserCall(m) PROVE Implements
  <2>1. CASE SetGCEnabled(m) \/ SetDisabledGC(m)
    BY <2>1, PauseStutter DEF SetGCEnabled, SetDisabledGC, Active, SomeInBlockFn, Collecting
  <2>2. CASE ~(SetGCEnabled(m) \/ SetDisabledGC(m))
    <3>1. \E to \in InJulia : pc[m] \in InJulia /\ Goto(m, pc[m], to)
      BY <1>1, <2>2 DEF Ask, UserCall, UserRequest, GCPoll, UserRequestDisabled,
                        UserRequestAllowed, CollectOnUserRequest, Goto, InJulia
    <3>2. UNCHANGED <<flags, wpc>>
      BY <1>1, <2>2 DEF Ask, UserCall, UserRequest, GCPoll, UserRequestDisabled,
                        UserRequestAllowed, CollectOnUserRequest
    <3> QED
      BY <3>1, <3>2, ParkStep, NobodyBlocks
      DEF MutatorPC, InJulia, InBlockFn, Parking, Pause!PauseNext
  <2> QED
    BY <2>1, <2>2
<1>2. ASSUME NEW m \in Mutators, JuliaPause(m) PROVE Implements
  <2>1. ~SomeInBlockFn
    <3>1. CASE LeaveSafepoint(m)
      BY <3>1, NobodyBlocks DEF LeaveSafepoint, StopTheWorldAssumption
    <3>2. CASE ~LeaveSafepoint(m)
      BY <1>2, <3>2, NobodyBlocks
      DEF JuliaPause, PrepareDisabled, PrepareElected, PrepareLost, Safepoint,
          WorldStopped, EndGC, Goto, InJulia
    <3> QED
      BY <3>1, <3>2
  <2>2. \E to \in MutatorPC \ InBlockFn : Goto(m, pc[m], to)
    BY <1>2 DEF JuliaPause, PrepareDisabled, PrepareElected, PrepareLost, Safepoint,
                LeaveSafepoint, WorldStopped, EndGC, Goto, MutatorPC, InJulia, Elected,
                InBlockFn, Parking
  <2>3. UNCHANGED <<flags, wpc>>
    BY <1>2 DEF JuliaPause, PrepareDisabled, PrepareElected, PrepareLost, Safepoint,
                LeaveSafepoint, WorldStopped, EndGC
  <2> QED
    BY <2>1, <2>2, <2>3, ParkStep DEF Pause!PauseNext
<1>3. ASSUME NEW m \in Mutators, BlockStore(m) PROVE Implements
  <2>1. PausePhase = "mutating"
    BY <1>3 DEF BlockStore, Goto, TypeOK, PauseInv, WorldIsHeld, OneElected, Elected,
                InBlockFn, Parking, SomeInBlockFn, PausePhase
  <2>2. PausePhase' = "blocked"
    BY <1>3 DEF BlockStore, Goto, TypeOK, PauseInv, WorldIsHeld, StoppedIsParked, InBlockFn,
                Parking, SomeInBlockFn, PausePhase, Collecting
  <2>3. Active = {} /\ Active' = {}
    BY <1>3 DEF BlockStore, Goto, TypeOK, PauseInv, WorldIsHeld, Active, InJulia
  <2> QED
    BY <2>1, <2>2, <2>3 DEF Pause!PauseNext, Pause!Block
<1>4. ASSUME NEW m \in Mutators, BlockThreadForGC(m) \/ SpuriousWakeup(m),
             ~BlockStore(m), ~BlockReturn(m)
      PROVE  Implements
  <2>1. pc[m] \in InBlockFn /\ \E to \in InBlockFn : Goto(m, pc[m], to)
    BY <1>4 DEF BlockThreadForGC, BlockLock, BlockAnnounce, BlockTest, BlockWait,
                BlockRelock, SpuriousWakeup, Goto, InBlockFn, Parking
  <2>2. UNCHANGED <<BLOCK_FOR_GC, wpc>>
    BY <1>4 DEF BlockThreadForGC, BlockLock, BlockAnnounce, BlockTest, BlockWait,
                BlockRelock, SpuriousWakeup
  <2>3. SomeInBlockFn /\ SomeInBlockFn'
    BY <2>1 DEF SomeInBlockFn, Goto, TypeOK
  <2>4. Active' = Active
    BY <2>1 DEF Active, Goto, TypeOK, InBlockFn, Parking, InJulia
  <2> QED
    BY <2>2, <2>3, <2>4, PauseStutter DEF Collecting
<1>5. ASSUME NEW m \in Mutators, BlockReturn(m) PROVE Implements
  <2>1. ~BLOCK_FOR_GC /\ wpc \notin Collecting
    BY <1>5 DEF BlockReturn, Goto, PauseInv, ReturnsUnblocked, StoppedIsParked, Collecting
  <2>2. PausePhase = "done"
    BY <1>5, <2>1 DEF BlockReturn, Goto, SomeInBlockFn, InBlockFn, PausePhase
  <2>3. PausePhase' = "mutating"
    BY <1>5 DEF BlockReturn, Goto, TypeOK, PauseInv, WorldIsHeld, InBlockFn, Parking,
                SomeInBlockFn, PausePhase
  <2>4. Active' = Active
    BY <1>5 DEF BlockReturn, Goto, TypeOK, Active, InJulia
  <2> QED
    BY <2>2, <2>3, <2>4 DEF Pause!PauseNext, Pause!Release
<1>6. CASE WorkerSeesStop
  <2>1. SomeInBlockFn /\ BLOCK_FOR_GC
    BY <1>6 DEF WorkerSeesStop, PauseInv, StoppedIsParked, SomeInBlockFn, InBlockFn
  <2>2. PausePhase = "blocked" /\ PausePhase' = "collecting"
    BY <1>6, <2>1 DEF WorkerSeesStop, PausePhase, Collecting, SomeInBlockFn
  <2>3. Active' = Active
    BY <1>6 DEF WorkerSeesStop, Active
  <2> QED
    BY <2>2, <2>3 DEF Pause!PauseNext, Pause!Collect
<1>7. CASE ResumeClearBlock
  <2>1. SomeInBlockFn
    BY <1>7 DEF ResumeClearBlock, PauseInv, StoppedIsParked, SomeInBlockFn, InBlockFn,
                Collecting
  <2>2. PausePhase = "collecting" /\ PausePhase' = "done"
    BY <1>7, <2>1 DEF ResumeClearBlock, PausePhase, Collecting, SomeInBlockFn
  <2>3. Active' = Active
    BY <1>7 DEF ResumeClearBlock, Active
  <2> QED
    BY <2>2, <2>3 DEF Pause!PauseNext, Pause!Finish
<1>8. CASE ResumeNotify
  <2>1. Active' = Active /\ SomeInBlockFn' = SomeInBlockFn
    BY <1>8 DEF ResumeNotify, Active, InJulia, SomeInBlockFn, InBlockFn, Parking, TypeOK
  <2> QED
    BY <1>8, <2>1, PauseStutter DEF ResumeNotify, Collecting
<1>9. CASE Worker /\ ~WorkerSeesStop /\ ~ResumeClearBlock /\ ~ResumeNotify
  <2>1. UNCHANGED <<pc, BLOCK_FOR_GC>> /\ (wpc \in Collecting)' = (wpc \in Collecting)
    BY <1>9 DEF Worker, WorkerStart, VisitMutator, MutatorsPaused, FinishCollection,
                ResumeClearStopped, Collecting
  <2> QED
    BY <2>1, PauseStutter DEF Active, SomeInBlockFn
<1>10. CASE UNCHANGED vars
  BY <1>10, PauseStutter DEF vars, Active, SomeInBlockFn, Collecting
<1> QED
  BY <1>1, <1>2, <1>3, <1>4, <1>5, <1>6, <1>7, <1>8, <1>9, <1>10 DEF Next, BlockThreadForGC

\* Every behaviour of the handshake is a behaviour of GCPause: each return from
\* mmtk_block_thread_for_gc follows a collection made for that call, and no
\* thread runs Julia code between the two.
THEOREM HandshakeImplementsPause == Spec => ImplementsPause
<1>1. Init => Pause!PauseInit
  BY DEF Init, Pause!PauseInit, PausePhase, SomeInBlockFn, Active, InBlockFn, Parking,
         InJulia
<1>2. SafetyInv /\ [Next]_vars => [Pause!PauseNext]_(Pause!pauseVars)
  BY PauseRefinementStep, StopTheWorldAssumption DEF SafetyInv, Pause!pauseVars
<1> QED
  BY <1>1, <1>2, SafetyInvariant, PTL DEF Spec, ImplementsPause, Pause!PauseSpec
=============================================================================
