------------------------ MODULE MutatorRegistryProofs ------------------------
(***************************************************************************)
(* Theorems about the registry of mutators for any threads, visitors and   *)
(* boxes.                                                                  *)
(***************************************************************************)
EXTENDS MutatorRegistry, TLAPS

\* What the map holds of a thread follows from where it is in its life.
Registered ==
  \A t \in Threads :
    /\ pc[t] \in {"none", "boxed", "insert", "inserting"} => MUTATORS[t] = NoBox
    /\ pc[t] \in {"bound", "remove", "freeing"} => MUTATORS[t] = mutator[t]
    /\ pc[t] = "removing" => MUTATORS[t] # NoBox
    /\ mutator[t] = NoBox <=> pc[t] \in {"none", "removing"}

\* At most one thread writes, and none while there is an iterator.
Locked == /\ \A t \in Threads : pc[t] \in Writing <=> writer = t
          /\ writer # NoThread => \A v \in Visitors : ~iter[v]

\* What iterators have returned and will return is the map.
Iterating ==
  \A v \in Visitors : IF iter[v] THEN vec[v] \cup returned[v] = keys
                                 ELSE vec[v] \cup returned[v] = {}

\* The properties need each other: an iterator is right because the lock
\* keeps writers out, and its mutators live because only a writer frees.
IInv == TypeOK /\ OneBoxPerMutator /\ Registered /\ Locked /\ Iterating

-----------------------------------------------------------------------------
(* One lemma for the actions of each kind.                                 *)

\* A thread gets a box that is not in use.
LEMMA BindKeepsIInv ==
  ASSUME MutatorRegistryAssumption, IInv, NEW t \in Threads, NEW b \in Boxes,
         mmtk_bind_mutator(t, b)
  PROVE  IInv'
<1> USE DEF MutatorRegistryAssumption, IInv, mmtk_bind_mutator, Goto, lockVars, iterVars
<1>1. /\ pc[t] = "none" /\ b \notin allocated /\ b # NoBox
      /\ pc' = [pc EXCEPT ![t] = "boxed"] /\ mutator' = [mutator EXCEPT ![t] = b]
      /\ allocated' = allocated \cup {b}
      /\ UNCHANGED <<MUTATORS, writer, sleeping, iter, vec, returned>>
  OBVIOUS
<1>2. TypeOK'
  BY <1>1 DEF TypeOK, ThreadPC
<1>3. mutator[t] = NoBox
  BY <1>1 DEF Registered
<1>4. OneBoxPerMutator'
  <2>1. allocated' = {mutator'[u] : u \in Threads} \ {NoBox}
    BY <1>1, <1>3 DEF TypeOK, OneBoxPerMutator
  <2>2. \A u \in Threads : mutator[u] # b
    BY <1>1 DEF OneBoxPerMutator
  <2> QED
    BY <1>1, <2>1, <2>2 DEF TypeOK, OneBoxPerMutator
<1>5. Registered'
  BY <1>1 DEF TypeOK, Registered
<1>6. Locked'
  BY <1>1 DEF TypeOK, Locked, Writing
<1>7. Iterating'
  BY <1>1 DEF Iterating, keys
<1> QED
  BY <1>2, <1>4, <1>5, <1>6, <1>7

\* Steps that only change a program counter, or who sleeps.
LEMMA WaitKeepsIInv ==
  ASSUME MutatorRegistryAssumption, IInv, NEW t \in Threads,
         mmtk_post_bind_mutator(t) \/ mmtk_destroy_mutator(t) \/ SleepForWriteLock(t)
  PROVE  IInv'
<1> USE DEF MutatorRegistryAssumption, IInv
<1>1. /\ UNCHANGED <<MUTATORS, allocated, mutator, writer, iter, vec, returned>>
      /\ sleeping' \in SUBSET Threads
      /\ \/ pc' = pc
         \/ pc[t] = "boxed" /\ pc' = [pc EXCEPT ![t] = "insert"]
         \/ pc[t] = "bound" /\ pc' = [pc EXCEPT ![t] = "remove"]
  BY DEF mmtk_post_bind_mutator, mmtk_destroy_mutator, SleepForWriteLock, Goto,
         threadVars, lockVars, iterVars, TypeOK
<1>2. TypeOK' /\ OneBoxPerMutator'
  BY <1>1 DEF TypeOK, ThreadPC, OneBoxPerMutator
<1>3. Registered'
  BY <1>1 DEF TypeOK, Registered
<1>4. Locked'
  BY <1>1 DEF TypeOK, Locked, Writing
<1>5. Iterating'
  BY <1>1 DEF Iterating, keys
<1> QED
  BY <1>2, <1>3, <1>4, <1>5

\* The write lock is taken when nobody has the lock.
LEMMA WriteLockKeepsIInv ==
  ASSUME MutatorRegistryAssumption, IInv, NEW t \in Threads, WriteLock(t)
  PROVE  IInv'
<1> USE DEF MutatorRegistryAssumption, IInv
<1>1. /\ writer = NoThread /\ writer' = t /\ \A v \in Visitors : ~iter[v]
      /\ UNCHANGED <<MUTATORS, allocated, mutator, iter, vec, returned>>
      /\ sleeping' = sleeping \ {t}
      /\ \/ pc[t] = "insert" /\ pc' = [pc EXCEPT ![t] = "inserting"]
         \/ pc[t] = "remove" /\ pc' = [pc EXCEPT ![t] = "freeing"]
  BY DEF WriteLock, Reading, Goto, iterVars
<1>2. TypeOK' /\ OneBoxPerMutator'
  BY <1>1 DEF TypeOK, ThreadPC, OneBoxPerMutator
<1>3. Registered'
  BY <1>1 DEF TypeOK, Registered
<1>4. Locked'
  <2>1. \A u \in Threads : pc[u] \notin Writing
    BY <1>1 DEF Locked
  <2> QED
    BY <1>1, <2>1 DEF TypeOK, Locked, Writing
<1>5. Iterating'
  BY <1>1 DEF Iterating, keys
<1> QED
  BY <1>2, <1>3, <1>4, <1>5

\* The box of a thread is freed under the write lock, once.
LEMMA FreeBoxKeepsIInv ==
  ASSUME MutatorRegistryAssumption, IInv, NEW t \in Threads, FreeBox(t)
  PROVE  IInv'
<1> USE DEF MutatorRegistryAssumption, IInv
<1>1. /\ pc[t] = "freeing" /\ pc' = [pc EXCEPT ![t] = "removing"]
      /\ MUTATORS[t] # NoBox
      /\ allocated' = allocated \ {MUTATORS[t]}
      /\ mutator' = [mutator EXCEPT ![t] = NoBox]
      /\ UNCHANGED <<MUTATORS, writer, sleeping, iter, vec, returned>>
  BY DEF FreeBox, Goto, lockVars, iterVars
<1>2. MUTATORS[t] = mutator[t]
  BY <1>1 DEF Registered
<1>3. TypeOK'
  BY <1>1 DEF TypeOK, ThreadPC
<1>4. OneBoxPerMutator'
  <2>1. \A u \in Threads \ {t} : mutator[u] # mutator[t]
    BY <1>1, <1>2 DEF OneBoxPerMutator
  <2>2. allocated' = {mutator'[u] : u \in Threads} \ {NoBox}
    BY <1>1, <1>2, <2>1 DEF TypeOK, OneBoxPerMutator
  <2> QED
    BY <1>1, <2>2 DEF TypeOK, OneBoxPerMutator
<1>5. Registered'
  BY <1>1 DEF TypeOK, Registered
<1>6. Locked'
  BY <1>1 DEF TypeOK, Locked, Writing
<1>7. Iterating'
  BY <1>1 DEF Iterating, keys
<1> QED
  BY <1>3, <1>4, <1>5, <1>6, <1>7

\* A key is inserted or removed, and the write lock is released.
LEMMA WriteKeepsIInv ==
  ASSUME MutatorRegistryAssumption, IInv, NEW t \in Threads, Insert(t) \/ Remove(t)
  PROVE  IInv'
<1> USE DEF MutatorRegistryAssumption, IInv
<1>1. /\ writer' = NoThread /\ sleeping' = {}
      /\ UNCHANGED <<allocated, mutator, iter, vec, returned>>
      /\ \/ /\ pc[t] = "inserting" /\ pc' = [pc EXCEPT ![t] = "bound"]
            /\ MUTATORS' = [MUTATORS EXCEPT ![t] = mutator[t]]
         \/ /\ pc[t] = "removing" /\ pc' = [pc EXCEPT ![t] = "none"]
            /\ MUTATORS' = [MUTATORS EXCEPT ![t] = NoBox]
  BY DEF Insert, Remove, Unlock, Goto, iterVars
<1>2. writer = t /\ t # NoThread
  BY <1>1 DEF Locked, Writing
<1>3. \A v \in Visitors : ~iter[v]
  BY <1>2 DEF Locked
<1>4. TypeOK' /\ OneBoxPerMutator'
  BY <1>1 DEF TypeOK, ThreadPC, OneBoxPerMutator
<1>5. Registered'
  BY <1>1 DEF TypeOK, Registered
<1>6. Locked'
  <2>1. \A u \in Threads : pc'[u] \notin Writing
    BY <1>1, <1>2 DEF TypeOK, Locked, Writing
  <2> QED
    BY <1>1, <2>1 DEF Locked
<1>7. Iterating'
  BY <1>1, <1>3 DEF Iterating
<1> QED
  BY <1>4, <1>5, <1>6, <1>7

\* An iterator begins with the keys of a map that nobody is changing.
LEMMA NewIteratorKeepsIInv ==
  ASSUME MutatorRegistryAssumption, IInv, NEW v \in Visitors, NewIterator(v)
  PROVE  IInv'
<1> USE DEF MutatorRegistryAssumption, IInv
<1>1. /\ writer = NoThread /\ ~iter[v]
      /\ iter' = [iter EXCEPT ![v] = TRUE]
      /\ vec' = [vec EXCEPT ![v] = keys]
      /\ returned' = [returned EXCEPT ![v] = {}]
      /\ UNCHANGED <<MUTATORS, allocated, pc, mutator, writer, sleeping>>
  BY DEF NewIterator, CanRead, threadVars, lockVars
<1>2. keys \in SUBSET Threads
  BY DEF keys
<1>3. TypeOK' /\ OneBoxPerMutator'
  BY <1>1, <1>2 DEF TypeOK, OneBoxPerMutator
<1>4. Registered' /\ Locked'
  BY <1>1 DEF Registered, Locked
<1>5. Iterating'
  <2>1. keys' = keys
    BY <1>1 DEF keys
  <2> HIDE DEF keys
  <2> QED
    BY <1>1, <1>2, <2>1 DEF TypeOK, Iterating
<1> QED
  BY <1>3, <1>4, <1>5

\* A key goes from what is left to what was returned.
LEMMA NextMutatorKeepsIInv ==
  ASSUME MutatorRegistryAssumption, IInv, NEW v \in Visitors, NEW t \in Threads,
         NextMutator(v, t)
  PROVE  IInv'
<1> USE DEF MutatorRegistryAssumption, IInv
<1>1. /\ iter[v] /\ t \in vec[v]
      /\ vec' = [vec EXCEPT ![v] = @ \ {t}]
      /\ returned' = [returned EXCEPT ![v] = @ \cup {t}]
      /\ UNCHANGED <<MUTATORS, allocated, pc, mutator, writer, sleeping, iter>>
  BY DEF NextMutator, threadVars, lockVars
<1>2. TypeOK' /\ OneBoxPerMutator'
  BY <1>1 DEF TypeOK, OneBoxPerMutator
<1>3. Registered' /\ Locked'
  BY <1>1 DEF Registered, Locked
<1>4. Iterating'
  <2>1. keys' = keys
    BY <1>1 DEF keys
  <2>2. \A u \in Visitors : vec'[u] \cup returned'[u] = vec[u] \cup returned[u]
    BY <1>1 DEF TypeOK
  <2> QED
    BY <1>1, <2>1, <2>2 DEF Iterating
<1> QED
  BY <1>2, <1>3, <1>4

\* The end of an iterator releases the lock at most.
LEMMA DropIteratorKeepsIInv ==
  ASSUME MutatorRegistryAssumption, IInv, NEW v \in Visitors, DropIterator(v)
  PROVE  IInv'
<1> USE DEF MutatorRegistryAssumption, IInv
<1>1. /\ iter[v]
      /\ iter' = [iter EXCEPT ![v] = FALSE]
      /\ vec' = [vec EXCEPT ![v] = {}]
      /\ returned' = [returned EXCEPT ![v] = {}]
      /\ UNCHANGED <<MUTATORS, allocated, pc, mutator>>
      /\ writer' \in {writer, NoThread} /\ sleeping' \in {sleeping, {}}
  BY DEF DropIterator, Unlock, threadVars, lockVars
<1>2. writer = NoThread /\ writer' = NoThread
  BY <1>1 DEF Locked
<1>3. TypeOK' /\ OneBoxPerMutator'
  BY <1>1, <1>2 DEF TypeOK, OneBoxPerMutator
<1>4. Registered' /\ Locked'
  BY <1>1, <1>2 DEF Registered, Locked
<1>5. Iterating'
  BY <1>1 DEF TypeOK, Iterating, keys
<1> QED
  BY <1>3, <1>4, <1>5

-----------------------------------------------------------------------------
(* The theorems.                                                           *)

\* The invariant holds in every state.
THEOREM Invariance == Spec => []IInv
<1>1. Init => IInv
  BY MutatorRegistryAssumption
  DEF MutatorRegistryAssumption, Init, IInv, TypeOK, ThreadPC, OneBoxPerMutator, Registered,
      Locked, Writing, Iterating
<1>2. IInv /\ [Next]_vars => IInv'
  <2> SUFFICES ASSUME IInv, [Next]_vars PROVE IInv'
    OBVIOUS
  <2>1. ASSUME NEW t \in Threads, Thread(t) PROVE IInv'
    BY <2>1, MutatorRegistryAssumption, BindKeepsIInv, WaitKeepsIInv, WriteLockKeepsIInv,
       FreeBoxKeepsIInv, WriteKeepsIInv DEF Thread
  <2>2. ASSUME NEW v \in Visitors, Visitor(v) PROVE IInv'
    BY <2>2, MutatorRegistryAssumption, NewIteratorKeepsIInv, NextMutatorKeepsIInv,
       DropIteratorKeepsIInv DEF Visitor
  <2>3. CASE UNCHANGED vars
    BY <2>3 DEF vars, threadVars, lockVars, iterVars, IInv, TypeOK, OneBoxPerMutator,
                Registered, Locked, Iterating, keys
  <2> QED
    BY <2>1, <2>2, <2>3 DEF Next
<1> QED
  BY <1>1, <1>2, PTL DEF Spec

\* The types of the state.
THEOREM TypeCorrect == Spec => []TypeOK
<1>1. IInv => TypeOK
  BY DEF IInv
<1> QED
  BY <1>1, Invariance, PTL

\* Every box in use belongs to one thread, and none is leaked (lib.rs:93-96).
THEOREM BoxesAreOwned == Spec => []OneBoxPerMutator
<1>1. IInv => OneBoxPerMutator
  BY DEF IInv
<1> QED
  BY <1>1, Invariance, PTL

\* A thread that runs Julia code is in the map, one that has left is not
\* (mmtk_post_bind_mutator, mmtk_destroy_mutator).
THEOREM BoundThreadsAreRegistered == Spec => []RegisteredWhileBound
<1>1. IInv => RegisteredWhileBound
  BY DEF IInv, Registered, RegisteredWhileBound
<1> QED
  BY <1>1, Invariance, PTL

\* Iterators return every mutator of the map (active_plan.rs:28).
THEOREM CompleteVisits == Spec => []VisitsAreComplete
<1>1. IInv => VisitsAreComplete
  <2> SUFFICES ASSUME IInv, NEW v \in Visitors, iter[v], vec[v] = {}
               PROVE  returned[v] = keys
    BY DEF VisitsAreComplete
  <2>1. vec[v] \cup returned[v] = keys
    BY DEF IInv, Iterating
  <2> QED
    BY <2>1
<1> QED
  BY <1>1, Invariance, PTL

\* No mutator is freed while an iterator has it (active_plan.rs:13).
THEOREM VisitedAlive == Spec => []VisitedMutatorsAreAlive
<1>1. IInv => VisitedMutatorsAreAlive
  <2> SUFFICES ASSUME IInv, NEW v \in Visitors, NEW t \in vec[v] \cup returned[v]
               PROVE  MUTATORS[t] # NoBox /\ MUTATORS[t] \in allocated
    BY DEF VisitedMutatorsAreAlive
  <2>1. iter[v] /\ t \in keys
    BY DEF IInv, Iterating
  <2>2. t \in Threads /\ MUTATORS[t] # NoBox
    BY <2>1 DEF keys
  <2>3. pc[t] \notin Writing
    BY <2>1, <2>2, MutatorRegistryAssumption DEF IInv, Locked, MutatorRegistryAssumption
  <2>4. pc[t] \in {"bound", "remove"}
    BY <2>2, <2>3 DEF IInv, TypeOK, ThreadPC, Writing, Registered
  <2>5. MUTATORS[t] = mutator[t]
    BY <2>2, <2>4 DEF IInv, Registered
  <2> QED
    BY <2>2, <2>5 DEF IInv, OneBoxPerMutator
<1> QED
  BY <1>1, Invariance, PTL
=============================================================================
