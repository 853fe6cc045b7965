--------------------------- MODULE MutatorRegistry ---------------------------
(***************************************************************************)
(* MUTATORS (lib.rs): the map, behind a reader-writer lock, from the       *)
(* mutator inside each thread's jl_tls_state_t to the boxed mutator it is  *)
(* a shallow copy of.  Threads enter it when they are bound and leave it   *)
(* when they are destroyed (api.rs); iterators, Rust's and the one given   *)
(* to C, hold the read lock from their creation to their end               *)
(* (active_plan.rs).                                                       *)
(*                                                                         *)
(* A key is named by its thread.  Keys come out of the hash map in any     *)
(* order, so what an iterator has left to return is a set.                 *)
(*                                                                         *)
(* External: the allocator behind Box; std's lock, in which a writer that  *)
(* sleeps keeps new readers out until the lock is released; Julia, which   *)
(* binds a thread when it starts and destroys its mutator when it ends.    *)
(***************************************************************************)
EXTENDS Integers, FiniteSets

CONSTANTS
  Threads,    \* mutator threads, by their jl_tls_state_t
  Visitors,   \* GC workers and C callers that iterate
  Boxes,      \* addresses of boxed mutators, reused after they are freed
  NoBox, NoThread

ASSUME MutatorRegistryAssumption ==
  /\ IsFiniteSet(Threads)
  /\ NoThread \notin Threads
  /\ NoBox \notin Boxes

VARIABLES
  MUTATORS,   \* the box of every key, NoBox when there is no such key
  allocated,  \* boxes that are not freed
  pc,         \* where each thread is in its life
  mutator,    \* the box whose contents the thread's mutator points into
  writer,     \* who holds the write lock
  sleeping,   \* writers that wait for it
  iter,       \* is there an iterator, with its guard?
  vec,        \* the keys it has not returned
  returned    \* the keys it has returned

lockVars == <<writer, sleeping>>
iterVars == <<iter, vec, returned>>
threadVars == <<MUTATORS, allocated, pc, mutator>>
vars == <<threadVars, lockVars, iterVars>>

\* "insert" and "remove" ask for the write lock; "inserting", "freeing" and
\* "removing" hold it.
ThreadPC == {"none", "boxed", "insert", "inserting", "bound",
             "remove", "freeing", "removing"}
Writing == {"inserting", "freeing", "removing"}

Init == /\ MUTATORS = [t \in Threads |-> NoBox]
        /\ allocated = {}
        /\ pc = [t \in Threads |-> "none"]
        /\ mutator = [t \in Threads |-> NoBox]
        /\ writer = NoThread /\ sleeping = {}
        /\ iter = [v \in Visitors |-> FALSE]
        /\ vec = [v \in Visitors |-> {}]
        /\ returned = [v \in Visitors |-> {}]

keys == {t \in Threads : MUTATORS[t] # NoBox}
Reading == \E v \in Visitors : iter[v]
CanRead == writer = NoThread /\ sleeping = {}

Goto(t, from, to) == /\ pc[t] = from
                     /\ pc' = [pc EXCEPT ![t] = to]

-----------------------------------------------------------------------------
(* The life of a mutator thread.                                           *)

\* Box::into_raw; Julia then copies the box into the thread's state.
mmtk_bind_mutator(t, b) ==
  /\ Goto(t, "none", "boxed")
  /\ b \notin allocated
  /\ allocated' = allocated \cup {b}
  /\ mutator' = [mutator EXCEPT ![t] = b]
  /\ UNCHANGED <<MUTATORS, lockVars, iterVars>>

mmtk_post_bind_mutator(t) ==
  /\ Goto(t, "boxed", "insert")
  /\ UNCHANGED <<MUTATORS, allocated, mutator, lockVars, iterVars>>

\* MMTk core has destroyed the mutator: it is still in the map.
mmtk_destroy_mutator(t) ==
  /\ Goto(t, "bound", "remove")
  /\ UNCHANGED <<MUTATORS, allocated, mutator, lockVars, iterVars>>

\* Fault: the lock is taken for reading.
FaultWriteLock(t) ==
  /\ writer = NoThread
  /\ \/ Goto(t, "insert", "inserting")
     \/ Goto(t, "remove", "freeing")
  /\ writer' = t
  /\ sleeping' = sleeping \ {t}
  /\ UNCHANGED <<MUTATORS, allocated, mutator, iterVars>>

\* MUTATORS.write() returns.
WriteLock(t) ==
  /\ writer = NoThread /\ ~Reading
  /\ \/ Goto(t, "insert", "inserting")
     \/ Goto(t, "remove", "freeing")
  /\ writer' = t
  /\ sleeping' = sleeping \ {t}
  /\ UNCHANGED <<MUTATORS, allocated, mutator, iterVars>>

\* MUTATORS.write() finds the lock taken.
SleepForWriteLock(t) ==
  /\ pc[t] \in {"insert", "remove"}
  /\ writer # NoThread \/ Reading
  /\ t \notin sleeping
  /\ sleeping' = sleeping \cup {t}
  /\ UNCHANGED <<threadVars, writer, iterVars>>

\* The last guard goes: whoever sleeps tries again.
Unlock == writer' = NoThread /\ sleeping' = {}

\* Fault: the address in the thread's state is stored, not the box's.
FaultInsert(t) ==
  /\ Goto(t, "inserting", "bound")
  /\ MUTATORS' = [MUTATORS EXCEPT ![t] = t]
  /\ Unlock
  /\ UNCHANGED <<allocated, mutator, iterVars>>

Insert(t) ==
  /\ Goto(t, "inserting", "bound")
  /\ MUTATORS' = [MUTATORS EXCEPT ![t] = mutator[t]]
  /\ Unlock
  /\ UNCHANGED <<allocated, mutator, iterVars>>

\* Fault: the box that into_raw gave up is forgotten.
FaultFreeBox(t) ==
  /\ Goto(t, "freeing", "removing")
  /\ mutator' = [mutator EXCEPT ![t] = NoBox]
  /\ UNCHANGED <<MUTATORS, allocated, lockVars, iterVars>>

FreeBox(t) ==
  /\ Goto(t, "freeing", "removing")
  /\ MUTATORS[t] # NoBox   \* or unwrap panics
  /\ allocated' = allocated \ {MUTATORS[t]}
  /\ mutator' = [mutator EXCEPT ![t] = NoBox]
  /\ UNCHANGED <<MUTATORS, lockVars, iterVars>>

\* Fault: the guard is released but the key stays.
FaultRemove(t) ==
  /\ Goto(t, "removing", "none")
  /\ Unlock
  /\ UNCHANGED <<MUTATORS, allocated, mutator, iterVars>>

Remove(t) ==
  /\ Goto(t, "removing", "none")
  /\ MUTATORS' = [MUTATORS EXCEPT ![t] = NoBox]
  /\ Unlock
  /\ UNCHANGED <<allocated, mutator, iterVars>>

-----------------------------------------------------------------------------
(* Iterators.                                                              *)

\* mutators() and mmtk_new_mutator_iterator().
NewIterator(v) ==
  /\ CanRead
  /\ ~iter[v]
  /\ iter' = [iter EXCEPT ![v] = TRUE]
  /\ vec' = [vec EXCEPT ![v] = keys]
  /\ returned' = [returned EXCEPT ![v] = {}]
  /\ UNCHANGED <<threadVars, lockVars>>

\* Fault: the cursor is moved before it is used.
FaultNext(v, t) ==
  /\ iter[v]
  /\ \E skipped \in vec[v] :
       /\ vec' = [vec EXCEPT ![v] = @ \ {skipped, t}]
       /\ t \in vec[v]
  /\ returned' = [returned EXCEPT ![v] = @ \cup {t}]
  /\ UNCHANGED <<threadVars, lockVars, iter>>

NextMutator(v, t) ==
  /\ iter[v]
  /\ t \in vec[v]
  /\ vec' = [vec EXCEPT ![v] = @ \ {t}]
  /\ returned' = [returned EXCEPT ![v] = @ \cup {t}]
  /\ UNCHANGED <<threadVars, lockVars, iter>>

\* Fault: the box of the iterator is leaked, and its guard with it.
FaultDrop(v) ==
  /\ iter[v]
  /\ vec' = [vec EXCEPT ![v] = {}]
  /\ UNCHANGED <<threadVars, lockVars, iter, returned>>

\* The iterator is dropped, by its loop or by mmtk_close_mutator_iterator;
\* a loop may be left early.
DropIterator(v) ==
  /\ iter[v]
  /\ iter' = [iter EXCEPT ![v] = FALSE]
  /\ vec' = [vec EXCEPT ![v] = {}]
  /\ returned' = [returned EXCEPT ![v] = {}]
  /\ IF \E u \in Visitors \ {v} : iter[u]
     THEN UNCHANGED lockVars ELSE Unlock
  /\ UNCHANGED threadVars

-----------------------------------------------------------------------------

Thread(t) == \/ \E b \in Boxes : mmtk_bind_mutator(t, b)
             \/ mmtk_post_bind_mutator(t) \/ mmtk_destroy_mutator(t)
             \/ SleepForWriteLock(t) \/ WriteLock(t)
             \/ Insert(t) \/ FreeBox(t) \/ Remove(t)

Visitor(v) == \/ NewIterator(v) \/ DropIterator(v)
              \/ \E t \in Threads : NextMutator(v, t)

Next == (\E t \in Threads : Thread(t)) \/ (\E v \in Visitors : Visitor(v))

Spec == Init /\ [][Next]_vars

\* A thread runs on once it has begun to be bound or destroyed; the loop
\* around an iterator ends, and C closes the iterator it asked for.
Fairness ==
  /\ \A t \in Threads :
       /\ WF_vars(mmtk_post_bind_mutator(t))
       /\ WF_vars(WriteLock(t))
       /\ WF_vars(Insert(t) \/ FreeBox(t) \/ Remove(t))
  /\ \A v \in Visitors : WF_vars(DropIterator(v))

FairSpec == Spec /\ Fairness

-----------------------------------------------------------------------------
(* Properties.                                                             *)

TypeOK == /\ MUTATORS \in [Threads -> Boxes \cup {NoBox}]
          /\ allocated \subseteq Boxes
          /\ pc \in [Threads -> ThreadPC]
          /\ mutator \in [Threads -> Boxes \cup {NoBox}]
          /\ writer \in Threads \cup {NoThread}
          /\ sleeping \subseteq Threads
          /\ iter \in [Visitors -> BOOLEAN]
          /\ vec \in [Visitors -> SUBSET Threads]
          /\ returned \in [Visitors -> SUBSET Threads]

\* While an iterator exists, every mutator that it has returned or will
\* return is in the map, and the buffers that it shares with its box are
\* not freed: no thread comes or goes under a visitor (active_plan.rs:13).
VisitedMutatorsAreAlive ==
  \A v \in Visitors : \A t \in vec[v] \cup returned[v] :
    MUTATORS[t] # NoBox /\ MUTATORS[t] \in allocated

\* What an iterator has returned when it is at its end is every mutator of
\* the map: none is skipped, so no root of a thread is missed.
VisitsAreComplete ==
  \A v \in Visitors : (iter[v] /\ vec[v] = {}) => returned[v] = keys

\* Boxes are neither leaked nor freed under the thread that points into
\* them: the boxes in use are those of the threads that have a mutator, one
\* for each (lib.rs:93-96).
OneBoxPerMutator ==
  /\ allocated = {mutator[t] : t \in Threads} \ {NoBox}
  /\ \A t, u \in Threads : mutator[t] = mutator[u] /\ t # u => mutator[t] = NoBox

\* A thread that runs Julia code is in the map with the box that it was made
\* from, so is_mutator knows it, it is stopped and scanned; a thread that
\* has left is not.
RegisteredWhileBound ==
  \A t \in Threads : /\ pc[t] = "bound" => MUTATORS[t] = mutator[t]
                     /\ pc[t] \in {"none", "boxed"} => MUTATORS[t] = NoBox

\* A thread that is being bound or destroyed gets the write lock, whoever
\* iterates; std does not say that the lock is fair, so another thread, or
\* a visitor, that takes it again and again may keep it waiting.
ThreadsComeAndGo ==
  \A t \in Threads :
    \/ /\ (pc[t] = "boxed") ~> (pc[t] = "bound")
       /\ (pc[t] = "remove") ~> (pc[t] = "none")
    \/ \E u \in Threads \ {t} : []<><<WriteLock(u)>>_vars
    \/ \E v \in Visitors : []<><<NewIterator(v)>>_vars
=============================================================================
