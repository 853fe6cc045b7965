----------------------------- MODULE Finalizers -----------------------------
(***************************************************************************)
(* The finalizer pass of a collection (julia_finalizer.rs), and the Julia  *)
(* runtime that fills and empties the three kinds of lists it works on:    *)
(* the finalizers of every thread, finalizer_list_marked and to_finalize.  *)
(*                                                                         *)
(* A list is a sequence of words, two for each entry: a tagged object and  *)
(* its finalizer.  Tag 1 says that the finalizer is a C function, tag 2    *)
(* (with 1) that the first word is a raw pointer too, to be run at the     *)
(* next collection.  Each iteration of a loop of the code is an action.    *)
(*                                                                         *)
(* Objects may move: a word also says which copy of the object it points   *)
(* to, and trace_object returns a word for the current copy.  Indices are  *)
(* those of the code, from 0.                                              *)
(*                                                                         *)
(* External: the registration and the running of finalizers (gc.c), and    *)
(* which objects a collection reaches from the roots, ages and moves.      *)
(***************************************************************************)
EXTENDS Integers, Sequences, FiniteSets

LOCAL INSTANCE FiniteSetsExt

CONSTANTS
  Mutators,
  Objects,      \* addresses of objects, reused after they are freed
  Pointers,     \* C functions and raw pointers
  Null,
  Moving,       \* does the plan move objects?
  debug_assertions, \* is it a debug build?
  MaxEntries    \* bound: entries in all lists together

ASSUME FinalizersAssumption ==
  /\ IsFiniteSet(Mutators)
  /\ Mutators \cap {"finalizer_list_marked", "to_finalize", "none"} = {}
  /\ Null \notin Objects \cup Pointers
  /\ Objects \cap Pointers = {}
  /\ Moving \in BOOLEAN /\ debug_assertions \in BOOLEAN
  /\ MaxEntries \in Nat

Marked     == "finalizer_list_marked"
ToFinalize == "to_finalize"
Lists      == Mutators \cup {Marked, ToFinalize}
NoList     == "none"

\* Bit 0 of tag is gc_ptr_tag(_, 1), bit 1 is gc_ptr_tag(_, 2).
Tags == {0, 1, 3}
Word == [addr : Objects \cup Pointers \cup {Null}, tag : Tags, copy : {0, 1}]
NullWord == [addr |-> Null, tag |-> 0, copy |-> 0]

gc_ptr_tag(word, tag) == (word.tag \div tag) % 2 = 1
is_zero(word) == word.addr = Null

\* The assertion in gc_ptr_clear_tag; a debug build stops where it fails.
gc_ptr_clear_tag_ok(word) == debug_assertions => ~is_zero(word)

VARIABLES
  lists,        \* the words of each list
  jl_gc_have_pending_finalizers,
  gcpc,         \* which loop of scan_finalizers_in_rust is running
  cur,          \* the list in the loop, or NoList between two lists
  todo,         \* mutators whose list the loop has not seen
  i, j,         \* the indices of sweep_finalizer_list and mark_finlist
  orig_marked_len,
  nursery,      \* is_current_gc_nursery()
  heap,         \* allocated objects
  old,          \* those that survived a collection
  live,         \* is_live_object, while a collection runs
  copy,         \* where each object is
  kept,         \* history: what was live when the pass started
  before        \* history: the lists when the pass started

loopVars == <<gcpc, cur, todo, i, j, orig_marked_len>>
heapVars == <<heap, old, live, copy>>
historyVars == <<kept, before>>
vars == <<lists, jl_gc_have_pending_finalizers, loopVars, nursery, heapVars, historyVars>>

NoLists == [l \in Lists |-> <<>>]

Init == /\ lists = NoLists
        /\ jl_gc_have_pending_finalizers = 0
        /\ gcpc = "none" /\ cur = NoList /\ todo = {}
        /\ i = 0 /\ j = 0 /\ orig_marked_len = 0
        /\ nursery = FALSE
        /\ heap = {} /\ old = {} /\ live = {}
        /\ copy = [o \in Objects |-> 0]
        /\ kept = {} /\ before = NoLists

get(list, index) == lists[list][index + 1]

PointTo(addr, tag) ==
  [addr |-> addr, tag |-> tag, copy |-> IF addr \in Objects THEN copy[addr] ELSE 0]

-----------------------------------------------------------------------------
(* The runtime, between collections.                                       *)

Alloc(o) ==
  /\ gcpc = "none"
  /\ o \notin heap
  /\ heap' = heap \cup {o}
  /\ UNCHANGED <<lists, jl_gc_have_pending_finalizers, loopVars, nursery, old, live, copy,
                 historyVars>>

\* jl_gc_add_finalizer, jl_gc_add_ptr_finalizer and jl_gc_add_quiescent.
AddFinalizer(m) ==
  /\ gcpc = "none"
  /\ MapThenSumSet(LAMBDA l : Len(lists[l]), Lists) < 2 * MaxEntries
  /\ \E tag \in Tags, v, f \in heap \cup Pointers :
       /\ (v \in Pointers) <=> (tag = 3)
       /\ (f \in Pointers) <=> (tag # 0)
       /\ lists' = [lists EXCEPT ![m] = @ \o <<PointTo(v, tag), PointTo(f, 0)>>]
  /\ UNCHANGED <<jl_gc_have_pending_finalizers, loopVars, nursery, heapVars, historyVars>>

\* The elements of a finite set of numbers, in ascending order.
Ascending(S) == CHOOSE f \in [1..Cardinality(S) -> S] :
                  \A a, b \in 1..Cardinality(S) : a < b => f[a] < f[b]

\* The entries of a list that are not of o, by number, and the list of them.
Others(list, o) == {n \in 1..(Len(list) \div 2) : list[2 * n - 1].addr # o}
Without(list, o) ==
  LET order == Ascending(Others(list, o))
  IN  [w \in 1..(2 * Cardinality(Others(list, o))) |->
         list[2 * order[(w + 1) \div 2] - (w % 2)]]

\* The first word of the entry that word w of a list is in.
first(w) == w - 1 + (w % 2)
Blanked(list, o) == [w \in 1..Len(list) |->
                       IF list[first(w)].addr = o THEN NullWord ELSE list[w]]

\* finalize(o) takes the entries of o out of the lists.  In the lists of
\* other threads, which may be growing, it can only blank them.
Finalize(o) ==
  /\ gcpc = "none"
  /\ o \in heap
  /\ \E others \in SUBSET Mutators \ {Mutators} :
       lists' = [l \in Lists |-> IF l = ToFinalize THEN lists[l]
                                ELSE IF l \in others THEN Blanked(lists[l], o)
                                ELSE Without(lists[l], o)]
  /\ UNCHANGED <<jl_gc_have_pending_finalizers, loopVars, nursery, heapVars, historyVars>>

\* jl_gc_run_finalizers_in_list takes the whole list.
RunFinalizers ==
  /\ gcpc = "none"
  /\ jl_gc_have_pending_finalizers = 1
  /\ lists' = [lists EXCEPT ![ToFinalize] = <<>>]
  /\ jl_gc_have_pending_finalizers' = 0
  /\ UNCHANGED <<loopVars, nursery, heapVars, historyVars>>

-----------------------------------------------------------------------------
(* scan_finalizers_in_rust: the order of the loops.                        *)

\* A collection has traced everything it reaches from the roots.  A nursery
\* collection also keeps the old objects, where they are.
StartGC(isNursery) ==
  /\ gcpc = "none"
  /\ gcpc' = "sweep"
  /\ nursery' = isNursery
  /\ \E reached \in SUBSET heap :
       /\ live' = IF isNursery THEN reached \cup old ELSE reached
       /\ kept' = live'
  /\ \E moved \in IF Moving THEN SUBSET (IF isNursery THEN heap \ old ELSE heap)
                            ELSE {{}} :
       copy' = [o \in Objects |-> IF o \in moved THEN 1 - copy[o] ELSE copy[o]]
  /\ orig_marked_len' = Len(lists[Marked])
  /\ todo' = Mutators
  /\ before' = lists
  /\ UNCHANGED <<lists, jl_gc_have_pending_finalizers, cur, i, j, heap, old>>

unchangedInTurn == UNCHANGED <<lists, jl_gc_have_pending_finalizers, nursery, heapVars,
                               historyVars>>

\* A loop takes up the list of the next mutator.
NextMutator(m) ==
  /\ gcpc \in {"sweep", "mark"}
  /\ cur = NoList
  /\ m \in todo
  /\ cur' = m
  /\ todo' = todo \ {m}
  /\ i' = 0 /\ j' = 0
  /\ UNCHANGED <<gcpc, orig_marked_len>>
  /\ unchangedInTurn

\* After the threads' lists, the marked list is swept in a full collection.
SweepMarked ==
  /\ gcpc = "sweep" /\ cur = NoList /\ todo = {}
  /\ ~nursery
  /\ gcpc' = "sweepMarked"
  /\ cur' = Marked
  /\ i' = 0 /\ j' = 0
  /\ UNCHANGED <<todo, orig_marked_len>>
  /\ unchangedInTurn

\* Fault: the marked list is traced from its old length after a full sweep.
FaultStartMarking ==
  /\ cur = NoList /\ todo = {}
  /\ gcpc = IF nursery THEN "sweep" ELSE "sweepMarked"
  /\ gcpc' = "mark"
  /\ todo' = Mutators
  /\ UNCHANGED <<cur, i, j, orig_marked_len>>
  /\ unchangedInTurn

\* The sweeping is over: go through the threads' lists again.
StartMarking ==
  /\ cur = NoList /\ todo = {}
  /\ \/ gcpc = "sweep" /\ nursery /\ UNCHANGED orig_marked_len
     \/ gcpc = "sweepMarked" /\ orig_marked_len' = 0
  /\ gcpc' = "mark"
  /\ todo' = Mutators
  /\ UNCHANGED <<cur, i, j>>
  /\ unchangedInTurn

\* Then the new part of the marked list, then to_finalize.
MarkMarked ==
  /\ gcpc = "mark" /\ cur = NoList /\ todo = {}
  /\ gcpc' = "markMarked"
  /\ cur' = Marked
  /\ i' = orig_marked_len
  /\ UNCHANGED <<todo, j, orig_marked_len>>
  /\ unchangedInTurn

MarkToFinalize ==
  /\ gcpc = "markMarked" /\ cur = NoList
  /\ gcpc' = "markToFinalize"
  /\ cur' = ToFinalize
  /\ i' = 0
  /\ UNCHANGED <<todo, j, orig_marked_len>>
  /\ unchangedInTurn

\* The collection frees what is not live; the survivors are old.
EndGC ==
  /\ gcpc = "markToFinalize" /\ cur = NoList
  /\ gcpc' = "none"
  /\ heap' = live /\ old' = live /\ live' = {}
  /\ copy' = [o \in Objects |-> IF o \in live THEN copy[o] ELSE 0]
  /\ i' = 0 /\ j' = 0 /\ orig_marked_len' = 0
  /\ nursery' = FALSE
  /\ kept' = {} /\ before' = NoLists
  /\ UNCHANGED <<lists, jl_gc_have_pending_finalizers, cur, todo>>

-----------------------------------------------------------------------------
(* One iteration of sweep_finalizer_list.                                  *)

Sweeping == /\ gcpc \in {"sweep", "sweepMarked"}
            /\ cur # NoList
            /\ i < Len(lists[cur])

is_live_object(word) == word.addr \in live
isfreed(word) == gc_ptr_tag(word, 2) \/ ~is_live_object(word)
\* Fault: live entries never move to the marked list.
FaultMarkedIsNone == FALSE

\* Fault: the marked list is swept into itself.
FaultMarkedIsSome == TRUE

finalizer_list_marked_is_some == cur # Marked
isold(word) == finalizer_list_marked_is_some /\ ~isfreed(word)

unchangedInSweep == UNCHANGED <<gcpc, cur, todo, orig_marked_len, nursery, heapVars,
                                historyVars>>

\* The tag is cleared before the test for an empty entry.
SweepNull ==
  /\ Sweeping
  /\ gc_ptr_clear_tag_ok(get(cur, i))
  /\ is_zero(get(cur, i))
  /\ i' = i + 2
  /\ UNCHANGED <<lists, jl_gc_have_pending_finalizers, j>>
  /\ unchangedInSweep

Push(list, index) ==
  lists' = [lists EXCEPT ![list] = @ \o <<get(cur, index), get(cur, index + 1)>>]

\* Fault: the runtime is not told of the pending finalizer.
FaultSweepFreed ==
  /\ Sweeping
  /\ ~is_zero(get(cur, i))
  /\ isfreed(get(cur, i))
  /\ Push(ToFinalize, i)
  /\ i' = i + 2
  /\ UNCHANGED <<jl_gc_have_pending_finalizers, j>>
  /\ unchangedInSweep

SweepFreed ==
  /\ Sweeping
  /\ ~is_zero(get(cur, i))
  /\ isfreed(get(cur, i))
  /\ Push(ToFinalize, i)
  /\ jl_gc_have_pending_finalizers' = 1
  /\ i' = i + 2
  /\ UNCHANGED j
  /\ unchangedInSweep

SweepOld ==
  /\ Sweeping
  /\ ~is_zero(get(cur, i))
  /\ isold(get(cur, i))
  /\ Push(Marked, i)
  /\ i' = i + 2
  /\ UNCHANGED <<jl_gc_have_pending_finalizers, j>>
  /\ unchangedInSweep

\* Fault: j counts entries where it should count words.
FaultSweepKeep ==
  /\ Sweeping
  /\ ~is_zero(get(cur, i))
  /\ ~isfreed(get(cur, i)) /\ ~isold(get(cur, i))
  /\ lists' = [lists EXCEPT ![cur][j + 1] = get(cur, i), ![cur][j + 2] = get(cur, i + 1)]
  /\ j' = j + 1
  /\ i' = i + 2
  /\ UNCHANGED jl_gc_have_pending_finalizers
  /\ unchangedInSweep

\* Entries that stay are moved to the front of the list.
SweepKeep ==
  /\ Sweeping
  /\ ~is_zero(get(cur, i))
  /\ ~isfreed(get(cur, i)) /\ ~isold(get(cur, i))
  /\ lists' = [lists EXCEPT ![cur][j + 1] = get(cur, i), ![cur][j + 2] = get(cur, i + 1)]
  /\ j' = j + 2
  /\ i' = i + 2
  /\ UNCHANGED jl_gc_have_pending_finalizers
  /\ unchangedInSweep

\* Fault: the swept list keeps its length.
FaultSweepDone ==
  /\ gcpc \in {"sweep", "sweepMarked"}
  /\ cur # NoList
  /\ i >= Len(lists[cur])
  /\ cur' = NoList
  /\ UNCHANGED <<lists, jl_gc_have_pending_finalizers, gcpc, todo, i, j, orig_marked_len,
                 nursery, heapVars, historyVars>>

SweepDone ==
  /\ gcpc \in {"sweep", "sweepMarked"}
  /\ cur # NoList
  /\ i >= Len(lists[cur])
  /\ lists' = [lists EXCEPT ![cur] = SubSeq(@, 1, j)]
  /\ cur' = NoList
  /\ UNCHANGED <<jl_gc_have_pending_finalizers, gcpc, todo, i, j, orig_marked_len, nursery,
                 heapVars, historyVars>>

-----------------------------------------------------------------------------
(* One iteration of mark_finlist.  It has a branch for an empty word too,  *)
(* which is never taken: the sweep removes them, and TypeOK would show one *)
(* that it left, as MarkTrace would trace it.                              *)

Marking == /\ gcpc \in {"mark", "markMarked", "markToFinalize"}
           /\ cur # NoList
           /\ i < Len(lists[cur])

unchangedInMark == UNCHANGED <<jl_gc_have_pending_finalizers, gcpc, cur, todo, j,
                               orig_marked_len, nursery, heap, old, copy, historyVars>>

\* The word after the current one is skipped when it is a C function.
after(word) == IF gc_ptr_tag(word, 1) THEN i + 2 ELSE i + 1

MarkNative ==
  /\ Marking
  /\ gc_ptr_tag(get(cur, i), 2)
  /\ i' = after(get(cur, i))
  /\ UNCHANGED <<lists, live>>
  /\ unchangedInMark

\* trace_object keeps the object, and the list points to where it is now.
MarkTrace ==
  LET word == get(cur, i) IN
  /\ Marking
  /\ ~gc_ptr_tag(word, 2)
  /\ live' = live \cup {word.addr}
  /\ lists' = [lists EXCEPT ![cur][i + 1] = PointTo(word.addr, word.tag)]
  /\ i' = after(word)
  /\ unchangedInMark

MarkDone ==
  /\ gcpc \in {"mark", "markMarked", "markToFinalize"}
  /\ cur # NoList
  /\ i >= Len(lists[cur])
  /\ cur' = NoList
  /\ UNCHANGED <<lists, jl_gc_have_pending_finalizers, gcpc, todo, i, j, orig_marked_len,
                 nursery, heapVars, historyVars>>

-----------------------------------------------------------------------------
Pass ==
  \/ \E m \in Mutators : NextMutator(m)
  \/ SweepMarked \/ StartMarking \/ MarkMarked \/ MarkToFinalize \/ EndGC
  \/ SweepNull \/ SweepFreed \/ SweepOld \/ SweepKeep \/ SweepDone
  \/ MarkNative \/ MarkTrace \/ MarkDone

Next ==
  \/ \E o \in Objects : Alloc(o) \/ Finalize(o)
  \/ \E m \in Mutators : AddFinalizer(m)
  \/ RunFinalizers
  \/ \E isNursery \in BOOLEAN : StartGC(isNursery)
  \/ Pass

Spec == Init /\ [][Next]_vars

-----------------------------------------------------------------------------
(* Properties.                                                             *)

\* Entries are pairs of words in every list; the loops rely on it.
TypeOK ==
  /\ lists \in [Lists -> Seq(Word)]
  /\ \A l \in Lists : Len(lists[l]) % 2 = 0
  /\ jl_gc_have_pending_finalizers \in {0, 1}
  /\ gcpc \in {"none", "sweep", "sweepMarked", "mark", "markMarked", "markToFinalize"}
  /\ cur \in Lists \cup {NoList}
  /\ todo \subseteq Mutators
  /\ i \in Nat /\ j \in Nat /\ orig_marked_len \in Nat
  /\ nursery \in BOOLEAN
  /\ heap \subseteq Objects /\ old \subseteq heap /\ live \subseteq heap
  /\ copy \in [Objects -> {0, 1}]
  /\ kept \subseteq Objects
  /\ before \in [Lists -> Seq(Word)]

\* Between collections no list points to an object that was freed, or to
\* where an object used to be.  In particular the entries that a nursery
\* collection does not look at (the ones before orig_marked_len) need no look.
EntriesAreLive ==
  gcpc = "none" =>
    \A l \in Lists : \A n \in 1..Len(lists[l]) :
      LET word == lists[l][n]
      IN  word.addr \in Objects => /\ word.addr \in heap
                                   /\ word.copy = copy[word.addr]

\* The marking of the threads' lists (julia_finalizer.rs:48-52) has nothing to
\* do: the sweep empties them, into finalizer_list_marked or to_finalize.
ThreadListsAreEmptied ==
  gcpc \in {"mark", "markMarked", "markToFinalize"} =>
    \A m \in Mutators \ todo : lists[m] = <<>>

\* The runtime looks at to_finalize only when the flag is set, so the flag is
\* set exactly when a finalizer is waiting.
PendingFlag ==
  gcpc = "none" => (jl_gc_have_pending_finalizers = 1 <=> lists[ToFinalize] # <<>>)

\* The debug_assert of gc_ptr_clear_tag (julia_finalizer.rs:119) holds where it
\* is called: for each entry of the sweep (:144), and in the marking for the
\* words whose first tag is set (:208).
TagsAreClearedOfObjects ==
  Sweeping \/ (Marking /\ gc_ptr_tag(get(cur, i), 1)) => gc_ptr_clear_tag_ok(get(cur, i))

\* The pass ends: each of its steps gets nearer to the end, although the
\* sweep pushes to lists while it goes through one of them.  (Only the pass
\* can step then, so it is not stuck either, or TLC would report a deadlock.)
Phases == [none |-> 0, markToFinalize |-> 1, markMarked |-> 2, mark |-> 3,
           sweepMarked |-> 4, sweep |-> 5]
ListsLeft == 2 * Cardinality(todo) + (IF cur = NoList THEN 0 ELSE 1)
WordsLeft == IF cur = NoList THEN 0 ELSE Len(lists[cur]) - i
Progress ==
  \/ Phases[gcpc'] < Phases[gcpc]
  \/ /\ gcpc' = gcpc
     /\ \/ ListsLeft' < ListsLeft
        \/ ListsLeft' = ListsLeft /\ WordsLeft' < WordsLeft
PassProgresses == [][gcpc # "none" => Progress]_vars

(* The lists implement the registry.  While the pass runs, the registry is *)
(* what the lists were when it started; at the end it is what they are.    *)
PairSet == LET addrs == Objects \cup Pointers
           IN  {p \in addrs \X Tags \X addrs : /\ (p[1] \in Pointers) <=> (p[2] = 3)
                                              /\ (p[3] \in Pointers) <=> (p[2] # 0)}

EntryNumbers(ls, from) == UNION {{l} \X (1..(Len(ls[l]) \div 2)) : l \in from}
pair(ls, e) == LET list == ls[e[1]]
               IN  <<list[2 * e[2] - 1].addr, list[2 * e[2] - 1].tag, list[2 * e[2]].addr>>
count(ls, from, p) == Cardinality({e \in EntryNumbers(ls, from) : pair(ls, e) = p})

view == IF gcpc = "none" THEN lists ELSE before

registeredPairs == [p \in PairSet |-> count(view, Mutators \cup {Marked}, p)]
pendingPairs == [p \in PairSet |-> count(view, {ToFinalize}, p)]

Registry == INSTANCE FinalizerRegistry WITH
  Pairs <- PairSet,
  Object <- [p \in PairSet |-> p[1]],
  AtQuiescence <- {p \in PairSet : p[2] = 3},
  registered <- registeredPairs,
  pending <- pendingPairs,
  collecting <- gcpc # "none",
  kept <- kept

\* No finalizer is lost or run twice, and none becomes pending while its
\* object is reachable: the lists implement the registry.
ImplementsRegistry == Registry!RegistrySpec
=============================================================================
