---------------------------- MODULE RootScanning ----------------------------
(***************************************************************************)
(* The roots of a collection: what scan_roots_in_mutator_thread finds in   *)
(* the state of a thread (scanning.rs), and what Julia's C code reports    *)
(* through the buffers of a RootsWorkClosure (slots.rs).                   *)
(*                                                                         *)
(* There are three kinds of roots.  Tpinned ones pin everything that they  *)
(* reach; nodes are pinned themselves; slots are updated when their object *)
(* moves.                                                                  *)
(*                                                                         *)
(* External: jl_gc_scan_vm_specific_roots (gc-mmtk.c), which asks for a    *)
(* buffer of each kind it needs, fills it, has it renewed when it is full, *)
(* and reports what is in it at the end.  The work packets that MMTk makes *)
(* of the roots are joined into a set for each kind.                       *)
(***************************************************************************)
EXTENDS Integers, Sequences, FiniteSets

CONSTANTS  \* those of ObjectScanning and ObjectModel, but for the memory
  DataTypes, jl_small_typeof, jl_symbol_type, jl_weakref_type, JULIA_BUFF_TAG,
  julia_copy_stack, Stackbase, MaxFrames, IsMapped(_), JULIA_HEADER_SIZE, LosStart, LosEnd

VARIABLE mem

INSTANCE ObjectModel

CONSTANTS
  Kinds,                  \* {"tpinned", "nodes", "slots"}
  ROOT_WORK_PACKET_SIZE,  \* the capacity of a buffer
  JL_BT_NON_PTR_ENTRY     \* usize::MAX, which is not a return address

ASSUME RootScanningAssumption ==
  /\ Kinds = {"tpinned", "nodes", "slots"}
  /\ ROOT_WORK_PACKET_SIZE \in Nat \ {0}

VARIABLES
  unscanned,  \* the jl_tls_states_t of threads that are not scanned yet
  left,       \* roots of each kind that C has not put in a buffer yet
  buffer,     \* those in C's buffer of each kind
  capacity,   \* of that buffer; 0 is RootsWorkBuffer::empty()
  roots       \* the roots given to MMTk

closureVars == <<left, buffer, capacity>>
rootVars == <<unscanned, closureVars, roots>>

NoRoots == [k \in Kinds |-> {}]

-----------------------------------------------------------------------------
(* The roots of a thread.                                                  *)

\* SlotBuffer: what the slots refer to now.
Referents(slots) == {LoadSlot(s) : s \in slots} \ {0}

LiveTasksList(ptls) ==
  ptls + jl_tls_states_t.gc_tls_common + jl_gc_tls_states_common_t.heap
       + jl_thread_heap_common_t.live_tasks

LiveTask(list, i) == Load(Shift(Load(list + small_arraylist_t.items), i))

\* Fault: the last live task is not visited.
FaultLiveTasks(ptls) ==
  LET list == LiveTasksList(ptls)
  IN  {LiveTask(list, i) : i \in 0 .. Load(list + small_arraylist_t.len) - 2}

LiveTasks(ptls) ==
  LET list == LiveTasksList(ptls)
  IN  {LiveTask(list, i) : i \in 0 .. Load(list + small_arraylist_t.len) - 1}

\* Tasks that are roots; live tasks are not, but their stacks are.
RootTasks(ptls) ==
  {Load(ptls + jl_tls_states_t[f]) :
     f \in {"root_task", "current_task", "next_task", "previous_task"}} \ {0}

StackRoots(ptls) ==
  UNION {Referents(mmtk_scan_gcstack(task)) :
           task \in RootTasks(ptls) \cup (LiveTasks(ptls) \ {0})}

BtWord(entry, i) == Load(entry + jl_bt_element_t.size * i)

mmtk_jl_bt_is_native(entry) == BtWord(entry, 0) # JL_BT_NON_PTR_ENTRY
mmtk_jl_bt_num_jlvals(entry) == BtWord(entry, 1) % 8
mmtk_jl_bt_num_uintvals(entry) == (BtWord(entry, 1) \div 8) % 8
mmtk_jl_bt_entry_jlvalue(entry, i) == BtWord(entry, 2 + i)

\* Fault: the numbers of an extended entry are not counted.
FaultEntrySize(entry) ==
  IF mmtk_jl_bt_is_native(entry) THEN 1 ELSE 2 + mmtk_jl_bt_num_jlvals(entry)

mmtk_jl_bt_entry_size(entry) ==
  IF mmtk_jl_bt_is_native(entry) THEN 1
  ELSE 2 + mmtk_jl_bt_num_jlvals(entry) + mmtk_jl_bt_num_uintvals(entry)

\* The values in the backtrace of the exception being thrown.
BacktraceRoots(ptls) ==
  LET bt_data == Load(ptls + jl_tls_states_t.bt_data)
      bt_size == Load(ptls + jl_tls_states_t.bt_size)
      values[i \in Nat] ==
        LET entry == Shift(bt_data, i)
        IN  IF i >= bt_size THEN {}
            ELSE values[i + mmtk_jl_bt_entry_size(entry)] \cup
                 (IF mmtk_jl_bt_is_native(entry) THEN {}
                  ELSE {mmtk_jl_bt_entry_jlvalue(entry, j) :
                          j \in 0 .. mmtk_jl_bt_num_jlvals(entry) - 1})
  IN  values[0]

PreviousException(ptls) == {Load(ptls + jl_tls_states_t.previous_exception)} \ {0}

ThreadRoots(ptls) ==
  [NoRoots EXCEPT !["tpinned"] = StackRoots(ptls),
                  !["nodes"] = RootTasks(ptls) \cup PreviousException(ptls)
                                               \cup BacktraceRoots(ptls)]

-----------------------------------------------------------------------------
(* Actions.                                                                *)

\* A thread is scanned by the worker that takes its packet.
scan_roots_in_mutator_thread(ptls) ==
  /\ ptls \in unscanned
  /\ unscanned' = unscanned \ {ptls}
  /\ roots' = [k \in Kinds |-> roots[k] \cup ThreadRoots(ptls)[k]]
  /\ UNCHANGED closureVars

\* Fault: the buffer is handed over only when another is wanted.
FaultReport(k, renew) ==
  /\ roots' = [roots EXCEPT ![k] = @ \cup IF renew THEN buffer[k] ELSE {}]
  /\ buffer' = [buffer EXCEPT ![k] = {}]
  /\ capacity' = [capacity EXCEPT ![k] = IF renew THEN ROOT_WORK_PACKET_SIZE ELSE 0]

\* report_simple_slots, report_nodes, report_tpinned_nodes.  The vector
\* behind the pointer goes to MMTk; there is none in an empty buffer.
report(k, renew) ==
  /\ roots' = [roots EXCEPT ![k] = @ \cup buffer[k]]
  /\ buffer' = [buffer EXCEPT ![k] = {}]
  /\ capacity' = [capacity EXCEPT ![k] = IF renew THEN ROOT_WORK_PACKET_SIZE ELSE 0]

\* C asks for its first buffer, or for another one when the last is full.
Renew(k) ==
  /\ left[k] # {} \/ capacity[k] > 0
  /\ Cardinality(buffer[k]) = capacity[k]
  /\ report(k, TRUE)
  /\ UNCHANGED <<unscanned, left>>

\* C writes a root into the buffer.
Push(k, root) ==
  /\ root \in left[k]
  /\ Cardinality(buffer[k]) < capacity[k]
  /\ left' = [left EXCEPT ![k] = @ \ {root}]
  /\ buffer' = [buffer EXCEPT ![k] = @ \cup {root}]
  /\ UNCHANGED <<unscanned, capacity, roots>>

\* C is done with this kind.
Finish(k) ==
  /\ left[k] = {} /\ Cardinality(buffer[k]) < capacity[k]
  /\ report(k, FALSE)
  /\ UNCHANGED <<unscanned, left>>

RootsScanned == /\ unscanned = {}
                /\ \A k \in Kinds : left[k] = {} /\ capacity[k] = 0

ScanRoots == \/ \E ptls \in unscanned : scan_roots_in_mutator_thread(ptls)
             \/ \E k \in Kinds : Renew(k) \/ Finish(k) \/ \E r \in left[k] : Push(k, r)
=============================================================================
