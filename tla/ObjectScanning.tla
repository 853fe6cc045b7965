--------------------------- MODULE ObjectScanning ---------------------------
(***************************************************************************)
(* Where a Julia object keeps its references: scan_julia_object and        *)
(* mmtk_scan_gcstack (julia_scanning.rs), over a memory of words.          *)
(*                                                                         *)
(* A slot is the address of a word and an offset: the word holds a         *)
(* reference plus the offset (slots.rs).  A scan gives the set of the      *)
(* slots that the code visits.                                             *)
(*                                                                         *)
(* An object's reference points behind its header, the word that holds its *)
(* type: a small tag, or the address of the type.  Types do not move; their*)
(* layouts are constants.  A header that is neither is a panic in the code *)
(* and a value outside the domain of DataTypes here.                       *)
(*                                                                         *)
(* External: how a generic memory is stored and where its owner is, the    *)
(* base of a thread's stack and the exception stack (gc.c, gc-mmtk.c).     *)
(***************************************************************************)
EXTENDS JuliaTypes, Sequences

CONSTANTS
  DataTypes,         \* the name and layout of the type at an address
  jl_small_typeof,   \* the addresses of the types with a small tag
  jl_symbol_type,
  jl_weakref_type,
  JULIA_BUFF_TAG,    \* what the header of a buffer holds in place of a type
  julia_copy_stack,  \* the feature: may the stack of a task be copied away?
  Stackbase,         \* of each thread
  MaxFrames,         \* a bound: no stack has more frames
  IsMapped(_),       \* is an address in MMTk's heap?
  mem                \* the words of memory, by address

Load(addr) == mem[addr]

mmtk_object_is_managed_by_mmtk(addr) == IsMapped(addr)

-----------------------------------------------------------------------------
(* Slots.                                                                  *)

Simple(addr) == [addr |-> addr, offset |-> 0]
Offset(addr, offset) == [addr |-> addr, offset |-> offset]

\* Fault: the word of an offset slot is taken for the reference.
FaultLoadSlot(slot) == Load(slot.addr)

\* No object is at 0; an offset slot is only made for a word that points
\* into an object.
LoadSlot(slot) == Load(slot.addr) - slot.offset

\* Simple slots of every step-th word from begin, before end.
SlotsBetween(begin, end, step) ==
  {Simple(Shift(begin, step * k)) : k \in 0 .. (end - begin - 1) \div Shift(0, step)}

-----------------------------------------------------------------------------
(* Types and layouts.                                                      *)

\* The low bits of a header belong to the collector.
mmtk_jl_typetagof(obj) ==
  LET header == Load(obj - jl_taggedvalue_t.size) IN header - (header % 16)

mmtk_jl_to_typeof(t) ==
  IF t < jl_max_tags * 16 THEN jl_small_typeof[t \div BYTES_IN_ADDRESS] ELSE t

mmtk_jl_typeof(obj) == mmtk_jl_to_typeof(mmtk_jl_typetagof(obj))

HasTag(obj, tag) == mmtk_jl_typetagof(obj) = tag * 16
IsBuffer(obj) == mmtk_jl_typetagof(obj) = JULIA_BUFF_TAG
IsSmallTag(obj) == mmtk_jl_typetagof(obj) < jl_max_tags * 16

\* Built-in types whose objects are scanned, and measured, by their layout.
HasPlainTag(obj) ==
  \E tag \in {"datatype", "unionall", "uniontype", "tvar", "vararg", "globalref",
              "gotoifnot", "returnnode", "enternode", "pinode", "phinode",
              "phicnode", "upsilonnode", "quotenode"} : HasTag(obj, small_tags[tag])

DataType(obj) == DataTypes[mmtk_jl_typeof(obj)]
HasName(obj, name) == DataType(obj).name = name
Layout(obj) == DataType(obj).layout

mmtk_jl_fielddesc_size(fielddesc_type) == 2 * 2^fielddesc_type

\* The bytes behind a layout are the descriptions of its fields, then the
\* word offsets of its pointers, in 1, 2 or 4 bytes each.
mmtk_jl_dt_layout_ptrs(l) == mmtk_jl_fielddesc_size(l.fielddesc_type) * l.nfields

PointerOffsets(l) ==
  LET width == 2^l.fielddesc_type
      byte(k, b) == l.tail[1 + mmtk_jl_dt_layout_ptrs(l) + width * k + b]
      value[k \in 0 .. l.npointers, b \in 0 .. 4] ==
        IF b = width THEN 0 ELSE byte(k, b) * 256^b + value[k, b + 1]
  IN  {value[k, 0] : k \in 0 .. l.npointers - 1}

PointerSlots(obj, l) == {Simple(Shift(obj, w)) : w \in PointerOffsets(l)}

-----------------------------------------------------------------------------
(* The stack of a task.                                                    *)

copy_stack(ta) == Load(ta + jl_task_t.ctx + jl_ucontext_t.copy_stack)
StkbufAddr(ta) == ta + jl_task_t.ctx + jl_ucontext_t.stkbuf
HasCopiedStack(ta) == julia_copy_stack /\ Load(StkbufAddr(ta)) # 0 /\ copy_stack(ta) # 0

\* Addresses inside the stack that was copied to stkbuf, while the task does
\* not run, stand for addresses inside the copy.
get_stack_addr(ta, addr) ==
  LET ub == Stackbase[Load(ta + jl_task_t.tid)]
      lb == ub - copy_stack(ta)
  IN  IF /\ HasCopiedStack(ta) /\ Load(ta + jl_task_t.ptls) = 0
         /\ lb <= addr /\ addr < ub
      THEN addr + (Load(StkbufAddr(ta)) - lb)
      ELSE addr

read_stack(ta, addr) == Load(get_stack_addr(ta, addr))

\* Fault: the C function behind a word with tag 1 is not skipped.
FaultRootSlotsOf(indirect, roots) ==
  LET slots[i \in Nat] ==
        IF i \notin DOMAIN roots THEN {}
        ELSE LET root == roots[i]
             IN  CASE indirect -> {Simple(root.target)} \cup slots[i + 1]
                   [] ~indirect /\ root.word % 4 = 3 -> slots[i + 2]
                   [] ~indirect /\ root.word % 4 = 1 -> {Offset(root.addr, 1)} \cup slots[i + 1]
                   [] ~indirect /\ root.word % 4 \in {0, 2} -> {Simple(root.addr)} \cup slots[i + 1]
  IN  slots[0]

\* The slots of a frame.  In an indirect frame its roots are the addresses of
\* the slots.  A frame may be a list of finalizers: a word with tag 1 is
\* followed by a C function, one with both tags is a C pointer itself.
RootSlotsOf(indirect, roots) ==
  LET slots[i \in Nat] ==
        IF i \notin DOMAIN roots THEN {}
        ELSE LET root == roots[i]
             IN  CASE indirect -> {Simple(root.target)} \cup slots[i + 1]
                   [] ~indirect /\ root.word % 4 = 3 -> slots[i + 2]
                   [] ~indirect /\ root.word % 4 = 1 -> {Offset(root.addr, 1)} \cup slots[i + 2]
                   [] ~indirect /\ root.word % 4 \in {0, 2} -> {Simple(root.addr)} \cup slots[i + 1]
  IN  slots[0]

FrameSlots(ta, s) ==
  LET nroots == read_stack(ta, s + jl_gcframe_t.nroots)
      root(at) == [addr |-> get_stack_addr(ta, at), word |-> read_stack(ta, at),
                   target |-> get_stack_addr(ta, read_stack(ta, at))]
  IN  RootSlotsOf(nroots % 2 = 1, [i \in 0 .. (nroots \div 4) - 1 |-> root(Shift(s, 2 + i))])

\* External: jl_gc_scan_julia_exc_obj calls back for every exception.
ExceptionSlots(ta) ==
  LET excstack == Load(ta + jl_task_t.excstack)
      data == excstack + jl_excstack_t.size
  IN  IF excstack = 0 THEN {}
      ELSE SlotsBetween(data, Shift(data, Load(excstack + jl_excstack_t.top)), 1)

\* The innermost frame, the one before it, and so on; then 0.
FrameList(innermost, prev) ==
  LET at[k \in Nat] == IF k = 0 THEN innermost ELSE prev[at[k - 1]]
  IN  at

FrameAt(ta) ==
  FrameList(Load(ta + jl_task_t.gcstack),
            [s \in Nat |-> IF s = 0 THEN 0 ELSE read_stack(ta, s + jl_gcframe_t.prev)])
Frames(ta) == {FrameAt(ta)[k] : k \in 0 .. MaxFrames - 1} \ {0}

mmtk_scan_gcstack(ta) ==
  (IF HasCopiedStack(ta) THEN {Simple(StkbufAddr(ta))} ELSE {})
  \cup (UNION {FrameSlots(ta, s) : s \in Frames(ta)})
  \cup ExceptionSlots(ta)

-----------------------------------------------------------------------------
(* The cases of scan_julia_object.                                         *)

SvecSlots(obj) ==
  LET data == obj + jl_svec_t.size
  IN  SlotsBetween(data, Shift(data, Load(obj + jl_svec_t.length)), 1)

OFFSET_OF_INLINED_SPACE_IN_MODULE == jl_module_t.usings + arraylist_t._space

\* A short list of usings is inside the module; items then points into it.
UsingsSlots(m) ==
  LET items == m + jl_module_t.usings + arraylist_t.items
      begin == Load(items)
      nusings == Load(m + jl_module_t.usings + arraylist_t.len)
  IN  (IF mmtk_object_is_managed_by_mmtk(begin)
       THEN {Offset(items, OFFSET_OF_INLINED_SPACE_IN_MODULE)} ELSE {})
      \cup SlotsBetween(begin, Shift(begin, nusings), 4)

ModuleSlots(m) ==
  {Simple(m + jl_module_t[f]) : f \in {"bindings", "bindingkeyset", "parent",
                                       "usings_backedges", "scanned_methods"}}
  \cup UsingsSlots(m)

TaskSlots(ta) == mmtk_scan_gcstack(ta) \cup PointerSlots(ta, Layout(ta))

\* An array points at an element inside its memory too.
ArrayDataSlots(a) ==
  LET ref == a + jl_array_t.ref_
      ptr == Load(ref + jl_genericmemoryref_t.ptr_or_offset)
      memory == Load(ref + jl_genericmemoryref_t.mem)
  IN  IF mmtk_object_is_managed_by_mmtk(ptr) /\ ptr > memory
      THEN {Offset(ref + jl_genericmemoryref_t.ptr_or_offset, ptr - memory)}
      ELSE {}

\* External: where the elements of a generic memory are.  0: behind it; 1:
\* in memory that it owns itself; 2: in memory of C; 3: in a string.
jl_gc_get_owner_address_to_mmtk(m) == m + jl_genericmemory_t.size
jl_gc_genericmemory_how(m) ==
  LET owner == Load(jl_gc_get_owner_address_to_mmtk(m))
  IN  CASE Load(m + jl_genericmemory_t.ptr) = m + jl_genericmemory_t.size -> 0
        [] OTHER -> CASE owner = m -> 1
                      [] owner = 0 -> 2
                      [] OTHER -> 3

\* Elements are references, or structs with references inside.
ElementSlots(m) ==
  LET l == Layout(m)
      begin == Load(m + jl_genericmemory_t.ptr)
      length == Load(m + jl_genericmemory_t.length)
      elsize == l.size \div BYTES_IN_ADDRESS
      end == Shift(begin, length * elsize)
  IN  CASE l.arrayelem_isboxed -> SlotsBetween(begin, Shift(begin, length), 1)
        [] ~l.arrayelem_isboxed /\ l.first_ptr < 0 -> {}
        [] ~l.arrayelem_isboxed /\ l.first_ptr >= 0 /\ l.npointers = 1 ->
             SlotsBetween(Shift(begin, l.first_ptr), end, elsize)
        [] ~l.arrayelem_isboxed /\ l.first_ptr >= 0 /\ l.npointers > 1
             /\ l.fielddesc_type <= 1 ->   \* or it is unimplemented
             UNION {PointerSlots(Shift(begin, k * elsize), l) : k \in 0 .. length - 1}

MemorySlots(m) ==
  CASE jl_gc_genericmemory_how(m) = 3 -> {Simple(jl_gc_get_owner_address_to_mmtk(m))}
    [] OTHER -> IF Load(m + jl_genericmemory_t.length) = 0 THEN {} ELSE ElementSlots(m)

scan_julia_object(obj) ==
  IF IsBuffer(obj) \/ mmtk_jl_typetagof(obj) = jl_symbol_type THEN {}
  ELSE IF HasTag(obj, small_tags.simplevector) THEN SvecSlots(obj)
  ELSE IF HasTag(obj, small_tags.module) THEN ModuleSlots(obj)
  ELSE IF HasTag(obj, small_tags.task) THEN TaskSlots(obj)
  ELSE IF IsSmallTag(obj) /\ ~HasPlainTag(obj) THEN {}
  ELSE IF HasName(obj, "GenericMemory") THEN MemorySlots(obj)
  ELSE IF mmtk_jl_typeof(obj) = jl_weakref_type THEN {}
  ELSE IF HasName(obj, "Array") THEN ArrayDataSlots(obj) \cup PointerSlots(obj, Layout(obj))
  ELSE PointerSlots(obj, Layout(obj))
=============================================================================
