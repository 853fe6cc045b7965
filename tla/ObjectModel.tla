----------------------------- MODULE ObjectModel -----------------------------
(***************************************************************************)
(* The extent of an object and the move of its words (object_model.rs),    *)
(* for objects outside the space of large objects and for their starts     *)
(* inside it.                                                              *)
(***************************************************************************)
EXTENDS ObjectScanning

CONSTANTS
  JULIA_HEADER_SIZE,
  LosStart, LosEnd    \* the range of addresses of large objects

\* Fault: rounds down.
FaultAlign(size, align) == (size \div align) * align

llt_align(size, align) == ((size + align - 1) \div align) * align

\* What a sized object is preceded by: mmtk_store_obj_size_c puts it there.
mmtk_get_obj_size(obj) == Load(obj - 2 * JULIA_HEADER_SIZE)

is_object_in_los(obj) == LosStart <= obj /\ obj < LosEnd

\* Elements behind the header and the padded struct, with a byte for each
\* element of a union; or the struct and the owner.
GenericMemorySize(m) ==
  LET l == Layout(m)
      length == Load(m + jl_genericmemory_t.length)
      elements == l.size * length + (IF l.arrayelem_isunion THEN length ELSE 0)
  IN  IF jl_gc_genericmemory_how(m) = 0
      THEN llt_align(elements + llt_align(jl_genericmemory_t.size, 16) + JULIA_HEADER_SIZE, 16)
      ELSE llt_align(jl_genericmemory_t.size + BYTES_IN_ADDRESS + JULIA_HEADER_SIZE, 16)

get_so_object_size(obj) ==
  LET sized(dtsz) == llt_align(dtsz + JULIA_HEADER_SIZE, 16)
  IN  CASE IsBuffer(obj) -> mmtk_get_obj_size(obj)
        [] HasTag(obj, small_tags.simplevector) ->
             sized(Load(obj + jl_svec_t.length) * BYTES_IN_ADDRESS + jl_svec_t.size)
        [] HasTag(obj, small_tags.module) -> sized(jl_module_t.size)
        [] HasTag(obj, small_tags.task) -> sized(jl_task_t.size)
        [] HasTag(obj, small_tags.string) ->   \* the length, the bytes and a NUL
             llt_align(Load(obj) + BYTES_IN_ADDRESS + 1 + JULIA_HEADER_SIZE, 8)
        [] OTHER -> IF HasName(obj, "GenericMemory") THEN GenericMemorySize(obj)
                    ELSE sized(Layout(obj).size)

\* A buffer has its size in front of its header.
get_object_start_ref(obj) ==
  IF IsBuffer(obj) THEN obj - 2 * JULIA_HEADER_SIZE
  ELSE obj - JULIA_HEADER_SIZE

ref_to_object_start(obj) ==
  IF is_object_in_los(obj) THEN obj - 48 ELSE get_object_start_ref(obj)

\* External: jl_gc_update_inlined_array lets a moved memory point at its own
\* elements, when they are behind it.
UpdateInlinedArray(from, to, words) ==
  IF HasName(from, "GenericMemory") /\ jl_gc_genericmemory_how(from) = 0
  THEN [words EXCEPT ![to + jl_genericmemory_t.ptr] = to + jl_genericmemory_t.size]
  ELSE words

\* Fault: a copied memory is not made to point at its own elements.
FaultCopy(from, to) ==
  LET start == ref_to_object_start(from)
      dst == to - (from - start)
      end == dst + get_so_object_size(from)
  IN  [a \in DOMAIN mem |-> IF dst <= a /\ a < end
                             THEN mem[a - dst + start] ELSE mem[a]]

\* The memory after from was copied to to.  Only regular objects may be
\* copied: for a buffer the code panics, so the property AddressesInUseStay,
\* which counts the stacks in buffers in, is what keeps it from that.
copy(from, to) ==
  LET start == ref_to_object_start(from)
      dst == to - (from - start)
      end == dst + get_so_object_size(from)
      copied == [a \in DOMAIN mem |-> IF dst <= a /\ a < end
                                       THEN mem[a - dst + start] ELSE mem[a]]
  IN  UpdateInlinedArray(from, to, copied)
=============================================================================
