----------------------------- MODULE JuliaTypes -----------------------------
(***************************************************************************)
(* What the collector knows of Julia's memory: the places of the fields    *)
(* that it reads, as bindgen found them in Julia's headers and asserts     *)
(* them (julia_types.rs), and the small tags of built-in types.            *)
(*                                                                         *)
(* Addresses count bytes.  A struct is the record of the offsets of the    *)
(* fields that are used, with its size where the code takes it.            *)
(***************************************************************************)
EXTENDS Integers

BYTES_IN_ADDRESS == 8

\* Address::shift::<Address>
Shift(addr, words) == addr + BYTES_IN_ADDRESS * words

arraylist_t == [len |-> 0, items |-> 16, _space |-> 24]
small_arraylist_t == [len |-> 0, items |-> 16]

jl_taggedvalue_t == [header |-> 0, size |-> 8]
jl_svec_t == [length |-> 0, size |-> 8]
jl_genericmemory_t == [length |-> 0, ptr |-> 8, size |-> 16]
jl_genericmemoryref_t == [ptr_or_offset |-> 0, mem |-> 8]
jl_array_t == [ref_ |-> 0]
jl_weakref_t == [value |-> 0]

jl_module_t == [parent |-> 8, bindings |-> 16, bindingkeyset |-> 24,
                usings_backedges |-> 48, scanned_methods |-> 56,
                usings |-> 64, size |-> 392]

\* copy_stack is the low 31 bits of a bit field.
jl_ucontext_t == [stkbuf |-> 8, copy_stack |-> 24]

jl_task_t == [tid |-> 144, gcstack |-> 152, ptls |-> 168, excstack |-> 176,
              ctx |-> 192, size |-> 224]

jl_gcframe_t == [nroots |-> 0, prev |-> 8]
jl_excstack_t == [top |-> 0, size |-> 16]
jl_bt_element_t == [size |-> 8]

jl_thread_heap_common_t == [live_tasks |-> 64, mallocarrays |-> 128]
jl_gc_tls_states_common_t == [heap |-> 0]
jl_tls_states_t == [gc_tls_common |-> 832, current_task |-> 2184, next_task |-> 2192,
                    previous_task |-> 2200, root_task |-> 2208,
                    bt_data |-> 2248, bt_size |-> 2256, previous_exception |-> 2600]

\* Built-in types have a number in place of their address in a header.
small_tags ==
  [datatype |-> 2, unionall |-> 3, uniontype |-> 4, vararg |-> 5, tvar |-> 6,
   symbol |-> 7, module |-> 8, simplevector |-> 9, string |-> 10, task |-> 11,
   gotoifnot |-> 28, returnnode |-> 29, enternode |-> 30, pinode |-> 31,
   phinode |-> 32, phicnode |-> 33, upsilonnode |-> 34, globalref |-> 35,
   quotenode |-> 37]
jl_max_tags == 64
=============================================================================
