----------------------------- MODULE MCTracing -----------------------------
(***************************************************************************)
(* Heaps to collect.  A heap is given by its objects (the value of the     *)
(* header and the size of each), the references in its words, its other    *)
(* words, and the roots; all words that are not given are 0.               *)
(*                                                                         *)
(* Addresses up to 20000 are outside MMTk's heap: types, threads, stacks,  *)
(* memory of C.  Objects are at At(1), At(2), ... and move by 20000.       *)
(***************************************************************************)
EXTENDS Tracing, TLC

MCIsMapped(a) == a >= 20000
MCStackbase == 0 :> 13000
MCNonPtrEntry == -1  \* no address is negative

At(k) == 20000 + 512 * k
Nothing == At(0)

-----------------------------------------------------------------------------
(* Types.                                                                  *)

\* A layout of two fields, with what is behind it.
MkLayout(size, pointers, fielddesc) ==
  LET width == 2^fielddesc
      descriptions == 4 * width
      byte(j) == (pointers[1 + j \div width] \div 256^(j % width)) % 256
  IN  [size |-> size, nfields |-> 2, npointers |-> Len(pointers),
       first_ptr |-> IF pointers = <<>> THEN -1 ELSE pointers[1],
       fielddesc_type |-> fielddesc,
       arrayelem_isboxed |-> FALSE, arrayelem_isunion |-> FALSE,
       tail |-> [i \in 1 .. descriptions + width * Len(pointers) |->
                   IF i <= descriptions THEN 255 ELSE byte(i - 1 - descriptions)]]

Struct(size, pointers, fielddesc) == [name |-> "", layout |-> MkLayout(size, pointers, fielddesc)]
Memory(layout) == [name |-> "GenericMemory", layout |-> layout]

\* Addresses of types.
Plain == 2000
Pair16 == 2032
Triple32 == 2064
Array == 2096
Boxed == 2128
Structs == 2160
Structs16 == 2192
Second == 2224
Union == 2256
Bytes == 2352
WeakRef == 2288
Symbol == 2320
Small(tag) == 3000 + 16 * small_tags[tag]

MCDataTypes ==
  (Plain :> Struct(16, <<>>, 0)) @@ (Pair16 :> Struct(16, <<1>>, 1))
  @@ (Triple32 :> Struct(24, <<0, 2>>, 2))
  @@ (Array :> [name |-> "Array", layout |-> MkLayout(24, <<1>>, 0)])
  @@ (Boxed :> Memory([MkLayout(8, <<0>>, 0) EXCEPT !.arrayelem_isboxed = TRUE]))
  @@ (Structs :> Memory(MkLayout(24, <<0, 2>>, 0)))
  @@ (Structs16 :> Memory(MkLayout(16, <<0, 1>>, 1)))
  @@ (Second :> Memory(MkLayout(16, <<1>>, 0)))
  @@ (Union :> Memory([MkLayout(8, <<>>, 0) EXCEPT !.arrayelem_isunion = TRUE]))
  @@ (Bytes :> Memory(MkLayout(1, <<>>, 0)))
  @@ (WeakRef :> Struct(8, <<>>, 0))
  @@ (Small("task") :> Struct(224, <<0>>, 0))
  @@ (Small("globalref") :> Struct(24, <<0>>, 0))
  @@ [t \in {Small(tag) : tag \in {"module", "simplevector", "string"}} |-> Struct(0, <<>>, 0)]

MCSmallTypeof == [i \in {2 * small_tags[tag] : tag \in DOMAIN small_tags} |-> 3000 + 8 * i]

\* Headers: a small tag, a type or what a buffer has, and the low bits that
\* the collector uses.
Tag(tag) == 16 * small_tags[tag]
Header(type) == type + 3

-----------------------------------------------------------------------------
(* Heaps.                                                                  *)

\* A reference to the place off in the object to, in the word at from + d.
Ref(from, d, to, off) == [from |-> from, at |-> from + d, to |-> to, off |-> off]
\* The same in a word outside of objects, that from needs.
Word(from, at, to, off) == [from |-> from, at |-> at, to |-> to, off |-> off]

NoSpec ==
  [objects |-> <<>>, refs |-> {}, stacks |-> {}, words |-> <<>>, threads |-> {},
   threadNodes |-> {}, vmNodes |-> {}, vmTPinned |-> {}, vmSlots |-> {},
   weak |-> {}, finalizers |-> {}, pinnable |-> {}, stay |-> {}]

\* The types of Nothing and of Julia's own symbols are objects that stay.
MkHeap(s) ==
  LET objects == s.objects @@ (Nothing :> <<Plain, 32>>)
      size == [o \in DOMAIN objects |-> objects[o][2]]
      edges == s.refs \cup s.stacks
      extent(o) == {o - 8 + 8 * k : k \in 0 .. size[o] \div 8 - 1}
      olds == UNION {extent(o) : o \in DOMAIN objects}
      blank == [a \in olds \cup {a + 20000 : a \in olds} |-> 0]
      headers == [a \in {o - 8 : o \in DOMAIN objects} |-> Header(objects[a + 8][1])]
      pointers == [a \in {e.at : e \in edges} |->
                     LET e == CHOOSE e \in edges : e.at = a IN e.to + e.off]
      stacked == {e.to : e \in s.stacks}
  IN  [mem |-> pointers @@ s.words @@ headers @@ blank,
       size |-> size, edges |-> edges, threads |-> s.threads,
       vmRoots |-> [tpinned |-> s.vmTPinned, nodes |-> s.vmNodes, slots |-> s.vmSlots],
       roots |-> [tpinned |-> s.vmTPinned \cup stacked,
                  nodes |-> s.vmNodes \cup s.threadNodes, slots |-> s.vmSlots],
       inUse |-> stacked \cup s.threadNodes \cup s.vmNodes \cup s.vmTPinned,
       weak |-> s.weak, finalizers |-> s.finalizers, pinnable |-> s.pinnable,
       moving |-> {DOMAIN objects \ (s.stay \cup {Nothing})}]

\* An array that begins at the second of its memory's elements; a cycle; a
\* struct that native code may pin, like a symbol outside the heap.
Arrays ==
  LET svec == At(1) array == At(2) memory == At(3) pair == At(4) gref == At(5)
      root == 14000
  IN  MkHeap([NoSpec EXCEPT
        !.objects = (svec :> <<Tag("simplevector"), 32>>) @@ (array :> <<Array, 32>>)
                    @@ (memory :> <<Boxed, 48>>) @@ (pair :> <<Pair16, 32>>)
                    @@ (gref :> <<Tag("globalref"), 32>>),
        !.refs = {Word(0, root, svec, 0),
                  Ref(svec, 8, array, 0), Ref(svec, 16, memory, 0),
                  Ref(array, 0, memory, 24), Ref(array, 8, memory, 0),
                  Ref(memory, 8, memory, 16), Ref(memory, 16, pair, 0),
                  Ref(memory, 24, gref, 0),
                  Ref(pair, 8, svec, 0), Ref(gref, 0, pair, 0)},
        !.words = (svec :> 2) @@ (array + 16 :> 1) @@ (memory :> 2) @@ (pair :> 77),
        !.vmSlots = {root}, !.pinnable = {pair, 15000}])

\* Memories of structs, with words between the references that are none;
\* memory of C; a union; a string; memory in a string that stays.
Memories ==
  LET svec == At(1) structs == At(2) second == At(3) union == At(4) wide == At(5)
      triple == At(6) string == At(7) text == At(8) shared == At(9) root == 14000 data == 14100
  IN  MkHeap([NoSpec EXCEPT
        !.objects = (svec :> <<Tag("simplevector"), 64>>) @@ (structs :> <<Structs, 80>>)
                    @@ (second :> <<Second, 32>>) @@ (union :> <<Union, 64>>)
                    @@ (wide :> <<Structs16, 48>>) @@ (triple :> <<Triple32, 32>>)
                    @@ [t \in {string, text} |-> <<Tag("string"), 24>>]
                    @@ (shared :> <<Bytes, 32>>),
        !.refs = {Word(0, root, svec, 0),
                  Ref(svec, 8, structs, 0), Ref(svec, 16, second, 0),
                  Ref(svec, 24, union, 0), Ref(svec, 32, wide, 0),
                  Ref(structs, 8, structs, 16), Ref(structs, 16, string, 0),
                  Ref(structs, 56, triple, 0),
                  Word(second, data + 8, triple, 0), Word(second, data + 24, string, 0),
                  Ref(union, 8, union, 16),
                  Ref(wide, 8, wide, 16), Ref(wide, 24, string, 0),
                  Ref(triple, 16, wide, 0), Ref(svec, 40, shared, 0),
                  Ref(shared, 8, text, 8), Ref(shared, 16, text, 0)},
        !.words = (svec :> 5) @@ (text :> 5) @@ (shared :> 5) @@ (structs :> 2) @@ (structs + 24 :> 77)
                  @@ (structs + 48 :> 78)
                  @@ (second :> 2) @@ (second + 8 :> data) @@ (data :> 79)
                  @@ (data + 16 :> 80) @@ (union :> 3) @@ (union + 16 :> 81)
                  @@ (union + 40 :> 82) @@ (wide :> 1) @@ (triple + 8 :> 83)
                  @@ (string :> 5) @@ (string + 8 :> 84),
        !.vmSlots = {root}, !.stay = {text}])

-----------------------------------------------------------------------------
(* Threads.                                                                *)

Ptls == 4000
Field(field) == Ptls + jl_tls_states_t[field]
HeapField(field) == Field("gc_tls_common") + jl_thread_heap_common_t[field]

\* A list that holds objs, at items, in a thread's heap.
ListWords(field, items, objs) ==
  (HeapField(field) :> Len(objs)) @@ (HeapField(field) + 16 :> items)
  @@ [a \in {items + 8 * k : k \in 0 .. Len(objs) - 1} |-> objs[1 + (a - items) \div 8]]

Blank(words) == [a \in words |-> 0]
BlankThread ==
  Blank({Field(f) : f \in {"current_task", "next_task", "previous_task", "root_task",
                           "bt_data", "bt_size", "previous_exception"}})

\* Words from an address on.
Words(addr, seq) == [a \in {addr + 8 * k : k \in 0 .. Len(seq) - 1} |-> seq[1 + (a - addr) \div 8]]

\* A thread runs the task root, with three frames and an exception: of slots,
\* of the addresses of slots, and of finalizers, some tagged.  The stack of
\* copied was copied to a buffer; another task uses that place now.  Nothing
\* but its entry in live_tasks refers to the task parked.
Tasks ==
  LET root == At(1) copied == At(2) stkbuf == At(4) a == At(5) b == At(6) c == At(7)
      exc == At(8) value == At(9) child == At(10) parked == At(3) d == At(11) e == At(12)
      slot == 14000
  IN  MkHeap([NoSpec EXCEPT
        !.objects = [t \in {root, copied, parked} |-> <<Tag("task"), 240>>]
                    @@ (stkbuf :> <<JULIA_BUFF_TAG - 3, 64>>) @@ (a :> <<Pair16, 32>>)
                    @@ [o \in {b, c, exc, child, d, e} |-> <<Plain, 32>>]
                    @@ (value :> <<Pair16, 32>>),
        !.refs = {Word(0, Field("root_task"), root, 0),
                  Word(0, Field("current_task"), root, 0),
                  Word(0, Field("previous_exception"), exc, 0),
                  Word(0, slot, copied, 0), Word(0, slot + 8, child, 0),
                  Word(0, slot + 16, b, 0),
                  Ref(a, 8, b, 0), Ref(value, 8, child, 0)},
        !.stacks = {Word(root, 12016, a, 0), Word(root, 12072, c, 0),
                    Word(root, 12096, c, 1), Word(root, 12128, a, 0),
                    Word(root, 14216, exc, 0),
                    Ref(copied, 200, stkbuf, 0), Word(copied, stkbuf + 48, d, 0),
                    Word(copied, stkbuf + 40, a, 0), Word(parked, 12216, e, 0)},
        !.words = (root + 152 :> 12000) @@ (root + 168 :> Ptls) @@ (root + 176 :> 14200)
                  @@ Words(12000, <<8, 12048, 0, 0>>) @@ Words(12048, <<5, 12080, 12072>>)
                  @@ Words(12080, <<20, 0, 0, 8888, 8003, 8888, 0>>)
                  @@ Words(14200, <<1, 64>>)
                  @@ (copied + 152 :> 12944) @@ (copied + 216 :> 56)
                  @@ Words(12944, <<4, 0, 77, 78, 79, 80, 81>>)
                  @@ Words(stkbuf - 16, <<64>>) @@ Words(stkbuf, <<5, 12968, 12992, 4, 0>>)
                  @@ (parked + 152 :> 12200) @@ Words(12200, <<4, 0>>)
                  @@ Words(16000, <<9999, -1, 17, value, -1, 1, 9999>>)
                  @@ (Field("bt_data") :> 16000) @@ (Field("bt_size") :> 7)
                  @@ ListWords("live_tasks", 14300, <<copied, parked>>)
                  @@ ListWords("mallocarrays", 14400, <<>>) @@ BlankThread,
        !.threads = {Ptls}, !.threadNodes = {root, exc, value},
        !.vmSlots = {slot, slot + 8, slot + 16}, !.vmNodes = {exc}, !.vmTPinned = {c}])

\* Weak references to what lives, dies, and is kept by finalizers only; one
\* that is itself kept so; tables with entries of each kind.
WeakRefs ==
  LET root == At(1) svec == At(2) live == At(3) dead == At(4) kept == At(5) task == At(6)
      w1 == At(7) w2 == At(8) w3 == At(9) w4 == At(10)
      m1 == At(11) m2 == At(12) m3 == At(13) t2 == At(14)
      slot == 14000 finalizer == 14008 data == 14100
  IN  MkHeap([NoSpec EXCEPT
        !.objects = [t \in {root, task, t2} |-> <<Tag("task"), 240>>]
                    @@ (svec :> <<Tag("simplevector"), 64>>)
                    @@ [w \in {w1, w2, w3, w4} |-> <<WeakRef, 16>>]
                    @@ [m \in {m1, m2, m3} |-> <<Boxed, 32>>]
                    @@ [o \in {live, dead} |-> <<Plain, 32>>]
                    @@ (kept :> <<Triple32, 32>>),
        !.refs = {Word(0, Field("root_task"), root, 0), Word(0, slot, svec, 0),
                  Word(0, finalizer, kept, 0), Ref(svec, 8, w1, 0), Ref(svec, 16, w2, 0),
                  Ref(svec, 24, w4, 0), Ref(svec, 32, task, 0), Ref(svec, 40, m1, 0),
                  Word(m1, data, live, 0), Ref(kept, 0, w3, 0), Ref(kept, 16, m3, 0)},
        !.words = (svec :> 5) @@ (w1 :> live) @@ (w2 :> dead) @@ (w3 :> live) @@ (w4 :> kept)
                  @@ (m1 :> 1) @@ (m1 + 8 :> data) @@ (m2 :> 1) @@ (m2 + 8 :> data + 8)
                  @@ (m3 :> 0) @@ (m3 + 8 :> data + 16) @@ (data + 8 :> 0)
                  @@ ListWords("live_tasks", 14300, <<t2, task>>)
                  @@ ListWords("mallocarrays", 14400, <<m2, m1, m3>>) @@ BlankThread,
        !.threads = {Ptls}, !.threadNodes = {root}, !.vmSlots = {slot},
        !.weak = {w1, w2, w3, w4}, !.finalizers = {finalizer}])

\* A module with its usings inside it, which stays, and one with usings in memory of C.
Modules ==
  LET outer == At(1) inner == At(2) svec == At(3) keys == At(4) slot == 14000 usings == 14100
  IN  MkHeap([NoSpec EXCEPT
        !.objects = [m \in {outer, inner} |-> <<Tag("module"), 400>>]
                    @@ (svec :> <<Tag("simplevector"), 32>>) @@ (keys :> <<Plain, 32>>),
        !.refs = {Word(0, slot, outer, 0),
                  Ref(outer, 80, outer, 88), Ref(outer, 88, inner, 0), Ref(outer, 120, inner, 0),
                  Ref(outer, 16, svec, 0), Ref(outer, 24, keys, 0), Ref(svec, 8, keys, 0),
                  Ref(inner, 8, outer, 0), Word(inner, usings, outer, 0)},
        !.words = (outer + 64 :> 8) @@ (inner + 64 :> 4) @@ (inner + 80 :> usings)
                  @@ (svec :> 1),
        !.vmSlots = {slot}, !.stay = {outer}])

\* Objects that SafeHeaps leave in place, moved: a module with its usings inside
\* it, a memory that owns memory of C, and a string that holds the elements of
\* a memory, with an array over it.
Relocations ==
  LET svec == At(1) outer == At(2) inner == At(3) owned == At(4) element == At(5)
      array == At(6) text == At(7) shared == At(8) root == 14000 data == 14100
  IN  MkHeap([NoSpec EXCEPT
        !.objects = (svec :> <<Tag("simplevector"), 48>>)
                    @@ [m \in {outer, inner} |-> <<Tag("module"), 400>>]
                    @@ (owned :> <<Boxed, 32>>) @@ (element :> <<Plain, 32>>)
                    @@ (array :> <<Array, 32>>) @@ (text :> <<Tag("string"), 24>>)
                    @@ (shared :> <<Bytes, 32>>),
        !.refs = {Word(0, root, svec, 0), Ref(svec, 8, outer, 0), Ref(svec, 16, owned, 0),
                  Ref(svec, 24, array, 0),
                  Ref(outer, 80, outer, 88), Ref(outer, 88, inner, 0),
                  Ref(owned, 16, owned, 0), Word(owned, data, element, 0),
                  Ref(array, 0, text, 8), Ref(array, 8, shared, 0),
                  Ref(shared, 8, text, 8), Ref(shared, 16, text, 0)},
        !.words = (svec :> 3) @@ (outer + 64 :> 4) @@ (inner + 64 :> 0)
                  @@ (owned :> 1) @@ (owned + 8 :> data)
                  @@ (array + 16 :> 5) @@ (shared :> 5) @@ (text :> 5),
        !.vmSlots = {root}])

UnsafeHeaps == [relocations |-> Relocations]

SafeHeaps == [arrays |-> Arrays, memories |-> Memories, tasks |-> Tasks,
              weakrefs |-> WeakRefs, modules |-> Modules]

ASSUME SafeHeapsAssumption == \A h \in DOMAIN SafeHeaps : SlotsFollowMoves(SafeHeaps[h])
=============================================================================
