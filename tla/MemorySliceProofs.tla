-------------------------- MODULE MemorySliceProofs --------------------------
(* Proofs about MemorySlice, for a memory of any size and any values. *)
EXTENDS MemorySlice, TLAPS

\* The words copied so far: the first i of the target, or the last i.
Copied(a) ==
  IF Forwards THEN tgt <= a /\ a < tgt + i
              ELSE tgt + count - i <= a /\ a < tgt + count

\* Exactly they have changed, so what is still to be copied is as it was: the
\* direction is chosen so that the copied words are not in the rest of the
\* source.
PartlyCopied ==
  \A a \in Addresses : mem[a] = IF Copied(a) THEN AsCopied(a) ELSE before[a]

IInv == TypeOK /\ (copying => PartlyCopied)

\* Starting a copy keeps the types and has nothing copied.
LEMMA StartKeepsIInv ==
  ASSUME IInv, NEW s \in Starts, NEW t \in Starts, NEW n \in Counts,
         mmtk_memory_region_copy(s, t, n)
  PROVE  IInv'
<1> USE MemorySliceAssumption DEF IInv, mmtk_memory_region_copy
<1>1. TypeOK'
  BY DEF TypeOK, Starts, Counts
<1>2. PartlyCopied'
  <2> SUFFICES ASSUME NEW a \in Addresses
               PROVE  mem'[a] = (IF Copied(a) THEN AsCopied(a) ELSE before[a])'
    BY DEF PartlyCopied
  <2>1. tgt' \in Int /\ count' \in Int /\ i' = 0 /\ a \in Int
    BY DEF Starts, Counts, Addresses
  <2>2. ~Copied(a)'
    BY <2>1 DEF Copied
  <2> QED
    BY <2>2
<1> QED
  BY <1>1, <1>2

\* One word is copied to its place, from a word that the copy has not changed.
LEMMA CopyWordKeepsIInv ==
  ASSUME IInv, CopyWord
  PROVE  IInv'
<1> DEFINE k == IF Forwards THEN i ELSE count - i - 1
<1>1. /\ copying /\ i < count /\ i' = i + 1
      /\ mem' = [mem EXCEPT ![tgt + k] = mem[src + k]]
      /\ UNCHANGED <<copying, src, tgt, count, before>>
  BY DEF CopyWord
<1>2. /\ src \in Int /\ tgt \in Int /\ count \in Int /\ i \in Int /\ Words \in Int
      /\ 0 <= src /\ 0 <= tgt /\ 0 <= i
      /\ src + count <= Words /\ tgt + count <= Words
  BY MemorySliceAssumption DEF IInv, TypeOK, Starts, Counts
<1>3. k \in Int /\ 0 <= k /\ k < count
  BY <1>1, <1>2
<1>4. tgt + k \in Addresses /\ src + k \in Addresses
  BY <1>2, <1>3 DEF Addresses
<1>5. TypeOK'
  <2>1. mem' \in [Addresses -> Values]
    BY <1>1, <1>4 DEF IInv, TypeOK
  <2>2. i' \in 0 .. count
    BY <1>1, <1>2
  <2> QED
    BY <1>1, <2>1, <2>2 DEF IInv, TypeOK
<1>6. Forwards' <=> Forwards
  BY <1>1 DEF Forwards
<1>7. PartlyCopied'
  <2> SUFFICES ASSUME NEW a \in Addresses
               PROVE  mem'[a] = (IF Copied(a) THEN AsCopied(a) ELSE before[a])'
    BY DEF PartlyCopied
  <2>1. a \in Int
    BY DEF Addresses
  <2>2. Copied(a)' <=> Copied(a) \/ a = tgt + k
    BY <1>1, <1>2, <1>6, <2>1 DEF Copied
  <2>3. ~Copied(src + k)
    BY <1>1, <1>2 DEF Copied, Forwards
  <2>4. mem[src + k] = before[src + k]
    BY <1>1, <1>4, <2>3 DEF IInv, PartlyCopied
  <2>5. CASE a = tgt + k
    <3>1. mem'[a] = mem[src + k]
      BY <1>1, <1>4, <2>5 DEF IInv, TypeOK
    <3>2. a - tgt + src = src + k
      BY <1>2, <1>3, <2>5
    <3> QED
      BY <1>1, <2>2, <2>4, <2>5, <3>1, <3>2 DEF AsCopied
  <2>6. CASE a # tgt + k
    <3>1. mem'[a] = mem[a]
      BY <1>1, <2>6 DEF IInv, TypeOK
    <3>2. mem[a] = IF Copied(a) THEN AsCopied(a) ELSE before[a]
      BY <1>1 DEF IInv, PartlyCopied
    <3> QED
      BY <1>1, <2>2, <2>6, <3>1, <3>2 DEF AsCopied
  <2> QED
    BY <2>5, <2>6
<1> QED
  BY <1>1, <1>5, <1>7 DEF IInv

\* Where the words are that a step copies is an invariant of every copy.
THEOREM CopyInvariant == Spec => []IInv
<1>1. Init => IInv
  <2> SUFFICES ASSUME Init PROVE TypeOK /\ ~copying
    BY DEF IInv
  <2>1. src + count <= Words /\ tgt + count <= Words /\ i \in 0 .. count
    BY MemorySliceAssumption DEF Init
  <2>2. src \in Starts /\ tgt \in Starts /\ count \in Counts
    BY MemorySliceAssumption DEF Init, Starts, Counts
  <2> QED
    BY <2>1, <2>2 DEF Init, TypeOK
<1>2. IInv /\ [Next]_vars => IInv'
  <2> SUFFICES ASSUME IInv, [Next]_vars PROVE IInv'
    OBVIOUS
  <2>1. ASSUME NEW s \in Starts, NEW t \in Starts, NEW n \in Counts,
               mmtk_memory_region_copy(s, t, n)
        PROVE  IInv'
    BY <2>1, StartKeepsIInv
  <2>2. CASE CopyWord
    BY <2>2, CopyWordKeepsIInv
  <2>3. CASE EndCopy
    BY <2>3 DEF EndCopy, IInv, TypeOK
  <2>4. CASE UNCHANGED vars
    BY <2>4 DEF vars, IInv, TypeOK, PartlyCopied, Copied, AsCopied, Forwards
  <2> QED
    BY <2>1, <2>2, <2>3, <2>4 DEF Next
<1> QED
  BY <1>1, <1>2, PTL DEF Spec

\* No copy reaches outside the memory or counts too far.
THEOREM TypeCorrect == Spec => []TypeOK
  BY CopyInvariant, PTL DEF IInv

\* A finished copy is a memmove, whatever the overlap of the two slices.
THEOREM CopyIsMemmove == Spec => []CopiesLikeMemmove
<1>1. IInv => CopiesLikeMemmove
  <2> SUFFICES ASSUME IInv, copying, i = count, NEW a \in Addresses
               PROVE  mem[a] = IF InTarget(a) THEN AsCopied(a) ELSE before[a]
    BY DEF CopiesLikeMemmove
  <2>1. tgt \in Int /\ count \in Int /\ a \in Int
    BY MemorySliceAssumption DEF IInv, TypeOK, Starts, Counts, Addresses
  <2>2. Copied(a) <=> InTarget(a)
    BY <2>1 DEF Copied, InTarget
  <2> QED
    BY <2>2 DEF IInv, PartlyCopied
<1> QED
  BY <1>1, CopyInvariant, PTL

\* A reader sees every word either as it was or as it will be.
THEOREM ReadersSeeOldOrNew == Spec => []WordsAreOldOrNew
<1>1. IInv => WordsAreOldOrNew
  <2> SUFFICES ASSUME IInv, copying, NEW a \in Addresses
               PROVE  \/ mem[a] = before[a]
                      \/ InTarget(a) /\ mem[a] = AsCopied(a)
    BY DEF WordsAreOldOrNew
  <2>1. tgt \in Int /\ count \in Int /\ a \in Int /\ i \in 0 .. count
    BY MemorySliceAssumption DEF IInv, TypeOK, Starts, Counts, Addresses
  <2>2. Copied(a) => InTarget(a)
    BY <2>1 DEF Copied, InTarget
  <2> QED
    BY <2>2 DEF IInv, PartlyCopied
<1> QED
  BY <1>1, CopyInvariant, PTL
=============================================================================
