----------------------------- MODULE MemorySlice -----------------------------
(***************************************************************************)
(* JuliaMemorySlice::copy (slots.rs): one slice of object memory is copied *)
(* to another, which may overlap it, one atomic word at a time, while      *)
(* other threads may read both.                                            *)
(*                                                                         *)
(* Addresses count words: the code's slices start at multiples of          *)
(* BYTES_IN_ADDRESS and it compares addresses that differ by count words.  *)
(* mmtk_memory_region_copy (api.rs) makes both slices of the same count.   *)
(***************************************************************************)
EXTENDS Integers

CONSTANTS
  Words,   \* the memory is the words 0 .. Words - 1
  Values

ASSUME MemorySliceAssumption == Words \in Nat

Addresses == 0 .. Words - 1
Starts == 0 .. Words
Counts == 0 .. Words

VARIABLES
  mem,
  copying,
  src, tgt,  \* where the two slices start
  count,
  i,         \* words copied so far
  before     \* history: the memory when the copy started

vars == <<mem, copying, src, tgt, count, i, before>>

Init == /\ mem \in [Addresses -> Values]
        /\ copying = FALSE
        /\ src = 0 /\ tgt = 0 /\ count = 0 /\ i = 0
        /\ before = mem

mmtk_memory_region_copy(s, t, n) ==
  /\ ~copying
  /\ s + n <= Words /\ t + n <= Words
  /\ copying' = TRUE
  /\ src' = s /\ tgt' = t /\ count' = n /\ i' = 0
  /\ before' = mem
  /\ UNCHANGED mem

\* Fault: the two slices are compared the wrong way round.
FaultForwards == src < tgt \/ src > tgt + count

\* The words are copied from the first to the last, or the other way round.
Forwards == tgt < src \/ tgt > src + count

\* Fault: the loop runs over 0..=n.
FaultCopyWord ==
  LET k == IF Forwards THEN i ELSE count - i
  IN  /\ copying
      /\ i <= count
      /\ mem' = [a \in Addresses |-> IF a = tgt + k /\ src + k \in Addresses
                                      THEN mem[src + k] ELSE mem[a]]
      /\ i' = i + 1
      /\ UNCHANGED <<copying, src, tgt, count, before>>

CopyWord ==
  LET k == IF Forwards THEN i ELSE count - i - 1
  IN  /\ copying
      /\ i < count
      /\ mem' = [mem EXCEPT ![tgt + k] = mem[src + k]]
      /\ i' = i + 1
      /\ UNCHANGED <<copying, src, tgt, count, before>>

EndCopy == /\ copying
           /\ i = count
           /\ copying' = FALSE
           /\ UNCHANGED <<mem, src, tgt, count, i, before>>

Next == \/ \E s, t \in Starts, n \in Counts : mmtk_memory_region_copy(s, t, n)
        \/ CopyWord
        \/ EndCopy

Spec == Init /\ [][Next]_vars

-----------------------------------------------------------------------------
(* Properties.                                                             *)

TypeOK == /\ mem \in [Addresses -> Values] /\ before \in [Addresses -> Values]
          /\ copying \in BOOLEAN
          /\ src \in Starts /\ tgt \in Starts /\ count \in Counts
          /\ src + count <= Words /\ tgt + count <= Words
          /\ i \in 0 .. count

InTarget(a) == tgt <= a /\ a < tgt + count
AsCopied(a) == before[a - tgt + src]

\* The copy ends with in the target what was in the source when it started,
\* however they overlap, and with the rest of the memory as it was.
CopiesLikeMemmove ==
  (copying /\ i = count) =>
    \A a \in Addresses : mem[a] = IF InTarget(a) THEN AsCopied(a) ELSE before[a]

\* A thread that reads the memory during the copy finds in every word what
\* was there or what will be there, and never the word of another place.
WordsAreOldOrNew ==
  copying => \A a \in Addresses : \/ mem[a] = before[a]
                                  \/ InTarget(a) /\ mem[a] = AsCopied(a)
=============================================================================
