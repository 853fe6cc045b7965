-------------------------- MODULE FinalizersProofs --------------------------
(* Proofs about Finalizers, for any threads, objects and lists. *)
EXTENDS Finalizers, FiniteSetTheorems, SequenceTheorems, WellFoundedInduction, TLAPS

-----------------------------------------------------------------------------
(* The elements of a finite set of numbers can be put in ascending order.  *)

FiniteSubsets(T, S) == \A U \in T : U \subseteq S /\ IsFiniteSet(U)
HasSmallest(T) == \E U \in T : \A V \in T : V \subseteq U => V = U

\* A collection of finite sets has a smallest one: induction on finite sets.
LEMMA SmallestFiniteSet ==
  ASSUME NEW S, NEW T, T # {}, FiniteSubsets(T, S)
  PROVE  HasSmallest(T)
<1>1. T \subseteq FiniteSubsetsOf(S)
  BY DEF FiniteSubsets, FiniteSubsetsOf
<1>2. PICK U \in T : \A V \in T : ~(<<V, U>> \in StrictSubsetOrdering(S))
  BY <1>1, WFMin, FS_StrictSubsetOrderingWellFounded
<1> QED
  BY <1>2 DEF FiniteSubsets, StrictSubsetOrdering, HasSmallest

\* A finite set of numbers has a largest one: the one with the fewest above it.
LEMMA LargestNumber ==
  ASSUME NEW S \in SUBSET Nat, IsFiniteSet(S), S # {}
  PROVE  \E n \in S : \A m \in S : m <= n
<1> DEFINE above(n) == {m \in S : m > n}
           Aboves == {above(n) : n \in S}
<1>1. Aboves # {}
  OBVIOUS
<1>2. FiniteSubsets(Aboves, S)
  BY FS_Subset DEF FiniteSubsets
<1> HIDE DEF Aboves
<1>3. PICK U \in Aboves : \A V \in Aboves : V \subseteq U => V = U
  BY <1>1, <1>2, SmallestFiniteSet DEF HasSmallest
<1>4. PICK n \in S : U = above(n)
  BY DEF Aboves
<1>5. ASSUME NEW m \in S, m > n
      PROVE  FALSE
  <2>1. \A k \in S : k > m => k > n
    BY <1>5
  <2>2. above(m) \subseteq above(n) /\ m \in above(n)
    BY <1>5, <2>1
  <2>3. m \notin above(m)
    <3>1. ~(m > m)
      OBVIOUS
    <3> QED
      BY <3>1
  <2>4. above(m) \in Aboves
    BY DEF Aboves
  <2> QED
    BY <1>3, <1>4, <2>2, <2>3, <2>4
<1> QED
  BY <1>5

\* f lists the elements of S in ascending order.
IsAscending(f, S) ==
  /\ f \in [1..Cardinality(S) -> S]
  /\ \A a, b \in 1..Cardinality(S) : a < b => f[a] < f[b]

\* If the elements but the largest can be listed, so can all.
LEMMA AscendingExtends ==
  ASSUME NEW S \in SUBSET Nat, IsFiniteSet(S),
         NEW n \in S, \A m \in S : m <= n,
         NEW f, IsAscending(f, S \ {n})
  PROVE  \E g : IsAscending(g, S)
<1> DEFINE c == Cardinality(S)
           g == [k \in 1..c |-> IF k = c THEN n ELSE f[k]]
<1>1. c \in Nat /\ Cardinality(S \ {n}) = c - 1
  BY FS_CardinalityType, FS_RemoveElement
<1> HIDE DEF c
<1>2. f \in [1..(c - 1) -> S \ {n}] /\ \A a, b \in 1..(c - 1) : a < b => f[a] < f[b]
  BY <1>1 DEF IsAscending
<1>3. g \in [1..c -> S]
  BY <1>1, <1>2
<1>4. ASSUME NEW a \in 1..c, NEW b \in 1..c, a < b
      PROVE  g[a] < g[b]
  <2>1. CASE b = c
    <3>1. a \in 1..(c - 1)
      BY <1>1, <1>4, <2>1
    <3>2. f[a] \in S /\ f[a] # n
      BY <1>2, <3>1
    <3>3. g[a] = f[a] /\ g[b] = n
      BY <1>1, <2>1, <3>1
    <3>4. f[a] \in Nat /\ n \in Nat /\ f[a] <= n
      BY <3>2
    <3>5. f[a] < n
      BY <3>2, <3>4
    <3> QED
      BY <3>3, <3>5
  <2>2. CASE b # c
    BY <1>1, <1>2, <1>4, <2>2
  <2> QED
    BY <2>1, <2>2
<1> QED
  BY <1>3, <1>4 DEF IsAscending, c

\* So Ascending(S) is what its name says.
LEMMA AscendingExists ==
  ASSUME NEW S \in SUBSET Nat, IsFiniteSet(S)
  PROVE  IsAscending(Ascending(S), S)
<1> DEFINE Bad == {U \in SUBSET S : ~\E f : IsAscending(f, U)}
<1>1. SUFFICES ASSUME Bad # {}
               PROVE  FALSE
  <2>1. (Bad = {}) => \E f : IsAscending(f, S)
    OBVIOUS
  <2> QED
    BY <2>1 DEF IsAscending, Ascending
<1>2. FiniteSubsets(Bad, S)
  BY FS_Subset DEF FiniteSubsets
<1>3. PICK U \in Bad : \A V \in Bad : V \subseteq U => V = U
  <2> HIDE DEF Bad
  <2> QED
    BY <1>1, <1>2, SmallestFiniteSet DEF HasSmallest
<1>4. U # {}
  <2>1. IsAscending(<<>>, {})
    BY FS_EmptySet DEF IsAscending
  <2> QED
    BY <2>1
<1>5. PICK n \in U : \A m \in U : m <= n
  <2>1. U \subseteq S /\ IsFiniteSet(U)
    BY <1>2 DEF FiniteSubsets
  <2> QED
    BY <1>4, <2>1, LargestNumber
<1>6. PICK f : IsAscending(f, U \ {n})
  <2>1. U \ {n} \subseteq U /\ U \ {n} # U /\ U \ {n} \in SUBSET S
    BY <1>5
  <2> QED
    BY <1>3, <2>1
<1>7. \E g : IsAscending(g, U)
  <2>1. U \in SUBSET Nat /\ IsFiniteSet(U)
    BY <1>2 DEF FiniteSubsets
  <2> QED
    BY <1>5, <1>6, <2>1, AscendingExtends
<1> QED
  BY <1>3, <1>7

-----------------------------------------------------------------------------
(* The inductive invariant.                                                *)

Odd(w) == w % 2 = 1

\* The two words of an entry.  An entry of a raw pointer has tag 3, and the
\* finalizer is a C function if there is a tag.
EntryOK(v, f) ==
  \/ v = NullWord /\ f = NullWord
  \/ /\ v.addr # Null /\ f.addr # Null
     /\ v.addr \in Pointers <=> v.tag = 3
     /\ f.addr \in Pointers <=> v.tag # 0
     /\ f.tag = 0

\* A list is made of entries, of objects in h.
ListOK(s, h) ==
  /\ s \in Seq(Word)
  /\ Len(s) % 2 = 0
  /\ \A w \in 1..Len(s) : /\ s[w].addr \in h \cup Pointers \cup {Null}
                          /\ Odd(w) => EntryOK(s[w], s[w + 1])

NoEmptyWord(s) == \A w \in 1..Len(s) : s[w].addr # Null

\* A word that does not point to an object that is freed, or to an old place.
Traced(word) == word.addr \in Objects => /\ word.addr \in live
                                         /\ word.copy = copy[word.addr]
TracedUpTo(s, n) == \A w \in 1..Len(s) : w <= n => Traced(s[w])

\* Every word of a list is for where its object is.
Current(s) == \A w \in 1..Len(s) : s[w].addr \in Objects => s[w].copy = copy[s[w].addr]

\* The objects of a list are in h.
ObjectsIn(s, h) == \A w \in 1..Len(s) : s[w].addr \in Objects => s[w].addr \in h

\* A finalizer is pending, during a collection too, exactly if the flag is
\* set.  finalize() and the sweep leave no empty words in two of the lists.
ListsOK ==
  /\ \A l \in Lists : ListOK(lists[l], heap)
  /\ NoEmptyWord(lists[Marked]) /\ NoEmptyWord(lists[ToFinalize])
  /\ jl_gc_have_pending_finalizers = 1 <=> lists[ToFinalize] # <<>>

\* Between collections.  The marked list has only old objects, so nursery
\* collections will keep them where they are.
IdleOK ==
  /\ cur = NoList /\ todo = {} /\ live = {}
  /\ \A l \in Lists : Current(lists[l])
  /\ ObjectsIn(lists[Marked], old)

Emptied(ms) == \A m \in ms : lists[m] = <<>>

\* The part of the marked list that will not be marked is traced.
OldPartOK ==
  /\ orig_marked_len <= Len(lists[Marked])
  /\ orig_marked_len % 2 = 0
  /\ TracedUpTo(lists[Marked], orig_marked_len)

\* In the sweep of a thread's list nothing stays in the list.
SweepOK ==
  /\ cur \in Mutators \cup {NoList}
  /\ cur \notin todo
  /\ Emptied(Mutators \ (todo \cup {cur}))
  /\ cur # NoList => j = 0 /\ i % 2 = 0 /\ i <= Len(lists[cur])
  /\ nursery => OldPartOK

SweepMarkedOK ==
  /\ ~nursery
  /\ todo = {}
  /\ Emptied(Mutators)
  /\ cur \in {Marked, NoList}
  /\ cur # NoList => /\ i % 2 = 0 /\ i <= Len(lists[cur])
                     /\ j % 2 = 0 /\ j <= i

\* The marking is at the first word of an entry, or at a finalizer that is an
\* object, and what it has passed is traced.
AtWord ==
  cur # NoList => /\ i <= Len(lists[cur])
                  /\ Odd(i) => lists[cur][i].tag = 0
                  /\ TracedUpTo(lists[cur], i)

\* The list that a loop of the marking goes through.
MarkOK ==
  /\ Emptied(Mutators)
  /\ OldPartOK
  /\ AtWord
  /\ gcpc = "mark" => cur \in Mutators \cup {NoList}
  /\ gcpc # "mark" => todo = {}
  /\ gcpc = "markMarked" => cur \in {Marked, NoList}
  /\ gcpc = "markMarked" /\ cur = NoList => TracedUpTo(lists[Marked], Len(lists[Marked]))
  /\ gcpc = "markToFinalize" => /\ cur \in {ToFinalize, NoList}
                                /\ TracedUpTo(lists[Marked], Len(lists[Marked]))
                                /\ cur = NoList =>
                                     TracedUpTo(lists[ToFinalize], Len(lists[ToFinalize]))

InMark == gcpc \in {"mark", "markMarked", "markToFinalize"}

IInv ==
  /\ TypeOK
  /\ ListsOK
  /\ gcpc = "none" => IdleOK
  /\ gcpc = "sweep" => SweepOK
  /\ gcpc = "sweepMarked" => SweepMarkedOK
  /\ InMark => MarkOK

-----------------------------------------------------------------------------
(* What the operations on a list keep.                                     *)

LEMMA Push2 ==
  ASSUME NEW s \in Seq(Word), NEW v \in Word, NEW f \in Word
  PROVE  LET t == s \o <<v, f>>
         IN  /\ t \in Seq(Word)
             /\ Len(t) = Len(s) + 2
             /\ \A w \in 1..Len(s) : t[w] = s[w]
             /\ t[Len(s) + 1] = v /\ t[Len(s) + 2] = f
             /\ \A w \in 1..Len(t) : w \notin 1..Len(s) => t[w] \in {v, f}
<1> DEFINE t == s \o <<v, f>>
<1>1. <<v, f>> \in Seq(Word) /\ Len(<<v, f>>) = 2 /\ Len(s) \in Nat
  BY LenProperties
<1>2. /\ t \in Seq(Word)
      /\ Len(t) = Len(s) + 2
      /\ \A w \in 1..Len(s) : t[w] = s[w]
      /\ t[Len(s) + 1] = v /\ t[Len(s) + 2] = f
  BY <1>1, ConcatProperties
<1> HIDE DEF t
<1>3. \A w \in 1..Len(t) : w \in 1..Len(s) \/ w = Len(s) + 1 \/ w = Len(s) + 2
  BY <1>1, <1>2
<1> QED
  BY <1>2, <1>3 DEF t

LEMMA Set2 ==
  ASSUME NEW s \in Seq(Word), NEW k \in Nat, k + 2 <= Len(s),
         NEW v \in Word, NEW f \in Word
  PROVE  LET t == [s EXCEPT ![k + 1] = v, ![k + 2] = f]
         IN  /\ t \in Seq(Word)
             /\ Len(t) = Len(s)
             /\ \A w \in 1..Len(s) : t[w] = IF w = k + 1 THEN v
                                           ELSE IF w = k + 2 THEN f ELSE s[w]
<1> DEFINE u == [s EXCEPT ![k + 1] = v]
<1>1. k + 1 \in 1..Len(s) /\ k + 2 \in 1..Len(s)
  BY LenProperties
<1>2. /\ u \in Seq(Word) /\ Len(u) = Len(s)
      /\ \A w \in 1..Len(s) : u[w] = IF w = k + 1 THEN v ELSE s[w]
  BY <1>1, ExceptSeq
<1> HIDE DEF u
<1>3. /\ [u EXCEPT ![k + 2] = f] \in Seq(Word)
      /\ Len([u EXCEPT ![k + 2] = f]) = Len(s)
      /\ \A w \in 1..Len(s) : [u EXCEPT ![k + 2] = f][w] = IF w = k + 2 THEN f ELSE u[w]
  BY <1>1, <1>2, ExceptSeq
<1> QED
  BY <1>2, <1>3 DEF u

LEMMA Cut ==
  ASSUME NEW s \in Seq(Word), NEW n \in 0..Len(s)
  PROVE  LET t == SubSeq(s, 1, n)
         IN  /\ t \in Seq(Word)
             /\ Len(t) = n
             /\ \A w \in 1..n : t[w] = s[w]
<1>1. \A w \in 1..n : s[w] \in Word
  BY ElementOfSeq, LenProperties
<1>2. n \in Nat
  BY LenProperties
<1> QED
  BY <1>1, <1>2, SubSeqProperties

\* In a list of even length an odd word is not the last.
LEMMA OddIsNotLast ==
  ASSUME NEW n \in Nat, n % 2 = 0, NEW w \in 1..n, Odd(w)
  PROVE  w + 1 \in 1..n
BY DEF Odd

\* An entry, and the objects it may be about.
EntryIn(v, f, h) == /\ v \in Word /\ f \in Word /\ EntryOK(v, f)
                    /\ v.addr \in h \cup Pointers \cup {Null}
                    /\ f.addr \in h \cup Pointers \cup {Null}

\* The entry at an even index of a list.
LEMMA EntryAt ==
  ASSUME NEW h, NEW s, ListOK(s, h), NEW k \in Nat, k % 2 = 0, k < Len(s)
  PROVE  k + 2 <= Len(s) /\ EntryIn(s[k + 1], s[k + 2], h)
<1>1. Len(s) \in Nat /\ Len(s) % 2 = 0
  BY LenProperties DEF ListOK
<1>2. k + 1 \in 1..Len(s) /\ Odd(k + 1) /\ k + 2 \in 1..Len(s) /\ k + 1 + 1 = k + 2
  BY <1>1 DEF Odd
<1>3. s[k + 1] \in Word /\ s[k + 2] \in Word
  BY <1>2, ElementOfSeq DEF ListOK
<1> QED
  BY <1>2, <1>3 DEF ListOK, EntryIn

LEMMA PushKeepsListOK ==
  ASSUME NEW h, NEW s, ListOK(s, h), NEW v, NEW f, EntryIn(v, f, h)
  PROVE  ListOK(s \o <<v, f>>, h)
<1> DEFINE t == s \o <<v, f>>
<1>1. s \in Seq(Word) /\ Len(s) \in Nat /\ Len(s) % 2 = 0
  BY LenProperties DEF ListOK
<1>2. /\ t \in Seq(Word) /\ Len(t) = Len(s) + 2
      /\ \A w \in 1..Len(s) : t[w] = s[w]
      /\ t[Len(s) + 1] = v /\ t[Len(s) + 2] = f
  BY <1>1, Push2 DEF EntryIn
<1> HIDE DEF t
<1>3. ASSUME NEW w \in 1..Len(t)
      PROVE  t[w].addr \in h \cup Pointers \cup {Null}
  BY <1>1, <1>2 DEF ListOK, EntryIn
<1>4. ASSUME NEW w \in 1..Len(t), Odd(w)
      PROVE  EntryOK(t[w], t[w + 1])
  <2>1. CASE w \in 1..Len(s)
    <3>1. w + 1 \in 1..Len(s)
      BY <1>1, <1>4, <2>1, OddIsNotLast
    <3> QED
      BY <1>2, <1>4, <2>1, <3>1 DEF ListOK
  <2>2. CASE w \notin 1..Len(s)
    <3>1. w = Len(s) + 1
      BY <1>1, <1>2, <1>4, <2>2 DEF Odd
    <3>2. w + 1 = Len(s) + 2
      BY <1>1, <3>1
    <3> QED
      BY <1>2, <3>1, <3>2 DEF EntryIn
  <2> QED
    BY <2>1, <2>2
<1>5. Len(t) % 2 = 0
  BY <1>1, <1>2
<1> QED
  BY <1>2, <1>3, <1>4, <1>5 DEF ListOK, t

LEMMA SetKeepsListOK ==
  ASSUME NEW h, NEW s, ListOK(s, h), NEW k \in Nat, k % 2 = 0, k + 2 <= Len(s),
         NEW v, NEW f, EntryIn(v, f, h)
  PROVE  ListOK([s EXCEPT ![k + 1] = v, ![k + 2] = f], h)
<1> DEFINE t == [s EXCEPT ![k + 1] = v, ![k + 2] = f]
<1>1. s \in Seq(Word) /\ Len(s) \in Nat /\ Len(s) % 2 = 0
  BY LenProperties DEF ListOK
<1>2. /\ t \in Seq(Word) /\ Len(t) = Len(s)
      /\ \A w \in 1..Len(s) : t[w] = IF w = k + 1 THEN v
                                    ELSE IF w = k + 2 THEN f ELSE s[w]
  BY <1>1, Set2 DEF EntryIn
<1> HIDE DEF t
<1>3. ASSUME NEW w \in 1..Len(t)
      PROVE  t[w].addr \in h \cup Pointers \cup {Null}
  BY <1>1, <1>2 DEF ListOK, EntryIn
<1>4. ASSUME NEW w \in 1..Len(t), Odd(w)
      PROVE  EntryOK(t[w], t[w + 1])
  <2>1. w + 1 \in 1..Len(s) /\ w \in 1..Len(s)
    BY <1>1, <1>2, <1>4, OddIsNotLast
  <2>2. CASE w = k + 1
    BY <1>2, <2>1, <2>2 DEF EntryIn
  <2>3. CASE w # k + 1
    <3>1. w # k + 2 /\ w + 1 # k + 1 /\ w + 1 # k + 2
      BY <1>4, <2>1, <2>3 DEF Odd
    <3>2. t[w] = s[w] /\ t[w + 1] = s[w + 1]
      BY <1>2, <2>1, <2>3, <3>1
    <3> QED
      BY <1>4, <2>1, <3>2 DEF ListOK
  <2> QED
    BY <2>2, <2>3
<1> QED
  BY <1>1, <1>2, <1>3, <1>4 DEF ListOK, t

LEMMA CutKeepsListOK ==
  ASSUME NEW h, NEW s, ListOK(s, h), NEW n \in 0..Len(s), n % 2 = 0
  PROVE  ListOK(SubSeq(s, 1, n), h)
<1> DEFINE t == SubSeq(s, 1, n)
<1>1. s \in Seq(Word) /\ Len(s) \in Nat
  BY LenProperties DEF ListOK
<1>2. t \in Seq(Word) /\ Len(t) = n /\ \A w \in 1..n : t[w] = s[w]
  BY <1>1, Cut
<1> HIDE DEF t
<1>3. ASSUME NEW w \in 1..n, Odd(w)
      PROVE  EntryOK(t[w], t[w + 1])
  <2>1. w + 1 \in 1..n /\ w \in 1..Len(s)
    BY <1>1, <1>3, OddIsNotLast
  <2> QED
    BY <1>2, <1>3, <2>1 DEF ListOK
<1>4. ASSUME NEW w \in 1..n
      PROVE  t[w].addr \in h \cup Pointers \cup {Null}
  BY <1>1, <1>2 DEF ListOK
<1> QED
  BY <1>2, <1>3, <1>4 DEF ListOK, t

\* Tracing changes only which copy of its object a word is for.
LEMMA TraceKeepsListOK ==
  ASSUME NEW h, NEW s, ListOK(s, h), NEW k \in 1..Len(s), s[k].addr # Null,
         NEW v \in Word, v.addr = s[k].addr, v.tag = s[k].tag
  PROVE  ListOK([s EXCEPT ![k] = v], h)
<1> DEFINE t == [s EXCEPT ![k] = v]
<1>1. s \in Seq(Word) /\ Len(s) \in Nat /\ Len(s) % 2 = 0
  BY LenProperties DEF ListOK
<1>2. /\ t \in Seq(Word) /\ Len(t) = Len(s)
      /\ \A w \in 1..Len(s) : t[w] = IF w = k THEN v ELSE s[w]
  BY <1>1, ExceptSeq
<1> HIDE DEF t
<1>3. ASSUME NEW w \in 1..Len(t)
      PROVE  t[w].addr \in h \cup Pointers \cup {Null}
  BY <1>1, <1>2 DEF ListOK
<1>4. ASSUME NEW w \in 1..Len(t), Odd(w)
      PROVE  EntryOK(t[w], t[w + 1])
  <2>1. w + 1 \in 1..Len(s) /\ w \in 1..Len(s) /\ w # w + 1
    BY <1>1, <1>2, <1>4, OddIsNotLast
  <2>2. EntryOK(s[w], s[w + 1])
    BY <1>4, <2>1 DEF ListOK
  <2>3. k \in {w, w + 1} => s[w].addr # Null /\ s[w + 1].addr # Null
    BY <2>2 DEF EntryOK, NullWord
  <2> QED
    BY <1>2, <2>1, <2>2, <2>3 DEF EntryOK, NullWord
<1> QED
  BY <1>1, <1>2, <1>3, <1>4 DEF ListOK, t

\* Taking the entries of an object out of a list.
LEMMA WithoutWords ==
  ASSUME NEW h, NEW s, ListOK(s, h), NEW o
  PROVE  LET c     == Cardinality(Others(s, o))
             order == Ascending(Others(s, o))
         IN  /\ c \in Nat
             /\ IsAscending(order, Others(s, o))
             /\ Without(s, o) \in Seq(Word)
             /\ Len(Without(s, o)) = 2 * c
             /\ \A n \in 1..c : /\ order[n] \in Others(s, o)
                                /\ Without(s, o)[2 * n - 1] = s[2 * order[n] - 1]
                                /\ Without(s, o)[2 * n] = s[2 * order[n]]
<1> DEFINE K == Others(s, o)
           c == Cardinality(K)
           order == Ascending(K)
<1>1. s \in Seq(Word) /\ Len(s) \in Nat /\ Len(s) % 2 = 0
  BY LenProperties DEF ListOK
<1>2. K \in SUBSET (1..(Len(s) \div 2)) /\ IsFiniteSet(K) /\ K \in SUBSET Nat
  <2>1. Len(s) \div 2 \in Nat
    BY <1>1
  <2>2. K \in SUBSET (1..(Len(s) \div 2))
    BY DEF Others
  <2>3. IsFiniteSet(1..(Len(s) \div 2))
    BY <2>1, FS_Interval
  <2>4. IsFiniteSet(K)
    BY <2>2, <2>3, FS_Subset
  <2> QED
    BY <2>1, <2>2, <2>4
<1> HIDE DEF K
<1>3. c \in Nat /\ IsAscending(order, K)
  BY <1>2, FS_CardinalityType, AscendingExists
<1> HIDE DEF c, order
<1>4. \A n \in 1..c : order[n] \in K
  BY <1>3 DEF IsAscending, c
<1>5. ASSUME NEW w \in 1..(2 * c)
      PROVE  s[2 * order[(w + 1) \div 2] - (w % 2)] \in Word
  <2>1. (w + 1) \div 2 \in 1..c
    BY <1>3
  <2>2. order[(w + 1) \div 2] \in 1..(Len(s) \div 2)
    BY <1>2, <1>4, <2>1
  <2>3. 2 * order[(w + 1) \div 2] - (w % 2) \in 1..Len(s)
    BY <1>1, <2>2
  <2> QED
    BY <1>1, <2>3, ElementOfSeq
<1> DEFINE t == [w \in 1..(2 * c) |-> s[2 * order[(w + 1) \div 2] - (w % 2)]]
<1>6. t \in Seq(Word) /\ Len(t) = 2 * c
  BY <1>3, <1>5
<1>7. ASSUME NEW n \in 1..c
      PROVE  t[2 * n - 1] = s[2 * order[n] - 1] /\ t[2 * n] = s[2 * order[n]]
  <2>1. /\ 2 * n - 1 \in 1..(2 * c) /\ 2 * n \in 1..(2 * c)
        /\ (2 * n - 1 + 1) \div 2 = n /\ (2 * n + 1) \div 2 = n
        /\ (2 * n - 1) % 2 = 1 /\ (2 * n) % 2 = 0
    BY <1>3
  <2>2. t[2 * n - 1] = s[2 * order[(2 * n - 1 + 1) \div 2] - ((2 * n - 1) % 2)]
    BY <2>1
  <2>3. t[2 * n] = s[2 * order[(2 * n + 1) \div 2] - ((2 * n) % 2)]
    BY <2>1
  <2>4. order[n] \in Nat
    BY <1>2, <1>4
  <2> QED
    BY <2>1, <2>2, <2>3, <2>4
<1>8. t = Without(s, o)
  BY DEF Without, K, c, order
<1> QED
  BY <1>3, <1>4, <1>6, <1>7, <1>8 DEF K, c, order

\* So every entry that is left was in the list.
LEMMA WithoutKeepsListOK ==
  ASSUME NEW h, NEW s, ListOK(s, h), NEW o
  PROVE  /\ ListOK(Without(s, o), h)
         /\ \A w \in 1..Len(Without(s, o)) : \E u \in 1..Len(s) : Without(s, o)[w] = s[u]
<1> DEFINE c     == Cardinality(Others(s, o))
           order == Ascending(Others(s, o))
           t     == Without(s, o)
<1>1. s \in Seq(Word) /\ Len(s) \in Nat /\ Len(s) % 2 = 0
  BY LenProperties DEF ListOK
<1>2. /\ c \in Nat /\ t \in Seq(Word) /\ Len(t) = 2 * c
      /\ \A n \in 1..c : /\ order[n] \in 1..(Len(s) \div 2)
                         /\ t[2 * n - 1] = s[2 * order[n] - 1]
                         /\ t[2 * n] = s[2 * order[n]]
  <2>1. /\ c \in Nat /\ t \in Seq(Word) /\ Len(t) = 2 * c
        /\ \A n \in 1..c : /\ order[n] \in Others(s, o)
                           /\ t[2 * n - 1] = s[2 * order[n] - 1]
                           /\ t[2 * n] = s[2 * order[n]]
    BY WithoutWords
  <2> HIDE DEF c, order, t
  <2>2. \A n \in Others(s, o) : n \in 1..(Len(s) \div 2)
    BY DEF Others
  <2> QED
    BY <2>1, <2>2
<1> HIDE DEF c, order, t
<1>3. ASSUME NEW w \in 1..Len(t), Odd(w)
      PROVE  \E u \in 1..Len(s) : Odd(u) /\ t[w] = s[u] /\ t[w + 1] = s[u + 1]
  <2>1. PICK n \in 1..c : w = 2 * n - 1
    <3>1. (w + 1) \div 2 \in 1..c /\ w = 2 * ((w + 1) \div 2) - 1
      BY <1>2, <1>3 DEF Odd
    <3> QED
      BY <3>1
  <2>2. w + 1 = 2 * n
    BY <2>1
  <2>3. order[n] \in 1..(Len(s) \div 2)
    BY <1>2
  <2>4. /\ 2 * order[n] - 1 \in 1..Len(s) /\ Odd(2 * order[n] - 1)
        /\ 2 * order[n] - 1 + 1 = 2 * order[n]
    <3>1. \A m \in 1..(Len(s) \div 2) : /\ 2 * m - 1 \in 1..Len(s) /\ (2 * m - 1) % 2 = 1
                                        /\ 2 * m - 1 + 1 = 2 * m
      BY <1>1
    <3> QED
      BY <2>3, <3>1 DEF Odd
  <2>5. t[w] = s[2 * order[n] - 1] /\ t[w + 1] = s[2 * order[n] - 1 + 1]
    BY <1>2, <2>1, <2>2, <2>4
  <2> QED
    BY <2>4, <2>5
<1>4. ASSUME NEW w \in 1..Len(t)
      PROVE  \E u \in 1..Len(s) : t[w] = s[u]
  <2>1. CASE Odd(w)
    BY <1>3, <2>1
  <2>2. CASE ~Odd(w)
    <3>1. w - 1 \in 1..Len(t) /\ Odd(w - 1) /\ w - 1 + 1 = w
      BY <1>2, <2>2 DEF Odd
    <3>2. PICK u \in 1..Len(s) : Odd(u) /\ t[w - 1 + 1] = s[u + 1]
      BY <1>3, <3>1
    <3>3. u + 1 \in 1..Len(s)
      BY <1>1, <3>2, OddIsNotLast
    <3> QED
      BY <3>1, <3>2, <3>3
  <2> QED
    BY <2>1, <2>2
<1>5. \A w \in 1..Len(t) : t[w].addr \in h \cup Pointers \cup {Null}
  BY <1>4 DEF ListOK
<1>6. \A w \in 1..Len(t) : Odd(w) => EntryOK(t[w], t[w + 1])
  BY <1>3 DEF ListOK
<1>7. Len(t) % 2 = 0
  BY <1>2
<1> QED
  BY <1>2, <1>4, <1>5, <1>6, <1>7 DEF ListOK, t

\* Blanking the entries of an object.
LEMMA BlankedKeepsListOK ==
  ASSUME FinalizersAssumption, NEW h, NEW s, ListOK(s, h), NEW o
  PROVE  /\ ListOK(Blanked(s, o), h)
         /\ \A w \in 1..Len(Blanked(s, o)) :
              Blanked(s, o)[w] = NullWord \/ Blanked(s, o)[w] = s[w]
         /\ Len(Blanked(s, o)) = Len(s)
<1> DEFINE t == Blanked(s, o)
<1>1. s \in Seq(Word) /\ Len(s) \in Nat /\ Len(s) % 2 = 0
  BY LenProperties DEF ListOK
<1>2. \A w \in 1..Len(s) : s[w] \in Word
  BY <1>1, ElementOfSeq
<1>3. NullWord \in Word
  BY DEF NullWord, Word, Tags
<1>4. t \in Seq(Word) /\ Len(t) = Len(s)
  BY <1>1, <1>2, <1>3 DEF Blanked
<1>5. \A w \in 1..Len(s) : t[w] = IF s[first(w)].addr = o THEN NullWord ELSE s[w]
  BY DEF Blanked
<1> HIDE DEF t
<1>6. ASSUME NEW w \in 1..Len(s), Odd(w)
      PROVE  EntryOK(t[w], t[w + 1])
  <2>1. w + 1 \in 1..Len(s)
    BY <1>1, <1>6, OddIsNotLast
  <2>2. first(w) = w /\ first(w + 1) = w
    BY <1>6 DEF first, Odd
  <2>3. EntryOK(s[w], s[w + 1])
    BY <1>6 DEF ListOK
  <2> QED
    BY <1>5, <2>1, <2>2, <2>3 DEF EntryOK
<1>7. ASSUME NEW w \in 1..Len(s)
      PROVE  t[w].addr \in h \cup Pointers \cup {Null}
  BY <1>5 DEF ListOK, NullWord
<1> QED
  BY <1>1, <1>4, <1>5, <1>6, <1>7 DEF ListOK, t

LEMMA ListOKMonotone ==
  ASSUME NEW s, NEW g, NEW h, ListOK(s, g), g \subseteq h
  PROVE  ListOK(s, h)
BY DEF ListOK

LEMMA EmptyListOK ==
  ASSUME NEW h
  PROVE  ListOK(<<>>, h) /\ NoEmptyWord(<<>>) /\ Current(<<>>)
BY DEF ListOK, NoEmptyWord, Current

LEMMA ListNames ==
  ASSUME FinalizersAssumption
  PROVE  /\ Lists = Mutators \cup {Marked, ToFinalize}
         /\ Marked # ToFinalize /\ Marked # NoList /\ ToFinalize # NoList
         /\ Marked \notin Mutators /\ ToFinalize \notin Mutators /\ NoList \notin Mutators
         /\ NoList \notin Lists
BY DEF FinalizersAssumption, Lists, Marked, ToFinalize, NoList

-----------------------------------------------------------------------------
(* The runtime's steps keep the invariant.                                 *)

LEMMA InitIInv ==
  ASSUME FinalizersAssumption, Init
  PROVE  IInv
<1> USE DEF Init
<1>1. TypeOK
  <2>1. lists \in [Lists -> Seq(Word)] /\ before \in [Lists -> Seq(Word)]
    BY DEF NoLists
  <2>2. \A l \in Lists : Len(lists[l]) % 2 = 0
    BY DEF NoLists
  <2> QED
    BY <2>1, <2>2 DEF TypeOK
<1>2. ListsOK
  BY EmptyListOK, ListNames DEF ListsOK, NoLists
<1>3. IdleOK
  BY EmptyListOK, ListNames DEF IdleOK, NoLists, ObjectsIn
<1> QED
  BY <1>1, <1>2, <1>3 DEF IInv, InMark

\* Between collections, the invariant is three of its parts.
LEMMA IdleIInv ==
  ASSUME TypeOK', ListsOK', IdleOK', gcpc' = "none"
  PROVE  IInv'
BY DEF IInv, InMark

LEMMA AllocKeepsIInv ==
  ASSUME FinalizersAssumption, IInv, NEW o \in Objects, Alloc(o)
  PROVE  IInv'
<1> USE DEF Alloc, loopVars, historyVars
<1>1. TypeOK'
  BY DEF IInv, TypeOK
<1>2. ListsOK'
  <2>1. \A l \in Lists : ListOK(lists[l], heap')
    BY ListOKMonotone DEF IInv, ListsOK
  <2> QED
    BY <2>1 DEF IInv, ListsOK, NoEmptyWord
<1>3. IdleOK'
  BY DEF IInv, IdleOK, Current, ObjectsIn
<1> QED
  BY <1>1, <1>2, <1>3, IdleIInv

LEMMA AddFinalizerKeepsIInv ==
  ASSUME FinalizersAssumption, IInv, NEW m \in Mutators, AddFinalizer(m)
  PROVE  IInv'
<1>1. PICK tag \in Tags, v \in heap \cup Pointers, f \in heap \cup Pointers :
        /\ (v \in Pointers) <=> (tag = 3)
        /\ (f \in Pointers) <=> (tag # 0)
        /\ lists' = [lists EXCEPT ![m] = @ \o <<PointTo(v, tag), PointTo(f, 0)>>]
  BY DEF AddFinalizer
<1>2. gcpc = "none" /\ UNCHANGED <<jl_gc_have_pending_finalizers, loopVars, nursery, heapVars,
                                   historyVars>>
  BY DEF AddFinalizer
<1> USE <1>2 DEF loopVars, heapVars, historyVars
<1> DEFINE V == PointTo(v, tag)
           F == PointTo(f, 0)
           t == lists[m] \o <<V, F>>
<1>3. TypeOK /\ ListsOK /\ IdleOK /\ m \in Lists /\ m # Marked /\ m # ToFinalize
  BY ListNames DEF IInv
<1>4. /\ V.addr = v /\ V.tag = tag /\ F.addr = f /\ F.tag = 0
      /\ v \in Objects => V.copy = copy[v]
      /\ f \in Objects => F.copy = copy[f]
  BY DEF PointTo
<1>5. V \in Word /\ F \in Word
  BY <1>3 DEF TypeOK, PointTo, Word, Tags
<1> HIDE DEF V, F
<1>6. EntryIn(V, F, heap)
  <2>1. v # Null /\ f # Null
    BY <1>3 DEF TypeOK, FinalizersAssumption
  <2> QED
    BY <1>1, <1>4, <1>5, <2>1 DEF EntryIn, EntryOK
<1>7. /\ t \in Seq(Word)
      /\ \A w \in 1..Len(lists[m]) : t[w] = lists[m][w]
      /\ \A w \in 1..Len(t) : w \notin 1..Len(lists[m]) => t[w] \in {V, F}
  <2>1. lists[m] \in Seq(Word)
    BY <1>3 DEF TypeOK
  <2> QED
    BY <1>5, <2>1, Push2
<1>8. ListOK(t, heap) /\ Len(t) % 2 = 0
  <2>1. ListOK(lists[m], heap)
    BY <1>3 DEF ListsOK
  <2>2. ListOK(t, heap)
    BY <1>6, <2>1, PushKeepsListOK
  <2> QED
    BY <2>2 DEF ListOK
<1>9. lists' = [lists EXCEPT ![m] = t]
  BY <1>1 DEF V, F
<1> HIDE DEF t
<1>10. Current(t)
  <2>1. Current(lists[m])
    BY <1>3 DEF IdleOK
  <2> QED
    BY <1>4, <1>7, <2>1 DEF Current
<1>11. /\ lists' \in [Lists -> Seq(Word)]
       /\ \A l \in Lists : lists'[l] = IF l = m THEN t ELSE lists[l]
       /\ lists'[Marked] = lists[Marked] /\ lists'[ToFinalize] = lists[ToFinalize]
  BY <1>3, <1>7, <1>9, ListNames DEF TypeOK
<1>12. TypeOK'
  BY <1>3, <1>8, <1>11 DEF TypeOK
<1>13. ListsOK'
  BY <1>3, <1>8, <1>11 DEF ListsOK, NoEmptyWord
<1>14. IdleOK'
  <2>1. \A l \in Lists : Current(lists'[l])
    BY <1>3, <1>10, <1>11 DEF IdleOK
  <2> QED
    BY <1>3, <1>11, <2>1 DEF IdleOK, Current, ObjectsIn
<1> QED
  BY <1>12, <1>13, <1>14, IdleIInv

LEMMA FinalizeKeepsIInv ==
  ASSUME FinalizersAssumption, IInv, NEW o \in Objects, Finalize(o)
  PROVE  IInv'
<1>1. PICK others \in SUBSET Mutators :
        lists' = [l \in Lists |-> IF l = ToFinalize THEN lists[l]
                                  ELSE IF l \in others THEN Blanked(lists[l], o)
                                  ELSE Without(lists[l], o)]
  BY DEF Finalize
<1>2. gcpc = "none" /\ UNCHANGED <<jl_gc_have_pending_finalizers, loopVars, nursery, heapVars,
                                   historyVars>>
  BY DEF Finalize
<1> USE <1>2 DEF loopVars, heapVars, historyVars
<1>3. TypeOK /\ ListsOK /\ IdleOK
  BY DEF IInv
<1>4. \A l \in Lists : ListOK(lists[l], heap) /\ Current(lists[l])
  BY <1>3 DEF ListsOK, IdleOK
\* Every word of a new list is one of the old list, or empty.
<1>5. ASSUME NEW l \in Lists
      PROVE  /\ ListOK(lists'[l], heap)
             /\ \A w \in 1..Len(lists'[l]) :
                  lists'[l][w] = NullWord \/ \E u \in 1..Len(lists[l]) : lists'[l][w] = lists[l][u]
             /\ l = Marked => \A w \in 1..Len(lists'[l]) :
                                \E u \in 1..Len(lists[l]) : lists'[l][w] = lists[l][u]
             /\ l = ToFinalize => lists'[l] = lists[l]
  <2>1. CASE l = ToFinalize
    BY <1>1, <1>4, <2>1, ListNames
  <2>2. CASE l # ToFinalize /\ l \in others
    <3>1. lists'[l] = Blanked(lists[l], o) /\ l # Marked
      BY <1>1, <2>2, ListNames
    <3> QED
      BY <1>4, <2>2, <3>1, BlankedKeepsListOK
  <2>3. CASE l # ToFinalize /\ l \notin others
    <3>1. lists'[l] = Without(lists[l], o)
      BY <1>1, <2>3
    <3> QED
      BY <1>4, <2>3, <3>1, WithoutKeepsListOK
  <2> QED
    BY <2>1, <2>2, <2>3
<1>6. Null \notin Objects /\ NullWord.addr = Null
  BY DEF FinalizersAssumption, NullWord
<1>7. ASSUME NEW l \in Lists
      PROVE  Current(lists'[l])
  BY <1>4, <1>5, <1>6 DEF Current
<1>8. TypeOK'
  <2>1. lists' = [l \in Lists |-> lists'[l]]
    BY <1>1
  <2>2. \A l \in Lists : lists'[l] \in Seq(Word) /\ Len(lists'[l]) % 2 = 0
    BY <1>5 DEF ListOK
  <2>3. lists' \in [Lists -> Seq(Word)]
    BY <2>1, <2>2
  <2> QED
    BY <1>3, <2>2, <2>3 DEF TypeOK
<1>9. Marked \in Lists /\ ToFinalize \in Lists
  BY ListNames
<1>10. ListsOK'
  <2>1. \A l \in Lists : ListOK(lists'[l], heap)
    BY <1>5
  <2>2. NoEmptyWord(lists'[Marked]) /\ lists'[ToFinalize] = lists[ToFinalize]
    BY <1>3, <1>5, <1>9 DEF ListsOK, NoEmptyWord
  <2> QED
    BY <1>3, <2>1, <2>2 DEF ListsOK, NoEmptyWord
<1>11. IdleOK'
  <2>1. ObjectsIn(lists'[Marked], old)
    BY <1>3, <1>5, <1>9 DEF IdleOK, ObjectsIn
  <2> QED
    BY <1>3, <1>7, <2>1 DEF IdleOK, Current, ObjectsIn
<1> QED
  BY <1>8, <1>10, <1>11, IdleIInv

LEMMA RunFinalizersKeepsIInv ==
  ASSUME FinalizersAssumption, IInv, RunFinalizers
  PROVE  IInv'
<1> USE DEF RunFinalizers, loopVars, heapVars, historyVars
<1>1. TypeOK /\ ListsOK /\ IdleOK
  BY DEF IInv
<1>2. /\ lists' \in [Lists -> Seq(Word)]
      /\ \A l \in Lists : lists'[l] = IF l = ToFinalize THEN <<>> ELSE lists[l]
      /\ lists'[Marked] = lists[Marked] /\ lists'[ToFinalize] = <<>>
  BY <1>1, ListNames DEF TypeOK
<1>3. TypeOK'
  <2>1. Len(<<>>) % 2 = 0
    OBVIOUS
  <2>2. \A l \in Lists : Len(lists[l]) % 2 = 0
    BY <1>1 DEF TypeOK
  <2>3. \A l \in Lists : Len(lists'[l]) % 2 = 0
    BY <1>2, <2>1, <2>2
  <2> QED
    BY <1>1, <1>2, <2>3 DEF TypeOK
<1>4. ListsOK'
  <2>1. \A l \in Lists : ListOK(lists'[l], heap)
    BY <1>1, <1>2, EmptyListOK DEF ListsOK
  <2> QED
    BY <1>1, <1>2, <2>1, EmptyListOK DEF ListsOK, NoEmptyWord
<1>5. IdleOK'
  <2>1. \A l \in Lists : Current(lists'[l])
    BY <1>1, <1>2, EmptyListOK DEF IdleOK
  <2> QED
    BY <1>1, <1>2, <2>1 DEF IdleOK, Current, ObjectsIn
<1> QED
  BY <1>3, <1>4, <1>5, IdleIInv

\* A collection starts.  In a nursery collection the entries that were marked
\* before are for old objects, which are live and stay where they are.
LEMMA StartGCKeepsIInv ==
  ASSUME FinalizersAssumption, IInv, NEW isNursery \in BOOLEAN, StartGC(isNursery)
  PROVE  IInv'
<1> USE DEF StartGC
<1>1. TypeOK /\ ListsOK /\ IdleOK
  BY DEF IInv
<1>2. Marked \in Lists /\ lists[Marked] \in Seq(Word) /\ Len(lists[Marked]) % 2 = 0
      /\ Len(lists[Marked]) \in Nat
  BY <1>1, ListNames, LenProperties DEF TypeOK
<1>3. TypeOK'
  <2>1. live' \subseteq heap /\ kept' = live'
    BY <1>1 DEF TypeOK
  <2>2. copy' \in [Objects -> {0, 1}]
    BY <1>1 DEF TypeOK
  <2> QED
    BY <1>1, <1>2, <2>1, <2>2 DEF TypeOK
<1>4. ListsOK'
  BY <1>1 DEF ListsOK, NoEmptyWord
<1>5. SweepOK'
  <2>1. cur' = NoList /\ todo' = Mutators
    BY <1>1 DEF IdleOK
  <2>2. Emptied(Mutators \ (todo \cup {cur}))'
    BY <2>1 DEF Emptied
  <2>3. ASSUME nursery'
        PROVE  OldPartOK'
    <3>1. old \subseteq live'
      BY <2>3
    <3>2. \A o \in old : copy'[o] = copy[o]
      BY <1>1, <2>3 DEF TypeOK
    <3>3. TracedUpTo(lists[Marked], orig_marked_len)'
      BY <1>1, <1>2, <3>1, <3>2 DEF TracedUpTo, Traced, IdleOK, Current, ObjectsIn
    <3>4. orig_marked_len' = Len(lists[Marked]) /\ lists' = lists
      OBVIOUS
    <3> HIDE DEF StartGC
    <3>5. (orig_marked_len <= Len(lists[Marked]))'
      BY <1>2, <3>4
    <3>6. (orig_marked_len % 2 = 0)'
      BY <1>2, <3>4
    <3>7. (TracedUpTo(lists[Marked], orig_marked_len))'
      BY <3>3
    <3> QED
      BY <3>5, <3>6, <3>7 DEF OldPartOK
  <2> QED
    BY <2>1, <2>2, <2>3, ListNames DEF SweepOK
<1> QED
  BY <1>3, <1>4, <1>5 DEF IInv, InMark

-----------------------------------------------------------------------------
(* The order of the loops keeps the invariant.                             *)

\* A step that leaves the lists and the heap alone keeps what is said of them.
LEMMA UnchangedLists ==
  ASSUME IInv, lists' = lists, jl_gc_have_pending_finalizers' = jl_gc_have_pending_finalizers,
         nursery' = nursery, heapVars' = heapVars
  PROVE  /\ ListsOK'
         /\ \A ms : Emptied(ms) => Emptied(ms)'
         /\ \A s, n : TracedUpTo(s, n) => TracedUpTo(s, n)'
         /\ OldPartOK /\ orig_marked_len' = orig_marked_len => OldPartOK'
BY DEF IInv, ListsOK, NoEmptyWord, Emptied, TracedUpTo, Traced, OldPartOK, heapVars

LEMMA NextMutatorKeepsIInv ==
  ASSUME FinalizersAssumption, IInv, NEW m \in Mutators, NextMutator(m)
  PROVE  IInv'
<1>1. /\ cur = NoList /\ m \in todo /\ cur' = m /\ todo' = todo \ {m}
      /\ i' = 0 /\ j' = 0 /\ gcpc \in {"sweep", "mark"}
      /\ UNCHANGED <<gcpc, orig_marked_len, lists, jl_gc_have_pending_finalizers, nursery, heapVars,
                     historyVars>>
  BY DEF NextMutator, unchangedInTurn
<1>2. /\ ListsOK'
      /\ \A ms : Emptied(ms) => Emptied(ms)'
      /\ OldPartOK => OldPartOK'
  BY <1>1, UnchangedLists
<1>3. TypeOK /\ m \in Lists /\ m # NoList
  BY ListNames DEF IInv
<1>4. lists[m] \in Seq(Word) /\ Len(lists[m]) \in Nat
  BY <1>3, LenProperties DEF TypeOK
<1>5. TypeOK'
  BY <1>1, <1>3 DEF TypeOK, heapVars, historyVars
<1>6. CASE gcpc = "sweep"
  <2>1. SweepOK
    BY <1>6 DEF IInv
  <2>2. Mutators \ (todo' \cup {cur'}) = Mutators \ (todo \cup {cur})
    BY <1>1, <1>3, ListNames
  <2>3. SweepOK'
    BY <1>1, <1>2, <1>3, <1>4, <2>1, <2>2 DEF SweepOK, Emptied
  <2> QED
    BY <1>1, <1>2, <1>5, <1>6, <2>3 DEF IInv, InMark
<1>7. CASE gcpc = "mark"
  <2>1. MarkOK
    BY <1>7 DEF IInv, InMark
  <2>2. AtWord'
    <3>1. i' = 0 /\ ~Odd(0) /\ lists' = lists /\ cur' = m
      BY <1>1 DEF Odd
    <3>2. \A w \in 1..Len(lists[m]) : ~(w <= 0)
      BY <1>4
    <3> QED
      BY <1>4, <3>1, <3>2 DEF AtWord, TracedUpTo
  <2>3. MarkOK'
    BY <1>1, <1>2, <1>7, <2>1, <2>2 DEF MarkOK, Emptied
  <2> QED
    BY <1>1, <1>2, <1>5, <1>7, <2>3 DEF IInv, InMark
<1> QED
  BY <1>1, <1>6, <1>7

LEMMA SweepMarkedKeepsIInv ==
  ASSUME FinalizersAssumption, IInv, SweepMarked
  PROVE  IInv'
<1>1. /\ gcpc = "sweep" /\ cur = NoList /\ todo = {} /\ ~nursery
      /\ gcpc' = "sweepMarked" /\ cur' = Marked /\ i' = 0 /\ j' = 0
      /\ UNCHANGED <<todo, orig_marked_len, lists, jl_gc_have_pending_finalizers, nursery, heapVars,
                     historyVars>>
  BY DEF SweepMarked, unchangedInTurn
<1>2. ListsOK' /\ \A ms : Emptied(ms) => Emptied(ms)'
  BY <1>1, UnchangedLists
<1>3. TypeOK /\ SweepOK /\ Marked \in Lists
  BY <1>1, ListNames DEF IInv
<1>4. lists[Marked] \in Seq(Word) /\ Len(lists[Marked]) \in Nat
  BY <1>3, LenProperties DEF TypeOK
<1>5. TypeOK'
  BY <1>1, <1>3 DEF TypeOK, heapVars, historyVars
<1>6. SweepMarkedOK'
  <2>1. Mutators \ (todo \cup {cur}) = Mutators
    BY <1>1, ListNames
  <2> QED
    BY <1>1, <1>2, <1>3, <1>4, <2>1 DEF SweepOK, SweepMarkedOK, Emptied
<1> QED
  BY <1>1, <1>2, <1>5, <1>6 DEF IInv, InMark

LEMMA StartMarkingKeepsIInv ==
  ASSUME FinalizersAssumption, IInv, StartMarking
  PROVE  IInv'
<1>1. /\ cur = NoList /\ todo = {} /\ gcpc' = "mark" /\ todo' = Mutators
      /\ UNCHANGED <<cur, i, j, lists, jl_gc_have_pending_finalizers, nursery, heapVars,
                     historyVars>>
      /\ \/ gcpc = "sweep" /\ nursery /\ orig_marked_len' = orig_marked_len
         \/ gcpc = "sweepMarked" /\ orig_marked_len' = 0
  BY DEF StartMarking, unchangedInTurn
<1>2. ListsOK' /\ \A ms : Emptied(ms) => Emptied(ms)'
  BY <1>1, UnchangedLists
<1>3. TypeOK /\ Marked \in Lists
  BY <1>1, ListNames DEF IInv
<1>4. lists[Marked] \in Seq(Word) /\ Len(lists[Marked]) \in Nat
  BY <1>3, LenProperties DEF TypeOK
<1>5. TypeOK'
  BY <1>1, <1>3 DEF TypeOK, heapVars, historyVars
<1>6. Emptied(Mutators)
  <2>1. Mutators \ (todo \cup {cur}) = Mutators
    BY <1>1, ListNames
  <2> QED
    BY <1>1, <2>1 DEF IInv, SweepOK, SweepMarkedOK
<1>7. OldPartOK'
  <2>1. CASE gcpc = "sweep"
    <3>1. OldPartOK /\ orig_marked_len' = orig_marked_len
      BY <1>1, <2>1 DEF IInv, SweepOK
    <3> QED
      BY <1>1, <3>1, UnchangedLists
  <2>2. CASE gcpc = "sweepMarked"
    <3>1. orig_marked_len' = 0 /\ lists' = lists
      BY <1>1, <2>2
    <3>2. \A w \in 1..Len(lists[Marked]) : ~(w <= 0)
      BY <1>4
    <3> QED
      BY <1>4, <3>1, <3>2 DEF OldPartOK, TracedUpTo
  <2> QED
    BY <1>1, <2>1, <2>2
<1>8. MarkOK'
  <2>1. AtWord'
    BY <1>1 DEF AtWord
  <2> QED
    BY <1>1, <1>2, <1>6, <1>7, <2>1 DEF MarkOK, Emptied
<1> QED
  BY <1>1, <1>2, <1>5, <1>8 DEF IInv, InMark

LEMMA MarkMarkedKeepsIInv ==
  ASSUME FinalizersAssumption, IInv, MarkMarked
  PROVE  IInv'
<1>1. /\ gcpc = "mark" /\ cur = NoList /\ todo = {} /\ gcpc' = "markMarked" /\ cur' = Marked
      /\ i' = orig_marked_len
      /\ UNCHANGED <<todo, j, orig_marked_len, lists, jl_gc_have_pending_finalizers, nursery,
                     heapVars, historyVars>>
  BY DEF MarkMarked, unchangedInTurn
<1>2. TypeOK /\ MarkOK /\ Marked \in Lists
  BY <1>1, ListNames DEF IInv, InMark
<1>3. ListsOK' /\ (\A ms : Emptied(ms) => Emptied(ms)') /\ OldPartOK'
  BY <1>1, <1>2, UnchangedLists DEF MarkOK
<1>4. TypeOK'
  BY <1>1, <1>2 DEF TypeOK, heapVars, historyVars
<1>5. AtWord'
  <2>1. ~Odd(orig_marked_len)
    BY <1>2 DEF MarkOK, OldPartOK, Odd, TypeOK
  <2>2. TracedUpTo(lists[Marked], orig_marked_len)'
    BY <1>3 DEF OldPartOK
  <2>3. (cur = Marked)' /\ (i = orig_marked_len)' /\ ~Odd(i') /\ (i <= Len(lists[cur]))'
    BY <1>1, <1>2, <2>1 DEF MarkOK, OldPartOK
  <2> QED
    BY <2>2, <2>3 DEF AtWord
<1>6. MarkOK'
  BY <1>1, <1>2, <1>3, <1>5, ListNames DEF MarkOK, Emptied
<1> QED
  BY <1>1, <1>3, <1>4, <1>6 DEF IInv, InMark

LEMMA MarkToFinalizeKeepsIInv ==
  ASSUME FinalizersAssumption, IInv, MarkToFinalize
  PROVE  IInv'
<1>1. /\ gcpc = "markMarked" /\ cur = NoList /\ gcpc' = "markToFinalize" /\ cur' = ToFinalize
      /\ i' = 0
      /\ UNCHANGED <<todo, j, orig_marked_len, lists, jl_gc_have_pending_finalizers, nursery,
                     heapVars, historyVars>>
  BY DEF MarkToFinalize, unchangedInTurn
<1>2. TypeOK /\ MarkOK /\ ToFinalize \in Lists
  BY <1>1, ListNames DEF IInv, InMark
<1>3. ListsOK' /\ (\A ms : Emptied(ms) => Emptied(ms)') /\ OldPartOK'
  BY <1>1, <1>2, UnchangedLists DEF MarkOK
<1>4. TypeOK'
  BY <1>1, <1>2 DEF TypeOK, heapVars, historyVars
<1>5. AtWord'
  <2>1. lists[ToFinalize] \in Seq(Word) /\ Len(lists[ToFinalize]) \in Nat
    BY <1>2, LenProperties DEF TypeOK
  <2>2. i' = 0 /\ ~Odd(0) /\ lists' = lists /\ cur' = ToFinalize
    BY <1>1 DEF Odd
  <2>3. \A w \in 1..Len(lists[ToFinalize]) : ~(w <= 0)
    BY <2>1
  <2> QED
    BY <2>1, <2>2, <2>3 DEF AtWord, TracedUpTo
<1>6. TracedUpTo(lists[Marked], Len(lists[Marked]))'
  BY <1>1, <1>2 DEF MarkOK, TracedUpTo, Traced, heapVars
<1>7. MarkOK'
  BY <1>1, <1>2, <1>3, <1>5, <1>6, ListNames DEF MarkOK, Emptied
<1> QED
  BY <1>1, <1>3, <1>4, <1>7 DEF IInv, InMark

\* The pass is over: every word that is left is traced, so what is not live can
\* be freed.
LEMMA EndGCKeepsIInv ==
  ASSUME FinalizersAssumption, IInv, EndGC
  PROVE  IInv'
<1>1. /\ gcpc = "markToFinalize" /\ cur = NoList /\ gcpc' = "none"
      /\ heap' = live /\ old' = live /\ live' = {}
      /\ copy' = [o \in Objects |-> IF o \in live THEN copy[o] ELSE 0]
      /\ i' = 0 /\ j' = 0 /\ orig_marked_len' = 0 /\ nursery' = FALSE
      /\ kept' = {} /\ before' = NoLists
      /\ UNCHANGED <<lists, jl_gc_have_pending_finalizers, cur, todo>>
  BY DEF EndGC
<1>2. TypeOK /\ ListsOK /\ MarkOK /\ Marked \in Lists /\ ToFinalize \in Lists
  BY <1>1, ListNames DEF IInv, InMark
<1>3. \A l \in Lists : lists[l] \in Seq(Word) /\ Len(lists[l]) \in Nat
  BY <1>2, LenProperties DEF TypeOK
<1>4. ASSUME NEW l \in Lists, NEW w \in 1..Len(lists[l])
      PROVE  Traced(lists[l][w])
  <2>1. CASE l = Marked
    BY <1>1, <1>2, <1>3, <2>1 DEF MarkOK, TracedUpTo
  <2>2. CASE l = ToFinalize
    BY <1>1, <1>2, <1>3, <2>2 DEF MarkOK, TracedUpTo
  <2>3. CASE l \in Mutators
    BY <1>2, <2>3 DEF MarkOK, Emptied
  <2> QED
    BY <2>1, <2>2, <2>3, ListNames
<1>5. TypeOK'
  <2>1. copy' \in [Objects -> {0, 1}]
    BY <1>1, <1>2 DEF TypeOK
  <2>2. before' \in [Lists -> Seq(Word)]
    BY <1>1 DEF NoLists
  <2>3. live \subseteq Objects
    BY <1>2 DEF TypeOK
  <2> QED
    BY <1>1, <1>2, <2>1, <2>2, <2>3 DEF TypeOK
<1>6. \A o \in live : copy'[o] = copy[o]
  BY <1>1, <1>2 DEF TypeOK
<1>7. ASSUME NEW l \in Lists
      PROVE  ListOK(lists[l], live) /\ Current(lists[l])' /\ ObjectsIn(lists[l], live)
  <2>1. ListOK(lists[l], heap)
    BY <1>2 DEF ListsOK
  <2>2. ObjectsIn(lists[l], live)
    BY <1>4 DEF ObjectsIn, Traced
  <2>3. ListOK(lists[l], live)
    BY <1>2, <2>1, <2>2 DEF ListOK, ObjectsIn, TypeOK
  <2>4. \A w \in 1..Len(lists[l]) :
          lists[l][w].addr \in Objects => lists[l][w].copy = copy'[lists[l][w].addr]
    BY <1>4, <1>6 DEF Traced
  <2> QED
    BY <1>1, <2>2, <2>3, <2>4 DEF Current
<1>8. ListsOK'
  BY <1>1, <1>2, <1>7 DEF ListsOK, NoEmptyWord
<1>9. IdleOK'
  BY <1>1, <1>2, <1>7 DEF IdleOK, MarkOK, ObjectsIn, Current
<1> QED
  BY <1>1, <1>5, <1>8, <1>9, IdleIInv

-----------------------------------------------------------------------------
(* The sweep keeps the invariant.                                          *)

\* Where the sweep is, and the entry it is at.
LEMMA AtSweep ==
  ASSUME FinalizersAssumption, IInv, Sweeping
  PROVE  /\ TypeOK /\ ListsOK /\ cur \in Lists /\ cur \in Mutators \cup {Marked}
         /\ cur # ToFinalize /\ cur # NoList
         /\ gcpc \in {"sweep", "sweepMarked"}
         /\ gcpc = "sweep" => SweepOK /\ cur \in Mutators
         /\ gcpc = "sweepMarked" => SweepMarkedOK /\ cur = Marked
         /\ i \in Nat /\ i % 2 = 0 /\ i + 2 <= Len(lists[cur])
         /\ j \in Nat /\ j % 2 = 0 /\ j <= i
         /\ lists[cur] \in Seq(Word) /\ Len(lists[cur]) \in Nat
         /\ get(cur, i) = lists[cur][i + 1] /\ get(cur, i + 1) = lists[cur][i + 2]
         /\ EntryIn(get(cur, i), get(cur, i + 1), heap)
<1>1. TypeOK /\ ListsOK /\ cur # NoList /\ gcpc \in {"sweep", "sweepMarked"} /\ i < Len(lists[cur])
  BY DEF IInv, Sweeping
<1>2. /\ gcpc = "sweep" => SweepOK /\ cur \in Mutators
      /\ gcpc = "sweepMarked" => SweepMarkedOK /\ cur = Marked
  BY <1>1 DEF IInv, SweepOK, SweepMarkedOK
<1>3. cur \in Lists /\ cur \in Mutators \cup {Marked} /\ cur # ToFinalize
  BY <1>1, <1>2, ListNames
<1>4. /\ i \in Nat /\ i % 2 = 0 /\ j \in Nat /\ j % 2 = 0 /\ j <= i
  <2>1. i \in Nat /\ j \in Nat
    BY <1>1 DEF TypeOK
  <2>2. CASE gcpc = "sweep"
    <3>1. i % 2 = 0 /\ j = 0
      BY <1>1, <1>2, <2>2 DEF SweepOK
    <3> QED
      BY <2>1, <3>1
  <2>3. CASE gcpc = "sweepMarked"
    BY <1>1, <1>2, <2>1, <2>3 DEF SweepMarkedOK
  <2> QED
    BY <1>1, <2>2, <2>3
<1>5. ListOK(lists[cur], heap)
  BY <1>1, <1>3 DEF ListsOK
<1>6. i + 2 <= Len(lists[cur]) /\ EntryIn(lists[cur][i + 1], lists[cur][i + 2], heap)
  BY <1>1, <1>4, <1>5, EntryAt
<1>7. lists[cur] \in Seq(Word) /\ Len(lists[cur]) \in Nat
  BY <1>5, LenProperties DEF ListOK
<1>8. get(cur, i) = lists[cur][i + 1] /\ get(cur, i + 1) = lists[cur][i + 2]
  BY <1>4 DEF get
<1> QED
  BY <1>1, <1>2, <1>3, <1>4, <1>6, <1>7, <1>8

\* The marked list has grown.
LEMMA OldPartKept ==
  ASSUME OldPartOK, TypeOK, orig_marked_len' = orig_marked_len, live' = live, copy' = copy,
         Len(lists[Marked]) \in Nat, Len(lists'[Marked]) \in Nat,
         Len(lists[Marked]) <= Len(lists'[Marked]),
         \A w \in 1..Len(lists[Marked]) : lists'[Marked][w] = lists[Marked][w]
  PROVE  OldPartOK'
<1>1. orig_marked_len \in Nat /\ orig_marked_len <= Len(lists[Marked])
  BY DEF OldPartOK, TypeOK
<1>2. ASSUME NEW w \in 1..Len(lists'[Marked]), w <= orig_marked_len
      PROVE  Traced(lists[Marked][w]) /\ lists'[Marked][w] = lists[Marked][w]
  <2>1. w \in 1..Len(lists[Marked])
    BY <1>1, <1>2
  <2> QED
    BY <1>2, <2>1 DEF OldPartOK, TracedUpTo
<1>3. TracedUpTo(lists[Marked], orig_marked_len)'
  BY <1>2 DEF TracedUpTo, Traced
<1>4. (orig_marked_len <= Len(lists[Marked]))'
  BY <1>1
<1>5. (orig_marked_len % 2 = 0)'
  BY DEF OldPartOK
<1> QED
  BY <1>3, <1>4, <1>5 DEF OldPartOK

\* A step of the sweep that pushes the entry to another list, whose flag is
\* set if it is to_finalize, keeps the invariant.
LEMMA PushKeepsIInv ==
  ASSUME FinalizersAssumption, IInv, Sweeping, NEW l \in {Marked, ToFinalize}, l # cur,
         ~is_zero(get(cur, i)), Push(l, i), i' = i + 2, j' = j,
         jl_gc_have_pending_finalizers' =
           IF l = ToFinalize THEN 1 ELSE jl_gc_have_pending_finalizers,
         unchangedInSweep
  PROVE  IInv'
<1> DEFINE v == get(cur, i)
           f == get(cur, i + 1)
           t == lists[l] \o <<v, f>>
<1>1. /\ TypeOK /\ ListsOK /\ cur \in Lists /\ l \in Lists
      /\ gcpc \in {"sweep", "sweepMarked"}
      /\ gcpc = "sweep" => SweepOK /\ cur \in Mutators
      /\ gcpc = "sweepMarked" => SweepMarkedOK /\ cur = Marked
      /\ i \in Nat /\ i % 2 = 0 /\ i + 2 <= Len(lists[cur])
      /\ cur # NoList
      /\ j \in Nat /\ j % 2 = 0 /\ j <= i
      /\ EntryIn(v, f, heap)
  BY AtSweep, ListNames
<1>2. UNCHANGED <<gcpc, cur, todo, orig_marked_len, nursery, heap, old, live, copy, kept, before>>
  BY DEF unchangedInSweep, heapVars, historyVars
<1>3. v.addr # Null
  BY DEF is_zero
<1>4. f.addr # Null
  BY <1>1, <1>3 DEF EntryIn, EntryOK, NullWord
<1> HIDE DEF v, f
<1>5. lists[l] \in Seq(Word) /\ Len(lists[l]) \in Nat
  BY <1>1, LenProperties DEF TypeOK
<1>6. /\ t \in Seq(Word) /\ Len(t) = Len(lists[l]) + 2
      /\ \A w \in 1..Len(lists[l]) : t[w] = lists[l][w]
      /\ \A w \in 1..Len(t) : w \notin 1..Len(lists[l]) => t[w] \in {v, f}
  BY <1>1, <1>5, Push2 DEF EntryIn
<1>7. ListOK(t, heap) /\ Len(t) % 2 = 0
  <2>1. ListOK(lists[l], heap)
    BY <1>1 DEF ListsOK
  <2>2. ListOK(t, heap)
    BY <1>1, <2>1, PushKeepsListOK
  <2> QED
    BY <2>2 DEF ListOK
<1>8. /\ lists' \in [Lists -> Seq(Word)]
      /\ \A k \in Lists : lists'[k] = IF k = l THEN t ELSE lists[k]
  <2>1. lists' = [lists EXCEPT ![l] = t]
    BY DEF Push, v, f
  <2> HIDE DEF t
  <2> QED
    BY <1>1, <1>6, <2>1 DEF TypeOK
<1>9. NoEmptyWord(t) /\ t # <<>>
  <2>1. NoEmptyWord(lists[l])
    BY <1>1 DEF ListsOK
  <2>2. Len(t) # 0
    BY <1>5, <1>6
  <2> HIDE DEF t
  <2> QED
    BY <1>3, <1>4, <1>6, <2>1, <2>2 DEF NoEmptyWord
<1> HIDE DEF t
<1>10. TypeOK'
  <2>1. \A k \in Lists : Len(lists'[k]) % 2 = 0
    BY <1>1, <1>7, <1>8 DEF TypeOK
  <2> QED
    BY <1>1, <1>2, <1>8, <2>1 DEF TypeOK
<1>11. ListsOK'
  <2>1. \A k \in Lists : ListOK(lists'[k], heap)
    BY <1>1, <1>7, <1>8 DEF ListsOK
  <2>2. NoEmptyWord(lists'[Marked]) /\ NoEmptyWord(lists'[ToFinalize])
    BY <1>1, <1>8, <1>9, ListNames DEF ListsOK
  <2>3. (jl_gc_have_pending_finalizers = 1 <=> lists[ToFinalize] # <<>>)'
    BY <1>1, <1>8, <1>9, ListNames DEF ListsOK
  <2> QED
    BY <1>2, <2>1, <2>2, <2>3 DEF ListsOK, NoEmptyWord
<1>12. \A m \in Mutators \cup {cur} : lists'[m] = lists[m]
  BY <1>1, <1>8, ListNames
<1>13. gcpc = "sweep" => SweepOK'
  <2> SUFFICES ASSUME gcpc = "sweep"
               PROVE  SweepOK'
    OBVIOUS
  <2>1. SweepOK /\ cur \in Mutators
    BY <1>1
  <2>2. nursery => OldPartOK'
    <3> SUFFICES ASSUME nursery
                 PROVE  OldPartOK'
      OBVIOUS
    <3>1. OldPartOK
      BY <2>1 DEF SweepOK
    <3>2. CASE l = Marked
      BY <1>1, <1>2, <1>5, <1>6, <1>8, <3>1, <3>2, OldPartKept
    <3>3. CASE l # Marked
      <4>1. lists'[Marked] = lists[Marked]
        BY <1>8, <3>3, ListNames
      <4>2. lists[Marked] \in Seq(Word) /\ Len(lists[Marked]) \in Nat
        BY <1>1, LenProperties, ListNames DEF TypeOK
      <4> QED
        BY <1>1, <1>2, <3>1, <4>1, <4>2, OldPartKept
    <3> QED
      BY <3>2, <3>3
  <2> QED
    BY <1>1, <1>2, <1>12, <2>1, <2>2 DEF SweepOK, Emptied
<1>14. gcpc = "sweepMarked" => SweepMarkedOK'
  BY <1>1, <1>2, <1>12 DEF SweepMarkedOK, Emptied
<1> QED
  BY <1>1, <1>2, <1>10, <1>11, <1>13, <1>14 DEF IInv, InMark

LEMMA SweepFreedKeepsIInv ==
  ASSUME FinalizersAssumption, IInv, SweepFreed
  PROVE  IInv'
<1>1. Sweeping /\ cur # ToFinalize
  BY AtSweep DEF SweepFreed
<1> QED
  BY <1>1, PushKeepsIInv DEF SweepFreed

LEMMA SweepOldKeepsIInv ==
  ASSUME FinalizersAssumption, IInv, SweepOld
  PROVE  IInv'
<1>1. Sweeping /\ cur # Marked
  BY DEF SweepOld, isold, finalizer_list_marked_is_some
<1> QED
  BY <1>1, PushKeepsIInv, ListNames DEF SweepOld

LEMMA SweepNullKeepsIInv ==
  ASSUME FinalizersAssumption, IInv, SweepNull
  PROVE  IInv'
<1>1. /\ Sweeping /\ i' = i + 2
      /\ UNCHANGED <<lists, jl_gc_have_pending_finalizers, j, gcpc, cur, todo, orig_marked_len,
                     nursery, heapVars, historyVars>>
  BY DEF SweepNull, unchangedInSweep
<1>2. /\ TypeOK /\ cur # NoList /\ gcpc \in {"sweep", "sweepMarked"}
      /\ gcpc = "sweep" => SweepOK
      /\ gcpc = "sweepMarked" => SweepMarkedOK
      /\ i \in Nat /\ i % 2 = 0 /\ i + 2 <= Len(lists[cur])
      /\ j \in Nat /\ j % 2 = 0 /\ j <= i
      /\ Len(lists[cur]) \in Nat
  BY <1>1, AtSweep
<1>3. ListsOK' /\ (\A ms : Emptied(ms) => Emptied(ms)') /\ (OldPartOK => OldPartOK')
  BY <1>1, UnchangedLists
<1>4. TypeOK'
  BY <1>1, <1>2 DEF TypeOK, heapVars, historyVars
<1>5. i' % 2 = 0 /\ i' <= Len(lists[cur]) /\ j <= i'
  BY <1>1, <1>2
<1>6. gcpc = "sweep" => SweepOK'
  BY <1>1, <1>2, <1>3, <1>5 DEF SweepOK, Emptied
<1>7. gcpc = "sweepMarked" => SweepMarkedOK'
  BY <1>1, <1>2, <1>3, <1>5 DEF SweepMarkedOK, Emptied
<1> QED
  BY <1>1, <1>2, <1>3, <1>4, <1>6, <1>7 DEF IInv, InMark

\* Only entries of the marked list stay in their list.
LEMMA SweepKeepKeepsIInv ==
  ASSUME FinalizersAssumption, IInv, SweepKeep
  PROVE  IInv'
<1> DEFINE v == get(cur, i)
           f == get(cur, i + 1)
           t == [lists[cur] EXCEPT ![j + 1] = v, ![j + 2] = f]
<1>1. /\ Sweeping /\ i' = i + 2 /\ j' = j + 2 /\ ~is_zero(v)
      /\ ~isfreed(v) /\ ~isold(v)
      /\ lists' = [lists EXCEPT ![cur][j + 1] = v, ![cur][j + 2] = f]
      /\ UNCHANGED <<jl_gc_have_pending_finalizers, gcpc, cur, todo, orig_marked_len,
                     nursery, heapVars, historyVars>>
  BY DEF SweepKeep, unchangedInSweep
<1>2. /\ TypeOK /\ ListsOK /\ cur \in Lists /\ cur # NoList
      /\ gcpc \in {"sweep", "sweepMarked"}
      /\ gcpc = "sweep" => cur \in Mutators
      /\ gcpc = "sweepMarked" => SweepMarkedOK
      /\ i \in Nat /\ i % 2 = 0 /\ i + 2 <= Len(lists[cur])
      /\ j \in Nat /\ j % 2 = 0 /\ j <= i
      /\ lists[cur] \in Seq(Word) /\ Len(lists[cur]) \in Nat
      /\ EntryIn(v, f, heap)
  BY <1>1, AtSweep
<1>3. cur = Marked /\ gcpc = "sweepMarked"
  BY <1>1, <1>2, ListNames DEF isold, finalizer_list_marked_is_some
<1>4. v.addr # Null /\ f.addr # Null
  BY <1>1, <1>2 DEF is_zero, EntryIn, EntryOK, NullWord
<1> HIDE DEF v, f
<1>5. /\ t \in Seq(Word) /\ Len(t) = Len(lists[cur])
      /\ \A w \in 1..Len(lists[cur]) : t[w] = IF w = j + 1 THEN v
                                              ELSE IF w = j + 2 THEN f ELSE lists[cur][w]
  <2>1. j + 2 <= Len(lists[cur])
    BY <1>2
  <2> QED
    BY <1>2, <2>1, Set2 DEF EntryIn
<1>6. ListOK(t, heap) /\ Len(t) % 2 = 0
  <2>1. ListOK(lists[cur], heap) /\ j + 2 <= Len(lists[cur])
    BY <1>2 DEF ListsOK
  <2>2. ListOK(t, heap)
    BY <1>2, <2>1, SetKeepsListOK
  <2> QED
    BY <2>2 DEF ListOK
<1>7. NoEmptyWord(t)
  <2>1. NoEmptyWord(lists[cur])
    BY <1>2, <1>3 DEF ListsOK
  <2> HIDE DEF t
  <2> QED
    BY <1>4, <1>5, <2>1 DEF NoEmptyWord
<1>8. /\ lists' \in [Lists -> Seq(Word)]
      /\ \A k \in Lists : lists'[k] = IF k = cur THEN t ELSE lists[k]
  <2>1. lists' = [lists EXCEPT ![cur] = t]
    BY <1>1, <1>2 DEF TypeOK
  <2> HIDE DEF t
  <2> QED
    BY <1>2, <1>5, <2>1 DEF TypeOK
<1> HIDE DEF t
<1>9. TypeOK'
  <2>1. \A k \in Lists : Len(lists'[k]) % 2 = 0
    BY <1>2, <1>6, <1>8 DEF TypeOK
  <2>2. /\ i' \in Nat /\ j' \in Nat
        /\ UNCHANGED <<jl_gc_have_pending_finalizers, gcpc, cur, todo, orig_marked_len, nursery,
                       heap, old, live, copy, kept, before>>
    BY <1>1, <1>2 DEF heapVars, historyVars
  <2> QED
    BY <1>2, <1>8, <2>1, <2>2 DEF TypeOK
<1>10. ListsOK'
  <2>1. \A k \in Lists : ListOK(lists'[k], heap)
    BY <1>2, <1>6, <1>8 DEF ListsOK
  <2>2. NoEmptyWord(lists'[Marked]) /\ lists'[ToFinalize] = lists[ToFinalize]
    BY <1>3, <1>7, <1>8, ListNames
  <2> QED
    BY <1>1, <1>2, <2>1, <2>2 DEF ListsOK, NoEmptyWord, heapVars
<1>11. SweepMarkedOK'
  <2>1. \A m \in Mutators : lists'[m] = lists[m]
    BY <1>3, <1>8, ListNames
  <2>2. Len(lists'[cur]) = Len(lists[cur])
    BY <1>2, <1>5, <1>8
  <2>3. /\ i' % 2 = 0 /\ i' <= Len(lists'[cur'])
        /\ j' % 2 = 0 /\ j' <= i'
    BY <1>1, <1>2, <2>2
  <2> QED
    BY <1>1, <1>2, <1>3, <2>1, <2>3 DEF SweepMarkedOK, Emptied
<1> QED
  BY <1>1, <1>3, <1>9, <1>10, <1>11 DEF IInv, InMark

\* The swept list is cut to the entries that stayed.
LEMMA SweepDoneKeepsIInv ==
  ASSUME FinalizersAssumption, IInv, SweepDone
  PROVE  IInv'
<1> DEFINE t == SubSeq(lists[cur], 1, j)
<1>1. /\ gcpc \in {"sweep", "sweepMarked"} /\ cur # NoList /\ i >= Len(lists[cur])
      /\ lists' = [lists EXCEPT ![cur] = t]
      /\ cur' = NoList
      /\ UNCHANGED <<jl_gc_have_pending_finalizers, gcpc, todo, i, j, orig_marked_len,
                     nursery, heapVars, historyVars>>
  BY DEF SweepDone
<1>2. /\ TypeOK /\ ListsOK
      /\ gcpc = "sweep" => SweepOK /\ cur \in Mutators
      /\ gcpc = "sweepMarked" => SweepMarkedOK /\ cur = Marked
  BY <1>1 DEF IInv, SweepOK, SweepMarkedOK
<1>3. cur \in Lists /\ cur # ToFinalize
  BY <1>1, <1>2, ListNames
<1>4. lists[cur] \in Seq(Word) /\ Len(lists[cur]) \in Nat
  BY <1>2, <1>3, LenProperties DEF TypeOK
<1>5. j \in 0..Len(lists[cur]) /\ j % 2 = 0 /\ (gcpc = "sweep" => j = 0)
  <2>1. i \in Nat /\ j \in Nat
    BY <1>2 DEF TypeOK
  <2>2. CASE gcpc = "sweep"
    BY <1>1, <1>2, <1>4, <2>1, <2>2 DEF SweepOK
  <2>3. CASE gcpc = "sweepMarked"
    BY <1>1, <1>2, <1>4, <2>1, <2>3 DEF SweepMarkedOK
  <2> QED
    BY <1>1, <2>2, <2>3
<1>6. t \in Seq(Word) /\ Len(t) = j /\ \A w \in 1..j : t[w] = lists[cur][w]
  BY <1>4, <1>5, Cut
<1>7. ListOK(t, heap)
  BY <1>2, <1>3, <1>5, CutKeepsListOK DEF ListsOK
<1>8. gcpc = "sweep" => t = <<>>
  BY <1>5, <1>6
<1> HIDE DEF t
<1>9. /\ lists' \in [Lists -> Seq(Word)]
      /\ \A k \in Lists : lists'[k] = IF k = cur THEN t ELSE lists[k]
  BY <1>1, <1>2, <1>6 DEF TypeOK
<1>10. TypeOK'
  <2>1. \A k \in Lists : Len(lists'[k]) % 2 = 0
    BY <1>2, <1>5, <1>6, <1>9 DEF TypeOK
  <2> QED
    BY <1>1, <1>2, <1>9, <2>1 DEF TypeOK, heapVars, historyVars
<1>11. ListsOK'
  <2>1. \A k \in Lists : ListOK(lists'[k], heap)
    BY <1>2, <1>7, <1>9 DEF ListsOK
  <2>2. lists'[ToFinalize] = lists[ToFinalize]
    BY <1>3, <1>9, ListNames
  <2>3. NoEmptyWord(lists'[Marked])
    <3>1. CASE cur = Marked
      <4>1. NoEmptyWord(lists[cur])
        BY <1>2, <3>1 DEF ListsOK
      <4>2. NoEmptyWord(t)
        BY <1>4, <1>5, <1>6, <4>1 DEF NoEmptyWord
      <4> QED
        BY <1>3, <1>9, <3>1, <4>2
    <3>2. CASE cur # Marked
      BY <1>2, <1>9, <3>2, ListNames DEF ListsOK
    <3> QED
      BY <3>1, <3>2
  <2> QED
    BY <1>1, <1>2, <2>1, <2>2, <2>3 DEF ListsOK, NoEmptyWord, heapVars
<1>12. gcpc = "sweep" => SweepOK'
  <2> SUFFICES ASSUME gcpc = "sweep"
               PROVE  SweepOK'
    OBVIOUS
  <2>1. lists'[cur] = <<>> /\ \A m \in Mutators \ {cur} : lists'[m] = lists[m]
    BY <1>3, <1>8, <1>9, ListNames
  <2>2. Emptied(Mutators \ (todo \cup {cur}))'
    <3> SUFFICES ASSUME NEW m \in Mutators \ todo
                 PROVE  lists'[m] = <<>>
      BY <1>1 DEF Emptied
    <3> QED
      BY <1>2, <2>1 DEF SweepOK, Emptied
  <2>3. nursery => OldPartOK'
    <3>1. lists'[Marked] = lists[Marked]
      BY <1>2, <1>9, ListNames
    <3>2. Len(lists[Marked]) \in Nat
      BY <1>2, LenProperties, ListNames DEF TypeOK
    <3> QED
      BY <1>1, <1>2, <3>1, <3>2, OldPartKept DEF SweepOK, heapVars
  <2>4. cur' \notin todo'
    BY <1>1, <1>2, ListNames DEF TypeOK
  <2> QED
    BY <1>1, <2>2, <2>3, <2>4 DEF SweepOK
<1>13. gcpc = "sweepMarked" => SweepMarkedOK'
  BY <1>1, <1>2, <1>9, ListNames DEF SweepMarkedOK, Emptied
<1> QED
  BY <1>1, <1>10, <1>11, <1>12, <1>13 DEF IInv, InMark

-----------------------------------------------------------------------------
(* The marking keeps the invariant.                                        *)

\* Where the marking is: the word is not empty, it is a raw pointer with its C
\* function after it, or an object.
LEMMA AtMark ==
  ASSUME FinalizersAssumption, IInv, Marking
  PROVE  /\ TypeOK /\ ListsOK /\ MarkOK /\ InMark /\ cur \in {Marked, ToFinalize}
         /\ i \in Nat /\ i + 1 \in 1..Len(lists[cur])
         /\ lists[cur] \in Seq(Word) /\ Len(lists[cur]) \in Nat
         /\ get(cur, i) = lists[cur][i + 1]
         /\ get(cur, i) \in Word /\ get(cur, i).addr # Null
         /\ get(cur, i).addr \in Pointers <=> gc_ptr_tag(get(cur, i), 2)
         /\ get(cur, i).addr \in heap \cup Pointers
         /\ get(cur, i).tag # 0 => /\ i % 2 = 0 /\ i + 2 <= Len(lists[cur])
                                   /\ lists[cur][i + 2].addr \in Pointers
<1> DEFINE v == get(cur, i)
<1>1. TypeOK /\ ListsOK /\ MarkOK /\ InMark /\ cur # NoList /\ i < Len(lists[cur])
  BY DEF IInv, Marking, InMark
<1>2. cur \in Mutators \cup {Marked, ToFinalize}
  BY <1>1 DEF MarkOK, InMark
<1>3. cur \in Lists /\ lists[cur] \in Seq(Word) /\ Len(lists[cur]) \in Nat /\ i \in Nat
  BY <1>1, <1>2, LenProperties DEF TypeOK, Lists
<1>4. cur \in {Marked, ToFinalize}
  <2>1. cur \notin Mutators
    <3> SUFFICES ASSUME cur \in Mutators
                 PROVE  FALSE
      OBVIOUS
    <3>1. lists[cur] = <<>>
      BY <1>1 DEF MarkOK, Emptied
    <3> QED
      BY <1>1, <1>3, <3>1
  <2> QED
    BY <1>2, <2>1
<1>5. i + 1 \in 1..Len(lists[cur]) /\ v = lists[cur][i + 1]
  BY <1>1, <1>3 DEF get
<1> HIDE DEF v
<1>6. ListOK(lists[cur], heap)
  BY <1>1, <1>3 DEF ListsOK
<1>7. v \in Word /\ v.addr # Null /\ v.addr \in heap \cup Pointers
  <2>1. NoEmptyWord(lists[cur])
    BY <1>1, <1>4 DEF ListsOK
  <2>2. v \in Word
    BY <1>3, <1>5, ElementOfSeq
  <2> QED
    BY <1>5, <1>6, <2>1, <2>2 DEF NoEmptyWord, ListOK
\* At the second word of an entry the tag of the first one was 0.
<1>8. CASE i % 2 = 1
  <2>1. i \in 1..Len(lists[cur]) /\ Odd(i)
    BY <1>3, <1>5, <1>8 DEF Odd
  <2>2. EntryOK(lists[cur][i], v)
    BY <1>5, <1>6, <2>1 DEF ListOK
  <2>3. lists[cur][i].tag = 0
    BY <1>1, <2>1 DEF MarkOK, AtWord
  <2>4. v.tag = 0 /\ v.addr \notin Pointers
    BY <1>7, <2>2, <2>3 DEF EntryOK, NullWord
  <2>5. ~gc_ptr_tag(v, 2)
    BY <2>4 DEF gc_ptr_tag
  <2> QED
    BY <1>1, <1>3, <1>4, <1>5, <1>7, <2>4, <2>5 DEF v
<1>9. CASE i % 2 = 0
  <2>1. i + 2 <= Len(lists[cur]) /\ EntryIn(lists[cur][i + 1], lists[cur][i + 2], heap)
    BY <1>1, <1>3, <1>6, <1>9, EntryAt
  <2>2. /\ v.addr \in Pointers <=> v.tag = 3
        /\ v.tag # 0 => lists[cur][i + 2].addr \in Pointers
    BY <1>5, <1>7, <2>1 DEF EntryIn, EntryOK, NullWord
  <2>3. v.tag \in {0, 1, 3}
    BY <1>7 DEF Word, Tags
  <2>4. v.tag = 3 <=> gc_ptr_tag(v, 2)
    <3>1. (0 \div 2) % 2 = 0 /\ (1 \div 2) % 2 = 0 /\ (3 \div 2) % 2 = 1
      OBVIOUS
    <3> QED
      BY <2>3, <3>1 DEF gc_ptr_tag
  <2> QED
    BY <1>1, <1>3, <1>4, <1>5, <1>7, <1>9, <2>1, <2>2, <2>4 DEF v
<1> QED
  BY <1>3, <1>8, <1>9

\* The word after(v) that the marking goes to, and what it passes.
LEMMA AfterMark ==
  ASSUME FinalizersAssumption, IInv, Marking
  PROVE  LET v == get(cur, i)
         IN  /\ after(v) \in Nat /\ after(v) > i /\ after(v) <= Len(lists[cur])
             /\ \A w \in 1..Len(lists[cur]) :
                  w <= after(v) => w <= i \/ w = i + 1 \/ lists[cur][w].addr \in Pointers
             /\ Odd(after(v)) => v.tag = 0 /\ after(v) = i + 1
<1> DEFINE v == get(cur, i)
<1>1. /\ i \in Nat /\ i + 1 \in 1..Len(lists[cur]) /\ Len(lists[cur]) \in Nat
      /\ v \in Word
      /\ v.tag # 0 => /\ i % 2 = 0 /\ i + 2 <= Len(lists[cur])
                      /\ lists[cur][i + 2].addr \in Pointers
  BY AtMark
<1> HIDE DEF v
<1>2. v.tag \in {0, 1, 3}
  BY <1>1 DEF Word, Tags
<1>3. v.tag = 0 <=> ~gc_ptr_tag(v, 1)
  <2>1. (0 \div 1) % 2 = 0 /\ (1 \div 1) % 2 = 1 /\ (3 \div 1) % 2 = 1
    OBVIOUS
  <2> QED
    BY <1>2, <2>1 DEF gc_ptr_tag
<1>4. CASE v.tag = 0
  <2>1. after(v) = i + 1
    BY <1>3, <1>4 DEF after
  <2> QED
    BY <1>1, <1>4, <2>1 DEF v
<1>5. CASE v.tag # 0
  <2>1. after(v) = i + 2
    BY <1>3, <1>5 DEF after
  <2>2. ~Odd(i + 2)
    BY <1>1, <1>5 DEF Odd
  <2>3. \A w \in 1..Len(lists[cur]) : w <= i + 2 => w <= i \/ w = i + 1 \/ w = i + 2
    BY <1>1
  <2> QED
    BY <1>1, <1>5, <2>1, <2>2, <2>3 DEF v
<1> QED
  BY <1>4, <1>5

\* A step of the marking that leaves a word for where its object is now.
LEMMA MarkStepKeepsIInv ==
  ASSUME FinalizersAssumption, IInv, Marking, unchangedInMark, i' = after(get(cur, i)),
         live \subseteq live', live' \subseteq heap,
         NEW v \in Word, v.addr = get(cur, i).addr, v.tag = get(cur, i).tag,
         v.addr \in Objects => v.addr \in live' /\ v.copy = copy[v.addr],
         lists' = [lists EXCEPT ![cur] = [@ EXCEPT ![i + 1] = v]]
  PROVE  IInv'
<1> DEFINE t == [lists[cur] EXCEPT ![i + 1] = v]
<1>1. /\ TypeOK /\ ListsOK /\ MarkOK /\ InMark /\ cur \in {Marked, ToFinalize}
      /\ i \in Nat /\ i + 1 \in 1..Len(lists[cur])
      /\ lists[cur] \in Seq(Word) /\ Len(lists[cur]) \in Nat
      /\ get(cur, i) = lists[cur][i + 1] /\ v.addr # Null
  BY AtMark
<1>2. /\ i' \in Nat /\ i' <= Len(lists[cur])
      /\ \A w \in 1..Len(lists[cur]) :
           w <= i' => w <= i \/ w = i + 1 \/ lists[cur][w].addr \in Pointers
      /\ Odd(i') => v.tag = 0 /\ i' = i + 1
  BY AfterMark
<1>3. UNCHANGED <<jl_gc_have_pending_finalizers, gcpc, cur, todo, j, orig_marked_len, nursery,
                  heap, old, copy, kept, before>>
  BY DEF unchangedInMark, historyVars
<1>4. cur \in Lists /\ cur # NoList /\ Marked \in Lists
  BY <1>1, ListNames
<1>5. /\ t \in Seq(Word) /\ Len(t) = Len(lists[cur])
      /\ \A w \in 1..Len(lists[cur]) : t[w] = IF w = i + 1 THEN v ELSE lists[cur][w]
  BY <1>1, ExceptSeq
<1>6. ListOK(t, heap) /\ NoEmptyWord(t) /\ Len(t) % 2 = 0
  <2>1. ListOK(lists[cur], heap) /\ NoEmptyWord(lists[cur])
    BY <1>1, <1>4 DEF ListsOK
  <2>2. ListOK(t, heap)
    BY <1>1, <2>1, TraceKeepsListOK
  <2> HIDE DEF t
  <2>3. NoEmptyWord(t)
    BY <1>1, <1>5, <2>1 DEF NoEmptyWord
  <2> QED
    BY <2>2, <2>3 DEF ListOK
<1>7. /\ lists' \in [Lists -> Seq(Word)]
      /\ \A k \in Lists : lists'[k] = IF k = cur THEN t ELSE lists[k]
  <2>1. lists' = [lists EXCEPT ![cur] = t]
    OBVIOUS
  <2> HIDE DEF t
  <2> QED
    BY <1>1, <1>4, <1>5, <2>1 DEF TypeOK
<1> HIDE DEF t
<1>8. TypeOK'
  <2>1. \A k \in Lists : Len(lists'[k]) % 2 = 0
    BY <1>1, <1>6, <1>7 DEF TypeOK
  <2> QED
    BY <1>1, <1>2, <1>3, <1>7, <2>1 DEF TypeOK
<1>9. ListsOK'
  <2>1. \A k \in Lists : ListOK(lists'[k], heap)
    BY <1>1, <1>6, <1>7 DEF ListsOK
  <2>2. NoEmptyWord(lists'[Marked]) /\ NoEmptyWord(lists'[ToFinalize])
    BY <1>1, <1>6, <1>7, ListNames DEF ListsOK
  <2>3. (lists[ToFinalize] # <<>>)' <=> lists[ToFinalize] # <<>>
    <3>1. CASE cur = ToFinalize
      <4>1. Len(lists[ToFinalize]) # 0 /\ Len(t) # 0
        BY <1>1, <1>5, <3>1
      <4> QED
        BY <1>4, <1>7, <3>1, <4>1
    <3>2. CASE cur # ToFinalize
      BY <1>7, <3>2, ListNames
    <3> QED
      BY <3>1, <3>2
  <2> QED
    BY <1>1, <1>3, <2>1, <2>2, <2>3 DEF ListsOK, NoEmptyWord
\* What was traced still is, and the word is now.
<1>10. \A n, k : k \in Lists /\ TracedUpTo(lists[k], n) => TracedUpTo(lists[k], n)'
  <2> SUFFICES ASSUME NEW n, NEW k \in Lists, TracedUpTo(lists[k], n)
               PROVE  TracedUpTo(lists[k], n)'
    OBVIOUS
  <2>1. Len(lists'[k]) = Len(lists[k])
    BY <1>5, <1>7
  <2>2. \A w \in 1..Len(lists[k]) : lists'[k][w] \in {v, lists[k][w]}
    BY <1>5, <1>7
  <2> QED
    BY <1>3, <2>1, <2>2 DEF TracedUpTo, Traced
<1>11. AtWord'
  <2>1. (i <= Len(lists[cur]))'
    BY <1>2, <1>3, <1>4, <1>5, <1>7
  <2>2. (Odd(i) => lists[cur][i].tag = 0)'
    BY <1>1, <1>2, <1>3, <1>4, <1>5, <1>7
  <2>3. TracedUpTo(lists[cur], i)
    BY <1>1, <1>4 DEF MarkOK, AtWord
  <2>4. ASSUME NEW w \in 1..Len(t), w <= i', t[w].addr \in Objects
        PROVE  t[w].addr \in live' /\ t[w].copy = copy[t[w].addr]
    <3>1. CASE w = i + 1
      BY <1>5, <2>4, <3>1
    <3>2. CASE w # i + 1 /\ w <= i
      BY <1>5, <2>3, <2>4, <3>2 DEF Traced, TracedUpTo
    <3>3. CASE w # i + 1 /\ lists[cur][w].addr \in Pointers
      BY <1>5, <2>4, <3>3 DEF FinalizersAssumption
    <3> QED
      BY <1>2, <1>5, <2>4, <3>1, <3>2, <3>3
  <2>5. lists'[cur'] = t
    BY <1>3, <1>4, <1>7
  <2>6. TracedUpTo(lists[cur], i)'
    BY <1>3, <2>4, <2>5 DEF TracedUpTo, Traced
  <2> QED
    BY <2>1, <2>2, <2>6 DEF AtWord
<1>12. MarkOK'
  <2>1. Emptied(Mutators)'
    BY <1>1, <1>7, ListNames DEF MarkOK, Emptied
  <2>2. Len(lists'[Marked]) = Len(lists[Marked])
    BY <1>4, <1>5, <1>7
  <2>3. OldPartOK'
    <3>1. OldPartOK
      BY <1>1 DEF MarkOK
    <3>2. TracedUpTo(lists[Marked], orig_marked_len)'
      BY <1>3, <1>4, <1>10, <3>1 DEF OldPartOK
    <3> QED
      BY <1>3, <2>2, <3>1, <3>2 DEF OldPartOK
  <2>4. gcpc = "markToFinalize" => TracedUpTo(lists[Marked], Len(lists[Marked]))'
    BY <1>1, <1>4, <1>10, <2>2 DEF MarkOK
  <2>5. cur' # NoList
    BY <1>3, <1>4
  <2> QED
    BY <1>1, <1>3, <1>11, <2>1, <2>3, <2>4, <2>5 DEF MarkOK
<1> QED
  BY <1>1, <1>3, <1>8, <1>9, <1>12 DEF IInv, InMark

LEMMA MarkNativeKeepsIInv ==
  ASSUME FinalizersAssumption, IInv, MarkNative
  PROVE  IInv'
<1> DEFINE v == get(cur, i)
<1>1. /\ Marking /\ unchangedInMark /\ gc_ptr_tag(v, 2) /\ i' = after(v)
      /\ lists' = lists /\ live' = live
  BY DEF MarkNative
<1>2. /\ TypeOK /\ v \in Word /\ v.addr \in Pointers
      /\ i + 1 \in 1..Len(lists[cur]) /\ lists[cur] \in Seq(Word)
      /\ v = lists[cur][i + 1] /\ cur \in Lists
  BY <1>1, AtMark, ListNames
<1>3. v.addr \notin Objects
  BY <1>2 DEF FinalizersAssumption
<1> HIDE DEF v
<1>4. lists' = [lists EXCEPT ![cur] = [@ EXCEPT ![i + 1] = v]]
  <2>1. [lists[cur] EXCEPT ![i + 1] = v] = lists[cur]
    BY <1>2
  <2> QED
    BY <1>1, <1>2, <2>1 DEF TypeOK
<1>5. live \subseteq live' /\ live' \subseteq heap
  BY <1>1, <1>2 DEF TypeOK
<1> QED
  BY <1>1, <1>2, <1>3, <1>4, <1>5, MarkStepKeepsIInv DEF v

LEMMA MarkTraceKeepsIInv ==
  ASSUME FinalizersAssumption, IInv, MarkTrace
  PROVE  IInv'
<1> DEFINE v == get(cur, i)
           p == PointTo(v.addr, v.tag)
<1>1. /\ Marking /\ unchangedInMark /\ ~gc_ptr_tag(v, 2) /\ i' = after(v)
      /\ live' = live \cup {v.addr}
      /\ lists' = [lists EXCEPT ![cur][i + 1] = p]
  BY DEF MarkTrace
<1>2. TypeOK /\ v \in Word /\ v.addr \in heap
  BY <1>1, AtMark
<1>3. /\ p \in Word /\ p.addr = v.addr /\ p.tag = v.tag
      /\ p.copy = copy[v.addr]
  BY <1>2 DEF TypeOK, PointTo, Word
<1>4. live \subseteq live' /\ live' \subseteq heap /\ v.addr \in live'
  BY <1>1, <1>2 DEF TypeOK
<1>5. lists' = [lists EXCEPT ![cur] = [@ EXCEPT ![i + 1] = p]]
  BY <1>1
<1> HIDE DEF p
<1> QED
  BY <1>1, <1>3, <1>4, <1>5, MarkStepKeepsIInv

LEMMA MarkDoneKeepsIInv ==
  ASSUME FinalizersAssumption, IInv, MarkDone
  PROVE  IInv'
<1>1. /\ gcpc \in {"mark", "markMarked", "markToFinalize"}
      /\ cur # NoList /\ i >= Len(lists[cur]) /\ cur' = NoList
      /\ UNCHANGED <<lists, jl_gc_have_pending_finalizers, gcpc, todo, i, j, orig_marked_len,
                     nursery, heapVars, historyVars>>
  BY DEF MarkDone
<1>2. TypeOK /\ MarkOK
  BY <1>1 DEF IInv, InMark
<1>3. /\ ListsOK' /\ OldPartOK'
      /\ \A ms : Emptied(ms) => Emptied(ms)'
      /\ \A s, n : TracedUpTo(s, n) => TracedUpTo(s, n)'
  BY <1>1, <1>2, UnchangedLists DEF MarkOK
<1>4. TypeOK'
  BY <1>1, <1>2 DEF TypeOK, heapVars, historyVars
<1>5. TracedUpTo(lists[cur], Len(lists[cur]))
  <2>1. lists[cur] \in Seq(Word)
    BY <1>1, <1>2 DEF TypeOK
  <2>2. Len(lists[cur]) \in Nat /\ i \in Nat
    BY <1>2, <2>1, LenProperties DEF TypeOK
  <2>3. TracedUpTo(lists[cur], i)
    BY <1>1, <1>2 DEF MarkOK, AtWord
  <2> QED
    BY <1>1, <2>2, <2>3 DEF TracedUpTo
<1>6. MarkOK'
  <2>1. Emptied(Mutators)' /\ AtWord'
    BY <1>1, <1>2, <1>3 DEF MarkOK, AtWord, Emptied
  <2>2. gcpc = "markMarked" => TracedUpTo(lists[Marked], Len(lists[Marked]))'
    BY <1>1, <1>2, <1>5 DEF MarkOK, TracedUpTo, Traced, heapVars
  <2>3. gcpc = "markToFinalize" => /\ TracedUpTo(lists[Marked], Len(lists[Marked]))'
                                   /\ TracedUpTo(lists[ToFinalize], Len(lists[ToFinalize]))'
    BY <1>1, <1>2, <1>5 DEF MarkOK, TracedUpTo, Traced, heapVars
  <2> QED
    BY <1>1, <1>2, <1>3, <2>1, <2>2, <2>3 DEF MarkOK
<1> QED
  BY <1>1, <1>3, <1>4, <1>6 DEF IInv, InMark

-----------------------------------------------------------------------------
(* The theorems.                                                           *)

LEMMA StutterKeepsIInv ==
  ASSUME IInv, UNCHANGED vars
  PROVE  IInv'
<1> USE DEF vars, loopVars, heapVars, historyVars
<1>1. TypeOK'
  BY DEF IInv, TypeOK
<1>2. ListsOK' /\ (\A ms : Emptied(ms) => Emptied(ms)') /\ (OldPartOK => OldPartOK')
  BY UnchangedLists
<1>3. \A s, n : TracedUpTo(s, n) => TracedUpTo(s, n)'
  BY UnchangedLists
<1>4. gcpc = "none" => IdleOK'
  BY DEF IInv, IdleOK, Current, ObjectsIn
<1>5. gcpc = "sweep" => SweepOK'
  BY <1>2 DEF IInv, SweepOK, Emptied
<1>6. gcpc = "sweepMarked" => SweepMarkedOK'
  BY DEF IInv, SweepMarkedOK, Emptied
<1>7. InMark => MarkOK'
  <2> SUFFICES ASSUME InMark
               PROVE  MarkOK'
    OBVIOUS
  <2>1. MarkOK
    BY DEF IInv
  <2>2. AtWord' /\ Emptied(Mutators)' /\ OldPartOK'
    BY <1>2, <2>1 DEF MarkOK, AtWord, TracedUpTo, Traced, Emptied
  <2>3. \A l \in {Marked, ToFinalize} :
          TracedUpTo(lists[l], Len(lists[l])) => TracedUpTo(lists[l], Len(lists[l]))'
    BY DEF TracedUpTo, Traced
  <2> QED
    BY <2>1, <2>2, <2>3 DEF MarkOK
<1> QED
  BY <1>1, <1>2, <1>4, <1>5, <1>6, <1>7 DEF IInv, InMark

LEMMA NextKeepsIInv ==
  ASSUME FinalizersAssumption, IInv, [Next]_vars
  PROVE  IInv'
<1>1. ASSUME NEW o \in Objects, Alloc(o)
      PROVE  IInv'
  BY <1>1, AllocKeepsIInv
<1>2. ASSUME NEW o \in Objects, Finalize(o)
      PROVE  IInv'
  BY <1>2, FinalizeKeepsIInv
<1>3. ASSUME NEW m \in Mutators, AddFinalizer(m)
      PROVE  IInv'
  BY <1>3, AddFinalizerKeepsIInv
<1>4. CASE RunFinalizers
  BY <1>4, RunFinalizersKeepsIInv
<1>5. ASSUME NEW isNursery \in BOOLEAN, StartGC(isNursery)
      PROVE  IInv'
  BY <1>5, StartGCKeepsIInv
<1>6. CASE Pass
  <2>1. ASSUME NEW m \in Mutators, NextMutator(m)
        PROVE  IInv'
    BY <2>1, NextMutatorKeepsIInv
  <2>2. CASE SweepMarked \/ StartMarking \/ MarkMarked \/ MarkToFinalize \/ EndGC
    BY <2>2, SweepMarkedKeepsIInv, StartMarkingKeepsIInv, MarkMarkedKeepsIInv,
       MarkToFinalizeKeepsIInv, EndGCKeepsIInv
  <2>3. CASE SweepNull \/ SweepFreed \/ SweepOld \/ SweepKeep \/ SweepDone
    BY <2>3, SweepNullKeepsIInv, SweepFreedKeepsIInv, SweepOldKeepsIInv, SweepKeepKeepsIInv,
       SweepDoneKeepsIInv
  <2>4. CASE MarkNative \/ MarkTrace \/ MarkDone
    BY <2>4, MarkNativeKeepsIInv, MarkTraceKeepsIInv, MarkDoneKeepsIInv
  <2> QED
    BY <1>6, <2>1, <2>2, <2>3, <2>4 DEF Pass
<1>7. CASE UNCHANGED vars
  BY <1>7, StutterKeepsIInv
<1> QED
  BY <1>1, <1>2, <1>3, <1>4, <1>5, <1>6, <1>7 DEF Next

\* The invariant holds for any threads, objects, lists and collections.
THEOREM Invariance == Spec => []IInv
<1>1. Init => IInv
  BY FinalizersAssumption, InitIInv
<1>2. IInv /\ [Next]_vars => IInv'
  BY FinalizersAssumption, NextKeepsIInv
<1> QED
  BY <1>1, <1>2, PTL DEF Spec

\* Lists stay lists of entries of two words, of allocated objects, through the
\* compaction, the pushes and the tracing of scan_finalizers_in_rust.
THEOREM TypeCorrect == Spec => []TypeOK
<1>1. IInv => TypeOK
  BY DEF IInv
<1> QED
  BY <1>1, Invariance, PTL

\* Between collections no list points to freed memory or to where an object was
\* before it moved: the orig_marked_len of scan_finalizers_in_rust is right.
THEOREM NoDanglingEntries == Spec => []EntriesAreLive
<1>1. IInv => EntriesAreLive
  <2> SUFFICES ASSUME IInv, gcpc = "none", NEW l \in Lists, NEW w \in 1..Len(lists[l]),
                      lists[l][w].addr \in Objects
               PROVE  lists[l][w].addr \in heap /\ lists[l][w].copy = copy[lists[l][w].addr]
    BY DEF EntriesAreLive
  <2>1. lists[l][w].addr \in heap
    BY FinalizersAssumption DEF IInv, ListsOK, ListOK, FinalizersAssumption
  <2>2. lists[l][w].copy = copy[lists[l][w].addr]
    BY DEF IInv, IdleOK, Current
  <2> QED
    BY <2>1, <2>2
<1> QED
  BY <1>1, Invariance, PTL

\* The sweep empties the threads' lists: the loop of mark_finlist over them
\* (julia_finalizer.rs:48-52) never has anything to do.
THEOREM SweepEmptiesThreadLists == Spec => []ThreadListsAreEmptied
<1>1. IInv => ThreadListsAreEmptied
  BY DEF IInv, InMark, MarkOK, Emptied, ThreadListsAreEmptied
<1> QED
  BY <1>1, Invariance, PTL

\* jl_gc_have_pending_finalizers is set exactly when to_finalize has entries.
THEOREM FlagIsRight == Spec => []PendingFlag
<1>1. IInv => PendingFlag
  BY DEF IInv, ListsOK, PendingFlag
<1> QED
  BY <1>1, Invariance, PTL

\* The test of mark_finlist for an empty word (julia_finalizer.rs:198) is never
\* true, so Finalizers leaves the branch out.
LEMMA NoEmptyWordInMark ==
  ASSUME FinalizersAssumption, IInv, Marking
  PROVE  ~is_zero(get(cur, i))
BY AtMark DEF is_zero

-----------------------------------------------------------------------------
(* The pass progresses.                                                    *)

\* A loop takes up another list: nothing to count in it but that it is left.
LEMMA TakingAListProgresses ==
  ASSUME FinalizersAssumption, IInv, NEW m \in Mutators, NextMutator(m)
  PROVE  Progress
<1>1. TypeOK /\ gcpc' = gcpc
  BY DEF IInv, NextMutator
<1>2. m \in todo /\ todo' = todo \ {m} /\ cur = NoList /\ cur' = m
  BY DEF NextMutator
<1>3. m # NoList
  BY ListNames
<1>4. IsFiniteSet(todo)
  BY <1>1, FS_Subset DEF TypeOK, FinalizersAssumption
<1>5. /\ Cardinality(todo) \in Nat
      /\ Cardinality(todo') = Cardinality(todo) - 1
  BY <1>2, <1>4, FS_CardinalityType, FS_RemoveElement
<1>6. ListsLeft' = 2 * Cardinality(todo') + 1 /\ ListsLeft = 2 * Cardinality(todo)
  BY <1>2, <1>3, <1>4, <1>5 DEF ListsLeft
<1> QED
  BY <1>1, <1>5, <1>6 DEF Progress

\* A loop over all lists ends, or the pass does.
LEMMA NextPhaseProgresses ==
  ASSUME SweepMarked \/ StartMarking \/ MarkMarked \/ MarkToFinalize \/ EndGC
  PROVE  Progress
<1>1. /\ SweepMarked => gcpc = "sweep" /\ gcpc' = "sweepMarked"
      /\ StartMarking => gcpc \in {"sweep", "sweepMarked"} /\ gcpc' = "mark"
      /\ MarkMarked => gcpc = "mark" /\ gcpc' = "markMarked"
      /\ MarkToFinalize => gcpc = "markMarked" /\ gcpc' = "markToFinalize"
      /\ EndGC => gcpc = "markToFinalize" /\ gcpc' = "none"
  BY DEF SweepMarked, StartMarking, MarkMarked, MarkToFinalize, EndGC
<1>2. Phases[gcpc'] < Phases[gcpc]
  BY <1>1 DEF Phases
<1> QED
  BY <1>2 DEF Progress

\* The loop over one list ends.
LEMMA LeavingAListProgresses ==
  ASSUME FinalizersAssumption, IInv, SweepDone \/ MarkDone
  PROVE  Progress
<1>1. cur # NoList /\ cur' = NoList /\ todo' = todo /\ gcpc' = gcpc
  BY DEF SweepDone, MarkDone
<1>2. Cardinality(todo) \in Nat
  BY FS_Subset, FS_CardinalityType DEF IInv, TypeOK, FinalizersAssumption
<1>3. ListsLeft' = 2 * Cardinality(todo) /\ ListsLeft = 2 * Cardinality(todo) + 1
  BY <1>1, <1>2 DEF ListsLeft
<1> QED
  BY <1>1, <1>2, <1>3 DEF Progress

\* An iteration goes forward in a list that it does not make longer.
LEMMA IterationProgresses ==
  ASSUME i \in Nat, i' \in Nat, i' > i, cur # NoList, UNCHANGED <<gcpc, cur, todo>>,
         Len(lists[cur]) \in Nat, Len(lists'[cur]) = Len(lists[cur])
  PROVE  Progress
<1>1. ListsLeft' = ListsLeft
  BY DEF ListsLeft
<1>2. WordsLeft' = Len(lists[cur]) - i' /\ WordsLeft = Len(lists[cur]) - i
  BY DEF WordsLeft
<1> QED
  BY <1>1, <1>2 DEF Progress

\* The sweep of a list pushes only to other lists.
LEMMA SweepIterationProgresses ==
  ASSUME FinalizersAssumption, IInv, SweepNull \/ SweepFreed \/ SweepOld \/ SweepKeep
  PROVE  Progress
<1>1. Sweeping /\ i' = i + 2 /\ unchangedInSweep
  BY DEF SweepNull, SweepFreed, SweepOld, SweepKeep
<1>2. /\ TypeOK /\ cur \in Lists /\ cur # NoList /\ cur # ToFinalize
      /\ i \in Nat /\ lists[cur] \in Seq(Word) /\ Len(lists[cur]) \in Nat
  BY <1>1, AtSweep
<1>3. UNCHANGED <<gcpc, cur, todo>>
  BY <1>1 DEF unchangedInSweep
<1>4. Len(lists'[cur]) = Len(lists[cur])
  <2>1. CASE SweepNull
    BY <2>1 DEF SweepNull
  <2>2. ASSUME NEW l, l # cur, Push(l, i)
        PROVE  lists'[cur] = lists[cur]
    BY <1>2, <2>2 DEF Push, TypeOK
  <2>3. CASE SweepFreed
    BY <1>2, <2>2, <2>3 DEF SweepFreed
  <2>4. CASE SweepOld
    <3>1. cur # Marked
      BY <2>4 DEF SweepOld, isold, finalizer_list_marked_is_some
    <3> QED
      BY <2>2, <2>4, <3>1 DEF SweepOld
  <2>5. CASE SweepKeep
    <3> DEFINE v == get(cur, i)
               f == get(cur, i + 1)
               s == [lists[cur] EXCEPT ![j + 1] = v]
               t == [s EXCEPT ![j + 2] = f]
    <3>1. lists' = [lists EXCEPT ![cur] = t]
      BY <2>5, <1>2 DEF SweepKeep, TypeOK
    <3>2. lists'[cur] = t
      BY <1>2, <3>1 DEF TypeOK
    <3>3. Len(t) = Len(lists[cur])
      BY <1>2
    <3> QED
      BY <3>2, <3>3
  <2> QED
    BY <2>1, <2>3, <2>4, <2>5
<1> QED
  BY <1>1, <1>2, <1>3, <1>4, IterationProgresses

LEMMA MarkIterationProgresses ==
  ASSUME FinalizersAssumption, IInv, MarkNative \/ MarkTrace
  PROVE  Progress
<1>1. Marking /\ i' = after(get(cur, i)) /\ unchangedInMark
  BY DEF MarkNative, MarkTrace
<1>2. /\ TypeOK /\ cur \in {Marked, ToFinalize} /\ i \in Nat
      /\ i + 1 \in 1..Len(lists[cur])
      /\ lists[cur] \in Seq(Word) /\ Len(lists[cur]) \in Nat
  BY <1>1, AtMark
<1>3. i' \in Nat /\ i' > i
  BY <1>1, AfterMark
<1>4. UNCHANGED <<gcpc, cur, todo>> /\ cur \in Lists /\ cur # NoList
  BY <1>1, <1>2, ListNames DEF unchangedInMark
<1>5. Len(lists'[cur]) = Len(lists[cur])
  <2>1. CASE MarkNative
    BY <2>1 DEF MarkNative
  <2>2. CASE MarkTrace
    <3> DEFINE v == get(cur, i)
               t == [lists[cur] EXCEPT ![i + 1] = PointTo(v.addr, v.tag)]
    <3>1. lists' = [lists EXCEPT ![cur] = t]
      BY <2>2 DEF MarkTrace
    <3>2. lists'[cur] = t
      BY <1>4, <1>2, <3>1 DEF TypeOK
    <3>3. Len(t) = Len(lists[cur])
      BY <1>2
    <3> QED
      BY <3>2, <3>3
  <2> QED
    BY <2>1, <2>2
<1> QED
  BY <1>2, <1>3, <1>4, <1>5, IterationProgresses

\* scan_finalizers_in_rust ends, although it pushes to lists while it goes
\* through them: each of its steps gets nearer to the end.
THEOREM PassEnds == Spec => PassProgresses
<1>1. IInv /\ [Next]_vars => [gcpc # "none" => Progress]_vars
  <2> SUFFICES ASSUME IInv, Next, gcpc # "none"
               PROVE  Progress
    OBVIOUS
  <2>1. Pass
    BY DEF Next, Alloc, Finalize, AddFinalizer, RunFinalizers, StartGC
  <2>2. ASSUME NEW m \in Mutators, NextMutator(m)
        PROVE  Progress
    BY <2>2, FinalizersAssumption, TakingAListProgresses
  <2>3. CASE SweepMarked \/ StartMarking \/ MarkMarked \/ MarkToFinalize \/ EndGC
    BY <2>3, NextPhaseProgresses
  <2>4. CASE SweepNull \/ SweepFreed \/ SweepOld \/ SweepKeep
    BY <2>4, FinalizersAssumption, SweepIterationProgresses
  <2>5. CASE MarkNative \/ MarkTrace
    BY <2>5, FinalizersAssumption, MarkIterationProgresses
  <2>6. CASE SweepDone \/ MarkDone
    BY <2>6, FinalizersAssumption, LeavingAListProgresses
  <2> QED
    BY <2>1, <2>2, <2>3, <2>4, <2>5, <2>6 DEF Pass
<1> QED
  BY <1>1, Invariance, PTL DEF Spec, PassProgresses
=============================================================================
