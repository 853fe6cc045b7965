------------------------ MODULE FinalizersRefinement ------------------------
(***************************************************************************)
(* The lists of Finalizers implement the registry of FinalizerRegistry,    *)
(* for any threads, objects, lists and collections.                        *)
(*                                                                         *)
(* During the pass an entry is in one list and then in another, or at one  *)
(* place of its list and then at another.  The sweep leaves what it has    *)
(* passed behind itself until it cuts the list, so an entry stands for a   *)
(* finalizer only when it is not between j and i.  Of each pair as many    *)
(* entries stand at any time as there were when the pass started.          *)
(***************************************************************************)
EXTENDS FinalizersProofs

\* The pair in the nth entry of a list.
PairAt(s, n) == <<s[2 * n - 1].addr, s[2 * n - 1].tag, s[2 * n].addr>>

\* The entries of lists, and those of a pair.
Entries(ls, from) == {e \in from \X (Nat \ {0}) : 2 * e[2] <= Len(ls[e[1]])}
Of(ls, from, p) == {e \in Entries(ls, from) : PairAt(ls[e[1]], e[2]) = p}

\* The sweep has passed the nth entry and it did not stay there.
Passed(l, n) == /\ gcpc \in {"sweep", "sweepMarked"}
                /\ l = cur
                /\ j < 2 * n /\ 2 * n <= i

Standing(from, p) == {e \in Of(lists, from, p) : ~Passed(e[1], e[2])}

\* The pairs that the pass makes pending.
Moves(p) == p[2] = 3 \/ p[1] \notin kept

NoneIsLost ==
  gcpc # "none" =>
    \A p \in PairSet :
      /\ Cardinality(Standing(Lists, p)) = count(before, Lists, p)
      /\ ~Moves(p) => Cardinality(Standing({ToFinalize}, p)) = count(before, {ToFinalize}, p)

LiveIsKept == gcpc \in {"sweep", "sweepMarked"} => live = kept

\* No raw pointer comes into the marked list.
NoRawPointer == \A w \in 1..Len(lists[Marked]) : Odd(w) => lists[Marked][w].tag # 3

\* What the sweep of the marked list has left there, or the sweep of the
\* threads' lists in a nursery collection, is not to be pending.
Kept(k) == \A w \in 1..Len(lists[Marked]) : Odd(w) /\ w <= k => lists[Marked][w].addr \in kept

MarkedIsKept ==
  /\ gcpc = "sweepMarked" /\ cur # NoList => Kept(j)
  /\ \/ gcpc = "sweep" /\ nursery
     \/ gcpc = "sweepMarked" /\ cur = NoList
     \/ InMark
     => Kept(Len(lists[Marked]))

RInv == NoneIsLost /\ LiveIsKept /\ NoRawPointer /\ MarkedIsKept

-----------------------------------------------------------------------------
(* Counting.                                                               *)

LEMMA FiniteLists ==
  ASSUME FinalizersAssumption, NEW from \in SUBSET Lists
  PROVE  IsFiniteSet(from)
<1>1. IsFiniteSet(Mutators \cup {Marked})
  BY FS_AddElement DEF FinalizersAssumption
<1>2. IsFiniteSet((Mutators \cup {Marked}) \cup {ToFinalize})
  BY <1>1, FS_AddElement
<1>3. (Mutators \cup {Marked}) \cup {ToFinalize} = Lists
  BY DEF Lists
<1> QED
  BY <1>2, <1>3, FS_Subset

LEMMA FiniteEntries ==
  ASSUME NEW from, IsFiniteSet(from), NEW ls, \A l \in from : Len(ls[l]) \in Nat
  PROVE  IsFiniteSet(Entries(ls, from))
<1> DEFINE Bad == {U \in SUBSET from : ~IsFiniteSet(Entries(ls, U))}
<1>1. SUFFICES ASSUME Bad # {}
               PROVE  FALSE
  OBVIOUS
<1>2. FiniteSubsets(Bad, from)
  BY FS_Subset DEF FiniteSubsets
<1>3. PICK U \in Bad : \A V \in Bad : V \subseteq U => V = U
  <2> HIDE DEF Bad
  <2> QED
    BY <1>1, <1>2, SmallestFiniteSet DEF HasSmallest
<1>4. CASE U = {}
  <2>1. Entries(ls, U) = {}
    BY <1>4 DEF Entries
  <2> QED
    BY <2>1, FS_EmptySet
<1>5. CASE U # {}
  <2>1. PICK l \in U : TRUE
    BY <1>5
  <2>2. IsFiniteSet(Entries(ls, U \ {l}))
    BY <1>3, <2>1
  <2>3. Len(ls[l]) \in Nat
    BY <2>1
  <2> DEFINE More == {l} \X (1..Len(ls[l]))
  <2>4. Entries(ls, U) \subseteq Entries(ls, U \ {l}) \cup More
    BY <2>3 DEF Entries
  <2>5. IsFiniteSet(More)
    <3>1. IsFiniteSet({l})
      BY FS_Singleton
    <3>2. \A n \in Nat : IsFiniteSet(1..n)
      BY FS_Interval
    <3>3. IsFiniteSet(1..Len(ls[l]))
      BY <2>3, <3>2
    <3> QED
      BY <3>1, <3>3, FS_Product
  <2> HIDE DEF More
  <2>6. IsFiniteSet(Entries(ls, U \ {l}) \cup More)
    BY <2>2, <2>5, FS_Union
  <2>7. IsFiniteSet(Entries(ls, U))
    BY <2>4, <2>6, FS_Subset
  <2> QED
    BY <2>7
<1> QED
  BY <1>4, <1>5

LEMMA OfIsFinite ==
  ASSUME FinalizersAssumption, NEW ls \in [Lists -> Seq(Word)], NEW from \in SUBSET Lists, NEW p
  PROVE  /\ IsFiniteSet(Of(ls, from, p))
         /\ Cardinality(Of(ls, from, p)) \in Nat
<1>1. \A l \in from : Len(ls[l]) \in Nat
  BY LenProperties
<1>2. IsFiniteSet(Entries(ls, from))
  BY <1>1, FiniteLists, FiniteEntries
<1> QED
  BY <1>2, FS_Subset, FS_CardinalityType DEF Of

LEMMA HalfOf ==
  ASSUME NEW m \in Nat
  PROVE  1..(m \div 2) = {n \in Nat \ {0} : 2 * n <= m}
<1>1. \A n \in Nat : n <= m \div 2 <=> 2 * n <= m
  OBVIOUS
<1>2. m \div 2 \in Nat
  OBVIOUS
<1>3. 1..(m \div 2) = {n \in Nat \ {0} : n <= m \div 2}
  <2> DEFINE h == m \div 2
  <2>1. h \in Nat
    BY <1>2
  <2> HIDE DEF h
  <2> QED
    <3>1. 1..h = {n \in Nat \ {0} : n <= h}
      BY <2>1
    <3> QED
      BY <3>1 DEF h
<1> QED
  BY <1>1, <1>3

LEMMA CountIs ==
  ASSUME NEW ls \in [Lists -> Seq(Word)], NEW from \in SUBSET Lists, NEW p
  PROVE  count(ls, from, p) = Cardinality(Of(ls, from, p))
<1>1. ASSUME NEW l \in from
      PROVE  1..(Len(ls[l]) \div 2) = {n \in Nat \ {0} : 2 * n <= Len(ls[l])}
  <2>1. Len(ls[l]) \in Nat
    BY LenProperties
  <2> QED
    BY <2>1, HalfOf
<1>2. EntryNumbers(ls, from) = Entries(ls, from)
  <2>1. ASSUME NEW e \in EntryNumbers(ls, from)
        PROVE  e \in Entries(ls, from)
    <3>1. PICK l \in from : e \in {l} \X (1..(Len(ls[l]) \div 2))
      BY DEF EntryNumbers
    <3> QED
      BY <1>1, <3>1 DEF Entries
  <2>2. ASSUME NEW e \in Entries(ls, from)
        PROVE  e \in EntryNumbers(ls, from)
    <3>1. e[1] \in from /\ e \in {e[1]} \X (1..(Len(ls[e[1]]) \div 2))
      BY <1>1 DEF Entries
    <3> QED
      BY <3>1 DEF EntryNumbers
  <2> QED
    BY <2>1, <2>2
<1>3. \A e : pair(ls, e) = PairAt(ls[e[1]], e[2])
  BY DEF pair, PairAt
<1> QED
  BY <1>2, <1>3 DEF count, Of

\* The pairs of all lists are those of to_finalize and those of the others.
LEMMA CountAll ==
  ASSUME FinalizersAssumption, NEW ls \in [Lists -> Seq(Word)], NEW p
  PROVE  /\ count(ls, Lists, p) = count(ls, Mutators \cup {Marked}, p) + count(ls, {ToFinalize}, p)
         /\ count(ls, Mutators \cup {Marked}, p) \in Nat
         /\ count(ls, {ToFinalize}, p) \in Nat
<1> DEFINE S == Of(ls, Mutators \cup {Marked}, p)
           T == Of(ls, {ToFinalize}, p)
<1>1. Mutators \cup {Marked} \in SUBSET Lists /\ {ToFinalize} \in SUBSET Lists
  BY DEF Lists
<1>2. /\ IsFiniteSet(S) /\ IsFiniteSet(T)
      /\ Cardinality(S) \in Nat /\ Cardinality(T) \in Nat
  BY <1>1, OfIsFinite
<1>3. S \cup T = Of(ls, Lists, p)
  BY DEF Of, Entries, Lists
<1>4. S \cap T = {}
  BY ListNames DEF Of, Entries
<1> HIDE DEF S, T
<1>5. Cardinality(S \cup T) = Cardinality(S) + Cardinality(T)
  <2>1. Cardinality(S \cap T) = 0
    BY <1>4, FS_EmptySet
  <2>2. Cardinality(S \cup T) = Cardinality(S) + Cardinality(T) - Cardinality(S \cap T)
    BY <1>2, FS_Union
  <2> QED
    BY <1>2, <2>1, <2>2
<1> QED
  BY <1>1, <1>2, <1>3, <1>5, CountIs DEF S, T

LEMMA Swap ==
  ASSUME NEW S, IsFiniteSet(S), NEW x \in S, NEW y, y \notin S \ {x}
  PROVE  Cardinality((S \ {x}) \cup {y}) = Cardinality(S)
<1>1. IsFiniteSet(S \ {x}) /\ Cardinality(S \ {x}) = Cardinality(S) - 1 /\ Cardinality(S) \in Nat
  BY FS_RemoveElement, FS_CardinalityType
<1>2. Cardinality((S \ {x}) \cup {y}) = Cardinality(S \ {x}) + 1
  BY <1>1, FS_AddElement
<1> QED
  BY <1>1, <1>2

-----------------------------------------------------------------------------
(* The pass loses no entry and makes none.                                 *)

\* Where the sweep is, in entries, and the pair it is at.
LEMMA AtEntry ==
  ASSUME FinalizersAssumption, IInv, Sweeping
  PROVE  /\ cur \in Lists /\ cur # ToFinalize
         /\ gcpc \in {"sweep", "sweepMarked"}
         /\ \E g, h \in Nat :
              /\ j = 2 * g /\ i = 2 * h /\ g <= h /\ 2 * (h + 1) <= Len(lists[cur])
              /\ PairAt(lists[cur], h + 1) =
                   <<get(cur, i).addr, get(cur, i).tag, get(cur, i + 1).addr>>
<1>1. /\ cur \in Lists /\ cur # ToFinalize /\ gcpc \in {"sweep", "sweepMarked"}
      /\ i \in Nat /\ i % 2 = 0 /\ i + 2 <= Len(lists[cur])
      /\ j \in Nat /\ j % 2 = 0 /\ j <= i
      /\ Len(lists[cur]) \in Nat
      /\ get(cur, i) = lists[cur][i + 1] /\ get(cur, i + 1) = lists[cur][i + 2]
  BY AtSweep
<1>2. PICK g \in Nat, h \in Nat : j = 2 * g /\ i = 2 * h
  <2>1. \A k \in Nat : k % 2 = 0 => k \div 2 \in Nat /\ k = 2 * (k \div 2)
    OBVIOUS
  <2> QED
    BY <1>1, <2>1
<1>3. g <= h /\ 2 * (h + 1) = i + 2 /\ 2 * (h + 1) - 1 = i + 1
  BY <1>1, <1>2
<1>4. PairAt(lists[cur], h + 1) = <<get(cur, i).addr, get(cur, i).tag, get(cur, i + 1).addr>>
  BY <1>1, <1>3 DEF PairAt
<1> QED
  BY <1>1, <1>2, <1>3, <1>4

\* The pairs that the sweep takes for freed are those that become pending.
LEMMA FreedMoves ==
  ASSUME NEW word \in Word, live = kept
  PROVE  isfreed(word) <=> word.tag = 3 \/ word.addr \notin kept
<1>1. (0 \div 2) % 2 = 0 /\ (1 \div 2) % 2 = 0 /\ (3 \div 2) % 2 = 1
  OBVIOUS
<1>2. word.tag \in {0, 1, 3}
  BY DEF Word, Tags
<1> QED
  BY <1>1, <1>2 DEF isfreed, is_live_object, gc_ptr_tag

LEMMA CountOfBefore ==
  ASSUME before' = before, NEW from, NEW p
  PROVE  count(before, from, p)' = count(before, from, p)
BY DEF count, EntryNumbers, pair

\* It is enough that a step keeps the numbers.
LEMMA NoneIsLostKept ==
  ASSUME NoneIsLost, gcpc # "none", before' = before, kept' = kept,
         \A p \in PairSet :
           /\ Cardinality(Standing(Lists, p))' = Cardinality(Standing(Lists, p))
           /\ ~Moves(p) => Cardinality(Standing({ToFinalize}, p))' =
                             Cardinality(Standing({ToFinalize}, p))
  PROVE  NoneIsLost'
<1>1. ASSUME NEW p
      PROVE  Moves(p)' = Moves(p) /\ \A from : count(before, from, p)' = count(before, from, p)
  BY CountOfBefore DEF Moves
<1>2. ASSUME NEW p \in PairSet
      PROVE  Cardinality(Standing(Lists, p))' = count(before, Lists, p)'
  BY <1>1 DEF NoneIsLost
<1>3. ASSUME NEW p \in PairSet, ~Moves(p)'
      PROVE  Cardinality(Standing({ToFinalize}, p))' = count(before, {ToFinalize}, p)'
  BY <1>1, <1>3 DEF NoneIsLost
<1> QED
  BY <1>2, <1>3 DEF NoneIsLost

\* Steps that leave the lists alone and pass nothing.
LEMMA NothingMoved ==
  ASSUME lists' = lists, \A l \in Lists : \A n : Passed(l, n)' = Passed(l, n),
         NEW from \in SUBSET Lists, NEW p
  PROVE  Standing(from, p)' = Standing(from, p)
BY DEF Standing, Of, Entries

LEMMA FiniteStanding ==
  ASSUME FinalizersAssumption, TypeOK, NEW from \in SUBSET Lists, NEW p
  PROVE  IsFiniteSet(Standing(from, p))
BY OfIsFinite, FS_Subset DEF Standing, TypeOK

\* The nth entry of a list stands for a pair.
Stands(l, n, p) == /\ 2 * n <= Len(lists[l])
                   /\ PairAt(lists[l], n) = p
                   /\ ~Passed(l, n)

LEMMA StandingIs ==
  ASSUME NEW from \in SUBSET Lists, NEW p
  PROVE  /\ Standing(from, p) = {e \in from \X (Nat \ {0}) : Stands(e[1], e[2], p)}
         /\ Standing(from, p)' = {e \in from \X (Nat \ {0}) : Stands(e[1], e[2], p)'}
BY DEF Standing, Of, Entries, Stands

\* A step after which the same entries stand.
LEMMA SameStand ==
  ASSUME NEW p, \A k \in Lists, n \in Nat \ {0} : Stands(k, n, p)' <=> Stands(k, n, p),
         NEW from \in SUBSET Lists
  PROVE  Standing(from, p)' = Standing(from, p)
BY StandingIs

\* A step that takes the entry of a pair q from x to y.
Takes(q, x, y, p) ==
  /\ \A k \in Lists, n \in Nat \ {0} :
       Stands(k, n, p)' <=> (Stands(k, n, p) /\ <<k, n>> # x) \/ (<<k, n>> = y /\ p = q)
  /\ Stands(x[1], x[2], p) <=> p = q
  /\ Stands(y[1], y[2], p) => x = y

LEMMA OneMoves ==
  ASSUME FinalizersAssumption, TypeOK, NEW from \in SUBSET Lists, NEW p, NEW q,
         NEW x \in Lists \X (Nat \ {0}), NEW y \in Lists \X (Nat \ {0}),
         Takes(q, x, y, p),
         p = q => (x[1] \in from <=> y[1] \in from)
  PROVE  Cardinality(Standing(from, p))' = Cardinality(Standing(from, p))
<1> DEFINE S == Standing(from, p)
           T == {e \in from \X (Nat \ {0}) : Stands(e[1], e[2], p)'}
<1>1. /\ S = {e \in from \X (Nat \ {0}) : Stands(e[1], e[2], p)}
      /\ Standing(from, p)' = T
  BY StandingIs
<1>2. IsFiniteSet(S)
  BY FiniteStanding
<1>3. ASSUME NEW e \in from \X (Nat \ {0})
      PROVE  Stands(e[1], e[2], p)' <=> (Stands(e[1], e[2], p) /\ e # x) \/ (e = y /\ p = q)
  <2>1. e[1] \in Lists /\ e[2] \in Nat \ {0} /\ e = <<e[1], e[2]>>
    OBVIOUS
  <2> QED
    BY <2>1 DEF Takes
<1>4. x = <<x[1], x[2]>> /\ y = <<y[1], y[2]>> /\ x[2] \in Nat \ {0} /\ y[2] \in Nat \ {0}
  OBVIOUS
<1> HIDE DEF T
<1>5. CASE p = q /\ x[1] \in from
  <2>1. x \in S
    BY <1>1, <1>4, <1>5 DEF Takes
  <2>2. y \notin S \ {x}
    BY <1>1 DEF Takes
  <2>3. T = (S \ {x}) \cup {y}
    BY <1>1, <1>3, <1>4, <1>5 DEF T
  <2>4. Cardinality(T) = Cardinality(S)
    <3> HIDE DEF S
    <3> QED
      BY <1>2, <2>1, <2>2, <2>3, Swap
  <2> QED
    BY <1>1, <2>4
<1>6. CASE ~(p = q /\ x[1] \in from)
  <2>1. T = S
    BY <1>1, <1>3, <1>4, <1>6 DEF T, Takes
  <2> QED
    BY <1>1, <2>1
<1> QED
  BY <1>5, <1>6

\* No pair is lost when an entry moves, to to_finalize only if it is to.
LEMMA MoveLosesNone ==
  ASSUME FinalizersAssumption, TypeOK, NoneIsLost, gcpc # "none", before' = before, kept' = kept,
         NEW q,
         NEW x \in Lists \X (Nat \ {0}), NEW y \in Lists \X (Nat \ {0}),
         \A p \in PairSet : Takes(q, x, y, p),
         x[1] # ToFinalize,
         y[1] = ToFinalize => Moves(q)
  PROVE  NoneIsLost'
<1>1. ToFinalize \in Lists
  BY DEF Lists
<1>2. ASSUME NEW p \in PairSet
      PROVE  Cardinality(Standing(Lists, p))' = Cardinality(Standing(Lists, p))
  <2>1. Lists \in SUBSET Lists /\ x[1] \in Lists /\ y[1] \in Lists
    OBVIOUS
  <2> QED
    BY <2>1, OneMoves
<1>3. ASSUME NEW p \in PairSet, ~Moves(p)
      PROVE  Cardinality(Standing({ToFinalize}, p))' = Cardinality(Standing({ToFinalize}, p))
  <2>1. {ToFinalize} \in SUBSET Lists
    BY <1>1
  <2>2. p = q => (x[1] \in {ToFinalize} <=> y[1] \in {ToFinalize})
    BY <1>3
  <2> QED
    BY <2>1, <2>2, OneMoves
<1> QED
  BY <1>2, <1>3, NoneIsLostKept

\* No pair is lost when the same entries stand.
LEMMA StillLosesNone ==
  ASSUME FinalizersAssumption, NoneIsLost, gcpc # "none", before' = before, kept' = kept,
         \A p \in PairSet, k \in Lists, n \in Nat \ {0} : Stands(k, n, p)' <=> Stands(k, n, p)
  PROVE  NoneIsLost'
<1>1. Lists \in SUBSET Lists /\ {ToFinalize} \in SUBSET Lists
  BY DEF Lists
<1>2. ASSUME NEW p \in PairSet
      PROVE  /\ Standing(Lists, p)' = Standing(Lists, p)
             /\ Standing({ToFinalize}, p)' = Standing({ToFinalize}, p)
  BY <1>1, SameStand
<1> QED
  BY <1>2, NoneIsLostKept

LEMMA PushLosesNone ==
  ASSUME FinalizersAssumption, IInv, NoneIsLost, Sweeping, unchangedInSweep, i' = i + 2, j' = j,
         NEW l \in {Marked, ToFinalize}, l # cur, Push(l, i),
         l = ToFinalize => Moves(<<get(cur, i).addr, get(cur, i).tag, get(cur, i + 1).addr>>)
  PROVE  NoneIsLost'
<1> DEFINE q == <<get(cur, i).addr, get(cur, i).tag, get(cur, i + 1).addr>>
           v == get(cur, i)
           f == get(cur, i + 1)
<1>1. /\ cur \in Lists /\ cur # ToFinalize /\ gcpc \in {"sweep", "sweepMarked"}
      /\ l \in Lists
  BY AtEntry, ListNames
<1>2. PICK g, h \in Nat :
        /\ j = 2 * g /\ i = 2 * h /\ g <= h /\ 2 * (h + 1) <= Len(lists[cur])
        /\ PairAt(lists[cur], h + 1) = q
  BY AtEntry
<1>3. TypeOK /\ v \in Word /\ f \in Word /\ lists[l] \in Seq(Word)
  BY <1>1, AtSweep DEF EntryIn, TypeOK
<1>4. PICK c \in Nat : Len(lists[l]) = 2 * c
  <2>1. Len(lists[l]) \in Nat /\ Len(lists[l]) % 2 = 0
    BY <1>1, <1>3, LenProperties DEF TypeOK
  <2>2. \A k \in Nat : k % 2 = 0 => k \div 2 \in Nat /\ k = 2 * (k \div 2)
    OBVIOUS
  <2> QED
    BY <2>1, <2>2
<1> DEFINE t == lists[l] \o <<v, f>>
<1>5. /\ Len(t) = 2 * c + 2
      /\ \A w \in 1..(2 * c) : t[w] = lists[l][w]
      /\ t[2 * c + 1] = v /\ t[2 * c + 2] = f
  <2> HIDE DEF v, f
  <2>1. /\ Len(t) = Len(lists[l]) + 2
        /\ \A w \in 1..Len(lists[l]) : t[w] = lists[l][w]
        /\ t[Len(lists[l]) + 1] = v /\ t[Len(lists[l]) + 2] = f
    BY <1>3, Push2
  <2> HIDE DEF t
  <2> QED
    BY <1>4, <2>1
<1>6. \A k \in Lists : lists'[k] = IF k = l THEN t ELSE lists[k]
  BY <1>1, <1>3 DEF Push, TypeOK
<1> HIDE DEF t, v, f
<1>7. /\ gcpc' = gcpc /\ cur' = cur /\ before' = before /\ kept' = kept /\ gcpc # "none"
      /\ i' = 2 * h + 2
  BY <1>1, <1>2 DEF unchangedInSweep, historyVars
<1>8. \A k \in Lists, n \in Nat \ {0} :
        /\ Passed(k, n) <=> k = cur /\ g < n /\ n <= h
        /\ Passed(k, n)' <=> k = cur /\ g < n /\ n <= h + 1
  <2>1. \A n \in Nat : /\ 2 * g < 2 * n <=> g < n
                       /\ 2 * n <= 2 * h <=> n <= h
                       /\ 2 * n <= 2 * h + 2 <=> n <= h + 1
    BY <1>2
  <2> QED
    BY <1>1, <1>2, <1>7, <2>1 DEF Passed
<1>9. PairAt(t, c + 1) = q /\ \A n \in 1..c : PairAt(t, n) = PairAt(lists[l], n)
  <2>1. PairAt(t, c + 1) = q
    <3>1. 2 * (c + 1) - 1 = 2 * c + 1 /\ 2 * (c + 1) = 2 * c + 2
      BY <1>4
    <3> QED
      BY <1>5, <3>1 DEF PairAt, v, f
  <2>2. ASSUME NEW n \in 1..c
        PROVE  PairAt(t, n) = PairAt(lists[l], n)
    <3>1. 2 * n - 1 \in 1..(2 * c) /\ 2 * n \in 1..(2 * c)
      BY <1>4
    <3> QED
      BY <1>5, <3>1 DEF PairAt
  <2> QED
    BY <2>1, <2>2
<1> HIDE DEF q
<1>10. /\ \A n \in Nat \ {0} : 2 * n <= 2 * c + 2 <=> n \in 1..c \/ n = c + 1
       /\ \A n \in Nat \ {0} : 2 * n <= 2 * c <=> n \in 1..c
       /\ c + 1 \notin 1..c
  BY <1>4
<1>11. ASSUME NEW p, NEW k \in Lists, NEW n \in Nat \ {0}
       PROVE  Stands(k, n, p)' <=> (Stands(k, n, p) /\ <<k, n>> # <<cur, h + 1>>)
                                   \/ (<<k, n>> = <<l, c + 1>> /\ p = q)
  <2>1. CASE k = l
    <3>1. Stands(k, n, p) <=> n \in 1..c /\ PairAt(lists[l], n) = p
      BY <1>4, <1>8, <1>10, <2>1 DEF Stands
    <3>2. ~Passed(k, n)'
      BY <1>8, <2>1
    <3>3. Stands(k, n, p)' <=> 2 * n <= Len(t) /\ PairAt(t, n) = p
      BY <1>6, <2>1, <3>2 DEF Stands
    <3>4. Stands(k, n, p)' <=> (n \in 1..c \/ n = c + 1) /\ PairAt(t, n) = p
      BY <1>5, <1>10, <3>3
    <3> QED
      BY <1>9, <1>10, <2>1, <3>1, <3>4
  <2>2. CASE k # l
    <3>1. Stands(k, n, p)' <=> 2 * n <= Len(lists[k]) /\ PairAt(lists[k], n) = p /\ ~Passed(k, n)'
      BY <1>6, <2>2 DEF Stands
    <3>2. Passed(k, n)' <=> Passed(k, n) \/ <<k, n>> = <<cur, h + 1>>
      BY <1>2, <1>8
    <3> QED
      BY <2>2, <3>1, <3>2 DEF Stands
  <2> QED
    BY <2>1, <2>2
<1> DEFINE x == <<cur, h + 1>>
           y == <<l, c + 1>>
<1>12. x \in Lists \X (Nat \ {0}) /\ y \in Lists \X (Nat \ {0})
  BY <1>1, <1>2, <1>4
<1>13. ASSUME NEW p
       PROVE  Stands(cur, h + 1, p) <=> p = q
  <2>1. ~Passed(cur, h + 1)
    BY <1>1, <1>2, <1>8
  <2> QED
    BY <1>2, <2>1 DEF Stands
<1>14. ASSUME NEW p
       PROVE  ~Stands(l, c + 1, p)
  BY <1>4 DEF Stands
<1>15. x[1] # ToFinalize /\ (y[1] = ToFinalize => Moves(q))
  BY <1>1 DEF q
<1>16. ASSUME NEW p \in PairSet
       PROVE  Takes(q, x, y, p)
  BY <1>11, <1>13, <1>14 DEF Takes
<1> HIDE DEF x, y
<1> QED
  BY <1>3, <1>7, <1>12, <1>15, <1>16, MoveLosesNone

LEMMA SweepFreedLosesNone ==
  ASSUME FinalizersAssumption, IInv, NoneIsLost, LiveIsKept, SweepFreed
  PROVE  NoneIsLost'
<1>1. /\ Sweeping /\ unchangedInSweep /\ i' = i + 2 /\ j' = j /\ Push(ToFinalize, i)
      /\ isfreed(get(cur, i))
  BY DEF SweepFreed
<1>2. /\ ToFinalize # cur /\ get(cur, i) \in Word
      /\ gcpc \in {"sweep", "sweepMarked"}
  BY <1>1, AtSweep DEF EntryIn
<1>3. get(cur, i).tag = 3 \/ get(cur, i).addr \notin kept
  BY <1>1, <1>2, FreedMoves DEF LiveIsKept
<1>4. Moves(<<get(cur, i).addr, get(cur, i).tag, get(cur, i + 1).addr>>)
  BY <1>3 DEF Moves
<1> QED
  BY <1>1, <1>2, <1>4, PushLosesNone

LEMMA SweepOldLosesNone ==
  ASSUME FinalizersAssumption, IInv, NoneIsLost, SweepOld
  PROVE  NoneIsLost'
<1>1. /\ Sweeping /\ unchangedInSweep /\ i' = i + 2 /\ j' = j /\ Push(Marked, i)
      /\ Marked # cur
  BY DEF SweepOld, isold, finalizer_list_marked_is_some
<1> QED
  BY <1>1, ListNames, PushLosesNone

\* Of an empty entry no pair is lost.
LEMMA SweepNullLosesNone ==
  ASSUME FinalizersAssumption, IInv, NoneIsLost, SweepNull
  PROVE  NoneIsLost'
<1>1. /\ Sweeping /\ i' = i + 2 /\ j' = j /\ lists' = lists
      /\ get(cur, i).addr = Null
      /\ UNCHANGED <<gcpc, cur, before, kept>>
  BY DEF SweepNull, unchangedInSweep, is_zero, historyVars
<1>2. cur \in Lists /\ gcpc \in {"sweep", "sweepMarked"}
  BY <1>1, AtEntry
<1>3. PICK g, h \in Nat :
        /\ j = 2 * g /\ i = 2 * h /\ g <= h /\ 2 * (h + 1) <= Len(lists[cur])
        /\ PairAt(lists[cur], h + 1) =
             <<get(cur, i).addr, get(cur, i).tag, get(cur, i + 1).addr>>
  BY <1>1, AtEntry
<1>4. \A p \in PairSet : PairAt(lists[cur], h + 1) # p
  BY <1>1, <1>3 DEF PairSet, FinalizersAssumption
<1>5. \A k \in Lists, n \in Nat \ {0} : Passed(k, n)' <=> Passed(k, n) \/ (k = cur /\ n = h + 1)
  <2>1. i' = 2 * h + 2
    BY <1>1, <1>3
  <2>2. \A n \in Nat : 2 * g < 2 * n /\ 2 * n <= 2 * h + 2 <=>
                         (2 * g < 2 * n /\ 2 * n <= 2 * h) \/ n = h + 1
    BY <1>3
  <2> QED
    BY <1>1, <1>2, <1>3, <2>1, <2>2 DEF Passed
<1>6. ASSUME NEW p \in PairSet, NEW k \in Lists, NEW n \in Nat \ {0}
      PROVE  Stands(k, n, p)' <=> Stands(k, n, p)
  BY <1>1, <1>4, <1>5 DEF Stands
<1> QED
  BY <1>1, <1>2, <1>6, StillLosesNone

LEMMA SweepKeepLosesNone ==
  ASSUME FinalizersAssumption, IInv, NoneIsLost, SweepKeep
  PROVE  NoneIsLost'
<1> DEFINE v == get(cur, i)
           f == get(cur, i + 1)
           q == <<v.addr, v.tag, f.addr>>
           s == lists[cur]
           t == [s EXCEPT ![j + 1] = v, ![j + 2] = f]
<1>1. /\ Sweeping /\ i' = i + 2 /\ j' = j + 2
      /\ lists' = [lists EXCEPT ![cur][j + 1] = v, ![cur][j + 2] = f]
      /\ UNCHANGED <<gcpc, cur, before, kept>>
  BY DEF SweepKeep, unchangedInSweep, historyVars
<1>2. /\ TypeOK /\ cur \in Lists /\ cur # ToFinalize /\ gcpc \in {"sweep", "sweepMarked"}
      /\ v \in Word /\ f \in Word /\ s \in Seq(Word) /\ Len(s) \in Nat
  BY <1>1, AtSweep DEF EntryIn
<1>3. PICK g, h \in Nat :
        /\ j = 2 * g /\ i = 2 * h /\ g <= h /\ 2 * (h + 1) <= Len(s) /\ PairAt(s, h + 1) = q
  BY <1>1, AtEntry
<1>4. lists' = [lists EXCEPT ![cur] = t]
  BY <1>1, <1>2 DEF TypeOK
<1>5. \A k \in Lists : lists'[k] = IF k = cur THEN t ELSE lists[k]
  <2> HIDE DEF t
  <2> QED
    BY <1>2, <1>4 DEF TypeOK
<1> HIDE DEF v, f
<1>6. /\ Len(t) = Len(s)
      /\ \A w \in 1..Len(s) : t[w] = IF w = j + 1 THEN v ELSE IF w = j + 2 THEN f ELSE s[w]
  <2>1. j \in Nat /\ j + 2 <= Len(s)
    BY <1>2, <1>3
  <2> HIDE DEF s
  <2> QED
    BY <1>2, <2>1, Set2
<1> HIDE DEF s, t
<1>7. \A n \in Nat \ {0} : 2 * n <= Len(s) =>
        PairAt(t, n) = IF n = g + 1 THEN q ELSE PairAt(s, n)
  <2> SUFFICES ASSUME NEW n \in Nat \ {0}, 2 * n <= Len(s)
               PROVE  PairAt(t, n) = IF n = g + 1 THEN q ELSE PairAt(s, n)
    OBVIOUS
  <2>1. 2 * n - 1 \in 1..Len(s) /\ 2 * n \in 1..Len(s)
    BY <1>2
  <2>2. CASE n = g + 1
    <3>1. 2 * n - 1 = j + 1 /\ 2 * n = j + 2 /\ j + 1 # j + 2
      BY <1>3, <2>2
    <3>2. t[2 * n - 1] = v /\ t[2 * n] = f
      BY <1>6, <2>1, <3>1
    <3> QED
      BY <2>2, <3>2 DEF PairAt
  <2>3. CASE n # g + 1
    <3>1. /\ 2 * n - 1 # j + 1 /\ 2 * n - 1 # j + 2
          /\ 2 * n # j + 1 /\ 2 * n # j + 2
      BY <1>3, <2>3
    <3>2. t[2 * n - 1] = s[2 * n - 1] /\ t[2 * n] = s[2 * n]
      BY <1>6, <2>1, <3>1
    <3> QED
      BY <2>3, <3>2 DEF PairAt
  <2> QED
    BY <2>2, <2>3
<1> HIDE DEF q
<1>8. \A k \in Lists, n \in Nat \ {0} :
        /\ Passed(k, n) <=> k = cur /\ g < n /\ n <= h
        /\ Passed(k, n)' <=> k = cur /\ g + 1 < n /\ n <= h + 1
  <2>1. \A n \in Nat : /\ 2 * g < 2 * n <=> g < n
                       /\ 2 * n <= 2 * h <=> n <= h
                       /\ 2 * g + 2 < 2 * n <=> g + 1 < n
                       /\ 2 * n <= 2 * h + 2 <=> n <= h + 1
    BY <1>3
  <2>2. i' = 2 * h + 2 /\ j' = 2 * g + 2
    BY <1>1, <1>3
  <2> QED
    BY <1>1, <1>2, <1>3, <2>1, <2>2 DEF Passed
<1>9. 2 * (g + 1) <= Len(s) /\ g + 1 <= h + 1
  BY <1>2, <1>3
<1>10. ASSUME NEW p, NEW k \in Lists, NEW n \in Nat \ {0}
       PROVE  Stands(k, n, p)' <=> (Stands(k, n, p) /\ <<k, n>> # <<cur, h + 1>>)
                                   \/ (<<k, n>> = <<cur, g + 1>> /\ p = q)
  <2>1. CASE k = cur
    <3>1. Stands(k, n, p)' <=> 2 * n <= Len(s) /\ PairAt(t, n) = p /\ ~(g + 1 < n /\ n <= h + 1)
      BY <1>5, <1>6, <1>8, <2>1 DEF Stands
    <3>2. Stands(k, n, p) <=> 2 * n <= Len(s) /\ PairAt(s, n) = p /\ ~(g < n /\ n <= h)
      BY <1>8, <2>1 DEF Stands, s
    <3>3. n = g + 1 \/ n <= g \/ (g + 1 < n /\ n <= h + 1) \/ n > h + 1
      BY <1>3
    <3>4. CASE n = g + 1
      <4>1. ~(g + 1 < n) /\ g < n
        BY <1>3, <3>4
      <4>2. Stands(k, n, p)' <=> p = q
        BY <1>7, <1>9, <3>1, <3>4, <4>1
      <4>3. Stands(k, n, p) => ~(n <= h)
        BY <3>2, <4>1
      <4>4. ~(n <= h) => n = h + 1
        BY <1>3, <3>4
      <4> QED
        BY <2>1, <3>4, <4>2, <4>3, <4>4
    <3>5. CASE n <= g
      <4>1. n # g + 1 /\ n # h + 1 /\ ~(g + 1 < n) /\ ~(g < n)
        BY <1>3, <3>5
      <4> QED
        BY <1>7, <2>1, <3>1, <3>2, <4>1
    <3>6. CASE g + 1 < n /\ n <= h + 1
      <4>1. n # g + 1 /\ g < n /\ (n # h + 1 => n <= h)
        BY <1>3, <3>6
      <4> QED
        BY <2>1, <3>1, <3>2, <3>6, <4>1
    <3>7. CASE n > h + 1
      <4>1. n # g + 1 /\ n # h + 1 /\ ~(n <= h + 1) /\ ~(n <= h)
        BY <1>3, <3>7
      <4> QED
        BY <1>7, <2>1, <3>1, <3>2, <4>1
    <3> QED
      BY <3>3, <3>4, <3>5, <3>6, <3>7
  <2>2. CASE k # cur
    <3>1. ~Passed(k, n) /\ ~Passed(k, n)' /\ lists'[k] = lists[k]
      BY <1>5, <1>8, <2>2
    <3> QED
      BY <2>2, <3>1 DEF Stands
  <2> QED
    BY <2>1, <2>2
<1> DEFINE x == <<cur, h + 1>>
           y == <<cur, g + 1>>
<1>11. x \in Lists \X (Nat \ {0}) /\ y \in Lists \X (Nat \ {0})
  BY <1>2, <1>3
<1>12. ASSUME NEW p
       PROVE  Stands(cur, h + 1, p) <=> p = q
  <2>1. ~Passed(cur, h + 1)
    BY <1>2, <1>3, <1>8
  <2> QED
    BY <1>3, <2>1 DEF Stands, s
<1>13. ASSUME NEW p
       PROVE  Stands(cur, g + 1, p) => x = y
  <2>1. g < g + 1 /\ (g + 1 <= h \/ g = h)
    BY <1>3
  <2> QED
    BY <1>2, <1>3, <1>8, <2>1 DEF Stands
<1>14. x[1] # ToFinalize /\ (y[1] = ToFinalize => Moves(q))
  BY <1>2
<1>15. ASSUME NEW p \in PairSet
       PROVE  Takes(q, x, y, p)
  BY <1>10, <1>12, <1>13 DEF Takes
<1>16. gcpc # "none" /\ before' = before /\ kept' = kept
  BY <1>1, <1>2
<1> HIDE DEF x, y
<1> QED
  BY <1>2, <1>11, <1>14, <1>15, <1>16, MoveLosesNone

\* The swept list is cut: what the cut takes away has been passed.
LEMMA SweepDoneLosesNone ==
  ASSUME FinalizersAssumption, IInv, NoneIsLost, SweepDone
  PROVE  NoneIsLost'
<1>1. /\ gcpc \in {"sweep", "sweepMarked"} /\ cur # NoList /\ i >= Len(lists[cur])
      /\ lists' = [lists EXCEPT ![cur] = SubSeq(@, 1, j)]
      /\ cur' = NoList /\ UNCHANGED <<gcpc, before, kept>>
  BY DEF SweepDone, historyVars
<1>2. /\ TypeOK /\ cur \in Lists /\ i \in Nat /\ j \in Nat
      /\ i % 2 = 0 /\ j <= i /\ i <= Len(lists[cur])
  <2>1. TypeOK /\ cur \in Lists /\ i \in Nat /\ j \in Nat
    BY <1>1 DEF IInv, TypeOK
  <2>2. CASE gcpc = "sweep"
    BY <1>1, <2>1, <2>2 DEF IInv, SweepOK
  <2>3. CASE gcpc = "sweepMarked"
    BY <1>1, <2>1, <2>3 DEF IInv, SweepMarkedOK
  <2> QED
    BY <1>1, <2>1, <2>2, <2>3
<1> DEFINE s == lists[cur]
           t == SubSeq(s, 1, j)
<1>3. s \in Seq(Word) /\ Len(s) \in Nat /\ i = Len(s)
  <2>1. s \in Seq(Word)
    BY <1>2 DEF TypeOK
  <2>2. Len(s) \in Nat
    BY <2>1, LenProperties
  <2> QED
    BY <1>1, <1>2, <2>1, <2>2
<1>4. \A k \in Lists : lists'[k] = IF k = cur THEN t ELSE lists[k]
  <2>1. lists' = [lists EXCEPT ![cur] = t]
    BY <1>1
  <2> HIDE DEF t
  <2> QED
    BY <1>2, <2>1 DEF TypeOK
<1>5. Len(t) = j /\ \A w \in 1..j : t[w] = s[w]
  <2>1. j \in 0..Len(s)
    BY <1>2, <1>3
  <2> HIDE DEF s
  <2> QED
    BY <1>3, <2>1, Cut
<1> HIDE DEF s, t
<1>6. \A n \in Nat \ {0} : 2 * n <= j => PairAt(t, n) = PairAt(s, n)
  <2> SUFFICES ASSUME NEW n \in Nat \ {0}, 2 * n <= j
               PROVE  PairAt(t, n) = PairAt(s, n)
    OBVIOUS
  <2>1. 2 * n - 1 \in 1..j /\ 2 * n \in 1..j
    BY <1>2
  <2> QED
    BY <1>5, <2>1 DEF PairAt
<1>7. \A k \in Lists : \A n : ~Passed(k, n)'
  BY <1>1, ListNames DEF Passed
<1>8. ASSUME NEW p \in PairSet, NEW k \in Lists, NEW n \in Nat \ {0}
      PROVE  Stands(k, n, p)' <=> Stands(k, n, p)
  <2>1. CASE k = cur
    <3>1. Passed(k, n) <=> j < 2 * n /\ 2 * n <= Len(s)
      BY <1>1, <1>3, <2>1 DEF Passed
    <3>2. Stands(k, n, p) <=> 2 * n <= Len(s) /\ ~(j < 2 * n) /\ PairAt(s, n) = p
      BY <2>1, <3>1 DEF Stands, s
    <3>3. Stands(k, n, p)' <=> 2 * n <= j /\ PairAt(t, n) = p
      BY <1>4, <1>5, <1>7, <2>1 DEF Stands
    <3>4. 2 * n <= Len(s) /\ ~(j < 2 * n) <=> 2 * n <= j
      BY <1>2, <1>3
    <3> QED
      BY <1>6, <3>2, <3>3, <3>4
  <2>2. CASE k # cur
    BY <1>4, <1>7, <2>2 DEF Stands, Passed
  <2> QED
    BY <2>1, <2>2
<1>9. gcpc # "none"
  BY <1>1
<1> QED
  BY <1>1, <1>8, <1>9, StillLosesNone

\* The marking leaves every entry where it is, with its pair.
SameWord(v, w) == v.addr = w.addr /\ v.tag = w.tag
SameWords == \A l \in Lists : /\ Len(lists'[l]) = Len(lists[l])
                              /\ \A w \in 1..Len(lists[l]) : SameWord(lists'[l][w], lists[l][w])

LEMMA MarkKeepsWords ==
  ASSUME FinalizersAssumption, IInv, MarkNative \/ MarkTrace
  PROVE  SameWords
<1>1. CASE MarkNative
  BY <1>1 DEF MarkNative, SameWords, SameWord
<1>2. CASE MarkTrace
  <2> DEFINE v == get(cur, i)
             p == PointTo(v.addr, v.tag)
             t == [lists[cur] EXCEPT ![i + 1] = p]
  <2>1. /\ Marking /\ lists' = [lists EXCEPT ![cur][i + 1] = p]
    BY <1>2 DEF MarkTrace
  <2>2. /\ TypeOK /\ cur \in Lists /\ i + 1 \in 1..Len(lists[cur])
        /\ v = lists[cur][i + 1] /\ lists[cur] \in Seq(Word)
    BY <2>1, AtMark, ListNames
  <2>3. SameWord(p, lists[cur][i + 1])
    BY <2>2 DEF PointTo, SameWord
  <2> HIDE DEF p, v
  <2>4. Len(t) = Len(lists[cur]) /\ \A w \in 1..Len(t) : SameWord(t[w], lists[cur][w])
    BY <2>2, <2>3 DEF SameWord
  <2>5. lists' = [lists EXCEPT ![cur] = t]
    BY <2>1
  <2> HIDE DEF t
  <2>6. \A k \in Lists : lists'[k] = IF k = cur THEN t ELSE lists[k]
    BY <2>2, <2>5 DEF TypeOK
  <2> QED
    BY <2>4, <2>6 DEF SameWords, SameWord
<1> QED
  BY <1>1, <1>2

LEMMA NoPassedKeepsNone ==
  ASSUME FinalizersAssumption, IInv, NoneIsLost, gcpc # "none", before' = before, kept' = kept,
         SameWords, \A k \in Lists, n \in Nat : ~Passed(k, n) /\ ~Passed(k, n)'
  PROVE  NoneIsLost'
<1>1. ASSUME NEW p \in PairSet, NEW k \in Lists, NEW n \in Nat \ {0}
      PROVE  Stands(k, n, p)' <=> Stands(k, n, p)
  <2>1. Len(lists'[k]) = Len(lists[k]) /\ Len(lists[k]) \in Nat
    BY LenProperties DEF SameWords, IInv, TypeOK
  <2>2. 2 * n <= Len(lists[k]) => 2 * n - 1 \in 1..Len(lists[k]) /\ 2 * n \in 1..Len(lists[k])
    BY <2>1
  <2>3. 2 * n <= Len(lists[k]) => PairAt(lists'[k], n) = PairAt(lists[k], n)
    BY <2>2 DEF SameWords, SameWord, PairAt
  <2> QED
    BY <2>1, <2>3 DEF Stands
<1> QED
  BY <1>1, StillLosesNone

LEMMA MarkLosesNone ==
  ASSUME FinalizersAssumption, IInv, NoneIsLost, MarkNative \/ MarkTrace \/ MarkDone
  PROVE  NoneIsLost'
<1>1. /\ gcpc \in {"mark", "markMarked", "markToFinalize"}
      /\ UNCHANGED <<gcpc, before, kept>>
  BY DEF MarkNative, MarkTrace, MarkDone, Marking, unchangedInMark, historyVars
<1>2. \A k \in Lists, n \in Nat : ~Passed(k, n) /\ ~Passed(k, n)'
  BY <1>1 DEF Passed
<1>3. SameWords
  <2>1. CASE MarkDone
    BY <2>1 DEF MarkDone, SameWords, SameWord
  <2> QED
    BY <2>1, MarkKeepsWords
<1> QED
  BY <1>1, <1>2, <1>3, NoPassedKeepsNone

\* A loop takes up a list, or another loop begins.
LEMMA TurnLosesNone ==
  ASSUME FinalizersAssumption, IInv, NoneIsLost,
         \/ \E m \in Mutators : NextMutator(m)
         \/ SweepMarked \/ StartMarking \/ MarkMarked \/ MarkToFinalize
  PROVE  NoneIsLost'
<1>1. /\ gcpc # "none" /\ lists' = lists /\ before' = before /\ kept' = kept /\ cur = NoList
      /\ gcpc' \in {"sweep", "sweepMarked"} => i' = 0
  BY DEF NextMutator, SweepMarked, StartMarking, MarkMarked, MarkToFinalize, unchangedInTurn,
         historyVars
<1>2. ASSUME NEW k \in Lists, NEW n \in Nat
      PROVE  ~Passed(k, n) /\ ~(n # 0 /\ Passed(k, n)')
  <2>1. ~Passed(k, n)
    BY <1>1, ListNames DEF Passed
  <2>2. n # 0 /\ gcpc' \in {"sweep", "sweepMarked"} => ~(2 * n <= i')
    BY <1>1
  <2> QED
    BY <2>1, <2>2 DEF Passed
<1>3. ASSUME NEW p \in PairSet, NEW k \in Lists, NEW n \in Nat \ {0}
      PROVE  Stands(k, n, p)' <=> Stands(k, n, p)
  BY <1>1, <1>2 DEF Stands
<1> QED
  BY <1>1, <1>3, StillLosesNone

\* When the pass starts every entry stands.
LEMMA StartGCLosesNone ==
  ASSUME FinalizersAssumption, IInv, NEW isNursery \in BOOLEAN, StartGC(isNursery)
  PROVE  NoneIsLost'
<1>1. cur' = NoList /\ lists' = lists /\ before' = lists /\ TypeOK
  BY DEF IInv, IdleOK, StartGC
<1>2. \A k \in Lists : \A n : ~Passed(k, n)'
  BY <1>1, ListNames DEF Passed
<1>3. ASSUME NEW from \in SUBSET Lists, NEW p
      PROVE  Cardinality(Standing(from, p))' = count(before, from, p)'
  <2>1. Standing(from, p)' = Of(lists, from, p)
    BY <1>1, <1>2 DEF Standing, Of, Entries
  <2>2. count(before, from, p)' = count(lists, from, p)
    BY <1>1 DEF count, EntryNumbers, pair
  <2>3. lists \in [Lists -> Seq(Word)]
    BY <1>1 DEF TypeOK
  <2>4. count(lists, from, p) = Cardinality(Of(lists, from, p))
    BY <2>3, CountIs
  <2> QED
    BY <2>1, <2>2, <2>4
<1>4. Lists \in SUBSET Lists /\ {ToFinalize} \in SUBSET Lists
  BY DEF Lists
<1> QED
  BY <1>3, <1>4 DEF NoneIsLost

LEMMA PassLosesNone ==
  ASSUME FinalizersAssumption, IInv, NoneIsLost, LiveIsKept, Pass
  PROVE  NoneIsLost'
<1>1. CASE EndGC
  BY <1>1 DEF EndGC, NoneIsLost
<1>2. CASE \/ \E m \in Mutators : NextMutator(m)
           \/ SweepMarked \/ StartMarking \/ MarkMarked \/ MarkToFinalize
  BY <1>2, TurnLosesNone
<1>3. CASE SweepNull \/ SweepFreed \/ SweepOld \/ SweepKeep \/ SweepDone
  BY <1>3, SweepNullLosesNone, SweepFreedLosesNone, SweepOldLosesNone, SweepKeepLosesNone,
     SweepDoneLosesNone
<1>4. CASE MarkNative \/ MarkTrace \/ MarkDone
  BY <1>4, MarkLosesNone
<1> QED
  BY <1>1, <1>2, <1>3, <1>4 DEF Pass

-----------------------------------------------------------------------------
(* The marked list has only what is not to be pending.                     *)

\* Every entry of the marked list was there before the step.
MarkedFrom ==
  \A w \in 1..Len(lists'[Marked]) : Odd(w) =>
    \E u \in 1..Len(lists[Marked]) : Odd(u) /\ SameWord(lists'[Marked][w], lists[Marked][u])

LEMMA MarkedLen ==
  ASSUME IInv
  PROVE  /\ lists[Marked] \in Seq(Word) /\ Len(lists[Marked]) \in Nat
         /\ Marked \in Lists /\ ListOK(lists[Marked], heap)
<1>1. lists[Marked] \in Seq(Word) /\ Marked \in Lists /\ ListOK(lists[Marked], heap)
  BY DEF IInv, TypeOK, ListsOK, Lists
<1> QED
  BY <1>1, LenProperties

LEMMA FromKeeps ==
  ASSUME IInv, MarkedFrom
  PROVE  /\ NoRawPointer => NoRawPointer'
         /\ Kept(Len(lists[Marked])) /\ kept' = kept => Kept(Len(lists[Marked]))'
<1>1. NoRawPointer => NoRawPointer'
  BY DEF NoRawPointer, MarkedFrom, SameWord
<1>2. ASSUME Kept(Len(lists[Marked])), kept' = kept,
             NEW w \in 1..Len(lists'[Marked]), Odd(w)
      PROVE  lists'[Marked][w].addr \in kept'
  <2>1. PICK u \in 1..Len(lists[Marked]) :
          Odd(u) /\ SameWord(lists'[Marked][w], lists[Marked][u])
    BY <1>2 DEF MarkedFrom
  <2>2. u <= Len(lists[Marked])
    BY MarkedLen
  <2> QED
    BY <1>2, <2>1, <2>2 DEF Kept, SameWord
<1> QED
  BY <1>1, <1>2 DEF Kept

LEMMA SameMarked ==
  ASSUME IInv, lists'[Marked] = lists[Marked]
  PROVE  MarkedFrom /\ \A k : kept' = kept => Kept(k)' = Kept(k)
BY DEF MarkedFrom, SameWord, Kept

\* The entries that the sweep does not take for freed.
LEMMA NotFreed ==
  ASSUME FinalizersAssumption, IInv, LiveIsKept, Sweeping, ~isfreed(get(cur, i))
  PROVE  get(cur, i).tag # 3 /\ get(cur, i).addr \in kept
<1>1. get(cur, i) \in Word /\ gcpc \in {"sweep", "sweepMarked"}
  BY AtSweep DEF EntryIn
<1> QED
  BY <1>1, FreedMoves DEF LiveIsKept

LEMMA SweepOldKeepsMarked ==
  ASSUME FinalizersAssumption, IInv, NoRawPointer, LiveIsKept, MarkedIsKept, SweepOld
  PROVE  NoRawPointer' /\ MarkedIsKept'
<1> DEFINE v == get(cur, i)
           f == get(cur, i + 1)
           s == lists[Marked]
           t == s \o <<v, f>>
<1>1. /\ Sweeping /\ ~isfreed(v) /\ cur # Marked
      /\ lists' = [lists EXCEPT ![Marked] = t]
      /\ gcpc' = gcpc /\ cur' = cur /\ kept' = kept /\ nursery' = nursery
  BY DEF SweepOld, Push, isold, finalizer_list_marked_is_some, unchangedInSweep, historyVars
<1>2. /\ v \in Word /\ f \in Word /\ gcpc \in {"sweep", "sweepMarked"}
      /\ gcpc = "sweepMarked" => cur = Marked
  BY <1>1, AtSweep DEF EntryIn
<1>3. s \in Seq(Word) /\ Len(s) \in Nat /\ Len(s) % 2 = 0 /\ Marked \in Lists
  BY MarkedLen DEF ListOK
<1>4. v.tag # 3 /\ v.addr \in kept
  BY <1>1, NotFreed
<1> HIDE DEF v, f
<1>5. Len(t) = Len(s) + 2 /\ (\A w \in 1..Len(s) : t[w] = s[w]) /\ t[Len(s) + 1] = v
  BY <1>2, <1>3, Push2
<1>6. lists'[Marked] = t
  <2> HIDE DEF t
  <2> QED
    BY <1>1, <1>3 DEF IInv, TypeOK
<1> HIDE DEF s, t
<1>7. \A w \in 1..Len(t) : Odd(w) => w \in 1..Len(s) \/ w = Len(s) + 1
  BY <1>3, <1>5 DEF Odd
<1>8. NoRawPointer'
  BY <1>4, <1>5, <1>6, <1>7 DEF NoRawPointer, s
<1>9. ASSUME gcpc = "sweep", nursery
      PROVE  Kept(Len(lists[Marked]))'
  <2>1. Kept(Len(s))
    BY <1>9 DEF MarkedIsKept, s
  <2>2. \A w \in 1..Len(s) : w <= Len(s)
    BY <1>3
  <2> QED
    BY <1>1, <1>4, <1>5, <1>6, <1>7, <2>1, <2>2 DEF Kept, s
<1> QED
  BY <1>1, <1>2, <1>8, <1>9 DEF MarkedIsKept, InMark

LEMMA SweepKeepKeepsMarked ==
  ASSUME FinalizersAssumption, IInv, NoRawPointer, LiveIsKept, MarkedIsKept, SweepKeep
  PROVE  NoRawPointer' /\ MarkedIsKept'
<1> DEFINE v == get(cur, i)
           f == get(cur, i + 1)
           s == lists[Marked]
           t == [s EXCEPT ![j + 1] = v, ![j + 2] = f]
<1>1. /\ Sweeping /\ ~isfreed(v) /\ ~isold(v) /\ j' = j + 2
      /\ lists' = [lists EXCEPT ![cur][j + 1] = v, ![cur][j + 2] = f]
      /\ gcpc' = gcpc /\ cur' = cur /\ kept' = kept
  BY DEF SweepKeep, unchangedInSweep, historyVars
<1>2. cur = Marked
  BY <1>1 DEF isold, finalizer_list_marked_is_some
<1>3. /\ TypeOK /\ v \in Word /\ f \in Word /\ gcpc = "sweepMarked" /\ cur # NoList
      /\ j \in Nat /\ j % 2 = 0 /\ j + 2 <= Len(s)
  <2>1. /\ TypeOK /\ v \in Word /\ f \in Word /\ gcpc \in {"sweep", "sweepMarked"}
        /\ gcpc = "sweep" => cur \in Mutators
        /\ cur # NoList
        /\ j \in Nat /\ j % 2 = 0 /\ j <= i /\ i \in Nat /\ i + 2 <= Len(lists[cur])
        /\ Len(lists[cur]) \in Nat
    BY <1>1, AtSweep DEF EntryIn
  <2> HIDE DEF v, f
  <2> QED
    BY <1>2, <2>1, ListNames
<1>4. s \in Seq(Word) /\ Len(s) \in Nat /\ Marked \in Lists
  BY MarkedLen
<1>5. v.tag # 3 /\ v.addr \in kept
  BY <1>1, NotFreed
<1>6. lists' = [lists EXCEPT ![Marked] = t]
  BY <1>1, <1>2, <1>3, <1>4 DEF TypeOK
<1> HIDE DEF v, f
<1>7. /\ Len(t) = Len(s)
      /\ \A w \in 1..Len(s) : t[w] = IF w = j + 1 THEN v ELSE IF w = j + 2 THEN f ELSE s[w]
  <2> HIDE DEF s
  <2> QED
    BY <1>3, <1>4, Set2
<1>8. lists'[Marked] = t
  <2> HIDE DEF t
  <2> QED
    BY <1>3, <1>4, <1>6 DEF TypeOK
<1> HIDE DEF s, t
<1>9. \A w \in 1..Len(s) : Odd(w) => w # j + 2 /\ (w <= j + 2 => w <= j \/ w = j + 1)
  BY <1>3, <1>4 DEF Odd
<1>10. NoRawPointer'
  BY <1>5, <1>7, <1>8, <1>9 DEF NoRawPointer, s
<1>11. Kept(j)
  BY <1>3 DEF MarkedIsKept
<1>12. Kept(j)'
  BY <1>1, <1>5, <1>7, <1>8, <1>9, <1>11 DEF Kept, s
<1> QED
  BY <1>1, <1>3, <1>10, <1>12 DEF MarkedIsKept, InMark

LEMMA SweepDoneKeepsMarked ==
  ASSUME FinalizersAssumption, IInv, NoRawPointer, LiveIsKept, MarkedIsKept, SweepDone
  PROVE  NoRawPointer' /\ MarkedIsKept'
<1>1. /\ gcpc \in {"sweep", "sweepMarked"} /\ cur # NoList
      /\ lists' = [lists EXCEPT ![cur] = SubSeq(@, 1, j)]
      /\ cur' = NoList /\ gcpc' = gcpc /\ nursery' = nursery /\ kept' = kept
      /\ i >= Len(lists[cur])
  BY DEF SweepDone, historyVars
<1>2. TypeOK /\ Marked \in Lists /\ lists[Marked] \in Seq(Word) /\ Len(lists[Marked]) \in Nat
  BY MarkedLen DEF IInv
<1>3. CASE gcpc = "sweep"
  <2>1. lists'[Marked] = lists[Marked]
    <3>1. cur # Marked
      BY <1>1, <1>3, ListNames DEF IInv, SweepOK
    <3> QED
      BY <1>1, <1>2, <3>1 DEF TypeOK
  <2>2. MarkedFrom
    BY <2>1, SameMarked
  <2> QED
    BY <1>1, <1>3, <2>2, FromKeeps DEF MarkedIsKept, InMark
<1>4. CASE gcpc = "sweepMarked"
  <2>1. cur = Marked /\ j \in Nat /\ j <= i /\ i <= Len(lists[cur]) /\ i \in Nat
    BY <1>1, <1>2, <1>4 DEF IInv, SweepMarkedOK, TypeOK
  <2> DEFINE s == lists[Marked]
             t == SubSeq(s, 1, j)
  <2>2. lists'[Marked] = t
    BY <1>1, <1>2, <2>1 DEF TypeOK
  <2>3. j \in 0..Len(s)
    BY <1>2, <2>1
  <2> HIDE DEF s
  <2>4. Len(t) = j /\ \A w \in 1..j : t[w] = s[w]
    BY <1>2, <2>3, Cut DEF s
  <2> HIDE DEF t
  <2>5. \A w \in 1..j : w \in 1..Len(s) /\ w <= j
    BY <1>2, <2>1, <2>3 DEF s
  <2>6. NoRawPointer'
    BY <2>2, <2>4, <2>5 DEF NoRawPointer, s
  <2>7. Kept(j)
    BY <1>1, <1>4 DEF MarkedIsKept
  <2>8. Kept(Len(lists[Marked]))'
    BY <1>1, <2>2, <2>4, <2>5, <2>7 DEF Kept, s
  <2> QED
    BY <1>1, <1>4, <2>6, <2>8 DEF MarkedIsKept
<1> QED
  BY <1>1, <1>3, <1>4

LEMMA FinalizeKeepsMarked ==
  ASSUME FinalizersAssumption, IInv, NEW o \in Objects, Finalize(o)
  PROVE  MarkedFrom
<1> DEFINE s == lists[Marked]
           t == Without(s, o)
           c == Cardinality(Others(s, o))
           order == Ascending(Others(s, o))
<1>1. lists'[Marked] = t
  BY ListNames DEF Finalize
<1>2. ListOK(s, heap) /\ Len(s) \in Nat
  BY MarkedLen
<1>3. /\ c \in Nat /\ Len(t) = 2 * c
      /\ \A n \in 1..c : order[n] \in Others(s, o) /\ t[2 * n - 1] = s[2 * order[n] - 1]
  <2> HIDE DEF s
  <2> QED
    BY <1>2, WithoutWords
<1>4. \A n \in Others(s, o) : 2 * n - 1 \in 1..Len(s) /\ Odd(2 * n - 1)
  <2>1. \A m \in Nat : \A n \in 1..(m \div 2) : 2 * n - 1 \in 1..m /\ (2 * n - 1) % 2 = 1
    OBVIOUS
  <2>2. \A n \in Others(s, o) : n \in 1..(Len(s) \div 2)
    BY DEF Others
  <2> HIDE DEF s
  <2> QED
    BY <1>2, <2>1, <2>2 DEF Odd
<1> HIDE DEF c, t, order
<1>5. ASSUME NEW w \in 1..Len(t), Odd(w)
      PROVE  \E u \in 1..Len(s) : Odd(u) /\ t[w] = s[u]
  <2>1. PICK n \in 1..c : w = 2 * n - 1
    <3>1. (w + 1) \div 2 \in 1..c /\ w = 2 * ((w + 1) \div 2) - 1
      BY <1>3, <1>5 DEF Odd
    <3> QED
      BY <3>1
  <2> QED
    BY <1>3, <1>4, <2>1
<1> QED
  BY <1>1, <1>5 DEF MarkedFrom, SameWord

LEMMA StartGCKeepsMarked ==
  ASSUME FinalizersAssumption, IInv, NoRawPointer, NEW isNursery \in BOOLEAN, StartGC(isNursery)
  PROVE  NoRawPointer' /\ MarkedIsKept'
<1>1. /\ gcpc' = "sweep" /\ nursery' = isNursery /\ lists' = lists
      /\ isNursery => old \subseteq kept'
      /\ TypeOK /\ NoEmptyWord(lists[Marked]) /\ ObjectsIn(lists[Marked], old)
  BY DEF StartGC, IInv, IdleOK, ListsOK
<1>2. /\ Len(lists[Marked]) \in Nat /\ Len(lists[Marked]) % 2 = 0
      /\ ListOK(lists[Marked], heap)
  BY MarkedLen DEF ListOK
<1>3. ASSUME NEW w \in 1..Len(lists[Marked]), Odd(w)
      PROVE  lists[Marked][w].addr \in old
  <2>1. EntryOK(lists[Marked][w], lists[Marked][w + 1])
    BY <1>2, <1>3 DEF ListOK
  <2>2. lists[Marked][w].tag # 3 /\ lists[Marked][w].addr # Null
    BY <1>1, <1>3 DEF NoRawPointer, NoEmptyWord
  <2>3. lists[Marked][w].addr \notin Pointers
    BY <2>1, <2>2 DEF EntryOK, NullWord
  <2>4. lists[Marked][w].addr \in heap
    BY <1>2, <2>2, <2>3 DEF ListOK
  <2> QED
    BY <1>1, <2>4 DEF TypeOK, ObjectsIn
<1>4. nursery' => Kept(Len(lists[Marked]))'
  BY <1>1, <1>3 DEF Kept
<1> QED
  BY <1>1, <1>4 DEF NoRawPointer, MarkedIsKept, InMark

\* The other steps of the pass.
LEMMA OtherStepsKeepMarked ==
  ASSUME FinalizersAssumption, IInv, NoRawPointer, MarkedIsKept,
         \/ \E m \in Mutators : NextMutator(m)
         \/ SweepMarked \/ StartMarking \/ MarkMarked \/ MarkToFinalize
         \/ SweepNull \/ SweepFreed
         \/ MarkNative \/ MarkTrace \/ MarkDone
  PROVE  NoRawPointer' /\ MarkedIsKept'
<1>1. CASE \/ \E m \in Mutators : NextMutator(m)
           \/ SweepMarked \/ StartMarking \/ MarkMarked \/ MarkToFinalize
  <2>1. lists' = lists /\ kept' = kept /\ nursery' = nursery
    BY <1>1 DEF NextMutator, SweepMarked, StartMarking, MarkMarked, MarkToFinalize,
                unchangedInTurn, historyVars
  <2>2. MarkedFrom
    BY <2>1, SameMarked
  <2>3. CASE SweepMarked
    <3>1. Kept(j)'
      BY <2>1, <2>3, MarkedLen DEF SweepMarked, Kept
    <3> QED
      BY <2>2, <2>3, <3>1, FromKeeps, ListNames DEF SweepMarked, MarkedIsKept, InMark
  <2>4. CASE \/ \E m \in Mutators : NextMutator(m)
             \/ StartMarking \/ MarkMarked \/ MarkToFinalize
    <3>1. /\ cur = NoList
          /\ gcpc \in {"sweep", "sweepMarked", "mark", "markMarked", "markToFinalize"}
          /\ gcpc' = "sweep" => gcpc = "sweep"
          /\ gcpc = "sweep" /\ gcpc' # "sweep" => nursery
          /\ gcpc' # "sweepMarked"
      BY <2>4 DEF NextMutator, StartMarking, MarkMarked, MarkToFinalize
    <3>2. MarkedIsKept'
      BY <2>1, <2>2, <3>1, FromKeeps DEF MarkedIsKept, InMark
    <3> QED
      BY <2>2, <3>2, FromKeeps
  <2> QED
    BY <1>1, <2>3, <2>4
<1>2. CASE SweepNull \/ SweepFreed
  <2>1. /\ lists'[Marked] = lists[Marked] /\ j' = j
        /\ UNCHANGED <<gcpc, cur, nursery, kept>>
    BY <1>2, ListNames DEF SweepNull, SweepFreed, Push, unchangedInSweep, historyVars, IInv,
                           TypeOK
  <2>2. MarkedFrom /\ Kept(j)' = Kept(j)
    BY <2>1, SameMarked DEF Kept
  <2> QED
    BY <2>1, <2>2, FromKeeps DEF MarkedIsKept, InMark
<1>3. CASE MarkNative \/ MarkTrace \/ MarkDone
  <2>1. InMark /\ gcpc' = gcpc /\ kept' = kept
    BY <1>3 DEF MarkNative, MarkTrace, MarkDone, Marking, unchangedInMark, historyVars, InMark
  <2>2. SameWords
    <3>1. CASE MarkDone
      BY <3>1 DEF MarkDone, SameWords, SameWord
    <3> QED
      BY <1>3, <3>1, MarkKeepsWords
  <2>3. MarkedFrom
    BY <2>2, MarkedLen DEF MarkedFrom, SameWords
  <2> QED
    BY <2>1, <2>3, FromKeeps DEF MarkedIsKept, InMark
<1> QED
  BY <1>1, <1>2, <1>3

LEMMA InitRInv ==
  ASSUME FinalizersAssumption, Init
  PROVE  RInv
<1>1. lists[Marked] = <<>>
  BY ListNames DEF Init, NoLists
<1> QED
  BY <1>1 DEF Init, RInv, NoneIsLost, LiveIsKept, NoRawPointer, MarkedIsKept, InMark

\* The invariant of the pass is inductive, with that of Finalizers.
LEMMA NextKeepsRInv ==
  ASSUME FinalizersAssumption, IInv, RInv, [Next]_vars
  PROVE  RInv'
<1>1. NoneIsLost /\ LiveIsKept /\ NoRawPointer /\ MarkedIsKept
  BY DEF RInv
<1>2. ASSUME gcpc' = "none", MarkedFrom
      PROVE  RInv'
  BY <1>1, <1>2, FromKeeps DEF RInv, NoneIsLost, LiveIsKept, MarkedIsKept, InMark
<1>3. ASSUME NEW o \in Objects, Finalize(o)
      PROVE  RInv'
  <2>1. gcpc' = "none"
    BY <1>3 DEF Finalize, loopVars
  <2> QED
    BY <1>2, <1>3, <2>1, FinalizeKeepsMarked
<1>4. CASE \/ \E o \in Objects : Alloc(o)
           \/ \E m \in Mutators : AddFinalizer(m)
           \/ RunFinalizers \/ EndGC
  <2>1. gcpc' = "none"
    BY <1>4 DEF Alloc, AddFinalizer, RunFinalizers, EndGC, loopVars
  <2>2. lists'[Marked] = lists[Marked]
    BY <1>4, ListNames DEF Alloc, AddFinalizer, RunFinalizers, EndGC, IInv, TypeOK
  <2> QED
    BY <1>2, <2>1, <2>2, SameMarked
<1>5. ASSUME NEW isNursery \in BOOLEAN, StartGC(isNursery)
      PROVE  RInv'
  <2>1. LiveIsKept'
    BY <1>5 DEF StartGC, LiveIsKept
  <2> QED
    BY <1>1, <1>5, <2>1, StartGCLosesNone, StartGCKeepsMarked DEF RInv
<1>6. CASE Pass /\ ~EndGC
  <2>1. NoneIsLost'
    BY <1>1, <1>6, PassLosesNone
  <2>2. LiveIsKept'
    BY <1>1, <1>6 DEF Pass, LiveIsKept, NextMutator, SweepMarked, StartMarking, MarkMarked,
       MarkToFinalize, unchangedInTurn, SweepNull, SweepFreed, SweepOld, SweepKeep, SweepDone,
       unchangedInSweep, MarkNative, MarkTrace, MarkDone, Marking, unchangedInMark, heapVars,
       historyVars
  <2>3. NoRawPointer' /\ MarkedIsKept'
    BY <1>1, <1>6, OtherStepsKeepMarked, SweepOldKeepsMarked, SweepKeepKeepsMarked,
       SweepDoneKeepsMarked DEF Pass
  <2> QED
    BY <2>1, <2>2, <2>3 DEF RInv
<1>7. CASE UNCHANGED vars
  <2>1. UNCHANGED <<lists, gcpc, cur, i, j, nursery, live, before, kept>>
    BY <1>7 DEF vars, loopVars, heapVars, historyVars
  <2>2. MarkedFrom /\ \A k : Kept(k)' = Kept(k)
    BY <2>1, SameMarked
  <2>3. NoRawPointer' /\ MarkedIsKept' /\ LiveIsKept'
    BY <1>1, <2>1, <2>2, FromKeeps DEF MarkedIsKept, LiveIsKept, InMark
  <2>4. NoneIsLost'
    <3>1. CASE gcpc = "none"
      BY <2>1, <3>1 DEF NoneIsLost
    <3>2. CASE gcpc # "none"
      <4>1. \A p \in PairSet, k \in Lists, n \in Nat \ {0} : Stands(k, n, p)' <=> Stands(k, n, p)
        BY <2>1 DEF Stands, Passed, PairAt
      <4> QED
        BY <1>1, <2>1, <3>2, <4>1, StillLosesNone
    <3> QED
      BY <3>1, <3>2
  <2> QED
    BY <2>3, <2>4 DEF RInv
<1> QED
  BY <1>3, <1>4, <1>5, <1>6, <1>7 DEF Next

THEOREM RefinementInvariance == Spec => []RInv
<1>1. Init => RInv
  BY FinalizersAssumption, InitRInv
<1>2. IInv /\ RInv /\ [Next]_vars => RInv'
  BY FinalizersAssumption, NextKeepsRInv
<1> QED
  BY <1>1, <1>2, Invariance, PTL DEF Spec

-----------------------------------------------------------------------------
(* The steps of the registry.                                              *)

\* What a list does not have does not change how many a list has.
LEMMA CountSame ==
  ASSUME NEW ls, NEW ks, NEW from, \A l \in from : ls[l] = ks[l], NEW p
  PROVE  count(ls, from, p) = count(ks, from, p)
<1>1. EntryNumbers(ls, from) = EntryNumbers(ks, from)
  BY DEF EntryNumbers
<1>2. \A e \in EntryNumbers(ls, from) : pair(ls, e) = pair(ks, e)
  <2>1. ASSUME NEW e \in EntryNumbers(ls, from)
        PROVE  e[1] \in from
    <3>1. PICK l \in from : e \in {l} \X (1..(Len(ls[l]) \div 2))
      BY DEF EntryNumbers
    <3> QED
      BY <3>1
  <2> QED
    BY <2>1 DEF pair
<1> QED
  BY <1>1, <1>2 DEF count

Threads == Mutators \cup {Marked}

LEMMA ThreadsAre ==
  ASSUME FinalizersAssumption
  PROVE  /\ Threads \in SUBSET Lists /\ {ToFinalize} \in SUBSET Lists
         /\ Threads = Mutators \cup {Marked} /\ ToFinalize \notin Threads
BY ListNames DEF Threads

LEMMA CountEmpty ==
  ASSUME NEW ls \in [Lists -> Seq(Word)], NEW from \in SUBSET Lists, NEW p,
         Of(ls, from, p) = {}
  PROVE  count(ls, from, p) = 0
BY CountIs, FS_EmptySet

\* The registry sees only the view and kept.
LEMMA SameView ==
  ASSUME view' = view
  PROVE  registeredPairs' = registeredPairs /\ pendingPairs' = pendingPairs
<1>1. ASSUME NEW from, NEW p
      PROVE  count(view, from, p)' = count(view, from, p)
  BY CountSame DEF count, EntryNumbers, pair
<1> QED
  BY <1>1 DEF registeredPairs, pendingPairs

LEMMA InitImplements ==
  ASSUME FinalizersAssumption, Init
  PROVE  Registry!RegistryInit
<1>1. view = NoLists /\ gcpc = "none" /\ kept = {}
  BY DEF Init, view
<1>2. ASSUME NEW from \in SUBSET Lists, NEW p
      PROVE  count(NoLists, from, p) = 0
  <2>1. NoLists \in [Lists -> Seq(Word)]
    BY DEF NoLists
  <2>2. Of(NoLists, from, p) = {}
    BY DEF NoLists, Of, Entries
  <2> QED
    BY <2>1, <2>2, CountEmpty
<1>3. registeredPairs = Registry!NoPairs /\ pendingPairs = Registry!NoPairs
  BY <1>1, <1>2, ThreadsAre DEF registeredPairs, pendingPairs, Registry!NoPairs
<1> QED
  BY <1>1, <1>3 DEF Registry!RegistryInit

LEMMA AllocImplements ==
  ASSUME \/ \E o \in Objects : Alloc(o)
         \/ Pass /\ ~EndGC
         \/ UNCHANGED vars
  PROVE  UNCHANGED <<registeredPairs, pendingPairs, gcpc # "none", kept>>
<1>1. view' = view /\ (gcpc # "none")' = (gcpc # "none") /\ kept' = kept
  <2>1. CASE \E o \in Objects : Alloc(o)
    BY <2>1 DEF Alloc, loopVars, historyVars, view
  <2>2. CASE Pass /\ ~EndGC
    <3>1. /\ gcpc # "none" /\ gcpc' # "none" /\ before' = before /\ kept' = kept
      BY <2>2 DEF Pass, NextMutator, SweepMarked, StartMarking, MarkMarked,
         MarkToFinalize, unchangedInTurn, SweepNull, SweepFreed, SweepOld, SweepKeep, SweepDone,
         Sweeping, unchangedInSweep, MarkNative, MarkTrace, MarkDone, Marking, unchangedInMark,
         historyVars
    <3> QED
      BY <3>1 DEF view
  <2>3. CASE UNCHANGED vars
    BY <2>3 DEF vars, loopVars, historyVars, view
  <2> QED
    BY <2>1, <2>2, <2>3
<1> QED
  BY <1>1, SameView

LEMMA StartGCImplements ==
  ASSUME FinalizersAssumption, IInv, NEW isNursery \in BOOLEAN, StartGC(isNursery)
  PROVE  Registry!RegistryNext
<1>1. /\ gcpc = "none" /\ gcpc' = "sweep" /\ before' = lists /\ lists' = lists
      /\ kept' \subseteq heap /\ heap \subseteq Objects
  BY DEF StartGC, IInv, TypeOK
<1>2. registeredPairs' = registeredPairs /\ pendingPairs' = pendingPairs
  BY <1>1, SameView DEF view
<1>3. ASSUME NEW o \in Objects
      PROVE  \E p \in PairSet : p[1] = o
  <2>1. <<o, 0, o>> \in PairSet
    BY DEF PairSet, Tags, FinalizersAssumption
  <2> QED
    BY <2>1
<1>4. Registry!StartCollection(kept')
  BY <1>1, <1>2 DEF Registry!StartCollection
<1>5. kept' \in SUBSET {[p \in PairSet |-> p[1]][q] : q \in PairSet}
  BY <1>1, <1>3
<1> QED
  BY <1>4, <1>5 DEF Registry!RegistryNext

LEMMA RunFinalizersImplements ==
  ASSUME FinalizersAssumption, IInv, RunFinalizers
  PROVE  Registry!RegistryNext
<1>1. /\ gcpc = "none" /\ gcpc' = "none" /\ kept' = kept
      /\ lists' = [lists EXCEPT ![ToFinalize] = <<>>]
      /\ lists \in [Lists -> Seq(Word)]
  BY DEF RunFinalizers, loopVars, historyVars, IInv, TypeOK
<1>2. view = lists /\ view' = lists'
  BY <1>1 DEF view
<1>3. /\ lists' \in [Lists -> Seq(Word)] /\ lists'[ToFinalize] = <<>>
      /\ \A l \in Threads : lists'[l] = lists[l]
  BY <1>1, ThreadsAre
<1>4. ASSUME NEW p
      PROVE  /\ count(lists', Threads, p) = count(lists, Threads, p)
             /\ count(lists', {ToFinalize}, p) = 0
  <2>1. Of(lists', {ToFinalize}, p) = {}
    BY <1>3 DEF Of, Entries
  <2>2. count(lists', {ToFinalize}, p) = 0
    BY <1>3, <2>1, CountEmpty, ThreadsAre
  <2>3. count(lists', Threads, p) = count(lists, Threads, p)
    BY <1>3, CountSame
  <2> QED
    BY <2>2, <2>3
<1>5. registeredPairs' = registeredPairs
  BY <1>2, <1>4 DEF registeredPairs, Threads
<1>6. pendingPairs' = Registry!NoPairs
  BY <1>2, <1>4 DEF pendingPairs, Registry!NoPairs
<1>7. Registry!RunPending
  BY <1>1, <1>5, <1>6 DEF Registry!RunPending
<1> QED
  BY <1>7 DEF Registry!RegistryNext

\* A registration adds an entry at the end of the list of a thread.
LEMMA AddFinalizerImplements ==
  ASSUME FinalizersAssumption, IInv, NEW m \in Mutators, AddFinalizer(m)
  PROVE  Registry!RegistryNext
<1>1. PICK tag \in Tags, v \in heap \cup Pointers, f \in heap \cup Pointers :
        /\ (v \in Pointers) <=> (tag = 3)
        /\ (f \in Pointers) <=> (tag # 0)
        /\ lists' = [lists EXCEPT ![m] = @ \o <<PointTo(v, tag), PointTo(f, 0)>>]
  BY DEF AddFinalizer
<1>2. /\ gcpc = "none" /\ gcpc' = "none" /\ kept' = kept
      /\ lists \in [Lists -> Seq(Word)] /\ heap \subseteq Objects /\ copy \in [Objects -> {0, 1}]
      /\ TypeOK /\ TypeOK'
  <2>1. IInv'
    BY AddFinalizerKeepsIInv
  <2> QED
    BY <2>1 DEF AddFinalizer, loopVars, historyVars, IInv, TypeOK
<1> DEFINE p0 == <<v, tag, f>>
           a == PointTo(v, tag)
           b == PointTo(f, 0)
           s == lists[m]
           t == s \o <<a, b>>
<1>3. p0 \in PairSet
  BY <1>1, <1>2 DEF PairSet
<1>4. /\ m \in Lists /\ m \in Threads /\ m # ToFinalize
      /\ a \in Word /\ a.addr = v /\ a.tag = tag
      /\ b \in Word /\ b.addr = f
  BY <1>1, <1>2, ThreadsAre, ListNames DEF PointTo, Word, Tags
<1>5. PICK c \in Nat : Len(s) = 2 * c
  <2>1. Len(s) \in Nat /\ Len(s) % 2 = 0
    BY <1>2, <1>4, LenProperties DEF TypeOK
  <2>2. \A k \in Nat : k % 2 = 0 => k \div 2 \in Nat /\ k = 2 * (k \div 2)
    OBVIOUS
  <2> QED
    BY <2>1, <2>2
<1> HIDE DEF a, b
<1>6. /\ Len(t) = 2 * c + 2
      /\ \A w \in 1..(2 * c) : t[w] = s[w]
      /\ t[2 * c + 1] = a /\ t[2 * c + 2] = b
  <2>1. s \in Seq(Word)
    BY <1>2, <1>4
  <2>2. /\ Len(t) = Len(s) + 2
        /\ \A w \in 1..Len(s) : t[w] = s[w]
        /\ t[Len(s) + 1] = a /\ t[Len(s) + 2] = b
    BY <1>4, <2>1, Push2
  <2> HIDE DEF t, s
  <2> QED
    BY <1>5, <2>2
<1>7. \A k \in Lists : lists'[k] = IF k = m THEN t ELSE lists[k]
  <2>1. lists' = [lists EXCEPT ![m] = t]
    BY <1>1 DEF a, b
  <2> HIDE DEF t
  <2> QED
    BY <1>2, <1>4, <2>1
<1> HIDE DEF s, t, p0
<1>8. PairAt(t, c + 1) = p0 /\ \A n \in 1..c : PairAt(t, n) = PairAt(s, n)
  <2>1. PairAt(t, c + 1) = p0
    <3>1. 2 * (c + 1) - 1 = 2 * c + 1 /\ 2 * (c + 1) = 2 * c + 2
      BY <1>5
    <3> QED
      BY <1>4, <1>6, <3>1 DEF PairAt, p0
  <2>2. ASSUME NEW n \in 1..c
        PROVE  PairAt(t, n) = PairAt(s, n)
    <3>1. 2 * n - 1 \in 1..(2 * c) /\ 2 * n \in 1..(2 * c)
      BY <1>5
    <3> QED
      BY <1>6, <3>1 DEF PairAt
  <2> QED
    BY <2>1, <2>2
<1>9. /\ \A n \in Nat \ {0} : 2 * n <= 2 * c + 2 <=> n \in 1..c \/ n = c + 1
      /\ \A n \in Nat \ {0} : 2 * n <= 2 * c <=> n \in 1..c
      /\ c + 1 \notin 1..c /\ c + 1 \in Nat \ {0}
  BY <1>5
<1> DEFINE y == <<m, c + 1>>
<1>10. ASSUME NEW p
       PROVE  Of(lists', Threads, p) = Of(lists, Threads, p) \cup (IF p = p0 THEN {y} ELSE {})
  <2>1. ASSUME NEW k \in Threads, NEW n \in Nat \ {0}
        PROVE  2 * n <= Len(lists'[k]) /\ PairAt(lists'[k], n) = p <=>
                 \/ 2 * n <= Len(lists[k]) /\ PairAt(lists[k], n) = p
                 \/ p = p0 /\ <<k, n>> = y
    <3>1. CASE k = m
      <4>1. lists'[k] = t /\ lists[k] = s
        BY <1>4, <1>7, <3>1 DEF s
      <4> QED
        BY <1>5, <1>6, <1>8, <1>9, <3>1, <4>1
    <3>2. CASE k # m
      <4>1. lists'[k] = lists[k]
        BY <1>7, <3>2, ThreadsAre
      <4> QED
        BY <3>2, <4>1
    <3> QED
      BY <3>1, <3>2
  <2>2. y \in Threads \X (Nat \ {0})
    BY <1>4, <1>9
  <2> HIDE DEF y
  <2>3. ASSUME NEW e \in Threads \X (Nat \ {0})
        PROVE  2 * e[2] <= Len(lists'[e[1]]) /\ PairAt(lists'[e[1]], e[2]) = p <=>
                 \/ 2 * e[2] <= Len(lists[e[1]]) /\ PairAt(lists[e[1]], e[2]) = p
                 \/ p = p0 /\ e = y
    <3>1. e[1] \in Threads /\ e[2] \in Nat \ {0} /\ e = <<e[1], e[2]>>
      OBVIOUS
    <3> QED
      BY <2>1, <3>1
  <2> QED
    BY <2>2, <2>3 DEF Of, Entries
<1>11. ASSUME NEW p
       PROVE  y \notin Of(lists, Threads, p)
  <2>1. ~(2 * (c + 1) <= Len(lists[m]))
    BY <1>5 DEF s
  <2> QED
    BY <2>1 DEF Of, Entries
<1> HIDE DEF y
<1>12. lists' \in [Lists -> Seq(Word)]
  BY <1>2 DEF TypeOK
<1>13. ASSUME NEW p
       PROVE  count(lists', Threads, p) = count(lists, Threads, p) + (IF p = p0 THEN 1 ELSE 0)
  <2>1. /\ count(lists', Threads, p) = Cardinality(Of(lists', Threads, p))
        /\ count(lists, Threads, p) = Cardinality(Of(lists, Threads, p))
    BY <1>2, <1>12, CountIs, ThreadsAre
  <2>2. IsFiniteSet(Of(lists, Threads, p)) /\ Cardinality(Of(lists, Threads, p)) \in Nat
    BY <1>2, OfIsFinite, ThreadsAre
  <2>3. CASE p = p0
    <3>1. Of(lists', Threads, p) = Of(lists, Threads, p) \cup {y}
      BY <1>10, <2>3
    <3>2. Cardinality(Of(lists, Threads, p) \cup {y}) = Cardinality(Of(lists, Threads, p)) + 1
      BY <1>11, <2>2, FS_AddElement
    <3> QED
      BY <2>1, <2>3, <3>1, <3>2
  <2>4. CASE p # p0
    <3>1. Of(lists', Threads, p) = Of(lists, Threads, p)
      BY <1>10, <2>4
    <3> QED
      BY <2>1, <2>2, <2>4, <3>1
  <2> QED
    BY <2>3, <2>4
<1>14. view = lists /\ view' = lists'
  BY <1>2 DEF view
<1>15. registeredPairs' = [registeredPairs EXCEPT ![p0] = @ + 1]
  <2>1. \A p : /\ count(view, Mutators \cup {Marked}, p)' = count(lists', Threads, p)
               /\ count(view, Mutators \cup {Marked}, p) = count(lists, Threads, p)
    BY <1>14 DEF count, EntryNumbers, pair, Threads
  <2>2. /\ registeredPairs = [p \in PairSet |-> count(lists, Threads, p)]
        /\ registeredPairs' = [p \in PairSet |-> count(lists', Threads, p)]
    BY <2>1 DEF registeredPairs
  <2>3. ASSUME NEW p \in PairSet
        PROVE  registeredPairs'[p] = [registeredPairs EXCEPT ![p0] = @ + 1][p]
    <3>1. count(lists, Threads, p) \in Nat
      BY <1>2, CountAll DEF Threads
    <3> QED
      BY <1>3, <1>13, <2>2, <3>1
  <2>4. /\ registeredPairs' = [p \in PairSet |-> registeredPairs'[p]]
        /\ DOMAIN registeredPairs = PairSet
    BY <2>2
  <2> QED
    BY <2>3, <2>4
<1>16. pendingPairs' = pendingPairs
  <2>1. ASSUME NEW p
        PROVE  count(lists', {ToFinalize}, p) = count(lists, {ToFinalize}, p)
    <3>1. \A l \in {ToFinalize} : lists'[l] = lists[l]
      BY <1>4, <1>7, ThreadsAre
    <3> QED
      BY <3>1, CountSame
  <2>2. \A p : /\ count(view, {ToFinalize}, p)' = count(lists', {ToFinalize}, p)
               /\ count(view, {ToFinalize}, p) = count(lists, {ToFinalize}, p)
    BY <1>14 DEF count, EntryNumbers, pair
  <2> QED
    BY <2>1, <2>2 DEF pendingPairs
<1>17. Registry!Register(p0)
  BY <1>2, <1>15, <1>16 DEF Registry!Register
<1> QED
  BY <1>3, <1>17 DEF Registry!RegistryNext

\* The ascending order of a set names each of its elements once.
LEMMA AscendingIsOneToOne ==
  ASSUME NEW S \in SUBSET Nat, IsFiniteSet(S), NEW f, IsAscending(f, S)
  PROVE  /\ Cardinality(S) \in Nat
         /\ \A a, b \in 1..Cardinality(S) : f[a] = f[b] => a = b
         /\ \A m \in S : \E n \in 1..Cardinality(S) : f[n] = m
<1> DEFINE c == Cardinality(S)
<1>1. c \in Nat
  BY FS_CardinalityType
<1>2. f \in [1..c -> S] /\ \A a, b \in 1..c : a < b => f[a] < f[b]
  BY DEF IsAscending
<1>3. IsFiniteSet(1..c) /\ Cardinality(1..c) = c
  BY <1>1, FS_Interval
<1> HIDE DEF c
<1>4. \A a, b \in 1..c : f[a] = f[b] => a = b
  <2> SUFFICES ASSUME NEW a \in 1..c, NEW b \in 1..c, f[a] = f[b], a # b
               PROVE  FALSE
    OBVIOUS
  <2>1. a < b \/ b < a
    BY <1>1
  <2>2. f[a] \in Nat /\ f[b] \in Nat
    BY <1>2
  <2> QED
    BY <1>2, <2>1, <2>2
<1>5. f \in Injection(1..c, S)
  BY <1>2, <1>4 DEF Injection, IsInjective
<1>6. Cardinality(1..c) = Cardinality(S)
  BY <1>3 DEF c
<1>7. f \in Surjection(1..c, S)
  BY <1>5, <1>6, FS_Injection
<1> QED
  BY <1>1, <1>4, <1>7 DEF Surjection, c

\* The nth entry of a list is p.
IsEntry(s, n, p) == n \in Nat \ {0} /\ 2 * n <= Len(s) /\ PairAt(s, n) = p

\* The numbers g[n] are those of the entries p of s, for the entries p of t,
\* unless p is an entry of o: t has none of these.
Renumbers(g, t, s, p, o) ==
  /\ \A n : IsEntry(t, n, p) => IsEntry(s, g[n], p) /\ p[1] # o
  /\ \A n, m : IsEntry(t, n, p) /\ IsEntry(t, m, p) /\ g[n] = g[m] => n = m
  /\ p[1] # o => \A m : IsEntry(s, m, p) => \E n : IsEntry(t, n, p) /\ g[n] = m

\* The entries of a list without those of an object.
LEMMA WithoutEntries ==
  ASSUME NEW h, NEW s, ListOK(s, h), NEW o, NEW p
  PROVE  Renumbers(Ascending(Others(s, o)), Without(s, o), s, p, o)
<1> DEFINE K == Others(s, o)
           c == Cardinality(K)
           order == Ascending(K)
           t == Without(s, o)
<1>1. /\ c \in Nat /\ IsAscending(order, K) /\ Len(t) = 2 * c
      /\ \A n \in 1..c : /\ order[n] \in K
                         /\ t[2 * n - 1] = s[2 * order[n] - 1]
                         /\ t[2 * n] = s[2 * order[n]]
  BY WithoutWords
<1>2. Len(s) \in Nat /\ Len(s) % 2 = 0
  BY LenProperties DEF ListOK
<1>3. \A n : n \in K <=> n \in Nat \ {0} /\ 2 * n <= Len(s) /\ s[2 * n - 1].addr # o
  BY <1>2, HalfOf DEF Others
<1>4. K \in SUBSET Nat /\ IsFiniteSet(K)
  <2>1. K \subseteq 1..Len(s)
    BY <1>2, <1>3
  <2>2. \A n \in Nat : IsFiniteSet(1..n)
    BY FS_Interval
  <2> QED
    BY <1>2, <1>3, <2>1, <2>2, FS_Subset
<1> HIDE DEF K, order, t
<1>5. /\ \A a, b \in 1..c : order[a] = order[b] => a = b
      /\ \A m \in K : \E n \in 1..c : order[n] = m
  BY <1>1, <1>4, AscendingIsOneToOne
<1> HIDE DEF c
<1>6. \A n : n \in Nat \ {0} /\ 2 * n <= Len(t) <=> n \in 1..c
  BY <1>1
<1>7. \A n \in 1..c : PairAt(t, n) = PairAt(s, order[n])
  BY <1>1 DEF PairAt
<1>8. ASSUME NEW n, IsEntry(t, n, p)
      PROVE  IsEntry(s, order[n], p) /\ p[1] # o
  <2>1. n \in 1..c
    BY <1>6, <1>8 DEF IsEntry
  <2>2. order[n] \in K /\ PairAt(s, order[n]) = p
    BY <1>1, <1>7, <1>8, <2>1 DEF IsEntry
  <2>3. p[1] = s[2 * order[n] - 1].addr
    BY <2>2 DEF PairAt
  <2> QED
    BY <1>3, <2>2, <2>3 DEF IsEntry
<1>9. ASSUME p[1] # o, NEW m, IsEntry(s, m, p)
      PROVE  \E n : IsEntry(t, n, p) /\ order[n] = m
  <2>1. p[1] = s[2 * m - 1].addr
    BY <1>9 DEF PairAt, IsEntry
  <2>2. m \in K
    BY <1>3, <1>9, <2>1 DEF IsEntry
  <2>3. PICK n \in 1..c : order[n] = m
    BY <1>5, <2>2
  <2> QED
    BY <1>6, <1>7, <1>9, <2>3 DEF IsEntry
<1>10. \A n, m : IsEntry(t, n, p) /\ IsEntry(t, m, p) /\ order[n] = order[m] => n = m
  BY <1>5, <1>6 DEF IsEntry
<1> QED
  BY <1>8, <1>9, <1>10 DEF Renumbers, K, order, t

\* The entries of a list where those of an object are blanked.
LEMMA BlankedEntries ==
  ASSUME FinalizersAssumption, NEW h, NEW s, ListOK(s, h), NEW o, NEW p \in PairSet, NEW n
  PROVE  IsEntry(Blanked(s, o), n, p) <=> IsEntry(s, n, p) /\ p[1] # o
<1> DEFINE t == Blanked(s, o)
<1>1. Len(s) \in Nat /\ Len(t) = Len(s)
  <2>1. Len(s) \in Nat
    BY LenProperties DEF ListOK
  <2> QED
    BY <2>1, BlankedKeepsListOK
<1>2. \A w \in 1..Len(s) : t[w] = IF s[first(w)].addr = o THEN NullWord ELSE s[w]
  BY DEF Blanked
<1> HIDE DEF t
<1> SUFFICES ASSUME n \in Nat \ {0}, 2 * n <= Len(s)
             PROVE  PairAt(t, n) = p <=> PairAt(s, n) = p /\ p[1] # o
  BY <1>1 DEF t, IsEntry
<1>3. /\ 2 * n - 1 \in 1..Len(s) /\ 2 * n \in 1..Len(s)
      /\ first(2 * n - 1) = 2 * n - 1 /\ first(2 * n) = 2 * n - 1
  BY <1>1 DEF first
<1>4. CASE s[2 * n - 1].addr = o
  <2>1. PairAt(t, n) = <<Null, 0, Null>>
    BY <1>2, <1>3, <1>4 DEF PairAt, NullWord
  <2>2. PairAt(t, n) # p
    BY <2>1 DEF PairSet, FinalizersAssumption
  <2> QED
    BY <1>4, <2>2 DEF PairAt
<1>5. CASE s[2 * n - 1].addr # o
  <2>1. PairAt(t, n) = PairAt(s, n)
    BY <1>2, <1>3, <1>5 DEF PairAt
  <2> QED
    BY <1>5, <2>1 DEF PairAt
<1> QED
  BY <1>4, <1>5

ListsRenumber(g, ls, ks, from, p, o) == \A k \in from : Renumbers(g[k], ls[k], ks[k], p, o)

\* Lists whose entries are renumbered have as many of each pair.
LEMMA CountRenumbered ==
  ASSUME NEW ls, NEW ks, NEW from, NEW o, NEW p, NEW g,
         ls \in [Lists -> Seq(Word)], ks \in [Lists -> Seq(Word)], from \in SUBSET Lists,
         ListsRenumber(g, ls, ks, from, p, o)
  PROVE  count(ls, from, p) = IF p[1] = o THEN 0 ELSE count(ks, from, p)
<1> DEFINE S == Of(ls, from, p)
           T == Of(ks, from, p)
<1>1. /\ \A e : e \in S <=> e \in from \X (Nat \ {0}) /\ IsEntry(ls[e[1]], e[2], p)
      /\ \A e : e \in T <=> e \in from \X (Nat \ {0}) /\ IsEntry(ks[e[1]], e[2], p)
  BY DEF Of, Entries, IsEntry
<1>2. IsFiniteSet(S) /\ IsFiniteSet(T)
  BY OfIsFinite, FinalizersAssumption
<1>3. count(ls, from, p) = Cardinality(S) /\ count(ks, from, p) = Cardinality(T)
  BY CountIs, FinalizersAssumption
<1> HIDE DEF S, T
<1>4. ASSUME NEW e \in S
      PROVE  /\ e[1] \in from /\ e = <<e[1], e[2]>> /\ IsEntry(ls[e[1]], e[2], p)
             /\ Renumbers(g[e[1]], ls[e[1]], ks[e[1]], p, o)
  BY <1>1 DEF ListsRenumber
<1>5. CASE p[1] = o
  <2>1. ASSUME NEW e \in S
        PROVE  FALSE
    <3>1. \A k, n : IsEntry(ls[k], n, p) /\ Renumbers(g[k], ls[k], ks[k], p, o) => p[1] # o
      BY DEF Renumbers
    <3> QED
      BY <1>4, <1>5, <3>1
  <2>2. S = {}
    BY <2>1
  <2> QED
    BY <1>3, <1>5, <2>2, FS_EmptySet
<1>6. CASE p[1] # o
  <2> DEFINE F == [e \in S |-> <<e[1], g[e[1]][e[2]]>>]
  <2>1. ASSUME NEW e \in S
        PROVE  F[e] \in T
    <3>1. IsEntry(ks[e[1]], g[e[1]][e[2]], p)
      BY <1>4 DEF Renumbers
    <3>2. g[e[1]][e[2]] \in Nat \ {0}
      BY <3>1 DEF IsEntry
    <3> QED
      BY <1>1, <1>4, <3>1, <3>2
  <2>2. ASSUME NEW d \in S, NEW e \in S, F[d] = F[e]
        PROVE  d = e
    <3>1. d[1] = e[1] /\ g[d[1]][d[2]] = g[e[1]][e[2]]
      BY <2>2
    <3>2. d[2] = e[2]
      <4>1. /\ IsEntry(ls[e[1]], d[2], p) /\ IsEntry(ls[e[1]], e[2], p)
            /\ g[e[1]][d[2]] = g[e[1]][e[2]]
        BY <1>4, <3>1
      <4>2. Renumbers(g[e[1]], ls[e[1]], ks[e[1]], p, o)
        BY <1>4
      <4> QED
        BY <4>1, <4>2 DEF Renumbers
    <3>3. d = <<d[1], d[2]>> /\ e = <<e[1], e[2]>>
      BY <1>4
    <3> QED
      BY <3>1, <3>2, <3>3
  <2>3. ASSUME NEW e \in T
        PROVE  \E d \in S : F[d] = e
    <3>1. e[1] \in from /\ e = <<e[1], e[2]>> /\ IsEntry(ks[e[1]], e[2], p)
      BY <1>1
    <3>2. PICK n : IsEntry(ls[e[1]], n, p) /\ g[e[1]][n] = e[2]
      <4>1. ASSUME NEW h, NEW t, NEW r, Renumbers(h, t, r, p, o), NEW m, IsEntry(r, m, p)
            PROVE  \E n : IsEntry(t, n, p) /\ h[n] = m
        BY <1>6, <4>1 DEF Renumbers
      <4>2. Renumbers(g[e[1]], ls[e[1]], ks[e[1]], p, o)
        BY <3>1 DEF ListsRenumber
      <4> QED
        BY <3>1, <4>1, <4>2
    <3>3. <<e[1], n>> \in S
      BY <1>1, <3>1, <3>2 DEF IsEntry
    <3>4. F[<<e[1], n>>] = e
      BY <3>1, <3>2, <3>3
    <3> QED
      BY <3>3, <3>4
  <2>4. DOMAIN F = S /\ F \in [S -> T]
    BY <2>1
  <2> HIDE DEF F
  <2>5. F \in Bijection(S, T)
    BY <2>2, <2>3, <2>4 DEF Bijection, Injection, Surjection, IsInjective
  <2>6. Cardinality(T) = Cardinality(S)
    BY <1>2, <2>5, FS_Bijection DEF ExistsBijection
  <2> QED
    BY <1>3, <1>6, <2>6
<1> QED
  BY <1>5, <1>6

\* finalize(o) takes all entries of o out, and no other.
LEMMA FinalizeImplements ==
  ASSUME FinalizersAssumption, IInv, NEW o \in Objects, Finalize(o)
  PROVE  Registry!RegistryNext
<1>1. PICK others \in SUBSET Mutators :
        lists' = [l \in Lists |-> IF l = ToFinalize THEN lists[l]
                                  ELSE IF l \in others THEN Blanked(lists[l], o)
                                  ELSE Without(lists[l], o)]
  BY DEF Finalize
<1>2. /\ gcpc = "none" /\ gcpc' = "none" /\ kept' = kept
      /\ lists \in [Lists -> Seq(Word)] /\ lists' \in [Lists -> Seq(Word)]
      /\ \A l \in Lists : ListOK(lists[l], heap)
  <2>1. IInv'
    BY FinalizeKeepsIInv
  <2> QED
    BY <2>1 DEF Finalize, loopVars, historyVars, IInv, TypeOK, ListsOK
<1> DEFINE g == [l \in Threads |-> IF l \in others THEN [n \in Nat |-> n]
                                                  ELSE Ascending(Others(lists[l], o))]
<1>3. ASSUME NEW p \in PairSet, NEW l \in Threads
      PROVE  Renumbers(g[l], lists'[l], lists[l], p, o)
  <2>1. l \in Lists /\ l # ToFinalize /\ ListOK(lists[l], heap)
    BY <1>2, ThreadsAre
  <2>2. CASE l \in others
    <3>1. g[l] = [n \in Nat |-> n] /\ lists'[l] = Blanked(lists[l], o)
      BY <1>1, <2>1, <2>2
    <3>2. \A n : IsEntry(lists'[l], n, p) <=> IsEntry(lists[l], n, p) /\ p[1] # o
      BY <2>1, <3>1, BlankedEntries
    <3>3. \A n : IsEntry(lists[l], n, p) => n \in Nat
      BY DEF IsEntry
    <3> HIDE DEF g
    <3> QED
      BY <3>1, <3>2, <3>3 DEF Renumbers
  <2>3. CASE l \notin others
    <3>1. g[l] = Ascending(Others(lists[l], o)) /\ lists'[l] = Without(lists[l], o)
      BY <1>1, <2>1, <2>3
    <3> QED
      BY <2>1, <3>1, WithoutEntries
  <2> QED
    BY <2>2, <2>3
<1> HIDE DEF g
<1>4. ASSUME NEW p \in PairSet
      PROVE  count(lists', Threads, p) = IF p[1] = o THEN 0 ELSE count(lists, Threads, p)
  <2>1. ListsRenumber(g, lists', lists, Threads, p, o)
    BY <1>3 DEF ListsRenumber
  <2>2. Threads \in SUBSET Lists
    BY ThreadsAre
  <2> DEFINE ls == lists'
             ks == lists
  <2>3. /\ ls \in [Lists -> Seq(Word)] /\ ks \in [Lists -> Seq(Word)]
        /\ ListsRenumber(g, ls, ks, Threads, p, o)
    BY <1>2, <2>1
  <2> HIDE DEF ls, ks
  <2>4. count(ls, Threads, p) = IF p[1] = o THEN 0 ELSE count(ks, Threads, p)
    BY <2>2, <2>3, CountRenumbered
  <2> QED
    BY <2>4 DEF ls, ks
<1>5. view = lists /\ view' = lists'
  BY <1>2 DEF view
<1>6. registeredPairs' =
        [p \in PairSet |-> IF [q \in PairSet |-> q[1]][p] = o THEN 0 ELSE registeredPairs[p]]
  <2>1. \A p : /\ count(view, Mutators \cup {Marked}, p)' = count(lists', Threads, p)
               /\ count(view, Mutators \cup {Marked}, p) = count(lists, Threads, p)
    BY <1>5 DEF count, EntryNumbers, pair, Threads
  <2>2. /\ registeredPairs = [p \in PairSet |-> count(lists, Threads, p)]
        /\ registeredPairs' = [p \in PairSet |-> count(lists', Threads, p)]
    BY <2>1 DEF registeredPairs
  <2> QED
    BY <1>4, <2>2
<1>7. pendingPairs' = pendingPairs
  <2>1. ASSUME NEW p
        PROVE  count(lists', {ToFinalize}, p) = count(lists, {ToFinalize}, p)
    <3>1. \A l \in {ToFinalize} : lists'[l] = lists[l]
      BY <1>1, ThreadsAre
    <3> QED
      BY <3>1, CountSame
  <2>2. \A p : /\ count(view, {ToFinalize}, p)' = count(lists', {ToFinalize}, p)
               /\ count(view, {ToFinalize}, p) = count(lists, {ToFinalize}, p)
    BY <1>5 DEF count, EntryNumbers, pair
  <2> QED
    BY <2>1, <2>2 DEF pendingPairs
<1>8. Registry!RunNow(o)
  BY <1>2, <1>6, <1>7 DEF Registry!RunNow
<1>9. o \in {[p \in PairSet |-> p[1]][q] : q \in PairSet}
  <2>1. <<o, 0, o>> \in PairSet
    BY DEF PairSet, Tags, FinalizersAssumption
  <2>2. [p \in PairSet |-> p[1]][<<o, 0, o>>] = o
    BY <2>1
  <2> QED
    BY <2>1, <2>2
<1> QED
  BY <1>8, <1>9 DEF Registry!RegistryNext

\* At the end of the pass the entries of a pair that moves are in to_finalize,
\* and of another pair as many are there as before.
LEMMA EndGCImplements ==
  ASSUME FinalizersAssumption, IInv, RInv, EndGC
  PROVE  Registry!RegistryNext
<1>1. /\ gcpc = "markToFinalize" /\ gcpc' = "none" /\ kept' = {} /\ lists' = lists
      /\ lists \in [Lists -> Seq(Word)] /\ before \in [Lists -> Seq(Word)]
      /\ Emptied(Mutators) /\ NoneIsLost /\ NoRawPointer /\ Kept(Len(lists[Marked]))
  BY DEF EndGC, IInv, TypeOK, InMark, MarkOK, RInv, MarkedIsKept
<1>2. ASSUME NEW from \in SUBSET Lists, NEW p
      PROVE  Cardinality(Standing(from, p)) = count(lists, from, p)
  <2>1. Standing(from, p) = Of(lists, from, p)
    BY <1>1 DEF Standing, Passed
  <2> QED
    BY <1>1, <2>1, CountIs
<1>3. ASSUME NEW p \in PairSet
      PROVE  /\ count(lists, Lists, p) = count(before, Lists, p)
             /\ ~Moves(p) => count(lists, {ToFinalize}, p) = count(before, {ToFinalize}, p)
  BY <1>1, <1>2, ThreadsAre DEF NoneIsLost
<1>4. ASSUME NEW p \in PairSet, Moves(p)
      PROVE  count(lists, Threads, p) = 0
  <2>1. SUFFICES ASSUME NEW e \in Of(lists, Threads, p)
                 PROVE  FALSE
    BY <1>1, CountEmpty, ThreadsAre
  <2>2. /\ e[1] \in Threads /\ e[2] \in Nat \ {0} /\ 2 * e[2] <= Len(lists[e[1]])
        /\ PairAt(lists[e[1]], e[2]) = p
    BY DEF Of, Entries
  <2>3. CASE e[1] \in Mutators
    <3>1. Len(lists[e[1]]) = 0
      BY <1>1, <2>3 DEF Emptied
    <3> QED
      BY <2>2, <3>1
  <2>4. CASE e[1] = Marked
    <3> DEFINE w == 2 * e[2] - 1
    <3>1. w \in 1..Len(lists[Marked]) /\ Odd(w) /\ w <= Len(lists[Marked])
      <4>1. Len(lists[Marked]) \in Nat
        BY MarkedLen
      <4> QED
        BY <2>2, <2>4, <4>1 DEF Odd
    <3>2. p[1] = lists[Marked][w].addr /\ p[2] = lists[Marked][w].tag
      BY <2>2, <2>4 DEF PairAt
    <3> HIDE DEF w
    <3>3. p[1] \in kept /\ p[2] # 3
      BY <1>1, <3>1, <3>2 DEF NoRawPointer, Kept
    <3> QED
      BY <1>4, <3>3 DEF Moves
  <2> QED
    BY <2>2, <2>3, <2>4, ThreadsAre
<1>5. ASSUME NEW p
      PROVE  /\ count(lists, Lists, p) = count(lists, Threads, p) + count(lists, {ToFinalize}, p)
             /\ count(before, Lists, p) = count(before, Threads, p) + count(before, {ToFinalize}, p)
             /\ count(lists, Threads, p) \in Nat /\ count(lists, {ToFinalize}, p) \in Nat
             /\ count(before, Threads, p) \in Nat /\ count(before, {ToFinalize}, p) \in Nat
  BY <1>1, CountAll DEF Threads
<1>6. ASSUME NEW p \in PairSet
      PROVE  /\ Moves(p) => count(lists, {ToFinalize}, p) =
                               count(before, {ToFinalize}, p) + count(before, Threads, p)
             /\ ~Moves(p) => count(lists, Threads, p) = count(before, Threads, p)
  <2> DEFINE a == count(lists, Threads, p)
             b == count(lists, {ToFinalize}, p)
             c == count(before, Threads, p)
             d == count(before, {ToFinalize}, p)
  <2>1. a \in Nat /\ b \in Nat /\ c \in Nat /\ d \in Nat
    BY <1>5
  <2>2. count(lists, Lists, p) = a + b /\ count(before, Lists, p) = c + d
    BY <1>5
  <2>3. a + b = c + d
    BY <1>3, <2>2
  <2>4. (Moves(p) => a = 0) /\ (~Moves(p) => b = d)
    BY <1>3, <1>4
  <2> HIDE DEF a, b, c, d
  <2>5. (Moves(p) => b = d + c) /\ (~Moves(p) => a = c)
    BY <2>1, <2>3, <2>4
  <2> QED
    BY <2>5 DEF a, b, c, d
<1>7. /\ registeredPairs = [p \in PairSet |-> count(before, Threads, p)]
      /\ registeredPairs' = [p \in PairSet |-> count(lists, Threads, p)]
      /\ pendingPairs = [p \in PairSet |-> count(before, {ToFinalize}, p)]
      /\ pendingPairs' = [p \in PairSet |-> count(lists, {ToFinalize}, p)]
  <2>1. view = before /\ view' = lists
    BY <1>1 DEF view
  <2>2. \A from, p : /\ count(view, from, p) = count(before, from, p)
                     /\ count(view, from, p)' = count(lists, from, p)
    BY <2>1 DEF count, EntryNumbers, pair
  <2> QED
    BY <2>2 DEF registeredPairs, pendingPairs, Threads
<1> DEFINE moves(p) == p \in {q \in PairSet : q[2] = 3} \/ [q \in PairSet |-> q[1]][p] \notin kept
<1>8. \A p \in PairSet : moves(p) <=> Moves(p)
  BY DEF Moves
<1> HIDE DEF moves
<1>9. registeredPairs' = [p \in PairSet |-> IF moves(p) THEN 0 ELSE registeredPairs[p]]
  <2>1. ASSUME NEW p \in PairSet
        PROVE  count(lists, Threads, p) = IF moves(p) THEN 0 ELSE count(before, Threads, p)
    BY <1>4, <1>6, <1>8
  <2> QED
    BY <1>7, <2>1
<1>10. pendingPairs' = [p \in PairSet |-> IF moves(p) THEN pendingPairs[p] + registeredPairs[p]
                                                      ELSE pendingPairs[p]]
  <2>1. ASSUME NEW p \in PairSet
        PROVE  count(lists, {ToFinalize}, p) =
                 IF moves(p) THEN count(before, {ToFinalize}, p) + count(before, Threads, p)
                             ELSE count(before, {ToFinalize}, p)
    BY <1>3, <1>6, <1>8
  <2> QED
    BY <1>7, <2>1
<1>11. Registry!EndCollection
  BY <1>1, <1>9, <1>10 DEF Registry!EndCollection, moves
<1> QED
  BY <1>11 DEF Registry!RegistryNext

\* No finalizer is lost or run twice, and none becomes pending while its object
\* is in use: the lists of julia_finalizer.rs implement the registry.
THEOREM ListsImplementRegistry == Spec => ImplementsRegistry
<1> DEFINE mapped == <<registeredPairs, pendingPairs, gcpc # "none", kept>>
<1>1. Init => Registry!RegistryInit
  BY FinalizersAssumption, InitImplements
<1>2. IInv /\ RInv /\ [Next]_vars => [Registry!RegistryNext]_mapped
  <2> SUFFICES ASSUME IInv, RInv, [Next]_vars
               PROVE  Registry!RegistryNext \/ UNCHANGED mapped
    OBVIOUS
  <2>1. CASE (\E o \in Objects : Alloc(o)) \/ (Pass /\ ~EndGC) \/ UNCHANGED vars
    BY <2>1, AllocImplements
  <2>2. ASSUME NEW o \in Objects, Finalize(o)
        PROVE  Registry!RegistryNext
    BY <2>2, FinalizersAssumption, FinalizeImplements
  <2>3. ASSUME NEW m \in Mutators, AddFinalizer(m)
        PROVE  Registry!RegistryNext
    BY <2>3, FinalizersAssumption, AddFinalizerImplements
  <2>4. CASE RunFinalizers
    BY <2>4, FinalizersAssumption, RunFinalizersImplements
  <2>5. ASSUME NEW isNursery \in BOOLEAN, StartGC(isNursery)
        PROVE  Registry!RegistryNext
    BY <2>5, FinalizersAssumption, StartGCImplements
  <2>6. CASE EndGC
    BY <2>6, FinalizersAssumption, EndGCImplements
  <2> HIDE DEF mapped
  <2> QED
    BY <2>1, <2>2, <2>3, <2>4, <2>5, <2>6 DEF Next
<1> QED
  BY <1>1, <1>2, Invariance, RefinementInvariance, PTL
     DEF Spec, ImplementsRegistry, Registry!RegistrySpec
=============================================================================
