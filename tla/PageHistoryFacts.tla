-------------------------- MODULE PageHistoryFacts --------------------------
(***************************************************************************)
(* What the edits of history.ts do to the orders of pages, for documents   *)
(* of any length: whatever is picked, removed, moved or merged, an order   *)
(* holds pages of the file, none twice.                                    *)
(*                                                                         *)
(* The pages at some positions are taken by rank (Nth): that a set of n    *)
(* positions has a member of every rank up to n is the only fact here that *)
(* needs an induction, which is that of the least natural (Least).         *)
(***************************************************************************)
EXTENDS PageHistory, SequenceTheorems, FiniteSetTheorems, WellFoundedInduction, TLAPS

\* An order of pages of the file, none twice and at least one.
Stands(order, pages) ==
    /\ order # <<>>
    /\ IsInjective(order)
    /\ ToSet(order) \subseteq DOMAIN pages

-----------------------------------------------------------------------------
(* The least of a set of naturals. *)

Lower == {pair \in Nat \X Nat : pair[1] < pair[2]}

\* The order of the naturals is well founded, as a set of pairs.
LEMMA LowerIsWellFounded == IsWellFoundedOn(Lower, Nat)
  BY NatLessThanWellFounded, Zenon DEF OpToRel, Lower

\* A set of naturals that is not empty has a least member.
LEMMA Least ==
  ASSUME NEW T, T \subseteq Nat, T # {}
  PROVE  \E x \in T : \A y \in T : x <= y
<1>1. \E x \in T : \A y \in T : ~ (<<y, x>> \in Lower)
  BY LowerIsWellFounded, WFMin, Zenon
<1>2. PICK x \in T : \A y \in T : <<y, x>> \notin Lower
  BY <1>1
<1>3. \A y \in T : ~(y < x)
  BY <1>2 DEF Lower
<1> QED BY <1>3

-----------------------------------------------------------------------------
(* Positions by rank. *)

UpTo(S, i) == {j \in S : j <= i}

\* A set of positions is finite, and so is its part up to any of them.
LEMMA PartsAreFinite ==
  ASSUME NEW n \in Nat, NEW S \in SUBSET (1..n), NEW i \in Nat
  PROVE  /\ IsFiniteSet(S)
         /\ Cardinality(S) \in Nat
         /\ IsFiniteSet(UpTo(S, i))
         /\ Cardinality(UpTo(S, i)) \in Nat
<1>1. IsFiniteSet(1..n) BY FS_Interval
<1>2. IsFiniteSet(S) BY <1>1, FS_Subset
<1>3. UpTo(S, i) \subseteq S BY DEF UpTo
<1>4. IsFiniteSet(UpTo(S, i)) BY <1>2, <1>3, FS_Subset
<1> QED BY <1>2, <1>4, FS_CardinalityType

\* The rank of a position is one more than that of the one before it, if it
\* is a member, and the same if it is not.
LEMMA RankSteps ==
  ASSUME NEW n \in Nat, NEW S \in SUBSET (1..n), NEW i \in Nat
  PROVE  Cardinality(UpTo(S, i + 1)) =
             IF i + 1 \in S THEN Cardinality(UpTo(S, i)) + 1 ELSE Cardinality(UpTo(S, i))
<1>1. CASE i + 1 \in S
  <2>1. UpTo(S, i + 1) = UpTo(S, i) \cup {i + 1}
    <3>1. \A j \in S : j <= i + 1 <=> (j <= i \/ j = i + 1) OBVIOUS
    <3> QED BY <1>1, <3>1 DEF UpTo
  <2>2. i + 1 \notin UpTo(S, i) BY DEF UpTo
  <2> QED BY <1>1, <2>1, <2>2, PartsAreFinite, FS_AddElement
<1>2. CASE i + 1 \notin S
  <2>1. UpTo(S, i + 1) = UpTo(S, i)
    <3>1. \A j \in S : j <= i + 1 <=> j <= i BY <1>2
    <3> QED BY <3>1 DEF UpTo
  <2> QED BY <1>2, <2>1
<1> QED BY <1>1, <1>2

\* Every rank up to the number of positions is that of one of them.
LEMMA NthIsThere ==
  ASSUME NEW n \in Nat, NEW S \in SUBSET (1..n), NEW k \in 1..Cardinality(S)
  PROVE  Nth(S, k) \in S /\ Cardinality(UpTo(S, Nth(S, k))) = k
<1> DEFINE T == {i \in Nat : Cardinality(UpTo(S, i)) >= k}
<1>1. T \subseteq Nat /\ n \in T
  <2>1. UpTo(S, n) = S
    <3>1. \A j \in S : j <= n OBVIOUS
    <3> QED BY <3>1 DEF UpTo
  <2> QED BY <2>1, PartsAreFinite
<1>2. PICK i \in T : \A j \in T : i <= j BY <1>1, Least
<1>3. i \in Nat /\ Cardinality(UpTo(S, i)) \in Nat /\ Cardinality(UpTo(S, i)) >= k
  BY <1>2, PartsAreFinite
<1>4. i # 0
  <2>1. UpTo(S, 0) = {}
    <3>1. \A j \in S : ~(j <= 0) OBVIOUS
    <3> QED BY <3>1 DEF UpTo
  <2>2. Cardinality(UpTo(S, 0)) = 0 BY <2>1, FS_EmptySet
  <2> QED BY <2>2, <1>3
<1>5. i - 1 \in Nat /\ Cardinality(UpTo(S, i - 1)) \in Nat
  <2>1. i - 1 \in Nat BY <1>3, <1>4
  <2> QED BY <2>1, PartsAreFinite
<1>6. Cardinality(UpTo(S, i - 1)) < k
  <2>1. i - 1 \notin T BY <1>2, <1>3, <1>5
  <2> QED BY <2>1, <1>5
<1>7. Cardinality(UpTo(S, i)) =
          IF i \in S THEN Cardinality(UpTo(S, i - 1)) + 1 ELSE Cardinality(UpTo(S, i - 1))
  <2>1. (i - 1) + 1 = i BY <1>3
  <2>2. Cardinality(UpTo(S, (i - 1) + 1)) =
            IF (i - 1) + 1 \in S
            THEN Cardinality(UpTo(S, i - 1)) + 1 ELSE Cardinality(UpTo(S, i - 1))
    BY <1>5, RankSteps, Zenon
  <2> QED BY <2>1, <2>2
<1>8. i \in S /\ Cardinality(UpTo(S, i)) = k BY <1>3, <1>5, <1>6, <1>7
<1>9. \E x \in S : Cardinality({j \in S : j <= x}) = k BY <1>8 DEF UpTo
<1> QED BY <1>9 DEF Nth, UpTo

\* No position has two ranks.
LEMMA NthIsInjective ==
  ASSUME NEW n \in Nat, NEW S \in SUBSET (1..n),
         NEW k \in 1..Cardinality(S), NEW l \in 1..Cardinality(S), Nth(S, k) = Nth(S, l)
  PROVE  k = l
  BY NthIsThere

-----------------------------------------------------------------------------
(* Orders of pages. *)

\* The pages at positions P of an order are pages of the order at these
\* positions, none twice, as many as there are positions.
PicksOf(order, P, picked) ==
    /\ picked \in Seq(Nat)
    /\ Len(picked) = Cardinality(P \cap DOMAIN order)
    /\ IsInjective(picked)
    /\ \A k \in DOMAIN picked : \E i \in P \cap DOMAIN order : picked[k] = order[i]

\* The pages picked are a sequence, whatever is picked and from what.
LEMMA PickedPages ==
  ASSUME NEW order \in Seq(Nat), NEW P
  PROVE  At(order, P) \in Seq(Nat) /\ Len(At(order, P)) = Cardinality(P \cap DOMAIN order)
<1> DEFINE S == P \cap DOMAIN order
           n == Len(order)
<1>1. n \in Nat /\ DOMAIN order = 1..n /\ S \in SUBSET (1..n) OBVIOUS
<1>2. Cardinality(S) \in Nat BY <1>1, PartsAreFinite
<1>3. At(order, P) = [k \in 1..Cardinality(S) |-> order[Nth(S, k)]] BY DEF At
<1>4. \A k \in 1..Cardinality(S) : Nth(S, k) \in S BY <1>1, NthIsThere
<1> HIDE DEF S
<1>5. \A k \in 1..Cardinality(S) : order[Nth(S, k)] \in Nat
  <2>1. \A i \in S : order[i] \in Nat BY <1>1 DEF S
  <2> QED BY <1>4, <2>1
<1>6. At(order, P) \in Seq(Nat) /\ Len(At(order, P)) = Cardinality(S) BY <1>2, <1>3, <1>5
<1> QED BY <1>6 DEF S

\* What At picks is so (history.ts, move and remove; extract.ts).
LEMMA Picked ==
  ASSUME NEW order \in Seq(Nat), NEW P, IsInjective(order)
  PROVE  PicksOf(order, P, At(order, P))
<1> DEFINE S == P \cap DOMAIN order
           n == Len(order)
<1>1. n \in Nat /\ DOMAIN order = 1..n /\ S \in SUBSET (1..n) OBVIOUS
<1>2. Cardinality(S) \in Nat BY <1>1, PartsAreFinite
<1>3. At(order, P) = [k \in 1..Cardinality(S) |-> order[Nth(S, k)]] BY DEF At
<1>4. \A k \in 1..Cardinality(S) : Nth(S, k) \in S BY <1>1, NthIsThere
<1> HIDE DEF S
<1>6. At(order, P) \in Seq(Nat) /\ Len(At(order, P)) = Cardinality(S) BY PickedPages DEF S
<1>7. DOMAIN At(order, P) = 1..Cardinality(S) BY <1>3
<1>8. IsInjective(At(order, P))
  <2> SUFFICES ASSUME NEW a \in 1..Cardinality(S), NEW b \in 1..Cardinality(S),
                      order[Nth(S, a)] = order[Nth(S, b)]
               PROVE  a = b
    BY <1>3, <1>7 DEF IsInjective
  <2>1. Nth(S, a) \in DOMAIN order /\ Nth(S, b) \in DOMAIN order BY <1>1, <1>4
  <2>2. Nth(S, a) = Nth(S, b) BY <2>1 DEF IsInjective
  <2> QED BY <1>1, <2>2, NthIsInjective
<1>9. \A k \in DOMAIN At(order, P) : \E i \in S : At(order, P)[k] = order[i]
  BY <1>3, <1>4, <1>7
<1> QED BY <1>6, <1>8, <1>9 DEF S, PicksOf

\* Pages put between those of an order, none of which is theirs: every one
\* of both is there, none twice.
LEMMA PutBetween ==
  ASSUME NEW s \in Seq(Nat), NEW t \in Seq(Nat), NEW n \in 0..Len(s),
         IsInjective(s), IsInjective(t),
         \A a \in DOMAIN s, b \in DOMAIN t : s[a] # t[b]
  PROVE  LET whole == SubSeq(s, 1, n) \o t \o SubSeq(s, n + 1, Len(s))
         IN  /\ whole \in Seq(Nat)
             /\ Len(whole) = Len(s) + Len(t)
             /\ IsInjective(whole)
             /\ ToSet(whole) \subseteq ToSet(s) \cup ToSet(t)
<1> DEFINE front == SubSeq(s, 1, n)
           back == SubSeq(s, n + 1, Len(s))
           start == front \o t
           whole == start \o back
<1>l. /\ Len(s) \in Nat /\ Len(t) \in Nat /\ n \in Nat /\ n <= Len(s)
      /\ DOMAIN s = 1..Len(s) /\ DOMAIN t = 1..Len(t)
  OBVIOUS
<1>a. /\ front \in Seq(Nat) /\ Len(front) = n
      /\ \A i \in 1..n : front[i] = s[i]
  OBVIOUS
<1>b. /\ back \in Seq(Nat) /\ Len(back) = Len(s) - n
      /\ \A i \in 1..(Len(s) - n) : back[i] = s[n + i]
  OBVIOUS
<1> HIDE DEF front, back
<1>c. /\ start \in Seq(Nat) /\ Len(start) = n + Len(t)
      /\ \A i \in 1..(n + Len(t)) : start[i] = IF i <= n THEN s[i] ELSE t[i - n]
  <2>1. /\ start \in Seq(Nat)
        /\ Len(start) = Len(front) + Len(t)
        /\ \A i \in 1..(Len(front) + Len(t)) :
              start[i] = IF i <= Len(front) THEN front[i] ELSE t[i - Len(front)]
    BY <1>a, ConcatProperties
  <2> HIDE DEF start
  <2> QED BY <2>1, <1>a, <1>l
<1> HIDE DEF start
<1>d. /\ whole \in Seq(Nat)
      /\ Len(whole) = Len(start) + Len(back)
      /\ \A i \in 1..(Len(start) + Len(back)) :
            whole[i] = IF i <= Len(start) THEN start[i] ELSE back[i - Len(start)]
  BY <1>b, <1>c, ConcatProperties
<1> HIDE DEF whole
<1>1. whole \in Seq(Nat) BY <1>d
<1>2. Len(whole) = Len(s) + Len(t) BY <1>l, <1>b, <1>c, <1>d
<1>3. /\ \A i \in 1..n : whole[i] = s[i]
      /\ \A i \in (n + 1)..(n + Len(t)) : whole[i] = t[i - n]
      /\ \A i \in (n + Len(t) + 1)..(Len(s) + Len(t)) : whole[i] = s[i - Len(t)]
  <2>1. ASSUME NEW i \in 1..n PROVE whole[i] = s[i]
    <3>1. i \in 1..(Len(start) + Len(back)) /\ i <= Len(start) BY <1>l, <1>b, <1>c
    <3>2. whole[i] = start[i] BY <1>d, <3>1
    <3>3. i \in 1..(n + Len(t)) /\ i <= n BY <1>l
    <3> QED BY <1>c, <3>2, <3>3
  <2>2. ASSUME NEW i \in (n + 1)..(n + Len(t)) PROVE whole[i] = t[i - n]
    <3>1. i \in 1..(Len(start) + Len(back)) /\ i <= Len(start) /\ ~(i <= n)
      BY <1>l, <1>b, <1>c
    <3>2. whole[i] = start[i] BY <1>d, <3>1
    <3>3. i \in 1..(n + Len(t)) BY <1>l
    <3> QED BY <1>c, <3>1, <3>2, <3>3
  <2>3. ASSUME NEW i \in (n + Len(t) + 1)..(Len(s) + Len(t)) PROVE whole[i] = s[i - Len(t)]
    <3>1. i \in 1..(Len(start) + Len(back)) /\ ~(i <= Len(start)) BY <1>l, <1>b, <1>c
    <3>2. whole[i] = back[i - Len(start)] BY <1>d, <3>1
    <3>3. i - Len(start) \in 1..(Len(s) - n) /\ n + (i - Len(start)) = i - Len(t)
      BY <1>l, <1>c
    <3>4. back[i - Len(start)] = s[n + (i - Len(start))] BY <1>b, <3>3
    <3> QED BY <3>2, <3>3, <3>4
  <2> QED BY <2>1, <2>2, <2>3
<1>4. DOMAIN whole = 1..Len(whole) BY <1>1
<1> HIDE DEF whole
<1>5. \A i \in 1..Len(whole) :
         \/ i \in 1..n
         \/ i \in (n + 1)..(n + Len(t)) /\ i - n \in 1..Len(t)
         \/ /\ i \in (n + Len(t) + 1)..(Len(s) + Len(t))
            /\ i - Len(t) \in (n + 1)..Len(s)
  BY <1>l, <1>2
<1>6. IsInjective(whole)
  <2> SUFFICES ASSUME NEW i \in 1..Len(whole), NEW j \in 1..Len(whole),
                      whole[i] = whole[j], i < j
               PROVE  FALSE
    BY <1>l, <1>2, <1>4 DEF IsInjective
  <2>1. \A a, b \in 1..Len(s) : s[a] = s[b] => a = b BY <1>l DEF IsInjective
  <2>2. \A a, b \in 1..Len(t) : t[a] = t[b] => a = b BY <1>l DEF IsInjective
  <2>3. \A a \in 1..Len(s), b \in 1..Len(t) : s[a] # t[b] BY <1>l
  <2>4. CASE i \in 1..n
    <3>1. i \in 1..Len(s) /\ whole[i] = s[i] BY <1>l, <1>3, <2>4
    <3>2. CASE j \in 1..n
      <4>1. j \in 1..Len(s) /\ whole[j] = s[j] /\ i # j BY <1>l, <1>3, <3>2
      <4> QED BY <2>1, <3>1, <4>1
    <3>3. CASE j \in (n + 1)..(n + Len(t))
      <4>1. j - n \in 1..Len(t) BY <1>l, <3>3
      <4>2. whole[j] = t[j - n] BY <1>3, <3>3
      <4> QED BY <2>3, <3>1, <4>1, <4>2
    <3>4. CASE j \in (n + Len(t) + 1)..(Len(s) + Len(t))
      <4>1. j - Len(t) \in 1..Len(s) /\ i # j - Len(t) BY <1>l, <2>4, <3>4
      <4> QED BY <1>3, <2>1, <3>1, <3>4, <4>1
    <3> QED BY <1>5, <3>2, <3>3, <3>4
  <2>5. CASE i \in (n + 1)..(n + Len(t))
    <3>1. i - n \in 1..Len(t) /\ whole[i] = t[i - n] BY <1>l, <1>3, <2>5
    <3>2. CASE j \in (n + 1)..(n + Len(t))
      <4>1. j - n \in 1..Len(t) /\ i - n # j - n BY <1>l, <3>2
      <4> QED BY <1>3, <2>2, <3>1, <3>2, <4>1
    <3>3. CASE j \in (n + Len(t) + 1)..(Len(s) + Len(t))
      <4>1. j - Len(t) \in 1..Len(s) BY <1>l, <3>3
      <4> QED BY <1>3, <2>3, <3>1, <3>3, <4>1
    <3> QED BY <1>5, <1>l, <2>5, <3>2, <3>3
  <2>6. CASE i \in (n + Len(t) + 1)..(Len(s) + Len(t))
    <3>1. j \in (n + Len(t) + 1)..(Len(s) + Len(t)) BY <1>l, <1>2, <2>6
    <3>2. /\ i - Len(t) \in 1..Len(s) /\ j - Len(t) \in 1..Len(s)
          /\ i - Len(t) # j - Len(t)
      BY <1>l, <2>6, <3>1
    <3> QED BY <1>3, <2>1, <2>6, <3>1, <3>2
  <2> QED BY <1>5, <2>4, <2>5, <2>6
<1>7. ToSet(whole) \subseteq ToSet(s) \cup ToSet(t)
  <2> SUFFICES ASSUME NEW i \in 1..Len(whole)
               PROVE  whole[i] \in ToSet(s) \cup ToSet(t)
    BY <1>4 DEF ToSet
  <2>1. \A a \in 1..Len(s) : s[a] \in ToSet(s) BY DEF ToSet
  <2>2. \A a \in 1..Len(t) : t[a] \in ToSet(t) BY DEF ToSet
  <2>3. CASE i \in 1..n BY <1>l, <1>3, <2>1, <2>3
  <2>4. CASE i \in (n + 1)..(n + Len(t)) BY <1>3, <1>5, <1>l, <2>2, <2>4
  <2>5. CASE i \in (n + Len(t) + 1)..(Len(s) + Len(t))
    <3>1. i - Len(t) \in 1..Len(s) BY <1>l, <2>5
    <3> QED BY <1>3, <2>1, <2>5, <3>1
  <2> QED BY <1>5, <2>3, <2>4, <2>5
<1> QED BY <1>1, <1>2, <1>6, <1>7 DEF whole, start, front, back

-----------------------------------------------------------------------------
(* What becomes of an order that stands. *)

\* An order stands in a file that has more pages.
LEMMA StandsInMore ==
  ASSUME NEW order, NEW pages \in Seq(Nat), NEW more \in Seq(Nat),
         Stands(order, pages), Len(pages) <= Len(more)
  PROVE  Stands(order, more)
<1>1. DOMAIN pages = 1..Len(pages) /\ DOMAIN more = 1..Len(more)
      /\ Len(pages) \in Nat /\ Len(more) \in Nat
  BY LenProperties
<1>2. DOMAIN pages \subseteq DOMAIN more BY <1>1
<1> QED BY <1>2 DEF Stands

\* A file in which an order stands has a page.
LEMMA StandsInSome ==
  ASSUME NEW order \in Seq(Nat), NEW pages \in Seq(Nat), Stands(order, pages)
  PROVE  pages # <<>> /\ Len(pages) >= 1 /\ Len(order) >= 1
<1>1. Len(order) \in Nat \ {0} /\ DOMAIN order = 1..Len(order)
  BY EmptySeq, LenProperties DEF Stands
<1>2. order[1] \in ToSet(order) BY <1>1 DEF ToSet
<1>3. order[1] \in 1..Len(pages) BY <1>2, LenProperties DEF Stands
<1>4. Len(pages) \in Nat BY LenProperties
<1>5. Len(pages) >= 1 BY <1>3, <1>4
<1> QED BY <1>1, <1>5, EmptySeq

\* The pages picked are pages of the order.
LEMMA PickedFrom ==
  ASSUME NEW order, NEW P, NEW picked, PicksOf(order, P, picked)
  PROVE  ToSet(picked) \subseteq ToSet(order)
<1>1. \A k \in DOMAIN picked : \E i \in P \cap DOMAIN order : picked[k] = order[i]
  BY DEF PicksOf
<1>2. \A i \in DOMAIN order : order[i] \in ToSet(order) BY DEF ToSet
<1>3. \A k \in DOMAIN picked : picked[k] \in ToSet(order) BY <1>1, <1>2
<1> QED BY <1>3 DEF ToSet

\* An order without some of its pages stands, if one is left (history.ts,
\* remove).
LEMMA RemovalStands ==
  ASSUME NEW order \in Seq(Nat), NEW P, NEW pages,
         Stands(order, pages), Without(order, P) # <<>>
  PROVE  Without(order, P) \in Seq(Nat) /\ Stands(Without(order, P), pages)
<1>1. IsInjective(order) /\ ToSet(order) \subseteq DOMAIN pages BY DEF Stands
<1>2. Without(order, P) = At(order, DOMAIN order \ P) BY DEF Without
<1>3. /\ Without(order, P) \in Seq(Nat)
      /\ IsInjective(Without(order, P))
      /\ ToSet(Without(order, P)) \subseteq ToSet(order)
  <2>1. PicksOf(order, DOMAIN order \ P, Without(order, P)) BY <1>1, <1>2, Picked
  <2>2. ToSet(Without(order, P)) \subseteq ToSet(order) BY <2>1, PickedFrom
  <2> QED BY <2>1, <2>2 DEF PicksOf
<1> QED BY <1>1, <1>3 DEF Stands

\* Moving pages keeps every one of them (history.ts, move).
LEMMA MoveStands ==
  ASSUME NEW order \in Seq(Nat), NEW P, NEW target \in Nat, NEW pages, Stands(order, pages)
  PROVE  MovedTo(order, P, target) \in Seq(Nat) /\ Stands(MovedTo(order, P, target), pages)
<1> DEFINE rest == Without(order, P)
           picked == At(order, P)
           n == IF target < Len(rest) THEN target ELSE Len(rest)
           moved == SubSeq(rest, 1, n) \o picked \o SubSeq(rest, n + 1, Len(rest))
<1>1. /\ IsInjective(order) /\ ToSet(order) \subseteq DOMAIN pages /\ order # <<>>
      /\ Len(order) \in Nat \ {0} /\ DOMAIN order = 1..Len(order)
  BY LenProperties, EmptySeq DEF Stands
<1>2. /\ rest \in Seq(Nat) /\ IsInjective(rest) /\ ToSet(rest) \subseteq ToSet(order)
      /\ Len(rest) = Cardinality((DOMAIN order \ P) \cap DOMAIN order)
      /\ \A k \in DOMAIN rest : \E i \in (DOMAIN order \ P) \cap DOMAIN order : rest[k] = order[i]
  <2>1. rest = At(order, DOMAIN order \ P) BY DEF Without
  <2> HIDE DEF rest
  <2>2. PicksOf(order, DOMAIN order \ P, rest) BY <1>1, <2>1, Picked
  <2>3. ToSet(rest) \subseteq ToSet(order) BY <2>2, PickedFrom
  <2> QED BY <2>2, <2>3 DEF PicksOf
<1>3. /\ picked \in Seq(Nat) /\ IsInjective(picked) /\ ToSet(picked) \subseteq ToSet(order)
      /\ Len(picked) = Cardinality(P \cap DOMAIN order)
      /\ \A k \in DOMAIN picked : \E i \in P \cap DOMAIN order : picked[k] = order[i]
  <2>1. PicksOf(order, P, picked) BY <1>1, Picked
  <2> HIDE DEF rest, picked
  <2>2. ToSet(picked) \subseteq ToSet(order) BY <2>1, PickedFrom
  <2> QED BY <2>1, <2>2 DEF PicksOf
<1>4. MovedTo(order, P, target) = moved BY DEF MovedTo
<1> HIDE DEF rest, picked
<1>5. n \in 0..Len(rest) BY <1>2, LenProperties
<1>6. \A a \in DOMAIN rest, b \in DOMAIN picked : rest[a] # picked[b]
  <2> TAKE a \in DOMAIN rest, b \in DOMAIN picked
  <2>1. PICK i \in (DOMAIN order \ P) \cap DOMAIN order : rest[a] = order[i] BY <1>2
  <2>2. PICK j \in P \cap DOMAIN order : picked[b] = order[j] BY <1>3
  <2> QED BY <1>1, <2>1, <2>2 DEF IsInjective
<1>7. Len(rest) + Len(picked) > 0
  <2>1. CASE 1 \in P
    <3>1. 1 \in P \cap DOMAIN order BY <1>1, <2>1
    <3>2. P \cap DOMAIN order \in SUBSET (1..Len(order)) BY <1>1
    <3>3. Cardinality(P \cap DOMAIN order) # 0 BY <1>1, <3>1, <3>2, PartsAreFinite, FS_EmptySet
    <3> QED BY <1>2, <1>3, <3>3, LenProperties
  <2>2. CASE 1 \notin P
    <3>1. 1 \in (DOMAIN order \ P) \cap DOMAIN order BY <1>1, <2>2
    <3>2. (DOMAIN order \ P) \cap DOMAIN order \in SUBSET (1..Len(order)) BY <1>1
    <3>3. Cardinality((DOMAIN order \ P) \cap DOMAIN order) # 0
      BY <1>1, <3>1, <3>2, PartsAreFinite, FS_EmptySet
    <3> QED BY <1>2, <1>3, <3>3, LenProperties
  <2> QED BY <2>1, <2>2
<1> HIDE DEF n
<1>8. /\ moved \in Seq(Nat) /\ Len(moved) = Len(rest) + Len(picked)
      /\ IsInjective(moved) /\ ToSet(moved) \subseteq ToSet(rest) \cup ToSet(picked)
  BY <1>2, <1>3, <1>5, <1>6, PutBetween
<1> HIDE DEF moved
<1>9. moved # <<>> BY <1>7, <1>8, EmptySeq
<1> QED BY <1>1, <1>2, <1>3, <1>4, <1>8, <1>9 DEF Stands

\* The pages a merge adds are in the order with those that were there
\* (history.ts, merge).
LEMMA MergeStands ==
  ASSUME NEW h, NEW task, NEW pages \in Seq(Nat),
         h.order \in Seq(Nat), h.pages \in Seq(Nat), task.at \in Nat,
         Stands(h.order, h.pages), Len(pages) > Len(h.pages)
  PROVE  /\ OrderMerged(h, task, pages) \in Seq(Nat)
         /\ Stands(OrderMerged(h, task, pages), pages)
<1> DEFINE order == h.order
           known == Len(h.pages)
           added == [i \in 1..(Len(pages) - known) |-> known + i]
           n == IF task.at < Len(order) THEN task.at ELSE Len(order)
           merged == SubSeq(order, 1, n) \o added \o SubSeq(order, n + 1, Len(order))
<1>1. /\ order \in Seq(Nat) /\ IsInjective(order) /\ Len(order) \in Nat \ {0}
      /\ DOMAIN order = 1..Len(order) /\ ToSet(order) \subseteq 1..known
      /\ known \in Nat /\ Len(pages) \in Nat /\ DOMAIN pages = 1..Len(pages)
  BY LenProperties, EmptySeq DEF Stands
<1>2. OrderMerged(h, task, pages) = merged BY DEF OrderMerged
<1> HIDE DEF order, known
<1>3. /\ added \in Seq(Nat) /\ Len(added) = Len(pages) - known /\ IsInjective(added)
      /\ DOMAIN added = 1..(Len(pages) - known)
      /\ \A i \in 1..(Len(pages) - known) : added[i] = known + i
  <2>1. Len(pages) - known \in Nat BY <1>1 DEF known
  <2>2. added \in Seq(Nat) /\ Len(added) = Len(pages) - known BY <1>1, <2>1
  <2>3. IsInjective(added) BY <1>1 DEF IsInjective
  <2> QED BY <2>2, <2>3
<1>4. n \in 0..Len(order) BY <1>1
<1> HIDE DEF added, n
<1>5. \A a \in DOMAIN order, b \in DOMAIN added : order[a] # added[b]
  <2> TAKE a \in DOMAIN order, b \in DOMAIN added
  <2>1. order[a] \in 1..known BY <1>1 DEF ToSet
  <2>2. added[b] = known + b /\ b \in 1..(Len(pages) - known) BY <1>3
  <2> QED BY <1>1, <2>1, <2>2
<1>6. /\ merged \in Seq(Nat) /\ Len(merged) = Len(order) + Len(added)
      /\ IsInjective(merged) /\ ToSet(merged) \subseteq ToSet(order) \cup ToSet(added)
  BY <1>1, <1>3, <1>4, <1>5, PutBetween
<1> HIDE DEF merged
<1>7. Len(merged) \in Nat \ {0}
  <2>1. Len(added) \in Nat BY <1>3, LenProperties
  <2> QED BY <1>1, <1>6, <2>1
<1>8. ToSet(added) \subseteq 1..Len(pages)
  <2> SUFFICES ASSUME NEW i \in 1..(Len(pages) - known) PROVE added[i] \in 1..Len(pages)
    BY <1>3 DEF ToSet
  <2>1. added[i] = known + i BY <1>3
  <2> QED BY <1>1, <2>1
<1>9. 1..known \subseteq 1..Len(pages) BY <1>1 DEF known
<1>10. merged # <<>> BY <1>7, EmptySeq
<1> QED BY <1>1, <1>2, <1>6, <1>8, <1>9, <1>10 DEF Stands

\* Turning pages keeps their number (ops.rs, rotate).
LEMMA TurningKeepsPages ==
  ASSUME NEW pages \in Seq(Nat), NEW P, NEW turns \in Nat
  PROVE  TurnedBy(pages, P, turns) \in Seq(Nat) /\ Len(TurnedBy(pages, P, turns)) = Len(pages)
<1>1. Len(pages) \in Nat /\ DOMAIN pages = 1..Len(pages) /\ \A p \in DOMAIN pages : pages[p] \in Nat
  BY LenProperties
<1>2. \A p \in DOMAIN pages : (pages[p] + turns) % 4 \in Nat BY <1>1
<1> QED BY <1>1, <1>2 DEF TurnedBy
=============================================================================
