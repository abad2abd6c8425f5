------------------------------ MODULE FoldFacts ------------------------------
(***************************************************************************)
(* What the folds of the community modules compute, for sets and sequences *)
(* of any size. A fold is a recursive function on the subsets of a set,    *)
(* that is, the choice of a function that satisfies an equation: the one   *)
(* fact to prove is that there is such a function (FoldExists), and then   *)
(* what holds of the empty set and of one more element holds of the whole  *)
(* (the induction of the least natural, Least).                            *)
(***************************************************************************)
EXTENDS Integers, FiniteSets, SequencesExt, FiniteSetTheorems, SequenceTheorems,
        WellFoundedInduction, TLAPS

-----------------------------------------------------------------------------
(* The least of a set of naturals. *)

Lower == {pair \in Nat \X Nat : pair[1] < pair[2]}

\* The order of the naturals is well founded, as a set of pairs.
LEMMA LowerIsWellFounded == IsWellFoundedOn(Lower, Nat)
  BY NatLessThanWellFounded, Zenon DEF OpToRel, Lower

\* A set of naturals that is not empty has a least member.
LEMMA Least ==
  ASSUME NEW T, T \subseteq Nat, T # {}
  PROVE  \E x \in T : \A y \in T : x <= y
<1>1. \E x \in T : \A y \in T : ~ (<<y, x>> \in Lower)
  BY LowerIsWellFounded, WFMin, Zenon
<1>2. PICK x \in T : \A y \in T : <<y, x>> \notin Lower
  BY <1>1
<1>3. \A y \in T : ~(y < x)
  BY <1>2 DEF Lower
<1> QED BY <1>3

\* The naturals, from 0, one by one: induction, with a set for the property.
LEMMA Naturals ==
  ASSUME NEW P, 0 \in P, \A n \in Nat : n \in P => n + 1 \in P
  PROVE  Nat \subseteq P
<1> DEFINE T == {n \in Nat : n \notin P}
<1> SUFFICES ASSUME T # {} PROVE FALSE OBVIOUS
<1>1. PICK x \in T : \A y \in T : x <= y BY Least
<1>2. x # 0 /\ x - 1 \in Nat BY <1>1
<1>3. x - 1 \in P BY <1>1, <1>2
<1>4. (x - 1) + 1 = x BY <1>1
<1> QED BY <1>1, <1>2, <1>3, <1>4

-----------------------------------------------------------------------------
(* Folds over a finite set. *)

\* One element after another is picked, and a step made with each.
Folds(S, V, base, pick, step) ==
    /\ IsFiniteSet(S)
    /\ base \in V
    /\ pick \in [(SUBSET S) \ {{}} -> S]
    /\ \A s \in (SUBSET S) \ {{}} : pick[s] \in s
    /\ step \in [S \X V -> V]
FoldsTo(S, base, pick, step, g) ==
    g = [s \in SUBSET S |-> IF s = {} THEN base ELSE step[<<pick[s], g[s \ {pick[s]}]>>]]

\* A subset is finite, and empty when it has no member.
LEMMA SizeOfSubset ==
  ASSUME NEW S, IsFiniteSet(S), NEW s \in SUBSET S
  PROVE  IsFiniteSet(s) /\ Cardinality(s) \in Nat /\ (Cardinality(s) <= 0 => s = {})
<1>1. IsFiniteSet(s) BY FS_Subset
<1>2. Cardinality(s) \in Nat BY <1>1, FS_CardinalityType
<1>3. Cardinality(s) = 0 => s = {} BY <1>1, FS_EmptySet
<1> QED BY <1>1, <1>2, <1>3

\* A set without one of its members has one member less.
LEMMA OneLess ==
  ASSUME NEW S, IsFiniteSet(S), NEW s \in SUBSET S, NEW x \in s
  PROVE  /\ s \ {x} \in SUBSET S
         /\ Cardinality(s) \in Nat /\ Cardinality(s) >= 1
         /\ Cardinality(s \ {x}) = Cardinality(s) - 1
<1>1. IsFiniteSet(s) BY FS_Subset
<1>2. Cardinality(s \ {x}) = Cardinality(s) - 1 BY <1>1, FS_RemoveElement
<1>3. IsFiniteSet(s \ {x}) BY <1>1, FS_RemoveElement
<1>4. Cardinality(s) \in Nat /\ Cardinality(s \ {x}) \in Nat BY <1>1, <1>3, FS_CardinalityType
<1> QED BY <1>2, <1>3, <1>4

\* A function that a fold asks for, on the subsets of a size at most.
LEMMA FoldExists ==
  ASSUME NEW S, NEW V, NEW base, NEW pick, NEW step, Folds(S, V, base, pick, step)
  PROVE  \E g \in [SUBSET S -> V] : FoldsTo(S, base, pick, step, g)
<1> USE DEF Folds
<1> DEFINE UpTo(n) == {s \in SUBSET S : Cardinality(s) <= n}
           Value(g, s) == IF s = {} THEN base ELSE step[<<pick[s], g[s \ {pick[s]}]>>]
           Good(n) == \E g \in [UpTo(n) -> V] : \A s \in UpTo(n) : g[s] = Value(g, s)
           P == {n \in Nat : Good(n)}
<1>1. 0 \in P
  <2> DEFINE g == [s \in UpTo(0) |-> base]
  <2>1. \A s \in UpTo(0) : s = {}
    <3> SUFFICES ASSUME NEW s \in SUBSET S, Cardinality(s) <= 0 PROVE s = {} OBVIOUS
    <3> QED BY SizeOfSubset
  <2>2. g \in [UpTo(0) -> V] /\ \A s \in UpTo(0) : g[s] = Value(g, s) BY <2>1
  <2> QED BY <2>2
<1>2. ASSUME NEW n \in Nat, n \in P PROVE n + 1 \in P
  <2>1. PICK g \in [UpTo(n) -> V] : \A s \in UpTo(n) : g[s] = Value(g, s) BY <1>2
  <2> DEFINE h == [s \in UpTo(n + 1) |-> Value(g, s)]
  <2>2. ASSUME NEW s \in UpTo(n + 1), s # {}
        PROVE  s \ {pick[s]} \in UpTo(n) /\ pick[s] \in S
    BY <2>2, OneLess
  <2>3. h \in [UpTo(n + 1) -> V]
    <3> SUFFICES ASSUME NEW s \in UpTo(n + 1) PROVE Value(g, s) \in V OBVIOUS
    <3>1. CASE s = {} BY <3>1
    <3>2. CASE s # {}
      <4>1. g[s \ {pick[s]}] \in V BY <2>1, <2>2, <3>2
      <4> QED BY <2>2, <3>2, <4>1
    <3> QED BY <3>1, <3>2
  <2>4. \A s \in UpTo(n) : s \in UpTo(n + 1) /\ h[s] = g[s]
    <3>1. \A s \in UpTo(n) : s \in UpTo(n + 1)
      <4> SUFFICES ASSUME NEW s \in UpTo(n) PROVE Cardinality(s) <= n + 1 OBVIOUS
      <4>1. IsFiniteSet(s) BY FS_Subset
      <4>2. Cardinality(s) \in Nat BY <4>1, FS_CardinalityType
      <4> QED BY <4>2
    <3> QED BY <3>1, <2>1
  <2>5. ASSUME NEW s \in UpTo(n + 1) PROVE h[s] = Value(h, s)
    <3>1. CASE s = {} BY <3>1
    <3>2. CASE s # {}
      <4>1. h[s \ {pick[s]}] = g[s \ {pick[s]}] BY <2>2, <2>4, <3>2
      <4>2. h[s] = Value(g, s) OBVIOUS
      <4> HIDE DEF h
      <4> QED BY <4>1, <4>2, <3>2
    <3> QED BY <3>1, <3>2
  <2>6. Good(n + 1)
    <3> HIDE DEF h, UpTo, Value
    <3> QED BY <2>3, <2>5
  <2> HIDE DEF Good
  <2> QED BY <2>6
<1>3. Nat \subseteq P
  <2> HIDE DEF P
  <2> QED BY <1>1, <1>2, Naturals
<1>4. Cardinality(S) \in Nat BY FS_CardinalityType
<1>5. UpTo(Cardinality(S)) = SUBSET S
  <2> SUFFICES ASSUME NEW s \in SUBSET S PROVE Cardinality(s) <= Cardinality(S) OBVIOUS
  <2> QED BY FS_Subset
<1>6. PICK g \in [SUBSET S -> V] : \A s \in SUBSET S : g[s] = Value(g, s)
  <2>1. Good(Cardinality(S)) BY <1>3, <1>4
  <2> QED BY <1>5, <2>1
<1>7. g = [s \in SUBSET S |-> Value(g, s)] BY <1>6
<1> QED BY <1>7 DEF FoldsTo

\* What holds of the empty set, and of a set when it holds of what is left
\* once its next member is picked, holds of every subset.
LEMMA SubsetInduction ==
  ASSUME NEW S, IsFiniteSet(S), NEW pick, \A s \in (SUBSET S) \ {{}} : pick[s] \in s,
         NEW P, {} \in P,
         \A s \in (SUBSET S) \ {{}} : s \ {pick[s]} \in P => s \in P
  PROVE  SUBSET S \subseteq P
<1> DEFINE Q == {n \in Nat : \A s \in SUBSET S : Cardinality(s) = n => s \in P}
<1>1. 0 \in Q
  <2> SUFFICES ASSUME NEW s \in SUBSET S, Cardinality(s) = 0 PROVE s = {} OBVIOUS
  <2> QED BY SizeOfSubset
<1>2. ASSUME NEW n \in Nat, n \in Q PROVE n + 1 \in Q
  <2> SUFFICES ASSUME NEW s \in SUBSET S, Cardinality(s) = n + 1 PROVE s \in P OBVIOUS
  <2>1. CASE s = {} BY <2>1
  <2>2. CASE s # {}
    <3>1. pick[s] \in s BY <2>2
    <3>2. s \ {pick[s]} \in SUBSET S /\ Cardinality(s \ {pick[s]}) = n
      BY <3>1, OneLess
    <3> QED BY <1>2, <2>2, <3>2
  <2> QED BY <2>1, <2>2
<1>3. Nat \subseteq Q
  <2> HIDE DEF Q
  <2> QED BY <1>1, <1>2, Naturals
<1> SUFFICES ASSUME NEW s \in SUBSET S PROVE s \in P OBVIOUS
<1>4. IsFiniteSet(s) BY FS_Subset
<1>5. Cardinality(s) \in Nat BY <1>4, FS_CardinalityType
<1> QED BY <1>3, <1>5

-----------------------------------------------------------------------------
(* Sums. *)

\* The sum of the values of a function.
SumOf(f) == FoldFunction(+, 0, f)

\* Its recursion, on the subsets of the domain.
SumStep(f, g) ==
    g = [s \in SUBSET DOMAIN f |->
            IF s = {} THEN 0
            ELSE f[CHOOSE x \in s : TRUE] + g[s \ {CHOOSE x \in s : TRUE}]]

\* One function does it.
LEMMA SumStepOnce ==
  ASSUME NEW S, IsFiniteSet(S), NEW f, DOMAIN f = S, NEW g, NEW h, SumStep(f, g), SumStep(f, h)
  PROVE  g = h
<1> DEFINE pick == [s \in (SUBSET S) \ {{}} |-> CHOOSE x \in s : TRUE]
           P == {s \in SUBSET S : g[s] = h[s]}
<1>1. {} \in P BY DEF SumStep
<1>2. \A s \in (SUBSET S) \ {{}} : pick[s] \in s OBVIOUS
<1>3. ASSUME NEW s \in (SUBSET S) \ {{}}, s \ {pick[s]} \in P PROVE s \in P
  <2>1. pick[s] = (CHOOSE x \in s : TRUE) OBVIOUS
  <2>2. /\ g[s] = f[pick[s]] + g[s \ {pick[s]}]
        /\ h[s] = f[pick[s]] + h[s \ {pick[s]}]
    BY <2>1 DEF SumStep
  <2> QED BY <1>3, <2>2
<1>4. SUBSET S \subseteq P
  <2> HIDE DEF P, pick
  <2> QED BY <1>1, <1>2, <1>3, SubsetInduction
<1>5. \A s \in SUBSET S : g[s] = h[s] BY <1>4
<1> QED BY <1>5 DEF SumStep

\* The sum of a function is what its recursion ends with.
LEMMA SumUnfolds ==
  ASSUME NEW S, IsFiniteSet(S), NEW f \in [S -> Int]
  PROVE  \E g \in [SUBSET S -> Int] : SumStep(f, g) /\ SumOf(f) = g[S]
<1> DEFINE pick == [s \in (SUBSET S) \ {{}} |-> CHOOSE x \in s : TRUE]
           step == [p \in S \X Int |-> f[p[1]] + p[2]]
<1>1. Folds(S, Int, 0, pick, step)
  <2>1. \A s \in (SUBSET S) \ {{}} : pick[s] \in s OBVIOUS
  <2>2. pick \in [(SUBSET S) \ {{}} -> S] BY <2>1
  <2>3. step \in [S \X Int -> Int] OBVIOUS
  <2> QED BY <2>1, <2>2, <2>3 DEF Folds
<1>2. PICK g \in [SUBSET S -> Int] : FoldsTo(S, 0, pick, step, g) BY <1>1, FoldExists
<1>3. SumStep(f, g)
  <2>0. g[{}] = 0 BY <1>2 DEF FoldsTo
  <2> SUFFICES ASSUME NEW s \in SUBSET S, s # {}
               PROVE  g[s] = f[CHOOSE x \in s : TRUE] + g[s \ {CHOOSE x \in s : TRUE}]
    BY <2>0 DEF SumStep
  <2>1. pick[s] = (CHOOSE x \in s : TRUE) /\ pick[s] \in S OBVIOUS
  <2>2. g[s] = step[<<pick[s], g[s \ {pick[s]}]>>] BY <1>2 DEF FoldsTo
  <2>3. g[s \ {pick[s]}] \in Int OBVIOUS
  <2>4. step[<<pick[s], g[s \ {pick[s]}]>>] = f[pick[s]] + g[s \ {pick[s]}]
    BY <2>1, <2>3
  <2> HIDE DEF pick, step
  <2> QED BY <2>1, <2>2, <2>4
<1> DEFINE G == CHOOSE h : SumStep(f, h)
<1>4. SumStep(f, G) BY <1>3
<1>5. SumOf(f) = G[S] BY DEF SumOf, FoldFunction, FoldFunctionOnSet, MapThenFoldSet, SumStep
<1> HIDE DEF G
<1>6. G = g BY <1>3, <1>4, SumStepOnce
<1> QED BY <1>3, <1>5, <1>6

\* A function changed in one place has a sum changed by as much.
LEMMA SumChanges ==
  ASSUME NEW S, IsFiniteSet(S), NEW f \in [S -> Int], NEW c \in S, NEW h \in [S -> Int],
         \A x \in S \ {c} : h[x] = f[x]
  PROVE  SumOf(h) = SumOf(f) - f[c] + h[c]
<1> DEFINE v == h[c]
           pick == [s \in (SUBSET S) \ {{}} |-> CHOOSE x \in s : TRUE]
<1>2. PICK F \in [SUBSET S -> Int] : SumStep(f, F) /\ SumOf(f) = F[S] BY SumUnfolds
<1>3. PICK H \in [SUBSET S -> Int] : SumStep(h, H) /\ SumOf(h) = H[S]
  BY SumUnfolds
<1> DEFINE P == {s \in SUBSET S : H[s] = F[s] + IF c \in s THEN v - f[c] ELSE 0}
<1>4. {} \in P BY <1>2, <1>3 DEF SumStep
<1>5. ASSUME NEW s \in (SUBSET S) \ {{}}, s \ {pick[s]} \in P PROVE s \in P
  <2>1. pick[s] = (CHOOSE x \in s : TRUE) /\ pick[s] \in s /\ pick[s] \in S OBVIOUS
  <2> DEFINE t == s \ {pick[s]}
  <2>2. H[s] = h[pick[s]] + H[t] /\ F[s] = f[pick[s]] + F[t]
    BY <1>2, <1>3, <2>1 DEF SumStep
  <2>3. H[t] = F[t] + IF c \in t THEN v - f[c] ELSE 0 BY <1>5
  <2>4. h[pick[s]] = IF pick[s] = c THEN v ELSE f[pick[s]] BY <2>1
  <2>5. /\ F[t] \in Int /\ H[t] \in Int /\ f[pick[s]] \in Int /\ f[c] \in Int /\ v \in Int
    BY <2>1
  <2>6. c \in s <=> c \in t \/ pick[s] = c BY <2>1
  <2>7. pick[s] = c => c \notin t OBVIOUS
  <2> HIDE DEF pick, v, t
  <2> QED BY <2>2, <2>3, <2>4, <2>5, <2>6, <2>7
<1>6. \A s \in (SUBSET S) \ {{}} : pick[s] \in s OBVIOUS
<1>7. SUBSET S \subseteq P
  <2> HIDE DEF P, pick
  <2> QED BY <1>4, <1>5, <1>6, SubsetInduction
<1>8. H[S] = F[S] + (v - f[c]) BY <1>7
<1>9. F[S] \in Int /\ f[c] \in Int /\ v \in Int OBVIOUS
<1> QED BY <1>2, <1>3, <1>8, <1>9

\* A sum of naturals is one, and at least each of them; of zeros, zero.
LEMMA SumOfNaturals ==
  ASSUME NEW S, IsFiniteSet(S), NEW f \in [S -> Nat]
  PROVE  /\ SumOf(f) \in Nat
         /\ (\A x \in S : f[x] = 0) => SumOf(f) = 0
<1> DEFINE pick == [s \in (SUBSET S) \ {{}} |-> CHOOSE x \in s : TRUE]
<1>1. f \in [S -> Int] OBVIOUS
<1>2. PICK F \in [SUBSET S -> Int] : SumStep(f, F) /\ SumOf(f) = F[S] BY <1>1, SumUnfolds
<1> DEFINE P == {s \in SUBSET S : F[s] \in Nat /\ ((\A x \in S : f[x] = 0) => F[s] = 0)}
<1>3. {} \in P BY <1>2 DEF SumStep
<1>4. ASSUME NEW s \in (SUBSET S) \ {{}}, s \ {pick[s]} \in P PROVE s \in P
  <2>1. pick[s] = (CHOOSE x \in s : TRUE) /\ pick[s] \in S OBVIOUS
  <2>2. F[s] = f[pick[s]] + F[s \ {pick[s]}] BY <1>2, <2>1 DEF SumStep
  <2>3. f[pick[s]] \in Nat BY <2>1
  <2> HIDE DEF pick
  <2> QED BY <1>4, <2>1, <2>2, <2>3
<1>5. \A s \in (SUBSET S) \ {{}} : pick[s] \in s OBVIOUS
<1>6. SUBSET S \subseteq P
  <2> HIDE DEF P, pick
  <2> QED BY <1>3, <1>4, <1>5, SubsetInduction
<1> QED BY <1>2, <1>6

\* A sum of naturals is no less than any of them.
LEMMA SumCovers ==
  ASSUME NEW S, IsFiniteSet(S), NEW f \in [S -> Nat], NEW c \in S
  PROVE  SumOf(f) >= f[c]
<1> DEFINE h == [f EXCEPT ![c] = 0]
<1>1. h \in [S -> Nat] /\ h \in [S -> Int] /\ f \in [S -> Int] OBVIOUS
<1>2. h[c] = 0 /\ \A x \in S \ {c} : h[x] = f[x] OBVIOUS
<1> HIDE DEF h
<1>3. SumOf(h) \in Nat /\ SumOf(f) \in Nat BY <1>1, SumOfNaturals
<1>4. SumOf(h) = SumOf(f) - f[c] + h[c] BY <1>1, <1>2, SumChanges
<1> QED BY <1>2, <1>3, <1>4
-----------------------------------------------------------------------------
(* Concatenations. *)

\* What a concatenation has become after each of its sequences.
JoinsTo(seqs, g) ==
    g = [i \in 1 .. Len(seqs) |-> IF i = 1 THEN seqs[i] ELSE g[i - 1] \o seqs[i]]

\* There is one, and it is made of what the sequences are made of.
LEMMA JoinExists ==
  ASSUME NEW T, NEW seqs \in Seq(Seq(T))
  PROVE  \E g \in [1 .. Len(seqs) -> Seq(T)] : JoinsTo(seqs, g)
<1> DEFINE Value(g, i) == IF i = 1 THEN seqs[i] ELSE g[i - 1] \o seqs[i]
           Good(n) == \E g \in [1 .. n -> Seq(T)] : \A i \in 1 .. n : g[i] = Value(g, i)
           P == {n \in Nat : n <= Len(seqs) => Good(n)}
<1>0. Len(seqs) \in Nat /\ \A i \in 1 .. Len(seqs) : seqs[i] \in Seq(T) OBVIOUS
<1>1. 0 \in P
  <2> DEFINE g == [i \in 1 .. 0 |-> << >>]
  <2>0. 1 .. 0 = {} OBVIOUS
  <2>1. g \in [1 .. 0 -> Seq(T)] BY <2>0
  <2>2. Good(0)
    <3> HIDE DEF g
    <3> QED BY <2>0, <2>1
  <2> HIDE DEF Good
  <2> QED BY <2>2
<1>2. ASSUME NEW n \in Nat, n \in P PROVE n + 1 \in P
  <2>a. n <= Len(seqs) => Good(n)
    <3> HIDE DEF Good
    <3> QED BY <1>2
  <2> SUFFICES ASSUME n + 1 <= Len(seqs) PROVE Good(n + 1)
    <3> HIDE DEF Good
    <3> QED OBVIOUS
  <2>b. n <= Len(seqs) BY <1>0
  <2>1. PICK g \in [1 .. n -> Seq(T)] : \A i \in 1 .. n : g[i] = Value(g, i) BY <2>a, <2>b
  <2> DEFINE h == [i \in 1 .. n + 1 |-> Value(g, i)]
  <2>2. ASSUME NEW i \in 1 .. n + 1 PROVE Value(g, i) \in Seq(T)
    <3>1. seqs[i] \in Seq(T) BY <1>0
    <3>2. CASE i = 1 BY <3>1, <3>2
    <3>3. CASE i # 1
      <4>1. i - 1 \in 1 .. n BY <3>3
      <4>2. g[i - 1] \in Seq(T) BY <2>1, <4>1
      <4> QED BY <3>1, <3>3, <4>2
    <3> QED BY <3>2, <3>3
  <2>3. h \in [1 .. n + 1 -> Seq(T)] BY <2>2
  <2>4. \A i \in 1 .. n : h[i] = g[i]
    <3> SUFFICES ASSUME NEW i \in 1 .. n PROVE h[i] = g[i] OBVIOUS
    <3>1. i \in 1 .. n + 1 OBVIOUS
    <3> QED BY <2>1, <3>1
  <2>5. ASSUME NEW i \in 1 .. n + 1 PROVE h[i] = Value(h, i)
    <3>1. h[i] = Value(g, i) OBVIOUS
    <3>2. CASE i = 1 BY <3>1, <3>2
    <3>3. CASE i # 1
      <4>1. i - 1 \in 1 .. n BY <3>3
      <4>2. h[i - 1] = g[i - 1] BY <2>4, <4>1
      <4> HIDE DEF h
      <4> QED BY <3>1, <3>3, <4>2
    <3> QED BY <3>2, <3>3
  <2> HIDE DEF h
  <2> QED BY <2>3, <2>5
<1>3. Nat \subseteq P
  <2> HIDE DEF P
  <2> QED BY <1>1, <1>2, Naturals
<1>a. Good(Len(seqs))
  <2> HIDE DEF Good
  <2> QED BY <1>0, <1>3
<1>4. PICK g \in [1 .. Len(seqs) -> Seq(T)] : \A i \in 1 .. Len(seqs) : g[i] = Value(g, i)
  BY <1>a
<1>5. g = [i \in 1 .. Len(seqs) |-> Value(g, i)] BY <1>4
<1> QED BY <1>5 DEF JoinsTo

\* The concatenation of sequences is its last step.
LEMMA FlattenUnfolds ==
  ASSUME NEW T, NEW seqs \in Seq(Seq(T)), seqs # << >>
  PROVE  \E g \in [1 .. Len(seqs) -> Seq(T)] : JoinsTo(seqs, g) /\ FlattenSeq(seqs) = g[Len(seqs)]
<1>0. Len(seqs) \in Nat /\ Len(seqs) # 0 OBVIOUS
<1>1. PICK g \in [1 .. Len(seqs) -> Seq(T)] : JoinsTo(seqs, g) BY JoinExists
<1> DEFINE G == CHOOSE h : JoinsTo(seqs, h)
<1>2. JoinsTo(seqs, G) BY <1>1
<1>3. FlattenSeq(seqs) = G[Len(seqs)] BY <1>0 DEF FlattenSeq, JoinsTo
<1> HIDE DEF G
<1> DEFINE P == {n \in Nat : n \in 1 .. Len(seqs) => G[n] = g[n]}
<1>4. 0 \in P OBVIOUS
<1>5. ASSUME NEW n \in Nat, n \in P PROVE n + 1 \in P
  <2> SUFFICES ASSUME n + 1 \in 1 .. Len(seqs) PROVE G[n + 1] = g[n + 1] OBVIOUS
  <2>1. CASE n = 0 BY <1>1, <1>2, <2>1 DEF JoinsTo
  <2>2. CASE n # 0
    <3>1. n \in 1 .. Len(seqs) /\ (n + 1) - 1 = n /\ n + 1 # 1 BY <1>0, <2>2
    <3>2. G[n + 1] = G[n] \o seqs[n + 1] /\ g[n + 1] = g[n] \o seqs[n + 1]
      BY <1>1, <1>2, <3>1 DEF JoinsTo
    <3> QED BY <1>5, <3>1, <3>2
  <2> QED BY <2>1, <2>2
<1>6. Nat \subseteq P
  <2> HIDE DEF P
  <2> QED BY <1>4, <1>5, Naturals
<1>7. Len(seqs) \in 1 .. Len(seqs) BY <1>0
<1>8. G[Len(seqs)] = g[Len(seqs)] BY <1>0, <1>6, <1>7
<1> QED BY <1>1, <1>3, <1>8

\* A concatenation is made of what its sequences are made of.
LEMMA FlattenTyped ==
  ASSUME NEW T, NEW seqs \in Seq(Seq(T))
  PROVE  FlattenSeq(seqs) \in Seq(T)
<1>1. CASE seqs = << >> BY <1>1 DEF FlattenSeq
<1>2. CASE seqs # << >>
  <2>1. Len(seqs) \in 1 .. Len(seqs) BY <1>2
  <2>2. PICK g \in [1 .. Len(seqs) -> Seq(T)] : FlattenSeq(seqs) = g[Len(seqs)]
    BY <1>2, FlattenUnfolds
  <2> QED BY <2>1, <2>2
<1> QED BY <1>1, <1>2

-----------------------------------------------------------------------------
(* Sequences, one member after the other. *)

\* A set of naturals that ends has a greatest member.
LEMMA Greatest ==
  ASSUME NEW n \in Nat, NEW T, T \subseteq 0 .. n, T # {}
  PROVE  Max(T) \in T /\ \A y \in T : y <= Max(T)
<1> DEFINE D == {n - x : x \in T}
<1>1. D \subseteq Nat /\ D # {}
  <2>1. \A x \in T : x \in 0 .. n /\ n - x \in Nat OBVIOUS
  <2> QED BY <2>1
<1>2. PICK d \in D : \A e \in D : d <= e BY <1>1, Least
<1>3. PICK x \in T : d = n - x BY <1>2
<1>4. \A y \in T : x >= y
  <2> SUFFICES ASSUME NEW y \in T PROVE x >= y OBVIOUS
  <2>1. n - y \in D OBVIOUS
  <2> QED BY <1>2, <1>3, <2>1
<1>5. Max(T) \in T /\ \A y \in T : Max(T) >= y BY <1>3, <1>4 DEF Max
<1> QED BY <1>5

\* A concatenation, one sequence after the other, from nothing.
LEMMA FlattenSteps ==
  ASSUME NEW T, NEW seqs \in Seq(Seq(T))
  PROVE  \E g \in [0 .. Len(seqs) -> Seq(T)] :
            /\ g[0] = << >> /\ FlattenSeq(seqs) = g[Len(seqs)]
            /\ \A k \in 1 .. Len(seqs) : g[k] = g[k - 1] \o seqs[k]
<1>0. Len(seqs) \in Nat /\ \A k \in 1 .. Len(seqs) : seqs[k] \in Seq(T) OBVIOUS
<1>1. CASE seqs = << >>
  <2> DEFINE g == [k \in 0 .. 0 |-> << >>]
  <2>1. g \in [0 .. Len(seqs) -> Seq(T)] /\ g[0] = << >> BY <1>1
  <2>2. FlattenSeq(seqs) = << >> BY <1>1 DEF FlattenSeq
  <2> HIDE DEF g
  <2> QED BY <1>1, <2>1, <2>2
<1>2. CASE seqs # << >>
  <2>1. PICK f \in [1 .. Len(seqs) -> Seq(T)] : JoinsTo(seqs, f) /\ FlattenSeq(seqs) = f[Len(seqs)]
    BY <1>2, FlattenUnfolds
  <2> DEFINE g == [k \in 0 .. Len(seqs) |-> IF k = 0 THEN << >> ELSE f[k]]
  <2>2. Len(seqs) # 0 BY <1>0, <1>2
  <2>3. g \in [0 .. Len(seqs) -> Seq(T)]
    <3> SUFFICES ASSUME NEW k \in 0 .. Len(seqs) PROVE g[k] \in Seq(T) OBVIOUS
    <3>1. k # 0 => k \in 1 .. Len(seqs) BY <1>0
    <3>2. << >> \in Seq(T) OBVIOUS
    <3>3. k # 0 => f[k] \in Seq(T) BY <2>1, <3>1
    <3> QED BY <3>2, <3>3
  <2>4. g[0] = << >> /\ g[Len(seqs)] = f[Len(seqs)] BY <1>0, <2>2
  <2>5. ASSUME NEW k \in 1 .. Len(seqs) PROVE g[k] = g[k - 1] \o seqs[k]
    <3>1. g[k] = f[k] BY <1>0
    <3>2. CASE k = 1
      <4>1. f[1] = seqs[1] /\ g[0] = << >> BY <2>1, <3>2 DEF JoinsTo
      <4>2. seqs[1] \in Seq(T) BY <1>0, <3>2
      <4>3. << >> \o seqs[1] = seqs[1] BY <4>2
      <4>4. g[k - 1] = << >> /\ g[k] = seqs[k] BY <3>1, <3>2, <4>1
      <4> QED BY <3>2, <4>3, <4>4
    <3>3. CASE k # 1
      <4>1. k - 1 \in 1 .. Len(seqs) /\ k - 1 # 0 BY <1>0, <3>3
      <4>2. f[k] = f[k - 1] \o seqs[k] BY <2>1, <3>3 DEF JoinsTo
      <4>3. g[k - 1] = f[k - 1] BY <4>1
      <4> QED BY <3>1, <4>2, <4>3
    <3> QED BY <3>2, <3>3
  <2> HIDE DEF g
  <2> QED BY <2>1, <2>3, <2>4, <2>5
<1> QED BY <1>1, <1>2

\* The concatenation of sequences of one member each.
LEMMA FlattenSingles ==
  ASSUME NEW T, NEW x \in Seq(T), NEW seqs, seqs = [k \in DOMAIN x |-> <<x[k]>>]
  PROVE  FlattenSeq(seqs) = x
<1>0. Len(x) \in Nat /\ DOMAIN x = 1 .. Len(x) /\ \A k \in 1 .. Len(x) : x[k] \in T OBVIOUS
<1>1. seqs \in Seq(Seq(T)) /\ Len(seqs) = Len(x)
  <2>1. \A k \in 1 .. Len(x) : <<x[k]>> \in Seq(T) BY <1>0
  <2>2. seqs \in [1 .. Len(x) -> Seq(T)] BY <1>0, <2>1
  <2> QED BY <1>0, <2>2
<1>2. PICK g \in [0 .. Len(seqs) -> Seq(T)] :
        /\ g[0] = << >> /\ FlattenSeq(seqs) = g[Len(seqs)]
        /\ \A k \in 1 .. Len(seqs) : g[k] = g[k - 1] \o seqs[k]
  <2>1. \A q \in Seq(Seq(T)) : \E g \in [0 .. Len(q) -> Seq(T)] :
            /\ g[0] = << >> /\ FlattenSeq(q) = g[Len(q)]
            /\ \A k \in 1 .. Len(q) : g[k] = g[k - 1] \o q[k]
    BY FlattenSteps, Zenon
  <2> QED BY <1>1, <2>1, Zenon
<1> DEFINE P == {n \in Nat : n <= Len(x) => Len(g[n]) = n /\ \A j \in 1 .. n : g[n][j] = x[j]}
<1>3. 0 \in P BY <1>2
<1>4. ASSUME NEW n \in Nat, n \in P PROVE n + 1 \in P
  <2> SUFFICES ASSUME n + 1 <= Len(x)
               PROVE  Len(g[n + 1]) = n + 1 /\ \A j \in 1 .. n + 1 : g[n + 1][j] = x[j]
    OBVIOUS
  <2>1. n + 1 \in 1 .. Len(x) /\ n \in 0 .. Len(x) /\ (n + 1) - 1 = n BY <1>0
  <2>2. g[n + 1] = g[n] \o <<x[n + 1]>> BY <1>0, <1>1, <1>2, <2>1
  <2>3. g[n] \in Seq(T) /\ x[n + 1] \in T BY <1>0, <1>1, <1>2, <2>1
  <2>4. Len(g[n]) = n /\ \A j \in 1 .. n : g[n][j] = x[j] BY <1>4, <2>1
  <2>5. Len(g[n + 1]) = n + 1 BY <2>2, <2>3, <2>4
  <2>6. ASSUME NEW j \in 1 .. n + 1 PROVE g[n + 1][j] = x[j]
    <3>1. CASE j \in 1 .. n BY <2>2, <2>3, <2>4, <3>1
    <3>2. CASE j = n + 1
      <4>1. (g[n] \o <<x[n + 1]>>)[Len(g[n]) + 1] = x[n + 1] BY <2>3
      <4> QED BY <2>2, <2>4, <3>2, <4>1
    <3> QED BY <3>1, <3>2
  <2> QED BY <2>5, <2>6
<1>5. Nat \subseteq P
  <2> HIDE DEF P
  <2> QED BY <1>3, <1>4, Naturals
<1>6. g[Len(x)] \in Seq(T) BY <1>0, <1>1, <1>2
<1>7. Len(g[Len(x)]) = Len(x) /\ \A j \in 1 .. Len(x) : g[Len(x)][j] = x[j] BY <1>0, <1>5
<1>8. g[Len(x)] = x BY <1>0, <1>6, <1>7, SeqEqual
<1> QED BY <1>1, <1>2, <1>8

\* What is made of each member of a sequence is a sequence.
LEMMA MadeOfEach ==
  ASSUME NEW T, NEW s \in Seq(T), NEW f, f = [k \in DOMAIN s |-> f[k]]
  PROVE  /\ f \in Seq({f[k] : k \in DOMAIN s})
         /\ Len(f) = Len(s) /\ DOMAIN f = DOMAIN s
         /\ \A W : (\A k \in DOMAIN s : f[k] \in W) => f \in Seq(W)
<1>1. Len(s) \in Nat /\ DOMAIN s = 1 .. Len(s) OBVIOUS
<1>2. ASSUME NEW W, \A k \in DOMAIN s : f[k] \in W PROVE f \in Seq(W) /\ Len(f) = Len(s)
  <2>1. f \in [1 .. Len(s) -> W] BY <1>1, <1>2
  <2> QED BY <1>1, <2>1
<1>3. \A k \in DOMAIN s : f[k] \in {f[j] : j \in DOMAIN s} OBVIOUS
<1> QED BY <1>1, <1>2, <1>3

\* A sequence, each of its members replaced by its image.
Images(f, s) == [j \in DOMAIN s |-> f[s[j]]]

\* The images of a sequence are a sequence, and those of a concatenation
\* the concatenation of the images.
LEMMA ImagesTyped ==
  ASSUME NEW T, NEW f, NEW s \in Seq(T)
  PROVE  Images(f, s) \in Seq({f[x] : x \in T}) /\ Len(Images(f, s)) = Len(s)
<1>1. Len(s) \in Nat /\ DOMAIN s = 1 .. Len(s) /\ \A j \in 1 .. Len(s) : s[j] \in T OBVIOUS
<1>2. Images(f, s) \in [1 .. Len(s) -> {f[x] : x \in T}] BY <1>1 DEF Images
<1> QED BY <1>1, <1>2

LEMMA ImagesJoin ==
  ASSUME NEW T, NEW f, NEW s \in Seq(T), NEW t \in Seq(T)
  PROVE  Images(f, s \o t) = Images(f, s) \o Images(f, t)
<1>1. /\ s \o t \in Seq(T) /\ Len(s \o t) = Len(s) + Len(t)
      /\ Len(s) \in Nat /\ Len(t) \in Nat /\ DOMAIN s = 1 .. Len(s) /\ DOMAIN t = 1 .. Len(t)
      /\ DOMAIN (s \o t) = 1 .. Len(s) + Len(t)
  OBVIOUS
<1> DEFINE W == {f[x] : x \in T}
           a == Images(f, s \o t)
           b == Images(f, s) \o Images(f, t)
<1>2. a \in Seq(W) /\ Len(a) = Len(s) + Len(t)
  <2>1. \A u \in Seq(T) : Images(f, u) \in Seq(W) /\ Len(Images(f, u)) = Len(u) BY ImagesTyped
  <2> QED BY <1>1, <2>1
<1>3. /\ Images(f, s) \in Seq(W) /\ Len(Images(f, s)) = Len(s)
      /\ Images(f, t) \in Seq(W) /\ Len(Images(f, t)) = Len(t)
  <2>1. \A u \in Seq(T) : Images(f, u) \in Seq(W) /\ Len(Images(f, u)) = Len(u) BY ImagesTyped
  <2> QED BY <2>1
<1>4. b \in Seq(W) /\ Len(b) = Len(s) + Len(t)
  <2> HIDE DEF a
  <2>1. \A u, v \in Seq(W) : u \o v \in Seq(W) /\ Len(u \o v) = Len(u) + Len(v) OBVIOUS
  <2> QED BY <1>3, <2>1
<1>5. ASSUME NEW j \in 1 .. Len(s) + Len(t) PROVE a[j] = b[j]
  <2>1. a[j] = f[(s \o t)[j]] BY <1>1 DEF Images
  <2>2. CASE j \in 1 .. Len(s)
    <3>1. (s \o t)[j] = s[j] BY <2>2
    <3>2. b[j] = Images(f, s)[j] BY <1>3, <2>2
    <3>3. Images(f, s)[j] = f[s[j]] BY <1>1, <2>2 DEF Images
    <3> QED BY <2>1, <3>1, <3>2, <3>3
  <2>3. CASE j \notin 1 .. Len(s)
    <3>0. j - Len(s) \in 1 .. Len(t) BY <1>1, <2>3
    <3>1. (s \o t)[j] = t[j - Len(s)] BY <1>1, <2>3
    <3>2. b[j] = Images(f, t)[j - Len(s)] BY <1>1, <1>3, <2>3
    <3>3. Images(f, t)[j - Len(s)] = f[t[j - Len(s)]] BY <1>1, <3>0 DEF Images
    <3> QED BY <2>1, <3>1, <3>2, <3>3
  <2> QED BY <2>2, <2>3
<1> HIDE DEF a, b
<1>6. a = b BY <1>2, <1>4, <1>5, SeqEqual
<1> QED BY <1>6 DEF a, b

LEMMA FlattenImages ==
  ASSUME NEW T, NEW f, NEW seqs \in Seq(Seq(T))
  PROVE  FlattenSeq([k \in DOMAIN seqs |-> Images(f, seqs[k])]) = Images(f, FlattenSeq(seqs))
<1> DEFINE W == {f[x] : x \in T}
           mapped == [k \in DOMAIN seqs |-> Images(f, seqs[k])]
<1>0. Len(seqs) \in Nat /\ DOMAIN seqs = 1 .. Len(seqs) /\ \A k \in 1 .. Len(seqs) : seqs[k] \in Seq(T)
  OBVIOUS
<1>1. mapped \in Seq(Seq(W)) /\ Len(mapped) = Len(seqs)
  <2>1. \A k \in 1 .. Len(seqs) : Images(f, seqs[k]) \in Seq(W) BY <1>0, ImagesTyped
  <2>2. mapped \in [1 .. Len(seqs) -> Seq(W)] BY <1>0, <2>1
  <2> QED BY <1>0, <2>2
<1>2. \A k \in 1 .. Len(seqs) : mapped[k] = Images(f, seqs[k]) BY <1>0
<1>9. \A u, v \in Seq(T) : Images(f, u \o v) = Images(f, u) \o Images(f, v)
  <2> SUFFICES ASSUME NEW u \in Seq(T), NEW v \in Seq(T)
               PROVE  Images(f, u \o v) = Images(f, u) \o Images(f, v)
    OBVIOUS
  <2> QED BY ImagesJoin
<1> HIDE DEF mapped
<1>3. PICK g \in [0 .. Len(seqs) -> Seq(T)] :
        /\ g[0] = << >> /\ FlattenSeq(seqs) = g[Len(seqs)]
        /\ \A k \in 1 .. Len(seqs) : g[k] = g[k - 1] \o seqs[k]
  BY FlattenSteps
<1>4. PICK h \in [0 .. Len(mapped) -> Seq(W)] :
        /\ h[0] = << >> /\ FlattenSeq(mapped) = h[Len(mapped)]
        /\ \A k \in 1 .. Len(mapped) : h[k] = h[k - 1] \o mapped[k]
  BY <1>1, FlattenSteps
<1> DEFINE P == {n \in Nat : n <= Len(seqs) => h[n] = Images(f, g[n])}
<1>5. 0 \in P
  <2>1. Images(f, << >>) = << >> BY DEF Images
  <2> QED BY <1>3, <1>4, <2>1
<1>6. ASSUME NEW n \in Nat, n \in P PROVE n + 1 \in P
  <2> SUFFICES ASSUME n + 1 <= Len(seqs) PROVE h[n + 1] = Images(f, g[n + 1]) OBVIOUS
  <2>1. n + 1 \in 1 .. Len(seqs) /\ n \in 0 .. Len(seqs) /\ (n + 1) - 1 = n BY <1>0
  <2>2. g[n + 1] = g[n] \o seqs[n + 1] /\ g[n] \in Seq(T) /\ seqs[n + 1] \in Seq(T)
    BY <1>0, <1>3, <2>1
  <2>3. h[n + 1] = h[n] \o mapped[n + 1] BY <1>1, <1>4, <2>1
  <2>4. h[n] = Images(f, g[n]) BY <1>6, <2>1
  <2>5. Images(f, g[n] \o seqs[n + 1]) = Images(f, g[n]) \o Images(f, seqs[n + 1])
    BY <1>9, <2>2
  <2> QED BY <1>2, <2>1, <2>2, <2>3, <2>4, <2>5
<1>7. Nat \subseteq P
  <2> HIDE DEF P
  <2> QED BY <1>5, <1>6, Naturals
<1>8. h[Len(seqs)] = Images(f, g[Len(seqs)])
  <2>1. Len(seqs) \in P /\ Len(seqs) <= Len(seqs)
    <3> HIDE DEF P
    <3> QED BY <1>0, <1>7
  <2> QED BY <2>1
<1> QED BY <1>1, <1>3, <1>4, <1>8 DEF mapped
=============================================================================
