------------------------- MODULE CommandLineSafety -------------------------
(* The commands of `fyp', for any folder, lists of pages and parts: what a *)
(* command makes is what was asked of it, and whatever fails or is killed, *)
(* the folder and what was told are as promised.                           *)
EXTENDS CommandLine, FoldFacts

-----------------------------------------------------------------------------
(* The division of whole numbers.                                          *)

\* Quotient and remainder make up the number.
LEMMA Divides ==
  ASSUME NEW a \in Nat, NEW e \in Nat, e > 0
  PROVE  /\ a \div e \in Nat /\ a % e \in 0 .. e - 1
         /\ a = e * (a \div e) + (a % e)
<1> DEFINE q == a \div e
           m == a - q * e
<1>1. q \in Nat OBVIOUS
<1>2. q * e <= a /\ a < q * e + e
  <2>1. q * e <= a /\ a < (q + 1) * e OBVIOUS
  <2>2. (q + 1) * e = q * e + e BY <1>1
  <2> QED BY <2>1, <2>2
<1> HIDE DEF q
<1>3. q * e \in Int /\ q * e = e * q BY <1>1
<1>4. m \in 0 .. e - 1 /\ a = q * e + m BY <1>2, <1>3
<1> HIDE DEF m
<1>5. m = a % e BY <1>1, <1>4
<1>6. a = e * q + m BY <1>3, <1>4
<1>7. /\ q \in Nat /\ a % e \in 0 .. e - 1
      /\ a = e * q + (a % e)
  BY <1>1, <1>4, <1>5, <1>6
<1> QED BY <1>7, Zenon DEF q

\* Multiples are in the order of what is multiplied.
LEMMA TimesGrows ==
  ASSUME NEW e \in Nat, e > 0, NEW a \in Int, NEW b \in Int
  PROVE  /\ e * a < e * b => a < b
         /\ a <= b => e * a <= e * b
<1>1. ASSUME a >= b PROVE e * a >= e * b
  <2>1. e * (a - b) >= 0 BY <1>1
  <2>2. e * (a - b) = e * a - e * b OBVIOUS
  <2> QED BY <2>1, <2>2
<1>2. ASSUME a <= b PROVE e * a <= e * b
  <2>1. e * (b - a) >= 0 BY <1>2
  <2>2. e * (b - a) = e * b - e * a OBVIOUS
  <2> QED BY <2>1, <2>2
<1> QED BY <1>1, <1>2

\* A multiple leaves no remainder.
LEMMA TimesLeavesNothing ==
  ASSUME NEW e \in Nat, e > 0, NEW k \in Nat
  PROVE  (e * k) % e = 0
<1> DEFINE a == e * k
<1>1. a \in Nat OBVIOUS
<1> DEFINE q == a \div e
           m == a % e
<1>2. q \in Nat /\ m \in 0 .. e - 1 /\ a = e * q + m BY <1>1, Divides
<1>3. e * (k - q) = e * k - e * q BY <1>2
<1> HIDE DEF q, m
<1>4. e * (k - q) = m BY <1>2, <1>3
<1>5. CASE k - q >= 1
  <2>1. e * (k - q) >= e * 1 BY <1>5, <1>2, TimesGrows
  <2> QED BY <1>2, <1>4, <2>1
<1>6. CASE k - q <= 0
  <2>1. e * (k - q) <= e * 0 BY <1>6, <1>2, TimesGrows
  <2> QED BY <1>2, <1>4, <2>1 DEF m
<1> QED BY <1>2, <1>5, <1>6

-----------------------------------------------------------------------------
(* The lists of pages. *)

\* One result after the other, by the greatest of what is left.
GatherStep(results, g) ==
    g = [s \in SUBSET DOMAIN results |->
            IF s = {} THEN PagesRead(<< >>)
            ELSE Further(g[s \ {Max(s)}], results[Max(s)])]

\* Gathering is determined by the results.
LEMMA GatherOnce ==
  ASSUME NEW R, NEW results \in Seq(R), NEW g, NEW h, GatherStep(results, g), GatherStep(results, h)
  PROVE  g = h
<1> DEFINE S == DOMAIN results
           pick == [s \in (SUBSET S) \ {{}} |-> Max(s)]
           P == {s \in SUBSET S : g[s] = h[s]}
<1>0. Len(results) \in Nat /\ S = 1 .. Len(results) /\ S \subseteq 0 .. Len(results) OBVIOUS
<1>1. IsFiniteSet(S) BY <1>0, FS_Interval
<1>2. {} \in P BY DEF GatherStep
<1>3. \A s \in (SUBSET S) \ {{}} : pick[s] \in s
  <2> SUFFICES ASSUME NEW s \in (SUBSET S) \ {{}} PROVE Max(s) \in s OBVIOUS
  <2> QED BY <1>0, Greatest
<1>4. ASSUME NEW s \in (SUBSET S) \ {{}}, s \ {pick[s]} \in P PROVE s \in P
  <2>1. pick[s] = Max(s) OBVIOUS
  <2>2. /\ g[s] = Further(g[s \ {pick[s]}], results[pick[s]])
        /\ h[s] = Further(h[s \ {pick[s]}], results[pick[s]])
    BY <2>1 DEF GatherStep
  <2> QED BY <1>4, <2>2
<1>5. SUBSET S \subseteq P
  <2> HIDE DEF P, pick, S
  <2> QED BY <1>1, <1>2, <1>3, <1>4, SubsetInduction
<1>6. \A s \in SUBSET S : g[s] = h[s] BY <1>5
<1> QED BY <1>6 DEF GatherStep

\* What may come of the results gathered.
Gathers(results, U) ==
    {PagesRead(s) : s \in Seq(U)} \cup {results[k] : k \in DOMAIN results}

\* The results gathered, one after the other from the first.
LEMMA GatherUnfolds ==
  ASSUME NEW R, NEW results \in Seq(R), NEW U,
         \A k \in DOMAIN results : IsRead(results[k]) => results[k].pages \in Seq(U)
  PROVE  \E g \in [0 .. Len(results) -> Gathers(results, U)] :
            /\ g[0] = PagesRead(<< >>)
            /\ \A k \in 1 .. Len(results) : g[k] = Further(g[k - 1], results[k])
            /\ FoldLeft(Further, PagesRead(<< >>), results) = g[Len(results)]
<1> DEFINE n == Len(results)
           S == DOMAIN results
           V == Gathers(results, U)
           base == PagesRead(<< >>)
           pick == [s \in (SUBSET S) \ {{}} |-> Max(s)]
           step == [p \in S \X V |-> Further(p[2], results[p[1]])]
<1>0. n \in Nat /\ S = 1 .. n /\ S \subseteq 0 .. n OBVIOUS
<1>1. Folds(S, V, base, pick, step)
  <2>1. IsFiniteSet(S) BY <1>0, FS_Interval
  <2>2. base \in V
    <3>1. << >> \in Seq(U) OBVIOUS
    <3> QED BY <3>1 DEF Gathers
  <2>3. \A s \in (SUBSET S) \ {{}} : pick[s] \in s
    <3> SUFFICES ASSUME NEW s \in (SUBSET S) \ {{}} PROVE Max(s) \in s OBVIOUS
    <3> QED BY <1>0, Greatest
  <2>4. pick \in [(SUBSET S) \ {{}} -> S] BY <2>3
  <2>5. ASSUME NEW v \in V, NEW k \in S PROVE Further(v, results[k]) \in V
    <3>1. results[k] \in V BY DEF Gathers
    <3>2. IsRead(v) => v.pages \in Seq(U)
      <4>1. CASE \E s \in Seq(U) : v = PagesRead(s) BY <4>1 DEF PagesRead
      <4>2. CASE \E j \in S : v = results[j] BY <4>2
      <4> QED BY <4>1, <4>2 DEF Gathers
    <3>3. CASE IsRead(v) /\ IsRead(results[k])
      <4>1. v.pages \o results[k].pages \in Seq(U)
        <5>1. v.pages \in Seq(U) /\ results[k].pages \in Seq(U) BY <3>2, <3>3
        <5> QED BY <5>1
      <4> QED BY <3>3, <4>1 DEF Further, OrRefused, Gathers
    <3> QED BY <3>1, <3>3 DEF Further, OrRefused
  <2>6. step \in [S \X V -> V]
    <3> SUFFICES ASSUME NEW p \in S \X V PROVE step[p] \in V OBVIOUS
    <3> QED BY <2>5
  <2> QED BY <2>1, <2>2, <2>3, <2>4, <2>6 DEF Folds
<1>2. PICK f \in [SUBSET S -> V] : FoldsTo(S, base, pick, step, f) BY <1>1, FoldExists
<1>3. GatherStep(results, f)
  <2>0. f[{}] = base BY <1>2 DEF FoldsTo
  <2> SUFFICES ASSUME NEW s \in SUBSET S, s # {}
               PROVE  f[s] = Further(f[s \ {Max(s)}], results[Max(s)])
    BY <2>0 DEF GatherStep
  <2>1. pick[s] = Max(s) /\ pick[s] \in S BY <1>1 DEF Folds
  <2>2. f[s] = step[<<pick[s], f[s \ {pick[s]}]>>] BY <1>2 DEF FoldsTo
  <2>3. f[s \ {pick[s]}] \in V OBVIOUS
  <2>4. step[<<pick[s], f[s \ {pick[s]}]>>] = Further(f[s \ {pick[s]}], results[pick[s]])
    BY <2>1, <2>3
  <2> HIDE DEF pick, step
  <2> QED BY <2>1, <2>2, <2>4
<1> DEFINE G == CHOOSE h : GatherStep(results, h)
<1>4. GatherStep(results, G) BY <1>3
<1>5. FoldLeft(Further, base, results) = G[S]
  BY DEF FoldLeft, MapThenFoldSet, GatherStep
<1> HIDE DEF G
<1>6. G = f BY <1>3, <1>4, GatherOnce
<1> DEFINE g == [k \in 0 .. n |-> f[1 .. k]]
<1>7. \A k \in 0 .. n : 1 .. k \in SUBSET S BY <1>0
<1>8. g \in [0 .. n -> V] BY <1>7
<1>9. g[0] = base
  <2>1. 1 .. 0 = {} OBVIOUS
  <2>2. f[{}] = base BY <1>2 DEF FoldsTo
  <2> QED BY <1>0, <2>1, <2>2
<1>10. g[n] = f[S] BY <1>0
<1>11. ASSUME NEW k \in 1 .. n PROVE g[k] = Further(g[k - 1], results[k])
  <2>1. 1 .. k \in SUBSET S /\ 1 .. k # {} BY <1>0
  <2>2. Max(1 .. k) = k
    <3>1. 1 .. k \subseteq 0 .. n BY <1>0
    <3>2. Max(1 .. k) \in 1 .. k /\ \A y \in 1 .. k : y <= Max(1 .. k) BY <1>0, <2>1, <3>1, Greatest
    <3> QED BY <1>0, <3>2
  <2>3. (1 .. k) \ {k} = 1 .. k - 1 BY <1>0
  <2>4. f[1 .. k] = Further(f[(1 .. k) \ {Max(1 .. k)}], results[Max(1 .. k)])
    BY <1>3, <2>1 DEF GatherStep
  <2>5. f[1 .. k] = Further(f[1 .. k - 1], results[k]) BY <2>2, <2>3, <2>4
  <2>6. k - 1 \in 0 .. n /\ k \in 0 .. n BY <1>0
  <2>7. g[k] = f[1 .. k] /\ g[k - 1] = f[1 .. k - 1] BY <2>6
  <2> QED BY <2>5, <2>7
<1> HIDE DEF g, V, n, base
<1> QED BY <1>5, <1>6, <1>8, <1>9, <1>10, <1>11 DEF V, n, base

\* The results gathered, when none is refused, are those of each, joined.
LEMMA GatheredAll ==
  ASSUME NEW R, NEW results \in Seq(R), NEW U,
         \A k \in DOMAIN results : IsRead(results[k]) => results[k].pages \in Seq(U),
         IsRead(Gathered(results))
  PROVE  /\ \A k \in DOMAIN results : IsRead(results[k])
         /\ Gathered(results) = PagesRead(FlattenSeq([k \in DOMAIN results |-> results[k].pages]))
         /\ Gathered(results).pages \in Seq(U)
         /\ Gathered(results).pages # << >>
<1> DEFINE n == Len(results)
<1>0. n \in Nat /\ DOMAIN results = 1 .. n OBVIOUS
<1>1. PICK g \in [0 .. n -> Gathers(results, U)] :
        /\ g[0] = PagesRead(<< >>)
        /\ \A k \in 1 .. n : g[k] = Further(g[k - 1], results[k])
        /\ FoldLeft(Further, PagesRead(<< >>), results) = g[n]
  BY GatherUnfolds
<1> DEFINE last == g[n]
<1>2. Gathered(results) = last /\ last # PagesRead(<< >>) /\ IsRead(last)
  <2>1. Gathered(results) = NotEmpty(last) BY <1>1 DEF Gathered
  <2>2. ~IsRead(NothingGiven) BY DEF IsRead, NothingGiven
  <2> QED BY <2>1, <2>2 DEF NotEmpty
<1> DEFINE A == {k \in Nat : k <= n => IsRead(g[n - k])}
<1>3. \A k \in 0 .. n : IsRead(g[k])
  <2>1. 0 \in A BY <1>0, <1>2
  <2>2. ASSUME NEW k \in Nat, k \in A PROVE k + 1 \in A
    <3> SUFFICES ASSUME k + 1 <= n PROVE IsRead(g[n - (k + 1)]) OBVIOUS
    <3>1. n - k \in 1 .. n /\ (n - k) - 1 = n - (k + 1) BY <1>0
    <3>2. IsRead(g[n - k]) BY <2>2, <1>0
    <3>3. g[n - k] = Further(g[n - (k + 1)], results[n - k]) BY <1>1, <3>1
    <3> QED BY <3>2, <3>3 DEF Further, OrRefused
  <2>3. Nat \subseteq A
    <3> HIDE DEF A
    <3> QED BY <2>1, <2>2, Naturals
  <2> SUFFICES ASSUME NEW k \in 0 .. n PROVE IsRead(g[k]) OBVIOUS
  <2>4. n - k \in Nat /\ n - k <= n /\ n - (n - k) = k BY <1>0
  <2>5. n - k \in A BY <2>3, <2>4
  <2> QED BY <2>4, <2>5
<1>4. ASSUME NEW k \in 1 .. n
      PROVE  IsRead(results[k]) /\ g[k] = PagesRead(g[k - 1].pages \o results[k].pages)
  <2>1. k - 1 \in 0 .. n /\ k \in 0 .. n BY <1>0
  <2>2. IsRead(g[k]) /\ IsRead(g[k - 1]) BY <1>3, <2>1
  <2>3. g[k] = Further(g[k - 1], results[k]) BY <1>1
  <2> QED BY <2>2, <2>3 DEF Further, OrRefused
<1> DEFINE seqs == [k \in DOMAIN results |-> results[k].pages]
<1>5. seqs \in Seq(Seq(U)) /\ Len(seqs) = n
  <2>1. \A k \in 1 .. n : results[k].pages \in Seq(U) BY <1>0, <1>4
  <2>2. seqs \in [1 .. n -> Seq(U)] BY <1>0, <2>1
  <2> QED BY <1>0, <2>2
<1>6. \A k \in 1 .. n : seqs[k] = results[k].pages BY <1>0
<1> HIDE DEF seqs
<1>7. PICK h \in [0 .. Len(seqs) -> Seq(U)] :
        /\ h[0] = << >> /\ FlattenSeq(seqs) = h[Len(seqs)]
        /\ \A k \in 1 .. Len(seqs) : h[k] = h[k - 1] \o seqs[k]
  BY <1>5, FlattenSteps
<1> DEFINE P == {k \in Nat : k <= n => g[k] = PagesRead(h[k])}
<1>8. 0 \in P BY <1>1, <1>7
<1>9. ASSUME NEW k \in Nat, k \in P PROVE k + 1 \in P
  <2> SUFFICES ASSUME k + 1 <= n PROVE g[k + 1] = PagesRead(h[k + 1]) OBVIOUS
  <2>1. k + 1 \in 1 .. n /\ (k + 1) - 1 = k BY <1>0
  <2>2. g[k + 1] = PagesRead(g[k].pages \o results[k + 1].pages) BY <1>4, <2>1
  <2>3. h[k + 1] = h[k] \o seqs[k + 1] BY <1>5, <1>7, <2>1
  <2>4. g[k].pages = h[k] BY <1>9, <2>1, <1>0 DEF PagesRead
  <2> QED BY <1>6, <2>1, <2>2, <2>3, <2>4
<1>10. Nat \subseteq P
  <2> HIDE DEF P
  <2> QED BY <1>8, <1>9, Naturals
<1>11. g[n] = PagesRead(h[n])
  <2>1. n \in P /\ n <= n
    <3> HIDE DEF P
    <3> QED BY <1>0, <1>10
  <2> QED BY <2>1
<1>12. h[n] \in Seq(U) /\ h[n] = FlattenSeq(seqs) BY <1>0, <1>5, <1>7
<1> HIDE DEF n
<1>13. last.pages = h[n] BY <1>11 DEF PagesRead
<1> QED BY <1>0, <1>2, <1>4, <1>11, <1>12, <1>13 DEF seqs

\* A text trimmed is a text.
LEMMA TrimmedTyped ==
  ASSUME NEW text \in Seq(Int), NEW blanks
  PROVE  Trimmed(text, blanks) \in Seq(Int)
<1> DEFINE kept == {i \in DOMAIN text : text[i] \notin blanks}
<1>0. Len(text) \in Nat /\ DOMAIN text = 1 .. Len(text) OBVIOUS
<1>1. CASE kept = {} BY <1>1 DEF Trimmed
<1>2. CASE kept # {}
  <2>1. kept \subseteq 0 .. Len(text) /\ kept \subseteq Nat BY <1>0
  <2>2. Max(kept) \in kept
    <3> HIDE DEF kept
    <3> QED BY <1>0, <1>2, <2>1, Greatest
  <2>3. Min(kept) \in kept
    <3>1. \E x \in kept : \A y \in kept : x <= y
      <4> HIDE DEF kept
      <4> QED BY <1>2, <2>1, Least
    <3> QED BY <3>1 DEF Min
  <2>4. Min(kept) \in 1 .. Len(text) /\ Max(kept) \in 1 .. Len(text) BY <1>0, <2>2, <2>3
  <2>5. Trimmed(text, blanks) = SubSeq(text, Min(kept), Max(kept)) BY <1>2 DEF Trimmed
  <2> HIDE DEF kept
  <2>6. SubSeq(text, Min(kept), Max(kept)) \in Seq(Int) BY <1>0, <2>4, SubSeqProperties
  <2> QED BY <2>5, <2>6
<1> QED BY <1>1, <1>2

\* The last of the ends before a place.
LEMMA EndIsBefore ==
  ASSUME NEW n \in Nat, NEW ends, ends \subseteq 0 .. n, NEW i \in 1 .. n
  PROVE  EndBefore(ends, i) \in 0 .. i - 1
<1> DEFINE T == {e \in ends \cup {0} : e < i}
<1>1. T \subseteq 0 .. n /\ 0 \in T
  <2>1. 0 \in 0 .. n /\ 0 < i OBVIOUS
  <2> QED BY <2>1
<1>2. Max(T) \in T
  <2> HIDE DEF T
  <2> QED BY <1>1, Greatest
<1>3. EndBefore(ends, i) = Max(T) BY DEF EndBefore
<1> DEFINE last == Max(T)
<1>4. last \in T BY <1>2
<1> HIDE DEF last
<1>5. last \in 0 .. n /\ last < i BY <1>1, <1>4
<1> QED BY <1>3, <1>5 DEF last

\* A list is cut into texts.
LEMMA ListPartsTyped ==
  ASSUME NEW text \in Seq(Int), NEW blanks
  PROVE  ListParts(text, blanks) \in Seq(Seq(Int))
<1> DEFINE n == Len(text)
           ends == {i \in DOMAIN text : text[i] = Comma} \cup {n + 1}
           Piece(i) == Trimmed(SubSeq(text, EndBefore(ends, i) + 1, i - 1), blanks)
           seqs == [i \in 1 .. n + 1 |->
                       IF i \in ends /\ Piece(i) # << >> THEN <<Piece(i)>> ELSE << >>]
<1>0. n \in Nat /\ DOMAIN text = 1 .. n OBVIOUS
<1>1. ASSUME NEW i \in 1 .. n + 1 PROVE Piece(i) \in Seq(Int)
  <2>1. ends \subseteq 0 .. n + 1 BY <1>0
  <2> HIDE DEF ends
  <2>2. EndBefore(ends, i) \in 0 .. i - 1
    <3> DEFINE m == n + 1
    <3>1. m \in Nat /\ i \in 1 .. m /\ ends \subseteq 0 .. m BY <1>0, <2>1
    <3> HIDE DEF m
    <3> QED BY <3>1, EndIsBefore
  <2> DEFINE from == EndBefore(ends, i) + 1
  <2>3. from \in 1 .. n + 1 /\ i - 1 \in 0 .. n BY <1>0, <2>2
  <2> HIDE DEF from
  <2>4. SubSeq(text, from, i - 1) \in Seq(Int) BY <1>0, <2>3, SubSeqProperties
  <2> QED BY <2>4, TrimmedTyped DEF from
<1>2. seqs \in Seq(Seq(Seq(Int)))
  <2> HIDE DEF Piece, ends, n
  <2>1. ASSUME NEW i \in 1 .. n + 1 PROVE seqs[i] \in Seq(Seq(Int))
    <3>1. <<Piece(i)>> \in Seq(Seq(Int)) BY <1>1
    <3>2. << >> \in Seq(Seq(Int)) OBVIOUS
    <3> QED BY <3>1, <3>2
  <2>2. seqs \in [1 .. n + 1 -> Seq(Seq(Int))] BY <2>1
  <2>3. n + 1 \in Nat BY <1>0
  <2> DEFINE m == n + 1
  <2>4. seqs \in [1 .. m -> Seq(Seq(Int))] /\ m \in Nat BY <2>2, <2>3
  <2> HIDE DEF m, seqs
  <2> QED BY <2>4
<1>3. ListParts(text, blanks) = FlattenSeq(seqs) BY DEF ListParts
<1> HIDE DEF seqs
<1> QED BY <1>2, <1>3, FlattenTyped

\* A number that is read is that of a page.
LEMMA NumberRead ==
  ASSUME NEW text, NEW count \in Nat, IsRead(RustNumber(text, count))
  PROVE  \E p \in 0 .. count - 1 : RustNumber(text, count) = PagesRead(<<p>>)
<1> DEFINE typed == Trimmed(text, RustBlanks)
           digits == Unsigned(typed)
           num == NumberOf(digits)
<1>1. /\ ~IsRead(NotANumber(typed)) /\ \A m : ~IsRead(OutOfBounds(m))
  BY DEF IsRead, NotANumber, OutOfBounds
<1>2. RustNumber(text, count) = OfTheDocument(num, count)
  BY <1>1 DEF RustNumber, RustTyped, RustDigits
<1> HIDE DEF num
<1>3. num \in 1 .. count /\ RustNumber(text, count) = PagesRead(<<num - 1>>)
  BY <1>1, <1>2 DEF OfTheDocument
<1> QED BY <1>3

\* Pages counted up, or down, are between the two.
LEMMA UpwardTyped ==
  ASSUME NEW a \in Nat, NEW b \in Nat, a <= b
  PROVE  /\ Upward(a, b) \in Seq(a .. b) /\ Len(Upward(a, b)) = b - a + 1
         /\ Reverse(Upward(a, b)) \in Seq(a .. b)
<1>1. Upward(a, b) \in [1 .. b - a + 1 -> a .. b] BY DEF Upward
<1>2. b - a + 1 \in Nat OBVIOUS
<1>3. Upward(a, b) \in Seq(a .. b) /\ Len(Upward(a, b)) = b - a + 1 BY <1>1, <1>2
<1>4. Reverse(Upward(a, b)) \in [1 .. b - a + 1 -> a .. b]
  <2> DEFINE u == Upward(a, b)
  <2>1. \A i \in 1 .. b - a + 1 : u[(b - a + 1 - i) + 1] \in a .. b BY <1>1, <1>2
  <2> HIDE DEF u
  <2> QED BY <1>3, <2>1 DEF Reverse, u
<1> QED BY <1>2, <1>3, <1>4

\* A part that is read is of pages of the document, and of one at least.
LEMMA PartRead ==
  ASSUME NEW part, NEW count \in Nat, NEW at, IsRead(RustPart(part, count, at))
  PROVE  RustPart(part, count, at).pages \in Seq(0 .. count - 1)
<1>1. CASE at = 0
  <2>1. PICK p \in 0 .. count - 1 : RustPart(part, count, at) = PagesRead(<<p>>)
    BY <1>1, NumberRead DEF RustPart
  <2> QED BY <2>1 DEF PagesRead
<1>2. CASE at # 0
  <2> DEFINE from == RustNumber(LeftOf(part, at), count)
             to == RustNumber(RightOf(part, at), count)
  <2>1. RustPart(part, count, at) = RustRange(from, to) BY <1>2 DEF RustPart
  <2>2. IsRead(from) /\ IsRead(to) BY <2>1 DEF RustRange, OrRefused
  <2>3. PICK a \in 0 .. count - 1 : from = PagesRead(<<a>>) BY <2>2, NumberRead
  <2>4. PICK b \in 0 .. count - 1 : to = PagesRead(<<b>>) BY <2>2, NumberRead
  <2>5. PageOf(from) = a /\ PageOf(to) = b BY <2>3, <2>4 DEF PageOf, PagesRead
  <2> HIDE DEF from, to
  <2>6. RustPart(part, count, at).pages = IF a <= b THEN Upward(a, b) ELSE Reverse(Upward(b, a))
    BY <2>1, <2>2, <2>5 DEF RustRange, OrRefused, PagesRead
  <2>7. CASE a <= b
    <3>1. Upward(a, b) \in Seq(a .. b) BY <2>7, UpwardTyped
    <3>2. a .. b \subseteq 0 .. count - 1 OBVIOUS
    <3>3. Upward(a, b) \in Seq(0 .. count - 1) BY <3>1, <3>2
    <3> QED BY <2>6, <2>7, <3>3
  <2>8. CASE ~(a <= b)
    <3>1. Reverse(Upward(b, a)) \in Seq(b .. a) BY <2>8, UpwardTyped
    <3>2. b .. a \subseteq 0 .. count - 1 OBVIOUS
    <3>3. Reverse(Upward(b, a)) \in Seq(0 .. count - 1) BY <3>1, <3>2
    <3> QED BY <2>6, <2>8, <3>3
  <2> QED BY <2>7, <2>8
<1> QED BY <1>1, <1>2

\* A list that is read is of pages of the document, and of one at least.
LEMMA ListIsOfPages ==
  ASSUME NEW text \in Seq(Int), NEW count \in Nat, IsRead(parse_pages(text, count))
  PROVE  /\ parse_pages(text, count).pages \in Seq(0 .. count - 1)
         /\ parse_pages(text, count).pages # << >>
<1> DEFINE parts == ListParts(text, RustBlanks)
           results == [k \in DOMAIN parts |-> RustPart(parts[k], count, FirstHyphen(parts[k]))]
<1>1. parts \in Seq(Seq(Int)) BY ListPartsTyped
<1>2. parse_pages(text, count) = Gathered(results) BY DEF parse_pages
<1> HIDE DEF parts
<1>3. results \in Seq({results[k] : k \in DOMAIN parts}) BY <1>1, MadeOfEach
<1>4. ASSUME NEW k \in DOMAIN results, IsRead(results[k])
      PROVE  results[k].pages \in Seq(0 .. count - 1)
  BY <1>4, PartRead
<1> HIDE DEF results
<1>5. IsRead(Gathered(results)) BY <1>2
<1> QED BY <1>2, <1>3, <1>4, <1>5, GatheredAll

\* The range of a part goes from the first to the last of its pages.
RangesOf(parts, count) ==
    [k \in DOMAIN parts |-> [first |-> Head(parse_pages(parts[k], count).pages),
                             last |-> Last(parse_pages(parts[k], count).pages) + 1]]
\* The ranges of a list are those of its parts.
LEMMA RangesAreOfParts ==
  ASSUME NEW text \in Seq(Int), NEW count \in Nat, IsRead(parse_ranges(text, count)),
         NEW parts, parts = ListParts(text, RustBlanks)
  PROVE  /\ parts \in Seq(Seq(Int))
         /\ parts # << >>
         /\ \A k \in DOMAIN parts : IsRead(parse_pages(parts[k], count))
         /\ parse_ranges(text, count).pages = RangesOf(parts, count)
<1> DEFINE results == [k \in DOMAIN parts |-> RangeOf(parts[k], parse_pages(parts[k], count))]
           range == [k \in DOMAIN parts |->
                       [first |-> Head(parse_pages(parts[k], count).pages),
                        last |-> Last(parse_pages(parts[k], count).pages) + 1]]
           U == {range[k] : k \in DOMAIN parts}
<1>1. parts \in Seq(Seq(Int)) BY ListPartsTyped
<1>2. parse_ranges(text, count) = Gathered(results) BY DEF parse_ranges
<1>3. results \in Seq({results[k] : k \in DOMAIN parts})
  <2>1. results = [k \in DOMAIN parts |-> results[k]] OBVIOUS
  <2> HIDE DEF results
  <2> QED BY <1>1, <2>1, MadeOfEach
<1>4. ASSUME NEW k \in DOMAIN parts, IsRead(results[k])
      PROVE  IsRead(parse_pages(parts[k], count)) /\ results[k].pages = <<range[k]>>
  <2>1. ~IsRead(Backward(parts[k])) BY DEF IsRead, Backward
  <2> QED BY <1>4, <2>1 DEF RangeOf, PagesRead
<1>5. \A k \in DOMAIN parts : range[k] \in U OBVIOUS
<1>6. range \in Seq(U)
  <2>1. range = [k \in DOMAIN parts |-> range[k]] OBVIOUS
  <2> HIDE DEF range
  <2> QED BY <1>1, <2>1, MadeOfEach
<1>7. DOMAIN results = DOMAIN parts /\ DOMAIN range = DOMAIN parts OBVIOUS
<1> HIDE DEF results, U, range
<1>8. \A k \in DOMAIN results : IsRead(results[k]) => results[k].pages \in Seq(U)
  <2> SUFFICES ASSUME NEW k \in DOMAIN results, IsRead(results[k]) PROVE <<range[k]>> \in Seq(U)
    BY <1>4, <1>7
  <2> QED BY <1>5, <1>7
<1>9. IsRead(Gathered(results)) BY <1>2
<1>10. /\ \A k \in DOMAIN results : IsRead(results[k])
       /\ Gathered(results) = PagesRead(FlattenSeq([k \in DOMAIN results |-> results[k].pages]))
       /\ Gathered(results).pages # << >>
  BY <1>3, <1>8, <1>9, GatheredAll
<1>11. [k \in DOMAIN results |-> results[k].pages] = [k \in DOMAIN range |-> <<range[k]>>]
  BY <1>4, <1>7, <1>10
<1>12. FlattenSeq([k \in DOMAIN range |-> <<range[k]>>]) = range
  <2> DEFINE singles == [k \in DOMAIN range |-> <<range[k]>>]
  <2>1. singles = [k \in DOMAIN range |-> <<range[k]>>] OBVIOUS
  <2> HIDE DEF singles
  <2>2. FlattenSeq(singles) = range BY <1>6, <2>1, FlattenSingles
  <2> QED BY <2>2 DEF singles
<1>13. Gathered(results).pages = range
  <2> DEFINE joined == FlattenSeq([k \in DOMAIN results |-> results[k].pages])
  <2>1. joined = range BY <1>11, <1>12
  <2>2. Gathered(results) = PagesRead(joined) BY <1>10
  <2> HIDE DEF joined
  <2> QED BY <2>1, <2>2 DEF PagesRead
<1>14. parts # << >>
  <2>1. range # << >> BY <1>10, <1>13
  <2> QED BY <1>7, <2>1, <1>6
<1> QED BY <1>1, <1>2, <1>4, <1>7, <1>10, <1>13, <1>14 DEF range, RangesOf

-----------------------------------------------------------------------------
(* What a command makes, of the files it found.                            *)

\* The lesser of two numbers.
LEMMA LeastOfTwo ==
  ASSUME NEW a \in Int, NEW b \in Int
  PROVE  Min({a, b}) = IF a < b THEN a ELSE b
<1> DEFINE m == IF a < b THEN a ELSE b
<1>1. m \in {a, b} /\ \A y \in {a, b} : m <= y OBVIOUS
<1>2. \A x \in {a, b} : (\A y \in {a, b} : x <= y) => x = m OBVIOUS
<1> HIDE DEF m
<1>3. Min({a, b}) = m BY <1>1, <1>2 DEF Min
<1> QED BY <1>3 DEF m

\* The ranges of a cut, within so many pages, are the parts wanted.
CutInto(ranges, n, parts) ==
    /\ \E q \in Nat : DOMAIN ranges = 1 .. q /\ ranges = [k \in 1 .. q |-> ranges[k]]
    /\ \A k \in DOMAIN ranges : ranges[k].first \in 0 .. n - 1 /\ ranges[k].last \in 0 .. n
    /\ {<<ranges[k].first + 1, ranges[k].last>> : k \in DOMAIN ranges} = parts
Shared(n, e) == {<<p, Min({p + e - 1, n})>> : p \in {p \in 1 .. n : (p - 1) % e = 0}}

\* The parts of so many pages are those that start at every so many pages.
LEMMA SharesStart ==
  ASSUME NEW n \in Nat, NEW e \in Nat, e > 0, NEW ranges, ranges = ranges_every(n, e)
  PROVE  CutInto(ranges, n, Shared(n, e))
<1> DEFINE a == n + e - 1
           q == a \div e
           Ends(k) == IF k * e < n THEN k * e ELSE n
<1>1. a \in Nat OBVIOUS
<1>2. q \in Nat /\ a % e \in 0 .. e - 1 /\ a = e * q + (a % e)
  <2> HIDE DEF a
  <2> QED BY <1>1, Divides
<1>3. DOMAIN ranges = 1 .. q /\ ranges = [k \in 1 .. q |-> ranges[k]]
      /\ \A k \in 1 .. q : ranges[k] = [first |-> (k - 1) * e, last |-> Ends(k)]
  BY DEF ranges_every
<1> DEFINE m == a % e
<1> HIDE DEF q, m
<1>4. ASSUME NEW k \in 1 .. q
      PROVE  /\ (k - 1) * e \in 0 .. n - 1 /\ k * e = (k - 1) * e + e
             /\ Ends(k) \in 0 .. n
             /\ Ends(k) = Min({(k - 1) * e + 1 + e - 1, n})
             /\ (((k - 1) * e + 1) - 1) % e = 0
  <2>1. k \in Nat /\ k - 1 \in Nat /\ k <= q BY <1>2
  <2>2. e * k <= e * q BY <1>2, <2>1, TimesGrows
  <2> DEFINE x == (k - 1) * e
  <2>3. x = e * (k - 1) /\ x = e * k - e /\ k * e = e * k /\ x \in Nat BY <2>1
  <2>4. e * q <= a BY <1>2 DEF m
  <2>5. e * k \in Int /\ e * q \in Int BY <1>2, <2>1
  <2> HIDE DEF x
  <2>6. x <= n - 1 BY <2>2, <2>3, <2>4, <2>5
  <2>7. k * e = x + e /\ k * e \in Nat BY <2>3
  <2>8. Ends(k) = IF x + 1 + e - 1 < n THEN x + 1 + e - 1 ELSE n BY <2>3, <2>7
  <2>9. Min({x + 1 + e - 1, n}) = IF x + 1 + e - 1 < n THEN x + 1 + e - 1 ELSE n
    <3>1. x + 1 + e - 1 \in Int BY <2>3
    <3> QED BY <3>1, LeastOfTwo
  <2>10. x % e = 0 BY <2>1, <2>3, TimesLeavesNothing
  <2>11. (x + 1) - 1 = x BY <2>3
  <2>12. Ends(k) \in 0 .. n BY <2>3, <2>8
  <2> QED BY <2>3, <2>6, <2>7, <2>8, <2>9, <2>10, <2>11, <2>12 DEF x
<1>5. ASSUME NEW p \in 1 .. n, (p - 1) % e = 0
      PROVE  \E k \in 1 .. q : p = (k - 1) * e + 1
  <2> DEFINE j == (p - 1) \div e
  <2>1. p - 1 \in Nat OBVIOUS
  <2>2. j \in Nat /\ p - 1 = e * j + ((p - 1) % e) BY <2>1, Divides
  <2> HIDE DEF j
  <2>3. p - 1 = e * j /\ e * j \in Nat BY <1>5, <2>2
  <2>4. e * (j + 1) = e * j + e /\ e * (q + 1) = e * q + e /\ e * q \in Nat BY <1>2, <2>2
  <2>5. e * (j + 1) < e * (q + 1)
    <3>1. e * j + e <= n - 1 + e BY <2>3
    <3>2. a < e * q + e BY <1>2, <2>4 DEF m
    <3> QED BY <2>3, <2>4, <3>1, <3>2
  <2>6. j + 1 < q + 1 BY <1>2, <2>2, <2>5, TimesGrows
  <2>7. j + 1 \in 1 .. q /\ ((j + 1) - 1) * e = e * j BY <1>2, <2>2, <2>6
  <2> DEFINE k == j + 1
  <2>8. k \in 1 .. q /\ p = (k - 1) * e + 1 BY <2>3, <2>7
  <2> HIDE DEF k
  <2> QED BY <2>8
<1>6. ASSUME NEW k \in 1 .. q PROVE ranges[k].first = (k - 1) * e /\ ranges[k].last = Ends(k)
  <2>1. ranges[k] = [first |-> (k - 1) * e, last |-> Ends(k)] BY <1>3
  <2> HIDE DEF Ends
  <2> QED BY <2>1
<1> DEFINE A == {<<ranges[k].first + 1, ranges[k].last>> : k \in 1 .. q}
           P == {p \in 1 .. n : (p - 1) % e = 0}
           B == {<<p, Min({p + e - 1, n})>> : p \in P}
<1>7. ASSUME NEW k \in 1 .. q
      PROVE  /\ (k - 1) * e + 1 \in P
             /\ <<ranges[k].first + 1, ranges[k].last>> =
                   <<(k - 1) * e + 1, Min({((k - 1) * e + 1) + e - 1, n})>>
  <2> DEFINE x == (k - 1) * e
  <2>1. /\ x \in 0 .. n - 1 /\ Ends(k) = Min({x + 1 + e - 1, n}) /\ ((x + 1) - 1) % e = 0
    BY <1>4
  <2>2. ranges[k].first = x /\ ranges[k].last = Ends(k) BY <1>6
  <2> HIDE DEF x, Ends
  <2>3. x + 1 \in P BY <2>1
  <2> QED BY <2>1, <2>2, <2>3 DEF x
<1>8. A \subseteq B
  <2> SUFFICES ASSUME NEW k \in 1 .. q PROVE <<ranges[k].first + 1, ranges[k].last>> \in B OBVIOUS
  <2> DEFINE p == (k - 1) * e + 1
  <2>1. p \in P /\ <<ranges[k].first + 1, ranges[k].last>> = <<p, Min({p + e - 1, n})>> BY <1>7
  <2> HIDE DEF p, P
  <2> QED BY <2>1
<1>9. B \subseteq A
  <2> SUFFICES ASSUME NEW p \in P PROVE <<p, Min({p + e - 1, n})>> \in A OBVIOUS
  <2>1. PICK k \in 1 .. q : p = (k - 1) * e + 1 BY <1>5
  <2>2. <<ranges[k].first + 1, ranges[k].last>> = <<p, Min({p + e - 1, n})>> BY <1>7, <2>1
  <2> HIDE DEF P
  <2> QED BY <2>2
<1>10. \A k \in 1 .. q : ranges[k].first \in 0 .. n - 1 /\ ranges[k].last \in 0 .. n BY <1>4, <1>6
<1>11. A = B BY <1>8, <1>9
<1> HIDE DEF A, B
<1> QED BY <1>2, <1>3, <1>10, <1>11 DEF A, B, CutInto, Shared

-----------------------------------------------------------------------------
(* What a command makes, of the files it found.                            *)

\* The inputs are files of the folder as the command found it.
Found(cmd, files) ==
    /\ files = [i \in DOMAIN cmd.inputs |-> given.files[cmd.inputs[i]]]
    /\ \A i \in DOMAIN cmd.inputs : InputPages(cmd, i) \in Seq(Sheets)

\* What is made: files under the names wanted, each with the pages asked for.
AsAsked(cmd, outs) ==
    /\ outs \in Seq([name : {outs[k].name : k \in DOMAIN outs}, pages : Seq(Sheets)])
    /\ {outs[k].name : k \in DOMAIN outs} = FilesWanted(cmd)
    /\ \A k \in DOMAIN outs : IsResultOf(outs[k].pages, cmd, outs[k].name)

\* Pages taken by their places.
LEMMA TakenTyped ==
  ASSUME NEW pages \in Seq(Sheets), NEW places \in Seq(0 .. Len(pages) - 1),
         NEW taken, taken = [k \in DOMAIN places |-> pages[places[k] + 1]]
  PROVE  taken \in Seq(Sheets) /\ Len(taken) = Len(places)
<1>1. Len(pages) \in Nat /\ DOMAIN pages = 1 .. Len(pages)
      /\ \A p \in 1 .. Len(pages) : pages[p] \in Sheets
  OBVIOUS
<1>2. \A k \in DOMAIN places : places[k] \in 0 .. Len(pages) - 1 OBVIOUS
<1>3. \A k \in DOMAIN places : taken[k] \in Sheets BY <1>1, <1>2
<1>4. Len(places) \in Nat /\ DOMAIN places = 1 .. Len(places) OBVIOUS
<1>5. taken \in [1 .. Len(places) -> Sheets] BY <1>3, <1>4
<1> QED BY <1>4, <1>5

\* All the pages of a file are the file.
LEMMA AllTaken ==
  ASSUME NEW pages \in Seq(Sheets)
  PROVE  PagesTaken(pages, AllOf(pages)) = PagesRead(pages)
<1> DEFINE places == [i \in DOMAIN pages |-> i - 1]
           taken == [k \in DOMAIN places |-> pages[places[k] + 1]]
<1>1. Len(pages) \in Nat /\ DOMAIN pages = 1 .. Len(pages) OBVIOUS
<1>2. \A k \in DOMAIN pages : taken[k] = pages[k] BY <1>1
<1>3. taken = pages BY <1>2
<1> HIDE DEF taken
<1>4. PagesTaken(pages, AllOf(pages)) = PagesRead(taken)
  BY DEF PagesTaken, AllOf, PagesRead, IsRead, taken
<1> QED BY <1>3, <1>4

\* The pages of one input, by the list given for it.
LEMMA ListTaken ==
  ASSUME NEW cmd, NEW i, InputPages(cmd, i) \in Seq(Sheets), cmd.pages[i] \in Seq(Int),
         NEW r, r = parse_pages(cmd.pages[i], Len(InputPages(cmd, i))), IsRead(r),
         NEW taken, taken = [k \in DOMAIN ListRead(cmd, i) |-> InputPages(cmd, i)[ListRead(cmd, i)[k] + 1]]
  PROVE  /\ PagesTaken(InputPages(cmd, i), r) = PagesRead(taken)
         /\ taken \in Seq(Sheets)
         /\ r.pages = ListRead(cmd, i)
<1>1. r.pages = ListRead(cmd, i) BY DEF ListRead
<1>2. Len(InputPages(cmd, i)) \in Nat OBVIOUS
<1>3. ListRead(cmd, i) \in Seq(0 .. Len(InputPages(cmd, i)) - 1)
  BY <1>2, ListIsOfPages DEF ListRead
<1>4. taken \in Seq(Sheets) BY <1>3, TakenTyped
<1>5. PagesTaken(InputPages(cmd, i), r) = PagesRead(taken) BY <1>1 DEF PagesTaken
<1> QED BY <1>1, <1>4, <1>5

\* What a merge takes of an input.
Selected(cmd, docs, i) ==
    PagesTaken(docs[i], IF cmd.pages = << >> THEN AllOf(docs[i])
                        ELSE parse_selection(docs[i], cmd.pages[i]))

\* What is selected of an input is what is taken from it.
LEMMA SelectedIsTaken ==
  ASSUME NEW cmd, cmd.op = "merge", NEW i, InputPages(cmd, i) \in Seq(Sheets),
         cmd.pages # << >> => cmd.pages[i] \in Seq(Int),
         NEW docs, docs[i] = InputPages(cmd, i), IsRead(Selected(cmd, docs, i))
  PROVE  Selected(cmd, docs, i) = PagesRead(TakenFrom(cmd, i)) /\ TakenFrom(cmd, i) \in Seq(Sheets)
<1> DEFINE pages == InputPages(cmd, i)
<1>1. CASE cmd.pages = << >> \/ Trimmed(cmd.pages[i], RustBlanks) = <<AllWord>>
  <2>1. TakenFrom(cmd, i) = pages BY <1>1 DEF TakenFrom
  <2>2. Selected(cmd, docs, i) = PagesTaken(pages, AllOf(pages))
    BY <1>1 DEF Selected, parse_selection
  <2> QED BY <2>1, <2>2, AllTaken
<1>2. CASE ~(cmd.pages = << >> \/ Trimmed(cmd.pages[i], RustBlanks) = <<AllWord>>)
  <2> DEFINE r == parse_pages(cmd.pages[i], Len(pages))
             taken == [k \in DOMAIN ListRead(cmd, i) |-> pages[ListRead(cmd, i)[k] + 1]]
  <2>1. Selected(cmd, docs, i) = PagesTaken(pages, r) BY <1>2 DEF Selected, parse_selection
  <2>2. IsRead(r) BY <2>1 DEF PagesTaken
  <2>3. TakenFrom(cmd, i) = taken BY <1>2 DEF TakenFrom
  <2>4. PagesTaken(pages, r) = PagesRead(taken) /\ taken \in Seq(Sheets)
    <3>1. r = parse_pages(cmd.pages[i], Len(InputPages(cmd, i))) /\ cmd.pages[i] \in Seq(Int)
          /\ taken = [k \in DOMAIN ListRead(cmd, i) |-> InputPages(cmd, i)[ListRead(cmd, i)[k] + 1]]
      BY <1>2
    <3> HIDE DEF r, taken
    <3> QED BY <2>2, <3>1, ListTaken
  <2> QED BY <2>1, <2>3, <2>4
<1> QED BY <1>1, <1>2

\* merge: the pages taken of every input, in the order of the inputs.
LEMMA MergeAsAsked ==
  ASSUME NEW cmd, cmd.op = "merge", NEW files, Found(cmd, files), ~RefusedAtOnce(cmd),
         cmd.inputs \in Seq(FileNames), cmd.pages \in Seq(Seq(Int)),
         NEW docs, docs = [i \in DOMAIN files |-> files[i].pages],
         IsRead(JoinedPages(cmd, docs))
  PROVE  /\ JoinedPages(cmd, docs).pages \in Seq(Sheets)
         /\ JoinedPages(cmd, docs).pages = FlattenSeq([i \in DOMAIN cmd.inputs |-> TakenFrom(cmd, i)])
<1> DEFINE results == [i \in DOMAIN docs |-> Selected(cmd, docs, i)]
           D == DOMAIN cmd.inputs
<1>1. DOMAIN files = D /\ DOMAIN docs = D /\ \A i \in D : docs[i] = InputPages(cmd, i)
  BY DEF Found, InputPages
<1>2. JoinedPages(cmd, docs) = Gathered(results) BY DEF JoinedPages, Selected
<1>3. ASSUME NEW i \in D, IsRead(results[i])
      PROVE  results[i] = PagesRead(TakenFrom(cmd, i)) /\ TakenFrom(cmd, i) \in Seq(Sheets)
  <2>1. results[i] = Selected(cmd, docs, i) BY <1>1
  <2>2. cmd.pages # << >> => cmd.pages[i] \in Seq(Int)
    <3>1. cmd.pages # << >> => Len(cmd.pages) = Len(cmd.inputs) BY DEF RefusedAtOnce
    <3>2. cmd.pages # << >> => i \in 1 .. Len(cmd.pages) BY <3>1
    <3> QED BY <3>2
  <2>3. InputPages(cmd, i) \in Seq(Sheets) /\ docs[i] = InputPages(cmd, i) BY <1>1 DEF Found
  <2>4. IsRead(Selected(cmd, docs, i)) BY <1>3, <2>1
  <2> HIDE DEF results, D
  <2> QED BY <2>1, <2>2, <2>3, <2>4, SelectedIsTaken
<1>4. results \in Seq({results[i] : i \in D}) /\ DOMAIN results = D
  <2>1. results = [i \in DOMAIN cmd.inputs |-> results[i]] BY <1>1
  <2> HIDE DEF results
  <2> QED BY <2>1, MadeOfEach
<1> HIDE DEF results, D
<1>5. \A i \in DOMAIN results : IsRead(results[i]) => results[i].pages \in Seq(Sheets)
  BY <1>3, <1>4 DEF PagesRead
<1>6. IsRead(Gathered(results)) BY <1>2
<1> DEFINE joined == FlattenSeq([i \in DOMAIN results |-> results[i].pages])
<1>7. /\ \A i \in DOMAIN results : IsRead(results[i])
      /\ Gathered(results) = PagesRead(joined)
      /\ Gathered(results).pages \in Seq(Sheets)
  BY <1>4, <1>5, <1>6, GatheredAll
<1>8. [i \in DOMAIN results |-> results[i].pages] = [i \in DOMAIN cmd.inputs |-> TakenFrom(cmd, i)]
  <2>1. \A i \in D : results[i].pages = TakenFrom(cmd, i) BY <1>3, <1>4, <1>7 DEF PagesRead
  <2> QED BY <1>4, <2>1 DEF D
<1>9. joined = FlattenSeq([i \in DOMAIN cmd.inputs |-> TakenFrom(cmd, i)]) BY <1>8
<1> HIDE DEF joined
<1> QED BY <1>2, <1>7, <1>9 DEF PagesRead

\* A list read and taken: each page once.
LEMMA OnceIsListed ==
  ASSUME NEW cmd, NEW pages, pages = InputPages(cmd, 1), IsRead(Listed(cmd, pages))
  PROVE  /\ Listed(cmd, pages) = parse_pages(cmd.pages[1], Len(pages))
         /\ Listed(cmd, pages).pages = ListRead(cmd, 1)
         /\ IsInjective(ListRead(cmd, 1))
<1> DEFINE r == parse_pages(cmd.pages[1], Len(pages))
<1>1. Listed(cmd, pages) = EachSelectedOnce(r) BY DEF Listed
<1>2. r.pages = ListRead(cmd, 1) BY DEF ListRead
<1> HIDE DEF r
<1>3. Listed(cmd, pages) = r /\ IsInjective(r.pages)
  BY <1>1 DEF EachSelectedOnce, IsRead
<1> QED BY <1>2, <1>3 DEF r

\* extract: the pages of the list, each once.
LEMMA ExtractAsAsked ==
  ASSUME NEW cmd, cmd.op = "extract", InputPages(cmd, 1) \in Seq(Sheets), cmd.pages[1] \in Seq(Int),
         cmd.pages # << >>,
         NEW made, made = PagesTaken(InputPages(cmd, 1), Listed(cmd, InputPages(cmd, 1))), IsRead(made)
  PROVE  /\ made.pages \in Seq(Sheets)
         /\ made.pages = TakenFrom(cmd, 1) /\ IsInjective(ListRead(cmd, 1))
<1> DEFINE pages == InputPages(cmd, 1)
           r == parse_pages(cmd.pages[1], Len(pages))
           taken == [k \in DOMAIN ListRead(cmd, 1) |-> pages[ListRead(cmd, 1)[k] + 1]]
<1>1. IsRead(Listed(cmd, pages)) BY DEF PagesTaken
<1>2. Listed(cmd, pages) = r /\ IsInjective(ListRead(cmd, 1)) BY <1>1, OnceIsListed
<1>3. TakenFrom(cmd, 1) = taken BY DEF TakenFrom
<1>4. made = PagesRead(taken) /\ taken \in Seq(Sheets)
  <2>1. r = parse_pages(cmd.pages[1], Len(InputPages(cmd, 1))) /\ IsRead(r)
        /\ taken = [k \in DOMAIN ListRead(cmd, 1) |-> InputPages(cmd, 1)[ListRead(cmd, 1)[k] + 1]]
    BY <1>1, <1>2
  <2>2. made = PagesTaken(pages, r) BY <1>2
  <2> HIDE DEF r, taken
  <2>3. PagesTaken(InputPages(cmd, 1), r) = PagesRead(taken) /\ taken \in Seq(Sheets) BY <2>1, ListTaken
  <2> QED BY <2>2, <2>3
<1> HIDE DEF taken
<1> QED BY <1>2, <1>3, <1>4 DEF PagesRead

\* delete: the pages that are not listed, in their order.
LEMMA DeleteAsAsked ==
  ASSUME NEW cmd, cmd.op = "delete", InputPages(cmd, 1) \in Seq(Sheets),
         NEW made, made = Deleted(InputPages(cmd, 1), Listed(cmd, InputPages(cmd, 1))), IsRead(made)
  PROVE  /\ made.pages \in Seq(Sheets)
         /\ made.pages = FlattenSeq([p \in DOMAIN InputPages(cmd, 1) |->
                             IF IsListed(cmd, p) THEN << >> ELSE <<InputPages(cmd, 1)[p]>>])
<1> DEFINE pages == InputPages(cmd, 1)
           r == Listed(cmd, pages)
           T == 0 .. Len(pages) - 1
           f == [q \in T |-> pages[q + 1]]
           spared == [p \in DOMAIN pages |-> IF p - 1 \in ToSet(r.pages) THEN << >> ELSE <<p - 1>>]
           flat == FlattenSeq(spared)
           taken == [k \in DOMAIN flat |-> pages[flat[k] + 1]]
<1>0. Len(pages) \in Nat /\ DOMAIN pages = 1 .. Len(pages)
      /\ \A p \in 1 .. Len(pages) : pages[p] \in Sheets
  OBVIOUS
<1>1. IsRead(r) BY DEF Deleted
<1>2. r.pages = ListRead(cmd, 1) BY <1>1, OnceIsListed
<1>3. made = PagesRead(taken)
  <2>1. made = NotEmpty(PagesTaken(pages, PagesRead(flat))) BY <1>1 DEF Deleted
  <2>2. PagesTaken(pages, PagesRead(flat)) = PagesRead(taken)
    <3> HIDE DEF flat
    <3> QED BY DEF PagesTaken, PagesRead, IsRead
  <2> HIDE DEF taken
  <2>3. ~IsRead(NothingGiven) BY DEF IsRead, NothingGiven
  <2> QED BY <2>1, <2>2, <2>3 DEF NotEmpty
<1>4. spared \in Seq(Seq(T))
  <2>1. ASSUME NEW p \in 1 .. Len(pages) PROVE spared[p] \in Seq(T)
    <3>1. p - 1 \in T /\ p \in DOMAIN pages BY <1>0
    <3>2. <<p - 1>> \in Seq(T) /\ << >> \in Seq(T) BY <3>1
    <3> HIDE DEF T, r
    <3> QED BY <3>1, <3>2
  <2>2. spared = [p \in DOMAIN pages |-> spared[p]] OBVIOUS
  <2>3. \A p \in DOMAIN pages : spared[p] \in Seq(T) BY <1>0, <2>1
  <2> HIDE DEF T, r, spared
  <2> QED BY <2>2, <2>3, MadeOfEach
<1>5. flat \in Seq(T)
  <2> HIDE DEF spared, T
  <2> QED BY <1>4, FlattenTyped
<1>6. taken \in Seq(Sheets)
  <2> HIDE DEF flat
  <2>1. flat \in Seq(0 .. Len(pages) - 1) BY <1>5
  <2>2. Len(flat) \in Nat /\ DOMAIN flat = 1 .. Len(flat)
        /\ \A k \in 1 .. Len(flat) : flat[k] + 1 \in 1 .. Len(pages)
    BY <1>0, <2>1
  <2>3. \A k \in 1 .. Len(flat) : taken[k] \in Sheets BY <1>0, <2>2
  <2>4. taken \in [1 .. Len(flat) -> Sheets] BY <2>2, <2>3
  <2> QED BY <2>2, <2>4
<1>7. Images(f, flat) = taken
  <2> HIDE DEF flat
  <2>1. \A k \in DOMAIN flat : flat[k] \in T BY <1>5
  <2> QED BY <2>1 DEF Images
<1> DEFINE images == [p \in DOMAIN spared |-> Images(f, spared[p])]
           kept == [p \in DOMAIN pages |-> IF IsListed(cmd, p) THEN << >> ELSE <<pages[p]>>]
<1>8. images = kept
  <2>1. ASSUME NEW p \in DOMAIN pages PROVE images[p] = kept[p]
    <3>1. p - 1 \in T /\ (p - 1) + 1 = p BY <1>0
    <3>2. p - 1 \in ToSet(r.pages) <=> IsListed(cmd, p)
      <4> HIDE DEF r
      <4> QED BY <1>2 DEF IsListed, ToSet
    <3>3. Images(f, << >>) = << >> BY DEF Images
    <3>4. Images(f, <<p - 1>>) = <<pages[p]>>
      <4>1. f[p - 1] = pages[p] BY <3>1
      <4> HIDE DEF f
      <4> QED BY <4>1 DEF Images
    <3>5. images[p] = Images(f, spared[p]) OBVIOUS
    <3>6. spared[p] = IF IsListed(cmd, p) THEN << >> ELSE <<p - 1>> BY <3>2
    <3> HIDE DEF images, spared, f
    <3> QED BY <3>3, <3>4, <3>5, <3>6
  <2> QED BY <2>1
<1>9. FlattenSeq(images) = Images(f, flat)
  <2> HIDE DEF spared, f, T
  <2> QED BY <1>4, FlattenImages
<1>10. taken = FlattenSeq(kept) BY <1>7, <1>8, <1>9
<1> HIDE DEF taken
<1> QED BY <1>3, <1>6, <1>10 DEF PagesRead

\* A turn, taken off again.
LEMMA TurnedBack ==
  ASSUME NEW t \in Int, NEW d \in Int
  PROVE  /\ (((t + d) % 360) - t) % 360 = d % 360
         /\ (t - t) % 360 = 0
         /\ (t + d) % 360 \in Int
  OBVIOUS

\* rotate: the pages listed turned, the others as they were.
LEMMA RotateAsAsked ==
  ASSUME NEW cmd, cmd.op = "rotate", InputPages(cmd, 1) \in Seq(Sheets), cmd.degrees \in Int,
         NEW made, made = Rotated(InputPages(cmd, 1), Listed(cmd, InputPages(cmd, 1)), cmd.degrees),
         IsRead(made)
  PROVE  /\ made.pages \in Seq(Sheets)
         /\ Len(made.pages) = Len(InputPages(cmd, 1))
         /\ \A p \in DOMAIN made.pages :
               /\ made.pages[p].id = InputPages(cmd, 1)[p].id
               /\ (made.pages[p].turn - InputPages(cmd, 1)[p].turn) % 360 =
                     IF IsListed(cmd, p) THEN cmd.degrees % 360 ELSE 0
<1> DEFINE pages == InputPages(cmd, 1)
           r == Listed(cmd, pages)
           turned == [i \in DOMAIN pages |->
                         IF i - 1 \in ToSet(r.pages)
                         THEN Sheet(pages[i].id, (pages[i].turn + cmd.degrees) % 360) ELSE pages[i]]
<1>0. Len(pages) \in Nat /\ DOMAIN pages = 1 .. Len(pages)
      /\ \A p \in 1 .. Len(pages) : pages[p] \in Sheets
  OBVIOUS
<1>1. IsRead(r) BY DEF Rotated
<1>2. r.pages = ListRead(cmd, 1) BY <1>1, OnceIsListed
<1>3. made = PagesRead(turned) BY <1>1 DEF Rotated
<1>4. ASSUME NEW p \in DOMAIN pages
      PROVE  /\ turned[p] \in Sheets
             /\ turned[p].id = pages[p].id
             /\ (turned[p].turn - pages[p].turn) % 360 =
                   IF IsListed(cmd, p) THEN cmd.degrees % 360 ELSE 0
  <2>1. p - 1 \in ToSet(r.pages) <=> IsListed(cmd, p)
    <3> HIDE DEF r
    <3> QED BY <1>2 DEF IsListed, ToSet
  <2>2. pages[p].id \in Nat /\ pages[p].turn \in Int /\ pages[p] \in Sheets BY <1>0 DEF Sheets
  <2>3. turned[p] = IF IsListed(cmd, p) THEN Sheet(pages[p].id, (pages[p].turn + cmd.degrees) % 360)
                    ELSE pages[p]
    BY <2>1
  <2> DEFINE t == pages[p].turn
             u == (t + cmd.degrees) % 360
  <2>4. u \in Int /\ (u - t) % 360 = cmd.degrees % 360 /\ (t - t) % 360 = 0
    <3> HIDE DEF t
    <3> QED BY <2>2, TurnedBack DEF t
  <2> HIDE DEF u, turned, pages
  <2>5. CASE IsListed(cmd, p)
    <3>1. turned[p] = Sheet(pages[p].id, u) BY <2>3, <2>5 DEF u
    <3>2. turned[p] \in Sheets BY <2>2, <2>4, <3>1 DEF Sheet, Sheets
    <3>3. turned[p].id = pages[p].id /\ turned[p].turn = u BY <3>1 DEF Sheet
    <3> QED BY <2>4, <2>5, <3>2, <3>3
  <2>6. CASE ~IsListed(cmd, p) BY <2>2, <2>3, <2>4, <2>6
  <2> QED BY <2>5, <2>6
<1>5. turned \in Seq(Sheets) /\ Len(turned) = Len(pages) /\ DOMAIN turned = DOMAIN pages
  <2>1. turned = [p \in DOMAIN pages |-> turned[p]] OBVIOUS
  <2> HIDE DEF turned
  <2> QED BY <1>4, <2>1, MadeOfEach
<1>6. made.pages = turned BY <1>3 DEF PagesRead
<1> HIDE DEF turned
<1> QED BY <1>4, <1>5, <1>6

\* What writes one file writes it under the name of the output.
LEMMA OneFileAsAsked ==
  ASSUME NEW cmd, cmd.op # "split", cmd.output \in Seq(FileNames), Len(cmd.output) = 1,
         NEW r, IsRead(r), r.pages \in Seq(Sheets), IsResultOf(r.pages, cmd, cmd.output[1])
  PROVE  AsAsked(cmd, OneFile(cmd, r))
<1> DEFINE out == [name |-> cmd.output[1], pages |-> r.pages]
<1>1. OneFile(cmd, r) = <<out>> BY DEF OneFile
<1>2. FilesWanted(cmd) = {cmd.output[1]}
  <2>1. DOMAIN cmd.output = {1} OBVIOUS
  <2> QED BY <2>1 DEF FilesWanted, ToSet
<1>3. out.name = cmd.output[1] /\ out.pages = r.pages OBVIOUS
<1>4. out \in [name : {cmd.output[1]}, pages : Seq(Sheets)] OBVIOUS
<1> HIDE DEF out
<1>5. DOMAIN <<out>> = {1} /\ <<out>>[1] = out OBVIOUS
<1>6. {<<out>>[k].name : k \in DOMAIN <<out>>} = {cmd.output[1]} BY <1>3, <1>5
<1>7. <<out>> \in Seq([name : {cmd.output[1]}, pages : Seq(Sheets)]) BY <1>4
<1>8. \A k \in DOMAIN <<out>> : IsResultOf(<<out>>[k].pages, cmd, <<out>>[k].name) BY <1>3, <1>5
<1> QED BY <1>1, <1>2, <1>6, <1>7, <1>8 DEF AsAsked

\* The ranges of a cut are the parts wanted.
LEMMA RangesAreWanted ==
  ASSUME NEW cmd, cmd.every \in Seq(Nat), cmd.ranges \in Seq(Seq(Int)), NEW n \in Nat,
         NEW r, r = SplitRanges(cmd, n), IsRead(r)
  PROVE  CutInto(r.pages, n, PartsWanted(cmd, n))
<1>0. ~IsRead(NothingGiven) BY DEF IsRead, NothingGiven
<1>1. CASE cmd.every # << >>
  <2> DEFINE e == cmd.every[1]
  <2>1. e \in Nat BY <1>1
  <2>2. e > 0 /\ r = PagesRead(ranges_every(n, e)) BY <1>0, <1>1, <2>1 DEF SplitRanges
  <2>3. PartsWanted(cmd, n) = Shared(n, e) BY <1>1 DEF PartsWanted, Shared
  <2>4. r.pages = ranges_every(n, e) BY <2>2 DEF PagesRead
  <2> DEFINE ranges == r.pages
  <2> HIDE DEF e
  <2>5. CutInto(ranges, n, Shared(n, e))
    <3> HIDE DEF ranges
    <3>1. ranges = ranges_every(n, e) BY <2>4 DEF ranges
    <3>2. e > 0 /\ n \in Nat BY <2>2
    <3> QED BY <2>1, <3>1, <3>2, SharesStart
  <2> QED BY <2>3, <2>5
<1>2. CASE cmd.every = << >>
  <2> DEFINE text == cmd.ranges[1]
             parts == ListParts(text, RustBlanks)
             Pages(k) == parse_pages(parts[k], n).pages
             ranges == [k \in DOMAIN parts |-> [first |-> Head(Pages(k)), last |-> Last(Pages(k)) + 1]]
  <2>1. cmd.ranges # << >> /\ r = parse_ranges(text, n) BY <1>0, <1>2 DEF SplitRanges
  <2>2. text \in Seq(Int) BY <2>1
  <2>3. /\ parts \in Seq(Seq(Int))
        /\ \A k \in DOMAIN parts : IsRead(parse_pages(parts[k], n))
        /\ r.pages = RangesOf(parts, n)
    <3>1. parts = ListParts(text, RustBlanks) /\ IsRead(parse_ranges(text, n)) BY <2>1
    <3> HIDE DEF parts, text
    <3>2. r = parse_ranges(text, n) BY <2>1
    <3> QED BY <2>2, <3>1, <3>2, RangesAreOfParts
  <2>4. ASSUME NEW k \in DOMAIN parts
        PROVE  Head(Pages(k)) \in 0 .. n - 1 /\ Last(Pages(k)) \in 0 .. n - 1
    <3>1. parts[k] \in Seq(Int) BY <2>3
    <3>2. Pages(k) \in Seq(0 .. n - 1) /\ Pages(k) # << >> BY <2>3, <3>1, ListIsOfPages
    <3> HIDE DEF Pages
    <3>3. Len(Pages(k)) \in 1 .. Len(Pages(k)) /\ 1 \in 1 .. Len(Pages(k)) BY <3>2
    <3>4. Head(Pages(k)) = Pages(k)[1] /\ Last(Pages(k)) = Pages(k)[Len(Pages(k))] BY DEF Last
    <3> QED BY <3>2, <3>3, <3>4
  <2>5. /\ DOMAIN ranges = DOMAIN parts
        /\ \A k \in DOMAIN parts : ranges[k].first = Head(Pages(k)) /\ ranges[k].last = Last(Pages(k)) + 1
    OBVIOUS
  <2>6. PartsWanted(cmd, n) = {<<Head(Pages(k)) + 1, Last(Pages(k)) + 1>> : k \in DOMAIN parts}
    <3>1. PartsWanted(cmd, n) = {<<Head(parse_pages(part, n).pages) + 1,
                                    Last(parse_pages(part, n).pages) + 1>> : part \in ToSet(parts)}
      BY <1>2 DEF PartsWanted
    <3> HIDE DEF parts
    <3> QED BY <3>1 DEF ToSet
  <2> HIDE DEF ranges, Pages
  <2>7. {<<ranges[k].first + 1, ranges[k].last>> : k \in DOMAIN ranges} = PartsWanted(cmd, n)
    BY <2>5, <2>6
  <2>8. \A k \in DOMAIN ranges : ranges[k].first \in 0 .. n - 1 /\ ranges[k].last \in 0 .. n
    BY <2>4, <2>5
  <2>9. \E q \in Nat : DOMAIN ranges = 1 .. q /\ ranges = [k \in 1 .. q |-> ranges[k]]
    <3> HIDE DEF parts
    <3>1. Len(parts) \in Nat /\ DOMAIN parts = 1 .. Len(parts) BY <2>3
    <3>2. ranges = [k \in DOMAIN parts |-> ranges[k]] BY DEF ranges
    <3> QED BY <2>5, <3>1, <3>2
  <2>10. r.pages = ranges BY <2>3 DEF RangesOf, ranges, Pages
  <2> QED BY <2>7, <2>8, <2>9, <2>10 DEF CutInto
<1> QED BY <1>1, <1>2

\* split: a file for each part, named after it and holding its pages.
LEMMA SplitAsAsked ==
  ASSUME NEW cmd, cmd.op = "split", InputPages(cmd, 1) \in Seq(Sheets),
         cmd.every \in Seq(Nat), cmd.ranges \in Seq(Seq(Int)),
         PartsMade(cmd, InputPages(cmd, 1)) # << >>
  PROVE  AsAsked(cmd, PartsMade(cmd, InputPages(cmd, 1)))
<1> DEFINE pages == InputPages(cmd, 1)
           n == Len(pages)
           r == SplitRanges(cmd, n)
           Name(k) == PartPath(cmd.dir, cmd.inputs[1], r.pages[k])
           outs == [k \in DOMAIN r.pages |->
                       [name |-> Name(k),
                        pages |-> SubSeq(pages, r.pages[k].first + 1, r.pages[k].last)]]
<1>0. n \in Nat /\ DOMAIN pages = 1 .. n /\ \A p \in 1 .. n : pages[p] \in Sheets OBVIOUS
<1>1. IsRead(r) /\ PartsMade(cmd, pages) = outs BY DEF PartsMade
<1>a. CutInto(r.pages, n, PartsWanted(cmd, n))
  <2> DEFINE rr == r
             nn == n
  <2>1. rr = SplitRanges(cmd, nn) /\ IsRead(rr) /\ nn \in Nat BY <1>0, <1>1
  <2> HIDE DEF rr, nn
  <2>2. CutInto(rr.pages, nn, PartsWanted(cmd, nn)) BY <2>1, RangesAreWanted
  <2> QED BY <2>2 DEF rr, nn
<1>2. /\ \E q \in Nat : DOMAIN r.pages = 1 .. q /\ r.pages = [k \in 1 .. q |-> r.pages[k]]
      /\ \A k \in DOMAIN r.pages : r.pages[k].first \in 0 .. n - 1 /\ r.pages[k].last \in 0 .. n
      /\ {<<r.pages[k].first + 1, r.pages[k].last>> : k \in DOMAIN r.pages} = PartsWanted(cmd, n)
  <2> HIDE DEF r, n
  <2> QED BY <1>a DEF CutInto
<1> HIDE DEF r
<1>3. ASSUME NEW k \in DOMAIN r.pages
      PROVE  /\ outs[k].name = Name(k)
             /\ outs[k].pages = SubSeq(pages, r.pages[k].first + 1, r.pages[k].last)
             /\ outs[k].pages \in Seq(Sheets)
             /\ outs[k] = [name |-> outs[k].name, pages |-> outs[k].pages]
  <2> DEFINE part == SubSeq(pages, r.pages[k].first + 1, r.pages[k].last)
  <2>1. outs[k] = [name |-> Name(k), pages |-> part] OBVIOUS
  <2>2. r.pages[k].first + 1 \in 1 .. n /\ r.pages[k].last \in 0 .. n BY <1>0, <1>2
  <2>3. \A i \in r.pages[k].first + 1 .. r.pages[k].last : pages[i] \in Sheets BY <1>0, <2>2
  <2>4. part \in Seq(Sheets)
    <3> DEFINE from == r.pages[k].first + 1
               to == r.pages[k].last
    <3>1. from \in Int /\ to \in Int /\ \A i \in from .. to : pages[i] \in Sheets BY <1>0, <2>2, <2>3
    <3> HIDE DEF from, to, pages
    <3>2. SubSeq(pages, from, to) \in Seq(Sheets) BY <3>1, SubSeqProperties
    <3> QED BY <3>2 DEF from, to
  <2> HIDE DEF part, Name, outs
  <2>5. outs[k].name = Name(k) /\ outs[k].pages = part BY <2>1
  <2> QED BY <2>1, <2>4, <2>5 DEF part
<1>4. DOMAIN outs = DOMAIN r.pages /\ outs = [k \in DOMAIN r.pages |-> outs[k]] OBVIOUS
<1> HIDE DEF outs
<1> DEFINE names == {outs[k].name : k \in DOMAIN outs}
<1>5. outs \in Seq([name : names, pages : Seq(Sheets)])
  <2>1. PICK q \in Nat : DOMAIN r.pages = 1 .. q BY <1>2
  <2>2. \A k \in DOMAIN outs : outs[k].name \in names OBVIOUS
  <2> HIDE DEF names
  <2>3. \A k \in 1 .. q : outs[k] \in [name : names, pages : Seq(Sheets)] BY <1>3, <1>4, <2>1, <2>2
  <2> DEFINE R == [name : names, pages : Seq(Sheets)]
  <2>4. \A k \in 1 .. q : outs[k] \in R BY <2>3
  <2>5. outs = [k \in 1 .. q |-> outs[k]] BY <1>4, <2>1
  <2> HIDE DEF R
  <2>6. outs \in [1 .. q -> R] BY <2>4, <2>5
  <2>7. outs \in Seq(R) BY <2>6
  <2> QED BY <2>7, Zenon DEF R
<1>6. names = FilesWanted(cmd)
  <2> DEFINE Naming(part) ==
        [dir |-> cmd.dir, stem |-> cmd.inputs[1].stem, first |-> part[1], last |-> part[2]]
  <2>1. FilesWanted(cmd) = {Naming(part) : part \in PartsWanted(cmd, n)} BY DEF FilesWanted
  <2>2. \A k \in DOMAIN r.pages : outs[k].name = Naming(<<r.pages[k].first + 1, r.pages[k].last>>)
    BY <1>3 DEF PartPath
  <2>3. FilesWanted(cmd) =
          {Naming(<<r.pages[k].first + 1, r.pages[k].last>>) : k \in DOMAIN r.pages}
    <3> DEFINE Parts == {<<r.pages[k].first + 1, r.pages[k].last>> : k \in DOMAIN r.pages}
    <3>1. FilesWanted(cmd) = {Naming(part) : part \in Parts} BY <1>2, <2>1
    <3> HIDE DEF Naming
    <3> QED BY <3>1
  <2> HIDE DEF Naming
  <2> QED BY <1>4, <2>2, <2>3
<1>7. ASSUME NEW k \in DOMAIN outs PROVE IsResultOf(outs[k].pages, cmd, outs[k].name)
  <2>1. outs[k].name = Name(k) /\ outs[k].pages = SubSeq(pages, r.pages[k].first + 1, r.pages[k].last)
    BY <1>3, <1>4
  <2>2. outs[k].name.first = r.pages[k].first + 1 /\ outs[k].name.last = r.pages[k].last
    BY <2>1 DEF PartPath
  <2>3. outs[k].pages = SubSeq(InputPages(cmd, 1), outs[k].name.first, outs[k].name.last)
    BY <2>1, <2>2
  <2> HIDE DEF pages
  <2> QED BY <2>3 DEF IsResultOf, OfOneList
<1> HIDE DEF names, pages
<1> QED BY <1>1, <1>5, <1>6, <1>7 DEF AsAsked, names, pages

\* run takes every input whole.
LEMMA TakenWhole ==
  ASSUME NEW cmd, cmd.op = "run", NEW i
  PROVE  TakenFrom(cmd, i) = InputPages(cmd, i)
BY DEF TakenFrom

\* What a chain of merges takes: every input whole.
LEMMA RunAsAsked ==
  ASSUME NEW cmd, cmd.op = "run", NEW files, Found(cmd, files), cmd.inputs \in Seq(FileNames),
         IsRead(ChainResult(files))
  PROVE  /\ ChainResult(files).pages \in Seq(Sheets)
         /\ ChainResult(files).pages = FlattenSeq([i \in DOMAIN cmd.inputs |-> TakenFrom(cmd, i)])
<1> DEFINE docs == [i \in DOMAIN files |-> files[i].pages]
           taken == [i \in DOMAIN cmd.inputs |-> TakenFrom(cmd, i)]
<1>1. ~IsRead(NothingGiven) BY DEF IsRead, NothingGiven
<1>2. ChainResult(files) = PagesRead(FlattenSeq(docs)) BY <1>1 DEF ChainResult
<1>3. DOMAIN files = DOMAIN cmd.inputs
      /\ \A i \in DOMAIN cmd.inputs : files[i].pages = InputPages(cmd, i) /\ InputPages(cmd, i) \in Seq(Sheets)
  BY DEF Found, InputPages
<1>4. docs = taken
  <2>1. \A i \in DOMAIN cmd.inputs : docs[i] = taken[i] BY <1>3, TakenWhole
  <2> QED BY <1>3, <2>1
<1>5. taken \in Seq(Seq(Sheets))
  <2>1. taken = [i \in DOMAIN cmd.inputs |-> taken[i]] OBVIOUS
  <2>2. \A i \in DOMAIN cmd.inputs : taken[i] \in Seq(Sheets) BY <1>3, TakenWhole
  <2> HIDE DEF taken
  <2> QED BY <2>1, <2>2, MadeOfEach
<1> HIDE DEF docs, taken
<1>6. FlattenSeq(taken) \in Seq(Sheets) BY <1>5, FlattenTyped
<1>7. ChainResult(files).pages = FlattenSeq(taken) BY <1>2, <1>4 DEF PagesRead
<1> QED BY <1>6, <1>7 DEF taken

\* What the arguments of a command are.
ArgumentsStand(cmd) ==
    /\ cmd.op \in {"info", "modules", "rewrite", "merge", "run", "split"} \cup OfOneList
    /\ cmd.inputs \in Seq(FileNames) /\ cmd.output \in Seq(FileNames)
    /\ Len(cmd.output) = IF OnlyPrints(cmd) \/ cmd.op = "split" THEN 0 ELSE 1
    /\ cmd.op \in {"rewrite", "split"} \cup OfOneList => Len(cmd.inputs) = 1
    /\ cmd.op \in {"merge"} \cup OfOneList => cmd.pages \in Seq(Seq(Int))
    /\ cmd.op \in OfOneList => Len(cmd.pages) = 1
    /\ cmd.op = "rotate" => cmd.degrees \in Int
    /\ cmd.op = "split" => cmd.every \in Seq(Nat) /\ cmd.ranges \in Seq(Seq(Int))

\* The commands have such arguments.
LEMMA CommandsStand == \A cmd \in CliCommands : ArgumentsStand(cmd)
BY CommandAssumption DEF ArgumentsStand

\* Whatever a command has made of the files it found (merge_selected, extract,
\* delete, rotate, rewrite, the chain of a module, the parts of a split) is,
\* name by name and page by page, what was asked of it.
THEOREM MadeAsAsked ==
  ASSUME NEW cmd \in CliCommands, ~OnlyPrints(cmd), ~RefusedAtOnce(cmd),
         NEW files, Found(cmd, files), Made(cmd, files) # << >>
  PROVE  AsAsked(cmd, Made(cmd, files))
<1> DEFINE docs == [i \in DOMAIN files |-> files[i].pages]
<1>1. ArgumentsStand(cmd) BY CommandsStand
<1>2. /\ cmd.op \in {"rewrite", "merge", "run", "split", "extract", "delete", "rotate"}
      /\ cmd.inputs \in Seq(FileNames)
      /\ cmd.output \in Seq(FileNames)
  BY <1>1 DEF ArgumentsStand, OnlyPrints, OfOneList
<1>3. cmd.op # "split" => Len(cmd.output) = 1 BY <1>1 DEF ArgumentsStand, OnlyPrints
<1>4. \A r : OneFile(cmd, r) # << >> => IsRead(r) BY DEF OneFile
<1>5. \A r : /\ cmd.op # "split" /\ IsRead(r) /\ r.pages \in Seq(Sheets)
             /\ IsResultOf(r.pages, cmd, cmd.output[1])
             => AsAsked(cmd, OneFile(cmd, r))
  BY <1>2, <1>3, OneFileAsAsked
<1>6. ASSUME cmd.op \in {"rewrite", "split", "extract", "delete", "rotate"}
      PROVE  docs[1] = InputPages(cmd, 1) /\ InputPages(cmd, 1) \in Seq(Sheets)
  <2>1. 1 \in DOMAIN cmd.inputs BY <1>1, <1>2, <1>6 DEF ArgumentsStand, OfOneList
  <2> QED BY <2>1 DEF Found, InputPages
<1>7. ASSUME cmd.op \in {"extract", "delete", "rotate"}
      PROVE  cmd.pages # << >> /\ cmd.pages[1] \in Seq(Int)
  <2>1. cmd.pages \in Seq(Seq(Int)) /\ Len(cmd.pages) = 1
    BY <1>1, <1>7 DEF ArgumentsStand, OfOneList
  <2> QED BY <2>1
<1> HIDE DEF docs
<1>8. CASE cmd.op = "merge"
  <2> DEFINE r == JoinedPages(cmd, docs)
  <2>1. Made(cmd, files) = OneFile(cmd, r) BY <1>8 DEF Made, docs
  <2>2. IsRead(r) BY <1>4, <2>1
  <2>3. cmd.pages \in Seq(Seq(Int)) BY <1>1, <1>8 DEF ArgumentsStand
  <2>4. /\ r.pages \in Seq(Sheets)
        /\ r.pages = FlattenSeq([i \in DOMAIN cmd.inputs |-> TakenFrom(cmd, i)])
    <3>1. docs = [i \in DOMAIN files |-> files[i].pages] BY DEF docs
    <3> QED BY <1>2, <1>8, <2>2, <2>3, <3>1, MergeAsAsked
  <2> HIDE DEF r
  <2>5. IsResultOf(r.pages, cmd, cmd.output[1]) BY <1>8, <2>4 DEF IsResultOf
  <2> QED BY <1>5, <1>8, <2>1, <2>2, <2>4, <2>5
<1>9. CASE cmd.op = "run"
  <2> DEFINE r == ChainResult(files)
  <2>1. Made(cmd, files) = OneFile(cmd, r) BY <1>9 DEF Made
  <2>2. IsRead(r) BY <1>4, <2>1
  <2>3. /\ r.pages \in Seq(Sheets)
        /\ r.pages = FlattenSeq([i \in DOMAIN cmd.inputs |-> TakenFrom(cmd, i)])
    BY <1>2, <1>9, <2>2, RunAsAsked
  <2> HIDE DEF r
  <2>4. IsResultOf(r.pages, cmd, cmd.output[1]) BY <1>9, <2>3 DEF IsResultOf
  <2> QED BY <1>5, <1>9, <2>1, <2>2, <2>3, <2>4
<1>10. CASE cmd.op = "extract"
  <2> DEFINE r == PagesTaken(InputPages(cmd, 1), Listed(cmd, InputPages(cmd, 1)))
  <2>1. Made(cmd, files) = OneFile(cmd, r) BY <1>6, <1>10 DEF Made, docs
  <2>2. IsRead(r) BY <1>4, <2>1
  <2>3. /\ r.pages \in Seq(Sheets)
        /\ r.pages = TakenFrom(cmd, 1) /\ IsInjective(ListRead(cmd, 1))
    BY <1>6, <1>7, <1>10, <2>2, ExtractAsAsked
  <2> HIDE DEF r
  <2>4. IsResultOf(r.pages, cmd, cmd.output[1]) BY <1>10, <2>3 DEF IsResultOf
  <2> QED BY <1>5, <1>10, <2>1, <2>2, <2>3, <2>4
<1>11. CASE cmd.op = "delete"
  <2> DEFINE r == Deleted(InputPages(cmd, 1), Listed(cmd, InputPages(cmd, 1)))
  <2>1. Made(cmd, files) = OneFile(cmd, r) BY <1>6, <1>11 DEF Made, docs
  <2>2. IsRead(r) BY <1>4, <2>1
  <2>3. /\ r.pages \in Seq(Sheets)
        /\ r.pages = FlattenSeq([p \in DOMAIN InputPages(cmd, 1) |->
                             IF IsListed(cmd, p) THEN << >> ELSE <<InputPages(cmd, 1)[p]>>])
    BY <1>6, <1>11, <2>2, DeleteAsAsked
  <2> HIDE DEF r
  <2>4. IsResultOf(r.pages, cmd, cmd.output[1]) BY <1>11, <2>3 DEF IsResultOf
  <2> QED BY <1>5, <1>11, <2>1, <2>2, <2>3, <2>4
<1>12. CASE cmd.op = "rotate"
  <2> DEFINE r == Rotated(InputPages(cmd, 1), Listed(cmd, InputPages(cmd, 1)), cmd.degrees)
  <2>1. Made(cmd, files) = OneFile(cmd, r) BY <1>6, <1>12 DEF Made, docs
  <2>2. IsRead(r) BY <1>4, <2>1
  <2>3. cmd.degrees \in Int BY <1>1, <1>12 DEF ArgumentsStand
  <2>4. /\ r.pages \in Seq(Sheets)
        /\ Len(r.pages) = Len(InputPages(cmd, 1))
        /\ \A p \in DOMAIN r.pages :
              /\ r.pages[p].id = InputPages(cmd, 1)[p].id
              /\ (r.pages[p].turn - InputPages(cmd, 1)[p].turn) % 360 =
                    IF IsListed(cmd, p) THEN cmd.degrees % 360 ELSE 0
    BY <1>6, <1>12, <2>2, <2>3, RotateAsAsked
  <2> HIDE DEF r
  <2>5. IsResultOf(r.pages, cmd, cmd.output[1]) BY <1>12, <2>4 DEF IsResultOf
  <2> QED BY <1>5, <1>12, <2>1, <2>2, <2>4, <2>5
<1>13. CASE cmd.op = "rewrite"
  <2> DEFINE r == PagesRead(InputPages(cmd, 1))
  <2>1. Made(cmd, files) = OneFile(cmd, r) BY <1>6, <1>13 DEF Made, docs
  <2>2. IsRead(r) /\ r.pages = InputPages(cmd, 1) BY DEF PagesRead, IsRead
  <2>3. r.pages \in Seq(Sheets) BY <1>6, <1>13, <2>2
  <2> HIDE DEF r
  <2>4. IsResultOf(r.pages, cmd, cmd.output[1]) BY <1>13, <2>2 DEF IsResultOf
  <2> QED BY <1>5, <1>13, <2>1, <2>2, <2>3, <2>4
<1>14. CASE cmd.op = "split"
  <2>1. Made(cmd, files) = PartsMade(cmd, InputPages(cmd, 1)) BY <1>6, <1>14 DEF Made, docs
  <2>2. cmd.every \in Seq(Nat) /\ cmd.ranges \in Seq(Seq(Int)) BY <1>1, <1>14 DEF ArgumentsStand
  <2> QED BY <1>6, <1>14, <2>1, <2>2, SplitAsAsked
<1> QED BY <1>2, <1>8, <1>9, <1>10, <1>11, <1>12, <1>13, <1>14

-----------------------------------------------------------------------------
(* What stands after every step.                                           *)

Stages == {"reading", "writing", "filling", "ended"}
Codes  == {"none", "ok", "refused", "failed", "killed"}
LineTyped ==
    line \in [cmd : CliCommands, stage : Stages, code : Codes, files : {line.files}, opened : Nat,
              told : {line.told}, outs : {line.outs}, done : Nat]
PagesTyped(files) == \A name \in DOMAIN files : files[name].pages \in Seq(Sheets)

\* What was read is what the folder held when the command was given.
InputsStand ==
    /\ line.files \in Seq({given.files[name] : name \in DOMAIN given.files})
    /\ Len(line.files) <= Len(line.cmd.inputs)
    /\ \A i \in DOMAIN line.files :
          /\ line.cmd.inputs[i] \in DOMAIN given.files
          /\ line.files[i] = given.files[line.cmd.inputs[i]]
    /\ line.opened <= Len(line.cmd.inputs)
    /\ line.opened > 0 => Len(line.files) = Len(line.cmd.inputs)
    /\ \A i \in 1 .. line.opened :
          Notes(line.cmd.inputs[i], given.files[line.cmd.inputs[i]]) \subseteq line.told

\* A command that has made something has opened all its inputs, and has made
\* what was asked.
WorkStands ==
    /\ line.outs = << >> => line.done = 0 /\ shelf = given.files
    /\ line.outs # << >> =>
          /\ line.opened = Len(line.cmd.inputs) /\ ~OnlyPrints(line.cmd)
          /\ AsAsked(line.cmd, line.outs)
    /\ line.done <= Len(line.outs)

\* The stages, and the codes they end with.
StageStands ==
    /\ line.stage # "ended" => line.code = "none" /\ ~RefusedAtOnce(line.cmd)
    /\ line.stage = "reading" => line.outs = << >>
    /\ line.stage \in {"writing", "filling"} => line.done < Len(line.outs)
    /\ line.code = "refused" => line.outs = << >>
    /\ line.code = "ok" => line.done = Len(line.outs) /\ (line.outs = << >> => OnlyPrints(line.cmd))

Written == {line.outs[k].name : k \in 1 .. line.done}
Filling == IF line.done < Len(line.outs) THEN {line.outs[line.done + 1].name} ELSE {}
FolderStands ==
    /\ DOMAIN given.files \subseteq DOMAIN shelf
    /\ \A name \in DOMAIN shelf \ (Written \cup Filling) :
          name \in DOMAIN given.files /\ shelf[name] = given.files[name]
    /\ Written \subseteq DOMAIN shelf
    /\ \A name \in Written \ Filling : \E k \in 1 .. line.done :
          line.outs[k].name = name /\ shelf[name] = ShelfFile(line.outs[k].pages)

CliInv ==
    /\ PagesTyped(shelf) /\ PagesTyped(given.files)
    /\ \/ line = NoLine
       \/ LineTyped /\ InputsStand /\ WorkStands /\ StageStands /\ FolderStands

\* What is asked of a command is said of the files it was given with: it
\* stays as it was as long as they do.
LEMMA ListStays ==
  ASSUME given' = given
  PROVE  /\ \A cmd, i : InputPages(cmd, i)' = InputPages(cmd, i)
         /\ \A cmd, i : ListRead(cmd, i)' = ListRead(cmd, i)
         /\ \A cmd, p : IsListed(cmd, p)' <=> IsListed(cmd, p)
         /\ \A cmd, i : TakenFrom(cmd, i)' = TakenFrom(cmd, i)
<1>1. \A cmd, i : InputPages(cmd, i)' = InputPages(cmd, i) BY DEF InputPages
<1>2. \A cmd, i : ListRead(cmd, i)' = ListRead(cmd, i) BY <1>1 DEF ListRead
<1>3. \A cmd, p : IsListed(cmd, p)' <=> IsListed(cmd, p) BY <1>2 DEF IsListed
<1>4. ASSUME NEW cmd, NEW i PROVE TakenFrom(cmd, i)' = TakenFrom(cmd, i)
  BY <1>1, <1>2 DEF TakenFrom
<1> QED BY <1>1, <1>2, <1>3, <1>4

\* So does what is asked of a file.
LEMMA ResultStays ==
  ASSUME given' = given, NEW pages, NEW cmd, NEW name
  PROVE  IsResultOf(pages, cmd, name)' <=> IsResultOf(pages, cmd, name)
<1>1. [i \in DOMAIN cmd.inputs |-> TakenFrom(cmd, i)'] = [i \in DOMAIN cmd.inputs |-> TakenFrom(cmd, i)]
  BY ListStays
<1>2. [p \in DOMAIN InputPages(cmd, 1)' |->
          IF IsListed(cmd, p)' THEN << >> ELSE <<InputPages(cmd, 1)'[p]>>] =
      [p \in DOMAIN InputPages(cmd, 1) |->
          IF IsListed(cmd, p) THEN << >> ELSE <<InputPages(cmd, 1)[p]>>]
  BY ListStays
<1>3. InputPages(cmd, 1)' = InputPages(cmd, 1) /\ ListRead(cmd, 1)' = ListRead(cmd, 1)
      /\ TakenFrom(cmd, 1)' = TakenFrom(cmd, 1)
  BY ListStays
<1>4. CASE cmd.op \in {"merge", "run"} BY <1>1, <1>4 DEF IsResultOf
<1>5. CASE cmd.op = "extract" BY <1>3, <1>5 DEF IsResultOf
<1>6. CASE cmd.op = "delete" BY <1>2, <1>6 DEF IsResultOf
<1>7. CASE cmd.op = "rotate" BY <1>3, <1>7, ListStays DEF IsResultOf
<1>8. CASE cmd.op = "rewrite" BY <1>3, <1>8 DEF IsResultOf
<1>9. CASE cmd.op \notin {"merge", "run", "extract", "delete", "rotate", "rewrite"}
  BY <1>3, <1>9 DEF IsResultOf
<1> QED BY <1>4, <1>5, <1>6, <1>7, <1>8, <1>9

\* And what is asked of all of them.
LEMMA AskedStays ==
  ASSUME given' = given, NEW cmd, NEW outs
  PROVE  AsAsked(cmd, outs)' <=> AsAsked(cmd, outs)
<1>1. InputPages(cmd, 1)' = InputPages(cmd, 1) BY ListStays
<1>2. FilesWanted(cmd)' = FilesWanted(cmd)
  <2>1. PartsWanted(cmd, Len(InputPages(cmd, 1)')) = PartsWanted(cmd, Len(InputPages(cmd, 1)))
    BY <1>1
  <2> QED BY <2>1 DEF FilesWanted
<1>3. \A k \in DOMAIN outs :
         IsResultOf(outs[k].pages, cmd, outs[k].name)' <=> IsResultOf(outs[k].pages, cmd, outs[k].name)
  BY ResultStays
<1> QED BY <1>2, <1>3 DEF AsAsked

-----------------------------------------------------------------------------
(* The steps.                                                              *)

\* The fields of a command under way.
LEMMA LineHasFields ==
  ASSUME LineTyped
  PROVE  /\ line.cmd \in CliCommands /\ line.stage \in Stages /\ line.code \in Codes
         /\ line.opened \in Nat /\ line.done \in Nat
         /\ line.cmd.inputs \in Seq(FileNames) /\ Len(line.cmd.inputs) \in Nat
<1>1. line.cmd \in CliCommands /\ line.stage \in Stages /\ line.code \in Codes
      /\ line.opened \in Nat /\ line.done \in Nat
  BY DEF LineTyped
<1>2. line.cmd.inputs \in Seq(FileNames) BY <1>1, CommandsStand DEF ArgumentsStand
<1> QED BY <1>1, <1>2

\* What was made is a sequence of files.
LEMMA OutsTyped ==
  ASSUME WorkStands
  PROVE  /\ Len(line.outs) \in Nat
         /\ DOMAIN line.outs = 1 .. Len(line.outs)
         /\ \A k \in 1 .. Len(line.outs) : line.outs[k].pages \in Seq(Sheets)
         /\ line.outs = << >> <=> Len(line.outs) = 0
<1> DEFINE outs == line.outs
           R == [name : {outs[k].name : k \in DOMAIN outs}, pages : Seq(Sheets)]
<1>1. CASE outs = << >>
  <2>1. Len(<< >>) = 0 /\ DOMAIN << >> = 1 .. 0 OBVIOUS
  <2> QED BY <1>1, <2>1
<1>2. CASE outs # << >>
  <2>1. outs \in Seq(R) BY <1>2, Zenon DEF WorkStands, AsAsked
  <2>2. \A r \in R : r.pages \in Seq(Sheets) OBVIOUS
  <2> HIDE DEF R, outs
  <2>3. /\ Len(outs) \in Nat
        /\ DOMAIN outs = 1 .. Len(outs)
        /\ \A k \in 1 .. Len(outs) : outs[k].pages \in Seq(Sheets)
        /\ outs = << >> <=> Len(outs) = 0
    BY <2>1, <2>2
  <2> QED BY <2>3 DEF outs
<1> QED BY <1>1, <1>2

\* What the parts say stays as it was when what they speak of does.
LEMMA InputsStay ==
  ASSUME InputsStand, given' = given, line'.cmd = line.cmd, line'.files = line.files,
         line'.opened = line.opened, line'.told = line.told
  PROVE  InputsStand'
BY DEF InputsStand

\* The same of what was made.
LEMMA WorkStays ==
  ASSUME WorkStands, given' = given, shelf' = shelf, line'.cmd = line.cmd,
         line'.opened = line.opened, line'.outs = line.outs, line'.done = line.done
  PROVE  WorkStands'
<1>1. AsAsked(line.cmd, line.outs)' <=> AsAsked(line.cmd, line.outs)
  <2>1. \A cmd, outs : AsAsked(cmd, outs)' <=> AsAsked(cmd, outs) BY AskedStays
  <2> QED BY <2>1
<1> QED BY <1>1 DEF WorkStands

\* The same of the folder.
LEMMA FolderStays ==
  ASSUME FolderStands, given' = given, shelf' = shelf,
         line'.outs = line.outs, line'.done = line.done
  PROVE  FolderStands'
<1>1. Written' = Written /\ Filling' = Filling BY DEF Written, Filling
<1> QED BY <1>1 DEF FolderStands

\* A step that ends the command and leaves the folder.
LEMMA EndsWell ==
  ASSUME CliInv, line.stage \in Stages, line.stage # "ended", NEW code \in Codes \ {"none"}, EndLine(code),
         UNCHANGED <<shelf, given>>,
         code = "refused" => line.stage = "reading",
         code = "ok" => line.stage = "reading" /\ OnlyPrints(line.cmd)
  PROVE  CliInv'
<1>0. line # NoLine
  <2>1. NoLine.stage = "none" BY DEF NoLine
  <2>2. line.stage # "none" BY DEF Stages
  <2> QED BY <2>1, <2>2
<1>1. LineTyped /\ InputsStand /\ WorkStands /\ StageStands /\ FolderStands BY <1>0 DEF CliInv
<1>2. line' = [line EXCEPT !.stage = "ended", !.code = code] BY DEF EndLine
<1>3. /\ LineTyped'
      /\ line'.cmd = line.cmd /\ line'.stage = "ended" /\ line'.code = code
      /\ line'.files = line.files /\ line'.opened = line.opened /\ line'.told = line.told
      /\ line'.outs = line.outs /\ line'.done = line.done
  BY <1>1, <1>2 DEF LineTyped, Stages
<1>4. InputsStand' /\ WorkStands' /\ FolderStands'
  BY <1>1, <1>3, InputsStay, WorkStays, FolderStays
<1>5. StageStands'
  <2>1. line.stage = "reading" => line.outs = << >> /\ line.done = 0
    BY <1>1 DEF StageStands, WorkStands
  <2>2. line.outs = << >> => Len(line.outs) = 0 BY <1>1, OutsTyped
  <2> QED BY <1>3, <2>1, <2>2 DEF StageStands
<1>6. PagesTyped(shelf)' /\ PagesTyped(given.files)' BY DEF CliInv, PagesTyped
<1> QED BY <1>3, <1>4, <1>5, <1>6 DEF CliInv

\* A command is given, or refused at once, on the folder as it is.
LEMMA GiveStands == CliInv /\ Give => CliInv'
<1> SUFFICES ASSUME CliInv, Give PROVE CliInv' OBVIOUS
<1>1. PICK cmd \in CliCommands :
        line' = IF RefusedAtOnce(cmd) THEN [Begun(cmd) EXCEPT !.stage = "ended", !.code = "refused"]
                ELSE Begun(cmd)
  BY DEF Give
<1>2. given'.files = shelf /\ shelf' = shelf BY DEF Give
<1>3. PagesTyped(shelf)' /\ PagesTyped(given.files)' BY <1>2 DEF CliInv, PagesTyped
<1>4. /\ line' \in [cmd : {cmd}, stage : {"reading", "ended"}, code : {"none", "refused"},
                    files : {<< >>}, opened : {0}, told : {{}}, outs : {<< >>}, done : {0}]
      /\ RefusedAtOnce(cmd) => line'.stage = "ended" /\ line'.code = "refused"
      /\ ~RefusedAtOnce(cmd) => line'.stage = "reading" /\ line'.code = "none"
  BY <1>1 DEF Begun
<1>5. /\ line'.cmd = cmd /\ line'.files = << >> /\ line'.opened = 0 /\ line'.outs = << >>
      /\ line'.done = 0 /\ line'.told = {}
  BY <1>4
<1>6. LineTyped'
  <2>1. line' \in [cmd : {cmd}, stage : {"reading", "ended"}, code : {"none", "refused"},
                   files : {<< >>}, opened : {0}, told : {{}}, outs : {<< >>}, done : {0}]
    BY <1>4
  <2>2. line' \in [cmd : CliCommands, stage : Stages, code : Codes,
                   files : {line'.files}, opened : Nat, told : {line'.told},
                   outs : {line'.outs}, done : Nat]
    <3>1. /\ DOMAIN line' = {"cmd", "stage", "code", "files", "opened", "told", "outs", "done"}
          /\ line' = [f \in DOMAIN line' |-> line'[f]]
          /\ line'.cmd \in CliCommands /\ line'.stage \in {"reading", "ended"}
          /\ line'.code \in {"none", "refused"} /\ line'.opened = 0 /\ line'.done = 0
      BY <2>1
    <3>2. line'.stage \in Stages BY <3>1 DEF Stages
    <3>3. line'.code \in Codes BY <3>1 DEF Codes
    <3>4. line'.opened \in Nat /\ line'.done \in Nat BY <3>1
    <3> QED BY <3>1, <3>2, <3>3, <3>4
  <2> QED BY <2>2 DEF LineTyped
<1>7. Len(<< >>) = 0 /\ DOMAIN << >> = {} OBVIOUS
<1>8. cmd.inputs \in Seq(FileNames) /\ Len(cmd.inputs) \in Nat
  BY CommandsStand DEF ArgumentsStand
<1>9. InputsStand'
  <2>1. << >> \in Seq({given'.files[name] : name \in DOMAIN given'.files}) OBVIOUS
  <2> QED BY <1>5, <1>7, <1>8, <2>1 DEF InputsStand
<1>10. WorkStands' BY <1>2, <1>5, <1>7 DEF WorkStands
<1>11. StageStands' BY <1>4, <1>5, <1>7 DEF StageStands
<1>12. FolderStands'
  <2>1. Written' = {} BY <1>5 DEF Written
  <2> QED BY <1>2, <2>1 DEF FolderStands
<1> QED BY <1>3, <1>6, <1>9, <1>10, <1>11, <1>12 DEF CliInv

\* read_input: the file read is that of the folder, which nothing has touched.
LEMMA ReadInputStands == CliInv /\ ReadInput => CliInv'
<1> SUFFICES ASSUME CliInv, ReadInput PROVE CliInv' OBVIOUS
<1> DEFINE name == line.cmd.inputs[Len(line.files) + 1]
<1>0. line # NoLine BY DEF ReadInput, NoLine
<1>1. LineTyped /\ InputsStand /\ WorkStands /\ StageStands /\ FolderStands BY <1>0 DEF CliInv
<1>2. line.stage = "reading" /\ Len(line.files) < Len(line.cmd.inputs) BY DEF ReadInput
<1>3. CASE name \notin DOMAIN shelf
  <2>1. EndLine("refused") /\ UNCHANGED <<shelf, given>> BY <1>3 DEF ReadInput, Refuse
  <2>2. "refused" \in Codes \ {"none"} /\ line.stage \in Stages /\ line.stage # "ended"
    BY <1>2 DEF Codes, Stages
  <2> QED BY <1>2, <2>1, <2>2, EndsWell
<1>4. CASE name \in DOMAIN shelf
  <2>1. line' = [line EXCEPT !.files = Append(line.files, shelf[name])] /\ UNCHANGED <<shelf, given>>
    BY <1>4 DEF ReadInput
  <2>2. /\ LineTyped'
        /\ line'.cmd = line.cmd /\ line'.stage = line.stage /\ line'.code = line.code
        /\ line'.files = Append(line.files, shelf[name])
        /\ line'.opened = line.opened /\ line'.told = line.told
        /\ line'.outs = line.outs /\ line'.done = line.done
    BY <1>1, <2>1 DEF LineTyped
  <2>3. WorkStands' /\ FolderStands' BY <1>1, <2>1, <2>2, WorkStays, FolderStays
  <2>4. StageStands' BY <1>1, <2>2 DEF StageStands
  <2>5. PagesTyped(shelf)' /\ PagesTyped(given.files)' BY <2>1 DEF CliInv, PagesTyped
  <2>6. shelf = given.files BY <1>1, <1>2 DEF StageStands, WorkStands
  <2>7. InputsStand'
    <3> DEFINE T == {given.files[n] : n \in DOMAIN given.files}
               file == shelf[name]
    <3>1. file \in T BY <1>4, <2>6
    <3>2. line.files \in Seq(T) BY <1>1 DEF InputsStand
    <3>3. given.files[name] = file /\ name \in DOMAIN given.files BY <1>4, <2>6
    <3>4. line.opened = 0 BY <1>1, <1>2, LineHasFields DEF InputsStand
    <3>5. Len(line.cmd.inputs) \in Nat BY <1>1, LineHasFields
    <3> DEFINE more == Append(line.files, file)
    <3> HIDE DEF T, file
    <3>6. /\ more \in Seq(T) /\ Len(more) = Len(line.files) + 1 /\ Len(line.files) \in Nat
          /\ DOMAIN more = 1 .. Len(line.files) + 1 /\ DOMAIN line.files = 1 .. Len(line.files)
          /\ more[Len(line.files) + 1] = file
          /\ \A i \in DOMAIN line.files : more[i] = line.files[i]
      BY <3>1, <3>2
    <3> HIDE DEF more
    <3>7. \A i \in DOMAIN more :
             /\ line.cmd.inputs[i] \in DOMAIN given.files
             /\ more[i] = given.files[line.cmd.inputs[i]]
      <4> SUFFICES ASSUME NEW i \in DOMAIN more
                   PROVE  /\ line.cmd.inputs[i] \in DOMAIN given.files
                          /\ more[i] = given.files[line.cmd.inputs[i]]
        OBVIOUS
      <4>1. CASE i = Len(line.files) + 1 BY <3>3, <3>6, <4>1
      <4>2. CASE i \in DOMAIN line.files BY <1>1, <3>6, <4>2 DEF InputsStand
      <4> QED BY <3>6, <4>1, <4>2
    <3>8. Len(more) <= Len(line.cmd.inputs) BY <1>2, <3>5, <3>6
    <3>9. line'.files = more /\ given' = given BY <2>1, <2>2 DEF more, file
    <3>10. line'.files \in Seq({given.files[n] : n \in DOMAIN given.files})' BY <3>6, <3>9 DEF T
    <3> QED BY <2>2, <3>4, <3>5, <3>7, <3>8, <3>9, <3>10 DEF InputsStand
  <2> QED BY <2>2, <2>3, <2>4, <2>5, <2>7 DEF CliInv
<1> QED BY <1>3, <1>4

\* open_input: what is said of an input is kept.
LEMMA OpenInputStands == CliInv /\ OpenInput => CliInv'
<1> SUFFICES ASSUME CliInv, OpenInput PROVE CliInv' OBVIOUS
<1> DEFINE i == line.opened + 1
           file == line.files[i]
<1>0. line # NoLine BY DEF OpenInput, AllRead, NoLine
<1>1. LineTyped /\ InputsStand /\ WorkStands /\ StageStands /\ FolderStands BY <1>0 DEF CliInv
<1>2. /\ line.stage = "reading" /\ Len(line.files) = Len(line.cmd.inputs)
      /\ line.opened < Len(line.cmd.inputs)
  BY DEF OpenInput, AllRead
<1>3. CASE ~Accepts(file, line.cmd.password)
  <2>1. EndLine("refused") /\ UNCHANGED <<shelf, given>> BY <1>3 DEF OpenInput, Refuse
  <2>2. "refused" \in Codes \ {"none"} /\ line.stage \in Stages /\ line.stage # "ended"
    BY <1>2 DEF Codes, Stages
  <2> QED BY <1>2, <2>1, <2>2, EndsWell
<1>4. CASE Accepts(file, line.cmd.password)
  <2>1. /\ line' = [line EXCEPT !.opened = line.opened + 1,
                       !.told = line.told \cup Notes(line.cmd.inputs[i], file)]
        /\ UNCHANGED <<shelf, given>>
    BY <1>4 DEF OpenInput
  <2>2. line.opened \in Nat /\ Len(line.cmd.inputs) \in Nat BY <1>1, LineHasFields
  <2>3. /\ LineTyped'
        /\ line'.cmd = line.cmd /\ line'.stage = line.stage /\ line'.code = line.code
        /\ line'.files = line.files
        /\ line'.opened = i /\ line'.told = line.told \cup Notes(line.cmd.inputs[i], file)
        /\ line'.outs = line.outs /\ line'.done = line.done
    <3> DEFINE told == line.told \cup Notes(line.cmd.inputs[i], file)
    <3>1. line' = [line EXCEPT !.opened = i, !.told = told] /\ i \in Nat BY <2>1, <2>2
    <3> HIDE DEF told, i
    <3>2. /\ LineTyped'
          /\ line'.cmd = line.cmd /\ line'.stage = line.stage /\ line'.code = line.code
          /\ line'.files = line.files /\ line'.opened = i /\ line'.told = told
          /\ line'.outs = line.outs /\ line'.done = line.done
      BY <1>1, <3>1 DEF LineTyped
    <3> QED BY <3>2 DEF told
  <2>4. line.outs = << >> BY <1>1, <1>2 DEF StageStands
  <2>5. WorkStands' BY <1>1, <2>1, <2>3, <2>4 DEF WorkStands
  <2>6. FolderStands' BY <1>1, <2>1, <2>3, FolderStays
  <2>7. StageStands' BY <1>1, <2>3 DEF StageStands
  <2>8. PagesTyped(shelf)' /\ PagesTyped(given.files)' BY <2>1 DEF CliInv, PagesTyped
  <2>9. InputsStand'
    <3>1. i \in DOMAIN line.files
      <4> DEFINE T == {given.files[name] : name \in DOMAIN given.files}
      <4>1. line.files \in Seq(T) BY <1>1 DEF InputsStand
      <4> HIDE DEF T
      <4> QED BY <1>2, <2>2, <4>1
    <3>2. file = given.files[line.cmd.inputs[i]] BY <1>1, <3>1 DEF InputsStand
    <3>3. \A j \in 1 .. i :
             Notes(line.cmd.inputs[j], given.files[line.cmd.inputs[j]]) \subseteq line'.told
      <4> SUFFICES ASSUME NEW j \in 1 .. i
                   PROVE  Notes(line.cmd.inputs[j], given.files[line.cmd.inputs[j]]) \subseteq line'.told
        OBVIOUS
      <4>1. CASE j = i BY <2>3, <3>2, <4>1
      <4>2. CASE j \in 1 .. line.opened
        <5>1. Notes(line.cmd.inputs[j], given.files[line.cmd.inputs[j]]) \subseteq line.told
          BY <1>1, <4>2 DEF InputsStand
        <5> QED BY <2>3, <5>1
      <4> QED BY <2>2, <4>1, <4>2
    <3>4. i <= Len(line.cmd.inputs) BY <1>2, <2>2
    <3>5. given' = given BY <2>1
    <3> HIDE DEF i
    <3>6. \A j \in 1 .. line'.opened :
             Notes(line'.cmd.inputs[j], given'.files[line'.cmd.inputs[j]]) \subseteq line'.told
      BY <2>3, <3>3, <3>5
    <3>7. line'.opened <= Len(line'.cmd.inputs) /\ Len(line'.files) = Len(line'.cmd.inputs)
      BY <1>2, <2>3, <3>4
    <3> QED BY <1>1, <2>3, <3>5, <3>6, <3>7 DEF InputsStand
  <2> QED BY <2>3, <2>5, <2>6, <2>7, <2>8, <2>9 DEF CliInv
<1> QED BY <1>3, <1>4

\* A command that only prints ends.
LEMMA InformStands == CliInv /\ Inform => CliInv'
<1> SUFFICES ASSUME CliInv, Inform PROVE CliInv' OBVIOUS
<1>1. PICK code \in {"ok", "refused"} : EndLine(code) BY DEF Inform
<1>2. line.stage = "reading" /\ OnlyPrints(line.cmd) /\ UNCHANGED <<shelf, given>>
  BY DEF Inform, AllRead
<1>3. code \in Codes \ {"none"} /\ line.stage \in Stages /\ line.stage # "ended"
  BY <1>2 DEF Codes, Stages
<1> QED BY <1>1, <1>2, <1>3, EndsWell

\* The result is made, in memory: the folder stands.
LEMMA WorkKeeps == CliInv /\ Work => CliInv'
<1> SUFFICES ASSUME CliInv, Work PROVE CliInv' OBVIOUS
<1> DEFINE outs == Made(line.cmd, line.files)
<1>0. line # NoLine BY DEF Work, AllRead, NoLine
<1>1. LineTyped /\ InputsStand /\ WorkStands /\ StageStands /\ FolderStands BY <1>0 DEF CliInv
<1>2. /\ line.stage = "reading" /\ Len(line.files) = Len(line.cmd.inputs)
      /\ line.opened = Len(line.cmd.inputs) /\ ~OnlyPrints(line.cmd)
  BY DEF Work, AllRead
<1>3. CASE Refuse
  <2>1. EndLine("refused") /\ UNCHANGED <<shelf, given>> BY <1>3 DEF Refuse
  <2>2. "refused" \in Codes \ {"none"} /\ line.stage \in Stages /\ line.stage # "ended"
    BY <1>2 DEF Codes, Stages
  <2> QED BY <1>2, <2>1, <2>2, EndsWell
<1>4. CASE /\ outs # << >>
           /\ line' = [line EXCEPT !.stage = "writing", !.outs = outs]
           /\ UNCHANGED <<shelf, given>>
  <2>1. /\ LineTyped'
        /\ line'.cmd = line.cmd /\ line'.stage = "writing" /\ line'.code = line.code
        /\ line'.files = line.files /\ line'.opened = line.opened /\ line'.told = line.told
        /\ line'.outs = outs /\ line'.done = line.done
    <3> HIDE DEF outs
    <3> QED BY <1>1, <1>4 DEF LineTyped, Stages
  <2>2. /\ line.outs = << >> /\ line.done = 0 /\ shelf = given.files
        /\ line.code = "none" /\ ~RefusedAtOnce(line.cmd)
    BY <1>1, <1>2 DEF StageStands, WorkStands
  <2>3. Found(line.cmd, line.files)
    <3> DEFINE T == {given.files[name] : name \in DOMAIN given.files}
    <3>1. line.files \in Seq(T) BY <1>1 DEF InputsStand
    <3>2. line.cmd.inputs \in Seq(FileNames) BY <1>1, LineHasFields
    <3>3. DOMAIN line.files = DOMAIN line.cmd.inputs /\ line.files = [i \in DOMAIN line.files |-> line.files[i]]
      <4> HIDE DEF T
      <4> QED BY <1>2, <3>1, <3>2
    <3>4. \A i \in DOMAIN line.cmd.inputs : /\ line.cmd.inputs[i] \in DOMAIN given.files
                                            /\ line.files[i] = given.files[line.cmd.inputs[i]]
      BY <1>1, <3>3 DEF InputsStand
    <3>5. PagesTyped(given.files) BY DEF CliInv
    <3>6. \A i \in DOMAIN line.cmd.inputs : InputPages(line.cmd, i) \in Seq(Sheets)
      BY <3>4, <3>5 DEF InputPages, PagesTyped
    <3>7. line.files = [i \in DOMAIN line.cmd.inputs |-> given.files[line.cmd.inputs[i]]]
      BY <3>3, <3>4
    <3> QED BY <3>6, <3>7 DEF Found
  <2>4. AsAsked(line.cmd, outs)
    <3>1. line.cmd \in CliCommands BY <1>1, LineHasFields
    <3> QED BY <1>2, <1>4, <2>2, <2>3, <3>1, MadeAsAsked
  <2> HIDE DEF outs
  <2>5. AsAsked(line.cmd, line.outs)'
    <3>1. given' = given BY <1>4
    <3>2. \A cmd, o : AsAsked(cmd, o)' <=> AsAsked(cmd, o) BY <3>1, AskedStays
    <3>3. AsAsked(line'.cmd, line'.outs) BY <2>1, <2>4
    <3> QED BY <3>2, <3>3
  <2>6. Len(outs) \in Nat /\ Len(outs) > 0
    <3> DEFINE R == [name : {outs[k].name : k \in DOMAIN outs}, pages : Seq(Sheets)]
    <3>1. outs \in Seq(R) BY <2>4, Zenon DEF AsAsked
    <3> HIDE DEF R
    <3> QED BY <1>4, <3>1
  <2>7. InputsStand' BY <1>1, <1>4, <2>1, InputsStay
  <2>8. WorkStands' BY <1>2, <1>4, <2>1, <2>2, <2>5, <2>6 DEF WorkStands
  <2>9. StageStands' BY <2>1, <2>2, <2>6 DEF StageStands
  <2>10. FolderStands'
    <3>1. Written' = {} BY <2>1, <2>2 DEF Written
    <3>2. shelf' = shelf /\ given' = given BY <1>4
    <3> QED BY <2>2, <3>1, <3>2 DEF FolderStands
  <2>11. PagesTyped(shelf)' /\ PagesTyped(given.files)' BY <1>4 DEF CliInv, PagesTyped
  <2> QED BY <2>1, <2>7, <2>8, <2>9, <2>10, <2>11 DEF CliInv
<1> QED BY <1>3, <1>4 DEF Work

\* The pages of what is written are pages.
LEMMA CutTyped ==
  ASSUME NEW pages \in Seq(Sheets), NEW k \in 0 .. Len(pages) - 1
  PROVE  Torn(pages, k).pages \in Seq(Sheets)
<1>1. SubSeq(pages, 1, k) \in Seq(Sheets)
  <2>1. Len(pages) \in Nat /\ \A i \in 1 .. k : pages[i] \in Sheets OBVIOUS
  <2> QED BY <2>1, SubSeqProperties
<1>2. Torn(pages, k).pages = SubSeq(pages, 1, k) BY DEF Torn, ShelfFile
<1> QED BY <1>1, <1>2

\* A file put in the folder is typed, and no other is touched.
LEMMA PutKeeps ==
  ASSUME PagesTyped(shelf), NEW name, NEW file, file.pages \in Seq(Sheets), shelf' = WithFile(name, file)
  PROVE  /\ PagesTyped(shelf)'
         /\ DOMAIN shelf' = DOMAIN shelf \cup {name}
         /\ shelf'[name] = file
         /\ \A n \in DOMAIN shelf : n # name => shelf'[n] = shelf[n]
<1>1. /\ DOMAIN shelf' = DOMAIN shelf \cup {name}
      /\ shelf'[name] = file
      /\ \A n \in DOMAIN shelf : n # name => shelf'[n] = shelf[n]
  BY DEF WithFile
<1>2. \A n \in DOMAIN shelf' : shelf'[n].pages \in Seq(Sheets) BY <1>1 DEF PagesTyped
<1> QED BY <1>1, <1>2 DEF PagesTyped

\* write_result begins: only the file being filled changes.
LEMMA BeginWriteStands == CliInv /\ BeginWrite => CliInv'
<1> SUFFICES ASSUME CliInv, BeginWrite PROVE CliInv' OBVIOUS
<1> DEFINE out == line.outs[line.done + 1]
<1>0. line # NoLine BY DEF BeginWrite, NoLine
<1>1. LineTyped /\ InputsStand /\ WorkStands /\ StageStands /\ FolderStands BY <1>0 DEF CliInv
<1>2. line.stage = "writing" BY DEF BeginWrite
<1>3. CASE EndLine("failed") /\ UNCHANGED <<shelf, given>>
  <2>1. "failed" \in Codes \ {"none"} /\ line.stage \in Stages /\ line.stage # "ended"
    BY <1>2 DEF Codes, Stages
  <2> QED BY <1>2, <1>3, <2>1, EndsWell
<1>4. CASE /\ \E k \in 0 .. Len(out.pages) - 1 : shelf' = WithFile(out.name, Torn(out.pages, k))
           /\ line' = [line EXCEPT !.stage = "filling"]
           /\ UNCHANGED given
  <2>1. /\ LineTyped'
        /\ line'.cmd = line.cmd /\ line'.stage = "filling" /\ line'.code = line.code
        /\ line'.files = line.files /\ line'.opened = line.opened /\ line'.told = line.told
        /\ line'.outs = line.outs /\ line'.done = line.done
    BY <1>1, <1>4 DEF LineTyped, Stages
  <2>2. line.done < Len(line.outs) /\ line.done \in Nat /\ Len(line.outs) \in Nat
    BY <1>1, <1>2, LineHasFields, OutsTyped DEF StageStands
  <2>3. line.outs # << >> BY <1>1, <2>2, OutsTyped
  <2>4. out.pages \in Seq(Sheets)
    <3>1. line.done + 1 \in 1 .. Len(line.outs) BY <2>2
    <3> QED BY <1>1, <3>1, OutsTyped
  <2>5. PICK k \in 0 .. Len(out.pages) - 1 : shelf' = WithFile(out.name, Torn(out.pages, k)) BY <1>4
  <2> DEFINE name == out.name
             file == Torn(out.pages, k)
  <2>6. /\ PagesTyped(shelf)'
        /\ DOMAIN shelf' = DOMAIN shelf \cup {name}
        /\ \A n \in DOMAIN shelf : n # name => shelf'[n] = shelf[n]
    <3>1. file.pages \in Seq(Sheets) BY <2>4, <2>5, CutTyped
    <3>2. PagesTyped(shelf) /\ shelf' = WithFile(name, file) BY <2>5 DEF CliInv
    <3> HIDE DEF name, file
    <3> QED BY <3>1, <3>2, PutKeeps
  <2>7. PagesTyped(given.files)' BY <1>4 DEF CliInv, PagesTyped
  <2>8. InputsStand' BY <1>1, <1>4, <2>1, InputsStay
  <2>9. WorkStands'
    <3>1. \A cmd, o : AsAsked(cmd, o)' <=> AsAsked(cmd, o) BY <1>4, AskedStays
    <3> QED BY <1>1, <2>1, <2>3, <3>1 DEF WorkStands
  <2>10. StageStands' BY <1>1, <1>2, <2>1, <2>2 DEF StageStands
  <2>11. FolderStands'
    <3>1. Written' = Written /\ Filling' = Filling BY <2>1 DEF Written, Filling
    <3>2. Filling = {name} BY <2>2 DEF Filling
    <3> HIDE DEF name
    <3>3. DOMAIN given'.files \subseteq DOMAIN shelf' BY <1>1, <1>4, <2>6 DEF FolderStands
    <3>4. \A n \in DOMAIN shelf' \ (Written \cup Filling) :
             n \in DOMAIN given'.files /\ shelf'[n] = given'.files[n]
      BY <1>1, <1>4, <2>6, <3>2 DEF FolderStands
    <3>5. \A n \in Written \ Filling : shelf'[n] = shelf[n]
      BY <1>1, <2>6, <3>2 DEF FolderStands
    <3>7. Written \subseteq DOMAIN shelf' BY <1>1, <2>6 DEF FolderStands
    <3>6. \A n \in Written \ Filling : \E j \in 1 .. line.done :
             line.outs[j].name = n /\ shelf'[n] = ShelfFile(line.outs[j].pages)
      BY <1>1, <3>5 DEF FolderStands
    <3> QED BY <2>1, <3>1, <3>3, <3>4, <3>6, <3>7 DEF FolderStands
  <2> QED BY <2>1, <2>6, <2>7, <2>8, <2>9, <2>10, <2>11 DEF CliInv
<1> QED BY <1>3, <1>4 DEF BeginWrite

\* write_result ends: the file is whole, and the next one is begun.
LEMMA EndWriteStands == CliInv /\ EndWrite => CliInv'
<1> SUFFICES ASSUME CliInv, EndWrite PROVE CliInv' OBVIOUS
<1> DEFINE out == line.outs[line.done + 1]
           next == line.done + 1
<1>0. line # NoLine BY DEF EndWrite, NoLine
<1>1. LineTyped /\ InputsStand /\ WorkStands /\ StageStands /\ FolderStands BY <1>0 DEF CliInv
<1>2. line.stage = "filling" /\ given' = given BY DEF EndWrite
<1>3. CASE EndLine("failed") /\ UNCHANGED shelf
  <2>1. "failed" \in Codes \ {"none"} /\ line.stage \in Stages /\ line.stage # "ended"
    BY <1>2 DEF Codes, Stages
  <2> QED BY <1>2, <1>3, <2>1, EndsWell
<1>4. CASE /\ shelf' = WithFile(out.name, ShelfFile(out.pages))
           /\ line' = IF next = Len(line.outs)
                      THEN [line EXCEPT !.stage = "ended", !.code = "ok", !.done = next]
                      ELSE [line EXCEPT !.stage = "writing", !.done = next]
  <2>1. line.done < Len(line.outs) /\ line.done \in Nat /\ Len(line.outs) \in Nat /\ line.code = "none"
        /\ ~RefusedAtOnce(line.cmd)
    BY <1>1, <1>2, LineHasFields, OutsTyped DEF StageStands
  <2>2. /\ LineTyped'
        /\ line'.cmd = line.cmd
        /\ line'.files = line.files /\ line'.opened = line.opened /\ line'.told = line.told
        /\ line'.outs = line.outs /\ line'.done = next
        /\ next = Len(line.outs) => line'.stage = "ended" /\ line'.code = "ok"
        /\ next # Len(line.outs) => line'.stage = "writing" /\ line'.code = "none"
    <3>1. next \in Nat BY <2>1
    <3> HIDE DEF next
    <3>2. CASE next = Len(line.outs)
      <4>1. line' = [line EXCEPT !.stage = "ended", !.code = "ok", !.done = next] BY <1>4, <3>2
      <4> QED BY <1>1, <3>1, <3>2, <4>1 DEF LineTyped, Stages, Codes
    <3>3. CASE next # Len(line.outs)
      <4>1. line' = [line EXCEPT !.stage = "writing", !.done = next] BY <1>4, <3>3
      <4> QED BY <1>1, <2>1, <3>1, <3>3, <4>1 DEF LineTyped, Stages
    <3> QED BY <3>2, <3>3
  <2>3. line.outs # << >> BY <1>1, <2>1, OutsTyped
  <2>4. out.pages \in Seq(Sheets)
    <3>1. line.done + 1 \in 1 .. Len(line.outs) BY <2>1
    <3> QED BY <1>1, <3>1, OutsTyped
  <2> DEFINE name == out.name
             file == ShelfFile(out.pages)
  <2>5. /\ PagesTyped(shelf)'
        /\ DOMAIN shelf' = DOMAIN shelf \cup {name}
        /\ shelf'[name] = file
        /\ \A n \in DOMAIN shelf : n # name => shelf'[n] = shelf[n]
    <3>1. file.pages \in Seq(Sheets) BY <2>4 DEF ShelfFile
    <3>2. PagesTyped(shelf) /\ shelf' = WithFile(name, file) BY <1>4 DEF CliInv
    <3> HIDE DEF name, file
    <3> QED BY <3>1, <3>2, PutKeeps
  <2>6. PagesTyped(given.files)' BY <1>2 DEF CliInv, PagesTyped
  <2>7. InputsStand' BY <1>1, <1>2, <2>2, InputsStay
  <2>8. WorkStands'
    <3>1. \A cmd, o : AsAsked(cmd, o)' <=> AsAsked(cmd, o) BY <1>2, AskedStays
    <3>2. next <= Len(line.outs) BY <2>1
    <3> HIDE DEF next
    <3> QED BY <1>1, <2>2, <2>3, <3>1, <3>2 DEF WorkStands
  <2>9. StageStands'
    <3>1. next # Len(line.outs) => next < Len(line.outs) BY <2>1
    <3> HIDE DEF next
    <3>2. CASE next = Len(line.outs) BY <2>1, <2>2, <2>3, <3>2 DEF StageStands
    <3>3. CASE next # Len(line.outs) BY <2>1, <2>2, <3>1, <3>3 DEF StageStands
    <3> QED BY <3>2, <3>3
  <2>10. FolderStands'
    <3>1. Written' = Written \cup {name}
      <4>1. 1 .. next = (1 .. line.done) \cup {next} BY <2>1
      <4> QED BY <2>2, <4>1 DEF Written
    <3>2. Filling = {name} BY <2>1 DEF Filling
    <3>3. \A n \in Written : \E k \in 1 .. line.done : line.outs[k].name = n BY DEF Written
    <3>4. name = line.outs[next].name /\ file = ShelfFile(line.outs[next].pages)
          /\ next \in 1 .. next /\ 1 .. line.done \subseteq 1 .. next
      BY <2>1
    <3> HIDE DEF name, file, next
    <3>5. DOMAIN given'.files \subseteq DOMAIN shelf' BY <1>1, <1>2, <2>5 DEF FolderStands
    <3>6. \A n \in DOMAIN shelf' \ Written' :
             n \in DOMAIN given'.files /\ shelf'[n] = given'.files[n]
      BY <1>1, <1>2, <2>5, <3>1, <3>2 DEF FolderStands
    <3>7. Written' \subseteq DOMAIN shelf' BY <1>1, <2>5, <3>1 DEF FolderStands
    <3>8. \A n \in Written' : \E k \in 1 .. next :
             line.outs[k].name = n /\ shelf'[n] = ShelfFile(line.outs[k].pages)
      <4> SUFFICES ASSUME NEW n \in Written'
                   PROVE  \E k \in 1 .. next :
                             line.outs[k].name = n /\ shelf'[n] = ShelfFile(line.outs[k].pages)
        OBVIOUS
      <4>1. CASE n = name BY <2>5, <3>4, <4>1
      <4>2. CASE n # name
        <5>1. n \in Written \ Filling BY <3>1, <3>2, <4>2
        <5>2. PICK k \in 1 .. line.done :
                 line.outs[k].name = n /\ shelf[n] = ShelfFile(line.outs[k].pages)
          BY <1>1, <5>1 DEF FolderStands
        <5>3. n \in DOMAIN shelf BY <1>1, <5>1 DEF FolderStands
        <5>4. shelf'[n] = shelf[n] /\ k \in 1 .. next BY <2>5, <3>4, <4>2, <5>3
        <5> QED BY <5>2, <5>4
      <4> QED BY <4>1, <4>2
    <3> QED BY <2>2, <3>5, <3>6, <3>7, <3>8 DEF FolderStands
  <2> QED BY <2>2, <2>5, <2>6, <2>7, <2>8, <2>9, <2>10 DEF CliInv
<1> QED BY <1>3, <1>4 DEF EndWrite

\* A command is killed.
LEMMA KilledStands == CliInv /\ LineKilled => CliInv'
<1> SUFFICES ASSUME CliInv, LineKilled PROVE CliInv' OBVIOUS
<1>0. line # NoLine BY DEF LineKilled, NoLine
<1>1. LineTyped BY <1>0 DEF CliInv
<1>2. line.stage \in Stages /\ line.stage # "ended" BY <1>1, LineHasFields DEF LineKilled
<1>3. EndLine("killed") /\ UNCHANGED <<shelf, given>> BY DEF LineKilled
<1>4. "killed" \in Codes \ {"none"} BY DEF Codes
<1> QED BY <1>2, <1>3, <1>4, EndsWell

\* No command yet.
LEMMA CliBegins == CliInit => CliInv
<1> SUFFICES ASSUME CliInit PROVE CliInv OBVIOUS
<1>1. PagesTyped(shelf) BY CommandAssumption DEF CliInit, PagesTyped
<1>2. given.files = shelf /\ line = NoLine BY DEF CliInit
<1> QED BY <1>1, <1>2 DEF CliInv, PagesTyped

\* The invariant is inductive.
LEMMA CliStands == CliInv /\ [CliNext]_lineVars => CliInv'
<1> SUFFICES ASSUME CliInv, [CliNext]_lineVars PROVE CliInv' OBVIOUS
<1>1. CASE UNCHANGED lineVars
  <2>1. shelf' = shelf /\ line' = line /\ given' = given BY <1>1 DEF lineVars
  <2>2. PagesTyped(shelf)' /\ PagesTyped(given.files)' BY <2>1 DEF CliInv, PagesTyped
  <2>3. CASE line = NoLine BY <2>1, <2>2, <2>3 DEF CliInv, NoLine
  <2>4. CASE LineTyped /\ InputsStand /\ WorkStands /\ StageStands /\ FolderStands
    <3>1. LineTyped' BY <2>1, <2>4 DEF LineTyped
    <3>2. StageStands' BY <2>1, <2>4 DEF StageStands
    <3>3. InputsStand' /\ WorkStands' /\ FolderStands'
      BY <2>1, <2>4, InputsStay, WorkStays, FolderStays
    <3> QED BY <2>2, <2>4, <3>1, <3>2, <3>3 DEF CliInv
  <2> QED BY <2>3, <2>4 DEF CliInv
<1>2. CASE CliNext
  BY <1>2, GiveStands, ReadInputStands, OpenInputStands, InformStands, WorkKeeps,
     BeginWriteStands, EndWriteStands, KilledStands DEF CliNext
<1> QED BY <1>1, <1>2

\* The files touched are those written and the one being filled; the promise
\* is what the invariant says of them.
LEMMA CliPromises == CliInv => CommandsEndAsTold
<1> SUFFICES ASSUME CliInv, line.stage # "none" PROVE CommandsEndAsTold BY DEF CommandsEndAsTold
<1> DEFINE cmd     == line.cmd
           touched == {name \in DOMAIN shelf :
                          IF name \in DOMAIN given.files THEN shelf[name] # given.files[name]
                          ELSE TRUE}
           clear == Written \ (IF line.code = "ok" THEN {} ELSE Filling)
<1>1. LineTyped /\ InputsStand /\ WorkStands /\ StageStands /\ FolderStands BY DEF CliInv, NoLine
<1>2. DOMAIN given.files \subseteq DOMAIN shelf BY <1>1 DEF FolderStands
<1>3. touched \subseteq Written \cup Filling BY <1>1 DEF FolderStands
<1>4. line.outs = << >> => touched = {}
  <2>1. line.outs = << >> => shelf = given.files BY <1>1 DEF WorkStands
  <2> QED BY <2>1
<1>5. line.code = "refused" => touched = {} BY <1>1, <1>4 DEF StageStands
<1>6. line.code = "ok" => Filling = {} /\ line.done = Len(line.outs)
  <2>1. line.code = "ok" => line.done = Len(line.outs) BY <1>1 DEF StageStands
  <2>2. Len(line.outs) \in Nat BY <1>1, OutsTyped
  <2> QED BY <2>1, <2>2 DEF Filling
<1>7. line.code = "ok" => Written = FilesWanted(cmd)
  <2> SUFFICES ASSUME line.code = "ok" PROVE Written = FilesWanted(cmd) OBVIOUS
  <2>1. line.done = Len(line.outs) BY <1>6
  <2>2. CASE line.outs = << >>
    <3>1. OnlyPrints(cmd) /\ cmd \in CliCommands BY <1>1, <2>2, LineHasFields DEF StageStands
    <3>2. cmd.output \in Seq(FileNames) /\ Len(cmd.output) = 0 /\ cmd.op # "split"
      BY <3>1, CommandsStand DEF ArgumentsStand, OnlyPrints
    <3>3. ToSet(cmd.output) = {} BY <3>2 DEF ToSet
    <3>4. line.done = 0 BY <1>1, <2>2 DEF WorkStands
    <3>5. Written = {} BY <3>4 DEF Written
    <3> QED BY <3>2, <3>3, <3>5 DEF FilesWanted
  <2>3. CASE line.outs # << >>
    <3>1. {line.outs[k].name : k \in DOMAIN line.outs} = FilesWanted(cmd)
      BY <1>1, <2>3 DEF WorkStands, AsAsked
    <3>2. DOMAIN line.outs = 1 .. line.done BY <1>1, <2>1, OutsTyped
    <3> QED BY <3>1, <3>2 DEF Written
  <2> QED BY <2>2, <2>3
<1>8. clear \subseteq Written \ Filling BY <1>6
<1>9. \A name \in clear :
         ~shelf[name].torn /\ ~shelf[name].ciphered
         /\ IsResultOf(shelf[name].pages, cmd, name)
  <2> SUFFICES ASSUME NEW name \in Written \ Filling
               PROVE  /\ ~shelf[name].torn /\ ~shelf[name].ciphered
                      /\ IsResultOf(shelf[name].pages, cmd, name)
    BY <1>8
  <2>1. PICK k \in 1 .. line.done :
           line.outs[k].name = name /\ shelf[name] = ShelfFile(line.outs[k].pages)
    BY <1>1 DEF FolderStands
  <2>2. k \in 1 .. Len(line.outs)
    BY <1>1, LineHasFields, OutsTyped DEF WorkStands
  <2>3. line.outs # << >> /\ k \in DOMAIN line.outs BY <1>1, <2>2, OutsTyped
  <2>4. IsResultOf(line.outs[k].pages, cmd, line.outs[k].name)
    BY <1>1, <2>3 DEF WorkStands, AsAsked
  <2>5. /\ shelf[name].pages = line.outs[k].pages
        /\ ~shelf[name].torn /\ ~shelf[name].ciphered
    BY <2>1 DEF ShelfFile
  <2> QED BY <2>1, <2>4, <2>5
<1>10. touched # {} => \A i \in DOMAIN cmd.inputs :
                          Notes(cmd.inputs[i], given.files[cmd.inputs[i]]) \subseteq line.told
  <2>1. touched # {} => line.opened = Len(cmd.inputs) BY <1>1, <1>4 DEF WorkStands
  <2>2. DOMAIN cmd.inputs = 1 .. Len(cmd.inputs) BY <1>1, LineHasFields
  <2> QED BY <1>1, <2>1, <2>2 DEF InputsStand
<1> DEFINE written == {line.outs[k].name : k \in 1 .. line.done}
           filled  == IF line.done < Len(line.outs) THEN {line.outs[line.done + 1].name} ELSE {}
<1>11. Written = written /\ Filling = filled BY DEF Written, Filling
<1> HIDE DEF touched, written, filled
<1>12. /\ DOMAIN given.files \subseteq DOMAIN shelf
       /\ touched \subseteq written \cup filled
       /\ line.code = "refused" => touched = {}
       /\ line.code = "ok" => written = FilesWanted(cmd)
       /\ \A name \in written \ (IF line.code = "ok" THEN {} ELSE filled) :
             ~shelf[name].torn /\ ~shelf[name].ciphered
             /\ IsResultOf(shelf[name].pages, cmd, name)
       /\ touched # {} => \A i \in DOMAIN cmd.inputs :
                             Notes(cmd.inputs[i], given.files[cmd.inputs[i]]) \subseteq line.told
  BY <1>2, <1>3, <1>5, <1>7, <1>9, <1>10, <1>11
<1> QED BY <1>12, Zenon DEF CommandsEndAsTold, touched, written, filled

\* What a command promises (CommandsEndAsTold: write_result, "A repaired file
\* must never pass for a sound one", refusals_say_what_is_wrong_and_write_nothing)
\* holds for every folder, every command and every number of commands.
THEOREM CommandsAlwaysEndAsTold == CliSpec => []CommandsEndAsTold
<1>1. CliSpec => []CliInv BY CliBegins, CliStands, PTL DEF CliSpec
<1> QED BY <1>1, CliPromises, PTL
=============================================================================
