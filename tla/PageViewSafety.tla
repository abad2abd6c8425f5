--------------------------- MODULE PageViewSafety ---------------------------
(***************************************************************************)
(* No image kept or on screen is older than what the window knows, and     *)
(* nothing in it waits for nobody, for any pages, arrangements, slots and  *)
(* gestures. The second is argued at the end, from the first.              *)
(*                                                                         *)
(* The window numbers what it asks for: a generation per document, a       *)
(* version per page for the thumbnails and one for the view. The argument  *)
(* is what these numbers buy. A request in flight is of a generation and a *)
(* version the window has had; if of the present ones, its answer is not   *)
(* older than what the window knows (Follows). So an answer taken is clean *)
(* and one passed over changes nothing. A rotation told makes its pages    *)
(* late, in the caches and in flight alike; Invalidate and PagesChanged    *)
(* each put their own half right (Thumbs and Views say which pages are     *)
(* still behind), and only then is the grid built again. Last, the Rust    *)
(* side is never behind the window (Ahead): what it answers is clean when  *)
(* it answers.                                                             *)
(***************************************************************************)
EXTENDS PageView, SequenceTheorems, FiniteSetTheorems, TLAPS

Fields == {"doc", "turns", "enabled", "panel", "order", "build", "shown", "watched", "cache",
           "failed", "queue", "versions", "generation", "flight", "open", "pages", "at", "room",
           "zoom", "settling", "resizing", "drawn", "unreadable", "revisions", "screen"}

Request == {"who", "page", "tile", "width", "answer", "generation", "version"}

IsSequence(s) == \E S : s \in Seq(S)
Counts == [SourcePages -> Nat]

\* What a window is made of, as far as images go.
Window(w) ==
    /\ DOMAIN w = Fields
    /\ IsSequence(w.queue) /\ IsSequence(w.flight)
    /\ w.order \in Seq(SourcePages) /\ w.pages \in Seq(SourcePages)
    /\ w.open => w.at \in DOMAIN w.pages
    /\ w.doc \in Nat /\ w.generation \in Nat
    /\ w.turns \in Counts /\ w.versions \in Counts /\ w.revisions \in Counts
    /\ DOMAIN w.cache = SourcePages /\ DOMAIN w.drawn = SourcePages

\* An image is not older than what a window knows of its page.
Clean(w, image, p) ==
    image.kind = "image" => \/ image.doc > w.doc
                            \/ image.doc = w.doc /\ image.turn >= w.turns[p]

\* A request of this generation is of no later version, and if of this one
\* its answer is clean.
Follows(w, r, version, behind) ==
    /\ DOMAIN r = Request
    /\ r.generation \in Nat /\ r.generation <= w.generation
    /\ r.generation = w.generation /\ r.page \in SourcePages =>
          /\ r.version \in Nat /\ r.version <= version[r.page]
          /\ r.version = version[r.page] /\ r.page \notin behind => Clean(w, r.answer, r.page)

\* The thumbnails kept and asked for, the drawings, the tiles and the screen
\* are clean, but for the pages that are behind.
Thumbs(w, behind) ==
    /\ \A p \in SourcePages \ behind : Clean(w, w.cache[p], p)
    /\ \A i \in DOMAIN w.flight :
          w.flight[i].who # "view" => Follows(w, w.flight[i], w.versions, behind)
Views(w, behind) ==
    /\ \A p \in SourcePages \ behind : Clean(w, w.drawn[p].image, p)
    /\ \A i \in DOMAIN w.flight :
          w.flight[i].who = "view" => Follows(w, w.flight[i], w.revisions, behind)
Tiles(w) ==
    /\ DOMAIN w.shown = SourcePages
    /\ \A p \in SourcePages : Clean(w, w.shown[p], p)
Screen(w) ==
    w.open => w.screen.page = OnScreen(w) /\ Clean(w, w.screen.what, OnScreen(w))

\* Everything but the tiles.
Drawn(w) == Window(w) /\ Thumbs(w, {}) /\ Views(w, {}) /\ Screen(w)

\* The document and its rotations are what they were.
Told(w, v) == v.doc = w.doc /\ v.turns = w.turns
\* The window stays clean.
Stays(w, v) == Drawn(v) /\ (Tiles(w) => Tiles(v)) /\ Told(w, v)

-----------------------------------------------------------------------------
(* Sequences. *)

LEMMA Joined ==
  ASSUME NEW s, IsSequence(s), NEW n \in Nat, NEW f, DOMAIN f = 1 .. n,
         f = [i \in 1 .. n |-> f[i]]
  PROVE  /\ IsSequence(s \o f)
         /\ \A i \in DOMAIN (s \o f) :
               \/ i \in DOMAIN s /\ (s \o f)[i] = s[i]
               \/ \E j \in 1 .. n : (s \o f)[i] = f[j]
<1>1. PICK S : s \in Seq(S) BY DEF IsSequence
<1> DEFINE U == S \cup {f[i] : i \in 1 .. n}
<1>2. s \in Seq(U)
  BY <1>1
<1>3. f \in Seq(U)
  OBVIOUS
<1>4. s \o f \in Seq(U) BY <1>2, <1>3
<1> HIDE DEF U
<1>5. Len(f) = n BY <1>3
<1>6. ASSUME NEW i \in DOMAIN (s \o f)
      PROVE  \/ i \in DOMAIN s /\ (s \o f)[i] = s[i]
             \/ \E j \in 1 .. n : (s \o f)[i] = f[j]
  <2>1. i \in 1 .. Len(s) + n BY <1>2, <1>3, <1>4, <1>5
  <2>2. CASE i <= Len(s)
    BY <1>2, <1>3, <2>1, <2>2
  <2>3. CASE i > Len(s)
    <3>1. i - Len(s) \in 1 .. n BY <1>2, <2>1, <2>3
    <3>2. (s \o f)[i] = f[i - Len(s)] BY <1>2, <1>3, <1>5, <2>1, <2>3
    <3> QED BY <3>1, <3>2
  <2> QED BY <1>2, <2>1, <2>2, <2>3
<1> QED BY <1>4, <1>6 DEF IsSequence

LEMMA Added ==
  ASSUME NEW s, IsSequence(s), NEW e
  PROVE  /\ IsSequence(Append(s, e))
         /\ \A i \in DOMAIN Append(s, e) :
               \/ i \in DOMAIN s /\ Append(s, e)[i] = s[i]
               \/ Append(s, e)[i] = e
<1>1. PICK S : s \in Seq(S) BY DEF IsSequence
<1> DEFINE U == S \cup {e}
<1>2. s \in Seq(U) /\ e \in U
  BY <1>1
<1> HIDE DEF U
<1>3. Append(s, e) \in Seq(U) BY <1>2
<1> QED BY <1>2, <1>3 DEF IsSequence

LEMMA Behind ==
  ASSUME NEW S, NEW a \in Seq(S), NEW b \in Seq(S), NEW i \in Nat, i > Len(a),
         i <= Len(a) + Len(b)
  PROVE  (a \o b)[i] = b[i - Len(a)]
OBVIOUS

LEMMA Removed ==
  ASSUME NEW s, IsSequence(s), NEW k \in DOMAIN s
  PROVE  /\ IsSequence(RemoveAt(s, k))
         /\ \A i \in DOMAIN RemoveAt(s, k) :
               \E j \in DOMAIN s : RemoveAt(s, k)[i] = s[j]
<1>1. PICK S : s \in Seq(S) BY DEF IsSequence
<1>2. SubSeq(s, 1, k-1) \in Seq(S) /\ SubSeq(s, k+1, Len(s)) \in Seq(S)
  BY <1>1
<1>3. RemoveAt(s, k) \in Seq(S)
  BY <1>2 DEF RemoveAt
<1>4. ASSUME NEW i \in DOMAIN RemoveAt(s, k)
      PROVE  \E j \in DOMAIN s : RemoveAt(s, k)[i] = s[j]
  <2>1. CASE i < k
    <3>1. RemoveAt(s, k)[i] = s[i] BY <1>1, <1>2, <1>3, <2>1 DEF RemoveAt
    <3>2. i \in DOMAIN s BY <1>1, <1>3, <2>1
    <3> QED BY <3>1, <3>2
  <2>2. CASE i >= k
    <3>1. Len(SubSeq(s, 1, k-1)) = k - 1 BY <1>1
    <3>2. Len(SubSeq(s, k+1, Len(s))) = Len(s) - k BY <1>1
    <3>3. i \in 1 .. Len(s) - 1 BY <1>1, <1>2, <3>1, <3>2 DEF RemoveAt
    <3>0. Len(s) \in Nat /\ k \in 1 .. Len(s) BY <1>1
    <3>4. RemoveAt(s, k)[i] = SubSeq(s, k+1, Len(s))[i - (k - 1)]
      <4> DEFINE a == SubSeq(s, 1, k-1)
                 b == SubSeq(s, k+1, Len(s))
      <4>1. a \in Seq(S) /\ b \in Seq(S) /\ Len(a) = k - 1 /\ Len(b) = Len(s) - k
        BY <1>2, <3>1, <3>2
      <4>2. RemoveAt(s, k) = a \o b BY DEF RemoveAt
      <4> HIDE DEF a, b
      <4>3. (a \o b)[i] = b[i - Len(a)] BY <2>2, <3>0, <3>3, <4>1, Behind
      <4> QED BY <4>1, <4>2, <4>3 DEF b
    <3>5. SubSeq(s, k+1, Len(s))[i - (k - 1)] = s[i + 1]
      BY <1>1, <2>2, <3>3
    <3>6. i + 1 \in DOMAIN s BY <1>1, <3>0, <3>3
    <3> QED BY <3>4, <3>5, <3>6
  <2> QED BY <1>1, <1>3, <2>1, <2>2
<1> QED BY <1>3, <1>4 DEF IsSequence

LEMMA Remains ==
  ASSUME NEW s, IsSequence(s), NEW P \in SUBSET (DOMAIN s)
  PROVE  IsSequence(Remaining(s, P))
<1>1. PICK S : s \in Seq(S) BY DEF IsSequence
<1>2. IsFiniteSet(P)
  <2>1. DOMAIN s = 1 .. Len(s) /\ Len(s) \in Nat BY <1>1
  <2>2. IsFiniteSet(1 .. Len(s)) BY <2>1, FS_Interval
  <2> QED BY <2>1, <2>2, FS_Subset
<1>3. Cardinality(P) \in Nat BY <1>2, FS_CardinalityType
<1> DEFINE n == Cardinality(P)
           f(k) == s[CHOOSE i \in P : Cardinality({j \in P : j <= i}) = k]
           U == {f(k) : k \in 1 .. n}
<1>4. Remaining(s, P) = [k \in 1 .. n |-> f(k)] BY DEF Remaining
<1>5. \A k \in 1 .. n : f(k) \in U OBVIOUS
<1> HIDE DEF f, U, n
<1>6. [k \in 1 .. n |-> f(k)] \in Seq(U) BY <1>3, <1>5 DEF n
<1> QED BY <1>4, <1>6 DEF IsSequence

-----------------------------------------------------------------------------
(* Requests that leave.                                                    *)

\* The fields that tell how old an image is.
Knows(w, v) ==
    /\ v.doc = w.doc /\ v.turns = w.turns /\ v.generation = w.generation
    /\ v.versions = w.versions /\ v.revisions = w.revisions

\* Nothing but requests differs.
Same(w, v) ==
    /\ Knows(w, v)
    /\ v.cache = w.cache /\ v.shown = w.shown /\ v.drawn = w.drawn
    /\ v.open = w.open /\ v.pages = w.pages /\ v.at = w.at /\ v.screen = w.screen

\* Requests were answered, and others left.
Sends(w, v) ==
    \A i \in DOMAIN v.flight :
        \/ \E j \in DOMAIN w.flight : v.flight[i] = w.flight[j]
        \/ \E t : v.flight[i] = ThumbRequest(w, t)
        \/ \E d : v.flight[i] = ViewRequest(w, d)

\* What is no image is clean.
LEMMA NoImageIsClean ==
  ASSUME NEW w, NEW p
  PROVE  Clean(w, Blank, p) /\ Clean(w, Message, p) /\ Clean(w, NotYet, p)
BY DEF Clean, Blank, Message, NotYet

\* A request that leaves asks for what is known when it does.
LEMMA RequestFollows ==
  ASSUME NEW w, Window(w), NEW behind
  PROVE  /\ \A t : /\ ThumbRequest(w, t).who = "thumbs"
                   /\ Follows(w, ThumbRequest(w, t), w.versions, behind)
         /\ \A d : /\ ViewRequest(w, d).who = "view"
                   /\ Follows(w, ViewRequest(w, d), w.revisions, behind)
<1>1. ASSUME NEW t
      PROVE  /\ ThumbRequest(w, t).who = "thumbs"
             /\ Follows(w, ThumbRequest(w, t), w.versions, behind)
  <2> DEFINE r == ThumbRequest(w, t)
  <2>1. /\ r.who = "thumbs" /\ r.page = t.page /\ r.generation = w.generation
        /\ r.version = w.versions[t.page] /\ r.answer = NotYet /\ DOMAIN r = Request
    BY DEF ThumbRequest, Request
  <2> HIDE DEF r
  <2>2. Clean(w, r.answer, r.page)
    <3>1. r.answer = NotYet BY <2>1
    <3> QED BY <3>1, NoImageIsClean
  <2>3. Follows(w, r, w.versions, behind) BY <2>1, <2>2 DEF Follows, Window, Counts
  <2> QED BY <2>1, <2>3 DEF r
<1>2. ASSUME NEW d
      PROVE  /\ ViewRequest(w, d).who = "view"
             /\ Follows(w, ViewRequest(w, d), w.revisions, behind)
  <2> DEFINE r == ViewRequest(w, d)
  <2>1. /\ r.who = "view" /\ r.page = d.page /\ r.generation = w.generation
        /\ r.version = w.revisions[d.page] /\ r.answer = NotYet /\ DOMAIN r = Request
    BY DEF ViewRequest, Request
  <2> HIDE DEF r
  <2>2. Clean(w, r.answer, r.page)
    <3>1. r.answer = NotYet BY <2>1
    <3> QED BY <3>1, NoImageIsClean
  <2>3. Follows(w, r, w.revisions, behind) BY <2>1, <2>2 DEF Follows, Window, Counts
  <2> QED BY <2>1, <2>3 DEF r
<1> QED BY <1>1, <1>2

\* What follows one window follows another that knows the same.
LEMMA FollowsAlike ==
  ASSUME NEW w, NEW v, Knows(w, v), NEW r, NEW version, NEW behind,
         Follows(w, r, version, behind)
  PROVE  Follows(v, r, version, behind)
BY DEF Knows, Follows, Clean

LEMMA SendingKeeps ==
  ASSUME NEW w, NEW v, Window(w), Knows(w, v), Sends(w, v), NEW behind
  PROVE  /\ v.cache = w.cache /\ Thumbs(w, behind) => Thumbs(v, behind)
         /\ v.drawn = w.drawn /\ Views(w, behind) => Views(v, behind)
<1>1. \A image, p : Clean(w, image, p) => Clean(v, image, p) BY DEF Clean, Knows
<1>2. ASSUME v.cache = w.cache, Thumbs(w, behind) PROVE Thumbs(v, behind)
  <2>1. ASSUME NEW i \in DOMAIN v.flight, v.flight[i].who # "view"
        PROVE  Follows(v, v.flight[i], v.versions, behind)
    <3>1. Follows(w, v.flight[i], w.versions, behind)
      <4>1. CASE \E j \in DOMAIN w.flight : v.flight[i] = w.flight[j]
        BY <1>2, <2>1, <4>1 DEF Thumbs
      <4>2. CASE \E t : v.flight[i] = ThumbRequest(w, t)
        BY <4>2, RequestFollows
      <4>3. CASE \E d : v.flight[i] = ViewRequest(w, d)
        BY <2>1, <4>3, RequestFollows
      <4> QED BY <4>1, <4>2, <4>3 DEF Sends
    <3>2. v.versions = w.versions BY DEF Knows
    <3> QED BY <3>1, <3>2, FollowsAlike
  <2> QED BY <1>1, <1>2, <2>1 DEF Thumbs
<1>3. ASSUME v.drawn = w.drawn, Views(w, behind) PROVE Views(v, behind)
  <2>1. ASSUME NEW i \in DOMAIN v.flight, v.flight[i].who = "view"
        PROVE  Follows(v, v.flight[i], v.revisions, behind)
    <3>1. Follows(w, v.flight[i], w.revisions, behind)
      <4>1. CASE \E j \in DOMAIN w.flight : v.flight[i] = w.flight[j]
        BY <1>3, <2>1, <4>1 DEF Views
      <4>2. CASE \E t : v.flight[i] = ThumbRequest(w, t)
        BY <2>1, <4>2, RequestFollows
      <4>3. CASE \E d : v.flight[i] = ViewRequest(w, d)
        BY <4>3, RequestFollows
      <4> QED BY <4>1, <4>2, <4>3 DEF Sends
    <3>2. v.revisions = w.revisions BY DEF Knows
    <3> QED BY <3>1, <3>2, FollowsAlike
  <2> QED BY <1>1, <1>3, <2>1 DEF Views
<1> QED BY <1>2, <1>3

\* The tiles and the screen depend on nothing that is sent.
LEMMA SameKeeps ==
  ASSUME NEW w, NEW v, Same(w, v)
  PROVE  (Tiles(w) => Tiles(v)) /\ (Screen(w) => Screen(v))
BY DEF Same, Knows, Tiles, Screen, Clean, OnScreen

-----------------------------------------------------------------------------
(* The pumps.                                                              *)

LEMMA WakeSends ==
  ASSUME NEW w, Window(w)
  PROVE  Window(Wake(w)) /\ Same(w, Wake(w)) /\ Sends(w, Wake(w))
<1> DEFINE free == Slots(w) - Cardinality(SentBy(w, "thumbs"))
           n == IF free < 0 THEN 0 ELSE IF free < Len(w.queue) THEN free ELSE Len(w.queue)
           sent == [i \in 1 .. n |-> ThumbRequest(w, w.queue[i])]
           v == Wake(w)
<1>1. Len(w.queue) \in Nat BY DEF Window, IsSequence
<1>2. Cardinality(SentBy(w, "thumbs")) \in Nat
  <2>1. Len(w.flight) \in Nat /\ DOMAIN w.flight = 1 .. Len(w.flight)
    BY DEF Window, IsSequence
  <2>2. IsFiniteSet(1 .. Len(w.flight))
    <3>1. 1 \in Int /\ Len(w.flight) \in Int BY <2>1
    <3> QED BY <3>1, FS_Interval, Zenon
  <2>3. SentBy(w, "thumbs") \subseteq 1 .. Len(w.flight) BY <2>1 DEF SentBy
  <2> QED BY <2>2, <2>3, FS_Subset, FS_CardinalityType
<1>3. Slots(w) \in Nat BY ViewAssumption DEF Slots
<1>4. n \in Nat /\ n <= Len(w.queue) BY <1>1, <1>2, <1>3
<1>5. v = [w EXCEPT !.queue = SubSeq(w.queue, n + 1, Len(w.queue)), !.flight = w.flight \o sent]
  BY DEF Wake
<1>6. IsSequence(SubSeq(w.queue, n + 1, Len(w.queue)))
  <2>1. PICK S : w.queue \in Seq(S) BY DEF Window, IsSequence
  <2>2. SubSeq(w.queue, n + 1, Len(w.queue)) \in Seq(S) BY <1>1, <1>4, <2>1
  <2> QED BY <2>2 DEF IsSequence
<1>7. /\ IsSequence(w.flight \o sent)
      /\ \A i \in DOMAIN (w.flight \o sent) :
            \/ i \in DOMAIN w.flight /\ (w.flight \o sent)[i] = w.flight[i]
            \/ \E j \in 1 .. n : (w.flight \o sent)[i] = sent[j]
  <2>1. DOMAIN sent = 1 .. n /\ sent = [i \in 1 .. n |-> sent[i]] OBVIOUS
  <2>2. IsSequence(w.flight) BY DEF Window
  <2> HIDE DEF sent, n
  <2> QED BY <1>4, <2>1, <2>2, Joined
<1>8. \A j \in 1 .. n : \E t : sent[j] = ThumbRequest(w, t) OBVIOUS
<1> HIDE DEF n, sent, free, v
<1>9. /\ DOMAIN v = Fields
      /\ v.queue = SubSeq(w.queue, n + 1, Len(w.queue)) /\ v.flight = w.flight \o sent
  BY <1>5 DEF Window, Fields
<1>10. Same(w, v) /\ v.order = w.order
  BY <1>5 DEF Window, Fields, Same, Knows
<1>11. Window(v) BY <1>6, <1>7, <1>9, <1>10 DEF Window, Same, Knows
<1>12. Sends(w, v) BY <1>7, <1>8, <1>9 DEF Sends
<1> QED BY <1>10, <1>11, <1>12 DEF v

LEMMA PumpSends ==
  ASSUME NEW w, Window(w)
  PROVE  Window(Pump(w)) /\ Same(w, Pump(w)) /\ Sends(w, Pump(w))
<1>1. CASE Pump(w) = w
  BY <1>1 DEF Same, Knows, Sends
<1>2. CASE Pump(w) = Wake(w)
  BY <1>2, WakeSends
<1>3. ASSUME NEW d, Pump(w) = [w EXCEPT !.flight = Append(w.flight, ViewRequest(w, d))]
      PROVE  Window(Pump(w)) /\ Same(w, Pump(w)) /\ Sends(w, Pump(w))
  <2> DEFINE v == Pump(w)
  <2>1. /\ IsSequence(Append(w.flight, ViewRequest(w, d)))
        /\ \A i \in DOMAIN Append(w.flight, ViewRequest(w, d)) :
              \/ i \in DOMAIN w.flight
                 /\ Append(w.flight, ViewRequest(w, d))[i] = w.flight[i]
              \/ Append(w.flight, ViewRequest(w, d))[i] = ViewRequest(w, d)
    BY Added DEF Window
  <2>2. v = [w EXCEPT !.flight = Append(w.flight, ViewRequest(w, d))] BY <1>3
  <2> HIDE DEF v
  <2>3. /\ DOMAIN v = Fields /\ v.flight = Append(w.flight, ViewRequest(w, d))
        /\ v.queue = w.queue /\ v.order = w.order /\ Same(w, v)
    BY <2>2 DEF Window, Fields, Same, Knows
  <2>4. Window(v) BY <2>1, <2>3 DEF Window, Same, Knows
  <2>5. Sends(w, v) BY <2>1, <2>3 DEF Sends
  <2> QED BY <2>3, <2>4, <2>5 DEF v
<1> QED BY <1>1, <1>2, <1>3 DEF Pump

\* What the pumps send is asked for as the window stands.
Keeps(w, v) ==
    /\ Window(v)
    /\ \A behind : /\ Thumbs(w, behind) => Thumbs(v, behind)
                   /\ Views(w, behind) => Views(v, behind)
    /\ Tiles(w) => Tiles(v)
    /\ Screen(w) => Screen(v)
    /\ Told(w, v)

LEMMA PumpsKeep ==
  ASSUME NEW w, Window(w)
  PROVE  Keeps(w, Wake(w)) /\ Keeps(w, Pump(w))
<1>1. ASSUME NEW v, Window(v), Same(w, v), Sends(w, v) PROVE Keeps(w, v)
  <2>1. Knows(w, v) /\ v.cache = w.cache /\ v.drawn = w.drawn BY <1>1 DEF Same
  <2>2. Told(w, v) BY <2>1 DEF Knows, Told
  <2> QED BY <1>1, <2>1, <2>2, SendingKeeps, SameKeeps DEF Keeps
<1> QED BY <1>1, WakeSends, PumpSends

-----------------------------------------------------------------------------
(* What the window does to its images.                                     *)

\* The thumbnails of the pages invalidated are no longer behind: what was
\* asked for before is of an earlier version.
LEMMA InvalidateKeeps ==
  ASSUME NEW w, Window(w), NEW P, Thumbs(w, P), Views(w, P),
         w.open /\ OnScreen(w) \notin P => Screen(w)
  PROVE  LET v == Invalidate(w, P) IN
            /\ Window(v) /\ Thumbs(v, {}) /\ Views(v, P) /\ Told(w, v)
            /\ v.open /\ OnScreen(v) \notin P => Screen(v)
<1> DEFINE v == Invalidate(w, P)
           left == Remaining(w.queue, {i \in DOMAIN w.queue : w.queue[i].page \notin P})
           next == [p \in SourcePages |-> IF p \in P THEN w.versions[p] + 1 ELSE w.versions[p]]
           kept == [p \in SourcePages |-> IF p \in P THEN Blank ELSE w.cache[p]]
<1>1. v = [w EXCEPT !.cache = kept, !.failed = w.failed \ P, !.versions = next, !.queue = left]
  BY DEF Invalidate
<1>2. IsSequence(left) BY Remains DEF Window
<1>3. next \in Counts BY DEF Counts, Window
<1> HIDE DEF v, left, next, kept
<1>4. /\ DOMAIN v = Fields /\ v.cache = kept /\ v.versions = next /\ v.queue = left
      /\ v.flight = w.flight /\ v.doc = w.doc /\ v.turns = w.turns /\ v.order = w.order
      /\ v.generation = w.generation /\ v.revisions = w.revisions /\ v.shown = w.shown
      /\ v.drawn = w.drawn /\ v.open = w.open /\ v.pages = w.pages /\ v.at = w.at
      /\ v.screen = w.screen
  BY <1>1 DEF Window, Fields
<1>5. Window(v) BY <1>2, <1>3, <1>4 DEF Window, kept
<1>6. \A image, p : Clean(w, image, p) <=> Clean(v, image, p) BY <1>4 DEF Clean
<1>7. Thumbs(v, {})
  <2>1. \A p \in SourcePages : Clean(v, v.cache[p], p)
    BY <1>4, <1>6, NoImageIsClean DEF Thumbs, kept
  <2>2. ASSUME NEW i \in DOMAIN v.flight, v.flight[i].who # "view"
        PROVE  Follows(v, v.flight[i], v.versions, {})
    <3>1. Follows(w, v.flight[i], w.versions, P) BY <1>4, <2>2 DEF Thumbs
    <3>2. \A p \in SourcePages : /\ w.versions[p] \in Nat
                                 /\ v.versions[p] = IF p \in P THEN w.versions[p] + 1
                                                    ELSE w.versions[p]
      BY <1>4 DEF next, Window, Counts
    <3> QED BY <1>4, <1>6, <3>1, <3>2 DEF Follows
  <2> QED BY <2>1, <2>2 DEF Thumbs
<1>8. Views(v, P)
  <2>1. \A p \in SourcePages \ P : Clean(v, v.drawn[p].image, p) BY <1>4, <1>6 DEF Views
  <2>2. \A r : Follows(w, r, w.revisions, P) => Follows(v, r, v.revisions, P)
    BY <1>4, <1>6 DEF Follows
  <2> QED BY <1>4, <2>1, <2>2 DEF Views
<1>9. v.open /\ OnScreen(v) \notin P => Screen(v)
  BY <1>4, <1>6 DEF Screen, OnScreen
<1>10. Told(w, v) BY <1>4 DEF Told
<1> QED BY <1>5, <1>7, <1>8, <1>9, <1>10 DEF v

\* The page on screen is one of the document.
LEMMA OnScreenIsAPage ==
  ASSUME NEW w, Window(w), w.open
  PROVE  OnScreen(w) \in SourcePages
BY DEF Window, OnScreen

\* What is drawn around the page on screen is kept, the rest forgotten.
LEMMA ForgetFarKeeps ==
  ASSUME NEW w, Window(w), Thumbs(w, {}), Views(w, {})
  PROVE  LET v == ForgetFar(w) IN
            /\ Window(v) /\ Thumbs(v, {}) /\ Views(v, {}) /\ Told(w, v)
            /\ v.open = w.open /\ OnScreen(v) = OnScreen(w)
            /\ Tiles(w) => Tiles(v)
            /\ Screen(w) => Screen(v)
<1> DEFINE v == ForgetFar(w)
<1>1. PICK near : v = [w EXCEPT !.drawn = [p \in SourcePages |-> IF p \in near THEN w.drawn[p]
                                                                ELSE NotDrawn]]
  BY DEF ForgetFar
<1> HIDE DEF v
<1>2. /\ DOMAIN v = Fields /\ Knows(w, v) /\ v.cache = w.cache /\ v.shown = w.shown
      /\ v.queue = w.queue /\ v.flight = w.flight /\ v.order = w.order
      /\ v.open = w.open /\ v.pages = w.pages /\ v.at = w.at /\ v.screen = w.screen
      /\ v.drawn = [p \in SourcePages |-> IF p \in near THEN w.drawn[p] ELSE NotDrawn]
  BY <1>1 DEF Window, Fields, Knows
<1>3. Window(v) BY <1>2 DEF Window, Knows
<1>4. \A image, p : Clean(w, image, p) => Clean(v, image, p) BY <1>2 DEF Clean, Knows
<1>5. Sends(w, v) BY <1>2 DEF Sends
<1>6. Thumbs(v, {}) BY <1>2, <1>5, SendingKeeps
<1>7. Views(v, {})
  <2>1. ASSUME NEW p \in SourcePages PROVE Clean(v, v.drawn[p].image, p)
    <3>1. CASE v.drawn[p] = w.drawn[p] BY <1>4, <3>1 DEF Views
    <3>2. CASE v.drawn[p] = NotDrawn
      <4>1. v.drawn[p].image = Blank BY <3>2 DEF NotDrawn
      <4> QED BY <4>1, NoImageIsClean
    <3> QED BY <1>2, <3>1, <3>2
  <2>2. ASSUME NEW i \in DOMAIN v.flight, v.flight[i].who = "view"
        PROVE  Follows(v, v.flight[i], v.revisions, {})
    <3>1. Follows(w, v.flight[i], w.revisions, {}) BY <1>2, <2>2 DEF Views
    <3> QED BY <1>2, <3>1, FollowsAlike DEF Knows
  <2> QED BY <2>1, <2>2 DEF Views
<1>8. /\ v.open = w.open /\ OnScreen(v) = OnScreen(w)
      /\ Tiles(w) => Tiles(v)
      /\ Screen(w) => Screen(v)
  BY <1>2, <1>4 DEF Tiles, Screen, OnScreen
<1>9. Told(w, v) BY <1>2 DEF Told, Knows
<1> QED BY <1>3, <1>6, <1>7, <1>8, <1>9 DEF v

\* The best image at hand is clean.
LEMMA BestIsClean ==
  ASSUME NEW w, Window(w), Thumbs(w, {}), Views(w, {}), NEW p \in SourcePages
  PROVE  Clean(w, BestOf(w, p), p)
<1>1. Clean(w, w.drawn[p].image, p) BY DEF Views
<1>2. Clean(w, w.cache[p], p) BY DEF Thumbs
<1> QED BY <1>1, <1>2, NoImageIsClean DEF BestOf

LEMMA ShowKeeps ==
  ASSUME NEW w, Window(w), Thumbs(w, {}), Views(w, {}), w.open
  PROVE  Stays(w, Show(w))
<1> DEFINE kept == ForgetFar(w)
           what == BestOf(kept, OnScreen(w))
           v == [kept EXCEPT !.screen = [page |-> OnScreen(w), what |-> what]]
<1>1. /\ Window(kept) /\ Thumbs(kept, {}) /\ Views(kept, {}) /\ Told(w, kept)
      /\ kept.open /\ OnScreen(kept) = OnScreen(w)
      /\ Tiles(w) => Tiles(kept)
  BY ForgetFarKeeps
<1>2. OnScreen(w) \in SourcePages BY OnScreenIsAPage
<1>3. Show(w) = Pump(v) BY DEF Show
<1>4. Clean(kept, what, OnScreen(w)) BY <1>1, <1>2, BestIsClean
<1>5. v = [kept EXCEPT !.screen = [page |-> OnScreen(w), what |-> what]] OBVIOUS
<1> HIDE DEF kept, what, v
<1>6. /\ DOMAIN v = Fields /\ Knows(kept, v) /\ v.cache = kept.cache /\ v.shown = kept.shown
      /\ v.queue = kept.queue /\ v.flight = kept.flight /\ v.order = kept.order
      /\ v.open = kept.open /\ v.pages = kept.pages /\ v.at = kept.at
      /\ v.drawn = kept.drawn
      /\ v.screen = [page |-> OnScreen(w), what |-> what]
  BY <1>1, <1>5 DEF Window, Fields, Knows
<1>7. Window(v) BY <1>1, <1>6 DEF Window, Knows
<1>8. Sends(kept, v) BY <1>6 DEF Sends
<1>9. Thumbs(v, {}) /\ Views(v, {}) BY <1>1, <1>6, <1>8, SendingKeeps
<1>10. Screen(v)
  <2>1. OnScreen(v) = OnScreen(w) BY <1>1, <1>6 DEF OnScreen
  <2>2. v.screen.page = OnScreen(w) /\ v.screen.what = what BY <1>6
  <2>3. Clean(v, what, OnScreen(w)) BY <1>4, <1>6 DEF Clean, Knows
  <2> QED BY <2>1, <2>2, <2>3 DEF Screen
<1>11. Tiles(w) => Tiles(v) BY <1>1, <1>6 DEF Tiles, Clean, Knows
<1>12. Keeps(v, Pump(v)) BY <1>7, PumpsKeep
<1>13. Told(w, v) BY <1>1, <1>6 DEF Told, Knows
<1> QED BY <1>3, <1>7, <1>9, <1>10, <1>11, <1>12, <1>13 DEF Keeps, Drawn, Stays, Told

\* The drawings of the pages changed are no longer behind.
LEMMA PagesChangedKeeps ==
  ASSUME NEW w, Window(w), NEW P, Thumbs(w, {}), Views(w, P),
         w.open /\ OnScreen(w) \notin P => Screen(w)
  PROVE  Drawn(PagesChanged(w, P)) /\ Told(w, PagesChanged(w, P))
<1> DEFINE left == [p \in SourcePages |-> IF p \in P THEN NotDrawn ELSE w.drawn[p]]
           next == [p \in SourcePages |-> IF p \in P THEN w.revisions[p] + 1 ELSE w.revisions[p]]
           v == [w EXCEPT !.drawn = left, !.unreadable = w.unreadable \ P, !.revisions = next]
<1>1. PagesChanged(w, P) = IF v.open /\ OnScreen(v) \in P THEN Show(v) ELSE Pump(v)
  BY DEF PagesChanged, OnScreen, Window, Fields
<1>2. v = [w EXCEPT !.drawn = left, !.unreadable = w.unreadable \ P, !.revisions = next]
  OBVIOUS
<1>3. next \in Counts BY DEF Counts, Window
<1> HIDE DEF v, left, next
<1>4. /\ DOMAIN v = Fields /\ v.drawn = left /\ v.revisions = next
      /\ v.queue = w.queue /\ v.flight = w.flight /\ v.doc = w.doc /\ v.turns = w.turns
      /\ v.order = w.order /\ v.generation = w.generation /\ v.versions = w.versions
      /\ v.cache = w.cache /\ v.shown = w.shown /\ v.open = w.open /\ v.pages = w.pages
      /\ v.at = w.at /\ v.screen = w.screen
  BY <1>2 DEF Window, Fields
<1>5. Window(v) BY <1>3, <1>4 DEF Window, left
<1>6. \A image, p : Clean(w, image, p) <=> Clean(v, image, p) BY <1>4 DEF Clean
<1>7. Thumbs(v, {})
  <2>1. \A r : Follows(w, r, w.versions, {}) => Follows(v, r, v.versions, {})
    BY <1>4, <1>6 DEF Follows
  <2> QED BY <1>4, <1>6, <2>1 DEF Thumbs
<1>8. Views(v, {})
  <2>1. ASSUME NEW p \in SourcePages PROVE Clean(v, v.drawn[p].image, p)
    <3>1. CASE p \in P
      <4>1. v.drawn[p].image = Blank BY <1>4, <3>1 DEF left, NotDrawn
      <4> QED BY <4>1, NoImageIsClean
    <3>2. CASE p \notin P BY <1>4, <1>6, <3>2 DEF left, Views
    <3> QED BY <3>1, <3>2
  <2>2. ASSUME NEW i \in DOMAIN v.flight, v.flight[i].who = "view"
        PROVE  Follows(v, v.flight[i], v.revisions, {})
    <3>1. Follows(w, v.flight[i], w.revisions, P) BY <1>4, <2>2 DEF Views
    <3>2. \A p \in SourcePages : /\ w.revisions[p] \in Nat
                                 /\ v.revisions[p] = IF p \in P THEN w.revisions[p] + 1
                                                     ELSE w.revisions[p]
      BY <1>4 DEF next, Window, Counts
    <3> QED BY <1>4, <1>6, <3>1, <3>2 DEF Follows
  <2> QED BY <2>1, <2>2 DEF Views
<1>9. CASE v.open /\ OnScreen(v) \in P
  <2>1. Stays(v, Show(v)) BY <1>5, <1>7, <1>8, <1>9, ShowKeeps
  <2> QED BY <1>1, <1>4, <1>9, <2>1 DEF Stays, Told
<1>10. CASE ~(v.open /\ OnScreen(v) \in P)
  <2>1. Screen(v) BY <1>4, <1>6, <1>10 DEF Screen, OnScreen
  <2>2. Keeps(v, Pump(v)) BY <1>5, PumpsKeep
  <2> QED BY <1>1, <1>4, <1>7, <1>8, <1>10, <2>1, <2>2 DEF Keeps, Drawn, Told
<1> QED BY <1>9, <1>10

\* The grid built again shows the thumbnails kept.
LEMMA RenderGridKeeps ==
  ASSUME NEW w, Drawn(w), NEW order \in Seq(SourcePages)
  PROVE  LET v == RenderGrid(w, order) IN Drawn(v) /\ Tiles(v) /\ Told(w, v)
<1> DEFINE found(p) == IF w.cache[p] # Blank THEN w.cache[p]
                       ELSE IF p \in w.failed THEN Message ELSE Blank
           new == {Tile(p, w.build + 1) : p \in {p \in ToSet(order) : found(p) = Blank}}
           tiles == [p \in SourcePages |-> IF p \in ToSet(order) THEN found(p) ELSE Blank]
           v == RenderGrid(w, order)
<1>1. v = [w EXCEPT !.order = order, !.build = w.build + 1, !.shown = tiles,
                    !.watched = [t \in new \cup InViewOf(w.watched) |->
                                    IF t \in new THEN "out" ELSE "in"]]
  BY DEF RenderGrid
<1>2. \A p \in SourcePages : Clean(w, tiles[p], p)
  BY NoImageIsClean DEF Drawn, Thumbs
<1>0. DOMAIN tiles = SourcePages OBVIOUS
<1> HIDE DEF found, new, tiles, v
<1>3. /\ DOMAIN v = Fields /\ v.order = order /\ v.shown = tiles /\ Knows(w, v)
      /\ v.queue = w.queue /\ v.flight = w.flight /\ v.cache = w.cache
      /\ v.drawn = w.drawn /\ v.open = w.open /\ v.pages = w.pages
      /\ v.at = w.at /\ v.screen = w.screen
  BY <1>1 DEF Drawn, Window, Fields, Knows
<1>4. Window(v) BY <1>0, <1>3 DEF Drawn, Window, Knows
<1>5. Tiles(v) BY <1>0, <1>2, <1>3 DEF Tiles, Clean, Knows
<1>6. Sends(w, v) BY <1>3 DEF Sends
<1>7. Thumbs(v, {}) /\ Views(v, {}) BY <1>3, <1>6, SendingKeeps DEF Drawn
<1>8. Screen(v) BY <1>3 DEF Drawn, Screen, OnScreen, Clean, Knows
<1>9. Told(w, v) BY <1>3 DEF Told, Knows
<1> QED BY <1>4, <1>5, <1>7, <1>8, <1>9 DEF Drawn, v

\* A rotation told leaves nothing behind.
LEMMA EditedKeeps ==
  ASSUME NEW w, Window(w), NEW P, Thumbs(w, P), Views(w, P),
         w.open /\ OnScreen(w) \notin P => Screen(w)
  PROVE  LET v == Edited(w, P) IN Drawn(v) /\ Tiles(v) /\ Told(w, v)
<1> DEFINE v == Invalidate(w, P)
           u == PagesChanged(v, P)
<1>1. /\ Window(v) /\ Thumbs(v, {}) /\ Views(v, P) /\ Told(w, v)
      /\ v.open /\ OnScreen(v) \notin P => Screen(v)
  BY InvalidateKeeps
<1>2. Edited(w, P) = RenderGrid(u, w.order) BY DEF Edited
<1> HIDE DEF v
<1>3. Drawn(u) /\ Told(v, u) BY <1>1, PagesChangedKeeps
<1>4. w.order \in Seq(SourcePages) BY DEF Window
<1> HIDE DEF u
<1>5. LET z == RenderGrid(u, w.order) IN Drawn(z) /\ Tiles(z) /\ Told(u, z)
  BY <1>3, <1>4, RenderGridKeeps
<1> QED BY <1>1, <1>2, <1>3, <1>5 DEF Told

\* What the window is told of a rotation makes the pages turned late.
LEMMA TurnsKnown ==
  ASSUME NEW w, Drawn(w), NEW P, NEW v,
         v = [w EXCEPT !.turns = [p \in SourcePages |->
                 IF p \in P THEN w.turns[p] + 1 ELSE w.turns[p]]]
  PROVE  /\ Window(v) /\ Thumbs(v, P) /\ Views(v, P)
         /\ v.open /\ OnScreen(v) \notin P => Screen(v)
<1> DEFINE next == [p \in SourcePages |-> IF p \in P THEN w.turns[p] + 1 ELSE w.turns[p]]
<1>1. v = [w EXCEPT !.turns = next] OBVIOUS
<1>2. next \in Counts BY DEF Counts, Drawn, Window
<1>3. \A p \in SourcePages \ P : next[p] = w.turns[p] OBVIOUS
<1> HIDE DEF next
<1>4. /\ DOMAIN v = Fields /\ v.turns = next
      /\ v.queue = w.queue /\ v.flight = w.flight /\ v.doc = w.doc /\ v.revisions = w.revisions
      /\ v.order = w.order /\ v.generation = w.generation /\ v.versions = w.versions
      /\ v.cache = w.cache /\ v.shown = w.shown /\ v.open = w.open /\ v.pages = w.pages
      /\ v.at = w.at /\ v.screen = w.screen /\ v.drawn = w.drawn
  BY <1>1 DEF Drawn, Window, Fields
<1>5. Window(v) BY <1>2, <1>4 DEF Drawn, Window
<1>6. \A image : \A p \in SourcePages \ P : Clean(w, image, p) => Clean(v, image, p)
  BY <1>3, <1>4 DEF Clean
<1>7. \A r, version : Follows(w, r, version, {}) => Follows(v, r, version, P)
  BY <1>4, <1>6 DEF Follows
<1>8. Thumbs(v, P) BY <1>4, <1>6, <1>7 DEF Drawn, Thumbs
<1>9. Views(v, P) BY <1>4, <1>6, <1>7 DEF Drawn, Views
<1>10. v.open /\ OnScreen(v) \notin P => Screen(v)
  <2>1. v.open => OnScreen(v) \in SourcePages BY <1>5, OnScreenIsAPage
  <2> QED BY <1>4, <1>6, <2>1 DEF Drawn, Screen, OnScreen
<1> QED BY <1>5, <1>8, <1>9, <1>10

-----------------------------------------------------------------------------
(* The window's own steps.                                                 *)

\* Nothing differs that says what an image shows.
Plain(w, v) ==
    /\ DOMAIN v = Fields /\ Knows(w, v)
    /\ v.cache = w.cache /\ v.shown = w.shown /\ v.drawn = w.drawn
    /\ v.order = w.order /\ v.flight = w.flight /\ IsSequence(v.queue)

LEMMA PlainKeeps ==
  ASSUME NEW w, Window(w), Thumbs(w, {}), Views(w, {}), NEW v, Plain(w, v),
         v.pages \in Seq(SourcePages), v.open => v.at \in DOMAIN v.pages
  PROVE  /\ Window(v) /\ Thumbs(v, {}) /\ Views(v, {})
         /\ Tiles(w) => Tiles(v)
<1>1. Window(v) BY DEF Plain, Knows, Window
<1>2. Sends(w, v) BY DEF Plain, Sends
<1>3. Thumbs(v, {}) /\ Views(v, {}) BY <1>2, SendingKeeps DEF Plain
<1>4. Tiles(w) => Tiles(v) BY DEF Plain, Knows, Tiles, Clean
<1> QED BY <1>1, <1>3, <1>4

\* With the same page on screen, or the view closed, the screen stands.
LEMMA StillKeeps ==
  ASSUME NEW w, Drawn(w), NEW v, Plain(w, v), v.pages = w.pages, v.at = w.at,
         v.screen = w.screen, v.open => w.open
  PROVE  Stays(w, v)
<1>1. v.pages \in Seq(SourcePages) /\ (v.open => v.at \in DOMAIN v.pages)
  BY DEF Drawn, Window
<1>2. /\ Window(v) /\ Thumbs(v, {}) /\ Views(v, {})
      /\ Tiles(w) => Tiles(v)
  BY <1>1, PlainKeeps DEF Drawn
<1>3. Screen(v) BY DEF Drawn, Screen, OnScreen, Clean, Plain, Knows
<1>4. Told(w, v) BY DEF Told, Plain, Knows
<1> QED BY <1>2, <1>3, <1>4 DEF Drawn, Stays

\* After the pumps, too.
LEMMA PumpedKeeps ==
  ASSUME NEW w, Drawn(w)
  PROVE  Stays(w, Wake(w)) /\ Stays(w, Pump(w))
BY PumpsKeep DEF Drawn, Keeps, Stays

LEMMA HideKeeps ==
  ASSUME NEW w, Drawn(w)
  PROVE  Stays(w, Hide(w))
<1> DEFINE v == Hide(w)
<1>1. v = [w EXCEPT !.open = FALSE, !.settling = FALSE, !.resizing = FALSE] BY DEF Hide
<1> HIDE DEF v
<1>2. /\ Plain(w, v) /\ v.pages = w.pages /\ v.at = w.at /\ v.screen = w.screen
      /\ ~v.open
  BY <1>1 DEF Drawn, Window, Fields, Plain, Knows
<1> QED BY <1>2, StillKeeps DEF v

LEMMA WantKeeps ==
  ASSUME NEW w, Drawn(w), NEW t
  PROVE  Stays(w, Want(w, t))
<1> DEFINE v == [w EXCEPT !.queue = <<t>> \o w.queue]
<1>1. Want(w, t) = w \/ Want(w, t) = Wake(v) BY DEF Want
<1>2. IsSequence(<<t>> \o w.queue)
  <2>1. PICK S : w.queue \in Seq(S) BY DEF Drawn, Window, IsSequence
  <2>2. <<t>> \in Seq(S \cup {t}) /\ w.queue \in Seq(S \cup {t}) BY <2>1
  <2> QED BY <2>2 DEF IsSequence
<1>3. v = [w EXCEPT !.queue = <<t>> \o w.queue] OBVIOUS
<1> HIDE DEF v
<1>4. /\ Plain(w, v) /\ v.pages = w.pages /\ v.at = w.at /\ v.screen = w.screen
      /\ v.open = w.open
  BY <1>2, <1>3 DEF Drawn, Window, Fields, Plain, Knows
<1>5. Stays(w, v) BY <1>4, StillKeeps
<1>6. Stays(v, Wake(v)) BY <1>5, PumpedKeeps DEF Stays
<1>7. Stays(w, w) BY DEF Stays, Told
<1> QED BY <1>1, <1>5, <1>6, <1>7 DEF Stays, Told

LEMMA ForgetKeeps ==
  ASSUME NEW w, Drawn(w), NEW t
  PROVE  Stays(w, Forget(w, t))
<1> DEFINE left == Remaining(w.queue, {i \in DOMAIN w.queue : w.queue[i] # t})
           v == Forget(w, t)
<1>1. IsSequence(left) BY Remains DEF Drawn, Window
<1>2. v = [w EXCEPT !.queue = left] BY DEF Forget
<1> HIDE DEF v, left
<1>3. /\ Plain(w, v) /\ v.pages = w.pages /\ v.at = w.at /\ v.screen = w.screen
      /\ v.open = w.open
  BY <1>1, <1>2 DEF Drawn, Window, Fields, Plain, Knows
<1> QED BY <1>3, StillKeeps DEF v

\* A document that comes leaves nothing of the one before: what was asked
\* for is of an earlier generation.
LEMMA LoadedKeeps ==
  ASSUME NEW w, DOMAIN w = Fields, IsSequence(w.flight), w.order \in Seq(SourcePages),
         w.pages \in Seq(SourcePages), w.generation \in Nat,
         \A i \in DOMAIN w.flight : /\ DOMAIN w.flight[i] = Request
                                    /\ w.flight[i].generation \in Nat
                                    /\ w.flight[i].generation <= w.generation,
         NEW doc \in Nat
  PROVE  LET v == Loaded(w, doc) IN
            Drawn(v) /\ Tiles(v) /\ v.doc = doc /\ v.turns = NoTurns
<1> DEFINE blank == [p \in SourcePages |-> Blank]
           bare == [p \in SourcePages |-> NotDrawn]
           v == [w EXCEPT
            !.doc = doc, !.turns = NoTurns, !.generation = w.generation + 1,
            !.cache = blank, !.failed = {}, !.versions = NoTurns,
            !.queue = << >>, !.watched = << >>,
            !.drawn = bare, !.unreadable = {}, !.revisions = NoTurns]
           u == Hide(v)
           late == << >>
<1>1. Loaded(w, doc) = RenderGrid(Wake(u), FileOrder) BY DEF Loaded
<1>2. u = [v EXCEPT !.open = FALSE, !.settling = FALSE, !.resizing = FALSE] BY DEF Hide
<1>3. NoTurns \in Counts BY DEF NoTurns, Counts
<1>4. IsSequence(late) BY DEF IsSequence
<1>5. v = [w EXCEPT
            !.doc = doc, !.turns = NoTurns, !.generation = w.generation + 1,
            !.cache = blank, !.failed = {}, !.versions = NoTurns,
            !.queue = late, !.watched = late,
            !.drawn = bare, !.unreadable = {}, !.revisions = NoTurns]
  OBVIOUS
<1>6. DOMAIN blank = SourcePages /\ DOMAIN bare = SourcePages OBVIOUS
<1>7. \A p \in SourcePages : blank[p] = Blank /\ bare[p].image = Blank BY DEF NotDrawn
<1> HIDE DEF v, u, late, blank, bare
<1>8. /\ DOMAIN v = Fields /\ v.doc = doc /\ v.turns = NoTurns
      /\ v.generation = w.generation + 1 /\ v.cache = blank /\ v.versions = NoTurns
      /\ v.queue = late /\ v.drawn = bare /\ v.revisions = NoTurns
      /\ v.flight = w.flight /\ v.pages = w.pages /\ v.order = w.order /\ v.shown = w.shown
  BY <1>5 DEF Fields
<1>9. /\ DOMAIN u = Fields /\ u.doc = doc /\ u.turns = NoTurns
      /\ u.generation = w.generation + 1 /\ u.cache = blank /\ u.versions = NoTurns
      /\ u.queue = late /\ u.drawn = bare /\ u.revisions = NoTurns
      /\ u.flight = w.flight /\ u.pages = w.pages /\ u.order = w.order /\ u.open = FALSE
  BY <1>2, <1>8 DEF Fields
<1>10. Window(u) BY <1>3, <1>4, <1>6, <1>9 DEF Window
<1>11. \A i \in DOMAIN u.flight : \A version : Follows(u, u.flight[i], version, {})
  BY <1>9 DEF Follows
<1>12. Thumbs(u, {})
  <2>1. \A p \in SourcePages : Clean(u, u.cache[p], p) BY <1>7, <1>9, NoImageIsClean
  <2> QED BY <1>11, <2>1 DEF Thumbs
<1>13. Views(u, {})
  <2>1. \A p \in SourcePages : Clean(u, u.drawn[p].image, p) BY <1>7, <1>9, NoImageIsClean
  <2> QED BY <1>11, <2>1 DEF Views
<1>14. Drawn(u) BY <1>9, <1>10, <1>12, <1>13 DEF Drawn, Screen
<1>15. Drawn(Wake(u)) /\ Told(u, Wake(u)) BY <1>14, PumpedKeeps DEF Stays
<1>16. LET z == RenderGrid(Wake(u), FileOrder) IN Drawn(z) /\ Tiles(z) /\ Told(Wake(u), z)
  BY <1>15, ViewAssumption, RenderGridKeeps
<1> QED BY <1>1, <1>9, <1>15, <1>16 DEF Told

\* The window opens on a document.
LEMMA NewWindowIsClean ==
  ASSUME NEW enabled, NEW panel
  PROVE  LET v == NewWindow(enabled, panel) IN
            Drawn(v) /\ Tiles(v) /\ v.doc = 1 /\ v.turns = NoTurns
<1> DEFINE none == << >>
           w == [doc |-> 0, turns |-> NoTurns, enabled |-> enabled, panel |-> panel,
                 order |-> FileOrder, build |-> 0, shown |-> none, watched |-> none,
                 cache |-> none, failed |-> {}, queue |-> none, versions |-> NoTurns,
                 generation |-> 0, flight |-> none,
                 open |-> FALSE, pages |-> FileOrder, at |-> 1, room |-> Max(Rooms),
                 zoom |-> 1, settling |-> FALSE, resizing |-> FALSE, drawn |-> none,
                 unreadable |-> {}, revisions |-> NoTurns,
                 screen |-> [page |-> 0, what |-> Message]]
<1>1. NewWindow(enabled, panel) = Loaded(w, 1) BY DEF NewWindow
<1>2. IsSequence(none) /\ DOMAIN none = {} BY DEF IsSequence
<1> HIDE DEF none
<1>3. /\ DOMAIN w = Fields /\ w.flight = none /\ w.order = FileOrder
      /\ w.pages = FileOrder /\ w.generation = 0
  BY DEF Fields
<1> HIDE DEF w
<1> QED BY <1>1, <1>2, <1>3, ViewAssumption, LoadedKeeps

\* An answer for a page as it was changes nothing; one for the page as it
\* is known is clean.
LEMMA ThumbAnsweredKeeps ==
  ASSUME NEW w, Drawn(w), Tiles(w), NEW r, Follows(w, r, w.versions, {})
  PROVE  Stays(w, ThumbAnswered(w, r))
<1> DEFINE p == r.page
           shown == IF InGrid(w, r.tile) THEN [w.shown EXCEPT ![p] = r.answer] ELSE w.shown
           v == ThumbAnswered(w, r)
           cache == [w.cache EXCEPT ![p] = r.answer]
<1>1. CASE v = w BY <1>1 DEF Stays, Told
<1>2. CASE v # w
  <2>1. r.generation = w.generation /\ r.version = w.versions[p]
    BY <1>2 DEF ThumbAnswered
  <2>2. p \in SourcePages => Clean(w, r.answer, p) BY <2>1 DEF Follows
  <2>3. \/ v = [w EXCEPT !.failed = w.failed \cup {p}, !.shown = shown]
        \/ v = [w EXCEPT !.cache = cache, !.shown = shown]
    BY <1>2 DEF ThumbAnswered
  <2>4. /\ DOMAIN shown = SourcePages /\ DOMAIN cache = SourcePages
        /\ \A q \in SourcePages : Clean(w, shown[q], q) /\ Clean(w, cache[q], q)
    BY <2>2 DEF Drawn, Thumbs, Tiles, Window
  <2> HIDE DEF shown, v, cache
  <2>5. /\ DOMAIN v = Fields /\ Knows(w, v) /\ (v.cache = w.cache \/ v.cache = cache)
        /\ v.shown = shown /\ v.queue = w.queue /\ v.flight = w.flight /\ v.drawn = w.drawn
        /\ v.order = w.order /\ v.open = w.open /\ v.pages = w.pages /\ v.at = w.at
        /\ v.screen = w.screen
    <3>1. CASE v = [w EXCEPT !.failed = w.failed \cup {p}, !.shown = shown]
      BY <3>1 DEF Drawn, Window, Fields, Knows
    <3>2. CASE v = [w EXCEPT !.cache = cache, !.shown = shown]
      BY <3>2 DEF Drawn, Window, Fields, Knows
    <3> QED BY <2>3, <3>1, <3>2
  <2>6. Window(v) BY <2>4, <2>5 DEF Drawn, Window, Knows
  <2>7. \A image, q : Clean(w, image, q) => Clean(v, image, q) BY <2>5 DEF Clean, Knows
  <2>8. Tiles(v) BY <2>4, <2>5, <2>7 DEF Tiles
  <2>9. Thumbs(v, {})
    <3>1. \A q \in SourcePages : Clean(v, v.cache[q], q)
      BY <2>4, <2>5, <2>7 DEF Drawn, Thumbs
    <3>2. \A x : Follows(w, x, w.versions, {}) => Follows(v, x, v.versions, {})
      BY <2>5, FollowsAlike DEF Knows
    <3> QED BY <2>5, <3>1, <3>2 DEF Drawn, Thumbs
  <2>10. Sends(w, v) BY <2>5 DEF Sends
  <2>11. Views(v, {}) BY <2>5, <2>10, SendingKeeps DEF Drawn
  <2>12. Screen(v) BY <2>5, <2>7 DEF Drawn, Screen, OnScreen
  <2>13. Told(w, v) BY <2>5 DEF Told, Knows
  <2> QED BY <2>6, <2>8, <2>9, <2>11, <2>12, <2>13 DEF Drawn, Stays, v
<1> QED BY <1>1, <1>2

LEMMA ViewAnsweredKeeps ==
  ASSUME NEW w, Drawn(w), NEW r, Follows(w, r, w.revisions, {})
  PROVE  Stays(w, ViewAnswered(w, r))
<1> DEFINE p == r.page
           seen == w.open /\ OnScreen(w) = p
           refused == IF seen /\ w.drawn[p].width = 0 THEN [page |-> p, what |-> Message]
                      ELSE w.screen
           screen == IF seen THEN [page |-> p, what |-> r.answer] ELSE w.screen
           drawn == [w.drawn EXCEPT ![p] = [image |-> r.answer, width |-> r.width]]
           v == ViewAnswered(w, r)
<1>1. CASE v = w BY <1>1 DEF Stays, Told
<1>2. CASE v # w
  <2>1. r.generation = w.generation /\ r.version = w.revisions[p]
    BY <1>2 DEF ViewAnswered
  <2>2. p \in SourcePages => Clean(w, r.answer, p) BY <2>1 DEF Follows
  <2>3. w.open => OnScreen(w) \in SourcePages BY OnScreenIsAPage DEF Drawn
  <2>4. \/ v = [w EXCEPT !.unreadable = w.unreadable \cup {p}, !.screen = refused]
        \/ v = [w EXCEPT !.drawn = drawn, !.screen = screen]
    BY <1>2 DEF ViewAnswered
  <2>5. /\ DOMAIN drawn = SourcePages
        /\ \A q \in SourcePages : Clean(w, drawn[q].image, q)
    BY <2>2 DEF Drawn, Views, Window
  <2>6. w.open => refused.page = OnScreen(w) /\ Clean(w, refused.what, OnScreen(w))
    <3>1. CASE refused = w.screen BY <3>1 DEF Drawn, Screen
    <3>2. CASE seen /\ refused = [page |-> p, what |-> Message]
      <4>1. refused.page = p /\ refused.what = Message BY <3>2
      <4> QED BY <3>2, <4>1, NoImageIsClean
    <3> QED BY <3>1, <3>2
  <2>7. w.open => screen.page = OnScreen(w) /\ Clean(w, screen.what, OnScreen(w))
    BY <2>2, <2>3 DEF Drawn, Screen
  <2> HIDE DEF refused, screen, drawn, v
  <2>8. /\ DOMAIN v = Fields /\ Knows(w, v) /\ (v.drawn = w.drawn \/ v.drawn = drawn)
        /\ v.shown = w.shown /\ v.queue = w.queue /\ v.flight = w.flight
        /\ v.cache = w.cache /\ v.order = w.order /\ v.open = w.open /\ v.pages = w.pages
        /\ v.at = w.at /\ (v.screen = screen \/ v.screen = refused)
    <3>1. CASE v = [w EXCEPT !.unreadable = w.unreadable \cup {p}, !.screen = refused]
      BY <3>1 DEF Drawn, Window, Fields, Knows
    <3>2. CASE v = [w EXCEPT !.drawn = drawn, !.screen = screen]
      BY <3>2 DEF Drawn, Window, Fields, Knows
    <3> QED BY <2>4, <3>1, <3>2
  <2>9. Window(v) BY <2>5, <2>8 DEF Drawn, Window, Knows
  <2>10. \A image, q : Clean(w, image, q) => Clean(v, image, q) BY <2>8 DEF Clean, Knows
  <2>11. Tiles(w) => Tiles(v) BY <2>8, <2>10 DEF Tiles
  <2>12. Views(v, {})
    <3>1. \A q \in SourcePages : Clean(v, v.drawn[q].image, q)
      BY <2>5, <2>8, <2>10 DEF Drawn, Views
    <3>2. \A x : Follows(w, x, w.revisions, {}) => Follows(v, x, v.revisions, {})
      BY <2>8, FollowsAlike DEF Knows
    <3> QED BY <2>8, <3>1, <3>2 DEF Drawn, Views
  <2>13. Sends(w, v) BY <2>8 DEF Sends
  <2>14. Thumbs(v, {}) BY <2>8, <2>13, SendingKeeps DEF Drawn
  <2>15. Screen(v)
    <3>1. OnScreen(v) = OnScreen(w) BY <2>8 DEF OnScreen
    <3> QED BY <2>6, <2>7, <2>8, <2>10, <3>1 DEF Screen
  <2>16. Told(w, v) BY <2>8 DEF Told, Knows
  <2> QED BY <2>9, <2>11, <2>12, <2>14, <2>15, <2>16 DEF Drawn, Stays, v
<1> QED BY <1>1, <1>2

\* An answer leaves the flight, and the others stay in it.
LEMMA AnswerLeaves ==
  ASSUME NEW w, Drawn(w), NEW i \in DOMAIN w.flight
  PROVE  LET v == [w EXCEPT !.flight = RemoveAt(w.flight, i)] IN
            /\ Stays(w, v)
            /\ IF w.flight[i].who = "view"
               THEN Follows(v, w.flight[i], v.revisions, {})
               ELSE Follows(v, w.flight[i], v.versions, {})
<1> DEFINE v == [w EXCEPT !.flight = RemoveAt(w.flight, i)]
<1>1. v = [w EXCEPT !.flight = RemoveAt(w.flight, i)] OBVIOUS
<1>2. /\ IsSequence(RemoveAt(w.flight, i))
      /\ \A k \in DOMAIN RemoveAt(w.flight, i) :
            \E j \in DOMAIN w.flight : RemoveAt(w.flight, i)[k] = w.flight[j]
  BY Removed DEF Drawn, Window
<1> HIDE DEF v
<1>3. /\ DOMAIN v = Fields /\ v.flight = RemoveAt(w.flight, i) /\ Same(w, v)
      /\ v.queue = w.queue /\ v.order = w.order
  BY <1>1 DEF Drawn, Window, Fields, Same, Knows
<1>4. Window(v) BY <1>2, <1>3 DEF Drawn, Window, Same, Knows
<1>5. Sends(w, v) BY <1>2, <1>3 DEF Sends
<1>6. Knows(w, v) /\ v.cache = w.cache /\ v.drawn = w.drawn BY <1>3 DEF Same
<1>7. Thumbs(v, {}) /\ Views(v, {}) BY <1>5, <1>6, SendingKeeps DEF Drawn
<1>8. Stays(w, v) BY <1>3, <1>4, <1>6, <1>7, SameKeeps DEF Drawn, Stays, Told, Knows
<1>9. IF w.flight[i].who = "view"
      THEN Follows(v, w.flight[i], v.revisions, {})
      ELSE Follows(v, w.flight[i], v.versions, {})
  BY <1>6, FollowsAlike DEF Drawn, Thumbs, Views, Knows
<1> QED BY <1>8, <1>9 DEF v

\* An answer comes from the Rust side: the page is not older there.
LEMMA AnswerKeeps ==
  ASSUME NEW w, Drawn(w), NEW i \in DOMAIN w.flight, NEW answer,
         w.flight[i].page \in SourcePages => Clean(w, answer, w.flight[i].page)
  PROVE  Stays(w, [w EXCEPT !.flight[i].answer = answer])
<1> DEFINE r == [w.flight[i] EXCEPT !.answer = answer]
           flight == [w.flight EXCEPT ![i] = r]
           v == [w EXCEPT !.flight[i].answer = answer]
<1>1. v = [w EXCEPT !.flight = flight]
  BY DEF Drawn, Window, Fields
<1>2. IsSequence(flight)
  <2>1. PICK S : w.flight \in Seq(S) BY DEF Drawn, Window, IsSequence
  <2>2. w.flight \in Seq(S \cup {r}) BY <2>1
  <2>3. DOMAIN flight = 1 .. Len(w.flight) /\ Len(w.flight) \in Nat BY <2>1
  <2>4. \A j \in 1 .. Len(w.flight) : flight[j] \in S \cup {r} BY <2>1
  <2> HIDE DEF r
  <2>5. flight \in Seq(S \cup {r}) BY <2>2, <2>4
  <2> QED BY <2>5 DEF IsSequence
<1>3. DOMAIN w.flight[i] = Request BY DEF Drawn, Thumbs, Views, Follows
<1>4. /\ DOMAIN r = Request /\ r.who = w.flight[i].who /\ r.page = w.flight[i].page
      /\ r.generation = w.flight[i].generation /\ r.version = w.flight[i].version
      /\ r.answer = answer
  BY <1>3 DEF Request
<1>5. /\ DOMAIN flight = DOMAIN w.flight
      /\ \A j \in DOMAIN w.flight : flight[j] = IF j = i THEN r ELSE w.flight[j]
  OBVIOUS
<1> HIDE DEF r, flight, v
<1>6. /\ DOMAIN v = Fields /\ v.flight = flight /\ Same(w, v)
      /\ v.queue = w.queue /\ v.order = w.order
  BY <1>1 DEF Drawn, Window, Fields, Same, Knows
<1>7. Window(v) BY <1>2, <1>6 DEF Drawn, Window, Same, Knows
<1>8. ASSUME NEW version, Follows(w, w.flight[i], version, {})
      PROVE  Follows(w, r, version, {})
  BY <1>4, <1>8 DEF Follows
<1>9. Knows(w, v) /\ v.cache = w.cache /\ v.drawn = w.drawn BY <1>6 DEF Same
<1>10. \A image, p : Clean(w, image, p) => Clean(v, image, p) BY <1>9 DEF Clean, Knows
<1>11. Thumbs(v, {})
  <2>1. ASSUME NEW j \in DOMAIN v.flight, v.flight[j].who # "view"
        PROVE  Follows(v, v.flight[j], v.versions, {})
    <3>1. Follows(w, v.flight[j], w.versions, {})
      BY <1>4, <1>5, <1>6, <1>8, <2>1 DEF Drawn, Thumbs
    <3> QED BY <1>9, <3>1, FollowsAlike DEF Knows
  <2> QED BY <1>9, <1>10, <2>1 DEF Drawn, Thumbs
<1>12. Views(v, {})
  <2>1. ASSUME NEW j \in DOMAIN v.flight, v.flight[j].who = "view"
        PROVE  Follows(v, v.flight[j], v.revisions, {})
    <3>1. Follows(w, v.flight[j], w.revisions, {})
      BY <1>4, <1>5, <1>6, <1>8, <2>1 DEF Drawn, Views
    <3> QED BY <1>9, <3>1, FollowsAlike DEF Knows
  <2> QED BY <1>9, <1>10, <2>1 DEF Drawn, Views
<1> QED BY <1>6, <1>7, <1>9, <1>11, <1>12, SameKeeps DEF Drawn, Stays, Told, Knows, v

-----------------------------------------------------------------------------
(* The window and the Rust side.                                           *)

\* The Rust side is never behind the window: not on the document, and on
\* the same document not on the rotations.
Ahead ==
    /\ stored \in [doc : Nat, turns : Counts] /\ pane.doc <= stored.doc
    /\ stored.doc = pane.doc => \A p \in SourcePages : stored.turns[p] >= pane.turns[p]

\* A rotation done and not told has turned the pages on the Rust side only.
TurningAhead ==
    /\ turning.stage # "none" =>
          /\ DOMAIN turning = {"stage", "doc", "pages"}
          /\ turning.doc \in Nat /\ turning.doc <= pane.doc
    /\ turning.stage = "done" /\ turning.doc = pane.doc /\ stored.doc = pane.doc =>
          \A p \in SourcePages : p \in turning.pages => stored.turns[p] > pane.turns[p]

\* A document opened and not told is a later one.
OpeningAhead == opening = "opened" => pane.doc < stored.doc

Current == Drawn(pane) /\ Tiles(pane) /\ Ahead /\ TurningAhead /\ OpeningAhead

LEMMA CurrentInit == ViewInit => Current
<1> SUFFICES ASSUME ViewInit PROVE Current OBVIOUS
<1>1. PICK enabled \in BOOLEAN, panel \in BOOLEAN : pane = NewWindow(enabled, panel)
  BY DEF ViewInit
<1>2. Drawn(pane) /\ Tiles(pane) /\ pane.doc = 1 /\ pane.turns = NoTurns
  BY <1>1, NewWindowIsClean
<1>3. stored = [doc |-> 1, turns |-> NoTurns] /\ turning = NoTurning /\ opening = "none"
  BY DEF ViewInit
<1>4. NoTurns \in Counts BY DEF NoTurns, Counts
<1>5. Ahead BY <1>2, <1>3, <1>4 DEF Ahead, Counts
<1>6. TurningAhead /\ OpeningAhead BY <1>3 DEF TurningAhead, OpeningAhead, NoTurning
<1> QED BY <1>2, <1>5, <1>6 DEF Current

\* What only concerns the window.
LEMMA WindowStep ==
  ASSUME Current, Stays(pane, pane'), UNCHANGED <<stored, turning, opening>>
  PROVE  Current'
<1>1. (Drawn(pane) /\ Tiles(pane))' BY DEF Current, Stays
<1>2. pane.doc' = pane.doc /\ pane.turns' = pane.turns BY DEF Stays, Told
<1>3. Ahead' BY <1>2 DEF Current, Ahead
<1>4. TurningAhead' BY <1>2 DEF Current, TurningAhead
<1>5. OpeningAhead' BY <1>2 DEF Current, OpeningAhead
<1> QED BY <1>1, <1>3, <1>4, <1>5 DEF Current

\* A field no image depends on is set.
LEMMA FieldSet ==
  ASSUME NEW w, Drawn(w), NEW x
  PROVE  /\ Stays(w, [w EXCEPT !.watched = x])
         /\ \A y : Stays(w, [w EXCEPT !.zoom = x, !.settling = y])
         /\ \A y : Stays(w, [w EXCEPT !.room = x, !.resizing = y])
         /\ \A y : Stays(w, [w EXCEPT !.panel = x, !.resizing = y])
         /\ \A y : Stays(w, [w EXCEPT !.resizing = x, !.settling = y])
         /\ Stays(w, [w EXCEPT !.settling = x])
<1> SUFFICES ASSUME NEW y, NEW v, v \in {[w EXCEPT !.watched = x],
                 [w EXCEPT !.zoom = x, !.settling = y], [w EXCEPT !.room = x, !.resizing = y],
                 [w EXCEPT !.panel = x, !.resizing = y],
                 [w EXCEPT !.resizing = x, !.settling = y], [w EXCEPT !.settling = x]}
             PROVE  Stays(w, v)
  BY Zenon
<1>1. /\ Plain(w, v) /\ v.pages = w.pages /\ v.at = w.at /\ v.screen = w.screen
      /\ v.open = w.open
  <2>1. CASE v = [w EXCEPT !.watched = x]
    BY <2>1 DEF Drawn, Window, Fields, Plain, Knows
  <2>2. CASE v = [w EXCEPT !.zoom = x, !.settling = y]
    BY <2>2 DEF Drawn, Window, Fields, Plain, Knows
  <2>3. CASE v = [w EXCEPT !.room = x, !.resizing = y]
    BY <2>3 DEF Drawn, Window, Fields, Plain, Knows
  <2>4. CASE v = [w EXCEPT !.panel = x, !.resizing = y]
    BY <2>4 DEF Drawn, Window, Fields, Plain, Knows
  <2>5. CASE v = [w EXCEPT !.resizing = x, !.settling = y]
    BY <2>5 DEF Drawn, Window, Fields, Plain, Knows
  <2>6. CASE v = [w EXCEPT !.settling = x]
    BY <2>6 DEF Drawn, Window, Fields, Plain, Knows
  <2> QED BY <2>1, <2>2, <2>3, <2>4, <2>5, <2>6
<1> QED BY <1>1, StillKeeps

-----------------------------------------------------------------------------
(* The steps of the window.                                                *)

LEMMA ByTransit ==
  ASSUME NEW w, NEW v, NEW u, Stays(w, v), Stays(v, u)
  PROVE  Stays(w, u)
BY DEF Stays, Told

LEMMA EntersKeeps == Current /\ Enters => Current'
<1> SUFFICES ASSUME Current, Enters PROVE Current' OBVIOUS
<1>1. PICK t \in DOMAIN pane.watched : Only(Want([pane EXCEPT !.watched[t] = "in"], t))
  BY DEF Enters
<1> DEFINE v == [pane EXCEPT !.watched = [pane.watched EXCEPT ![t] = "in"]]
<1>2. pane' = Want(v, t) /\ UNCHANGED <<stored, turning, opening>>
  BY <1>1 DEF Only, Current, Drawn, Window, Fields
<1>3. Stays(pane, v) BY FieldSet DEF Current
<1> HIDE DEF v
<1>4. Stays(v, Want(v, t)) BY <1>3, WantKeeps DEF Stays
<1> QED BY <1>2, <1>3, <1>4, ByTransit, WindowStep

LEMMA LeavesKeeps == Current /\ Leaves => Current'
<1> SUFFICES ASSUME Current, Leaves PROVE Current' OBVIOUS
<1>1. PICK t \in DOMAIN pane.watched :
         LET left == [pane EXCEPT !.watched =
                         IF InGrid(pane, t) THEN [@ EXCEPT ![t] = "out"]
                         ELSE [u \in DOMAIN @ \ {t} |-> @[u]]]
         IN  Only(Forget(left, t))
  BY DEF Leaves
<1> DEFINE x == IF InGrid(pane, t) THEN [pane.watched EXCEPT ![t] = "out"]
                ELSE [u \in DOMAIN pane.watched \ {t} |-> pane.watched[u]]
           v == [pane EXCEPT !.watched = x]
<1>2. pane' = Forget(v, t) /\ UNCHANGED <<stored, turning, opening>>
  BY <1>1 DEF Only
<1> HIDE DEF x
<1>3. Stays(pane, v) BY FieldSet DEF Current
<1> HIDE DEF v
<1>4. Stays(v, Forget(v, t)) BY <1>3, ForgetKeeps DEF Stays
<1> QED BY <1>2, <1>3, <1>4, ByTransit, WindowStep

LEMMA ReorderKeeps == Current /\ Reorder => Current'
<1> SUFFICES ASSUME Current, Reorder PROVE Current' OBVIOUS
<1>1. PICK order \in Arrangements : Only(RenderGrid(pane, order)) BY DEF Reorder
<1>2. order \in Seq(SourcePages) BY ViewAssumption
<1>3. LET v == RenderGrid(pane, order) IN Drawn(v) /\ Tiles(v) /\ Told(pane, v)
  BY <1>2, RenderGridKeeps DEF Current
<1> QED BY <1>1, <1>3, WindowStep DEF Only, Stays

\* The view shows a page of its list.
LEMMA ViewMoves ==
  ASSUME NEW w, Drawn(w), NEW v, Plain(w, v), v.open, v.pages \in Seq(SourcePages),
         v.at \in DOMAIN v.pages
  PROVE  Stays(w, Show(v))
<1>1. /\ Window(v) /\ Thumbs(v, {}) /\ Views(v, {})
      /\ Tiles(w) => Tiles(v)
  BY PlainKeeps DEF Drawn
<1>2. Stays(v, Show(v)) BY <1>1, ShowKeeps
<1>3. Told(w, v) BY DEF Told, Plain, Knows
<1> QED BY <1>1, <1>2, <1>3 DEF Stays, Told

LEMMA OpenViewKeeps == Current /\ OpenView => Current'
<1> SUFFICES ASSUME Current, OpenView PROVE Current' OBVIOUS
<1>1. PICK i \in DOMAIN pane.order :
         Only(Show([pane EXCEPT !.open = TRUE, !.pages = pane.order, !.at = i, !.zoom = 1,
                                !.resizing = TRUE]))
  BY DEF OpenView
<1> DEFINE v == [pane EXCEPT !.open = TRUE, !.pages = pane.order, !.at = i, !.zoom = 1,
                             !.resizing = TRUE]
<1>2. Plain(pane, v) /\ v.open /\ v.pages = pane.order /\ v.at = i
  BY DEF Current, Drawn, Window, Fields, Plain, Knows
<1>3. pane' = Show(v) /\ UNCHANGED <<stored, turning, opening>> BY <1>1 DEF Only
<1> HIDE DEF v
<1>4. Stays(pane, Show(v)) BY <1>2, ViewMoves DEF Current, Drawn, Window
<1> QED BY <1>3, <1>4, WindowStep

LEMMA GoKeeps == Current /\ Go => Current'
<1> SUFFICES ASSUME Current, Go PROVE Current' OBVIOUS
<1>1. PICK i \in DOMAIN pane.pages : Only(Show([pane EXCEPT !.at = i]))
  BY DEF Go
<1> DEFINE v == [pane EXCEPT !.at = i]
<1>2. Plain(pane, v) /\ v.open /\ v.pages = pane.pages /\ v.at = i
  BY DEF Go, Current, Drawn, Window, Fields, Plain, Knows
<1>3. pane' = Show(v) /\ UNCHANGED <<stored, turning, opening>> BY <1>1 DEF Only
<1> HIDE DEF v
<1>4. Stays(pane, Show(v)) BY <1>2, ViewMoves DEF Current, Drawn, Window
<1> QED BY <1>3, <1>4, WindowStep

LEMMA SizesKeep ==
  Current /\ (CloseView \/ TogglePanel \/ ZoomTo \/ Resize \/ Resized \/ SettleEnds) => Current'
<1> SUFFICES ASSUME Current PROVE CloseView \/ TogglePanel \/ ZoomTo \/ Resize
                                    \/ Resized \/ SettleEnds => Current'
  OBVIOUS
<1>1. CASE CloseView
  <2>1. Stays(pane, Hide(pane)) BY HideKeeps DEF Current
  <2>2. Stays(Hide(pane), Wake(Hide(pane))) BY <2>1, PumpedKeeps DEF Stays
  <2> QED BY <1>1, <2>1, <2>2, ByTransit, WindowStep DEF CloseView, Only
<1>2. CASE TogglePanel
  <2> DEFINE v == [pane EXCEPT !.panel = ~pane.panel, !.resizing = TRUE]
  <2>1. Stays(pane, v) BY FieldSet DEF Current
  <2>2. pane' = Wake(v) /\ UNCHANGED <<stored, turning, opening>>
    BY <1>2 DEF TogglePanel, Only
  <2> HIDE DEF v
  <2>3. Stays(v, Wake(v)) BY <2>1, PumpedKeeps DEF Stays
  <2> QED BY <2>1, <2>2, <2>3, ByTransit, WindowStep
<1>3. CASE ZoomTo
  <2>1. PICK zoom \in Zooms : Only([pane EXCEPT !.zoom = zoom, !.settling = TRUE])
    BY <1>3 DEF ZoomTo
  <2>2. Stays(pane, [pane EXCEPT !.zoom = zoom, !.settling = TRUE]) BY FieldSet DEF Current
  <2> QED BY <2>1, <2>2, WindowStep DEF Only
<1>4. CASE Resize
  <2>1. PICK room \in Rooms : Only([pane EXCEPT !.room = room, !.resizing = TRUE])
    BY <1>4 DEF Resize
  <2>2. Stays(pane, [pane EXCEPT !.room = room, !.resizing = TRUE]) BY FieldSet DEF Current
  <2> QED BY <2>1, <2>2, WindowStep DEF Only
<1>5. CASE Resized
  BY <1>5, FieldSet, WindowStep DEF Resized, Only, Current
<1>6. CASE SettleEnds
  <2> DEFINE v == [pane EXCEPT !.settling = FALSE]
  <2>1. Stays(pane, v) BY FieldSet DEF Current
  <2>2. pane' = Pump(v) /\ UNCHANGED <<stored, turning, opening>>
    BY <1>6 DEF SettleEnds, Only
  <2> HIDE DEF v
  <2>3. Stays(v, Pump(v)) BY <2>1, PumpedKeeps DEF Stays
  <2> QED BY <2>1, <2>2, <2>3, ByTransit, WindowStep
<1> QED BY <1>1, <1>2, <1>3, <1>4, <1>5, <1>6

LEMMA RenderPageKeeps == Current /\ RenderPage => Current'
<1> SUFFICES ASSUME Current, RenderPage PROVE Current' OBVIOUS
<1>1. PICK i \in DOMAIN pane.flight :
         \/ Only([pane EXCEPT !.flight[i].answer =
                     ImageOf(stored.doc, stored.turns[pane.flight[i].page])])
         \/ Only([pane EXCEPT !.flight[i].answer = Message])
  BY DEF RenderPage
<1> DEFINE p == pane.flight[i].page
           answer == ImageOf(stored.doc, stored.turns[p])
<1>2. p \in SourcePages => Clean(pane, answer, p)
  <2>1. answer.doc = stored.doc /\ answer.turn = stored.turns[p] BY DEF ImageOf
  <2> HIDE DEF answer
  <2> QED BY <2>1 DEF Clean, Current, Ahead, Counts, Drawn, Window
<1>3. Clean(pane, Message, p) BY NoImageIsClean
<1> HIDE DEF answer
<1>4. \A x : (p \in SourcePages => Clean(pane, x, p)) =>
                Stays(pane, [pane EXCEPT !.flight[i].answer = x])
  BY AnswerKeeps DEF Current
<1>5. Stays(pane, [pane EXCEPT !.flight[i].answer = answer]) BY <1>2, <1>4
<1>6. Stays(pane, [pane EXCEPT !.flight[i].answer = Message]) BY <1>3, <1>4
<1>7. CASE Only([pane EXCEPT !.flight[i].answer = answer])
  BY <1>5, <1>7, WindowStep DEF Only
<1>8. CASE Only([pane EXCEPT !.flight[i].answer = Message])
  BY <1>6, <1>8, WindowStep DEF Only
<1> QED BY <1>1, <1>7, <1>8 DEF answer

LEMMA AnsweredKeeps == Current /\ Answered => Current'
<1> SUFFICES ASSUME Current, Answered PROVE Current' OBVIOUS
<1>1. PICK i \in DOMAIN pane.flight :
        LET r    == pane.flight[i]
            done == [pane EXCEPT !.flight = RemoveAt(@, i)]
            unwatched == [t \in DOMAIN pane.watched \ {r.tile} |-> pane.watched[t]]
        IN  IF r.who = "view" THEN Only(Pump(ForgetFar(ViewAnswered(done, r))))
            ELSE Only(Wake([ThumbAnswered(done, r) EXCEPT !.watched = unwatched]))
  BY DEF Answered
<1> DEFINE r    == pane.flight[i]
           done == [pane EXCEPT !.flight = RemoveAt(pane.flight, i)]
           unwatched == [t \in DOMAIN pane.watched \ {r.tile} |-> pane.watched[t]]
<1>2. IF r.who = "view" THEN Only(Pump(ForgetFar(ViewAnswered(done, r))))
      ELSE Only(Wake([ThumbAnswered(done, r) EXCEPT !.watched = unwatched]))
  BY <1>1
<1>3. /\ Stays(pane, done)
      /\ IF r.who = "view" THEN Follows(done, r, done.revisions, {})
         ELSE Follows(done, r, done.versions, {})
  BY AnswerLeaves DEF Current
<1> HIDE DEF r, done, unwatched
<1>4. CASE r.who = "view"
  <2> DEFINE v == ViewAnswered(done, r)
             u == ForgetFar(v)
  <2>1. Stays(done, v) BY <1>3, <1>4, ViewAnsweredKeeps DEF Stays
  <2>2. Stays(v, u)
    <3> HIDE DEF v
    <3>1. Drawn(v) BY <2>1 DEF Stays
    <3>2. LET z == ForgetFar(v) IN
            /\ Window(z) /\ Thumbs(z, {}) /\ Views(z, {}) /\ Told(v, z)
            /\ Tiles(v) => Tiles(z)
            /\ Screen(v) => Screen(z)
      BY <3>1, ForgetFarKeeps DEF Drawn
    <3> QED BY <3>1, <3>2 DEF Drawn, Stays
  <2>3. pane' = Pump(u) /\ UNCHANGED <<stored, turning, opening>> BY <1>2, <1>4 DEF Only
  <2> HIDE DEF v, u
  <2>4. Stays(u, Pump(u)) BY <2>2, PumpedKeeps DEF Stays
  <2>5. Stays(pane, Pump(u)) BY <1>3, <2>1, <2>2, <2>4, ByTransit
  <2> QED BY <2>3, <2>5, WindowStep
<1>5. CASE r.who # "view"
  <2> DEFINE v == ThumbAnswered(done, r)
             u == [v EXCEPT !.watched = unwatched]
  <2>1. Stays(done, v) BY <1>3, <1>5, ThumbAnsweredKeeps DEF Stays, Current
  <2>2. pane' = Wake(u) /\ UNCHANGED <<stored, turning, opening>> BY <1>2, <1>5 DEF Only
  <2> HIDE DEF v
  <2>3. Stays(v, u) BY <2>1, FieldSet DEF Stays
  <2> HIDE DEF u
  <2>4. Stays(u, Wake(u)) BY <2>3, PumpedKeeps DEF Stays
  <2>5. Stays(pane, Wake(u)) BY <1>3, <2>1, <2>3, <2>4, ByTransit
  <2> QED BY <2>2, <2>5, WindowStep
<1> QED BY <1>4, <1>5

-----------------------------------------------------------------------------
(* The steps of the Rust side, and what the window is told of them.        *)

LEMMA AskTurnKeeps == Current /\ AskTurn => Current'
<1> SUFFICES ASSUME Current, AskTurn PROVE Current' OBVIOUS
<1>1. PICK p : turning' = [stage |-> "asked", doc |-> pane.doc, pages |-> {p}]
  BY DEF AskTurn
<1>2. UNCHANGED <<stored, pane, opening>> BY DEF AskTurn
<1>3. turning'.stage = "asked" /\ turning'.doc = pane.doc
      /\ DOMAIN (turning') = {"stage", "doc", "pages"}
  BY <1>1
<1>4. TurningAhead' BY <1>2, <1>3 DEF TurningAhead, Current, Drawn, Window
<1> QED BY <1>2, <1>4 DEF Current, Ahead, OpeningAhead

LEMMA TurnPagesKeeps == Current /\ TurnPages => Current'
<1> SUFFICES ASSUME Current, TurnPages PROVE Current' OBVIOUS
<1>1. turning.stage = "asked" /\ UNCHANGED <<pane, opening>> BY DEF TurnPages
<1>2. /\ DOMAIN turning = {"stage", "doc", "pages"} /\ turning.doc \in Nat
      /\ turning.doc <= pane.doc
  BY <1>1 DEF Current, TurningAhead
<1>3. CASE turning' = [turning EXCEPT !.stage = "refused"] /\ stored' = stored
  <2>1. turning'.stage = "refused" /\ turning'.doc = turning.doc
        /\ DOMAIN (turning') = {"stage", "doc", "pages"}
    BY <1>2, <1>3
  <2>2. TurningAhead' BY <1>1, <1>2, <2>1 DEF TurningAhead
  <2> QED BY <1>1, <1>3, <2>2 DEF Current, Ahead, OpeningAhead
<1>4. CASE /\ stored.doc = turning.doc
           /\ turning' = [turning EXCEPT !.stage = "done"]
           /\ stored' = [stored EXCEPT !.turns = [p \in SourcePages |->
                            IF p \in turning.pages THEN @[p] + 1 ELSE @[p]]]
  <2> DEFINE next == [p \in SourcePages |-> IF p \in turning.pages THEN stored.turns[p] + 1
                                            ELSE stored.turns[p]]
  <2>1. turning'.stage = "done" /\ turning'.doc = turning.doc
        /\ turning'.pages = turning.pages
        /\ DOMAIN (turning') = {"stage", "doc", "pages"}
    BY <1>2, <1>4
  <2>2. stored \in [doc : Nat, turns : Counts] BY DEF Current, Ahead
  <2>3. next \in Counts BY <2>2 DEF Counts
  <2>4. stored' = [stored EXCEPT !.turns = next] BY <1>4
  <2>5. \A p \in SourcePages : /\ next[p] >= stored.turns[p]
                               /\ p \in turning.pages => next[p] > stored.turns[p]
    BY <2>2 DEF Counts
  <2> HIDE DEF next
  <2>6. stored' \in [doc : Nat, turns : Counts] /\ stored'.doc = stored.doc
        /\ stored'.turns = next
    BY <2>2, <2>3, <2>4
  <2>7. Drawn(pane) /\ pane.turns \in Counts BY DEF Current, Drawn, Window
  <2>8. \A p \in SourcePages : /\ pane.turns[p] \in Nat /\ stored.turns[p] \in Nat
                               /\ next[p] \in Nat
    BY <2>2, <2>3, <2>7 DEF Counts
  <2>9. Ahead' BY <1>1, <2>5, <2>6, <2>8 DEF Current, Ahead
  <2>10. TurningAhead'
    BY <1>1, <1>2, <2>1, <2>5, <2>6, <2>8 DEF Current, Ahead, TurningAhead
  <2>11. OpeningAhead' BY <1>1, <2>6 DEF Current, OpeningAhead
  <2> QED BY <1>1, <2>9, <2>10, <2>11 DEF Current
<1> QED BY <1>3, <1>4 DEF TurnPages

LEMMA TurnToldKeeps == Current /\ TurnTold => Current'
<1> SUFFICES ASSUME Current, TurnTold PROVE Current' OBVIOUS
<1>1. turning' = NoTurning /\ UNCHANGED <<stored, opening>> BY DEF TurnTold
<1>2. TurningAhead' BY <1>1 DEF TurningAhead, NoTurning
<1>3. CASE pane' = pane
  BY <1>1, <1>2, <1>3 DEF Current, Ahead, OpeningAhead
<1>4. CASE pane' # pane
  <2> DEFINE P == turning.pages
             next == [p \in SourcePages |-> IF p \in P THEN pane.turns[p] + 1 ELSE pane.turns[p]]
             known == [pane EXCEPT !.turns = next]
  <2>1. turning.stage = "done" /\ turning.doc = pane.doc /\ pane' = Edited(known, P)
    BY <1>4 DEF TurnTold
  <2>2. known = [pane EXCEPT !.turns = [p \in SourcePages |->
                    IF p \in P THEN pane.turns[p] + 1 ELSE pane.turns[p]]]
    OBVIOUS
  <2>3. known.doc = pane.doc /\ known.turns = next
    BY DEF Current, Drawn, Window, Fields
  <2>4. \A p \in SourcePages : /\ pane.turns[p] \in Nat
                               /\ next[p] = IF p \in P THEN pane.turns[p] + 1 ELSE pane.turns[p]
    BY DEF Current, Drawn, Window, Counts
  <2> HIDE DEF next, known
  <2>5. /\ Window(known) /\ Thumbs(known, P) /\ Views(known, P)
        /\ known.open /\ OnScreen(known) \notin P => Screen(known)
    BY <2>2, TurnsKnown DEF Current
  <2>6. LET v == Edited(known, P) IN Drawn(v) /\ Tiles(v) /\ Told(known, v)
    BY <2>5, EditedKeeps
  <2>7. Drawn(pane)' /\ Tiles(pane)' /\ pane'.doc = pane.doc /\ pane'.turns = next
    BY <2>1, <2>3, <2>6 DEF Told
  <2>8. Ahead'
    BY <1>1, <2>1, <2>4, <2>7 DEF Current, Ahead, TurningAhead, Counts
  <2>9. OpeningAhead' BY <1>1, <2>7 DEF Current, OpeningAhead
  <2> QED BY <1>2, <2>7, <2>8, <2>9 DEF Current
<1> QED BY <1>3, <1>4

LEMMA OpensKeep == Current /\ (AskOpen \/ OpenDocument \/ Opened) => Current'
<1> SUFFICES ASSUME Current PROVE AskOpen \/ OpenDocument \/ Opened => Current' OBVIOUS
<1>0. Drawn(pane) /\ pane.doc \in Nat /\ stored \in [doc : Nat, turns : Counts]
      /\ pane.doc <= stored.doc
  BY DEF Current, Ahead, Drawn, Window
<1>00. NoTurns \in Counts /\ \A p \in SourcePages : NoTurns[p] = 0 BY DEF NoTurns, Counts
<1>1. CASE AskOpen
  BY <1>1 DEF AskOpen, Current, Ahead, TurningAhead, OpeningAhead
<1>2. CASE OpenDocument
  <2>1. stored' = [doc |-> stored.doc + 1, turns |-> NoTurns] /\ UNCHANGED <<pane, turning>>
    BY <1>2 DEF OpenDocument
  <2>2. stored' \in [doc : Nat, turns : Counts] /\ stored'.doc = stored.doc + 1
    BY <1>0, <1>00, <2>1
  <2>3. Ahead' /\ OpeningAhead' BY <1>0, <2>1, <2>2 DEF Ahead, OpeningAhead
  <2>4. TurningAhead' BY <1>0, <2>1, <2>2 DEF Current, TurningAhead
  <2> QED BY <2>1, <2>3, <2>4 DEF Current
<1>3. CASE Opened
  <2>1. /\ opening = "opened" /\ opening' = "none" /\ pane' = Loaded(pane, stored.doc)
        /\ UNCHANGED <<stored, turning>>
    BY <1>3 DEF Opened
  <2>2. LET v == Loaded(pane, stored.doc) IN
           Drawn(v) /\ Tiles(v) /\ v.doc = stored.doc /\ v.turns = NoTurns
    BY <1>0, LoadedKeeps DEF Drawn, Window, Thumbs, Views, Follows
  <2>3. pane.doc < stored.doc BY <2>1 DEF Current, OpeningAhead
  <2>4. pane'.doc = stored.doc /\ pane'.turns = NoTurns BY <2>1, <2>2
  <2>5. Ahead' BY <1>0, <1>00, <2>1, <2>4 DEF Ahead, Counts
  <2>6. TurningAhead' BY <1>0, <2>1, <2>3, <2>4 DEF Current, TurningAhead
  <2>7. OpeningAhead' BY <2>1 DEF OpeningAhead
  <2> QED BY <2>1, <2>2, <2>5, <2>6, <2>7 DEF Current
<1> QED BY <1>1, <1>2, <1>3

-----------------------------------------------------------------------------
\* For any pages, arrangements, slots and gestures, no thumbnail, tile,
\* drawing or screen shows a page of a document closed since, or as it was
\* before a rotation the window was told of (thumbnails.ts:4-6,
\* viewer.ts:28-30).
THEOREM ImagesAlwaysCurrent == ViewSpec => []ImagesAreCurrent
<1>1. ViewInit => Current BY CurrentInit
<1>2. Current /\ [ViewNext]_viewVars => Current'
  <2> SUFFICES ASSUME Current, [ViewNext]_viewVars PROVE Current' OBVIOUS
  <2>1. CASE Enters BY <2>1, EntersKeeps
  <2>2. CASE Leaves BY <2>2, LeavesKeeps
  <2>3. CASE Reorder BY <2>3, ReorderKeeps
  <2>4. CASE OpenView BY <2>4, OpenViewKeeps
  <2>5. CASE Go BY <2>5, GoKeeps
  <2>6. CASE CloseView \/ TogglePanel \/ ZoomTo \/ Resize \/ Resized \/ SettleEnds
    BY <2>6, SizesKeep
  <2>7. CASE RenderPage BY <2>7, RenderPageKeeps
  <2>8. CASE Answered BY <2>8, AnsweredKeeps
  <2>9. CASE AskTurn BY <2>9, AskTurnKeeps
  <2>10. CASE TurnPages BY <2>10, TurnPagesKeeps
  <2>11. CASE TurnTold BY <2>11, TurnToldKeeps
  <2>12. CASE AskOpen \/ OpenDocument \/ Opened BY <2>12, OpensKeep
  <2>13. CASE UNCHANGED viewVars
    BY <2>13 DEF viewVars, Current, Ahead, TurningAhead, OpeningAhead
  <2> QED
    BY <2>1, <2>2, <2>3, <2>4, <2>5, <2>6, <2>7, <2>8, <2>9, <2>10, <2>11, <2>12, <2>13
    DEF ViewNext
<1>3. Current => ImagesAreCurrent
  BY DEF Current, Drawn, Thumbs, Views, Tiles, Screen, Clean, ImagesAreCurrent, NotOlder
<1> QED BY <1>1, <1>2, <1>3, PTL DEF ViewSpec
-----------------------------------------------------------------------------
(***************************************************************************)
(* Nothing in the window waits for nobody, for any pages, arrangements,    *)
(* slots and gestures: no thumbnail is left in a queue nobody will look    *)
(* at, no page of the view undrawn, no tile blank and unwatched.           *)
(*                                                                         *)
(* The slots are the easy half: whatever gives one back ends in a pump,    *)
(* which leaves the queue empty or the slots taken, and what is left to    *)
(* draw is nothing or being drawn. The tiles are the other half. The       *)
(* answer to a tile's request ends its watch, so the answer must be shown: *)
(* it must be of the version the grid was built for. It is, since the grid *)
(* is numbered (build): no request is of a later grid than the present one *)
(* (Asking), and one of the present grid is of the present versions        *)
(* (Fresh), because whatever changes a version builds the grid again.      *)
(***************************************************************************)
\* A tile waits in the queue, or its image was asked for.
Waiting(w, t) ==
    \/ t \in ToSet(w.queue)
    \/ \E i \in SentBy(w, "thumbs") : w.flight[i].tile = t

\* No request for a tile is of a later grid than the present one.
Asks(w, r) ==
    /\ r.who = "thumbs" /\ r.page = r.tile.page /\ r.answer # Blank
    /\ r.tile.build \in Nat /\ r.tile.build <= w.build
Asking(w) ==
    /\ DOMAIN w = Fields
    /\ IsSequence(w.queue) /\ IsSequence(w.flight)
    /\ w.build \in Nat
    /\ \A i \in DOMAIN w.queue : w.queue[i].build \in Nat /\ w.queue[i].build <= w.build
    /\ \A i \in DOMAIN w.flight : w.flight[i].who # "view" => Asks(w, w.flight[i])

\* One of the present grid is of the present versions.
UpToDate(w, r) == r.generation = w.generation /\ r.version = w.versions[r.page]
Fresh(w) ==
    \A i \in DOMAIN w.flight :
        w.flight[i].who # "view" /\ w.flight[i].tile.build = w.build => UpToDate(w, w.flight[i])

\* The three parts of the promise, of any window.
Full(w) == w.queue # << >> => Cardinality(SentBy(w, "thumbs")) >= Slots(w)
Settled(w) == ~Drawing(w) /\ ~w.resizing => ToDraw(w) = << >>
CoversTile(w, p) ==
    w.enabled /\ w.shown[p] = Blank /\ ~Waiting(w, Tile(p, w.build)) =>
        /\ Tile(p, w.build) \in DOMAIN w.watched
        /\ w.watched[Tile(p, w.build)] = "in" => w.cache[p] # Blank \/ p \in w.failed
Covers(w) == \A p \in ToSet(w.order) : CoversTile(w, p)

Attends(w) == Asking(w) /\ Fresh(w) /\ Full(w) /\ Settled(w) /\ Covers(w)

-----------------------------------------------------------------------------
(* Sequences. *)

\* The places of what is joined to a sequence.
LEMMA JoinedPlaces ==
  ASSUME NEW s, IsSequence(s), NEW n \in Nat, NEW f, f = [i \in 1 .. n |-> f[i]]
  PROVE  /\ IsSequence(s \o f) /\ Len(s) \in Nat /\ DOMAIN s = 1 .. Len(s)
         /\ DOMAIN (s \o f) = 1 .. Len(s) + n
         /\ \A i \in 1 .. Len(s) : (s \o f)[i] = s[i]
         /\ \A j \in 1 .. n : (s \o f)[Len(s) + j] = f[j]
<1>1. PICK S : s \in Seq(S) BY DEF IsSequence
<1> DEFINE U == S \cup {f[i] : i \in 1 .. n}
<1>2. s \in Seq(U)
  BY <1>1
<1>3. f \in Seq(U)
  OBVIOUS
<1>4. s \o f \in Seq(U) BY <1>2, <1>3
<1> HIDE DEF U
<1>5. Len(f) = n BY <1>3
<1>6. Len(s) \in Nat /\ DOMAIN s = 1 .. Len(s) BY <1>2
<1>7. DOMAIN (s \o f) = 1 .. Len(s) + n BY <1>2, <1>3, <1>4, <1>5
<1>8. \A i \in 1 .. Len(s) : (s \o f)[i] = s[i] BY <1>2, <1>3
<1>9. ASSUME NEW j \in 1 .. n PROVE (s \o f)[Len(s) + j] = f[j]
  <2>1. Len(s) + j \in Nat /\ Len(s) + j > Len(s) /\ Len(s) + j <= Len(s) + Len(f)
    BY <1>5, <1>6
  <2>2. (s \o f)[Len(s) + j] = f[Len(s) + j - Len(s)] BY <1>2, <1>3, <2>1, Behind
  <2>3. Len(s) + j - Len(s) = j BY <1>6
  <2> QED BY <2>2, <2>3
<1> QED BY <1>4, <1>6, <1>7, <1>8, <1>9 DEF IsSequence

\* What is left of a sequence from one place on.
LEMMA LeftPlaces ==
  ASSUME NEW s, IsSequence(s), NEW n \in Nat, n <= Len(s)
  PROVE  LET u == SubSeq(s, n + 1, Len(s)) IN
            /\ IsSequence(u) /\ Len(u) = Len(s) - n /\ DOMAIN u = 1 .. Len(s) - n
            /\ Len(s) \in Nat /\ DOMAIN s = 1 .. Len(s)
            /\ \A k \in 1 .. Len(s) - n : u[k] = s[n + k]
<1>1. PICK S : s \in Seq(S) BY DEF IsSequence
<1>2. Len(s) \in Nat /\ DOMAIN s = 1 .. Len(s) BY <1>1
<1> DEFINE u == SubSeq(s, n + 1, Len(s))
<1>3. n + 1 \in 1 .. Len(s) + 1 /\ Len(s) \in (n + 1) - 1 .. Len(s) BY <1>2
<1>4. /\ u \in Seq(S) /\ Len(u) = Len(s) - (n + 1) + 1
      /\ \A k \in 1 .. Len(s) - (n + 1) + 1 : u[k] = s[n + 1 + k - 1]
  BY <1>1, <1>3, SubSeqProperties
<1> HIDE DEF u
<1>5. Len(u) = Len(s) - n /\ \A k \in 1 .. Len(s) - n : u[k] = s[n + k]
  BY <1>2, <1>4
<1>6. DOMAIN u = 1 .. Len(s) - n /\ IsSequence(u) BY <1>4, <1>5 DEF IsSequence
<1> QED BY <1>2, <1>5, <1>6 DEF u

\* What comes before the rest of a sequence.
LEMMA FirstPlaces ==
  ASSUME NEW s, IsSequence(s), NEW t
  PROVE  LET u == <<t>> \o s IN
            /\ IsSequence(u) /\ DOMAIN u = 1 .. Len(s) + 1 /\ u[1] = t
            /\ Len(s) \in Nat /\ DOMAIN s = 1 .. Len(s)
            /\ \A k \in 1 .. Len(s) : u[k + 1] = s[k]
<1>1. PICK S : s \in Seq(S) BY DEF IsSequence
<1> DEFINE U == S \cup {t}
<1>2. s \in Seq(U) /\ <<t>> \in Seq(U) BY <1>1
<1> HIDE DEF U
<1>3. <<t>> \o s \in Seq(U) BY <1>2
<1>4. Len(s) \in Nat /\ DOMAIN s = 1 .. Len(s) BY <1>2
<1>5. Len(<<t>>) = 1 /\ <<t>>[1] = t OBVIOUS
<1>6. DOMAIN (<<t>> \o s) = 1 .. Len(s) + 1 /\ (<<t>> \o s)[1] = t
  BY <1>2, <1>3, <1>4, <1>5
<1>7. ASSUME NEW k \in 1 .. Len(s) PROVE (<<t>> \o s)[k + 1] = s[k]
  <2>1. k + 1 \in Nat /\ k + 1 > Len(<<t>>) /\ k + 1 <= Len(<<t>>) + Len(s)
    BY <1>4, <1>5
  <2>2. (<<t>> \o s)[k + 1] = s[k + 1 - Len(<<t>>)] BY <1>2, <2>1, Behind
  <2>3. k + 1 - Len(<<t>>) = k BY <1>4, <1>5
  <2> QED BY <2>2, <2>3
<1> QED BY <1>3, <1>4, <1>6, <1>7 DEF IsSequence

\* The places of a sequence, and what is at some of them.
LEMMA Places ==
  ASSUME NEW s, IsSequence(s), NEW P \in SUBSET (DOMAIN s)
  PROVE  /\ DOMAIN s = 1 .. Len(s) /\ Len(s) \in Nat /\ ToSet(s) = {s[i] : i \in DOMAIN s}
         /\ IsFiniteSet(P) /\ Cardinality(P) \in Nat
<1>1. PICK S : s \in Seq(S) BY DEF IsSequence
<1>2. DOMAIN s = 1 .. Len(s) /\ Len(s) \in Nat BY <1>1
<1>3. IsFiniteSet(1 .. Len(s))
  <2>1. 1 \in Int /\ Len(s) \in Int BY <1>2
  <2> QED BY <2>1, FS_Interval, Zenon
<1>4. IsFiniteSet(P) BY <1>2, <1>3, FS_Subset
<1> QED BY <1>2, <1>4, FS_CardinalityType DEF ToSet

\* The places that remain are counted from the first: each has one number,
\* and no number is left out.
LEMMA Ranked ==
  ASSUME NEW n \in Nat, NEW P \in SUBSET (1 .. n)
  PROVE  LET rank(i) == Cardinality({j \in P : j <= i}) IN
            /\ Cardinality(P) \in Nat
            /\ \A i \in P : rank(i) \in 1 .. Cardinality(P)
            /\ \A i, j \in P : rank(i) = rank(j) => i = j
            /\ \A k \in 1 .. Cardinality(P) : \E i \in P : rank(i) = k
<1> DEFINE rank(i) == Cardinality({j \in P : j <= i})
<1>1. IsFiniteSet(1 .. n)
  <2>1. 1 \in Int /\ n \in Int OBVIOUS
  <2> QED BY <2>1, FS_Interval, Zenon
<1>2. IsFiniteSet(P) /\ Cardinality(P) \in Nat BY <1>1, FS_Subset, FS_CardinalityType
<1>3. ASSUME NEW i \in P
      PROVE  /\ IsFiniteSet({j \in P : j <= i}) /\ rank(i) \in 1 .. Cardinality(P)
  <2>1. {j \in P : j <= i} \subseteq P OBVIOUS
  <2>2. IsFiniteSet({j \in P : j <= i}) /\ rank(i) \in Nat /\ rank(i) <= Cardinality(P)
    BY <1>2, <2>1, FS_Subset, FS_CardinalityType
  <2>3. i \in {j \in P : j <= i} OBVIOUS
  <2>4. rank(i) # 0 BY <2>2, <2>3, FS_EmptySet
  <2> QED BY <1>2, <2>2, <2>4
<1>4. ASSUME NEW i \in P, NEW j \in P, i < j PROVE rank(i) < rank(j)
  <2>0. ASSUME NEW k \in P, k <= i PROVE k <= j
    <3>1. i \in Nat /\ j \in Nat /\ k \in Nat OBVIOUS
    <3> QED BY <1>4, <2>0, <3>1
  <2>1. {k \in P : k <= i} \subseteq {k \in P : k <= j} BY <2>0
  <2>2. j \in {k \in P : k <= j} /\ j \notin {k \in P : k <= i} BY <1>4
  <2>3. IsFiniteSet({k \in P : k <= j}) BY <1>3
  <2>4. /\ Cardinality({k \in P : k <= i}) <= Cardinality({k \in P : k <= j})
        /\ Cardinality({k \in P : k <= i}) = Cardinality({k \in P : k <= j}) =>
              {k \in P : k <= i} = {k \in P : k <= j}
    BY <2>1, <2>3, FS_Subset
  <2> QED BY <1>3, <2>2, <2>4
<1>5. \A i, j \in P : rank(i) = rank(j) => i = j
  <2> SUFFICES ASSUME NEW i \in P, NEW j \in P, rank(i) = rank(j) PROVE i = j OBVIOUS
  <2>1. ~(i < j) /\ ~(j < i) BY <1>3, <1>4
  <2> QED BY <2>1
<1> DEFINE R == {rank(i) : i \in P}
           f == [i \in P |-> rank(i)]
<1>6. R = 1 .. Cardinality(P)
  <2>1. R \subseteq 1 .. Cardinality(P) BY <1>3
  <2>2. IsFiniteSet(1 .. Cardinality(P)) /\ Cardinality(1 .. Cardinality(P)) = Cardinality(P)
    <3>1. 1 \in Int /\ Cardinality(P) \in Int BY <1>2
    <3>2. /\ IsFiniteSet(1 .. Cardinality(P))
          /\ Cardinality(1 .. Cardinality(P)) =
                IF 1 > Cardinality(P) THEN 0 ELSE Cardinality(P) - 1 + 1
      BY <3>1, FS_Interval, Zenon
    <3> QED BY <1>2, <3>2
  <2>3. f \in Bijection(P, R)
    <3>1. f \in [P -> R] /\ \A t \in R : \E i \in P : f[i] = t OBVIOUS
    <3>2. IsInjective(f)
      <4>1. DOMAIN f = P /\ \A i \in P : f[i] = rank(i) OBVIOUS
      <4> HIDE DEF f, rank
      <4> QED BY <1>5, <4>1 DEF IsInjective
    <3> HIDE DEF f, R
    <3> QED BY <3>1, <3>2 DEF Bijection, Injection, Surjection
  <2>4. Cardinality(R) = Cardinality(P)
    <3>1. ExistsBijection(P, R) BY <2>3 DEF ExistsBijection
    <3> QED BY <1>2, <3>1, FS_Bijection
  <2> HIDE DEF R
  <2> QED BY <2>1, <2>2, <2>4, FS_Subset
<1> QED BY <1>2, <1>3, <1>5, <1>6

\* What remains of a sequence is what is at these places.
LEMMA RemainsPlaces ==
  ASSUME NEW s, IsSequence(s), NEW P \in SUBSET (DOMAIN s)
  PROVE  LET u == Remaining(s, P) IN
            /\ IsSequence(u)
            /\ \A k \in DOMAIN u : \E i \in P : u[k] = s[i]
            /\ \A i \in P : s[i] \in ToSet(u)
            /\ u # << >> => s # << >>
<1> DEFINE rank(i) == Cardinality({j \in P : j <= i})
           n == Cardinality(P)
           u == Remaining(s, P)
<1>1. DOMAIN s = 1 .. Len(s) /\ Len(s) \in Nat BY Places
<1>2. /\ n \in Nat
      /\ \A i \in P : rank(i) \in 1 .. n
      /\ \A i, j \in P : rank(i) = rank(j) => i = j
      /\ \A k \in 1 .. n : \E i \in P : rank(i) = k
  BY <1>1, Ranked
<1>3. u = [k \in 1 .. n |-> s[CHOOSE i \in P : rank(i) = k]] BY DEF Remaining
<1>4. IsSequence(u) BY Remains
<1> HIDE DEF rank, n, u
<1>5. ASSUME NEW k \in 1 .. n PROVE \E i \in P : rank(i) = k /\ u[k] = s[i]
  BY <1>2, <1>3
<1>6. DOMAIN u = 1 .. n BY <1>3
<1>7. \A i \in P : s[i] \in ToSet(u)
  <2> SUFFICES ASSUME NEW i \in P PROVE \E k \in DOMAIN u : u[k] = s[i]
    BY DEF ToSet
  <2>1. PICK j \in P : rank(j) = rank(i) /\ u[rank(i)] = s[j] BY <1>2, <1>5
  <2> QED BY <1>2, <1>6, <2>1
<1>8. u # << >> => s # << >>
  <2> SUFFICES ASSUME s = << >> PROVE u = << >> OBVIOUS
  <2>1. P = {} BY <1>1
  <2>2. n = 0 BY <2>1, FS_EmptySet DEF n
  <2>3. DOMAIN u = {} BY <1>6, <2>2
  <2>4. PICK S : u \in Seq(S) BY <1>4 DEF IsSequence
  <2> QED BY <2>3, <2>4
<1> QED BY <1>4, <1>5, <1>6, <1>7, <1>8 DEF u

\* What stays of a sequence when one place is removed keeps its order.
LEMMA RemovedPlaces ==
  ASSUME NEW s, IsSequence(s), NEW k \in DOMAIN s
  PROVE  LET u == RemoveAt(s, k) IN
            /\ IsSequence(u) /\ DOMAIN u = 1 .. Len(s) - 1
            /\ DOMAIN s = 1 .. Len(s) /\ Len(s) \in Nat
            /\ \A i \in 1 .. Len(s) - 1 : u[i] = s[IF i < k THEN i ELSE i + 1]
<1>1. PICK S : s \in Seq(S) BY DEF IsSequence
<1>2. DOMAIN s = 1 .. Len(s) /\ Len(s) \in Nat /\ k \in 1 .. Len(s) BY <1>1
<1> DEFINE a == SubSeq(s, 1, k-1)
           b == SubSeq(s, k+1, Len(s))
           u == RemoveAt(s, k)
<1>3. a \in Seq(S) /\ Len(a) = k - 1 /\ \A i \in 1 .. k - 1 : a[i] = s[i]
  BY <1>1, <1>2
<1>4. IsSequence(b) /\ Len(b) = Len(s) - k /\ \A i \in 1 .. Len(s) - k : b[i] = s[k + i]
  <2>1. k \in Nat /\ k <= Len(s) BY <1>2
  <2> QED BY <2>1, LeftPlaces
<1>5. b \in Seq(S) BY <1>1, <1>2
<1>6. u = a \o b BY DEF RemoveAt
<1> HIDE DEF a, b, u
<1>7. u \in Seq(S) /\ Len(u) = Len(s) - 1
  <2>0. a \in Seq(S) /\ b \in Seq(S) BY <1>3, <1>5
  <2>1. a \o b \in Seq(S) /\ Len(a \o b) = Len(a) + Len(b) BY <2>0
  <2>2. (k - 1) + (Len(s) - k) = Len(s) - 1 BY <1>2
  <2> QED BY <1>3, <1>4, <1>6, <2>1, <2>2
<1>8. DOMAIN u = 1 .. Len(s) - 1 BY <1>7
<1>9. ASSUME NEW i \in 1 .. Len(s) - 1 PROVE u[i] = s[IF i < k THEN i ELSE i + 1]
  <2>1. CASE i < k
    <3>1. i \in 1 .. Len(a) /\ i \in 1 .. k - 1 BY <1>2, <1>3, <2>1
    <3>2. (a \o b)[i] = a[i] BY <1>3, <1>5, <3>1
    <3> QED BY <1>3, <1>6, <2>1, <3>1, <3>2
  <2>2. CASE ~(i < k)
    <3>1. i \in Nat /\ i > Len(a) /\ i <= Len(a) + Len(b) /\ i - Len(a) \in 1 .. Len(s) - k
      BY <1>2, <1>3, <1>4, <2>2
    <3>2. (a \o b)[i] = b[i - Len(a)] BY <1>3, <1>5, <3>1, Behind
    <3>3. b[i - Len(a)] = s[k + (i - Len(a))] BY <1>4, <3>1
    <3>4. k + (i - Len(a)) = i + 1 BY <1>2, <1>3, <3>1
    <3> QED BY <1>6, <2>2, <3>2, <3>3, <3>4
  <2> QED BY <2>1, <2>2
<1> QED BY <1>2, <1>7, <1>8, <1>9 DEF IsSequence, u

-----------------------------------------------------------------------------
(* Requests in flight.                                                     *)

LEMMA SentAreFinite ==
  ASSUME NEW w, IsSequence(w.flight), NEW who
  PROVE  /\ SentBy(w, who) \subseteq 1 .. Len(w.flight) /\ Len(w.flight) \in Nat
         /\ IsFiniteSet(SentBy(w, who)) /\ Cardinality(SentBy(w, who)) \in Nat
<1>1. SentBy(w, who) \in SUBSET (DOMAIN w.flight) BY DEF SentBy
<1> QED BY <1>1, Places

\* An answer that leaves is not one of the others.
LEMMA OthersStay ==
  ASSUME NEW w, IsSequence(w.flight), NEW i \in DOMAIN w.flight, NEW v,
         v.flight = RemoveAt(w.flight, i), NEW who, w.flight[i].who # who
  PROVE  /\ Cardinality(SentBy(v, who)) = Cardinality(SentBy(w, who))
         /\ SentBy(w, who) # {} => SentBy(v, who) # {}
<1> DEFINE n == Len(w.flight)
           A == SentBy(w, who)
           B == SentBy(v, who)
           to(j) == IF j < i THEN j ELSE j - 1
           from(j) == IF j < i THEN j ELSE j + 1
           f == [j \in A |-> to(j)]
<1>1. /\ DOMAIN w.flight = 1 .. n /\ n \in Nat /\ DOMAIN v.flight = 1 .. n - 1
      /\ \A j \in 1 .. n - 1 : v.flight[j] = w.flight[from(j)]
  BY RemovedPlaces
<1>2. i \in 1 .. n /\ i \notin A BY <1>1 DEF SentBy
<1>3. ASSUME NEW j \in A PROVE to(j) \in B /\ from(to(j)) = j
  <2>1. j \in 1 .. n /\ j # i /\ w.flight[j].who = who BY <1>1, <1>2 DEF SentBy
  <2>2. to(j) \in 1 .. n - 1 /\ from(to(j)) = j BY <1>1, <1>2, <2>1
  <2>3. v.flight[to(j)] = w.flight[j] BY <1>1, <2>2
  <2> QED BY <1>1, <2>1, <2>2, <2>3 DEF SentBy
<1>4. ASSUME NEW j \in B PROVE from(j) \in A /\ to(from(j)) = j
  <2>1. j \in 1 .. n - 1 /\ v.flight[j].who = who BY <1>1 DEF SentBy
  <2>2. from(j) \in 1 .. n /\ to(from(j)) = j BY <1>1, <1>2, <2>1
  <2>3. v.flight[j] = w.flight[from(j)] BY <1>1, <2>1
  <2> QED BY <1>1, <2>1, <2>2, <2>3 DEF SentBy
<1>5. f \in Bijection(A, B)
  <2>1. f \in [A -> B] BY <1>3
  <2>2. \A j \in B : \E k \in A : f[k] = j BY <1>4
  <2>3. IsInjective(f) BY <1>3 DEF IsInjective
  <2> HIDE DEF f, A, B
  <2> QED BY <2>1, <2>2, <2>3 DEF Bijection, Injection, Surjection
<1>6. IsFiniteSet(A) BY SentAreFinite
<1>7. ExistsBijection(A, B) BY <1>5 DEF ExistsBijection
<1>8. Cardinality(B) = Cardinality(A) BY <1>6, <1>7, FS_Bijection
<1>9. A # {} => B # {} BY <1>3
<1> QED BY <1>8, <1>9

-----------------------------------------------------------------------------
(* The pumps.                                                              *)

\* Nothing differs but the queue and what is in flight.
Alike(w, v) ==
    /\ DOMAIN v = Fields
    /\ v.doc = w.doc /\ v.turns = w.turns /\ v.enabled = w.enabled /\ v.panel = w.panel
    /\ v.order = w.order /\ v.build = w.build /\ v.shown = w.shown /\ v.watched = w.watched
    /\ v.cache = w.cache /\ v.failed = w.failed /\ v.versions = w.versions
    /\ v.generation = w.generation /\ v.open = w.open /\ v.pages = w.pages /\ v.at = w.at
    /\ v.room = w.room /\ v.zoom = w.zoom /\ v.settling = w.settling
    /\ v.resizing = w.resizing /\ v.drawn = w.drawn /\ v.unreadable = w.unreadable
    /\ v.revisions = w.revisions /\ v.screen = w.screen

\* What waits still does, and what is drawn too.
Sending(w, v) ==
    /\ Alike(w, v) /\ Asking(v)
    /\ Fresh(w) => Fresh(v)
    /\ \A t : Waiting(w, t) => Waiting(v, t)
    /\ Drawing(w) => Drawing(v)

LEMMA SendingCovers ==
  ASSUME NEW w, NEW v, Sending(w, v)
  PROVE  /\ \A p : CoversTile(w, p) => CoversTile(v, p)
         /\ Covers(w) => Covers(v)
         /\ ToDraw(v) = ToDraw(w)
         /\ Settled(w) => Settled(v)
<1>1. ToDraw(v) = ToDraw(w) BY DEF Sending, Alike, ToDraw, Fitted
<1>2. Settled(w) => Settled(v) BY <1>1 DEF Sending, Alike, Settled
<1>3. ASSUME NEW p, CoversTile(w, p) PROVE CoversTile(v, p)
  BY <1>3 DEF Sending, Alike, CoversTile
<1>4. Covers(w) => Covers(v) BY <1>3 DEF Covers, Sending, Alike
<1> QED BY <1>1, <1>2, <1>3, <1>4

\* A thumbnail asked for is of the present versions.
LEMMA ThumbAsks ==
  ASSUME NEW w, Asking(w), NEW k \in DOMAIN w.queue
  PROVE  LET r == ThumbRequest(w, w.queue[k]) IN
            Asks(w, r) /\ UpToDate(w, r) /\ r.tile = w.queue[k]
<1> DEFINE t == w.queue[k]
           r == ThumbRequest(w, t)
<1>1. /\ r.who = "thumbs" /\ r.page = t.page /\ r.tile = t /\ r.answer = NotYet
      /\ r.generation = w.generation /\ r.version = w.versions[t.page]
  BY DEF ThumbRequest
<1>2. NotYet # Blank
  <2>1. NotYet.kind = "not yet" /\ Blank.kind = "blank" BY DEF NotYet, Blank
  <2> QED BY <2>1
<1>3. t.build \in Nat /\ t.build <= w.build BY DEF Asking
<1> HIDE DEF r, t
<1>4. Asks(w, r) /\ UpToDate(w, r) BY <1>1, <1>2, <1>3 DEF Asks, UpToDate
<1> QED BY <1>1, <1>4 DEF r, t

\* Wake leaves no slot free while a thumbnail waits.
LEMMA WakeFills ==
  ASSUME NEW w, Asking(w)
  PROVE  Sending(w, Wake(w)) /\ Full(Wake(w))
<1> DEFINE q == Len(w.queue)
           L == Len(w.flight)
           c == Cardinality(SentBy(w, "thumbs"))
           free == Slots(w) - c
           n == IF free < 0 THEN 0 ELSE IF free < q THEN free ELSE q
           sent == [i \in 1 .. n |-> ThumbRequest(w, w.queue[i])]
           left == SubSeq(w.queue, n + 1, q)
           flight == w.flight \o sent
           v == Wake(w)
<1>1. /\ SentBy(w, "thumbs") \subseteq 1 .. L /\ L \in Nat
      /\ IsFiniteSet(SentBy(w, "thumbs")) /\ c \in Nat
  BY SentAreFinite DEF Asking
<1>2. Slots(w) \in Nat BY ViewAssumption DEF Slots
<1>3. q \in Nat /\ DOMAIN w.queue = 1 .. q BY DEF Asking, IsSequence
<1>4. n \in Nat /\ n <= q /\ (n < q => c + n >= Slots(w)) BY <1>1, <1>2, <1>3
<1>5. v = [w EXCEPT !.queue = left, !.flight = flight] BY DEF Wake
<1>6. /\ IsSequence(left) /\ Len(left) = q - n /\ DOMAIN left = 1 .. q - n
      /\ \A k \in 1 .. q - n : left[k] = w.queue[n + k]
  <2> HIDE DEF n
  <2> QED BY <1>4, LeftPlaces DEF Asking
<1>7. /\ DOMAIN w.flight = 1 .. L /\ IsSequence(flight) /\ DOMAIN flight = 1 .. L + n
      /\ \A i \in 1 .. L : flight[i] = w.flight[i]
      /\ \A j \in 1 .. n : flight[L + j] = sent[j]
  <2>1. sent = [i \in 1 .. n |-> sent[i]] OBVIOUS
  <2>2. n \in Nat /\ IsSequence(w.flight) BY <1>4 DEF Asking
  <2> HIDE DEF sent, n
  <2>3. /\ DOMAIN w.flight = 1 .. Len(w.flight) /\ IsSequence(w.flight \o sent)
        /\ DOMAIN (w.flight \o sent) = 1 .. Len(w.flight) + n
        /\ \A i \in 1 .. Len(w.flight) : (w.flight \o sent)[i] = w.flight[i]
        /\ \A j \in 1 .. n : (w.flight \o sent)[Len(w.flight) + j] = sent[j]
    BY <2>1, <2>2, JoinedPlaces
  <2> QED BY <2>3
<1>8. \A j \in 1 .. n : sent[j] = ThumbRequest(w, w.queue[j]) OBVIOUS
<1> HIDE DEF n, sent, left, flight, v, c, free
<1>9. Alike(w, v) /\ v.queue = left /\ v.flight = flight
  BY <1>5 DEF Asking, Fields, Alike
<1>10. ASSUME NEW j \in 1 .. n
       PROVE  /\ flight[L + j] = ThumbRequest(w, w.queue[j])
              /\ Asks(w, flight[L + j]) /\ UpToDate(w, flight[L + j])
              /\ flight[L + j].tile = w.queue[j]
  <2>1. j \in DOMAIN w.queue BY <1>3, <1>4
  <2> QED BY <1>7, <1>8, <2>1, ThumbAsks
<1>11. ASSUME NEW i \in 1 .. L + n
       PROVE  \/ i \in 1 .. L /\ flight[i] = w.flight[i]
              \/ \E j \in 1 .. n : i = L + j
  <2>1. CASE i <= L
    <3>1. i \in 1 .. L BY <1>1, <1>4, <2>1
    <3> QED BY <1>7, <3>1
  <2>2. CASE i > L
    <3>1. i - L \in 1 .. n /\ i = L + (i - L) BY <1>1, <1>4, <2>2
    <3> QED BY <3>1
  <2> QED BY <1>1, <1>4, <2>1, <2>2
<1>12. Asking(v)
  <2>1. \A k \in DOMAIN v.queue : v.queue[k].build \in Nat /\ v.queue[k].build <= v.build
    <3> SUFFICES ASSUME NEW k \in 1 .. q - n
                 PROVE  left[k].build \in Nat /\ left[k].build <= w.build
      BY <1>6, <1>9 DEF Alike
    <3>1. n + k \in DOMAIN w.queue BY <1>3, <1>4
    <3> QED BY <1>6, <3>1 DEF Asking
  <2>2. ASSUME NEW i \in DOMAIN v.flight, v.flight[i].who # "view"
        PROVE  Asks(v, v.flight[i])
    <3>1. Asks(w, v.flight[i]) BY <1>7, <1>9, <1>10, <1>11, <2>2 DEF Asking
    <3> QED BY <1>9, <3>1 DEF Asks, Alike
  <2> QED BY <1>6, <1>7, <1>9, <2>1, <2>2 DEF Asking, Alike
<1>13. Fresh(w) => Fresh(v)
  <2> SUFFICES ASSUME Fresh(w), NEW i \in DOMAIN v.flight, v.flight[i].who # "view",
                      v.flight[i].tile.build = v.build
               PROVE  UpToDate(v, v.flight[i])
    BY DEF Fresh
  <2>1. UpToDate(w, v.flight[i]) BY <1>7, <1>9, <1>10, <1>11 DEF Fresh, Alike
  <2> QED BY <1>9, <2>1 DEF UpToDate, Alike
<1>14. SentBy(v, "thumbs") = SentBy(w, "thumbs") \cup (L + 1 .. L + n)
  <2>1. ASSUME NEW i \in SentBy(v, "thumbs")
        PROVE  i \in SentBy(w, "thumbs") \cup (L + 1 .. L + n)
    <3>1. i \in 1 .. L + n /\ flight[i].who = "thumbs" BY <1>7, <1>9 DEF SentBy
    <3>2. CASE i \in 1 .. L /\ flight[i] = w.flight[i] BY <1>7, <3>1, <3>2 DEF SentBy
    <3>3. CASE \E j \in 1 .. n : i = L + j BY <1>1, <1>4, <3>3
    <3> QED BY <1>11, <3>1, <3>2, <3>3
  <2>2. ASSUME NEW i \in SentBy(w, "thumbs") PROVE i \in SentBy(v, "thumbs")
    <3>1. i \in 1 .. L /\ w.flight[i].who = "thumbs" BY <1>7 DEF SentBy
    <3>2. i \in 1 .. L + n BY <1>1, <1>4, <3>1
    <3> QED BY <1>7, <1>9, <3>1, <3>2 DEF SentBy
  <2>3. ASSUME NEW i \in L + 1 .. L + n PROVE i \in SentBy(v, "thumbs")
    <3>1. i - L \in 1 .. n /\ i = L + (i - L) /\ i \in 1 .. L + n BY <1>1, <1>4
    <3>2. flight[L + (i - L)].who = "thumbs" BY <1>10, <3>1 DEF Asks
    <3>3. flight[i].who = "thumbs" BY <3>1, <3>2
    <3> QED BY <1>7, <1>9, <3>1, <3>3 DEF SentBy
  <2> QED BY <2>1, <2>2, <2>3
<1>15. Cardinality(SentBy(v, "thumbs")) = c + n
  <2>1. IsFiniteSet(L + 1 .. L + n) /\ Cardinality(L + 1 .. L + n) = n
    <3>1. L + 1 \in Int /\ L + n \in Int BY <1>1, <1>4
    <3>2. /\ IsFiniteSet(L + 1 .. L + n)
          /\ Cardinality(L + 1 .. L + n) =
                IF L + 1 > L + n THEN 0 ELSE (L + n) - (L + 1) + 1
      BY <3>1, FS_Interval, Zenon
    <3> QED BY <1>1, <1>4, <3>2
  <2>2. SentBy(w, "thumbs") \cap (L + 1 .. L + n) = {} BY <1>1, <1>4
  <2>3. Cardinality({}) = 0 BY FS_EmptySet
  <2> DEFINE A == SentBy(w, "thumbs")
             B == L + 1 .. L + n
  <2>4. IsFiniteSet(A) /\ IsFiniteSet(B) /\ A \cap B = {} BY <1>1, <2>1, <2>2
  <2>5. Cardinality(A) = c /\ Cardinality(B) = n BY <2>1 DEF c
  <2> HIDE DEF A, B
  <2>6. Cardinality(A \cup B) = Cardinality(A) + Cardinality(B) - Cardinality(A \cap B)
    BY <2>4, FS_Union
  <2>7. Cardinality(A \cap B) = 0 BY <2>3, <2>4
  <2>8. Cardinality(A \cup B) = c + n BY <1>1, <1>4, <2>5, <2>6, <2>7
  <2> QED BY <1>14, <2>8 DEF A, B
<1>16. SentBy(v, "view") # {} <=> SentBy(w, "view") # {}
  <2>1. ASSUME NEW i \in SentBy(v, "view") PROVE i \in SentBy(w, "view")
    <3>1. i \in 1 .. L + n /\ flight[i].who = "view" BY <1>7, <1>9 DEF SentBy
    <3>2. CASE i \in 1 .. L /\ flight[i] = w.flight[i] BY <1>7, <3>1, <3>2 DEF SentBy
    <3>3. CASE \E j \in 1 .. n : i = L + j BY <1>10, <3>1, <3>3 DEF Asks
    <3> QED BY <1>11, <3>1, <3>2, <3>3
  <2>2. ASSUME NEW i \in SentBy(w, "view") PROVE i \in SentBy(v, "view")
    <3>1. i \in 1 .. L /\ w.flight[i].who = "view" BY <1>7 DEF SentBy
    <3>2. i \in 1 .. L + n BY <1>1, <1>4, <3>1
    <3> QED BY <1>7, <1>9, <3>1, <3>2 DEF SentBy
  <2> QED BY <2>1, <2>2
<1>17. (Drawing(v) <=> Drawing(w)) /\ Slots(v) = Slots(w)
  BY <1>9, <1>16 DEF Drawing, Slots, Alike
<1>18. Full(v)
  <2> SUFFICES ASSUME left # << >> PROVE c + n >= Slots(w)
    BY <1>9, <1>15, <1>17 DEF Full
  <2>1. q - n # 0
    <3> SUFFICES ASSUME Len(left) = 0 PROVE FALSE BY <1>6
    <3>1. PICK S : left \in Seq(S) BY <1>6 DEF IsSequence
    <3> QED BY <3>1
  <2> QED BY <1>3, <1>4, <2>1
<1>19. ASSUME NEW t, Waiting(w, t) PROVE Waiting(v, t)
  <2>1. ASSUME NEW k \in 1 .. q, w.queue[k] = t PROVE Waiting(v, t)
    <3>1. CASE k <= n
      <4>1. k \in 1 .. n /\ L + k \in L + 1 .. L + n BY <1>1, <1>3, <1>4, <3>1
      <4>2. L + k \in SentBy(v, "thumbs") /\ v.flight[L + k].tile = t
        BY <1>9, <1>10, <1>14, <2>1, <4>1
      <4> QED BY <4>2 DEF Waiting
    <3>2. CASE k > n
      <4>1. k - n \in 1 .. q - n /\ n + (k - n) = k BY <1>3, <1>4, <3>2
      <4>2. left[k - n] = t BY <1>6, <2>1, <4>1
      <4>3. t \in ToSet(v.queue) BY <1>6, <1>9, <4>1, <4>2 DEF ToSet
      <4> QED BY <4>3 DEF Waiting
    <3> QED BY <1>3, <1>4, <3>1, <3>2
  <2>2. ASSUME NEW i \in SentBy(w, "thumbs"), w.flight[i].tile = t PROVE Waiting(v, t)
    <3>1. i \in SentBy(v, "thumbs") /\ v.flight[i] = w.flight[i]
      BY <1>1, <1>7, <1>9, <1>14
    <3> QED BY <2>2, <3>1 DEF Waiting
  <2>3. t \in ToSet(w.queue) => \E k \in 1 .. q : w.queue[k] = t BY <1>3 DEF ToSet
  <2> QED BY <1>19, <2>1, <2>2, <2>3 DEF Waiting
<1>20. Sending(w, v) BY <1>9, <1>12, <1>13, <1>17, <1>19 DEF Sending
<1> QED BY <1>18, <1>20 DEF v

\* The view open and drawing leaves no slot to the thumbnails.
LEMMA NoSlotWhileDrawing ==
  ASSUME NEW w, IsSequence(w.flight), w.open, Drawing(w)
  PROVE  Full(w)
<1>1. Slots(w) = 0 BY DEF Slots
<1>2. Cardinality(SentBy(w, "thumbs")) \in Nat BY SentAreFinite
<1> QED BY <1>1, <1>2 DEF Full

LEMMA AddedPlaces ==
  ASSUME NEW s, IsSequence(s), NEW e
  PROVE  LET u == Append(s, e) IN
            /\ IsSequence(u) /\ Len(s) \in Nat /\ DOMAIN s = 1 .. Len(s)
            /\ DOMAIN u = 1 .. Len(s) + 1 /\ u[Len(s) + 1] = e
            /\ \A i \in 1 .. Len(s) : u[i] = s[i]
<1>1. PICK S : s \in Seq(S) BY DEF IsSequence
<1> DEFINE U == S \cup {e}
<1>2. s \in Seq(U) /\ e \in U BY <1>1
<1> HIDE DEF U
<1>3. Append(s, e) \in Seq(U) BY <1>2
<1> QED BY <1>2, <1>3 DEF IsSequence

\* Pump leaves the view drawing, or with nothing to draw and no slot free.
LEMMA PumpFills ==
  ASSUME NEW w, Asking(w), Full(w) \/ w.open \/ ~Drawing(w)
  PROVE  Sending(w, Pump(w)) /\ Full(Pump(w)) /\ Settled(Pump(w))
<1> DEFINE v == Pump(w)
<1>1. CASE Drawing(w)
  <2>1. v = w BY <1>1 DEF Pump
  <2>2. Sending(w, w) BY DEF Sending, Alike, Asking
  <2>3. Full(w) BY <1>1, NoSlotWhileDrawing DEF Asking
  <2>4. Settled(w) BY <1>1 DEF Settled
  <2> QED BY <2>1, <2>2, <2>3, <2>4
<1>2. CASE ~Drawing(w) /\ ToDraw(w) = << >>
  <2>1. v = Wake(w) BY <1>2 DEF Pump
  <2>2. Sending(w, v) /\ Full(v) BY <2>1, WakeFills
  <2>3. ToDraw(v) = << >> BY <1>2, <2>2, SendingCovers
  <2> QED BY <2>2, <2>3 DEF Settled
<1>3. CASE ~Drawing(w) /\ ToDraw(w) # << >>
  <2> DEFINE r == ViewRequest(w, Head(ToDraw(w)))
             L == Len(w.flight)
             flight == Append(w.flight, r)
  <2>1. v = [w EXCEPT !.flight = flight] BY <1>3 DEF Pump
  <2>2. r.who = "view" BY DEF ViewRequest
  <2>3. w.open BY <1>3 DEF ToDraw
  <2>4. /\ IsSequence(flight) /\ L \in Nat /\ DOMAIN w.flight = 1 .. L
        /\ DOMAIN flight = 1 .. L + 1 /\ flight[L + 1] = r
        /\ \A i \in 1 .. L : flight[i] = w.flight[i]
    BY AddedPlaces DEF Asking
  <2> HIDE DEF r, flight, v
  <2>5. Alike(w, v) /\ v.queue = w.queue /\ v.flight = flight
    BY <2>1 DEF Asking, Fields, Alike
  <2>6. ASSUME NEW i \in DOMAIN v.flight, v.flight[i].who # "view"
        PROVE  i \in DOMAIN w.flight /\ v.flight[i] = w.flight[i]
    <3>1. i # L + 1 BY <2>2, <2>4, <2>5, <2>6
    <3>2. i \in 1 .. L BY <2>4, <2>5, <3>1
    <3> QED BY <2>4, <2>5, <3>2
  <2>7. Asking(v)
    <3>1. \A i \in DOMAIN v.flight : v.flight[i].who # "view" => Asks(v, v.flight[i])
      BY <2>5, <2>6 DEF Asking, Asks, Alike
    <3> QED BY <2>4, <2>5, <3>1 DEF Asking, Alike
  <2>8. Fresh(w) => Fresh(v) BY <2>5, <2>6 DEF Fresh, UpToDate, Alike
  <2>9. ASSUME NEW i \in SentBy(w, "thumbs")
        PROVE  i \in SentBy(v, "thumbs") /\ v.flight[i] = w.flight[i]
    <3>1. i \in 1 .. L /\ w.flight[i].who = "thumbs" BY <2>4 DEF SentBy
    <3> QED BY <2>4, <2>5, <3>1 DEF SentBy
  <2>10. \A t : Waiting(w, t) => Waiting(v, t) BY <2>5, <2>9 DEF Waiting
  <2>11. Drawing(v)
    <3>1. L + 1 \in SentBy(v, "view") BY <2>2, <2>4, <2>5 DEF SentBy
    <3> QED BY <3>1 DEF Drawing
  <2>12. Full(v) BY <2>3, <2>4, <2>5, <2>11, NoSlotWhileDrawing DEF Alike
  <2>13. Sending(w, v) BY <2>5, <2>7, <2>8, <2>10, <2>11 DEF Sending
  <2> QED BY <2>11, <2>12, <2>13 DEF Settled, v
<1> QED BY <1>1, <1>2, <1>3

-----------------------------------------------------------------------------
(* What the window does to its tiles.                                      *)

\* The grid and what was asked for it are as they were.
Tiled(w, v) ==
    /\ DOMAIN v = Fields
    /\ v.order = w.order /\ v.build = w.build /\ v.shown = w.shown /\ v.watched = w.watched
    /\ v.cache = w.cache /\ v.failed = w.failed /\ v.enabled = w.enabled
    /\ v.versions = w.versions /\ v.generation = w.generation
    /\ v.queue = w.queue /\ v.flight = w.flight

LEMMA TiledKeeps ==
  ASSUME NEW w, NEW v, Tiled(w, v)
  PROVE  /\ Asking(w) => Asking(v)
         /\ Fresh(w) => Fresh(v)
         /\ Covers(w) => Covers(v)
         /\ SentBy(v, "thumbs") = SentBy(w, "thumbs")
         /\ SentBy(v, "view") = SentBy(w, "view")
<1>1. Asking(w) => Asking(v) BY DEF Tiled, Asking, Asks
<1>2. Fresh(w) => Fresh(v) BY DEF Tiled, Fresh, UpToDate
<1>3. \A who : SentBy(v, who) = SentBy(w, who) BY DEF Tiled, SentBy
<1>4. \A t : Waiting(w, t) <=> Waiting(v, t) BY <1>3 DEF Tiled, Waiting
<1>5. Covers(w) => Covers(v) BY <1>4 DEF Tiled, Covers, CoversTile
<1> QED BY <1>1, <1>2, <1>3, <1>5

\* After a pump.
LEMMA PumpAttends ==
  ASSUME NEW w, Asking(w), Full(w) \/ w.open \/ ~Drawing(w)
  PROVE  LET v == Pump(w) IN
            /\ Asking(v) /\ Full(v) /\ Settled(v)
            /\ Fresh(w) => Fresh(v)
            /\ Covers(w) => Covers(v)
BY PumpFills, SendingCovers DEF Sending

LEMMA WakeAttends ==
  ASSUME NEW w, Asking(w)
  PROVE  LET v == Wake(w) IN
            /\ Asking(v) /\ Full(v)
            /\ Fresh(w) => Fresh(v)
            /\ Settled(w) => Settled(v)
            /\ Covers(w) => Covers(v)
BY WakeFills, SendingCovers DEF Sending

LEMMA ForgetFarTiles ==
  ASSUME NEW w, DOMAIN w = Fields
  PROVE  /\ Tiled(w, ForgetFar(w)) /\ ForgetFar(w).open = w.open
         /\ ForgetFar(w).settling = w.settling /\ ForgetFar(w).panel = w.panel
<1> DEFINE v == ForgetFar(w)
<1>1. PICK drawn : v = [w EXCEPT !.drawn = drawn] BY DEF ForgetFar
<1> HIDE DEF v
<1>2. Tiled(w, v) /\ v.open = w.open /\ v.settling = w.settling /\ v.panel = w.panel
  BY <1>1 DEF Fields, Tiled
<1> QED BY <1>2 DEF v

LEMMA ShowAttends ==
  ASSUME NEW w, Asking(w), w.open
  PROVE  LET v == Show(w) IN
            /\ Asking(v) /\ Full(v) /\ Settled(v)
            /\ Fresh(w) => Fresh(v)
            /\ Covers(w) => Covers(v)
<1> DEFINE kept == ForgetFar(w)
           screen == [page |-> OnScreen(w), what |-> BestOf(kept, OnScreen(w))]
           v == [kept EXCEPT !.screen = screen]
<1>1. Show(w) = Pump(v) BY DEF Show
<1>2. Tiled(w, kept) /\ kept.open BY ForgetFarTiles DEF Asking
<1> HIDE DEF kept, screen
<1>3. Tiled(w, v) /\ v.open BY <1>2 DEF Fields, Tiled
<1> HIDE DEF v
<1>4. Asking(v) /\ (Fresh(w) => Fresh(v)) /\ (Covers(w) => Covers(v))
  BY <1>3, TiledKeeps
<1> QED BY <1>1, <1>3, <1>4, PumpAttends

\* The grid built again: a tile without an image is watched, and no request
\* was made for it yet.
LEMMA RenderGridAttends ==
  ASSUME NEW w, Asking(w), Full(w), Settled(w), NEW order \in Seq(SourcePages)
  PROVE  Attends(RenderGrid(w, order))
<1> DEFINE found(p) == IF w.cache[p] # Blank THEN w.cache[p]
                       ELSE IF p \in w.failed THEN Message ELSE Blank
           new == {Tile(p, w.build + 1) : p \in {p \in ToSet(order) : found(p) = Blank}}
           tiles == [p \in SourcePages |-> IF p \in ToSet(order) THEN found(p) ELSE Blank]
           watched == [t \in new \cup InViewOf(w.watched) |->
                          IF t \in new THEN "out" ELSE "in"]
           v == RenderGrid(w, order)
<1>1. v = [w EXCEPT !.order = order, !.build = w.build + 1, !.shown = tiles,
                    !.watched = watched]
  BY DEF RenderGrid
<1>2. ASSUME NEW p \in ToSet(order), tiles[p] = Blank
      PROVE  /\ Tile(p, w.build + 1) \in DOMAIN watched
             /\ watched[Tile(p, w.build + 1)] = "out"
  <2>1. p \in SourcePages BY DEF ToSet
  <2>2. found(p) = Blank BY <1>2, <2>1
  <2>3. Tile(p, w.build + 1) \in new BY <2>2
  <2> HIDE DEF new
  <2> QED BY <2>3
<1> HIDE DEF found, new, tiles, watched, v
<1>3. /\ DOMAIN v = Fields /\ v.order = order /\ v.build = w.build + 1 /\ v.shown = tiles
      /\ v.watched = watched /\ v.queue = w.queue /\ v.flight = w.flight
      /\ v.open = w.open /\ v.panel = w.panel /\ v.settling = w.settling
      /\ v.resizing = w.resizing /\ v.at = w.at /\ v.pages = w.pages /\ v.room = w.room
      /\ v.zoom = w.zoom /\ v.enabled = w.enabled /\ v.unreadable = w.unreadable
      /\ v.drawn = w.drawn
  BY <1>1 DEF Asking, Fields
<1>4. w.build \in Nat BY DEF Asking
<1>5. Asking(v)
  <2>1. \A r : Asks(w, r) => Asks(v, r) BY <1>3, <1>4 DEF Asks
  <2>2. \A i \in DOMAIN v.queue : v.queue[i].build \in Nat /\ v.queue[i].build <= v.build
    BY <1>3, <1>4 DEF Asking
  <2> QED BY <1>3, <1>4, <2>1, <2>2 DEF Asking
<1>6. Fresh(v)
  <2> SUFFICES ASSUME NEW i \in DOMAIN v.flight, v.flight[i].who # "view"
               PROVE  v.flight[i].tile.build # v.build
    BY DEF Fresh
  <2>1. Asks(w, v.flight[i]) BY <1>3 DEF Asking
  <2> QED BY <1>3, <1>4, <2>1 DEF Asks
<1>7. \A who : SentBy(v, who) = SentBy(w, who) BY <1>3 DEF SentBy
<1>8. Drawing(v) = Drawing(w) /\ Slots(v) = Slots(w) BY <1>3, <1>7 DEF Drawing, Slots
<1>9. Full(v) BY <1>3, <1>7, <1>8 DEF Full
<1>10. ToDraw(v) = ToDraw(w) BY <1>3 DEF ToDraw, Fitted
<1>11. Settled(v) BY <1>3, <1>8, <1>10 DEF Settled
<1>12. Covers(v)
  <2> SUFFICES ASSUME NEW p \in ToSet(order), tiles[p] = Blank
               PROVE  /\ Tile(p, w.build + 1) \in DOMAIN watched
                      /\ watched[Tile(p, w.build + 1)] # "in"
    BY <1>3 DEF Covers, CoversTile
  <2> QED BY <1>2
<1> QED BY <1>5, <1>6, <1>9, <1>11, <1>12 DEF Attends, v

\* What is forgotten leaves the queue, and the rest of it stands.
LEMMA LessAsked ==
  ASSUME NEW w, Asking(w), NEW v, NEW P \in SUBSET (DOMAIN w.queue),
         DOMAIN v = Fields, v.build = w.build, v.flight = w.flight,
         v.queue = Remaining(w.queue, P), v.open = w.open, v.panel = w.panel,
         v.settling = w.settling
  PROVE  /\ Asking(v)
         /\ Full(w) => Full(v)
         /\ \A t : Waiting(w, t) /\ (\A i \in DOMAIN w.queue : w.queue[i] = t => i \in P)
                     => Waiting(v, t)
<1>1. /\ IsSequence(v.queue)
      /\ \A k \in DOMAIN v.queue : \E i \in P : v.queue[k] = w.queue[i]
      /\ \A i \in P : w.queue[i] \in ToSet(v.queue)
      /\ v.queue # << >> => w.queue # << >>
  BY RemainsPlaces DEF Asking
<1>2. Asking(v)
  <2>1. \A r : Asks(w, r) => Asks(v, r) BY DEF Asks
  <2>2. \A k \in DOMAIN v.queue : v.queue[k].build \in Nat /\ v.queue[k].build <= v.build
    BY <1>1 DEF Asking
  <2> QED BY <1>1, <2>1, <2>2 DEF Asking
<1>3. \A who : SentBy(v, who) = SentBy(w, who) BY DEF SentBy
<1>4. Slots(v) = Slots(w) BY <1>3 DEF Drawing, Slots
<1>5. Full(w) => Full(v) BY <1>1, <1>3, <1>4 DEF Full
<1>6. ASSUME NEW t, Waiting(w, t), \A i \in DOMAIN w.queue : w.queue[i] = t => i \in P
      PROVE  Waiting(v, t)
  <2>1. CASE t \in ToSet(w.queue)
    <3>1. PICK i \in DOMAIN w.queue : w.queue[i] = t BY <2>1 DEF ToSet
    <3> QED BY <1>1, <1>6, <3>1 DEF Waiting
  <2>2. CASE t \notin ToSet(w.queue)
    BY <1>3, <1>6, <2>2 DEF Waiting
  <2> QED BY <2>1, <2>2
<1> QED BY <1>2, <1>5, <1>6

-----------------------------------------------------------------------------
(* A rotation told, and a document loaded: the grid is built again.        *)

LEMMA PagesChangedAttends ==
  ASSUME NEW w, Asking(w), Full(w), NEW P
  PROVE  LET v == PagesChanged(w, P) IN Asking(v) /\ Full(v) /\ Settled(v)
<1> DEFINE drawn == [p \in SourcePages |-> IF p \in P THEN NotDrawn ELSE w.drawn[p]]
           revisions == [p \in SourcePages |-> IF p \in P THEN w.revisions[p] + 1
                                               ELSE w.revisions[p]]
           v == [w EXCEPT !.drawn = drawn, !.unreadable = w.unreadable \ P,
                          !.revisions = revisions]
<1>1. (PagesChanged(w, P) = Show(v) /\ v.open) \/ PagesChanged(w, P) = Pump(v)
  BY DEF PagesChanged, OnScreen, Asking, Fields
<1> HIDE DEF drawn, revisions
<1>2. Tiled(w, v) /\ v.open = w.open /\ v.panel = w.panel /\ v.settling = w.settling
  BY DEF Asking, Fields, Tiled
<1> HIDE DEF v
<1>3. Asking(v) BY <1>2, TiledKeeps
<1>4. Full(v) BY <1>2, TiledKeeps DEF Full, Slots, Drawing, Tiled
<1> QED BY <1>1, <1>3, <1>4, ShowAttends, PumpAttends

LEMMA EditedAttends ==
  ASSUME NEW w, Asking(w), Full(w), w.order \in Seq(SourcePages), NEW P
  PROVE  Attends(Edited(w, P))
<1> DEFINE kept == {i \in DOMAIN w.queue : w.queue[i].page \notin P}
           left == Remaining(w.queue, kept)
           cache == [p \in SourcePages |-> IF p \in P THEN Blank ELSE w.cache[p]]
           versions == [p \in SourcePages |-> IF p \in P THEN w.versions[p] + 1
                                              ELSE w.versions[p]]
           v == Invalidate(w, P)
           u == PagesChanged(v, P)
<1>1. v = [w EXCEPT !.cache = cache, !.failed = w.failed \ P, !.versions = versions,
                    !.queue = left]
  BY DEF Invalidate
<1>2. Edited(w, P) = RenderGrid(u, w.order) BY DEF Edited
<1>3. kept \in SUBSET (DOMAIN w.queue) OBVIOUS
<1> HIDE DEF v, cache, versions, kept
<1>4. /\ DOMAIN v = Fields /\ v.build = w.build /\ v.flight = w.flight /\ v.queue = left
      /\ v.open = w.open /\ v.panel = w.panel /\ v.settling = w.settling
  BY <1>1 DEF Asking, Fields
<1>5. Asking(v) /\ Full(v) BY <1>3, <1>4, LessAsked
<1>6. Asking(u) /\ Full(u) /\ Settled(u) BY <1>5, PagesChangedAttends
<1> HIDE DEF u
<1> QED BY <1>2, <1>6, RenderGridAttends

\* With the view closed and no thumbnail waiting, nothing is left to send.
LEMMA LoadedAttends ==
  ASSUME NEW w, DOMAIN w = Fields, IsSequence(w.flight), w.build \in Nat,
         \A i \in DOMAIN w.flight : w.flight[i].who # "view" => Asks(w, w.flight[i]),
         NEW doc
  PROVE  Attends(Loaded(w, doc))
<1> DEFINE cache == [p \in SourcePages |-> Blank]
           drawn == [p \in SourcePages |-> NotDrawn]
           none == << >>
           e == [w EXCEPT
            !.doc = doc, !.turns = NoTurns, !.generation = w.generation + 1,
            !.cache = cache, !.failed = {}, !.versions = NoTurns,
            !.queue = none, !.watched = none,
            !.drawn = drawn, !.unreadable = {}, !.revisions = NoTurns]
           v == Hide(e)
           u == Wake(v)
<1>1. Loaded(w, doc) = RenderGrid(u, FileOrder) BY DEF Loaded
<1>2. v = [e EXCEPT !.open = FALSE, !.settling = FALSE, !.resizing = FALSE] BY DEF Hide
<1>3. IsSequence(none) /\ DOMAIN none = {} BY DEF IsSequence
<1> HIDE DEF cache, drawn, none, v
<1>4. /\ DOMAIN e = Fields /\ e.queue = none /\ e.flight = w.flight /\ e.build = w.build
  BY DEF Fields
<1> HIDE DEF e
<1>5. /\ DOMAIN v = Fields /\ v.queue = none /\ v.flight = w.flight /\ v.build = w.build
      /\ v.open = FALSE
  BY <1>2, <1>4 DEF Fields
<1>6. Asking(v)
  <2>1. \A r : Asks(w, r) => Asks(v, r) BY <1>5 DEF Asks
  <2> QED BY <1>3, <1>5, <2>1 DEF Asking
<1>7. Settled(v) BY <1>5 DEF Settled, ToDraw
<1>8. Asking(u) /\ Full(u) /\ Settled(u) BY <1>6, <1>7, WakeAttends
<1> HIDE DEF u
<1> QED BY <1>1, <1>8, ViewAssumption, RenderGridAttends

LEMMA NewWindowAttends ==
  ASSUME NEW enabled, NEW panel
  PROVE  Attends(NewWindow(enabled, panel))
<1> DEFINE none == << >>
           w == [doc |-> 0, turns |-> NoTurns, enabled |-> enabled, panel |-> panel,
                 order |-> FileOrder, build |-> 0, shown |-> none, watched |-> none,
                 cache |-> none, failed |-> {}, queue |-> none, versions |-> NoTurns,
                 generation |-> 0, flight |-> none,
                 open |-> FALSE, pages |-> FileOrder, at |-> 1, room |-> Max(Rooms),
                 zoom |-> 1, settling |-> FALSE, resizing |-> FALSE, drawn |-> none,
                 unreadable |-> {}, revisions |-> NoTurns,
                 screen |-> [page |-> 0, what |-> Message]]
<1>1. NewWindow(enabled, panel) = Loaded(w, 1) BY DEF NewWindow
<1>2. IsSequence(none) /\ DOMAIN none = {} BY DEF IsSequence
<1> HIDE DEF none
<1>3. DOMAIN w = Fields /\ w.flight = none /\ w.build = 0 BY DEF Fields
<1> HIDE DEF w
<1> QED BY <1>1, <1>2, <1>3, LoadedAttends

-----------------------------------------------------------------------------
(* The steps.                                                              *)

\* What does not change the grid, its tiles or the requests for them, and
\* frees no slot.
LEMMA TiledAttends ==
  ASSUME NEW w, Attends(w), NEW v, Tiled(w, v),
         Drawing(v) \/ (v.open = w.open /\ v.panel = w.panel /\ v.settling = w.settling)
  PROVE  /\ Asking(v) /\ Fresh(v) /\ Covers(v)
         /\ v.open = w.open => Full(v)
<1>1. /\ Asking(v) /\ Fresh(v) /\ Covers(v)
      /\ SentBy(v, "thumbs") = SentBy(w, "thumbs")
      /\ SentBy(v, "view") = SentBy(w, "view")
  BY TiledKeeps DEF Attends
<1>2. ASSUME v.open = w.open PROVE Full(v)
  <2>1. CASE Drawing(v) /\ v.open BY <1>1, <2>1, NoSlotWhileDrawing DEF Asking
  <2>2. CASE ~v.open BY <1>1, <1>2, <2>2 DEF Attends, Full, Slots, Tiled
  <2>3. CASE ~Drawing(v) BY <1>1, <1>2, <2>3 DEF Attends, Full, Slots, Drawing, Tiled
  <2> QED BY <2>1, <2>2, <2>3
<1> QED BY <1>1, <1>2

LEMMA EntersAttends == Current /\ Attends(pane) /\ Enters => Attends(pane')
<1> SUFFICES ASSUME Attends(pane), Enters PROVE Attends(pane') BY Zenon
<1>1. PICK t \in DOMAIN pane.watched :
         /\ InGrid(pane, t)
         /\ pane' = Want([pane EXCEPT !.watched[t] = "in"], t)
  BY DEF Enters, Only
<1> DEFINE watched == [pane.watched EXCEPT ![t] = "in"]
           v == [pane EXCEPT !.watched = watched]
           queue == <<t>> \o pane.queue
           u == [v EXCEPT !.queue = queue]
<1>2. pane' = Want(v, t) BY <1>1 DEF Attends, Asking, Fields
<1>3. DOMAIN watched = DOMAIN pane.watched
      /\ \A x \in DOMAIN watched : x # t => watched[x] = pane.watched[x]
  OBVIOUS
<1> HIDE DEF watched, queue
<1>4. /\ Tiled(pane, [v EXCEPT !.watched = pane.watched]) /\ DOMAIN v = Fields
      /\ v.watched = watched /\ v.order = pane.order /\ v.build = pane.build
      /\ v.shown = pane.shown /\ v.cache = pane.cache /\ v.failed = pane.failed
      /\ v.enabled = pane.enabled /\ v.versions = pane.versions
      /\ v.generation = pane.generation /\ v.queue = pane.queue /\ v.flight = pane.flight
      /\ v.open = pane.open /\ v.panel = pane.panel /\ v.settling = pane.settling
      /\ v.resizing = pane.resizing /\ ToDraw(v) = ToDraw(pane)
  BY DEF Attends, Asking, Fields, Tiled, ToDraw, Fitted
<1> HIDE DEF v
<1>5. \A who : SentBy(v, who) = SentBy(pane, who) BY <1>4 DEF SentBy
<1>6. Asking(v) /\ Fresh(v) /\ Full(v) /\ Settled(v)
  <2>1. Asking(v) BY <1>4 DEF Attends, Asking, Asks
  <2>2. Fresh(v) BY <1>4 DEF Attends, Fresh, UpToDate
  <2>3. Full(v) BY <1>4, <1>5 DEF Attends, Full, Slots, Drawing
  <2>4. Settled(v) BY <1>4, <1>5 DEF Attends, Settled, Drawing
  <2> QED BY <2>1, <2>2, <2>3, <2>4
<1>7. ASSUME NEW p \in ToSet(pane.order), Tile(p, pane.build) # t PROVE CoversTile(v, p)
  <2>1. CoversTile(pane, p) BY DEF Attends, Covers
  <2>2. Waiting(v, Tile(p, v.build)) <=> Waiting(pane, Tile(p, pane.build))
    BY <1>4, <1>5 DEF Waiting
  <2> QED BY <1>3, <1>4, <1>7, <2>1, <2>2 DEF CoversTile
<1>8. \A p : Tile(p, pane.build) = t => t.page = p BY DEF Tile
<1>9. CASE Want(v, t) = v /\ (\/ ~v.enabled \/ v.cache[t.page] # Blank \/ t.page \in v.failed
                              \/ t \in ToSet(v.queue))
  <2>1. ASSUME NEW p \in ToSet(pane.order), Tile(p, pane.build) = t PROVE CoversTile(v, p)
    BY <1>3, <1>4, <1>8, <1>9, <2>1 DEF CoversTile, Waiting
  <2>2. Covers(v) BY <1>4, <1>7, <2>1 DEF Covers
  <2> QED BY <1>2, <1>6, <1>9, <2>2 DEF Attends
<1>10. CASE Want(v, t) = Wake(u)
  <2>1. /\ IsSequence(queue) /\ DOMAIN queue = 1 .. Len(pane.queue) + 1 /\ queue[1] = t
        /\ Len(pane.queue) \in Nat /\ DOMAIN pane.queue = 1 .. Len(pane.queue)
        /\ \A k \in 1 .. Len(pane.queue) : queue[k + 1] = pane.queue[k]
    <3> DEFINE s == pane.queue
    <3>1. IsSequence(s) BY DEF Attends, Asking
    <3>2. queue = <<t>> \o s BY DEF queue
    <3> HIDE DEF s
    <3>3. LET joined == <<t>> \o s IN
            /\ IsSequence(joined) /\ DOMAIN joined = 1 .. Len(s) + 1 /\ joined[1] = t
            /\ Len(s) \in Nat /\ DOMAIN s = 1 .. Len(s)
            /\ \A k \in 1 .. Len(s) : joined[k + 1] = s[k]
      BY <3>1, FirstPlaces
    <3> QED BY <3>2, <3>3 DEF s
  <2>2. /\ Alike(v, u) /\ u.queue = queue /\ u.flight = v.flight
    BY <1>4 DEF Fields, Alike
  <2> HIDE DEF u
  <2>3. \A who : SentBy(u, who) = SentBy(v, who) BY <2>2 DEF SentBy
  <2>4. Asking(u)
    <3>1. t.build = pane.build /\ pane.build \in Nat
      BY <1>1 DEF InGrid, Attends, Asking
    <3>2. ASSUME NEW k \in DOMAIN queue
          PROVE  queue[k].build \in Nat /\ queue[k].build <= pane.build
      <4>1. CASE k = 1 BY <2>1, <3>1, <4>1
      <4>2. CASE k # 1
        <5>1. k - 1 \in 1 .. Len(pane.queue) /\ (k - 1) + 1 = k BY <2>1, <4>2
        <5>2. queue[k] = pane.queue[k - 1] BY <2>1, <5>1
        <5> QED BY <2>1, <5>1, <5>2 DEF Attends, Asking
      <4> QED BY <4>1, <4>2
    <3> QED BY <1>4, <1>6, <2>1, <2>2, <3>2 DEF Asking, Asks, Alike
  <2>5. Fresh(u) BY <1>6, <2>2 DEF Fresh, UpToDate, Alike
  <2>6. Settled(u)
    <3>1. ToDraw(u) = ToDraw(v) BY <2>2 DEF Alike, ToDraw, Fitted
    <3> QED BY <1>6, <2>2, <2>3, <3>1 DEF Settled, Drawing, Alike
  <2>7. \A x : Waiting(v, x) => Waiting(u, x)
    <3>1. ASSUME NEW x \in ToSet(v.queue) PROVE x \in ToSet(u.queue)
      <4>1. PICK k \in 1 .. Len(pane.queue) : pane.queue[k] = x BY <1>4, <2>1 DEF ToSet
      <4>2. k + 1 \in DOMAIN queue /\ queue[k + 1] = x BY <2>1, <4>1
      <4> QED BY <2>2, <4>2 DEF ToSet
    <3> QED BY <2>2, <2>3, <3>1 DEF Waiting
  <2>8. Waiting(u, t)
    <3>1. 1 \in DOMAIN queue BY <2>1
    <3> QED BY <2>1, <2>2, <3>1 DEF Waiting, ToSet
  <2>9. Covers(u)
    <3> SUFFICES ASSUME NEW p \in ToSet(pane.order) PROVE CoversTile(u, p)
      BY <1>4, <2>2 DEF Covers, Alike
    <3>1. CASE Tile(p, pane.build) = t
      BY <1>4, <2>2, <2>8, <3>1 DEF CoversTile, Alike
    <3>2. CASE Tile(p, pane.build) # t
      <4>1. CoversTile(v, p) BY <1>7, <3>2
      <4> QED BY <2>2, <2>7, <4>1 DEF CoversTile, Alike
    <3> QED BY <3>1, <3>2
  <2> QED BY <1>2, <1>10, <2>4, <2>5, <2>6, <2>9, WakeAttends DEF Attends
<1>11. \/ /\ Want(v, t) = v
          /\ ~v.enabled \/ v.cache[t.page] # Blank \/ t.page \in v.failed \/ t \in ToSet(v.queue)
       \/ Want(v, t) = Wake(u)
  <2>1. u = [v EXCEPT !.queue = <<t>> \o v.queue] BY <1>4 DEF queue
  <2> HIDE DEF u
  <2> QED BY <2>1 DEF Want
<1> QED BY <1>9, <1>10, <1>11

LEMMA LeavesAttends == Current /\ Attends(pane) /\ Leaves => Attends(pane')
<1> SUFFICES ASSUME Attends(pane), Leaves PROVE Attends(pane') BY Zenon
<1>1. PICK t \in DOMAIN pane.watched :
         LET left == [pane EXCEPT !.watched =
                         IF InGrid(pane, t) THEN [@ EXCEPT ![t] = "out"]
                         ELSE [u \in DOMAIN @ \ {t} |-> @[u]]]
         IN  pane' = Forget(left, t)
  BY DEF Leaves, Only
<1> DEFINE watched == IF InGrid(pane, t) THEN [pane.watched EXCEPT ![t] = "out"]
                      ELSE [u \in DOMAIN pane.watched \ {t} |-> pane.watched[u]]
           v == [pane EXCEPT !.watched = watched]
           kept == {i \in DOMAIN v.queue : v.queue[i] # t}
           u == Forget(v, t)
<1>2. pane' = u BY <1>1
<1>3. /\ \A x : x # t => (x \in DOMAIN watched <=> x \in DOMAIN pane.watched)
      /\ \A x \in DOMAIN watched : x # t => watched[x] = pane.watched[x]
      /\ InGrid(pane, t) => t \in DOMAIN watched /\ watched[t] = "out"
  OBVIOUS
<1> HIDE DEF watched
<1>4. /\ DOMAIN v = Fields
      /\ v.watched = watched /\ v.order = pane.order /\ v.build = pane.build
      /\ v.shown = pane.shown /\ v.cache = pane.cache /\ v.failed = pane.failed
      /\ v.enabled = pane.enabled /\ v.versions = pane.versions
      /\ v.generation = pane.generation /\ v.queue = pane.queue /\ v.flight = pane.flight
      /\ v.open = pane.open /\ v.panel = pane.panel /\ v.settling = pane.settling
      /\ v.resizing = pane.resizing /\ ToDraw(v) = ToDraw(pane)
  BY DEF Attends, Asking, Fields, ToDraw, Fitted
<1>5. u = [v EXCEPT !.queue = Remaining(v.queue, kept)] BY DEF Forget
<1>6. kept \in SUBSET (DOMAIN v.queue)
      /\ \A i \in DOMAIN v.queue : v.queue[i] # t => i \in kept
  OBVIOUS
<1> HIDE DEF v, kept, u
<1>7. Alike(v, u) /\ u.queue = Remaining(v.queue, kept) /\ u.flight = v.flight
  BY <1>4, <1>5 DEF Fields, Alike
<1>8. \A who : SentBy(v, who) = SentBy(pane, who) /\ SentBy(u, who) = SentBy(v, who)
  BY <1>4, <1>7 DEF SentBy
<1>9. Asking(v) /\ Full(v)
  <2>1. Asking(v) BY <1>4 DEF Attends, Asking, Asks
  <2>2. Full(v) BY <1>4, <1>8 DEF Attends, Full, Slots, Drawing
  <2> QED BY <2>1, <2>2
<1>10. /\ Asking(u) /\ Full(u)
       /\ \A x : x # t /\ Waiting(v, x) => Waiting(u, x)
  BY <1>6, <1>7, <1>9, LessAsked DEF Alike
<1>11. Fresh(u) BY <1>4, <1>7 DEF Attends, Fresh, UpToDate, Alike
<1>12. Settled(u)
  <2>1. ToDraw(u) = ToDraw(v) BY <1>7 DEF Alike, ToDraw, Fitted
  <2> QED BY <1>4, <1>7, <1>8, <2>1 DEF Attends, Settled, Drawing, Alike
<1>13. Covers(u)
  <2> SUFFICES ASSUME NEW p \in ToSet(pane.order) PROVE CoversTile(u, p)
    BY <1>4, <1>7 DEF Covers, Alike
  <2>1. CASE Tile(p, pane.build) = t
    <3>1. InGrid(pane, t)
      <4>1. t.page = p /\ t.build = pane.build BY <2>1 DEF Tile
      <4> QED BY <4>1 DEF InGrid
    <3> QED BY <1>3, <1>4, <1>7, <2>1, <3>1 DEF CoversTile, Alike
  <2>2. CASE Tile(p, pane.build) # t
    <3>1. CoversTile(pane, p) BY DEF Attends, Covers
    <3>2. Waiting(pane, Tile(p, pane.build)) => Waiting(u, Tile(p, pane.build))
      BY <1>4, <1>8, <1>10, <2>2 DEF Waiting
    <3> QED BY <1>3, <1>4, <1>7, <2>2, <3>1, <3>2 DEF CoversTile, Alike
  <2> QED BY <2>1, <2>2
<1> QED BY <1>2, <1>10, <1>11, <1>12, <1>13 DEF Attends

LEMMA ReorderAttends == Current /\ Attends(pane) /\ Reorder => Attends(pane')
<1> SUFFICES ASSUME Attends(pane), Reorder PROVE Attends(pane') BY Zenon
<1>1. PICK order \in Arrangements : pane' = RenderGrid(pane, order) BY DEF Reorder, Only
<1> QED BY <1>1, ViewAssumption, RenderGridAttends DEF Attends

LEMMA ViewAttends ==
  Current /\ Attends(pane) /\ (OpenView \/ Go) => Attends(pane')
<1> SUFFICES ASSUME Attends(pane), OpenView \/ Go PROVE Attends(pane') BY Zenon
<1>1. ASSUME NEW v, Tiled(pane, v), v.open, pane' = Show(v) PROVE Attends(pane')
  <2>1. Asking(v) /\ Fresh(v) /\ Covers(v) BY <1>1, TiledKeeps DEF Attends
  <2> QED BY <1>1, <2>1, ShowAttends DEF Attends
<1>2. CASE OpenView
  <2>1. PICK i \in DOMAIN pane.order :
           pane' = Show([pane EXCEPT !.open = TRUE, !.pages = pane.order, !.at = i, !.zoom = 1,
                                     !.resizing = TRUE])
    BY <1>2 DEF OpenView, Only
  <2> DEFINE v == [pane EXCEPT !.open = TRUE, !.pages = pane.order, !.at = i, !.zoom = 1,
                               !.resizing = TRUE]
  <2>2. Tiled(pane, v) /\ v.open BY DEF Attends, Asking, Fields, Tiled
  <2> QED BY <1>1, <2>1, <2>2
<1>3. CASE Go
  <2>1. PICK i \in DOMAIN pane.pages : pane' = Show([pane EXCEPT !.at = i])
    BY <1>3 DEF Go, Only
  <2> DEFINE v == [pane EXCEPT !.at = i]
  <2>2. Tiled(pane, v) /\ v.open BY <1>3 DEF Go, Attends, Asking, Fields, Tiled
  <2> QED BY <1>1, <2>1, <2>2
<1> QED BY <1>2, <1>3

LEMMA SizesAttend ==
  Current /\ Attends(pane)
    /\ (CloseView \/ TogglePanel \/ ZoomTo \/ Resize \/ Resized \/ SettleEnds)
  => Attends(pane')
<1> SUFFICES ASSUME Attends(pane) PROVE CloseView \/ TogglePanel \/ ZoomTo \/ Resize
                                        \/ Resized \/ SettleEnds => Attends(pane')
  BY Zenon
<1>0. DOMAIN pane = Fields BY DEF Attends, Asking
<1>1. CASE CloseView
  <2> DEFINE v == Hide(pane)
  <2>1. v = [pane EXCEPT !.open = FALSE, !.settling = FALSE, !.resizing = FALSE] BY DEF Hide
  <2>2. pane' = Wake(v) BY <1>1 DEF CloseView, Only
  <2> HIDE DEF v
  <2>3. Tiled(pane, v) /\ ~v.open BY <1>0, <2>1 DEF Fields, Tiled
  <2>4. Asking(v) /\ Fresh(v) /\ Covers(v) BY <2>3, TiledKeeps DEF Attends
  <2>5. Settled(v) BY <2>3 DEF Settled, ToDraw
  <2> QED BY <2>2, <2>4, <2>5, WakeAttends DEF Attends
<1>2. CASE TogglePanel
  <2> DEFINE v == [pane EXCEPT !.panel = ~pane.panel, !.resizing = TRUE]
  <2>1. pane' = Wake(v) BY <1>2 DEF TogglePanel, Only
  <2>2. Tiled(pane, v) /\ v.resizing BY <1>0 DEF Fields, Tiled
  <2> HIDE DEF v
  <2>3. Asking(v) /\ Fresh(v) /\ Covers(v) BY <2>2, TiledKeeps DEF Attends
  <2>4. Settled(v) BY <2>2 DEF Settled
  <2> QED BY <2>1, <2>3, <2>4, WakeAttends DEF Attends
<1>3. CASE ZoomTo
  <2>1. PICK zoom : pane' = [pane EXCEPT !.zoom = zoom, !.settling = TRUE]
    BY <1>3 DEF ZoomTo, Only
  <2>2. Tiled(pane, pane') /\ pane'.settling /\ pane'.open = pane.open
    BY <1>0, <2>1 DEF Fields, Tiled
  <2>3. Drawing(pane') BY <2>2 DEF Drawing
  <2>4. Settled(pane') BY <2>3 DEF Settled
  <2> QED BY <2>2, <2>3, <2>4, TiledAttends DEF Attends
<1>4. CASE Resize
  <2>1. PICK room : pane' = [pane EXCEPT !.room = room, !.resizing = TRUE]
    BY <1>4 DEF Resize, Only
  <2>2. /\ Tiled(pane, pane') /\ pane'.resizing /\ pane'.open = pane.open
        /\ pane'.panel = pane.panel /\ pane'.settling = pane.settling
    BY <1>0, <2>1 DEF Fields, Tiled
  <2>3. Settled(pane') BY <2>2 DEF Settled
  <2> QED BY <2>2, <2>3, TiledAttends DEF Attends
<1>5. CASE Resized
  <2>1. pane' = [pane EXCEPT !.resizing = FALSE, !.settling = TRUE]
    BY <1>5 DEF Resized, Only
  <2>2. Tiled(pane, pane') /\ pane'.settling /\ pane'.open = pane.open
    BY <1>0, <2>1 DEF Fields, Tiled
  <2>3. Drawing(pane') BY <2>2 DEF Drawing
  <2>4. Settled(pane') BY <2>3 DEF Settled
  <2> QED BY <2>2, <2>3, <2>4, TiledAttends DEF Attends
<1>6. CASE SettleEnds
  <2> DEFINE v == [pane EXCEPT !.settling = FALSE]
  <2>1. pane' = Pump(v) BY <1>6 DEF SettleEnds, Only
  <2>2. /\ Tiled(pane, v) /\ v.open = pane.open /\ v.panel = pane.panel
    BY <1>0 DEF Fields, Tiled
  <2> HIDE DEF v
  <2>3. Asking(v) /\ Fresh(v) /\ Covers(v) /\ SentBy(v, "thumbs") = SentBy(pane, "thumbs")
    BY <2>2, TiledKeeps DEF Attends
  <2>4. v.open \/ Full(v) BY <2>2, <2>3 DEF Attends, Full, Slots, Tiled
  <2> QED BY <2>1, <2>3, <2>4, PumpAttends DEF Attends
<1> QED BY <1>1, <1>2, <1>3, <1>4, <1>5, <1>6

LEMMA RenderPageAttends == Current /\ Attends(pane) /\ RenderPage => Attends(pane')
<1> SUFFICES ASSUME Current, Attends(pane), RenderPage PROVE Attends(pane') BY Zenon
<1>0. PICK i \in DOMAIN pane.flight :
         \E x : x # Blank /\ pane' = [pane EXCEPT !.flight[i].answer = x]
  <2>1. PICK i \in DOMAIN pane.flight :
           \/ pane' = [pane EXCEPT !.flight[i].answer =
                          ImageOf(stored.doc, stored.turns[pane.flight[i].page])]
           \/ pane' = [pane EXCEPT !.flight[i].answer = Message]
    BY DEF RenderPage, Only
  <2>2. Message # Blank
    <3>1. Message.kind = "message" /\ Blank.kind = "blank" BY DEF Message, Blank
    <3> QED BY <3>1
  <2>3. \A doc, turn : ImageOf(doc, turn) # Blank
    <3>1. \A doc, turn : ImageOf(doc, turn).kind = "image" /\ Blank.kind = "blank"
      BY DEF ImageOf, Blank
    <3> QED BY <3>1
  <2> QED BY <2>1, <2>2, <2>3
<1>1. PICK x : i \in DOMAIN pane.flight /\ x # Blank /\ pane' = [pane EXCEPT !.flight[i].answer = x]
  BY <1>0
<1> DEFINE r == [pane.flight[i] EXCEPT !.answer = x]
           flight == [pane.flight EXCEPT ![i] = r]
           v == [pane EXCEPT !.flight[i].answer = x]
<1>2. v = [pane EXCEPT !.flight = flight] BY DEF Attends, Asking, Fields
<1>3. IsSequence(flight)
  <2>1. PICK S : pane.flight \in Seq(S) BY DEF Attends, Asking, IsSequence
  <2>2. pane.flight \in Seq(S \cup {r}) BY <2>1
  <2>3. \A j \in 1 .. Len(pane.flight) : flight[j] \in S \cup {r} BY <2>1
  <2> HIDE DEF r
  <2>4. flight \in Seq(S \cup {r}) BY <2>2, <2>3
  <2> QED BY <2>4 DEF IsSequence
<1>4. DOMAIN pane.flight[i] = Request BY DEF Current, Drawn, Thumbs, Views, Follows
<1>5. /\ r.who = pane.flight[i].who /\ r.page = pane.flight[i].page
      /\ r.tile = pane.flight[i].tile /\ r.generation = pane.flight[i].generation
      /\ r.version = pane.flight[i].version /\ r.answer = x
  BY <1>4 DEF Request
<1>6. /\ DOMAIN flight = DOMAIN pane.flight
      /\ \A j \in DOMAIN pane.flight : flight[j] = IF j = i THEN r ELSE pane.flight[j]
  OBVIOUS
<1> HIDE DEF r, flight, v
<1>7. Alike(pane, v) /\ v.queue = pane.queue /\ v.flight = flight
  BY <1>2 DEF Attends, Asking, Fields, Alike
<1>8. \A j \in DOMAIN flight :
         /\ flight[j].who = pane.flight[j].who /\ flight[j].page = pane.flight[j].page
         /\ flight[j].tile = pane.flight[j].tile
         /\ flight[j].generation = pane.flight[j].generation
         /\ flight[j].version = pane.flight[j].version
         /\ flight[j].answer = x \/ flight[j].answer = pane.flight[j].answer
  BY <1>5, <1>6
<1>9. \A who : SentBy(v, who) = SentBy(pane, who) BY <1>6, <1>7, <1>8 DEF SentBy
<1>10. Asking(v)
  <2>1. ASSUME NEW j \in DOMAIN v.flight, v.flight[j].who # "view"
        PROVE  Asks(v, v.flight[j])
    <3>1. Asks(pane, pane.flight[j]) BY <1>6, <1>7, <1>8, <2>1 DEF Attends, Asking
    <3> QED BY <1>1, <1>7, <1>8, <2>1, <3>1 DEF Asks, Alike
  <2> QED BY <1>3, <1>7, <2>1 DEF Attends, Asking, Alike
<1>11. Fresh(v) BY <1>6, <1>7, <1>8 DEF Attends, Fresh, UpToDate, Alike
<1>12. \A t : Waiting(v, t) <=> Waiting(pane, t)
  <2>1. \A j \in SentBy(pane, "thumbs") : v.flight[j].tile = pane.flight[j].tile
    BY <1>6, <1>7, <1>8 DEF SentBy
  <2> QED BY <1>7, <1>9, <2>1 DEF Waiting
<1>13. Full(v) BY <1>7, <1>9 DEF Attends, Full, Slots, Drawing, Alike
<1>14. Settled(v)
  <2>1. ToDraw(v) = ToDraw(pane) BY <1>7 DEF Alike, ToDraw, Fitted
  <2> QED BY <1>7, <1>9, <2>1 DEF Attends, Settled, Drawing, Alike
<1>15. Covers(v) BY <1>7, <1>12 DEF Attends, Covers, CoversTile, Alike
<1> QED BY <1>1, <1>10, <1>11, <1>13, <1>14, <1>15 DEF Attends, v

\* An answer that leaves takes its tile's wait with it, and no other's.
LEMMA AnswerAttends ==
  ASSUME NEW w, Attends(w), NEW i \in DOMAIN w.flight
  PROVE  LET v == [w EXCEPT !.flight = RemoveAt(w.flight, i)]
             r == w.flight[i]
         IN  /\ Alike(w, v) /\ Asking(v) /\ Fresh(v)
             /\ r.who = "view" => (v.open \/ Full(v)) /\ Covers(v)
             /\ r.who # "view" => /\ Settled(v)
                                  /\ \A t : t # r.tile /\ Waiting(w, t) => Waiting(v, t)
<1> DEFINE v == [w EXCEPT !.flight = RemoveAt(w.flight, i)]
           r == w.flight[i]
           n == Len(w.flight)
           to(j) == IF j < i THEN j ELSE j - 1
           from(j) == IF j < i THEN j ELSE j + 1
           flight == RemoveAt(w.flight, i)
<1>1. /\ IsSequence(flight) /\ DOMAIN flight = 1 .. n - 1
      /\ DOMAIN w.flight = 1 .. n /\ n \in Nat
      /\ \A j \in 1 .. n - 1 : flight[j] = w.flight[from(j)]
  BY RemovedPlaces DEF Attends, Asking
<1>2. v = [w EXCEPT !.flight = flight] OBVIOUS
<1>3. i \in 1 .. n BY <1>1
<1> HIDE DEF flight, v
<1>4. Alike(w, v) /\ v.queue = w.queue /\ v.flight = flight
  BY <1>2 DEF Attends, Asking, Fields, Alike
<1>5. \A j \in 1 .. n - 1 : from(j) \in 1 .. n BY <1>1, <1>3
<1>6. ASSUME NEW j \in 1 .. n, j # i
      PROVE  to(j) \in 1 .. n - 1 /\ flight[to(j)] = w.flight[j]
  <2>1. to(j) \in 1 .. n - 1 /\ from(to(j)) = j BY <1>1, <1>3, <1>6
  <2> QED BY <1>1, <2>1
<1> HIDE DEF to, from
<1>7. Asking(v)
  <2>1. \A x : Asks(w, x) => Asks(v, x) BY <1>4 DEF Asks, Alike
  <2>2. \A j \in DOMAIN v.flight : v.flight[j].who # "view" => Asks(v, v.flight[j])
    BY <1>1, <1>4, <1>5, <2>1 DEF Attends, Asking
  <2> QED BY <1>1, <1>4, <2>2 DEF Attends, Asking, Alike
<1>8. Fresh(v)
  <2> SUFFICES ASSUME NEW j \in DOMAIN v.flight, v.flight[j].who # "view",
                      v.flight[j].tile.build = v.build
               PROVE  UpToDate(v, v.flight[j])
    BY DEF Fresh
  <2>1. from(j) \in DOMAIN w.flight /\ v.flight[j] = w.flight[from(j)]
    BY <1>1, <1>4, <1>5
  <2>2. UpToDate(w, v.flight[j]) BY <1>4, <2>1 DEF Attends, Fresh, Alike
  <2> QED BY <1>4, <2>2 DEF UpToDate, Alike
<1>9. ASSUME NEW t, Waiting(w, t), r.who # "thumbs" \/ t # r.tile PROVE Waiting(v, t)
  <2>1. CASE t \in ToSet(w.queue) BY <1>4, <2>1 DEF Waiting
  <2>2. ASSUME NEW j \in SentBy(w, "thumbs"), w.flight[j].tile = t PROVE Waiting(v, t)
    <3>1. j \in 1 .. n /\ w.flight[j].who = "thumbs" BY <1>1 DEF SentBy
    <3>2. j # i BY <1>9, <2>2, <3>1
    <3>3. to(j) \in 1 .. n - 1 /\ flight[to(j)] = w.flight[j] BY <1>6, <3>1, <3>2
    <3> QED BY <1>1, <1>4, <2>2, <3>1, <3>3 DEF Waiting, SentBy
  <2> QED BY <1>9, <2>1, <2>2 DEF Waiting
<1>10. CASE r.who = "view"
  <2>1. Cardinality(SentBy(v, "thumbs")) = Cardinality(SentBy(w, "thumbs"))
    BY <1>4, <1>10, OthersStay DEF Attends, Asking, flight
  <2>2. v.open \/ Full(v) BY <1>4, <2>1 DEF Attends, Full, Slots, Alike
  <2>3. Covers(v) BY <1>4, <1>9, <1>10 DEF Attends, Covers, CoversTile, Alike
  <2> QED BY <1>4, <1>7, <1>8, <1>10, <2>2, <2>3 DEF v
<1>11. CASE r.who # "view"
  <2>1. SentBy(w, "view") # {} => SentBy(v, "view") # {}
    BY <1>4, <1>11, OthersStay DEF Attends, Asking, flight
  <2>2. ToDraw(v) = ToDraw(w) BY <1>4 DEF Alike, ToDraw, Fitted
  <2>3. Settled(v) BY <1>4, <2>1, <2>2 DEF Attends, Settled, Drawing, Alike
  <2> QED BY <1>4, <1>7, <1>8, <1>9, <1>11, <2>3 DEF v
<1> QED BY <1>10, <1>11

LEMMA ViewAnsweredTiles ==
  ASSUME NEW w, DOMAIN w = Fields, NEW r
  PROVE  LET v == ViewAnswered(w, r) IN
            Tiled(w, v) /\ v.open = w.open /\ v.panel = w.panel /\ v.settling = w.settling
<1> DEFINE v == ViewAnswered(w, r)
<1>1. \/ v = w
      \/ \E x, y : v = [w EXCEPT !.unreadable = x, !.screen = y]
      \/ \E x, y : v = [w EXCEPT !.drawn = x, !.screen = y]
  BY DEF ViewAnswered
<1> HIDE DEF v
<1>2. Tiled(w, v) /\ v.open = w.open /\ v.panel = w.panel /\ v.settling = w.settling
  <2>1. CASE v = w BY <2>1 DEF Tiled
  <2>2. ASSUME NEW x, NEW y, v = [w EXCEPT !.unreadable = x, !.screen = y]
        PROVE  Tiled(w, v) /\ v.open = w.open /\ v.panel = w.panel /\ v.settling = w.settling
    BY <2>2 DEF Fields, Tiled
  <2>3. ASSUME NEW x, NEW y, v = [w EXCEPT !.drawn = x, !.screen = y]
        PROVE  Tiled(w, v) /\ v.open = w.open /\ v.panel = w.panel /\ v.settling = w.settling
    BY <2>3 DEF Fields, Tiled
  <2> QED BY <1>1, <2>1, <2>2, <2>3
<1> QED BY <1>2 DEF v

\* The answer for a tile of the present grid is shown there: it is of the
\* present versions.
LEMMA ThumbAnsweredAttends ==
  ASSUME NEW w, Attends(w), w.order \in Seq(SourcePages), DOMAIN w.shown = SourcePages,
         DOMAIN w.cache = SourcePages,
         NEW r, Asks(w, r), r.tile.build = w.build => UpToDate(w, r),
         NEW done, Alike(w, done), Asking(done), Fresh(done), Settled(done),
         \A t : t # r.tile /\ Waiting(w, t) => Waiting(done, t),
         NEW unwatched, unwatched = [t \in DOMAIN w.watched \ {r.tile} |-> w.watched[t]]
  PROVE  Attends(Wake([ThumbAnswered(done, r) EXCEPT !.watched = unwatched]))
<1> DEFINE p == r.page
           shown == IF InGrid(done, r.tile) THEN [done.shown EXCEPT ![p] = r.answer]
                    ELSE done.shown
           cache == [done.cache EXCEPT ![p] = r.answer]
           v == ThumbAnswered(done, r)
           u == [v EXCEPT !.watched = unwatched]
<1>1. \/ /\ r.generation # w.generation \/ r.version # w.versions[p]
         /\ v = done
      \/ v = [done EXCEPT !.failed = done.failed \cup {p}, !.shown = shown]
      \/ v = [done EXCEPT !.cache = cache, !.shown = shown]
  BY DEF ThumbAnswered, Alike
<1>2. r.answer # Blank BY DEF Asks
<1>3. /\ DOMAIN shown = SourcePages /\ DOMAIN cache = SourcePages
      /\ \A q \in SourcePages :
            /\ shown[q] = Blank => w.shown[q] = Blank
            /\ cache[q] = w.cache[q] \/ cache[q] # Blank
            /\ q = p /\ r.tile = Tile(q, w.build) /\ q \in ToSet(w.order) => shown[q] # Blank
  <2>1. done.shown = w.shown /\ done.cache = w.cache /\ done.order = w.order
        /\ done.build = w.build
    BY DEF Alike
  <2>2. ASSUME NEW q \in ToSet(w.order), r.tile = Tile(q, w.build) PROVE InGrid(done, r.tile)
    <3>1. r.tile.page = q /\ r.tile.build = w.build BY <2>2 DEF Tile
    <3> QED BY <2>1, <3>1 DEF InGrid
  <2> QED BY <1>2, <2>1, <2>2
<1> HIDE DEF shown, cache, v
<1>4. /\ DOMAIN v = Fields /\ v.queue = done.queue /\ v.flight = done.flight
      /\ v.generation = w.generation /\ v.versions = w.versions /\ v.build = w.build
      /\ v.order = w.order /\ v.enabled = w.enabled /\ v.open = w.open
      /\ v.settling = w.settling /\ v.resizing = w.resizing /\ v.panel = w.panel
      /\ v.at = w.at /\ v.pages = w.pages /\ v.room = w.room /\ v.zoom = w.zoom
      /\ v.unreadable = w.unreadable /\ v.drawn = w.drawn
      /\ v.cache = w.cache \/ v.cache = cache
      /\ v.failed = w.failed \/ v.failed = w.failed \cup {p}
      /\ \/ /\ r.generation # w.generation \/ r.version # w.versions[p]
            /\ v.shown = w.shown
         \/ v.shown = shown
  <2>1. CASE /\ r.generation # w.generation \/ r.version # w.versions[p]
             /\ v = done
    BY <2>1 DEF Alike
  <2>2. CASE v = [done EXCEPT !.failed = done.failed \cup {p}, !.shown = shown]
    BY <2>2 DEF Alike, Fields
  <2>3. CASE v = [done EXCEPT !.cache = cache, !.shown = shown]
    BY <2>3 DEF Alike, Fields
  <2> QED BY <1>1, <2>1, <2>2, <2>3
<1>5. /\ DOMAIN u = Fields /\ u.queue = done.queue /\ u.flight = done.flight
      /\ u.generation = w.generation /\ u.versions = w.versions /\ u.build = w.build
      /\ u.order = w.order /\ u.enabled = w.enabled /\ u.open = w.open
      /\ u.settling = w.settling /\ u.resizing = w.resizing /\ u.panel = w.panel
      /\ u.at = w.at /\ u.pages = w.pages /\ u.room = w.room /\ u.zoom = w.zoom
      /\ u.unreadable = w.unreadable /\ u.drawn = w.drawn
      /\ u.cache = w.cache \/ u.cache = cache
      /\ u.failed = w.failed \/ u.failed = w.failed \cup {p}
      /\ \/ /\ r.generation # w.generation \/ r.version # w.versions[p]
            /\ u.shown = w.shown
         \/ u.shown = shown
      /\ u.watched = unwatched
  BY <1>4 DEF Fields
<1> HIDE DEF u
<1>6. Asking(u)
  <2>1. \A x : Asks(done, x) => Asks(u, x) BY <1>5 DEF Asks, Alike
  <2> QED BY <1>5, <2>1 DEF Asking, Alike
<1>7. Fresh(u) BY <1>5 DEF Fresh, UpToDate, Alike
<1>8. \A who : SentBy(u, who) = SentBy(done, who) BY <1>5 DEF SentBy
<1>9. Settled(u)
  <2>1. ToDraw(u) = ToDraw(done) BY <1>5 DEF ToDraw, Fitted, Alike
  <2> QED BY <1>5, <1>8, <2>1 DEF Settled, Drawing, Alike
<1>10. Covers(u)
  <2> SUFFICES ASSUME NEW q \in ToSet(w.order) PROVE CoversTile(u, q)
    BY <1>5 DEF Covers
  <2>1. q \in SourcePages BY DEF ToSet
  <2>2. CASE r.tile = Tile(q, w.build)
    <3>1. r.tile.page = q /\ r.tile.build = w.build BY <2>2 DEF Tile
    <3>2. p = q BY <3>1 DEF Asks
    <3>3. r.generation = w.generation /\ r.version = w.versions[p]
      BY <3>1 DEF UpToDate
    <3>4. u.shown[q] # Blank BY <1>3, <1>5, <2>1, <2>2, <3>2, <3>3
    <3> QED BY <3>4 DEF CoversTile
  <2>3. CASE r.tile # Tile(q, w.build)
    <3> DEFINE t == Tile(q, w.build)
    <3>1. CoversTile(w, q) BY DEF Attends, Covers
    <3>2. u.shown[q] = Blank => w.shown[q] = Blank BY <1>3, <1>5, <2>1
    <3>3. Waiting(w, t) => Waiting(u, t) BY <1>5, <1>8, <2>3 DEF Waiting
    <3>4. /\ t \in DOMAIN w.watched => t \in DOMAIN unwatched
          /\ t \in DOMAIN w.watched => unwatched[t] = w.watched[t]
      BY <2>3
    <3>5. w.cache[q] # Blank \/ q \in w.failed => u.cache[q] # Blank \/ q \in u.failed
      BY <1>3, <1>5, <2>1
    <3> HIDE DEF t
    <3> QED BY <1>5, <3>1, <3>2, <3>3, <3>4, <3>5 DEF CoversTile, t
  <2> QED BY <2>2, <2>3
<1> QED BY <1>6, <1>7, <1>9, <1>10, WakeAttends DEF Attends, u, v

LEMMA AnsweredAttends == Current /\ Attends(pane) /\ Answered => Attends(pane')
<1> SUFFICES ASSUME Current, Attends(pane), Answered PROVE Attends(pane') BY Zenon
<1>1. PICK i \in DOMAIN pane.flight :
        LET r    == pane.flight[i]
            done == [pane EXCEPT !.flight = RemoveAt(@, i)]
            unwatched == [t \in DOMAIN pane.watched \ {r.tile} |-> pane.watched[t]]
        IN  IF r.who = "view" THEN Only(Pump(ForgetFar(ViewAnswered(done, r))))
            ELSE Only(Wake([ThumbAnswered(done, r) EXCEPT !.watched = unwatched]))
  BY DEF Answered
<1> DEFINE r    == pane.flight[i]
           done == [pane EXCEPT !.flight = RemoveAt(pane.flight, i)]
           unwatched == [t \in DOMAIN pane.watched \ {r.tile} |-> pane.watched[t]]
<1>2. IF r.who = "view" THEN pane' = Pump(ForgetFar(ViewAnswered(done, r)))
      ELSE pane' = Wake([ThumbAnswered(done, r) EXCEPT !.watched = unwatched])
  BY <1>1 DEF Only
<1>3. /\ Alike(pane, done) /\ Asking(done) /\ Fresh(done)
      /\ r.who = "view" => (done.open \/ Full(done)) /\ Covers(done)
      /\ r.who # "view" => /\ Settled(done)
                           /\ \A t : t # r.tile /\ Waiting(pane, t) => Waiting(done, t)
  BY AnswerAttends
<1>4. r.who # "view" => Asks(pane, r) /\ (r.tile.build = pane.build => UpToDate(pane, r))
  BY DEF Attends, Asking, Fresh
<1>5. unwatched = [t \in DOMAIN pane.watched \ {r.tile} |-> pane.watched[t]] OBVIOUS
<1> HIDE DEF r, done, unwatched
<1>6. CASE r.who = "view"
  <2> DEFINE v == ViewAnswered(done, r)
             u == ForgetFar(v)
  <2>1. Tiled(done, v) /\ v.open = done.open /\ v.panel = done.panel
        /\ v.settling = done.settling
    BY <1>3, ViewAnsweredTiles DEF Alike
  <2>2. pane' = Pump(u) BY <1>2, <1>6
  <2> HIDE DEF v
  <2>3. Tiled(v, u) /\ u.open = v.open BY <2>1, ForgetFarTiles DEF Tiled
  <2> HIDE DEF u
  <2>4. Tiled(done, u) /\ u.open = done.open BY <2>1, <2>3 DEF Tiled
  <2>5. Asking(u) /\ Fresh(u) /\ Covers(u) /\ SentBy(u, "thumbs") = SentBy(done, "thumbs")
    BY <1>3, <1>6, <2>4, TiledKeeps
  <2>6. u.open \/ Full(u) BY <1>3, <1>6, <2>4, <2>5 DEF Full, Slots, Tiled
  <2> QED BY <2>2, <2>5, <2>6, PumpAttends DEF Attends
<1>7. CASE r.who # "view"
  <2>1. /\ pane.order \in Seq(SourcePages) /\ DOMAIN pane.shown = SourcePages
        /\ DOMAIN pane.cache = SourcePages
    BY DEF Current, Drawn, Window, Tiles
  <2>2. Attends(Wake([ThumbAnswered(done, r) EXCEPT !.watched = unwatched]))
    BY <1>3, <1>4, <1>5, <1>7, <2>1, ThumbAnsweredAttends
  <2> QED BY <1>2, <1>7, <2>2
<1> QED BY <1>6, <1>7

LEMMA TurnToldAttends == Current /\ Attends(pane) /\ TurnTold => Attends(pane')
<1> SUFFICES ASSUME Current, Attends(pane), TurnTold, pane' # pane PROVE Attends(pane')
  BY Zenon
<1> DEFINE turns == [p \in SourcePages |-> IF p \in turning.pages THEN pane.turns[p] + 1
                                           ELSE pane.turns[p]]
           known == [pane EXCEPT !.turns = turns]
<1>1. pane' = Edited(known, turning.pages) BY DEF TurnTold
<1> HIDE DEF turns
<1>2. /\ Tiled(pane, known) /\ known.open = pane.open /\ known.panel = pane.panel
      /\ known.settling = pane.settling
  BY DEF Attends, Asking, Fields, Tiled
<1> HIDE DEF known
<1>3. Asking(known) /\ Full(known)
  <2>1. /\ Asking(known)
        /\ SentBy(known, "thumbs") = SentBy(pane, "thumbs")
        /\ SentBy(known, "view") = SentBy(pane, "view")
    BY <1>2, TiledKeeps DEF Attends
  <2> QED BY <1>2, <2>1 DEF Attends, Full, Slots, Drawing, Tiled
<1>4. known.order \in Seq(SourcePages) BY <1>2 DEF Current, Drawn, Window, Tiled
<1> QED BY <1>1, <1>3, <1>4, EditedAttends

LEMMA OpenedAttends == Current /\ Attends(pane) /\ Opened => Attends(pane')
<1> SUFFICES ASSUME Attends(pane), Opened PROVE Attends(pane') BY Zenon
<1>1. pane' = Loaded(pane, stored.doc) BY DEF Opened
<1> QED BY <1>1, LoadedAttends DEF Attends, Asking

-----------------------------------------------------------------------------
\* For any pages, arrangements, slots and gestures: a thumbnail that waits
\* is looked at again, since the slots are taken; the page view has nothing
\* left to draw unless it is drawing; and a tile of the grid without an
\* image waits for its turn or is watched, and in view only when its page
\* was drawn, or failed, meanwhile (thumbnails.ts: pump, want; viewer.ts:
\* pump).
THEOREM NothingEverWaitsForNobody == ViewSpec => []NothingWaitsForNobody
<1>1. ViewInit => Current /\ Attends(pane)
  BY CurrentInit, NewWindowAttends DEF ViewInit
<1>2. Current /\ Attends(pane) /\ [ViewNext]_viewVars => Current' /\ Attends(pane)'
  <2> SUFFICES ASSUME Current, Attends(pane), [ViewNext]_viewVars
               PROVE  Current' /\ Attends(pane')
    BY Zenon
  <2>1. CASE Enters BY <2>1, EntersKeeps, EntersAttends
  <2>2. CASE Leaves BY <2>2, LeavesKeeps, LeavesAttends
  <2>3. CASE Reorder BY <2>3, ReorderKeeps, ReorderAttends
  <2>4. CASE OpenView BY <2>4, OpenViewKeeps, ViewAttends
  <2>5. CASE Go BY <2>5, GoKeeps, ViewAttends
  <2>6. CASE CloseView \/ TogglePanel \/ ZoomTo \/ Resize \/ Resized \/ SettleEnds
    BY <2>6, SizesKeep, SizesAttend
  <2>7. CASE RenderPage BY <2>7, RenderPageKeeps, RenderPageAttends
  <2>8. CASE Answered BY <2>8, AnsweredKeeps, AnsweredAttends
  <2>9. CASE AskTurn BY <2>9, AskTurnKeeps DEF AskTurn
  <2>10. CASE TurnPages BY <2>10, TurnPagesKeeps DEF TurnPages
  <2>11. CASE TurnTold BY <2>11, TurnToldKeeps, TurnToldAttends
  <2>12. CASE AskOpen \/ OpenDocument
    BY <2>12, OpensKeep DEF AskOpen, OpenDocument
  <2>13. CASE Opened BY <2>13, OpensKeep, OpenedAttends
  <2>14. CASE UNCHANGED viewVars
    BY <2>14 DEF viewVars, Current, Ahead, TurningAhead, OpeningAhead
  <2> QED
    BY <2>1, <2>2, <2>3, <2>4, <2>5, <2>6, <2>7, <2>8, <2>9, <2>10, <2>11, <2>12, <2>13, <2>14
    DEF ViewNext
<1>3. Attends(pane) => NothingWaitsForNobody
  BY DEF Attends, Full, Settled, Covers, CoversTile, Waiting, Waits, NothingWaitsForNobody
<1> QED BY <1>1, <1>2, <1>3, PTL DEF ViewSpec
=============================================================================
