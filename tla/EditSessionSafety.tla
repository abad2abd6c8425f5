-------------------------- MODULE EditSessionSafety --------------------------
(***************************************************************************)
(* The editing session, for any number of documents, pages, edits, round   *)
(* trips and writes: the properties of EditSession that are about states.  *)
(*                                                                         *)
(* None of them is inductive.  What is, is their conjunction with the      *)
(* rest of Inv, proved part by part:                                       *)
(*   - TypeInv: types, and a history that stands in every document;        *)
(*   - DocumentInv: a document not shown yet is as it was opened, a        *)
(*     history is busy exactly when one of its round trips is under way,   *)
(*     no call is handed over twice, a rewrite that may still be committed *)
(*     is made from the pages both sides agree on;                         *)
(*   - Heard: the last word about the window, said or on its way, is that  *)
(*     of the interface;                                                   *)
(*   - Decisive: a decision to leave is good for the document it is about, *)
(*     up to the save point it was taken with;                             *)
(*   - SavedInv: the version of a save under way is one its round trips    *)
(*     have reached.                                                       *)
(* Each part is preserved handler by handler, most of them because they    *)
(* leave alone what it is about; the theorems are at the end.              *)
(***************************************************************************)
EXTENDS EditSession, PageHistoryFacts

-----------------------------------------------------------------------------
(* What waits to be run, as sequences: none is handed over twice, and the  *)
(* last word is what counts.                                               *)

HandedOver == {"trip", "write"}

NoneTwice(calls) ==
    \A i, j \in DOMAIN calls :
        i # j /\ calls[i] = calls[j] => calls[i].call \notin HandedOver

Silent(calls) == \A c \in ToSet(calls) : c.call # "modified"

\* The last word of these calls, if there is any, is `value`.
Says(calls, value) ==
    \A i \in DOMAIN calls :
        calls[i].call = "modified" /\ (\A j \in DOMAIN calls : j > i => calls[j].call # "modified")
            => calls[i].value = value

-----------------------------------------------------------------------------
(* Types. *)

Points == [order : Seq(Nat), pages : Seq(Nat)]

OrderEdits == [kind : {"order"}, before : Seq(Nat), after : Seq(Nat)]
RotationEdits == [kind : {"rotation"}, pages : SUBSET Nat, turns : {1, 3}]
Edits == OrderEdits \cup RotationEdits

Turnings == [what : {"rotate", "undo", "redo"}, edit : RotationEdits, at : {0}]
Mergings == [what : {"merge"}, edit : {Nothing}, at : Nat]

Histories ==
    [order : Seq(Nat), pages : Seq(Nat), reference : Points,
     past : Seq(Edits), future : Seq(Edits), queue : Seq(Turnings \cup Mergings)]

Reasons == {"undecided", "intact", "discard", "password", "saved", "told", "not told yet",
            "cannot be told"}
Decisions == [why : Reasons, doc : 0..MaxRequests, edits : Nat, reference : Points]

Targets == {Nothing} \cup Leavings

Calls ==
    [call : {"open"}, path : Paths, typed : BOOLEAN, leave : Decisions]
        \cup [call : {"modified"}, value : BOOLEAN]
        \cup [call : {"destroy"}, leave : Decisions]
        \cup [call : {"trip"}, doc : Docs]
        \cup [call : {"write"}, write : Writes]

AnswersToOpen ==
    [kind : {"opened", "password", "failed"}, doc : 0..MaxRequests, path : Paths, leave : Decisions]

Sessions == [doc : 0..MaxRequests, version : Nat, pages : Seq(Nat)]

Quiet == [at : {"none", "asked", "started"}]
Rewriting == [at : {"rewriting"}, from : Sessions]
TripsAnswered == [at : {"answered"}, ok : BOOLEAN, pages : Seq(Nat)]
Trips == Quiet \cup Rewriting \cup TripsAnswered

Whats == {"save", "extract"}
Unused == [at : {"none"}]
Asking ==
    [at : {"picking", "waiting"}, what : Whats, doc : Docs, positions : SUBSET Nat,
     leaving : Targets, meant : Seq(Nat)]
UnderWay ==
    [at : {"sent", "started"}, what : Whats, doc : Docs, leaving : Targets, meant : Seq(Nat),
     point : Points, version : [doc : 0..MaxRequests, version : Nat], leave : Decisions]
Files == {NoFile} \cup [doc : 0..MaxRequests, pages : Seq(Nat \X Nat)]
Ended ==
    [at : {"answered", "over"}, what : Whats, doc : Docs, leaving : Targets, meant : Seq(Nat),
     point : Points, leave : Decisions, file : Files, overtaken : BOOLEAN]
GivenUp == [at : {"over"}, what : Whats, doc : Docs]
Writings == Unused \cup Asking \cup UnderWay \cup Ended \cup GivenUp

TypeInv ==
    /\ shown \in 0..MaxRequests
    /\ history \in [Docs -> Histories]
    /\ edits \in [Docs -> Nat]
    /\ password \in Paths \cup {NoPath}
    /\ question \in Targets
    /\ reported \in BOOLEAN
    /\ write \in [Writes -> Writings]
    /\ inbox \in Seq(Calls)
    /\ opened \in Seq(AnswersToOpen)
    /\ trip \in [Docs -> Trips]
    /\ session \in Sessions
    /\ unsaved \in BOOLEAN

-----------------------------------------------------------------------------
(* The inductive invariant. *)

\* Documents come on screen in the order they were opened, and nothing has
\* been done to one that has not come yet.
Numbered ==
    /\ shown <= session.doc
    /\ \A d \in Docs : d > shown => history[d] = Opened(Pages) /\ trip[d] = NoTrip
    /\ \A i \in DOMAIN opened :
          opened[i].kind = "opened" => shown < opened[i].doc /\ opened[i].doc <= session.doc
    /\ \A i, j \in DOMAIN opened :
          opened[i].kind = "opened" /\ opened[j].kind = "opened" /\ i < j
              => opened[i].doc < opened[j].doc
    /\ \A k \in Writes : write[k].at # "none" => write[k].doc <= shown

\* A history has a round trip under way exactly when it waits for one, and
\* what waits to be handed over was asked for once.
Matched ==
    /\ \A d \in Docs : Busy(history[d]) <=> trip[d].at # "none"
    /\ \A c \in ToSet(inbox) :
          /\ c.call = "trip" => trip[c.doc].at = "asked"
          /\ c.call = "write" => write[c.write].at = "sent"
    /\ NoneTwice(inbox)

\* A rewrite under way is that of the document as it stands, unless another
\* document has taken its place; and what it gave fits the pages known.
Fits(h, answer) ==
    answer.ok =>
        IF Head(h.queue).what = "merge"
        THEN answer.pages = <<>> \/ Len(answer.pages) > Len(h.pages)
        ELSE Len(answer.pages) = Len(h.pages)

Rewrites ==
    \A d \in Docs :
      /\ trip[d].at = "rewriting" /\ session.doc = d => trip[d].from = session
      /\ trip[d].at = "answered" => Fits(history[d], trip[d])

\* Every order a history may come back to stands: OrdersStand, of one.
OrdersOf(edit) == IF edit.kind = "order" THEN {edit.before, edit.after} ELSE {}

Standing(h) ==
    /\ Stands(h.order, h.pages)
    /\ Stands(h.reference.order, h.pages)
    /\ \A edit \in ToSet(h.past) \cup ToSet(h.future) :
          \A order \in OrdersOf(edit) : Stands(order, h.pages)

\* What a save may yet put in the place of a save point stands.
PointsStand ==
    \A k \in Writes :
      write[k].at \in {"sent", "started", "answered"} /\ write[k].what = "save" =>
          Stands(write[k].point.order, history[write[k].doc].pages)

DocumentInv == Numbered /\ Matched /\ Rewrites /\ PagesAgree /\ OrdersStand /\ PointsStand

\* What the Rust side was told, or is about to be, is what is so; unless it
\* has just opened a document whose coming on screen will say it.
Heard ==
    /\ reported = UnsavedOn(history, shown)
    /\ Says(inbox, reported)
    /\ Silent(inbox) =>
          \/ unsaved = reported
          \/ ~unsaved /\ \E a \in ToSet(opened) : a.kind = "opened"

\* A decision to leave is still good: no later edit, no work to lose, as far
\* as the save point it was taken with goes.
Excused == {"discard", "password", "not told yet", "cannot be told"}
Good(leave) ==
    /\ leave.doc <= shown
    /\ leave.doc = shown /\ shown # NoDoc =>
          /\ leave.edits <= edits[shown]
          /\ \/ leave.why \in Excused
             \/ leave.edits < edits[shown]
             \/ ~Unsaved(Saved(history[shown], leave.reference))

Decisive ==
    /\ \A c \in ToSet(inbox) : c.call \in {"open", "destroy"} => Good(c.leave)
    /\ \A a \in ToSet(opened) : Good(a.leave)
    /\ \A k \in Writes : write[k].at \in {"sent", "started", "answered"} => Good(write[k].leave)
    /\ LostOnlyAfterDeciding

\* A save under way will write its save point, unless it is overtaken.
Versioned ==
    \A k \in Writes :
      write[k].at \in {"sent", "started"} =>
          /\ write[k].version.doc <= session.doc
          /\ write[k].version.doc = session.doc => write[k].version.version <= session.version
          /\ write[k].what = "save" /\ write[k].version = Version /\ session.doc = write[k].doc =>
                write[k].point.pages = session.pages

WrittenAsMeant ==
    \A k \in Writes :
      /\ write[k].at \in {"answered", "over"} /\ "file" \in DOMAIN write[k]
      /\ write[k].what = "save" /\ write[k].file # NoFile
      => \/ write[k].overtaken
         \/ write[k].file.doc # write[k].doc
         \/ write[k].file.pages = Shown(write[k].point.order, write[k].point.pages)

SavedInv == Versioned /\ WrittenAsMeant /\ SavedWasWritten
-----------------------------------------------------------------------------
(* Sequences. *)

\* What a sequence of so many holds is in the set it is of.
LEMMA Members ==
  ASSUME NEW S, NEW s \in Seq(S)
  PROVE  ToSet(s) \subseteq S
  BY LenProperties DEF ToSet

\* What two sequences hold, one after the other.
LEMMA JoinedMembers ==
  ASSUME NEW S, NEW s \in Seq(S), NEW t \in Seq(S)
  PROVE  ToSet(s \o t) = ToSet(s) \cup ToSet(t)
<1>1. /\ Len(s) \in Nat /\ DOMAIN s = 1..Len(s) /\ Len(t) \in Nat /\ DOMAIN t = 1..Len(t)
      /\ s \o t \in Seq(S) /\ Len(s \o t) = Len(s) + Len(t)
      /\ DOMAIN (s \o t) = 1..(Len(s) + Len(t))
  BY LenProperties, ConcatProperties
<1>2. \A i \in 1..(Len(s) + Len(t)) :
         (s \o t)[i] = IF i <= Len(s) THEN s[i] ELSE t[i - Len(s)]
  BY ConcatProperties
<1>3. ToSet(s \o t) \subseteq ToSet(s) \cup ToSet(t)
  <2> SUFFICES ASSUME NEW i \in 1..(Len(s) + Len(t)) PROVE (s \o t)[i] \in ToSet(s) \cup ToSet(t)
    BY <1>1 DEF ToSet
  <2>1. CASE i <= Len(s)
    <3>1. i \in DOMAIN s /\ (s \o t)[i] = s[i] BY <1>1, <1>2, <2>1
    <3> QED BY <3>1 DEF ToSet
  <2>2. CASE i > Len(s)
    <3>1. i - Len(s) \in DOMAIN t /\ (s \o t)[i] = t[i - Len(s)] BY <1>1, <1>2, <2>2
    <3> QED BY <3>1 DEF ToSet
  <2> QED BY <1>1, <2>1, <2>2
<1>4. ToSet(s) \subseteq ToSet(s \o t)
  <2> SUFFICES ASSUME NEW i \in 1..Len(s) PROVE s[i] \in ToSet(s \o t)
    BY <1>1 DEF ToSet
  <2>1. i \in 1..(Len(s) + Len(t)) /\ (s \o t)[i] = s[i] BY <1>1, <1>2
  <2> QED BY <1>1, <2>1 DEF ToSet
<1>5. ToSet(t) \subseteq ToSet(s \o t)
  <2> SUFFICES ASSUME NEW i \in 1..Len(t) PROVE t[i] \in ToSet(s \o t)
    BY <1>1 DEF ToSet
  <2>1. Len(s) + i \in 1..(Len(s) + Len(t)) /\ (Len(s) + i) - Len(s) = i /\ ~(Len(s) + i <= Len(s))
    BY <1>1
  <2>2. (s \o t)[Len(s) + i] = t[i] BY <1>2, <2>1
  <2> QED BY <1>1, <2>1, <2>2 DEF ToSet
<1> QED BY <1>3, <1>4, <1>5

\* One more.
LEMMA OneMore ==
  ASSUME NEW S, NEW s \in Seq(S), NEW c \in S
  PROVE  /\ <<c>> \in Seq(S) /\ s \o <<c>> \in Seq(S) /\ s \o <<>> = s
         /\ ToSet(s \o <<c>>) = ToSet(s) \cup {c}
         /\ Append(s, c) = s \o <<c>>
<1>1. <<c>> \in Seq(S) OBVIOUS
<1>2. ToSet(<<c>>) = {c} BY DEF ToSet
<1>3. s \o <<c>> \in Seq(S) BY <1>1, ConcatProperties
<1>4. ToSet(s \o <<c>>) = ToSet(s) \cup {c}
  <2>1. ToSet(s \o <<c>>) = ToSet(s) \cup ToSet(<<c>>) BY <1>1, JoinedMembers, Zenon
  <2> QED BY <1>2, <2>1
<1> QED BY <1>1, <1>3, <1>4, ConcatEmptySeq, AppendIsConcat

\* The first taken off.
LEMMA TakenOff ==
  ASSUME NEW S, NEW s \in Seq(S), s # <<>>
  PROVE  /\ Tail(s) \in Seq(S)
         /\ Head(s) \in S
         /\ ToSet(s) = {Head(s)} \cup ToSet(Tail(s))
<1>1. /\ Len(s) \in Nat \ {0} /\ DOMAIN s = 1..Len(s) /\ Head(s) = s[1]
      /\ Head(s) \in S /\ Tail(s) \in Seq(S) /\ Len(Tail(s)) = Len(s) - 1
      /\ \A i \in 1..Len(Tail(s)) : Tail(s)[i] = s[i + 1]
  BY LenProperties, EmptySeq, HeadTailProperties
<1>2. DOMAIN Tail(s) = 1..(Len(s) - 1) BY <1>1, LenProperties
<1>3. ToSet(s) \subseteq {Head(s)} \cup ToSet(Tail(s))
  <2> SUFFICES ASSUME NEW i \in 1..Len(s), i # 1 PROVE s[i] \in ToSet(Tail(s))
    BY <1>1 DEF ToSet
  <2>1. i - 1 \in 1..(Len(s) - 1) /\ (i - 1) + 1 = i BY <1>1
  <2>2. Tail(s)[i - 1] = s[i] BY <1>1, <2>1
  <2> QED BY <1>2, <2>1, <2>2 DEF ToSet
<1>4. ToSet(Tail(s)) \subseteq ToSet(s)
  <2> SUFFICES ASSUME NEW i \in 1..(Len(s) - 1) PROVE Tail(s)[i] \in ToSet(s)
    BY <1>2 DEF ToSet
  <2>1. i + 1 \in 1..Len(s) /\ Tail(s)[i] = s[i + 1] BY <1>1
  <2> QED BY <1>1, <2>1 DEF ToSet
<1>5. Head(s) \in ToSet(s) BY <1>1 DEF ToSet
<1> QED BY <1>1, <1>3, <1>4, <1>5

\* The places of two sequences, one after the other.
LEMMA JoinedPlaces ==
  ASSUME NEW S, NEW s \in Seq(S), NEW t \in Seq(S), NEW i \in DOMAIN (s \o t)
  PROVE  /\ i \in Int
         /\ \/ i <= Len(s) /\ i \in DOMAIN s /\ (s \o t)[i] = s[i]
            \/ i > Len(s) /\ i - Len(s) \in DOMAIN t /\ (s \o t)[i] = t[i - Len(s)]
<1>1. /\ Len(s) \in Nat /\ DOMAIN s = 1..Len(s) /\ Len(t) \in Nat /\ DOMAIN t = 1..Len(t)
      /\ DOMAIN (s \o t) = 1..(Len(s) + Len(t))
  BY LenProperties, ConcatProperties
<1>2. (s \o t)[i] = IF i <= Len(s) THEN s[i] ELSE t[i - Len(s)]
  BY <1>1, ConcatProperties
<1> QED BY <1>1, <1>2

\* The places of a sequence whose first was taken off.
LEMMA TailPlaces ==
  ASSUME NEW S, NEW s \in Seq(S), s # <<>>, NEW i \in DOMAIN Tail(s)
  PROVE  i \in Int /\ i >= 1 /\ i + 1 \in DOMAIN s /\ Tail(s)[i] = s[i + 1]
<1>1. /\ Len(s) \in Nat \ {0} /\ DOMAIN s = 1..Len(s) /\ Tail(s) \in Seq(S)
      /\ Len(Tail(s)) = Len(s) - 1 /\ \A j \in 1..Len(Tail(s)) : Tail(s)[j] = s[j + 1]
  BY LenProperties, EmptySeq, HeadTailProperties
<1>2. DOMAIN Tail(s) = 1..(Len(s) - 1) BY <1>1, LenProperties
<1> QED BY <1>1, <1>2

\* Calls that are not among those that wait may join them.
LEMMA NoneTwiceJoined ==
  ASSUME NEW S, NEW s \in Seq(S), NEW t \in Seq(S), NoneTwice(s), NoneTwice(t),
         \A c \in ToSet(s) \cap ToSet(t) : c.call \notin HandedOver
  PROVE  NoneTwice(s \o t)
<1> SUFFICES ASSUME NEW i \in DOMAIN (s \o t), NEW j \in DOMAIN (s \o t),
                    i # j, (s \o t)[i] = (s \o t)[j]
             PROVE  (s \o t)[i].call \notin HandedOver
  BY DEF NoneTwice
<1>1. /\ i \in Int
      /\ \/ i <= Len(s) /\ i \in DOMAIN s /\ (s \o t)[i] = s[i]
         \/ i > Len(s) /\ i - Len(s) \in DOMAIN t /\ (s \o t)[i] = t[i - Len(s)]
  BY JoinedPlaces
<1>2. /\ j \in Int
      /\ \/ j <= Len(s) /\ j \in DOMAIN s /\ (s \o t)[j] = s[j]
         \/ j > Len(s) /\ j - Len(s) \in DOMAIN t /\ (s \o t)[j] = t[j - Len(s)]
  BY JoinedPlaces
<1>3. Len(s) \in Nat BY LenProperties
<1>4. CASE i <= Len(s) /\ j <= Len(s)
  <2>1. i \in DOMAIN s /\ j \in DOMAIN s /\ s[i] = s[j] /\ (s \o t)[i] = s[i] BY <1>1, <1>2, <1>3, <1>4
  <2> QED BY <2>1 DEF NoneTwice
<1>5. CASE i > Len(s) /\ j > Len(s)
  <2>1. /\ i - Len(s) \in DOMAIN t /\ j - Len(s) \in DOMAIN t /\ i - Len(s) # j - Len(s)
        /\ t[i - Len(s)] = t[j - Len(s)] /\ (s \o t)[i] = t[i - Len(s)]
    BY <1>1, <1>2, <1>3, <1>5
  <2> QED BY <2>1 DEF NoneTwice
<1>6. CASE i <= Len(s) /\ j > Len(s)
  <2>1. (s \o t)[i] \in ToSet(s) /\ (s \o t)[j] \in ToSet(t) BY <1>1, <1>2, <1>3, <1>6 DEF ToSet
  <2> QED BY <2>1
<1>7. CASE i > Len(s) /\ j <= Len(s)
  <2>1. (s \o t)[i] \in ToSet(t) /\ (s \o t)[j] \in ToSet(s) BY <1>1, <1>2, <1>3, <1>7 DEF ToSet
  <2> QED BY <2>1
<1> QED BY <1>1, <1>2, <1>3, <1>4, <1>5, <1>6, <1>7

\* A call handed over does not wait any more.
LEMMA NoneTwiceTail ==
  ASSUME NEW S, NEW s \in Seq(S), s # <<>>, NoneTwice(s)
  PROVE  /\ NoneTwice(Tail(s))
         /\ Head(s).call \in HandedOver => Head(s) \notin ToSet(Tail(s))
<1>1. ASSUME NEW i \in DOMAIN Tail(s), NEW j \in DOMAIN Tail(s), i # j, Tail(s)[i] = Tail(s)[j]
      PROVE  Tail(s)[i].call \notin HandedOver
  <2>1. /\ i + 1 \in DOMAIN s /\ j + 1 \in DOMAIN s /\ i + 1 # j + 1
        /\ Tail(s)[i] = s[i + 1] /\ Tail(s)[j] = s[j + 1]
    BY <1>1, TailPlaces
  <2> QED BY <1>1, <2>1 DEF NoneTwice
<1>2. ASSUME NEW i \in DOMAIN Tail(s), Tail(s)[i] = Head(s)
      PROVE  Head(s).call \notin HandedOver
  <2>1. i + 1 \in DOMAIN s /\ i + 1 # 1 /\ Tail(s)[i] = s[i + 1] BY TailPlaces
  <2>2. 1 \in DOMAIN s /\ Head(s) = s[1] BY LenProperties, EmptySeq
  <2> QED BY <1>2, <2>1, <2>2 DEF NoneTwice
<1>3. NoneTwice(Tail(s)) BY <1>1 DEF NoneTwice
<1> QED BY <1>2, <1>3 DEF ToSet

\* Calls that say nothing leave the last word as it was.
LEMMA SilentAfter ==
  ASSUME NEW S, NEW s \in Seq(S), NEW t \in Seq(S), NEW value, Says(s, value), Silent(t)
  PROVE  /\ Says(s \o t, value)
         /\ Silent(s \o t) <=> Silent(s)
<1>1. Says(s \o t, value)
  <2> SUFFICES ASSUME NEW i \in DOMAIN (s \o t), (s \o t)[i].call = "modified",
                      \A j \in DOMAIN (s \o t) : j > i => (s \o t)[j].call # "modified"
               PROVE  (s \o t)[i].value = value
    BY DEF Says
  <2>1. i \in DOMAIN s /\ (s \o t)[i] = s[i] /\ i \in Int
    <3>1. i - Len(s) \in DOMAIN t => t[i - Len(s)].call # "modified" BY DEF Silent, ToSet
    <3> QED BY <3>1, JoinedPlaces
  <2>2. ASSUME NEW j \in DOMAIN s, j > i PROVE s[j].call # "modified"
    <3>1. /\ Len(s) \in Nat /\ DOMAIN s = 1..Len(s) /\ Len(t) \in Nat
          /\ DOMAIN (s \o t) = 1..(Len(s) + Len(t))
      BY LenProperties, ConcatProperties
    <3>2. j \in DOMAIN (s \o t) /\ j <= Len(s) BY <3>1
    <3>3. (s \o t)[j] = s[j] BY <3>1, <3>2, JoinedPlaces
    <3> QED BY <2>2, <3>2, <3>3
  <2> QED BY <2>1, <2>2 DEF Says
<1>2. ToSet(s \o t) = ToSet(s) \cup ToSet(t) BY JoinedMembers
<1> QED BY <1>1, <1>2 DEF Silent

\* The last word is that of the one who speaks.
LEMMA LastWord ==
  ASSUME NEW S, NEW s \in Seq(S), NEW c \in S, c.call = "modified"
  PROVE  Says(s \o <<c>>, c.value) /\ ~Silent(s \o <<c>>)
<1> DEFINE t == s \o <<c>>
<1>1. /\ Len(s) \in Nat /\ t \in Seq(S) /\ Len(t) = Len(s) + 1 /\ DOMAIN t = 1..(Len(s) + 1)
      /\ t[Len(s) + 1] = c
  BY LenProperties, AppendProperties, AppendIsConcat
<1> HIDE DEF t
<1>2. Len(s) + 1 \in DOMAIN t BY <1>1
<1>3. Says(t, c.value)
  <2> SUFFICES ASSUME NEW i \in DOMAIN t, i # Len(s) + 1,
                      \A j \in DOMAIN t : j > i => t[j].call # "modified"
               PROVE  FALSE
    BY <1>1 DEF Says
  <2> QED BY <1>1, <1>2
<1>4. ~Silent(t) BY <1>1, <1>2 DEF Silent, ToSet
<1> QED BY <1>3, <1>4 DEF t

\* What is heard leaves the last word as it was, and is the last word when
\* nothing is said after it.
LEMMA WordHeard ==
  ASSUME NEW S, NEW s \in Seq(S), s # <<>>, NEW value, Says(s, value)
  PROVE  /\ Says(Tail(s), value)
         /\ Head(s).call = "modified" /\ Silent(Tail(s)) => Head(s).value = value
         /\ Head(s).call # "modified" => (Silent(Tail(s)) <=> Silent(s))
<1>1. /\ Len(s) \in Nat \ {0} /\ DOMAIN s = 1..Len(s) /\ Head(s) = s[1]
      /\ Tail(s) \in Seq(S) /\ Len(Tail(s)) = Len(s) - 1
      /\ \A j \in 1..(Len(s) - 1) : Tail(s)[j] = s[j + 1]
  BY LenProperties, EmptySeq, HeadTailProperties
<1>2. DOMAIN Tail(s) = 1..(Len(s) - 1) BY <1>1, LenProperties
<1>3. ASSUME NEW i \in DOMAIN Tail(s), Tail(s)[i].call = "modified",
             \A j \in DOMAIN Tail(s) : j > i => Tail(s)[j].call # "modified"
      PROVE  Tail(s)[i].value = value
  <2>1. i + 1 \in DOMAIN s /\ Tail(s)[i] = s[i + 1] BY <1>1, <1>2
  <2>2. ASSUME NEW j \in DOMAIN s, j > i + 1 PROVE s[j].call # "modified"
    <3>1. j - 1 \in DOMAIN Tail(s) /\ j - 1 > i /\ (j - 1) + 1 = j BY <1>1, <1>2, <2>2
    <3>2. Tail(s)[j - 1] = s[j] BY <1>1, <1>2, <3>1
    <3> QED BY <1>3, <3>1, <3>2
  <2> QED BY <1>3, <2>1, <2>2 DEF Says
<1>4. ASSUME Head(s).call = "modified", Silent(Tail(s)) PROVE Head(s).value = value
  <2>1. ASSUME NEW j \in DOMAIN s, j > 1 PROVE s[j].call # "modified"
    <3>1. j - 1 \in DOMAIN Tail(s) /\ (j - 1) + 1 = j BY <1>1, <1>2, <2>1
    <3>2. Tail(s)[j - 1] = s[j] BY <1>1, <1>2, <3>1
    <3> QED BY <1>4, <3>1, <3>2 DEF Silent, ToSet
  <2>2. 1 \in DOMAIN s BY <1>1
  <2> QED BY <1>1, <1>4, <2>1, <2>2 DEF Says
<1>5. ToSet(s) = {Head(s)} \cup ToSet(Tail(s)) BY TakenOff
<1>6. Says(Tail(s), value) BY <1>3 DEF Says
<1> QED BY <1>4, <1>5, <1>6 DEF Silent

\* The last of a sequence, and what comes before it.
LEMMA BeforeLast ==
  ASSUME NEW S, NEW s \in Seq(S)
  PROVE  /\ Front(s) \in Seq(S) /\ ToSet(Front(s)) \subseteq ToSet(s)
         /\ s # <<>> => Last(s) \in S /\ Last(s) \in ToSet(s)
<1>1. Len(s) \in Nat /\ DOMAIN s = 1..Len(s) /\ \A i \in 1..Len(s) : s[i] \in S
  BY LenProperties, ElementOfSeq
<1> DEFINE n == Len(s) - 1
<1>2. n \in Int /\ n = Len(s) - 1 BY <1>1
<1> HIDE DEF n
<1>3. /\ Front(s) \in Seq(S)
      /\ \A i \in 1..n : Front(s)[i] = s[i]
      /\ DOMAIN Front(s) = 1..n
  <2>1. \A i \in 1..n : s[i] \in S BY <1>1, <1>2
  <2>2. Front(s) = SubSeq(s, 1, n) BY <1>2 DEF Front
  <2>3. /\ SubSeq(s, 1, n) \in Seq(S)
        /\ Len(SubSeq(s, 1, n)) = IF 1 <= n THEN n - 1 + 1 ELSE 0
        /\ \A i \in 1..(n - 1 + 1) : SubSeq(s, 1, n)[i] = s[1 + i - 1]
    BY <1>2, <2>1, SubSeqProperties
  <2>4. \A i \in 1..n : Front(s)[i] = s[i] BY <1>2, <2>2, <2>3
  <2>5. 1..Len(Front(s)) = 1..n
    <3>1. CASE 1 <= n BY <1>2, <2>2, <2>3, <3>1
    <3>2. CASE ~(1 <= n) BY <1>2, <2>2, <2>3, <3>2
    <3> QED BY <3>1, <3>2
  <2>6. DOMAIN Front(s) = 1..Len(Front(s)) BY <2>2, <2>3, LenProperties
  <2> QED BY <2>2, <2>3, <2>4, <2>5, <2>6
<1>4. ToSet(Front(s)) \subseteq ToSet(s)
  <2> SUFFICES ASSUME NEW i \in 1..n PROVE Front(s)[i] \in ToSet(s)
    BY <1>3 DEF ToSet
  <2>1. i \in 1..Len(s) BY <1>1, <1>2
  <2> QED BY <1>1, <1>3, <2>1 DEF ToSet
<1>5. s # <<>> => Len(s) \in 1..Len(s) BY <1>1, EmptySeq
<1> QED BY <1>1, <1>3, <1>4, <1>5 DEF Last, ToSet

-----------------------------------------------------------------------------
(* What becomes of a history (history.ts). *)

\* A document as opened.
LEMMA OpenedIs ==
  /\ Opened(Pages) \in Histories
  /\ Opened(Pages).reference \in Points
  /\ Standing(Opened(Pages))
  /\ ~Unsaved(Opened(Pages))
<1> DEFINE order == [i \in 1..Pages |-> i]
           pages == [i \in 1..Pages |-> 0]
<1>1. Pages \in Nat \ {0} BY EditAssumption
<1>2. /\ order \in Seq(Nat) /\ pages \in Seq(Nat) /\ <<>> \in Seq(Edits)
      /\ <<>> \in Seq(Turnings \cup Mergings)
  BY <1>1
<1>3. Opened(Pages) = [order |-> order, pages |-> pages,
                       reference |-> [order |-> order, pages |-> pages],
                       past |-> <<>>, future |-> <<>>, queue |-> <<>>]
  BY DEF Opened
<1>4. Stands(order, pages)
  <2>1. order # <<>> BY <1>1, <1>2, EmptySeq
  <2>2. IsInjective(order) /\ ToSet(order) \subseteq DOMAIN pages
    BY DEF IsInjective, ToSet
  <2> QED BY <2>1, <2>2 DEF Stands
<1> HIDE DEF order, pages
<1>5. ToSet(<<>>) = {} BY DEF ToSet
<1>6. Standing(Opened(Pages)) BY <1>3, <1>4, <1>5 DEF Standing
<1>7. ~Unsaved(Opened(Pages)) BY <1>3 DEF Unsaved, Busy, Modified
<1>8. Opened(Pages) \in Histories /\ Opened(Pages).reference \in Points
  BY <1>2, <1>3 DEF Histories, Points
<1> QED BY <1>6, <1>7, <1>8

\* An edit joins others that stand.
LEMMA EditJoins ==
  ASSUME NEW past \in Seq(Edits), NEW edit \in Edits
  PROVE  Append(past, edit) \in Seq(Edits) /\ ToSet(Append(past, edit)) = ToSet(past) \cup {edit}
<1>1. /\ past \o <<edit>> \in Seq(Edits) /\ ToSet(past \o <<edit>>) = ToSet(past) \cup {edit}
      /\ Append(past, edit) = past \o <<edit>>
  BY OneMore
<1> QED BY <1>1, Zenon

\* An edit of the order.
LEMMA HistoryReordered ==
  ASSUME NEW h \in Histories, Standing(h), NEW next \in Seq(Nat), Stands(next, h.pages)
  PROVE  /\ Reordered(h, next) \in Histories
         /\ Standing(Reordered(h, next))
         /\ Reordered(h, next).pages = h.pages
         /\ Reordered(h, next).reference = h.reference
         /\ Reordered(h, next).queue = h.queue
<1> DEFINE edit == OrderEdit(h.order, next)
           after == Append(h.past, edit)
<1>1. h.order \in Seq(Nat) /\ h.past \in Seq(Edits) BY DEF Histories
<1>2. edit \in Edits /\ edit.kind = "order" /\ edit.before = h.order /\ edit.after = next
  BY <1>1 DEF OrderEdit, Edits, OrderEdits
<1> HIDE DEF edit
<1>3. after \in Seq(Edits) /\ ToSet(after) = ToSet(h.past) \cup {edit}
  BY <1>1, <1>2, EditJoins
<1> HIDE DEF after
<1>4. <<>> \in Seq(Edits) /\ ToSet(<<>>) = {} BY DEF ToSet
<1>5. /\ Reordered(h, next).order = next /\ Reordered(h, next).pages = h.pages
      /\ Reordered(h, next).reference = h.reference /\ Reordered(h, next).queue = h.queue
      /\ Reordered(h, next).past = after /\ Reordered(h, next).future = <<>>
  BY DEF Reordered, Recorded, after, edit, Histories
<1>6. Reordered(h, next) \in Histories
  BY <1>3, <1>4 DEF Reordered, Recorded, Histories, after, edit
<1>7. \A order \in OrdersOf(edit) : Stands(order, h.pages) BY <1>2 DEF OrdersOf, Standing
<1>8. Standing(Reordered(h, next)) BY <1>3, <1>4, <1>5, <1>7 DEF Standing
<1> QED BY <1>5, <1>6, <1>8

\* An edit of the order undone.
LEMMA HistoryUndone ==
  ASSUME NEW h \in Histories, Standing(h), h.past # <<>>, Last(h.past).kind = "order"
  PROVE  /\ UndoneOrder(h) \in Histories
         /\ Standing(UndoneOrder(h))
         /\ UndoneOrder(h).pages = h.pages
         /\ UndoneOrder(h).reference = h.reference
         /\ UndoneOrder(h).queue = h.queue
<1> DEFINE edit == Last(h.past)
           past == Front(h.past)
           future == Append(h.future, edit)
<1>1. h.past \in Seq(Edits) /\ h.future \in Seq(Edits) BY DEF Histories
<1>2. /\ edit \in Edits /\ edit \in ToSet(h.past) /\ edit.kind = "order"
      /\ past \in Seq(Edits) /\ ToSet(past) \subseteq ToSet(h.past)
  BY <1>1, BeforeLast
<1>3. edit.before \in Seq(Nat) /\ edit.before \in OrdersOf(edit)
  BY <1>2 DEF Edits, OrderEdits, RotationEdits, OrdersOf
<1>4. /\ UndoneOrder(h).order = edit.before /\ UndoneOrder(h).pages = h.pages
      /\ UndoneOrder(h).reference = h.reference /\ UndoneOrder(h).queue = h.queue
      /\ UndoneOrder(h).past = past /\ UndoneOrder(h).future = future
  BY DEF UndoneOrder, Histories
<1> HIDE DEF edit, past
<1>5. future \in Seq(Edits) /\ ToSet(future) = ToSet(h.future) \cup {edit} BY <1>1, <1>2, EditJoins
<1> HIDE DEF future
<1>6. UndoneOrder(h) \in Histories
  BY <1>2, <1>3, <1>5 DEF UndoneOrder, Histories, edit, past, future
<1>7. Standing(UndoneOrder(h)) BY <1>2, <1>3, <1>4, <1>5 DEF Standing
<1> QED BY <1>4, <1>6, <1>7

\* An edit of the order redone.
LEMMA HistoryRedone ==
  ASSUME NEW h \in Histories, Standing(h), h.future # <<>>, Last(h.future).kind = "order"
  PROVE  /\ RedoneOrder(h) \in Histories
         /\ Standing(RedoneOrder(h))
         /\ RedoneOrder(h).pages = h.pages
         /\ RedoneOrder(h).reference = h.reference
         /\ RedoneOrder(h).queue = h.queue
<1> DEFINE edit == Last(h.future)
           future == Front(h.future)
           past == Append(h.past, edit)
<1>1. h.past \in Seq(Edits) /\ h.future \in Seq(Edits) BY DEF Histories
<1>2. /\ edit \in Edits /\ edit \in ToSet(h.future) /\ edit.kind = "order"
      /\ future \in Seq(Edits) /\ ToSet(future) \subseteq ToSet(h.future)
  BY <1>1, BeforeLast
<1>3. edit.after \in Seq(Nat) /\ edit.after \in OrdersOf(edit)
  BY <1>2 DEF Edits, OrderEdits, RotationEdits, OrdersOf
<1>4. /\ RedoneOrder(h).order = edit.after /\ RedoneOrder(h).pages = h.pages
      /\ RedoneOrder(h).reference = h.reference /\ RedoneOrder(h).queue = h.queue
      /\ RedoneOrder(h).past = past /\ RedoneOrder(h).future = future
  BY DEF RedoneOrder, Histories
<1> HIDE DEF edit, future
<1>5. past \in Seq(Edits) /\ ToSet(past) = ToSet(h.past) \cup {edit} BY <1>1, <1>2, EditJoins
<1> HIDE DEF past
<1>6. RedoneOrder(h) \in Histories
  BY <1>2, <1>3, <1>5 DEF RedoneOrder, Histories, edit, past, future
<1>7. Standing(RedoneOrder(h)) BY <1>2, <1>3, <1>4, <1>5 DEF Standing
<1> QED BY <1>4, <1>6, <1>7

\* A round trip asked for.
LEMMA HistoryEnqueued ==
  ASSUME NEW h \in Histories, Standing(h), NEW task \in Turnings \cup Mergings
  PROVE  /\ Enqueued(h, task) \in Histories
         /\ Standing(Enqueued(h, task))
         /\ Enqueued(h, task).pages = h.pages
         /\ Enqueued(h, task).reference = h.reference
         /\ Busy(Enqueued(h, task))
         /\ Busy(h) => Head(Enqueued(h, task).queue) = Head(h.queue)
<1> DEFINE queue == Append(h.queue, task)
<1>1. h.queue \in Seq(Turnings \cup Mergings) BY DEF Histories
<1>2. queue \in Seq(Turnings \cup Mergings) /\ queue # <<>> /\ (h.queue # <<>> => Head(queue) = Head(h.queue))
  <2>1. /\ queue \in Seq(Turnings \cup Mergings) /\ queue # <<>>
        /\ \A i \in 1..Len(h.queue) : queue[i] = h.queue[i]
    BY <1>1, AppendProperties
  <2>2. h.queue # <<>> => 1 \in 1..Len(h.queue) BY <1>1, EmptySeq
  <2>3. Head(queue) = queue[1] /\ Head(h.queue) = h.queue[1] OBVIOUS
  <2> QED BY <2>1, <2>2, <2>3
<1> HIDE DEF queue
<1>3. /\ Enqueued(h, task).order = h.order /\ Enqueued(h, task).pages = h.pages
      /\ Enqueued(h, task).reference = h.reference
      /\ Enqueued(h, task).past = h.past /\ Enqueued(h, task).future = h.future
      /\ Enqueued(h, task).queue = queue
  BY DEF Enqueued, Histories, queue
<1>4. Enqueued(h, task) \in Histories BY <1>2 DEF Enqueued, Histories, queue
<1>5. Standing(Enqueued(h, task)) BY <1>3 DEF Standing
<1> QED BY <1>2, <1>3, <1>4, <1>5 DEF Busy

\* The file has as many pages, or more: what stood still stands.
LEMMA StandingInMore ==
  ASSUME NEW h \in Histories, Standing(h), NEW pages \in Seq(Nat), Len(h.pages) <= Len(pages)
  PROVE  /\ Stands(h.order, pages)
         /\ Stands(h.reference.order, pages)
         /\ \A edit \in ToSet(h.past) \cup ToSet(h.future) :
               \A order \in OrdersOf(edit) : Stands(order, pages)
<1>1. h.pages \in Seq(Nat) BY DEF Histories
<1>2. ASSUME NEW order, Stands(order, h.pages) PROVE Stands(order, pages)
  BY <1>1, <1>2, StandsInMore
<1> QED BY <1>2 DEF Standing

\* An answer the history can take.
LEMMA HistoryTurned ==
  ASSUME NEW h \in Histories, Standing(h), NEW task \in Turnings,
         NEW pages \in Seq(Nat), Len(pages) = Len(h.pages)
  PROVE  /\ Turned(h, task, pages) \in Histories
         /\ Standing(Turned(h, task, pages))
         /\ Turned(h, task, pages).pages = pages
         /\ Turned(h, task, pages).reference = h.reference
         /\ Turned(h, task, pages).queue = h.queue
<1> DEFINE edit == task.edit
           turned == Turned(h, task, pages)
<1>1. /\ h.past \in Seq(Edits) /\ h.future \in Seq(Edits) /\ h.pages \in Seq(Nat)
      /\ edit \in Edits /\ edit.kind = "rotation" /\ OrdersOf(edit) = {}
      /\ task.what \in {"rotate", "undo", "redo"}
  BY DEF Histories, Turnings, Edits, RotationEdits, OrdersOf
<1>2. /\ Append(h.past, edit) \in Seq(Edits) /\ ToSet(Append(h.past, edit)) = ToSet(h.past) \cup {edit}
      /\ Append(h.future, edit) \in Seq(Edits)
      /\ ToSet(Append(h.future, edit)) = ToSet(h.future) \cup {edit}
  BY <1>1, EditJoins
<1>3. /\ Front(h.past) \in Seq(Edits) /\ ToSet(Front(h.past)) \subseteq ToSet(h.past)
      /\ Front(h.future) \in Seq(Edits) /\ ToSet(Front(h.future)) \subseteq ToSet(h.future)
  BY <1>1, BeforeLast
<1>4. <<>> \in Seq(Edits) /\ ToSet(<<>>) = {} BY DEF ToSet
<1>5. Len(h.pages) <= Len(pages) BY <1>1, LenProperties
<1>6. /\ Stands(h.order, pages) /\ Stands(h.reference.order, pages)
      /\ \A e \in ToSet(h.past) \cup ToSet(h.future) : \A order \in OrdersOf(e) : Stands(order, pages)
  BY <1>5, StandingInMore
<1>7. CASE task.what = "rotate"
  <2>1. turned = Recorded([h EXCEPT !.pages = pages], edit) BY <1>7 DEF Turned
  <2>2. turned \in Histories BY <1>2, <1>4, <2>1 DEF Recorded, Histories
  <2>3. /\ turned.order = h.order /\ turned.pages = pages /\ turned.reference = h.reference
        /\ turned.queue = h.queue /\ turned.past = Append(h.past, edit) /\ turned.future = <<>>
    BY <2>1 DEF Recorded, Histories
  <2> HIDE DEF turned, edit
  <2>4. Standing(turned) BY <1>1, <1>2, <1>4, <1>6, <2>3 DEF Standing
  <2> QED BY <2>2, <2>3, <2>4 DEF turned
<1>8. CASE task.what = "undo"
  <2>1. turned = [[h EXCEPT !.pages = pages] EXCEPT !.past = Front(@), !.future = Append(@, edit)]
    BY <1>8 DEF Turned
  <2>2. turned \in Histories BY <1>2, <1>3, <2>1 DEF Histories
  <2>3. /\ turned.order = h.order /\ turned.pages = pages /\ turned.reference = h.reference
        /\ turned.queue = h.queue /\ turned.past = Front(h.past)
        /\ turned.future = Append(h.future, edit)
    BY <2>1 DEF Histories
  <2> HIDE DEF turned, edit
  <2>4. Standing(turned) BY <1>1, <1>2, <1>3, <1>6, <2>3 DEF Standing
  <2> QED BY <2>2, <2>3, <2>4 DEF turned
<1>9. CASE task.what = "redo"
  <2>1. turned = [[h EXCEPT !.pages = pages] EXCEPT !.future = Front(@), !.past = Append(@, edit)]
    BY <1>9 DEF Turned
  <2>2. turned \in Histories BY <1>2, <1>3, <2>1 DEF Histories
  <2>3. /\ turned.order = h.order /\ turned.pages = pages /\ turned.reference = h.reference
        /\ turned.queue = h.queue /\ turned.future = Front(h.future)
        /\ turned.past = Append(h.past, edit)
    BY <2>1 DEF Histories
  <2> HIDE DEF turned, edit
  <2>4. Standing(turned) BY <1>1, <1>2, <1>3, <1>6, <2>3 DEF Standing
  <2> QED BY <2>2, <2>3, <2>4 DEF turned
<1> QED BY <1>1, <1>7, <1>8, <1>9

\* The pages of a merge.
LEMMA HistoryMerged ==
  ASSUME NEW h \in Histories, Standing(h), NEW task \in Mergings,
         NEW pages \in Seq(Nat), Len(pages) > Len(h.pages)
  PROVE  /\ Merged(h, task, pages) \in Histories
         /\ Standing(Merged(h, task, pages))
         /\ Merged(h, task, pages).pages = pages
         /\ Merged(h, task, pages).reference = h.reference
         /\ Merged(h, task, pages).queue = h.queue
<1> DEFINE after == OrderMerged(h, task, pages)
           edit == OrderEdit(h.order, after)
           merged == Merged(h, task, pages)
<1>1. /\ h.order \in Seq(Nat) /\ h.pages \in Seq(Nat) /\ h.past \in Seq(Edits)
      /\ task.at \in Nat /\ Stands(h.order, h.pages)
      /\ Len(pages) \in Nat /\ Len(h.pages) \in Nat
  BY LenProperties DEF Histories, Mergings, Standing
<1>2. after \in Seq(Nat) /\ Stands(after, pages) BY <1>1, MergeStands
<1> HIDE DEF after
<1>3. edit \in Edits /\ edit.kind = "order" /\ edit.before = h.order /\ edit.after = after
  BY <1>1, <1>2 DEF OrderEdit, Edits, OrderEdits
<1> HIDE DEF edit
<1>4. Append(h.past, edit) \in Seq(Edits) /\ ToSet(Append(h.past, edit)) = ToSet(h.past) \cup {edit}
  BY <1>1, <1>3, EditJoins
<1>5. <<>> \in Seq(Edits) /\ ToSet(<<>>) = {} BY DEF ToSet
<1>6. /\ Stands(h.order, pages) /\ Stands(h.reference.order, pages)
      /\ \A e \in ToSet(h.past) \cup ToSet(h.future) : \A order \in OrdersOf(e) : Stands(order, pages)
  <2>1. Len(h.pages) <= Len(pages) BY <1>1
  <2> QED BY <2>1, StandingInMore
<1>7. merged = [Recorded(h, edit) EXCEPT !.pages = pages, !.order = after]
  BY <1>1 DEF Merged, after, edit
<1>8. merged \in Histories BY <1>2, <1>4, <1>5, <1>7 DEF Recorded, Histories
<1>9. /\ merged.order = after /\ merged.pages = pages /\ merged.reference = h.reference
      /\ merged.queue = h.queue /\ merged.past = Append(h.past, edit) /\ merged.future = <<>>
  BY <1>7 DEF Recorded, Histories
<1> HIDE DEF merged
<1>10. \A order \in OrdersOf(edit) : Stands(order, pages) BY <1>2, <1>3, <1>6 DEF OrdersOf
<1>11. Standing(merged) BY <1>2, <1>4, <1>5, <1>6, <1>9, <1>10 DEF Standing
<1> QED BY <1>8, <1>9, <1>11 DEF merged

\* What the answer to the first round trip makes of the history.
LEMMA HistorySettled ==
  ASSUME NEW h \in Histories, Standing(h), Busy(h), NEW answer \in TripsAnswered, Fits(h, answer)
  PROVE  /\ Settled(h, answer) \in Histories
         /\ Standing(Settled(h, answer))
         /\ Settled(h, answer).reference = h.reference
         /\ Settled(h, answer).queue = Tail(h.queue)
         /\ Settled(h, answer).pages =
                IF answer.ok /\ answer.pages # <<>> THEN answer.pages ELSE h.pages
         /\ Len(h.pages) <= Len(Settled(h, answer).pages)
<1> DEFINE task == Head(h.queue)
           pages == answer.pages
           next == Answered(h, answer)
<1>1. /\ h.queue \in Seq(Turnings \cup Mergings) /\ h.queue # <<>>
      /\ h.pages \in Seq(Nat) /\ Len(h.pages) \in Nat /\ Len(h.pages) >= 1
      /\ pages \in Seq(Nat) /\ Len(pages) \in Nat /\ answer.ok \in BOOLEAN
  BY LenProperties, StandsInSome DEF Histories, TripsAnswered, Busy, Standing
<1>2. task \in Turnings \cup Mergings /\ Tail(h.queue) \in Seq(Turnings \cup Mergings)
  BY <1>1, HeadTailProperties
<1>3. /\ task.what = "merge" => task \in Mergings
      /\ task.what # "merge" => task \in Turnings
  BY <1>2 DEF Turnings, Mergings
<1>4. pages = <<>> <=> Len(pages) = 0 BY <1>1, EmptySeq
<1> HIDE DEF task, pages
<1>5. /\ next \in Histories /\ Standing(next)
      /\ next.reference = h.reference /\ next.queue = h.queue
      /\ next.pages = IF answer.ok /\ pages # <<>> THEN pages ELSE h.pages
      /\ Len(h.pages) <= Len(next.pages)
  <2>1. CASE ~answer.ok
    <3>1. next = h BY <2>1 DEF Answered
    <3> QED BY <1>1, <2>1, <3>1
  <2>2. CASE answer.ok /\ task.what = "merge"
    <3>1. next = Merged(h, task, pages) BY <2>2 DEF Answered, task, pages
    <3>2. CASE pages = <<>>
      <4>1. next = h BY <1>1, <1>4, <3>1, <3>2 DEF Merged
      <4> QED BY <1>1, <3>2, <4>1
    <3>3. CASE pages # <<>>
      <4>1. Len(pages) > Len(h.pages) BY <2>2, <3>3 DEF Fits, task, pages
      <4>2. task \in Mergings BY <1>3, <2>2
      <4> QED BY <1>1, <2>2, <3>1, <3>3, <4>1, <4>2, HistoryMerged
    <3> QED BY <3>2, <3>3
  <2>3. CASE answer.ok /\ task.what # "merge"
    <3>1. next = Turned(h, task, pages) BY <2>3 DEF Answered, task, pages
    <3>2. Len(pages) = Len(h.pages) BY <2>3 DEF Fits, task, pages
    <3>3. task \in Turnings BY <1>3, <2>3
    <3>4. pages # <<>> BY <1>1, <1>4, <3>2
    <3> QED BY <1>1, <2>3, <3>1, <3>2, <3>3, <3>4, HistoryTurned
  <2> QED BY <1>1, <2>1, <2>2, <2>3
<1> HIDE DEF next
<1>6. Settled(h, answer) = [next EXCEPT !.queue = Tail(@)] BY DEF Settled, next
<1>7. Settled(h, answer) \in Histories BY <1>2, <1>5, <1>6 DEF Histories
<1>8. /\ Settled(h, answer).order = next.order /\ Settled(h, answer).pages = next.pages
      /\ Settled(h, answer).reference = next.reference
      /\ Settled(h, answer).past = next.past /\ Settled(h, answer).future = next.future
      /\ Settled(h, answer).queue = Tail(h.queue)
  BY <1>5, <1>6 DEF Histories
<1>9. Standing(Settled(h, answer)) BY <1>5, <1>8 DEF Standing
<1> QED BY <1>5, <1>7, <1>8, <1>9 DEF pages

-----------------------------------------------------------------------------
(* What the values of the session are made of. *)

\* A write is what its state says.
LEMMA WriteShapes ==
  ASSUME NEW w \in Writings
  PROVE  /\ w.at \in {"picking", "waiting"} => w \in Asking
         /\ w.at \in {"sent", "started"} => w \in UnderWay
         /\ w.at = "answered" => w \in Ended
         /\ w.at = "over" => w \in Ended \/ (w \in GivenUp /\ "file" \notin DOMAIN w)
         /\ w.at = "none" <=> w = NoWrite
         /\ w.at # "none" => w.doc \in Docs /\ w.what \in Whats
         /\ w.at \in {"none", "picking", "waiting", "sent", "started", "answered", "over"}
  BY DEF Writings, Unused, Asking, UnderWay, Ended, GivenUp, NoWrite

\* A call is what its name says.
LEMMA CallShapes ==
  ASSUME NEW c \in Calls
  PROVE  /\ c.call = "open" => c.path \in Paths /\ c.typed \in BOOLEAN /\ c.leave \in Decisions
         /\ c.call = "modified" => c.value \in BOOLEAN
         /\ c.call = "destroy" => c.leave \in Decisions
         /\ c.call = "trip" => c.doc \in Docs /\ c = TripCall(c.doc)
         /\ c.call = "write" => c.write \in Writes /\ c = WriteCall(c.write)
  BY DEF Calls, TripCall, WriteCall

\* A trip is what its state says.
LEMMA TripShapes ==
  ASSUME NEW t \in Trips
  PROVE  /\ t.at = "rewriting" => t \in Rewriting
         /\ t.at = "answered" => t \in TripsAnswered
         /\ t.at \in {"none", "asked", "started", "rewriting", "answered"}
         /\ t.at = "none" <=> t = NoTrip
  BY DEF Trips, Quiet, Rewriting, TripsAnswered, NoTrip

\* The calls that go on with leaving.
LeaveCalls ==
    [call : {"open"}, path : Paths, typed : BOOLEAN, leave : Decisions]
        \cup [call : {"destroy"}, leave : Decisions]

LEMMA LeaveCallShapes ==
  ASSUME NEW c \in LeaveCalls
  PROVE  c \in Calls /\ c.call \in {"open", "destroy"} /\ c.leave \in Decisions
  BY DEF LeaveCalls, Calls

\* Going on with leaving sends one call at most, which carries the decision.
LEMMA Going ==
  ASSUME NEW leaving \in Targets, NEW typed \in BOOLEAN, NEW leave \in Decisions
  PROVE  \/ GoOn(leaving, typed, leave) = <<>>
         \/ \E c \in LeaveCalls : c.leave = leave /\ GoOn(leaving, typed, leave) = <<c>>
<1>1. CASE leaving = Nothing BY <1>1 DEF GoOn, Nothing
<1>2. CASE leaving = Close
  <2>1. GoOn(leaving, typed, leave) = <<DestroyCall(leave)>> BY <1>2 DEF GoOn, Close
  <2>2. DestroyCall(leave) \in LeaveCalls /\ DestroyCall(leave).leave = leave
    BY DEF DestroyCall, LeaveCalls
  <2> QED BY <2>1, <2>2
<1>3. ASSUME NEW path \in Paths, leaving = Open(path)
      PROVE  \E c \in LeaveCalls : c.leave = leave /\ GoOn(leaving, typed, leave) = <<c>>
  <2>1. GoOn(leaving, typed, leave) = <<OpenCall(path, typed, leave)>> BY <1>3 DEF GoOn, Open
  <2>2. OpenCall(path, typed, leave) \in LeaveCalls /\ OpenCall(path, typed, leave).leave = leave
    BY DEF OpenCall, LeaveCalls
  <2> QED BY <2>1, <2>2
<1> QED BY <1>1, <1>2, <1>3 DEF Targets, Leavings

\* A decision taken now is about the document on screen as it stands.
LEMMA DecidedNow ==
  ASSUME TypeInv, NEW why \in Reasons
  PROVE  /\ Decided(why) \in Decisions
         /\ why \in Excused \/ ~UnsavedOn(history, shown) => Good(Decided(why))
<1>1. shown \in 0..MaxRequests /\ MaxRequests \in Nat BY EditAssumption DEF TypeInv
<1>2. shown # NoDoc => shown \in Docs BY <1>1 DEF NoDoc, Docs
<1>3. EditsOf(shown) \in Nat BY <1>2 DEF TypeInv, EditsOf
<1>4. ReferenceOf(shown) \in Points
  BY <1>2, OpenedIs DEF TypeInv, ReferenceOf, Histories
<1>5. Decided(why) \in Decisions BY <1>1, <1>3, <1>4 DEF Decided, Decisions
<1>6. ASSUME shown # NoDoc, ~Unsaved(history[shown])
      PROVE  ~Unsaved(Saved(history[shown], ReferenceOf(shown)))
  <2>1. history[shown] \in Histories BY <1>2, <1>6 DEF TypeInv
  <2>2. Saved(history[shown], ReferenceOf(shown)) = history[shown]
    BY <1>6, <2>1 DEF Saved, ReferenceOf, Histories
  <2> QED BY <1>6, <2>2
<1>7. ASSUME why \in Excused \/ ~UnsavedOn(history, shown) PROVE Good(Decided(why))
  <2>1. /\ Decided(why).doc = shown /\ Decided(why).edits = EditsOf(shown)
        /\ Decided(why).why = why /\ Decided(why).reference = ReferenceOf(shown)
    BY DEF Decided
  <2>2. shown # NoDoc => EditsOf(shown) = edits[shown] BY DEF EditsOf
  <2>3. shown # NoDoc => edits[shown] \in Nat BY <1>2 DEF TypeInv
  <2> QED BY <1>1, <1>6, <1>7, <2>1, <2>2, <2>3 DEF Good, UnsavedOn
<1> QED BY <1>5, <1>7

-----------------------------------------------------------------------------
(* The steps, by what they may change.                                     *)

Calm == UNCHANGED <<shown, history, edits, reported, trip, opened, session, unsaved, left>>

\* Leaving goes on, or not.
GoesOnStep ==
    /\ Calm
    /\ write' = write
    /\ password' \in Paths \cup {NoPath}
    /\ question' \in Targets
    /\ \/ inbox' = inbox
       \/ \E c \in LeaveCalls : Good(c.leave) /\ inbox' = inbox \o <<c>>

\* A write is asked for, waits, is given up, or is sent.
WriteStep ==
    \E k \in Writes :
      /\ Calm
      /\ password' = password
      /\ question' \in Targets
      /\ \/ /\ write[k].at \in {"none", "picking"}
            /\ inbox' = inbox
            /\ \E w \in Asking \cup GivenUp : w.doc <= shown /\ write' = [write EXCEPT ![k] = w]
         \/ /\ write[k].at = "picking"
            /\ ~Busy(history[write[k].doc])
            /\ inbox' = inbox \o <<WriteCall(k)>>
            /\ write' = [write EXCEPT ![k] = Sent(write[k], history[write[k].doc])]

\* An edit is done, or a round trip is asked for it.
EditStep ==
    \E h \in Histories :
      LET told == inbox \o Report(UnsavedOn(history', shown))
      IN  /\ UNCHANGED <<shown, password, question, write, opened, session, unsaved, left>>
          /\ shown \in Docs
          /\ edits' = [edits EXCEPT ![shown] = @ + 1]
          /\ history' = [history EXCEPT ![shown] = h]
          /\ Standing(h)
          /\ h.pages = history[shown].pages
          /\ h.reference = history[shown].reference
          /\ reported' = UnsavedOn(history', shown)
          /\ \/ /\ ~Busy(history[shown]) /\ ~Busy(h)
                /\ trip' = trip
                /\ inbox' = told
             \/ /\ Busy(history[shown]) /\ Busy(h) /\ Head(h.queue) = Head(history[shown].queue)
                /\ trip' = trip
                /\ inbox' = told
             \/ /\ ~Busy(history[shown]) /\ Busy(h)
                /\ trip' = [trip EXCEPT ![shown] = [at |-> "asked"]]
                /\ inbox' = told \o <<TripCall(shown)>>

\* Calls sent one at most, from an inbox of calls.
LEMMA SentCalls ==
  ASSUME TypeInv, NEW leaving \in Targets, NEW typed \in BOOLEAN, NEW leave \in Decisions,
         Good(leave), inbox' = inbox \o GoOn(leaving, typed, leave)
  PROVE  inbox' = inbox \/ \E c \in LeaveCalls : Good(c.leave) /\ inbox' = inbox \o <<c>>
<1>1. inbox \in Seq(Calls) BY DEF TypeInv
<1>2. inbox \o <<>> = inbox BY <1>1, ConcatEmptySeq
<1> QED BY <1>2, Going

\* A request to leave goes on, or is asked about (main.ts, requestOpen and
\* closeRequested).
LEMMA LeaveGoesOn ==
  ASSUME TypeInv, NEW leaving \in Leavings, NEW typed \in BOOLEAN, Leave(leaving, typed)
  PROVE  /\ UNCHANGED <<shown, history, edits, reported, trip, opened>>
         /\ question' \in Targets
         /\ \/ inbox' = inbox
            \/ \E c \in LeaveCalls : Good(c.leave) /\ inbox' = inbox \o <<c>>
<1>1. leaving \in Targets BY DEF Targets
<1>2. inbox \in Seq(Calls) /\ question \in Targets BY DEF TypeInv
<1>3. inbox \o <<>> = inbox BY <1>2, ConcatEmptySeq
<1>4. CASE /\ MayLeave(leaving)
           /\ question' = question
           /\ Sends(GoOn(leaving, typed, Decided(WhyLeave(leaving))))
  <2>1. WhyLeave(leaving) \in Reasons BY DEF WhyLeave, Reasons
  <2>2. WhyLeave(leaving) \in Excused \/ ~UnsavedOn(history, shown)
    <3>1. CASE UnsavedOn(history, shown)
      <4>1. leaving.to = "open" /\ leaving.path = password BY <1>4, <3>1 DEF MayLeave
      <4>2. leaving = Open(password) BY <4>1 DEF Leavings, Open, Close
      <4> QED BY <3>1, <4>2 DEF WhyLeave, Excused
    <3>2. CASE ~UnsavedOn(history, shown) BY <3>2
    <3> QED BY <3>1, <3>2
  <2>3. Decided(WhyLeave(leaving)) \in Decisions /\ Good(Decided(WhyLeave(leaving)))
    BY <2>1, <2>2, DecidedNow
  <2>4. inbox' = inbox \o GoOn(leaving, typed, Decided(WhyLeave(leaving))) BY <1>4 DEF Sends
  <2>5. inbox' = inbox \/ \E c \in LeaveCalls : Good(c.leave) /\ inbox' = inbox \o <<c>>
    BY <1>1, <2>3, <2>4, SentCalls
  <2> QED BY <1>2, <1>4, <2>5 DEF Sends
<1>5. CASE ~MayLeave(leaving) /\ question' = leaving /\ Sends(<<>>)
  BY <1>1, <1>3, <1>5 DEF Sends
<1> QED BY <1>4, <1>5 DEF Leave

\* The requests to leave, and the answers to the question.
LEMMA LeavingSteps ==
  ASSUME TypeInv,
         \/ \E path \in Paths : RequestOpen(path)
         \/ TypePassword \/ ClosePassword \/ CloseRequested \/ AnswerCancel \/ AnswerDiscard
  PROVE  GoesOnStep
<1>1. /\ inbox \in Seq(Calls) /\ question \in Targets /\ password \in Paths \cup {NoPath}
      /\ NoPath \notin Paths
  BY EditAssumption DEF TypeInv
<1>2. inbox \o <<>> = inbox BY <1>1, ConcatEmptySeq
<1>3. Nothing \in Targets /\ Close \in Leavings /\ \A path \in Paths : Open(path) \in Leavings
  BY DEF Targets, Leavings
<1>4. ASSUME NEW path \in Paths, NEW typed \in BOOLEAN, Requested(path, typed) PROVE GoesOnStep
  <2>1. Leave(Open(path), typed) BY <1>4 DEF Requested
  <2>2. UNCHANGED <<session, unsaved, left, password, write>>
    BY <1>4 DEF Requested, UserActs, UIAction
  <2> QED BY <1>1, <1>3, <2>1, <2>2, LeaveGoesOn DEF GoesOnStep, Calm
<1>5. ASSUME NEW path \in Paths, RequestOpen(path) PROVE GoesOnStep
  BY <1>4, <1>5 DEF RequestOpen
<1>6. CASE TypePassword BY <1>1, <1>4, <1>6 DEF TypePassword
<1>7. CASE ClosePassword
  BY <1>1, <1>2, <1>7 DEF ClosePassword, UserActs, UIAction, Sends, GoesOnStep, Calm
<1>8. CASE CloseRequested
  <2>1. Leave(Close, FALSE) BY <1>8 DEF CloseRequested
  <2>2. UNCHANGED <<session, unsaved, left, password, write>>
    BY <1>8 DEF CloseRequested, UIAction
  <2> QED BY <1>1, <1>3, <2>1, <2>2, LeaveGoesOn DEF GoesOnStep, Calm
<1>9. CASE AnswerCancel
  BY <1>1, <1>2, <1>3, <1>9 DEF AnswerCancel, UserActs, UIAction, Sends, GoesOnStep, Calm
<1>10. CASE AnswerDiscard
  <2>1. Decided("discard") \in Decisions /\ Good(Decided("discard"))
    BY DecidedNow DEF Reasons, Excused
  <2>2. inbox' = inbox \o GoOn(question, FALSE, Decided("discard"))
    BY <1>10 DEF AnswerDiscard, Sends
  <2>3. inbox' = inbox \/ \E c \in LeaveCalls : Good(c.leave) /\ inbox' = inbox \o <<c>>
    BY <1>1, <2>1, <2>2, SentCalls
  <2>4. Calm /\ write' = write /\ password' = password /\ question' = Nothing
    BY <1>10 DEF AnswerDiscard, UserActs, UIAction, Sends, Calm
  <2> QED BY <1>1, <1>3, <2>3, <2>4 DEF GoesOnStep
<1> QED BY <1>5, <1>6, <1>7, <1>8, <1>9, <1>10

\* What is asked for writes (main.ts, save and extractSelection).
LEMMA WritingSteps ==
  ASSUME TypeInv, Numbered, NEW k \in Writes,
         \/ Save(k) \/ AnswerSave(k) \/ PickFile(k)
         \/ \E P \in SUBSET Positions : Extract(k, P)
  PROVE  WriteStep
<1>1. /\ inbox \in Seq(Calls) /\ question \in Targets /\ write[k] \in Writings
      /\ shown \in 0..MaxRequests /\ MaxRequests \in Nat /\ MaxPages \in Nat
  BY EditAssumption DEF TypeInv
<1>2. inbox \o <<>> = inbox BY <1>1, ConcatEmptySeq
<1>3. Nothing \in Targets BY DEF Targets
<1>4. ASSUME NEW what \in Whats, NEW P \in SUBSET Positions, NEW leaving \in Targets,
             Picking(k, what, P, leaving), UIAction, question' \in Targets
      PROVE  WriteStep
  <2> DEFINE w == [at |-> "picking", what |-> what, doc |-> shown, positions |-> P,
                   leaving |-> leaving, meant |-> At(history[shown].order, P)]
  <2>1. shown \in Docs BY <1>1, <1>4 DEF Picking, NoDoc, Docs
  <2>2. history[shown] \in Histories BY <2>1 DEF TypeInv
  <2>3. At(history[shown].order, P) \in Seq(Nat) BY <2>2, PickedPages DEF Histories
  <2>4. P \in SUBSET Nat BY <1>1 DEF Positions
  <2>5. w \in Asking BY <2>1, <2>3, <2>4 DEF Asking
  <2>6. write[k].at = "none" BY <1>4 DEF Picking, NextWrite, NoWrite
  <2>7. /\ Calm /\ password' = password /\ inbox' = inbox /\ write' = [write EXCEPT ![k] = w]
    BY <1>2, <1>4 DEF Picking, Sends, UIAction, Calm
  <2>8. w.doc <= shown BY <1>1
  <2> HIDE DEF w
  <2> QED BY <1>4, <2>5, <2>6, <2>7, <2>8 DEF WriteStep
<1>5. {} \in SUBSET Positions /\ "save" \in Whats /\ "extract" \in Whats BY DEF Whats
<1>6. CASE Save(k) BY <1>1, <1>3, <1>4, <1>5, <1>6 DEF Save, UserActs
<1>7. CASE AnswerSave(k) BY <1>1, <1>3, <1>4, <1>5, <1>7 DEF AnswerSave, UserActs
<1>8. ASSUME NEW P \in SUBSET Positions, Extract(k, P) PROVE WriteStep
  BY <1>1, <1>3, <1>4, <1>5, <1>8 DEF Extract, UserActs
<1>9. CASE PickFile(k)
  <2>1. /\ write[k].at = "picking" /\ write[k] \in Asking
        /\ write[k].doc \in Docs /\ write[k].what \in Whats /\ write[k].doc <= shown
    BY <1>1, <1>9, WriteShapes DEF PickFile, Numbered
  <2>2. password' = password /\ question' = question BY <1>9 DEF PickFile
  <2>3. ASSUME write' = [write EXCEPT ![k] = Over(write[k])], Sends(<<>>) PROVE WriteStep
    <3>1. Over(write[k]) \in GivenUp /\ Over(write[k]).doc = write[k].doc
      BY <2>1 DEF Over, GivenUp
    <3>2. Calm /\ inbox' = inbox BY <1>2, <1>9, <2>3 DEF PickFile, UIAction, Sends, Calm
    <3> QED BY <1>1, <2>1, <2>2, <2>3, <3>1, <3>2 DEF WriteStep
  <2>4. ASSUME write' = [write EXCEPT ![k] = [write[k] EXCEPT !.at = "waiting"]], Sends(<<>>)
        PROVE  WriteStep
    <3>1. /\ [write[k] EXCEPT !.at = "waiting"] \in Asking
          /\ [write[k] EXCEPT !.at = "waiting"].doc = write[k].doc
      BY <2>1 DEF Asking
    <3>2. Calm /\ inbox' = inbox BY <1>2, <1>9, <2>4 DEF PickFile, UIAction, Sends, Calm
    <3> QED BY <1>1, <2>1, <2>2, <2>4, <3>1, <3>2 DEF WriteStep
  <2>5. ASSUME ~Waits(history[write[k].doc]), Sends(<<WriteCall(k)>>),
               write' = [write EXCEPT ![k] = Sent(write[k], history[write[k].doc])]
        PROVE  WriteStep
    <3>1. Calm /\ inbox' = inbox \o <<WriteCall(k)>>
      BY <1>9, <2>5 DEF PickFile, UIAction, Sends, Calm
    <3>2. ~Busy(history[write[k].doc]) BY <2>5 DEF Waits
    <3> QED BY <1>1, <2>1, <2>2, <2>5, <3>1, <3>2 DEF WriteStep
  <2> QED BY <1>9, <2>3, <2>4, <2>5 DEF PickFile
<1> QED BY <1>6, <1>7, <1>8, <1>9
\* What the Rust side is told, after what waits (main.ts, refreshButtons).
LEMMA Told ==
  ASSUME TypeInv, NEW now \in BOOLEAN
  PROVE  LET told == inbox \o Report(now)
         IN  /\ told \in Seq(Calls)
             /\ ToSet(inbox) \subseteq ToSet(told)
             /\ \A c \in ToSet(told) : c \in ToSet(inbox) \/ c.call = "modified"
             /\ NoneTwice(inbox) => NoneTwice(told)
             /\ Says(inbox, reported) => Says(told, now)
             /\ Silent(told) => Silent(inbox) /\ now = reported
<1> DEFINE told == inbox \o Report(now)
           c == ReportCall(now)
<1>1. inbox \in Seq(Calls) /\ reported \in BOOLEAN BY DEF TypeInv
<1>2. c \in Calls /\ c.call = "modified" /\ c.value = now BY DEF ReportCall, Calls
<1>3. CASE now = reported
  <2>1. told = inbox BY <1>1, <1>3, ConcatEmptySeq DEF Report
  <2> QED BY <1>1, <1>3, <2>1
<1>4. CASE now # reported
  <2> HIDE DEF c
  <2>1. told = inbox \o <<c>> BY <1>4 DEF Report, c
  <2>2. told \in Seq(Calls) /\ ToSet(told) = ToSet(inbox) \cup {c} BY <1>1, <1>2, <2>1, OneMore
  <2>3. Says(told, now) /\ ~Silent(told) BY <1>1, <1>2, <2>1, LastWord
  <2>4. ASSUME NoneTwice(inbox) PROVE NoneTwice(told)
    <3>1. <<c>> \in Seq(Calls) /\ ToSet(<<c>>) = {c} BY <1>2 DEF ToSet
    <3>2. NoneTwice(<<c>>) BY <1>2 DEF NoneTwice, HandedOver
    <3>3. c.call \notin HandedOver BY <1>2 DEF HandedOver
    <3> QED BY <1>1, <2>1, <2>4, <3>1, <3>2, <3>3, NoneTwiceJoined
  <2> QED BY <1>2, <2>2, <2>3, <2>4
<1> QED BY <1>3, <1>4

\* Whether there is something to lose.
LEMMA UnsavedIsBoolean == ASSUME NEW h, NEW d PROVE UnsavedOn(h, d) \in BOOLEAN
  BY DEF UnsavedOn, Unsaved, Busy, Modified

\* The orders stand as each history does.
LEMMA StandingIs == OrdersStand <=> \A d \in Docs : Standing(history[d])
<1>1. ASSUME NEW d \in Docs, OrdersStand PROVE Standing(history[d])
  <2> DEFINE h == history[d]
             ordered == {edit \in ToSet(h.past) \cup ToSet(h.future) : edit.kind = "order"}
             orders == {h.order, h.reference.order}
                           \cup {edit.before : edit \in ordered} \cup {edit.after : edit \in ordered}
  <2>1. \A order \in orders : Stands(order, h.pages) BY <1>1 DEF OrdersStand, Stands
  <2>2. ASSUME NEW edit \in ToSet(h.past) \cup ToSet(h.future), NEW order \in OrdersOf(edit)
        PROVE  order \in orders
    BY DEF OrdersOf
  <2>3. h.order \in orders /\ h.reference.order \in orders OBVIOUS
  <2> HIDE DEF orders
  <2> QED BY <2>1, <2>2, <2>3 DEF Standing
<1>2. ASSUME \A d \in Docs : Standing(history[d]) PROVE OrdersStand
  <2> SUFFICES ASSUME NEW d \in Docs,
                      NEW order \in {history[d].order, history[d].reference.order}
                          \cup {edit.before : edit \in {edit \in ToSet(history[d].past) \cup ToSet(history[d].future) : edit.kind = "order"}}
                          \cup {edit.after : edit \in {edit \in ToSet(history[d].past) \cup ToSet(history[d].future) : edit.kind = "order"}}
               PROVE  Stands(order, history[d].pages)
    BY DEF OrdersStand, Stands
  <2>1. Standing(history[d]) BY <1>2
  <2>2. CASE order \in {history[d].order, history[d].reference.order}
    BY <2>1, <2>2 DEF Standing
  <2>3. CASE order \notin {history[d].order, history[d].reference.order}
    <3>1. PICK edit \in ToSet(history[d].past) \cup ToSet(history[d].future) :
             edit.kind = "order" /\ (order = edit.before \/ order = edit.after)
      BY <2>3
    <3>2. order \in OrdersOf(edit) BY <3>1 DEF OrdersOf
    <3> QED BY <2>1, <3>2 DEF Standing
  <2> QED BY <2>2, <2>3
<1> QED BY <1>1, <1>2

\* And so they do after a step.
LEMMA StandingIsNext == OrdersStand' <=> \A d \in Docs : Standing(history'[d])
<1>1. (OrdersStand <=> \A d \in Docs : Standing(history[d]))' BY StandingIs, PTL
<1> QED BY <1>1

\* A round trip is asked for (history.ts, enqueue).
LEMMA AskingSteps ==
  ASSUME TypeInv, OrdersStand, EditAction, NEW task \in Turnings \cup Mergings, Asks(task)
  PROVE  EditStep
<1> DEFINE h == Enqueued(history[shown], task)
<1>1. shown \in Docs
  BY EditAssumption DEF EditAction, TypeInv, NoDoc, Docs
<1>2. history[shown] \in Histories /\ Standing(history[shown])
  BY <1>1, StandingIs DEF TypeInv
<1>3. /\ h \in Histories /\ Standing(h) /\ h.pages = history[shown].pages
      /\ h.reference = history[shown].reference /\ Busy(h)
      /\ Busy(history[shown]) => Head(h.queue) = Head(history[shown].queue)
  BY <1>2, HistoryEnqueued
<1>4. /\ UNCHANGED <<shown, password, question, write, opened, session, unsaved, left>>
      /\ edits' = [edits EXCEPT ![shown] = @ + 1]
  BY <1>3 DEF EditAction, UserActs, UIAction, Asks, Handled
<1>5. history' = [history EXCEPT ![shown] = h] BY DEF Asks, Handled
<1> DEFINE told == inbox \o Report(UnsavedOn(history', shown))
           calls == IF ~Busy(history[shown]) THEN <<TripCall(shown)>> ELSE <<>>
<1>6. reported' = UnsavedOn(history', shown) /\ inbox' = told \o calls
  BY DEF Asks, Handled
<1>7. trip' = IF ~Busy(history[shown]) THEN [trip EXCEPT ![shown] = [at |-> "asked"]] ELSE trip
  BY DEF Asks
<1>8. told \in Seq(Calls)
  BY UnsavedIsBoolean, Told
<1>9. told \o <<>> = told BY <1>8, ConcatEmptySeq
<1> HIDE DEF h, told
<1> QED BY <1>1, <1>3, <1>4, <1>5, <1>6, <1>7, <1>9 DEF EditStep, told

\* An edit is done here (history.ts, record).
LEMMA BecomingSteps ==
  ASSUME TypeInv, OrdersStand, EditAction, ~Busy(history[shown]), NEW h \in Histories,
         Standing(h), h.pages = history[shown].pages,
         h.reference = history[shown].reference, h.queue = history[shown].queue, Becomes(h)
  PROVE  EditStep
<1>1. shown \in Docs
  BY EditAssumption DEF EditAction, TypeInv, NoDoc, Docs
<1>2. /\ UNCHANGED <<shown, password, question, write, opened, session, unsaved, left>>
      /\ edits' = [edits EXCEPT ![shown] = @ + 1]
  BY DEF EditAction, UserActs, UIAction, Becomes, Handled
<1>3. history' = [history EXCEPT ![shown] = h] /\ trip' = trip BY DEF Becomes, Handled
<1> DEFINE told == inbox \o Report(UnsavedOn(history', shown))
<1>4. reported' = UnsavedOn(history', shown) /\ inbox' = told \o <<>>
  BY DEF Becomes, Handled
<1>5. told \in Seq(Calls) BY UnsavedIsBoolean, Told
<1>6. told \o <<>> = told BY <1>5, ConcatEmptySeq
<1>7. ~Busy(h) BY DEF Busy
<1> HIDE DEF told
<1> QED BY <1>1, <1>2, <1>3, <1>4, <1>6, <1>7 DEF EditStep, told

\* The edits asked for (history.ts, reorder, remove, rotate, undo and redo;
\* main.ts, merge).
LEMMA EditingSteps ==
  ASSUME TypeInv, OrdersStand, shown # NoDoc,
         \/ \E P \in SUBSET DOMAIN history[shown].order :
              \/ Delete(P)
              \/ \E turns \in Turns : TurnPages(P, turns)
              \/ \E target \in 0..Len(history[shown].order) : Move(P, target)
         \/ \E at \in 0..Len(history[shown].order) : Merge(at)
         \/ Undo \/ Redo
  PROVE  EditStep
<1> DEFINE h == history[shown]
<1>1. shown \in Docs BY EditAssumption DEF TypeInv, NoDoc, Docs
<1>2. h \in Histories /\ Standing(h) BY <1>1, StandingIs DEF TypeInv
<1>3. /\ h.order \in Seq(Nat) /\ h.pages \in Seq(Nat) /\ Stands(h.order, h.pages)
      /\ h.past \in Seq(Edits) /\ h.future \in Seq(Edits)
      /\ Len(h.order) \in Nat /\ DOMAIN h.order = 1..Len(h.order)
      /\ \A p \in DOMAIN h.order : h.order[p] \in Nat
  BY <1>2, LenProperties, ElementOfSeq DEF Histories, Standing
<1>4. ASSUME EditAction, ~Busy(h), NEW next \in Seq(Nat), Stands(next, h.pages),
             Becomes(Reordered(h, next))
      PROVE  EditStep
  BY <1>2, <1>4, HistoryReordered, BecomingSteps
<1>5. ASSUME NEW P \in SUBSET DOMAIN h.order, Delete(P) PROVE EditStep
  <2>1. /\ EditAction /\ Without(h.order, P) # <<>> /\ ~Busy(h)
        /\ Becomes(Reordered(h, Without(h.order, P)))
    BY <1>5 DEF Delete, MayRemove, MayReorder
  <2>2. Without(h.order, P) \in Seq(Nat) /\ Stands(Without(h.order, P), h.pages)
    BY <1>3, <2>1, RemovalStands
  <2> QED BY <1>4, <2>1, <2>2
<1>6. ASSUME NEW P \in SUBSET DOMAIN h.order, NEW target \in 0..Len(h.order), Move(P, target)
      PROVE  EditStep
  <2> DEFINE before == {p \in P : p <= target}
             at == target - Cardinality(before)
             next == MovedTo(h.order, P, at)
  <2>1. EditAction /\ ~Busy(h) /\ Becomes(Reordered(h, next))
    BY <1>6 DEF Move, MayReorder
  <2>2. at \in Nat
    <3>1. target \in Nat BY <1>3
    <3>2. before \subseteq 1..target BY <1>3, <3>1
    <3>3. IsFiniteSet(1..target) /\ Cardinality(1..target) = target BY <3>1, FS_Interval
    <3>4. Cardinality(before) \in Nat /\ Cardinality(before) <= target
      BY <3>2, <3>3, FS_Subset, FS_CardinalityType
    <3> HIDE DEF before
    <3> QED BY <3>1, <3>4
  <2> HIDE DEF at
  <2>3. next \in Seq(Nat) /\ Stands(next, h.pages) BY <1>3, <2>2, MoveStands
  <2> HIDE DEF next
  <2> QED BY <1>4, <2>1, <2>3
<1>7. ASSUME NEW P \in SUBSET DOMAIN h.order, NEW turns \in Turns, TurnPages(P, turns)
      PROVE  EditStep
  <2> DEFINE task == Task("rotate", RotationEdit({h.order[p] : p \in P}, turns), 0)
  <2>1. EditAction /\ Asks(task) BY <1>7 DEF TurnPages
  <2>2. {h.order[p] : p \in P} \in SUBSET Nat BY <1>3
  <2>3. turns \in {1, 3} BY EditAssumption
  <2>4. task \in Turnings BY <2>2, <2>3 DEF Task, RotationEdit, Turnings, RotationEdits
  <2> HIDE DEF task
  <2> QED BY <2>1, <2>4, AskingSteps
<1>8. ASSUME NEW at \in 0..Len(h.order), Merge(at) PROVE EditStep
  <2> DEFINE task == Task("merge", Nothing, at)
  <2>1. EditAction /\ Asks(task) BY <1>8 DEF Merge
  <2>2. at \in Nat BY <1>3
  <2>3. task \in Mergings BY <2>2 DEF Task, Mergings
  <2> HIDE DEF task
  <2> QED BY <2>1, <2>3, AskingSteps
<1>9. CASE Undo
  <2>1. EditAction /\ ~Busy(h) /\ h.past # <<>> BY <1>9 DEF Undo, CanUndo
  <2>2. Last(h.past) \in Edits BY <1>3, <2>1, BeforeLast
  <2>3. CASE Last(h.past).kind = "order" /\ Becomes(UndoneOrder(h))
    BY <1>2, <2>1, <2>3, HistoryUndone, BecomingSteps
  <2>4. CASE Last(h.past).kind = "rotation" /\ Asks(Task("undo", Last(h.past), 0))
    <3>1. Task("undo", Last(h.past), 0) \in Turnings
      BY <2>2, <2>4 DEF Edits, OrderEdits, Task, Turnings
    <3> QED BY <2>1, <2>4, <3>1, AskingSteps
  <2> QED BY <1>9, <2>3, <2>4 DEF Undo
<1>10. CASE Redo
  <2>1. EditAction /\ ~Busy(h) /\ h.future # <<>> BY <1>10 DEF Redo, CanRedo
  <2>2. Last(h.future) \in Edits BY <1>3, <2>1, BeforeLast
  <2>3. CASE Last(h.future).kind = "order" /\ Becomes(RedoneOrder(h))
    BY <1>2, <2>1, <2>3, HistoryRedone, BecomingSteps
  <2>4. CASE Last(h.future).kind = "rotation" /\ Asks(Task("redo", Last(h.future), 0))
    <3>1. Task("redo", Last(h.future), 0) \in Turnings
      BY <2>2, <2>4 DEF Edits, OrderEdits, Task, Turnings
    <3> QED BY <2>1, <2>4, <3>1, AskingSteps
  <2> QED BY <1>10, <2>3, <2>4 DEF Redo
<1> QED BY <1>5, <1>6, <1>7, <1>8, <1>9, <1>10

-----------------------------------------------------------------------------
(* The inductive invariant, and what it is at the start.                   *)

Inv == TypeInv /\ DocumentInv /\ Heard /\ Decisive /\ SavedInv

LEMMA InitInv == Init => Inv
<1> SUFFICES ASSUME Init PROVE Inv
  OBVIOUS
<1>1. /\ MaxRequests \in Nat /\ Pages \in Nat \ {0} /\ NoPath \notin Paths
      /\ \A d \in Docs : d \in Nat /\ d > NoDoc
  BY EditAssumption DEF Docs, NoDoc
<1>2. /\ \A d \in Docs : history[d] = Opened(Pages) /\ trip[d] = NoTrip /\ edits[d] = 0
      /\ \A k \in Writes : write[k] = NoWrite
      /\ shown = NoDoc /\ inbox = <<>> /\ opened = <<>> /\ session.doc = NoDoc
      /\ reported = FALSE /\ unsaved = FALSE /\ left.lost = FALSE
  BY DEF Init
<1>3. ToSet(inbox) = {} /\ ToSet(opened) = {} /\ DOMAIN inbox = {} /\ DOMAIN opened = {}
  BY <1>2 DEF ToSet
<1>4. TypeInv
  <2>1. history \in [Docs -> Histories] BY OpenedIs DEF Init
  <2>2. /\ write \in [Writes -> Writings] /\ trip \in [Docs -> Trips] /\ edits \in [Docs -> Nat]
    BY DEF Init, NoWrite, NoTrip, Writings, Unused, Trips, Quiet
  <2>3. session \in Sessions BY <1>1 DEF Init, Sessions, NoDoc
  <2>4. question \in Targets BY DEF Init, Targets
  <2>5. inbox \in Seq(Calls) /\ opened \in Seq(AnswersToOpen) BY DEF Init
  <2>6. shown \in 0..MaxRequests BY <1>1, <1>2 DEF NoDoc
  <2>7. password \in Paths \cup {NoPath} BY DEF Init
  <2>8. reported \in BOOLEAN /\ unsaved \in BOOLEAN BY <1>2
  <2> QED BY <2>7, <2>8, <2>1, <2>2, <2>3, <2>4, <2>5, <2>6 DEF TypeInv
<1>5. Numbered BY <1>1, <1>2, <1>3 DEF Numbered, NoWrite, NoDoc
<1>6. Matched BY <1>2, <1>3, OpenedIs DEF Matched, NoneTwice, NoTrip, Unsaved
<1>7. Rewrites BY <1>2 DEF Rewrites, NoTrip
<1>8. PagesAgree BY <1>2 DEF PagesAgree
<1>9. OrdersStand BY <1>2, OpenedIs, StandingIs
<1>10. PointsStand BY <1>2 DEF PointsStand, NoWrite
<1>11. Heard BY <1>2, <1>3 DEF Heard, UnsavedOn, Says
<1>12. Decisive
  <2>1. LostOnlyAfterDeciding BY <1>2 DEF LostOnlyAfterDeciding
  <2>2. \A k \in Writes : write[k].at = "none" BY <1>2 DEF NoWrite
  <2> QED BY <1>3, <2>1, <2>2 DEF Decisive
<1>13. Versioned /\ WrittenAsMeant BY <1>2 DEF Versioned, WrittenAsMeant, NoWrite
<1>14. SavedWasWritten BY <1>2 DEF SavedWasWritten, FileWritten, NoWrite
<1> QED
  BY <1>4, <1>5, <1>6, <1>7, <1>8, <1>9, <1>10, <1>11, <1>12, <1>13, <1>14
  DEF Inv, DocumentInv, SavedInv

-----------------------------------------------------------------------------
(* What waits, after a step.                                               *)

\* One call more, which is not a word and was not asked for yet.
LEMMA CallAdded ==
  ASSUME NEW s \in Seq(Calls), NEW c \in Calls, c.call # "modified",
         c.call \in HandedOver => c \notin ToSet(s)
  PROVE  /\ s \o <<c>> \in Seq(Calls)
         /\ ToSet(s \o <<c>>) = ToSet(s) \cup {c}
         /\ NoneTwice(s) => NoneTwice(s \o <<c>>)
         /\ \A value \in BOOLEAN : Says(s, value) => Says(s \o <<c>>, value)
         /\ Silent(s \o <<c>>) => Silent(s)
<1>1. /\ <<c>> \in Seq(Calls) /\ s \o <<c>> \in Seq(Calls)
      /\ ToSet(s \o <<c>>) = ToSet(s) \cup {c}
  BY OneMore
<1>2. ToSet(<<c>>) = {c} /\ Silent(<<c>>) /\ NoneTwice(<<c>>) BY DEF ToSet, Silent, NoneTwice
<1>3. ASSUME NoneTwice(s) PROVE NoneTwice(s \o <<c>>)
  BY <1>1, <1>2, <1>3, NoneTwiceJoined
<1>4. ASSUME NEW value \in BOOLEAN, Says(s, value) PROVE Says(s \o <<c>>, value)
  BY <1>1, <1>2, <1>4, SilentAfter
<1>5. Silent(s \o <<c>>) => Silent(s) BY <1>1 DEF Silent
<1> QED BY <1>1, <1>3, <1>4, <1>5

\* Nothing the properties are about is changed but what waits, and the writes.
LEMMA CalmKeeps ==
  ASSUME Calm
  PROVE  /\ OrdersStand => OrdersStand'
         /\ PagesAgree => PagesAgree'
         /\ Rewrites => Rewrites'
         /\ LostOnlyAfterDeciding => LostOnlyAfterDeciding'
         /\ \A leave \in Decisions : Good(leave) => Good(leave)'
<1>1. OrdersStand => OrdersStand' BY DEF Calm, OrdersStand
<1>2. PagesAgree => PagesAgree' BY DEF Calm, PagesAgree
<1>3. Rewrites => Rewrites' BY DEF Calm, Rewrites
<1>4. LostOnlyAfterDeciding => LostOnlyAfterDeciding' BY DEF Calm, LostOnlyAfterDeciding
<1>5. \A leave \in Decisions : Good(leave) => Good(leave)' BY DEF Calm, Good
<1> QED BY <1>1, <1>2, <1>3, <1>4, <1>5

-----------------------------------------------------------------------------
(* Leaving, and asking for writes.                                         *)

\* Going on with leaving keeps the invariant.
LEMMA GoesOnKeeps == Inv /\ GoesOnStep => Inv'
<1> SUFFICES ASSUME Inv, GoesOnStep PROVE Inv'
  OBVIOUS
<1>1. TypeInv /\ Numbered /\ Matched /\ PointsStand /\ Heard /\ Decisive /\ SavedInv
  BY DEF Inv, DocumentInv
<1>2. Calm /\ write' = write BY DEF GoesOnStep
<1>3. /\ inbox' \in Seq(Calls)
      /\ \A c \in ToSet(inbox') :
            c \in ToSet(inbox) \/ (c \in LeaveCalls /\ Good(c.leave))
      /\ NoneTwice(inbox')
      /\ Says(inbox', reported)
      /\ Silent(inbox') => Silent(inbox)
  <2>1. inbox \in Seq(Calls) /\ reported \in BOOLEAN /\ NoneTwice(inbox) /\ Says(inbox, reported)
    BY <1>1 DEF TypeInv, Matched, Heard
  <2>2. CASE inbox' = inbox BY <2>1, <2>2
  <2>3. ASSUME NEW c \in LeaveCalls, Good(c.leave), inbox' = inbox \o <<c>>
        PROVE  <1>3
    <3>1. c \in Calls /\ c.call # "modified" /\ c.call \notin HandedOver
      BY LeaveCallShapes DEF HandedOver
    <3> QED BY <2>1, <2>3, <3>1, CallAdded
  <2> QED BY <2>2, <2>3 DEF GoesOnStep
<1>4. TypeInv' BY <1>1, <1>2, <1>3 DEF TypeInv, GoesOnStep, Calm
<1>5. Numbered' BY <1>1, <1>2 DEF Numbered, Calm
<1>6. Matched'
  <2>1. \A c \in LeaveCalls : c.call # "trip" /\ c.call # "write" BY LeaveCallShapes
  <2> QED BY <1>1, <1>2, <1>3, <2>1 DEF Matched, Calm
<1>7. Rewrites' /\ PagesAgree' /\ OrdersStand' /\ LostOnlyAfterDeciding'
  BY <1>1, <1>2, CalmKeeps DEF Inv, DocumentInv, Decisive
<1>8. PointsStand' BY <1>1, <1>2 DEF PointsStand, Calm
<1>9. Heard' BY <1>1, <1>2, <1>3 DEF Heard, Calm, UnsavedOn
<1>10. Decisive' BY <1>1, <1>2, <1>3, <1>7 DEF Decisive, Calm, Good
<1>11. SavedInv'
  BY <1>1, <1>2 DEF SavedInv, Versioned, Version, WrittenAsMeant, SavedWasWritten, FileWritten, Calm
<1> QED
  BY <1>4, <1>5, <1>6, <1>7, <1>8, <1>9, <1>10, <1>11 DEF Inv, DocumentInv

\* A save point leaves nothing unsaved, once nothing runs.
LEMMA SavedIsSaved ==
  ASSUME NEW h \in Histories, ~Busy(h)
  PROVE  ToSave(h) \in Points /\ ~Unsaved(Saved(h, ToSave(h)))
<1>1. h.order \in Seq(Nat) /\ h.pages \in Seq(Nat) BY DEF Histories
<1>2. ToSave(h) \in Points BY <1>1 DEF ToSave, Points
<1>3. /\ Saved(h, ToSave(h)).queue = h.queue /\ Saved(h, ToSave(h)).order = h.order
      /\ Saved(h, ToSave(h)).pages = h.pages
      /\ Saved(h, ToSave(h)).reference.order = h.order
      /\ Saved(h, ToSave(h)).reference.pages = h.pages
  BY DEF Saved, ToSave, Histories
<1> QED BY <1>2, <1>3 DEF Unsaved, Busy, Modified

\* What a write asks for, of a document that stands (main.ts, save and
\* extractSelection).
LEMMA SentIs ==
  ASSUME TypeInv, NEW w \in Asking, NEW h \in Histories, ~Busy(h), Standing(h)
  PROVE  /\ Sent(w, h) \in UnderWay
         /\ Sent(w, h).at = "sent" /\ Sent(w, h).doc = w.doc /\ Sent(w, h).what = w.what
         /\ Sent(w, h).version = Version
         /\ Sent(w, h).point.pages = h.pages
         /\ w.what = "save" => Sent(w, h).point.order = h.order
         /\ Sent(w, h).leave \in Decisions
         /\ Sent(w, h).leave.doc = w.doc
         /\ Sent(w, h).leave.edits = edits[w.doc]
         /\ Sent(w, h).leave.reference = ToSave(h)
<1> DEFINE point == [ToSave(h) EXCEPT !.order = IF w.what = "save" THEN @ ELSE At(@, w.positions)]
           leave == [why |-> "saved", doc |-> w.doc, edits |-> edits[w.doc], reference |-> ToSave(h)]
<1>1. /\ w.what \in Whats /\ w.doc \in Docs /\ w.leaving \in Targets /\ w.meant \in Seq(Nat)
      /\ edits[w.doc] \in Nat
      /\ h.order \in Seq(Nat) /\ h.pages \in Seq(Nat)
      /\ session.doc \in 0..MaxRequests /\ session.version \in Nat
  BY DEF Asking, TypeInv, Histories, Sessions
<1>2. w.doc \in 0..MaxRequests BY <1>1 DEF Docs
<1>3. ToSave(h) \in Points BY SavedIsSaved
<1>4. leave \in Decisions BY <1>1, <1>2, <1>3 DEF Decisions, Reasons
<1>5. /\ point \in Points /\ point.pages = h.pages
      /\ w.what = "save" => point.order = h.order
  <2>1. At(h.order, w.positions) \in Seq(Nat) BY <1>1, PickedPages
  <2> QED BY <1>1, <2>1 DEF Points, ToSave
<1>6. Version \in [doc : 0..MaxRequests, version : Nat] BY <1>1 DEF Version
<1> HIDE DEF point
<1>7. Sent(w, h) = [at |-> "sent", what |-> w.what, doc |-> w.doc, leaving |-> w.leaving,
                    meant |-> w.meant, point |-> point, version |-> Version, leave |-> leave]
  BY DEF Sent, point
<1>8. Sent(w, h) \in UnderWay BY <1>1, <1>4, <1>5, <1>6, <1>7 DEF UnderWay
<1> QED BY <1>4, <1>5, <1>7, <1>8

\* A decision to leave once the file is written is good when it is taken.
LEMMA SentIsGood ==
  ASSUME TypeInv, NEW w \in Asking, NEW h \in Histories, ~Busy(h), Standing(h),
         w.doc <= shown, w.doc = shown => history[shown] = h
  PROVE  Good(Sent(w, h).leave)
<1>1. w.doc \in Docs BY DEF Asking
<1>2. edits[w.doc] \in Nat BY <1>1 DEF TypeInv
<1> QED BY <1>2, SentIs, SavedIsSaved DEF Good

\* What becomes of write k when it is asked for, given up or sent.
AskedFor(k) ==
    \/ write'[k] = write[k]
    \/ /\ write[k].at \in {"none", "picking", "waiting"}
       /\ write'[k] \in Asking \cup GivenUp
       /\ write'[k].doc <= shown
    \/ /\ write[k] \in Asking
       /\ ~Busy(history'[write[k].doc])
       /\ write'[k] = Sent(write[k], history'[write[k].doc])

\* Writes asked for, given up or sent, while the Rust side does nothing.
LEMMA WritesAsked ==
  ASSUME Inv, write' \in [Writes -> Writings], \A k \in Writes : AskedFor(k),
         UNCHANGED <<shown, edits, session>>,
         history' \in [Docs -> Histories],
         \A d \in Docs :
            /\ Standing(history'[d])
            /\ Len(history[d].pages) <= Len(history'[d].pages)
            /\ history'[d].reference = history[d].reference
            /\ session.doc = d /\ ~Busy(history'[d]) => session.pages = history'[d].pages,
         \A leave \in Decisions : Good(leave) => Good(leave)'
  PROVE  /\ \A k \in Writes : write'[k].at # "none" => write'[k].doc <= shown
         /\ PointsStand'
         /\ \A k \in Writes : write'[k].at \in {"sent", "started", "answered"} => Good(write[k].leave)'
         /\ SavedInv'
<1>1. TypeInv /\ Numbered /\ PointsStand /\ Decisive /\ SavedInv BY DEF Inv, DocumentInv
<1>2. \A k \in Writes : write[k] \in Writings BY <1>1 DEF TypeInv
<1>3. ASSUME NEW k \in Writes, write[k] \in Asking, ~Busy(history'[write[k].doc]),
             write'[k] = Sent(write[k], history'[write[k].doc])
      PROVE  /\ write[k].doc \in Docs /\ write[k].doc <= shown
             /\ write[k].at \in {"picking", "waiting"}
             /\ write'[k].at = "sent" /\ write'[k].doc = write[k].doc
             /\ write'[k].what = "save" =>
                   Stands(write'[k].point.order, history'[write[k].doc].pages)
             /\ write'[k].version = Version
             /\ session.doc = write[k].doc => write'[k].point.pages = session.pages
             /\ Good(write[k].leave)'
  <2> DEFINE w == write[k]
             h == history'[w.doc]
  <2>1. w.doc \in Docs /\ w.at \in {"picking", "waiting"} BY <1>3 DEF Asking
  <2>2. w.doc <= shown BY <1>1, <2>1 DEF Numbered
  <2>3. h \in Histories /\ Standing(h) /\ (session.doc = w.doc => session.pages = h.pages)
    BY <1>3, <2>1
  <2>4. /\ Sent(w, h).at = "sent" /\ Sent(w, h).doc = w.doc /\ Sent(w, h).what = w.what
        /\ Sent(w, h).version = Version /\ Sent(w, h).point.pages = h.pages
        /\ w.what = "save" => Sent(w, h).point.order = h.order
        /\ Sent(w, h).leave.doc = w.doc /\ Sent(w, h).leave.edits = edits[w.doc]
        /\ Sent(w, h).leave.reference = ToSave(h)
    BY <1>1, <1>3, <2>3, SentIs
  <2>5. ~Unsaved(Saved(h, ToSave(h))) BY <1>3, <2>3, SavedIsSaved
  <2>6. edits[w.doc] \in Nat BY <1>1, <2>1 DEF TypeInv
  <2>7. Good(write[k].leave)' BY <1>3, <2>2, <2>4, <2>5, <2>6 DEF Good
  <2> HIDE DEF w, h
  <2>8. Stands(h.order, h.pages) BY <2>3 DEF Standing
  <2> QED BY <1>3, <2>1, <2>2, <2>3, <2>4, <2>7, <2>8 DEF w, h
<1>4. ASSUME NEW k \in Writes, write'[k] \in Asking \cup GivenUp
      PROVE  /\ write'[k].at \in {"picking", "waiting", "over"}
             /\ write'[k].at = "over" => "file" \notin DOMAIN write'[k]
  BY <1>4 DEF Asking, GivenUp
<1>5. ASSUME NEW k \in Writes PROVE write'[k].at # "none" => write'[k].doc <= shown
  BY <1>1, <1>3 DEF Numbered, AskedFor
<1>6. ASSUME NEW k \in Writes, write'[k].at \in {"sent", "started", "answered"}, write'[k].what = "save"
      PROVE  Stands(write'[k].point.order, history'[write'[k].doc].pages)
  <2>1. CASE write'[k] = write[k]
    <3>1. Stands(write[k].point.order, history[write[k].doc].pages) BY <1>1, <1>6, <2>1 DEF PointsStand
    <3>2. write[k].doc \in Docs BY <1>2, <1>6, <2>1, WriteShapes
    <3>3. history[write[k].doc].pages \in Seq(Nat) /\ history'[write[k].doc].pages \in Seq(Nat)
      BY <1>1, <3>2 DEF TypeInv, Histories
    <3> QED BY <2>1, <3>1, <3>2, <3>3, StandsInMore
  <2> QED BY <1>3, <1>4, <1>6, <2>1 DEF AskedFor
<1>7. ASSUME NEW k \in Writes, write'[k].at \in {"sent", "started", "answered"}
      PROVE  Good(write[k].leave)'
  <2>1. CASE write'[k] = write[k]
    <3>1. Good(write[k].leave) BY <1>1, <1>7, <2>1 DEF Decisive
    <3>2. write[k].leave \in Decisions
      BY <1>2, <1>7, <2>1, WriteShapes DEF UnderWay, Ended
    <3> QED BY <2>1, <3>1, <3>2 DEF Good
  <2> QED BY <1>3, <1>4, <1>7, <2>1 DEF AskedFor
<1>8. Versioned'
  <2> SUFFICES ASSUME NEW k \in Writes, write'[k].at \in {"sent", "started"}
               PROVE  /\ write'[k].version.doc <= session.doc
                      /\ write'[k].version.doc = session.doc => write'[k].version.version <= session.version
                      /\ write'[k].what = "save" /\ write'[k].version = Version /\ session.doc = write'[k].doc =>
                            write'[k].point.pages = session.pages
    BY DEF Versioned, Version
  <2>1. session.doc \in Int /\ session.version \in Int BY <1>1 DEF TypeInv, Sessions
  <2>2. CASE write'[k] = write[k] BY <1>1, <2>2 DEF SavedInv, Versioned
  <2>3. CASE write[k] \in Asking /\ ~Busy(history'[write[k].doc])
             /\ write'[k] = Sent(write[k], history'[write[k].doc])
    <3>1. write'[k].version = Version /\ (session.doc = write'[k].doc => write'[k].point.pages = session.pages)
      BY <1>3, <2>3
    <3>2. write'[k].version.doc = session.doc /\ write'[k].version.version = session.version
      BY <3>1 DEF Version
    <3> QED BY <2>1, <3>1, <3>2
  <2> QED BY <1>4, <2>2, <2>3 DEF AskedFor
<1>9. WrittenAsMeant'
  <2> SUFFICES ASSUME NEW k \in Writes, write'[k].at \in {"answered", "over"},
                      "file" \in DOMAIN write'[k]
               PROVE  write'[k] = write[k]
    BY <1>1 DEF SavedInv, WrittenAsMeant
  <2> QED BY <1>3, <1>4 DEF AskedFor
<1>10. SavedWasWritten'
  <2>1. ASSUME NEW k \in Writes, FileWritten(write'[k]) PROVE write'[k] = write[k]
    BY <1>3, <1>4, <2>1 DEF AskedFor, FileWritten
  <2>2. ASSUME NEW k \in Writes, FileWritten(write[k]) PROVE write'[k] = write[k]
    BY <1>2, <1>3, <2>2, WriteShapes DEF AskedFor, FileWritten
  <2>3. SavedWasWritten BY <1>1 DEF SavedInv
  <2>4. \A k \in Writes :
          FileWritten(write'[k]) =>
              \/ write'[k].overtaken
              \/ write'[k].file.doc # write'[k].doc
              \/ write'[k].file.pages = Shown(write'[k].point.order, write'[k].point.pages)
    BY <2>1, <2>3 DEF SavedWasWritten
  <2>5. ASSUME NEW d \in Docs
        PROVE  \/ history'[d].reference = Opened(Pages).reference
               \/ \E k \in Writes :
                     /\ FileWritten(write'[k])
                     /\ write'[k].doc = d
                     /\ write'[k].point = history'[d].reference
    <3>1. history'[d].reference = history[d].reference OBVIOUS
    <3> QED BY <2>2, <2>3, <3>1 DEF SavedWasWritten
  <2> QED BY <2>4, <2>5 DEF SavedWasWritten, FileWritten
<1> QED BY <1>5, <1>6, <1>7, <1>8, <1>9, <1>10 DEF PointsStand, SavedInv

\* Asking for a write, and naming its file, keeps the invariant.
LEMMA WriteStepKeeps == Inv /\ WriteStep => Inv'
<1> SUFFICES ASSUME Inv, WriteStep PROVE Inv'
  OBVIOUS
<1>1. TypeInv /\ Numbered /\ Matched /\ PointsStand /\ Heard /\ Decisive /\ SavedInv
      /\ PagesAgree /\ OrdersStand /\ Rewrites
  BY DEF Inv, DocumentInv
<1>2. Calm /\ password' = password /\ question' \in Targets BY DEF WriteStep
<1>3. PICK k \in Writes :
         \/ /\ write[k].at \in {"none", "picking"}
            /\ inbox' = inbox
            /\ \E w \in Asking \cup GivenUp : w.doc <= shown /\ write' = [write EXCEPT ![k] = w]
         \/ /\ write[k].at = "picking"
            /\ ~Busy(history[write[k].doc])
            /\ inbox' = inbox \o <<WriteCall(k)>>
            /\ write' = [write EXCEPT ![k] = Sent(write[k], history[write[k].doc])]
  BY DEF WriteStep
<1>4. write[k] \in Writings /\ inbox \in Seq(Calls) /\ NoneTwice(inbox) /\ Says(inbox, reported)
      /\ reported \in BOOLEAN
  BY <1>1 DEF TypeInv, Matched, Heard
<1>5. \A d \in Docs : history[d] \in Histories /\ Standing(history[d])
  BY <1>1, StandingIs DEF TypeInv
<1>6. /\ inbox' \in Seq(Calls) /\ NoneTwice(inbox') /\ Says(inbox', reported)
      /\ Silent(inbox') => Silent(inbox)
      /\ \A c \in ToSet(inbox') :
            \/ c \in ToSet(inbox)
            \/ c.call = "write" /\ c.write = k /\ write'[k].at = "sent"
  <2>1. CASE inbox' = inbox BY <1>4, <2>1
  <2>2. CASE /\ write[k].at = "picking" /\ ~Busy(history[write[k].doc])
             /\ inbox' = inbox \o <<WriteCall(k)>>
             /\ write' = [write EXCEPT ![k] = Sent(write[k], history[write[k].doc])]
    <3>1. write[k] \in Asking /\ write[k].doc \in Docs BY <1>4, <2>2, WriteShapes
    <3>2. Sent(write[k], history[write[k].doc]).at = "sent"
      BY <1>1, <1>5, <2>2, <3>1, SentIs
    <3>3. write'[k].at = "sent" BY <1>1, <2>2, <3>2 DEF TypeInv
    <3>4. WriteCall(k) \in Calls /\ WriteCall(k).call = "write" /\ WriteCall(k).write = k
      BY DEF WriteCall, Calls
    <3>5. WriteCall(k) \notin ToSet(inbox) BY <1>1, <2>2, <3>4 DEF Matched
    <3> QED BY <1>4, <2>2, <3>3, <3>4, <3>5, CallAdded
  <2> QED BY <1>3, <2>1, <2>2
<1>7. write' \in [Writes -> Writings]
  <2>1. write \in [Writes -> Writings] BY <1>1 DEF TypeInv
  <2>2. CASE \E w \in Asking \cup GivenUp : w.doc <= shown /\ write' = [write EXCEPT ![k] = w]
    BY <2>1, <2>2 DEF Writings
  <2>3. CASE /\ write[k].at = "picking" /\ ~Busy(history[write[k].doc])
             /\ write' = [write EXCEPT ![k] = Sent(write[k], history[write[k].doc])]
    <3>1. write[k] \in Asking /\ write[k].doc \in Docs BY <1>4, <2>3, WriteShapes
    <3>2. Sent(write[k], history[write[k].doc]) \in UnderWay
      BY <1>1, <1>5, <2>3, <3>1, SentIs
    <3> QED BY <2>1, <2>3, <3>2 DEF Writings
  <2> QED BY <1>3, <2>2, <2>3
<1>8. UNCHANGED <<shown, edits, session, history>> BY <1>2 DEF Calm
<1>9. \A j \in Writes : AskedFor(j)
  <2> SUFFICES ASSUME NEW j \in Writes PROVE AskedFor(j)
    OBVIOUS
  <2>1. CASE j # k
    <3>1. write'[j] = write[j] BY <1>1, <1>3, <2>1 DEF TypeInv
    <3> QED BY <3>1 DEF AskedFor
  <2>2. CASE j = k
    <3>1. CASE /\ write[k].at \in {"none", "picking"}
               /\ \E w \in Asking \cup GivenUp : w.doc <= shown /\ write' = [write EXCEPT ![k] = w]
      <4>1. write'[k] \in Asking \cup GivenUp /\ write'[k].doc <= shown BY <1>1, <3>1 DEF TypeInv
      <4> QED BY <2>2, <3>1, <4>1 DEF AskedFor
    <3>2. CASE /\ write[k].at = "picking" /\ ~Busy(history[write[k].doc])
               /\ write' = [write EXCEPT ![k] = Sent(write[k], history[write[k].doc])]
      <4>1. write[k] \in Asking BY <1>4, <3>2, WriteShapes
      <4>2. write'[k] = Sent(write[k], history[write[k].doc]) BY <1>1, <3>2 DEF TypeInv
      <4> QED BY <1>8, <2>2, <3>2, <4>1, <4>2 DEF AskedFor
    <3> QED BY <1>3, <3>1, <3>2
  <2> QED BY <2>1, <2>2
<1>10. /\ \A j \in Writes : write'[j].at # "none" => write'[j].doc <= shown
       /\ PointsStand'
       /\ \A j \in Writes : write'[j].at \in {"sent", "started", "answered"} => Good(write[j].leave)'
       /\ SavedInv'
  <2>1. history' \in [Docs -> Histories] BY <1>1, <1>8 DEF TypeInv
  <2>2. ASSUME NEW d \in Docs
        PROVE  /\ Standing(history'[d])
               /\ Len(history[d].pages) <= Len(history'[d].pages)
               /\ history'[d].reference = history[d].reference
               /\ session.doc = d /\ ~Busy(history'[d]) => session.pages = history'[d].pages
    <3>1. Len(history[d].pages) \in Nat BY <1>5, LenProperties DEF Histories
    <3>2. ASSUME session.doc = d, ~Busy(history[d]) PROVE session.pages = history[d].pages
      <4>1. trip[d].at # "answered" BY <1>1, <3>2 DEF Matched
      <4>2. session.doc # NoDoc BY <3>2, EditAssumption DEF Docs, NoDoc
      <4> QED BY <1>1, <3>2, <4>1, <4>2 DEF PagesAgree
    <3> QED BY <1>5, <1>8, <3>1, <3>2
  <2>3. \A leave \in Decisions : Good(leave) => Good(leave)' BY <1>2, CalmKeeps
  <2> QED BY <1>7, <1>8, <1>9, <2>1, <2>2, <2>3, WritesAsked
<1>11. TypeInv' BY <1>1, <1>2, <1>6, <1>7 DEF TypeInv, Calm
<1>12. Numbered' BY <1>1, <1>2, <1>10 DEF Numbered, Calm
<1>13. Matched'
  <2>1. ASSUME NEW c \in ToSet(inbox'), c.call = "write" PROVE write'[c.write].at = "sent"
    <3>1. CASE c \in ToSet(inbox)
      <4>1. write[c.write].at = "sent" BY <1>1, <2>1, <3>1 DEF Matched
      <4>2. c \in Calls BY <1>4, <3>1, Members
      <4>3. c.write \in Writes BY <2>1, <4>2, CallShapes
      <4>4. c.write # k => write'[c.write] = write[c.write] BY <1>1, <1>3, <4>3 DEF TypeInv
      <4> QED BY <1>3, <4>1, <4>4
    <3> QED BY <1>6, <2>1, <3>1
  <2>2. \A c \in ToSet(inbox') : c.call = "trip" => trip'[c.doc].at = "asked"
    BY <1>1, <1>2, <1>6 DEF Matched, Calm
  <2>3. \A d \in Docs : Busy(history'[d]) <=> trip'[d].at # "none"
    BY <1>1, <1>2 DEF Matched, Calm
  <2> QED BY <1>6, <2>1, <2>2, <2>3 DEF Matched
<1>14. Rewrites' /\ PagesAgree' /\ OrdersStand' /\ LostOnlyAfterDeciding'
  BY <1>1, <1>2, CalmKeeps DEF Decisive
<1>15. Heard' BY <1>1, <1>2, <1>6 DEF Heard, Calm, UnsavedOn
<1>16. Decisive' BY <1>1, <1>2, <1>6, <1>10, <1>14 DEF Decisive, Calm, Good
<1> QED
  BY <1>10, <1>11, <1>12, <1>13, <1>14, <1>15, <1>16 DEF Inv, DocumentInv

-----------------------------------------------------------------------------
(* Editing.                                                                *)

\* An edit keeps the invariant.
LEMMA EditStepKeeps == Inv /\ EditStep => Inv'
<1> SUFFICES ASSUME Inv, EditStep PROVE Inv'
  OBVIOUS
<1>1. TypeInv /\ Numbered /\ Matched /\ PointsStand /\ Heard /\ Decisive /\ SavedInv
      /\ PagesAgree /\ OrdersStand /\ Rewrites
  BY DEF Inv, DocumentInv
<1> DEFINE told == inbox \o Report(UnsavedOn(history', shown))
<1>2. PICK h \in Histories :
          /\ UNCHANGED <<shown, password, question, write, opened, session, unsaved, left>>
          /\ shown \in Docs
          /\ edits' = [edits EXCEPT ![shown] = @ + 1]
          /\ history' = [history EXCEPT ![shown] = h]
          /\ Standing(h)
          /\ h.pages = history[shown].pages
          /\ h.reference = history[shown].reference
          /\ reported' = UnsavedOn(history', shown)
          /\ \/ /\ ~Busy(history[shown]) /\ ~Busy(h)
                /\ trip' = trip
                /\ inbox' = told
             \/ /\ Busy(history[shown]) /\ Busy(h) /\ Head(h.queue) = Head(history[shown].queue)
                /\ trip' = trip
                /\ inbox' = told
             \/ /\ ~Busy(history[shown]) /\ Busy(h)
                /\ trip' = [trip EXCEPT ![shown] = [at |-> "asked"]]
                /\ inbox' = told \o <<TripCall(shown)>>
  BY DEF EditStep
<1>3. /\ told \in Seq(Calls)
      /\ \A c \in ToSet(told) : c \in ToSet(inbox) \/ c.call = "modified"
      /\ NoneTwice(told) /\ Says(told, reported')
      /\ Silent(told) => Silent(inbox) /\ reported' = reported
      /\ reported' \in BOOLEAN
  BY <1>1, <1>2, UnsavedIsBoolean, Told DEF Matched, Heard
<1> HIDE DEF told
<1>4. /\ history \in [Docs -> Histories] /\ trip \in [Docs -> Trips] /\ edits \in [Docs -> Nat]
      /\ inbox \in Seq(Calls)
      /\ history'[shown] = h /\ edits'[shown] = edits[shown] + 1
      /\ \A d \in Docs : d # shown => history'[d] = history[d] /\ trip'[d] = trip[d] /\ edits'[d] = edits[d]
      /\ \A d \in Docs : history'[d].pages = history[d].pages
                         /\ history'[d].reference = history[d].reference
  BY <1>1, <1>2 DEF TypeInv
<1>5. ASSUME ~Busy(history[shown]) PROVE trip[shown].at = "none" /\ TripCall(shown) \notin ToSet(inbox)
  <2>1. trip[shown].at = "none" BY <1>1, <1>2, <1>5 DEF Matched
  <2>2. TripCall(shown).call = "trip" /\ TripCall(shown).doc = shown BY DEF TripCall
  <2> QED BY <1>1, <2>1, <2>2 DEF Matched
<1>6. /\ inbox' \in Seq(Calls) /\ NoneTwice(inbox') /\ Says(inbox', reported')
      /\ Silent(inbox') => Silent(inbox) /\ reported' = reported
      /\ \A c \in ToSet(inbox') :
            \/ c \in ToSet(inbox)
            \/ c.call = "modified"
            \/ c.call = "trip" /\ c.doc = shown /\ trip'[shown].at = "asked"
  <2>1. CASE inbox' = told BY <1>3, <2>1
  <2>2. CASE /\ ~Busy(history[shown]) /\ inbox' = told \o <<TripCall(shown)>>
             /\ trip' = [trip EXCEPT ![shown] = [at |-> "asked"]]
    <3>1. /\ TripCall(shown) \in Calls /\ TripCall(shown).call = "trip" /\ TripCall(shown).doc = shown
      BY <1>2 DEF TripCall, Calls
    <3>2. TripCall(shown) \notin ToSet(told) BY <1>3, <1>5, <2>2, <3>1
    <3>3. trip'[shown].at = "asked" BY <1>2, <1>4, <2>2
    <3> QED BY <1>3, <2>2, <3>1, <3>2, <3>3, CallAdded
  <2> QED BY <1>2, <2>1, <2>2
<1>7. /\ trip'[shown] = trip[shown] \/ (trip[shown].at = "none" /\ trip'[shown] = [at |-> "asked"])
      /\ trip' \in [Docs -> Trips]
      /\ Busy(h) <=> trip'[shown].at # "none"
  <2>1. [at |-> "asked"] \in Trips BY DEF Trips, Quiet
  <2>2. Busy(history[shown]) <=> trip[shown].at # "none" BY <1>1, <1>2 DEF Matched
  <2>3. CASE trip' = trip /\ (Busy(h) <=> Busy(history[shown])) BY <1>4, <2>2, <2>3
  <2>4. CASE /\ ~Busy(history[shown]) /\ Busy(h)
             /\ trip' = [trip EXCEPT ![shown] = [at |-> "asked"]]
    <3>1. trip'[shown] = [at |-> "asked"] /\ trip' \in [Docs -> Trips] BY <1>2, <1>4, <2>1, <2>4
    <3>2. trip'[shown].at = "asked" BY <3>1
    <3> QED BY <1>5, <2>4, <3>1, <3>2
  <2> QED BY <1>2, <2>3, <2>4
<1>8. TypeInv'
  <2>1. edits' \in [Docs -> Nat] /\ history' \in [Docs -> Histories] BY <1>2, <1>4
  <2> QED BY <1>1, <1>2, <1>3, <1>6, <1>7, <2>1 DEF TypeInv
<1>9. Numbered' BY <1>1, <1>2, <1>4, <1>7 DEF Numbered, Docs
<1>10. Matched'
  <2>1. ASSUME NEW c \in ToSet(inbox'), c.call = "trip" PROVE trip'[c.doc].at = "asked"
    <3>1. CASE c \in ToSet(inbox)
      <4>1. trip[c.doc].at = "asked" BY <1>1, <2>1, <3>1 DEF Matched
      <4>2. c \in Calls BY <1>4, <3>1, Members
      <4>3. c.doc \in Docs BY <2>1, <4>2, CallShapes
      <4> QED BY <1>4, <1>7, <4>1, <4>3
    <3> QED BY <1>6, <2>1, <3>1
  <2>2. ASSUME NEW c \in ToSet(inbox'), c.call = "write" PROVE write'[c.write].at = "sent"
    BY <1>1, <1>2, <1>6, <2>2 DEF Matched
  <2>3. \A d \in Docs : Busy(history'[d]) <=> trip'[d].at # "none"
    BY <1>1, <1>4, <1>7 DEF Matched
  <2> QED BY <1>6, <2>1, <2>2, <2>3 DEF Matched
<1>11. Rewrites'
  <2> SUFFICES ASSUME NEW d \in Docs
               PROVE  /\ trip'[d].at = "rewriting" /\ session.doc = d => trip'[d].from = session
                      /\ trip'[d].at = "answered" => Fits(history'[d], trip'[d])
    BY <1>2 DEF Rewrites
  <2>1. CASE trip'[d] = trip[d] /\ trip[d].at \in {"rewriting", "answered"}
    <3>1. Busy(history[d]) BY <1>1, <2>1 DEF Matched
    <3>2. Head(history'[d].queue) = Head(history[d].queue) BY <1>2, <1>4, <3>1
    <3>3. Fits(history'[d], trip'[d]) = Fits(history[d], trip[d])
      BY <1>4, <2>1, <3>2 DEF Fits
    <3> QED BY <1>1, <2>1, <3>3 DEF Rewrites
  <2>2. CASE trip'[d].at \notin {"rewriting", "answered"} BY <2>2
  <2> QED BY <1>4, <1>7, <2>1, <2>2
<1>12. PagesAgree'
  <2> SUFFICES ASSUME session.doc # NoDoc
               PROVE  session.pages =
                        IF trip'[session.doc].at = "answered" /\ trip'[session.doc].ok /\ trip'[session.doc].pages # <<>>
                        THEN trip'[session.doc].pages ELSE history'[session.doc].pages
    BY <1>2 DEF PagesAgree
  <2>1. session.doc \in Docs
    BY <1>1, EditAssumption DEF TypeInv, Sessions, Docs, NoDoc
  <2>2. history'[session.doc].pages = history[session.doc].pages BY <1>4, <2>1
  <2>3. \/ trip'[session.doc] = trip[session.doc]
        \/ trip[session.doc].at = "none" /\ trip'[session.doc].at = "asked"
    BY <1>4, <1>7, <2>1
  <2> QED BY <1>1, <2>2, <2>3 DEF PagesAgree
<1>13. OrdersStand'
  <2>1. \A d \in Docs : Standing(history'[d]) BY <1>1, <1>2, <1>4, StandingIs
  <2> QED BY <2>1, StandingIsNext
<1>14. PointsStand'
  <2>1. \A k \in Writes : write[k].at # "none" => write[k].doc \in Docs
    BY <1>1, WriteShapes DEF TypeInv
  <2> QED BY <1>1, <1>2, <1>4, <2>1 DEF PointsStand
<1>15. Heard' BY <1>1, <1>2, <1>6 DEF Heard
<1>16. ASSUME NEW leave \in Decisions, Good(leave) PROVE Good(leave)'
  <2>1. leave.edits \in Int /\ edits[shown] \in Int BY <1>2, <1>4 DEF Decisions
  <2> QED BY <1>2, <1>4, <1>16, <2>1 DEF Good
<1>17. Decisive'
  <2>1. ASSUME NEW c \in ToSet(inbox'), c.call \in {"open", "destroy"} PROVE Good(c.leave)'
    <3>1. c \in ToSet(inbox) BY <1>6, <2>1
    <3>2. c \in Calls BY <1>4, <3>1, Members
    <3>3. c.leave \in Decisions /\ Good(c.leave)
      BY <1>1, <2>1, <3>1, <3>2, CallShapes DEF Decisive
    <3> QED BY <1>16, <3>3
  <2>2. ASSUME NEW a \in ToSet(opened) PROVE Good(a.leave)'
    <3>1. a \in AnswersToOpen BY <1>1, Members DEF TypeInv
    <3>2. a.leave \in Decisions /\ Good(a.leave) BY <1>1, <3>1 DEF Decisive, AnswersToOpen
    <3> QED BY <1>16, <3>2
  <2>3. ASSUME NEW k \in Writes, write[k].at \in {"sent", "started", "answered"}
        PROVE  Good(write[k].leave)'
    <3>1. write[k].leave \in Decisions BY <1>1, <2>3, WriteShapes DEF TypeInv, UnderWay, Ended
    <3>2. Good(write[k].leave) BY <1>1, <2>3 DEF Decisive
    <3> QED BY <1>2, <1>16, <3>1, <3>2 DEF Good
  <2>4. LostOnlyAfterDeciding' BY <1>1, <1>2 DEF Decisive, LostOnlyAfterDeciding
  <2> QED BY <1>2, <2>1, <2>2, <2>3, <2>4 DEF Decisive, Good
<1>18. SavedInv'
  <2>1. \A d \in Docs : history'[d].reference = history[d].reference BY <1>4
  <2> QED
    BY <1>1, <1>2, <2>1 DEF SavedInv, Versioned, Version, WrittenAsMeant, SavedWasWritten, FileWritten
<1> QED
  BY <1>8, <1>9, <1>10, <1>11, <1>12, <1>13, <1>14, <1>15, <1>17, <1>18 DEF Inv, DocumentInv

-----------------------------------------------------------------------------
(* Round trips answered.                                                   *)

\* The writes that waited are sent, each once.
SentIn(go) == [i \in 1..Cardinality(go) |-> WriteCall(Ascending(go)[i])]

LEMMA AllSent ==
  ASSUME NEW go \in SUBSET Writes
  PROVE  /\ SentIn(go) \in Seq(Calls)
         /\ \A c \in ToSet(SentIn(go)) : \E k \in go : c = WriteCall(k)
         /\ NoneTwice(SentIn(go))
         /\ Silent(SentIn(go))
<1>1. MaxWrites \in Nat /\ go \in SUBSET (1..MaxWrites) BY EditAssumption DEF Writes
<1>2. Cardinality(go) \in Nat BY <1>1, EditAssumption, PartsAreFinite
<1>3. \A i \in 1..Cardinality(go) : Ascending(go)[i] = Nth(go, i) /\ Nth(go, i) \in go
  BY <1>1, NthIsThere DEF Ascending
<1>4. \A i \in 1..Cardinality(go) : SentIn(go)[i] = WriteCall(Nth(go, i)) BY <1>3 DEF SentIn
<1>5. \A k \in Writes : WriteCall(k) \in Calls /\ WriteCall(k).write = k /\ WriteCall(k).call = "write"
  BY DEF WriteCall, Calls
<1>6. DOMAIN SentIn(go) = 1..Cardinality(go) BY DEF SentIn
<1>7. SentIn(go) \in Seq(Calls) BY <1>2, <1>3, <1>5 DEF SentIn
<1>8. \A c \in ToSet(SentIn(go)) : \E k \in go : c = WriteCall(k)
  BY <1>3, <1>4, <1>6 DEF ToSet
<1>9. ASSUME NEW i \in 1..Cardinality(go), NEW j \in 1..Cardinality(go), i # j
      PROVE  SentIn(go)[i] # SentIn(go)[j]
  <2>1. Nth(go, i) # Nth(go, j) BY <1>1, <1>9, NthIsInjective
  <2>2. Nth(go, i) \in Writes /\ Nth(go, j) \in Writes BY <1>3
  <2>3. WriteCall(Nth(go, i)).write = Nth(go, i) /\ WriteCall(Nth(go, j)).write = Nth(go, j)
    BY <1>5, <2>2
  <2>4. WriteCall(Nth(go, i)) # WriteCall(Nth(go, j)) BY <2>1, <2>3, Zenon
  <2> QED BY <1>4, <2>4
<1>10. NoneTwice(SentIn(go)) BY <1>6, <1>9 DEF NoneTwice
<1>11. Silent(SentIn(go)) BY <1>5, <1>8 DEF Silent
<1> QED BY <1>7, <1>8, <1>10, <1>11

\* Calls that follow what is told, which are not words.
LEMMA ToldAnd ==
  ASSUME TypeInv, NEW now \in BOOLEAN, NEW calls \in Seq(Calls), NoneTwice(calls), Silent(calls),
         \A c \in ToSet(calls) : c \notin ToSet(inbox)
  PROVE  LET told == inbox \o Report(now) \o calls
         IN  /\ told \in Seq(Calls)
             /\ \A c \in ToSet(told) :
                   c \in ToSet(inbox) \/ c.call = "modified" \/ c \in ToSet(calls)
             /\ NoneTwice(inbox) => NoneTwice(told)
             /\ Says(inbox, reported) => Says(told, now)
             /\ Silent(told) => Silent(inbox) /\ now = reported
<1> DEFINE said == inbox \o Report(now)
           told == said \o calls
<1>1. /\ said \in Seq(Calls)
      /\ \A c \in ToSet(said) : c \in ToSet(inbox) \/ c.call = "modified"
      /\ NoneTwice(inbox) => NoneTwice(said)
      /\ Says(inbox, reported) => Says(said, now)
      /\ Silent(said) => Silent(inbox) /\ now = reported
  BY Told
<1> HIDE DEF said
<1>2. told \in Seq(Calls) /\ ToSet(told) = ToSet(said) \cup ToSet(calls)
  BY <1>1, ConcatProperties, JoinedMembers
<1>3. ASSUME NoneTwice(inbox) PROVE NoneTwice(told)
  <2>1. ASSUME NEW c \in ToSet(said) \cap ToSet(calls) PROVE c.call \notin HandedOver
    BY <1>1, <2>1 DEF Silent
  <2> QED BY <1>1, <1>3, <2>1, NoneTwiceJoined
<1>4. ASSUME Says(inbox, reported) PROVE Says(told, now)
  BY <1>1, <1>4, SilentAfter
<1>5. Silent(told) => Silent(said) BY <1>2 DEF Silent
<1> QED BY <1>1, <1>2, <1>3, <1>4, <1>5 DEF said

\* The answer to a round trip keeps the invariant.
LEMMA TripAnsweredKeeps == ASSUME NEW d \in Docs, Inv, TripAnswered(d) PROVE Inv'
<1> DEFINE h == Settled(history[d], trip[d])
           idle == IF Busy(h) THEN {} ELSE Waiting(d)
           go == {k \in idle : shown = d /\ GoesOn(write[k], h, d)}
           calls == IF Busy(h) THEN <<TripCall(d)>> ELSE SentIn(go)
<1>1. TypeInv /\ Numbered /\ Matched /\ PointsStand /\ Heard /\ Decisive /\ SavedInv
      /\ PagesAgree /\ OrdersStand /\ Rewrites
  BY DEF Inv, DocumentInv
<1>2. /\ UNCHANGED <<shown, edits, password, question, opened, session, unsaved, left>>
      /\ trip[d].at = "answered"
      /\ history' = [history EXCEPT ![d] = h]
      /\ reported' = UnsavedOn(history', shown)
      /\ inbox' = inbox \o Report(UnsavedOn(history', shown)) \o calls
      /\ trip' = [trip EXCEPT ![d] = IF Busy(h) THEN [at |-> "asked"] ELSE NoTrip]
      /\ write' = [k \in Writes |-> CASE k \in go -> Sent(write[k], h)
                                      [] k \in idle \ go -> Over(write[k])
                                      [] OTHER -> write[k]]
  BY DEF TripAnswered, UIAction, Handled, SentIn
<1>3. /\ history \in [Docs -> Histories] /\ trip \in [Docs -> Trips] /\ edits \in [Docs -> Nat]
      /\ inbox \in Seq(Calls) /\ write \in [Writes -> Writings] /\ shown \in 0..MaxRequests
  BY <1>1 DEF TypeInv
<1>4. /\ history[d] \in Histories /\ Standing(history[d]) /\ Busy(history[d])
      /\ trip[d] \in TripsAnswered /\ Fits(history[d], trip[d])
      /\ d <= shown /\ shown # NoDoc
  <2>1. trip[d].at # "none" BY <1>2
  <2>2. trip[d] \in TripsAnswered BY <1>2, <1>3, TripShapes
  <2>3. d <= shown BY <1>1, <1>3, <2>1, EditAssumption DEF Numbered, NoTrip, Docs
  <2>4. shown # NoDoc BY <1>3, <2>3, EditAssumption DEF Docs, NoDoc
  <2> QED BY <1>1, <1>2, <1>3, <2>1, <2>2, <2>3, <2>4, StandingIs DEF Matched, Rewrites
<1>5. /\ h \in Histories /\ Standing(h)
      /\ h.reference = history[d].reference
      /\ h.pages = IF trip[d].ok /\ trip[d].pages # <<>> THEN trip[d].pages ELSE history[d].pages
      /\ Len(history[d].pages) <= Len(h.pages)
  BY <1>4, HistorySettled
<1>6. idle \subseteq Waiting(d) /\ go \subseteq Writes /\ (go # {} => ~Busy(h))
      /\ \A k \in Waiting(d) : k \in Writes /\ write[k].at = "waiting" /\ write[k].doc = d
                                /\ write[k] \in Asking
  BY <1>3, WriteShapes DEF Waiting
<1> HIDE DEF h
<1>7. /\ history'[d] = h
      /\ \A e \in Docs : e # d => history'[e] = history[e] /\ trip'[e] = trip[e]
      /\ trip'[d] = IF Busy(h) THEN [at |-> "asked"] ELSE NoTrip
      /\ trip'[d].at = IF Busy(h) THEN "asked" ELSE "none"
      /\ trip' \in [Docs -> Trips] /\ history' \in [Docs -> Histories]
  <2>1. [at |-> "asked"] \in Trips /\ NoTrip \in Trips BY DEF Trips, Quiet, NoTrip
  <2>2. [at |-> "asked"].at = "asked" /\ NoTrip.at = "none" BY DEF NoTrip
  <2> QED BY <1>2, <1>3, <1>5, <2>1, <2>2
<1>8. /\ calls \in Seq(Calls) /\ NoneTwice(calls) /\ Silent(calls)
      /\ \A c \in ToSet(calls) :
            \/ c = TripCall(d) /\ Busy(h)
            \/ \E k \in go : c = WriteCall(k)
  <2>1. CASE Busy(h)
    <3>1. TripCall(d) \in Calls /\ TripCall(d).call = "trip" BY DEF TripCall, Calls
    <3>2. /\ <<TripCall(d)>> \in Seq(Calls) /\ ToSet(<<TripCall(d)>>) = {TripCall(d)}
          /\ NoneTwice(<<TripCall(d)>>)
      BY <3>1 DEF ToSet, NoneTwice
    <3>3. Silent(<<TripCall(d)>>) BY <3>1, <3>2 DEF Silent
    <3> QED BY <2>1, <3>2, <3>3
  <2>2. CASE ~Busy(h) BY <1>6, <2>2, AllSent
  <2> QED BY <2>1, <2>2
<1> HIDE DEF calls
<1>9. /\ \A k \in Writes : WriteCall(k).call = "write" /\ WriteCall(k).write = k
      /\ TripCall(d).call = "trip" /\ TripCall(d).doc = d
  BY DEF WriteCall, TripCall
<1>10. ASSUME NEW c \in ToSet(calls) PROVE c \notin ToSet(inbox)
  <2>1. CASE c = TripCall(d)
    <3>1. c.call = "trip" /\ c.doc = d BY <2>1, <1>9 DEF TripCall
    <3> QED BY <1>1, <1>2, <3>1 DEF Matched
  <2>2. ASSUME NEW k \in go, c = WriteCall(k) PROVE c \notin ToSet(inbox)
    <3>1. write[k].at = "waiting" /\ c.call = "write" /\ c.write = k BY <1>6, <1>9, <2>2
    <3> QED BY <1>1, <3>1 DEF Matched
  <2> QED BY <1>8, <2>1, <2>2
<1>11. /\ inbox' \in Seq(Calls) /\ NoneTwice(inbox') /\ Says(inbox', reported')
       /\ Silent(inbox') => Silent(inbox) /\ reported' = reported
       /\ \A c \in ToSet(inbox') :
             c \in ToSet(inbox) \/ c.call = "modified" \/ c \in ToSet(calls)
       /\ reported' \in BOOLEAN
  <2>1. UnsavedOn(history', shown) \in BOOLEAN BY UnsavedIsBoolean
  <2> QED BY <1>1, <1>2, <1>8, <1>10, <2>1, ToldAnd DEF Matched, Heard
<1> HIDE DEF idle, go
<1>12. \A k \in Writes :
         /\ k \in go => write'[k] = Sent(write[k], h) /\ k \in Waiting(d)
         /\ k \in idle \ go => write'[k] = Over(write[k])
         /\ k \notin idle => write'[k] = write[k]
  BY <1>2, <1>6 DEF go
<1>13. \A k \in Writes : AskedFor(k)
  <2> SUFFICES ASSUME NEW k \in Writes PROVE AskedFor(k)
    OBVIOUS
  <2>1. CASE k \in go
    <3>1. write[k] \in Asking /\ write[k].doc = d /\ write'[k] = Sent(write[k], h)
      BY <1>6, <1>12, <2>1
    <3> QED BY <1>6, <1>7, <2>1, <3>1 DEF AskedFor
  <2>2. CASE k \in idle \ go
    <3>1. write[k] \in Asking /\ write[k].at = "waiting" /\ write[k].doc = d BY <1>6, <2>2
    <3>2. Over(write[k]) \in GivenUp /\ Over(write[k]).doc = d
      BY <3>1 DEF Over, GivenUp, Asking
    <3> QED BY <1>4, <1>12, <2>2, <3>1, <3>2 DEF AskedFor
  <2>3. CASE k \notin idle BY <1>12, <2>3 DEF AskedFor
  <2> QED BY <2>1, <2>2, <2>3
<1>14. write' \in [Writes -> Writings]
  <2> SUFFICES ASSUME NEW k \in Writes PROVE write'[k] \in Writings
    BY <1>2
  <2>1. CASE k \in go
    <3>1. write[k] \in Asking /\ ~Busy(h) BY <1>6, <2>1, <1>12
    <3>2. Sent(write[k], h) \in UnderWay BY <1>1, <1>5, <3>1, SentIs
    <3> QED BY <1>12, <2>1, <3>2 DEF Writings
  <2>2. CASE k \in idle \ go
    <3>1. write[k] \in Asking BY <1>6, <2>2
    <3>2. Over(write[k]) \in GivenUp BY <3>1 DEF Over, GivenUp, Asking
    <3> QED BY <1>12, <2>2, <3>2 DEF Writings
  <2>3. CASE k \notin idle BY <1>3, <1>12, <2>3
  <2> QED BY <2>1, <2>2, <2>3
<1>15. ASSUME NEW leave \in Decisions, Good(leave) PROVE Good(leave)'
  <2>1. ASSUME shown = d PROVE Unsaved(Saved(history[shown], leave.reference))
    <3>1. Saved(history[d], leave.reference).queue = history[d].queue
      BY <1>4 DEF Saved, Histories
    <3> QED BY <1>4, <2>1, <3>1 DEF Unsaved, Busy
  <2>2. shown # d => history'[shown] = history[shown]
    <3>1. shown \in Docs BY <1>3, <1>4, EditAssumption DEF Docs, NoDoc
    <3> QED BY <1>7, <3>1
  <2> QED BY <1>2, <1>15, <2>1, <2>2 DEF Good
<1>16. ASSUME NEW e \in Docs
       PROVE  /\ Standing(history'[e])
              /\ Len(history[e].pages) <= Len(history'[e].pages)
              /\ history'[e].reference = history[e].reference
              /\ session.doc = e /\ ~Busy(history'[e]) => session.pages = history'[e].pages
  <2>1. CASE e = d
    <3>1. session.doc = d => session.pages = h.pages
      <4>1. d # NoDoc BY EditAssumption DEF Docs, NoDoc
      <4> QED BY <1>1, <1>2, <1>5, <4>1 DEF PagesAgree
    <3> QED BY <1>5, <1>7, <2>1, <3>1
  <2>2. CASE e # d
    <3>1. history'[e] = history[e] /\ Standing(history[e]) /\ Len(history[e].pages) \in Nat
      BY <1>1, <1>3, <1>7, <2>2, StandingIs, LenProperties DEF Histories
    <3>2. ASSUME session.doc = e, ~Busy(history[e]) PROVE session.pages = history[e].pages
      <4>1. trip[e].at # "answered" BY <1>1, <3>2 DEF Matched
      <4>2. session.doc # NoDoc BY <3>2, EditAssumption DEF Docs, NoDoc
      <4> QED BY <1>1, <3>2, <4>1, <4>2 DEF PagesAgree
    <3> QED BY <3>1, <3>2
  <2> QED BY <2>1, <2>2
<1>17. /\ \A k \in Writes : write'[k].at # "none" => write'[k].doc <= shown
       /\ PointsStand'
       /\ \A k \in Writes : write'[k].at \in {"sent", "started", "answered"} => Good(write[k].leave)'
       /\ SavedInv'
  BY <1>2, <1>7, <1>13, <1>14, <1>15, <1>16, WritesAsked
<1>18. TypeInv' BY <1>1, <1>2, <1>7, <1>11, <1>14 DEF TypeInv
<1>19. Numbered'
  <2>1. \A e \in Docs : e > shown => e # d BY <1>3, <1>4, EditAssumption DEF Docs
  <2> QED BY <1>1, <1>2, <1>7, <1>17, <2>1 DEF Numbered
<1>20. Matched'
  <2>1. ASSUME NEW c \in ToSet(inbox'), c.call = "trip" PROVE trip'[c.doc].at = "asked"
    <3>1. CASE c \in ToSet(inbox)
      <4>1. trip[c.doc].at = "asked" BY <1>1, <2>1, <3>1 DEF Matched
      <4>2. c \in Calls BY <1>3, <3>1, Members
      <4>3. c.doc \in Docs BY <2>1, <4>2, CallShapes
      <4> QED BY <1>2, <1>7, <4>1, <4>3
    <3>2. CASE c \in ToSet(calls)
      <4>1. c = TripCall(d) /\ Busy(h) BY <1>6, <1>8, <1>9, <2>1, <3>2
      <4> QED BY <1>7, <4>1 DEF TripCall
    <3> QED BY <1>11, <2>1, <3>1, <3>2
  <2>2. ASSUME NEW c \in ToSet(inbox'), c.call = "write" PROVE write'[c.write].at = "sent"
    <3>1. CASE c \in ToSet(inbox)
      <4>1. write[c.write].at = "sent" BY <1>1, <2>2, <3>1 DEF Matched
      <4>2. c \in Calls BY <1>3, <3>1, Members
      <4>3. c.write \in Writes BY <2>2, <4>2, CallShapes
      <4>4. c.write \notin idle BY <1>6, <4>1
      <4> QED BY <1>12, <4>1, <4>3, <4>4
    <3>2. CASE c \in ToSet(calls)
      <4>1. PICK k \in go : c = WriteCall(k) BY <1>8, <1>9, <2>2, <3>2 DEF TripCall
      <4>2. write[k] \in Asking /\ ~Busy(h) /\ k \in Writes BY <1>6, <1>12
      <4>3. Sent(write[k], h).at = "sent" BY <1>1, <1>5, <4>2, SentIs
      <4> QED BY <1>9, <1>12, <4>1, <4>2, <4>3
    <3> QED BY <1>11, <2>2, <3>1, <3>2
  <2>3. \A e \in Docs : Busy(history'[e]) <=> trip'[e].at # "none"
    BY <1>1, <1>7 DEF Matched
  <2> QED BY <1>11, <2>1, <2>2, <2>3 DEF Matched
<1>21. Rewrites'
  <2>1. \A e \in Docs : trip'[e].at \in {"rewriting", "answered"} =>
             trip'[e] = trip[e] /\ history'[e] = history[e]
    BY <1>7
  <2> QED BY <1>1, <1>2, <2>1 DEF Rewrites
<1>22. PagesAgree'
  <2> SUFFICES ASSUME session.doc # NoDoc
               PROVE  session.pages =
                        IF trip'[session.doc].at = "answered" /\ trip'[session.doc].ok /\ trip'[session.doc].pages # <<>>
                        THEN trip'[session.doc].pages ELSE history'[session.doc].pages
    BY <1>2 DEF PagesAgree
  <2>1. session.doc \in Docs
    BY <1>1, EditAssumption DEF TypeInv, Sessions, Docs, NoDoc
  <2> QED BY <1>1, <1>2, <1>5, <1>7, <2>1 DEF PagesAgree
<1>23. OrdersStand' BY <1>16, StandingIsNext
<1>24. Heard' BY <1>1, <1>2, <1>11 DEF Heard
<1>25. Decisive'
  <2>1. ASSUME NEW c \in ToSet(inbox'), c.call \in {"open", "destroy"} PROVE Good(c.leave)'
    <3>1. c \in ToSet(inbox)
      <4>1. c.call \notin {"modified", "trip", "write"} BY <2>1
      <4> QED BY <1>6, <1>8, <1>9, <1>11, <4>1
    <3>2. c \in Calls BY <1>3, <3>1, Members
    <3>3. c.leave \in Decisions /\ Good(c.leave)
      BY <1>1, <2>1, <3>1, <3>2, CallShapes DEF Decisive
    <3> QED BY <1>15, <3>3
  <2>2. ASSUME NEW a \in ToSet(opened) PROVE Good(a.leave)'
    <3>1. a \in AnswersToOpen BY <1>1, Members DEF TypeInv
    <3>2. a.leave \in Decisions /\ Good(a.leave) BY <1>1, <3>1 DEF Decisive, AnswersToOpen
    <3> QED BY <1>15, <3>2
  <2>3. LostOnlyAfterDeciding' BY <1>1, <1>2 DEF Decisive, LostOnlyAfterDeciding
  <2> QED BY <1>2, <1>17, <2>1, <2>2, <2>3 DEF Decisive, Good
<1> QED
  BY <1>17, <1>18, <1>19, <1>20, <1>21, <1>22, <1>23, <1>24, <1>25 DEF Inv, DocumentInv

-----------------------------------------------------------------------------
(* Writes and openings answered.                                           *)

\* What becomes of a history whose save point moves.
LEMMA SavedIs ==
  ASSUME NEW h \in Histories, Standing(h), NEW point \in Points, Stands(point.order, h.pages)
  PROVE  /\ Saved(h, point) \in Histories /\ Standing(Saved(h, point))
         /\ Saved(h, point).pages = h.pages /\ Saved(h, point).queue = h.queue
         /\ Saved(h, point).reference = point
         /\ \A later \in Points :
               Unsaved(Saved(Saved(h, point), later)) <=> Unsaved(Saved(h, later))
<1>1. /\ Saved(h, point).order = h.order /\ Saved(h, point).pages = h.pages
      /\ Saved(h, point).past = h.past /\ Saved(h, point).future = h.future
      /\ Saved(h, point).queue = h.queue /\ Saved(h, point).reference = point
  BY DEF Saved, Histories
<1>2. Saved(h, point) \in Histories BY DEF Saved, Histories
<1>3. Standing(Saved(h, point)) BY <1>1 DEF Standing
<1>4. ASSUME NEW later \in Points
      PROVE  Unsaved(Saved(Saved(h, point), later)) <=> Unsaved(Saved(h, later))
  <2> DEFINE a == Saved(Saved(h, point), later)
             b == Saved(h, later)
  <2>1. a.order = b.order /\ a.pages = b.pages /\ a.queue = b.queue /\ a.reference = b.reference
    BY <1>1, <1>2 DEF Saved, Histories
  <2> HIDE DEF a, b
  <2>2. Unsaved(a) <=> Unsaved(b) BY <2>1 DEF Unsaved, Busy, Modified
  <2> QED BY <2>2 DEF a, b
<1> QED BY <1>1, <1>2, <1>3, <1>4

\* The answer to a write keeps the invariant.
LEMMA WriteAnsweredKeeps == ASSUME NEW k \in Writes, Inv, WriteAnswered(k) PROVE Inv'
<1> DEFINE w == write[k]
           saves == w.what = "save" /\ w.file # NoFile
           leaving == IF saves THEN w.leaving ELSE Nothing
           moved == saves /\ w.doc = shown
           h == IF moved THEN [history EXCEPT ![shown] = Saved(@, w.point)] ELSE history
           calls == GoOn(leaving, FALSE, w.leave)
<1>1. TypeInv /\ Numbered /\ Matched /\ PointsStand /\ Heard /\ Decisive /\ SavedInv
      /\ PagesAgree /\ OrdersStand /\ Rewrites
  BY DEF Inv, DocumentInv
<1>2. /\ UNCHANGED <<shown, edits, password, question, opened, trip, session, unsaved, left>>
      /\ w.at = "answered"
      /\ history' = h
      /\ reported' = UnsavedOn(history', shown)
      /\ inbox' = inbox \o Report(UnsavedOn(history', shown)) \o calls
      /\ write' = [write EXCEPT ![k].at = "over"]
  BY DEF WriteAnswered, UIAction, Handled
<1>3. /\ history \in [Docs -> Histories] /\ edits \in [Docs -> Nat]
      /\ inbox \in Seq(Calls) /\ write \in [Writes -> Writings] /\ shown \in 0..MaxRequests
  BY <1>1 DEF TypeInv
<1>4. w \in Ended /\ Nothing \in Targets BY <1>2, <1>3, WriteShapes DEF Targets
<1>5. /\ w.leaving \in Targets /\ w.point \in Points /\ w.leave \in Decisions /\ w.doc \in Docs
      /\ w.what \in Whats
  BY <1>4 DEF Ended
<1>6. \A d \in Docs : history[d] \in Histories /\ Standing(history[d])
  BY <1>1, <1>3, StandingIs
<1>7. ASSUME moved
      PROVE  /\ shown \in Docs
             /\ h[shown] = Saved(history[shown], w.point)
             /\ h \in [Docs -> Histories]
             /\ Standing(h[shown])
             /\ h[shown].pages = history[shown].pages /\ h[shown].queue = history[shown].queue
             /\ h[shown].reference = w.point
             /\ \A later \in Points :
                   Unsaved(Saved(h[shown], later)) <=> Unsaved(Saved(history[shown], later))
             /\ \A d \in Docs : d # shown => h[d] = history[d]
  <2>1. shown \in Docs /\ h[shown] = Saved(history[shown], w.point)
        /\ \A d \in Docs : d # shown => h[d] = history[d]
    BY <1>3, <1>5, <1>7
  <2>2. Stands(w.point.order, history[shown].pages) BY <1>1, <1>2, <1>7 DEF PointsStand
  <2>3. Saved(history[shown], w.point) \in Histories BY <1>5, <1>6, <2>1, <2>2, SavedIs
  <2>4. h \in [Docs -> Histories] BY <1>3, <1>7, <2>1, <2>3
  <2> HIDE DEF h
  <2> QED BY <1>5, <1>6, <2>1, <2>2, <2>3, <2>4, SavedIs
<1>8. ASSUME ~moved PROVE h = history
  BY <1>8
<1> HIDE DEF h
<1>9. /\ h \in [Docs -> Histories]
      /\ \A d \in Docs :
            /\ Standing(h[d])
            /\ h[d].pages = history[d].pages /\ h[d].queue = history[d].queue
            /\ h[d].reference # history[d].reference => moved /\ d = shown /\ h[d].reference = w.point
            /\ d # shown => h[d] = history[d]
            /\ \A later \in Points :
                  Unsaved(Saved(h[d], later)) <=> Unsaved(Saved(history[d], later))
  BY <1>3, <1>6, <1>7, <1>8
<1>10. leaving \in Targets BY <1>4, <1>5
<1>11. Good(w.leave) BY <1>1, <1>2 DEF Decisive
<1>12. /\ calls \in Seq(Calls) /\ NoneTwice(calls) /\ Silent(calls)
       /\ \A c \in ToSet(calls) : c \in LeaveCalls /\ c.leave = w.leave
  <2> HIDE DEF leaving, w
  <2>3. calls = <<>> \/ \E c \in LeaveCalls : c.leave = w.leave /\ calls = <<c>>
    BY <1>5, <1>10, Going
  <2>4. /\ <<>> \in Seq(Calls) /\ NoneTwice(<<>>) /\ Silent(<<>>)
        /\ ToSet(<<>>) = {}
    BY DEF ToSet, NoneTwice, Silent
  <2> HIDE DEF calls
  <2>1. CASE calls = <<>> BY <2>1, <2>4
  <2>2. ASSUME NEW c \in LeaveCalls, c.leave = w.leave, calls = <<c>> PROVE <1>12
    <3>1. c \in Calls /\ c.call # "modified" BY LeaveCallShapes
    <3>2. <<c>> \in Seq(Calls) /\ ToSet(<<c>>) = {c} /\ NoneTwice(<<c>>)
      BY <3>1 DEF ToSet, NoneTwice
    <3> QED BY <2>2, <3>1, <3>2 DEF Silent
  <2> QED BY <2>1, <2>2, <2>3
<1> HIDE DEF calls
<1>13. \A c \in ToSet(calls) : c.call \in {"open", "destroy"} /\ c.call \notin HandedOver
  BY <1>12, LeaveCallShapes DEF HandedOver
<1>14. /\ inbox' \in Seq(Calls) /\ NoneTwice(inbox') /\ Says(inbox', reported')
       /\ Silent(inbox') => Silent(inbox) /\ reported' = reported
       /\ \A c \in ToSet(inbox') :
             c \in ToSet(inbox) \/ c.call = "modified" \/ c \in ToSet(calls)
       /\ reported' \in BOOLEAN
  <2> DEFINE now == UnsavedOn(history', shown)
             said == inbox \o Report(now)
  <2>1. now \in BOOLEAN BY UnsavedIsBoolean
  <2>2. /\ said \in Seq(Calls)
        /\ \A c \in ToSet(said) : c \in ToSet(inbox) \/ c.call = "modified"
        /\ NoneTwice(said) /\ Says(said, now)
        /\ Silent(said) => Silent(inbox) /\ now = reported
    BY <1>1, <2>1, Told DEF Matched, Heard
  <2> HIDE DEF said
  <2>3. inbox' = said \o calls /\ reported' = now BY <1>2 DEF said
  <2>4. inbox' \in Seq(Calls) /\ ToSet(inbox') = ToSet(said) \cup ToSet(calls)
    BY <1>12, <2>2, <2>3, ConcatProperties, JoinedMembers
  <2>5. NoneTwice(inbox') BY <1>12, <1>13, <2>2, <2>3, NoneTwiceJoined
  <2>6. Says(inbox', now) BY <1>12, <2>2, <2>3, SilentAfter
  <2>7. Silent(inbox') => Silent(said) BY <2>4 DEF Silent
  <2> QED BY <2>1, <2>2, <2>3, <2>4, <2>5, <2>6, <2>7
<1>15. /\ write'[k] \in Ended /\ write'[k].at = "over"
       /\ write'[k].what = w.what /\ write'[k].doc = w.doc /\ write'[k].point = w.point
       /\ write'[k].file = w.file /\ write'[k].overtaken = w.overtaken
       /\ "file" \in DOMAIN w /\ "file" \in DOMAIN write'[k]
       /\ \A j \in Writes : j # k => write'[j] = write[j]
  <2>1. write'[k] = [w EXCEPT !.at = "over"] BY <1>2, <1>3
  <2>2. \A j \in Writes : j # k => write'[j] = write[j] BY <1>2, <1>3
  <2> HIDE DEF w
  <2> QED BY <1>4, <2>1, <2>2 DEF Ended
<1>16. TypeInv'
  <2>1. write' \in [Writes -> Writings] BY <1>2, <1>3, <1>15 DEF Writings
  <2> QED BY <1>1, <1>2, <1>9, <1>14, <2>1 DEF TypeInv
<1>17. Numbered'
  <2>1. \A d \in Docs : d > shown => history'[d] = history[d]
    BY <1>2, <1>3, <1>9, EditAssumption DEF Docs
  <2>2. \A j \in Writes : write'[j].at # "none" => write[j].at # "none" /\ write'[j].doc = write[j].doc
    BY <1>2, <1>15
  <2> QED BY <1>1, <1>2, <2>1, <2>2 DEF Numbered
<1>18. Matched'
  <2>1. ASSUME NEW c \in ToSet(inbox'), c.call = "trip" PROVE trip'[c.doc].at = "asked"
    BY <1>1, <1>2, <1>13, <1>14, <2>1 DEF Matched
  <2>2. ASSUME NEW c \in ToSet(inbox'), c.call = "write" PROVE write'[c.write].at = "sent"
    <3>1. c \in ToSet(inbox) BY <1>13, <1>14, <2>2
    <3>2. write[c.write].at = "sent" BY <1>1, <2>2, <3>1 DEF Matched
    <3>3. c \in Calls BY <1>3, <3>1, Members
    <3>4. c.write \in Writes BY <2>2, <3>3, CallShapes
    <3> QED BY <1>2, <1>15, <3>2, <3>4
  <2>3. \A d \in Docs : Busy(history'[d]) <=> trip'[d].at # "none"
    BY <1>1, <1>2, <1>9 DEF Matched, Busy
  <2> QED BY <1>14, <2>1, <2>2, <2>3 DEF Matched
<1>19. Rewrites'
  <2>1. \A d \in Docs : Fits(history'[d], trip[d]) <=> Fits(history[d], trip[d])
    BY <1>2, <1>9 DEF Fits
  <2> QED BY <1>1, <1>2, <2>1 DEF Rewrites
<1>20. PagesAgree'
  <2>1. session.doc # NoDoc => session.doc \in Docs
    BY <1>1, EditAssumption DEF TypeInv, Sessions, Docs, NoDoc
  <2> QED BY <1>1, <1>2, <1>9, <2>1 DEF PagesAgree
<1>21. OrdersStand' BY <1>2, <1>9, StandingIsNext
<1>22. PointsStand'
  <2>1. \A j \in Writes : write[j].at # "none" => write[j].doc \in Docs
    BY <1>3, WriteShapes
  <2> QED BY <1>1, <1>2, <1>9, <1>15, <2>1 DEF PointsStand
<1>23. Heard' BY <1>1, <1>2, <1>14 DEF Heard
<1>24. ASSUME NEW leave \in Decisions, Good(leave) PROVE Good(leave)'
  <2>1. shown # NoDoc => shown \in Docs BY <1>3, EditAssumption DEF Docs, NoDoc
  <2>2. leave.reference \in Points BY DEF Decisions
  <2> QED BY <1>2, <1>9, <1>24, <2>1, <2>2 DEF Good
<1>25. Decisive'
  <2>1. ASSUME NEW c \in ToSet(inbox'), c.call \in {"open", "destroy"} PROVE Good(c.leave)'
    <3>1. CASE c \in ToSet(inbox)
      <4>1. c \in Calls BY <1>3, <3>1, Members
      <4>2. c.leave \in Decisions /\ Good(c.leave)
        BY <1>1, <2>1, <3>1, <4>1, CallShapes DEF Decisive
      <4> QED BY <1>24, <4>2
    <3>2. CASE c \in ToSet(calls)
      <4>1. c.leave \in Decisions /\ Good(c.leave) BY <1>5, <1>11, <1>12, <3>2
      <4> QED BY <1>24, <4>1
    <3>3. c.call # "modified" BY <2>1
    <3> QED BY <1>14, <3>1, <3>2, <3>3
  <2>2. ASSUME NEW a \in ToSet(opened) PROVE Good(a.leave)'
    <3>1. a \in AnswersToOpen BY <1>1, Members DEF TypeInv
    <3>2. a.leave \in Decisions /\ Good(a.leave) BY <1>1, <3>1 DEF Decisive, AnswersToOpen
    <3> QED BY <1>24, <3>2
  <2>3. ASSUME NEW j \in Writes, write'[j].at \in {"sent", "started", "answered"}
        PROVE  Good(write[j].leave)'
    <3>1. write'[j] = write[j] BY <1>15, <2>3
    <3>2. write[j].leave \in Decisions BY <1>3, <2>3, <3>1, WriteShapes DEF UnderWay, Ended
    <3>3. Good(write[j].leave) BY <1>1, <2>3, <3>1 DEF Decisive
    <3> QED BY <1>24, <3>1, <3>2, <3>3 DEF Good
  <2>4. LostOnlyAfterDeciding' BY <1>1, <1>2 DEF Decisive, LostOnlyAfterDeciding
  <2> QED BY <1>2, <2>1, <2>2, <2>3, <2>4 DEF Decisive, Good
<1>26. Versioned'
  <2>1. \A j \in Writes : write'[j].at \in {"sent", "started"} => write'[j] = write[j] BY <1>15
  <2> QED BY <1>1, <1>2, <2>1 DEF SavedInv, Versioned, Version
<1>27. WrittenAsMeant'
  <2>1. \A j \in Writes : j # k => write'[j] = write[j] BY <1>15
  <2> QED BY <1>1, <1>2, <1>15, <2>1 DEF SavedInv, WrittenAsMeant
<1>28. SavedWasWritten'
  <2>1. ASSUME NEW j \in Writes, FileWritten(write'[j])
        PROVE  \/ write'[j].overtaken
               \/ write'[j].file.doc # write'[j].doc
               \/ write'[j].file.pages = Shown(write'[j].point.order, write'[j].point.pages)
    BY <1>27, <2>1 DEF WrittenAsMeant, FileWritten
  <2>2. ASSUME NEW d \in Docs
        PROVE  \/ history'[d].reference = Opened(Pages).reference
               \/ \E j \in Writes :
                     /\ FileWritten(write'[j])
                     /\ write'[j].doc = d
                     /\ write'[j].point = history'[d].reference
    <3>1. CASE history'[d].reference = history[d].reference
      <4>1. \A j \in Writes : FileWritten(write[j]) => write'[j] = write[j]
        BY <1>2, <1>15 DEF FileWritten
      <4> QED BY <1>1, <3>1, <4>1 DEF SavedInv, SavedWasWritten
    <3>2. CASE history'[d].reference # history[d].reference
      <4>1. moved /\ d = shown /\ history'[d].reference = w.point BY <1>2, <1>9, <3>2
      <4>2. FileWritten(write'[k]) /\ write'[k].doc = d /\ write'[k].point = w.point
        BY <1>15, <4>1 DEF FileWritten
      <4> QED BY <4>1, <4>2
    <3> QED BY <3>1, <3>2
  <2> QED BY <2>1, <2>2 DEF SavedWasWritten, FileWritten
<1> QED
  BY <1>16, <1>17, <1>18, <1>19, <1>20, <1>21, <1>22, <1>23, <1>25, <1>26, <1>27, <1>28
  DEF Inv, DocumentInv, SavedInv

\* What goes with a request to leave is a decision.
LEMMA DecisionsAre ==
  ASSUME TypeInv
  PROVE  /\ \A c \in ToSet(inbox) : c.call \in {"open", "destroy"} => c.leave \in Decisions
         /\ \A a \in ToSet(opened) : a \in AnswersToOpen /\ a.leave \in Decisions
         /\ \A k \in Writes : write[k].at \in {"sent", "started", "answered"} => write[k].leave \in Decisions
<1>1. ASSUME NEW c \in ToSet(inbox), c.call \in {"open", "destroy"} PROVE c.leave \in Decisions
  <2>1. c \in Calls BY Members DEF TypeInv
  <2> QED BY <1>1, <2>1, CallShapes
<1>2. ASSUME NEW a \in ToSet(opened) PROVE a \in AnswersToOpen /\ a.leave \in Decisions
  <2>1. a \in AnswersToOpen BY Members DEF TypeInv
  <2> QED BY <2>1 DEF AnswersToOpen
<1>3. ASSUME NEW k \in Writes, write[k].at \in {"sent", "started", "answered"}
      PROVE  write[k].leave \in Decisions
  BY <1>3, WriteShapes DEF TypeInv, UnderWay, Ended
<1> QED BY <1>1, <1>2, <1>3

\* What is lost when a document leaves the screen was given up, or changed
\* after that was decided.
LEMMA LeavesWell ==
  ASSUME Inv, NEW how, NEW leave \in Decisions, Good(leave), Leaves(how, leave, shown)
  PROVE  LostOnlyAfterDeciding'
<1>1. /\ left'.leave = leave /\ left'.doc = shown
      /\ left'.edits = EditsOf(shown) /\ left'.reference = ReferenceOf(shown)
      /\ left'.lost <=> (shown # NoDoc /\ Unsaved(history[shown]))
  BY DEF Leaves
<1>2. SUFFICES ASSUME left'.lost, left'.doc = leave.doc
               PROVE  \/ leave.why \in Excused
                      \/ left'.edits > leave.edits
                      \/ left'.reference # leave.reference
  BY <1>1 DEF LostOnlyAfterDeciding, Excused
<1>3. shown # NoDoc /\ leave.doc = shown /\ Unsaved(history[shown]) BY <1>1, <1>2
<1>4. shown \in Docs BY <1>3, EditAssumption DEF Inv, TypeInv, Docs, NoDoc
<1>5. history[shown] \in Histories /\ edits[shown] \in Nat /\ leave.edits \in Nat
  BY <1>4 DEF Inv, TypeInv, Decisions
<1>6. left'.edits = edits[shown] /\ left'.reference = history[shown].reference
  BY <1>1, <1>3 DEF EditsOf, ReferenceOf
<1>7. CASE ~Unsaved(Saved(history[shown], leave.reference))
  <2>1. ASSUME leave.reference = history[shown].reference PROVE FALSE
    <3>1. Saved(history[shown], leave.reference) = history[shown]
      BY <1>5, <2>1 DEF Saved, Histories
    <3> QED BY <1>3, <1>7, <3>1
  <2> QED BY <1>6, <2>1
<1> QED BY <1>3, <1>5, <1>6, <1>7 DEF Good

\* The answer to an opening keeps the invariant.
LEMMA OpenAnsweredKeeps == Inv /\ OpenAnswered => Inv'
<1> SUFFICES ASSUME Inv, OpenAnswered PROVE Inv'
  OBVIOUS
<1> DEFINE answer == Head(opened)
<1>1. TypeInv /\ Numbered /\ Matched /\ PointsStand /\ Heard /\ Decisive /\ SavedInv
      /\ PagesAgree /\ OrdersStand /\ Rewrites
  BY DEF Inv, DocumentInv
<1>2. /\ opened # <<>> /\ opened' = Tail(opened)
      /\ UNCHANGED <<edits, write, trip, session, unsaved>>
  BY DEF OpenAnswered
<1>3. /\ opened \in Seq(AnswersToOpen) /\ inbox \in Seq(Calls) /\ shown \in 0..MaxRequests
      /\ password \in Paths \cup {NoPath} /\ question \in Targets
      /\ reported \in BOOLEAN /\ session \in Sessions /\ Nothing \in Targets
      /\ write \in [Writes -> Writings]
  BY <1>1 DEF TypeInv, Targets
<1>4. /\ answer \in AnswersToOpen /\ opened' \in Seq(AnswersToOpen)
      /\ ToSet(opened) = {answer} \cup ToSet(opened')
  BY <1>2, <1>3, TakenOff
<1>5. /\ answer.kind \in {"opened", "password", "failed"} /\ answer.doc \in 0..MaxRequests
      /\ answer.path \in Paths /\ answer.leave \in Decisions /\ Good(answer.leave)
  BY <1>1, <1>4 DEF AnswersToOpen, Decisive
<1>6. /\ 1 \in DOMAIN opened /\ answer = opened[1]
      /\ \A i \in DOMAIN opened' : i \in Int /\ i >= 1 /\ i + 1 \in DOMAIN opened /\ opened'[i] = opened[i + 1]
  BY <1>2, <1>3, LenProperties, EmptySeq, TailPlaces
<1>7. /\ \A c \in ToSet(inbox) : c.call \in {"open", "destroy"} => c.leave \in Decisions /\ Good(c.leave)
      /\ \A a \in ToSet(opened') : a.leave \in Decisions /\ Good(a.leave)
      /\ \A k \in Writes : write[k].at \in {"sent", "started", "answered"} =>
            write[k].leave \in Decisions /\ Good(write[k].leave)
  BY <1>1, <1>4, DecisionsAre DEF Decisive
<1> HIDE DEF answer
<1>8. CASE /\ answer.kind = "opened"
           /\ Handled(history, answer.doc, <<>>)
           /\ Leaves("opened", answer.leave, shown)
           /\ password' = NoPath /\ question' = Nothing
  <2> DEFINE told == inbox \o Report(FALSE)
  <2>1. /\ shown < answer.doc /\ answer.doc <= session.doc
    BY <1>1, <1>6, <1>8 DEF Numbered
  <2>2. answer.doc \in Docs BY <1>3, <1>5, <2>1, EditAssumption DEF Docs
  <2>3. history[answer.doc] = Opened(Pages) BY <1>1, <2>1, <2>2 DEF Numbered
  <2>4. UnsavedOn(history, answer.doc) = FALSE BY <2>3, OpenedIs DEF UnsavedOn
  <2>5. /\ shown' = answer.doc /\ history' = history /\ reported' = FALSE
        /\ inbox' = told \o <<>>
    BY <1>8, <2>4 DEF Handled
  <2>6. /\ told \in Seq(Calls)
        /\ \A c \in ToSet(told) : c \in ToSet(inbox) \/ c.call = "modified"
        /\ NoneTwice(told) /\ Says(told, FALSE)
        /\ Silent(told) => Silent(inbox) /\ reported = FALSE
    BY <1>1, Told DEF Matched, Heard
  <2> HIDE DEF told
  <2>7. inbox' = told BY <2>5, <2>6, ConcatEmptySeq
  <2>8. TypeInv' BY <1>1, <1>2, <1>4, <1>5, <1>8, <1>3, <2>5, <2>6, <2>7 DEF TypeInv
  <2>9. Numbered'
    <3>1. session.doc \in Int /\ shown \in Int /\ answer.doc \in Int BY <1>3, <1>5 DEF Sessions
    <3>2. \A d \in Docs : d > answer.doc => d > shown BY <2>1, <3>1 DEF Docs
    <3>3. ASSUME NEW i \in DOMAIN opened', opened'[i].kind = "opened"
          PROVE  answer.doc < opened'[i].doc /\ opened'[i].doc <= session.doc
      <4>1. i + 1 \in DOMAIN opened /\ 1 < i + 1 /\ opened'[i] = opened[i + 1] BY <1>6
      <4>2. opened[1].kind = "opened" /\ opened[i + 1].kind = "opened" BY <1>6, <1>8, <3>3, <4>1
      <4> QED BY <1>1, <1>6, <4>1, <4>2 DEF Numbered
    <3>4. ASSUME NEW i \in DOMAIN opened', NEW j \in DOMAIN opened', i < j,
                 opened'[i].kind = "opened", opened'[j].kind = "opened"
          PROVE  opened'[i].doc < opened'[j].doc
      <4>1. /\ i + 1 \in DOMAIN opened /\ j + 1 \in DOMAIN opened /\ i + 1 < j + 1
            /\ opened'[i] = opened[i + 1] /\ opened'[j] = opened[j + 1]
        BY <1>6, <3>4
      <4> QED BY <1>1, <3>4, <4>1 DEF Numbered
    <3>5. ASSUME NEW k \in Writes, write[k].at # "none" PROVE write[k].doc <= answer.doc
      <4>1. write[k].doc \in Int /\ write[k].doc <= shown
        BY <1>1, <1>3, <3>5, WriteShapes DEF Numbered, Docs
      <4> QED BY <2>1, <3>1, <4>1
    <3> QED BY <1>1, <1>2, <2>1, <2>5, <3>2, <3>3, <3>4, <3>5 DEF Numbered
  <2>10. Matched' BY <1>1, <1>2, <2>5, <2>6, <2>7 DEF Matched
  <2>11. Rewrites' /\ PagesAgree' /\ OrdersStand' /\ PointsStand'
    BY <1>1, <1>2, <2>5 DEF Rewrites, PagesAgree, OrdersStand, PointsStand
  <2>12. Heard'
    <3>1. reported' = UnsavedOn(history', shown') BY <2>4, <2>5
    <3>2. unsaved \in BOOLEAN BY <1>1 DEF TypeInv
    <3>3. Silent(inbox') => unsaved = FALSE BY <1>1, <2>6, <2>7, <3>2 DEF Heard
    <3> QED BY <1>2, <2>5, <2>6, <2>7, <3>1, <3>3 DEF Heard
  <2>13. ASSUME NEW leave \in Decisions, Good(leave) PROVE Good(leave)'
    <3>1. leave.doc \in Int /\ shown \in Int /\ answer.doc \in Int BY <1>3, <1>5 DEF Decisions
    <3>2. leave.doc <= shown BY <2>13 DEF Good
    <3>3. leave.doc <= answer.doc /\ leave.doc # answer.doc BY <2>1, <3>1, <3>2
    <3> QED BY <2>5, <3>3 DEF Good
  <2>14. LostOnlyAfterDeciding' BY <1>5, <1>8, LeavesWell
  <2>15. Decisive'
    <3>1. \A c \in ToSet(inbox') : c.call \in {"open", "destroy"} => c \in ToSet(inbox)
      BY <2>6, <2>7
    <3> QED BY <1>2, <1>7, <2>13, <2>14, <3>1 DEF Decisive, Good
  <2>16. SavedInv'
    BY <1>1, <1>2, <2>5 DEF SavedInv, Versioned, Version, WrittenAsMeant, SavedWasWritten, FileWritten
  <2> QED BY <2>8, <2>9, <2>10, <2>11, <2>12, <2>15, <2>16 DEF Inv, DocumentInv
<1>9. CASE /\ answer.kind # "opened"
           /\ password' \in Paths \cup {NoPath}
           /\ UNCHANGED <<shown, history, question, reported, inbox, left>>
  <2>1. TypeInv' BY <1>1, <1>2, <1>4, <1>9 DEF TypeInv
  <2>2. Numbered'
    <3>1. ASSUME NEW i \in DOMAIN opened', NEW j \in DOMAIN opened', i < j,
                 opened'[i].kind = "opened", opened'[j].kind = "opened"
          PROVE  opened'[i].doc < opened'[j].doc
      <4>1. /\ i + 1 \in DOMAIN opened /\ j + 1 \in DOMAIN opened /\ i + 1 < j + 1
            /\ opened'[i] = opened[i + 1] /\ opened'[j] = opened[j + 1]
        BY <1>6, <3>1
      <4> QED BY <1>1, <3>1, <4>1 DEF Numbered
    <3> QED BY <1>1, <1>2, <1>6, <1>9, <3>1 DEF Numbered
  <2>3. Matched' /\ Rewrites' /\ PagesAgree' /\ OrdersStand' /\ PointsStand'
    BY <1>1, <1>2, <1>9 DEF Matched, Rewrites, PagesAgree, OrdersStand, PointsStand
  <2>4. Heard' BY <1>1, <1>2, <1>4, <1>9 DEF Heard, UnsavedOn
  <2>5. Decisive' BY <1>1, <1>2, <1>7, <1>9 DEF Decisive, Good, LostOnlyAfterDeciding
  <2>6. SavedInv'
    BY <1>1, <1>2, <1>9 DEF SavedInv, Versioned, Version, WrittenAsMeant, SavedWasWritten, FileWritten
  <2> QED BY <2>1, <2>2, <2>3, <2>4, <2>5, <2>6 DEF Inv, DocumentInv
<1> QED BY <1>3, <1>5, <1>8, <1>9 DEF OpenAnswered, answer

-----------------------------------------------------------------------------
(* The main thread of the Rust side.                                       *)

\* What is left once a call is run.
LEMMA CallRun ==
  ASSUME Inv, NEW what, Called(what)
  PROVE  LET call == Head(inbox)
         IN  /\ call \in Calls /\ call \in ToSet(inbox) /\ call.call = what
             /\ inbox' \in Seq(Calls) /\ ToSet(inbox') \subseteq ToSet(inbox)
             /\ NoneTwice(inbox')
             /\ what \in HandedOver => call \notin ToSet(inbox')
             /\ Says(inbox', reported)
             /\ what = "modified" /\ Silent(inbox') => call.value = reported
             /\ what # "modified" => (Silent(inbox') => Silent(inbox))
             /\ UNCHANGED <<shown, history, edits, password, question, reported>>
<1>1. inbox \in Seq(Calls) /\ inbox # <<>> /\ inbox' = Tail(inbox) /\ Head(inbox).call = what
      /\ UNCHANGED <<shown, history, edits, password, question, reported>>
  BY DEF Called, Inv, TypeInv
<1>2. /\ Head(inbox) \in Calls /\ Tail(inbox) \in Seq(Calls)
      /\ ToSet(inbox) = {Head(inbox)} \cup ToSet(Tail(inbox))
  BY <1>1, TakenOff
<1>3. NoneTwice(inbox) /\ Says(inbox, reported) BY DEF Inv, DocumentInv, Matched, Heard
<1>4. /\ NoneTwice(Tail(inbox))
      /\ Head(inbox).call \in HandedOver => Head(inbox) \notin ToSet(Tail(inbox))
  BY <1>1, <1>3, NoneTwiceTail
<1>5. /\ Says(Tail(inbox), reported)
      /\ Head(inbox).call = "modified" /\ Silent(Tail(inbox)) => Head(inbox).value = reported
      /\ Head(inbox).call # "modified" => (Silent(Tail(inbox)) <=> Silent(inbox))
  BY <1>1, <1>3, WordHeard
<1> QED BY <1>1, <1>2, <1>4, <1>5

\* What one more answer to an opening leaves in order.
LEMMA AnsweredInOrder ==
  ASSUME Inv, NEW a \in AnswersToOpen, opened' = Append(opened, a),
         a.kind = "opened" => session.doc < a.doc
  PROVE  /\ opened' \in Seq(AnswersToOpen)
         /\ ToSet(opened') = ToSet(opened) \cup {a}
         /\ \A i, j \in DOMAIN opened' :
               opened'[i].kind = "opened" /\ opened'[j].kind = "opened" /\ i < j
                   => opened'[i].doc < opened'[j].doc
<1>1. opened \in Seq(AnswersToOpen) /\ Numbered /\ session \in Sessions
  BY DEF Inv, TypeInv, DocumentInv
<1>2. /\ opened' \in Seq(AnswersToOpen) /\ Len(opened) \in Nat
      /\ DOMAIN opened = 1..Len(opened) /\ DOMAIN opened' = 1..(Len(opened) + 1)
      /\ \A i \in 1..Len(opened) : opened'[i] = opened[i] /\ opened[i] \in AnswersToOpen
      /\ opened'[Len(opened) + 1] = a
  BY <1>1, LenProperties, AppendProperties, ElementOfSeq
<1>3. ASSUME NEW i \in DOMAIN opened', NEW j \in DOMAIN opened', i < j,
             opened'[i].kind = "opened", opened'[j].kind = "opened"
      PROVE  opened'[i].doc < opened'[j].doc
  <2>1. i \in 1..Len(opened) /\ opened'[i] = opened[i] BY <1>2, <1>3
  <2>2. CASE j \in 1..Len(opened)
    <3>1. opened'[j] = opened[j] BY <1>2, <2>2
    <3> QED BY <1>1, <1>2, <1>3, <2>1, <2>2, <3>1 DEF Numbered
  <2>3. CASE j = Len(opened) + 1
    <3>1. opened'[j] = a BY <1>2, <2>3
    <3>2. opened[i].doc <= session.doc /\ session.doc < a.doc
      BY <1>1, <1>2, <1>3, <2>1, <3>1 DEF Numbered
    <3>3. opened[i].doc \in Int /\ session.doc \in Int /\ a.doc \in Int
      BY <1>1, <1>2, <2>1 DEF AnswersToOpen, Sessions
    <3> QED BY <2>1, <3>1, <3>2, <3>3
  <2> QED BY <1>2, <2>2, <2>3
<1>4. ToSet(opened') = ToSet(opened) \cup {a} BY <1>1, OneMore
<1> QED BY <1>2, <1>3, <1>4

\* A document opened, a password asked for, or a failure keeps the invariant.
LEMMA OpenDocumentKeeps == Inv /\ OpenDocument => Inv'
<1> SUFFICES ASSUME Inv, OpenDocument PROVE Inv'
  OBVIOUS
<1> DEFINE call == Head(inbox)
           answer(kind, d) == [kind |-> kind, doc |-> d, path |-> call.path, leave |-> call.leave]
<1>1. TypeInv /\ Numbered /\ Matched /\ PointsStand /\ Heard /\ Decisive /\ SavedInv
      /\ PagesAgree /\ OrdersStand /\ Rewrites
  BY DEF Inv, DocumentInv
<1>2. /\ call \in Calls /\ call \in ToSet(inbox) /\ call.call = "open"
      /\ inbox' \in Seq(Calls) /\ ToSet(inbox') \subseteq ToSet(inbox)
      /\ NoneTwice(inbox') /\ Says(inbox', reported)
      /\ Silent(inbox') => Silent(inbox)
      /\ UNCHANGED <<shown, history, edits, password, question, reported, write, trip, left>>
  BY CallRun DEF OpenDocument
<1>3. call.path \in Paths /\ call.leave \in Decisions /\ Good(call.leave)
  BY <1>1, <1>2, CallShapes DEF Decisive
<1>4. /\ session \in Sessions /\ shown \in 0..MaxRequests /\ MaxRequests \in Nat
      /\ opened \in Seq(AnswersToOpen) /\ write \in [Writes -> Writings] /\ unsaved \in BOOLEAN
  BY <1>1, EditAssumption DEF TypeInv
<1>5. \A i \in DOMAIN opened : opened[i] \in ToSet(opened) BY DEF ToSet
<1>6. /\ \A c \in ToSet(inbox) : c.call \in {"open", "destroy"} => c.leave \in Decisions /\ Good(c.leave)
      /\ \A a \in ToSet(opened) : a \in AnswersToOpen /\ a.leave \in Decisions /\ Good(a.leave)
      /\ \A k \in Writes : write[k].at \in {"sent", "started", "answered"} =>
            write[k].leave \in Decisions /\ Good(write[k].leave)
  BY <1>1, DecisionsAre DEF Decisive
<1> HIDE DEF call
<1>7. CASE /\ session.doc + 1 \in Docs
           /\ session' = [doc |-> session.doc + 1, version |-> 0, pages |-> [p \in 1..Pages |-> 0]]
           /\ unsaved' = FALSE
           /\ opened' = Append(opened, answer("opened", session.doc + 1))
  <2> DEFINE d == session.doc + 1
             a == answer("opened", d)
  <2>1. /\ session.doc \in Int /\ d = session.doc + 1 /\ d \in Docs /\ d > shown /\ shown \in Int
        /\ session'.doc = d /\ session'.version = 0 /\ session'.pages = [p \in 1..Pages |-> 0]
        /\ d # NoDoc
    BY <1>1, <1>4, <1>7 DEF Numbered, Sessions, Docs, NoDoc
  <2>2. a \in AnswersToOpen /\ a.kind = "opened" /\ a.doc = d /\ a.leave = call.leave
    BY <1>3, <1>4, <2>1 DEF AnswersToOpen, Docs
  <2> HIDE DEF d, a
  <2>3. /\ opened' \in Seq(AnswersToOpen) /\ ToSet(opened') = ToSet(opened) \cup {a}
        /\ \A i, j \in DOMAIN opened' :
              opened'[i].kind = "opened" /\ opened'[j].kind = "opened" /\ i < j
                  => opened'[i].doc < opened'[j].doc
    BY <1>7, <2>1, <2>2, AnsweredInOrder DEF a, d
  <2>4. history[d] = Opened(Pages) /\ trip[d] = NoTrip BY <1>1, <2>1 DEF Numbered
  <2>5. session' \in Sessions
    <3>1. [p \in 1..Pages |-> 0] \in Seq(Nat) BY EditAssumption
    <3> QED BY <1>4, <1>7, <2>1, <3>1 DEF Sessions, Docs
  <2>6. TypeInv' BY <1>1, <1>2, <1>7, <2>3, <2>5 DEF TypeInv
  <2>7. Numbered'
    <3>1. ASSUME NEW i \in DOMAIN opened', opened'[i].kind = "opened"
          PROVE  shown < opened'[i].doc /\ opened'[i].doc <= d
      <4>1. opened'[i] \in ToSet(opened) \cup {a} BY <2>3 DEF ToSet
      <4>2. CASE opened'[i] = a BY <2>1, <2>2, <4>2
      <4>3. CASE opened'[i] \in ToSet(opened)
        <5>1. PICK j \in DOMAIN opened : opened[j] = opened'[i] BY <4>3 DEF ToSet
        <5>2. shown < opened[j].doc /\ opened[j].doc <= session.doc
          BY <1>1, <3>1, <5>1 DEF Numbered
        <5>3. opened[j].doc \in Int BY <1>5, <1>6 DEF AnswersToOpen
        <5> QED BY <2>1, <5>1, <5>2, <5>3
      <4> QED BY <4>1, <4>2, <4>3
    <3>2. shown <= d BY <2>1
    <3> QED BY <1>1, <1>2, <2>1, <2>3, <3>1, <3>2 DEF Numbered
  <2>8. Matched' BY <1>1, <1>2 DEF Matched
  <2>9. Rewrites'
    <3>1. trip[d].at # "rewriting" BY <2>4 DEF NoTrip
    <3> QED BY <1>1, <1>2, <2>1, <3>1 DEF Rewrites
  <2>10. PagesAgree'
    <3>1. trip[d].at # "answered" /\ history[d].pages = [p \in 1..Pages |-> 0]
      BY <2>4 DEF NoTrip, Opened
    <3> QED BY <1>2, <2>1, <3>1 DEF PagesAgree
  <2>11. OrdersStand' /\ PointsStand' BY <1>1, <1>2 DEF OrdersStand, PointsStand
  <2>12. Heard' BY <1>1, <1>2, <1>7, <2>2, <2>3 DEF Heard, UnsavedOn
  <2>13. Decisive'
    BY <1>1, <1>2, <1>3, <1>6, <2>2, <2>3 DEF Decisive, Good, LostOnlyAfterDeciding
  <2>14. Versioned'
    <3>1. ASSUME NEW k \in Writes, write[k].at \in {"sent", "started"}
          PROVE  write[k].version.doc <= d /\ write[k].version.doc # d
      <4>1. write[k].version.doc \in Int BY <1>4, <3>1, WriteShapes DEF UnderWay
      <4>2. write[k].version.doc <= session.doc BY <1>1, <3>1 DEF SavedInv, Versioned
      <4> QED BY <2>1, <4>1, <4>2
    <3>2. Version'.doc = d BY <2>1 DEF Version
    <3> QED BY <1>2, <2>1, <3>1, <3>2 DEF Versioned
  <2>15. WrittenAsMeant' /\ SavedWasWritten'
    BY <1>1, <1>2 DEF SavedInv, WrittenAsMeant, SavedWasWritten, FileWritten
  <2> QED
    BY <2>6, <2>7, <2>8, <2>9, <2>10, <2>11, <2>12, <2>13, <2>14, <2>15 DEF Inv, DocumentInv, SavedInv
<1>8. ASSUME NEW kind \in {"password", "failed"}, UNCHANGED <<session, unsaved>>,
             opened' = Append(opened, answer(kind, NoDoc))
      PROVE  Inv'
  <2> DEFINE a == answer(kind, NoDoc)
  <2>1. a \in AnswersToOpen /\ a.kind = kind /\ a.kind # "opened" /\ a.leave = call.leave
    BY <1>3, <1>4 DEF AnswersToOpen, NoDoc
  <2> HIDE DEF a
  <2>2. /\ opened' \in Seq(AnswersToOpen) /\ ToSet(opened') = ToSet(opened) \cup {a}
        /\ \A i, j \in DOMAIN opened' :
              opened'[i].kind = "opened" /\ opened'[j].kind = "opened" /\ i < j
                  => opened'[i].doc < opened'[j].doc
    BY <1>8, <2>1, AnsweredInOrder DEF a
  <2>3. TypeInv' BY <1>1, <1>2, <1>8, <2>2 DEF TypeInv
  <2>4. Numbered'
    <3>1. ASSUME NEW i \in DOMAIN opened', opened'[i].kind = "opened"
          PROVE  shown < opened'[i].doc /\ opened'[i].doc <= session.doc
      <4>1. opened'[i] \in ToSet(opened) BY <2>1, <2>2, <3>1 DEF ToSet
      <4>2. PICK j \in DOMAIN opened : opened[j] = opened'[i] BY <4>1 DEF ToSet
      <4> QED BY <1>1, <3>1, <4>2 DEF Numbered
    <3> QED BY <1>1, <1>2, <1>8, <2>2, <3>1 DEF Numbered
  <2>5. Matched' /\ Rewrites' /\ PagesAgree' /\ OrdersStand' /\ PointsStand'
    BY <1>1, <1>2, <1>8 DEF Matched, Rewrites, PagesAgree, OrdersStand, PointsStand
  <2>6. Heard' BY <1>1, <1>2, <1>8, <2>2 DEF Heard, UnsavedOn
  <2>7. Decisive'
    BY <1>1, <1>2, <1>3, <1>6, <2>1, <2>2 DEF Decisive, Good, LostOnlyAfterDeciding
  <2>8. SavedInv'
    BY <1>1, <1>2, <1>8 DEF SavedInv, Versioned, Version, WrittenAsMeant, SavedWasWritten, FileWritten
  <2> QED BY <2>3, <2>4, <2>5, <2>6, <2>7, <2>8 DEF Inv, DocumentInv
<1> QED BY <1>7, <1>8 DEF OpenDocument, call

\* A word heard keeps the invariant (main.rs, document_modified).
LEMMA DocumentModifiedKeeps == Inv /\ DocumentModified => Inv'
<1> SUFFICES ASSUME Inv, DocumentModified PROVE Inv'
  OBVIOUS
<1>1. TypeInv /\ Numbered /\ Matched /\ PointsStand /\ Heard /\ Decisive /\ SavedInv
      /\ PagesAgree /\ OrdersStand /\ Rewrites
  BY DEF Inv, DocumentInv
<1>2. /\ Head(inbox) \in Calls /\ Head(inbox).call = "modified"
      /\ inbox' \in Seq(Calls) /\ ToSet(inbox') \subseteq ToSet(inbox)
      /\ NoneTwice(inbox') /\ Says(inbox', reported)
      /\ Silent(inbox') => unsaved' = reported
      /\ UNCHANGED <<shown, history, edits, password, question, reported>>
      /\ UNCHANGED <<write, opened, trip, session, left>>
      /\ unsaved' = Head(inbox).value
  BY CallRun DEF DocumentModified
<1>3. TypeInv'
  <2>1. unsaved' \in BOOLEAN BY <1>2, CallShapes
  <2> QED BY <1>1, <1>2, <2>1 DEF TypeInv
<1>4. Numbered' /\ Matched' /\ Rewrites' /\ PagesAgree' /\ OrdersStand' /\ PointsStand'
  BY <1>1, <1>2 DEF Numbered, Matched, Rewrites, PagesAgree, OrdersStand, PointsStand
<1>5. Heard' BY <1>1, <1>2 DEF Heard, UnsavedOn
<1>6. Decisive' BY <1>1, <1>2 DEF Decisive, Good, LostOnlyAfterDeciding
<1>7. SavedInv'
  BY <1>1, <1>2 DEF SavedInv, Versioned, Version, WrittenAsMeant, SavedWasWritten, FileWritten
<1> QED BY <1>3, <1>4, <1>5, <1>6, <1>7 DEF Inv, DocumentInv

\* The window closed as decided keeps the invariant.
LEMMA CloseWindowKeeps == Inv /\ CloseWindow => Inv'
<1> SUFFICES ASSUME Inv, CloseWindow PROVE Inv'
  OBVIOUS
<1>1. TypeInv /\ Numbered /\ Matched /\ PointsStand /\ Heard /\ Decisive /\ SavedInv
      /\ PagesAgree /\ OrdersStand /\ Rewrites
  BY DEF Inv, DocumentInv
<1>2. /\ Head(inbox) \in Calls /\ Head(inbox) \in ToSet(inbox) /\ Head(inbox).call = "destroy"
      /\ inbox' \in Seq(Calls) /\ ToSet(inbox') \subseteq ToSet(inbox)
      /\ NoneTwice(inbox') /\ Says(inbox', reported)
      /\ Silent(inbox') => Silent(inbox)
      /\ UNCHANGED <<shown, history, edits, password, question, reported>>
      /\ UNCHANGED <<write, opened, trip, session, unsaved>>
  BY CallRun DEF CloseWindow
<1>3. TypeInv' BY <1>1, <1>2 DEF TypeInv
<1>4. Numbered' /\ Matched' /\ Rewrites' /\ PagesAgree' /\ OrdersStand' /\ PointsStand'
  BY <1>1, <1>2 DEF Numbered, Matched, Rewrites, PagesAgree, OrdersStand, PointsStand
<1>5. Heard' BY <1>1, <1>2 DEF Heard, UnsavedOn
<1>6. LostOnlyAfterDeciding'
  <2>1. Head(inbox).leave \in Decisions /\ Good(Head(inbox).leave)
    BY <1>1, <1>2, DecisionsAre DEF Decisive
  <2> QED BY <2>1, LeavesWell DEF CloseWindow
<1>7. Decisive' BY <1>1, <1>2, <1>6 DEF Decisive, Good
<1>8. SavedInv'
  BY <1>1, <1>2 DEF SavedInv, Versioned, Version, WrittenAsMeant, SavedWasWritten, FileWritten
<1> QED BY <1>3, <1>4, <1>5, <1>7, <1>8 DEF Inv, DocumentInv

\* The window closed by the system: on nothing to lose, as far as the Rust
\* side was told, or because the interface cannot be told.
LEMMA NativeCloseKeeps == Inv /\ NativeClose => Inv'
<1> SUFFICES ASSUME Inv, NativeClose PROVE Inv'
  OBVIOUS
<1>1. TypeInv /\ Numbered /\ Matched /\ PointsStand /\ Heard /\ Decisive /\ SavedInv
      /\ PagesAgree /\ OrdersStand /\ Rewrites
  BY DEF Inv, DocumentInv
<1>2. UNCHANGED <<shown, history, edits, password, question, reported, write,
                  inbox, opened, trip, session, unsaved>>
  BY DEF NativeClose
<1>3. TypeInv' BY <1>1, <1>2 DEF TypeInv
<1>4. Numbered' /\ Matched' /\ Rewrites' /\ PagesAgree' /\ OrdersStand' /\ PointsStand'
  BY <1>1, <1>2 DEF Numbered, Matched, Rewrites, PagesAgree, OrdersStand, PointsStand
<1>5. Heard' BY <1>1, <1>2 DEF Heard, UnsavedOn
<1>6. LostOnlyAfterDeciding'
  <2>1. CASE left' = left BY <1>1, <2>1 DEF Decisive, LostOnlyAfterDeciding
  <2> DEFINE heard == opened = <<>> /\ \A i \in DOMAIN inbox : inbox[i].call # "modified"
             why == IF heard THEN "told" ELSE "not told yet"
  <2>2. CASE ~unsaved /\ Leaves("closed", Decided(why), shown)
    <3>1. CASE heard
      <4>1. Silent(inbox) BY <3>1 DEF Silent, ToSet
      <4>2. ToSet(opened) = {} BY <3>1 DEF ToSet
      <4>3. unsaved = reported BY <1>1, <4>1, <4>2 DEF Heard
      <4>4. ~UnsavedOn(history, shown) BY <1>1, <2>2, <4>3 DEF Heard
      <4>5. ~left'.lost BY <2>2, <4>4 DEF Leaves, UnsavedOn
      <4> QED BY <4>5 DEF LostOnlyAfterDeciding
    <3>2. CASE ~heard
      <4>1. left'.leave.why = "not told yet" BY <2>2, <3>2 DEF Leaves, Decided
      <4> QED BY <4>1 DEF LostOnlyAfterDeciding
    <3> QED BY <3>1, <3>2
  <2>3. CASE Leaves("closed", Decided("cannot be told"), shown)
    <3>1. left'.leave.why = "cannot be told" BY <2>3 DEF Leaves, Decided
    <3> QED BY <3>1 DEF LostOnlyAfterDeciding
  <2> QED BY <2>1, <2>2, <2>3 DEF NativeClose
<1>7. Decisive' BY <1>1, <1>2, <1>6 DEF Decisive, Good
<1>8. SavedInv'
  BY <1>1, <1>2 DEF SavedInv, Versioned, Version, WrittenAsMeant, SavedWasWritten, FileWritten
<1> QED BY <1>3, <1>4, <1>5, <1>7, <1>8 DEF Inv, DocumentInv

\* A command handed to another thread keeps the invariant.
LEMMA SpawnKeeps == Inv /\ Spawn => Inv'
<1> SUFFICES ASSUME Inv, Spawn PROVE Inv'
  OBVIOUS
<1> DEFINE call == Head(inbox)
<1>1. TypeInv /\ Numbered /\ Matched /\ PointsStand /\ Heard /\ Decisive /\ SavedInv
      /\ PagesAgree /\ OrdersStand /\ Rewrites
  BY DEF Inv, DocumentInv
<1>2. /\ call \in Calls /\ call \in ToSet(inbox) /\ call.call \in HandedOver
      /\ inbox' \in Seq(Calls) /\ ToSet(inbox') \subseteq ToSet(inbox)
      /\ NoneTwice(inbox') /\ Says(inbox', reported)
      /\ Silent(inbox') => Silent(inbox)
      /\ call \notin ToSet(inbox')
      /\ UNCHANGED <<shown, history, edits, password, question, reported>>
      /\ UNCHANGED <<opened, session, unsaved, left>>
  <2>1. "trip" \in HandedOver /\ "write" \in HandedOver BY DEF HandedOver
  <2> QED BY <2>1, CallRun DEF Spawn
<1>3. /\ trip \in [Docs -> Trips] /\ write \in [Writes -> Writings] /\ inbox \in Seq(Calls)
      /\ \A c \in ToSet(inbox) : c \in Calls
  BY <1>1, Members DEF TypeInv
<1>4. \/ /\ call.call = "trip" /\ trip' = [trip EXCEPT ![call.doc] = [at |-> "started"]] /\ write' = write
      \/ /\ call.call = "write" /\ write' = [write EXCEPT ![call.write].at = "started"] /\ trip' = trip
  BY DEF Spawn, Called
<1> HIDE DEF call
<1>5. /\ trip' \in [Docs -> Trips]
      /\ \A d \in Docs :
            \/ trip'[d] = trip[d]
            \/ trip[d].at = "asked" /\ trip'[d].at = "started" /\ call.call = "trip" /\ call.doc = d
  <2>1. CASE call.call = "trip" /\ trip' = [trip EXCEPT ![call.doc] = [at |-> "started"]]
    <3>1. call.doc \in Docs /\ trip[call.doc].at = "asked" BY <1>1, <1>2, <2>1, CallShapes DEF Matched
    <3>2. [at |-> "started"] \in Trips BY DEF Trips, Quiet
    <3> QED BY <1>3, <2>1, <3>1, <3>2
  <2> QED BY <1>3, <1>4, <2>1
<1>6. /\ write' \in [Writes -> Writings]
      /\ \A k \in Writes :
            \/ write'[k] = write[k]
            \/ /\ write[k].at = "sent" /\ write'[k].at = "started" /\ call.call = "write" /\ call.write = k
               /\ write'[k].what = write[k].what /\ write'[k].doc = write[k].doc
               /\ write'[k].point = write[k].point /\ write'[k].version = write[k].version
               /\ write'[k].leave = write[k].leave
  <2>1. CASE call.call = "write" /\ write' = [write EXCEPT ![call.write].at = "started"]
    <3> DEFINE k == call.write
    <3>1. k \in Writes /\ write[k].at = "sent" /\ write[k] \in UnderWay
      BY <1>1, <1>2, <1>3, <2>1, CallShapes, WriteShapes DEF Matched
    <3>2. write'[k] = [write[k] EXCEPT !.at = "started"] BY <1>3, <2>1, <3>1
    <3>3. \A j \in Writes : j # k => write'[j] = write[j] BY <1>3, <2>1, <3>1
    <3>4. /\ write'[k] \in UnderWay /\ write'[k].at = "started"
          /\ write'[k].what = write[k].what /\ write'[k].doc = write[k].doc
          /\ write'[k].point = write[k].point /\ write'[k].version = write[k].version
          /\ write'[k].leave = write[k].leave
      BY <3>1, <3>2 DEF UnderWay
    <3> QED BY <1>3, <2>1, <3>1, <3>3, <3>4 DEF Writings
  <2> QED BY <1>3, <1>4, <2>1
<1>7. TypeInv' BY <1>1, <1>2, <1>5, <1>6 DEF TypeInv
<1>8. Numbered'
  <2>1. \A d \in Docs : d > shown => trip'[d] = trip[d] BY <1>1, <1>5 DEF Numbered, NoTrip
  <2>2. \A k \in Writes : write'[k].at # "none" => write[k].at # "none" /\ write'[k].doc = write[k].doc
    BY <1>6
  <2> QED BY <1>1, <1>2, <2>1, <2>2 DEF Numbered
<1>9. Matched'
  <2>1. ASSUME NEW c \in ToSet(inbox'), c.call = "trip" PROVE trip'[c.doc].at = "asked"
    <3>1. c \in Calls /\ c \in ToSet(inbox) /\ c # call BY <1>2, <1>3
    <3>2. c.doc \in Docs /\ c = TripCall(c.doc) /\ trip[c.doc].at = "asked"
      BY <1>1, <2>1, <3>1, CallShapes DEF Matched
    <3>3. call.call = "trip" => call = TripCall(call.doc) BY <1>2, CallShapes
    <3> QED BY <1>5, <3>1, <3>2, <3>3
  <2>2. ASSUME NEW c \in ToSet(inbox'), c.call = "write" PROVE write'[c.write].at = "sent"
    <3>1. c \in Calls /\ c \in ToSet(inbox) /\ c # call BY <1>2, <1>3
    <3>2. c.write \in Writes /\ c = WriteCall(c.write) /\ write[c.write].at = "sent"
      BY <1>1, <2>2, <3>1, CallShapes DEF Matched
    <3>3. call.call = "write" => call = WriteCall(call.write) BY <1>2, CallShapes
    <3> QED BY <1>6, <3>1, <3>2, <3>3
  <2>3. \A d \in Docs : Busy(history'[d]) <=> trip'[d].at # "none"
    BY <1>1, <1>2, <1>5 DEF Matched
  <2> QED BY <1>2, <2>1, <2>2, <2>3 DEF Matched
<1>10. Rewrites'
  <2>1. \A d \in Docs : trip'[d].at \in {"rewriting", "answered"} => trip'[d] = trip[d] BY <1>5
  <2> QED BY <1>1, <1>2, <2>1 DEF Rewrites
<1>11. PagesAgree'
  <2>1. session.doc # NoDoc => session.doc \in Docs
    BY <1>1, EditAssumption DEF TypeInv, Sessions, Docs, NoDoc
  <2> QED BY <1>1, <1>2, <1>5, <2>1 DEF PagesAgree
<1>12. OrdersStand' BY <1>1, <1>2 DEF OrdersStand
<1>13. PointsStand' BY <1>1, <1>2, <1>6 DEF PointsStand
<1>14. Heard' BY <1>1, <1>2 DEF Heard, UnsavedOn
<1>15. Decisive'
  <2>1. \A k \in Writes : write'[k].at \in {"sent", "started", "answered"} =>
            write[k].at \in {"sent", "started", "answered"} /\ write'[k].leave = write[k].leave
    BY <1>6
  <2> QED BY <1>1, <1>2, <2>1 DEF Decisive, Good, LostOnlyAfterDeciding
<1>16. Versioned'
  BY <1>1, <1>2, <1>6 DEF SavedInv, Versioned, Version
<1>17. WrittenAsMeant'
  <2>1. \A k \in Writes : write'[k].at \in {"answered", "over"} => write'[k] = write[k] BY <1>6
  <2> QED BY <1>1, <2>1 DEF SavedInv, WrittenAsMeant
<1>18. SavedWasWritten'
  <2>1. \A k \in Writes : write'[k].at = "over" \/ write[k].at = "over" => write'[k] = write[k] BY <1>6
  <2> QED BY <1>1, <1>2, <2>1 DEF SavedInv, SavedWasWritten, FileWritten
<1> QED
  BY <1>7, <1>8, <1>9, <1>10, <1>11, <1>12, <1>13, <1>14, <1>15, <1>16, <1>17, <1>18
  DEF Inv, DocumentInv, SavedInv

-----------------------------------------------------------------------------
(* The other threads of the Rust side.                                     *)

\* A round trip moves on at the Rust side: what the interface holds, says and
\* waits for does not change.
LEMMA TripMoves ==
  ASSUME Inv, NEW d \in Docs, RustThread, write' = write, NEW t \in Trips,
         trip[d].at \in {"started", "rewriting"},
         trip' = [trip EXCEPT ![d] = t], t.at \in {"rewriting", "answered"},
         session' \in Sessions, session'.doc = session.doc,
         Rewrites', PagesAgree', Versioned'
  PROVE  Inv'
<1>1. TypeInv /\ Numbered /\ Matched /\ PointsStand /\ Heard /\ Decisive /\ SavedInv
      /\ OrdersStand
  BY DEF Inv, DocumentInv
<1>2. /\ UNCHANGED <<shown, history, edits, password, question, reported, inbox, opened, unsaved, left>>
      /\ trip \in [Docs -> Trips] /\ inbox \in Seq(Calls)
  BY <1>1 DEF RustThread, TypeInv
<1>3. /\ trip'[d] = t /\ \A e \in Docs : e # d => trip'[e] = trip[e]
      /\ trip' \in [Docs -> Trips]
  BY <1>2
<1>4. TypeInv' BY <1>1, <1>2, <1>3 DEF TypeInv
<1>5. Numbered'
  <2>1. ~(d > shown) BY <1>1 DEF Numbered, NoTrip
  <2> QED BY <1>1, <1>2, <1>3, <2>1 DEF Numbered
<1>6. Matched'
  <2>1. ASSUME NEW c \in ToSet(inbox), c.call = "trip" PROVE trip'[c.doc].at = "asked"
    <3>1. c.doc \in Docs BY <1>2, <2>1, Members, CallShapes
    <3> QED BY <1>1, <1>3, <2>1, <3>1 DEF Matched
  <2> QED BY <1>1, <1>2, <1>3, <2>1 DEF Matched
<1>7. OrdersStand' /\ PointsStand' BY <1>1, <1>2 DEF OrdersStand, PointsStand
<1>8. Heard' BY <1>1, <1>2 DEF Heard, UnsavedOn
<1>9. Decisive' BY <1>1, <1>2 DEF Decisive, Good, LostOnlyAfterDeciding
<1>10. WrittenAsMeant' /\ SavedWasWritten'
  BY <1>1, <1>2 DEF SavedInv, WrittenAsMeant, SavedWasWritten, FileWritten
<1> QED BY <1>4, <1>5, <1>6, <1>7, <1>8, <1>9, <1>10 DEF Inv, DocumentInv, SavedInv

\* The document as it stands is taken, or is not the one meant.
LEMMA TakeCurrentKeeps == ASSUME NEW d \in Docs, Inv, TakeCurrent(d) PROVE Inv'
<1>1. TypeInv /\ Matched /\ Rewrites /\ PagesAgree /\ Versioned
  BY DEF Inv, DocumentInv, SavedInv
<1>2. /\ RustThread /\ trip[d].at = "started" /\ write' = write /\ session' = session
      /\ history' = history
  BY DEF TakeCurrent, RustThread
<1>3. session \in Sessions /\ trip \in [Docs -> Trips] BY <1>1 DEF TypeInv
<1>4. Versioned' BY <1>1, <1>2 DEF Versioned, Version
<1>5. session.doc # NoDoc => session.doc \in Docs
  BY <1>3, EditAssumption DEF Sessions, Docs, NoDoc
<1>6. ASSUME NEW t \in Trips, trip' = [trip EXCEPT ![d] = t],
             \/ t.at = "rewriting" /\ t.from = session
             \/ t.at = "answered" /\ ~t.ok
      PROVE  Inv'
  <2>1. trip'[d] = t /\ \A e \in Docs : e # d => trip'[e] = trip[e] BY <1>3, <1>6
  <2>2. Rewrites' BY <1>1, <1>2, <1>6, <2>1 DEF Rewrites, Fits
  <2>3. PagesAgree' BY <1>1, <1>2, <1>5, <1>6, <2>1 DEF PagesAgree
  <2> QED BY <1>2, <1>3, <1>4, <1>6, <2>2, <2>3, TripMoves
<1>7. CASE trip' = [trip EXCEPT ![d] = [at |-> "rewriting", from |-> session]]
  <2> DEFINE t == [at |-> "rewriting", from |-> session]
  <2>1. t \in Trips /\ t.at = "rewriting" /\ t.from = session
    BY <1>3 DEF Trips, Rewriting
  <2> HIDE DEF t
  <2> QED BY <1>6, <1>7, <2>1 DEF t
<1>8. CASE Answer(d, FALSE, <<>>)
  <2> DEFINE t == [at |-> "answered", ok |-> FALSE, pages |-> <<>>]
  <2>1. t \in Trips /\ t.at = "answered" /\ ~t.ok BY DEF Trips, TripsAnswered
  <2>2. trip' = [trip EXCEPT ![d] = t] BY <1>8 DEF Answer
  <2> HIDE DEF t
  <2> QED BY <1>6, <2>1, <2>2
<1> QED BY <1>7, <1>8 DEF TakeCurrent

\* What a rewrite makes of the pages fits what was asked for.
LEMMA RewrittenFits ==
  ASSUME NEW pages \in Seq(Nat), NEW task \in Turnings \cup Mergings,
         NEW made \in Rewritten(pages, task)
  PROVE  /\ made \in Seq(Nat)
         /\ task.what = "merge" => Len(made) > Len(pages)
         /\ task.what # "merge" => Len(made) = Len(pages)
<1>1. CASE task.what = "merge"
  <2>1. PICK n \in 1..Appended : made = pages \o [i \in 1..n |-> 0] BY <1>1 DEF Rewritten
  <2>2. Appended \in Nat BY EditAssumption
  <2>3. n \in Nat /\ n >= 1 BY <2>2
  <2>4. [i \in 1..n |-> 0] \in Seq(Nat) /\ Len([i \in 1..n |-> 0]) = n BY <2>3
  <2>5. Len(pages) \in Nat BY LenProperties
  <2> DEFINE added == [i \in 1..n |-> 0]
  <2>6. added \in Seq(Nat) /\ Len(added) = n BY <2>4
  <2> HIDE DEF added
  <2>7. pages \o added \in Seq(Nat) /\ Len(pages \o added) = Len(pages) + Len(added)
    BY <2>6, ConcatProperties
  <2>8. made = pages \o added BY <2>1 DEF added
  <2> QED BY <1>1, <2>3, <2>5, <2>6, <2>7, <2>8
<1>2. CASE task.what # "merge"
  <2>1. made = TurnedBy(pages, task.edit.pages, TurnsOf(task)) BY <1>2 DEF Rewritten
  <2>2. task \in Turnings BY <1>2 DEF Mergings
  <2>3. TurnsOf(task) \in Nat BY <2>2 DEF TurnsOf, Turnings, RotationEdits
  <2> QED BY <1>2, <2>1, <2>3, TurningKeepsPages
<1> QED BY <1>1, <1>2

\* The session once its document was rewritten.
LEMMA SessionRewritten ==
  ASSUME NEW s \in Sessions, NEW pages \in Seq(Nat)
  PROVE  LET next == [s EXCEPT !.version = @ + 1, !.pages = pages]
         IN  /\ next \in Sessions /\ next.doc = s.doc
             /\ next.version = s.version + 1 /\ next.pages = pages
<1>1. s.version + 1 \in Nat BY DEF Sessions
<1> QED BY <1>1 DEF Sessions

\* The result of a rewrite is applied to the document it was made from, or
\* not at all.
LEMMA CommitKeeps == ASSUME NEW d \in Docs, Inv, Commit(d) PROVE Inv'
<1> DEFINE from == trip[d].from
           task == Head(history[d].queue)
<1>1. TypeInv /\ Matched /\ Rewrites /\ PagesAgree /\ Versioned /\ OrdersStand
  BY DEF Inv, DocumentInv, SavedInv
<1>2. RustThread /\ trip[d].at = "rewriting" /\ write' = write /\ history' = history
  BY DEF Commit, RustThread
<1>3. /\ session \in Sessions /\ trip \in [Docs -> Trips] /\ history[d] \in Histories
      /\ write \in [Writes -> Writings] /\ d # NoDoc
  BY <1>1, EditAssumption DEF TypeInv, Docs, NoDoc
<1>4. session.doc # NoDoc => session.doc \in Docs
  BY <1>3, EditAssumption DEF Sessions, Docs, NoDoc
<1>5. Busy(history[d]) BY <1>1, <1>2 DEF Matched
<1>6. task \in Turnings \cup Mergings
  BY <1>3, <1>5, HeadTailProperties DEF Busy, Histories
<1>7. /\ history[d].pages \in Seq(Nat) /\ Len(history[d].pages) \in Nat
      /\ Len(history[d].pages) >= 1
  BY <1>1, <1>3, StandingIs, StandsInSome, LenProperties DEF Standing, Histories
<1>8. ASSUME SameDocument(d, from), NEW pages \in Rewritten(from.pages, task),
             session' = [session EXCEPT !.version = @ + 1, !.pages = pages],
             Answer(d, TRUE, pages)
      PROVE  Inv'
  <2>1. session.doc = d /\ from = session BY <1>1, <1>2, <1>8 DEF SameDocument, Rewrites
  <2>2. session.pages = history[d].pages BY <1>1, <1>2, <1>3, <2>1 DEF PagesAgree
  <2>3. pages \in Rewritten(history[d].pages, task) BY <1>8, <2>1, <2>2
  <2>4. /\ pages \in Seq(Nat)
        /\ task.what = "merge" => Len(pages) > Len(history[d].pages)
        /\ task.what # "merge" => Len(pages) = Len(history[d].pages)
    BY <1>6, <1>7, <2>3, RewrittenFits
  <2>5. pages # <<>> BY <1>7, <2>4, EmptySeq, LenProperties
  <2>6. /\ session' \in Sessions /\ session'.doc = session.doc
        /\ session'.version = session.version + 1 /\ session'.pages = pages
    BY <1>3, <1>8, <2>4, SessionRewritten
  <2> DEFINE t == [at |-> "answered", ok |-> TRUE, pages |-> pages]
  <2>7. t \in Trips /\ t.at = "answered" /\ t.ok /\ t.pages = pages
    BY <2>4 DEF Trips, TripsAnswered
  <2>8. trip' = [trip EXCEPT ![d] = t] BY <1>8 DEF Answer
  <2> HIDE DEF t
  <2>9. trip'[d] = t /\ \A e \in Docs : e # d => trip'[e] = trip[e] BY <1>3, <2>8
  <2>10. Fits(history[d], t) BY <2>4, <2>7 DEF Fits
  <2>11. Rewrites'
    <3>1. \A e \in Docs : e # d => session'.doc # e BY <2>1, <2>6
    <3> QED BY <1>1, <1>2, <2>7, <2>9, <2>10, <3>1 DEF Rewrites
  <2>12. PagesAgree' BY <1>2, <2>1, <2>5, <2>6, <2>7, <2>9 DEF PagesAgree
  <2>13. Versioned'
    <3>1. ASSUME NEW k \in Writes, write[k].at \in {"sent", "started"}
          PROVE  /\ write[k].version.doc <= session.doc
                 /\ write[k].version.doc = session.doc => write[k].version.version < session'.version
      <4>1. write[k].version.version \in Int /\ session.version \in Int
        BY <1>3, <3>1, WriteShapes DEF UnderWay, Sessions
      <4> QED BY <1>1, <2>6, <3>1, <4>1 DEF Versioned
    <3>2. ASSUME NEW k \in Writes, write[k].at \in {"sent", "started"}
          PROVE  /\ write[k].version.doc = session.doc => write[k].version.version <= session'.version
                 /\ write[k].version # Version'
      <4>1. write[k].version.version \in Int /\ session'.version \in Int
        BY <1>3, <2>6, <3>2, WriteShapes DEF UnderWay, Sessions
      <4>2. Version'.doc = session.doc /\ Version'.version = session'.version BY <2>6 DEF Version
      <4> QED BY <3>1, <3>2, <4>1, <4>2
    <3> QED BY <1>2, <2>6, <3>1, <3>2 DEF Versioned
  <2> QED BY <1>2, <2>6, <2>7, <2>8, <2>11, <2>12, <2>13, TripMoves
<1>9. ASSUME NEW t \in TripsAnswered, trip' = [trip EXCEPT ![d] = t], session' = session,
             t.ok => task.what = "merge" /\ t.pages = <<>>
      PROVE  Inv'
  <2>1. trip'[d] = t /\ \A e \in Docs : e # d => trip'[e] = trip[e] BY <1>3, <1>9
  <2>2. t \in Trips /\ t.at = "answered" BY DEF Trips, TripsAnswered
  <2>3. Rewrites'
    <3>1. Fits(history[d], t) BY <1>9 DEF Fits
    <3> QED BY <1>1, <1>2, <1>9, <2>1, <2>2, <3>1 DEF Rewrites
  <2>4. PagesAgree' BY <1>1, <1>2, <1>4, <1>9, <2>1 DEF PagesAgree
  <2>5. Versioned' BY <1>1, <1>2, <1>9 DEF Versioned, Version
  <2> QED BY <1>2, <1>3, <1>9, <2>2, <2>3, <2>4, <2>5, TripMoves
<1>10. CASE Answer(d, FALSE, <<>>) /\ session' = session
  <2> DEFINE t == [at |-> "answered", ok |-> FALSE, pages |-> <<>>]
  <2>1. t \in TripsAnswered /\ ~t.ok BY DEF TripsAnswered
  <2>2. trip' = [trip EXCEPT ![d] = t] BY <1>10 DEF Answer
  <2> HIDE DEF t
  <2> QED BY <1>9, <1>10, <2>1, <2>2
<1>11. CASE task.what = "merge" /\ Answer(d, TRUE, <<>>) /\ session' = session
  <2> DEFINE t == [at |-> "answered", ok |-> TRUE, pages |-> <<>>]
  <2>1. t \in TripsAnswered /\ t.pages = <<>> BY DEF TripsAnswered
  <2>2. trip' = [trip EXCEPT ![d] = t] BY <1>11 DEF Answer
  <2> HIDE DEF t
  <2> QED BY <1>9, <1>11, <2>1, <2>2
<1> QED BY <1>8, <1>10, <1>11 DEF Commit

\* The pages asked for are written as the current document has them.
LEMMA WriteFileKeeps == ASSUME NEW k \in Writes, Inv, WriteFile(k) PROVE Inv'
<1> DEFINE w == write[k]
           order == w.point.order
           done(file) ==
               [at |-> "answered", what |-> w.what, doc |-> w.doc, leaving |-> w.leaving,
                meant |-> w.meant, point |-> w.point, leave |-> w.leave, file |-> file,
                overtaken |-> w.version # Version]
<1>1. TypeInv /\ Numbered /\ Matched /\ PointsStand /\ Heard /\ Decisive /\ SavedInv
      /\ PagesAgree /\ OrdersStand /\ Rewrites
  BY DEF Inv, DocumentInv
<1>2. /\ UNCHANGED <<shown, history, edits, password, question, reported, inbox, opened,
                     unsaved, left, trip, session>>
      /\ w.at = "started"
  BY DEF WriteFile, RustThread
<1>3. /\ write \in [Writes -> Writings] /\ inbox \in Seq(Calls)
      /\ session.doc \in 0..MaxRequests /\ session.pages \in Seq(Nat)
  BY <1>1 DEF TypeInv, Sessions
<1>4. w \in UnderWay BY <1>2, <1>3, WriteShapes
<1>5. \E file \in Files :
         /\ write' = [write EXCEPT ![k] = done(file)]
         /\ w.what = "save" /\ file # NoFile =>
               \/ w.version # Version
               \/ file.doc # w.doc
               \/ file.pages = Shown(w.point.order, w.point.pages)
  <2>1. CASE write' = [write EXCEPT ![k] = done(NoFile)]
    <3>1. NoFile \in Files BY DEF Files
    <3> QED BY <2>1, <3>1
  <2>2. CASE /\ ToSet(order) \subseteq DOMAIN session.pages
             /\ write' = [write EXCEPT ![k] = done([doc |-> session.doc, pages |-> Shown(order, session.pages)])]
    <3> DEFINE file == [doc |-> session.doc, pages |-> Shown(order, session.pages)]
    <3>1. order \in Seq(Nat) BY <1>4 DEF UnderWay, Points
    <3>2. Shown(order, session.pages) \in Seq(Nat \X Nat)
      <4>1. /\ Len(order) \in Nat /\ DOMAIN order = 1..Len(order)
            /\ \A i \in 1..Len(order) : order[i] \in Nat /\ order[i] \in DOMAIN session.pages
        BY <2>2, <3>1, LenProperties, ElementOfSeq DEF ToSet
      <4>2. \A p \in DOMAIN session.pages : session.pages[p] \in Nat
        BY <1>3, ElementOfSeq, LenProperties
      <4> QED BY <4>1, <4>2 DEF Shown
    <3>3. file \in Files BY <1>3, <3>2 DEF Files
    <3>4. w.what = "save" /\ w.version = Version /\ session.doc = w.doc => w.point.pages = session.pages
      BY <1>1, <1>2 DEF SavedInv, Versioned
    <3> QED BY <2>2, <3>3, <3>4
  <2> QED BY <2>1, <2>2 DEF WriteFile
<1>6. PICK file \in Files :
         /\ write' = [write EXCEPT ![k] = done(file)]
         /\ w.what = "save" /\ file # NoFile =>
               \/ w.version # Version
               \/ file.doc # w.doc
               \/ file.pages = Shown(w.point.order, w.point.pages)
  BY <1>5
<1>7. /\ write'[k] = done(file) /\ \A j \in Writes : j # k => write'[j] = write[j]
      /\ done(file).at = "answered" /\ done(file).what = w.what /\ done(file).doc = w.doc
      /\ done(file).point = w.point /\ done(file).leave = w.leave /\ done(file).file = file
      /\ done(file).overtaken <=> w.version # Version
      /\ done(file) \in Ended
  <2>1. write'[k] = done(file) /\ \A j \in Writes : j # k => write'[j] = write[j] BY <1>3, <1>6
  <2> HIDE DEF w
  <2>2. done(file) \in Ended BY <1>4 DEF UnderWay, Ended
  <2> QED BY <2>1, <2>2
<1> HIDE DEF done
<1>8. TypeInv'
  <2>1. write' \in [Writes -> Writings] BY <1>3, <1>6, <1>7 DEF Writings
  <2> QED BY <1>1, <1>2, <2>1 DEF TypeInv
<1>9. Numbered'
  <2>1. \A j \in Writes : write'[j].at # "none" => write[j].at # "none" /\ write'[j].doc = write[j].doc
    BY <1>2, <1>7
  <2> QED BY <1>1, <1>2, <2>1 DEF Numbered
<1>10. Matched'
  <2>1. ASSUME NEW c \in ToSet(inbox), c.call = "write" PROVE write'[c.write].at = "sent"
    <3>1. c.write \in Writes BY <1>3, <2>1, Members, CallShapes
    <3>2. write[c.write].at = "sent" BY <1>1, <2>1 DEF Matched
    <3> QED BY <1>2, <1>7, <3>1, <3>2
  <2> QED BY <1>1, <1>2, <2>1 DEF Matched
<1>11. Rewrites' /\ PagesAgree' /\ OrdersStand'
  BY <1>1, <1>2 DEF Rewrites, PagesAgree, OrdersStand
<1>12. PointsStand' BY <1>1, <1>2, <1>7 DEF PointsStand
<1>13. Heard' BY <1>1, <1>2 DEF Heard, UnsavedOn
<1>14. Decisive'
  <2>1. \A j \in Writes : write'[j].at \in {"sent", "started", "answered"} =>
            write[j].at \in {"sent", "started", "answered"} /\ write'[j].leave = write[j].leave
    BY <1>2, <1>7
  <2> QED BY <1>1, <1>2, <2>1 DEF Decisive, Good, LostOnlyAfterDeciding
<1>15. Versioned'
  <2>1. \A j \in Writes : write'[j].at \in {"sent", "started"} => write'[j] = write[j] BY <1>7
  <2> QED BY <1>1, <1>2, <2>1 DEF SavedInv, Versioned, Version
<1>16. WrittenAsMeant' BY <1>1, <1>6, <1>7 DEF SavedInv, WrittenAsMeant
<1>17. SavedWasWritten'
  <2>1. \A j \in Writes : write'[j].at = "over" \/ write[j].at = "over" => write'[j] = write[j]
    BY <1>2, <1>7
  <2> QED BY <1>1, <1>2, <2>1 DEF SavedInv, SavedWasWritten, FileWritten
<1> QED
  BY <1>8, <1>9, <1>10, <1>11, <1>12, <1>13, <1>14, <1>15, <1>16, <1>17 DEF Inv, DocumentInv, SavedInv

-----------------------------------------------------------------------------
(* The invariant holds, and what follows from it.                          *)

\* Nothing happens.
LEMMA StutterKeeps == Inv /\ UNCHANGED vars => Inv'
<1> SUFFICES ASSUME Inv, UNCHANGED vars PROVE Inv'
  OBVIOUS
<1>1. UNCHANGED <<shown, history, edits, password, question, reported, write, inbox, opened,
                  trip, session, unsaved, left>>
  BY DEF vars
<1>2. TypeInv' BY <1>1 DEF Inv, TypeInv
<1>3. DocumentInv'
  BY <1>1 DEF Inv, DocumentInv, Numbered, Matched, Rewrites, PagesAgree, OrdersStand, PointsStand
<1>4. Heard' BY <1>1 DEF Inv, Heard, UnsavedOn
<1>5. Decisive' BY <1>1 DEF Inv, Decisive, Good, LostOnlyAfterDeciding
<1>6. SavedInv'
  BY <1>1 DEF Inv, SavedInv, Versioned, Version, WrittenAsMeant, SavedWasWritten, FileWritten
<1> QED BY <1>2, <1>3, <1>4, <1>5, <1>6 DEF Inv

\* Every step keeps it.
LEMMA NextKeeps == Inv /\ [Next]_vars => Inv'
<1> SUFFICES ASSUME Inv, [Next]_vars PROVE Inv'
  OBVIOUS
<1>1. TypeInv /\ Numbered /\ OrdersStand BY DEF Inv, DocumentInv
<1>2. CASE \/ \E path \in Paths : RequestOpen(path)
           \/ TypePassword \/ ClosePassword \/ CloseRequested \/ AnswerCancel \/ AnswerDiscard
  BY <1>1, <1>2, LeavingSteps, GoesOnKeeps
<1>3. ASSUME NEW k \in Writes,
             \/ Save(k) \/ AnswerSave(k) \/ PickFile(k)
             \/ \E P \in SUBSET Positions : Extract(k, P)
      PROVE  Inv'
  BY <1>1, <1>3, WritingSteps, WriteStepKeeps
<1>4. CASE /\ shown # NoDoc
           /\ \/ \E P \in SUBSET DOMAIN history[shown].order :
                    \/ Delete(P)
                    \/ \E turns \in Turns : TurnPages(P, turns)
                    \/ \E target \in 0..Len(history[shown].order) : Move(P, target)
              \/ \E at \in 0..Len(history[shown].order) : Merge(at)
              \/ Undo \/ Redo
  BY <1>1, <1>4, EditingSteps, EditStepKeeps
<1>5. CASE UserAction
  <2>1. CASE NativeClose BY <2>1, NativeCloseKeeps
  <2>2. CASE \E k \in Writes, P \in SUBSET Positions :
                shown # NoDoc /\ P \subseteq DOMAIN history[shown].order /\ Extract(k, P)
    BY <1>3, <2>2
  <2>3. CASE \E k \in Writes : Save(k) \/ AnswerSave(k) \/ PickFile(k) BY <1>3, <2>3
  <2> QED BY <1>2, <1>4, <1>5, <2>1, <2>2, <2>3 DEF UserAction
<1>6. CASE Interface
  BY <1>2, <1>6, OpenAnsweredKeeps, TripAnsweredKeeps, WriteAnsweredKeeps DEF Interface
<1>7. CASE MainThread
  BY <1>7, OpenDocumentKeeps, DocumentModifiedKeeps, CloseWindowKeeps, SpawnKeeps DEF MainThread
<1>8. CASE \E d \in Docs : TakeCurrent(d) \/ Commit(d)
  BY <1>8, TakeCurrentKeeps, CommitKeeps
<1>9. CASE \E k \in Writes : WriteFile(k) BY <1>9, WriteFileKeeps
<1>10. CASE UNCHANGED vars BY <1>10, StutterKeeps
<1> QED BY <1>5, <1>6, <1>7, <1>8, <1>9, <1>10 DEF Next

\* The inductive invariant, for every number of documents, pages, edits and
\* writes: types, and the parts the properties below are taken from.
THEOREM Consistent == Spec => []Inv
<1>1. Inv /\ [Next]_vars => Inv' BY NextKeeps
<1> QED BY InitInv, <1>1, PTL DEF Spec

\* The pages the interface describes are those the Rust side holds, but for
\* an answer on its way (main.rs, AppState::commit; history.ts).
THEOREM InterfaceSeesItsDocument == Spec => []PagesAgree
<1>1. Inv => PagesAgree BY DEF Inv, DocumentInv
<1> QED BY Consistent, <1>1, PTL

\* Every order shown, saved, undone or redone names pages of the file, none
\* twice and at least one (history.ts; ops.rs, check_selection).
THEOREM OrdersAlwaysStand == Spec => []OrdersStand
<1>1. Inv => OrdersStand BY DEF Inv, DocumentInv
<1> QED BY Consistent, <1>1, PTL

\* Once everything said is heard, the Rust side holds the window open exactly
\* when there is something to lose (main.ts, refreshButtons; main.rs,
\* document_modified).
THEOREM TheWindowIsHeld == Spec => []HoldsWhatMustBeHeld
<1>1. Inv => HoldsWhatMustBeHeld
  <2> SUFFICES ASSUME Heard, opened = <<>>,
                      \A i \in DOMAIN inbox : inbox[i].call \notin {"open", "modified"}
               PROVE  unsaved = UnsavedOn(history, shown)
    BY DEF Inv, HoldsWhatMustBeHeld
  <2>1. Silent(inbox) BY DEF Silent, ToSet
  <2>2. ToSet(opened) = {} BY DEF ToSet
  <2> QED BY <2>1, <2>2 DEF Heard
<1> QED BY Consistent, <1>1, PTL

\* Work is lost only if the user gave it up, or if what was decided on
\* changed meanwhile (main.ts, mayLeave; main.rs, close_requested).
THEOREM NoWorkIsLostUnasked == Spec => []LostOnlyAfterDeciding
<1>1. Inv => LostOnlyAfterDeciding BY DEF Inv, Decisive
<1> QED BY Consistent, <1>1, PTL

\* No document is taken for saved without a file that holds what was saved,
\* unless something got there first (main.ts, save; session.rs, save).
THEOREM SavedMeansWritten == Spec => []SavedWasWritten
<1>1. Inv => SavedWasWritten BY DEF Inv, SavedInv
<1> QED BY Consistent, <1>1, PTL
=============================================================================
