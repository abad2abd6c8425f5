----------------------------- MODULE PageHistory -----------------------------
(***************************************************************************)
(* The undo history of one open document (app/ui/src/history.ts), as       *)
(* operators on a record:                                                  *)
(*   order      the pages shown, as numbers of pages of the file;          *)
(*   pages      the rotation of each page of the file, in quarter turns,   *)
(*              as the Rust side last described it;                        *)
(*   reference  the order and the pages as opened, or as last saved;       *)
(*   past       the edits done, and future those undone, last one last;    *)
(*   queue      the round trips asked for and not over: the first one is   *)
(*              under way, the others wait for their turn.                 *)
(* `running` is the length of the queue.  Pages are counted from 1.        *)
(***************************************************************************)
EXTENDS Integers, Sequences, FiniteSets, SequencesExt

Opened(n) ==
    LET file == [order |-> [i \in 1..n |-> i], pages |-> [i \in 1..n |-> 0]]
    IN  [order |-> file.order, pages |-> file.pages, reference |-> file,
         past |-> <<>>, future |-> <<>>, queue |-> <<>>]

Busy(h) == h.queue # <<>>

Rotation(pages, p) == IF p \in DOMAIN pages THEN pages[p] ELSE -1

Modified(h) ==
    \/ h.order # h.reference.order
    \/ \E i \in DOMAIN h.order :
          Rotation(h.pages, h.order[i]) # Rotation(h.reference.pages, h.order[i])

Unsaved(h) == Busy(h) \/ Modified(h)

ToSave(h) == [order |-> h.order, pages |-> h.pages]

Saved(h, point) == [h EXCEPT !.reference = point]
-----------------------------------------------------------------------------
(* Edits done here: they are refused while a round trip runs.              *)

OrderEdit(before, after) == [kind |-> "order", before |-> before, after |-> after]
RotationEdit(pages, turns) == [kind |-> "rotation", pages |-> pages, turns |-> turns]

KeepsUndone(h, edit) == [h EXCEPT !.past = Append(@, edit)]

Recorded(h, edit) == [h EXCEPT !.past = Append(@, edit), !.future = <<>>]

Reordered(h, next) == [Recorded(h, OrderEdit(h.order, next)) EXCEPT !.order = next]

\* The numbers of a finite set, in ascending order.
Nth(S, k) == CHOOSE i \in S : Cardinality({j \in S : j <= i}) = k
Ascending(S) == [k \in 1..Cardinality(S) |-> Nth(S, k)]

\* The pages at positions P of an order, and those at the others.
At(order, P) ==
    LET positions == P \cap DOMAIN order
    IN  [k \in 1..Cardinality(positions) |-> order[Nth(positions, k)]]
Without(order, P) == At(order, DOMAIN order \ P)

\* The order once the pages at positions P start at `target`, a position
\* (counted from 0) in the order without them.
MovedTo(order, P, target) ==
    LET rest == Without(order, P)
        n == IF target < Len(rest) THEN target ELSE Len(rest)
    IN  SubSeq(rest, 1, n) \o At(order, P) \o SubSeq(rest, n + 1, Len(rest))

MayReorder(h, next) == ~Busy(h) /\ next # h.order

MayRemoveAll(h, P) == MayReorder(h, Without(h.order, P))

MayRemove(h, P) ==
    /\ Without(h.order, P) # <<>>
    /\ MayReorder(h, Without(h.order, P))

CanUndo(h) == ~Busy(h) /\ h.past # <<>>
CanRedo(h) == ~Busy(h) /\ h.future # <<>>

UndoneOrder(h) ==
    LET edit == Last(h.past)
    IN  [h EXCEPT !.past = Front(@), !.future = Append(@, edit), !.order = edit.before]

RedoneOrder(h) ==
    LET edit == Last(h.future)
    IN  [h EXCEPT !.future = Front(@), !.past = Append(@, edit), !.order = edit.after]
-----------------------------------------------------------------------------
(* Round trips: a task keeps what it was asked for.                        *)

Task(what, edit, at) == [what |-> what, edit |-> edit, at |-> at]

Enqueued(h, task) == [h EXCEPT !.queue = Append(@, task)]

\* What the Rust side makes of pages: those of P turned, within a full turn.
TurnedBy(pages, P, turns) ==
    [p \in DOMAIN pages |-> IF p \in P THEN (pages[p] + turns) % 4 ELSE pages[p]]

\* The quarter turns task asks for.
TurnsOf(task) == IF task.what = "undo" THEN (4 - task.edit.turns) % 4 ELSE task.edit.turns

\* What becomes of the history once the Rust side answered `pages` to task.
Turned(h, task, pages) ==
    LET described == [h EXCEPT !.pages = pages]
    IN  CASE task.what = "rotate" -> Recorded(described, task.edit)
          [] task.what = "undo" ->
                [described EXCEPT !.past = Front(@), !.future = Append(@, task.edit)]
          [] task.what = "redo" ->
                [described EXCEPT !.future = Front(@), !.past = Append(@, task.edit)]

\* A merge adds pages at the end of the file, and in the order from
\* position `at`, or from the end.
OrderMerged(h, task, pages) ==
    LET known == Len(h.pages)
        added == [i \in 1..(Len(pages) - known) |-> known + i]
        n == IF task.at < Len(h.order) THEN task.at ELSE Len(h.order)
    IN  SubSeq(h.order, 1, n) \o added \o SubSeq(h.order, n + 1, Len(h.order))

\* Mutant: the pages added are not described.
MergedUndescribed(h, task, pages) ==
    LET after == OrderMerged(h, task, pages)
    IN  IF Len(pages) <= Len(h.pages)
        THEN h
        ELSE [Recorded(h, OrderEdit(h.order, after)) EXCEPT !.order = after]

Merged(h, task, pages) ==
    LET after == OrderMerged(h, task, pages)
    IN  IF Len(pages) <= Len(h.pages)
        THEN h
        ELSE [Recorded(h, OrderEdit(h.order, after)) EXCEPT !.pages = pages, !.order = after]

\* The history once its first task got `answer`; a failure changes nothing.
Answered(h, answer) ==
    CASE ~answer.ok -> h
      [] answer.ok /\ Head(h.queue).what = "merge" -> Merged(h, Head(h.queue), answer.pages)
      [] answer.ok /\ Head(h.queue).what # "merge" -> Turned(h, Head(h.queue), answer.pages)

SettledIfDone(h, answer) ==
    IF answer.ok THEN [Answered(h, answer) EXCEPT !.queue = Tail(@)] ELSE h

\* The first task is over in any case, and the next one has its turn.
Settled(h, answer) == [Answered(h, answer) EXCEPT !.queue = Tail(@)]
-----------------------------------------------------------------------------
(* What a history amounts to: one document per edit, from the one opened   *)
(* to the one the last redo would give, and the place of the current one.  *)

\* The pages shown, each with its rotation.
Shown(order, pages) == [i \in DOMAIN order |-> <<order[i], pages[order[i]]>>]

Before(doc, edit) ==
    IF edit.kind = "order"
    THEN [doc EXCEPT !.order = edit.before]
    ELSE [doc EXCEPT !.pages = TurnedBy(@, edit.pages, 4 - edit.turns)]

After(doc, edit) ==
    IF edit.kind = "order"
    THEN [doc EXCEPT !.order = edit.after]
    ELSE [doc EXCEPT !.pages = TurnedBy(@, edit.pages, edit.turns)]

\* The documents of h: document n is the one after n edits of the past,
\* found by going back from the current one, or on from it to the last redo.
Tape(h) ==
    LET m == Len(h.past)
        edit == h.past \o Reverse(h.future)
        doc[n \in 0..Len(edit)] ==
            CASE n = m -> ToSave(h)
              [] n < m -> Before(doc[n + 1], edit[n + 1])
              [] n > m -> After(doc[n - 1], edit[n])
    IN  [n \in 1..(Len(edit) + 1) |-> Shown(doc[n - 1].order, doc[n - 1].pages)]
Place(h) == Len(h.past) + 1
=============================================================================
