----------------------------- MODULE EditSession -----------------------------
(***************************************************************************)
(* The document being edited: the interface (app/ui/src/main.ts), which    *)
(* keeps its history (PageHistory.tla), and the Rust side (app/src/main.rs *)
(* and session.rs), which keeps its bytes.                                 *)
(*                                                                         *)
(* The interface is one thread: an action of it is one event handled up to *)
(* its first `await`, or the answer it awaited and what follows.  What it  *)
(* asks of the Rust side goes to the main thread, in order (inbox).  The   *)
(* commands that are not `async` (open, report, close) run there and then; *)
(* the others (turn, merge, write) are handed to another thread, and take  *)
(* the document when they get its lock.  The file pickers are given no     *)
(* parent window: whether they hold the window meanwhile is up to the      *)
(* system (Modal).                                                         *)
(*                                                                         *)
(* Documents are numbered in the order they are opened; `version` counts   *)
(* the rewrites of one, so that [doc, version] stands for `Session::id`.   *)
(* `edits`, `left`, the decisions carried by `leave`, and what a write      *)
(* meant are not in the code: the properties are stated with them.         *)
(***************************************************************************)
EXTENDS PageHistory

CONSTANTS
    Paths, NoPath,  \* the files one may open, and "none"
    Protected,      \* those that need a password
    Pages,          \* how many pages each holds
    Turns,          \* the quarter turns asked for: 1 right, 3 left
    Modal,          \* whether a file picker holds the window while it is open
    Closes,         \* whether the system asks the window to close
    MaxRequests,    \* bound: openings and closings the user asks for
    MaxEdits,       \* bound: edits asked for, per document
    Appended,       \* bound: a merge adds from 1 to Appended pages
    MaxPages,       \* bound: the pages of a document, merges included
    MaxWrites       \* bound: saves and extractions asked for

ASSUME EditAssumption ==
    /\ NoPath \notin Paths
    /\ Protected \subseteq Paths
    /\ Pages \in Nat \ {0}
    /\ Turns \subseteq {1, 3}
    /\ {Modal, Closes} \subseteq BOOLEAN
    /\ {MaxRequests, MaxEdits, Appended, MaxPages, MaxWrites} \subseteq Nat

Docs == 1..MaxRequests
NoDoc == 0
Writes == 1..MaxWrites

VARIABLES
    \* the interface
    shown,      \* the document on screen, or NoDoc (state.info, state.history)
    history,    \* history[d]: the history of document d
    edits,      \* edits[d]: the edits asked for in document d
    password,   \* the file whose password is being asked for, or NoPath
    question,   \* what the question asked stands in the way of, or Nothing
    reported,   \* what the Rust side was last told
    merging,    \* whether a merge is running
    write,      \* write[k]: the k-th save or extraction asked for
    requests,   \* the openings and closings the user asked for so far
    \* between the two
    inbox,      \* what the main thread was asked and has not run
    opened,     \* the answers to `open_document` not received yet
    closing,    \* whether the interface is being told of a request to close
    trip,       \* trip[d]: where the round trip of document d is
    \* the Rust side
    session,    \* AppState::session
    unsaved,    \* AppState::unsaved
    left        \* how the last document left was left, or the window

vars == <<shown, history, edits, password, question, reported, merging, write,
          requests, inbox, opened, closing, trip, session, unsaved, left>>

Nothing == [to |-> "nothing", path |-> NoPath]
Close == [to |-> "close", path |-> NoPath]
Open(path) == [to |-> "open", path |-> path]
Leavings == {Close} \cup {Open(path) : path \in Paths}

\* How document d stands: the edits asked for, and what it was saved as.
EditsOf(d) == IF d = NoDoc THEN 0 ELSE edits[d]
ReferenceOf(d) == IF d = NoDoc THEN Opened(Pages).reference ELSE history[d].reference

\* Why leaving went ahead, and how which document stood then.
Decided(why) ==
    [why |-> why, doc |-> shown, edits |-> EditsOf(shown), reference |-> ReferenceOf(shown)]
Undecided ==
    [why |-> "undecided", doc |-> NoDoc, edits |-> 0, reference |-> Opened(Pages).reference]

WindowOpen == left.how # "closed"

\* Document d leaves the screen, as `leave` decided: was anything lost?
Leaves(how, leave, d) ==
    left' = [how |-> how, leave |-> leave, doc |-> d,
             edits |-> EditsOf(d), reference |-> ReferenceOf(d),
             lost |-> d # NoDoc /\ Unsaved(history[d])]

NoTrip == [at |-> "none"]
NoWrite == [at |-> "none"]
NoFile == <<>>

Init ==
    /\ shown = NoDoc
    /\ history = [d \in Docs |-> Opened(Pages)]
    /\ edits = [d \in Docs |-> 0]
    /\ password = NoPath
    /\ question = Nothing
    /\ reported = FALSE
    /\ merging = FALSE
    /\ write = [k \in Writes |-> NoWrite]
    /\ requests = 0
    /\ inbox = <<>>
    /\ opened = <<>>
    /\ closing = FALSE
    /\ trip = [d \in Docs |-> NoTrip]
    /\ session = [doc |-> NoDoc, version |-> 0, pages |-> <<>>]
    /\ unsaved = FALSE
    /\ left = [how |-> "not", leave |-> Undecided, doc |-> NoDoc, edits |-> 0,
               reference |-> Opened(Pages).reference, lost |-> FALSE]
-----------------------------------------------------------------------------
(* Messages to the main thread.                                            *)

OpenCall(path, typed, leave) == [call |-> "open", path |-> path, typed |-> typed, leave |-> leave]
ReportCall(value) == [call |-> "modified", value |-> value]
DestroyCall(leave) == [call |-> "destroy", leave |-> leave]
TripCall(d) == [call |-> "trip", doc |-> d]
WriteCall(k) == [call |-> "write", write |-> k]

\* An event of the interface ends with document d on screen and history h,
\* having sent `calls`.  The buttons are refreshed (refreshButtons): the Rust
\* side is told whether there are unsaved changes when that changed.
UnsavedOn(h, d) == d # NoDoc /\ Unsaved(h[d])

ReportOnce(now) == IF now /\ ~reported THEN <<ReportCall(now)>> ELSE <<>>

Report(now) == IF now # reported THEN <<ReportCall(now)>> ELSE <<>>

Handled(h, d, calls) ==
    /\ history' = h
    /\ shown' = d
    /\ reported' = UnsavedOn(h, d)
    /\ inbox' = inbox \o Report(UnsavedOn(h, d)) \o calls

UIAction ==
    /\ WindowOpen
    /\ UNCHANGED <<session, unsaved, left>>

\* What the user does, unless a picker holds the window.
WindowFree == Modal => \A k \in Writes : write[k].at # "picking"
UserActs == UIAction /\ WindowFree

\* An event that only reads or sends: nothing to refresh.
Sends(calls) ==
    /\ inbox' = inbox \o calls
    /\ UNCHANGED <<shown, history, edits, reported, merging, trip, opened>>
-----------------------------------------------------------------------------
(* Leaving the document (main.ts, « Leaving »).                            *)

MayLeaveRunning(leaving) ==
    \/ shown # NoDoc => ~Modified(history[shown])
    \/ leaving.to = "open" /\ leaving.path = password

MayLeave(leaving) ==
    \/ ~UnsavedOn(history, shown)
    \/ leaving.to = "open" /\ leaving.path = password

WhyLeave(leaving) ==
    IF UnsavedOn(history, shown) /\ leaving = Open(password) THEN "password" ELSE "intact"

\* The calls that go on with `leaving`.
GoOn(leaving, typed, leave) ==
    CASE leaving.to = "close" -> <<DestroyCall(leave)>>
      [] leaving.to = "open" -> <<OpenCall(leaving.path, typed, leave)>>
      [] leaving.to = "nothing" -> <<>>

\* requestOpen and closeRequested: go ahead, or ask.
Leave(leaving, typed) ==
    \/ /\ MayLeave(leaving)
       /\ question' = question
       /\ Sends(GoOn(leaving, typed, Decided(WhyLeave(leaving))))
    \/ ~MayLeave(leaving) /\ question' = leaving /\ Sends(<<>>)

Requested(path, typed) ==
    /\ UserActs
    /\ requests < MaxRequests
    /\ requests' = requests + 1
    /\ Leave(Open(path), typed)
    /\ UNCHANGED <<password, write, closing>>

\* A file picked or dropped, or the password asked for typed.
RequestOpen(path) == Requested(path, FALSE)
TypePassword == password # NoPath /\ Requested(password, TRUE)

\* The notice that asks for a password is closed.
ClosePassword ==
    /\ UserActs
    /\ password # NoPath
    /\ password' = NoPath
    /\ Sends(<<>>)
    /\ UNCHANGED <<question, requests, write, closing>>

\* The Rust side held the window open, and says so.
CloseRequested ==
    /\ UIAction
    /\ closing
    /\ closing' = FALSE
    /\ Leave(Close, FALSE)
    /\ UNCHANGED <<password, requests, write>>

AnswerCancel ==
    /\ UserActs
    /\ question # Nothing
    /\ question' = Nothing
    /\ Sends(<<>>)
    /\ UNCHANGED <<password, requests, write, closing>>

AnswerDiscard ==
    /\ UserActs
    /\ question # Nothing
    /\ question' = Nothing
    /\ Sends(GoOn(question, FALSE, Decided("discard")))
    /\ UNCHANGED <<password, requests, write, closing>>
-----------------------------------------------------------------------------
(* Saving, and extracting the selection: pick a file, let the round trips  *)
(* finish, and have the document written.                                  *)

\* The first write not used yet.
NextWrite(k) == write[k] = NoWrite /\ \A j \in 1..(k - 1) : write[j] # NoWrite

Picking(k, what, positions, leaving) ==
    /\ NextWrite(k)
    /\ shown # NoDoc
    /\ write' = [write EXCEPT ![k] =
          [at |-> "picking", what |-> what, doc |-> shown, positions |-> positions,
           leaving |-> leaving, meant |-> At(history[shown].order, positions)]]
    /\ Sends(<<>>)
    /\ UNCHANGED <<password, requests, closing>>

Save(k) ==
    /\ UserActs
    /\ Picking(k, "save", {}, Nothing)
    /\ question' = question

AnswerSave(k) ==
    /\ UserActs
    /\ question # Nothing
    /\ question' = Nothing
    /\ Picking(k, "save", {}, question)

Extract(k, P) ==
    /\ UserActs
    /\ P # {}
    /\ Picking(k, "extract", P, Nothing)
    /\ question' = question

Over(w) == [at |-> "over", what |-> w.what, doc |-> w.doc]

Version == [doc |-> session.doc, version |-> session.version]

\* What w asks for once nothing runs, from h, the history of its document:
\* `version` is that of the session then, and leaving was decided then.
Sent(w, h) ==
    [at |-> "sent", what |-> w.what, doc |-> w.doc, leaving |-> w.leaving, meant |-> w.meant,
     point |-> [ToSave(h) EXCEPT !.order = IF w.what = "save" THEN @ ELSE At(@, w.positions)],
     version |-> Version,
     leave |-> [why |-> "saved", doc |-> w.doc, edits |-> edits[w.doc], reference |-> ToSave(h)]]

\* Whether w goes on from h while document d is on screen: an extraction
\* of a document left, or of no page, is given up.
GoesOn(w, h, d) ==
    w.what = "extract" => w.doc = d /\ At(h.order, w.positions) # <<>>

\* Whether a write waits for the round trips of h.
WaitsForNothing(h) == FALSE

Waits(h) == Busy(h)

\* The picker is closed: cancelled, or a file named.
PickFile(k) ==
    /\ UIAction
    /\ write[k].at = "picking"
    /\ LET w == write[k]
           h == history[w.doc]
       IN  \/ write' = [write EXCEPT ![k] = Over(w)] /\ Sends(<<>>)
           \/ /\ w.what = "extract" => w.doc = shown
              /\ Waits(h)
              /\ write' = [write EXCEPT ![k] = [w EXCEPT !.at = "waiting"]]
              /\ Sends(<<>>)
           \/ /\ ~Waits(h)
              /\ GoesOn(w, h, shown)
              /\ write' = [write EXCEPT ![k] = Sent(w, h)]
              /\ Sends(<<WriteCall(k)>>)
    /\ UNCHANGED <<password, question, requests, closing>>

\* The file was written, or not: a save moves the save point of the
\* document it was asked of while it is on screen, and goes on with what it
\* was asked for.
WriteAnswered(k) ==
    /\ UIAction
    /\ write[k].at = "answered"
    /\ LET w == write[k]
           saves == w.what = "save" /\ w.file # NoFile
           leaving == IF saves THEN w.leaving ELSE Nothing
           h == IF saves /\ w.doc = shown
                THEN [history EXCEPT ![shown] = Saved(@, w.point)]
                ELSE history
       IN  /\ Handled(h, shown, GoOn(leaving, FALSE, w.leave))
           /\ write' = [write EXCEPT ![k].at = "over"]
    /\ UNCHANGED <<edits, password, question, merging, requests, opened, closing, trip>>
-----------------------------------------------------------------------------
(* Editing.  An edit asked for counts, whatever becomes of it.             *)

EditAction ==
    /\ UserActs
    /\ shown # NoDoc
    /\ edits[shown] < MaxEdits
    /\ edits' = [edits EXCEPT ![shown] = @ + 1]
    /\ UNCHANGED <<password, question, requests, write, opened, closing>>

Becomes(h) ==
    /\ Handled([history EXCEPT ![shown] = h], shown, <<>>)
    /\ UNCHANGED <<merging, trip>>

Delete(P) ==
    /\ EditAction
    /\ P # {}
    /\ MayRemove(history[shown], P)
    /\ Becomes(Reordered(history[shown], Without(history[shown].order, P)))

Move(P, target) ==
    LET order == history[shown].order
        next == MovedTo(order, P, target - Cardinality({p \in P : p <= target}))
    IN  /\ EditAction
        /\ MayReorder(history[shown], next)
        /\ Becomes(Reordered(history[shown], next))

\* A round trip is asked for; it is sent at once when none runs.
Asks(task) ==
    LET d == shown
        starts == ~Busy(history[d])
    IN  /\ Handled([history EXCEPT ![d] = Enqueued(@, task)], d,
                   IF starts THEN <<TripCall(d)>> ELSE <<>>)
        /\ trip' = IF starts THEN [trip EXCEPT ![d] = [at |-> "asked"]] ELSE trip

TurnPages(P, turns) ==
    LET order == history[shown].order
    IN  /\ EditAction
        /\ P # {}
        /\ Asks(Task("rotate", RotationEdit({order[p] : p \in P}, turns), 0))
        /\ merging' = merging

\* One merge at a time; its pages go in from position `at`.
Merge(at) ==
    /\ EditAction
    /\ ~merging
    /\ Asks(Task("merge", Nothing, at))
    /\ merging' = TRUE

Undo ==
    /\ EditAction
    /\ CanUndo(history[shown])
    /\ LET h == history[shown]
       IN  \/ Last(h.past).kind = "order" /\ Becomes(UndoneOrder(h))
           \/ /\ Last(h.past).kind = "rotation"
              /\ Asks(Task("undo", Last(h.past), 0))
              /\ merging' = merging

Redo ==
    /\ EditAction
    /\ CanRedo(history[shown])
    /\ LET h == history[shown]
       IN  \/ Last(h.future).kind = "order" /\ Becomes(RedoneOrder(h))
           \/ /\ Last(h.future).kind = "rotation"
              /\ Asks(Task("redo", Last(h.future), 0))
              /\ merging' = merging

\* The saves that wait for document d, and those of them that go on.
Waiting(d) == {k \in Writes : write[k].at = "waiting" /\ write[k].doc = d}

TripAnsweredAlone(d) ==
    LET h == Settled(history[d], trip[d])
    IN  /\ UIAction
        /\ trip[d].at = "answered"
        /\ Handled([history EXCEPT ![d] = h], shown, IF Busy(h) THEN <<TripCall(d)>> ELSE <<>>)
        /\ trip' = [trip EXCEPT ![d] = IF Busy(h) THEN [at |-> "asked"] ELSE NoTrip]
        /\ merging' = (merging /\ Head(history[d].queue).what # "merge")
        /\ UNCHANGED <<edits, password, question, write, requests, opened, closing>>

\* The answer to the round trip of document d: the next one is sent or, when
\* there is none, the writes that waited go on if d is still on screen.
TripAnswered(d) ==
    LET h == Settled(history[d], trip[d])
        idle == IF Busy(h) THEN {} ELSE Waiting(d)
        go == {k \in idle : shown = d /\ GoesOn(write[k], h, d)}
    IN  /\ UIAction
        /\ trip[d].at = "answered"
        /\ Handled([history EXCEPT ![d] = h], shown,
                   IF Busy(h)
                   THEN <<TripCall(d)>>
                   ELSE [i \in 1..Cardinality(go) |-> WriteCall(Ascending(go)[i])])
        /\ trip' = [trip EXCEPT ![d] = IF Busy(h) THEN [at |-> "asked"] ELSE NoTrip]
        /\ write' = [k \in Writes |-> CASE k \in go -> Sent(write[k], h)
                                        [] k \in idle \ go -> Over(write[k])
                                        [] OTHER -> write[k]]
        /\ merging' = (merging /\ Head(history[d].queue).what # "merge")
        /\ UNCHANGED <<edits, password, question, requests, opened, closing>>

\* The answer to an opening: the document comes on screen with a history of
\* its own and no notice but its own; a password is asked for; or nothing.
OpenAnswered ==
    /\ WindowOpen
    /\ opened # <<>>
    /\ opened' = Tail(opened)
    /\ LET answer == Head(opened)
       IN  \/ /\ answer.kind = "opened"
              /\ Handled(history, answer.doc, <<>>)
              /\ Leaves("opened", answer.leave, shown)
              /\ password' = NoPath
              /\ question' = Nothing
           \/ /\ answer.kind = "password"
              /\ password' = answer.path
              /\ UNCHANGED <<shown, history, question, reported, inbox, left>>
           \/ /\ answer.kind = "failed"
              /\ UNCHANGED <<shown, history, password, question, reported, inbox, left>>
    /\ UNCHANGED <<edits, merging, write, requests, closing, trip, session, unsaved>>
-----------------------------------------------------------------------------
(* The main thread of the Rust side.                                       *)

Called(what) ==
    /\ WindowOpen
    /\ inbox # <<>>
    /\ Head(inbox).call = what
    /\ inbox' = Tail(inbox)
    /\ UNCHANGED <<shown, history, edits, password, question, reported, merging, requests, closing>>

\* The current document is replaced once the new one is open: one of Docs,
\* for there are no more openings than requests.
OpenDocument ==
    /\ Called("open")
    /\ LET call == Head(inbox)
           answers(kind, d) ==
               opened' = Append(opened, [kind |-> kind, doc |-> d, path |-> call.path, leave |-> call.leave])
       IN  \/ /\ call.path \in Protected => call.typed
              /\ session.doc + 1 \in Docs
              /\ session' = [doc |-> session.doc + 1, version |-> 0, pages |-> [p \in 1..Pages |-> 0]]
              /\ unsaved' = FALSE
              /\ answers("opened", session.doc + 1)
           \/ /\ call.path \in Protected
              /\ answers("password", NoDoc)
              /\ UNCHANGED <<session, unsaved>>
           \/ answers("failed", NoDoc) /\ UNCHANGED <<session, unsaved>>
    /\ UNCHANGED <<write, trip, left>>

DocumentModified ==
    /\ Called("modified")
    /\ unsaved' = Head(inbox).value
    /\ UNCHANGED <<write, opened, trip, session, left>>

CloseWindow ==
    /\ Called("destroy")
    /\ Leaves("closed", Head(inbox).leave, shown)
    /\ UNCHANGED <<write, opened, trip, session, unsaved>>

\* A command that is not run on the main thread is handed over.
Spawn ==
    /\ \/ /\ Called("trip")
          /\ trip' = [trip EXCEPT ![Head(inbox).doc] = [at |-> "started"]]
          /\ write' = write
       \/ /\ Called("write")
          /\ write' = [write EXCEPT ![Head(inbox).write].at = "started"]
          /\ trip' = trip
    /\ UNCHANGED <<opened, session, unsaved, left>>

\* The system asks the window to close: held open when there is something to
\* lose, as far as is known here, and the interface is told. When it cannot be
\* told, the window closes.
NativeClose ==
    /\ WindowOpen /\ WindowFree
    /\ Closes
    /\ requests < MaxRequests
    /\ requests' = requests + 1
    /\ \/ /\ unsaved
          /\ closing' = TRUE
          /\ left' = left
       \/ /\ unsaved
          /\ closing' = closing
          /\ Leaves("closed", Decided("cannot be told"), shown)
       \/ /\ ~unsaved
          /\ closing' = closing
          /\ LET heard == opened = <<>> /\ \A i \in DOMAIN inbox : inbox[i].call # "modified"
             IN  Leaves("closed", Decided(IF heard THEN "told" ELSE "not told yet"), shown)
    /\ UNCHANGED <<shown, history, edits, password, question, reported, merging, write,
                   inbox, opened, trip, session, unsaved>>
-----------------------------------------------------------------------------
(* The other threads of the Rust side.                                     *)

RustThread ==
    /\ WindowOpen
    /\ UNCHANGED <<shown, history, edits, password, question, reported, merging, requests,
                   inbox, opened, closing, unsaved, left>>

Answer(d, ok, pages) == trip' = [trip EXCEPT ![d] = [at |-> "answered", ok |-> ok, pages |-> pages]]

\* AppState::rotate and merge: the document as it stands is taken without
\* keeping its lock, provided it is the one meant.
TakeCurrent(d) ==
    /\ RustThread
    /\ trip[d].at = "started"
    /\ \/ session.doc = d /\ trip' = [trip EXCEPT ![d] = [at |-> "rewriting", from |-> session]]
       \/ session.doc # d /\ Answer(d, FALSE, <<>>)
    /\ UNCHANGED <<write, session>>

\* The pages of the document rewritten as task asks.
Rewritten(pages, task) ==
    IF task.what = "merge"
    THEN {pages \o [i \in 1..n |-> 0] : n \in {n \in 1..Appended : Len(pages) + n <= MaxPages}}
    ELSE {TurnedBy(pages, task.edit.pages, TurnsOf(task))}

AnyDocument(d, from) == TRUE

\* AppState::commit: nothing is applied to what it was not made from.
SameDocument(d, from) == session.doc = d /\ session.version = from.version

Commit(d) ==
    /\ RustThread
    /\ trip[d].at = "rewriting"
    /\ LET from == trip[d].from
           task == Head(history[d].queue)
       IN  \/ /\ SameDocument(d, from)
              /\ \E pages \in Rewritten(from.pages, task) :
                    /\ session' = [session EXCEPT !.version = @ + 1, !.pages = pages]
                    /\ Answer(d, TRUE, pages)
           \/ ~SameDocument(d, from) /\ Answer(d, FALSE, <<>>) /\ session' = session
           \* No file could be merged; or the rewrite was refused.
           \/ task.what = "merge" /\ Answer(d, TRUE, <<>>) /\ session' = session
           \/ Answer(d, FALSE, <<>>) /\ session' = session
    /\ write' = write

\* Session::save: the pages asked for, of whatever document is current.
WriteFile(k) ==
    /\ RustThread
    /\ write[k].at = "started"
    /\ LET w == write[k]
           order == w.point.order
           answers(file) == write' = [write EXCEPT ![k] =
               [at |-> "answered", what |-> w.what, doc |-> w.doc, leaving |-> w.leaving,
                meant |-> w.meant, point |-> w.point, leave |-> w.leave, file |-> file,
                overtaken |-> w.version # Version]]
       IN  \/ /\ ToSet(order) \subseteq DOMAIN session.pages
              /\ answers([doc |-> session.doc, pages |-> Shown(order, session.pages)])
           \/ answers(NoFile)
    /\ UNCHANGED <<trip, session>>
-----------------------------------------------------------------------------
Positions == 1..MaxPages

UserAction ==
    \/ \E path \in Paths : RequestOpen(path)
    \/ TypePassword
    \/ ClosePassword
    \/ AnswerCancel
    \/ AnswerDiscard
    \/ \E k \in Writes : Save(k) \/ AnswerSave(k) \/ PickFile(k)
    \/ \E k \in Writes, P \in SUBSET Positions : shown # NoDoc /\ P \subseteq DOMAIN history[shown].order /\ Extract(k, P)
    \/ shown # NoDoc /\ \E P \in SUBSET DOMAIN history[shown].order :
          \/ Delete(P)
          \/ \E turns \in Turns : TurnPages(P, turns)
          \/ \E target \in 0..Len(history[shown].order) : Move(P, target)
    \/ shown # NoDoc /\ \E at \in 0..Len(history[shown].order) : Merge(at)
    \/ shown # NoDoc /\ (Undo \/ Redo)
    \/ NativeClose

Interface ==
    \/ CloseRequested
    \/ OpenAnswered
    \/ \E d \in Docs : TripAnswered(d)
    \/ \E k \in Writes : WriteAnswered(k)

MainThread == OpenDocument \/ DocumentModified \/ CloseWindow \/ Spawn

Next ==
    \/ UserAction
    \/ Interface
    \/ MainThread
    \/ \E d \in Docs : TakeCurrent(d) \/ Commit(d)
    \/ \E k \in Writes : WriteFile(k)

Spec == Init /\ [][Next]_vars

\* What is asked of the Rust side is run, and its answers reach the
\* interface; the user owes nothing, but runs out of edits (MaxEdits).
Fairness ==
    /\ WF_vars(MainThread)
    /\ WF_vars(CloseRequested)
    /\ WF_vars(OpenAnswered)
    /\ \A d \in Docs : WF_vars(TripAnswered(d)) /\ WF_vars(TakeCurrent(d)) /\ WF_vars(Commit(d))
    /\ \A k \in Writes : WF_vars(WriteAnswered(k)) /\ WF_vars(WriteFile(k))

FairSpec == Spec /\ Fairness
-----------------------------------------------------------------------------
(* Properties.                                                             *)

\* The pages the interface describes are those of the bytes the Rust side
\* would write and draw, but for an answer on its way: a round trip is
\* applied on both sides or on neither, and to no other document, whatever
\* is opened, refused or asked for meanwhile (main.rs, commit; history.ts).
PagesAgree ==
    session.doc # NoDoc =>
        LET d == session.doc
            applied == trip[d].at = "answered" /\ trip[d].ok /\ trip[d].pages # <<>>
        IN  session.pages = IF applied THEN trip[d].pages ELSE history[d].pages

\* Every order the interface may come back to, shown, saved, undone or
\* redone, holds pages of the file, none twice and at least one: what the
\* Rust side would otherwise refuse to write (history.ts; ops.rs,
\* check_selection).
OrdersStand ==
    \A d \in Docs :
        LET h == history[d]
            ordered == {edit \in ToSet(h.past) \cup ToSet(h.future) : edit.kind = "order"}
        IN  \A order \in {h.order, h.reference.order}
                \cup {edit.before : edit \in ordered} \cup {edit.after : edit \in ordered} :
              /\ order # <<>>
              /\ IsInjective(order)
              /\ ToSet(order) \subseteq DOMAIN h.pages

\* A file written by a save holds the pages of its save point, unless, while
\* it was being written, a round trip asked for later got there first or
\* another document took its place on the Rust side: waiting for the round
\* trips already asked for is enough for all others.  No document is taken
\* for saved without such a file (main.ts, save).
FileWritten(w) ==
    w.at = "over" /\ w.what = "save" /\ "file" \in DOMAIN w /\ w.file # NoFile

SavedWasWritten ==
    /\ \A k \in Writes :
          FileWritten(write[k]) =>
              \/ write[k].overtaken
              \/ write[k].file.doc # write[k].doc
              \/ write[k].file.pages = Shown(write[k].point.order, write[k].point.pages)
    /\ \A d \in Docs :
          \/ history[d].reference = Opened(Pages).reference
          \/ \E k \in Writes :
                /\ FileWritten(write[k])
                /\ write[k].doc = d
                /\ write[k].point = history[d].reference

\* Once everything said has been heard, the Rust side holds the window open
\* exactly when the document on screen has unsaved changes: opening, failing
\* to open, saving and undoing leave it with no stale word (main.ts,
\* refreshButtons; main.rs, AppState::open).
HoldsWhatMustBeHeld ==
    (opened = <<>> /\ \A i \in DOMAIN inbox : inbox[i].call \notin {"open", "modified"})
        => unsaved = UnsavedOn(history, shown)

\* Work is lost only if the user said so or typed the password of the file
\* to open, or if, after leaving had been decided, the document was edited
\* or the end of a save moved its save point: a round trip still running
\* when it was decided is not lost with the document, and a window does not
\* close on work the Rust side was told of (main.ts, mayLeave; history.ts,
\* unsaved), unless the interface cannot be asked: "a window nobody can close
\* again is worse than the question not asked" (main.rs, refuses_closing).
LostOnlyAfterDeciding ==
    left.lost =>
        \/ left.leave.why \in {"discard", "password", "not told yet", "cannot be told"}
        \/ left.doc # left.leave.doc
        \/ left.edits > left.leave.edits
        \/ left.reference # left.leave.reference

\* The undo history of each document is a tape of documents: undoing and
\* redoing give back exactly what was there, rotations made by the Rust side
\* and pages merged into it included, whatever fails in between (history.ts).
UndoTape(d) == INSTANCE UndoStack WITH tape <- Tape(history[d]), place <- Place(history[d])
UndoIsExact ==
    /\ \A d \in Docs : UndoTape(d)!Init
    /\ [][\A d \in Docs : UndoTape(d)!Next \/ UNCHANGED UndoTape(d)!vars]_vars

\* A history is not busy for ever: each round trip asked for is answered,
\* failed ones included, and lets the next one run (history.ts, enqueue).
RoundTripsEnd == \A d \in Docs : Busy(history[d]) ~> (~Busy(history[d]) \/ ~WindowOpen)

\* A write whose file was named ends, even when it waits for round trips
\* asked for meanwhile (history.ts, idle; main.ts, save).
WritesEnd == \A k \in Writes : write[k].at = "waiting" ~> (write[k].at = "over" \/ ~WindowOpen)

Written(k) == write[k].at \in {"answered", "over"} /\ "file" \in DOMAIN write[k] /\ write[k].file # NoFile

\* A save writes pages of the document it was asked of: « what it would save
\* is on disk » (main.ts, save).  Refuted: the picker leaves the window
\* alive, another document may be on screen when it is answered, and
\* `save_document` writes the one that is current.
SavesItsOwnDocument ==
    \A k \in Writes : Written(k) /\ write[k].what = "save" => write[k].file.doc = write[k].doc

\* « The pages meant, before anything else can change them » (main.ts,
\* extractSelection).  Refuted: positions are kept, not pages, and the order
\* may change while the picker is open or a merge runs.
ExtractsThePagesMeant ==
    \A k \in Writes :
        Written(k) /\ write[k].what = "extract" => write[k].point.order = write[k].meant
=============================================================================
