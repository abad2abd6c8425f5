------------------------------ MODULE PageView ------------------------------
(***************************************************************************)
(* The images the window asks for: the thumbnails of the grid              *)
(* (thumbnails.ts) and the page view (viewer.ts), as main.ts brings them   *)
(* together. The window runs one callback at a time: each is an action. A  *)
(* request is answered with the page as the Rust side has it when it takes *)
(* the request (main.rs, render_page), any time after it was sent.         *)
(***************************************************************************)
EXTENDS Integers, SequencesExt

CONSTANTS
    SourcePages,    \* the pages of a document
    FileOrder,      \* their order in the file
    Arrangements,   \* the orders the grid may show them in
    Concurrency,    \* CONCURRENCY
    KeepAround,     \* KEEP_AROUND
    Rooms, Zooms,   \* the widths of the window, and the factors of the zoom
    Gestures        \* bound: what the user may do, in order, and which drawings fail

ASSUME ViewAssumption ==
    /\ FileOrder \in Seq(SourcePages)
    /\ Arrangements \subseteq Seq(SourcePages)
    /\ Concurrency \in Nat

VARIABLES
    stored,     \* the open document on the Rust side: [doc, turns]
    pane,       \* the window, the fields of Loaded
    turning,    \* the rotation under way: [doc, pages, stage]
    opening,    \* the opening under way: "none", "asked", "opened"
    gestures    \* what the user will do
viewVars == <<stored, pane, turning, opening, gestures>>

Blank     == [kind |-> "blank"]
Message   == [kind |-> "message"]
ImageOf(doc, turn) == [kind |-> "image", doc |-> doc, turn |-> turn]
NotYet    == [kind |-> "not yet"]
NotDrawn  == [image |-> Blank, width |-> 0]
NoTurns   == [p \in SourcePages |-> 0]
NoTurning == [stage |-> "none"]

Tile(p, build) == [page |-> p, build |-> build]
InGrid(w, t)   == t.build = w.build /\ t.page \in ToSet(w.order)
\* The requests sent and not answered: ThumbnailLoader.running, and
\* PageViewer.busy.
SentBy(w, who) == {i \in DOMAIN w.flight : w.flight[i].who = who}
Drawing(w)     == SentBy(w, "view") # {} \/ w.settling
Slots(w) ==
    IF ~w.open THEN Concurrency ELSE IF w.panel /\ ~Drawing(w) THEN 1 ELSE 0
-----------------------------------------------------------------------------
(* The thumbnails.                                                         *)

ThumbRequest(w, t) ==
    [who |-> "thumbs", page |-> t.page, tile |-> t, width |-> 1, answer |-> NotYet,
     generation |-> w.generation, version |-> w.versions[t.page]]

\* ThumbnailLoader.pump.
Wake(w) ==
    LET free == Slots(w) - Cardinality(SentBy(w, "thumbs"))
        n    == IF free < 0 THEN 0 ELSE IF free < Len(w.queue) THEN free ELSE Len(w.queue)
    IN  [w EXCEPT !.queue = SubSeq(@, n + 1, Len(@)),
                  !.flight = @ \o [i \in 1 .. n |-> ThumbRequest(w, w.queue[i])]]

Want(w, t) ==
    IF ~w.enabled \/ w.cache[t.page] # Blank \/ t.page \in w.failed \/ t \in ToSet(w.queue)
    THEN w ELSE Wake([w EXCEPT !.queue = <<t>> \o @])
\* What stays of a queue, in its order: what is at these positions.
Remaining(queue, P) ==
    [k \in 1 .. Cardinality(P) |-> queue[CHOOSE i \in P : Cardinality({j \in P : j <= i}) = k]]
Forget(w, t) ==
    [w EXCEPT !.queue = Remaining(@, {i \in DOMAIN @ : @[i] # t})]

\* Of the tiles watched, those in view: of the others, once they are gone
\* from the grid, nothing is reported.
InViewOf(watched) == {t \in DOMAIN watched : watched[t] = "in"}

\* The grid is built again, and its tiles watched.
RenderGrid(w, order) ==
    LET found(p) == IF w.cache[p] # Blank THEN w.cache[p]
                    ELSE IF p \in w.failed THEN Message ELSE Blank
        new == {Tile(p, w.build + 1) : p \in {p \in ToSet(order) : found(p) = Blank}}
    IN  [w EXCEPT !.order = order, !.build = @ + 1,
                  !.shown = [p \in SourcePages |-> IF p \in ToSet(order) THEN found(p) ELSE Blank],
                  !.watched = [t \in new \cup InViewOf(@) |-> IF t \in new THEN "out" ELSE "in"]]

Invalidate(w, pages) ==
    [w EXCEPT !.cache = [p \in SourcePages |-> IF p \in pages THEN Blank ELSE @[p]],
              !.failed = @ \ pages,
              !.versions = [p \in SourcePages |-> IF p \in pages THEN @[p] + 1 ELSE @[p]],
              !.queue = Remaining(@, {i \in DOMAIN @ : @[i].page \notin pages})]
-----------------------------------------------------------------------------
(* The page view.                                                          *)

\* The panel takes its part of the room.
Fitted(w) == w.room - (IF w.panel THEN 1 ELSE 0)

\* What is left to draw: the page shown, as wide as it is, then the next
\* one and the one before, as wide as fitted.
ToDraw(w) ==
    LET at     == SelectSeq(<<w.at, w.at + 1, w.at - 1>>, LAMBDA i : i \in DOMAIN w.pages)
        wanted == [i \in DOMAIN at |->
                      [page |-> w.pages[at[i]], width |-> Fitted(w) * (IF i = 1 THEN w.zoom ELSE 1)]]
    IN  IF ~w.open \/ ~w.enabled THEN << >>
        ELSE SelectSeq(wanted, LAMBDA d : d.page \notin w.unreadable /\ w.drawn[d.page].width < d.width)

ViewRequest(w, d) ==
    [who |-> "view", page |-> d.page, tile |-> Tile(d.page, 0), width |-> d.width,
     answer |-> NotYet, generation |-> w.generation, version |-> w.revisions[d.page]]

\* For a mutant: the thumbnails are not told that the view is idle.
PumpSilently(w) ==
    IF Drawing(w) \/ ToDraw(w) = << >> THEN w
    ELSE [w EXCEPT !.flight = Append(@, ViewRequest(w, Head(ToDraw(w))))]

\* PageViewer.pump.
Pump(w) ==
    IF Drawing(w) THEN w
    ELSE IF ToDraw(w) = << >> THEN Wake(w)
    ELSE [w EXCEPT !.flight = Append(@, ViewRequest(w, Head(ToDraw(w))))]

ForgetFar(w) ==
    LET near == {w.pages[i] : i \in DOMAIN w.pages \cap (w.at - KeepAround) .. (w.at + KeepAround)}
    IN  [w EXCEPT !.drawn = [p \in SourcePages |-> IF p \in near THEN @[p] ELSE NotDrawn]]

\* The best image at hand of the page on screen, then what is missing.
BestOf(w, p) ==
    IF w.drawn[p].width > 0 THEN w.drawn[p].image
    ELSE IF p \in w.unreadable \/ ~w.enabled \/ w.cache[p] = Blank THEN Message
    ELSE w.cache[p]
OnScreen(w) == w.pages[w.at]
Show(w) ==
    LET kept == ForgetFar(w)
    IN  Pump([kept EXCEPT !.screen = [page |-> OnScreen(w), what |-> BestOf(kept, OnScreen(w))]])

PagesChanged(w, pages) ==
    LET changed ==
            [w EXCEPT !.drawn = [p \in SourcePages |-> IF p \in pages THEN NotDrawn ELSE @[p]],
                      !.unreadable = @ \ pages,
                      !.revisions = [p \in SourcePages |-> IF p \in pages THEN @[p] + 1 ELSE @[p]]]
    IN  IF w.open /\ OnScreen(w) \in pages THEN Show(changed) ELSE Pump(changed)

Hide(w) == [w EXCEPT !.open = FALSE, !.settling = FALSE, !.resizing = FALSE]
-----------------------------------------------------------------------------
(* The window.                                                             *)

\* For a mutant: the view is told of a rotation before the thumbnails.
EditedViewFirst(w, pages) ==
    RenderGrid(Invalidate(PagesChanged(w, pages), pages), w.order)

\* edited, after a rotation.
Edited(w, pages) ==
    RenderGrid(PagesChanged(Invalidate(w, pages), pages), w.order)

\* loaded: ThumbnailLoader.reset, PageViewer.reset, then the grid.
Loaded(w, doc) ==
    LET emptied == [w EXCEPT
            !.doc = doc, !.turns = NoTurns, !.generation = @ + 1,
            !.cache = [p \in SourcePages |-> Blank], !.failed = {}, !.versions = NoTurns,
            !.queue = << >>, !.watched = << >>,
            !.drawn = [p \in SourcePages |-> NotDrawn], !.unreadable = {}, !.revisions = NoTurns]
    IN  RenderGrid(Wake(Hide(emptied)), FileOrder)

NewWindow(enabled, panel) ==
    Loaded([doc |-> 0, turns |-> NoTurns, enabled |-> enabled, panel |-> panel,
            order |-> FileOrder, build |-> 0, shown |-> << >>, watched |-> << >>,
            cache |-> << >>, failed |-> {}, queue |-> << >>, versions |-> NoTurns,
            generation |-> 0, flight |-> << >>,
            open |-> FALSE, pages |-> FileOrder, at |-> 1, room |-> Max(Rooms), zoom |-> 1,
            settling |-> FALSE, resizing |-> FALSE, drawn |-> << >>, unreadable |-> {},
            revisions |-> NoTurns, screen |-> [page |-> 0, what |-> Message]], 1)

\* What only concerns the window leaves the rest alone.
Only(w) == pane' = w /\ UNCHANGED <<stored, turning, opening>>
Unprompted == UNCHANGED gestures
Gesture(what) == gestures # << >> /\ Head(gestures) = what /\ gestures' = Tail(gestures)

\* A tile comes into view, or is reported out of it; one that is gone from
\* the grid is reported out of it in the end.
Enters ==
    \E t \in DOMAIN pane.watched :
        /\ InGrid(pane, t) /\ pane.watched[t] = "out"
        /\ Only(Want([pane EXCEPT !.watched[t] = "in"], t)) /\ Unprompted
Leaves ==
    \E t \in DOMAIN pane.watched :
        /\ pane.watched[t] = "in"
        /\ IF InGrid(pane, t) THEN Gesture("scroll") ELSE Unprompted
        /\ LET left == [pane EXCEPT !.watched =
                           IF InGrid(pane, t) THEN [@ EXCEPT ![t] = "out"]
                           ELSE [u \in DOMAIN @ \ {t} |-> @[u]]]
           IN  Only(Forget(left, t))

\* The order of the pages changes, with the view closed and no rotation of
\* this document under way.
Reorder ==
    /\ Gesture("reorder") /\ ~pane.open
    /\ turning.stage # "none" => turning.doc # pane.doc
    /\ \E order \in Arrangements \ {pane.order} : Only(RenderGrid(pane, order))

OpenView ==
    /\ Gesture("view") /\ ~pane.open
    /\ \E i \in DOMAIN pane.order :
           Only(Show([pane EXCEPT !.open = TRUE, !.pages = pane.order, !.at = i, !.zoom = 1,
                                  !.resizing = TRUE]))
CloseView == Gesture("close") /\ pane.open /\ Only(Wake(Hide(pane)))
Go ==
    /\ Gesture("go") /\ pane.open
    /\ \E i \in DOMAIN pane.pages \ {pane.at} : Only(Show([pane EXCEPT !.at = i]))
\* The panel comes or goes, and leaves another room to the view.
TogglePanel ==
    /\ Gesture("panel") /\ pane.open
    /\ Only(Wake([pane EXCEPT !.panel = ~@, !.resizing = TRUE]))
ZoomTo ==
    /\ Gesture("zoom") /\ pane.open
    /\ \E zoom \in Zooms \ {pane.zoom} : Only([pane EXCEPT !.zoom = zoom, !.settling = TRUE])
Resize ==
    /\ Gesture("resize") /\ pane.open
    /\ \E room \in Rooms \ {pane.room} : Only([pane EXCEPT !.room = room, !.resizing = TRUE])
\* The observer of the stage reports its size, the first one included.
Resized ==
    /\ pane.resizing
    /\ Only([pane EXCEPT !.resizing = FALSE, !.settling = TRUE]) /\ Unprompted
SettleEnds ==
    /\ pane.settling
    /\ Only(Pump([pane EXCEPT !.settling = FALSE])) /\ Unprompted

\* The Rust side takes a request: the page as it is now.
RenderPage ==
    \E i \in DOMAIN pane.flight :
        /\ pane.flight[i].answer = NotYet
        /\ \/ /\ Only([pane EXCEPT !.flight[i].answer =
                         ImageOf(stored.doc, stored.turns[pane.flight[i].page])])
              /\ Unprompted
           \/ Only([pane EXCEPT !.flight[i].answer = Message]) /\ Gesture("fail")

\* What an answer changes, unless it is for a page as it was.
ThumbAnswered(w, r) ==
    LET p == r.page
        shown == IF InGrid(w, r.tile) THEN [w.shown EXCEPT ![p] = r.answer] ELSE w.shown
    IN  IF r.generation # w.generation \/ r.version # w.versions[p] THEN w
        ELSE IF r.answer = Message THEN [w EXCEPT !.failed = @ \cup {p}, !.shown = shown]
        ELSE [w EXCEPT !.cache[p] = r.answer, !.shown = shown]
ViewAnswered(w, r) ==
    LET p == r.page
        seen == w.open /\ OnScreen(w) = p
    IN  IF r.generation # w.generation \/ r.version # w.revisions[p] THEN w
        ELSE IF r.answer = Message
        THEN [w EXCEPT !.unreadable = @ \cup {p},
                       !.screen = IF seen /\ w.drawn[p].width = 0
                                  THEN [page |-> p, what |-> Message] ELSE @]
        ELSE [w EXCEPT !.drawn[p] = [image |-> r.answer, width |-> r.width],
                       !.screen = IF seen THEN [page |-> p, what |-> r.answer] ELSE @]
Answered ==
    \E i \in DOMAIN pane.flight :
        LET r    == pane.flight[i]
            done == [pane EXCEPT !.flight = RemoveAt(@, i)]
            unwatched == [t \in DOMAIN pane.watched \ {r.tile} |-> pane.watched[t]]
        IN  /\ r.answer # NotYet /\ Unprompted
            /\ IF r.who = "view" THEN Only(Pump(ForgetFar(ViewAnswered(done, r))))
               ELSE Only(Wake([ThumbAnswered(done, r) EXCEPT !.watched = unwatched]))

\* A rotation is asked for, done or refused on the Rust side, then told.
AskTurn ==
    /\ Gesture("turn") /\ turning = NoTurning
    /\ \E p \in IF pane.open THEN {OnScreen(pane)} ELSE ToSet(pane.order) :
           turning' = [stage |-> "asked", doc |-> pane.doc, pages |-> {p}]
    /\ UNCHANGED <<stored, pane, opening>>
TurnPages ==
    /\ turning.stage = "asked"
    /\ \E done \in {stored.doc = turning.doc, FALSE} :
        /\ turning' = [turning EXCEPT !.stage = IF done THEN "done" ELSE "refused"]
        /\ stored' = IF done
                     THEN [stored EXCEPT !.turns = [p \in SourcePages |->
                               IF p \in turning.pages THEN @[p] + 1 ELSE @[p]]]
                     ELSE stored
    /\ UNCHANGED <<pane, opening, gestures>>
TurnTold ==
    /\ turning.stage \in {"done", "refused"}
    /\ turning' = NoTurning
    /\ LET known == [pane EXCEPT !.turns = [p \in SourcePages |->
                        IF p \in turning.pages THEN @[p] + 1 ELSE @[p]]]
       IN  pane' = IF turning.stage = "done" /\ turning.doc = pane.doc
                   THEN Edited(known, turning.pages) ELSE pane
    /\ UNCHANGED <<stored, opening, gestures>>

\* Another document is opened, on the Rust side and then in the window.
AskOpen ==
    /\ Gesture("open") /\ opening = "none" /\ opening' = "asked"
    /\ UNCHANGED <<stored, pane, turning>>
OpenDocument ==
    /\ opening = "asked" /\ opening' = "opened"
    /\ stored' = [doc |-> stored.doc + 1, turns |-> NoTurns]
    /\ UNCHANGED <<pane, turning, gestures>>
Opened ==
    /\ opening = "opened" /\ opening' = "none"
    /\ pane' = Loaded(pane, stored.doc)
    /\ UNCHANGED <<stored, turning, gestures>>
-----------------------------------------------------------------------------
NoWindow == [doc |-> 0]
ViewIdle ==
    /\ pane = NoWindow /\ stored = [doc |-> 0] /\ turning = NoTurning
    /\ opening = "none" /\ gestures = << >>
ViewInit ==
    /\ \E enabled, panel \in BOOLEAN : pane = NewWindow(enabled, panel)
    /\ stored = [doc |-> 1, turns |-> NoTurns]
    /\ turning = NoTurning /\ opening = "none" /\ gestures \in Gestures
ViewNext ==
    \/ Enters \/ Leaves \/ Reorder \/ OpenView \/ CloseView \/ Go \/ TogglePanel
    \/ ZoomTo \/ Resize \/ Resized \/ SettleEnds \/ RenderPage \/ Answered
    \/ AskTurn \/ TurnPages \/ TurnTold \/ AskOpen \/ OpenDocument \/ Opened
ViewSpec == ViewInit /\ [][ViewNext]_viewVars
-----------------------------------------------------------------------------
\* No image kept or on screen is older than what the window knows of its
\* page: of a document closed since, or drawn before a rotation the window
\* was told of (thumbnails.ts:4-6, viewer.ts:28-30).
NotOlder(image, p) ==
    image.kind = "image" =>
        \/ image.doc > pane.doc
        \/ image.doc = pane.doc /\ image.turn >= pane.turns[p]
ImagesAreCurrent ==
    pane # NoWindow =>
        /\ \A p \in SourcePages :
               /\ NotOlder(pane.cache[p], p) /\ NotOlder(pane.shown[p], p)
               /\ NotOlder(pane.drawn[p].image, p)
        /\ pane.open => pane.screen.page = OnScreen(pane) /\ NotOlder(pane.screen.what, OnScreen(pane))

\* Nothing waits for nobody: a thumbnail that waits will be looked at when
\* an answer or a drawing comes, the page view draws all it lacks, and a
\* tile without an image is watched; once in view, it waits for its turn,
\* or its page was drawn meanwhile for the tile it had before (the one case
\* where a tile stays blank, thumbnails.ts:122).
Waits(p) ==
    LET t == Tile(p, pane.build)
    IN  \/ t \in ToSet(pane.queue)
        \/ \E i \in SentBy(pane, "thumbs") : pane.flight[i].tile = t
NothingWaitsForNobody ==
    pane # NoWindow =>
        /\ pane.queue # << >> => Cardinality(SentBy(pane, "thumbs")) >= Slots(pane)
        /\ ~Drawing(pane) /\ ~pane.resizing => ToDraw(pane) = << >>
        /\ \A p \in ToSet(pane.order) :
               pane.enabled /\ pane.shown[p] = Blank /\ ~Waits(p) =>
                   LET t == Tile(p, pane.build)
                   IN  /\ t \in DOMAIN pane.watched
                       /\ pane.watched[t] = "in" => pane.cache[p] # Blank \/ p \in pane.failed
=============================================================================
