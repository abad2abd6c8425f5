------------------------------ MODULE Banners ------------------------------
(***************************************************************************)
(* The two banners of the grid (main.ts, merge.ts, split.ts, notices.ts):  *)
(* the one that chooses the pages of the files to merge, and the one that  *)
(* sets up a cut. They stand while the grid changes, while a merge runs    *)
(* that an earlier banner asked for, and while files are being picked.     *)
(* Of the history only what the banners read is here: PageHistory has it.  *)
(***************************************************************************)
EXTENDS PageLists

CONSTANTS
    FilePages,      \* the files picked at once: for each its pages, 0 if it is skipped
    Typed,          \* the page lists that may be typed
    TypedEvery,     \* the numbers of pages per file that may be
    Filled,         \* what a field may already hold: [text, pages]
    MaxMerged,      \* how many pages a merge takes at most
    BannerGestures,       \* what the user does, in which order
    FilePageCount   \* how many pages the documents opened have

VARIABLES
    grid,       \* [doc, order, past, known, picked]: the history and the selection
    board,      \* the banner there is: [role, ...]
    viewing,    \* whether the page view is open
    picking,    \* the picker of files to merge: [open, doc, before]
    merge,      \* the merge that runs: [runs, ...]
    forms,      \* the settings of the cuts set up, the oldest first: [cuts, every]
    cut,        \* the cut asked for: [stage, doc, form, parts]
    merged,     \* the last merge that succeeded, and the last that ended
    awaited    \* what is still to be done of it

bannerVars == <<grid, board, viewing, picking, merge, forms, cut, merged, awaited>>

NoBanner   == [role |-> "none"]
NoPage     == -1
NoRefusal  == [place |-> FALSE, id |-> 0, fields |-> << >>]
NotPicking == [open |-> FALSE, doc |-> 0, before |-> NoPage]
NoMerge    == [runs |-> FALSE, doc |-> 0, id |-> 0, at |-> 0, before |-> NoPage, takes |-> << >>]
NoCut      == [stage |-> "none", doc |-> 0, form |-> 0, parts |-> << >>]
NotMerged  == [ended |-> 0, doc |-> 0, before |-> NoPage, added |-> << >>]

\* history.busy: the only round trips here are merges.
Busy == merge.runs /\ merge.doc = grid.doc
Order == grid.order
Position(order, page) ==
    IF page \in ToSet(order) THEN CHOOSE i \in DOMAIN order : order[i] = page ELSE 0
\* mergePosition: counted from 0, the end if there is no page, or none.
MergePosition(order, before) ==
    IF before = NoPage THEN Len(order) ELSE Position(order, before) - 1
Nowhere == -1
-----------------------------------------------------------------------------
(* What the banners show, brought up to date.                              *)

\* What a row takes: all, these pages, refused or skipped.
Row(count, text) == IF count = 0 THEN [is |-> "skipped"] ELSE readPages(text, count)
RowsOf(banner) == [i \in DOMAIN banner.files |-> Row(banner.files[i], banner.fields[i])]
IsTaken(row) == row.is \in {"all", "pages"}
IsRefused(row) == ~IsTaken(row) /\ row.is # "skipped"
Takes(row, count) == IF row.is = "all" THEN count ELSE IF row.is = "pages" THEN Len(row.pages) ELSE 0

RefusalHolds(refusal, typed, at) == IF refusal.place THEN at = Nowhere ELSE ~typed
RefreshedMerge(banner, order, running, typed) ==
    IF banner.role # "merge" THEN banner
    ELSE [banner EXCEPT
             !.held = running,
             !.refusal = IF RefusalHolds(@, typed, MergePosition(order, banner.before))
                         THEN @ ELSE NoRefusal]
\* refreshButtons, in what concerns the banners: the cut before the pages
\* selected is given up when none is left to cut before.
RefreshedBoard(banner, order, running) ==
    IF banner.role = "split" THEN [banner EXCEPT !.refused = FALSE]
    ELSE RefreshedMerge(banner, order, running, FALSE)
CutsOf(g) == cutPoints(g.picked, Len(g.order))
Refreshed(g, banner, running) ==
    /\ board' = RefreshedBoard(banner, g.order, running)
    /\ forms' = IF banner.role = "split" /\ CutsOf(g) = {}
                THEN [forms EXCEPT ![banner.form].cuts = FALSE] ELSE forms

NextIs(kind) == awaited # << >> /\ Head(awaited) = kind /\ awaited' = Tail(awaited)
Ended(b, role) == IF b.role = role THEN NoBanner ELSE b
-----------------------------------------------------------------------------
(* The grid.                                                               *)

Changed(order, past, picked) ==
    /\ grid' = [grid EXCEPT !.order = order, !.past = past, !.picked = picked]
    /\ Refreshed(grid', board, merge.runs)
    /\ UNCHANGED <<viewing, picking, merge, cut, merged>>
Delete(p) ==
    /\ NextIs("delete") /\ ~viewing /\ ~Busy /\ Len(Order) > 1 /\ p \in DOMAIN Order
    /\ Changed(SubSeq(Order, 1, p - 1) \o SubSeq(Order, p + 1, Len(Order)),
               Append(grid.past, Order), {})
UndoChange ==
    /\ NextIs("undo") /\ ~viewing /\ ~Busy /\ grid.past # << >>
    /\ Changed(Last(grid.past), Front(grid.past), {})
Select(positions) ==
    /\ NextIs("select") /\ ~viewing
    /\ positions # grid.picked
    /\ Changed(Order, grid.past, positions)

\* The page view takes both banners away.
OpenViewer ==
    /\ NextIs("view") /\ ~viewing
    /\ viewing' = TRUE /\ board' = NoBanner
    /\ UNCHANGED <<grid, picking, merge, forms, cut, merged>>
CloseViewer ==
    /\ viewing /\ viewing' = FALSE
    /\ Refreshed(grid, board, merge.runs)
    /\ UNCHANGED <<grid, picking, merge, cut, merged, awaited>>
\* Another document is open: its notices replace all the others, and a merge
\* that runs is of the one before.
DocumentOpened ==
    /\ NextIs("open")
    /\ grid' = [doc |-> grid.doc + 1, order |-> Upward(0, FilePageCount - 1), past |-> << >>,
                known |-> FilePageCount, picked |-> {}]
    /\ board' = NoBanner /\ viewing' = FALSE
    /\ UNCHANGED <<picking, merge, forms, cut, merged>>
-----------------------------------------------------------------------------
(* Merging.                                                                *)

\* In front of the page at position p, the page being meant and not the
\* position; or at the end.
ChooseAndMerge(before) ==
    /\ NextIs("merge") /\ ~viewing /\ ~picking.open
    /\ picking' = [open |-> TRUE, doc |-> grid.doc, before |-> before]
    /\ UNCHANGED <<grid, board, viewing, merge, forms, cut, merged>>
NoFiles == picking.open /\ picking' = NotPicking
           /\ UNCHANGED <<grid, board, viewing, merge, forms, cut, merged, awaited>>
AskMerge(files) ==
    /\ picking.open /\ picking' = NotPicking
    /\ board' = IF picking.doc # grid.doc \/ viewing THEN board
                ELSE [role |-> "merge", id |-> Len(awaited) + 1, files |-> files,
                      fields |-> [i \in DOMAIN files |-> << >>],
                      before |-> picking.before, refusal |-> NoRefusal, held |-> merge.runs]
    /\ UNCHANGED <<grid, viewing, merge, forms, cut, merged, awaited>>
TypeList(i, text) ==
    /\ NextIs("list") /\ board.role = "merge"
    /\ i \in DOMAIN board.files /\ board.files[i] # 0 /\ board.fields[i] # text
    /\ board' = RefreshedMerge([board EXCEPT !.fields[i] = text], Order, merge.runs, TRUE)
    /\ UNCHANGED <<grid, viewing, picking, merge, forms, cut, merged>>

\* runMerge: a row refused gets the keyboard, other refusals are said.
RunMerge ==
    /\ board.role = "merge" /\ ~board.held /\ ~merge.runs
    /\ LET rows == RowsOf(board)
           at   == MergePosition(Order, board.before)
           Said(place) == [place |-> place, id |-> board.id, fields |-> board.fields]
       IN  /\ \A i \in DOMAIN rows : ~IsRefused(rows[i])
           /\ IF \A i \in DOMAIN rows : ~IsTaken(rows[i])
              THEN board' = [board EXCEPT !.refusal = Said(FALSE)] /\ UNCHANGED <<merge, forms>>
              ELSE IF at = Nowhere
              THEN board' = [board EXCEPT !.refusal = Said(TRUE)] /\ UNCHANGED <<merge, forms>>
              ELSE /\ merge' = [runs |-> TRUE, doc |-> grid.doc, id |-> board.id, at |-> at,
                                before |-> board.before,
                                takes |-> [i \in DOMAIN rows |-> Takes(rows[i], board.files[i])]]
                   /\ Refreshed(grid, board, TRUE)
    /\ UNCHANGED <<grid, viewing, picking, cut, merged, awaited>>

\* The Rust side answered with so many pages more, those of the files that
\* still open; or it refused.
SumOf(takes, files) == FoldLeft(+, 0, [i \in DOMAIN takes |-> IF i \in files THEN takes[i] ELSE 0])
Inserted(n) ==
    LET added == Upward(grid.known, grid.known + n - 1)
    IN  SubSeq(Order, 1, merge.at) \o added \o SubSeq(Order, merge.at + 1, Len(Order))
\* The banner that asked for the merge is over; another one stays.
MergeDone(n) ==
    /\ Busy /\ merge' = NoMerge
    /\ \E files \in SUBSET DOMAIN merge.takes : n = SumOf(merge.takes, files)
    /\ grid' = IF n = 0 THEN grid
               ELSE [grid EXCEPT !.order = Inserted(n), !.past = Append(@, Order),
                                 !.known = @ + n, !.picked = merge.at .. merge.at + n - 1]
    /\ merged' = [ended |-> merge.doc, doc |-> IF n = 0 THEN 0 ELSE merge.doc,
                  before |-> merge.before,
                  added |-> Upward(grid.known, grid.known + n - 1)]
    /\ Refreshed(grid', IF board.role = "merge" /\ board.id = merge.id THEN NoBanner ELSE board,
                 FALSE)
    /\ UNCHANGED <<viewing, picking, cut, awaited>>
\* The refusal of the Rust side is said in the banner there is.
MergeFailed ==
    LET banner == RefreshedBoard(board, Order, FALSE)
    IN  /\ Busy /\ merge' = NoMerge
        /\ merged' = [merged EXCEPT !.ended = merge.doc]
        /\ board' = IF banner.role # "merge" THEN banner
                    ELSE [banner EXCEPT !.refusal =
                             [place |-> FALSE, id |-> merge.id, fields |-> banner.fields]]
        /\ UNCHANGED <<grid, viewing, picking, forms, cut, awaited>>
\* Its document is not the one shown: nothing is said or brought up to date.
MergeLeft ==
    /\ merge.runs /\ ~Busy /\ merge' = NoMerge
    /\ merged' = [merged EXCEPT !.ended = merge.doc]
    /\ UNCHANGED <<grid, board, viewing, picking, forms, cut, awaited>>
-----------------------------------------------------------------------------
(* Cutting.                                                                *)

AskSplit ==
    /\ NextIs("split") /\ ~viewing /\ board.role # "split"
    /\ forms' = Append(forms, [cuts |-> FALSE, every |-> <<1, 0>>])
    /\ board' = [role |-> "split", form |-> Len(forms) + 1, refused |-> FALSE]
    /\ UNCHANGED <<grid, viewing, picking, merge, cut, merged>>
Set(form) ==
    /\ NextIs("set") /\ board.role = "split"
    /\ form # forms[board.form] /\ form.cuts => CutsOf(grid) # {}
    /\ forms' = [forms EXCEPT ![board.form] = form]
    /\ board' = [board EXCEPT !.refused = FALSE]
    /\ UNCHANGED <<grid, viewing, picking, merge, cut, merged>>
\* Annuler, or Escape.
CloseBanner ==
    /\ NextIs("give up") /\ board # NoBanner /\ board' = NoBanner
    /\ UNCHANGED <<grid, viewing, picking, merge, forms, cut, merged>>

\* splitPlan: the parts, or none when the cut is refused.
PlanOf(form, g) ==
    LET every == parseEvery(form.every, Len(g.order))
    IN  IF form.cuts THEN IF CutsOf(g) = {} THEN << >> ELSE splitAt(g.order, CutsOf(g))
        ELSE IF every = 0 THEN << >> ELSE splitEvery(g.order, every)
RunSplit ==
    /\ board.role = "split" /\ cut = NoCut
    /\ IF PlanOf(forms[board.form], grid) = << >>
       THEN board' = [board EXCEPT !.refused = TRUE] /\ UNCHANGED cut
       ELSE /\ cut' = [stage |-> "folder", doc |-> grid.doc, form |-> board.form, parts |-> << >>]
            /\ UNCHANGED board
    /\ UNCHANGED <<grid, viewing, picking, merge, forms, merged, awaited>>
\* A folder is chosen, or none; then the merge that runs is over: the cut
\* goes on if a banner of a cut is there, and what its own form says is cut.
GoesOn ==
    IF cut.doc # grid.doc \/ board.role # "split" THEN cut' = NoCut /\ UNCHANGED board
    ELSE IF Busy THEN cut' = [cut EXCEPT !.stage = "waiting"] /\ UNCHANGED board
    ELSE LET parts == PlanOf(forms[cut.form], grid)
         IN  IF parts = << >> THEN cut' = NoCut /\ board' = [board EXCEPT !.refused = TRUE]
             ELSE cut' = [cut EXCEPT !.stage = "writing", !.parts = parts] /\ UNCHANGED board
FolderPicked ==
    /\ cut.stage = "folder" /\ GoesOn
    /\ UNCHANGED <<grid, viewing, picking, merge, forms, merged, awaited>>
NoFolder ==
    /\ cut.stage = "folder" /\ cut' = NoCut
    /\ UNCHANGED <<grid, board, viewing, picking, merge, forms, merged, awaited>>
HistoryIdle ==
    /\ cut.stage = "waiting" /\ ~Busy /\ GoesOn
    /\ UNCHANGED <<grid, viewing, picking, merge, forms, merged, awaited>>
\* What is said of the files written is said in the banner there is.
FilesWritten(ok) ==
    /\ cut.stage = "writing" /\ cut' = NoCut
    /\ board' = IF ok THEN Ended(board, "split")
                ELSE IF board.role = "split" THEN [board EXCEPT !.refused = TRUE] ELSE board
    /\ UNCHANGED <<grid, viewing, picking, merge, forms, merged, awaited>>
-----------------------------------------------------------------------------
NoGrid == [doc |-> 0, order |-> << >>, past |-> << >>, known |-> 0, picked |-> {}]
BannersIdle ==
    /\ grid = NoGrid /\ board = NoBanner /\ viewing = FALSE /\ picking = NotPicking
    /\ merge = NoMerge /\ forms = << >> /\ cut = NoCut /\ merged = NotMerged /\ awaited = << >>
\* A document just opened; or, nothing awaited, a field that holds a list.
BannersInit ==
    /\ viewing = FALSE /\ picking = NotPicking /\ merge = NoMerge /\ forms = << >>
    /\ cut = NoCut /\ merged = NotMerged
    /\ grid = [doc |-> 1, order |-> Upward(0, FilePageCount - 1), past |-> << >>,
               known |-> FilePageCount, picked |-> {}]
    /\ \/ board = NoBanner /\ awaited \in BannerGestures
       \/ /\ awaited = << >>
          /\ \E field \in Filled :
                board = [role |-> "merge", id |-> 1, files |-> <<field.pages>>,
                         fields |-> <<field.text>>, before |-> NoPage,
                         refusal |-> NoRefusal, held |-> FALSE]

BannersNext ==
    \/ \E p \in DOMAIN Order : Delete(p)
    \/ UndoChange
    \/ \E p, q \in 0 .. Len(Order) - 1 : Select({p, q})
    \/ OpenViewer \/ CloseViewer \/ DocumentOpened
    \/ \E before \in ToSet(Order) \cup {NoPage} : ChooseAndMerge(before)
    \/ NoFiles
    \/ \E files \in FilePages : AskMerge(files)
    \/ \E i \in {1, 2}, text \in Typed : TypeList(i, text)
    \/ RunMerge
    \/ \E n \in 0 .. MaxMerged : MergeDone(n)
    \/ MergeFailed \/ MergeLeft
    \/ AskSplit \/ CloseBanner \/ RunSplit \/ FolderPicked \/ NoFolder \/ HistoryIdle
    \/ \E cuts \in BOOLEAN, every \in TypedEvery : Set([cuts |-> cuts, every |-> every])
    \/ \E ok \in BOOLEAN : FilesWritten(ok)

-----------------------------------------------------------------------------
(* Properties.                                                             *)

FieldsReadAlike ==
    board.role = "merge" =>
        \A i \in DOMAIN board.files :
            board.files[i] # 0 => ReadAlike(board.fields[i], board.files[i])
RefusalStands ==
    board.role = "merge" /\ board.refusal # NoRefusal =>
        IF board.refusal.place THEN MergePosition(Order, board.before) = Nowhere
        ELSE board.refusal.fields = board.fields
\* The exception is the banner of a document that was opened while the merge
\* of another ran: its button waits for the next change.
NotHeldInVain ==
    board.role = "merge" /\ board.held /\ ~merge.runs => merged.ended # grid.doc
\* The pages merged last are together where they were meant to go.
StandsTogether(added) ==
    LET at == Position(Order, Head(added))
    IN  /\ SubSeq(Order, at, at + Len(added) - 1) = added
        /\ IF merged.before = NoPage THEN at + Len(added) = Len(Order) + 1
           ELSE Order[at + Len(added)] = merged.before
MergedInPlace ==
    merged.doc = grid.doc /\ merged.added # << >> /\ grid.past # << >>
        /\ Last(grid.past) = SelectSeq(Order, LAMBDA p : p \notin ToSet(merged.added))
    => StandsTogether(merged.added)
PartsAreTheGrid ==
    cut.stage = "writing" =>
        /\ << >> \notin ToSet(cut.parts)
        /\ \A k \in DOMAIN cut.parts : IsInjective(cut.parts[k])
SharesAlike ==
    \A every \in 1 .. Len(Order) : SharedAlike(Order, every)

\* A banner says what is so, however the grid changed and whatever ended
\* since: its fields take what the command line would read of them, a
\* refusal stands no longer than what it is about (merge.ts, refusalHolds),
\* its button waits only for a merge that runs; pages merged are together
\* in front of the page that was meant, wherever it has gone while files
\* were picked and lists typed; and a cut shares out the grid as fyp split
\* would (split.ts:7-11).
BannersSayWhatIsSo ==
    /\ FieldsReadAlike /\ RefusalStands /\ NotHeldInVain
    /\ MergedInPlace /\ PartsAreTheGrid /\ SharesAlike
=============================================================================
