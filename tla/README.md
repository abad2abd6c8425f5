# 4YouPDF in TLA+

TLA+ models of 4YouPDF (the repository this directory sits beside, paths below
are relative to its root), checked with TLC on small instances, and theorems
about them checked with TLAPS for every value of the constants. The models are
translations of the code: what a comment or a document says is only used to
state properties.

## The system

4YouPDF is a desktop editor of PDF files. A Tauri window (Rust, `app/src`)
shows an interface in TypeScript (`app/ui/src`); page images are drawn by
PDFium in a separate worker process; documents are read, changed and written
by `fyp-core`; modules (plugins) run in a WebAssembly sandbox, `fyp-host`;
`fyp-cli` gives the same operations on the command line.

| Component | State | Operations | What makes it hard | What makes it correct |
|---|---|---|---|---|
| Page service, `app/src/render.rs` | the worker and the document it is believed to hold, restarts, strikes (under the mutex of `State`); the process, its memory ceiling, whether it passed it (`Watch`, shared with the guard without that mutex); `closing`, status | `start`, `render`, `shutdown`, `status`; the guard and the pump of replies | requests on any thread, a guard that kills, a worker that crashes, hangs or lies, closing under a request | one worker at most, none unreachable, none left; no image of another page; no page blamed for nothing; every call returns |
| Worker, `app/src/render/worker.rs` | the document loaded | `Hello`, `Document`, `Draw` | crashes at any point | answers in order, draws what it holds |
| Protocol, `app/src/render/protocol.rs` | none | `write_*`, `read_*` | lengths announced by a process that is not trusted | nothing allocated above a ceiling |
| Page history, `app/ui/src/history.ts` | order of pages, described pages, undo and redo, save point, chain of round trips | move, remove, rotate, merge, undo, redo, save point | round trips answered later, failed ones in the middle | undo is exact; both sides describe the same pages |
| Interface, `app/ui/src/main.ts` | document on screen, question asked, password asked for, save under way | open, leave, close, save, extract, edit | `await` everywhere, pickers that may leave the window alive, calls in flight across a change of document | nothing lost without the question; what passes for saved was written |
| Rust side of the window, `app/src/main.rs`, `session.rs` | the open document and its version, the flag that holds the window | open, rotate, merge, save, split, `document_modified`, close | commands on several threads, documents replaced under them | a rewrite lands on the document it was made from, or nowhere |
| Thumbnails and page view, `thumbnails.ts`, `viewer.ts` | caches, queue, slots, versions | watch, want, invalidate, reset, draw | answers for a page that was turned, slots that close | every visible tile ends up with the image of its page |
| Module host, `crates/fyp-host` | run slots, memory budget (shared); store, answer, deadline (per run) | `load`, `run` | runs side by side on one budget and one epoch, modules that do not cooperate | budget never passed and given back exactly; slots counted; every run returns |
| Module contract, `crates/fyp-plugin-api`, `plugins/merge` | none | checks of a manifest, discovery, both messages, `serve` | lengths announced by the other side, answers cut in place, modules that share a name | a message has one spelling and reads as it was meant; none of two modules of one name is loaded |
| Core, `crates/fyp-core` | none between calls | cross-reference chain, reconstruction, page tree, copy and write, filters, decryption | loops, broken offsets, budgets | reading ends; the newest definition wins; what is written reopens |
| Cryptography, `crates/fyp-crypto` | none | key derivation, ciphers | arithmetic, five revisions of one scheme | a password opens what it closed, and no other does |
| Banners, `merge.ts`, `split.ts`, `pagerange.ts` | fields, a refusal, the page to merge before; the settings of a cut | ask, type, run, give up | they stand while the grid changes under them and answers arrive | what they show is about what is there; lists mean what the command line reads |
| Command line, `crates/fyp-cli` | the files of a folder, between commands | info, rewrite, merge, pages, split, run, modules | results written in place, over an input too; several files of one command; two readers of one notation | a command that refuses wrote nothing, one that ends well wrote all it was asked |
| Conformance rules, benches, scripts | none | | | not modelled |

How they meet: the interface calls the commands of `main.rs` through Tauri.
Commands that are not `async` run on the main thread, in the order they were
sent; the others are started from it and run on their own threads, where they
take the lock of the session when they can. `render_page` is one of these, and
calls the page service from a blocking thread. The page service talks to its
worker over the standard streams of the worker, kills it through `Watch`, and
is closed by the event loop of the window. The host is used by the command
line; a module is a process inside the host that shares nothing but its
standard streams.

`PROJECT.json` lists every component with what is modelled of it, and under
`hazards` what is hard to test, each at its line.

## Modules

| Module | Models |
|---|---|
| `RenderService.tla` | the page service, its guard and its worker |
| `PageService.tla` | what the page service promises, and nothing of how |
| `RenderServiceSafety.tla` | proofs about `RenderService`: types, ownership of the worker, the exchange, the answers, the refinement |
| `WorkerFrames.tla` | the frames between the window and its worker, byte by byte, and the loop of the worker |
| `PageHistory.tla` | `PageHistory` of the interface, as operators on one history |
| `UndoStack.tla` | what undo and redo promise |
| `EditSession.tla` | the interface and the Rust side around the documents opened one after the other; extends `PageHistory` |
| `PageHistoryFacts.tla`, `EditSessionSafety.tla` | proofs: the operators of `PageHistory`, then `EditSession` |
| `SessionFiles.tla` | the session of the Rust side and the files it writes, in a folder other programs use |
| `SessionFilesSafety.tla` | proofs about `SessionFiles` |
| `PageView.tla` | the loader of thumbnails and the page view, which share its slots |
| `PageViewSafety.tla` | proofs about `PageView` |
| `PageLists.tla` | page lists, as the interface and as the command line read them, and the ways to share pages out |
| `Banners.tla` | the banners of merges and splits; extends `PageLists` |
| `HostRuns.tla` | the runs of one module host, its slots and its budget |
| `HostRunsSafety.tla` | proofs about `HostRuns` |
| `FoldFacts.tla` | lemmas for the proofs: folds and sums over finite sets, sequences joined and mapped |
| `WasiCalls.tla` | the functions a module calls, over its memory |
| `ModuleContract.tla` | the manifests a host accepts, and what it exchanges with a module, octet by octet |
| `PdfSyntax.tla` | objects and the parser, over a file of lexemes |
| `StreamFilters.tla`, `FilterCodes.tla` | the filter chain of a stream; the decoders byte by byte |
| `XrefChain.tla` | the sections of a cross-reference chain |
| `Reconstruction.tla` | the scan that rebuilds a table |
| `StandardSecurity.tla`, `Decryption.tla` | keys and passwords; what is ciphered with which |
| `FileWriter.tla` | the writer |
| `CoreDocument.tla` | a document from its bytes to its bytes, with all the core modules above |
| `PageOperations.tla` | merge, extract, delete, rotate and split on two documents |
| `CommandLine.tla` | the commands of `fyp` on the files of a folder; extends `PageLists` |
| `CommandLineSafety.tla` | proofs about `CommandLine` |
| `MCRender.tla`, `MCEdit.tla`, `MCHost.tla` | small values for the constants of one system |
| `MCCore.tla`, `MCOps.tla`, `MCFiles.tla`, `MCFrames.tla`, `MCView.tla`, `MCCodes.tla`, `MCBanners.tla`, `MCWasi.tla`, `MCContract.tla`, `MCCommands.tla` | inputs of the parts of the library run |
| `MCLibrary.tla` | these ten parts side by side |

Operators called *mutants* in the comments (each right before the definition
it replaces) are plausible bugs of that definition, used to check that the
properties can fail; the specifications never use them.

### RenderService

A request (`Requests`) is a thread that calls `render`; `Main` starts and
closes the application. `pc[t]` walks through `draw`, `ensure_worker`,
`launch`, `ask` and `receive`; `holder` is the mutex of `State`. `slot`,
`ceiling` and `passed` are the fields of `Watch`, and `procLock` says that the
guard holds the mutex of the process, which it does between its reading and
its kill. Every process ever started has a number and a `fate`. A time-out is
a choice of the waiting thread. A frame carries the name of the request and
the phase in the place of the sequence number, which is fresh for each frame.
Letting go of a worker (`retire`) is one step, since nobody else can reach a
process that left `slot`. With `Misbehaves` the worker may give a reply twice.
Left out: the bytes of frames and images (a reply is right or of a wrong
kind), status texts, the thread of the pump (a reply is received in the order
written), and the log.

`PageService` is the abstract promise: calls return once with the page asked
for or a reason, off is off, one worker at most. `KeepsContract` is the
refinement: `asks`, `told`, `life` and `running` are computed from the state
of `RenderService`.

### PageHistory and EditSession

Documents are numbered as they are opened. A page list is a sequence of
quarter turns (0 to 3), one per page, so that a rotation, its inverse, and the
pages a merge adds can be told apart; sizes and labels are left out. `Shown`
is `ops::extract_pages`, what both sides agree the document is.

`EditSession` has one action per event of the interface up to its first
`await`, one per answer, one per command on the Rust side. `inbox` is the main
thread of the Rust side (first in, first out). Commands that are not `async`
run in it; `Spawn` hands the others over, and `TakeCurrent`, `Commit` and
`WriteFile` run when they get the lock of the session. File pickers have no
parent window in the code, so `Modal` covers both: the window is held while one
is open, or is not. `edits`, `left` and the decisions carried along with
`leave` are history variables.

Left out: the banners that set up a merge or a split (`Banners` has them), drag
and drop, the selection (any set of positions may be the selection),
`beforeunload`, texts.

Known limits of the code are named by the properties instead of hidden: a file
whose password is being asked for replaces the document without a question
(`main.ts:441`, `"password"` in `LostOnlyAfterDeciding`); a window whose interface
cannot be told that it is asked to close closes on unsaved work (`main.rs:271`,
`"cannot be told"` there: its comment prefers that to a window nobody can
close); a save that ends after
leaving was decided moves the save point under that decision (`main.ts:1261`,
`left.reference` there; the proof found this one, and the run was given a second
edit to reach it); a round trip asked for after a save may be in the file the
save writes (`main.ts:1250`, `overtaken` in `SavedWasWritten`); and the two
refuted properties below.

### HostRuns

A call of `LoadedModule::run` is a thread: `idle`, `entering` or `asleep`
(`Shared::enter`), `starting`, `running`, `answering`, `revalidating`,
`leaving`, `freeing` and `notifying` (`Slot::drop`), `done`. While it runs, the
module may grow its memory or a table, write, trap, exit or return, or do
nothing for ever. `job[c]` is its store and the shares it holds. The clock and
the ticks of the epoch are separate: a tick makes every run of the engine look
at its own deadline at its next loop or call. What a module computes, the
documents, and the bytes of requests and answers are left out: an answer is its
length and a choice between the kinds `run` tells apart; bytes are counted in
units.

### SessionFiles

A folder maps names to places and places to contents, so that two hard links
are two names of one place, and a path as it is typed (`Spelled`) to a name.
`names` and `contents` are the folder, `session` the open document (`path`,
pages, version, as in `Session` and `AppState`), `command` the write in
progress, `rewrites` the rotations and merges computed without the lock and
committed later. `fs::write` is two steps, `EmptyFile` and `EndSave`; the parts
of a split are created one by one by `write_new`, and `Meddling` is another
program that removes, creates or replaces a file between any two steps
(`MaxMeddling`). An opening is one step, because the code reads the whole file
before it takes the lock of the session. Pages are numbers: that what is
written reads back as those pages is the business of `CoreDocument` and
`PageOperations`. `FilesStandAsTold` relates what the window is told to what is
in the folder: a save that is told done holds the pages in their order, no file
but the one chosen is touched, an extraction never touches the open document, a
split replaces nothing and is told done only when every part is there, and a
rewrite lands on the document it was made from. The open document may be chosen
again under its name, under another spelling of it and under a second hard link,
for a save and for an extraction.

### PageView

One action per callback of the window (a tile that comes into view or leaves
it, an answer, the end of a pause, a button) and one for the moment the Rust
side takes a request, which decides which document and which rotation is drawn.
`pane` is what `ThumbnailLoader` and `PageViewer` keep: `queue`, `flight`,
`cache`, `watched`, versions of pages, the generation of the grid, the image on
screen. `Gestures` is what the user does, in order, at moments TLC chooses.
Left out: pixels, the ratio of a page, the geometry of the zoom (a zoom is a
size asked for), the keyboard. One rotation is in flight at a time, and what an
edit does to the grid is one step. The observer reports attached tiles only,
and a tile that is detached as leaving.

### Banners and PageLists

`PageLists` has both readings of a list (`parsePages` of `pagerange.ts`,
`parse_pages` of `fyp-cli`) over characters, where spaces, a byte order mark
and a next-line character are told apart because the two languages trim
different ones; numbers overflow at `MaxNumber` in one and lose their exactness
at `ExactDigits` digits in the other. `Banners` has `board` (the banner: its
role, fields, refusal, what is held), `merge` and `cut` (a merge and a cut in
flight), `grid` (document, order, selection), and one action per gesture or
answer. Of the round trips only merges are here; one cut and one picker at a
time.

### CommandLine

`shelf` is a folder from names to files, `folders` the directories made in it,
`line` the command under way or the last one, `given` the files as that command
found them. A file is the sequence of its pages, whole or torn, in the clear or
under a password. A command reads every input (`ReadInput`), then opens each
(`OpenInput`), makes its whole result in memory (`Work`) and writes it in place,
file by file, each in two steps (`BeginWrite` empties it, `EndWrite` fills it).
Any write may fail and the process may be killed between any two steps; the next
command finds what is left. What is printed is reduced to what a user must be
told of an input (`told`): that it was repaired, that it was ciphered.
`CommandsEndAsTold` says what each way to end promises of the whole folder, with
the pages of every file written computed from the files as they were found.
Left out: the words, what `info` prints, and the reading of its arguments.

### WorkerFrames

Pipes of bytes between a window that sends the requests of a script and a
worker that is honest, dies, or writes one of `MCLies`. Bytes have `Base`
values and integers `IntBytes` of them, so that lengths meet the end of an
integer in a few bytes; all the ceilings of `protocol.rs` are constants of that
scale. A read takes what has arrived. `FramesCarryWhatWasSaid` is in two
halves: whatever arrives, the window has never accepted an image out of bounds
nor held more than the ceiling of a frame (`WindowIsSafe`); and with an honest
worker what is received is what was sent, cut where the protocol cuts it
(`ExchangeIsFaithful`).

### WasiCalls

The memory of a module is a sequence of cells; `guest` is the store (the
request and how far it was read, the answer, the diagnostics, the draws),
`called` the last call with what was asked and what was answered. Every pointer
and length is a choice. The budget, a failed reservation and the deadline are in
`HostRuns`, the functions that only answer an error number are left out.

### ModuleContract

`search` is one scan of a directory (`discover`): the entries come in any
order, each is accepted, refused or no module, and the end of the listing
refuses the modules that share an identifier. `exchange` is one run: what the
host checks and writes, what the module is given, what it writes and how it
ends, and what the host takes of it. An octet has four values and a length two
octets, so the largest field, and one more, are within reach; characters of one
and of two octets stand for UTF-8, one octet for all characters that act on a
terminal. What the module is given may be cut, or differ by one octet from what was
written, and so may the answer: that is another host, or another module.
`serve` is followed by the handler of the merge module, for which a document is
the sequence of its pages.

`ContractStands` says that decoding is the inverse of encoding and of nothing
else (`ReadsTheRequest`, `ReadsTheAnswer`), that an error of a module reaches a
person without what hides or moves text (`MessagesAreInert`), and that the
modules of a directory do not depend on the order it is listed in
(`LoadedIsClear`). Left out: TOML, the grammar of versions, and the kind of
error, which is a refusal here.

### The core: PdfSyntax to CoreDocument

A file is a sequence of lexemes and an offset counts them. What a raw search of
the code may find inside a stream or a comment is a lexeme like another. Steps
are those of the loops: one section of the chain, one keyword of the scan.
`phase` goes from `chain` to `open`, through `scan` when a section or the check
of the table fails, or to `failed`; then the document is written in either
style, with or without its end, and opened again (`before` keeps the one it is
a copy of). Each file of `MCSources` comes with the objects that were put in
it (`truth`), written down beside it and not computed by the model, so
`ReadsWhatIsStored` compares the reader with an independent answer. A copy must
also keep the identity of its file: the first string of `/ID`, when it is not
empty.
`NormLookup` is the order of lookup of the format, a definition of its own that
the merge of sections is compared with. The cache of object streams is left
out (it holds what a pure function gives).

The cipher and the digests are symbols: a text is under a set of keys, a digest
is the tuple of what it digests. That is enough to tell which key, derived from
what, is used where; that the primitives are the right ones is left to the test
vectors of the code.

### PageOperations

A job goes through the stages of `Builder::build`; objects are known by the
place they are copied from, and the copy of queued objects is one step each.
Two documents of `MCOps` share and loop nodes of their trees, inherit
attributes, are turned already (negative angles and angles past 360 included),
and carry outlines, names and forms that point at each other's pages, fields
that cannot be read among them; the third is a bare page. Each has its `truth`:
pages, links, titles and their count, marks of its form fields, names.
`OutputStands` is about the result alone (closed, nothing dropped, no dead
target), `OutputSaysWhatWasAsked` compares it with the truth: the pages asked
for, in order, turned as asked; the outline items, their count and the fields of
every document merged, in order; the names, but those of pages left out. An
angle that fits no 32-bit number counts as none, and a sum that does not fit
wraps, as in a release build (`AngleLimit`): there the property promises only an
angle from 0 to 359. A `/Rotate` written as a real number is left out.

### FilterCodes

Bytes of `ByteBits` bits, two digits each in hexadecimal, groups of
`GroupBytes` bytes in base `Radix`: the code's 8, 4 and 85 scaled so that every
group overflows, is cut and is padded. Encoders are written as references, and
a text may be cut anywhere: what is decoded is a beginning of what was encoded,
long enough, and refused past `MaxDecoded`. The library that inflates is
external (`Inflated`): it gives the bytes before the first fault and says
whether it met one.

## Runs

All of them are listed in `PROJECT.json` with their properties. Deadlock is
checked in the runs of `RenderService`, where the user may always close the
application and a closed one stutters on purpose. It is not in the others,
whose systems stop: the window closes, every call has returned, an algorithm
has given its result, a script or the gestures of a user are over, or a bound
named in the module (`MaxRequests`, `MaxEdits`, `MaxWrites`, `MaxCommands`,
`MaxCalls`) is used up.

| Run | Instance | Shows |
|---|---|---|
| `render_ownership` | 3 requests, 1 document above the resting ceiling, 1 restart per window, the clock to 2 (window 1, so that a restart is counted, then forgotten), memory seen 0 to 3 | `NoStray`, `NothingLeftRunning`, `ClosingAsksNothing`, `StrikesEarned`, `RestartBudget`, `GreedyExactly` |
| `render_replies` | 2 requests, 3 sizes of documents, 2 pages, a worker that may answer twice | `CeilingCovers`, `DrawnFromItsDocument`, `RightImage`, `KeepsContract` |
| `render_liveness` | 2 requests, fairness | `RequestsReturn`, `ShutdownEnds` |
| `render_guard_race` | 1 request | refutes `GuardStopsOnlyAbove` |
| `edit_history` | 1 document of 2 pages, 4 edits | `PagesAgree`, `OrdersStand`, `UndoIsExact` |
| `edit_leaving` | 2 files, one with a password, 2 requests to open, the window closed at any time, 2 edits and 1 write | `LostOnlyAfterDeciding`, `HoldsWhatMustBeHeld` |
| `edit_liveness` | 1 document, 2 edits, rotations both ways, 1 write, fairness | `SavedWasWritten`, `RoundTripsEnd`, `WritesEnd` |
| `edit_save_other`, `edit_extract` | 2 openings and a save; 1 merge and an extraction | refute `SavesItsOwnDocument`, `ExtractsThePagesMeant` |
| `host_runs` | 3 calls, 2 modules that may answer 3 and 1 (overhead included), 2 slots, a budget of 4 | `HeldIsTheSum` (with `WithinBudget`), `SlotsAreCounted`, `PaidFor`, `NeverEarly` |
| `host_liveness` | 2 calls, 1 slot, fairness | `CallsReturn` |
| `library` | ten parts that share no state, each from all of its inputs | see below |

The parts of `library` share no variable, so a behaviour is a behaviour of one
of them while the others are idle; they are in one run because each is small.
No fairness is assumed there: what must end does because each step leaves less
to do (`OpeningAdvances`), and what must not be forgotten is a state
(`NothingWaitsForNobody`).

The next-state relation of this run is a disjunction of the parts, which TLC
counts as one action each. Its coverage was read below them, branch by branch:
every action of every part happens, and what stays out of reach is the worker's
refusal of a request it cannot read, because the window is honest.

| Part | Inputs | Shows |
|---|---|---|
| `CoreDocument` | chains of sections with loops, shared and dangling offsets, hybrid sections; damaged files; files that spend most of the budget of the scan on searches and parses that fail, and files that use it up before their last object; numbers too large for their field (an index, an object stream, permissions); files of four kinds of encryption with right and wrong passwords, permissions written signed and unsigned; object streams under two codings; copies in both styles, with offsets of one and of two bytes | `ChainFollowsTheNorm`, `ReadsWhatIsStored`, `WrittenReadsBack`, `OpeningAdvances` |
| `PageOperations` | three documents, every operation, selections that are empty, repeated, out of order and out of range, splits in ranges that overlap, are empty or past the end | `OutputStands`, `OutputSaysWhatWasAsked` |
| `SessionFiles` | two folders, three paths to the open document (two spellings and a hard link), an order of its pages that can be written and one that cannot (a page twice), three commands, two rewrites in flight, one interference | `FilesStandAsTold` |
| `WorkerFrames` | six scripts, two texts to cut, sixteen lies, a worker that dies anywhere | `FramesCarryWhatWasSaid` |
| `PageView` | two pages, two slots, eight sequences of gestures | `ImagesAreCurrent`, `NothingWaitsForNobody` |
| `FilterCodes` | texts of up to eleven bytes, cut anywhere | `CodesReadBack` |
| `Banners` | a document of two pages, merges of up to three, nine sequences of gestures; every list of up to four characters out of seven | `BannersSayWhatIsSo` |
| `WasiCalls` | a memory of fourteen cells of four values, words of two, two calls | `CallsStand` |
| `CommandLine` | a folder of two files, one ciphered; any two of twenty-two commands one after the other, over their inputs or beside them | `CommandsEndAsTold` |
| `ModuleContract` | 45 directories of up to four modules, each way for a manifest to be refused; 19 requests, refused ones included, cut anywhere or with one octet changed or added, and answers likewise | `ContractStands` |

Why the bounds are enough to be interesting. Three requests are one that falls,
one that restarts, and one that waits behind both while closing begins; one
restart per window makes the budget bite at the second; the document above the
resting ceiling makes the ceiling move, and memory from 0 to 3 falls on both
sides of every ceiling. Four edits are what it takes to edit, undo, redo and
edit over what was undone with a failed round trip between. Two
requests to open are a document on screen and another that replaces it, with a
password or without, and the window may close meanwhile; two edits are one that is
undone and one that is not, around a save that moves the save point. Three calls
on two slots have one asleep while the others end; a budget of 4 makes every
growth able to fail, and an answer of 3 is a buffer that doubles into its limit
(1, 2, then 3 and not 4). In the library run, `AngleLimit` is 488, because the
code's limit of 2^31 is 128 modulo 360 and so is 488: a sum that wraps does so to
the same angle; `PermissionSpan` stands for 2^31 and `RowByte` for the 256 values
of a byte, so that offsets need one byte, or two; three
commands are an opening, a write and one that races it; two slots are one held
by a drawing while another waits, and closed slots when the page view draws;
two calls are one that moves on in the request and one that reads after it; two
commands are one that leaves a file torn and one that repairs it, or meets what
the first has replaced.

The refuted properties quote the comment of the code they come from; the runs
give the traces:

- `GuardStopsOnlyAbove`: the guard compares what it reads with a ceiling it
  loaded before `ask` raised it (`render.rs:403`, `:760`), and stops a worker
  that is under the ceiling in force.
- `SavesItsOwnDocument`: `save_document` writes the document that is current
  when it gets the lock (`main.rs:395`), which another opening may have
  replaced between the picker and the write.
- `ExtractsThePagesMeant`: positions are kept across a picker and a wait, and
  turned into pages afterwards (`main.ts:1311`).

## Fairness

- `RenderService`: a thread of the window that can go on does. Taking the mutex
  of the process is strongly fair, because the guard takes it again and again,
  each time for one reading. Nothing is asked of the worker, of the user or of
  the clock: a wait ends because `recv_timeout` does.
- `EditSession`: the main thread runs what it was sent, the threads of the
  commands finish, and the interface hears what was answered. The user owes
  nothing and runs out of edits (`MaxEdits`): `idle` would wait as long as
  round trips keep being asked for.
- `HostRuns`: the threads of the host run, the ticker ticks, time passes. The
  module owes nothing, and a condition variable wakes nobody by itself.

## Proofs

Assumptions: `RenderAssumption`, `EditAssumption`, `HostAssumption`,
`ViewAssumption`, `FilesAssumption` and `CommandAssumption`, the types of the
constants: any number of requests, documents, pages, calls, modules, edits, round
trips and slots, any folder, files, lists and parts, any limits. TLC evaluates them
on the runs. Nothing else is assumed.

| Theorem | States |
|---|---|
| `RenderServiceSafety!TypeCorrect` | `Spec => []TypeOK` |
| `RenderServiceSafety!NeverAStray` | `Spec => []NoStray` |
| `RenderServiceSafety!NeverTwoWorkers` | `Spec => []OneWorker` |
| `RenderServiceSafety!ClosingLeavesNothing` | `Spec => []NothingLeftRunning` |
| `RenderServiceSafety!Exchanged` | the inductive invariant of the exchange |
| `RenderServiceSafety!DrawsWhatItHolds` | `Spec => []DrawnFromItsDocument` |
| `RenderServiceSafety!CeilingAlwaysCovers` | `Spec => []CeilingCovers` |
| `RenderServiceSafety!ClosingAsksNothingMore` | `Spec => []ClosingAsksNothing` |
| `RenderServiceSafety!Answering` | the inductive invariant of the answers |
| `RenderServiceSafety!ImagesAreRight` | `Spec => []RightImage` |
| `RenderServiceSafety!RestartsWithinBudget` | `Spec => []RestartBudget` |
| `RenderServiceSafety!StrikesAreEarned` | `Spec => []StrikesEarned` |
| `RenderServiceSafety!ToldOfItsOwnGreed` | `Spec => GreedyExactly`, about steps |
| `RenderServiceSafety!ServiceKeepsContract` | `Spec => KeepsContract`: it implements `PageService` |
| `EditSessionSafety!Consistent` | the inductive invariant of the editing session |
| `EditSessionSafety!InterfaceSeesItsDocument` | `Spec => []PagesAgree` |
| `EditSessionSafety!OrdersAlwaysStand` | `Spec => []OrdersStand` |
| `EditSessionSafety!TheWindowIsHeld` | `Spec => []HoldsWhatMustBeHeld` |
| `EditSessionSafety!NoWorkIsLostUnasked` | `Spec => []LostOnlyAfterDeciding` |
| `EditSessionSafety!SavedMeansWritten` | `Spec => []SavedWasWritten` |
| `PageViewSafety!ImagesAlwaysCurrent` | `ViewSpec => []ImagesAreCurrent` |
| `PageViewSafety!NothingEverWaitsForNobody` | `ViewSpec => []NothingWaitsForNobody` |
| `SessionFilesSafety!FilesInvariantHolds` | the inductive invariant of the session and its folder |
| `SessionFilesSafety!FilesAlwaysStandAsTold` | `FilesSpec => []FilesStandAsTold` |
| `SessionFilesSafety!CurrentRewritesFit` | what `replace` and `extend` check of a rewrite that is current always holds |
| `HostRunsSafety!TypeCorrect` | `Spec => []TypeOK` |
| `HostRunsSafety!BudgetKept` | `Spec => []WithinBudget` |
| `HostRunsSafety!SlotsCounted` | `Spec => []SlotsAreCounted` |
| `HostRunsSafety!AlwaysPaidFor` | `Spec => []PaidFor` |
| `HostRunsSafety!NeverStoppedEarly` | `Spec => NeverEarly`, about steps |
| `HostRunsSafety!CountedToTheUnit` | `Spec => []HeldIsTheSum` |
| `HostRunsSafety!NeverSaturates` | no run gives back more than is held |
| `CommandLineSafety!MadeAsAsked` | what a command makes of the files it found is what its arguments ask for |
| `CommandLineSafety!CommandsAlwaysEndAsTold` | `CliSpec => []CommandsEndAsTold` |

**Types.** `RenderServiceSafety` first proves `TypeOK` with one lemma per assignment
that several actions share (letting go of a worker, a fall, a frame sent),
then one per handler. The types of `RenderService` and of `HostRuns` are not
among the properties of the runs: they are theorems.

**Ownership of the worker.** None of `OneWorker`, `NoStray` and
`NothingLeftRunning` is inductive. `OwnInv` adds who may have a process: a
thread is in its turn exactly when it holds the mutex of `State` (`Turns`); the
slot holds the process of the worker, and whoever is about to start one has
found or made it empty (`Owner`); a process that runs is in the slot or in the
hands of the thread about to put it there (`NoStray`), so that an empty slot
means that none runs, and two never do (which is why no run checks
`OneWorker`); and once closed, rendering is off, the slot is empty and no
request is past the check of it (`Closed`).

**The exchange.** At most one frame is under way, that of the thread whose turn
it is (`Sent`); a reply in the channel carries the number of a frame already
sent and never that of the frame under way (`Answered`), so a reply given twice
is taken for nobody else's; what the window believes loaded is loaded
(`Loaded`), and what is loaded or on its way is under the ceiling (`Covered`).

**The answers.** A step returns one request at most, an image only at the end
of a drawing, a phase only for a fall (`StepAnswers`). A request past the check
of the strikes faces those of its own document, with room for one more
(`Room`), and a fall adds one strike and one answer: strikes never pass the
falls, counted over the requests. The restarts remembered are the last ones and
those forgotten are older than the window (`Remembered`), whence the budget.
The stop on record is that of the process in the slot (`Recorded`).

**The refinement.** Every step of `RenderService` is mapped to `Call`, `Return`,
`Live` or `Work` of `PageService`, or changes none of `asks`, `told`, `life` and
`running`. An image is served while rendering is on, because `shutdown` turns
the status off before it closes and a restart turns it on only while not
closing; and once closed no process runs (`ClosingLeavesNothing`).

**Orders of pages.** `PageHistoryFacts` proves what moves, removals, merges and
undos do to an order, for any length: it holds pages of the file, none twice
and at least one. Positions are picked by rank (`Nth`), and that a set of n
positions has a member of every rank is an induction. The induction theorems of
the library take an operator and cannot be instantiated here; `Least`, that a
set of naturals has a least member, comes from `WFMin`, which takes a relation,
and a least counterexample does the work of the induction.

**The editing session.** No property of `EditSession` is inductive. `Inv` is
their conjunction with: the types; a document not shown yet is as it was opened
(`Numbered`); a history waits exactly when one of its round trips is under way,
and no call is handed over twice (`Matched`); a rewrite that may still be
committed was made from the session as it stands (`Rewrites`); the last word
about the window, said or in the queue, is that of the interface (`Heard`); a
decision to leave is good for its document up to the save point it was taken
with (`Decisive`); and the version of a save under way is one its round trips
have reached (`Versioned`). Each part is preserved handler by handler. Two
attempts failed for a reason: the save point moved under a decision (above),
and an inbox that could hold one call twice, which `NoneTwice` excludes.

**The page view.** The window numbers what it asks for, a generation per
document and two versions per page. A request of the present generation and
version carries no image older than what the window knows (`Follows`), so an
answer is clean or passed over. After a rotation is told its pages are *behind*
in the caches and in flight; `Invalidate` and `PagesChanged` each put one half
right (`Thumbs`, `Views`) before the grid is built again. And the Rust side is
never behind the window (`Ahead`), so what it draws is clean when it draws it.

**Budget and slots.** The budget is never passed: only `Covers` lets `held`
grow, and whatever is given back is a natural number. `SlotsCounted` strengthens
nothing but `TypeOK`: a call enters the set of those inside with `Enter` and
leaves it with `FreeSlot`, and the theorems on finite sets turn that into
counts; `runs > 0` when a slot is freed, so the saturating subtraction of the
code never saturates. `AlwaysPaidFor` reduces to one job changing at a time, and
rests on `CapacityBounds`: the doubled and clamped capacity covers what is
written. `NeverStoppedEarly` is about a step, and needs only the types.

**The sum.** `HeldIsTheSum` needs no strengthening but `PaidFor` and the types:
a step changes the share of one call, and `held` by the same amount
(`OneShareCounted`). `held` covers every share of the sum (`SumCovers`), so
`Held::drop`, which subtracts saturating, never saturates (`NeverSaturates`).

**Folds.** A sum over calls, and a list of lists joined, are folds of the
community modules, whose definition chooses a function on the subsets of a set.
`FoldFacts` shows that there is one (`FoldExists`), by a least counterexample
over the sizes of the subsets (`SubsetInduction`), and from it what the proofs
use: a sum unfolds by any of its members (`SumUnfolds`), changes as one member
does (`SumChanges`); a joined list grows by its last part (`FlattenSteps`), and
mapping a joined list is joining the mapped ones (`FlattenImages`).

**The session and its files.** `FilesStandAsTold` speaks of the answer a command
gave; `FilesInvariant` adds what holds while the command is still writing. What
stood before the command stands, but where a save writes (`EarlierStands`); a
save has left at its path what it wrote (`SavingStands`), a split the parts it
counts, under names that were free (`SplittingStands`); a rewrite made from the
session as it stands has its pages, turned, and what was added
(`RewritesStand`). Other programs meddle between any two steps, and what they
touched is excepted name by name (`MeddlingKeeps`). `CurrentRewritesFit` follows:
the comparison of the page counts in `replace` and `extend` cannot fail for a
rewrite that passed the check of its session.

**Waiting in the page view.** `ImagesAlwaysCurrent` says images are right, and
`NothingWaitsForNobody` that what is missing is being seen to. The slots are
filled whenever the queue changes, so a tile that waits has every slot before it
taken by a request whose end looks at the queue. Grids are numbered by build: a
request remembers the tile it was asked for, and one for a tile of an older grid
asks for nothing. The page view draws until what it drew is what is asked.

**The command line.** `MadeAsAsked` is about one command: the page lists are
gathered part by part by folds, and by induction on the parts what they gather is
what the command asks for, page by page, as are the names and pages of every
file. `CliInv` is about the folder while a command writes: what was opened was
found, in order, and told before anything is written (`InputsStand`); what is
written is as asked (`WorkStands`), in the order of the list; and the folder
differs from the one found only by files written whole and the one being filled
(`FolderStands`). A command killed leaves exactly that one unfinished.

Only model-checked, and why:

- every liveness property (`RequestsReturn`, `ShutdownEnds`, `RoundTripsEnd`,
  `WritesEnd`, `CallsReturn`): TLAPS proves nothing about fairness;
- `UndoIsExact`: its tape of documents is built by a RECURSIVE operator over the
  history;
- the core (`ChainFollowsTheNorm`, `ReadsWhatIsStored`, `WrittenReadsBack`,
  `OutputStands`, `OutputSaysWhatWasAsked`, `OpeningAdvances`): its modules share
  recursive parsers and walks, and the prover loses its arithmetic in any module
  that reaches a RECURSIVE operator;
- octets and notation (`FramesCarryWhatWasSaid`, `ContractStands`,
  `CodesReadBack`, `CallsStand`, the part of `BannersSayWhatIsSo` about numbers):
  they compare numbers with their digits by powers of the base, and the provers
  know nothing of `^`; the parsers of frames and manifests are recursive as well.

## What the models taught

Besides the refuted properties, these are things the code does that a reader of
its comments would not expect. Each was met as a counterexample or an exception
while modelling; a property that has to make room for one says so.

- `thumbnails.ts:122`: a tile rebuilt while the request of its predecessor is
  in flight, whose answer is cached before the new tile comes into view, is not
  shown its image until the grid is rebuilt (`NothingWaitsForNobody`).
- `thumbnails.ts:4-5`: a reordering while a drawing is in flight draws the page
  twice.
- Between the moment the Rust side opens another document and the one the
  window learns it, a drawing may show a page of the new document in the old
  grid. It is never older, and is dropped with the grid.
- `main.ts:1132`: a merge that fails writes its refusal in whichever merge
  banner is open, even one asked since for other files. A merge of the document
  before leaves the button of the new banner held until the next change
  (`NotHeldInVain`). A cut given up during a picker is resumed, with its old
  settings, when another cut banner has been opened meanwhile.
- `pagerange.ts` and `parse_pages` trim different characters: a byte order mark
  only in JavaScript, a next-line character only in Rust (`ReadAlike`).
- `session.rs:459`: of two hard links to the open file, an extraction may
  replace one. The comment there says so.
- `recover.rs:32`: a stream whose data holds `endstream` and `endobj` is cut
  there by the scan, and what follows is read as objects.
- `ops.rs:15-18`: destinations that died are pruned from arrays that are direct
  values of `/Annots` and `/Names`; an `/OpenAction` to a page left out stays as
  an array that begins with `null`.
- `ops.rs:246`: an angle near the limits of its 32 bits, turned, overflows: a
  debug build stops there, a release build writes an angle that is not the one
  asked for.
- `document.rs`, `verify` accepts an object stream of any generation, of which
  only generation 0 is then loaded; a scan cannot read ciphered object streams.
- A file of revision 4 whose key has 40 bits and whose stream names an AESV2
  filter gives a key of ten bytes, with which the cipher returns nothing.
- `filters.rs:205`: blanks before a zlib header are skipped, and the second
  attempt without a header reads them.
- `wasi.rs:338`: after a fault in a later buffer, the request has moved on by
  what the first buffers hold, and the module is not told (`CallsStand` says
  exactly that).

## Plan

Done: the window and its worker, the command line, the host and its contract with
modules, the session and its files, the interface around pages and banners, and
the core from bytes to bytes. Left, in order:

1. Proofs: the parts of `BannersSayWhatIsSo` that do not read numbers (refusals,
   holds and grids); `OnlyWhereAsked` and the limits of the answer of
   `WasiCalls`. Neither is the whole property of a run.
2. What is partly modelled: notices of an opening, the keyboard of the page
   view, the labels of pages.

## Not modelled

- PDFium, PNG encoding and the reading of the memory of a process: calls of
  libraries and of the system; the models keep what the code does with their
  answers.
- Ciphers, digests and inflating: arithmetic on bytes, symbols or external
  here.
- The lexer character by character: a file is its lexemes. The spelling of
  numbers, strings and names, and reals, are left out with it.
- Zoom geometry, the page number field, shortcuts, wording and
  layout: pure functions of one call, well within reach of the unit tests they
  have.
- Conformance rules (types only at this commit), benches, fuzz targets,
  packaging scripts.
