---------------------------- MODULE SessionFiles ----------------------------
(***************************************************************************)
(* The document open on the Rust side and the files it is written to       *)
(* (session.rs, and the commands of main.rs that call it): saving,         *)
(* extracting, splitting, merging, while other programs use the folder,    *)
(* writes fail halfway and the program may be killed.                      *)
(*                                                                         *)
(* A name of the folder leads to a place, and a place holds a content; two *)
(* hard links are two names of one place. What a save produces is a        *)
(* sequence of pages; CoreDocument shows that it reads back.               *)
(***************************************************************************)
EXTENDS Integers, SequencesExt

CONSTANTS
    Spelled,        \* the name on disk of every path that may be typed
    Folders,        \* what the folder holds at first: [names, contents]
    Orders, Cuts,   \* the orders asked for, and the lists of parts
    Merges,        \* the merges: sequences of [path, pages]
    Rotations,      \* the sets of pages turned
    MaxRewrites,    \* how many rewrites are made at once
    Stem,           \* what the document is called, for its parts
    MaxMeddling,    \* how often another program touches the folder
    MaxCommands     \* how many commands are given that this module follows

\* A folder is finite, its names lead to what it holds, and pages have numbers.
ASSUME FilesAssumption ==
    /\ \A folder \in Folders :
         /\ IsFiniteSet(DOMAIN folder.contents)
         /\ folder.names \in [DOMAIN folder.names -> DOMAIN folder.contents]
         /\ folder.contents = [place \in DOMAIN folder.contents |-> folder.contents[place]]
         /\ \A place \in DOMAIN folder.contents :
              folder.contents[place].kind = "pdf" => folder.contents[place].pages \in Seq(Int)
    /\ Orders \subseteq Seq(Nat) /\ Cuts \subseteq Seq(Seq(Nat))
    /\ \A choices \in Merges : choices \in Seq([path : DOMAIN Spelled, pages : Seq(Nat)])
    /\ {MaxRewrites, MaxMeddling, MaxCommands} \subseteq Nat

VARIABLES
    names,      \* the place each name leads to
    contents,   \* what each place holds
    session,    \* the document open, or NoSession
    command,    \* the save or the split that is writing, or NoCommand
    rewrites,   \* the rotations and merges made or being made, not yet committed
    answer,     \* what the interface was last told
    earlier,    \* the folder and the session when that command began
    meddled     \* the names other programs touched since, and the counts so far

filesVars == <<names, contents, session, command, rewrites, answer, earlier, meddled>>

NoSession == [id |-> 0]
NoCommand == [op |-> "none"]
\* A page is what it shows, plus QuarterTurn for every quarter turn.
QuarterTurn == 10
Pdf(pages) == [kind |-> "pdf", pages |-> pages]
Locked  == [kind |-> "locked"]      \* a PDF that needs a password
Damaged == [kind |-> "damaged"]     \* what no repair opens, a half-written file among them
Told(op, ok, nothing, what) == [op |-> op, ok |-> ok, nothing |-> nothing, what |-> what]
\* The answer says that nothing was written, or that something may have been.
NothingDone(op) == Told(op, FALSE, TRUE, << >>)
MaybeDone(op)   == Told(op, FALSE, FALSE, << >>)

Paths == DOMAIN Spelled
Exists(path)  == Spelled[path] \in DOMAIN names
PlaceOf(path) == names[Spelled[path]]
Fresh == CHOOSE place \in 1 .. Cardinality(DOMAIN contents) + 1 : place \notin DOMAIN contents
Amended(f, x, y) == [z \in DOMAIN f \cup {x} |-> IF z = x THEN y ELSE f[z]]

Idle == command = NoCommand
Began ==
    /\ Idle /\ meddled.commands < MaxCommands
    /\ earlier' = [names |-> names, contents |-> contents, session |-> session]
    /\ meddled' = [meddled EXCEPT !.touched = {}, !.commands = @ + 1]
NextId == meddled.commands + 1

-----------------------------------------------------------------------------
(* Opening.                                                                *)

Opens(path) == IF Exists(path) THEN contents[PlaceOf(path)].kind = "pdf" ELSE FALSE

\* Session::open under a fresh id; a file that does not open leaves the
\* document as it is.
OpenFile(path) ==
    /\ Began
    /\ IF Opens(path)
       THEN /\ session' = [id |-> NextId, document |-> NextId, path |-> path,
                           pages |-> contents[PlaceOf(path)].pages]
            /\ answer' = Told("open", TRUE, TRUE, << >>)
       ELSE /\ answer' = NothingDone("open")
            /\ UNCHANGED session
    /\ UNCHANGED <<names, contents, command, rewrites>>

\* The rewrites being made go on, and find no document to be applied to.
CloseDocument ==
    /\ Began /\ session # NoSession
    /\ session' = NoSession
    /\ answer' = Told("close", TRUE, TRUE, << >>)
    /\ UNCHANGED <<names, contents, command, rewrites>>

-----------------------------------------------------------------------------
(* Saving and extracting, with the session locked.                         *)

\* ops::extract_pages: pages that exist, each once, one at least.
Extractable(order) ==
    /\ order # << >>
    /\ \A i \in DOMAIN order : order[i] \in DOMAIN session.pages
    /\ \A i, j \in DOMAIN order : order[i] = order[j] => i = j
PagesAt(order) == [i \in DOMAIN order |-> session.pages[order[i]]]

\* For a mutant: the paths are compared as they are typed.
SamePath(target, open) == target = open

\* same_file: only a target that exists replaces anything, and only under
\* its canonical name.
SameFile(target, open) ==
    /\ Exists(target) /\ Exists(open)
    /\ Spelled[target] = Spelled[open]

\* fs::write first creates the file or empties it.
EmptyFile(path) ==
    IF Exists(path)
    THEN /\ contents' = [contents EXCEPT ![PlaceOf(path)] = Damaged]
         /\ UNCHANGED names
    ELSE /\ contents' = Amended(contents, Fresh, Damaged)
         /\ names' = Amended(names, Spelled[path], Fresh)
PlaceWritten(path) == IF Exists(path) THEN PlaceOf(path) ELSE Fresh

Save(order, path, extract) ==
    /\ Began /\ session # NoSession
    /\ \/ /\ (extract /\ SameFile(path, session.path)) \/ ~Extractable(order)
          /\ answer' = NothingDone("save")
          /\ UNCHANGED <<names, contents, command>>
       \/ /\ extract => ~SameFile(path, session.path)
          /\ Extractable(order)
          /\ EmptyFile(path)
          /\ command' = [op |-> "save", path |-> path, extract |-> extract,
                         place |-> PlaceWritten(path), pages |-> PagesAt(order)]
          /\ answer' = MaybeDone("save")
    /\ UNCHANGED <<session, rewrites>>

\* The write ends, or fails with what it wrote left in place.
EndSave(whole) ==
    /\ command.op = "save"
    /\ command' = NoCommand
    /\ IF whole
       THEN /\ contents' = [contents EXCEPT ![command.place] = Pdf(command.pages)]
            /\ answer' = Told("save", TRUE, FALSE, <<command>>)
       ELSE /\ answer' = Told("save", FALSE, FALSE, <<command>>)
            /\ UNCHANGED contents
    /\ UNCHANGED <<names, session, rewrites, earlier, meddled>>

-----------------------------------------------------------------------------
(* Splitting.                                                              *)

\* Two digits at least, and as many as the count of the parts takes.
PartName(i, count) == <<Stem, i, IF count < 100 THEN 2 ELSE 3>>
PartNames(count) == {PartName(i, count) : i \in 1 .. count}

\* Every part is built before the first is written: an empty one, too many
\* of them, a name that is taken or pages that do not fit refuse the cut.
Split(parts) ==
    /\ Began /\ session # NoSession
    /\ IF \/ parts = << >>
          \/ Len(parts) > Len(session.pages)
          \/ PartNames(Len(parts)) \cap DOMAIN names # {}
          \/ \E i \in DOMAIN parts : ~Extractable(parts[i])
       THEN /\ answer' = NothingDone("split")
            /\ UNCHANGED command
       ELSE /\ command' = [op |-> "split", parts |-> [i \in DOMAIN parts |-> PagesAt(parts[i])],
                           written |-> 0]
            /\ answer' = MaybeDone("split")
    /\ UNCHANGED <<names, contents, session, rewrites>>

Cutting == command.op = "split"
NextName == PartName(command.written + 1, Len(command.parts))
SplitFails ==
    /\ answer' = Told("split", FALSE, FALSE, <<command>>)
    /\ command' = NoCommand

\* write_new: create_new refuses a name that appeared meanwhile.
CreateNew(content) ==
    /\ names' = Amended(names, NextName, Fresh)
    /\ contents' = Amended(contents, Fresh, content)

SplitWrite ==
    /\ Cutting
    /\ IF NextName \in DOMAIN names
       THEN SplitFails /\ UNCHANGED <<names, contents>>
       ELSE LET done == command.written + 1 = Len(command.parts)
                more == [command EXCEPT !.written = @ + 1]
            IN  /\ CreateNew(Pdf(command.parts[command.written + 1]))
                /\ command' = IF done THEN NoCommand ELSE more
                /\ answer' = IF done THEN Told("split", TRUE, FALSE, <<more>>) ELSE answer
    /\ UNCHANGED <<session, rewrites, earlier, meddled>>

\* The disk is full: what was written of this part stays.
SplitBreaks ==
    /\ Cutting /\ NextName \notin DOMAIN names
    /\ CreateNew(Damaged)
    /\ SplitFails
    /\ UNCHANGED <<session, rewrites, earlier, meddled>>

-----------------------------------------------------------------------------
(* Rotating and merging: the rewrite is made without the lock, from what   *)
(* was current, and committed under it.                                    *)

Start(op, which, added, pages) ==
    rewrites' = Append(rewrites, [from |-> session.id, document |-> session.document, op |-> op,
                                  which |-> which, added |-> added, pages |-> pages])
MayRewrite == session # NoSession /\ Len(rewrites) < MaxRewrites

\* ops::rotate: every page named turns, and a page not there refuses all.
Turn(pages, which) == [i \in DOMAIN pages |-> IF i \in which THEN pages[i] + QuarterTurn ELSE pages[i]]
BuildRotation(which) ==
    /\ MayRewrite /\ which \subseteq DOMAIN session.pages
    /\ Start("rotate", which, << >>, Turn(session.pages, which))
    /\ UNCHANGED <<names, contents, session, command, answer, earlier, meddled>>

NoList == <<0>>    \* no list given
Fits(wanted, count) ==
    \/ wanted = NoList
    \/ /\ wanted # << >>
       /\ \A i \in DOMAIN wanted : wanted[i] \in 1 .. count
       /\ \A i, j \in DOMAIN wanted : wanted[i] = wanted[j] => i = j
\* The pages a file brings, as it is now: none when it does not open.
Brought(choice) ==
    IF ~Opens(choice.path) THEN << >>
    ELSE LET pages == contents[PlaceOf(choice.path)].pages
         IN  IF choice.pages = NoList THEN pages
             ELSE [i \in DOMAIN choice.pages |-> pages[choice.pages[i]]]
AllBrought(choices) == FlattenSeq([i \in DOMAIN choices |-> Brought(choices[i])])

\* The files are read again: a list made for what a file held before, and
\* that does not fit, refuses the whole; a file that does not open is
\* skipped, and when none opens nothing is rewritten.
BuildMerge(choices) ==
    LET opened == {i \in DOMAIN choices : Opens(choices[i].path)}
    IN  /\ MayRewrite /\ opened # {}
        /\ \A i \in opened :
             Fits(choices[i].pages, Len(contents[PlaceOf(choices[i].path)].pages))
        /\ Start("merge", {}, AllBrought(choices), session.pages \o AllBrought(choices))
        /\ UNCHANGED <<names, contents, session, command, answer, earlier, meddled>>

\* commit, then replace or extend: the document is the one the rewrite was
\* made from, and its own pages keep their places.
StillCurrent(rewrite) ==
    session.document = rewrite.document /\ session.id = rewrite.from
PagesExpected(rewrite) == Len(session.pages) + Len(rewrite.added)
Commit(i) ==
  LET rewrite == rewrites[i] IN
    /\ Began
    /\ rewrites' = RemoveAt(rewrites, i)
    /\ IF IF session = NoSession THEN FALSE
          ELSE StillCurrent(rewrite) /\ Len(rewrite.pages) = PagesExpected(rewrite)
       THEN /\ session' = [session EXCEPT !.id = NextId, !.pages = rewrite.pages]
            /\ answer' = Told("rewrite", TRUE, TRUE, <<rewrite>>)
       ELSE /\ answer' = NothingDone("rewrite")
            /\ UNCHANGED session
    /\ UNCHANGED <<names, contents, command>>

-----------------------------------------------------------------------------
(* The world.                                                              *)

\* Another program writes a file, or removes one.
Meddle(name, content) ==
    /\ meddled.times < MaxMeddling
    /\ meddled' = [meddled EXCEPT !.times = @ + 1, !.touched = @ \cup {name}]
    /\ names' = Amended(names, name, Fresh)
    /\ contents' = Amended(contents, Fresh, content)
    /\ UNCHANGED <<session, command, rewrites, answer, earlier>>
Unlink(name) ==
    /\ meddled.times < MaxMeddling /\ name \in DOMAIN names
    /\ meddled' = [meddled EXCEPT !.times = @ + 1, !.touched = @ \cup {name}]
    /\ names' = [n \in DOMAIN names \ {name} |-> names[n]]
    /\ UNCHANGED <<contents, session, command, rewrites, answer, earlier>>

\* The program is killed: only the disk remains.
Killed ==
    /\ session # NoSession
    /\ session' = NoSession /\ rewrites' = << >>
    /\ command' = NoCommand
    /\ answer' = IF Idle THEN answer ELSE Told(command.op, FALSE, FALSE, <<command>>)
    /\ UNCHANGED <<names, contents, earlier, meddled>>

FilesIdle ==
    /\ names = << >> /\ contents = << >> /\ session = NoSession /\ command = NoCommand
    /\ rewrites = << >> /\ answer = NothingDone("none")
    /\ earlier = [names |-> << >>, contents |-> << >>, session |-> NoSession]
    /\ meddled = [touched |-> {}, times |-> 0, commands |-> 0]
FilesInit ==
    \E folder \in Folders :
        /\ names = folder.names /\ contents = folder.contents
        /\ session = NoSession /\ command = NoCommand /\ rewrites = << >>
        /\ answer = NothingDone("none")
        /\ earlier = [names |-> names, contents |-> contents, session |-> NoSession]
        /\ meddled = [touched |-> {}, times |-> 0, commands |-> 0]

FilesNext ==
    \/ \E path \in Paths : OpenFile(path)
    \/ CloseDocument
    \/ \E order \in Orders, path \in Paths, extract \in BOOLEAN : Save(order, path, extract)
    \/ \E whole \in BOOLEAN : EndSave(whole)
    \/ \E parts \in Cuts : Split(parts)
    \/ SplitWrite \/ SplitBreaks
    \/ \E choices \in Merges : BuildMerge(choices)
    \/ \E which \in Rotations : BuildRotation(which)
    \/ \E i \in DOMAIN rewrites : Commit(i)
    \/ \E path \in Paths : Meddle(Spelled[path], Damaged) \/ Unlink(Spelled[path])
    \/ Meddle(PartName(2, 2), Damaged)
    \/ Killed

FilesSpec == FilesInit /\ [][FilesNext]_filesVars

-----------------------------------------------------------------------------
(* Properties.                                                             *)

Untouched(name) == name \notin meddled.touched
HeldBefore(name) == earlier.contents[earlier.names[name]]
HoldsNow(name)   == contents[names[name]]
Kept(name) == name \in DOMAIN names /\ HoldsNow(name) = HeldBefore(name)

\* Files that were there and that this command does not write.
Bystanders(places) ==
    {name \in DOMAIN earlier.names : Untouched(name) /\ earlier.names[name] \notin places}

\* A command that writes is over, in the words of its answer.
SaveStands ==
    LET did == answer.what[1]
    IN  answer.op = "save" /\ answer.what # << >> =>
            /\ \A name \in Bystanders({did.place}) : Kept(name)
            /\ answer.ok /\ Idle /\ Untouched(Spelled[did.path]) =>
                 HoldsNow(Spelled[did.path]) = Pdf(did.pages)
            /\ did.extract /\ Spelled[did.path] = Spelled[earlier.session.path] =>
                 Spelled[did.path] \notin DOMAIN earlier.names \/ ~Untouched(Spelled[did.path])
SplitStands ==
    LET did == answer.what[1]
        Part(i) == PartName(i, Len(did.parts))
    IN  answer.op = "split" /\ answer.what # << >> =>
            /\ \A name \in Bystanders({}) : Kept(name)
            /\ \A i \in 1 .. did.written : Untouched(Part(i)) =>
                 /\ Part(i) \notin DOMAIN earlier.names
                 /\ HoldsNow(Part(i)) = Pdf(did.parts[i])
            /\ \A i \in did.written + 2 .. Len(did.parts) :
                 Untouched(Part(i)) => Part(i) \notin DOMAIN names
            /\ answer.ok => did.written = Len(did.parts)
NothingStands ==
    answer.nothing =>
        /\ \A name \in DOMAIN earlier.names : Untouched(name) => Kept(name)
        /\ DOMAIN names \ meddled.touched \subseteq DOMAIN earlier.names
\* A rewrite told as done is the pages as they stood, turned or extended:
\* none of the rewrites told before it is lost.
RewriteStands ==
    answer.op = "rewrite" /\ answer.ok =>
        LET did == answer.what[1]
            was == earlier.session.pages
        IN  session = NoSession \/ session.pages = Turn(was, did.which) \o did.added

\* What the disk holds is what the interface was told: a file replaced only
\* by a save that names it, never the open one by an extraction, parts
\* whole or not there, nothing written when the answer says so
\* (session.rs:226-340), and a document that loses no rotation and no merge
\* it was told of, whatever ran meanwhile (main.rs:193-212).
FilesStandAsTold == SaveStands /\ SplitStands /\ (Idle => NothingStands) /\ RewriteStands
=============================================================================
