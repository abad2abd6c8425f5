---------------------------- MODULE CommandLine ----------------------------
(***************************************************************************)
(* The commands of `fyp' (crates/fyp-cli) on the files of a folder: every  *)
(* input is read, then opened, then the whole result is made in memory,    *)
(* and only then is a file written, in place. A write may fail halfway and *)
(* the command may be killed at any step; the next command finds the       *)
(* folder as the last one left it. A file is the sequence of its pages;    *)
(* PageOperations and CoreDocument show how they are read and written.     *)
(***************************************************************************)
EXTENDS PageLists

CONSTANTS
    Shelves,        \* what the folder may hold at first: files by name
    CliCommands,    \* the commands that may be given
    MaxGiven        \* bound: how many are given

VARIABLES
    shelf,      \* the files of the folder
    folders,    \* the directories made
    line,       \* the command under way or ended: [cmd, stage, ...]
    given       \* the files as this command found them, and how many commands were given
lineVars == <<shelf, folders, line, given>>

NoLine == [stage |-> "none"]
Sheet(id, turn) == [id |-> id, turn |-> turn]
Sheets == [id : Nat, turn : Int]

\* A file in the clear, whole or cut short; without a page left nothing
\* opens it.
ShelfFile(pages)   == [pages |-> pages, ciphered |-> FALSE, opens |-> {}, torn |-> FALSE]
Torn(pages, k) == [ShelfFile(SubSeq(pages, 1, k)) EXCEPT !.torn = TRUE]
Accepts(file, password) == file.pages # << >> /\ (file.ciphered => password \in file.opens)
\* What is said of an input that opens: that it was repaired, and that what
\* was ciphered is about to be written in the clear.
Notes(name, file) ==
    {<<name, note>> : note \in {n \in {"repaired", "ciphered"} :
                                   IF n = "repaired" THEN file.torn ELSE file.ciphered}}

\* A name: of a part when its numbers are not 0.
FileNames == [dir : STRING, stem : STRING, first : Nat, last : Nat]
FileName(stem) == [dir |-> ".", stem |-> stem, first |-> 0, last |-> 0]
\* For a mutant: the parts are named after their first page.
PartPathByFirst(dir, input, range) ==
    [dir |-> dir, stem |-> input.stem, first |-> range.first + 1, last |-> 0]
PartPath(dir, input, range) ==
    [dir |-> dir, stem |-> input.stem, first |-> range.first + 1, last |-> range.last]
-----------------------------------------------------------------------------
(* The commands.                                                           *)

Command(op, inputs, output, password) ==
    [op |-> op, inputs |-> inputs, output |-> output, password |-> password]
InfoCommand(path, password)            == Command("info", <<path>>, << >>, password)
RewriteCommand(input, output, password) == Command("rewrite", <<input>>, <<output>>, password)
MergeCommand(inputs, pages, output, password) ==
    [pages |-> pages] @@ Command("merge", inputs, <<output>>, password)
\* What keeps, removes or turns pages.
ExtractCommand(input, pages, output, password) ==
    [pages |-> <<pages>>] @@ Command("extract", <<input>>, <<output>>, password)
DeleteCommand(input, pages, output, password) ==
    [pages |-> <<pages>>] @@ Command("delete", <<input>>, <<output>>, password)
RotateCommand(input, pages, degrees, output, password) ==
    [pages |-> <<pages>>, degrees |-> degrees]
    @@ Command("rotate", <<input>>, <<output>>, password)
\* One of the two ways, or none; the output is a directory.
SplitCommand(input, every, ranges, dir, password) ==
    [every |-> every, ranges |-> ranges, dir |-> dir]
    @@ Command("split", <<input>>, << >>, password)
RunCommand(action, inputs, output, params, modules, module, password) ==
    [action |-> action, params |-> params, modules |-> modules, module |-> module]
    @@ Command("run", inputs, <<output>>, password)
ModulesCommand == Command("modules", << >>, << >>, "")
OnlyPrints(cmd) == cmd.op \in {"info", "modules"}

\* What the arguments of a command are made of, once they are parsed.
OfOneList == {"extract", "delete", "rotate"}
ASSUME CommandAssumption ==
    /\ \A files \in Shelves : \A name \in DOMAIN files : files[name].pages \in Seq(Sheets)
    /\ \A cmd \in CliCommands :
          /\ cmd.op \in {"info", "modules", "rewrite", "merge", "run", "split"} \cup OfOneList
          /\ cmd.inputs \in Seq(FileNames) /\ cmd.output \in Seq(FileNames)
          /\ Len(cmd.output) = IF OnlyPrints(cmd) \/ cmd.op = "split" THEN 0 ELSE 1
          /\ cmd.op \in {"rewrite", "split"} \cup OfOneList => Len(cmd.inputs) = 1
          /\ cmd.op \in {"merge"} \cup OfOneList => cmd.pages \in Seq(Seq(Int))
          /\ cmd.op \in OfOneList => Len(cmd.pages) = 1
          /\ cmd.op = "rotate" => cmd.degrees \in Int
          /\ cmd.op = "split" => cmd.every \in Seq(Nat) /\ cmd.ranges \in Seq(Seq(Int))

\* The pages of one file: all of them, or those of a list.
AllWord == -8
AllOf(pages) == PagesRead([i \in DOMAIN pages |-> i - 1])
parse_selection(pages, text) ==
    IF Trimmed(text, RustBlanks) = <<AllWord>> THEN AllOf(pages)
    ELSE parse_pages(text, Len(pages))

\* Of the pages listed, counted from 0.
PagesTaken(pages, r) == IF IsRead(r) THEN PagesRead([k \in DOMAIN r.pages |-> pages[r.pages[k] + 1]])
                     ELSE r
\* check_selection: each page once.
EachSelectedOnce(r) == IF IsRead(r) /\ ~IsInjective(r.pages) THEN [is |-> "twice"] ELSE r
Listed(cmd, pages)  == EachSelectedOnce(parse_pages(cmd.pages[1], Len(pages)))

\* merge_selected, of the selection of each file.
JoinedPages(cmd, docs) ==
    Gathered([i \in DOMAIN docs |->
        PagesTaken(docs[i], IF cmd.pages = << >> THEN AllOf(docs[i])
                            ELSE parse_selection(docs[i], cmd.pages[i]))])
Deleted(pages, r) ==
    IF IsRead(r)
    THEN NotEmpty(PagesTaken(pages, PagesRead(FlattenSeq([p \in DOMAIN pages |->
             IF p - 1 \in ToSet(r.pages) THEN << >> ELSE <<p - 1>>]))))
    ELSE r
Rotated(pages, r, degrees) ==
    IF IsRead(r)
    THEN PagesRead([i \in DOMAIN pages |->
             IF i - 1 \in ToSet(r.pages)
             THEN Sheet(pages[i].id, (pages[i].turn + degrees) % 360) ELSE pages[i]])
    ELSE r
SplitRanges(cmd, count) ==
    IF cmd.every # << >>
    THEN IF cmd.every[1] = 0 THEN NothingGiven ELSE PagesRead(ranges_every(count, cmd.every[1]))
    ELSE IF cmd.ranges # << >> THEN parse_ranges(cmd.ranges[1], count) ELSE NothingGiven

\* An encrypted input is handed to the module in the clear, without its
\* password; the merge module then chains what it can open.
Handed(file) == IF file.ciphered THEN ShelfFile(file.pages) ELSE file
ChainResult(files) ==
    IF files = << >> \/ \E i \in DOMAIN files : ~Accepts(Handed(files[i]), "")
    THEN NothingGiven
    ELSE PagesRead(FlattenSeq([i \in DOMAIN files |-> files[i].pages]))

\* The files a command is about to write, or why it writes none.
OneFile(cmd, r) == IF IsRead(r) THEN <<[name |-> cmd.output[1], pages |-> r.pages]>> ELSE << >>
PartsMade(cmd, pages) ==
    LET r == SplitRanges(cmd, Len(pages))
    IN  IF ~IsRead(r) THEN << >>
        ELSE [k \in DOMAIN r.pages |->
                 [name  |-> PartPath(cmd.dir, cmd.inputs[1], r.pages[k]),
                  pages |-> SubSeq(pages, r.pages[k].first + 1, r.pages[k].last)]]
Made(cmd, files) ==
    LET docs == [i \in DOMAIN files |-> files[i].pages]
    IN  CASE cmd.op = "merge"   -> OneFile(cmd, JoinedPages(cmd, docs))
          [] cmd.op = "extract" -> OneFile(cmd, PagesTaken(docs[1], Listed(cmd, docs[1])))
          [] cmd.op = "delete"  -> OneFile(cmd, Deleted(docs[1], Listed(cmd, docs[1])))
          [] cmd.op = "rotate"  ->
                IF cmd.degrees % 90 # 0 THEN << >>
                ELSE OneFile(cmd, Rotated(docs[1], Listed(cmd, docs[1]), cmd.degrees))
          [] cmd.op = "rewrite" -> OneFile(cmd, PagesRead(docs[1]))
          [] cmd.op = "run"     -> OneFile(cmd, ChainResult(files))
          [] OTHER              -> PartsMade(cmd, docs[1])
-----------------------------------------------------------------------------
(* A command, step by step.                                                *)

\* run_action: the one module that declares the action, and its parameters.
Candidates(cmd) ==
    {i \in DOMAIN cmd.modules : /\ cmd.action \in cmd.modules[i].actions
                                /\ cmd.module # << >> => cmd.module[1] = cmd.modules[i].id}
ParamsRead(cmd) ==
    \A i \in Candidates(cmd) : \A j \in DOMAIN cmd.params :
        cmd.params[j].good /\ cmd.params[j].name \in cmd.modules[i].params
RefusedAtOnce(cmd) ==
    \/ cmd.op = "merge" /\ cmd.pages # << >> /\ Len(cmd.pages) # Len(cmd.inputs)
    \/ cmd.op = "run" /\ (Cardinality(Candidates(cmd)) # 1 \/ ~ParamsRead(cmd))

Begun(cmd) == [cmd |-> cmd, stage |-> "reading", code |-> "none", files |-> << >>, opened |-> 0,
               told |-> {}, outs |-> << >>, done |-> 0]
EndLine(code) == line' = [line EXCEPT !.stage = "ended", !.code = code]
Refuse    == EndLine("refused") /\ UNCHANGED <<shelf, folders, given>>

Give ==
    /\ line.stage \in {"none", "ended"} /\ given.count < MaxGiven
    /\ \E cmd \in CliCommands :
           line' = IF RefusedAtOnce(cmd) THEN [Begun(cmd) EXCEPT !.stage = "ended", !.code = "refused"]
                   ELSE Begun(cmd)
    /\ given' = [files |-> shelf, count |-> given.count + 1]
    /\ UNCHANGED <<shelf, folders>>

\* read_input, for every input before any is opened.
ReadInput ==
    /\ line.stage = "reading" /\ Len(line.files) < Len(line.cmd.inputs)
    /\ LET name == line.cmd.inputs[Len(line.files) + 1]
       IN  IF name \in DOMAIN shelf
           THEN /\ line' = [line EXCEPT !.files = Append(@, shelf[name])]
                /\ UNCHANGED <<shelf, folders, given>>
           ELSE Refuse
AllRead == line.stage = "reading" /\ Len(line.files) = Len(line.cmd.inputs)

\* open_input.
OpenInput ==
    /\ AllRead /\ line.opened < Len(line.cmd.inputs) /\ ~OnlyPrints(line.cmd)
    /\ LET file == line.files[line.opened + 1]
       IN  IF Accepts(file, line.cmd.password)
           THEN /\ line' = [line EXCEPT !.opened = @ + 1,
                                !.told = @ \cup Notes(line.cmd.inputs[line.opened + 1], file)]
                /\ UNCHANGED <<shelf, folders, given>>
           ELSE Refuse
\* What only prints: a file that cannot be opened is reported, one without
\* a header refused.
Inform ==
    /\ AllRead /\ OnlyPrints(line.cmd)
    /\ \E code \in {"ok"} \cup {"refused" : i \in {i \in DOMAIN line.files : line.files[i].pages = << >>}} :
           EndLine(code)
    /\ UNCHANGED <<shelf, folders, given>>

\* The result is made, or refused; a module may fail in its own ways, and
\* the directory of the parts, made first, may be refused. Ranges are read
\* before it is.
Work ==
    /\ AllRead /\ line.opened = Len(line.cmd.inputs) /\ ~OnlyPrints(line.cmd)
    /\ LET outs == Made(line.cmd, line.files)
       IN  \/ /\ outs = << >> \/ line.cmd.op \in {"run", "split"}
              /\ Refuse
           \/ /\ outs # << >>
              /\ line' = [line EXCEPT !.stage = "writing", !.outs = outs]
              /\ folders' = IF line.cmd.op = "split" THEN folders \cup {line.cmd.dir} ELSE folders
              /\ UNCHANGED <<shelf, given>>

\* The folder with a file under that name, in place of the one there was.
WithFile(name, file) == [n \in DOMAIN shelf \cup {name} |-> IF n = name THEN file ELSE shelf[n]]
\* write_result: fs::write empties the file and fills it, or cannot open it.
BeginWrite ==
    /\ line.stage = "writing"
    /\ LET out == line.outs[line.done + 1]
       IN  \/ /\ \E k \in 0 .. Len(out.pages) - 1 : shelf' = WithFile(out.name, Torn(out.pages, k))
              /\ line' = [line EXCEPT !.stage = "filling"]
              /\ UNCHANGED <<folders, given>>
           \/ EndLine("failed") /\ UNCHANGED <<shelf, folders, given>>
\* What was written reads back as it is (CoreDocument, WrittenReadsBack).
EndWrite ==
    /\ line.stage = "filling"
    /\ LET out == line.outs[line.done + 1]
       IN  \/ /\ shelf' = WithFile(out.name, ShelfFile(out.pages))
              /\ line' = IF line.done + 1 = Len(line.outs)
                         THEN [line EXCEPT !.stage = "ended", !.code = "ok", !.done = @ + 1]
                         ELSE [line EXCEPT !.stage = "writing", !.done = @ + 1]
           \/ EndLine("failed") /\ UNCHANGED shelf
    /\ UNCHANGED <<folders, given>>
LineKilled ==
    /\ line.stage \notin {"none", "ended"}
    /\ EndLine("killed") /\ UNCHANGED <<shelf, folders, given>>
-----------------------------------------------------------------------------
CliIdle == shelf = << >> /\ folders = {} /\ line = NoLine /\ given = [files |-> << >>, count |-> 0]
CliInit ==
    /\ shelf \in Shelves /\ folders = {} /\ line = NoLine
    /\ given = [files |-> shelf, count |-> 0]
CliNext ==
    \/ Give \/ ReadInput \/ OpenInput \/ Inform \/ Work \/ BeginWrite \/ EndWrite \/ LineKilled
CliSpec == CliInit /\ [][CliNext]_lineVars
-----------------------------------------------------------------------------
(* What a command promises, said of the files as it found them.            *)

InputPages(cmd, i) == given.files[cmd.inputs[i]].pages
ListRead(cmd, i) == parse_pages(cmd.pages[i], Len(InputPages(cmd, i))).pages
IsListed(cmd, p) == \E k \in DOMAIN ListRead(cmd, 1) : ListRead(cmd, 1)[k] = p - 1
TakenFrom(cmd, i) ==
    IF cmd.op = "run" THEN InputPages(cmd, i)
    ELSE IF cmd.pages = << >> THEN InputPages(cmd, i)
    ELSE IF cmd.op = "merge" /\ Trimmed(cmd.pages[i], RustBlanks) = <<AllWord>>
    THEN InputPages(cmd, i)
    ELSE [k \in DOMAIN ListRead(cmd, i) |-> InputPages(cmd, i)[ListRead(cmd, i)[k] + 1]]
IsResultOf(pages, cmd, name) ==
    CASE cmd.op \in {"merge", "run"} ->
            pages = FlattenSeq([i \in DOMAIN cmd.inputs |-> TakenFrom(cmd, i)])
      [] cmd.op = "extract" -> pages = TakenFrom(cmd, 1) /\ IsInjective(ListRead(cmd, 1))
      [] cmd.op = "delete"  ->
            pages = FlattenSeq([p \in DOMAIN InputPages(cmd, 1) |->
                        IF IsListed(cmd, p) THEN << >> ELSE <<InputPages(cmd, 1)[p]>>])
      [] cmd.op = "rotate"  ->
            /\ Len(pages) = Len(InputPages(cmd, 1))
            /\ \A p \in DOMAIN pages :
                  /\ pages[p].id = InputPages(cmd, 1)[p].id
                  /\ (pages[p].turn - InputPages(cmd, 1)[p].turn) % 360 =
                        IF IsListed(cmd, p) THEN cmd.degrees % 360 ELSE 0
      [] cmd.op = "rewrite" -> pages = InputPages(cmd, 1)
      [] OTHER -> pages = SubSeq(InputPages(cmd, 1), name.first, name.last)
\* The parts asked for, as the first and the last page of each.
PartsWanted(cmd, count) ==
    IF cmd.every # << >>
    THEN {<<p, Min({p + cmd.every[1] - 1, count})>> :
             p \in {p \in 1 .. count : (p - 1) % cmd.every[1] = 0}}
    ELSE {LET pages == parse_pages(part, count).pages IN <<Head(pages) + 1, Last(pages) + 1>> :
             part \in ToSet(ListParts(cmd.ranges[1], RustBlanks))}
\* The files a command that ends well has written.
FilesWanted(cmd) ==
    IF cmd.op # "split" THEN ToSet(cmd.output)
    ELSE {[dir |-> cmd.dir, stem |-> cmd.inputs[1].stem, first |-> part[1], last |-> part[2]] :
             part \in PartsWanted(cmd, Len(InputPages(cmd, 1)))}

\* A command that is refused has written nothing. One that ends well has
\* written what was asked, whole and in the clear, be it over one of its
\* inputs; one that fails or is killed halfway leaves whole what it wrote
\* before, but for the file it was filling. No other file changes, and
\* before any does, every input that was repaired or ciphered was told of
\* (main.rs: write_result, "A repaired file must never pass for a sound
\* one", and refusals_say_what_is_wrong_and_write_nothing).
CommandsEndAsTold ==
    line.stage # "none" =>
        LET cmd     == line.cmd
            touched == {name \in DOMAIN shelf :
                           IF name \in DOMAIN given.files THEN shelf[name] # given.files[name]
                           ELSE TRUE}
            written == {line.outs[k].name : k \in 1 .. line.done}
            filled  == IF line.done < Len(line.outs) THEN {line.outs[line.done + 1].name} ELSE {}
        IN  /\ DOMAIN given.files \subseteq DOMAIN shelf
            /\ touched \subseteq written \cup filled
            /\ line.code = "refused" => touched = {}
            /\ line.code = "ok" => written = FilesWanted(cmd)
            /\ \A name \in written \ (IF line.code = "ok" THEN {} ELSE filled) :
                  ~shelf[name].torn /\ ~shelf[name].ciphered
                  /\ IsResultOf(shelf[name].pages, cmd, name)
            /\ touched # {} => \A i \in DOMAIN cmd.inputs :
                                 Notes(cmd.inputs[i], given.files[cmd.inputs[i]]) \subseteq line.told
=============================================================================
