-------------------------- MODULE SessionFilesSafety --------------------------
(* The files of the document open on the Rust side, for any folder, paths, *)
(* pages, cuts, merges and rotations: what the interface is told of the    *)
(* disk and of the document is so.                                         *)
EXTENDS SessionFiles, FoldFacts

-----------------------------------------------------------------------------
(* The inductive invariant.                                                *)

\* The folder: names lead to places that hold something.
FolderStands ==
    /\ IsFiniteSet(DOMAIN contents)
    /\ names \in [DOMAIN names -> DOMAIN contents]
    /\ contents = [place \in DOMAIN contents |-> contents[place]]
    /\ \A place \in DOMAIN contents : contents[place].kind = "pdf" => contents[place].pages \in Seq(Int)

Sessions == [id : Nat \ {0}, document : Nat, path : Paths, pages : Seq(Int)]
Rewritings == [from : Nat \ {0}, document : Nat, op : {"rotate", "merge"},
               which : Rotations \cup {{}}, added : Seq(Int), pages : Seq(Int)]
Splits == [op : {"split"}, parts : Seq(Seq(Int)), written : Nat]

\* The document open and the rewrites under way; no id was given twice.
SessionStands ==
    /\ session = NoSession \/ session \in Sessions
    /\ rewrites \in Seq(Rewritings)
    /\ meddled.times \in Nat /\ meddled.commands \in Nat
    /\ meddled = [touched |-> meddled.touched, times |-> meddled.times, commands |-> meddled.commands]
    /\ session.id <= meddled.commands
    /\ \A i \in DOMAIN rewrites : rewrites[i].from <= meddled.commands

\* A rewrite made from what is current is what would be told of it.
RewritesStand ==
    /\ \A i \in DOMAIN rewrites :
         rewrites[i].from = session.id =>
             rewrites[i].pages = Turn(session.pages, rewrites[i].which) \o rewrites[i].added
    /\ answer.op = "rewrite" /\ answer.ok =>
         \/ session = NoSession
         \/ session.pages = Turn(earlier.session.pages, answer.what[1].which) \o answer.what[1].added

\* While a command writes, the interface is told that something may have
\* been written; an answer that says nothing was names no save and no split.
AnswerStands ==
    /\ \/ command = NoCommand
       \/ command.op = "save" /\ answer = MaybeDone("save")
       \/ command \in Splits /\ answer = MaybeDone("split")
    /\ answer.nothing => answer.what = << >> \/ answer.op = "rewrite"

\* The save, or the split, that is writing, or that the answer is about.
SaveDone == IF command.op = "save" THEN <<command>> ELSE IF answer.op = "save" THEN answer.what ELSE << >>
SplitDone == IF command.op = "split" THEN <<command>> ELSE IF answer.op = "split" THEN answer.what ELSE << >>

\* What was there before the command is there, but where the save writes.
EarlierStands ==
    /\ DOMAIN earlier.contents \subseteq DOMAIN contents
    /\ \A name \in DOMAIN earlier.names :
         /\ earlier.names[name] \in DOMAIN earlier.contents
         /\ Untouched(name) => name \in DOMAIN names /\ names[name] = earlier.names[name]
    /\ \A place \in DOMAIN earlier.contents :
         contents[place] = earlier.contents[place] \/ (SaveDone # << >> /\ place = SaveDone[1].place)
    /\ answer.nothing => DOMAIN names \ meddled.touched \subseteq DOMAIN earlier.names

\* A save writes to the place its name leads to, never over the document
\* open when it extracts.
SaveIsAt(did) ==
    /\ did.place \in DOMAIN contents
    /\ Untouched(Spelled[did.path]) =>
         Spelled[did.path] \in DOMAIN names /\ names[Spelled[did.path]] = did.place
    /\ did.pages \in Seq(Int)
    /\ answer.ok /\ Idle => contents[did.place] = Pdf(did.pages)
    /\ did.extract /\ Spelled[did.path] = Spelled[earlier.session.path] =>
         Spelled[did.path] \notin DOMAIN earlier.names
SavingStands == SaveDone # << >> => SaveIsAt(SaveDone[1])

\* A split has written its first parts, whole and where nothing was; the
\* one after them was begun when it failed, and no other.
SplitIsAt(did) ==
    LET Part(i) == PartName(i, Len(did.parts))
    IN  /\ did \in Splits /\ did.written <= Len(did.parts)
        /\ \A i \in 1 .. Len(did.parts) : Part(i) \notin DOMAIN earlier.names
        /\ \A i \in 1 .. did.written : Untouched(Part(i)) =>
             Part(i) \in DOMAIN names /\ HoldsNow(Part(i)) = Pdf(did.parts[i])
        /\ \A i \in did.written + 1 .. Len(did.parts) :
             Untouched(Part(i)) => Part(i) \notin DOMAIN names \/ (Idle /\ i = did.written + 1)
        /\ IF Idle THEN answer.ok => did.written = Len(did.parts) ELSE did.written < Len(did.parts)
SplittingStands == SplitDone # << >> => SplitIsAt(SplitDone[1])

FilesInvariant ==
    /\ FolderStands /\ SessionStands /\ RewritesStand /\ AnswerStands
    /\ EarlierStands /\ SavingStands /\ SplittingStands
-----------------------------------------------------------------------------
(* The folder.                                                             *)

\* There is a place that holds nothing yet: a folder is finite.
LEMMA FreshIsFree ==
  ASSUME FolderStands
  PROVE  Fresh \notin DOMAIN contents
<1> DEFINE D == DOMAIN contents
           n == Cardinality(D)
<1>1. IsFiniteSet(D) /\ n \in Nat
  BY FS_CardinalityType DEF FolderStands
<1>2. ASSUME 1 .. n + 1 \subseteq D PROVE FALSE
  <2>1. Cardinality(1 .. n + 1) = n + 1
    BY <1>1, FS_Interval
  <2>2. Cardinality(1 .. n + 1) <= n
    BY <1>1, <1>2, FS_Subset
  <2>3. QED
    BY <1>1, <2>1, <2>2
<1>3. \E place \in 1 .. n + 1 : place \notin D
  BY <1>2
<1>4. QED
  BY <1>3 DEF Fresh

\* What stays in the folder when a file is made at a fresh place, and the
\* name leads to it (fs::write, create_new, another program).
FileMade(name, content) ==
    /\ names' = Amended(names, name, Fresh)
    /\ contents' = Amended(contents, Fresh, content)
LEMMA FileMadeIs ==
  ASSUME FolderStands, NEW name, NEW content, FileMade(name, content),
         content.kind = "pdf" => content.pages \in Seq(Int)
  PROVE  /\ FolderStands'
         /\ DOMAIN names' = DOMAIN names \cup {name} /\ names'[name] = Fresh
         /\ DOMAIN contents' = DOMAIN contents \cup {Fresh} /\ contents'[Fresh] = content
         /\ Fresh \notin DOMAIN contents
         /\ \A n \in DOMAIN names : n # name => names'[n] = names[n]
         /\ \A place \in DOMAIN contents : contents'[place] = contents[place]
<1> DEFINE free == Fresh
<1>1. free \notin DOMAIN contents
  BY FreshIsFree
<1>2. names' = Amended(names, name, free) /\ contents' = Amended(contents, free, content)
  BY DEF FileMade
<1> HIDE DEF free
<1>3. /\ DOMAIN names' = DOMAIN names \cup {name} /\ names'[name] = free
      /\ \A n \in DOMAIN names : n # name => names'[n] = names[n]
      /\ names' = [n \in DOMAIN names' |-> names'[n]]
  <2> DEFINE new == Amended(names, name, free)
  <2>1. /\ DOMAIN new = DOMAIN names \cup {name} /\ new[name] = free
        /\ \A n \in DOMAIN names : n # name => new[n] = names[n]
        /\ new = [n \in DOMAIN new |-> new[n]]
    BY DEF Amended
  <2>2. names' = new
    BY <1>2
  <2> HIDE DEF new
  <2>3. QED
    BY <2>1, <2>2
<1>4. /\ DOMAIN contents' = DOMAIN contents \cup {free} /\ contents'[free] = content
      /\ \A place \in DOMAIN contents : contents'[place] = contents[place]
      /\ contents' = [place \in DOMAIN contents' |-> contents'[place]]
  <2> DEFINE new == Amended(contents, free, content)
  <2>1. /\ DOMAIN new = DOMAIN contents \cup {free} /\ new[free] = content
        /\ \A place \in DOMAIN contents : place # free => new[place] = contents[place]
        /\ new = [place \in DOMAIN new |-> new[place]]
    BY DEF Amended
  <2>2. contents' = new
    BY <1>2
  <2> HIDE DEF new
  <2>3. QED
    BY <1>1, <2>1, <2>2
<1>5. IsFiniteSet(DOMAIN contents')
  BY <1>4, FS_AddElement DEF FolderStands
<1>6. names' \in [DOMAIN names' -> DOMAIN contents']
  <2>1. \A n \in DOMAIN names' : names'[n] \in DOMAIN contents'
    BY <1>3, <1>4 DEF FolderStands
  <2>2. QED
    BY <1>3, <2>1
<1>7. \A place \in DOMAIN contents' : contents'[place].kind = "pdf" => contents'[place].pages \in Seq(Int)
  BY <1>4 DEF FolderStands
<1>8. FolderStands'
  BY <1>4, <1>5, <1>6, <1>7 DEF FolderStands
<1>9. QED
  BY <1>1, <1>3, <1>4, <1>8 DEF free

\* fs::write begins by emptying the file, or by making it.
LEMMA EmptyFileIs ==
  ASSUME FolderStands, NEW path \in Paths, EmptyFile(path)
  PROVE  /\ FolderStands'
         /\ PlaceWritten(path) \in DOMAIN contents'
         /\ DOMAIN names' = DOMAIN names \cup {Spelled[path]}
         /\ names'[Spelled[path]] = PlaceWritten(path)
         /\ \A n \in DOMAIN names : names'[n] = names[n]
         /\ DOMAIN contents \subseteq DOMAIN contents'
         /\ \A place \in DOMAIN contents : place # PlaceWritten(path) => contents'[place] = contents[place]
<1>1. Damaged.kind # "pdf"
  BY DEF Damaged
<1>2. CASE Exists(path)
  <2>1. contents' = [contents EXCEPT ![PlaceOf(path)] = Damaged] /\ names' = names
    BY <1>2 DEF EmptyFile
  <2>2. PlaceWritten(path) = PlaceOf(path) /\ PlaceOf(path) = names[Spelled[path]]
        /\ Spelled[path] \in DOMAIN names
    BY <1>2 DEF PlaceWritten, PlaceOf, Exists
  <2>3. PlaceOf(path) \in DOMAIN contents
    BY <2>2 DEF FolderStands
  <2>4. /\ DOMAIN contents' = DOMAIN contents /\ contents'[PlaceOf(path)] = Damaged
        /\ \A place \in DOMAIN contents : place # PlaceOf(path) => contents'[place] = contents[place]
        /\ contents' = [place \in DOMAIN contents' |-> contents'[place]]
    BY <2>1, <2>3 DEF FolderStands
  <2>5. FolderStands'
    BY <1>1, <2>1, <2>4 DEF FolderStands
  <2>6. QED
    BY <2>1, <2>2, <2>3, <2>4, <2>5
<1>3. CASE ~Exists(path)
  <2>1. FileMade(Spelled[path], Damaged)
    BY <1>3 DEF EmptyFile, FileMade
  <2>2. PlaceWritten(path) = Fresh /\ Spelled[path] \notin DOMAIN names
    BY <1>3 DEF PlaceWritten, Exists
  <2>3. /\ FolderStands'
        /\ DOMAIN names' = DOMAIN names \cup {Spelled[path]} /\ names'[Spelled[path]] = Fresh
        /\ DOMAIN contents' = DOMAIN contents \cup {Fresh}
        /\ \A n \in DOMAIN names : n # Spelled[path] => names'[n] = names[n]
        /\ \A place \in DOMAIN contents : contents'[place] = contents[place]
    BY <1>1, <2>1, FileMadeIs
  <2>4. QED
    BY <2>2, <2>3
<1>4. QED
  BY <1>2, <1>3
-----------------------------------------------------------------------------
(* The commands of the interface.                                          *)

\* What begins a command: what was there is noted, nothing is touched yet.
LEMMA BeganIs ==
  ASSUME SessionStands, Began
  PROVE  /\ command = NoCommand
         /\ earlier'.names = names /\ earlier'.contents = contents /\ earlier'.session = session
         /\ meddled'.touched = {} /\ meddled'.times = meddled.times
         /\ meddled'.commands = meddled.commands + 1
         /\ meddled' = [touched |-> meddled'.touched, times |-> meddled'.times, commands |-> meddled'.commands]
         /\ NextId \in Nat \ {0} /\ NextId = meddled.commands + 1
<1>1. meddled = [touched |-> meddled.touched, times |-> meddled.times, commands |-> meddled.commands]
      /\ meddled.commands \in Nat
  BY DEF SessionStands
<1>2. meddled' = [meddled EXCEPT !.touched = {}, !.commands = @ + 1]
  BY DEF Began
<1>3. /\ meddled'.touched = {} /\ meddled'.times = meddled.times
      /\ meddled'.commands = meddled.commands + 1
      /\ meddled' = [touched |-> meddled'.touched, times |-> meddled'.times, commands |-> meddled'.commands]
  BY <1>1, <1>2
<1>4. earlier' = [names |-> names, contents |-> contents, session |-> session] /\ command = NoCommand
  BY DEF Began, Idle
<1>5. QED
  BY <1>1, <1>3, <1>4 DEF NextId

\* A rewrite has the id of a document that was current.
LEMMA RewriteIs ==
  ASSUME SessionStands, NEW i \in DOMAIN rewrites
  PROVE  /\ rewrites[i] \in Rewritings
         /\ rewrites[i].from \in Nat \ {0} /\ rewrites[i].from <= meddled.commands
         /\ rewrites[i].added \in Seq(Int) /\ rewrites[i].pages \in Seq(Int)
         /\ rewrites[i].which \in Rotations \cup {{}}
<1>1. rewrites[i] \in Rewritings
  BY DEF SessionStands
<1>2. rewrites[i].from <= meddled.commands
  BY DEF SessionStands
<1>3. QED
  BY <1>1, <1>2 DEF Rewritings

\* A command that leaves the folder as it is.
LEMMA FolderLeft ==
  ASSUME FolderStands, SessionStands, Began, UNCHANGED <<names, contents>>
  PROVE  FolderStands' /\ EarlierStands'
<1>1. FolderStands'
  BY DEF FolderStands
<1>2. /\ earlier'.names = names /\ earlier'.contents = contents
  BY BeganIs
<1>3. EarlierStands'
  BY <1>2 DEF EarlierStands, FolderStands
<1>4. QED
  BY <1>1, <1>3

\* An answer that is about no save and no split.
LEMMA NothingDoneYet ==
  ASSUME command' = NoCommand, answer'.what = << >> \/ answer'.op \notin {"save", "split"}
  PROVE  SavingStands' /\ SplittingStands'
BY DEF NoCommand, SavingStands, SplittingStands, SaveDone, SplitDone


\* A command that leaves the folder as it is, and the document or makes it
\* another: the rewrites under way stay as far from what is current.
LEMMA QuietCommand ==
  ASSUME FilesInvariant, Began, UNCHANGED <<names, contents, command>>,
         \/ session' = session
         \/ session' = NoSession
         \/ (session' \in Sessions /\ session'.id = NextId),
         rewrites' \in Seq(Rewritings),
         \A j \in DOMAIN rewrites' : \E i \in DOMAIN rewrites : rewrites'[j] = rewrites[i],
         answer'.what = << >> \/ answer'.op = "rewrite",
         (answer'.op = "rewrite" /\ answer'.ok) =>
             session'.pages = Turn(session.pages, answer'.what[1].which) \o answer'.what[1].added
  PROVE  FilesInvariant'
<1> USE DEF FilesInvariant
<1>1. FolderStands' /\ EarlierStands'
  BY FolderLeft
<1>2. /\ command = NoCommand /\ NextId \in Nat \ {0} /\ NextId = meddled.commands + 1
      /\ meddled'.times = meddled.times /\ meddled'.commands = meddled.commands + 1
      /\ meddled' = [touched |-> meddled'.touched, times |-> meddled'.times, commands |-> meddled'.commands]
      /\ earlier'.session = session
  BY BeganIs
<1>3. /\ meddled.commands \in Nat /\ meddled.times \in Nat
      /\ session.id \in Nat /\ session.id <= meddled.commands
      /\ session = NoSession \/ session \in Sessions
  BY DEF SessionStands, NoSession, Sessions
<1>4. ASSUME NEW j \in DOMAIN rewrites'
      PROVE  /\ rewrites'[j].from \in Nat \ {0} /\ rewrites'[j].from <= meddled.commands
             /\ rewrites'[j].from = session.id =>
                  rewrites'[j].pages = Turn(session.pages, rewrites'[j].which) \o rewrites'[j].added
  <2>1. PICK i \in DOMAIN rewrites : rewrites'[j] = rewrites[i]
    OBVIOUS
  <2>2. rewrites[i].from \in Nat \ {0} /\ rewrites[i].from <= meddled.commands
    BY RewriteIs
  <2>3. rewrites[i].from = session.id =>
          rewrites[i].pages = Turn(session.pages, rewrites[i].which) \o rewrites[i].added
    BY DEF RewritesStand
  <2>4. QED
    BY <2>1, <2>2, <2>3
<1>5. SessionStands'
  <2>1. session'.id <= meddled'.commands /\ (session' = NoSession \/ session' \in Sessions)
    BY <1>2, <1>3 DEF NoSession
  <2>2. \A j \in DOMAIN rewrites' : rewrites'[j].from <= meddled'.commands
    <3> SUFFICES ASSUME NEW j \in DOMAIN rewrites' PROVE rewrites'[j].from <= meddled'.commands
      OBVIOUS
    <3> DEFINE from == rewrites'[j].from
    <3>1. from \in Nat /\ from <= meddled.commands
      BY <1>4
    <3> HIDE DEF from
    <3>2. from <= meddled'.commands
      BY <1>2, <1>3, <3>1
    <3>3. QED
      BY <3>2 DEF from
  <2>3. meddled'.times \in Nat /\ meddled'.commands \in Nat
    BY <1>2, <1>3
  <2>4. QED
    BY <1>2, <2>1, <2>2, <2>3 DEF SessionStands
<1>6. RewritesStand'
  <2>1. ASSUME NEW j \in DOMAIN rewrites', rewrites'[j].from = session'.id
        PROVE  rewrites'[j].pages = Turn(session'.pages, rewrites'[j].which) \o rewrites'[j].added
    <3> DEFINE from == rewrites'[j].from
    <3>1. from \in Nat \ {0} /\ from <= meddled.commands
      BY <1>4
    <3>2. from = session'.id
      BY <2>1
    <3> HIDE DEF from
    <3>3. session'.id # 0 /\ session'.id # NextId
      BY <1>2, <1>3, <3>1, <3>2
    <3>4. session' = session
      BY <3>3 DEF NoSession
    <3>5. QED
      BY <1>4, <2>1, <3>4
  <2>2. QED
    BY <1>2, <2>1 DEF RewritesStand
<1>7. AnswerStands'
  BY <1>2 DEF AnswerStands
<1>8. command' = NoCommand /\ (answer'.what = << >> \/ answer'.op \notin {"save", "split"})
  BY <1>2
<1>9. SavingStands' /\ SplittingStands'
  BY <1>8, NothingDoneYet
<1>10. QED
  BY <1>1, <1>5, <1>6, <1>7, <1>9

\* Session::open, and a file that does not open.
LEMMA OpenFileKeeps ==
  ASSUME FilesInvariant, NEW path \in Paths, OpenFile(path)
  PROVE  FilesInvariant'
<1>0. Began /\ names' = names /\ contents' = contents /\ command' = command /\ rewrites' = rewrites
  BY DEF OpenFile
<1>1. answer' = Told("open", TRUE, TRUE, << >>) \/ answer' = NothingDone("open")
  BY DEF OpenFile
<1>2. answer'.op = "open" /\ answer'.what = << >>
  BY <1>1 DEF Told, NothingDone
<1>3. session' = session \/ (session' \in Sessions /\ session'.id = NextId)
  <2>1. CASE Opens(path)
    <3>1. session' = [id |-> NextId, document |-> NextId, path |-> path,
                      pages |-> contents[PlaceOf(path)].pages]
      BY <2>1 DEF OpenFile
    <3>2. Spelled[path] \in DOMAIN names /\ contents[names[Spelled[path]]].kind = "pdf"
      BY <2>1 DEF Opens, Exists, PlaceOf
    <3>3. contents[PlaceOf(path)].pages \in Seq(Int)
      BY <3>2 DEF FolderStands, PlaceOf, FilesInvariant
    <3>4. NextId \in Nat \ {0}
      BY <1>0, BeganIs DEF FilesInvariant
    <3>5. QED
      BY <3>1, <3>3, <3>4 DEF Sessions
  <2>2. CASE ~Opens(path)
    <3>1. session' = session
      BY <2>2 DEF OpenFile
    <3>2. QED
      BY <3>1
  <2>3. QED
    BY <2>1, <2>2
<1>4. rewrites' \in Seq(Rewritings)
  BY <1>0 DEF FilesInvariant, SessionStands
<1>5. \A j \in DOMAIN rewrites' : \E i \in DOMAIN rewrites : rewrites'[j] = rewrites[i]
  BY <1>0
<1>6. QED
  BY <1>0, <1>2, <1>3, <1>4, <1>5, QuietCommand

\* The document is closed; the rewrites under way are of no document.
LEMMA CloseKeeps ==
  ASSUME FilesInvariant, CloseDocument
  PROVE  FilesInvariant'
<1>0. Began /\ names' = names /\ contents' = contents /\ command' = command /\ rewrites' = rewrites
      /\ session' = NoSession
  BY DEF CloseDocument
<1>1. answer'.op = "close" /\ answer'.what = << >>
  BY DEF CloseDocument, Told
<1>2. rewrites' \in Seq(Rewritings)
  BY <1>0 DEF FilesInvariant, SessionStands
<1>3. \A j \in DOMAIN rewrites' : \E i \in DOMAIN rewrites : rewrites'[j] = rewrites[i]
  BY <1>0
<1>4. QED
  BY <1>0, <1>1, <1>2, <1>3, QuietCommand

\* A sequence without one of its members is made of the others.
LEMMA RemovedIs ==
  ASSUME NEW S, NEW seq \in Seq(S), NEW i \in DOMAIN seq
  PROVE  /\ RemoveAt(seq, i) \in Seq(S)
         /\ \A j \in DOMAIN RemoveAt(seq, i) : \E k \in DOMAIN seq : RemoveAt(seq, i)[j] = seq[k]
<1> DEFINE R == {seq[k] : k \in DOMAIN seq}
<1>1. DOMAIN seq = 1 .. Len(seq) /\ Len(seq) \in Nat /\ i \in 1 .. Len(seq)
  OBVIOUS
<1>2. \A k \in 1 .. Len(seq) : seq[k] \in S /\ seq[k] \in R
  BY <1>1
<1>3. ASSUME NEW T, \A k \in 1 .. Len(seq) : seq[k] \in T PROVE RemoveAt(seq, i) \in Seq(T)
  <2>1. SubSeq(seq, 1, i - 1) \in Seq(T)
    BY <1>1, <1>3, SubSeqProperties
  <2>2. SubSeq(seq, i + 1, Len(seq)) \in Seq(T)
    BY <1>1, <1>3, SubSeqProperties
  <2>3. QED
    BY <2>1, <2>2 DEF RemoveAt
<1>4. RemoveAt(seq, i) \in Seq(S) /\ RemoveAt(seq, i) \in Seq(R)
  BY <1>2, <1>3
<1>5. \A j \in DOMAIN RemoveAt(seq, i) : RemoveAt(seq, i)[j] \in R
  BY <1>4
<1>6. QED
  BY <1>4, <1>5

\* A rewrite is committed, or refused because the document is another one
\* (commit, replace, extend).
LEMMA CommitKeeps ==
  ASSUME FilesInvariant, NEW i \in DOMAIN rewrites, Commit(i)
  PROVE  FilesInvariant'
<1> DEFINE rewrite == rewrites[i]
<1>0. Began /\ names' = names /\ contents' = contents /\ command' = command
      /\ rewrites' = RemoveAt(rewrites, i)
  BY DEF Commit
<1>1. rewrites \in Seq(Rewritings)
  BY DEF FilesInvariant, SessionStands
<1>2. /\ rewrites' \in Seq(Rewritings)
      /\ \A j \in DOMAIN rewrites' : \E k \in DOMAIN rewrites : rewrites'[j] = rewrites[k]
  BY <1>0, <1>1, RemovedIs
<1>3. CASE session' = session /\ answer' = NothingDone("rewrite")
  <2>1. answer'.what = << >> /\ ~answer'.ok
    BY <1>3 DEF NothingDone, Told
  <2>2. QED
    BY <1>0, <1>2, <1>3, <2>1, QuietCommand
<1>4. CASE /\ session # NoSession /\ StillCurrent(rewrite)
           /\ session' = [session EXCEPT !.id = NextId, !.pages = rewrite.pages]
           /\ answer' = Told("rewrite", TRUE, TRUE, <<rewrite>>)
  <2>1. session \in Sessions
    BY <1>4 DEF FilesInvariant, SessionStands
  <2>2. NextId \in Nat \ {0}
    BY <1>0, BeganIs DEF FilesInvariant
  <2>3. rewrite.pages \in Seq(Int)
    BY RewriteIs DEF FilesInvariant
  <2>4. session' \in Sessions /\ session'.id = NextId /\ session'.pages = rewrite.pages
    BY <1>4, <2>1, <2>2, <2>3 DEF Sessions
  <2>5. rewrite.pages = Turn(session.pages, rewrite.which) \o rewrite.added
    BY <1>4 DEF FilesInvariant, RewritesStand, StillCurrent
  <2>6. answer'.op = "rewrite" /\ answer'.what[1] = rewrite
    BY <1>4 DEF Told
  <2>7. session'.pages = Turn(session.pages, answer'.what[1].which) \o answer'.what[1].added
    BY <2>4, <2>5, <2>6
  <2>8. QED
    BY <1>0, <1>2, <2>4, <2>6, <2>7, QuietCommand
<1>5. QED
  BY <1>3, <1>4 DEF Commit
-----------------------------------------------------------------------------
(* Saving.                                                                 *)

\* A step that leaves the document and the rewrites as they are.
LEMMA SessionLeft ==
  ASSUME SessionStands, RewritesStand, session' = session, rewrites' = rewrites,
         meddled'.times \in Nat, meddled'.commands \in Nat, meddled.commands <= meddled'.commands,
         meddled' = [touched |-> meddled'.touched, times |-> meddled'.times, commands |-> meddled'.commands],
         \/ answer'.op # "rewrite"
         \/ ~answer'.ok
         \/ (answer' = answer /\ earlier' = earlier)
  PROVE  SessionStands' /\ RewritesStand'
<1>1. session.id \in Nat /\ session.id <= meddled.commands /\ meddled.commands \in Nat
  BY DEF SessionStands, NoSession, Sessions
<1>2. session'.id <= meddled'.commands
  BY <1>1
<1>3. \A j \in DOMAIN rewrites' : rewrites'[j].from <= meddled'.commands
  <2> SUFFICES ASSUME NEW j \in DOMAIN rewrites PROVE rewrites[j].from <= meddled'.commands
    OBVIOUS
  <2> DEFINE from == rewrites[j].from
  <2>1. from \in Nat /\ from <= meddled.commands
    BY RewriteIs
  <2> HIDE DEF from
  <2>2. from <= meddled'.commands
    BY <1>1, <2>1
  <2>3. QED
    BY <2>2 DEF from
<1>4. SessionStands'
  BY <1>2, <1>3 DEF SessionStands
<1>5. RewritesStand'
  BY DEF RewritesStand
<1>6. QED
  BY <1>4, <1>5

\* The pages of an order are pages (ops::extract_pages).
LEMMA PagesAtType ==
  ASSUME session \in Sessions, NEW order \in Seq(Nat), Extractable(order)
  PROVE  PagesAt(order) \in Seq(Int)
<1>1. session.pages \in Seq(Int)
  BY DEF Sessions
<1>2. \A i \in DOMAIN order : session.pages[order[i]] \in Int
  BY <1>1 DEF Extractable
<1>3. DOMAIN order = 1 .. Len(order) /\ Len(order) \in Nat
  OBVIOUS
<1>4. QED
  BY <1>2, <1>3 DEF PagesAt

\* A save empties its file, or makes it; or it is refused and nothing is.
LEMMA SaveKeeps ==
  ASSUME FilesInvariant, NEW order \in Orders, NEW path \in Paths, NEW extract \in BOOLEAN,
         Save(order, path, extract)
  PROVE  FilesInvariant'
<1>0. Began /\ session \in Sessions /\ session' = session /\ rewrites' = rewrites
  BY DEF Save, FilesInvariant, SessionStands
<1>1. CASE answer' = NothingDone("save") /\ UNCHANGED <<names, contents, command>>
  <2>1. answer'.what = << >> /\ answer'.op = "save"
    BY <1>1 DEF NothingDone, Told
  <2>2. rewrites' \in Seq(Rewritings)
    BY <1>0 DEF FilesInvariant, SessionStands
  <2>3. \A j \in DOMAIN rewrites' : \E i \in DOMAIN rewrites : rewrites'[j] = rewrites[i]
    BY <1>0
  <2>4. QED
    BY <1>0, <1>1, <2>1, <2>2, <2>3, QuietCommand
<1>2. CASE /\ extract => ~SameFile(path, session.path)
           /\ Extractable(order)
           /\ EmptyFile(path)
           /\ command' = [op |-> "save", path |-> path, extract |-> extract,
                          place |-> PlaceWritten(path), pages |-> PagesAt(order)]
           /\ answer' = MaybeDone("save")
  <2> USE DEF FilesInvariant
  <2>1. /\ earlier'.names = names /\ earlier'.contents = contents /\ earlier'.session = session
        /\ meddled'.touched = {} /\ meddled'.times = meddled.times
        /\ meddled'.commands = meddled.commands + 1
        /\ meddled' = [touched |-> meddled'.touched, times |-> meddled'.times, commands |-> meddled'.commands]
    BY <1>0, BeganIs
  <2>2. answer'.op = "save" /\ ~answer'.ok /\ ~answer'.nothing /\ answer'.what = << >>
    BY <1>2 DEF MaybeDone, Told
  <2>3. SessionStands' /\ RewritesStand'
    <3>1. meddled.commands \in Nat /\ meddled.times \in Nat
      BY DEF SessionStands
    <3>2. meddled'.times \in Nat /\ meddled'.commands \in Nat /\ meddled.commands <= meddled'.commands
      BY <2>1, <3>1
    <3>3. QED
      BY <1>0, <2>1, <2>2, <3>2, SessionLeft
  <2> DEFINE place == PlaceWritten(path)
             name == Spelled[path]
  <2>4. /\ FolderStands'
        /\ place \in DOMAIN contents'
        /\ DOMAIN names' = DOMAIN names \cup {name} /\ names'[name] = place
        /\ \A n \in DOMAIN names : names'[n] = names[n]
        /\ DOMAIN contents \subseteq DOMAIN contents'
        /\ \A p \in DOMAIN contents : p # place => contents'[p] = contents[p]
    BY <1>2, EmptyFileIs
  <2> HIDE DEF place, name
  <2>5. /\ command'.op = "save" /\ command'.path = path /\ command'.place = place
        /\ command'.extract = extract /\ command'.pages = PagesAt(order)
    BY <1>2 DEF place
  <2>6. SaveDone' = <<command'>> /\ SplitDone' = << >>
    BY <2>2, <2>5 DEF SaveDone, SplitDone
  <2>7. AnswerStands'
    BY <1>2, <2>2, <2>5 DEF AnswerStands
  <2>8. EarlierStands'
    <3>1. \A n \in DOMAIN names : names[n] \in DOMAIN contents
      BY DEF FolderStands
    <3>2. SaveDone' # << >> /\ SaveDone'[1].place = place
      BY <2>5, <2>6
    <3>3. \A p \in DOMAIN earlier'.contents :
            contents'[p] = earlier'.contents[p] \/ (SaveDone' # << >> /\ p = SaveDone'[1].place)
      BY <2>1, <2>4, <3>2
    <3>4. \A n \in DOMAIN earlier'.names :
            /\ earlier'.names[n] \in DOMAIN earlier'.contents
            /\ n \in DOMAIN names' /\ names'[n] = earlier'.names[n]
      BY <2>1, <2>4, <3>1
    <3>5. DOMAIN earlier'.contents \subseteq DOMAIN contents'
      BY <2>1, <2>4
    <3>6. QED
      BY <2>2, <3>3, <3>4, <3>5 DEF EarlierStands
  <2>9. SavingStands'
    <3>1. command'.pages \in Seq(Int)
      <4>1. order \in Seq(Nat)
        BY FilesAssumption DEF FilesAssumption
      <4>2. QED
        BY <1>0, <1>2, <2>5, <4>1, PagesAtType
    <3>2. ASSUME extract, name = Spelled[session.path] PROVE name \notin DOMAIN names
      BY <1>2, <3>2 DEF SameFile, Exists, name
    <3>3. PICK did : did = command'
      OBVIOUS
    <3>4. /\ did.path = path /\ did.place = place /\ did.extract = extract /\ did.pages \in Seq(Int)
      BY <2>5, <3>1, <3>3
    <3>5. SaveIsAt(did)'
      BY <2>1, <2>2, <2>4, <3>2, <3>4 DEF SaveIsAt, name
    <3>6. SaveDone'[1] = did
      BY <2>6, <3>3
    <3>7. QED
      BY <3>5, <3>6 DEF SavingStands
  <2>10. SplittingStands'
    BY <2>6 DEF SplittingStands
  <2>11. QED
    BY <2>3, <2>4, <2>7, <2>8, <2>9, <2>10
<1>3. QED
  BY <1>1, <1>2 DEF Save

\* The write ends, whole or not.
LEMMA EndSaveKeeps ==
  ASSUME FilesInvariant, NEW whole \in BOOLEAN, EndSave(whole)
  PROVE  FilesInvariant'
<1> USE DEF FilesInvariant
<1>0. /\ command.op = "save" /\ command' = NoCommand
      /\ names' = names /\ session' = session /\ rewrites' = rewrites /\ earlier' = earlier /\ meddled' = meddled
  BY DEF EndSave
<1>1. answer' = Told("save", whole, FALSE, <<command>>)
  BY DEF EndSave
<1>2. answer'.op = "save" /\ answer'.ok = whole /\ ~answer'.nothing /\ answer'.what = <<command>>
  BY <1>1 DEF Told
<1>3. SaveDone = <<command>> /\ SaveDone' = <<command>> /\ SplitDone' = << >>
  BY <1>0, <1>2 DEF SaveDone, SplitDone, NoCommand
<1>4. SaveIsAt(command)
  BY <1>3 DEF SavingStands
<1>5. /\ DOMAIN contents' = DOMAIN contents
      /\ \A place \in DOMAIN contents : place # command.place => contents'[place] = contents[place]
      /\ contents' = [place \in DOMAIN contents' |-> contents'[place]]
      /\ contents'[command.place] = IF whole THEN Pdf(command.pages) ELSE contents[command.place]
  <2>1. CASE whole
    <3>1. contents' = [contents EXCEPT ![command.place] = Pdf(command.pages)]
      BY <2>1 DEF EndSave
    <3>2. QED
      BY <1>4, <2>1, <3>1 DEF FolderStands, SaveIsAt
  <2>2. CASE ~whole
    <3>1. contents' = contents
      BY <2>2 DEF EndSave
    <3>2. QED
      BY <2>2, <3>1 DEF FolderStands
  <2>3. QED
    BY <2>1, <2>2
<1>6. FolderStands'
  <2>1. \A place \in DOMAIN contents' : contents'[place].kind = "pdf" => contents'[place].pages \in Seq(Int)
    <3> SUFFICES ASSUME NEW place \in DOMAIN contents, contents'[place].kind = "pdf"
                 PROVE  contents'[place].pages \in Seq(Int)
      BY <1>5
    <3>1. CASE place = command.place /\ whole
      BY <1>4, <1>5, <3>1 DEF SaveIsAt, Pdf
    <3>2. CASE ~(place = command.place /\ whole)
      <4>1. contents'[place] = contents[place]
        BY <1>5, <3>2
      <4>2. QED
        BY <4>1 DEF FolderStands
    <3>3. QED
      BY <3>1, <3>2
  <2>2. QED
    BY <1>0, <1>5, <2>1 DEF FolderStands
<1>7. SessionStands' /\ RewritesStand'
  <2>1. SessionStands'
    BY <1>0 DEF SessionStands
  <2>2. RewritesStand'
    BY <1>0, <1>2 DEF RewritesStand
  <2>3. QED
    BY <2>1, <2>2
<1>8. AnswerStands'
  BY <1>0, <1>2 DEF AnswerStands
<1>9. EarlierStands'
  <2>1. \A place \in DOMAIN earlier.contents : place \in DOMAIN contents
    BY DEF EarlierStands
  <2>2. \A place \in DOMAIN earlier.contents :
          contents[place] = earlier.contents[place] \/ place = command.place
    BY <1>3 DEF EarlierStands
  <2>3. \A place \in DOMAIN earlier.contents :
          contents'[place] = earlier.contents[place] \/ place = command.place
    BY <1>5, <2>1, <2>2
  <2>4. SaveDone' # << >> /\ SaveDone'[1].place = command.place
    BY <1>3
  <2>5. \A place \in DOMAIN earlier'.contents :
          contents'[place] = earlier'.contents[place] \/ (SaveDone' # << >> /\ place = SaveDone'[1].place)
    BY <1>0, <2>3, <2>4
  <2>6. DOMAIN earlier'.contents \subseteq DOMAIN contents'
    BY <1>0, <1>5, <2>1
  <2>7. \A name \in DOMAIN earlier'.names :
          /\ earlier'.names[name] \in DOMAIN earlier'.contents
          /\ Untouched(name)' => name \in DOMAIN names' /\ names'[name] = earlier'.names[name]
    BY <1>0 DEF EarlierStands, Untouched
  <2>8. QED
    BY <1>2, <2>5, <2>6, <2>7 DEF EarlierStands
<1>10. SavingStands'
  <2>1. PICK did : did = command
    OBVIOUS
  <2>2. SaveIsAt(did)
    BY <1>4, <2>1
  <2>3. SaveIsAt(did)'
    BY <1>0, <1>2, <1>5, <2>1, <2>2 DEF SaveIsAt, Untouched
  <2>4. SaveDone'[1] = did
    BY <1>3, <2>1
  <2>5. QED
    BY <2>3, <2>4 DEF SavingStands
<1>11. SplittingStands'
  BY <1>3 DEF SplittingStands
<1>12. QED
  BY <1>6, <1>7, <1>8, <1>9, <1>10, <1>11
-----------------------------------------------------------------------------
(* Splitting.                                                              *)

\* The parts of a split have as many names.
LEMMA PartNamesDiffer ==
  ASSUME NEW i, NEW j, NEW count, PartName(i, count) = PartName(j, count)
  PROVE  i = j
BY DEF PartName

\* The parts are built, and none of their names is taken, before the first
\* is written; or the cut is refused.
LEMMA SplitKeeps ==
  ASSUME FilesInvariant, NEW parts \in Cuts, Split(parts)
  PROVE  FilesInvariant'
<1>0. Began /\ session \in Sessions /\ session' = session /\ rewrites' = rewrites
      /\ names' = names /\ contents' = contents
  BY DEF Split, FilesInvariant, SessionStands
<1>1. CASE answer' = NothingDone("split") /\ command' = command
  <2>1. answer'.what = << >> /\ answer'.op = "split"
    BY <1>1 DEF NothingDone, Told
  <2>2. rewrites' \in Seq(Rewritings)
    BY <1>0 DEF FilesInvariant, SessionStands
  <2>3. \A j \in DOMAIN rewrites' : \E i \in DOMAIN rewrites : rewrites'[j] = rewrites[i]
    BY <1>0
  <2>4. QED
    BY <1>0, <1>1, <2>1, <2>2, <2>3, QuietCommand
<1>2. CASE /\ parts # << >>
           /\ PartNames(Len(parts)) \cap DOMAIN names = {}
           /\ \A i \in DOMAIN parts : Extractable(parts[i])
           /\ command' = [op |-> "split", parts |-> [i \in DOMAIN parts |-> PagesAt(parts[i])], written |-> 0]
           /\ answer' = MaybeDone("split")
  <2> USE DEF FilesInvariant
  <2>1. /\ earlier'.names = names
        /\ meddled'.touched = {} /\ meddled'.times = meddled.times
        /\ meddled'.commands = meddled.commands + 1
        /\ meddled' = [touched |-> meddled'.touched, times |-> meddled'.times, commands |-> meddled'.commands]
    BY <1>0, BeganIs
  <2>2. answer'.op = "split" /\ ~answer'.ok /\ ~answer'.nothing /\ answer'.what = << >>
    BY <1>2 DEF MaybeDone, Told
  <2>3. SessionStands' /\ RewritesStand'
    <3>1. meddled.commands \in Nat /\ meddled.times \in Nat
      BY DEF SessionStands
    <3>2. meddled'.times \in Nat /\ meddled'.commands \in Nat /\ meddled.commands <= meddled'.commands
      BY <2>1, <3>1
    <3>3. QED
      BY <1>0, <2>1, <2>2, <3>2, SessionLeft
  <2>4. FolderStands' /\ EarlierStands'
    BY <1>0, FolderLeft
  <2> DEFINE built == [i \in DOMAIN parts |-> PagesAt(parts[i])]
  <2>5. built \in Seq(Seq(Int)) /\ Len(built) = Len(parts) /\ Len(parts) \in Nat /\ Len(parts) # 0
    <3>1. parts \in Seq(Seq(Nat))
      BY FilesAssumption DEF FilesAssumption
    <3>2. DOMAIN parts = 1 .. Len(parts) /\ Len(parts) \in Nat /\ Len(parts) # 0
      BY <1>2, <3>1
    <3>3. \A i \in DOMAIN parts : PagesAt(parts[i]) \in Seq(Int)
      BY <1>0, <1>2, <3>1, PagesAtType
    <3>4. QED
      BY <3>2, <3>3
  <2> HIDE DEF built
  <2>6. command' = [op |-> "split", parts |-> built, written |-> 0]
    BY <1>2 DEF built
  <2>7. command' \in Splits /\ command'.op = "split" /\ command' # NoCommand
    BY <2>5, <2>6 DEF Splits, NoCommand
  <2>8. SaveDone' = << >> /\ SplitDone' = <<command'>>
    BY <2>2, <2>7 DEF SaveDone, SplitDone
  <2>9. AnswerStands'
    BY <1>2, <2>2, <2>7 DEF AnswerStands
  <2>10. SavingStands'
    BY <2>8 DEF SavingStands
  <2>11. SplittingStands'
    <3>1. PICK did : did = command'
      OBVIOUS
    <3>2. did \in Splits /\ did.parts = built /\ did.written = 0
      BY <2>6, <2>7, <3>1
    <3>3. \A i \in 1 .. Len(built) : PartName(i, Len(built)) \notin DOMAIN names
      BY <1>2, <2>5 DEF PartNames
    <3>4. SplitIsAt(did)'
      BY <1>0, <2>1, <2>5, <2>7, <3>2, <3>3 DEF SplitIsAt, Idle
    <3>5. SplitDone'[1] = did
      BY <2>8, <3>1
    <3>6. QED
      BY <3>4, <3>5 DEF SplittingStands
  <2>12. QED
    BY <2>3, <2>4, <2>9, <2>10, <2>11
<1>3. QED
  <2>1. CASE \/ parts = << >>
             \/ Len(parts) > Len(session.pages)
             \/ PartNames(Len(parts)) \cap DOMAIN names # {}
             \/ \E i \in DOMAIN parts : ~Extractable(parts[i])
    <3>1. answer' = NothingDone("split") /\ command' = command
      BY <2>1 DEF Split
    <3>2. QED
      BY <1>1, <3>1
  <2>2. CASE ~(\/ parts = << >>
               \/ Len(parts) > Len(session.pages)
               \/ PartNames(Len(parts)) \cap DOMAIN names # {}
               \/ \E i \in DOMAIN parts : ~Extractable(parts[i]))
    <3>1. /\ command' = [op |-> "split", parts |-> [i \in DOMAIN parts |-> PagesAt(parts[i])], written |-> 0]
          /\ answer' = MaybeDone("split")
      BY <2>2 DEF Split
    <3>2. QED
      BY <1>2, <2>2, <3>1
  <2>3. QED
    BY <2>1, <2>2

\* What a split that writes has before its next part.
LEMMA CuttingIs ==
  ASSUME FilesInvariant, Cutting
  PROVE  /\ command \in Splits /\ command.op = "split" /\ answer = MaybeDone("split")
         /\ SaveDone = << >> /\ SplitDone = <<command>>
         /\ SplitIsAt(command) /\ ~Idle
         /\ command.written \in Nat /\ Len(command.parts) \in Nat
         /\ command.written + 1 \in 1 .. Len(command.parts)
         /\ command.parts[command.written + 1] \in Seq(Int)
<1> USE DEF FilesInvariant
<1>1. command \in Splits /\ command.op = "split" /\ answer = MaybeDone("split")
  BY DEF AnswerStands, Cutting, NoCommand
<1>2. SaveDone = << >> /\ SplitDone = <<command>>
  BY <1>1 DEF SaveDone, SplitDone, MaybeDone, Told
<1>3. ~Idle
  BY <1>1 DEF Idle, NoCommand
<1>4. SplitIsAt(command)
  BY <1>2 DEF SplittingStands
<1>5. command.parts \in Seq(Seq(Int)) /\ command.written \in Nat
  BY <1>1 DEF Splits
<1>6. command.written < Len(command.parts)
  BY <1>3, <1>4 DEF SplitIsAt
<1>7. Len(command.parts) \in Nat /\ command.written + 1 \in 1 .. Len(command.parts)
  BY <1>5, <1>6
<1>8. command.parts[command.written + 1] \in Seq(Int)
  BY <1>5, <1>7
<1>9. QED
  BY <1>1, <1>2, <1>3, <1>4, <1>5, <1>7, <1>8
\* A part is created where nothing was: what was there stays (write_new).
LEMMA PartMade ==
  ASSUME FilesInvariant, Cutting, NextName \notin DOMAIN names, NEW content, CreateNew(content),
         content.kind = "pdf" => content.pages \in Seq(Int),
         earlier' = earlier, meddled' = meddled, SaveDone' = << >>, ~answer'.nothing
  PROVE  /\ FolderStands' /\ EarlierStands'
         /\ DOMAIN names' = DOMAIN names \cup {NextName}
         /\ NextName \in DOMAIN names' /\ contents'[names'[NextName]] = content
         /\ \A n \in DOMAIN names : n \in DOMAIN names' /\ contents'[names'[n]] = contents[names[n]]
<1> USE DEF FilesInvariant
<1> DEFINE name == NextName
           free == Fresh
<1>1. FileMade(name, content)
  BY DEF CreateNew, FileMade
<1>2. /\ FolderStands'
      /\ DOMAIN names' = DOMAIN names \cup {name} /\ names'[name] = free
      /\ DOMAIN contents' = DOMAIN contents \cup {free} /\ contents'[free] = content
      /\ \A n \in DOMAIN names : n # name => names'[n] = names[n]
      /\ \A place \in DOMAIN contents : contents'[place] = contents[place]
  BY <1>1, FileMadeIs
<1>3. name \notin DOMAIN names
  OBVIOUS
<1> HIDE DEF name, free
<1>4. \A n \in DOMAIN names : n \in DOMAIN names' /\ names'[n] = names[n] /\ names[n] \in DOMAIN contents
  BY <1>2, <1>3 DEF FolderStands
<1>5. SaveDone = << >>
  BY CuttingIs
<1>6. EarlierStands'
  <2>1. \A place \in DOMAIN earlier.contents :
          place \in DOMAIN contents /\ contents[place] = earlier.contents[place]
    BY <1>5 DEF EarlierStands
  <2>2. \A place \in DOMAIN earlier'.contents :
          place \in DOMAIN contents' /\ contents'[place] = earlier'.contents[place]
    BY <1>2, <2>1
  <2>3. \A n \in DOMAIN earlier'.names :
          /\ earlier'.names[n] \in DOMAIN earlier'.contents
          /\ Untouched(n)' => n \in DOMAIN names' /\ names'[n] = earlier'.names[n]
    BY <1>4 DEF EarlierStands, Untouched
  <2>4. QED
    BY <2>2, <2>3 DEF EarlierStands
<1>7. QED
  BY <1>2, <1>4, <1>6 DEF name

\* A part is written whole, or its name is taken and the split is over.
LEMMA SplitWriteKeeps ==
  ASSUME FilesInvariant, SplitWrite
  PROVE  FilesInvariant'
<1> USE DEF FilesInvariant
<1> DEFINE count == Len(command.parts)
           next == command.written + 1
           Part(i) == PartName(i, count)
<1>0. /\ command \in Splits /\ command.op = "split" /\ answer = MaybeDone("split")
      /\ SaveDone = << >> /\ SplitDone = <<command>> /\ SplitIsAt(command) /\ ~Idle
      /\ command.written \in Nat /\ count \in Nat /\ next \in 1 .. count
      /\ command.parts[next] \in Seq(Int)
  BY CuttingIs DEF SplitWrite
<1>1. /\ session' = session /\ rewrites' = rewrites /\ earlier' = earlier /\ meddled' = meddled /\ Cutting
  BY DEF SplitWrite
<1>2. NextName = Part(next)
  BY DEF NextName
<1>3. ASSUME answer'.op = "split", ~answer'.nothing PROVE SessionStands' /\ RewritesStand'
  BY <1>1, <1>3 DEF SessionStands, RewritesStand
<1>a. /\ \A i \in 1 .. count : Part(i) \notin DOMAIN earlier.names
      /\ \A i \in 1 .. command.written : Untouched(Part(i)) =>
           Part(i) \in DOMAIN names /\ HoldsNow(Part(i)) = Pdf(command.parts[i])
      /\ \A i \in next .. count : Untouched(Part(i)) => Part(i) \notin DOMAIN names
  BY <1>0 DEF SplitIsAt
<1>4. CASE NextName \in DOMAIN names
  <2>1. SplitFails /\ names' = names /\ contents' = contents
    BY <1>4 DEF SplitWrite
  <2>2. /\ command' = NoCommand
        /\ answer'.op = "split" /\ ~answer'.ok /\ ~answer'.nothing /\ answer'.what = <<command>>
    BY <2>1 DEF SplitFails, Told
  <2>3. SaveDone' = << >> /\ SplitDone' = <<command>>
    BY <2>2 DEF SaveDone, SplitDone, NoCommand
  <2>4. FolderStands' /\ EarlierStands'
    BY <1>0, <1>1, <2>1, <2>2, <2>3 DEF FolderStands, EarlierStands, Untouched
  <2>5. AnswerStands' /\ SavingStands'
    BY <2>2, <2>3 DEF AnswerStands, SavingStands
  <2>6. SplittingStands'
    <3>1. PICK did : did = command
      OBVIOUS
    <3>2. SplitIsAt(did)'
      <4>1. did \in Splits /\ did.written <= Len(did.parts)
        BY <1>0, <3>1
      <4>2. \A i \in did.written + 1 .. Len(did.parts) :
              Untouched(PartName(i, Len(did.parts))) => PartName(i, Len(did.parts)) \notin DOMAIN names
        BY <1>a, <3>1
      <4>3. QED
        BY <1>1, <1>a, <2>1, <2>2, <3>1, <4>1, <4>2 DEF SplitIsAt, Idle, Untouched, HoldsNow
    <3>3. SplitDone'[1] = did
      BY <2>3, <3>1
    <3>4. QED
      BY <3>2, <3>3 DEF SplittingStands
  <2>7. QED
    BY <1>3, <2>2, <2>4, <2>5, <2>6
<1>5. CASE NextName \notin DOMAIN names
  <2> DEFINE done == next = count
             more == [command EXCEPT !.written = @ + 1]
  <2>1. /\ CreateNew(Pdf(command.parts[next]))
        /\ command' = IF done THEN NoCommand ELSE more
        /\ answer' = IF done THEN Told("split", TRUE, FALSE, <<more>>) ELSE answer
    BY <1>5 DEF SplitWrite
  <2>2. more \in Splits /\ more.op = "split" /\ more.parts = command.parts /\ more.written = next
    <3>1. command \in [op : {"split"}, parts : Seq(Seq(Int)), written : Nat] /\ command.written + 1 \in Nat
      BY <1>0 DEF Splits
    <3>2. QED
      BY <3>1 DEF Splits
  <2> HIDE DEF more
  <2>3. /\ answer'.op = "split" /\ ~answer'.nothing
        /\ done => command' = NoCommand /\ answer'.what = <<more>> /\ answer'.ok
        /\ ~done => command' = more /\ answer' = answer
    BY <1>0, <2>1 DEF MaybeDone, Told
  <2>4. SaveDone' = << >> /\ SplitDone' = <<more>>
    BY <1>0, <2>2, <2>3 DEF SaveDone, SplitDone, NoCommand
  <2>5. Pdf(command.parts[next]).kind = "pdf" => Pdf(command.parts[next]).pages \in Seq(Int)
    BY <1>0 DEF Pdf
  <2>6. /\ FolderStands' /\ EarlierStands'
        /\ DOMAIN names' = DOMAIN names \cup {NextName}
        /\ NextName \in DOMAIN names' /\ contents'[names'[NextName]] = Pdf(command.parts[next])
        /\ \A n \in DOMAIN names : n \in DOMAIN names' /\ contents'[names'[n]] = contents[names[n]]
    BY <1>1, <1>5, <2>1, <2>3, <2>4, <2>5, PartMade
  <2>7. AnswerStands'
    BY <1>0, <2>2, <2>3 DEF AnswerStands
  <2>8. SavingStands'
    BY <2>4 DEF SavingStands
  <2>9. SplittingStands'
    <3>1. PICK did : did = more
      OBVIOUS
    <3>2. did \in Splits /\ did.parts = command.parts /\ did.written = next /\ Len(did.parts) = count
      BY <2>2, <3>1
    <3>3. ASSUME NEW i \in 1 .. next, Untouched(Part(i))
          PROVE  Part(i) \in DOMAIN names' /\ contents'[names'[Part(i)]] = Pdf(command.parts[i])
      <4>1. CASE i = next
        BY <1>2, <2>6, <4>1
      <4>2. CASE i # next
        <5>1. i \in 1 .. command.written
          BY <1>0, <4>2
        <5>2. Part(i) \in DOMAIN names /\ contents[names[Part(i)]] = Pdf(command.parts[i])
          BY <1>a, <3>3, <5>1 DEF HoldsNow
        <5>3. QED
          BY <2>6, <5>2
      <4>3. QED
        BY <4>1, <4>2
    <3>4. ASSUME NEW i \in next + 1 .. count, Untouched(Part(i)) PROVE Part(i) \notin DOMAIN names'
      <4>1. i \in next .. count /\ i # next
        BY <1>0
      <4>2. Part(i) \notin DOMAIN names /\ Part(i) # Part(next)
        BY <1>a, <3>4, <4>1, PartNamesDiffer
      <4>3. QED
        BY <1>2, <2>6, <4>2
    <3>5. Idle' <=> done
      BY <2>2, <2>3 DEF Idle, NoCommand
    <3>6. next <= count /\ (~done => next < count)
      BY <1>0
    <3>7. SplitIsAt(did)'
      <4> HIDE DEF next, count, done
      <4>1. \A i \in 1 .. did.written : Untouched(PartName(i, Len(did.parts)))' =>
              /\ PartName(i, Len(did.parts)) \in DOMAIN names'
              /\ HoldsNow(PartName(i, Len(did.parts)))' = Pdf(did.parts[i])
        BY <1>1, <3>2, <3>3 DEF Untouched, HoldsNow
      <4>2. \A i \in did.written + 1 .. Len(did.parts) :
              Untouched(PartName(i, Len(did.parts)))' => PartName(i, Len(did.parts)) \notin DOMAIN names'
        BY <1>1, <3>2, <3>4 DEF Untouched
      <4>3. \A i \in 1 .. Len(did.parts) : PartName(i, Len(did.parts)) \notin DOMAIN earlier'.names
        BY <1>1, <1>a, <3>2
      <4>4. IF Idle' THEN answer'.ok => did.written = Len(did.parts) ELSE did.written < Len(did.parts)
        BY <3>2, <3>5, <3>6 DEF done
      <4>5. QED
        BY <3>2, <3>6, <4>1, <4>2, <4>3, <4>4 DEF SplitIsAt
    <3>8. SplitDone'[1] = did
      BY <2>4, <3>1
    <3>9. QED
      BY <3>7, <3>8 DEF SplittingStands
  <2>10. QED
    BY <1>3, <2>3, <2>6, <2>7, <2>8, <2>9
<1>6. QED
  BY <1>4, <1>5
\* The disk is full: the part that was begun stays, and no other is made.
LEMMA SplitBreaksKeeps ==
  ASSUME FilesInvariant, SplitBreaks
  PROVE  FilesInvariant'
<1> USE DEF FilesInvariant
<1> DEFINE count == Len(command.parts)
           next == command.written + 1
           Part(i) == PartName(i, count)
<1>0. /\ command \in Splits /\ command.op = "split" /\ answer = MaybeDone("split")
      /\ SaveDone = << >> /\ SplitDone = <<command>> /\ SplitIsAt(command) /\ ~Idle
      /\ command.written \in Nat /\ count \in Nat /\ next \in 1 .. count
  BY CuttingIs DEF SplitBreaks
<1>1. /\ session' = session /\ rewrites' = rewrites /\ earlier' = earlier /\ meddled' = meddled /\ Cutting
      /\ NextName \notin DOMAIN names /\ CreateNew(Damaged) /\ SplitFails
  BY DEF SplitBreaks
<1>2. NextName = Part(next)
  BY DEF NextName
<1>3. /\ command' = NoCommand
      /\ answer'.op = "split" /\ ~answer'.ok /\ ~answer'.nothing /\ answer'.what = <<command>>
  BY <1>1 DEF SplitFails, Told
<1>4. SessionStands' /\ RewritesStand'
  BY <1>1, <1>3 DEF SessionStands, RewritesStand
<1>5. SaveDone' = << >> /\ SplitDone' = <<command>>
  BY <1>3 DEF SaveDone, SplitDone, NoCommand
<1>6. /\ FolderStands' /\ EarlierStands'
      /\ DOMAIN names' = DOMAIN names \cup {NextName}
      /\ \A n \in DOMAIN names : n \in DOMAIN names' /\ contents'[names'[n]] = contents[names[n]]
  BY <1>1, <1>3, <1>5, PartMade DEF Damaged
<1>7. AnswerStands' /\ SavingStands'
  BY <1>3, <1>5 DEF AnswerStands, SavingStands
<1>8. SplittingStands'
  <2>1. PICK did : did = command
    OBVIOUS
  <2>2. did \in Splits /\ did.parts = command.parts /\ did.written = command.written /\ Len(did.parts) = count
        /\ did.written <= Len(did.parts)
    BY <1>0, <2>1
  <2>3. ASSUME NEW i \in 1 .. did.written, Untouched(Part(i))
        PROVE  Part(i) \in DOMAIN names' /\ contents'[names'[Part(i)]] = Pdf(did.parts[i])
    <3>1. Part(i) \in DOMAIN names /\ contents[names[Part(i)]] = Pdf(command.parts[i])
      BY <1>0, <2>2, <2>3 DEF SplitIsAt, HoldsNow
    <3>2. QED
      BY <1>6, <2>2, <3>1
  <2>4. ASSUME NEW i \in did.written + 1 .. count, Untouched(Part(i))
        PROVE  Part(i) \notin DOMAIN names' \/ i = did.written + 1
    <3>1. Part(i) \notin DOMAIN names
      BY <1>0, <2>2, <2>4 DEF SplitIsAt
    <3>2. i # next => Part(i) # Part(next)
      BY PartNamesDiffer
    <3>3. QED
      BY <1>2, <1>6, <2>2, <3>1, <3>2
  <2>5. Idle'
    BY <1>3 DEF Idle
  <2>6. \A i \in 1 .. count : Part(i) \notin DOMAIN earlier'.names
    BY <1>0, <1>1 DEF SplitIsAt
  <2>7. SplitIsAt(did)'
    <3> HIDE DEF next, count
    <3>1. \A i \in 1 .. did.written : Untouched(PartName(i, Len(did.parts)))' =>
            /\ PartName(i, Len(did.parts)) \in DOMAIN names'
            /\ HoldsNow(PartName(i, Len(did.parts)))' = Pdf(did.parts[i])
      BY <1>1, <2>2, <2>3 DEF Untouched, HoldsNow
    <3>2. \A i \in did.written + 1 .. Len(did.parts) :
            Untouched(PartName(i, Len(did.parts)))' =>
                PartName(i, Len(did.parts)) \notin DOMAIN names' \/ i = did.written + 1
      BY <1>1, <2>2, <2>4 DEF Untouched
    <3>3. \A i \in 1 .. Len(did.parts) : PartName(i, Len(did.parts)) \notin DOMAIN earlier'.names
      BY <2>2, <2>6
    <3>4. QED
      BY <1>3, <2>2, <2>5, <3>1, <3>2, <3>3 DEF SplitIsAt
  <2>8. SplitDone'[1] = did
    BY <1>5, <2>1
  <2>9. QED
    BY <2>7, <2>8 DEF SplittingStands
<1>9. QED
  BY <1>4, <1>6, <1>7, <1>8

-----------------------------------------------------------------------------
(* Rotating and merging.                                                   *)

\* A step that touches neither the disk nor what a command says of it.
LEMMA DiskLeft ==
  ASSUME FilesInvariant, UNCHANGED <<names, contents, command, answer, earlier, meddled>>
  PROVE  FolderStands' /\ AnswerStands' /\ EarlierStands' /\ SavingStands' /\ SplittingStands'
<1> USE DEF FilesInvariant
<1>1. FolderStands' /\ AnswerStands'
  BY DEF FolderStands, AnswerStands
<1>2. SaveDone' = SaveDone /\ SplitDone' = SplitDone
  BY DEF SaveDone, SplitDone
<1>3. EarlierStands'
  BY <1>2 DEF EarlierStands, Untouched
<1>4. SavingStands'
  <2>1. PICK did : did = SaveDone[1]
    OBVIOUS
  <2>2. SaveIsAt(did) => SaveIsAt(did)'
    BY DEF SaveIsAt, Untouched, Idle
  <2>3. QED
    BY <1>2, <2>1, <2>2 DEF SavingStands
<1>5. SplittingStands'
  <2>1. PICK did : did = SplitDone[1]
    OBVIOUS
  <2>2. SplitIsAt(did) => SplitIsAt(did)'
    BY DEF SplitIsAt, Untouched, Idle, HoldsNow
  <2>3. QED
    BY <1>2, <2>1, <2>2 DEF SplittingStands
<1>6. QED
  BY <1>1, <1>3, <1>4, <1>5

\* A rewrite that is begun is of the document as it stands.
LEMMA StartKeeps ==
  ASSUME FilesInvariant, session \in Sessions,
         NEW op \in {"rotate", "merge"}, NEW which \in Rotations \cup {{}}, NEW added \in Seq(Int),
         Turn(session.pages, which) \o added \in Seq(Int),
         Start(op, which, added, Turn(session.pages, which) \o added),
         UNCHANGED <<names, contents, session, command, answer, earlier, meddled>>
  PROVE  FilesInvariant'
<1> USE DEF FilesInvariant
<1> DEFINE pages == Turn(session.pages, which) \o added
           rewrite == [from |-> session.id, document |-> session.document, op |-> op,
                       which |-> which, added |-> added, pages |-> pages]
<1>2. rewrites' = Append(rewrites, rewrite)
  BY DEF Start
<1>3. session.id \in Nat \ {0} /\ session.document \in Nat /\ session.id <= meddled.commands
  BY DEF Sessions, SessionStands
<1>4. rewrite \in Rewritings /\ rewrite.from = session.id /\ rewrite.which = which
      /\ rewrite.added = added /\ rewrite.pages = Turn(session.pages, which) \o added
  BY <1>3 DEF Rewritings
<1> HIDE DEF rewrite, pages
<1>5. rewrites \in Seq(Rewritings)
  BY DEF SessionStands
<1>6. /\ rewrites' \in Seq(Rewritings)
      /\ \A i \in DOMAIN rewrites' : (i \in DOMAIN rewrites /\ rewrites'[i] = rewrites[i]) \/ rewrites'[i] = rewrite
  BY <1>2, <1>4, <1>5
<1>7. SessionStands'
  <2>1. \A i \in DOMAIN rewrites' : rewrites'[i].from <= meddled'.commands
    BY <1>3, <1>4, <1>6 DEF SessionStands
  <2>2. QED
    BY <1>6, <2>1 DEF SessionStands
<1>8. RewritesStand'
  <2>1. \A i \in DOMAIN rewrites' : rewrites'[i].from = session'.id =>
          rewrites'[i].pages = Turn(session'.pages, rewrites'[i].which) \o rewrites'[i].added
    BY <1>4, <1>6 DEF RewritesStand
  <2>2. QED
    BY <2>1 DEF RewritesStand
<1>9. QED
  BY <1>7, <1>8, DiskLeft

\* The pages that turn are pages (ops::rotate).
LEMMA TurnType ==
  ASSUME NEW pages \in Seq(Int), NEW which
  PROVE  Turn(pages, which) \in Seq(Int) /\ Turn(pages, {}) = pages
<1>1. DOMAIN pages = 1 .. Len(pages) /\ Len(pages) \in Nat
  OBVIOUS
<1>2. \A i \in 1 .. Len(pages) : pages[i] \in Int /\ pages[i] + QuarterTurn \in Int
  BY DEF QuarterTurn
<1>3. Turn(pages, which) \in Seq(Int)
  BY <1>1, <1>2 DEF Turn
<1>4. Turn(pages, {}) = [i \in DOMAIN pages |-> pages[i]]
  BY DEF Turn
<1>5. QED
  BY <1>3, <1>4

\* A rotation is made from the document as it stands.
LEMMA BuildRotationKeeps ==
  ASSUME FilesInvariant, NEW which \in Rotations, BuildRotation(which)
  PROVE  FilesInvariant'
<1>1. session \in Sessions /\ session.pages \in Seq(Int)
  BY DEF BuildRotation, MayRewrite, FilesInvariant, SessionStands, Sessions
<1>2. Turn(session.pages, which) \in Seq(Int)
  BY <1>1, TurnType
<1>3. Turn(session.pages, which) \o << >> = Turn(session.pages, which)
  BY <1>2
<1>4. Start("rotate", which, << >>, Turn(session.pages, which) \o << >>)
  BY <1>3 DEF BuildRotation
<1>5. UNCHANGED <<names, contents, session, command, answer, earlier, meddled>>
  BY DEF BuildRotation
<1>6. << >> \in Seq(Int)
  OBVIOUS
<1>7. QED
  BY <1>1, <1>2, <1>3, <1>4, <1>5, <1>6, StartKeeps

\* What a merge brings are the pages of files (main.rs, merge).
LEMMA AllBroughtType ==
  ASSUME FolderStands, NEW choices \in Merges,
         \A i \in DOMAIN choices : Opens(choices[i].path) =>
             Fits(choices[i].pages, Len(contents[PlaceOf(choices[i].path)].pages))
  PROVE  AllBrought(choices) \in Seq(Int)
<1>1. choices \in Seq([path : DOMAIN Spelled, pages : Seq(Nat)])
  BY FilesAssumption DEF FilesAssumption
<1> DEFINE R == [path : DOMAIN Spelled, pages : Seq(Nat)]
<1>2. DOMAIN choices = 1 .. Len(choices) /\ Len(choices) \in Nat /\ \A i \in DOMAIN choices : choices[i] \in R
  <2>1. choices \in Seq(R)
    BY <1>1
  <2> HIDE DEF R
  <2>2. QED
    BY <2>1
<1>3. ASSUME NEW i \in DOMAIN choices PROVE Brought(choices[i]) \in Seq(Int)
  <2> DEFINE choice == choices[i]
             pages == contents[PlaceOf(choice.path)].pages
  <2>1. choice.pages \in Seq(Nat)
    <3>1. choices[i] \in [path : DOMAIN Spelled, pages : Seq(Nat)]
      BY <1>2
    <3>2. QED
      BY <3>1
  <2>2. CASE ~Opens(choice.path)
    BY <2>2 DEF Brought
  <2>3. CASE Opens(choice.path)
    <3>1. Spelled[choice.path] \in DOMAIN names /\ contents[names[Spelled[choice.path]]].kind = "pdf"
      BY <2>3 DEF Opens, Exists, PlaceOf
    <3>2. pages \in Seq(Int)
      BY <3>1 DEF FolderStands, PlaceOf
    <3>3. Fits(choice.pages, Len(pages))
      BY <2>3
    <3>4. Brought(choice) = IF choice.pages = NoList THEN pages
                            ELSE [j \in DOMAIN choice.pages |-> pages[choice.pages[j]]]
      BY <2>3 DEF Brought
    <3> HIDE DEF choice, pages
    <3>5. CASE choice.pages = NoList
      BY <3>2, <3>4, <3>5 DEF choice
    <3>6. CASE choice.pages # NoList
      <4>1. \A j \in DOMAIN choice.pages : choice.pages[j] \in 1 .. Len(pages)
        BY <3>3, <3>6 DEF Fits
      <4>2. \A j \in DOMAIN choice.pages : pages[choice.pages[j]] \in Int
        BY <3>2, <4>1
      <4>3. DOMAIN choice.pages = 1 .. Len(choice.pages) /\ Len(choice.pages) \in Nat
        BY <2>1 DEF choice
      <4>4. [j \in DOMAIN choice.pages |-> pages[choice.pages[j]]] \in Seq(Int)
        BY <4>2, <4>3
      <4>5. QED
        BY <3>4, <3>6, <4>4 DEF choice
    <3>7. QED
      BY <3>5, <3>6
  <2>4. QED
    BY <2>2, <2>3
<1>4. [i \in DOMAIN choices |-> Brought(choices[i])] \in Seq(Seq(Int))
  BY <1>2, <1>3
<1>5. QED
  BY <1>4, FlattenTyped DEF AllBrought

\* A merge is made from the document as it stands and the files as they are.
LEMMA BuildMergeKeeps ==
  ASSUME FilesInvariant, NEW choices \in Merges, BuildMerge(choices)
  PROVE  FilesInvariant'
<1> DEFINE added == AllBrought(choices)
<1>1. session \in Sessions /\ session.pages \in Seq(Int)
  BY DEF BuildMerge, MayRewrite, FilesInvariant, SessionStands, Sessions
<1>2. added \in Seq(Int)
  <2>1. \A i \in DOMAIN choices : Opens(choices[i].path) =>
          Fits(choices[i].pages, Len(contents[PlaceOf(choices[i].path)].pages))
    BY DEF BuildMerge
  <2>2. QED
    BY <2>1, AllBroughtType DEF FilesInvariant
<1>3. Turn(session.pages, {}) = session.pages
  BY <1>1, TurnType
<1>4. Start("merge", {}, added, session.pages \o added)
  BY DEF BuildMerge
<1>5. UNCHANGED <<names, contents, session, command, answer, earlier, meddled>>
  BY DEF BuildMerge
<1> HIDE DEF added
<1>6. session.pages \o added \in Seq(Int)
  BY <1>1, <1>2
<1>7. QED
  BY <1>1, <1>2, <1>3, <1>4, <1>5, <1>6, StartKeeps
-----------------------------------------------------------------------------
(* The world.                                                              *)

\* Another program makes a file, or removes one: the name is touched, and
\* what holds of the names it did not touch still does.
LEMMA MeddlingKeeps ==
  ASSUME FilesInvariant, NEW name,
         meddled' = [meddled EXCEPT !.times = @ + 1, !.touched = @ \cup {name}],
         UNCHANGED <<session, command, rewrites, answer, earlier>>,
         FolderStands',
         \A place \in DOMAIN contents : place \in DOMAIN contents' /\ contents'[place] = contents[place],
         \A n : n # name => (n \in DOMAIN names' <=> n \in DOMAIN names),
         \A n \in DOMAIN names : n # name => names'[n] = names[n]
  PROVE  FilesInvariant'
<1> USE DEF FilesInvariant
<1>1. /\ meddled'.touched = meddled.touched \cup {name}
      /\ meddled'.times = meddled.times + 1 /\ meddled'.commands = meddled.commands
      /\ meddled' = [touched |-> meddled'.touched, times |-> meddled'.times, commands |-> meddled'.commands]
  BY DEF SessionStands
<1>2. \A n : Untouched(n)' => Untouched(n) /\ n # name
  BY <1>1 DEF Untouched
<1>3. SessionStands' /\ RewritesStand'
  <2>1. meddled.times \in Nat /\ meddled.commands \in Nat
    BY DEF SessionStands
  <2>2. meddled'.times \in Nat /\ meddled'.commands \in Nat /\ meddled.commands <= meddled'.commands
    BY <1>1, <2>1
  <2>3. QED
    BY <1>1, <2>2, SessionLeft
<1>4. AnswerStands'
  BY DEF AnswerStands
<1>5. SaveDone' = SaveDone /\ SplitDone' = SplitDone
  BY DEF SaveDone, SplitDone
<1>6. \A n \in DOMAIN names : names[n] \in DOMAIN contents
  BY DEF FolderStands
<1>7. EarlierStands'
  <2>1. \A place \in DOMAIN earlier'.contents :
          /\ place \in DOMAIN contents'
          /\ contents'[place] = earlier'.contents[place] \/ (SaveDone' # << >> /\ place = SaveDone'[1].place)
    BY <1>5 DEF EarlierStands
  <2>2. \A n \in DOMAIN earlier'.names :
          /\ earlier'.names[n] \in DOMAIN earlier'.contents
          /\ Untouched(n)' => n \in DOMAIN names' /\ names'[n] = earlier'.names[n]
    BY <1>2 DEF EarlierStands
  <2>3. answer'.nothing => DOMAIN names' \ meddled'.touched \subseteq DOMAIN earlier'.names
    BY <1>1 DEF EarlierStands
  <2>4. QED
    BY <2>1, <2>2, <2>3 DEF EarlierStands
<1>8. SavingStands'
  <2>1. PICK did : did = SaveDone[1]
    OBVIOUS
  <2>2. SaveIsAt(did) => SaveIsAt(did)'
    BY <1>2 DEF SaveIsAt, Idle
  <2>3. QED
    BY <1>5, <2>1, <2>2 DEF SavingStands
<1>9. SplittingStands'
  <2>1. PICK did : did = SplitDone[1]
    OBVIOUS
  <2>2. SplitIsAt(did) => SplitIsAt(did)'
    <3> SUFFICES ASSUME SplitIsAt(did) PROVE SplitIsAt(did)'
      OBVIOUS
    <3> DEFINE Part(i) == PartName(i, Len(did.parts))
    <3>1. \A i \in 1 .. did.written : Untouched(Part(i))' =>
            Part(i) \in DOMAIN names' /\ contents'[names'[Part(i)]] = Pdf(did.parts[i])
      BY <1>2, <1>6 DEF SplitIsAt, HoldsNow
    <3>2. \A i \in did.written + 1 .. Len(did.parts) : Untouched(Part(i))' =>
            Part(i) \notin DOMAIN names' \/ (Idle' /\ i = did.written + 1)
      BY <1>2 DEF SplitIsAt, Idle
    <3>3. QED
      BY <3>1, <3>2 DEF SplitIsAt, HoldsNow, Idle
  <2>3. QED
    BY <1>5, <2>1, <2>2 DEF SplittingStands
<1>10. QED
  BY <1>3, <1>4, <1>7, <1>8, <1>9

\* Another program writes a file.
LEMMA MeddleKeeps ==
  ASSUME FilesInvariant, NEW name, Meddle(name, Damaged)
  PROVE  FilesInvariant'
<1>1. FileMade(name, Damaged) /\ Damaged.kind # "pdf"
  BY DEF Meddle, FileMade, Damaged
<1>2. /\ FolderStands'
      /\ DOMAIN names' = DOMAIN names \cup {name}
      /\ DOMAIN contents' = DOMAIN contents \cup {Fresh}
      /\ \A n \in DOMAIN names : n # name => names'[n] = names[n]
      /\ \A place \in DOMAIN contents : contents'[place] = contents[place]
  BY <1>1, FileMadeIs DEF FilesInvariant
<1>3. /\ meddled' = [meddled EXCEPT !.times = @ + 1, !.touched = @ \cup {name}]
      /\ UNCHANGED <<session, command, rewrites, answer, earlier>>
  BY DEF Meddle
<1>4. \A place \in DOMAIN contents : place \in DOMAIN contents' /\ contents'[place] = contents[place]
  BY <1>2
<1>5. \A n : n # name => (n \in DOMAIN names' <=> n \in DOMAIN names)
  BY <1>2
<1>6. QED
  BY <1>2, <1>3, <1>4, <1>5, MeddlingKeeps

\* Another program removes a file: its place keeps what it holds.
LEMMA UnlinkKeeps ==
  ASSUME FilesInvariant, NEW name, Unlink(name)
  PROVE  FilesInvariant'
<1>1. /\ meddled' = [meddled EXCEPT !.times = @ + 1, !.touched = @ \cup {name}]
      /\ names' = [n \in DOMAIN names \ {name} |-> names[n]]
      /\ contents' = contents
      /\ UNCHANGED <<session, command, rewrites, answer, earlier>>
  BY DEF Unlink
<1>2. FolderStands'
  BY <1>1 DEF FilesInvariant, FolderStands
<1>3. /\ \A n : n # name => (n \in DOMAIN names' <=> n \in DOMAIN names)
      /\ \A n \in DOMAIN names : n # name => names'[n] = names[n]
  BY <1>1
<1>4. QED
  BY <1>1, <1>2, <1>3, MeddlingKeeps

\* The program is killed: what it was writing stays as it is on the disk.
LEMMA KilledKeeps ==
  ASSUME FilesInvariant, Killed
  PROVE  FilesInvariant'
<1> USE DEF FilesInvariant
<1>0. /\ session' = NoSession /\ rewrites' = << >> /\ command' = NoCommand
      /\ names' = names /\ contents' = contents /\ earlier' = earlier /\ meddled' = meddled
      /\ answer' = IF Idle THEN answer ELSE Told(command.op, FALSE, FALSE, <<command>>)
  BY DEF Killed
<1>1. FolderStands'
  BY <1>0 DEF FolderStands
<1>2. SessionStands' /\ RewritesStand'
  <2>1. rewrites' \in Seq(Rewritings) /\ DOMAIN rewrites' = {}
    BY <1>0
  <2>2. session'.id = 0 /\ session' = NoSession
    BY <1>0 DEF NoSession
  <2>3. QED
    BY <1>0, <2>1, <2>2 DEF SessionStands, RewritesStand
<1>3. CASE Idle
  <2>1. command' = command /\ answer' = answer
    BY <1>0, <1>3 DEF Idle
  <2>2. QED
    BY <1>0, <1>2, <2>1, DiskLeft
<1>4. CASE ~Idle
  <2>1. answer'.op = command.op /\ ~answer'.ok /\ ~answer'.nothing /\ answer'.what = <<command>> /\ Idle'
    BY <1>0, <1>4 DEF Told, Idle
  <2>2. AnswerStands'
    BY <1>0, <2>1 DEF AnswerStands
  <2>3. command.op \in {"save", "split"} /\ answer.op = command.op /\ answer.what = << >>
    BY <1>4 DEF AnswerStands, Idle, MaybeDone, Told, Splits
  <2>4. SaveDone' = SaveDone /\ SplitDone' = SplitDone
    BY <1>0, <2>1, <2>3 DEF SaveDone, SplitDone, NoCommand
  <2>5. EarlierStands'
    BY <1>0, <2>1, <2>4 DEF EarlierStands, Untouched
  <2>6. SavingStands'
    <3>1. PICK did : did = SaveDone[1]
      OBVIOUS
    <3>2. SaveIsAt(did) => SaveIsAt(did)'
      BY <1>0, <2>1 DEF SaveIsAt, Untouched
    <3>3. QED
      BY <2>4, <3>1, <3>2 DEF SavingStands
  <2>7. SplittingStands'
    <3>1. PICK did : did = SplitDone[1]
      OBVIOUS
    <3>2. SplitIsAt(did) => SplitIsAt(did)'
      BY <1>0, <1>4, <2>1 DEF SplitIsAt, Untouched, HoldsNow
    <3>3. QED
      BY <2>4, <3>1, <3>2 DEF SplittingStands
  <2>8. QED
    BY <1>1, <1>2, <2>2, <2>5, <2>6, <2>7
<1>5. QED
  BY <1>3, <1>4

-----------------------------------------------------------------------------
(* What the interface is told.                                             *)

\* For any folder, and whatever other programs do to it, the invariant
\* holds in every state (session.rs, and the commands of main.rs).
THEOREM FilesInvariantHolds == FilesSpec => []FilesInvariant
<1>1. FilesInit => FilesInvariant
  <2> SUFFICES ASSUME FilesInit PROVE FilesInvariant
    OBVIOUS
  <2>1. PICK folder \in Folders : names = folder.names /\ contents = folder.contents
    BY DEF FilesInit
  <2>2. FolderStands
    BY <2>1, FilesAssumption DEF FilesAssumption, FolderStands
  <2>3. /\ session = NoSession /\ command = NoCommand /\ rewrites = << >>
        /\ answer = NothingDone("none")
        /\ earlier = [names |-> names, contents |-> contents, session |-> NoSession]
        /\ meddled = [touched |-> {}, times |-> 0, commands |-> 0]
    BY DEF FilesInit
  <2>4. SessionStands /\ RewritesStand
    BY <2>3 DEF SessionStands, RewritesStand, NoSession, NothingDone, Told
  <2>5. answer.op = "none" /\ answer.what = << >> /\ command.op = "none"
    BY <2>3 DEF NothingDone, Told, NoCommand
  <2>6. AnswerStands
    BY <2>3, <2>5 DEF AnswerStands
  <2>7. SaveDone = << >> /\ SplitDone = << >>
    BY <2>5 DEF SaveDone, SplitDone
  <2>8. EarlierStands
    BY <2>2, <2>3 DEF EarlierStands, FolderStands
  <2>9. QED
    BY <2>2, <2>4, <2>6, <2>7, <2>8 DEF FilesInvariant, SavingStands, SplittingStands
<1>2. FilesInvariant /\ [FilesNext]_filesVars => FilesInvariant'
  <2> SUFFICES ASSUME FilesInvariant, [FilesNext]_filesVars PROVE FilesInvariant'
    OBVIOUS
  <2>1. ASSUME NEW path \in Paths, OpenFile(path) PROVE FilesInvariant'
    BY <2>1, OpenFileKeeps
  <2>2. CASE CloseDocument
    BY <2>2, CloseKeeps
  <2>3. ASSUME NEW order \in Orders, NEW path \in Paths, NEW extract \in BOOLEAN,
               Save(order, path, extract)
        PROVE  FilesInvariant'
    BY <2>3, SaveKeeps
  <2>4. ASSUME NEW whole \in BOOLEAN, EndSave(whole) PROVE FilesInvariant'
    BY <2>4, EndSaveKeeps
  <2>5. ASSUME NEW parts \in Cuts, Split(parts) PROVE FilesInvariant'
    BY <2>5, SplitKeeps
  <2>6. CASE SplitWrite \/ SplitBreaks
    BY <2>6, SplitWriteKeeps, SplitBreaksKeeps
  <2>7. ASSUME NEW choices \in Merges, BuildMerge(choices) PROVE FilesInvariant'
    BY <2>7, BuildMergeKeeps
  <2>8. ASSUME NEW which \in Rotations, BuildRotation(which) PROVE FilesInvariant'
    BY <2>8, BuildRotationKeeps
  <2>9. ASSUME NEW i \in DOMAIN rewrites, Commit(i) PROVE FilesInvariant'
    BY <2>9, CommitKeeps
  <2>10. ASSUME NEW path \in Paths, Meddle(Spelled[path], Damaged) \/ Unlink(Spelled[path])
         PROVE  FilesInvariant'
    BY <2>10, MeddleKeeps, UnlinkKeeps
  <2>11. CASE Meddle(PartName(2, 2), Damaged)
    BY <2>11, MeddleKeeps
  <2>12. CASE Killed
    BY <2>12, KilledKeeps
  <2>13. CASE UNCHANGED filesVars
    <3>1. /\ UNCHANGED <<names, contents, command, answer, earlier, meddled>>
          /\ session' = session /\ rewrites' = rewrites
      BY <2>13 DEF filesVars
    <3>2. SessionStands' /\ RewritesStand'
      BY <3>1 DEF FilesInvariant, SessionStands, RewritesStand
    <3>3. QED
      BY <3>1, <3>2, DiskLeft DEF FilesInvariant
  <2>14. QED
    BY <2>1, <2>2, <2>3, <2>4, <2>5, <2>6, <2>7, <2>8, <2>9, <2>10, <2>11, <2>12, <2>13 DEF FilesNext
<1>3. QED
  BY <1>1, <1>2, PTL DEF FilesSpec

\* A file that was there and that the command did not write is as it was.
LEMMA BystandersKept ==
  ASSUME FilesInvariant, NEW name \in DOMAIN earlier.names, Untouched(name),
         SaveDone # << >> => earlier.names[name] # SaveDone[1].place
  PROVE  Kept(name)
BY DEF FilesInvariant, EarlierStands, Kept, HoldsNow, HeldBefore

\* What the disk holds is what the interface was told, whatever other
\* programs do, wherever a write fails and whenever the program is killed;
\* and no rewrite it was told of is lost (session.rs:226-340, main.rs:193-212).
THEOREM FilesAlwaysStandAsTold == FilesSpec => []FilesStandAsTold
<1>1. FilesInvariant => FilesStandAsTold
  <2> SUFFICES ASSUME FilesInvariant PROVE FilesStandAsTold
    OBVIOUS
  <2> USE DEF FilesInvariant
  <2>1. SaveStands
    <3> DEFINE did == answer.what[1]
    <3> SUFFICES ASSUME answer.op = "save", answer.what # << >>
                 PROVE  /\ \A name \in Bystanders({did.place}) : Kept(name)
                        /\ answer.ok /\ Idle /\ Untouched(Spelled[did.path]) =>
                             HoldsNow(Spelled[did.path]) = Pdf(did.pages)
                        /\ did.extract /\ Spelled[did.path] = Spelled[earlier.session.path] =>
                             Spelled[did.path] \notin DOMAIN earlier.names \/ ~Untouched(Spelled[did.path])
      BY DEF SaveStands
    <3>1. command = NoCommand
      BY DEF AnswerStands, MaybeDone, Told
    <3>2. SaveDone = answer.what
      BY <3>1 DEF SaveDone, NoCommand
    <3>3. SaveIsAt(did)
      BY <3>2 DEF SavingStands
    <3>4. \A name \in Bystanders({did.place}) : Kept(name)
      BY <3>2, BystandersKept DEF Bystanders
    <3>5. QED
      BY <3>3, <3>4 DEF SaveIsAt, HoldsNow
  <2>2. SplitStands
    <3> DEFINE did == answer.what[1]
               Part(i) == PartName(i, Len(did.parts))
    <3> SUFFICES ASSUME answer.op = "split", answer.what # << >>
                 PROVE  /\ \A name \in Bystanders({}) : Kept(name)
                        /\ \A i \in 1 .. did.written : Untouched(Part(i)) =>
                             /\ Part(i) \notin DOMAIN earlier.names
                             /\ HoldsNow(Part(i)) = Pdf(did.parts[i])
                        /\ \A i \in did.written + 2 .. Len(did.parts) :
                             Untouched(Part(i)) => Part(i) \notin DOMAIN names
                        /\ answer.ok => did.written = Len(did.parts)
      BY DEF SplitStands
    <3>1. command = NoCommand
      BY DEF AnswerStands, MaybeDone, Told
    <3>2. SplitDone = answer.what /\ SaveDone = << >> /\ Idle
      BY <3>1 DEF SplitDone, SaveDone, NoCommand, Idle
    <3>3. SplitIsAt(did)
      BY <3>2 DEF SplittingStands
    <3>4. did.written \in Nat /\ Len(did.parts) \in Nat /\ did.written <= Len(did.parts)
      BY <3>3 DEF SplitIsAt, Splits
    <3>5. \A name \in Bystanders({}) : Kept(name)
      BY <3>2, BystandersKept DEF Bystanders
    <3>6. \A i \in did.written + 2 .. Len(did.parts) : Untouched(Part(i)) => Part(i) \notin DOMAIN names
      BY <3>3, <3>4 DEF SplitIsAt
    <3>7. \A i \in 1 .. did.written : Untouched(Part(i)) =>
            /\ Part(i) \notin DOMAIN earlier.names
            /\ HoldsNow(Part(i)) = Pdf(did.parts[i])
      BY <3>3, <3>4 DEF SplitIsAt
    <3>8. answer.ok => did.written = Len(did.parts)
      BY <3>2, <3>3 DEF SplitIsAt
    <3>9. QED
      BY <3>5, <3>6, <3>7, <3>8
  <2>3. NothingStands
    <3> SUFFICES ASSUME answer.nothing
                 PROVE  /\ \A name \in DOMAIN earlier.names : Untouched(name) => Kept(name)
                        /\ DOMAIN names \ meddled.touched \subseteq DOMAIN earlier.names
      BY DEF NothingStands
    <3>1. command = NoCommand
      BY DEF AnswerStands, MaybeDone, Told
    <3>2. SaveDone = << >>
      BY <3>1 DEF SaveDone, NoCommand, AnswerStands
    <3>3. QED
      BY <3>2, BystandersKept DEF EarlierStands
  <2>4. RewriteStands
    BY DEF RewriteStands, RewritesStand
  <2>5. QED
    BY <2>1, <2>2, <2>3, <2>4 DEF FilesStandAsTold
<1>2. QED
  BY <1>1, FilesInvariantHolds, PTL
\* A rewrite of the document as it stands has the pages it is told to have:
\* the check of replace and extend refuses none that is still current
\* (session.rs, replace, extend).
THEOREM CurrentRewritesFit ==
  FilesSpec => [](\A i \in DOMAIN rewrites :
                    session # NoSession /\ StillCurrent(rewrites[i]) =>
                        Len(rewrites[i].pages) = PagesExpected(rewrites[i]))
<1>1. FilesInvariant =>
        \A i \in DOMAIN rewrites :
            session # NoSession /\ StillCurrent(rewrites[i]) =>
                Len(rewrites[i].pages) = PagesExpected(rewrites[i])
  <2> SUFFICES ASSUME FilesInvariant, NEW i \in DOMAIN rewrites, session # NoSession, StillCurrent(rewrites[i])
               PROVE  Len(rewrites[i].pages) = PagesExpected(rewrites[i])
    OBVIOUS
  <2>1. session.pages \in Seq(Int)
    BY DEF FilesInvariant, SessionStands, Sessions
  <2>2. rewrites[i].added \in Seq(Int)
    BY RewriteIs DEF FilesInvariant
  <2>3. rewrites[i].pages = Turn(session.pages, rewrites[i].which) \o rewrites[i].added
    BY DEF FilesInvariant, RewritesStand, StillCurrent
  <2> DEFINE turned == Turn(session.pages, rewrites[i].which)
  <2>4. turned \in Seq(Int) /\ Len(turned) = Len(session.pages)
    <3>1. turned \in Seq(Int) /\ DOMAIN turned = DOMAIN session.pages
      BY <2>1, TurnType DEF Turn
    <3> HIDE DEF turned
    <3>2. QED
      BY <2>1, <3>1
  <2> DEFINE added == rewrites[i].added
  <2> HIDE DEF turned, added
  <2>5. Len(turned \o added) = Len(turned) + Len(added)
    BY <2>2, <2>4, ConcatProperties DEF added
  <2>6. QED
    BY <2>3, <2>4, <2>5 DEF PagesExpected, turned, added
<1>2. QED
  BY <1>1, FilesInvariantHolds, PTL
=============================================================================
