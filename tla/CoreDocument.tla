---------------------------- MODULE CoreDocument ----------------------------
(***************************************************************************)
(* A document from its bytes to its bytes (document.rs, version.rs): the   *)
(* section is located, the chain followed and verified, or the file is     *)
(* scanned; then the document is written and what was written is opened in *)
(* its turn, with its `startxref' or without it.                           *)
(*                                                                         *)
(* Steps are those of the loops: one section of the chain, one keyword of  *)
(* the scan. The cache of object streams is left out: it holds what a pure *)
(* function of the file gives.                                             *)
(***************************************************************************)
EXTENDS Reconstruction, FileWriter, Decryption

CONSTANTS
    Sources,            \* the files that are opened: [file, password, opens, truth, copied]
    Styles,             \* the styles they are written in
    HeaderWindow, TailWindow, RelocationWindow, DictWindow

\* A source says, under `opens', whether its password opens it, or `unsaid';
\* and under `truth' what each number stands for.
VARIABLES
    source,     \* the member of Sources this document is made from
    file,       \* the file being read: that of the source, then what was written
    phase,      \* chain, scan, open, failed, or idle
    chain,      \* the walk of Xref::parse_with_limits
    scan,       \* the scan of recover.rs
    doc,        \* the open document
    before      \* the document and the file `file' was written from, or NoCopy

coreVars == <<source, file, phase, chain, scan, doc, before>>

NoDocument == [entries |-> NoEntries, crypt |-> NoCrypt]
NoCopy == [doc |-> NoDocument]
NoChain == [next |-> NoOffset, visited |-> {}, entries |-> NoEntries, trailer |-> NoKeys,
            kind |-> "none", start |-> NoOffset]
NoScan == [pos |-> NoOffset]

-----------------------------------------------------------------------------
(* What a glance at the file tells.                                        *)

\* The header within the window, or an object header for want of one.
Headers(f) == {o \in 0 .. HeaderWindow - 1 : o < Len(f) /\ Lexeme(f, o).k = "version"}
LooksHeaderless(f) == \E kw \in 0 .. HeaderWindow - 1 : HeaderBefore(f, kw)
Openable(f) == Headers(f) # {} \/ LooksHeaderless(f)
HeaderOffset(f) == IF Headers(f) = {} THEN 0 ELSE Least(Headers(f))
AssumedVersion == 14
VersionOf(f) == IF Headers(f) = {} THEN AssumedVersion ELSE Lexeme(f, Least(Headers(f))).v

\* The number after the last `startxref' of the tail.
Startxref(f) ==
    LET tail == IF Len(f) > TailWindow THEN Len(f) - TailWindow ELSE 0
        kws  == Occurrences(f, tail, Len(f), {Kw("startxref")})
        last == CHOOSE kw \in kws : \A other \in kws : other <= kw
    IN  IF kws = {} THEN NoOffset
        ELSE IF last + 1 < Len(f) /\ Lexeme(f, last + 1).k = "int" THEN Lexeme(f, last + 1).n
        ELSE NoOffset

\* `xref', or an object header with /XRef (or a longer name) after it.
SectionStartsAt(f, at) ==
    \/ Is(f, at, Kw("xref"))
    \/ LET header == Header(f, at, Len(f))
       IN  /\ at < Len(f) /\ Lexeme(f, at).k = "int" /\ header.ok
           /\ \E o \in header.p .. header.p + DictWindow - 1 :
                  Is(f, o, Nm("XRef")) \/ Is(f, o, Nm("XRefStm"))

Distance(a, b) == IF a < b THEN b - a ELSE a - b

\* Where the newest section is: as declared, shifted by the junk before the
\* header, or the nearest one.
Locate(f, declared) ==
    LET shifted == declared + HeaderOffset(f)
        near == {at \in declared - RelocationWindow .. declared + RelocationWindow - 1 :
                     at >= 0 /\ at < Len(f) /\ SectionStartsAt(f, at)}
    IN  IF SectionStartsAt(f, declared) THEN declared
        ELSE IF HeaderOffset(f) > 0 /\ SectionStartsAt(f, shifted) THEN shifted
        ELSE IF near = {} THEN declared
        ELSE CHOOSE at \in near : \A other \in near :
                 \/ Distance(at, declared) < Distance(other, declared)
                 \/ Distance(at, declared) = Distance(other, declared) /\ at <= other

-----------------------------------------------------------------------------
(* Objects.                                                                *)

\* The object whose header is at `at', when it is r.
ParseObjectAt(f, at, r) ==
    LET Of(obj) == IF ~obj.ok THEN Fail ELSE IF obj.r # r THEN Fail ELSE Got(obj.v, 0)
    IN  IF at >= Len(f) THEN Fail ELSE Of(Indirect(f, at, Len(f)))

\* The same in the clear: d is the document, d.crypt its handler.
ReadObject(f, d, at, r) ==
    LET Deciphered(found) == IF found.ok THEN Got(DecryptObject(d.crypt, r, found.v), 0) ELSE Fail
    IN  Deciphered(ParseObjectAt(f, at, r))

Unreadable == [t |-> "error"]
Or(found, otherwise) == IF found.ok THEN found.v ELSE otherwise
\* References followed while an object stream is loaded: never into one.
TopLevel(f, d, obj) ==
    LET entry == Entry(d.entries, obj.num)
    IN  IF ~IsRef(obj) THEN obj
        ELSE IF entry.e # "inuse" THEN Null
        ELSE IF entry.gen # obj.gen THEN Null
        ELSE Or(ReadObject(f, d, entry.at, obj), Unreadable)

\* The stream is at top level, with generation 0.
LoadObjectStream(f, d, num) ==
    LET entry == Entry(d.entries, num)
        Of(obj) == IF ~obj.ok THEN Fail
                   ELSE IF ~IsStream(obj.v) THEN Fail
                   ELSE ObjectStream(obj.v.d, obj.v.data,
                                     [r \in References |-> TopLevel(f, d, r)])
    IN  IF entry.e # "inuse" THEN Fail
        ELSE IF entry.gen # 0 THEN Fail
        ELSE Of(ReadObject(f, d, entry.at, Ref(num, 0)))

\* The object at the index, when that is its number; else the first of that
\* number in the stream. It was ciphered with the stream, not by itself.
GetCompressed(f, d, num, entry) ==
    LET Direct(obj) == IF ~obj.ok THEN Fail ELSE IF IsStream(obj.v) THEN Fail ELSE obj
        In(data, objects) ==
            LET numbered == {i \in DOMAIN objects : objects[i].num = num}
                i == IF entry.index + 1 \in numbered THEN entry.index + 1 ELSE Least(numbered)
            IN  IF numbered = {} THEN Fail
                ELSE Direct(ParseObject(data, objects[i].at, Len(data)))
        Of(stream) == IF stream.ok THEN In(stream.v.data, stream.v.objects) ELSE Fail
    IN  Of(LoadObjectStream(f, d, entry.stream))

\* Document::get: the object, null for what the table does not list, or an
\* error.
Get(f, d, r) ==
    LET entry == Entry(d.entries, r.num)
    IN  CASE entry.e = "inuse" /\ entry.gen = r.gen -> ReadObject(f, d, entry.at, r)
          [] entry.e = "instream" /\ r.gen = 0 -> GetCompressed(f, d, r.num, entry)
          [] OTHER -> Got(Null, 0)

Resolve(f, d, obj) ==
    IF ~IsRef(obj) THEN obj
    ELSE Or(Get(f, d, obj), Unreadable)

RefOf(entries, num) ==
    Ref(num, IF entries[num].e = "inuse" THEN entries[num].gen ELSE 0)
Stored(entries) == {n \in DOMAIN entries : entries[n].e \in {"inuse", "instream"}}

\* Every object in use is announced where its header is, every compressed
\* one in a stream of the file, and /Root leads to a dictionary.
RootLeads(f, entries, trailer) ==
    LET root  == trailer["Root"]
        entry == Entry(entries, root.num)
    IN  IF ~Has(trailer, "Root") THEN FALSE
        ELSE IF ~IsRef(root) THEN IsDict(root)
        ELSE IF entry.e = "instream" THEN root.gen = 0
        ELSE IF entry.e # "inuse" THEN FALSE
        ELSE IF entry.gen # root.gen THEN FALSE
        ELSE IsDict(Or(Indirect(f, entry.at, Len(f)), Null))

Announced(f, num, entry) ==
    Or(Header(f, entry.at, Len(f)), Null) = Ref(num, entry.gen)

Verified(f, entries, trailer) ==
    /\ \A n \in DOMAIN entries :
         /\ entries[n].e = "inuse" => Announced(f, n, entries[n])
         /\ entries[n].e = "instream" => Entry(entries, entries[n].stream).e = "inuse"
    /\ RootLeads(f, entries, trailer)

-----------------------------------------------------------------------------
(* Opening a file.                                                         *)

Declares(f) == Startxref(f) # NoOffset
ChainOf(f) ==
    IF ~Declares(f) THEN NoChain
    ELSE LET From(start) == [NoChain EXCEPT !.next = start, !.start = start]
         IN  From(Locate(f, Startxref(f)))
ScanOf(f)  == IF Declares(f) THEN NoScan ELSE NewScan(f)
PhaseOf(f) == IF ~Openable(f) THEN "failed" ELSE IF Declares(f) THEN "chain" ELSE "scan"

CoreInit ==
    /\ source \in Sources
    /\ file = source.file
    /\ before = NoCopy
    /\ doc = NoDocument
    /\ chain = ChainOf(source.file)
    /\ scan = ScanOf(source.file)
    /\ phase = PhaseOf(source.file)

\* The declared table cannot be used: the file is scanned.
Reconstruct ==
    /\ phase' = "scan"
    /\ scan' = NewScan(file)
    /\ chain' = NoChain

\* One section: the newest gives the trailer, the older ones only what is
\* still missing.
ReadSection ==
    /\ phase = "chain" /\ chain.next # NoOffset
    /\ \E section \in {LoadSection(file, chain.next, chain.visited)} :
           LET newest == chain.visited = {}
           IN  IF ~section.ok THEN Reconstruct
               ELSE IF BadOffset(section.v.trailer, "Prev") THEN Reconstruct
               ELSE /\ chain' = [chain EXCEPT
                          !.next = OffsetOf(section.v.trailer, "Prev"),
                          !.visited = section.p,
                          !.entries = Under(@, section.v.entries),
                          !.trailer = IF newest THEN section.v.trailer ELSE @,
                          !.kind = IF newest THEN section.v.kind ELSE @]
                    /\ UNCHANGED <<phase, scan>>
    /\ UNCHANGED <<source, file, doc, before>>

\* The security handler is read with objects as they are stored; without
\* it, or with another password, the document does not open.
OpenWith(entries, trailer, kind, relocated) ==
    LET stored == [entries |-> entries, trailer |-> trailer, kind |-> kind,
                   version |-> VersionOf(file), relocated |-> relocated, crypt |-> NoCrypt]
    IN  \E crypt \in {OpenCrypt(trailer, source.password,
                               [r \in References |-> Resolve(file, stored, r)])} :
            IF crypt.ok THEN doc' = [stored EXCEPT !.crypt = crypt.v] /\ phase' = "open"
            ELSE phase' = "failed" /\ UNCHANGED doc

\* The whole chain is read: it is trusted when it matches the file.
Verify ==
    /\ phase = "chain" /\ chain.next = NoOffset
    /\ LET entries == FreeObjectZero(chain.entries)
       IN  IF Verified(file, entries, chain.trailer)
           THEN /\ OpenWith(entries, chain.trailer, chain.kind,
                            chain.start # Startxref(file))
                /\ UNCHANGED <<chain, scan>>
           ELSE Reconstruct /\ UNCHANGED doc
    /\ UNCHANGED <<source, file, before>>

Scan ==
    /\ phase = "scan" /\ ~Scanned(file, scan)
    /\ scan' = ScanStep(file, scan)
    /\ UNCHANGED <<source, file, phase, chain, doc, before>>

\* The end of the scan: nothing found, nothing to open.
Rebuild ==
    /\ phase = "scan" /\ Scanned(file, scan)
    /\ IF scan.found = NoEntries
       THEN phase' = "failed" /\ UNCHANGED doc
       ELSE \E indexed \in {IndexStreams(file, scan, scan.streams)} :
                OpenWith(indexed.found, RebuiltTrailer(indexed), "reconstructed", FALSE)
    /\ UNCHANGED <<source, file, chain, scan, before>>

-----------------------------------------------------------------------------
(* Writing it.                                                             *)

RECURSIVE InOrder(_)
InOrder(numbers) ==
    IF numbers = {} THEN << >>
    ELSE <<Least(numbers)>> \o InOrder(numbers \ {Least(numbers)})

\* What is written of a document: all it can read, but what describes the
\* layout of the old file or its encryption.
Readable(f, d) ==
    LET Copied(obj) == IF obj.ok THEN ~DescribesFileLayout(obj.v) ELSE FALSE
        encrypt == IF Has(d.trailer, "Encrypt") THEN d.trailer["Encrypt"] ELSE Null
    IN  {n \in Stored(d.entries) :
            /\ Copied(Get(f, d, RefOf(d.entries, n)))
            /\ encrypt # RefOf(d.entries, n)}

Written(f, d, style) ==
    LET free == {n \in DOMAIN d.entries : IsFree(d.entries[n])}
        Copies(numbers) == [i \in DOMAIN numbers |->
                               LET r == RefOf(d.entries, numbers[i])
                               IN  [r |-> r, obj |-> Get(f, d, r).v]]
    IN  Emit(d.version, style, Copies(InOrder(Readable(f, d))),
             [n \in free |-> d.entries[n].gen], d.trailer)

\* A document opened from a file is written again; `whole' is FALSE when
\* the end of the copy is lost.
Rewrite(style, whole) ==
    /\ phase = "open" /\ before = NoCopy /\ source.copied
    /\ \E written \in {Written(file, doc, style)} :
           LET kept == IF whole THEN written.v
                       ELSE SubSeq(written.v, 1, Len(written.v) - 4)
           IN  IF ~written.ok THEN UNCHANGED <<file, phase, chain, scan, doc, before>>
               ELSE /\ before' = [doc |-> doc, file |-> file, style |-> style,
                                  whole |-> whole]
                    /\ file' = kept
                    /\ doc' = NoDocument
                    /\ chain' = ChainOf(kept)
                    /\ scan' = ScanOf(kept)
                    /\ phase' = PhaseOf(kept)
    /\ UNCHANGED source

\* No document: for behaviours of the other parts.
NoSource == [file |-> << >>, password |-> "", opens |-> "unsaid", truth |-> NoKeys, copied |-> FALSE]
CoreIdle ==
    /\ source = NoSource /\ file = << >> /\ phase = "idle"
    /\ before = NoCopy /\ doc = NoDocument /\ chain = NoChain /\ scan = NoScan

CoreNext ==
    \/ ReadSection
    \/ Verify
    \/ Scan
    \/ Rebuild
    \/ \E style \in Styles, whole \in BOOLEAN : Rewrite(style, whole)

-----------------------------------------------------------------------------
(* Properties.                                                             *)

RECURSIVE NormLookup(_, _, _)
\* What xref.rs:6-12 says of one number: the newest section's table, then
\* the stream of its /XRefStm, which stands before a free entry of that
\* table, then the section at /Prev.
NormLookup(f, at, n) ==
    LET Ordered(own, hidden, prev) ==
            IF own # NoEntry /\ ~IsFree(own) THEN own
            ELSE IF hidden # NoEntry THEN hidden
            ELSE IF own # NoEntry THEN own
            ELSE IF prev # NoOffset THEN NormLookup(f, prev, n)
            ELSE NoEntry
        In(section) ==
            Ordered(Entry(section.entries, n),
                    IF section.stm = NoOffset THEN NoEntry
                    ELSE Entry(StreamSection(f, section.stm).v.entries, n),
                    OffsetOf(section.trailer, "Prev"))
    IN  In(Section(f, at).v)

\* Merging the sections one by one gives every number the entry that the
\* order of lookup gives it (xref.rs, Xref::parse_with_limits).
ChainFollowsTheNorm ==
    phase = "chain" /\ chain.next = NoOffset =>
        \A n \in DOMAIN chain.entries \cup 1 .. MaxNum :
            Entry(chain.entries, n) = NormLookup(file, chain.start, n)

\* What opening has still to do: it reads no section twice, and the scan
\* moves on at every keyword, spending from a budget that nothing refills.
Advances ==
    CASE phase = "chain" /\ phase' = "chain" ->
            /\ chain.visited \subseteq chain'.visited
            /\ chain'.visited # chain.visited
            /\ chain'.visited \subseteq 0 .. Len(file) - 1
      [] phase = "scan" /\ phase' = "scan" ->
            /\ scan'.pos \in scan.pos + 1 .. Len(file)
            /\ scan'.budget \in 0 .. scan.budget
      [] phase = "chain" /\ phase' # "chain" -> phase' \in {"scan", "open", "failed"}
      [] phase = "scan" /\ phase' # "scan" -> phase' \in {"open", "failed"}
      [] OTHER -> before # before'

\* Opening a file ends, whatever its offsets point at: every step leaves
\* less to do (xref.rs load_section, recover.rs run).
OpeningAdvances == [][Advances]_coreVars

Content(f, d, n) == Get(f, d, RefOf(d.entries, n))
Unsized(obj) == IF IsStream(obj) THEN [obj EXCEPT !.d = Without(@, {"Length"})] ELSE obj

\* A document opens with its passwords and no other, and then gives each
\* number the object that is stored under it, in the clear, and lists
\* nothing else. A scanned file gives the last definition, be it without
\* `endobj', after junk, in an object stream or near data that looks like
\* an object (document.rs, recover.rs, encryption.rs).
ReadsWhatIsStored ==
    before = NoCopy =>
        /\ source.opens = "yes" => phase # "failed"
        /\ source.opens = "no" => phase # "open"
        /\ source.opens = "yes" /\ phase = "open" =>
             /\ Stored(doc.entries) = DOMAIN source.truth
             /\ \A n \in DOMAIN source.truth :
                  Unsized(Or(Content(file, doc, n), Unreadable)) = source.truth[n]

RootOf(f, d) == IF IsDict(d.trailer["Root"]) THEN d.trailer["Root"]
                ELSE Get(f, d, d.trailer["Root"]).v

SaysTheSame(old, new) ==
    /\ Cardinality(new) <= Cardinality(old) + 1
    /\ \A n \in old :
         /\ n \in DOMAIN doc.entries
         /\ RefOf(doc.entries, n) = RefOf(before.doc.entries, n)
         /\ Unsized(Or(Content(file, doc, n), Unreadable))
              = Unsized(Or(Content(before.file, before.doc, n), Null))

\* The first string of /ID.
IdentityOf(d) == FileId(d.trailer, AsStored).v

\* What is written opens as it was written, without repair, and says the
\* same: the same objects under the same numbers, the same catalog, the same
\* identity for life; a copy that lost its end is rebuilt into the same
\* document (writer.rs).
WrittenReadsBack ==
    before # NoCopy =>
        /\ phase # "failed"
        /\ before.whole => phase \in {"chain", "open"}
        /\ phase = "open" =>
             /\ before.whole => doc.kind = before.style /\ ~doc.relocated
             /\ RootOf(file, doc) = RootOf(before.file, before.doc)
             /\ IdentityOf(doc) # NoText
             /\ IdentityOf(before.doc) \in {NoText, IdentityOf(doc)}
             /\ SaysTheSame(Readable(before.file, before.doc), Readable(file, doc))
=============================================================================
