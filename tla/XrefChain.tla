------------------------------ MODULE XrefChain ------------------------------
(***************************************************************************)
(* The sections of the cross-reference chain (xref.rs): classic tables,    *)
(* cross-reference streams and hybrid sections. CoreDocument follows the   *)
(* chain with them.                                                        *)
(***************************************************************************)
EXTENDS StreamFilters

CONSTANT MaxFieldWidth      \* MAX_FIELD_WIDTH

Free(gen) == [e |-> "free", gen |-> gen]
InUse(at, gen) == [e |-> "inuse", at |-> at, gen |-> gen]
InStream(stream, index) == [e |-> "instream", stream |-> stream, index |-> index]
NoEntry == [e |-> "none"]
NoEntries == [n \in {} |-> NoEntry]
IsFree(entry) == entry.e = "free"
Lists(entries, n) == n \in DOMAIN entries
Entry(entries, n) == IF Lists(entries, n) THEN entries[n] ELSE NoEntry
\* Entries of `first', and those of `then' for the numbers `first' lacks.
Under(first, then) ==
    [n \in DOMAIN first \cup DOMAIN then |-> IF Lists(first, n) THEN first[n] ELSE then[n]]

ClampGen(g) == IF g \in 0 .. MaxGen THEN g ELSE MaxGen

-----------------------------------------------------------------------------
(* Classic tables.                                                         *)

\* One entry, `offset gen n' or `offset gen f'. The header is at offset 0,
\* so an `n' there is a free entry.
TableEntry(file, at) ==
    LET Of(field, gen, kind) ==
            IF IsTok(kind, Kw("f")) \/ (IsTok(kind, Kw("n")) /\ field = 0)
            THEN Got(Free(ClampGen(gen)), kind.p)
            ELSE IF IsTok(kind, Kw("n")) /\ field > 0 /\ gen \in 0 .. MaxGen
                 THEN Got(InUse(field, gen), kind.p)
            ELSE Fail
        Second(field, gen) ==
            IF IsInt(gen) THEN Of(field, gen.v.n, Next1(file, gen.p, Len(file))) ELSE Fail
        First(field) ==
            IF IsInt(field) THEN Second(field.v.n, Next1(file, field.p, Len(file))) ELSE Fail
    IN  First(Next1(file, at, Len(file)))

RECURSIVE Subsection(_, _, _, _, _), Table(_, _, _)
\* `count' comes from the file: the first token that is no entry fails.
Subsection(file, at, num, count, entries) ==
    LET With(entry) ==
            IF num > MaxNum \/ ~entry.ok THEN Fail
            ELSE Subsection(file, entry.p, num + 1, count - 1, Put(entries, num, entry.v))
    IN  IF count = 0 THEN Got(entries, at) ELSE With(TableEntry(file, at))

\* The subsections, up to `trailer'.
Table(file, at, entries) ==
    LET After(rows) == IF rows.ok THEN Table(file, rows.p, rows.v) ELSE Fail
        Counted(first, count) ==
            IF ~IsInt(count) THEN Fail
            ELSE IF first \notin 0 .. MaxNum \/ count.v.n < 0 THEN Fail
            ELSE After(Subsection(file, count.p, first, count.v.n, entries))
        From(first) ==
            IF ~first.ok THEN Fail
            ELSE IF IsTok(first, Kw("trailer")) THEN Got(entries, first.p)
            ELSE IF ~IsInt(first) THEN Fail
            ELSE Counted(first.v.n, Next1(file, first.p, Len(file)))
    IN  From(Next1(file, at, Len(file)))

NoOffset == -1
OffsetOf(d, key) == IF Has(d, key) THEN d[key].n ELSE NoOffset
BadOffset(d, key) == Has(d, key) /\ ~IsSize(d[key])
SectionOf(entries, trailer, stm, kind) ==
    [entries |-> entries, trailer |-> trailer, stm |-> stm, kind |-> kind]

\* A table, with the trailer that follows it.
WithTrailer(entries, trailer) ==
    IF ~trailer.ok THEN Fail
    ELSE IF ~IsDict(trailer.v) \/ BadOffset(trailer.v.d, "XRefStm") THEN Fail
    ELSE LET stm == OffsetOf(trailer.v.d, "XRefStm")
         IN  Got(SectionOf(entries, trailer.v.d, stm,
                           IF stm = NoOffset THEN "table" ELSE "hybrid"), 0)
TableSection(file, rows) ==
    IF rows.ok THEN WithTrailer(rows.v, ParseObject(file, rows.p, Len(file))) ELSE Fail

-----------------------------------------------------------------------------
(* Cross-reference streams.                                                *)

\* /W: three widths, not all zero.
Widths(d) ==
    LET w == d["W"].items
    IN  IF /\ Has(d, "W") /\ d["W"].t = "array" /\ Len(w) >= 3
           /\ \A i \in 1 .. 3 : IsSize(w[i]) /\ w[i].n <= MaxFieldWidth
           /\ \E i \in 1 .. 3 : w[i].n > 0
        THEN Got([i \in 1 .. 3 |-> w[i].n], 0)
        ELSE Fail

\* /Index: the numbers of the rows, in their order, as far as rows go. It
\* is [0 /Size] when it is missing, and without /Size every row counts.
RowNumbers(d, rows) ==
    LET pairs == d["Index"].items
        size  == IF HasSize(d, "Size") THEN d["Size"].n ELSE rows
        count(i) == IF pairs[2 * i].n < rows THEN pairs[2 * i].n ELSE rows
        all[i \in 0 .. Len(pairs) \div 2] ==
            IF i = 0 THEN << >>
            ELSE all[i - 1] \o [j \in 1 .. count(i) |-> pairs[2 * i - 1].n + j - 1]
    IN  IF ~Has(d, "Index") THEN Got([j \in 1 .. size |-> j - 1], 0)
        ELSE IF d["Index"].t # "array" THEN Fail
        ELSE IF Len(pairs) % 2 # 0 \/ (\E i \in DOMAIN pairs : ~IsSize(pairs[i])) THEN Fail
        ELSE IF \E i \in DOMAIN pairs : i % 2 = 1 /\ pairs[i].n > MaxNum THEN Fail
        ELSE Got(all[Len(pairs) \div 2], 0)

\* A field of width zero reads 0, and a missing type is 1. An object in use
\* at offset 0 is free, and an unknown type is no entry at all.
DecodeRow(row, w) ==
    LET Field(i, missing) == IF w[i] = 0 THEN missing ELSE row.f[i]
        kind == Field(1, 1)
        f2   == Field(2, 0)
        f3   == Field(3, 0)
    IN  CASE kind = 0 \/ (kind = 1 /\ f2 = 0) -> Got(Free(ClampGen(f3)), 0)
          [] kind = 1 /\ f2 # 0 -> IF f3 <= MaxGen THEN Got(InUse(f2, f3), 0) ELSE Fail
          [] kind = 2 -> IF f2 <= MaxNum /\ f3 <= MaxNum THEN Got(InStream(f2, f3), 0) ELSE Fail
          [] OTHER -> Got(NoEntry, 0)

\* The section of dictionary d, whose rows have these numbers.
RowSection(d, rows, numbers, w) ==
    LET listed == 1 .. (IF Len(numbers) < Len(rows) THEN Len(numbers) ELSE Len(rows))
        entry[i \in listed] == DecodeRow(rows[i], w)
        \* The last row that gives n an entry.
        rowsOf(n) == {i \in listed : numbers[i] = n /\ entry[i].v # NoEntry}
    IN  IF \E i \in listed : ~entry[i].ok \/ numbers[i] > MaxNum THEN Fail
        ELSE Got(SectionOf(
                   [n \in {numbers[i] : i \in {j \in listed : entry[j].v # NoEntry}} |->
                        entry[CHOOSE i \in rowsOf(n) : \A j \in rowsOf(n) : j <= i].v],
                   d, NoOffset, "stream"), 0)

StreamSection(file, at) ==
    LET Numbered(d, data, w, numbers) ==
            IF ~data.ok \/ ~w.ok \/ ~numbers.ok THEN Fail
            ELSE IF \E i \in DOMAIN data.v : data.v[i].k # "row" THEN Fail
            ELSE RowSection(d, data.v, numbers.v, w.v)
        Decoded(d, data) ==
            Numbered(d, data, Widths(d), IF data.ok THEN RowNumbers(d, Len(data.v)) ELSE Fail)
        Of(obj) ==
            IF ~obj.ok THEN Fail
            ELSE IF ~IsStream(obj.v) \/ ~TypeIs(obj.v, "XRef") THEN Fail
            ELSE Decoded(obj.v.d, DecodeStream(obj.v.d, obj.v.data, AsStored))
    IN  IF at >= Len(file) THEN Fail ELSE Of(Indirect(file, at, Len(file)))

-----------------------------------------------------------------------------
(* One step of the chain.                                                  *)

SectionFrom(file, at, word) ==
    IF IsTok(word, Kw("xref")) THEN TableSection(file, Table(file, word.p, NoEntries))
    ELSE IF IsInt(word) THEN StreamSection(file, at)
    ELSE Fail
Section(file, at) ==
    IF at >= Len(file) THEN Fail ELSE SectionFrom(file, at, Next1(file, at, Len(file)))

\* For a mutant: the stream always stands before the table.
HybridizedOver(table, stm) == Under(stm, table)

\* An entry of /XRefStm replaces a free entry of its own table, or fills a
\* gap of it.
Hybridized(table, stm) ==
    [n \in DOMAIN table \cup DOMAIN stm |->
        IF Lists(stm, n) /\ (~Lists(table, n) \/ IsFree(table[n])) THEN stm[n] ELSE table[n]]

\* A table with the stream of its /XRefStm, and the offsets read so far.
Beside(table, stm, read) ==
    IF stm.ok THEN Got([table EXCEPT !.entries = Hybridized(@, stm.v.entries)], read) ELSE Fail
\* For a mutant: no section is refused for having been read.
ReadAgain(file, section, read) ==
    IF ~section.ok THEN Fail
    ELSE IF section.v.stm = NoOffset THEN Got(section.v, read)
    ELSE Beside(section.v, StreamSection(file, section.v.stm), read \cup {section.v.stm})
LoadSectionAgain(file, at, visited) == ReadAgain(file, Section(file, at), visited \cup {at})

\* The section at `at' with its /XRefStm, or Fail; an offset already read
\* along the chain is a loop.
ReadOnce(file, section, read) ==
    IF ~section.ok THEN Fail
    ELSE IF section.v.stm = NoOffset THEN Got(section.v, read)
    ELSE IF section.v.stm \in read THEN Fail
    ELSE Beside(section.v, StreamSection(file, section.v.stm), read \cup {section.v.stm})
LoadSection(file, at, visited) ==
    IF at \in visited THEN Fail ELSE ReadOnce(file, Section(file, at), visited \cup {at})

\* Object 0 heads the free list and is never stored.
FreeObjectZero(entries) ==
    IF Lists(entries, 0) /\ ~IsFree(entries[0]) THEN [entries EXCEPT ![0] = Free(MaxGen)]
    ELSE entries
=============================================================================
