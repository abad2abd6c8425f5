----------------------------- MODULE FileWriter -----------------------------
(***************************************************************************)
(* The writer (writer.rs): objects under their numbers, one cross-         *)
(* reference section, a trailer, `startxref'.                              *)
(***************************************************************************)
EXTENDS XrefChain, TLC

CONSTANTS
    MaxPadding,     \* MAX_TABLE_PADDING
    MaxOffset,      \* MAX_TABLE_OFFSET, in lexemes
    RowByte         \* how many values a byte of a row has

StreamVersion == 15     \* the floor of a cross-reference stream: PDF 1.5
FreeHeadGen == MaxGen
Larger(a, b) == IF a < b THEN b ELSE a
HeaderVersion(version, style) ==
    IF style = "stream" THEN Larger(version, StreamVersion) ELSE version

-----------------------------------------------------------------------------
(* Objects.                                                                *)

RECURSIVE TooDeep(_, _), Serialize(_), WriteItems(_, _), WriteKeys(_, _)
TooDeep(obj, depth) ==
    \/ depth > MaxDepth
    \/ /\ obj.t = "array"
       /\ \E i \in DOMAIN obj.items : TooDeep(obj.items[i], depth + 1)
    \/ /\ obj.t \in {"dict", "stream"}
       /\ \E key \in DOMAIN obj.d : TooDeep(obj.d[key], depth + 1)

\* A stream is given the /Length of its data.
Sized(d, data) == Put(d, "Length", Integer(Len(data)))
WriteDict(d) == <<Sym("<<")>> \o WriteKeys(d, DOMAIN d) \o <<Sym(">>")>>
Serialize(obj) ==
    CASE obj.t = "null"    -> <<Kw("null")>>
      [] obj.t = "bool"    -> <<Kw(IF obj.b THEN "true" ELSE "false")>>
      [] obj.t = "integer" -> <<Num(obj.n)>>
      [] obj.t = "name"    -> <<Nm(obj.w)>>
      [] obj.t = "string"  -> <<Str(obj.text)>>
      [] obj.t = "ref"     -> <<Num(obj.num), Num(obj.gen), Kw("R")>>
      [] obj.t = "array"   -> <<Sym("[")>> \o WriteItems(obj.items, 1) \o <<Sym("]")>>
      [] obj.t = "dict"    -> WriteDict(obj.d)
      [] obj.t = "stream"  -> WriteDict(Sized(obj.d, obj.data)) \o <<Kw("stream")>>
                                 \o obj.data \o <<Kw("endstream")>>

WriteItems(items, i) ==
    IF i > Len(items) THEN << >> ELSE Serialize(items[i]) \o WriteItems(items, i + 1)

WriteKeys(d, keys) ==
    IF keys = {} THEN << >>
    ELSE LET key == CHOOSE k \in keys : TRUE
         IN  <<Nm(key)>> \o Serialize(d[key]) \o WriteKeys(d, keys \ {key})

WriteIndirect(r, obj) ==
    <<Num(r.num), Num(r.gen), Kw("obj")>> \o Serialize(obj) \o <<Kw("endobj")>>

\* What is written: the lexemes, and where each number went.
NoneWritten == [n \in {} |-> NoEntry]
Opening(version) == [out |-> <<Version(version), Comment, Eol>>, written |-> NoneWritten]
WriteObject(body, r, obj) ==
    IF r.num = 0 THEN body
    ELSE [out |-> body.out \o WriteIndirect(r, obj),
          written |-> Put(body.written, r.num, InUse(Len(body.out), r.gen))]

RECURSIVE WriteObjects(_, _, _)
WriteObjects(body, objects, i) ==
    IF i > Len(objects) THEN body
    ELSE WriteObjects(WriteObject(body, objects[i].r, objects[i].obj), objects, i + 1)

LastNumber(written) ==
    IF DOMAIN written = {} THEN 0
    ELSE CHOOSE n \in DOMAIN written : \A m \in DOMAIN written : m <= n

-----------------------------------------------------------------------------
(* The trailer.                                                            *)

\* A catalog written directly in the trailer becomes an object.
DirectRoot(trailer) == Has(trailer, "Root") /\ IsDict(trailer["Root"])
\* For a mutant: the last number is given twice.
PromotedOver(body) == Ref(LastNumber(body.written), 0)
Promoted(body) == Ref(LastNumber(body.written) + 1, 0)

LeadsToWritten(trailer, key, written) ==
    /\ Has(trailer, key)
    /\ IsRef(trailer[key])
    /\ Lists(written, trailer[key].num)
    /\ written[trailer[key].num].gen = trailer[key].gen

\* The first string of /ID stays for life when there is one that is not
\* empty, the second changes.
FreshId == String(Text("fresh"))
PermanentId(trailer) ==
    LET id == IF Has(trailer, "ID") THEN trailer["ID"] ELSE Null
    IN  IF id.t # "array" THEN FreshId
        ELSE IF id.items = << >> THEN FreshId
        ELSE IF id.items[1] = String(NoText) \/ id.items[1].t # "string" THEN FreshId
        ELSE id.items[1]

BuildTrailer(source, root, written) ==
    [key \in {"Root", "ID"} \cup {k \in {"Info"} : LeadsToWritten(source, k, written)} |->
        CASE key = "Root" -> root
          [] key = "Info" -> source["Info"]
          [] key = "ID"   -> Array(<<PermanentId(source), FreshId>>)]

-----------------------------------------------------------------------------
(* The cross-reference section.                                            *)

\* Every number below the size that holds no object is a free entry, linked
\* to the next free one. free gives the generations the source had.
WriteTable(body, free, trailer) ==
    LET size    == LastNumber(body.written) + 1
        gaps    == (0 .. size - 1) \ DOMAIN body.written
        After(n) == {m \in gaps : m > n}
        link(n) == IF After(n) = {} THEN 0 ELSE Least(After(n))
        gen(n)  == IF n = 0 THEN FreeHeadGen ELSE IF Has(free, n) THEN free[n] ELSE 0
        lines   == [n \in 0 .. size - 1 |->
                       IF n \in gaps THEN <<Num(link(n)), Num(gen(n)), Kw("f")>>
                       ELSE <<Num(body.written[n].at), Num(body.written[n].gen), Kw("n")>>]
        rows[n \in 0 .. size] == IF n = 0 THEN << >> ELSE rows[n - 1] \o lines[n - 1]
    IN  IF \/ Cardinality(gaps) - 1 > MaxPadding
           \/ \E n \in DOMAIN body.written : body.written[n].at > MaxOffset
        THEN Fail
        ELSE Got(body.out \o <<Kw("xref"), Num(0), Num(size)>> \o rows[size]
                   \o <<Kw("trailer")>> \o WriteDict(Put(trailer, "Size", Integer(size))), 0)

\* bytes_needed: one at least.
RECURSIVE BytesNeeded(_)
BytesNeeded(value) == IF value < RowByte THEN 1 ELSE 1 + BytesNeeded(value \div RowByte)

\* The stream lists itself, and its own place, the last, sets how wide the
\* places are; what is wider is cut. Its /Index holds one pair per run of numbers.
WriteXrefStream(body, trailer) ==
    LET num    == LastNumber(body.written) + 1
        at     == Len(body.out)
        width  == BytesNeeded(at)
        Wide(place) == place % RowByte^width
        listed == DOMAIN body.written \cup {0, num}
        row(n) == CASE n = 0   -> RowOf(<<0, 0, FreeHeadGen>>)
                    [] n = num -> RowOf(<<1, Wide(at), 0>>)
                    [] OTHER   -> RowOf(<<1, Wide(body.written[n].at), body.written[n].gen>>)
        rows[n \in -1 .. num] ==
            IF n = -1 THEN << >>
            ELSE IF n \in listed THEN Append(rows[n - 1], row(n)) ELSE rows[n - 1]
        starts == {n \in listed : n - 1 \notin listed}
        End(n) == Least({m \in n .. num + 1 : m \notin listed})
        index[n \in -1 .. num] ==
            IF n = -1 THEN << >>
            ELSE IF n \in starts
                 THEN index[n - 1] \o <<Integer(n), Integer(End(n) - n)>>
                 ELSE index[n - 1]
        entries == ("Type" :> Name("XRef")) @@ ("Size" :> Integer(num + 1))
                   @@ ("W" :> Array(<<Integer(1), Integer(width), Integer(2)>>))
                   @@ ("Index" :> Array(index[num])) @@ ("Filter" :> Name("FlateDecode"))
    IN  IF num > MaxNum THEN Fail
        ELSE Got(body.out \o WriteIndirect(Ref(num, 0),
                     Stream(entries @@ trailer, <<Packed(rows[num])>>)), 0)

Ending(at) == <<Kw("startxref"), Num(at), Comment, Eol>>

\* The whole file: objects is a sequence of [r, obj] in the order given.
Emit(version, style, objects, free, source) ==
    LET Closed(whole, section) ==
            IF section.ok THEN Got(section.v \o Ending(Len(whole.out)), 0) ELSE Fail
        Trailed(whole, trailer) ==
            Closed(whole, IF style = "table" THEN WriteTable(whole, free, trailer)
                          ELSE WriteXrefStream(whole, trailer))
        Rooted(whole, root) == Trailed(whole, BuildTrailer(source, root, whole.written))
        After(body) ==
            IF DirectRoot(source)
            THEN IF Promoted(body).num > MaxNum THEN Fail
                 ELSE Rooted(WriteObject(body, Promoted(body), source["Root"]), Promoted(body))
            ELSE IF LeadsToWritten(source, "Root", body.written)
                 THEN Rooted(body, source["Root"])
            ELSE Fail
    IN  IF \E i \in DOMAIN objects : TooDeep(objects[i].obj, 0) THEN Fail
        ELSE After(WriteObjects(Opening(HeaderVersion(version, style)), objects, 1))

\* Object streams and cross-reference streams describe the old file.
DescribesFileLayout(obj) == IsStream(obj) /\ (TypeIs(obj, "ObjStm") \/ TypeIs(obj, "XRef"))
=============================================================================
