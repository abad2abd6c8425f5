--------------------------- MODULE Reconstruction ---------------------------
(***************************************************************************)
(* The reconstruction of a cross-reference table by a scan of the file for *)
(* `n g obj' headers (recover.rs), and the object streams it opens         *)
(* (document.rs). CoreDocument takes one step of the scan at a time.       *)
(***************************************************************************)
EXTENDS XrefChain

CONSTANTS
    BudgetFactor, BudgetFloor,  \* BUDGET_FACTOR, BUDGET_FLOOR, in lexemes
    CommentLookback             \* COMMENT_LOOKBACK

-----------------------------------------------------------------------------
(* Object streams.                                                         *)

RECURSIVE Pairs(_, _, _, _)
\* The pairs `number offset' of the header: the first token that is no
\* number ends them, whatever /N says.
Pairs(data, at, count, first) ==
    LET With(num, offset, rest) ==
            IF rest.ok THEN Got(<<[num |-> num, at |-> first + offset]>> \o rest.v, at) ELSE Fail
        Placed(num, rel) ==
            IF ~IsInt(rel) \/ num \notin 0 .. MaxNum THEN Fail
            ELSE IF rel.v.n < 0 \/ first + rel.v.n > Len(data) THEN Fail
            ELSE With(num, rel.v.n, Pairs(data, rel.p, count - 1, first))
        Of(num) ==
            IF ~num.ok THEN Fail
            ELSE IF ~IsInt(num) THEN Got(<< >>, at)
            ELSE Placed(num.v.n, Next1(data, num.p, first))
    IN  IF count = 0 THEN Got(<< >>, at) ELSE Of(Next1(data, at, first))

\* The object stream a dictionary and its data hold, or Fail.
ObjectStream(d, data, R) ==
    LET Holding(objects, pairs) ==
            IF pairs.ok THEN Got([data |-> objects, objects |-> pairs.v], 0) ELSE Fail
        Of(count, first, decoded) ==
            IF ~IsSize(count) \/ ~IsSize(first) \/ ~decoded.ok THEN Fail
            ELSE IF first.n > Len(decoded.v) THEN Fail
            ELSE Holding(decoded.v, Pairs(decoded.v, 0, count.n, first.n))
    IN  IF ~Has(d, "N") \/ ~Has(d, "First") THEN Fail
        ELSE Of(Followed(R, d["N"]), Followed(R, d["First"]), DecodeStream(d, data, R))

-----------------------------------------------------------------------------
(* The scan.                                                               *)

NoCatalog == [at |-> NoOffset]
Budget(file) == IF BudgetFactor * Len(file) > BudgetFloor THEN BudgetFactor * Len(file)
                ELSE BudgetFloor
NewScan(file) ==
    [pos |-> 0, budget |-> Budget(file), found |-> NoEntries, places |-> NoKeys,
     streams |-> << >>, catalog |-> NoCatalog, trailers |-> << >>]

\* What a raw search for `obj' stops at: `endobj' too.
ObjWords == {Kw("obj"), Kw("endobj")}
NextObj(file, at)     == FirstOf(file, at, Len(file), ObjWords, Len(file))
NextTrailer(file, at) == FirstOf(file, at, Len(file), {Kw("trailer")}, Len(file))

\* Is there a header `n g' right before the keyword?
HeaderBefore(file, kw) ==
    /\ Is(file, kw, Kw("obj"))
    /\ kw >= 2
    /\ \A at \in {kw - 1, kw - 2} : Lexeme(file, at).k = "int"
    /\ Lexeme(file, kw - 2).n \in 0 .. MaxNum
    /\ Lexeme(file, kw - 1).n \in 0 .. MaxGen

OnCommentLine(file, at) ==
    \E o \in (IF at > CommentLookback THEN at - CommentLookback ELSE 0) .. at - 1 :
        /\ Is(file, o, Comment)
        /\ \A later \in o .. at - 1 : ~Is(file, later, Eol)

NextHeaderStart(file, from) ==
    LET kws == {kw \in from + 2 .. Len(file) - 1 : HeaderBefore(file, kw)}
    IN  IF kws = {} THEN Len(file) ELSE Least(kws) - 2

Affords(scan, cost) == cost <= scan.budget
Spend(scan, cost)   == [scan EXCEPT !.budget = IF Affords(scan, cost) THEN @ - cost ELSE 0]
Resume(scan, at)    == [scan EXCEPT !.pos = at]
GiveUp(file, scan)  == [scan EXCEPT !.pos = Len(file), !.budget = 0]

\* The keys a cross-reference stream shares with a trailer.
StreamTrailer(d) == [key \in DOMAIN d \cap {"Root", "Info", "ID", "Encrypt"} |-> d[key]]

\* The object r, parsed at `at' on the file cut at `end', is accepted.
Record(scan, r, at, end, obj) ==
    [scan EXCEPT
        !.found  = Put(@, r.num, InUse(at, r.gen)),
        !.places = Put(@, r.num, at),
        !.streams = IF IsStream(obj) /\ TypeIs(obj, "ObjStm")
                    THEN Append(@, [num |-> r.num, at |-> at, end |-> end]) ELSE @,
        !.trailers = IF IsStream(obj) /\ TypeIs(obj, "XRef")
                     THEN Append(@, StreamTrailer(obj.d)) ELSE @,
        !.catalog = IF TypeIs(obj, "Catalog") THEN [at |-> at, r |-> r] ELSE @]

Parsed(file, start, r, end) ==
    LET slice == Indirect(file, start, end)
    IN  IF slice.ok THEN slice.r = r ELSE FALSE

\* The parse on a cut that is good: paid for, recorded, and the scan goes on
\* where the parser stopped.
Accept(file, scan, start, r, end) ==
    LET Of(obj) == Resume(Record(Spend(scan, end - start), r, start, end, obj.v),
                          IF obj.p > start + 1 THEN obj.p ELSE start + 1)
    IN  Of(Indirect(file, start, end))

\* For a mutant: the data of a stream is not skipped.
EndAtEndobj(file, after) ==
    LET endobj == FirstOf(file, after, Len(file), {Kw("endobj")}, Len(file) - 1)
    IN  [end |-> endobj + 1, cost |-> endobj - after]

\* The end of an object that holds `obj' or `endobj' in a string or in its
\* data: past its stream data, and what the search for `stream' costs.
ObjectEnd(file, after) ==
    LET len    == Len(file)
        endobj == FirstOf(file, after, len, {Kw("endobj")}, len)
        stream == FirstOf(file, after, endobj, {Kw("stream")}, endobj)
        stop   == FirstOf(file, stream + 1, len, {Kw("endstream")}, len)
        close  == FirstOf(file, stop + 1, len, {Kw("endobj")}, len)
        Past(at) == IF at < len THEN at + 1 ELSE len
    IN  IF stream < endobj THEN [end |-> Past(close), cost |-> stream + 1 - after]
        ELSE [end |-> Past(endobj), cost |-> endobj - after]

\* A tight cut first, at the first `endobj' or the next header; when it does
\* not parse, the cut that skips the data of a stream.
CandidateObject(file, scan, kw) ==
    LET after == kw + 1
        start == kw - 2
        r     == Ref(Lexeme(file, start).n, Lexeme(file, kw - 1).n)
        next  == NextHeaderStart(file, after)
        endobj == FirstOf(file, after, next, {Kw("endobj")}, next)
        tight  == IF endobj < next THEN endobj + 1 ELSE next
        \* The tight parse was paid for and failed.
        tried  == Spend(scan, tight - start)
        loose  == ObjectEnd(file, after)
        looked == Spend(tried, loose.cost)
    IN  IF ~HeaderBefore(file, kw) THEN Resume(scan, after)
        ELSE IF r.num = 0 \/ OnCommentLine(file, start) THEN Resume(scan, after)
        ELSE IF ~Affords(scan, tight - start) THEN GiveUp(file, scan)
        ELSE IF Parsed(file, start, r, tight) THEN Accept(file, scan, start, r, tight)
        ELSE IF ~Affords(tried, loose.cost) THEN GiveUp(file, tried)
        ELSE IF loose.end <= tight THEN Resume(looked, after)
        ELSE IF ~Affords(looked, loose.end - start) THEN GiveUp(file, looked)
        ELSE IF Parsed(file, start, r, loose.end)
             THEN Accept(file, looked, start, r, loose.end)
        ELSE Resume(Spend(looked, loose.end - start), after)

\* The dictionary after a `trailer' keyword, cut at the next keyword.
CandidateTrailer(file, scan, kw) ==
    LET after == kw + 1
        end   == FirstOf(file, after, Len(file),
                         ObjWords \cup {Kw("trailer"), Kw("startxref")}, Len(file))
        obj   == ParseObject(file, after, end)
        paid  == Spend(scan, end - kw)
    IN  IF ~Affords(scan, end - kw) THEN GiveUp(file, scan)
        ELSE IF ~obj.ok THEN Resume(paid, after)
        ELSE IF ~IsDict(obj.v) THEN Resume(paid, after)
        ELSE Resume([paid EXCEPT !.trailers =
                        Append(@, Without(obj.v.d, {"Prev", "XRefStm"}))],
                    Skip(file, obj.p, end))

Scanned(file, scan) ==
    \/ scan.budget = 0
    \/ /\ NextObj(file, scan.pos) = Len(file)
       /\ NextTrailer(file, scan.pos) = Len(file)

\* One keyword, whichever comes first.
ScanStep(file, scan) ==
    LET obj     == NextObj(file, scan.pos)
        trailer == NextTrailer(file, scan.pos)
    IN  IF obj < trailer THEN CandidateObject(file, scan, obj)
        ELSE CandidateTrailer(file, scan, trailer)

-----------------------------------------------------------------------------
(* The object streams found, and the trailer.                              *)

\* Is the object at `at' a catalog, read on the data cut at the next object
\* of the stream, or on all of it, once per stream?
CatalogProbe(data, objects, at, whole) ==
    LET later == {objects[i].at : i \in DOMAIN objects} \cap (at + 1) .. Len(data)
        cut   == IF later = {} THEN Len(data) ELSE Least(later)
        IsCatalog(r) == IF r.ok THEN IsDict(r.v) /\ TypeIs(r.v, "Catalog") ELSE FALSE
        Of(short) ==
            IF short.ok \/ ~whole \/ cut = Len(data)
            THEN [is |-> IsCatalog(short), whole |-> whole]
            ELSE [is |-> IsCatalog(ParseObject(data, at, Len(data))), whole |-> FALSE]
    IN  Of(ParseObject(data, at, cut))

RECURSIVE IndexObjects(_, _, _, _, _, _)
\* The objects of the stream s from the i-th on: each takes its number when
\* what was found for it is before the stream.
IndexObjects(s, stream, i, scan, probed, whole) ==
    LET inner == stream.objects[i]
        older == ~Has(scan.places, inner.num) \/ scan.places[inner.num] < s.at
        probes == /\ \E o \in 0 .. Len(stream.data) : Is(stream.data, o, Nm("Catalog"))
                  /\ scan.catalog.at < s.at
                  /\ inner.at \notin probed
        Next(known, seen, again) == IndexObjects(s, stream, i + 1, known, seen, again)
        taken == [scan EXCEPT !.found  = Put(@, inner.num, InStream(s.num, i - 1)),
                              !.places = Put(@, inner.num, s.at)]
        Probed(probe) ==
            Next(IF probe.is
                 THEN [taken EXCEPT !.catalog = [at |-> s.at, r |-> Ref(inner.num, 0)]]
                 ELSE taken,
                 probed \cup {inner.at}, probe.whole)
    IN  IF i > Len(stream.objects) THEN scan
        ELSE IF ~older THEN Next(scan, probed, whole)
        ELSE IF ~probes THEN Next(taken, probed, whole)
        ELSE Probed(CatalogProbe(stream.data, stream.objects, inner.at, whole))

\* The stream is read again on the cut it was accepted on; one that cannot
\* be is skipped.
IndexStream(file, scan, s) ==
    LET Of(stream) == IF stream.ok THEN IndexObjects(s, stream.v, 1, scan, {}, TRUE) ELSE scan
        In(obj)    == Of(ObjectStream(obj.v.d, obj.v.data, AsStored))
    IN  In(Indirect(file, s.at, s.end))

RECURSIVE IndexStreams(_, _, _)
IndexStreams(file, scan, streams) ==
    IF streams = << >> THEN scan
    ELSE IndexStreams(file, IndexStream(file, scan, Head(streams)), Tail(streams))

\* Every trailer found, later keys over earlier ones; /Root must lead to
\* something found, or the last catalog serves.
RebuiltTrailer(scan) ==
    LET keys   == UNION {DOMAIN scan.trailers[i] : i \in DOMAIN scan.trailers}
        last(key) == CHOOSE i \in DOMAIN scan.trailers :
                        /\ Has(scan.trailers[i], key)
                        /\ \A j \in i + 1 .. Len(scan.trailers) : ~Has(scan.trailers[j], key)
        merged == [key \in keys |-> scan.trailers[last(key)][key]]
        rootOk == /\ Has(merged, "Root")
                  /\ \/ IsDict(merged["Root"])
                     \/ IsRef(merged["Root"]) /\ Lists(scan.found, merged["Root"].num)
        rooted == IF rootOk THEN merged
                  ELSE IF scan.catalog # NoCatalog THEN Put(merged, "Root", scan.catalog.r)
                  ELSE Without(merged, {"Root"})
        size   == IF scan.found = NoEntries THEN 0
                  ELSE 1 + (CHOOSE n \in DOMAIN scan.found :
                                \A m \in DOMAIN scan.found : m <= n)
    IN  Put(rooted, "Size", Integer(size))
=============================================================================
