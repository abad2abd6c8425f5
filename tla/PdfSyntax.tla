------------------------------ MODULE PdfSyntax ------------------------------
(***************************************************************************)
(* The lexer and the object parser of fyp-core (lexer.rs, parser.rs,       *)
(* object.rs), over a file of lexemes.                                     *)
(*                                                                         *)
(* A file is a sequence of lexemes and an offset is the number of lexemes  *)
(* before a place, so the first one is at offset 0. A lexeme is what a raw *)
(* search for a keyword may stop at: `obj' inside the data of a stream or  *)
(* inside a comment is a lexeme like another, which the lexer skips and    *)
(* the scan of Reconstruction sees. The spelling of numbers, names and     *)
(* strings is left out.                                                    *)
(***************************************************************************)
EXTENDS Integers, Sequences, FiniteSets

CONSTANTS
    MaxDepth,       \* MAX_DEPTH of parser.rs
    MaxNum, MaxGen  \* the largest object number and generation a type holds

\* The lexemes.
Num(n)  == [k |-> "int", n |-> n]
Kw(w)   == [k |-> "kw", w |-> w]
Nm(w)   == [k |-> "name", w |-> w]
Str(x)  == [k |-> "str", text |-> x]
Text(s) == [k |-> "text", s |-> s]         \* what a string says
NoText  == Text("")
Sym(s)  == [k |-> "sym", s |-> s]          \* [ ] << >>
Version(v) == [k |-> "version", v |-> v]   \* the header `%PDF-x.y', a comment
Comment == [k |-> "comment"]               \* a `%'
Eol     == [k |-> "eol"]                   \* the end of the line of a comment
Bad     == [k |-> "bad"]                   \* bytes the lexer refuses
RowOf(fields) == [k |-> "row", f |-> fields]      \* a row of a cross-reference stream
Packed(file)  == [k |-> "packed", x |-> file]     \* the Flate coding of a file
Lexeme(file, at) == file[at + 1]
Is(file, at, lexeme) == /\ at < Len(file)
                        /\ file[at + 1].k = lexeme.k
                        /\ file[at + 1] = lexeme

\* The objects.
Null       == [t |-> "null"]
Boolean(b) == [t |-> "bool", b |-> b]
Integer(n) == [t |-> "integer", n |-> n]
Name(w)    == [t |-> "name", w |-> w]
String(x)  == [t |-> "string", text |-> x]
Array(a)   == [t |-> "array", items |-> a]
Dict(d)    == [t |-> "dict", d |-> d]
Stream(d, data) == [t |-> "stream", d |-> d, data |-> data]
Ref(num, gen)   == [t |-> "ref", num |-> num, gen |-> gen]
NoKeys == [key \in {} |-> Null]
Has(d, key)     == key \in DOMAIN d
IsInteger(obj)  == obj.t = "integer"
\* A value that is a non-negative integer, and the keys that hold one.
IsSize(obj)     == IsInteger(obj) /\ obj.n >= 0
HasSize(d, key) == Has(d, key) /\ IsSize(d[key])
HasName(d, key, w) == Has(d, key) /\ d[key].t = "name" /\ d[key].w = w
Put(d, key, value) == [k \in DOMAIN d \cup {key} |-> IF k = key THEN value ELSE d[k]]
Without(d, keys)   == [k \in DOMAIN d \ keys |-> d[k]]

Fail == [ok |-> FALSE]
Got(v, p) == [ok |-> TRUE, v |-> v, p |-> p]

-----------------------------------------------------------------------------
(* The lexer, on the slice of the file that stops before `end'.            *)

\* The offsets from `at' on that hold one of the lexemes.
Occurrences(file, at, end, lexemes) ==
    {o \in at .. end - 1 : file[o + 1].k \in {l.k : l \in lexemes} /\ file[o + 1] \in lexemes}

Least(S) == CHOOSE x \in S : \A y \in S : x <= y
\* The first of them, or `otherwise'.
FirstOf(file, at, end, lexemes, otherwise) ==
    LET found == Occurrences(file, at, end, lexemes)
    IN  IF found = {} THEN otherwise ELSE Least(found)

RECURSIVE Skip(_, _, _)
Skip(file, at, end) ==
    IF at >= end THEN end
    ELSE IF file[at + 1].k \in {"eol", "version", "comment"}
         THEN Skip(file, IF file[at + 1].k # "comment" THEN at + 1
                         ELSE FirstOf(file, at, end, {Eol}, end), end)
    ELSE at

EofToken == [k |-> "eof"]
\* The next token and the place after it; bytes that are no token fail.
Next1(file, at, end) ==
    LET From(p) == IF p >= end THEN Got(EofToken, end)
                   ELSE IF file[p + 1].k = "bad" THEN Fail
                   ELSE Got(file[p + 1], p + 1)
    IN  From(Skip(file, at, end))

IsTok(r, token) == r.ok /\ r.v.k = token.k /\ r.v = token
IsInt(r) == r.ok /\ r.v.k = "int"

-----------------------------------------------------------------------------
(* The parser.                                                             *)

\* After an integer: `n g R', or the integer alone. The two tokens read
\* ahead fail the object when they cannot be read at all.
MaybeReference(file, n, at, end) ==
    LET Closed(gen, third) ==
            IF ~third.ok THEN Fail
            ELSE IF ~IsTok(third, Kw("R")) THEN Got(Integer(n), at)
            ELSE IF n \in 0 .. MaxNum /\ gen \in 0 .. MaxGen THEN Got(Ref(n, gen), third.p)
            ELSE Fail
        Then(second) ==
            IF ~second.ok THEN Fail
            ELSE IF ~IsInt(second) THEN Got(Integer(n), at)
            ELSE Closed(second.v.n, Next1(file, second.p, end))
    IN  Then(Next1(file, at, end))

\* The data of a stream: its /Length is trusted only when `endstream'
\* follows it; otherwise the data stops at the first `endstream'.
StreamBody(file, d, at, end) ==
    LET declared == IF HasSize(d, "Length") THEN at + d["Length"].n ELSE end
        trusted  == declared < end /\ Is(file, declared, Kw("endstream"))
        stop     == IF trusted THEN declared
                    ELSE FirstOf(file, at, end, {Kw("endstream")}, end)
    IN  IF stop >= end THEN Fail
        ELSE Got(Stream(d, SubSeq(file, at + 1, stop)), stop + 1)

\* A dictionary, or the stream whose data follows it.
DictOrStream(file, body, end) ==
    LET Closed(word) ==
            IF ~word.ok THEN Fail
            ELSE IF IsTok(word, Kw("stream")) THEN StreamBody(file, body.v, word.p, end)
            ELSE Got(Dict(body.v), body.p)
    IN  IF body.ok THEN Closed(Next1(file, body.p, end)) ELSE Fail

RECURSIVE ParseFrom(_, _, _, _), Items(_, _, _, _, _), DictBody(_, _, _, _, _)
\* The object that starts with the token.
ParseFrom(file, tok, end, depth) ==
    IF depth > MaxDepth \/ ~tok.ok THEN Fail
    ELSE CASE tok.v.k = "int"  -> MaybeReference(file, tok.v.n, tok.p, end)
           [] tok.v.k = "name" -> Got(Name(tok.v.w), tok.p)
           [] tok.v.k = "str"  -> Got(String(tok.v.text), tok.p)
           [] IsTok(tok, Kw("null")) -> Got(Null, tok.p)
           [] IsTok(tok, Kw("true")) -> Got(Boolean(TRUE), tok.p)
           [] IsTok(tok, Kw("false")) -> Got(Boolean(FALSE), tok.p)
           [] IsTok(tok, Sym("[")) ->
                  Items(file, Next1(file, tok.p, end), end, depth, << >>)
           [] IsTok(tok, Sym("<<")) ->
                  DictOrStream(file, DictBody(file, Next1(file, tok.p, end), end, depth, NoKeys),
                               end)
           [] OTHER -> Fail

Items(file, tok, end, depth, items) ==
    LET More(item) ==
            IF item.ok THEN Items(file, Next1(file, item.p, end), end, depth, Append(items, item.v))
            ELSE Fail
    IN  IF ~tok.ok THEN Fail
        ELSE IF tok.v.k = "eof" THEN Fail
        ELSE IF IsTok(tok, Sym("]")) THEN Got(Array(items), tok.p)
        ELSE More(ParseFrom(file, tok, end, depth + 1))

\* A token that is no key is skipped; the last of two equal keys stays.
DictBody(file, tok, end, depth, d) ==
    LET On(p, keys) == DictBody(file, Next1(file, p, end), end, depth, keys)
        More(key, value) == IF value.ok THEN On(value.p, Put(d, key, value.v)) ELSE Fail
    IN  IF ~tok.ok THEN Fail
        ELSE IF tok.v.k = "eof" THEN Fail
        ELSE IF IsTok(tok, Sym(">>")) THEN Got(d, tok.p)
        ELSE IF tok.v.k # "name" THEN On(tok.p, d)
        ELSE More(tok.v.w, ParseFrom(file, Next1(file, tok.p, end), end, depth + 1))

ParseObject(file, at, end) == ParseFrom(file, Next1(file, at, end), end, 0)

\* `n g obj': the header alone.
Header(file, at, end) ==
    LET Of(num, gen, word) ==
            IF IsTok(word, Kw("obj")) /\ num \in 0 .. MaxNum /\ gen \in 0 .. MaxGen
            THEN Got(Ref(num, gen), word.p) ELSE Fail
        Second(num, gen) ==
            IF IsInt(gen) THEN Of(num, gen.v.n, Next1(file, gen.p, end)) ELSE Fail
        First(num) == IF IsInt(num) THEN Second(num.v.n, Next1(file, num.p, end)) ELSE Fail
    IN  First(Next1(file, at, end))

\* The object r, and the `endobj' that may be missing.
WithBody(file, r, body, end) ==
    LET Ended(word) ==
            IF ~word.ok THEN Fail
            ELSE [ok |-> TRUE, r |-> r, v |-> body.v,
                  p |-> IF IsTok(word, Kw("endobj")) THEN word.p ELSE Skip(file, body.p, end)]
    IN  IF body.ok THEN Ended(Next1(file, body.p, end)) ELSE Fail
Headed(file, header, end) ==
    IF header.ok THEN WithBody(file, header.v, ParseObject(file, header.p, end), end) ELSE Fail
\* `n g obj', and what follows.
Indirect(file, at, end) == Headed(file, Header(file, at, end), end)

IsDict(obj) == obj.t = "dict"
IsStream(obj) == obj.t = "stream"
IsRef(obj) == obj.t = "ref"
\* What an object leads to, when R is what each reference does.
References == [t : {"ref"}, num : Nat, gen : Nat]
Followed(R, obj) == IF IsRef(obj) THEN R[obj] ELSE obj
TypeIs(obj, w) == obj.t \in {"dict", "stream"} /\ HasName(obj.d, "Type", w)
=============================================================================
