------------------------------- MODULE MCCore -------------------------------
EXTENDS CoreDocument

K(w, v) == <<Nm(w)>> \o v
R2(n) == <<Num(n), Num(0), Kw("R")>>
D(x) == <<Sym("<<")>> \o x \o <<Sym(">>")>>
O(n, x) == <<Num(n), Num(0), Kw("obj")>> \o x \o <<Kw("endobj")>>
Catalog == D(K("Type", <<Nm("Catalog")>>))
SX(d, data) == d \o <<Kw("stream")>> \o data \o <<Kw("endstream")>>
Ints(s) == <<Sym("[")>> \o [i \in DOMAIN s |-> Num(s[i])] \o <<Sym("]")>>
ObjStm(n, count, first, data) ==
    O(n, SX(D(K("Type", <<Nm("ObjStm")>>) \o K("N", <<Num(count)>>) \o K("First", <<Num(first)>>)), data))
CatalogDict == Dict(("Type" :> Name("Catalog")))
Tail0(at) == <<Kw("startxref"), Num(at), Comment, Eol>>

\* --- chains: obj 1 at 1, obj 2 at 9, again at 14, object stream 3 at 19
Body == <<Version(14)>> \o O(1, Catalog) \o O(2, <<Num(21)>>) \o O(2, <<Num(22)>>)
        \o ObjStm(3, 1, 2, <<Num(2), Num(0), Num(23)>>)
SmallBody == SubSeq(Body, 1, 19)
OptKey(key, at) == IF at = NoOffset THEN << >> ELSE K(key, <<Num(at)>>)
StmC(rows, prev) ==
    O(5, SX(D(K("Type", <<Nm("XRef")>>) \o K("W", Ints(<<1, 1, 1>>))
              \o K("Index", Ints(<<1, 3>>)) \o K("Root", R2(1)) \o OptKey("Prev", prev)), rows))
TableAt(row2, prev, stm) ==
    <<Kw("xref"), Num(0), Num(4), Num(0), Num(9), Kw("f"), Num(1), Num(0), Kw("n")>>
    \o row2 \o <<Num(19), Num(0), Kw("n"), Kw("trailer")>>
    \o D(K("Root", R2(1)) \o OptKey("Prev", prev) \o OptKey("XRefStm", stm))
Short(row2, prev, stm) ==
    <<Kw("xref"), Num(2), Num(1)>> \o row2 \o <<Kw("trailer")>>
    \o D(K("Root", R2(1)) \o OptKey("Prev", prev) \o OptKey("XRefStm", stm))
FreeRow == <<Num(0), Num(1), Kw("f")>>
ZeroRow == <<Num(0), Num(0), Kw("n")>>
RowAt(at) == <<Num(at), Num(0), Kw("n")>>
CRows(two) == <<RowOf(<<1, 1, 0>>), RowOf(two), RowOf(<<1, 19, 0>>)>>
AtC == Len(Body)
LenC(prev) == Len(StmC(CRows(<<0, 0, 0>>), prev))
Somewhere(x) == IF x = "none" THEN NoOffset ELSE 1
AtB(cprev) == AtC + LenC(Somewhere(cprev))
LenB(bp, bs) == Len(TableAt(FreeRow, Somewhere(bp), Somewhere(bs)))

ChainFile(c2, cprev, b2, bprev, bstm, a2, aprev, astm) ==
    LET atB == AtB(cprev)
        atA == atB + LenB(bprev, bstm)
        Place(x) == CASE x = "none" -> NoOffset [] x = "A" -> atA [] x = "B" -> atB
                      [] x = "C" -> AtC [] x = "far" -> 500 [] x = "negative" -> -2
    IN  Body \o StmC(CRows(c2), Place(cprev)) \o TableAt(b2, Place(bprev), Place(bstm))
        \o Short(a2, Place(aprev), Place(astm)) \o Tail0(atA)
Plain(f) == [file |-> f, password |-> "", opens |-> "unsaid", truth |-> NoKeys, copied |-> FALSE]
Chains ==
    {Plain(ChainFile(c2, cprev, b2, bprev, bstm, a2, aprev, astm)) :
        c2 \in {<<0, 0, 0>>, <<2, 3, 0>>, <<3, 0, 0>>}, cprev \in {"none", "A"},
        b2 \in {FreeRow, RowAt(9), ZeroRow}, bprev \in {"none", "A"}, bstm \in {"none", "C"},
        a2 \in {FreeRow, RowAt(14)}, aprev \in {"none", "B", "C", "far"}, astm \in {"none", "C", "B"}}

\* Refused for one number each: an index, the number of a stream, a /Prev.
\* The scan finds what the chain says nothing of.
StreamAt(f, num, at) == num :> Unsized(ParseObject(f, at + 3, Len(f)).v)
RefusedChain(f) ==
    [file |-> f, password |-> "", opens |-> "yes", copied |-> FALSE,
     truth |-> (1 :> CatalogDict) @@ (2 :> Integer(23)) @@ StreamAt(f, 3, 19) @@ StreamAt(f, 5, AtC)]
RefusedChains ==
    {RefusedChain(ChainFile(<<2, 3, MaxNum + 1>>, "none", RowAt(9), "none", "C", FreeRow, "B", "none")),
     RefusedChain(ChainFile(<<2, MaxNum + 1, 0>>, "none", RowAt(9), "none", "C", FreeRow, "B", "none")),
     RefusedChain(ChainFile(<<2, 3, 0>>, "none", RowAt(9), "none", "C", FreeRow, "negative", "none"))}

\* --- scans
P(lex, def) == [lex |-> lex, def |-> def]
NoDef == NoKeys
Junk == Kw("junk")
Pieces == {
    P(O(1, Catalog), 1 :> CatalogDict),
    P(SubSeq(O(2, <<Num(22)>>), 1, 4), 2 :> Integer(22)),
    P(ObjStm(3, 2, 4, <<Num(2), Num(0), Num(4), Num(1), Num(23), Num(24)>>),
      2 :> Integer(23) @@ 4 :> Integer(24) @@
      3 :> Stream(("Type" :> Name("ObjStm")) @@ ("N" :> Integer(2)) @@ ("First" :> Integer(4)),
                  <<Num(2), Num(0), Num(4), Num(1), Num(23), Num(24)>>)),
    P(O(5, SX(D(<< >>), <<Num(6), Num(0), Kw("obj"), Num(66), Kw("endobj")>>)),
      5 :> Stream(NoKeys, <<Num(6), Num(0), Kw("obj"), Num(66), Kw("endobj")>>)),
    P(<<Comment, Num(6), Num(0), Kw("obj"), Num(66), Eol>>, NoDef),
    P(O(0, <<Num(66)>>), NoDef),
    P(<<Kw("trailer")>> \o D(K("Root", R2(1)) \o K("Prev", <<Num(3)>>)), NoDef),
    P(<<Junk, Bad, Kw("endobj"), Num(7)>>, NoDef)}
Seqs == {<<a, b, c>> : a, b, c \in Pieces}
Knows(s) == s[3].def @@ s[2].def @@ s[1].def
Scans == {[file |-> <<Version(14)>> \o s[1].lex \o s[2].lex \o s[3].lex,
           password |-> "", opens |-> IF Knows(s) = NoDef THEN "no" ELSE "yes",
           truth |-> Knows(s), copied |-> FALSE] : s \in Seqs}
\* Objects that do not parse, each with two searches to the end of the
\* file, or to a `stream' there; many of them spend the budget before the
\* last object is reached.
RECURSIVE Repeat(_, _)
Repeat(s, n) == IF n = 0 THEN << >> ELSE s \o Repeat(s, n - 1)
Costly(times, tail, truth) ==
    [file |-> <<Version(14)>> \o O(1, Catalog)
              \o Repeat(<<Num(2), Num(0), Kw("obj"), Sym("[")>>, times) \o tail \o O(4, <<Num(44)>>),
     password |-> "", opens |-> "yes", truth |-> truth, copied |-> FALSE]
Tails == {<< >>, <<Kw("stream"), Kw("endstream")>>}
Costs == {Costly(6, tail, (1 :> CatalogDict) @@ (4 :> Integer(44))) : tail \in Tails}
         \cup {Costly(12, tail, 1 :> CatalogDict) : tail \in Tails}

\* --- copies
\* An object: number, generation, lexemes, and what they say.
Ob(n, g, lex, says) == [n |-> n, g |-> g, lex |-> <<Num(n), Num(g), Kw("obj")>> \o lex \o <<Kw("endobj")>>, says |-> says]
\* In the object stream s at index i.
In(n, s, i, says) == [n |-> n, s |-> s, i |-> i, says |-> says]
RECURSIVE Ahead(_, _)
Ahead(objs, i) == IF i = 1 THEN 1 ELSE Ahead(objs, i - 1) + Len(objs[i - 1].lex)
RECURSIVE Laid(_, _)
Laid(objs, i) == IF i > Len(objs) THEN << >> ELSE objs[i].lex \o Laid(objs, i + 1)
RECURSIVE Rows(_, _)
Rows(objs, i) == IF i > Len(objs) THEN << >>
    ELSE <<Num(objs[i].n), Num(1), Num(Ahead(objs, i)), Num(objs[i].g), Kw("n")>> \o Rows(objs, i + 1)
FreeRows == <<Num(0), Num(1), Num(3), Num(9), Kw("f"), Num(3), Num(1), Num(0), Num(5), Kw("f")>>
InRows(inner) == [i \in DOMAIN inner |-> RowOf(<<2, inner[i].s, inner[i].i>>)]
OutRows(objs) == [i \in DOMAIN objs |-> RowOf(<<1, Ahead(objs, i), objs[i].g>>)]
RECURSIVE Numbers(_)
Numbers(s) == IF s = << >> THEN << >> ELSE <<Head(s).n, 1>> \o Numbers(Tail(s))
XrefStm(n, objs, inner, trailer, at) ==
    O(n, SX(D(K("Type", <<Nm("XRef")>>) \o K("W", Ints(<<1, 2, 1>>))
              \o K("Index", Ints(<<3, 1>> \o Numbers(objs) \o Numbers(inner) \o <<n, 1>>)) \o trailer),
            <<RowOf(<<0, 0, 5>>)>> \o OutRows(objs) \o InRows(inner) \o <<RowOf(<<1, at, 0>>)>>))
Says(objs, inner) ==
    [n \in {objs[i].n : i \in DOMAIN objs} \cup {inner[i].n : i \in DOMAIN inner} |->
       IF \E i \in DOMAIN inner : inner[i].n = n THEN inner[CHOOSE i \in DOMAIN inner : inner[i].n = n].says
       ELSE objs[CHOOSE i \in DOMAIN objs : objs[i].n = n].says]
Known(bytes, truth) ==
    [file |-> bytes, password |-> "", opens |-> "yes", truth |-> truth, copied |-> TRUE]
AsTable(objs, trailer, off, junk) ==
    LET body == <<Version(14)>> \o Laid(objs, 1)
    IN  Known(junk \o body \o <<Kw("xref")>> \o FreeRows \o Rows(objs, 1) \o <<Kw("trailer")>> \o D(trailer)
                \o Tail0(Len(body) + off), Says(objs, << >>))
XrefSays(n, objs, inner, trailer, at) ==
    n :> Unsized(ParseObject(XrefStm(n, objs, inner, trailer, at), 3, Len(XrefStm(n, objs, inner, trailer, at))).v)
AsStream(n, objs, inner, trailer) ==
    LET body == <<Version(14)>> \o Laid(objs, 1)
        stm == XrefStm(n, objs, inner, trailer, Len(body))
    IN  Known(body \o stm \o Tail0(Len(body)),
              Says(objs, inner) @@ XrefSays(n, objs, inner, trailer, Len(body)))
AsBare(objs, trailer) ==
    Known(<<Version(14)>> \o Laid(objs, 1) \o <<Kw("trailer")>> \o D(trailer), Says(objs, << >>))

CatalogObj(g) == Ob(1, g, Catalog, CatalogDict)
Nested(at) == Ob(at, 0, D(K("A", <<Sym("[")>> \o R2(1) \o <<Kw("null"), Num(7), Sym("]")>>) \o K("S", <<Str(Text("s"))>>)),
    Dict(("A" :> Array(<<Ref(1, 0), Null, Integer(7)>>)) @@ ("S" :> String(Text("s")))))
Lookalike == <<Num(9), Num(0), Kw("obj"), Num(66), Kw("endobj")>>
Embeds(n, g, length) ==
    Ob(n, g, SX(D(K("Length", <<Num(length)>>)), Lookalike), Stream(NoKeys, Lookalike))
Simple == <<CatalogObj(0), Nested(2), Ob(4, 2, <<Num(44)>>, Integer(44)), Embeds(6, 0, 5)>>
SimpleTrailer == K("Root", R2(1)) \o K("Info", R2(2)) \o K("ID", <<Sym("["), Str(Text("id")), Str(Text("z")), Sym("]")>>)
Sparse == <<CatalogObj(0), Embeds(9, 0, 2)>>
Moved == <<CatalogObj(0), Ob(2, 0, <<Num(1)>>, Integer(1)), Embeds(6, 3, 4)>>
DirectRootTrailer == K("Root", D(K("Type", <<Nm("Catalog")>>) \o K("K", R2(2))))
CompressedData == <<Num(2), Num(0), Num(4), Num(1), Num(22), Sym("<<"), Nm("A"), Num(4), Num(0), Kw("R"), Sym(">>")>>
OStm == Ob(7, 0, SX(D(K("Type", <<Nm("ObjStm")>>) \o K("N", <<Num(2)>>) \o K("First", <<Num(4)>>)), CompressedData),
     Stream(("Type" :> Name("ObjStm")) @@ ("N" :> Integer(2)) @@ ("First" :> Integer(4)), CompressedData))
\* Two codings, the parameters of the second under a reference; and
\* parameters that cannot be read.
Coded(filters, parms, data) ==
    Ob(7, 0, SX(D(K("Type", <<Nm("ObjStm")>>) \o K("N", <<Num(2)>>) \o K("First", <<Num(4)>>)
                  \o K("Filter", filters) \o K("DecodeParms", parms)), data), NoKeys)
Said(ob) == [ob EXCEPT !.says = Unsized(ParseObject(ob.lex, 3, Len(ob.lex)).v)]
CodedStm == Said(Coded(<<Sym("[")>> \o <<Nm("ASCIIHexDecode"), Nm("FlateDecode")>> \o <<Sym("]")>>, R2(8),
                       <<Hexed(<<Packed(<<Predicted(CompressedData)>>)>>)>>))
ParmsObj == Ob(8, 0, D(K("Predictor", <<Num(12)>>)), Dict("Predictor" :> Integer(12)))
LostParms(parms) == Said(Coded(<<Nm("FlateDecode")>>, parms, <<Packed(CompressedData)>>))
BrokenObj == Ob(8, 0, <<Sym("[")>>, Unreadable)
LostInner == <<In(2, 7, 1, Unreadable), In(4, 7, 1, Unreadable)>>
Inner == <<In(2, 7, 1, Integer(22)), In(4, 7, 1, Dict("A" :> Ref(4, 0)))>>
Packs == <<CatalogObj(0), OStm, Embeds(6, 0, 5)>>

\* Ciphered: a file is a revision, its parameters and two passwords.
IdText == Text("id")
\* The permissions -4, as they are written in one file or another.
UnsignedP == (2 * PermissionSpan) - 4
BaseParams(revision, bits, cipher, metadata) ==
    [revision |-> revision, bits |-> bits, streams |-> cipher, strings |-> cipher,
     fileId |-> IdText, metadata |-> metadata, permissions |-> UnsignedP,
     owner |-> NoText, user |-> NoText, ownerKey |-> NoText, userKey |-> NoText]
LegacyEntries(base, owner, user) ==
    LET made == LegacyOwnerUser(base, owner, user)
        whole == [base EXCEPT !.owner = made.owner, !.user = made.user]
    IN  [params |-> whole, key |-> ComputeLegacyKey(whole, Clear(user))]
NewerKey == <<32, <<"random", 1>>>>
NewerEntries(base, owner, user) ==
    [params |-> Aes256Entries(base.revision, NewerKey, user, owner, <<"s1", "s2", "s3", "s4">>) @@ base,
     key |-> NewerKey]
S1(made, n, g, x) == EncryptWith(made.key, made.params.streams, Ref(n, g), x)
EncryptOf(p, permissions, more) ==
    D(K("R", <<Num(p.revision)>>) \o K("O", <<Str(p.owner)>>) \o K("U", <<Str(p.user)>>)
      \o K("P", <<Num(permissions)>>) \o more)
IdKey == K("ID", <<Sym("["), Str(IdText), Str(Text("z")), Sym("]")>>)

OldObjs(made) == <<CatalogObj(0),
    Ob(2, 0, D(K("S", <<Str(S1(made, 2, 0, Text("s")))>>)), Dict("S" :> String(Text("s")))),
    Ob(4, 2, SX(D(<< >>), <<S1(made, 4, 2, <<Num(44)>>)>>), Stream(NoKeys, <<Num(44)>>))>>
OldTrailerP(made, permissions, more) ==
    K("Root", R2(1)) \o IdKey \o K("Encrypt", EncryptOf(made.params, permissions, more))
OldTrailer(made, more) == OldTrailerP(made, -4, more)
Length128 == K("Length", <<Num(128)>>)
Rc4File == LegacyEntries(BaseParams(3, 128, "Rc4", TRUE), "owner", "")
Rc4Short == LegacyEntries(BaseParams(2, 40, "Rc4", TRUE), "", "user")
Aes256File == NewerEntries(BaseParams(6, 256, "Aes256", TRUE), "owner", "user")

Filter(name, m) == K(name, D(K("CFM", <<Nm(m)>>)))
Filtering(cf, name) == K("V", <<Num(4)>>) \o K("CF", D(cf)) \o K("StmF", <<Nm(name)>>) \o K("StrF", <<Nm(name)>>)
WrappedKeys(p) == K("OE", <<Str(p.ownerKey)>>) \o K("UE", <<Str(p.userKey)>>)
NewMade == LegacyEntries(BaseParams(4, 128, "Aes128", FALSE), "owner", "user")
EncryptNew == EncryptOf(NewMade.params, UnsignedP, K("Filter", <<Nm("Standard")>>) \o K("EncryptMetadata", <<Kw("false")>>)
    \o Filtering(Filter("Std", "AESV2") \o Filter("Alt", "V2"), "Std"))
EncryptSays == ParseObject(EncryptNew, 0, Len(EncryptNew)).v
NewStm == Ob(7, 0, SX(D(K("Type", <<Nm("ObjStm")>>) \o K("N", <<Num(2)>>) \o K("First", <<Num(4)>>)),
                          <<S1(NewMade, 7, 0, CompressedData)>>),
     Stream(("Type" :> Name("ObjStm")) @@ ("N" :> Integer(2)) @@ ("First" :> Integer(4)), CompressedData))
NewObjs == <<CatalogObj(0), NewStm,
    Ob(5, 0, EncryptNew, EncryptSays),
    Ob(6, 0, SX(D(K("Type", <<Nm("Metadata")>>)), <<Num(6)>>), Stream("Type" :> Name("Metadata"), <<Num(6)>>)),
    Ob(8, 0, SX(D(K("Filter", <<Nm("Crypt")>>) \o K("DecodeParms", D(K("Name", <<Nm("Alt")>>)))
                    \o K("S", <<Str(S1(NewMade, 8, 0, Text("s")))>>)),
                <<EncryptWith(NewMade.key, "Rc4", Ref(8, 0), <<Num(8)>>)>>), Stream("S" :> String(Text("s")), <<Num(8)>>))>>
NewTrailer == K("Root", R2(1)) \o K("Encrypt", R2(5)) \o IdKey

With(s, password) == [s EXCEPT !.password = password]
Without1(s, password) == [s EXCEPT !.password = password, !.opens = "no", !.copied = FALSE]
Rc4Table == AsTable(OldObjs(Rc4File), OldTrailer(Rc4File, Length128), 0, << >>)
\* The same permissions again but for a bit that does not exist.
TooWide(p) == Without1(AsTable(OldObjs(Rc4File), OldTrailerP(Rc4File, p, Length128), 0, << >>), "")
Rc4Bare  == AsBare(OldObjs(Rc4Short), OldTrailer(Rc4Short, << >>))
AesStream == AsStream(9, NewObjs, Inner, NewTrailer)
Aes256Table == AsTable(OldObjs(Aes256File),
    OldTrailer(Aes256File, WrappedKeys(Aes256File.params) \o Filtering(Filter("Std", "AESV3"), "Std")), 0, << >>)
Ciphered == {TooWide(UnsignedP + (2 * PermissionSpan)), TooWide(-4 - (2 * PermissionSpan)), Rc4Table, With(Rc4Table, "owner"), Without1(Rc4Table, "user"),
    With(Rc4Bare, "user"), Without1(Rc4Bare, ""),
    With(AesStream, "user"), With(AesStream, "owner"), Without1(AesStream, ""),
    With(Aes256Table, "user"), With(Aes256Table, "owner"), Without1(Aes256Table, "")}

Copies == {
    AsTable(Simple, SimpleTrailer, 0, << >>),
    AsTable(Simple, SimpleTrailer, 2, << >>),
    AsTable(Simple, SimpleTrailer, 0, <<Junk, Comment, Eol>>),
    AsTable(Sparse, K("Root", R2(1)) \o K("ID", <<Sym("["), Str(NoText), Sym("]")>>), 0, << >>),
    AsTable(Moved, DirectRootTrailer \o K("Info", R2(4)), 0, << >>),
    AsBare(Simple, SimpleTrailer),
    AsStream(9, Packs, Inner, K("Root", R2(1))),
    AsStream(9, <<CatalogObj(0), CodedStm, ParmsObj>>, Inner, K("Root", R2(1)))}
    \cup {AsStream(9, <<CatalogObj(0), LostParms(parms), BrokenObj>>, LostInner, K("Root", R2(1))) :
             parms \in {R2(8), <<Sym("[")>> \o R2(8) \o <<Sym("]")>>}}
LockedFile == [AsTable(OldObjs(Rc4File), K("Encrypt", D(<< >>)) \o K("Root", R2(1)), 0, << >>)
              EXCEPT !.opens = "no", !.copied = FALSE]
MCSources == Chains \cup RefusedChains \cup Scans \cup Costs \cup {LockedFile} \cup Copies \cup Ciphered
=============================================================================
