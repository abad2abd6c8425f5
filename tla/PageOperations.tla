--------------------------- MODULE PageOperations ---------------------------
(***************************************************************************)
(* Page operations (ops.rs): merge, extract, delete, rotate and split      *)
(* build a fresh document out of the pages they keep. A job goes through   *)
(* the stages of Builder::build, the copy of queued objects one at a time. *)
(*                                                                         *)
(* A document is [objects, trailer]; objects are those of PdfSyntax, under *)
(* their numbers. An output object is known by its place: where the object *)
(* it copies is, or what the builder makes of it; the numbers alloc gives  *)
(* out are left out.                                                       *)
(***************************************************************************)
EXTENDS PdfSyntax

CONSTANTS
    Jobs,       \* [op, docs, selections, by]: by is an angle, or the length of the parts
    AngleLimit  \* the first angle that does not fit its signed number of 32 bits

VARIABLES
    job,        \* the operation asked for
    stage,      \* pages, catalog, outlines, link, forms, drain, names, last, clean, done, failed
    part,       \* the part being built: a split has several
    builder,    \* what Builder holds: map, dropped, queue, out
    trailer,    \* of the part being built
    results     \* the parts built

opsVars == <<job, stage, part, builder, trailer, results>>

Inheritable == {"Resources", "MediaBox", "CropBox", "Rotate"}
Field(d, key) == IF Has(d, key) THEN d[key] ELSE Null

\* Document::get and resolve: null for what is not listed; an object that
\* cannot be read has type error.
GetObject(doc, num) == IF Has(doc.objects, num) THEN doc.objects[num] ELSE Null
Follow(doc, obj) == IF IsRef(obj) THEN GetObject(doc, obj.num) ELSE obj
IsError(obj) == obj.t = "error"
CatalogOf(doc) == Follow(doc, doc.trailer["Root"]).d

-----------------------------------------------------------------------------
(* Reading the pages.                                                      *)

DirectPage == 0     \* a page written in /Kids itself has no reference
Page(num, d, attrs) ==
    [num |-> num,
     d |-> [key \in (DOMAIN d \cup DOMAIN attrs) \ {"Parent"} |->
               IF Has(d, key) THEN d[key] ELSE attrs[key]]]
\* For a mutant: the farthest ancestor wins.
InheritFarthest(attrs, d) == [key \in DOMAIN attrs \cup (DOMAIN d \cap Inheritable) |->
    IF Has(attrs, key) THEN attrs[key] ELSE d[key]]
Inherit(attrs, d) ==
    [key \in DOMAIN attrs \cup (DOMAIN d \cap Inheritable) |->
        IF Has(d, key) THEN d[key] ELSE attrs[key]]

RECURSIVE Walk(_, _, _, _, _)
\* The pages in reading order and the references of the nodes: a node
\* reached twice is taken once, what is no dictionary is skipped.
Walk(doc, stack, visited, pages, nodes) ==
    LET node == Head(stack).node
        num  == IF IsRef(node) THEN node.num ELSE DirectPage
        On(more, found, inner) ==
            Walk(doc, more \o Tail(stack), visited \cup {num}, found, inner)
        Below(kids, attrs) ==
            IF IsError(kids) THEN Fail
            ELSE On(IF kids.t = "array"
                    THEN [i \in DOMAIN kids.items |-> [node |-> kids.items[i], attrs |-> attrs]]
                    ELSE << >>, pages, nodes \cup {num})
        Of(d, attrs) ==
            IF Has(d, "Kids") THEN Below(Follow(doc, d["Kids"]), attrs)
            ELSE On(<< >>, Append(pages, Page(num, d, attrs)), nodes)
        At(obj) ==
            IF IsError(obj) THEN Fail
            ELSE IF ~IsDict(obj) THEN On(<< >>, pages, nodes)
            ELSE Of(obj.d, Inherit(Head(stack).attrs, obj.d))
    IN  IF stack = << >> THEN IF pages = << >> THEN Fail ELSE Got(pages, nodes)
        ELSE IF IsRef(node) /\ num \in visited THEN On(<< >>, pages, nodes)
        ELSE At(Follow(doc, node))

PagesOf(doc) ==
    IF ~Has(CatalogOf(doc), "Pages") THEN Fail
    ELSE Walk(doc, <<[node |-> CatalogOf(doc)["Pages"], attrs |-> NoKeys]>>, {}, << >>, {})

-----------------------------------------------------------------------------
(* What is kept: pairs of a document and a page of it, from 1.             *)

Whole(i, count) == [k \in 1 .. count |-> <<i, k>>]
InBounds(indices, count) == \A k \in DOMAIN indices : indices[k] \in 1 .. count
Once(indices) == \A j, k \in DOMAIN indices : indices[j] = indices[k] => j = k
Chosen(indices) == {indices[k] : k \in DOMAIN indices}

\* merge_selected: everything, or the pages named, in that order.
RECURSIVE Taken(_, _, _)
Taken(selections, counts, i) ==
    IF i > Len(selections) THEN << >>
    ELSE (IF selections[i].all THEN Whole(i, counts[i])
          ELSE [k \in DOMAIN selections[i].pages |-> <<i, selections[i].pages[k]>>])
         \o Taken(selections, counts, i + 1)

RECURSIVE RangesEvery(_, _, _)
\* Ranges of `every' pages from `start' on, the last one shorter.
RangesEvery(start, count, every) ==
    IF every = 0 \/ start > count THEN << >>
    ELSE LET end == IF start + every - 1 < count THEN start + every - 1 ELSE count
         IN  <<[k \in 1 .. end - start + 1 |-> start + k - 1]>>
               \o RangesEvery(end + 1, count, every)

\* The ranges a split is given, or those of `by' pages each.
CoversAll(j) == \E i \in DOMAIN j.selections : j.selections[i].all
Ranges(j, count) ==
    IF CoversAll(j) THEN RangesEvery(1, count, j.by)
    ELSE [i \in DOMAIN j.selections |-> j.selections[i].pages]

\* The parts an operation builds, each the pages it keeps, or Fail.
Parts(j, counts) ==
    LET indices == j.selections[1].pages
        ranges  == Ranges(j, counts[1])
        Remain(k) == k \notin Chosen(indices)
        Of(s)   == [k \in DOMAIN s |-> <<1, s[k]>>]
    IN  CASE j.op = "merge" ->
               IF \/ Len(j.selections) # Len(j.docs)
                  \/ \E i \in DOMAIN j.selections :
                       ~j.selections[i].all /\ ~InBounds(j.selections[i].pages, counts[i])
                  \/ Taken(j.selections, counts, 1) = << >>
               THEN Fail ELSE Got(<<Taken(j.selections, counts, 1)>>, 0)
          [] j.op = "extract" ->
               IF indices = << >> \/ ~InBounds(indices, counts[1]) \/ ~Once(indices)
               THEN Fail ELSE Got(<<Of(indices)>>, 0)
          [] j.op = "delete" ->
               IF \/ ~InBounds(indices, counts[1]) \/ ~Once(indices)
                  \/ Chosen(indices) = 1 .. counts[1]
               THEN Fail
               ELSE Got(<<SelectSeq(Whole(1, counts[1]), LAMBDA p : Remain(p[2]))>>, 0)
          [] j.op = "rotate" ->
               IF ~InBounds(indices, counts[1]) \/ ~Once(indices) \/ j.by % 90 # 0
               THEN Fail ELSE Got(<<Whole(1, counts[1])>>, 0)
          [] j.op = "split" ->
               IF \E k \in DOMAIN ranges : ranges[k] = << >> \/ ~InBounds(ranges[k], counts[1])
               THEN Fail ELSE Got([k \in DOMAIN ranges |-> Of(ranges[k])], 0)

-----------------------------------------------------------------------------
(* Copying.                                                                *)

\* Places of the output: the copy of object num of document i, and what the
\* builder makes.
CopyOf(i, num) == <<i, num>>
PagesRoot  == <<0, 0>>
PageAt(k)  == <<0, k>>
CatalogAt  == <<0, -1>>
OutlinesAt == <<0, -2>>
FormAt     == <<0, -3>>
To(place)  == [t |-> "to", place |-> place]

\* For a mutant: whatever is not mapped is copied.
MapAnything(b, i, num) == To(IF Has(b.map, <<i, num>>) THEN b.map[<<i, num>>] ELSE CopyOf(i, num))

\* map_ref: a page not kept and a node of the tree become null.
MapRef(b, i, num) ==
    IF Has(b.map, <<i, num>>) THEN To(b.map[<<i, num>>])
    ELSE IF <<i, num>> \in b.dropped THEN Null
    ELSE To(CopyOf(i, num))

RECURSIVE Copy(_, _, _), CopyDict(_, _, _), Places(_)
Copy(b, i, obj) ==
    CASE obj.t = "ref"    -> MapRef(b, i, obj.num)
      [] obj.t = "array"  -> Array([k \in DOMAIN obj.items |-> Copy(b, i, obj.items[k])])
      [] obj.t = "dict"   -> Dict(CopyDict(b, i, obj.d))
      [] obj.t = "stream" -> Stream(CopyDict(b, i, Without(obj.d, {"Length"})), obj.data)
      [] OTHER -> obj
CopyDict(b, i, d) == [key \in DOMAIN d |-> Copy(b, i, d[key])]

\* The places an output object names.
Places(obj) ==
    CASE obj.t = "to"    -> {obj.place}
      [] obj.t = "array" -> UNION {Places(obj.items[k]) : k \in DOMAIN obj.items}
      [] obj.t \in {"dict", "stream"} -> UNION {Places(obj.d[key]) : key \in DOMAIN obj.d}
      [] OTHER -> {}

\* An object goes to its place, and the copies it names are queued.
Queued(b, objs) ==
    {p \in UNION {Places(obj) : obj \in objs} : p[1] # 0 /\ p \notin DOMAIN b.out}
Write(b, place, obj) ==
    [b EXCEPT !.out = Put(@, place, obj), !.queue = (@ \cup Queued(b, {obj})) \ {place}]

-----------------------------------------------------------------------------
(* The stages.                                                             *)

Docs == DOMAIN job.docs
Walked == [i \in Docs |-> PagesOf(job.docs[i])]
Counts(walked) == [i \in DOMAIN walked |-> Len(walked[i].v)]
PartsOf(walked) == Parts(job, Counts(walked))

\* Builder::new, then the numbers of the kept pages: a page kept twice is
\* known by its last copy.
NewBuilder(walked, keep) ==
    LET pageOf(k) == walked[keep[k][1]].v[keep[k][2]]
        places == {k \in DOMAIN keep : pageOf(k).num # DirectPage}
        kept   == {<<keep[k][1], pageOf(k).num>> : k \in places}
        copies(p) == {k \in places : <<keep[k][1], pageOf(k).num>> = p}
        Last(S) == CHOOSE k \in S : \A other \in S : other <= k
        nodes(i) == ({walked[i].v[k].num : k \in DOMAIN walked[i].v} \cup walked[i].p)
                       \ {DirectPage}
    IN  [map |-> [p \in kept |-> PageAt(Last(copies(p)))],
         dropped |-> UNION {{<<i, num>> : num \in nodes(i)} : i \in DOMAIN walked} \ kept,
         queue |-> {}, out |-> NoKeys]

IsAngle(n) == n \in -AngleLimit .. AngleLimit - 1
\* The sum of two angles, in a build that does not check for overflow.
Wrapped(n) == ((n + AngleLimit) % (2 * AngleLimit)) - AngleLimit

\* rotate: added to what the page has, negative or not, and brought into
\* 0 .. 359; a number too large for an angle counts as none, and zero is
\* left out.
Turned(d, degrees) ==
    LET current == IF ~IsInteger(Field(d, "Rotate")) THEN 0
                   ELSE IF IsAngle(d["Rotate"].n) THEN d["Rotate"].n ELSE 0
        turned  == Wrapped(current + degrees) % 360
    IN  IF turned = 0 THEN Without(d, {"Rotate"}) ELSE Put(d, "Rotate", Integer(turned))

OutputPage(b, page, i, turns) ==
    LET d == Put(Put(CopyDict(b, i, page.d), "Type", Name("Page")), "Parent", To(PagesRoot))
    IN  Dict(IF turns THEN Turned(d, job.by) ELSE d)

RECURSIVE WritePages(_, _, _, _)
WritePages(b, walked, keep, k) ==
    IF k > Len(keep) THEN b
    ELSE LET page == walked[keep[k][1]].v[keep[k][2]]
             turns == job.op = "rotate" /\ k \in Chosen(job.selections[1].pages)
         IN  WritePages(Write(b, PageAt(k), OutputPage(b, page, keep[k][1], turns)),
                        walked, keep, k + 1)

Fails == stage' = "failed" /\ UNCHANGED <<job, part, builder, trailer, results>>

Begin ==
    /\ stage = "pages"
    /\ \E walked \in {Walked} : \E parts \in {PartsOf(walked)} :
           LET kids(keep) == Dict([Type |-> Name("Pages"), Count |-> Integer(Len(keep)),
                                   Kids |-> Array([k \in DOMAIN keep |-> To(PageAt(k))])])
               With(keep) ==
                   Write(WritePages(NewBuilder(walked, keep), walked, keep, 1), PagesRoot,
                         kids(keep))
           IN  IF \E i \in Docs : ~walked[i].ok THEN Fails
               ELSE IF ~parts.ok THEN Fails
               ELSE IF parts.v = << >>
                    THEN stage' = "done" /\ UNCHANGED <<job, part, builder, trailer, results>>
               ELSE /\ builder' = With(parts.v[part])
                    /\ stage' = "catalog"
                    /\ UNCHANGED <<job, part, trailer, results>>

\* The catalog of the first document, its /Pages replaced, and the trailer.
WriteCatalog ==
    /\ stage = "catalog"
    /\ LET d    == CopyDict(builder, 1, CatalogOf(job.docs[1]))
           b    == Write(builder, CatalogAt, Dict(Put(d, "Pages", To(PagesRoot))))
           info == Copy(b, 1, Field(job.docs[1].trailer, "Info"))
       IN  /\ trailer' = [key \in {"Root"} \cup {k \in {"Info"} : info.t = "to"} |->
                             IF key = "Root" THEN To(CatalogAt) ELSE info]
           /\ builder' = [b EXCEPT !.queue = @ \cup Queued(b, {info})]
           /\ stage' = IF Len(job.docs) > 1 THEN "outlines" ELSE "drain"
    /\ UNCHANGED <<job, part, results>>

\* One queued object is copied; one that cannot be read becomes null.
Drain ==
    /\ stage \in {"link", "drain", "last"} /\ builder.queue # {}
    /\ LET place == CHOOSE p \in builder.queue : TRUE
           obj   == GetObject(job.docs[place[1]], place[2])
       IN  builder' = Write(builder, place,
                            IF IsError(obj) THEN Null ELSE Copy(builder, place[1], obj))
    /\ UNCHANGED <<job, stage, part, trailer, results>>

-----------------------------------------------------------------------------
(* Outlines.                                                               *)

OutlinesOf(i) == Field(CatalogOf(job.docs[i]), "Outlines")
Outlined == {i \in Docs : Has(CatalogOf(job.docs[i]), "Outlines")}
RootDict(i) == Follow(job.docs[i], OutlinesOf(i))

RECURSIVE Chain(_, _, _)
\* The items from num on, along /Next.
Chain(d, num, seen) ==
    LET item == GetObject(d, num)
        next == IF IsDict(item) THEN Field(item.d, "Next") ELSE Null
    IN  IF num \in seen THEN << >>
        ELSE <<num>> \o (IF IsRef(next) THEN Chain(d, next.num, seen \cup {num}) ELSE << >>)

\* The documents whose outline root names its first and last items.
Chained ==
    {i \in Outlined : /\ IsDict(RootDict(i))
                      /\ \A key \in {"First", "Last"} : IsRef(Field(RootDict(i).d, key))}
ChainOfDoc(i) == Chain(job.docs[i], RootDict(i).d["First"].num, {})

\* The old roots stand for the new one from here on, and the items are
\* queued.
TakeOutlines ==
    /\ stage = "outlines"
    /\ LET roots == {<<i, OutlinesOf(i).num>> : i \in {j \in Outlined : IsRef(OutlinesOf(j))}}
           b == [builder EXCEPT !.map =
                    [p \in DOMAIN @ \cup roots |-> IF p \in roots THEN OutlinesAt ELSE @[p]]]
           items == {MapRef(b, i, num) : <<i, num>> \in UNION
                        {{<<i, num>> : num \in Chosen(ChainOfDoc(i)) \cup {RootDict(i).d["Last"].num}} :
                            i \in Chained}}
       IN  IF \/ \E i \in Outlined : IsError(RootDict(i))
              \/ \E i \in Chained : \E num \in Chosen(ChainOfDoc(i)) :
                    IsError(GetObject(job.docs[i], num))
           THEN Fails
           ELSE /\ builder' = [b EXCEPT !.queue = @ \cup Queued(b, items)]
                /\ stage' = "link"
                /\ UNCHANGED <<job, part, trailer, results>>

\* The first and last places of each document's items, in order.
RECURSIVE Ends(_)
Ends(docs) ==
    IF docs = {} THEN << >>
    ELSE LET i     == Least(docs)
             items == ChainOfDoc(i)
             last  == RootDict(i).d["Last"].num
             reached == IF last \in Chosen(items) THEN last ELSE items[Len(items)]
             first == MapRef(builder, i, items[1])
             end   == MapRef(builder, i, last)
             seen  == MapRef(builder, i, reached)
         IN  (IF first.t # "to" \/ end.t # "to" THEN << >>
              ELSE <<[first |-> first.place,
                      last |-> IF seen.t = "to" THEN seen.place ELSE end.place]>>)
             \o Ends(docs \ {i})

Amend(out, place, key, obj) ==
    IF ~Has(out, place) THEN out
    ELSE IF ~IsDict(out[place]) THEN out
    ELSE [out EXCEPT ![place] = Dict(Put(@.d, key, obj))]
RECURSIVE Join(_, _, _), AmendAll(_, _, _, _)
Join(out, ends, k) ==
    IF k >= Len(ends) THEN out
    ELSE Join(Amend(Amend(out, ends[k].last, "Next", To(ends[k + 1].first)),
                    ends[k + 1].first, "Prev", To(ends[k].last)), ends, k + 1)
AmendAll(out, places, key, obj) ==
    IF places = {} THEN out
    ELSE LET p == CHOOSE p \in places : TRUE
         IN  AmendAll(Amend(out, p, key, obj), places \ {p}, key, obj)

\* merge_outlines: one chain under one root; no item anywhere, no outline.
LinkOutlines ==
    /\ stage = "link" /\ builder.queue = {}
    /\ LET ends  == Ends(Chained)
           tops  == UNION {Places(MapRef(builder, i, num)) : <<i, num>> \in UNION
                       {{<<i, num>> : num \in Chosen(ChainOfDoc(i))} : i \in Chained}}
           Counted(i) == IsInteger(Field(RootDict(i).d, "Count"))
           sum[i \in 0 .. Len(job.docs)] ==
               IF i = 0 THEN 0
               ELSE sum[i - 1] + (IF i \notin Chained THEN 0
                                  ELSE IF Counted(i) THEN RootDict(i).d["Count"].n ELSE 0)
           joined == AmendAll(Join(builder.out, ends, 1), tops, "Parent", To(OutlinesAt))
           root  == Dict([Type |-> Name("Outlines"), First |-> To(ends[1].first),
                          Last |-> To(ends[Len(ends)].last), Count |-> Integer(sum[Len(job.docs)])])
       IN  builder' = [builder EXCEPT !.out =
               IF ends = << >>
               THEN [@ EXCEPT ![CatalogAt] = Dict(Without(@.d, {"Outlines"}))]
               ELSE Put(Amend(joined, CatalogAt, "Outlines", To(OutlinesAt)), OutlinesAt, root)]
    /\ stage' = "forms"
    /\ UNCHANGED <<job, part, trailer, results>>

-----------------------------------------------------------------------------
(* Forms and named destinations.                                           *)

FormOf(i) == Follow(job.docs[i], Field(CatalogOf(job.docs[i]), "AcroForm"))
FieldsOf(i) == Follow(job.docs[i], Field(FormOf(i).d, "Fields"))
Forms == {i \in Docs : IsDict(FormOf(i))}
RECURSIVE AllFields(_)
AllFields(docs) ==
    IF docs = {} THEN << >>
    ELSE LET i == Least(docs)
         IN  (IF FieldsOf(i).t = "array" THEN Copy(builder, i, FieldsOf(i)).items ELSE << >>)
             \o AllFields(docs \ {i})

\* merge_form_fields: the first form, with the fields of all.
MergeForms ==
    /\ stage = "forms"
    /\ LET form == Dict(Put(CopyDict(builder, Least(Forms), FormOf(Least(Forms)).d), "Fields",
                            Array(AllFields(Forms))))
           b    == Write(builder, FormAt, form)
       IN  IF \/ \E i \in Docs : IsError(FormOf(i))
              \/ \E i \in Forms : IsError(FieldsOf(i))
           THEN Fails
           ELSE /\ builder' = IF Forms = {} THEN builder
                              ELSE [b EXCEPT !.out = Amend(@, CatalogAt, "AcroForm", To(FormAt))]
                /\ stage' = "drain"
                /\ UNCHANGED <<job, part, trailer, results>>

\* The queue is empty: the named destinations of several documents are
\* merged, after which the queue is emptied again.
Drained ==
    /\ stage \in {"drain", "last"} /\ builder.queue = {}
    /\ stage' = IF stage = "drain" /\ Len(job.docs) > 1 THEN "names" ELSE "clean"
    /\ UNCHANGED <<job, part, builder, trailer, results>>

NameOf(obj) == obj.text.s
PairsIn(names) ==
    LET whole == {k \in DOMAIN names : k % 2 = 1 /\ k < Len(names)}
        pair[k \in 0 .. Len(names)] ==
            IF k = 0 THEN << >>
            ELSE IF k \notin whole THEN pair[k - 1]
            ELSE IF names[k].t # "string" THEN pair[k - 1]
            ELSE Append(pair[k - 1], [name |-> NameOf(names[k]), obj |-> names[k + 1]])
    IN  pair[Len(names)]

RECURSIVE NameTreePairs(_, _, _)
\* Every pair of a name tree, in tree order, each node once, or Fail.
NameTreePairs(d, stack, visited) ==
    LET node  == Head(stack)
        obj   == Follow(d, node)
        kids  == Follow(d, Field(obj.d, "Kids"))
        names == Follow(d, Field(obj.d, "Names"))
        read  == IF IsRef(node) THEN visited \cup {node.num} ELSE visited
        rest  == NameTreePairs(d, (IF kids.t = "array" THEN kids.items ELSE << >>)
                                    \o Tail(stack), read)
    IN  IF stack = << >> THEN Got(<< >>, 0)
        ELSE IF IsRef(node) /\ (IF IsRef(node) THEN node.num \in visited ELSE FALSE)
             THEN NameTreePairs(d, Tail(stack), visited)
        ELSE IF IsError(obj) THEN Fail
        ELSE IF ~IsDict(obj) THEN NameTreePairs(d, Tail(stack), read)
        ELSE IF IsError(kids) \/ IsError(names) \/ ~rest.ok THEN Fail
        ELSE Got((IF names.t = "array" THEN PairsIn(names.items) ELSE << >>) \o rest.v, 0)

RECURSIVE DictPairs(_)
DictPairs(d) ==
    IF DOMAIN d = {} THEN << >>
    ELSE LET key == CHOOSE key \in DOMAIN d : TRUE
         IN  <<[name |-> key, obj |-> d[key]]>> \o DictPairs(Without(d, {key}))

\* The named destinations of a document: those of PDF 1.1, then the tree.
DestsOf(i)  == Follow(job.docs[i], Field(CatalogOf(job.docs[i]), "Dests"))
NamesOf(i)  == Follow(job.docs[i], Field(CatalogOf(job.docs[i]), "Names"))
HasTree(i)  == IF IsDict(NamesOf(i)) THEN Has(NamesOf(i).d, "Dests") ELSE FALSE
TreeOf(i)   == IF HasTree(i) THEN NameTreePairs(job.docs[i], <<NamesOf(i).d["Dests"]>>, {})
               ELSE Got(<< >>, 0)
Named(i)    == (IF IsDict(DestsOf(i)) THEN DictPairs(DestsOf(i).d) ELSE << >>) \o TreeOf(i).v

RECURSIVE Merged(_, _)
\* The first document wins on a duplicate name.
Merged(docs, names) ==
    IF docs = {} THEN names
    ELSE LET first(pairs, name) == Least({k \in DOMAIN pairs : pairs[k].name = name})
             With(i, pairs) ==
                 [name \in DOMAIN names \cup {pairs[k].name : k \in DOMAIN pairs} |->
                     IF Has(names, name) THEN names[name]
                     ELSE Copy(builder, i, pairs[first(pairs, name)].obj)]
         IN  Merged(docs \ {Least(docs)}, With(Least(docs), Named(Least(docs))))

RECURSIVE Leaf(_, _)
Leaf(merged, names) ==
    IF names = {} THEN << >>
    ELSE LET name == CHOOSE name \in names : TRUE
         IN  <<String(Text(name)), merged[name]>> \o Leaf(merged, names \ {name})

\* merge_named_destinations: one leaf node in the catalog's /Names.
MergeNames ==
    /\ stage = "names"
    /\ \E merged \in {Merged(Docs, NoKeys)} :
       LET node    == Dict([Names |-> Array(Leaf(merged, DOMAIN merged))])
           catalog == builder.out[CatalogAt].d
           names   == Field(catalog, "Names")
           bare    == Without(catalog, {"Dests"})
           found   == \E i \in Docs : IsDict(DestsOf(i)) \/ HasTree(i)
           b       == [builder EXCEPT !.queue = @ \cup Queued(builder, {node})]
       IN  IF \E i \in Docs : IsError(DestsOf(i)) \/ IsError(NamesOf(i)) \/ ~TreeOf(i).ok
           THEN Fails
           ELSE /\ builder' =
                     IF ~found THEN builder
                     ELSE IF names.t = "to"
                     THEN [b EXCEPT !.out = Amend([@ EXCEPT ![CatalogAt] = Dict(bare)],
                                                  names.place, "Dests", node)]
                     ELSE [b EXCEPT !.out[CatalogAt] =
                              Dict(Put(bare, "Names",
                                       Dict(Put(IF IsDict(names) THEN names.d ELSE NoKeys,
                                                "Dests", node))))]
                /\ stage' = "last"
                /\ UNCHANGED <<job, part, trailer, results>>

-----------------------------------------------------------------------------
(* Cleaning, on a snapshot.                                                *)

Deref(obj, snapshot) ==
    IF obj.t # "to" THEN obj
    ELSE IF Has(snapshot, obj.place) THEN snapshot[obj.place] ELSE [t |-> "missing"]

IsDeadDest(obj, snapshot) ==
    LET dest == Deref(obj, snapshot)
    IN  IF dest.t # "array" THEN FALSE
        ELSE IF dest.items = << >> THEN FALSE ELSE dest.items[1].t = "null"

IsDeadAction(obj, snapshot) ==
    LET action == Deref(obj, snapshot)
    IN  IF ~IsDict(action) THEN FALSE
        ELSE IF ~HasName(action.d, "S", "GoTo") THEN FALSE
        ELSE IF ~Has(action.d, "D") THEN TRUE ELSE IsDeadDest(action.d["D"], snapshot)

IsDeadTarget(obj, snapshot) ==
    LET target == Deref(obj, snapshot)
    IN  IF IsDict(target) THEN Has(target.d, "D") /\ IsDeadDest(target.d["D"], snapshot)
        ELSE target.t \in {"null", "missing"} \/ IsDeadDest(obj, snapshot)

\* An entry of /Annots to drop: null, or a link that leads nowhere.
IsDeadAnnotation(obj, snapshot) ==
    LET annot == Deref(obj, snapshot)
    IN  IF ~IsDict(annot) THEN annot.t \in {"null", "missing"}
        ELSE /\ HasName(annot.d, "Subtype", "Link")
             /\ Has(annot.d, "Dest") => IsDeadDest(annot.d["Dest"], snapshot)
             /\ Has(annot.d, "A") => IsDeadAction(annot.d["A"], snapshot)

\* The keys of d whose value is dead go.
DeadKeys(d, snapshot) ==
    {key \in DOMAIN d \cap {"Dest", "D"} : IsDeadDest(d[key], snapshot)}
      \cup {key \in DOMAIN d \cap {"A"} : IsDeadAction(d[key], snapshot)}

LivePairs(names, snapshot) ==
    LET live[k \in 0 .. Len(names)] ==
            IF k = 0 THEN << >>
            ELSE IF k % 2 = 0 THEN live[k - 1]
            ELSE IF k = Len(names) THEN Append(live[k - 1], names[k])
            ELSE IF IsDeadTarget(names[k + 1], snapshot) THEN live[k - 1]
            ELSE live[k - 1] \o <<names[k], names[k + 1]>>
    IN  live[Len(names)]
LiveDests(d, snapshot) == Without(d, {key \in DOMAIN d : IsDeadTarget(d[key], snapshot)})

\* What the key holds, without what is dead in it.
Filtered(key, obj, snapshot) ==
    LET Alive(a) == ~IsDeadAnnotation(a, snapshot)
    IN  CASE key = "Names" /\ obj.t = "array" -> Array(LivePairs(obj.items, snapshot))
          [] key = "Dests" /\ obj.t = "dict"  -> Dict(LiveDests(obj.d, snapshot))
          [] key = "Annots" /\ obj.t = "array" -> Array(SelectSeq(obj.items, Alive))
          [] OTHER -> obj

RECURSIVE CleanObject(_, _)
CleanObject(obj, snapshot) ==
    LET CleanDict(d) == [key \in DOMAIN d \ DeadKeys(d, snapshot) |->
                            CleanObject(Filtered(key, d[key], snapshot), snapshot)]
    IN  CASE obj.t = "array"  ->
                Array([k \in DOMAIN obj.items |-> CleanObject(obj.items[k], snapshot)])
          [] obj.t = "dict"   -> Dict(CleanDict(obj.d))
          [] obj.t = "stream" -> Stream(CleanDict(obj.d), obj.data)
          [] OTHER -> obj

\* clean_dead_destinations: the /Dests of PDF 1.1 is known by its place.
CleanDeadDestinations(out) ==
    LET Pruned(clean, dests) ==
            IF dests.t # "to" THEN clean
            ELSE IF ~Has(clean, dests.place) THEN clean
            ELSE IF ~IsDict(clean[dests.place]) THEN clean
            ELSE [clean EXCEPT ![dests.place] = Dict(LiveDests(@.d, out))]
    IN  Pruned([place \in DOMAIN out |-> CleanObject(out[place], out)],
               Field(out[CatalogAt].d, "Dests"))

RECURSIVE Reach(_, _)
Reach(out, places) ==
    LET more == UNION {Places(out[p]) : p \in places \cap DOMAIN out} \ places
    IN  IF more = {} THEN places ELSE Reach(out, places \cup more)

\* sweep: what the trailer does not lead to is left out.
Sweep(out, t) ==
    [p \in DOMAIN out \cap Reach(out, UNION {Places(t[key]) : key \in DOMAIN t}) |-> out[p]]

Finish ==
    /\ stage = "clean"
    /\ results' = Append(results,
           [out |-> Sweep(CleanDeadDestinations(builder.out), trailer), trailer |-> trailer])
    /\ IF part < Len(PartsOf(Walked).v)
       THEN stage' = "pages" /\ part' = part + 1
       ELSE stage' = "done" /\ UNCHANGED part
    /\ UNCHANGED <<job, builder, trailer>>

NoBuilder == [map |-> NoKeys, dropped |-> {}, queue |-> {}, out |-> NoKeys]
OpsInit ==
    /\ job \in Jobs
    /\ stage = "pages" /\ part = 1
    /\ builder = NoBuilder /\ trailer = NoKeys /\ results = << >>

\* No job: for behaviours of the other parts.
OpsIdle ==
    /\ job = [op |-> "none"]
    /\ stage = "idle" /\ part = 1
    /\ builder = NoBuilder /\ trailer = NoKeys /\ results = << >>

OpsNext ==
    \/ Begin \/ WriteCatalog \/ Drain \/ TakeOutlines \/ LinkOutlines
    \/ MergeForms \/ Drained \/ MergeNames \/ Finish

-----------------------------------------------------------------------------
(* Properties. A document of Jobs says what it is under `truth': the       *)
(* numbers of its tree, its pages with their marks, the titles of its      *)
(* outline and its /Count, the marks its names lead to and those of its    *)
(* form fields, 0 for one that cannot be read.                             *)

RECURSIVE Within(_)
\* An output object and all it holds.
Within(obj) ==
    {obj} \cup CASE obj.t = "array" -> UNION {Within(obj.items[k]) : k \in DOMAIN obj.items}
                 [] obj.t \in {"dict", "stream"} -> UNION {Within(obj.d[key]) : key \in DOMAIN obj.d}
                 [] OTHER -> {}
DictsOf(out) ==
    {obj.d : obj \in {x \in UNION {Within(out[p]) : p \in DOMAIN out} : IsDict(x)}}

Closed(out) == \A p \in DOMAIN out : Places(out[p]) \subseteq DOMAIN out
NothingDropped(out) ==
    \A p \in DOMAIN out : p[1] # 0 => p[2] \notin job.docs[p[1]].truth.tree
NothingDead(out) ==
    \A d \in DictsOf(out) :
        /\ DeadKeys(d, out) = {}
        /\ \A key \in DOMAIN d : Filtered(key, d[key], out) = d[key]

\* What an operation writes stands by itself: every reference leads to an
\* object written, no page left out and no node of the old tree came along,
\* and no destination, action, link or name leads to a page left out
\* (ops.rs:8-19).
OutputStands ==
    \A k \in DOMAIN results :
        LET out == results[k].out
        IN  Closed(out) /\ NothingDropped(out) /\ NothingDead(out)

\* The page of the source at a pair of `keep', as its truth has it.
TruthAt(pair) == job.docs[pair[1]].truth.pages[pair[2]]
RECURSIVE Titles(_, _)
Titles(out, item) ==
    <<out[item].d["Title"].n>>
      \o (IF Has(out[item].d, "Next") THEN Titles(out, out[item].d["Next"].place) ELSE << >>)
RECURSIVE AllTitles(_), AllMarks(_), AllCounted(_)
AllTitles(i) == IF i = 0 THEN << >> ELSE AllTitles(i - 1) \o job.docs[i].truth.titles
AllMarks(i) == IF i = 0 THEN << >> ELSE AllMarks(i - 1) \o job.docs[i].truth.fields
AllCounted(i) == IF i = 0 THEN 0 ELSE AllCounted(i - 1) + job.docs[i].truth.count
MarkOf(out, obj) == IF obj.t = "to" THEN out[obj.place].d["Mark"].n ELSE 0

\* One page at least, and in the order asked, each with its own attributes, the nearest ones,
\* turned if it was asked and the angles fit their numbers, and with its
\* links to pages that were kept.
PagesAsAsked(out, keep) ==
    LET kids == out[PagesRoot].d["Kids"].items
        kept(i) == {TruthAt(keep[k]).mark : k \in {j \in DOMAIN keep : keep[j][1] = i}}
        by(k) == IF job.op # "rotate" THEN 0
                 ELSE IF k \in Chosen(job.selections[1].pages) THEN job.by ELSE 0
        angle(k) == TruthAt(keep[k]).rotate + by(k)
        Fitting(k) == by(k) = 0 \/ {TruthAt(keep[k]).rotate, angle(k)} \subseteq
                                      -AngleLimit .. AngleLimit - 1
        page(k) == out[kids[k].place].d
        Aim(d) == IF Has(d, "Dest") THEN d["Dest"] ELSE Deref(d["A"], out).d["D"]
        links(k) == {MarkOf(out, Deref(Aim(Deref(a, out).d), out).items[1]) :
                        a \in Chosen(Deref(Field(page(k), "Annots"), out).items)}
    IN  /\ keep # << >>
        /\ Len(kids) = Len(keep) /\ out[PagesRoot].d["Count"] = Integer(Len(keep))
        /\ \A k \in DOMAIN keep :
             /\ page(k)["Mark"] = Integer(TruthAt(keep[k]).mark)
             /\ page(k)["Parent"] = To(PagesRoot)
             /\ LET own == Field(page(k), "Resources")
                IN  TruthAt(keep[k]).resources =
                      (CASE own.t = "to" -> own.place[2] [] own.t = "integer" -> own.n [] OTHER -> 0)
             /\ LET turned == IF Has(page(k), "Rotate") THEN page(k)["Rotate"].n ELSE 0
                IN  /\ Fitting(k) => turned % 360 = angle(k) % 360
                    /\ by(k) # 0 => turned \in 0 .. 359
             /\ Has(page(k), "Annots") =>
                  links(k) = TruthAt(keep[k]).links \cap kept(keep[k][1])

\* Several outlines follow each other under one root, there and back, and
\* the root counts the items of all.
OutlinesFollow(out) ==
    LET root == out[OutlinesAt].d
    IN  IF AllTitles(Len(job.docs)) = << >> THEN ~Has(out, OutlinesAt)
        ELSE /\ Titles(out, root["First"].place) = AllTitles(Len(job.docs))
             /\ ~Has(out[root["Last"].place].d, "Next")
             /\ root["Count"] = Integer(AllCounted(Len(job.docs)))
             /\ \A p \in DOMAIN out :
                  IF ~IsDict(out[p]) THEN TRUE
                  ELSE /\ Has(out[p].d, "Title") => out[p].d["Parent"] = To(OutlinesAt)
                       /\ Has(out[p].d, "Next") => out[out[p].d["Next"].place].d["Prev"] = To(p)

\* The one form lists the fields of every document, in order; those of
\* pages left out among them.
FieldsKept(out) ==
    LET form  == Deref(Field(out[CatalogAt].d, "AcroForm"), out)
        items == IF IsDict(form) THEN Deref(Field(form.d, "Fields"), out).items ELSE << >>
        Marked(obj) == IF IsDict(obj) THEN obj.d["Mark"].n ELSE 0
    IN  [k \in DOMAIN items |-> Marked(Deref(items[k], out))] = AllMarks(Len(job.docs))

\* A name is the first document's; it is there when its page is.
FirstNameStays(out, keep) ==
    LET catalog == out[CatalogAt].d
        names == Deref(Field(catalog, "Names"), out)
        pairs == PairsIn(names.d["Dests"].d["Names"].items)
        all   == UNION {DOMAIN job.docs[i].truth.names : i \in Docs}
        owner(name) == Least({i \in Docs : name \in DOMAIN job.docs[i].truth.names})
        mark(name) == job.docs[owner(name)].truth.names[name]
        live  == {name \in all : \E k \in DOMAIN keep :
                     keep[k][1] = owner(name) /\ TruthAt(keep[k]).mark = mark(name)}
        got   == IF all = {} THEN << >> ELSE pairs
    IN  /\ {got[k].name : k \in DOMAIN got} = live
        /\ Len(got) = Cardinality(live)
        /\ \A k \in DOMAIN got :
             MarkOf(out, Deref(got[k].obj, out).items[1]) = mark(got[k].name)

\* Each part holds the pages asked for and the form fields of its document,
\* and a merge loses no outline item, no field, and no name but those of
\* pages left out (ops.rs:8-25, 151-154).
OutputSaysWhatWasAsked ==
    stage = "done" =>
        LET AsAsked(parts) ==
                /\ Len(results) = Len(parts)
                /\ \A k \in DOMAIN results :
                     /\ PagesAsAsked(results[k].out, parts[k])
                     /\ FieldsKept(results[k].out)
                     /\ Len(job.docs) > 1 => /\ OutlinesFollow(results[k].out)
                                            /\ FirstNameStays(results[k].out, parts[k])
                /\ job.op = "split" /\ CoversAll(job) =>
                     UNION {Chosen(parts[k]) : k \in DOMAIN parts}
                       = Chosen(Whole(1, Len(job.docs[1].truth.pages)))
        IN  AsAsked(PartsOf(Walked).v)
=============================================================================
