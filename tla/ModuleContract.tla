--------------------------- MODULE ModuleContract ---------------------------
(***************************************************************************)
(* What the host and a module hold each other to (fyp-plugin-api, lib.rs   *)
(* of fyp-host, plugins/merge): which modules of a directory may be        *)
(* loaded, and the bytes of one run, from the parameters the host checks   *)
(* to the answer it reads. A module of this repository answers with serve; *)
(* any other writes what it likes. HostRuns has the limits of a run.       *)
(*                                                                         *)
(* An octet has few values and a u32 few octets, so that a field meets the *)
(* end of both. Error kinds are left out: a message is read or refused.    *)
(***************************************************************************)
EXTENDS Integers, SequencesExt

CONSTANTS
    OctetValues,    \* the values of an octet, an even number from 4
    CountOctets,    \* the octets of a u32; an i64 takes as many
    Directories,    \* what a scanned directory may hold: [dir |-> manifest]
    Offers,         \* runs that may be asked for: [actions, reads, writes, asked]
    MaxMessage      \* the longest error message kept, in octets

VARIABLES
    search,         \* the scan of a directory: what is left, accepted, refused
    exchange        \* one run: the bytes sent, given, written back, and what was read
contractVars == <<search, exchange>>

-----------------------------------------------------------------------------
(* Manifests.                                                              *)

ApiVersion == [major |-> 0, minor |-> 2]
BadVersion == [major |-> -1, minor |-> -1]      \* not a version
Unbounded  == [bound |-> FALSE]
Bound(n)   == [bound |-> TRUE, n |-> n]
EmptyId    == << >>
Wildcard   == "*"
\* The order of texts, by their octets.
Before(a, b) ==
    \E i \in DOMAIN b : /\ i <= Len(a) + 1 /\ SubSeq(a, 1, i - 1) = SubSeq(b, 1, i - 1)
                        /\ i <= Len(a) => a[i] < b[i]

\* Before 1.0 the minor version is the boundary.
Compatible(wanted) ==
    /\ wanted # BadVersion
    /\ wanted.major = ApiVersion.major
    /\ ApiVersion.major = 0 => wanted.minor = ApiVersion.minor
Identified(list) ==
    /\ \A i \in DOMAIN list : list[i].id # EmptyId
    /\ \A i, j \in DOMAIN list : list[i].id = list[j].id => i = j
SoundBounds(param) ==
    /\ param.min.bound \/ param.max.bound => param.kind = "integer"
    /\ param.min.bound /\ param.max.bound => param.min.n <= param.max.n
\* Manifest::validate.
Validated(m, trusted) ==
    /\ Compatible(m.api)
    /\ m.native => trusted
    /\ \A hosts \in m.networks : hosts # {} /\ hosts \cap {"", Wildcard} = {}
    /\ 0 \notin m.limits
    /\ Identified(m.actions)
    /\ \A i \in DOMAIN m.actions :
         /\ Identified(m.actions[i].params)
         /\ \A k \in DOMAIN m.actions[i].params : SoundBounds(m.actions[i].params[k])

-----------------------------------------------------------------------------
(* Discovery. A directory is listed in any order; that of the errors is    *)
(* left out.                                                               *)

Root         == 0
NoManifest   == [is |-> "none"]
BadManifest  == [is |-> "unreadable"]    \* an error, too large, not UTF-8, not a manifest
NotSearching == [stage |-> "idle"]

\* check_manifest: no field a person reads holds a hidden character.
Discoverable(m) ==
    IF m.is = "manifest" THEN Validated(m, search.trusted) /\ ~m.hidden ELSE FALSE
Listing == search.stage = "listing"
Found(dir) == [dir |-> dir, id |-> search.left[dir].id]

ReadEntry(dir) ==
    LET m == search.left[dir] IN
    /\ search' = [search EXCEPT
           !.left     = [d \in DOMAIN @ \ {dir} |-> @[d]],
           !.accepted = IF Discoverable(m) THEN Append(@, Found(dir)) ELSE @,
           !.refused  = IF m = NoManifest \/ Discoverable(m) THEN @ ELSE @ \cup {{dir}}]
    /\ UNCHANGED exchange

ById(a, b) == Before(a.id, b.id) \/ (a.id = b.id /\ a.dir < b.dir)
Sharing(found, m) == {other \in ToSet(found) : other.id = m.id}
Alone(found, m) == Sharing(found, m) = {m}
DirsOf(found)   == {m.dir : m \in found}

\* Modules that share an identifier are all refused, together.
EndOfListing ==
    LET found   == SetToSortSeq(ToSet(search.accepted), ById)
        clashes == {DirsOf(Sharing(found, m)) : m \in {n \in ToSet(found) : ~Alone(found, n)}}
    IN  /\ Listing /\ DOMAIN search.left = {}
        /\ search' = [search EXCEPT !.stage = "done", !.refused = @ \cup clashes,
                                    !.accepted = SelectSeq(found, LAMBDA m : Alone(found, m))]
        /\ UNCHANGED exchange
NoListing ==
    /\ Listing /\ search.left = search.root
    /\ search' = [search EXCEPT !.stage = "done", !.refused = {{Root}}]
    /\ UNCHANGED exchange

-----------------------------------------------------------------------------
(* Writing messages.                                                       *)

CountValues == OctetValues ^ CountOctets
CountOf(n)  == [i \in 1 .. CountOctets |-> (n \div OctetValues ^ (i - 1)) % OctetValues]
FieldOf(data) == CountOf(Len(data)) \o data
RequestMagic  == <<1, 2>>
ResponseMagic == <<1, 3>>
ExchangeVersion == 1
TagBoolean  == 0
TagInteger  == 1
TagText     == 2
TagDocument == 0
TagError    == 1
BooleanValue(b) == [kind |-> "boolean", v |-> b]
IntegerValue(n) == [kind |-> "integer", v |-> n]
TextValue(t)    == [kind |-> "text", v |-> t]
ValueOctets(value) ==
    CASE value.kind = "boolean" -> <<TagBoolean, IF value.v THEN 1 ELSE 0>>
      [] value.kind = "integer" -> <<TagInteger>> \o CountOf(value.v % CountValues)
      [] value.kind = "text"    -> <<TagText>> \o FieldOf(value.v)

\* Parameters are a sequence of [name, value], in the order of their names.
RequestOctets(r) ==
    RequestMagic \o CountOf(ExchangeVersion) \o FieldOf(r.action)
      \o CountOf(Len(r.params))
      \o FlattenSeq([i \in DOMAIN r.params |->
                        FieldOf(r.params[i].name) \o ValueOctets(r.params[i].value)])
      \o CountOf(Len(r.documents))
      \o FlattenSeq([i \in DOMAIN r.documents |-> FieldOf(r.documents[i])])
DocumentAnswer(octets) == [kind |-> "document", payload |-> octets]
ErrorAnswer(text)      == [kind |-> "error", payload |-> text]
ResponseOctets(reply) ==
    ResponseMagic \o CountOf(ExchangeVersion)
      \o <<IF reply.kind = "document" THEN TagDocument ELSE TagError>>
      \o FieldOf(reply.payload)

\* What a u32 cannot count is too large.
RequestFits(r) ==
    /\ {Len(r.action), Len(r.params), Len(r.documents)} \subseteq 0 .. CountValues - 1
    /\ \A i \in DOMAIN r.params :
         /\ Len(r.params[i].name) < CountValues
         /\ r.params[i].value.kind = "text" => Len(r.params[i].value.v) < CountValues
    /\ \A i \in DOMAIN r.documents : Len(r.documents[i]) < CountValues
ResponseFits(reply) == Len(reply.payload) < CountValues

-----------------------------------------------------------------------------
(* Reading messages: what is left, whether all went well, the last field,  *)
(* the name of the parameter being read and the list it joins.             *)

ReaderOf(octets) == [rest |-> octets, ok |-> TRUE, last |-> << >>, name |-> << >>, list |-> << >>]
Broken(r) == [r EXCEPT !.ok = FALSE]
TakeOctets(r, n) ==
    IF r.ok /\ n <= Len(r.rest)
    THEN [r EXCEPT !.last = SubSeq(r.rest, 1, n), !.rest = SubSeq(@, n + 1, Len(@))]
    ELSE Broken(r)
Expected(r, what) == IF r.ok /\ r.last = what THEN r ELSE Broken(r)
CountIn(octets) == FoldRight(LAMBDA octet, n : n * OctetValues + octet, octets, 0)
SignedOf(n) == IF n < CountValues \div 2 THEN n ELSE n - CountValues
AsCount(r) == IF r.ok THEN [r EXCEPT !.last = CountIn(@)] ELSE r
ReadCount(r) == AsCount(TakeOctets(r, CountOctets))
TakeCounted(r) == IF r.ok THEN TakeOctets(r, r.last) ELSE r
ReadField(r) == TakeCounted(ReadCount(r))

\* UTF-8: of the octets above half, one leads and the other follows it.
LeadOctet == OctetValues - 1
NextOctet == OctetValues - 2
Utf8(text) ==
    /\ \A i \in DOMAIN text : text[i] = LeadOctet => i < Len(text) /\ text[i + 1] = NextOctet
    /\ \A i \in DOMAIN text : text[i] = NextOctet => i > 1 /\ text[i - 1] = LeadOctet
AsText(r) == IF r.ok /\ Utf8(r.last) THEN r ELSE Broken(r)
ReadText(r) == AsText(ReadField(r))
ReadHeader(octets, magic) ==
    Expected(ReadCount(Expected(TakeOctets(ReaderOf(octets), Len(magic)), magic)), ExchangeVersion)
Meaning(v) == [ok |-> TRUE, v |-> v]
NoMeaning == [ok |-> FALSE]

AsBoolean(r) ==
    IF r.ok /\ r.last \in {<<0>>, <<1>>} THEN [r EXCEPT !.last = BooleanValue(@ = <<1>>)]
    ELSE Broken(r)
AsInteger(r) == IF r.ok THEN [r EXCEPT !.last = IntegerValue(SignedOf(@))] ELSE r
AsTextValue(r) == IF r.ok THEN [r EXCEPT !.last = TextValue(@)] ELSE r
TagIs(r, tag) == r.ok /\ r.last = <<tag>>
ReadValue(r) ==
    CASE TagIs(r, TagBoolean) -> AsBoolean(TakeOctets(r, 1))
      [] TagIs(r, TagInteger) -> AsInteger(ReadCount(r))
      [] TagIs(r, TagText)    -> AsTextValue(ReadText(r))
      [] OTHER                -> Broken(r)

\* Names follow each other in the order of their octets, each once.
Follows(params, name) == params = << >> \/ Before(Last(params).name, name)
UnderName(r) == IF r.ok /\ Follows(r.list, r.last) THEN [r EXCEPT !.name = r.last] ELSE Broken(r)
Joined(r, item) == IF r.ok THEN [r EXCEPT !.list = Append(@, item)] ELSE r
AsParam(r) == Joined(r, [name |-> r.name, value |-> r.last])
ReadParam(r) == AsParam(ReadValue(TakeOctets(UnderName(ReadText(r)), 1)))
AsDocument(r) == Joined(r, r.last)
TakeDocument(r) == AsDocument(ReadField(r))
CountedOff(r) == IF r.ok THEN [i \in 1 .. r.last |-> i] ELSE << >>
ReadParams(r) ==
    FoldLeft(LAMBDA t, i : ReadParam(t), [r EXCEPT !.list = << >>], CountedOff(r))
TakeDocuments(r) ==
    FoldLeft(LAMBDA t, i : TakeDocument(t), [r EXCEPT !.list = << >>], CountedOff(r))

\* Mutant: what follows the message is left unread.
Started(r)  == r.ok
Finished(r) == r.ok /\ r.rest = << >>
RequestIn(action, params, documents) ==
    IF Finished(documents)
    THEN Meaning([action |-> action.last, params |-> params.list, documents |-> documents.list])
    ELSE NoMeaning
AfterParams(action, params) == RequestIn(action, params, TakeDocuments(ReadCount(params)))
AfterAction(action) == AfterParams(action, ReadParams(ReadCount(action)))
DecodeRequest(octets) == AfterAction(ReadText(ReadHeader(octets, RequestMagic)))

AnswerTag(octets) == TakeOctets(ReadHeader(octets, ResponseMagic), 1)
AnswerOf(r, made) == IF Finished(r) THEN Meaning(made) ELSE NoMeaning
ErrorIn(r) == AnswerOf(r, ErrorAnswer(r.last))
DocumentIn(r) == AnswerOf(r, DocumentAnswer(r.last))
AnswerAfter(tag) ==
    CASE TagIs(tag, TagDocument) -> DocumentIn(ReadField(tag))
      [] TagIs(tag, TagError)    -> ErrorIn(ReadText(tag))
      [] OTHER                   -> NoMeaning
DecodeResponse(octets) == AnswerAfter(AnswerTag(octets))
\* Response::decode_owned keeps the end of its octets, without a copy.
EndOf(octets, r) == SubSeq(octets, Len(octets) - Len(r.rest) - Len(r.last) + 1, Len(octets))
OwnedIn(octets, r) == IF Finished(r) THEN Meaning(DocumentAnswer(EndOf(octets, r))) ELSE NoMeaning
OwnedAfter(octets, tag) ==
    IF TagIs(tag, TagDocument) THEN OwnedIn(octets, ReadField(tag)) ELSE AnswerAfter(tag)
DecodeOwned(octets) == OwnedAfter(octets, AnswerTag(octets))

-----------------------------------------------------------------------------
(* One run.                                                                *)

NoExchange == [stage |-> "idle"]
\* check_params, and what run checks before a module starts.
Fitting(param, given) ==
    /\ param.id = given.name /\ param.kind = given.value.kind
    /\ param.min.bound /\ param.kind = "integer" => given.value.v >= param.min.n
    /\ param.max.bound /\ param.kind = "integer" => given.value.v <= param.max.n
CheckParams(action, params) ==
    /\ \A i \in DOMAIN params : \E k \in DOMAIN action.params : Fitting(action.params[k], params[i])
    /\ \A k \in DOMAIN action.params :
         action.params[k].required => \E i \in DOMAIN params : params[i].name = action.params[k].id
Runnable(offer) ==
    /\ \E k \in DOMAIN offer.actions :
         /\ offer.actions[k].id = offer.asked.action
         /\ Len(offer.asked.documents) >= offer.actions[k].minInputs
         /\ CheckParams(offer.actions[k], offer.asked.params)
    /\ offer.asked.documents # << >> => offer.reads

Ask ==
    /\ exchange.stage = "offered"
    /\ exchange' = IF Runnable(exchange.offer) /\ RequestFits(exchange.offer.asked)
                   THEN [exchange EXCEPT !.stage = "sent", !.sent = RequestOctets(exchange.offer.asked)]
                   ELSE [exchange EXCEPT !.stage = "refused"]
    /\ UNCHANGED search

\* What a pipe, another host or another module may make of a message: a
\* beginning of it, one octet for another, one more.
Altered(octets) ==
    {SubSeq(octets, 1, n) : n \in 0 .. Len(octets)}
      \cup {[octets EXCEPT ![i] = octet] : i \in DOMAIN octets, octet \in 0 .. OctetValues - 1}
      \cup {Append(octets, octet) : octet \in 0 .. OctetValues - 1}
HandOver(octets) ==
    /\ exchange' = [exchange EXCEPT !.stage = "given", !.given = octets]
    /\ UNCHANGED search

\* The merge module; a document that opens begins with 1, and its pages follow.
MergeAction == <<1>>
IsADocument(document) == document # << >> /\ Head(document) = 1
PagesWithin(documents) == FlattenSeq([i \in DOMAIN documents |-> Tail(documents[i])])
Handle(request) ==
    IF \/ request.action # MergeAction
       \/ request.params # << >>
       \/ \E i \in DOMAIN request.documents : ~IsADocument(request.documents[i])
    THEN ErrorAnswer(<<0>>)
    ELSE IF PagesWithin(request.documents) = << >> THEN ErrorAnswer(<<0>>)
    ELSE DocumentAnswer(<<1>> \o PagesWithin(request.documents))

\* serve: an answer always, that says what could not be done.
Handled(read) == IF read.ok THEN Handle(read.v) ELSE ErrorAnswer(<<LeadOctet, NextOctet>>)
Encodable(reply) == IF ResponseFits(reply) THEN reply ELSE ErrorAnswer(<<1>>)
AnswerTo(octets) == Encodable(Handled(DecodeRequest(octets)))
Wrote(octets, exit, honest) ==
    /\ exchange' = [exchange EXCEPT !.stage = "written", !.wrote = octets, !.exit = exit,
                                    !.honest = honest]
    /\ UNCHANGED search
Serve == exchange.stage = "given" /\ Wrote(ResponseOctets(AnswerTo(exchange.given)), 0, TRUE)
\* Its output breaks, and it says so; or the module is another one.
ServeFails ==
    LET octets == ResponseOctets(AnswerTo(exchange.given)) IN
    /\ exchange.stage = "given"
    /\ \E n \in 0 .. Len(octets) : Wrote(SubSeq(octets, 1, n), 1, FALSE)
OtherModule(octets, exit) == exchange.stage = "given" /\ Wrote(octets, exit, FALSE)

\* A message of a module, on its way to a person (inert.rs, lines): what acts
\* on a terminal is replaced, and a long text is cut between two characters.
TwoOctets   == OctetValues
Substitute == OctetValues + 1
Ellipsis    == OctetValues + 2
HiddenChars == {0}
WidthOfChar(char) ==
    CASE char = TwoOctets -> 2 [] char \in {Substitute, Ellipsis} -> 3 [] OTHER -> 1
WidthOfText(chars) == FoldLeft(LAMBDA n, char : n + WidthOfChar(char), 0, chars)
CharsOf(text) ==
    LET leads == SelectSeq(text, LAMBDA octet : octet # NextOctet)
    IN  [i \in DOMAIN leads |-> IF leads[i] = LeadOctet THEN TwoOctets ELSE leads[i]]
Inert(chars) ==
    [i \in DOMAIN chars |-> IF chars[i] \in HiddenChars THEN Substitute ELSE chars[i]]
Cut(chars) ==
    LET fits == Max({n \in 0 .. Len(chars) : WidthOfText(SubSeq(chars, 1, n)) <= MaxMessage})
    IN  IF fits = Len(chars) THEN chars ELSE Append(SubSeq(chars, 1, fits), Ellipsis)
Shown(text) == Cut(Inert(CharsOf(text)))

\* LoadedModule::run and accept, once the module has ended. What becomes of
\* a document that is accepted is in HostRuns.
TakenOf(read, octets, exit) ==
    CASE read.ok /\ read.v.kind = "error" -> ErrorAnswer(Shown(read.v.payload))
      [] read.ok /\ read.v.kind = "document" /\ exit = 0 ->
             IF exchange.offer.writes THEN read.v ELSE [kind |-> "undeclared"]
      [] exit # 0 /\ ~(read.ok /\ read.v.kind = "error") -> [kind |-> "exited"]
      [] OTHER -> [kind |-> IF octets = << >> THEN "nothing" ELSE "unreadable"]
TakenAs(octets, exit) == TakenOf(DecodeOwned(octets), octets, exit)
TakeAnswer ==
    /\ exchange.stage = "written"
    /\ exchange' = [exchange EXCEPT !.stage = "taken", !.taken = TakenAs(exchange.wrote, exchange.exit)]
    /\ UNCHANGED search

-----------------------------------------------------------------------------
ContractIdle == search = NotSearching /\ exchange = NoExchange
ContractInit ==
    \/ /\ exchange = NoExchange
       /\ \E root \in Directories, trusted \in BOOLEAN :
            search = [stage |-> "listing", root |-> root, left |-> root, trusted |-> trusted,
                      accepted |-> << >>, refused |-> {}]
    \/ /\ search = NotSearching
       /\ \E offer \in Offers :
            exchange = [stage |-> "offered", offer |-> offer, sent |-> << >>, given |-> << >>,
                        wrote |-> << >>, exit |-> 0, honest |-> FALSE, taken |-> [kind |-> "none"]]
ContractNext ==
    \/ /\ search.stage = "listing"
       /\ \/ \E dir \in DOMAIN search.left : ReadEntry(dir)
          \/ EndOfListing \/ NoListing
    \/ Ask \/ Serve \/ ServeFails \/ TakeAnswer
    \/ exchange.stage = "sent" /\ \E octets \in Altered(exchange.sent) : HandOver(octets)
    \/ /\ exchange.stage = "given" /\ exchange.given = exchange.sent
       /\ \E octets \in Altered(ResponseOctets(AnswerTo(exchange.given))), exit \in {0, 1} :
            OtherModule(octets, exit)

-----------------------------------------------------------------------------
(* Properties.                                                             *)

ReadsTheRequest ==
    LET read == DecodeRequest(exchange.given) IN
    exchange.stage = "given" =>
        /\ exchange.given = exchange.sent => read = Meaning(exchange.offer.asked)
        /\ IsStrictPrefix(exchange.given, exchange.sent) => ~read.ok
        /\ read.ok => RequestOctets(read.v) = exchange.given
ReadsTheAnswer ==
    LET read  == DecodeOwned(exchange.wrote)
        reply == AnswerTo(exchange.given)
        taken == exchange.taken
    IN  exchange.stage = "taken" =>
        /\ read = DecodeResponse(exchange.wrote)
        /\ read.ok => ResponseOctets(read.v) = exchange.wrote
        /\ exchange.honest /\ taken.kind = "document" => taken = reply
        /\ exchange.honest => taken.kind \in {reply.kind, "undeclared"}
        /\ IsStrictPrefix(exchange.wrote, ResponseOctets(reply)) =>
             taken.kind \notin {"document", "error"}
        /\ taken.kind = "document" => exchange.exit = 0 /\ exchange.offer.writes
MessagesAreInert ==
    LET text == DecodeOwned(exchange.wrote).v.payload IN
    exchange.stage = "taken" /\ exchange.taken.kind = "error" =>
        /\ ToSet(exchange.taken.payload) \cap HiddenChars = {}
        /\ WidthOfText(exchange.taken.payload) <= MaxMessage + WidthOfChar(Ellipsis)
        /\ Len(text) <= MaxMessage /\ ToSet(CharsOf(text)) \cap HiddenChars = {} =>
             exchange.taken.payload = CharsOf(text)
LoadedIsClear ==
    LET held   == {dir \in DOMAIN search.root : search.root[dir] # NoManifest}
        sound  == {dir \in held : Discoverable(search.root[dir])}
        unique == {dir \in sound : \A other \in sound :
                      search.root[dir].id = search.root[other].id => dir = other}
    IN  search.stage = "done" /\ search.refused # {{Root}} =>
        /\ DirsOf(ToSet(search.accepted)) = unique
        /\ UNION search.refused = held \ unique
        /\ \A i, j \in DOMAIN search.accepted :
             i < j => Before(search.accepted[i].id, search.accepted[j].id)

\* Nothing is read for what it is not: a message has one spelling, which
\* reads back as it was meant, no beginning of it is one, and reading it
\* where it lies gives what a copy would (exchange.rs:24-26, 255-259); a run
\* has an answer for every request, and gives a document only of a module
\* that ended well. Which modules may be loaded is the same in whatever
\* order a directory is listed, and none of two that share an identifier
\* (lib.rs:64-66).
ContractStands == ReadsTheRequest /\ ReadsTheAnswer /\ MessagesAreInert /\ LoadedIsClear
=============================================================================
