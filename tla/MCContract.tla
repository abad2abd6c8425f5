------------------------------ MODULE MCContract ------------------------------
(* Inputs of ModuleContract for TLC.                                       *)
EXTENDS ModuleContract

Accented == <<LeadOctet, NextOctet>>    \* a text of one character

MCAction(params) == [id |-> MergeAction, minInputs |-> 1, params |-> params]
MCParam(id, kind, least, greatest, required) ==
    [id |-> id, kind |-> kind, min |-> least, max |-> greatest, required |-> required]
Every(least, greatest) == MCParam(<<1>>, "integer", least, greatest, FALSE)

\* A manifest that is accepted, and each way not to be.
MCManifest(id) ==
    [is |-> "manifest", id |-> id, api |-> ApiVersion, native |-> FALSE, networks |-> {},
     limits |-> {1}, actions |-> <<MCAction(<<Every(Bound(1), Bound(1))>>)>>, hidden |-> FALSE]
Doubtful ==
    LET m == MCManifest(<<1>>)
        WithActions(actions) == [m EXCEPT !.actions = actions]
        WithParams(params) == WithActions(<<MCAction(params)>>)
    IN  {[m EXCEPT !.api = [major |-> 0, minor |-> 3]], [m EXCEPT !.api = BadVersion],
         [m EXCEPT !.native = TRUE], [m EXCEPT !.hidden = TRUE],
         [m EXCEPT !.networks = {{"a host"}}], [m EXCEPT !.networks = {{}}],
         [m EXCEPT !.networks = {{"a host"}, {Wildcard}}], [m EXCEPT !.limits = {0, 1}],
         WithActions(<< >>), WithActions(<<MCAction(<< >>), MCAction(<< >>)>>),
         WithParams(<<Every(Bound(2), Bound(1))>>), WithParams(<<Every(Unbounded, Bound(1))>>),
         WithParams(<<Every(Unbounded, Unbounded), Every(Unbounded, Unbounded)>>),
         WithParams(<<MCParam(<<1>>, "text", Bound(1), Unbounded, FALSE)>>),
         WithParams(<<MCParam(<<1>>, "text", Unbounded, Unbounded, TRUE)>>),
         WithParams(<<MCParam(EmptyId, "boolean", Unbounded, Unbounded, FALSE)>>)}

\* Two or three directories beside one that is doubtful, sharing identifiers
\* or not; <<1, 1>> comes after <<1>> and before what is accented.
MCDirectories ==
    {<<MCManifest(<<1>>), other>> : other \in Doubtful}
    \cup {<<other, MCManifest(a), MCManifest(b)>> :
              other \in {NoManifest, BadManifest, MCManifest(<<1>>)},
              a \in {<<1>>, Accented, <<1, 1>>}, b \in {<<1>>, Accented, EmptyId}}
    \cup {<<MCManifest(a), MCManifest(b), MCManifest(a), MCManifest(b)>> :
              a \in {<<1>>}, b \in {<<1>>, Accented}}

Declared == MCAction(<<MCParam(<<1>>, "integer", Bound(-8), Bound(7), FALSE),
                       MCParam(<<1, 1>>, "text", Unbounded, Unbounded, FALSE),
                       MCParam(Accented, "boolean", Unbounded, Unbounded, FALSE)>>)
GivenParam(name, value) == [name |-> name, value |-> value]
MCOffer(params, documents) ==
    [actions |-> <<Declared>>, reads |-> TRUE, writes |-> TRUE,
     asked |-> [action |-> MergeAction, params |-> params, documents |-> documents]]
\* Runs as they should be, with the ends of each kind of value and of a
\* count, and each way not to run.
MCOffers ==
    LET one == MCOffer(<< >>, << <<1, 2>> >>) IN
    {MCOffer(<< >>, documents) : documents \in {
         << >>, << <<1, 2>>, <<1, 0, 3>> >>, << << >>, <<1>> >>, << <<1>>, <<1>> >>,
         << [i \in 1 .. CountValues - 1 |-> 1] >>, << [i \in 1 .. CountValues |-> 1] >>,
         << [i \in 1 .. 9 |-> 1], [i \in 1 .. 9 |-> 1] >>}}
    \cup {MCOffer(params, << <<1, 1>> >>) : params \in {
         <<GivenParam(<<1>>, IntegerValue(-8)), GivenParam(<<1, 1>>, TextValue(<<LeadOctet, NextOctet>>))>>,
         <<GivenParam(<<1>>, IntegerValue(7)), GivenParam(Accented, BooleanValue(TRUE))>>,
         <<GivenParam(<<1, 1>>, TextValue(<< >>)), GivenParam(Accented, BooleanValue(FALSE))>>,
         <<GivenParam(<<1>>, BooleanValue(TRUE))>>, <<GivenParam(<<0>>, IntegerValue(0))>>}}
    \cup {[one EXCEPT !.reads = FALSE], [one EXCEPT !.writes = FALSE], [one EXCEPT !.actions = << >>],
          [one EXCEPT !.actions[1].params[1].required = TRUE],
          [one EXCEPT !.actions[1].params[1].min = Bound(0)],
          [one EXCEPT !.asked.action = Accented], [one EXCEPT !.actions[1].minInputs = 2]}
=============================================================================
