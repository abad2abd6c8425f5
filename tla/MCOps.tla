------------------------------- MODULE MCOps -------------------------------
EXTENDS PageOperations, TLC
Link(to, says) == Dict([Subtype |-> Name("Link"), Dest |-> Array(<<Ref(to, 0)>>), Id |-> Integer(says)])
GoTo(to) == Dict([S |-> Name("GoTo"), D |-> Array(<<Ref(to, 0)>>)])
ActionLink(action) == Dict([Subtype |-> Name("Link"), A |-> action])
Leafs(mark, parent, more) == Dict(("Mark" :> Integer(mark)) @@ ("Parent" :> Ref(parent, 0)) @@ more)
Dest(n) == Array(<<Ref(n, 0)>>)
Node(kids, more) == Dict(("Kids" :> Array(kids)) @@ more)
R0(n) == Ref(n, 0)
T(mark, rotate, resources, links) == [mark |-> mark, rotate |-> rotate, resources |-> resources, links |-> links]
Item(title, next) == Dict(("Title" :> Integer(title)) @@ ("Parent" :> R0(10)) @@ (IF next = 0 THEN NoKeys ELSE "Next" :> R0(next)))
\* Pages 3, 6, a direct one and 4; the tree lists 3 twice and comes back on itself.
First == [objects |->
    (1 :> Dict(("Pages" :> R0(2)) @@ ("Outlines" :> R0(10)) @@ ("Names" :> R0(14))
               @@ ("Dests" :> Dict(("b" :> Dest(4)) @@ ("a" :> Dest(6)))) @@ ("AcroForm" :> Dict("Fields" :> Array(<<R0(13), R0(17)>>))))) @@
    (2 :> Node(<<R0(3), R0(5), R0(4)>>, ("Rotate" :> Integer(90)) @@ ("Resources" :> R0(9)))) @@
    (3 :> Leafs(1, 2, "Annots" :> Array(<<Link(4, 1), R0(13)>>))) @@
    (4 :> Leafs(4, 2, ("Rotate" :> Integer(0)) @@ ("Annots" :> Array(<<Link(6, 3), R0(7)>>)))) @@
    (5 :> Node(<<R0(6), R0(3), R0(2), Leafs(3, 5, "Rotate" :> Integer(-90))>>, "Rotate" :> Integer(180))) @@
    (6 :> Leafs(2, 5, "Resources" :> Integer(5))) @@
    (7 :> Dict([Subtype |-> Name("Link"), Dest |-> R0(8)])) @@
    (8 :> Dest(3)) @@
    (9 :> Dict([Font |-> R0(9), Length |-> Integer(1)])) @@
    (10 :> Dict([First |-> R0(11), Last |-> R0(12), Count |-> Integer(2)])) @@
    (11 :> Item(1, 12)) @@ (12 :> Dict(Item(2, 0).d @@ ("Prev" :> R0(11)))) @@
    (13 :> Dict([Subtype |-> Name("Link"), Dest |-> Dest(6), P |-> R0(3), Mark |-> Integer(31)])) @@
    (14 :> Dict("Dests" :> R0(15))) @@
    (15 :> Dict("Kids" :> Array(<<R0(16), R0(15)>>))) @@
    (16 :> Dict("Names" :> Array(<<String(Text("a")), Dest(3), String(Text("c")), R0(8)>>))) @@
    (17 :> Dict([Kids |-> Array(<<R0(18)>>), Mark |-> Integer(32)])) @@
    (18 :> Dict([Parent |-> R0(17), P |-> R0(4)])),
  trailer |-> ("Root" :> R0(1)) @@ ("Info" :> R0(9)),
  truth |-> [tree |-> {2, 3, 4, 5, 6},
             pages |-> <<T(1, 90, 9, {4, 2}), T(2, 180, 5, {}), T(3, -90, 9, {}), T(4, 0, 9, {2, 1})>>,
             titles |-> <<1, 2>>, count |-> 2, fields |-> <<31, 32>>, names |-> ("a" :> 2) @@ ("b" :> 4) @@ ("c" :> 1)]]
Second == [objects |->
    (1 :> Dict(("Pages" :> R0(2)) @@ ("Outlines" :> R0(10)) @@ ("Names" :> Dict("Dests" :> Dict("Names" :> Array(<<String(Text("a")), Dest(4), String(Text("d")), Dest(3)>>))))
            @@ ("AcroForm" :> R0(7)))) @@
    (2 :> Node(<<R0(3), R0(4)>>, NoKeys)) @@
    (3 :> Leafs(7, 2, ("Rotate" :> Integer(480)) @@ ("Annots" :> Array(<<ActionLink(R0(8)), ActionLink(GoTo(3))>>)) @@ ("X" :> R0(6)))) @@
    (4 :> Leafs(8, 2, "Rotate" :> Integer(600))) @@
    (6 :> [t |-> "error"]) @@
    (7 :> Dict("Fields" :> R0(9))) @@ (9 :> Array(<<R0(6), R0(12)>>)) @@ (12 :> Dict("Mark" :> Integer(41))) @@
    (8 :> GoTo(4)) @@
    (10 :> Dict([First |-> R0(11), Last |-> R0(11), Count |-> Integer(-1)])) @@ (11 :> Item(3, 0)),
  trailer |-> "Root" :> R0(1),
  truth |-> [tree |-> {2, 3, 4}, pages |-> <<T(7, 480, 0, {7, 8}), T(8, 600, 0, {})>>,
             titles |-> <<3>>, count |-> -1, fields |-> <<0, 41>>, names |-> ("a" :> 8) @@ ("d" :> 7)]]
\* A single page: no outline, no form, no name.
Bare == [objects |->
    (1 :> Dict("Pages" :> R0(2))) @@ (2 :> Node(<<R0(3)>>, NoKeys)) @@ (3 :> Leafs(9, 2, NoKeys)),
  trailer |-> "Root" :> R0(1),
  truth |-> [tree |-> {2, 3}, pages |-> <<T(9, 0, 0, {})>>, titles |-> << >>, count |-> 0,
             fields |-> << >>, names |-> NoKeys]]
Job(op, docs, selections, by) == [op |-> op, docs |-> docs, selections |-> selections, by |-> by]
EveryPage == [all |-> TRUE, pages |-> << >>]
Sel(s) == [all |-> FALSE, pages |-> s]
Some == {<<1>>, <<4, 1>>, <<3, 2>>, << >>, <<1, 1>>, <<2, 4>>}
MCJobs == {Job(op, <<First>>, <<Sel(s)>>, 270) : op \in {"extract", "delete", "rotate"}, s \in Some \cup {<<5>>}}
  \cup {Job("split", <<First>>, <<EveryPage>>, every) : every \in {1, 3, 4}}
  \cup {Job("split", <<First>>, ranges, 0) : ranges \in
            {<<Sel(<<1, 2, 3>>), Sel(<<3, 4>>)>>, <<Sel(<<2>>), Sel(<< >>)>>, <<Sel(<<4, 5>>)>>, << >>}}
  \cup {Job("rotate", <<Second>>, <<Sel(<<2, 1>>)>>, by) : by \in {-90, 90}}
  \cup {Job("merge", <<Bare, other>>, <<EveryPage, EveryPage>>, 0) : other \in {Second, Bare}}
  \cup {Job("merge", <<First, Second>>, <<a, b>>, 0) : a \in {EveryPage} \cup {Sel(s) : s \in Some}, b \in {EveryPage, Sel(<<2>>), Sel(<<1>>)}}
  \cup {Job("merge", <<Second, First>>, <<a, b>>, 0) : b \in {EveryPage} \cup {Sel(s) : s \in Some}, a \in {EveryPage, Sel(<<2>>), Sel(<<1>>)}}
=============================================================================
