------------------------------- MODULE MCFiles -------------------------------
EXTENDS SessionFiles

\* The document can be typed in two ways and has a second hard link.
MCSpelled == [doc |-> <<"doc">>, DOC |-> <<"doc">>, link |-> <<"link">>, other |-> <<"other">>]
MCFolder == [names |-> (<<"doc">> :> 1) @@ (<<"link">> :> 1) @@ (<<"other">> :> 2),
             contents |-> (1 :> Pdf(<<1, 2>>)) @@ (2 :> Pdf(<<7, 8>>))]
MCLocked == [names |-> (<<"doc">> :> 1) @@ (<<"other">> :> 2),
             contents |-> (1 :> Pdf(<<1, 2>>)) @@ (2 :> Locked)]
MCFolders == {MCFolder, MCLocked}
\* The pages in another order, and an order that names one twice.
MCOrders == {<<2, 1>>, <<2, 2, 1>>}
MCCuts == {<<<<2, 1>>, <<1>>>>, <<<<1>>, << >>>>}
Take(path, pages) == [path |-> path, pages |-> pages]
MCMerges == {<<Take("other", NoList)>>, <<Take("DOC", <<2>>), Take("other", <<3>>)>>}
MCRotations == {{1}}
=============================================================================
