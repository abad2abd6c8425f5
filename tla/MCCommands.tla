----------------------------- MODULE MCCommands -----------------------------
(* Inputs of CommandLine for TLC.                                          *)
EXTENDS CommandLine

FirstInput  == FileName("first")
SecondInput == FileName("second")
Absent == FileName("absent")
SheetsOf(ids) == [i \in DOMAIN ids |-> Sheet(ids[i], 90 * (ids[i] % 2))]
MCShelves == {
    (FirstInput :> ShelfFile(SheetsOf(<<1, 2, 3>>)))
    @@ (SecondInput :> [ShelfFile(SheetsOf(<<4, 5>>)) EXCEPT !.ciphered = TRUE, !.opens = {"key"}]) }

Both == <<FirstInput, SecondInput>>
Merger == [id |-> "merger", actions |-> {"merge"}, params |-> {"title"}]
Twin   == [Merger EXCEPT !.id = "twin"]
Title(good) == <<[name |-> "title", good |-> good]>>
MCCliCommands == {
    InfoCommand(FirstInput, ""), InfoCommand(Absent, ""), ModulesCommand,
    RewriteCommand(SecondInput, SecondInput, "key"), RewriteCommand(SecondInput, FirstInput, ""),
    MergeCommand(Both, << >>, FirstInput, "key"),
    MergeCommand(Both, <<<<AllWord>>, <<2, Comma, 2>>>>, SecondInput, "key"),
    MergeCommand(Both, <<<<1>>>>, Absent, "key"),
    MergeCommand(<<FirstInput, Absent>>, << >>, FirstInput, "key"),
    ExtractCommand(FirstInput, <<3, Hyphen, 2>>, FirstInput, ""),
    ExtractCommand(FirstInput, <<1, Comma, 1>>, Absent, ""),
    DeleteCommand(FirstInput, <<1, Hyphen, 2>>, SecondInput, ""),
    DeleteCommand(FirstInput, <<1, Hyphen, 3>>, SecondInput, ""),
    RotateCommand(FirstInput, <<1, Comma, 3>>, -90, FirstInput, ""),
    RotateCommand(FirstInput, <<1>>, 45, FirstInput, ""),
    SplitCommand(FirstInput, <<2>>, << >>, "parts", ""),
    SplitCommand(FirstInput, << >>, <<<<1, Hyphen, 2, Comma, 1, Hyphen, 3, Comma, 1, Hyphen, 2>>>>,
                 "parts", ""),
    SplitCommand(FirstInput, <<0>>, << >>, "parts", ""),
    RunCommand("merge", Both, FirstInput, Title(TRUE), <<Merger>>, << >>, "key"),
    RunCommand("merge", Both, FirstInput, Title(FALSE), <<Merger>>, << >>, "key"),
    RunCommand("merge", Both, FirstInput, << >>, <<Merger, Twin>>, << >>, "key"),
    RunCommand("merge", Both, Absent, << >>, <<Merger, Twin>>, <<"twin">>, "key") }
=============================================================================
