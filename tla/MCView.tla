------------------------------- MODULE MCView -------------------------------
(* Arrangements and gestures of PageView for TLC: two pages, and what tends *)
(* to cross: drawings, rotations, another document, the view and its panel. *)
EXTENDS PageView

MCFileOrder    == <<1, 2>>
MCArrangements == {<<1, 2>>, <<2, 1>>, <<2>>}
MCGestures     == {
    <<"view", "turn">>, <<"turn", "open">>, <<"view", "open">>, <<"view", "zoom", "panel">>,
    <<"view", "resize", "close">>, <<"view", "go", "close">>, <<"view", "close", "view">>,
    <<"reorder", "scroll", "fail">> }
=============================================================================
