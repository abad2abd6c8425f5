----------------------------- MODULE MCBanners -----------------------------
(* Inputs of Banners for TLC.                                              *)
EXTENDS Banners

MCFilePages == {<<3, 0>>, <<0>>}
MCTyped == {<<4>>, <<3, Hyphen, 2>>}
MCTypedEvery == {<<1>>}
MCBannerGestures == {
    <<"merge", "delete", "delete", "undo", "undo", "list">>,
    <<"merge", "list", "merge", "list", "list", "delete">>,
    <<"merge", "open", "merge", "list", "undo">>,
    <<"split", "set", "select", "set", "delete", "undo">>,
    <<"merge", "split", "give up", "split", "set">>,
    <<"split", "merge", "select", "split", "open">>,
    <<"select", "split", "set", "give up", "split", "delete">>,
    <<"merge", "select", "split", "set", "give up", "split", "select">>,
    <<"merge", "view", "merge", "undo", "split", "select">> }
Characters == {0, 1, 2, Comma, Hyphen, Plus, Space}
MCFilled ==
    {[text |-> text, pages |-> 2] : text \in UNION {[1 .. n -> Characters] : n \in 0 .. 4}}
    \cup {[text |-> text, pages |-> pages] : pages \in {1, 9},
          text \in {<<1, 5>>, <<1, 6>>, <<0, 0, 1, 4>>, <<1, 0, 0>>, <<Letter, Comma, 9>>,
                    <<9, Hyphen, 8>>, <<ByteOrderMark, 1>>, <<1, NextLine>>,
                    <<2, Hyphen, 4, Comma, 7, Hyphen, 5>>, <<1, Hyphen, 3, Hyphen, 5>>}}
=============================================================================
