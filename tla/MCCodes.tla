------------------------------ MODULE MCCodes ------------------------------
(* Inputs of FilterCodes for TLC: bytes of four bits, groups of three.     *)
EXTENDS FilterCodes

ValuesOf(lengths, values) == UNION {[1 .. n -> values] : n \in lengths}
HexJob(bytes, tail) ==
    [coding |-> "hex", bytes |-> bytes, tail |-> tail, cuts |-> tail = << >>, foul |-> FALSE]
Ascii85Job(head, bytes, short, tail, foul) ==
    [coding |-> "ascii85", head |-> head, bytes |-> bytes, short |-> short, tail |-> tail,
     cuts |-> FALSE, foul |-> foul]
RunsJob(runs, tail) ==
    [coding |-> "runs", runs |-> runs, tail |-> tail, cuts |-> tail = << >>, foul |-> FALSE]
Literal(bytes)      == [literal |-> TRUE, bytes |-> bytes]
Times(byte, times)  == [literal |-> FALSE, byte |-> byte, times |-> times]
ParmsOf(predictor, colors, bits, columns) ==
    [predictor |-> predictor, colors |-> colors, bits |-> bits, columns |-> columns]
FlateJob(form, leading, bytes, parms, foul) ==
    [coding |-> "flate", form |-> form, leading |-> leading, bytes |-> bytes, parms |-> parms,
     cuts |-> ~foul, foul |-> foul]
PngJob(bytes, parms, types) ==
    [coding |-> "png", form |-> "zlib", leading |-> 0, bytes |-> bytes, parms |-> parms,
     types |-> types, cuts |-> TRUE, foul |-> FALSE]
TiffJob(rows, parms) ==
    [coding |-> "tiff", form |-> "zlib", leading |-> 0, rows |-> rows, parms |-> parms,
     cuts |-> TRUE, foul |-> FALSE]
None == ParmsOf(1, 1, 4, 1)

MCCodeJobs ==
    {HexJob(bytes, tail) : bytes \in ValuesOf(0 .. 3, {0, 15}) \cup ValuesOf({10, 11}, {9}),
                           tail \in {<< >>, <<EndMark, 3, NoDigit>>}}
    \cup {Ascii85Job(head, bytes, short, tail, FALSE) :
              head \in {<< >>, <<White, OpenMark, EndMark, White>>},
              bytes \in ValuesOf(0 .. 4, {0, 15}) \cup ValuesOf({10, 11}, {9}),
              short \in BOOLEAN, tail \in {<< >>, <<White, EndMark, NoDigit>>}}
    \cup {Ascii85Job(text, << >>, FALSE, << >>, TRUE) :
              text \in {<<3>>, <<0, 1, 2, 3, 4>>, <<2, Zero>>, <<1, 2, NoDigit>>, <<8, 8, 8, 8>>,
                        <<8, 8, 8>>, <<White, OpenMark>>}}
    \cup {RunsJob(runs, tail) :
              runs \in ValuesOf(0 .. 2, {Literal(<<5>>), Literal(<<8, 0, 15>>), Literal([i \in 1 .. 8 |-> i]),
                                         Times(8, 2), Times(3, 6)}),
              tail \in {<< >>, <<8, 1, 1>>}}
    \cup {FlateJob(form, leading, bytes, None, FALSE) : form \in {"zlib", "raw"}, leading \in {0},
              bytes \in ValuesOf({0, 1, 2, 10, 11}, {6})}
    \cup {FlateJob("zlib", 2, <<1, 2>>, None, FALSE), FlateJob("nothing", 2, << >>, None, FALSE),
          FlateJob("damaged", 0, <<1, 2>>, None, TRUE), FlateJob("raw", 1, <<1, 2>>, None, TRUE)}
    \cup {FlateJob("zlib", 0, <<5, 1>>, parms, TRUE) :
              parms \in {ParmsOf(3, 1, 4, 1), ParmsOf(12, 0, 4, 1), ParmsOf(12, 3, 4, 1),
                         ParmsOf(2, 1, 3, 1), ParmsOf(2, 1, 4, 0), ParmsOf(15, 1, 4, 1)}}
    \cup {PngJob(bytes, parms, types) :
              bytes \in {<<0, 15, 6, 15>>, <<15, 6, 6, 0>>, <<6, 9, 15, 9>>, <<1, 9, 4, 12, 15, 3>>},
              parms \in {ParmsOf(15, 1, 4, 2), ParmsOf(12, 2, 2, 3)},
              types \in [1 .. 3 -> 0 .. 4]}
    \cup {TiffJob(rows, ParmsOf(2, 1, 4, 2)) : rows \in [1 .. 2 -> ValuesOf({2}, {6, 15})]}
    \cup {TiffJob(rows, ParmsOf(2, 2, 8, 2)) : rows \in {<< <<1, 255, 16, 130>> >>, << <<7, 0, 7, 0>> >>}}
    \cup {TiffJob(rows, ParmsOf(2, 2, 1, 3)) : rows \in [1 .. 2 -> {<<1, 0, 1, 1, 0, 0>>, <<0, 1, 0, 0, 1, 1>>}]}
    \cup {TiffJob(rows, ParmsOf(2, 1, 2, 3)) : rows \in [1 .. 1 -> [1 .. 3 -> {0, 1, 3}]]}
=============================================================================
