------------------------------ MODULE MCFrames ------------------------------
(* Inputs of WorkerFrames for TLC: bytes of sixteen values, numbers of two. *)
EXTENDS WorkerFrames

Greeting(version, paths) == [r |-> "hello", version |-> version, candidates |-> paths]
Sent(sequence, password, bytes) ==
    [r |-> "document", sequence |-> sequence, id |-> 20, password |-> password, bytes |-> bytes]
Asked(sequence, id, width) ==
    [r |-> "draw", sequence |-> sequence, id |-> id, page |-> 0, width |-> width]
MCScripts == {
    <<Greeting(1, << <<4>> >>), Sent(17, <<12, 8>>, <<1, 9, 3>>), Asked(18, 20, 2)>>,
    \* A document too long for a frame is given up; its drawing is refused.
    <<Greeting(1, << <<>>, <<15>> >>), Sent(1, << >>, [i \in 1 .. 250 |-> 0]), Asked(2, 20, 1)>>,
    \* An empty document, a width out of bounds and one that is not.
    <<Greeting(1, << >>), Sent(1, << >>, << >>), Asked(2, 20, 9)>>,
    <<Greeting(1, << >>), Asked(3, 20, 1)>>,
    \* A window of another version, and one with too many paths.
    <<Greeting(2, << <<7>> >>), Asked(1, 20, 1)>>,
    <<Greeting(1, << <<1, 2, 3, 4, 5, 6, 7>> >>), Asked(1, 20, 1)>> }

\* Texts that MaxText does not cut, and cuts in a character of two bytes.
MCDetails == {<<1, 14, 9>>, <<1, 2, 13, 8>>}

MCLies == {
    \* More than the kind holds; an image without its dimensions.
    <<BitmapTag, 15, 15>>, <<FailedTag, 6, 0, 1, 0, 1, 1, 1, 1>>,
    FrameOf(BitmapTag, <<1, 0, 2, 0, 1>>),
    \* Dimensions of zero, out of bounds, and that do not give the length.
    FrameOf(BitmapTag, U64(1) \o U32(0) \o U32(1)),
    FrameOf(BitmapTag, U64(1) \o U32(1) \o U32(5) \o [i \in 1 .. 20 |-> 7]),
    FrameOf(BitmapTag, U64(1) \o U32(3) \o U32(2) \o [i \in 1 .. 16 |-> 7]),
    FrameOf(BitmapTag, U64(1) \o U32(2) \o U32(1) \o [i \in 1 .. 7 |-> 7]),
    FrameOf(BitmapTag, U64(1) \o U32(16) \o U32(16) \o [i \in 1 .. 4 |-> 7]),
    \* Frames of no kind, of the other side, too short, too long, of no text.
    <<7>> \o U32(0), FrameOf(DrawTag, U64(1)), FrameOf(OpenedTag, <<1>>),
    FrameOf(RefusedTag, <<1>>), FrameOf(ReadyTag, U32(1) \o <<2>>), FrameOf(ReadyTag, U32(1)),
    FrameOf(FailedTag, U64(1) \o <<13, 13, 8>>),
    \* Answers nobody asked for, of any size within bounds.
    FrameOf(ReadyTag, U32(1) \o <<1, 5>>)
        \o FrameOf(BitmapTag, U64(9) \o U32(1) \o U32(4) \o [i \in 1 .. 16 |-> 7])
        \o FrameOf(OpenedTag, U64(9)) }
=============================================================================
