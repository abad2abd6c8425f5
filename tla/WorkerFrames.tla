---------------------------- MODULE WorkerFrames ----------------------------
(***************************************************************************)
(* The frames the window and the rendering worker exchange, byte by byte   *)
(* (protocol.rs), and the worker that serves them (worker.rs). A pipe      *)
(* holds the bytes written and not yet read; a read takes what is there,   *)
(* up to what it asks for. RenderService models when a request is sent.    *)
(***************************************************************************)
EXTENDS Integers, SequencesExt

CONSTANTS
    Base,                   \* a byte is 0 .. Base - 1
    IntBytes, LongBytes,    \* the bytes of an u32 and of an u64
    ProtocolVersion,        \* VERSION
    MinWidth, MaxWidth, MaxHeight, MaxPixels,
    MaxText, MaxHello,
    Scripts,    \* the requests the window may make, in order
    Details,    \* what the engine may say, in bytes of UTF-8
    Lies        \* what a worker that is not to be trusted may write instead

VARIABLES
    script,     \* the requests to make
    asked,      \* those written, in order
    toWorker,   \* the standard input of the worker: [bytes, closed]
    worker,     \* [honest, stage, status, loaded, got, taken]
    answered,   \* the replies an honest worker wrote
    toWindow,   \* its standard output
    window      \* [got, heard, fault]: pump_in
framesVars == <<script, asked, toWorker, worker, answered, toWindow, window>>

\* The byte that names a frame, and what a hello starts with.
HelloTag    == 1
DocumentTag == 2
DrawTag     == 3
ReadyTag    == 9
RefusedTag  == 10
OpenedTag   == 11
BitmapTag   == 12
FailedTag   == 13
Magic       == <<6, 9>>

-----------------------------------------------------------------------------
(* Numbers and texts.                                                      *)

\* The little-endian bytes of a number.
LittleEndian(n, width) == [i \in 1 .. width |-> (n \div Base ^ (i - 1)) % Base]
U32(n)  == LittleEndian(n, IntBytes)
U64(n) == LittleEndian(n, LongBytes)
FromBytes(bytes) ==
    LET upTo[i \in 0 .. Len(bytes)] ==
            IF i = 0 THEN 0 ELSE upTo[i - 1] + bytes[i] * Base ^ (i - 1)
    IN  upTo[Len(bytes)]
MaxInt == Base ^ IntBytes - 1

\* UTF-8: the bytes under Continues are characters of their own, a byte
\* from Leads on is followed by one that continues it.
Continues == Base \div 2
Leads     == Base - Base \div 4
IsLead(text, i) == i \in DOMAIN text /\ text[i] >= Leads
IsRest(text, i) == i \in DOMAIN text /\ text[i] \in Continues .. Leads - 1
Stands(text, i) ==
    \/ text[i] < Continues
    \/ IsLead(text, i) /\ IsRest(text, i + 1)
    \/ IsRest(text, i) /\ IsLead(text, i - 1)
IsText(bytes) == \A i \in DOMAIN bytes : Stands(bytes, i)
Replacement == <<Base - 1, Leads - 1>>
FromUtf8Lossy(bytes) ==
    FlattenSeq([i \in DOMAIN bytes |->
                   IF Stands(bytes, i) THEN <<bytes[i]>> ELSE Replacement])

\* For a mutant: the cut may fall inside a character.
ClipAnywhere(text) == SubSeq(text, 1, IF Len(text) < MaxText THEN Len(text) ELSE MaxText)

\* The text, cut to MaxText bytes at most, between two characters.
Clip(text) ==
    LET end == IF Len(text) < MaxText THEN Len(text) ELSE MaxText
    IN  SubSeq(text, 1, IF IsRest(text, end + 1) THEN end - 1 ELSE end)

-----------------------------------------------------------------------------
(* Writing frames. What does not fit its length is refused: << >>.         *)

FrameOf(tag, payload) == <<tag>> \o U32(Len(payload)) \o payload
HeaderSize   == 1 + IntBytes
BitmapHead   == LongBytes + 2 * IntBytes
DocumentHead == 2 * LongBytes + IntBytes

HelloFrame(r) ==
    LET paths   == FlattenSeq([i \in DOMAIN r.candidates |->
                       U32(Len(r.candidates[i])) \o r.candidates[i]])
        payload == Magic \o U32(r.version) \o U32(Len(r.candidates)) \o paths
    IN  IF Len(payload) > MaxHello THEN << >> ELSE FrameOf(HelloTag, payload)
DrawFrame(r) ==
    FrameOf(DrawTag, U64(r.sequence) \o U64(r.id) \o U32(r.page) \o U32(r.width))
\* The document follows the head as it is.
DocumentFrame(r) ==
    LET head == U64(r.sequence) \o U64(r.id) \o U32(Len(r.password)) \o r.password
    IN  IF Len(head) + Len(r.bytes) > MaxInt THEN << >>
        ELSE FrameOf(DocumentTag, head \o r.bytes)
WriteRequest(r) ==
    CASE r.r = "hello"    -> HelloFrame(r)
      [] r.r = "document" -> DocumentFrame(r)
      [] r.r = "draw"     -> DrawFrame(r)

WriteReply(r) ==
    CASE r.r = "ready"   -> FrameOf(ReadyTag, U32(r.version) \o <<IF r.available THEN 1 ELSE 0>>
                                             \o Clip(r.detail))
      [] r.r = "refused" -> FrameOf(RefusedTag, U32(r.version))
      [] r.r = "opened"  -> FrameOf(OpenedTag, U64(r.sequence))
      [] r.r = "bitmap"  -> FrameOf(BitmapTag, U64(r.sequence) \o U32(r.width) \o U32(r.height)
                                              \o r.pixels)
      [] r.r = "failed"  -> FrameOf(FailedTag, U64(r.sequence) \o Clip(r.detail))
-----------------------------------------------------------------------------
(* Reading frames: got holds the bytes read of the frame under way.        *)

PayloadSize(got) == FromBytes(SubSeq(got, 2, HeaderSize))
Ceilings ==
    [worker |-> (HelloTag :> MaxHello) @@ (DocumentTag :> MaxInt)
                  @@ (DrawTag :> 2 * LongBytes + 2 * IntBytes),
     window |-> (ReadyTag :> IntBytes + 1 + MaxText) @@ (RefusedTag :> IntBytes)
                  @@ (OpenedTag :> LongBytes) @@ (BitmapTag :> BitmapHead + 4 * MaxPixels)
                  @@ (FailedTag :> LongBytes + MaxText)]

\* Do the dimensions that start an image keep within bounds, and give its
\* length?
FitsDimensions(got) ==
    LET at     == HeaderSize + LongBytes
        width  == FromBytes(SubSeq(got, at + 1, at + IntBytes))
        height == FromBytes(SubSeq(got, at + IntBytes + 1, at + 2 * IntBytes))
    IN  /\ width \in 1 .. MaxWidth /\ height \in 1 .. MaxHeight
        /\ width * height <= MaxPixels
        /\ PayloadSize(got) = BitmapHead + 4 * width * height

IsBitmap(side, got) == side = "window" /\ got[1] = BitmapTag
\* What the bytes read so far are refused for, before any more is read.
Refusal(side, got) ==
    IF Len(got) = HeaderSize
    THEN IF got[1] \notin DOMAIN Ceilings[side] THEN "unknown"
         ELSE IF PayloadSize(got) > Ceilings[side][got[1]] THEN "toolong"
         ELSE IF IsBitmap(side, got) /\ PayloadSize(got) < BitmapHead THEN "malformed"
         ELSE "none"
    ELSE IF Len(got) = HeaderSize + BitmapHead
    THEN IF IsBitmap(side, got) /\ ~FitsDimensions(got) THEN "dimensions" ELSE "none"
    ELSE "none"
\* How many bytes the read under way asks for; none once the frame is whole.
Asks(side, got) ==
    IF got = << >> THEN 1
    ELSE IF Len(got) < HeaderSize THEN HeaderSize - Len(got)
    ELSE IF IsBitmap(side, got) /\ Len(got) < HeaderSize + BitmapHead
         THEN HeaderSize + BitmapHead - Len(got)
    ELSE HeaderSize + PayloadSize(got) - Len(got)

\* The fields of a payload, from the byte after `at'.
Slice(payload, at, size) == SubSeq(payload, at + 1, at + size)
Holds(payload, size)     == Len(payload) >= size
After(payload, at)        == SubSeq(payload, at + 1, Len(payload))
Malformed == [r |-> "malformed"]

ReadReply(tag, p) ==
    CASE tag = ReadyTag ->
           IF ~Holds(p, IntBytes + 1) THEN Malformed
           ELSE IF p[IntBytes + 1] \notin {0, 1} THEN Malformed
           ELSE [r |-> "ready", version |-> FromBytes(Slice(p, 0, IntBytes)),
                 available |-> p[IntBytes + 1] = 1,
                 detail |-> FromUtf8Lossy(After(p, IntBytes + 1))]
      [] tag = RefusedTag ->
           IF Len(p) # IntBytes THEN Malformed ELSE [r |-> "refused", version |-> FromBytes(p)]
      [] tag = OpenedTag ->
           IF Len(p) # LongBytes THEN Malformed ELSE [r |-> "opened", sequence |-> FromBytes(p)]
      [] tag = BitmapTag ->
           [r |-> "bitmap", sequence |-> FromBytes(Slice(p, 0, LongBytes)),
            width  |-> FromBytes(Slice(p, LongBytes, IntBytes)),
            height |-> FromBytes(Slice(p, LongBytes + IntBytes, IntBytes)),
            pixels |-> After(p, BitmapHead)]
      [] tag = FailedTag ->
           IF ~Holds(p, LongBytes) THEN Malformed
           ELSE [r |-> "failed", sequence |-> FromBytes(Slice(p, 0, LongBytes)),
                 detail |-> FromUtf8Lossy(After(p, LongBytes))]

\* The first n paths of a hello, after its numbers, and what follows them.
PathsIn(payload, n) ==
    LET first[k \in 0 .. n] ==
            LET before == first[k - 1]
                size   == FromBytes(Slice(before.rest, 0, IntBytes))
            IN  IF k = 0 THEN [ok |-> TRUE, paths |-> << >>,
                               rest |-> After(payload, Len(Magic) + 2 * IntBytes)]
                ELSE IF ~before.ok THEN before
                ELSE IF ~Holds(before.rest, IntBytes) THEN [before EXCEPT !.ok = FALSE]
                ELSE IF ~Holds(before.rest, IntBytes + size) THEN [before EXCEPT !.ok = FALSE]
                ELSE [ok |-> TRUE,
                      paths |-> Append(before.paths, Slice(before.rest, IntBytes, size)),
                      rest |-> After(before.rest, IntBytes + size)]
    IN  first[n]

\* A hello of another version is read as far as its version.
ReadHello(p) ==
    LET version == FromBytes(Slice(p, Len(Magic), IntBytes))
        numbers == Len(Magic) + 2 * IntBytes
        listed  == PathsIn(p, FromBytes(Slice(p, Len(Magic) + IntBytes, IntBytes)))
    IN  IF ~Holds(p, Len(Magic) + IntBytes) \/ Slice(p, 0, Len(Magic)) # Magic THEN Malformed
        ELSE IF version # ProtocolVersion
             THEN [r |-> "hello", version |-> version, candidates |-> << >>]
        ELSE IF ~Holds(p, numbers) THEN Malformed
        ELSE IF ~listed.ok \/ listed.rest # << >> THEN Malformed
        ELSE [r |-> "hello", version |-> version, candidates |-> listed.paths]
ReadDocument(p) ==
    LET size     == FromBytes(Slice(p, 2 * LongBytes, IntBytes))
        password == Slice(p, DocumentHead, size)
    IN  IF ~Holds(p, DocumentHead) THEN Malformed
        ELSE IF ~Holds(p, DocumentHead + size) THEN Malformed
        ELSE IF ~IsText(password) THEN Malformed
        ELSE [r |-> "document", sequence |-> FromBytes(Slice(p, 0, LongBytes)),
              id |-> FromBytes(Slice(p, LongBytes, LongBytes)), password |-> password,
              bytes |-> After(p, DocumentHead + size)]
ReadDraw(p) ==
    IF Len(p) # 2 * LongBytes + 2 * IntBytes THEN Malformed
    ELSE [r |-> "draw", sequence |-> FromBytes(Slice(p, 0, LongBytes)),
          id |-> FromBytes(Slice(p, LongBytes, LongBytes)),
          page |-> FromBytes(Slice(p, 2 * LongBytes, IntBytes)),
          width |-> FromBytes(Slice(p, 2 * LongBytes + IntBytes, IntBytes))]
ReadRequest(tag, p) ==
    CASE tag = HelloTag -> ReadHello(p) [] tag = DocumentTag -> ReadDocument(p)
      [] tag = DrawTag -> ReadDraw(p)

\* What an end of file is, met with these bytes read.
AtEnd(got) == IF got = << >> THEN "closed" ELSE "truncated"
-----------------------------------------------------------------------------
(* The worker.                                                             *)

NothingLoaded == 0
Alive(w) == w.stage # "ended"
End(w, status) == [w EXCEPT !.stage = "ended", !.status = status, !.got = << >>]

\* The replies a request may get, each with the worker as it then is; an
\* engine draws an image of any size, or says why not.
Images == {<<w, h>> : w \in 1 .. MaxWidth + 1, h \in 1 .. MaxHeight + 1}
Acceptable(image, width) ==
    /\ image[1] = width
    /\ image[2] <= MaxHeight /\ image[1] * image[2] <= MaxPixels
Raw(image) == [i \in 1 .. 4 * image[1] * image[2] |-> i % Base]

Greetings(w, r) ==
    IF r.r # "hello" THEN {<<End(w, "broken")>>}
    ELSE IF r.version # ProtocolVersion
         THEN {<<End(w, "broken"), [r |-> "refused", version |-> ProtocolVersion]>>}
    ELSE LET ready(available, detail) ==
                 [r |-> "ready", version |-> ProtocolVersion, available |-> available,
                  detail |-> detail]
         IN  {<<[w EXCEPT !.stage = "serving"], ready(TRUE, d)>> : d \in Details}
                 \cup {<<End(w, "done"), ready(FALSE, d)>> : d \in Details}
Failures(w, r) ==
    {<<w, [r |-> "failed", sequence |-> r.sequence, detail |-> d]>> : d \in Details}
Openings(w, r) ==
    {<<[w EXCEPT !.loaded = r.id], [r |-> "opened", sequence |-> r.sequence]>>}
        \cup Failures([w EXCEPT !.loaded = NothingLoaded], r)
Drawings(w, r) ==
    IF w.loaded # r.id \/ r.width \notin MinWidth .. MaxWidth THEN Failures(w, r)
    ELSE {<<w, [r |-> "bitmap", sequence |-> r.sequence, width |-> i[1], height |-> i[2],
                pixels |-> Raw(i)]>> : i \in {i \in Images : Acceptable(i, r.width)}}
             \cup Failures(w, r)
Served(w, r) ==
    IF w.stage = "greeting" THEN Greetings(w, r)
    ELSE IF r.r = "document" THEN Openings(w, r)
    ELSE IF r.r = "draw" THEN Drawings(w, r)
    ELSE {<<End(w, "broken")>>}

\* The bytes read go from the pipe to the reader.
WithoutFirst(pipe, n) == [pipe EXCEPT !.bytes = After(pipe.bytes, n)]
Reads(pipe, side, got, n) ==
    n \in 1 .. (IF Len(pipe.bytes) < Asks(side, got) THEN Len(pipe.bytes) ELSE Asks(side, got))

\* The worker reads some of what came, and serves the request it completes.
WorkerReads ==
    /\ Alive(worker) /\ worker.honest
    /\ \E n \in 1 .. Len(toWorker.bytes) :
        LET got == worker.got \o SubSeq(toWorker.bytes, 1, n)
            r   == ReadRequest(got[1], After(got, HeaderSize))
            w   == [worker EXCEPT !.got = << >>, !.taken = Append(worker.taken, r)]
        IN  /\ Reads(toWorker, "worker", worker.got, n)
            /\ toWorker' = WithoutFirst(toWorker, n)
            /\ IF Refusal("worker", got) # "none"
               THEN worker' = End(worker, "broken") /\ UNCHANGED <<answered, toWindow>>
               ELSE IF Asks("worker", got) > 0
               THEN worker' = [worker EXCEPT !.got = got] /\ UNCHANGED <<answered, toWindow>>
               ELSE IF r = Malformed
               THEN worker' = End(worker, "broken") /\ UNCHANGED <<answered, toWindow>>
               ELSE \E served \in Served(w, r) :
                       /\ worker' = served[1]
                       /\ answered' = answered \o After(served, 1)
                       /\ toWindow' = [toWindow EXCEPT !.bytes =
                              IF Len(served) = 1 THEN @ ELSE @ \o WriteReply(served[2])]
    /\ UNCHANGED <<script, asked, window>>

\* Its input closes: the end of a worker, broken in the middle of a frame.
WorkerStops ==
    /\ Alive(worker) /\ worker.honest
    /\ toWorker.closed /\ toWorker.bytes = << >>
    /\ worker' = End(worker, IF AtEnd(worker.got) = "closed" THEN "done" ELSE "broken")
    /\ UNCHANGED <<script, asked, toWorker, answered, toWindow, window>>

\* It dies, or is killed: what it was writing is cut anywhere.
WorkerDies ==
    /\ Alive(worker)
    /\ worker' = End(worker, "killed")
    /\ \E n \in 0 .. Len(toWindow.bytes) :
           toWindow' = [toWindow EXCEPT !.bytes = SubSeq(toWindow.bytes, 1, n)]
    /\ UNCHANGED <<script, asked, toWorker, answered, window>>

\* One that is not to be trusted writes what it likes, once.
WorkerLies ==
    /\ ~worker.honest /\ worker.stage = "greeting" /\ toWorker.bytes # << >>
    /\ worker' = [worker EXCEPT !.stage = "serving"]
    /\ \E lie \in Lies : toWindow' = [toWindow EXCEPT !.bytes = lie]
    /\ toWorker' = [toWorker EXCEPT !.bytes = << >>]
    /\ UNCHANGED <<script, asked, answered, window>>

\* A worker that ended has closed its end.
WorkerGone ==
    /\ ~Alive(worker) /\ ~toWindow.closed
    /\ toWindow' = [toWindow EXCEPT !.closed = TRUE]
    /\ UNCHANGED <<script, asked, toWorker, worker, answered, window>>
-----------------------------------------------------------------------------
(* The window.                                                             *)

\* The next request, once the one before is answered, by a worker that said
\* it is ready; one that does not fit a frame is given up.
Welcomed == IF window.heard = << >> THEN asked = << >>
            ELSE window.heard[1].r = "ready" /\ window.heard[1].available
WindowAsks ==
    /\ script # << >> /\ ~toWorker.closed /\ window.fault = "none"
    /\ Len(window.heard) = Len(asked) /\ Welcomed
    /\ LET frame == WriteRequest(Head(script))
       IN  /\ script' = IF frame = << >> /\ asked = << >> THEN << >> ELSE Tail(script)
           /\ IF frame = << >> THEN UNCHANGED <<asked, toWorker>>
              ELSE /\ asked' = Append(asked, Head(script))
                   /\ toWorker' = [toWorker EXCEPT !.bytes = @ \o frame]
    /\ UNCHANGED <<worker, answered, toWindow, window>>

\* The worker is not wanted any more, or killed: its input closes, perhaps
\* in the middle of a frame.
WindowCloses ==
    /\ ~toWorker.closed
    /\ \E n \in 0 .. Len(toWorker.bytes) :
           toWorker' = [bytes |-> SubSeq(toWorker.bytes, 1, n), closed |-> TRUE]
    /\ UNCHANGED <<script, asked, worker, answered, toWindow, window>>

\* pump_in: it reads some of what came, until a frame cannot be read.
WindowReads ==
    /\ window.fault = "none"
    /\ \E n \in 1 .. Len(toWindow.bytes) :
        LET got   == window.got \o SubSeq(toWindow.bytes, 1, n)
            reply == ReadReply(got[1], After(got, HeaderSize))
            fault == Refusal("window", got)
        IN  /\ Reads(toWindow, "window", window.got, n)
            /\ toWindow' = WithoutFirst(toWindow, n)
            /\ window' = IF fault # "none" THEN [window EXCEPT !.got = got, !.fault = fault]
                         ELSE IF Asks("window", got) > 0 THEN [window EXCEPT !.got = got]
                         ELSE IF reply = Malformed THEN [window EXCEPT !.fault = "malformed"]
                         ELSE [window EXCEPT !.got = << >>, !.heard = Append(@, reply)]
    /\ UNCHANGED <<script, asked, toWorker, worker, answered>>

WindowMeetsEnd ==
    /\ window.fault = "none" /\ toWindow.closed /\ toWindow.bytes = << >>
    /\ window' = [window EXCEPT !.fault = AtEnd(window.got)]
    /\ UNCHANGED <<script, asked, toWorker, worker, answered, toWindow>>
-----------------------------------------------------------------------------
EmptyPipe == [bytes |-> << >>, closed |-> FALSE]
\* No exchange: for behaviours of the other parts.
FramesIdle ==
    /\ script = << >> /\ asked = << >> /\ answered = << >>
    /\ toWorker = EmptyPipe /\ toWindow = EmptyPipe
    /\ worker = [stage |-> "idle"] /\ window = [stage |-> "idle"]

FramesInit ==
    /\ script \in Scripts /\ asked = << >> /\ answered = << >>
    /\ toWorker = EmptyPipe /\ toWindow = EmptyPipe
    /\ \E honest \in BOOLEAN :
           worker = [honest |-> honest, stage |-> "greeting", status |-> "running",
                     loaded |-> NothingLoaded, got |-> << >>, taken |-> << >>]
    /\ window = [got |-> << >>, heard |-> << >>, fault |-> "none"]

FramesNext ==
    \/ WorkerReads \/ WorkerStops \/ WorkerDies \/ WorkerLies \/ WorkerGone
    \/ WindowAsks \/ WindowCloses \/ WindowReads \/ WindowMeetsEnd
-----------------------------------------------------------------------------
(* What the two sides understand.                                          *)

\* A worker of another version reads no more than the version.
Understood(r) ==
    IF r.r = "hello" /\ r.version # ProtocolVersion THEN [r EXCEPT !.candidates = << >>] ELSE r
\* A text arrives as its longest beginning that fits and is a text.
Begins(text) == {n \in 0 .. Len(text) : n <= MaxText /\ IsText(SubSeq(text, 1, n))}
Longest(text) == SubSeq(text, 1, CHOOSE n \in Begins(text) : \A m \in Begins(text) : m <= n)
Arrived(r) == IF r.r \in {"ready", "failed"} THEN [r EXCEPT !.detail = Longest(@)] ELSE r

\* However the pipes cut what they carry, an honest worker takes the
\* requests made and the window hears its answers, one to a request and for
\* it. None is found to be wrong, but for a frame cut by an end.
ExchangeIsFaithful ==
    /\ IsPrefix(worker.taken, [i \in DOMAIN asked |-> Understood(asked[i])])
    /\ Len(answered) = Len(worker.taken)
    /\ IsPrefix(window.heard, [i \in DOMAIN answered |-> Arrived(answered[i])])
    /\ \A i \in DOMAIN answered :
           answered[i].r \in {"opened", "bitmap", "failed"} =>
               answered[i].sequence = asked[i].sequence
    /\ window.fault \in {"none", "closed", "truncated"}
    /\ window.fault = "truncated" => worker.status = "killed"
    /\ worker.status = "broken" => toWorker.closed \/ asked[1].version # ProtocolVersion

\* Whatever a worker writes, the window reads no more of a frame than its
\* kind and its dimensions allow, and an image it takes is as large as it
\* says, within bounds.
WindowIsSafe ==
    /\ Len(window.got) > HeaderSize =>
         /\ window.got[1] \in DOMAIN Ceilings.window
         /\ Len(window.got) <= HeaderSize + Ceilings.window[window.got[1]]
    /\ \A i \in DOMAIN window.heard :
         LET image == window.heard[i]
         IN  image.r = "bitmap" =>
                 /\ image.width \in 1 .. MaxWidth /\ image.height \in 1 .. MaxHeight
                 /\ image.width * image.height <= MaxPixels
                 /\ Len(image.pixels) = 4 * image.width * image.height

\* The two sides understand each other when the worker is honest, and the
\* window is safe when it is not (protocol.rs:1-15).
FramesCarryWhatWasSaid ==
    worker.stage # "idle" => WindowIsSafe /\ (worker.honest => ExchangeIsFaithful)
=============================================================================
