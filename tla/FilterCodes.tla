---------------------------- MODULE FilterCodes ----------------------------
(***************************************************************************)
(* The decoders of streams (filters.rs), byte by byte, for bytes of        *)
(* ByteBits bits of which a hexadecimal digit writes half, and groups of   *)
(* GroupBytes bytes. StreamFilters models which of them a stream goes      *)
(* through. The library that inflates is external: it gives the bytes      *)
(* before the first fault, and says whether it met one.                    *)
(***************************************************************************)
EXTENDS Integers, SequencesExt

CONSTANTS
    ByteBits,               \* a byte is 0 .. 2 ^ ByteBits - 1
    Radix, GroupBytes,      \* a group of ASCII85: so many bytes, one digit more
    MaxDecoded,             \* DecodeLimits::max_output
    MaxColors,              \* MAX_COLORS
    CodeJobs                \* what is coded, and how: see TextOf

ASSUME FilterAssumption ==
    /\ {ByteBits, Radix, GroupBytes} \subseteq Nat \ {0}
    /\ Radix ^ (GroupBytes + 1) >= 2 ^ (ByteBits * GroupBytes)

VARIABLES
    coded,      \* [job, text, cut]: what is decoded, so many bytes missing at its end
    decoded     \* [ok, bytes] once it is
codesVars == <<coded, decoded>>

ByteSize == 2 ^ ByteBits
WordSize == ByteSize ^ GroupBytes
HalfSize == 2 ^ (ByteBits \div 2)
Yields(bytes) == [ok |-> TRUE, bytes |-> bytes]
Refused        == [ok |-> FALSE, bytes |-> << >>]
Pending        == [ok |-> FALSE, bytes |-> <<0>>]

\* The characters that are no digit. An opening mark is one elsewhere.
EndMark == -1   \* > or ~
White   == -2
NoDigit == -3
Zero    == -4   \* z
OpenMark == 1   \* <

FirstOnes(s, n) == SubSeq(s, 1, IF n < Len(s) THEN n ELSE Len(s))
StartingAt(s, n) == SubSeq(s, n, Len(s))
UpTo(n, d)      == (n + d - 1) \div d
Chunks(s, size) ==
    [k \in 1 .. UpTo(Len(s), size) |-> FirstOnes(StartingAt(s, (k - 1) * size + 1), size)]
UntilMark(s)    == FirstOnes(s, SelectInSeq(s \o <<EndMark>>, LAMBDA c : c = EndMark) - 1)

\* The bytes of a group, the first one the heaviest.
GroupOf(word) ==
    [i \in 1 .. GroupBytes |-> (word \div ByteSize ^ (GroupBytes - i)) % ByteSize]
-----------------------------------------------------------------------------
(* ASCIIHexDecode and ASCII85Decode.                                       *)

\* What is no digit is skipped; a last digit alone is the high half.
HexDecode(text) ==
    LET digits == SelectSeq(UntilMark(text), LAMBDA c : c \in 0 .. HalfSize - 1)
    IN  [i \in 1 .. UpTo(Len(digits), 2) |->
            digits[2 * i - 1] * HalfSize + (IF 2 * i <= Len(digits) THEN digits[2 * i] ELSE 0)]

\* One more digit, unless the group no longer fits a word.
Pushed(s, digit) ==
    LET acc == s.acc * Radix + digit
    IN  IF acc >= WordSize THEN [s EXCEPT !.ok = FALSE]
        ELSE [s EXCEPT !.acc = acc, !.count = @ + 1]
Closing(s) ==
    IF s.count <= GroupBytes THEN s
    ELSE [s EXCEPT !.bytes = @ \o GroupOf(s.acc), !.acc = 0, !.count = 0]
Ascii85Step(s, c) ==
    IF ~s.ok \/ c = White THEN s
    ELSE IF c = Zero /\ s.count = 0 THEN [s EXCEPT !.bytes = @ \o GroupOf(0)]
    ELSE IF c \in 0 .. Radix - 1 THEN Closing(Pushed(s, c))
    ELSE [s EXCEPT !.ok = FALSE]

\* For a mutant: the last group is padded with the least digit.
PaddedLow(s) == FoldLeft(LAMBDA t, i : IF t.ok THEN Pushed(t, 0) ELSE t, s,
                         [i \in 1 .. GroupBytes + 1 - s.count |-> i])
\* The last group, padded with the greatest digit.
Padded(s) == FoldLeft(LAMBDA t, i : IF t.ok THEN Pushed(t, Radix - 1) ELSE t, s,
                      [i \in 1 .. GroupBytes + 1 - s.count |-> i])
LastGroup(s) ==
    IF ~s.ok \/ s.count = 1 THEN Refused
    ELSE IF s.count = 0 THEN Yields(s.bytes)
    ELSE IF ~Padded(s).ok THEN Refused
    ELSE Yields(s.bytes \o FirstOnes(GroupOf(Padded(s).acc), s.count - 1))

\* Whitespace, then perhaps an opening mark, before the first group.
Unopened(text) ==
    LET body == StartingAt(text, SelectInSeq(text \o <<NoDigit>>, LAMBDA c : c # White))
    IN  IF FirstOnes(body, 2) = <<OpenMark, EndMark>> THEN StartingAt(body, 3) ELSE body
Ascii85Decode(text) ==
    LastGroup(FoldLeft(Ascii85Step, [ok |-> TRUE, bytes |-> << >>, acc |-> 0, count |-> 0],
                   UntilMark(Unopened(text))))
-----------------------------------------------------------------------------
(* RunLengthDecode and FlateDecode.                                        *)

\* Each length is that of the bytes that follow as they are, or, past the
\* end of data, of a byte repeated. Of a run cut short what is there is kept.
RunLengthDecode(text) ==
    LET half == ByteSize \div 2
        Run(i)  == IF text[i] < half THEN FirstOnes(StartingAt(text, i + 1), text[i] + 1)
                   ELSE [k \in 1 .. ByteSize + 1 - text[i] |-> text[i + 1]]
        Past(i) == IF text[i] < half THEN i + text[i] + 2 ELSE i + 2
        Over(i) == IF i > Len(text) THEN TRUE
                   ELSE text[i] = half \/ (text[i] > half /\ i = Len(text))
        after[runs \in 0 .. Len(text)] ==
            IF runs = 0 THEN [ok |-> TRUE, bytes |-> << >>, at |-> 1]
            ELSE LET s == after[runs - 1]
                 IN  IF ~s.ok \/ Over(s.at) THEN s
                     ELSE [ok    |-> Len(s.bytes \o Run(s.at)) <= MaxDecoded,
                           bytes |-> s.bytes \o Run(s.at), at |-> Past(s.at)]
    IN  IF after[Len(text)].ok THEN Yields(after[Len(text)].bytes) ELSE Refused

\* What the library reads of a stream in the form it is asked to read, and
\* whether it failed. With no bytes at all nothing is asked.
Inflated(job, sound, whole, form) ==
    IF job.form = form THEN [bytes |-> sound, failed |-> ~whole]
    ELSE [bytes |-> << >>, failed |-> TRUE]
Useful(read)  == ~read.failed \/ read.bytes # << >>
Bounded(read) == IF Len(read.bytes) > MaxDecoded THEN Refused ELSE Yields(read.bytes)
\* Whitespace is skipped before a header, and not before raw data.
FlateDecode(job, sound, whole) ==
    LET zlib == Inflated(job, sound, whole, "zlib")
        raw  == Inflated(job, sound, whole, IF job.leading = 0 THEN "raw" ELSE "none")
    IN  IF job.form = "nothing" THEN Yields(<< >>)
        ELSE IF Useful(zlib) THEN Bounded(zlib)
        ELSE IF Useful(raw) THEN Bounded(raw)
        ELSE Refused
-----------------------------------------------------------------------------
(* Predictors: p holds [predictor, colors, bits, columns].                 *)

Depths == {n \in {1, 2, 4, ByteBits, 2 * ByteBits} : n <= ByteBits => ByteBits % n = 0}
IsSound(p) ==
    /\ p.predictor \in {2} \cup 10 .. 15
    /\ p.colors \in 1 .. MaxColors /\ p.bits \in Depths /\ p.columns >= 1
RowLen(p) == UpTo(p.colors * p.bits * p.columns, ByteBits)
\* Bytes per pixel, rounded up.
PixelLen(p) == UpTo(p.colors * p.bits, ByteBits)

Gap(a, b) == IF a < b THEN b - a ELSE a - b
PaethOf(a, b, c) ==
    LET p  == a + b - c
        pa == Gap(p, a)
        pb == Gap(p, b)
        pc == Gap(p, c)
    IN  IF pa <= pb /\ pa <= pc THEN a ELSE IF pb <= pc THEN b ELSE c
Foretold(type, left, up, upLeft) ==
    CASE type = 0 -> 0 [] type = 1 -> left [] type = 2 -> up
      [] type = 3 -> (left + up) \div 2 [] type = 4 -> PaethOf(left, up, upLeft)

\* A row after the one above it; what is before the first pixel is zero.
At(row, i) == IF i \in DOMAIN row THEN row[i] ELSE 0
PngRow(row, above, pixel) ==
    LET cur[i \in 1 .. Len(row) - 1] ==
            (row[i + 1] + Foretold(row[1], IF i > pixel THEN cur[i - pixel] ELSE 0,
                                   At(above, i), At(above, i - pixel))) % ByteSize
    IN  cur
PngUnpredict(data, p) ==
    LET rows == Chunks(data, RowLen(p) + 1)
        done[k \in 0 .. Len(rows)] ==
            IF k = 0 THEN << >> ELSE PngRow(rows[k], IF k = 1 THEN << >> ELSE done[k - 1], PixelLen(p))
    IN  IF \E k \in DOMAIN rows : rows[k][1] > 4 /\ Len(rows[k]) > 1 THEN Refused
        ELSE Yields(FlattenSeq([k \in DOMAIN rows |-> done[k]]))

\* The samples of a row, and the row of these samples.
Unpacked(row, bits) ==
    LET per == ByteBits \div bits
    IN  IF bits > ByteBits
        THEN [i \in 1 .. Len(row) \div 2 |-> row[2 * i - 1] * ByteSize + row[2 * i]]
        ELSE [i \in 1 .. Len(row) * per |->
                 (row[(i - 1) \div per + 1] \div 2 ^ (bits * (per - 1 - ((i - 1) % per)))) % 2 ^ bits]
Repacked(samples, bits) ==
    LET per == ByteBits \div bits
        Part(i, k) == At(samples, (i - 1) * per + k) * 2 ^ (bits * (per - k))
    IN  IF bits > ByteBits
        THEN FlattenSeq([i \in DOMAIN samples |-> <<samples[i] \div ByteSize, samples[i] % ByteSize>>])
        ELSE [i \in 1 .. UpTo(Len(samples), per) |->
                 FoldLeft(LAMBDA sum, k : sum + Part(i, k), 0, [k \in 1 .. per |-> k])]
\* Each sample is added to the one of its component on its left. Bits past
\* the last sample go; a byte that is no sample stays.
TiffRow(row, p) ==
    LET raw  == Unpacked(row, p.bits)
        kept == IF p.bits < ByteBits THEN FirstOnes(raw, p.colors * p.columns) ELSE raw
        cur[i \in DOMAIN kept] ==
            (kept[i] + (IF i > p.colors THEN cur[i - p.colors] ELSE 0)) % 2 ^ p.bits
        odd  == IF p.bits > ByteBits /\ Len(row) % 2 = 1 THEN <<Last(row)>> ELSE << >>
    IN  Repacked(cur, p.bits) \o odd
TiffUnpredict(data, p) ==
    LET rows == Chunks(data, RowLen(p))
    IN  FlattenSeq([k \in DOMAIN rows |-> TiffRow(rows[k], p)])

ApplyPredictor(data, p) ==
    IF p.predictor = 1 THEN Yields(data)
    ELSE IF ~IsSound(p) THEN Refused
    ELSE IF p.predictor = 2 THEN Yields(TiffUnpredict(data, p))
    ELSE PngUnpredict(data, p)
-----------------------------------------------------------------------------
(* What the codings mean: the text of what a job codes.                    *)

HexOf(bytes) ==
    FlattenSeq([i \in DOMAIN bytes |-> <<bytes[i] \div HalfSize, bytes[i] % HalfSize>>])

\* A group is the number its bytes write, in base Radix; of a last group of
\* n bytes, filled up with zeros, n + 1 digits are kept.
GroupDigits(group) ==
    LET word == FoldLeft(LAMBDA v, i : v * ByteSize + At(group, i), 0,
                         [i \in 1 .. GroupBytes |-> i])
    IN  [i \in 1 .. Len(group) + 1 |-> (word \div Radix ^ (GroupBytes + 1 - i)) % Radix]
Shortened(group, short) ==
    IF short /\ Len(group) = GroupBytes /\ \A i \in DOMAIN group : group[i] = 0
    THEN <<Zero>> ELSE GroupDigits(group)
Ascii85Of(bytes, short) ==
    FlattenSeq([k \in DOMAIN Chunks(bytes, GroupBytes) |->
                   Shortened(Chunks(bytes, GroupBytes)[k], short)])

\* Runs of [bytes] as they are, or of [byte, times].
RunBytes(run) == IF run.literal THEN run.bytes ELSE [k \in 1 .. run.times |-> run.byte]
RunText(run)  == IF run.literal THEN <<Len(run.bytes) - 1>> \o run.bytes
                 ELSE <<ByteSize + 1 - run.times, run.byte>>

\* The first of left, up and up-left that is nearest to left + up - up-left.
NearestOf(a, b, c) ==
    LET three == <<a, b, c>>
        Off(i) == Gap(a + b - c, three[i])
    IN  three[CHOOSE i \in 1 .. 3 : \A j \in 1 .. 3 : Off(i) < Off(j) \/ (Off(i) = Off(j) /\ i <= j)]
PngOf(bytes, p, types) ==
    LET rows == Chunks(bytes, RowLen(p))
        back == PixelLen(p)
        Above(k) == IF k = 1 THEN << >> ELSE rows[k - 1]
        Guess(k, i) ==
            CASE types[k] = 0 -> 0 [] types[k] = 1 -> At(rows[k], i - back)
              [] types[k] = 2 -> At(Above(k), i)
              [] types[k] = 3 -> (At(rows[k], i - back) + At(Above(k), i)) \div 2
              [] types[k] = 4 -> NearestOf(At(rows[k], i - back), At(Above(k), i), At(Above(k), i - back))
    IN  FlattenSeq([k \in DOMAIN rows |->
            <<types[k]>> \o [i \in DOMAIN rows[k] |-> (rows[k][i] - Guess(k, i)) % ByteSize]])
\* The differences of the samples of each row.
TiffOf(rows, p) ==
    FlattenSeq([k \in DOMAIN rows |->
        Repacked([i \in DOMAIN rows[k] |->
                     (rows[k][i] - At(rows[k], i - p.colors)) % 2 ^ p.bits], p.bits)])

\* A job: its text, what is inflated of it for Flate, and the bytes it
\* stands for. A text no coder writes is given as it is.
TextOf(job) ==
    CASE job.coding = "hex"     -> HexOf(job.bytes) \o job.tail
      [] job.coding = "ascii85" -> job.head \o Ascii85Of(job.bytes, job.short) \o job.tail
      [] job.coding = "runs"    -> FlattenSeq([k \in DOMAIN job.runs |-> RunText(job.runs[k])]) \o job.tail
      [] job.coding = "flate"   -> job.bytes
      [] job.coding = "png"     -> PngOf(job.bytes, job.parms, job.types)
      [] job.coding = "tiff"    -> TiffOf(job.rows, job.parms)
BytesOf(job) ==
    CASE job.coding = "runs" -> FlattenSeq([k \in DOMAIN job.runs |-> RunBytes(job.runs[k])])
      [] job.coding = "tiff" -> FlattenSeq([k \in DOMAIN job.rows |->
                                                Repacked(job.rows[k], job.parms.bits)])
      [] OTHER -> job.bytes
IsFlate(job) == job.coding \in {"flate", "png", "tiff"}
-----------------------------------------------------------------------------
(* A stream is read: decode_stream_with with one filter.                   *)

ApplyCode(job, text, whole) ==
    CASE job.coding = "hex"     -> Yields(HexDecode(text))
      [] job.coding = "ascii85" -> Ascii85Decode(text)
      [] job.coding = "runs"    -> RunLengthDecode(text)
      [] IsFlate(job) ->
            LET inflated == FlateDecode(job, text, whole)
            IN  IF inflated.ok THEN ApplyPredictor(inflated.bytes, job.parms) ELSE Refused
DecodeOne(job, text, whole) ==
    LET out == ApplyCode(job, text, whole)
    IN  IF Len(out.bytes) > MaxDecoded THEN Refused ELSE out

NothingCoded == [cut |-> 0]
CodesIdle == coded = NothingCoded /\ decoded = Pending
\* A text may lack its end; a deflated stream is faulty there.
CodesInit ==
    /\ decoded = Pending
    /\ \E job \in CodeJobs :
        LET text == TextOf(job)
        IN  \E cut \in 0 .. (IF job.cuts THEN Len(text) ELSE 0) :
                coded = [job |-> job, text |-> FirstOnes(text, Len(text) - cut), cut |-> cut]
CodesNext ==
    /\ decoded = Pending
    /\ decoded' = DecodeOne(coded.job, coded.text, coded.cut = 0)
    /\ UNCHANGED coded
-----------------------------------------------------------------------------
\* How much a text that lacks its end still says.
ReadAtLeast(job, text) ==
    CASE job.coding = "hex" -> UpTo(Len(text), 2)
      [] job.coding = "runs" -> 0
      [] job.coding = "png" -> Len(text) - UpTo(Len(text), RowLen(job.parms) + 1)
      [] OTHER -> Len(text)

\* What is coded is read back to the byte, whatever its coder chose, up to
\* the limit and not past it. Of a text that lacks its end the beginning is
\* read: only its last byte, of which a part is missing, may differ. A text
\* that no coder writes is refused (filters.rs:10-17).
CodesReadBack ==
    decoded # Pending =>
        LET job   == coded.job
            bytes == BytesOf(job)
            fits  == Len(IF IsFlate(job) THEN coded.text ELSE bytes) <= MaxDecoded
        IN  IF job.foul \/ (IsFlate(job) /\ coded.text = << >> /\ coded.cut > 0) THEN ~decoded.ok
            ELSE IF coded.cut = 0 THEN decoded = (IF fits THEN Yields(bytes) ELSE Refused)
            ELSE /\ fits => decoded.ok
                 /\ decoded.ok => /\ Len(decoded.bytes) <= MaxDecoded
                                  /\ IsPrefix(FirstOnes(decoded.bytes, Len(decoded.bytes) - 1), bytes)
                 /\ fits => Len(decoded.bytes) >= ReadAtLeast(job, coded.text)
=============================================================================
