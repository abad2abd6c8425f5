----------------------------- MODULE PageLists -----------------------------
(***************************************************************************)
(* The page lists that are typed, `1,3,5-8', read twice: by the command    *)
(* line (fyp-cli, parse_pages) and by the window (pagerange.ts), which     *)
(* must agree to the word; and the ways of sharing pages out (split.ts,    *)
(* ranges_every of ops.rs). A text is a sequence of characters.            *)
(***************************************************************************)
EXTENDS Integers, SequencesExt

CONSTANTS
    MaxNumber,      \* usize::MAX, USIZE_MAX
    ExactDigits     \* how many digits a number of the window holds exactly

ASSUME ListAssumption == MaxNumber >= 10 ^ ExactDigits

\* Characters: the digits, and these.
Comma == -1
Hyphen == -2
Plus == -3
Letter == -4
Space == -5
ByteOrderMark == -6     \* a blank of JavaScript and not of Rust
NextLine == -7          \* a blank of Rust and not of JavaScript
JsBlanks   == {Space, ByteOrderMark}
RustBlanks == {Space, NextLine}

Trimmed(text, blanks) ==
    LET kept == {i \in DOMAIN text : text[i] \notin blanks}
    IN  IF kept = {} THEN << >> ELSE SubSeq(text, Min(kept), Max(kept))
\* The last of the ends before i.
EndBefore(ends, i) == Max({e \in ends \cup {0} : e < i})
\* The pieces between commas, trimmed, but for the empty ones.
ListParts(text, blanks) ==
    LET ends     == {i \in DOMAIN text : text[i] = Comma} \cup {Len(text) + 1}
        Piece(i) == Trimmed(SubSeq(text, EndBefore(ends, i) + 1, i - 1), blanks)
    IN  FlattenSeq([i \in 1 .. Len(text) + 1 |->
            IF i \in ends /\ Piece(i) # << >> THEN <<Piece(i)>> ELSE << >>])
Hyphens(part)     == {i \in DOMAIN part : part[i] = Hyphen}
FirstHyphen(part) == IF Hyphens(part) = {} THEN 0 ELSE Min(Hyphens(part))
LastHyphen(part)  == Max(Hyphens(part) \cup {0})
LeftOf(part, at)   == SubSeq(part, 1, at - 1)
RightOf(part, at)  == SubSeq(part, at + 1, Len(part))

NumberOf(digits)   == FoldLeft(LAMBDA n, digit : 10 * n + digit, 0, digits)
AreDigits(text)    == text # << >> /\ ToSet(text) \subseteq 0 .. 9
Unsigned(typed)    == IF typed # << >> /\ Head(typed) = Plus THEN Tail(typed) ELSE typed
PagesRead(pages)   == [is |-> "pages", pages |-> pages]     \* counted from 0
NotANumber(text)   == [is |-> "not a number", text |-> text]
OutOfBounds(n)     == [is |-> "out of bounds", page |-> n]
NothingGiven       == [is |-> "nothing"]
IsRead(r)          == r.is = "pages"
PageOf(r)          == r.pages[1]
OfTheDocument(n, count) == IF n \in 1 .. count THEN PagesRead(<<n - 1>>) ELSE OutOfBounds(n)
\* What is refused first refuses the list.
OrRefused(first, second, joined) ==
    IF ~IsRead(first) THEN first ELSE IF ~IsRead(second) THEN second ELSE joined
Further(r, more) == OrRefused(r, more, PagesRead(r.pages \o more.pages))
NotEmpty(r)      == IF r = PagesRead(<< >>) THEN NothingGiven ELSE r
Gathered(results) == NotEmpty(FoldLeft(Further, PagesRead(<< >>), results))
-----------------------------------------------------------------------------
(* The command line.                                                       *)

RustDigits(typed, digits, count) ==
    IF ~AreDigits(digits) THEN NotANumber(typed)
    ELSE IF NumberOf(digits) > MaxNumber THEN NotANumber(typed)
    ELSE OfTheDocument(NumberOf(digits), count)
RustTyped(typed, count) == RustDigits(typed, Unsigned(typed), count)
RustNumber(text, count) == RustTyped(Trimmed(text, RustBlanks), count)
Upward(from, to) == [k \in 1 .. to - from + 1 |-> from + k - 1]
RustRange(from, to) ==
    OrRefused(from, to, PagesRead(
        IF PageOf(from) <= PageOf(to) THEN Upward(PageOf(from), PageOf(to))
        ELSE Reverse(Upward(PageOf(to), PageOf(from)))))
RustPart(part, count, at) ==
    IF at = 0 THEN RustNumber(part, count)
    ELSE RustRange(RustNumber(LeftOf(part, at), count), RustNumber(RightOf(part, at), count))
parse_pages(text, count) ==
    LET parts == ListParts(text, RustBlanks)
    IN  Gathered([k \in DOMAIN parts |-> RustPart(parts[k], count, FirstHyphen(parts[k]))])

\* The ranges of `fyp split', each [first, last], last excluded.
Backward(part)   == [is |-> "backward", part |-> part]
RangeOf(part, r) ==
    IF ~IsRead(r) THEN r
    ELSE IF Head(r.pages) > Last(r.pages) THEN Backward(part)
    ELSE PagesRead(<< [first |-> Head(r.pages), last |-> Last(r.pages) + 1] >>)
parse_ranges(text, count) ==
    LET parts == ListParts(text, RustBlanks)
    IN  Gathered([k \in DOMAIN parts |-> RangeOf(parts[k], parse_pages(parts[k], count))])
\* A range of so many pages after the other, the last one shorter.
ranges_every(count, every) ==
    IF every = 0 THEN << >>
    ELSE [k \in 1 .. (count + every - 1) \div every |->
             [first |-> (k - 1) * every,
              last  |-> IF k * every < count THEN k * every ELSE count]]
-----------------------------------------------------------------------------
(* The window.                                                             *)

\* A digit that follows is kept, so that a zero alone stays.
NoLeadingZero(digits) ==
    SubSeq(digits, Min({i \in DOMAIN digits : digits[i] # 0 \/ i = Len(digits)}), Len(digits))
Decimals(n) ==
    LET size == CHOOSE k \in 1 .. 20 : 10 ^ (k - 1) <= n /\ n < 10 ^ k
    IN  [i \in 1 .. size |-> (n \div 10 ^ (size - i)) % 10]
\* Texts of the same length are compared as texts.
IsAbove(digits, others) ==
    \/ Len(digits) > Len(others)
    \/ /\ Len(digits) = Len(others)
       /\ \E i \in DOMAIN digits : /\ digits[i] > others[i]
                                   /\ \A j \in 1 .. i - 1 : digits[j] = others[j]
JsDigits(typed, digits, count) ==
    IF IsAbove(digits, Decimals(MaxNumber)) THEN NotANumber(typed)
    ELSE IF Len(digits) > ExactDigits THEN OutOfBounds(NumberOf(digits))
    ELSE OfTheDocument(NumberOf(digits), count)
JsTyped(typed, count) ==
    IF ~AreDigits(Unsigned(typed)) THEN NotANumber(typed)
    ELSE JsDigits(typed, NoLeadingZero(Unsigned(typed)), count)
pageNumber(text, count) == JsTyped(Trimmed(text, JsBlanks), count)
\* From one page to the other, a step at a time in the direction it takes.
Stepped(from, to, step) == [k \in 1 .. (to + step - from) * step |-> from + (k - 1) * step]
JsRange(from, to) ==
    OrRefused(from, to, PagesRead(Stepped(PageOf(from), PageOf(to),
                                          IF PageOf(from) <= PageOf(to) THEN 1 ELSE -1)))
PartAt(part, count, at) ==
    IF at = 0 THEN pageNumber(part, count)
    ELSE JsRange(pageNumber(LeftOf(part, at), count), pageNumber(RightOf(part, at), count))
\* For a mutant: a range is split at its last hyphen.
PartAtLast(part, count) == PartAt(part, count, LastHyphen(part))
Part(part, count) == PartAt(part, count, FirstHyphen(part))
parsePages(text, count) ==
    LET parts == ListParts(text, JsBlanks)
    IN  Gathered([k \in DOMAIN parts |-> Part(parts[k], count)])

\* The field of a file: every page, or these, each once.
AllOfIt == [is |-> "all"]
Repeated(pages) == {i \in DOMAIN pages : \E j \in 1 .. i - 1 : pages[j] = pages[i]}
EachOnce(r) ==
    IF IsRead(r) /\ ~IsInjective(r.pages)
    THEN [is |-> "twice", page |-> r.pages[Min(Repeated(r.pages))]] ELSE r
readPages(text, count) ==
    IF Trimmed(text, JsBlanks) = << >> THEN AllOfIt ELSE EachOnce(parsePages(text, count))

\* How many pages a file of a cut takes, as it is typed; 0 is refused.
EveryRead(typed, count) ==
    IF AreDigits(typed) /\ NumberOf(typed) \in 1 .. count THEN NumberOf(typed) ELSE 0
parseEvery(text, count) == EveryRead(Trimmed(text, JsBlanks), count)
splitEvery(order, every) ==
    [k \in 1 .. (Len(order) + every - 1) \div every |->
        SubSeq(order, (k - 1) * every + 1,
               IF k * every < Len(order) THEN k * every ELSE Len(order))]
\* Positions, counted from 0, before which a page of another file starts.
cutPoints(positions, count) == {p \in positions : p > 0 /\ p < count}
splitAt(order, cuts) ==
    LET ends == cuts \cup {Len(order)}
    IN  FlattenSeq([i \in DOMAIN order |->
            IF i \in ends THEN <<SubSeq(order, EndBefore(ends, i) + 1, i)>> ELSE << >>])
-----------------------------------------------------------------------------
\* A list is read by the window as by the command line, and refused for the
\* same reason (pagerange.ts:1-10), but for two blanks that only one of the
\* two knows; and `fyp split' takes the pages of the list, no range backward.
TakesThePages(ranges, pages) ==
    IF IsRead(ranges)
    THEN pages = PagesRead(FlattenSeq([k \in DOMAIN ranges.pages |->
                     Upward(ranges.pages[k].first, ranges.pages[k].last - 1)]))
    ELSE IsRead(pages) => ranges.is = "backward"
AgreesWith(pages, text, count) ==
    /\ ToSet(text) \cap {ByteOrderMark, NextLine} = {} => parsePages(text, count) = pages
    /\ TakesThePages(parse_ranges(text, count), pages)
ReadAlike(text, count) == AgreesWith(parse_pages(text, count), text, count)
\* The parts of the window are those of ranges_every, taken in the order
\* shown, and are all of it.
PartsOfRanges(parts, ranges, order) ==
    /\ Len(parts) = Len(ranges) /\ FlattenSeq(parts) = order
    /\ \A k \in DOMAIN parts :
         parts[k] = [i \in 1 .. ranges[k].last - ranges[k].first |-> order[ranges[k].first + i]]
SharedAlike(order, every) ==
    PartsOfRanges(splitEvery(order, every), ranges_every(Len(order), every), order)
=============================================================================
