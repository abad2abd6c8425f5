----------------------------- MODULE WasiCalls -----------------------------
(***************************************************************************)
(* The WASI functions that touch the memory of a module (wasi.rs): reading *)
(* the request, writing the answer and the diagnostics, and what the       *)
(* standard library asks for.  A module runs alone in its memory, so a     *)
(* call is one step; every pointer and length is its own choice.  A byte   *)
(* has few values and a u32 few bytes, so that addresses meet the end of   *)
(* memory and counts the end of a u32.  The budget of the host and the     *)
(* ends of a run are in HostRuns.                                          *)
(***************************************************************************)
EXTENDS Integers, SequencesExt

CONSTANTS
    ByteValues,     \* how many values a byte has
    WordBytes,      \* how many bytes a u32 has, 4
    DrawBytes,      \* how many bytes a draw of next_fixed gives, 8
    MaxIovs,        \* MAX_IOVS
    StderrLimit,    \* STDERR_LIMIT
    AnswerLimit,    \* stdout_limit
    Guests,         \* what a module starts from: [memory, exported, stdin]
    Vectors,        \* the [iovs, count, told] it calls fd_read and fd_write with
    MaxCalls        \* bound: how many calls it makes

ASSUME WordAssumption == ByteValues > 3 /\ WordBytes > 0

VARIABLES
    guest,      \* its memory, what it read of its request and what it wrote
    called      \* the last call, and the guest before it

wasiVars == <<guest, called>>

Words == ByteValues ^ WordBytes
Success == 0
BadFd   == 8
Fault   == 21
Invalid == 28

\* range, then get: an empty range past the end is none either.
InsideOf(memory, ptr, len) == ptr + len <= Len(memory)
CellsAt(memory, ptr, len)  == SubSeq(memory, ptr + 1, ptr + len)
Copied(memory, ptr, cells) ==
    [i \in DOMAIN memory |-> IF i - ptr \in DOMAIN cells THEN cells[i - ptr] ELSE memory[i]]
\* Little endian.
WordIn(cells) == FoldRight(LAMBDA cell, n : n * ByteValues + cell, cells, 0)
CellsOf(n)    == [i \in 1 .. WordBytes |-> (n \div ByteValues ^ (i - 1)) % ByteValues]
ReadWord(memory, ptr) == WordIn(CellsAt(memory, ptr, WordBytes))

\* An i32 below zero, or too many.
IovCount(count) == count < Words \div 2 /\ count <= MaxIovs
BaseOf(iovs, i) == iovs + (i - 1) * 2 * WordBytes
\* The additions of u32 are checked, then each word is in memory.
VectorInside(memory, iovs, count) ==
    \A i \in 1 .. count : /\ BaseOf(iovs, i) + WordBytes < Words
                          /\ InsideOf(memory, BaseOf(iovs, i), 2 * WordBytes)
Iovecs(memory, iovs, count) ==
    [i \in 1 .. count |-> [ptr |-> ReadWord(memory, BaseOf(iovs, i)),
                           len |-> ReadWord(memory, BaseOf(iovs, i) + WordBytes)]]
-----------------------------------------------------------------------------
(* The loops over the buffers: a call under way is the guest with what it  *)
(* has counted, its answer and whether it is over.                         *)

Beginning(g, fd) == [guest |-> g, fd |-> fd, total |-> 0, errno |-> Success, over |-> FALSE]
Failed(c, errno) == [c EXCEPT !.errno = errno, !.over = TRUE]
Unread(g) == Len(g.stdin) - g.pos

Took(c, ptr, n, short) ==
    [c EXCEPT !.guest.memory = Copied(@, ptr, SubSeq(c.guest.stdin, c.guest.pos + 1, c.guest.pos + n)),
              !.guest.pos = @ + n, !.total = @ + n, !.over = short]
\* For a mutant: the place in the request moves before the buffer is checked.
TakeAhead(c, ptr, n, short) ==
    IF InsideOf(c.guest.memory, ptr, n) THEN Took(c, ptr, n, short)
    ELSE Failed([c EXCEPT !.guest.pos = @ + n], Fault)
TakeIn(c, ptr, n, short) ==
    IF InsideOf(c.guest.memory, ptr, n) THEN Took(c, ptr, n, short) ELSE Failed(c, Fault)
ReadInto(c, buffer) ==
    IF c.over THEN c
    ELSE IF Unread(c.guest) < buffer.len THEN TakeIn(c, buffer.ptr, Unread(c.guest), TRUE)
    ELSE TakeIn(c, buffer.ptr, buffer.len, FALSE)

\* write_stdout stops the module past its limit, and nothing comes after.
WriteStdout(c, bytes) ==
    IF Len(c.guest.stdout) + Len(bytes) > AnswerLimit
    THEN [c EXCEPT !.guest.stopped = "output", !.over = TRUE]
    ELSE [c EXCEPT !.guest.stdout = @ \o bytes, !.total = @ + Len(bytes)]
WriteStderr(c, bytes) ==
    LET room == StderrLimit - Len(c.guest.stderr)
        kept == SubSeq(bytes, 1, IF room < Len(bytes) THEN room ELSE Len(bytes))
    IN  [c EXCEPT !.guest.stderr = @ \o kept, !.total = @ + Len(bytes)]
WriteFrom(c, buffer) ==
    IF c.over THEN c
    ELSE IF ~InsideOf(c.guest.memory, buffer.ptr, buffer.len) THEN Failed(c, Fault)
    ELSE IF c.fd = 1 THEN WriteStdout(c, CellsAt(c.guest.memory, buffer.ptr, buffer.len))
    ELSE WriteStderr(c, CellsAt(c.guest.memory, buffer.ptr, buffer.len))

\* put_len: the count, or as much as a u32 says.
Counted(c) == IF c.total < Words THEN c.total ELSE Words - 1
PutLen(c, told) ==
    IF c.errno # Success \/ c.guest.stopped # "no" THEN c
    ELSE IF ~InsideOf(c.guest.memory, told, WordBytes) THEN Failed(c, Fault)
    ELSE [c EXCEPT !.guest.memory = Copied(@, told, CellsOf(Counted(c)))]
-----------------------------------------------------------------------------
(* The calls.                                                              *)

\* c is the call as it ends; told, where its count goes.
Returned(c, fn, buffers, told) ==
    /\ guest' = [c.guest EXCEPT !.calls = @ + 1]
    /\ called' = [fn |-> fn, fd |-> c.fd, buffers |-> buffers, told |-> told,
                  errno |-> c.errno, before |-> guest]
Refuses(errno, fn, fd) == Returned(Failed(Beginning(guest, fd), errno), fn, << >>, 0)
MayCall == guest.stopped = "no" /\ guest.calls < MaxCalls
\* memory: a module that exports none is stopped.
WithoutMemory(fn, fd) ==
    Returned([Beginning(guest, fd) EXCEPT !.guest.stopped = "no memory"], fn, << >>, 0)

OneBuffer(fn, c, buffer) == IF fn = "read" THEN ReadInto(c, buffer) ELSE WriteFrom(c, buffer)
OverBuffers(fn, fd, v) ==
    IF ~IovCount(v.count) THEN Refuses(Invalid, fn, fd)
    ELSE IF ~guest.exported THEN WithoutMemory(fn, fd)
    ELSE IF ~VectorInside(guest.memory, v.iovs, v.count) THEN Refuses(Fault, fn, fd)
    ELSE LET buffers == Iovecs(guest.memory, v.iovs, v.count)
             ended   == FoldLeft(LAMBDA c, b : OneBuffer(fn, c, b), Beginning(guest, fd), buffers)
         IN  Returned(PutLen(ended, v.told), fn, buffers, v.told)
FdRead(fd, v) ==
    /\ MayCall
    /\ IF fd # 0 THEN Refuses(BadFd, "read", fd) ELSE OverBuffers("read", fd, v)
FdWrite(fd, v) ==
    /\ MayCall
    /\ IF fd \notin {1, 2} THEN Refuses(BadFd, "write", fd) ELSE OverBuffers("write", fd, v)

\* What is stored in one piece, or not at all.
StoresIn(c, ptr, cells) ==
    IF InsideOf(c.guest.memory, ptr, Len(cells))
    THEN [c EXCEPT !.guest.memory = Copied(@, ptr, cells)] ELSE Failed(c, Fault)
Place(ptr, len) == [ptr |-> ptr, len |-> len]

\* The draws are the same at every run: a byte is told by its draw and place.
Drawn(draws, len) ==
    [i \in 1 .. len |-> (draws + ((i - 1) \div DrawBytes) + ((i - 1) % DrawBytes)) % ByteValues]
DrawsOf(len) == (len + DrawBytes - 1) \div DrawBytes
Advanced(c, len) ==
    IF c.errno = Success THEN [c EXCEPT !.guest.draws = @ + DrawsOf(len)] ELSE c
RandomGet(ptr, len) ==
    /\ MayCall
    /\ IF ~guest.exported THEN WithoutMemory("random", 0)
       ELSE Returned(Advanced(StoresIn(Beginning(guest, 0), ptr, Drawn(guest.draws, len)), len),
                     "random", <<Place(ptr, len)>>, 0)
\* Two words, the second stored even when the first cannot be.
Stored2(c, first, second) ==
    IF InsideOf(c.guest.memory, second, WordBytes)
    THEN [StoresIn(c, first, CellsOf(0)) EXCEPT !.guest.memory = Copied(@, second, CellsOf(0))]
    ELSE Failed(StoresIn(c, first, CellsOf(0)), Fault)
ZeroPair(first, second) ==
    /\ MayCall
    /\ IF ~guest.exported THEN WithoutMemory("sizes", 0)
       ELSE Returned(Stored2(Beginning(guest, 0), first, second), "sizes",
                     <<Place(first, WordBytes), Place(second, WordBytes)>>, 0)
\* The kind of a stream, then what may be done with it.
StatOf(fd) == <<2, IF fd = 0 THEN 1 ELSE 3>>
FdstatGet(fd, ptr) ==
    /\ MayCall
    /\ IF fd \notin 0 .. 2 THEN Refuses(BadFd, "stat", fd)
       ELSE IF ~guest.exported THEN WithoutMemory("stat", fd)
       ELSE Returned(StoresIn(Beginning(guest, fd), ptr, StatOf(fd)), "stat",
                     <<Place(ptr, 2)>>, 0)
-----------------------------------------------------------------------------
NoGuest  == [memory |-> << >>, exported |-> FALSE, stdin |-> << >>, pos |-> 0, stdout |-> << >>,
             stderr |-> << >>, draws |-> 0, calls |-> 0, stopped |-> "never started"]
NoCall   == [fn |-> "none"]
WasiIdle == guest = NoGuest /\ called = NoCall
\* Sandbox::new.
WasiInit ==
    /\ called = NoCall
    /\ \E start \in Guests :
          guest = [NoGuest EXCEPT !.memory = start.memory, !.exported = start.exported,
                                  !.stdin = start.stdin, !.stopped = "no"]
Addresses == {0, Len(guest.memory) - 2, Words - 1}
WasiNext ==
    \/ \E fd \in {0, 1}, v \in Vectors : FdRead(fd, v)
    \/ \E fd \in 0 .. 2, v \in Vectors : FdWrite(fd, v)
    \/ \E ptr \in Addresses, len \in {0, 2, 5} : RandomGet(ptr, len)
    \/ \E first, second \in Addresses : ZeroPair(first, second)
    \/ \E fd \in {0, 3}, ptr \in Addresses : FdstatGet(fd, ptr)
-----------------------------------------------------------------------------
(* Properties.                                                             *)

Spread(b) == b.ptr + 1 .. b.ptr + b.len
Lesser(m, n) == IF m < n THEN m ELSE n
SizeOf(buffers) == FoldLeft(LAMBDA n, b : n + b.len, 0, buffers)
BytesBefore(i)  == SizeOf(SubSeq(called.buffers, 1, i - 1))
CountPlaces == IF called.fn \in {"read", "write"}
               THEN {[ptr |-> called.told, len |-> WordBytes]} ELSE {}
Apart(a, b) == Spread(a) \cap Spread(b) = {}
\* No buffer is stored over another, nor the count over a buffer.
NoneOver ==
    /\ \A i, j \in DOMAIN called.buffers : i # j => Apart(called.buffers[i], called.buffers[j])
    /\ called.errno = Success =>
         \A i \in DOMAIN called.buffers, p \in CountPlaces : Apart(called.buffers[i], p)
\* Nothing of the memory changes but where the module said.
OnlyWhereAsked ==
    \A k \in DOMAIN guest.memory :
        guest.memory[k] # called.before.memory[k] =>
            \E b \in ToSet(called.buffers) \cup CountPlaces : k \in Spread(b)
ToldIs(n) == called.buffers # << >> => ReadWord(guest.memory, called.told) = n

\* What left the request is in the buffers, in order, even when the call
\* then fails; a call that succeeds gives all it could, and says how much.
ReadStands ==
    LET taken == guest.pos - called.before.pos
        StandsIn(b, i, t) ==
            LET cell == b.ptr + t - BytesBefore(i)
            IN  /\ cell \in DOMAIN guest.memory
                /\ guest.memory[cell] = guest.stdin[called.before.pos + t]
    IN  /\ taken >= 0
        /\ called.errno = Success =>
             /\ taken = Lesser(SizeOf(called.buffers), Unread(called.before))
             /\ ToldIs(taken)
        /\ NoneOver =>
             \A t \in 1 .. taken : \E i \in DOMAIN called.buffers :
                /\ t - BytesBefore(i) \in 1 .. called.buffers[i].len
                /\ StandsIn(called.buffers[i], i, t)
\* The answer grows by whole buffers, up to the first that cannot be read or
\* would pass the limit; the diagnostics keep the first of what was written.
WhatIsWritten(k) ==
    FlattenSeq([i \in 1 .. k |-> CellsAt(called.before.memory, called.buffers[i].ptr,
                                         called.buffers[i].len)])
FitsIn(k) == InsideOf(called.before.memory, called.buffers[k].ptr, called.buffers[k].len)
WrittenUpTo(k) ==
    /\ \A i \in 1 .. k : FitsIn(i)
    /\ IF called.fd = 1 THEN guest.stdout = called.before.stdout \o WhatIsWritten(k)
       ELSE guest.stderr = LET all == called.before.stderr \o WhatIsWritten(k)
                           IN  SubSeq(all, 1, Lesser(Len(all), StderrLimit))
StopsAt(k) ==
    IF guest.stopped = "output"
    THEN Len(guest.stdout) + called.buffers[k + 1].len > AnswerLimit
    ELSE IF called.errno = Success
    THEN k = Len(called.buffers) /\ ToldIs(Lesser(SizeOf(called.buffers), Words - 1))
    ELSE k = Len(called.buffers) \/ ~FitsIn(k + 1)
WriteStands == \E k \in 0 .. Len(called.buffers) : WrittenUpTo(k) /\ StopsAt(k)

\* Whatever pointers and lengths a module chooses, a call reads and writes
\* its memory only where it said; a byte of the request is given once, in
\* order, and is never lost to a call that fails half way (wasi.rs:367); the
\* answer is what was written, whole buffers of it, and within its limit.
CallsStand ==
    called.fn # "none" =>
        /\ OnlyWhereAsked
        /\ Len(guest.stdout) <= AnswerLimit /\ Len(guest.stderr) <= StderrLimit
        /\ IF called.fn = "read" THEN ReadStands ELSE guest.pos = called.before.pos
        /\ IF called.fn = "write" /\ called.errno \notin {BadFd, Invalid} THEN WriteStands
           ELSE guest.stdout = called.before.stdout /\ guest.stderr = called.before.stderr
=============================================================================
