---------------------------- MODULE RenderService ----------------------------
(***************************************************************************)
(* The page service of the window (app/src/render.rs) and the worker       *)
(* process it owns (app/src/render/worker.rs).                             *)
(*                                                                         *)
(* Requests for page images come from as many threads as the window likes  *)
(* and take turns under the mutex of `State` (holder).  The one whose turn *)
(* it is starts a worker when there is none, sends it the document unless  *)
(* it holds it, and asks it for the page.  Three others interfere:         *)
(*   - the worker, which may crash, hang, refuse, or answer twice;         *)
(*   - the guard, which reads the memory of the worker under the mutex of  *)
(*     its process (procLock) and stops it above a ceiling that requests   *)
(*     move without that mutex;                                            *)
(*   - the thread that closes the application, which kills the worker      *)
(*     under a request in flight.                                          *)
(*                                                                         *)
(* A time-out is a choice the waiting thread may make whenever nothing has *)
(* arrived.  A process, once spawned, keeps its number: fate[pid] says what*)
(* became of it.  Letting go of a worker (retire: take the process, wait,  *)
(* kill) is one step: from the moment the process leaves `slot` nobody else*)
(* can reach it.                                                           *)
(***************************************************************************)
EXTENDS Integers, Sequences, FiniteSets

CONSTANTS
    Requests,       \* the calls of `render` made during the session
    Main,           \* the thread that starts and closes the application
    Nobody,         \* the holder of a free mutex
    Docs, NoDoc,    \* document ids, and "none"
    Pages,          \* page numbers
    Size,           \* Size[d]: the bytes of document d
    MaxDocument,    \* the bytes the frame of a document can count
    Restarts,       \* Limits.restarts
    RestartWindow,  \* Limits.restart_window, in ticks
    Memory,         \* Limits.memory
    PerByte,        \* Limits.memory_per_document_byte
    MaxHeld,        \* bound: the most memory a worker is seen holding
    MaxTime,        \* bound: the ticks the clock counts
    Misbehaves      \* whether the worker may give a reply twice

Threads == Requests \cup {Main}

ASSUME RenderAssumption ==
    /\ Main \notin Requests
    /\ Nobody \notin Threads
    /\ NoDoc \notin Docs
    /\ Size \in [Docs -> Nat]
    /\ MaxDocument \in Nat
    /\ Restarts \in Nat
    /\ RestartWindow \in Nat
    /\ Memory \in Nat
    /\ PerByte \in Nat
    /\ MaxHeld \in Nat
    /\ MaxTime \in Nat
    /\ Misbehaves \in BOOLEAN

VARIABLES
    pc,         \* pc[t]: where thread t is
    req,        \* req[r]: the document and the page r asks for
    answer,     \* answer[r]: what `render` returned to r
    holder,     \* who holds the mutex of State
    available,  \* Status.available
    closing,    \* RenderService.closing
    worker,     \* State.worker, or the Worker in the hands of the holder
    restarts,   \* State.restarts
    strikes,    \* State.strikes
    cause,      \* why the exchange of the holder failed, and in which phase
    slot,       \* Watch.process: the process, 0 for None
    procLock,   \* whether the guard holds the mutex of Watch.process
    ceiling,    \* Watch.ceiling
    passed,     \* Watch.passed
    guard,      \* where the guard is, and what it has read
    fate,       \* fate[pid]: what became of each process ever spawned
    engine,     \* the document the running process has loaded
    asked,      \* the frame sent to the worker and not yet served
    replies,    \* the replies written by the worker and not yet received
    clock,      \* Instant::now(), in ticks
    starts,     \* history: when each restart was decided
    condemned   \* history: the processes the guard found above the ceiling

stateVars == <<available, closing, worker, restarts, strikes, cause>>
watchVars == <<slot, ceiling, passed>>
guardVars == <<procLock, guard, condemned>>
channelVars == <<engine, asked, replies>>
timeVars == <<clock, starts>>
callVars == <<req, answer>>
worldVars == <<watchVars, guardVars, fate, channelVars, timeVars>>
vars == <<pc, callVars, holder, stateVars, worldVars>>

FALLS == 2

(***************************************************************************)
(* Data.                                                                   *)
(***************************************************************************)
Pids == DOMAIN fate
Running(p) == p \in Pids /\ fate[p] = "running"

NoWorker == [pid |-> 0, loaded |-> NoDoc, opened |-> FALSE]
Worker == [pid : Nat, loaded : Docs \cup {NoDoc}, opened : BOOLEAN]

\* A document may ask for more memory than the worker may hold at rest.
CeilingOf(d) == Memory + PerByte * Size[d]
Larger(a, b) == IF a > b THEN a ELSE b

NoImage == [doc |-> NoDoc, page |-> 0]
NoAnswer == [kind |-> "none", phase |-> "none", image |-> NoImage]
Say(kind) == [kind |-> kind, phase |-> "none", image |-> NoImage]
Fell(kind, phase) == [kind |-> kind, phase |-> phase, image |-> NoImage]
Give(image) == [kind |-> "image", phase |-> "none", image |-> image]

Failures == {"stopped", "silent", "lied"}
NoCause == [why |-> "none", phase |-> "none"]

\* The number a frame carries is fresh: a request sends one document and
\* one drawing at most, so its own name and the phase stand for the number.
Number(r, phase) == <<r, phase>>
NoNumber == <<Nobody, "none">>

Quiet == [kind |-> "none", number |-> NoNumber, doc |-> NoDoc, page |-> 0]
Hello == [kind |-> "hello", number |-> NoNumber, doc |-> NoDoc, page |-> 0]
DocumentFrame(r) ==
    [kind |-> "document", number |-> Number(r, "opening"),
     doc |-> req[r].doc, page |-> 0]
DrawFrame(r) ==
    [kind |-> "draw", number |-> Number(r, "drawing"),
     doc |-> req[r].doc, page |-> req[r].page]

Reply(kind, number, image) == [kind |-> kind, number |-> number, image |-> image]

NoStrikes(d) == [document |-> d, opening |-> 0, pages |-> [p \in Pages |-> 0]]

\* Strikes::concern
Concern(d) == IF strikes.document = d THEN strikes ELSE NoStrikes(d)

\* Mutant: one fall too many is allowed.
RefusedLate(s, p) == s.opening > FALLS \/ s.pages[p] > FALLS

\* Strikes::refusal
Refused(s, p) == s.opening >= FALLS \/ s.pages[p] >= FALLS

\* Strikes::fall.  The count is a u8 that saturates; Refused stops it at FALLS.
Fall(s, phase, p) ==
    IF phase = "opening" THEN [s EXCEPT !.opening = @ + 1]
    ELSE [s EXCEPT !.pages[p] = @ + 1]

Launching == {"spawning", "registering", "greeting", "greeted"}
Asking == {"asking", "sending", "opening", "opened", "drawing"}
Turn == {"entered", "ensuring", "counting", "falling", "leaving"}
            \cup Launching \cup Asking
Awaiting == {"greeting", "opening", "drawing"}


(***************************************************************************)
(* Letting go of a worker, which needs the mutex of its process.           *)
(***************************************************************************)
Ended(p) == [fate EXCEPT ![p] = IF @ = "running" THEN "ended" ELSE @]

\* Mutant: a process that does not end by itself is not killed.
KillNothing == fate' = fate

\* The process of the slot is killed if it has not ended.
KillSlot == fate' = IF slot = 0 THEN fate ELSE Ended(slot)

\* RenderService::retire
Retire ==
    /\ ~procLock
    /\ KillSlot
    /\ slot' = 0
    /\ worker' = NoWorker
    /\ asked' = Quiet
    /\ replies' = <<>>
    /\ engine' = NoDoc

(***************************************************************************)
(* Returning from `draw`: the mutex of State goes with the answer.         *)
(***************************************************************************)
Return(r, what) ==
    /\ pc' = [pc EXCEPT ![r] = "done"]
    /\ answer' = [answer EXCEPT ![r] = what]
    /\ holder' = Nobody

GoTo(t, where) == pc' = [pc EXCEPT ![t] = where]

(***************************************************************************)
(* The beginning of a request.                                             *)
(***************************************************************************)
\* RenderService::render is called, once the service is made.
Issue(r, d, p) ==
    /\ pc[r] = "idle"
    /\ pc[Main] \notin Launching \cup {"falling"}
    /\ req' = [req EXCEPT ![r] = [doc |-> d, page |-> p]]
    /\ GoTo(r, "waiting")
    /\ UNCHANGED <<answer, holder, stateVars, worldVars>>

Enter(r) ==
    /\ pc[r] = "waiting"
    /\ holder = Nobody
    /\ holder' = r
    /\ GoTo(r, "entered")
    /\ UNCHANGED <<callVars, stateVars, worldVars>>

TurnedAway(r) ==
    /\ pc[r] = "entered"
    /\ \/ ~available /\ Return(r, Say("off"))
       \/ available /\ closing /\ Return(r, Say("closing"))
    /\ UNCHANGED <<req, stateVars, worldVars>>

\* Mutant: the status is not read again before a worker is looked for.
ServingUnlessClosing == ~closing

Serving == available /\ ~closing

\* Strikes::concern, then Strikes::refusal.
CheckStrikes(r) ==
    /\ pc[r] = "entered"
    /\ Serving
    /\ strikes' = Concern(req[r].doc)
    /\ IF Refused(strikes', req[r].page)
         THEN Return(r, Say("refused"))
         ELSE GoTo(r, "ensuring") /\ UNCHANGED <<answer, holder>>
    /\ UNCHANGED <<req, available, closing, worker, restarts, cause,
                   worldVars>>

(***************************************************************************)
(* ensure_worker                                                           *)
(***************************************************************************)
\* The worker of the last request still runs.
WorkerRuns(r) ==
    /\ pc[r] = "ensuring"
    /\ worker # NoWorker
    /\ ~procLock
    /\ Running(slot)
    /\ GoTo(r, "asking")
    /\ UNCHANGED <<callVars, holder, stateVars, worldVars>>

\* It died between two requests: none of them is to blame.
WorkerGone(r) ==
    /\ pc[r] = "ensuring"
    /\ worker # NoWorker
    /\ ~Running(slot)
    /\ Retire
    /\ GoTo(r, "counting")
    /\ UNCHANGED <<callVars, holder, available, closing, restarts, strikes,
                   cause, ceiling, passed, guardVars, timeVars>>

NoWorkerYet(r) ==
    /\ pc[r] = "ensuring"
    /\ worker = NoWorker
    /\ GoTo(r, "counting")
    /\ UNCHANGED <<callVars, holder, stateVars, worldVars>>

\* The first k restarts are the ones older than the window, to be forgotten.
Old(k) ==
    /\ \A i \in 1 .. k : clock - restarts[i] > RestartWindow
    /\ k < Len(restarts) => clock - restarts[k + 1] <= RestartWindow

Recent(k) == SubSeq(restarts, k + 1, Len(restarts))

\* Mutant: one restart more than the limit.
TooManyLate(s) == Len(s) > Restarts

TooMany(s) == Len(s) >= Restarts

RestartTooOften(r) ==
    /\ pc[r] = "counting"
    /\ \E k \in 0 .. Len(restarts) :
          Old(k) /\ TooMany(Recent(k)) /\ restarts' = Recent(k)
    /\ available' = FALSE
    /\ Return(r, Say("off"))
    /\ UNCHANGED <<req, closing, worker, strikes, cause, worldVars>>

\* Closing may have begun while the request waited for its turn.
RestartWhileClosing(r) ==
    /\ pc[r] = "counting"
    /\ closing
    /\ \E k \in 0 .. Len(restarts) :
          Old(k) /\ ~TooMany(Recent(k)) /\ restarts' = Recent(k)
    /\ Return(r, Say("closing"))
    /\ UNCHANGED <<req, available, closing, worker, strikes, cause, worldVars>>

Restart(r) ==
    /\ pc[r] = "counting"
    /\ ~closing
    /\ \E k \in 0 .. Len(restarts) :
          Old(k) /\ ~TooMany(Recent(k)) /\ restarts' = Append(Recent(k), clock)
    /\ starts' = Append(starts, clock)
    /\ GoTo(r, "spawning")
    /\ UNCHANGED <<callVars, holder, available, closing, worker, strikes,
                   cause, watchVars, guardVars, fate, channelVars, clock>>

(***************************************************************************)
(* launch: by start_with on the main thread, by ensure_worker in a request.*)
(***************************************************************************)
\* What a launch that failed leaves: "never" turns rendering off, at the
\* start as later; a worker that only failed leaves it on.
NotStarted(t, why) ==
    /\ pc' = [pc EXCEPT ![t] = IF t = Main THEN "serving" ELSE "done"]
    /\ answer' = IF t = Main THEN answer
                 ELSE [answer EXCEPT ![t] = Say("notstarted")]
    /\ available' = IF why = "never" THEN FALSE
                    ELSE IF t = Main THEN TRUE ELSE available
    /\ holder' = Nobody

\* The process exists, and nobody but this thread knows it.
Spawn(t) ==
    /\ pc[t] = "spawning"
    /\ fate' = Append(fate, "running")
    /\ GoTo(t, "registering")
    /\ UNCHANGED <<callVars, holder, stateVars, watchVars, guardVars,
                   channelVars, timeVars>>

SpawnFails(t) ==
    /\ pc[t] = "spawning"
    /\ NotStarted(t, "failed")
    /\ UNCHANGED <<req, closing, worker, restarts, strikes, cause, worldVars>>

\* Mutant: what the guard did to the worker before stays on record.
KeepStop == passed' = passed

ForgetStop == passed' = 0

\* The ceiling at rest and no stop on record, then the process where the
\* guard and the closing thread see it, then hello.  A process still in the
\* slot would be a stray, killed here.
Register(t) ==
    /\ pc[t] = "registering"
    /\ ~procLock
    /\ ceiling' = Memory
    /\ ForgetStop
    /\ KillSlot
    /\ slot' = Len(fate)
    /\ worker' = [pid |-> Len(fate), loaded |-> NoDoc, opened |-> FALSE]
    /\ engine' = NoDoc
    /\ asked' = Hello
    /\ replies' = <<>>
    /\ GoTo(t, "greeting")
    /\ UNCHANGED <<callVars, holder, available, closing, restarts, strikes,
                   cause, guardVars, timeVars>>

\* A channel thread could not be started: the process is let go of at once.
NoThreads(t) ==
    /\ pc[t] = "greeting"
    /\ asked = Hello
    /\ GoTo(t, "falling")
    /\ cause' = [why |-> "failed", phase |-> "greeting"]
    /\ UNCHANGED <<callVars, holder, available, closing, worker, restarts,
                   strikes, worldVars>>

\* The answer to hello: ready, or a reason no other worker would do better.
Greeted(t) ==
    /\ pc[t] = "greeting"
    /\ replies # <<>>
    /\ replies' = Tail(replies)
    /\ IF Head(replies).kind = "ready"
         THEN GoTo(t, "greeted") /\ UNCHANGED cause
         ELSE /\ GoTo(t, "falling")
              /\ cause' = [why |-> "never", phase |-> "greeting"]
    /\ UNCHANGED <<callVars, holder, available, closing, worker, restarts,
                   strikes, watchVars, guardVars, fate, engine, asked, timeVars>>

\* start_with: the service is made.
Started ==
    /\ pc[Main] = "greeted"
    /\ available' = TRUE
    /\ holder' = Nobody
    /\ GoTo(Main, "serving")
    /\ UNCHANGED <<callVars, closing, worker, restarts, strikes, cause,
                   worldVars>>

\* Mutant: closing is not looked at again after the handshake.
RestartedAnyway(r) ==
    /\ pc[r] = "greeted"
    /\ available' = TRUE
    /\ GoTo(r, "asking")
    /\ UNCHANGED <<callVars, holder, closing, worker, restarts, strikes,
                   cause, worldVars>>

\* ensure_worker: the worker just launched is the one of this request.
Restarted(r) ==
    /\ pc[r] = "greeted"
    /\ ~closing
    /\ available' = TRUE
    /\ GoTo(r, "asking")
    /\ UNCHANGED <<callVars, holder, closing, worker, restarts, strikes,
                   cause, worldVars>>

\* Closing began during the handshake, before it could see this worker: it
\* is let go of here, and asked nothing.
RestartedTooLate(r) ==
    /\ pc[r] = "greeted"
    /\ closing
    /\ Retire
    /\ Return(r, Say("closing"))
    /\ UNCHANGED <<req, available, closing, restarts, strikes, cause, ceiling,
                   passed, guardVars, timeVars>>

\* Mutant: a worker that failed its handshake is forgotten, not let go of.
LaunchForgets(t) ==
    /\ pc[t] = "falling"
    /\ cause.phase = "greeting"
    /\ worker' = NoWorker
    /\ passed' = 0
    /\ cause' = NoCause
    /\ NotStarted(t, cause.why)
    /\ UNCHANGED <<req, closing, restarts, strikes, slot, ceiling, guardVars,
                   fate, channelVars, timeVars>>

\* retire, then explained when the exchange failed.
LaunchFails(t) ==
    /\ pc[t] = "falling"
    /\ cause.phase = "greeting"
    /\ Retire
    /\ passed' = IF cause.why \in Failures THEN 0 ELSE passed
    /\ cause' = NoCause
    /\ NotStarted(t, cause.why)
    /\ UNCHANGED <<req, closing, restarts, strikes, ceiling, guardVars,
                   timeVars>>

(***************************************************************************)
(* ask: the exchange with the worker.                                      *)
(***************************************************************************)
Held(r) == worker.loaded = req[r].doc

\* The worker holds the document, or refused it before.
AskHeld(r) ==
    /\ pc[r] = "asking"
    /\ Held(r)
    /\ IF worker.opened
         THEN GoTo(r, "opened") /\ UNCHANGED <<answer, holder>>
         ELSE Return(r, Say("failed"))
    /\ UNCHANGED <<req, stateVars, worldVars>>

\* protocol::document_head: its frame cannot count that many bytes.
TooBig(r) ==
    /\ pc[r] = "asking"
    /\ ~Held(r)
    /\ Size[req[r].doc] > MaxDocument
    /\ Return(r, Say("failed"))
    /\ UNCHANGED <<req, stateVars, worldVars>>

\* Mutant: the new ceiling is stored, even below the one in force.
Replaced(d) == CeilingOf(d)

\* AtomicU64::fetch_max
Raised(d) == Larger(ceiling, CeilingOf(d))

\* Before the first byte of the document leaves: until the worker answers it
\* may still hold the one before as well.  The mutex of the process, which
\* the guard compares under, is not taken.
RaiseCeiling(r) ==
    /\ pc[r] = "asking"
    /\ ~Held(r)
    /\ Size[req[r].doc] <= MaxDocument
    /\ worker' = [worker EXCEPT !.loaded = NoDoc, !.opened = FALSE]
    /\ ceiling' = Raised(req[r].doc)
    /\ GoTo(r, "sending")
    /\ UNCHANGED <<callVars, holder, available, closing, restarts, strikes,
                   cause, slot, passed, guardVars, fate, channelVars, timeVars>>

SendDocument(r) ==
    /\ pc[r] = "sending"
    /\ asked' = DocumentFrame(r)
    /\ GoTo(r, "opening")
    /\ UNCHANGED <<callVars, holder, stateVars, watchVars, guardVars, fate,
                   engine, replies, timeVars>>

\* Mutant: the number of a reply is not compared.
AnyNumber(r) == TRUE

\* The reply in hand carries the number of the frame r sent in this phase.
Echoes(r) == Head(replies).number = Number(r, pc[r])

ToThis(r, kinds) == Head(replies).kind \in kinds /\ Echoes(r)

\* Mutant: a document the worker refused is taken for loaded.
AcceptedAnyway(reply) == TRUE

Accepted(reply) == reply.kind = "opened"

\* What it holds and what it may hold are set together with its outcome.
DocumentAnswered(r) ==
    /\ pc[r] = "opening"
    /\ replies # <<>>
    /\ ToThis(r, {"opened", "failed"})
    /\ replies' = Tail(replies)
    /\ ceiling' = CeilingOf(req[r].doc)
    /\ LET opened == Accepted(Head(replies)) IN
         /\ worker' = [worker EXCEPT !.loaded = req[r].doc, !.opened = opened]
         /\ IF opened
              THEN GoTo(r, "opened") /\ UNCHANGED <<answer, holder>>
              ELSE Return(r, Say("failed"))
    /\ UNCHANGED <<req, available, closing, restarts, strikes, cause, slot,
                   passed, guardVars, fate, engine, asked, timeVars>>

SendDraw(r) ==
    /\ pc[r] = "opened"
    /\ asked' = DrawFrame(r)
    /\ GoTo(r, "drawing")
    /\ UNCHANGED <<callVars, holder, stateVars, watchVars, guardVars, fate,
                   engine, replies, timeVars>>

PageAnswered(r) ==
    /\ pc[r] = "drawing"
    /\ replies # <<>>
    /\ ToThis(r, {"bitmap", "failed"})
    /\ replies' = Tail(replies)
    /\ Return(r, IF Head(replies).kind = "bitmap"
                 THEN Give(Head(replies).image) ELSE Say("failed"))
    /\ UNCHANGED <<req, stateVars, watchVars, guardVars, fate, engine, asked,
                   timeVars>>

\* Worker::receive gives no reply to the request.
Fails(t, why) ==
    /\ cause' = [why |-> why, phase |-> pc[t]]
    /\ GoTo(t, "falling")
    /\ UNCHANGED <<callVars, holder, available, closing, worker, restarts,
                   strikes, worldVars>>

\* The channel ends once what the process wrote before it ended is read.
Lost(t) ==
    /\ pc[t] \in Awaiting
    /\ replies = <<>>
    /\ ~Running(worker.pid)
    /\ Fails(t, "stopped")

\* Mutant: the reply is waited for without a time limit.
NeverTimesOut(t) == FALSE

TimesOut(t) ==
    /\ pc[t] \in Awaiting
    /\ replies = <<>>
    /\ Fails(t, "silent")

Lied(r) ==
    /\ pc[r] \in {"opening", "drawing"}
    /\ replies # <<>>
    /\ ~ToThis(r, IF pc[r] = "opening" THEN {"opened", "failed"}
                  ELSE {"bitmap", "failed"})
    /\ Fails(r, "lied")

\* RenderService::explained
Explained == IF cause.why = "stopped" /\ passed > 0 THEN "greedy" ELSE cause.why

\* Strikes::fall, retire, then explained.
RequestFalls(r) ==
    /\ pc[r] = "falling"
    /\ cause.phase \in {"opening", "drawing"}
    /\ strikes' = Fall(strikes, cause.phase, req[r].page)
    /\ Retire
    /\ passed' = 0
    /\ cause' = NoCause
    /\ Return(r, Fell(Explained, cause.phase))
    /\ UNCHANGED <<req, available, closing, restarts, ceiling, guardVars,
                   timeVars>>

(***************************************************************************)
(* The worker (serve): one frame at a time.                                *)
(***************************************************************************)
EngineRuns == slot # 0 /\ Running(slot)

EngineSays(reply) ==
    \/ replies' = Append(replies, reply)
    \/ Misbehaves /\ replies' = Append(Append(replies, reply), reply)

EngineUnchanged ==
    UNCHANGED <<pc, callVars, holder, stateVars, watchVars, guardVars, timeVars>>

EngineGreets ==
    /\ EngineRuns
    /\ asked.kind = "hello"
    /\ EngineSays(Reply("ready", NoNumber, NoImage))
    /\ asked' = Quiet
    /\ UNCHANGED <<fate, engine>>
    /\ EngineUnchanged

\* It finds no library, or speaks another protocol, says so and ends.
EngineDeclines ==
    /\ EngineRuns
    /\ asked.kind = "hello"
    /\ replies' = Append(replies, Reply("declined", NoNumber, NoImage))
    /\ asked' = Quiet
    /\ fate' = Ended(slot)
    /\ UNCHANGED engine
    /\ EngineUnchanged

\* The document before goes first; PDFium opens this one or refuses it.
EngineOpens ==
    /\ EngineRuns
    /\ asked.kind = "document"
    /\ \/ engine' = asked.doc /\ EngineSays(Reply("opened", asked.number, NoImage))
       \/ engine' = NoDoc /\ EngineSays(Reply("failed", asked.number, NoImage))
    /\ asked' = Quiet
    /\ UNCHANGED fate
    /\ EngineUnchanged

\* worker.rs draw: a document that is not loaded is not drawn.
EngineDraws ==
    /\ EngineRuns
    /\ asked.kind = "draw"
    /\ \/ /\ engine = asked.doc
          /\ EngineSays(Reply("bitmap", asked.number,
                              [doc |-> engine, page |-> asked.page]))
       \/ EngineSays(Reply("failed", asked.number, NoImage))
    /\ asked' = Quiet
    /\ UNCHANGED <<fate, engine>>
    /\ EngineUnchanged

\* It may end at any time, even before its thread has registered it.
EngineDies ==
    /\ \E p \in Pids : fate[p] = "running" /\ fate' = Ended(p)
    /\ UNCHANGED channelVars
    /\ EngineUnchanged

(***************************************************************************)
(* The guard, one look every Limits.watch.                                 *)
(***************************************************************************)
Asleep == [at |-> "asleep", ceiling |-> 0, held |-> 0]
Gone == [Asleep EXCEPT !.at = "gone"]

GuardUnchanged ==
    UNCHANGED <<pc, callVars, holder, stateVars, slot, ceiling, channelVars, timeVars>>

\* With a process in the slot; without one it lets go and sleeps again.
GuardLooks ==
    /\ guard.at = "asleep"
    /\ slot # 0
    /\ procLock' = TRUE
    /\ guard' = [at |-> "looking", ceiling |-> ceiling, held |-> 0]
    /\ UNCHANGED <<condemned, fate, passed>>
    /\ GuardUnchanged

\* A process that has ended tells no memory.
GuardContent ==
    /\ guard.at = "looking"
    /\ ~Running(slot) \/ \E held \in 0 .. MaxHeld : held <= guard.ceiling
    /\ procLock' = FALSE
    /\ guard' = Asleep
    /\ UNCHANGED <<condemned, fate, passed>>
    /\ GuardUnchanged

\* Said before the worker ends: the request that fails reads it.
GuardCondemns(held) ==
    /\ guard.at = "looking"
    /\ Running(slot)
    /\ held > guard.ceiling
    /\ passed' = Larger(guard.ceiling, 1)
    /\ condemned' = condemned \cup {slot}
    /\ guard' = [guard EXCEPT !.at = "stopping", !.held = held]
    /\ UNCHANGED <<procLock, fate>>
    /\ GuardUnchanged

GuardStops ==
    /\ guard.at = "stopping"
    /\ KillSlot
    /\ procLock' = FALSE
    /\ guard' = Asleep
    /\ UNCHANGED <<condemned, passed>>
    /\ GuardUnchanged

(***************************************************************************)
(* shutdown, on the main thread.                                           *)
(***************************************************************************)
Close ==
    /\ pc[Main] = "serving"
    /\ closing' = TRUE
    /\ GoTo(Main, "trying")
    /\ UNCHANGED <<callVars, holder, available, worker, restarts, strikes,
                   cause, worldVars>>

TryTurn ==
    /\ pc[Main] = "trying"
    /\ IF holder = Nobody
         THEN holder' = Main /\ GoTo(Main, "leaving")
         ELSE GoTo(Main, "stopping") /\ UNCHANGED holder
    /\ UNCHANGED <<callVars, stateVars, worldVars>>

\* A request is in flight: it ends when its worker does.
StopUnder ==
    /\ pc[Main] = "stopping"
    /\ ~procLock
    /\ KillSlot
    /\ GoTo(Main, "blocked")
    /\ UNCHANGED <<callVars, holder, stateVars, watchVars, guardVars,
                   channelVars, timeVars>>

\* Mutant: shutdown goes on without the turn of the request in flight.
WaitForNobody ==
    /\ pc[Main] = "blocked"
    /\ holder' = Main
    /\ GoTo(Main, "leaving")
    /\ UNCHANGED <<callVars, stateVars, worldVars>>

WaitTurn ==
    /\ pc[Main] = "blocked"
    /\ holder = Nobody
    /\ holder' = Main
    /\ GoTo(Main, "leaving")
    /\ UNCHANGED <<callVars, stateVars, worldVars>>

\* The worker is let go of, rendering is off, and the guard is told to end.
Leave ==
    /\ pc[Main] = "leaving"
    /\ IF worker # NoWorker
         THEN Retire
         ELSE UNCHANGED <<worker, slot, fate, channelVars>>
    /\ available' = FALSE
    /\ holder' = Nobody
    /\ GoTo(Main, "closed")
    /\ UNCHANGED <<callVars, closing, restarts, strikes, cause, ceiling,
                   passed, guardVars, timeVars>>

\* Mutant: the end of the channel of the guard is never dropped.
GuardStays == FALSE

\* The end of its channel wakes the guard, which returns.
GuardEnds ==
    /\ pc[Main] = "closed"
    /\ guard.at = "asleep"
    /\ guard' = Gone
    /\ UNCHANGED <<procLock, condemned, fate, passed>>
    /\ GuardUnchanged

Tick ==
    /\ clock < MaxTime
    /\ clock' = clock + 1
    /\ UNCHANGED <<pc, callVars, holder, stateVars, watchVars, guardVars,
                   fate, channelVars, starts>>

(***************************************************************************)
(* The specification.                                                      *)
(***************************************************************************)
\* start_with, as the first worker is about to be started; or a service that
\* will never have one, for want of a guard or of its own executable.
Init ==
    /\ req = [r \in Requests |-> NoImage]
    /\ answer = [r \in Requests |-> NoAnswer]
    /\ available = FALSE
    /\ closing = FALSE
    /\ worker = NoWorker
    /\ restarts = <<>>
    /\ strikes = NoStrikes(NoDoc)
    /\ cause = NoCause
    /\ slot = 0
    /\ procLock = FALSE
    /\ ceiling = Memory
    /\ passed = 0
    /\ fate = <<>>
    /\ engine = NoDoc
    /\ asked = Quiet
    /\ replies = <<>>
    /\ clock = 0
    /\ starts = <<>>
    /\ condemned = {}
    /\ \E guarded \in BOOLEAN :
        /\ pc = [t \in Threads |-> IF t # Main THEN "idle"
                                   ELSE IF guarded THEN "spawning" ELSE "serving"]
        /\ holder = IF guarded THEN Main ELSE Nobody
        /\ guard = IF guarded THEN Asleep ELSE Gone

Launch(t) ==
    \/ Spawn(t) \/ SpawnFails(t) \/ Register(t) \/ NoThreads(t) \/ Greeted(t)
    \/ LaunchFails(t)

Draw(r) ==
    \/ Enter(r) \/ TurnedAway(r) \/ CheckStrikes(r)
    \/ WorkerRuns(r) \/ WorkerGone(r) \/ NoWorkerYet(r)
    \/ RestartTooOften(r) \/ RestartWhileClosing(r) \/ Restart(r)
    \/ Restarted(r) \/ RestartedTooLate(r)
    \/ AskHeld(r) \/ TooBig(r) \/ RaiseCeiling(r) \/ SendDocument(r)
    \/ DocumentAnswered(r) \/ SendDraw(r) \/ PageAnswered(r)
    \/ Lied(r) \/ RequestFalls(r)

Receive(t) == Lost(t) \/ TimesOut(t)

Shutdown == TryTurn \/ StopUnder \/ WaitTurn \/ Leave

Engine ==
    EngineGreets \/ EngineDeclines \/ EngineOpens \/ EngineDraws \/ EngineDies

Guard ==
    \/ GuardLooks \/ GuardContent
    \/ \E held \in 0 .. MaxHeld : GuardCondemns(held)
    \/ GuardStops \/ GuardEnds

\* Every call has returned and the application is closed.
Finished ==
    /\ pc[Main] = "closed"
    /\ guard = Gone
    /\ \A r \in Requests : pc[r] = "done"
    /\ UNCHANGED vars

Next ==
    \/ \E r \in Requests, d \in Docs, p \in Pages : Issue(r, d, p)
    \/ \E r \in Requests : Draw(r)
    \/ \E t \in Threads : Launch(t) \/ Receive(t)
    \/ Started \/ Close \/ Shutdown
    \/ Engine \/ Guard \/ Tick \/ Finished

(***************************************************************************)
(* Fairness.  A thread that can go on does: nothing is asked of the user   *)
(* (Issue, Close), of the worker or of the clock.  The steps that need the *)
(* mutex of the process are strongly fair: the guard takes it again and    *)
(* again, for the time of one reading every Limits.watch.                  *)
(***************************************************************************)
ThreadStep(t) ==
    \/ Launch(t) \/ Receive(t)
    \/ t \in Requests /\ Draw(t)
    \/ t = Main /\ (Started \/ Shutdown)

WithProcess(t) ==
    \/ Register(t) \/ LaunchFails(t)
    \/ t \in Requests /\ \/ WorkerRuns(t) \/ WorkerGone(t)
                         \/ RestartedTooLate(t) \/ RequestFalls(t)
    \/ t = Main /\ (StopUnder \/ Leave)

GuardStep ==
    \/ GuardContent \/ GuardStops \/ GuardEnds
    \/ \E held \in 0 .. MaxHeld : GuardCondemns(held)

Fairness ==
    /\ \A t \in Threads : WF_vars(ThreadStep(t)) /\ SF_vars(WithProcess(t))
    /\ WF_vars(GuardStep)

Spec == Init /\ [][Next]_vars
FairSpec == Spec /\ Fairness

-----------------------------------------------------------------------------
(***************************************************************************)
(* Properties.                                                             *)
(***************************************************************************)
States == {"idle", "waiting", "done", "serving", "trying", "stopping",
           "blocked", "closed"} \cup Turn
Kinds == {"none", "off", "closing", "refused", "notstarted", "failed", "image",
          "greedy"} \cup Failures
Phases == {"none", "greeting", "opening", "drawing"}
Image == [doc : Docs \cup {NoDoc}, page : Pages \cup {0}]
Answer == [kind : Kinds, phase : Phases, image : Image]
Strikes == [document : Docs \cup {NoDoc}, opening : Nat, pages : [Pages -> Nat]]
Cause == [why : Failures \cup {"none", "failed", "never"}, phase : Phases]
Guarding == [at : {"asleep", "looking", "stopping", "gone"},
             ceiling : Nat, held : Nat]
Numbers == ((Requests \cup {Nobody}) \X {"none", "opening", "drawing"})
Frame == [kind : {"none", "hello", "document", "draw"}, number : Numbers,
          doc : Docs \cup {NoDoc}, page : Pages \cup {0}]
Replies == [kind : {"ready", "declined", "opened", "bitmap", "failed"},
            number : Numbers, image : Image]

\* The variables hold what their declarations say (the fields of
\* RenderService, Watch, State, Worker and Strikes in render.rs).
TypeOK ==
    /\ pc \in [Threads -> States]
    /\ req \in [Requests -> Image]
    /\ answer \in [Requests -> Answer]
    /\ holder \in Threads \cup {Nobody}
    /\ available \in BOOLEAN
    /\ closing \in BOOLEAN
    /\ worker \in Worker
    /\ restarts \in Seq(Nat)
    /\ strikes \in Strikes
    /\ cause \in Cause
    /\ slot \in Nat
    /\ procLock \in BOOLEAN
    /\ ceiling \in Nat
    /\ passed \in Nat
    /\ guard \in Guarding
    /\ fate \in Seq({"running", "ended"})
    /\ engine \in Docs \cup {NoDoc}
    /\ asked \in Frame
    /\ replies \in Seq(Replies)
    /\ clock \in Nat
    /\ starts \in Seq(Nat)
    /\ condemned \subseteq Nat

\* There are never two workers (launch, "Never two workers"): at any time
\* at most one of the processes ever spawned runs, whatever crashes, restarts
\* and closing come together.
OneWorker == \A p, q \in Pids : Running(p) /\ Running(q) => p = q

\* A process that runs is reachable: in the slot, where the guard and the
\* closing thread stop it, or just spawned by the thread about to put it there.
NoStray ==
    \A p \in Pids : Running(p) =>
        \/ slot = p
        \/ slot = 0 /\ p = Len(fate) /\ \E t \in Threads : pc[t] = "registering"

\* Once shutdown has returned no worker is left running, and none is started
\* by a request still waiting for its turn.
NothingLeftRunning == pc[Main] = "closed" => \A p \in Pids : ~Running(p)

\* An image given to a request is the page of the document it asked for, even
\* when the worker answers twice and an answer waits ahead of a request.
RightImage ==
    \A r \in Requests : answer[r].kind = "image" => answer[r].image = req[r]

\* The worker is asked to draw a document only while it holds it: what the
\* window believes loaded is what the process has loaded.
DrawnFromItsDocument ==
    asked.kind = "draw" /\ Running(slot) => engine = asked.doc

\* From before a document leaves until the worker has answered, the ceiling
\* covers that document and the one the worker may still hold; once it has
\* answered the ceiling is exactly the one of the document it was sent.
CeilingCovers ==
    /\ EngineRuns /\ worker.pid = slot =>
        /\ engine # NoDoc => ceiling >= CeilingOf(engine)
        /\ asked.kind = "document" => ceiling >= CeilingOf(asked.doc)
    /\ worker.loaded # NoDoc => ceiling = CeilingOf(worker.loaded)

\* The restarts of a session never exceed Limits.restarts within one
\* Limits.restart_window, wherever the window is put.
RestartBudget ==
    \A i, j \in DOMAIN starts :
        j = i + Restarts => starts[j] - starts[i] > RestartWindow

\* A strike is the fall of a request: no page is blamed for a worker that
\* died between two requests or during a handshake, and none is struck more
\* often than the limit at which it is refused.
Falls(d, phase, pages) ==
    Cardinality({r \in Requests : /\ answer[r].phase = phase
                                  /\ req[r].doc = d
                                  /\ req[r].page \in pages})

StrikesEarned ==
    LET d == strikes.document IN
    /\ strikes.opening <= Falls(d, "opening", Pages)
    /\ strikes.opening <= FALLS
    /\ \A p \in Pages : /\ strikes.pages[p] <= Falls(d, "drawing", {p})
                        /\ strikes.pages[p] <= FALLS

\* Once closing has stopped what it found, a worker it could not see yet is
\* let go of after its handshake: it is never sent a document or a page.
ClosingAsksNothing ==
    pc[Main] = "blocked" /\ Running(slot) => asked.kind \in {"none", "hello"}
                                             /\ worker.loaded = NoDoc

\* A request is told the worker passed its ceiling exactly when the worker
\* that served it ended and the guard had stopped it for that: never because
\* of what the guard did to a worker before.
GreedyExactly ==
    [][ \A r \in Requests :
          pc[r] = "falling" /\ pc'[r] = "done" /\ cause.why = "stopped"
            /\ cause.phase # "greeting"
          => (answer'[r].kind = "greedy" <=> worker.pid \in condemned) ]_vars

\* The guard stops a worker only for holding more than its ceiling (render.rs,
\* the comment of `guard`), as it is when the guard reads what it holds.
GuardStopsOnlyAbove ==
    [][ guard.at = "looking" /\ guard'.at = "stopping"
        => guard'.held > ceiling ]_vars

\* What the window sees of the service: PageService says what it promises.
Silence == [kind |-> "silence", image |-> NoImage]
Reason == [kind |-> "reason", image |-> NoImage]

Asks == [r \in Requests |-> IF pc[r] = "idle" THEN Silence
                            ELSE [kind |-> "image", image |-> req[r]]]
Told == [r \in Requests |-> IF answer[r].kind = "none" THEN Silence
                            ELSE IF answer[r].kind # "image" THEN Reason
                            ELSE [kind |-> "image", image |-> answer[r].image]]
Life == IF pc[Main] \in Launching \cup {"falling"} THEN "starting"
        ELSE IF pc[Main] = "closed" THEN "closed"
        ELSE IF available THEN "on" ELSE "off"
Works == \E p \in Pids : Running(p)

Contract == INSTANCE PageService WITH
    asks <- Asks, told <- Told, life <- Life, running <- Works

\* The service keeps the promises of PageService: whatever requests, worker,
\* guard and closing do together, a step is a step of the contract or none.
KeepsContract == Contract!Spec

\* Every call of `render` returns, whatever the worker does.
RequestsReturn == \A r \in Requests : pc[r] = "waiting" ~> pc[r] = "done"

\* Closing the application ends: shutdown returns, and so does the guard.
ShutdownEnds == closing ~> pc[Main] = "closed" /\ guard.at = "gone"
=============================================================================
