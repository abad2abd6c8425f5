------------------------ MODULE RenderServiceSafety ------------------------
(***************************************************************************)
(* What RenderService keeps, for every number of requests, documents and   *)
(* pages and every value of the limits, in four parts: the types; who      *)
(* holds the worker process; the exchange with it; what requests are told, *)
(* with the refinement of PageService. Each part rests on those before it. *)
(***************************************************************************)
EXTENDS RenderService, SequenceTheorems, FiniteSetTheorems, TLAPS

(***************************************************************************)
(* Type correctness of RenderService, for every number of requests,        *)
(* documents and pages and every value of the limits.                      *)
(*                                                                         *)
(* TypeOK is not inductive alone: the ceiling is a number because a request*)
(* under way asks for a document that has a size (Called), and the answer  *)
(* of a request that fell is one `render` gives because its cause is a     *)
(* failure of the exchange (Blamed).                                       *)
(***************************************************************************)
\* A request that was issued asks for a page of a document.
Called ==
    \A r \in Requests : pc[r] # "idle" => req[r] \in [doc : Docs, page : Pages]

\* A request is blamed for nothing but a failure of its exchange.
Blamed == cause.phase \in {"opening", "drawing"} => cause.why \in Failures

TypeInv == TypeOK /\ Called /\ Blamed

-----------------------------------------------------------------------------
(* The values the actions write. *)

\* The initial and empty values have the types of their variables.
LEMMA ValueTypes ==
    /\ NoImage \in Image
    /\ NoAnswer \in Answer
    /\ NoWorker \in Worker
    /\ NoCause \in Cause
    /\ Asleep \in Guarding /\ Gone \in Guarding
    /\ Quiet \in Frame /\ Hello \in Frame
<1>1. NoImage \in Image
  BY DEF NoImage, Image
<1>2. NoAnswer \in Answer
  BY <1>1 DEF NoAnswer, Answer, Kinds, Phases
<1>3. NoWorker \in Worker
  BY DEF NoWorker, Worker
<1>4. NoCause \in Cause
  BY DEF NoCause, Cause, Phases
<1>5. Asleep \in Guarding /\ Gone \in Guarding
  BY DEF Asleep, Gone, Guarding
<1>6. Quiet \in Frame /\ Hello \in Frame
  BY DEF Quiet, Hello, Frame, Numbers, NoNumber
<1> QED BY <1>1, <1>2, <1>3, <1>4, <1>5, <1>6

\* The answers of a request have the type of an answer.
LEMMA AnswerTypes ==
    /\ \A kind \in Kinds : Say(kind) \in Answer
    /\ \A kind \in Kinds, phase \in Phases : Fell(kind, phase) \in Answer
    /\ \A image \in Image : Give(image) \in Answer
<1>1. ASSUME NEW kind \in Kinds PROVE Say(kind) \in Answer
  BY ValueTypes DEF Say, Answer, Phases
<1>2. ASSUME NEW kind \in Kinds, NEW phase \in Phases
      PROVE  Fell(kind, phase) \in Answer
  BY ValueTypes DEF Fell, Answer
<1>3. ASSUME NEW image \in Image PROVE Give(image) \in Answer
  BY DEF Give, Answer, Kinds, Phases
<1> QED BY <1>1, <1>2, <1>3

\* The frames of a request under way have the type of a frame.
LEMMA FrameTypes ==
    ASSUME TypeInv, NEW r \in Requests, pc[r] # "idle"
    PROVE  DocumentFrame(r) \in Frame /\ DrawFrame(r) \in Frame
<1>1. req[r] \in [doc : Docs, page : Pages]
  BY DEF TypeInv, Called
<1> QED BY <1>1 DEF DocumentFrame, DrawFrame, Number, Frame, Numbers

\* The ceiling of a document is a number of bytes (Limits::ceiling).
LEMMA CeilingTypes ==
    ASSUME TypeInv, NEW r \in Requests, pc[r] # "idle"
    PROVE  CeilingOf(req[r].doc) \in Nat /\ Raised(req[r].doc) \in Nat
<1>1. req[r].doc \in Docs
  BY DEF TypeInv, Called
<1>2. CeilingOf(req[r].doc) \in Nat
  BY <1>1, RenderAssumption DEF CeilingOf
<1>3. ceiling \in Nat
  BY DEF TypeInv, TypeOK
<1> QED BY <1>2, <1>3 DEF Raised, Larger

-----------------------------------------------------------------------------
(* The assignments several actions share. *)

\* A thread goes to a state of the program.
LEMMA GoToType ==
    ASSUME TypeOK, NEW t \in Threads, NEW where \in States, GoTo(t, where)
    PROVE  pc' \in [Threads -> States]
BY DEF TypeOK, GoTo

\* A request that returns gives an answer and lets go of the mutex of State.
LEMMA ReturnType ==
    ASSUME TypeOK, NEW r \in Requests, NEW what \in Answer, Return(r, what)
    PROVE  /\ pc' \in [Threads -> States]
           /\ answer' \in [Requests -> Answer]
           /\ holder' \in Threads \cup {Nobody}
<1>1. "done" \in States
  BY DEF States
<1> QED BY <1>1 DEF TypeOK, Return, Threads

\* The record of the processes stays one, as long as it was, when one ends.
LEMMA EndedType ==
    ASSUME TypeOK, NEW p
    PROVE  /\ Ended(p) \in Seq({"running", "ended"})
           /\ Len(Ended(p)) = Len(fate)
<1>1. fate \in Seq({"running", "ended"})
  BY DEF TypeOK
<1>2. CASE p \in 1 .. Len(fate)
  <2>1. (IF fate[p] = "running" THEN "ended" ELSE fate[p]) \in {"running", "ended"}
    BY <1>1, <1>2, ElementOfSeq
  <2> QED BY <1>1, <1>2, <2>1, ExceptSeq DEF Ended
<1>3. CASE p \notin 1 .. Len(fate)
  <2>1. DOMAIN fate = 1 .. Len(fate)
    BY <1>1
  <2>2. Ended(p) = fate
    BY <1>1, <1>3, <2>1 DEF Ended
  <2> QED BY <1>1, <2>2
<1> QED BY <1>2, <1>3

LEMMA KillSlotType ==
    ASSUME TypeOK, KillSlot
    PROVE  /\ fate' \in Seq({"running", "ended"})
           /\ Len(fate') = Len(fate)
BY EndedType DEF TypeOK, KillSlot

\* Letting go of a worker leaves the slot and the channel empty.
LEMMA RetireType ==
    ASSUME TypeOK, Retire
    PROVE  /\ fate' \in Seq({"running", "ended"})
           /\ slot' \in Nat
           /\ worker' \in Worker
           /\ asked' \in Frame
           /\ replies' \in Seq(Replies)
           /\ engine' \in Docs \cup {NoDoc}
BY KillSlotType, ValueTypes DEF Retire

\* The worker writes replies.
LEMMA EngineSaysType ==
    ASSUME TypeOK, NEW m \in Replies, EngineSays(m)
    PROVE  replies' \in Seq(Replies)
<1>1. Append(replies, m) \in Seq(Replies)
  BY DEF TypeOK
<1>2. Append(Append(replies, m), m) \in Seq(Replies)
  BY <1>1
<1> QED BY <1>1, <1>2 DEF EngineSays

\* A launch that fails leaves the main thread serving, or the request
\* answered.
LEMMA NotStartedType ==
    ASSUME TypeOK, NEW t \in Threads, NEW why, NotStarted(t, why)
    PROVE  /\ pc' \in [Threads -> States]
           /\ answer' \in [Requests -> Answer]
           /\ available' \in BOOLEAN
           /\ holder' \in Threads \cup {Nobody}
<1>1. "serving" \in States /\ "done" \in States
  BY DEF States
<1>2. Say("notstarted") \in Answer
  BY AnswerTypes DEF Kinds
<1>3. pc' \in [Threads -> States]
  BY <1>1 DEF TypeOK, NotStarted
<1>4. answer' \in [Requests -> Answer]
  BY <1>2 DEF TypeOK, NotStarted
<1>5. available' \in BOOLEAN
  BY DEF TypeOK, NotStarted
<1> QED BY <1>3, <1>4, <1>5 DEF NotStarted

\* An exchange that fails leaves its cause behind.
LEMMA FailsType ==
    ASSUME TypeOK, NEW t \in Threads, pc[t] \in Awaiting,
           NEW why \in Failures, Fails(t, why)
    PROVE  /\ pc' \in [Threads -> States]
           /\ cause' \in Cause
           /\ cause'.why \in Failures
<1>1. "falling" \in States
  BY DEF States, Turn
<1>2. pc[t] \in Phases
  BY DEF Awaiting, Phases
<1>3. cause' \in Cause
  BY <1>2 DEF Fails, Cause
<1>4. pc' \in [Threads -> States]
  BY <1>1, GoToType DEF Fails
<1> QED BY <1>3, <1>4 DEF Fails

-----------------------------------------------------------------------------
(* The initial states, then one step per action. *)

LEMMA InitTypes == Init => TypeInv
<1> SUFFICES ASSUME Init PROVE TypeInv
  OBVIOUS
<1>1. pc \in [Threads -> States]
  BY DEF Init, States, Turn, Launching
<1>2. holder \in Threads \cup {Nobody}
  BY DEF Init, Threads
<1>3. strikes \in Strikes
  BY DEF Init, NoStrikes, Strikes
<1>4. /\ restarts \in Seq(Nat) /\ starts \in Seq(Nat) /\ replies \in Seq(Replies)
      /\ fate \in Seq({"running", "ended"})
  BY DEF Init
<1>5. ceiling \in Nat
  BY RenderAssumption DEF Init
<1>6. guard \in Guarding
  BY ValueTypes DEF Init
<1>7. TypeOK
  BY <1>1, <1>2, <1>3, <1>4, <1>5, <1>6, ValueTypes DEF TypeOK, Init
<1>8. Called
  BY RenderAssumption DEF Init, Called, Threads
<1>9. Blamed
  BY DEF Init, Blamed, NoCause
<1> QED BY <1>7, <1>8, <1>9 DEF TypeInv

\* A step from the call to the strikes keeps the types.
LEMMA EntryTypes ==
    ASSUME TypeInv, NEW r \in Requests,
           \/ \E d \in Docs, p \in Pages : Issue(r, d, p)
           \/ Enter(r) \/ TurnedAway(r) \/ CheckStrikes(r)
    PROVE  TypeInv'
<1> USE DEF TypeInv, callVars, stateVars, worldVars, watchVars, guardVars,
            channelVars, timeVars
<1>1. ASSUME NEW d \in Docs, NEW p \in Pages, Issue(r, d, p)
      PROVE  TypeInv'
  <2>1. pc' \in [Threads -> States]
    BY <1>1, GoToType DEF Issue, States, Threads
  <2>2. req' \in [Requests -> Image]
    BY <1>1 DEF Issue, TypeOK, Image
  <2>3. TypeOK'
    BY <1>1, <2>1, <2>2 DEF Issue, TypeOK
  <2>4. Called'
    BY <1>1 DEF Issue, TypeOK, Called, GoTo, Threads
  <2> QED BY <1>1, <2>3, <2>4 DEF Issue, Blamed
<1>2. CASE Enter(r)
  <2>1. pc' \in [Threads -> States]
    BY <1>2, GoToType DEF Enter, States, Turn, Launching, Asking, Threads
  <2>2. holder' \in Threads \cup {Nobody}
    BY <1>2 DEF Enter, Threads
  <2>3. TypeOK'
    BY <1>2, <2>1, <2>2 DEF Enter, TypeOK
  <2> QED BY <1>2, <2>3 DEF Enter, TypeOK, Called, GoTo, Threads, Blamed
<1>3. CASE TurnedAway(r)
  <2>1. PICK what \in Answer : Return(r, what)
    BY <1>3, AnswerTypes DEF TurnedAway, Kinds
  <2>2. TypeOK'
    BY <1>3, <2>1, ReturnType DEF TurnedAway, TypeOK
  <2> QED BY <1>3, <2>1, <2>2 DEF TurnedAway, TypeOK, Called, Return, Threads, Blamed
<1>4. CASE CheckStrikes(r)
  <2>1. req[r].doc \in Docs
    BY <1>4 DEF CheckStrikes, Called
  <2>2. strikes' \in Strikes
    BY <1>4, <2>1 DEF CheckStrikes, TypeOK, Concern, NoStrikes, Strikes
  <2>3. CASE GoTo(r, "ensuring") /\ UNCHANGED <<answer, holder>>
    <3>1. pc' \in [Threads -> States]
      BY <2>3, GoToType DEF States, Turn, Threads
    <3>2. TypeOK'
      BY <1>4, <2>2, <2>3, <3>1 DEF CheckStrikes, TypeOK
    <3> QED BY <1>4, <2>3, <3>2 DEF CheckStrikes, TypeOK, Called, GoTo, Threads, Blamed
  <2>4. CASE Return(r, Say("refused"))
    <3>1. Say("refused") \in Answer
      BY AnswerTypes DEF Kinds
    <3>2. TypeOK'
      BY <1>4, <2>2, <2>4, <3>1, ReturnType DEF CheckStrikes, TypeOK
    <3> QED BY <1>4, <2>4, <3>2 DEF CheckStrikes, TypeOK, Called, Return, Threads, Blamed
  <2> QED BY <1>4, <2>3, <2>4 DEF CheckStrikes
<1> QED BY <1>1, <1>2, <1>3, <1>4

\* What is kept of the restarts is a sequence of instants.
LEMMA RecentType ==
    ASSUME TypeOK, NEW k \in 0 .. Len(restarts)
    PROVE  Recent(k) \in Seq(Nat) /\ Append(Recent(k), clock) \in Seq(Nat)
<1>1. Recent(k) \in Seq(Nat)
  BY DEF TypeOK, Recent
<1> QED BY <1>1 DEF TypeOK

\* A step of ensure_worker keeps the types.
LEMMA EnsureTypes ==
    ASSUME TypeInv, NEW r \in Requests,
           \/ WorkerRuns(r) \/ WorkerGone(r) \/ NoWorkerYet(r)
           \/ RestartTooOften(r) \/ RestartWhileClosing(r) \/ Restart(r)
           \/ Restarted(r) \/ RestartedTooLate(r)
    PROVE  TypeInv'
<1> USE DEF TypeInv, callVars, stateVars, worldVars, watchVars, guardVars,
            channelVars, timeVars
<1>1. CASE WorkerRuns(r)
  <2>1. pc' \in [Threads -> States]
    BY <1>1, GoToType DEF WorkerRuns, States, Turn, Launching, Asking, Threads
  <2>2. TypeOK'
    BY <1>1, <2>1 DEF WorkerRuns, TypeOK
  <2> QED BY <1>1, <2>2 DEF WorkerRuns, TypeOK, Called, GoTo, Threads, Blamed
<1>2. CASE WorkerGone(r)
  <2>1. pc' \in [Threads -> States]
    BY <1>2, GoToType DEF WorkerGone, States, Turn, Launching, Asking, Threads
  <2>2. /\ fate' \in Seq({"running", "ended"})
        /\ slot' \in Nat /\ worker' \in Worker /\ asked' \in Frame
        /\ replies' \in Seq(Replies) /\ engine' \in Docs \cup {NoDoc}
    BY <1>2, RetireType DEF WorkerGone
  <2>3. TypeOK'
    BY <1>2, <2>1, <2>2 DEF WorkerGone, TypeOK
  <2> QED BY <1>2, <2>3 DEF WorkerGone, TypeOK, Called, GoTo, Threads, Blamed
<1>3. CASE NoWorkerYet(r)
  <2>1. pc' \in [Threads -> States]
    BY <1>3, GoToType DEF NoWorkerYet, States, Turn, Launching, Asking, Threads
  <2>2. TypeOK'
    BY <1>3, <2>1 DEF NoWorkerYet, TypeOK
  <2> QED BY <1>3, <2>2 DEF NoWorkerYet, TypeOK, Called, GoTo, Threads, Blamed
<1>4. CASE RestartTooOften(r)
  <2>1. PICK what \in Answer : Return(r, what)
    BY <1>4, AnswerTypes DEF RestartTooOften, Kinds
  <2>2. restarts' \in Seq(Nat)
    BY <1>4, RecentType DEF RestartTooOften
  <2>3. TypeOK'
    BY <1>4, <2>1, <2>2, ReturnType DEF RestartTooOften, TypeOK
  <2> QED BY <1>4, <2>1, <2>3 DEF RestartTooOften, TypeOK, Called, Return, Threads, Blamed
<1>5. CASE RestartWhileClosing(r)
  <2>1. PICK what \in Answer : Return(r, what)
    BY <1>5, AnswerTypes DEF RestartWhileClosing, Kinds
  <2>2. restarts' \in Seq(Nat)
    BY <1>5, RecentType DEF RestartWhileClosing
  <2>3. TypeOK'
    BY <1>5, <2>1, <2>2, ReturnType DEF RestartWhileClosing, TypeOK
  <2> QED BY <1>5, <2>1, <2>3 DEF RestartWhileClosing, TypeOK, Called, Return, Threads, Blamed
<1>6. CASE Restart(r)
  <2>1. pc' \in [Threads -> States]
    BY <1>6, GoToType DEF Restart, States, Turn, Launching, Asking, Threads
  <2>2. restarts' \in Seq(Nat) /\ starts' \in Seq(Nat)
    BY <1>6, RecentType DEF Restart, TypeOK
  <2>3. TypeOK'
    BY <1>6, <2>1, <2>2 DEF Restart, TypeOK
  <2> QED BY <1>6, <2>3 DEF Restart, TypeOK, Called, GoTo, Threads, Blamed
<1>7. CASE Restarted(r)
  <2>1. pc' \in [Threads -> States]
    BY <1>7, GoToType DEF Restarted, States, Turn, Launching, Asking, Threads
  <2>2. TypeOK'
    BY <1>7, <2>1 DEF Restarted, TypeOK
  <2> QED BY <1>7, <2>2 DEF Restarted, TypeOK, Called, GoTo, Threads, Blamed
<1>8. CASE RestartedTooLate(r)
  <2>1. PICK what \in Answer : Return(r, what)
    BY <1>8, AnswerTypes DEF RestartedTooLate, Kinds
  <2>2. /\ fate' \in Seq({"running", "ended"})
        /\ slot' \in Nat /\ worker' \in Worker /\ asked' \in Frame
        /\ replies' \in Seq(Replies) /\ engine' \in Docs \cup {NoDoc}
    BY <1>8, RetireType DEF RestartedTooLate
  <2>3. TypeOK'
    BY <1>8, <2>1, <2>2, ReturnType DEF RestartedTooLate, TypeOK
  <2> QED BY <1>8, <2>1, <2>3 DEF RestartedTooLate, TypeOK, Called, Return, Threads, Blamed
<1> QED BY <1>1, <1>2, <1>3, <1>4, <1>5, <1>6, <1>7, <1>8

\* A step of launch keeps the types, and so does the end of start_with.
LEMMA LaunchTypes ==
    ASSUME TypeInv, NEW t \in Threads,
           Launch(t) \/ Started
    PROVE  TypeInv'
<1> USE DEF TypeInv, callVars, stateVars, worldVars, watchVars, guardVars,
            channelVars, timeVars
<1>1. CASE Spawn(t)
  <2>1. pc' \in [Threads -> States]
    BY <1>1, GoToType DEF Spawn, States, Turn, Launching, Asking, Threads
  <2>2. fate' \in Seq({"running", "ended"})
    BY <1>1 DEF Spawn, TypeOK
  <2>3. TypeOK'
    BY <1>1, <2>1, <2>2 DEF Spawn, TypeOK
  <2> QED BY <1>1, <2>3 DEF Spawn, TypeOK, Called, GoTo, Threads, Blamed
<1>2. CASE SpawnFails(t)
  <2>1. /\ pc' \in [Threads -> States] /\ answer' \in [Requests -> Answer]
        /\ available' \in BOOLEAN /\ holder' \in Threads \cup {Nobody}
    BY <1>2, NotStartedType DEF SpawnFails
  <2>2. TypeOK'
    BY <1>2, <2>1 DEF SpawnFails, TypeOK
  <2> QED BY <1>2, <2>2 DEF SpawnFails, TypeOK, Called, NotStarted, NoCause, Threads, Blamed
<1>3. CASE Register(t)
  <2>1. pc' \in [Threads -> States]
    BY <1>3, GoToType DEF Register, States, Turn, Launching, Asking, Threads
  <2>2. fate' \in Seq({"running", "ended"})
    BY <1>3, KillSlotType DEF Register
  <2>3. worker' \in Worker /\ slot' \in Nat
    BY <1>3 DEF Register, TypeOK, Worker
  <2>4. asked' \in Frame /\ replies' \in Seq(Replies)
    BY <1>3, ValueTypes DEF Register
  <2>5. ceiling' \in Nat /\ passed' \in Nat
    BY <1>3, RenderAssumption DEF Register, ForgetStop
  <2>6. TypeOK'
    BY <1>3, <2>1, <2>2, <2>3, <2>4, <2>5 DEF Register, TypeOK
  <2> QED BY <1>3, <2>6 DEF Register, TypeOK, Called, GoTo, Threads, Blamed
<1>4. CASE NoThreads(t)
  <2>1. pc' \in [Threads -> States]
    BY <1>4, GoToType DEF NoThreads, States, Turn, Launching, Asking, Threads
  <2>2. cause' \in Cause /\ cause'.phase = "greeting"
    BY <1>4 DEF NoThreads, Cause, Phases
  <2>3. TypeOK'
    BY <1>4, <2>1, <2>2 DEF NoThreads, TypeOK
  <2> QED BY <1>4, <2>2, <2>3 DEF NoThreads, TypeOK, Called, GoTo, Threads, Blamed
<1>5. CASE Greeted(t)
  <2>1. pc' \in [Threads -> States]
    BY <1>5, GoToType DEF Greeted, States, Turn, Launching, Asking, Threads
  <2>2. cause' \in Cause /\ (cause' = cause \/ cause'.phase = "greeting")
    BY <1>5 DEF Greeted, Cause, Phases, TypeOK
  <2>3. replies' \in Seq(Replies)
    BY <1>5 DEF Greeted, TypeOK
  <2>4. TypeOK'
    BY <1>5, <2>1, <2>2, <2>3 DEF Greeted, TypeOK
  <2> QED BY <1>5, <2>2, <2>4 DEF Greeted, TypeOK, Called, GoTo, Threads, Blamed
<1>6. CASE LaunchFails(t)
  <2>1. /\ pc' \in [Threads -> States] /\ answer' \in [Requests -> Answer]
        /\ available' \in BOOLEAN /\ holder' \in Threads \cup {Nobody}
    BY <1>6, NotStartedType DEF LaunchFails
  <2>2. /\ fate' \in Seq({"running", "ended"})
        /\ slot' \in Nat /\ worker' \in Worker /\ asked' \in Frame
        /\ replies' \in Seq(Replies) /\ engine' \in Docs \cup {NoDoc}
    BY <1>6, RetireType DEF LaunchFails
  <2>3. passed' \in Nat /\ cause' \in Cause
    BY <1>6, ValueTypes DEF LaunchFails, TypeOK
  <2>4. TypeOK'
    BY <1>6, <2>1, <2>2, <2>3 DEF LaunchFails, TypeOK
  <2> QED BY <1>6, <2>4 DEF LaunchFails, TypeOK, Called, NotStarted, NoCause, Threads, Blamed
<1>7. CASE Started
  <2>1. pc' \in [Threads -> States]
    BY <1>7, GoToType DEF Started, States, Turn, Launching, Asking, Threads
  <2>2. holder' \in Threads \cup {Nobody}
    BY <1>7 DEF Started, Threads
  <2>3. TypeOK'
    BY <1>7, <2>1, <2>2 DEF Started, TypeOK
  <2> QED BY <1>7, <2>3 DEF Started, TypeOK, Called, GoTo, Threads, Blamed
<1> QED BY <1>1, <1>2, <1>3, <1>4, <1>5, <1>6, <1>7 DEF Launch

\* A step of ask keeps the types, and so does the fall of a request.
LEMMA AskTypes ==
    ASSUME TypeInv, NEW r \in Requests,
           \/ AskHeld(r) \/ TooBig(r) \/ RaiseCeiling(r) \/ SendDocument(r)
           \/ DocumentAnswered(r) \/ SendDraw(r) \/ PageAnswered(r)
           \/ Lied(r) \/ RequestFalls(r)
    PROVE  TypeInv'
<1> USE DEF TypeInv, callVars, stateVars, worldVars, watchVars, guardVars,
            channelVars, timeVars
<1>1. CASE AskHeld(r)
  <2>1. CASE GoTo(r, "opened") /\ UNCHANGED <<answer, holder>>
    <3>1. pc' \in [Threads -> States]
      BY <2>1, GoToType DEF States, Turn, Asking, Threads
    <3>2. TypeOK'
      BY <1>1, <2>1, <3>1 DEF AskHeld, TypeOK
    <3> QED BY <1>1, <2>1, <3>2 DEF AskHeld, TypeOK, Called, GoTo, Threads, Blamed
  <2>2. CASE Return(r, Say("failed"))
    <3>1. Say("failed") \in Answer
      BY AnswerTypes DEF Kinds
    <3>2. TypeOK'
      BY <1>1, <2>2, <3>1, ReturnType DEF AskHeld, TypeOK
    <3> QED BY <1>1, <2>2, <3>2 DEF AskHeld, TypeOK, Called, Return, Threads, Blamed
  <2> QED BY <1>1, <2>1, <2>2 DEF AskHeld
<1>2. CASE TooBig(r)
  <2>1. PICK what \in Answer : Return(r, what)
    BY <1>2, AnswerTypes DEF TooBig, Kinds
  <2>2. TypeOK'
    BY <1>2, <2>1, ReturnType DEF TooBig, TypeOK
  <2> QED BY <1>2, <2>1, <2>2 DEF TooBig, TypeOK, Called, Return, Threads, Blamed
<1>3. CASE RaiseCeiling(r)
  <2>1. pc' \in [Threads -> States]
    BY <1>3, GoToType DEF RaiseCeiling, States, Turn, Launching, Asking, Threads
  <2>2. worker' \in Worker
    BY <1>3 DEF RaiseCeiling, TypeOK, Worker
  <2>3. ceiling' \in Nat
    BY <1>3, CeilingTypes DEF RaiseCeiling
  <2>4. TypeOK'
    BY <1>3, <2>1, <2>2, <2>3 DEF RaiseCeiling, TypeOK
  <2> QED BY <1>3, <2>4 DEF RaiseCeiling, TypeOK, Called, GoTo, Threads, Blamed
<1>4. CASE SendDocument(r)
  <2>1. pc' \in [Threads -> States]
    BY <1>4, GoToType DEF SendDocument, States, Turn, Launching, Asking, Threads
  <2>2. asked' \in Frame
    BY <1>4, FrameTypes DEF SendDocument
  <2>3. TypeOK'
    BY <1>4, <2>1, <2>2 DEF SendDocument, TypeOK
  <2> QED BY <1>4, <2>3 DEF SendDocument, TypeOK, Called, GoTo, Threads, Blamed
<1>5. CASE DocumentAnswered(r)
  <2>1. req[r].doc \in Docs
    BY <1>5 DEF DocumentAnswered, Called
  <2>2. worker' \in Worker
    BY <1>5, <2>1 DEF DocumentAnswered, TypeOK, Worker, Accepted
  <2>3. ceiling' \in Nat /\ replies' \in Seq(Replies)
    BY <1>5, CeilingTypes DEF DocumentAnswered, TypeOK
  <2>4. CASE GoTo(r, "opened") /\ UNCHANGED <<answer, holder>>
    <3>1. pc' \in [Threads -> States]
      BY <2>4, GoToType DEF States, Turn, Asking, Threads
    <3>2. TypeOK'
      BY <1>5, <2>2, <2>3, <2>4, <3>1 DEF DocumentAnswered, TypeOK
    <3> QED BY <1>5, <2>4, <3>2 DEF DocumentAnswered, TypeOK, Called, GoTo, Threads, Blamed
  <2>5. CASE Return(r, Say("failed"))
    <3>1. Say("failed") \in Answer
      BY AnswerTypes DEF Kinds
    <3>2. TypeOK'
      BY <1>5, <2>2, <2>3, <2>5, <3>1, ReturnType DEF DocumentAnswered, TypeOK
    <3> QED BY <1>5, <2>5, <3>2 DEF DocumentAnswered, TypeOK, Called, Return, Threads, Blamed
  <2> QED BY <1>5, <2>4, <2>5 DEF DocumentAnswered
<1>6. CASE SendDraw(r)
  <2>1. pc' \in [Threads -> States]
    BY <1>6, GoToType DEF SendDraw, States, Turn, Launching, Asking, Threads
  <2>2. asked' \in Frame
    BY <1>6, FrameTypes DEF SendDraw
  <2>3. TypeOK'
    BY <1>6, <2>1, <2>2 DEF SendDraw, TypeOK
  <2> QED BY <1>6, <2>3 DEF SendDraw, TypeOK, Called, GoTo, Threads, Blamed
<1>7. CASE PageAnswered(r)
  <2>1. Head(replies) \in Replies /\ replies' \in Seq(Replies)
    BY <1>7 DEF PageAnswered, TypeOK
  <2>2. PICK what \in Answer : Return(r, what)
    BY <1>7, <2>1, AnswerTypes DEF PageAnswered, Kinds, Replies
  <2>3. TypeOK'
    BY <1>7, <2>1, <2>2, ReturnType DEF PageAnswered, TypeOK
  <2> QED BY <1>7, <2>2, <2>3 DEF PageAnswered, TypeOK, Called, Return, Threads, Blamed
<1>8. CASE Lied(r)
  <2>1. PICK why \in Failures : Fails(r, why)
    BY <1>8 DEF Lied, Failures
  <2>2. pc[r] \in Awaiting
    BY <1>8 DEF Lied, Awaiting
  <2>3. pc' \in [Threads -> States] /\ cause' \in Cause /\ cause'.why \in Failures
    BY <2>1, <2>2, FailsType DEF Threads
  <2>4. TypeOK'
    BY <2>1, <2>3 DEF Fails, TypeOK
  <2> QED BY <2>1, <2>2, <2>3, <2>4 DEF Fails, TypeOK, Called, GoTo, Awaiting, Threads, Blamed
<1>9. CASE RequestFalls(r)
  <2>1. Explained \in Kinds /\ cause.phase \in Phases
    BY <1>9 DEF RequestFalls, Blamed, Explained, Kinds, Phases
  <2>2. PICK what \in Answer : Return(r, what)
    BY <1>9, <2>1, AnswerTypes DEF RequestFalls
  <2>3. strikes' \in Strikes
    <3>1. /\ strikes.opening \in Nat /\ strikes.pages \in [Pages -> Nat]
          /\ req[r].page \in Pages
      BY <1>9 DEF RequestFalls, TypeOK, Called, Strikes
    <3>2. /\ strikes.opening + 1 \in Nat
          /\ [strikes.pages EXCEPT ![req[r].page] = @ + 1] \in [Pages -> Nat]
      BY <3>1
    <3>3. \/ strikes' = [strikes EXCEPT !.opening = strikes.opening + 1]
          \/ strikes' = [strikes EXCEPT !.pages =
                           [strikes.pages EXCEPT ![req[r].page] = @ + 1]]
      BY <1>9 DEF RequestFalls, Fall
    <3> QED BY <3>2, <3>3 DEF TypeOK, Strikes
  <2>4. /\ fate' \in Seq({"running", "ended"})
        /\ slot' \in Nat /\ worker' \in Worker /\ asked' \in Frame
        /\ replies' \in Seq(Replies) /\ engine' \in Docs \cup {NoDoc}
    BY <1>9, RetireType DEF RequestFalls
  <2>5. cause' \in Cause
    BY <1>9, ValueTypes DEF RequestFalls
  <2>6. TypeOK'
    BY <1>9, <2>2, <2>3, <2>4, <2>5, ReturnType DEF RequestFalls, TypeOK
  <2> QED BY <1>9, <2>2, <2>6 DEF RequestFalls, TypeOK, Called, Return, NoCause, Threads, Blamed
<1> QED BY <1>1, <1>2, <1>3, <1>4, <1>5, <1>6, <1>7, <1>8, <1>9

\* A thread whose exchange ends without a reply keeps the types.
LEMMA ReceiveTypes ==
    ASSUME TypeInv, NEW t \in Threads, Receive(t)
    PROVE  TypeInv'
<1> USE DEF TypeInv, callVars, stateVars, worldVars, watchVars, guardVars,
            channelVars, timeVars
<1>1. CASE Lost(t)
  <2>1. PICK why \in Failures : Fails(t, why)
    BY <1>1 DEF Lost, Failures
  <2>2. pc[t] \in Awaiting
    BY <1>1 DEF Lost, Awaiting
  <2>3. pc' \in [Threads -> States] /\ cause' \in Cause /\ cause'.why \in Failures
    BY <2>1, <2>2, FailsType DEF Threads
  <2>4. TypeOK'
    BY <2>1, <2>3 DEF Fails, TypeOK
  <2> QED BY <2>1, <2>2, <2>3, <2>4 DEF Fails, TypeOK, Called, GoTo, Awaiting, Threads, Blamed
<1>2. CASE TimesOut(t)
  <2>1. PICK why \in Failures : Fails(t, why)
    BY <1>2 DEF TimesOut, Failures
  <2>2. pc[t] \in Awaiting
    BY <1>2 DEF TimesOut, Awaiting
  <2>3. pc' \in [Threads -> States] /\ cause' \in Cause /\ cause'.why \in Failures
    BY <2>1, <2>2, FailsType DEF Threads
  <2>4. TypeOK'
    BY <2>1, <2>3 DEF Fails, TypeOK
  <2> QED BY <2>1, <2>2, <2>3, <2>4 DEF Fails, TypeOK, Called, GoTo, Awaiting, Threads, Blamed
<1> QED BY <1>1, <1>2 DEF Receive

\* A step of the worker keeps the types.
LEMMA EngineTypes ==
    ASSUME TypeInv, Engine
    PROVE  TypeInv'
<1> USE DEF TypeInv, callVars, stateVars, worldVars, watchVars, guardVars,
            channelVars, timeVars
<1>1. CASE EngineGreets
  <2>1. Reply("ready", NoNumber, NoImage) \in Replies
    BY <1>1, ValueTypes DEF Reply, Replies, NoNumber, Numbers
  <2>2. replies' \in Seq(Replies) /\ asked' \in Frame
    BY <1>1, <2>1, EngineSaysType, ValueTypes DEF EngineGreets
  <2>3. TypeOK'
    BY <1>1, <2>1, <2>2 DEF EngineGreets, EngineUnchanged, GuardUnchanged, TypeOK
  <2> QED BY <1>1, <2>3 DEF EngineGreets, EngineUnchanged, GuardUnchanged, Called, Blamed
<1>2. CASE EngineDeclines
  <2>1. Reply("declined", NoNumber, NoImage) \in Replies
    BY <1>2, ValueTypes DEF Reply, Replies, NoNumber, Numbers
  <2>2. replies' \in Seq(Replies) /\ asked' \in Frame
    BY <1>2, <2>1, ValueTypes DEF EngineDeclines, TypeOK
  <2>3. fate' \in Seq({"running", "ended"})
    BY <1>2, EndedType DEF EngineDeclines
  <2>4. TypeOK'
    BY <1>2, <2>1, <2>2, <2>3 DEF EngineDeclines, EngineUnchanged, GuardUnchanged, TypeOK
  <2> QED BY <1>2, <2>4 DEF EngineDeclines, EngineUnchanged, GuardUnchanged, Called, Blamed
<1>3. CASE EngineOpens
  <2>1. asked.number \in Numbers /\ asked.doc \in Docs \cup {NoDoc}
    BY <1>3 DEF TypeOK, Frame
  <2>2. \A kind \in {"opened", "failed"} :
          Reply(kind, asked.number, NoImage) \in Replies
    BY <1>3, <2>1, ValueTypes DEF Reply, Replies
  <2>3. replies' \in Seq(Replies) /\ asked' \in Frame /\ engine' \in Docs \cup {NoDoc}
    BY <1>3, <2>1, <2>2, EngineSaysType, ValueTypes DEF EngineOpens
  <2>4. TypeOK'
    BY <1>3, <2>1, <2>2, <2>3 DEF EngineOpens, EngineUnchanged, GuardUnchanged, TypeOK
  <2> QED BY <1>3, <2>4 DEF EngineOpens, EngineUnchanged, GuardUnchanged, Called, Blamed
<1>4. CASE EngineDraws
  <2>1. asked.number \in Numbers /\ asked.page \in Pages \cup {0}
    BY <1>4 DEF TypeOK, Frame
  <2>2. [doc |-> engine, page |-> asked.page] \in Image
    BY <1>4, <2>1 DEF TypeOK, Image
  <2>3. /\ Reply("bitmap", asked.number, [doc |-> engine, page |-> asked.page]) \in Replies
        /\ Reply("failed", asked.number, NoImage) \in Replies
    BY <1>4, <2>1, <2>2, ValueTypes DEF Reply, Replies
  <2>4. replies' \in Seq(Replies) /\ asked' \in Frame
    BY <1>4, <2>3, EngineSaysType, ValueTypes DEF EngineDraws
  <2>5. TypeOK'
    BY <1>4, <2>1, <2>2, <2>3, <2>4 DEF EngineDraws, EngineUnchanged, GuardUnchanged, TypeOK
  <2> QED BY <1>4, <2>5 DEF EngineDraws, EngineUnchanged, GuardUnchanged, Called, Blamed
<1>5. CASE EngineDies
  <2>1. fate' \in Seq({"running", "ended"})
    BY <1>5, EndedType DEF EngineDies
  <2>2. TypeOK'
    BY <1>5, <2>1 DEF EngineDies, EngineUnchanged, GuardUnchanged, TypeOK
  <2> QED BY <1>5, <2>2 DEF EngineDies, EngineUnchanged, GuardUnchanged, Called, Blamed
<1> QED BY <1>1, <1>2, <1>3, <1>4, <1>5 DEF Engine

\* A step of the guard or of the clock keeps the types.
LEMMA GuardTypes ==
    ASSUME TypeInv, Guard \/ Tick
    PROVE  TypeInv'
<1> USE DEF TypeInv, callVars, stateVars, worldVars, watchVars, guardVars,
            channelVars, timeVars
<1>1. CASE GuardLooks
  <2>1. guard' \in Guarding
    BY <1>1 DEF GuardLooks, TypeOK, Guarding
  <2>2. TypeOK'
    BY <1>1, <2>1 DEF GuardLooks, EngineUnchanged, GuardUnchanged, TypeOK
  <2> QED BY <1>1, <2>2 DEF GuardLooks, EngineUnchanged, GuardUnchanged, Called, Blamed
<1>2. CASE GuardContent
  <2>1. guard' \in Guarding
    BY <1>2, ValueTypes DEF GuardContent
  <2>2. TypeOK'
    BY <1>2, <2>1 DEF GuardContent, EngineUnchanged, GuardUnchanged, TypeOK
  <2> QED BY <1>2, <2>2 DEF GuardContent, EngineUnchanged, GuardUnchanged, Called, Blamed
<1>3. ASSUME NEW held \in 0 .. MaxHeld, GuardCondemns(held) PROVE TypeInv'
  <2>1. held \in Nat
    BY <1>3, RenderAssumption
  <2>2. guard' \in Guarding
    BY <1>3, <2>1 DEF GuardCondemns, TypeOK, Guarding
  <2>3. passed' \in Nat
    BY <1>3 DEF GuardCondemns, TypeOK, Guarding, Larger
  <2>4. TypeOK'
    BY <1>3, <2>1, <2>2, <2>3 DEF GuardCondemns, GuardUnchanged, TypeOK
  <2> QED BY <1>3, <2>4 DEF GuardCondemns, EngineUnchanged, GuardUnchanged, Called, Blamed
<1>4. CASE GuardStops
  <2>1. guard' \in Guarding
    BY <1>4, ValueTypes DEF GuardStops
  <2>2. fate' \in Seq({"running", "ended"})
    BY <1>4, KillSlotType DEF GuardStops
  <2>3. TypeOK'
    BY <1>4, <2>1, <2>2 DEF GuardStops, EngineUnchanged, GuardUnchanged, TypeOK
  <2> QED BY <1>4, <2>3 DEF GuardStops, EngineUnchanged, GuardUnchanged, Called, Blamed
<1>5. CASE GuardEnds
  <2>1. guard' \in Guarding
    BY <1>5, ValueTypes DEF GuardEnds
  <2>2. TypeOK'
    BY <1>5, <2>1 DEF GuardEnds, EngineUnchanged, GuardUnchanged, TypeOK
  <2> QED BY <1>5, <2>2 DEF GuardEnds, EngineUnchanged, GuardUnchanged, Called, Blamed
<1>6. CASE Tick
  <2>1. TypeOK'
    BY <1>6 DEF Tick, EngineUnchanged, GuardUnchanged, TypeOK
  <2> QED BY <1>6, <2>1 DEF Tick, EngineUnchanged, GuardUnchanged, Called, Blamed
<1> QED BY <1>1, <1>2, <1>3, <1>4, <1>5, <1>6 DEF Guard

\* A step of shutdown keeps the types.
LEMMA ShutdownTypes ==
    ASSUME TypeInv, Close \/ Shutdown
    PROVE  TypeInv'
<1> USE DEF TypeInv, callVars, stateVars, worldVars, watchVars, guardVars,
            channelVars, timeVars
<1>1. CASE Close
  <2>1. pc' \in [Threads -> States]
    BY <1>1, GoToType DEF Close, States, Turn, Launching, Asking, Threads
  <2>2. TypeOK'
    BY <1>1, <2>1 DEF Close, TypeOK
  <2> QED BY <1>1, <2>2 DEF Close, TypeOK, Called, GoTo, Threads, Blamed
<1>2. CASE TryTurn
  <2>1. pc' \in [Threads -> States]
    BY <1>2, GoToType DEF TryTurn, States, Turn, Launching, Asking, Threads
  <2>2. holder' \in Threads \cup {Nobody}
    BY <1>2 DEF TryTurn, TypeOK, Threads
  <2>3. TypeOK'
    BY <1>2, <2>1, <2>2 DEF TryTurn, TypeOK
  <2> QED BY <1>2, <2>3 DEF TryTurn, TypeOK, Called, GoTo, Threads, Blamed
<1>3. CASE StopUnder
  <2>1. pc' \in [Threads -> States]
    BY <1>3, GoToType DEF StopUnder, States, Turn, Launching, Asking, Threads
  <2>2. fate' \in Seq({"running", "ended"})
    BY <1>3, KillSlotType DEF StopUnder
  <2>3. TypeOK'
    BY <1>3, <2>1, <2>2 DEF StopUnder, TypeOK
  <2> QED BY <1>3, <2>3 DEF StopUnder, TypeOK, Called, GoTo, Threads, Blamed
<1>4. CASE WaitTurn
  <2>1. pc' \in [Threads -> States]
    BY <1>4, GoToType DEF WaitTurn, States, Turn, Launching, Asking, Threads
  <2>2. holder' \in Threads \cup {Nobody}
    BY <1>4 DEF WaitTurn, Threads
  <2>3. TypeOK'
    BY <1>4, <2>1, <2>2 DEF WaitTurn, TypeOK
  <2> QED BY <1>4, <2>3 DEF WaitTurn, TypeOK, Called, GoTo, Threads, Blamed
<1>5. CASE Leave
  <2>1. pc' \in [Threads -> States]
    BY <1>5, GoToType DEF Leave, States, Threads
  <2>2. /\ fate' \in Seq({"running", "ended"})
        /\ slot' \in Nat /\ worker' \in Worker /\ asked' \in Frame
        /\ replies' \in Seq(Replies) /\ engine' \in Docs \cup {NoDoc}
    BY <1>5, RetireType DEF Leave, TypeOK
  <2>3. TypeOK'
    BY <1>5, <2>1, <2>2 DEF Leave, TypeOK
  <2> QED BY <1>5, <2>3 DEF Leave, TypeOK, Called, GoTo, Threads, Blamed
<1> QED BY <1>1, <1>2, <1>3, <1>4, <1>5 DEF Shutdown

LEMMA StepTypes == TypeInv /\ [Next]_vars => TypeInv'
<1> SUFFICES ASSUME TypeInv, [Next]_vars PROVE TypeInv'
  OBVIOUS
<1>1. ASSUME NEW r \in Requests, NEW d \in Docs, NEW p \in Pages, Issue(r, d, p)
      PROVE  TypeInv'
  BY <1>1, EntryTypes
<1>2. ASSUME NEW r \in Requests, Draw(r) PROVE TypeInv'
  BY <1>2, EntryTypes, EnsureTypes, AskTypes DEF Draw, Threads
<1>3. ASSUME NEW t \in Threads, Launch(t) PROVE TypeInv'
  BY <1>3, LaunchTypes
<1>4. ASSUME NEW t \in Threads, Receive(t) PROVE TypeInv'
  BY <1>4, ReceiveTypes
<1>5. CASE Started
  BY <1>5, LaunchTypes DEF Threads
<1>6. CASE Close \/ Shutdown
  BY <1>6, ShutdownTypes
<1>7. CASE Engine
  BY <1>7, EngineTypes
<1>8. CASE Guard \/ Tick
  BY <1>8, GuardTypes
<1>9. CASE UNCHANGED vars
  BY <1>9 DEF vars, callVars, stateVars, worldVars, watchVars, guardVars,
              channelVars, timeVars, TypeInv, TypeOK, Called, Blamed
<1> QED BY <1>1, <1>2, <1>3, <1>4, <1>5, <1>6, <1>7, <1>8, <1>9 DEF Next, Finished

\* Every variable of the page service always holds a value of its type
\* (TypeOK), whatever the number of requests and the limits.
THEOREM TypeCorrect == Spec => []TypeOK
<1>1. TypeInv => TypeOK
  BY DEF TypeInv
<1> QED BY InitTypes, StepTypes, <1>1, PTL DEF Spec
-----------------------------------------------------------------------------
(***************************************************************************)
(* Who holds the worker process of RenderService, for every number of      *)
(* requests, documents and pages and every value of the limits: there is   *)
(* never a second worker, none runs out of reach, and none is left once    *)
(* the application has closed.                                             *)
(*                                                                         *)
(* The argument: only the holder of the mutex of State starts and lets go  *)
(* of a process (Turns); whoever is about to start one has found or made   *)
(* the slot empty (Owner); a running process is in the slot or in the hands*)
(* of the thread about to put it there (NoStray), so an empty slot means   *)
(* that none runs; and after closing nobody gets past the status (Closed). *)
(***************************************************************************)
Waits == {"idle", "waiting", "done"}
MainWaits == {"serving", "trying", "stopping", "blocked", "closed"}

\* A thread is in its turn exactly when it holds the mutex of State; requests
\* and the main thread run the parts of the program that are theirs.
Turns ==
    /\ \A t \in Threads : pc[t] \in Turn <=> holder = t
    /\ \A r \in Requests : pc[r] \in Waits \cup (Turn \ {"leaving"})
    /\ pc[Main] \in MainWaits \cup Launching \cup {"falling", "leaving"}

\* The slot holds the process of the worker: none when one is about to be
\* started, one throughout an exchange.
Owner ==
    /\ worker.pid = slot
    /\ slot = 0 => worker = NoWorker
    /\ slot # 0 => slot \in Pids
    /\ \A t \in Threads :
          pc[t] \in {"counting", "spawning", "registering"} => slot = 0
    /\ \A t \in Threads : pc[t] = "registering" => Len(fate) > 0
    /\ \A t \in Threads : pc[t] \in {"greeting", "greeted"} \cup Asking => slot # 0

\* Once closed, rendering is off and no request is past the check of it.
Closed == pc[Main] = "closed" =>
    /\ ~available
    /\ slot = 0
    /\ \A r \in Requests : pc[r] \in Waits \cup {"entered"}

OwnInv == Turns /\ Owner /\ NoStray /\ Closed

-----------------------------------------------------------------------------
LEMMA InitOwn == Init => OwnInv
<1> SUFFICES ASSUME Init PROVE OwnInv
  OBVIOUS
<1>1. \A r \in Requests : pc[r] = "idle"
  BY RenderAssumption DEF Init, Threads
<1>2. \/ pc[Main] = "spawning" /\ holder = Main
      \/ pc[Main] = "serving" /\ holder = Nobody
  BY DEF Init, Threads
<1>3. Turns
  BY <1>1, <1>2, RenderAssumption
  DEF Turns, Waits, MainWaits, Turn, Launching, Asking, Threads
<1>4. Owner
  BY <1>1, <1>2, RenderAssumption DEF Init, Owner, NoWorker, Threads, Asking
<1>5. NoStray /\ Closed
  BY <1>2 DEF Init, NoStray, Closed, Pids, Running
<1> QED BY <1>3, <1>4, <1>5 DEF OwnInv

\* A step from the call to the strikes.
LEMMA EntryOwn ==
    ASSUME TypeInv, OwnInv, NEW r \in Requests,
           \/ \E d \in Docs, p \in Pages : Issue(r, d, p)
           \/ Enter(r) \/ TurnedAway(r) \/ CheckStrikes(r)
    PROVE  OwnInv'
<1> USE DEF TypeInv, TypeOK, OwnInv, Turns, Owner, NoStray, Closed, Waits, MainWaits,
            Turn, Launching, Asking, Threads, Pids, Running, NoWorker, callVars,
            stateVars, worldVars, watchVars, guardVars, channelVars, timeVars
<1>1. ASSUME NEW d \in Docs, NEW p \in Pages, Issue(r, d, p) PROVE OwnInv'
  BY <1>1, RenderAssumption DEF Issue, GoTo
<1>2. CASE Enter(r)
  BY <1>2, RenderAssumption DEF Enter, GoTo
<1>3. CASE TurnedAway(r)
  <2>1. CASE ~available /\ Return(r, Say("off"))
    BY <1>3, <2>1, RenderAssumption DEF TurnedAway, Return
  <2>2. CASE available /\ closing /\ Return(r, Say("closing"))
    BY <1>3, <2>2, RenderAssumption DEF TurnedAway, Return
  <2> QED BY <1>3, <2>1, <2>2 DEF TurnedAway
<1>4. CASE CheckStrikes(r)
  <2>1. CASE Return(r, Say("refused"))
    BY <1>4, <2>1, RenderAssumption DEF CheckStrikes, Return, Serving
  <2>2. CASE GoTo(r, "ensuring") /\ UNCHANGED <<answer, holder>>
    BY <1>4, <2>2, RenderAssumption DEF CheckStrikes, GoTo, Serving
  <2> QED BY <1>4, <2>1, <2>2 DEF CheckStrikes
<1> QED BY <1>1, <1>2, <1>3, <1>4

\* A step of ensure_worker.
LEMMA EnsureOwn ==
    ASSUME TypeInv, OwnInv, NEW r \in Requests,
           \/ WorkerRuns(r) \/ WorkerGone(r) \/ NoWorkerYet(r)
           \/ RestartTooOften(r) \/ RestartWhileClosing(r) \/ Restart(r)
           \/ Restarted(r) \/ RestartedTooLate(r)
    PROVE  OwnInv'
<1> USE DEF TypeInv, TypeOK, OwnInv, Turns, Owner, NoStray, Closed, Waits, MainWaits,
            Turn, Launching, Asking, Threads, Pids, Running, NoWorker, callVars,
            stateVars, worldVars, watchVars, guardVars, channelVars, timeVars
<1>1. CASE WorkerRuns(r)
  BY <1>1, RenderAssumption DEF WorkerRuns, GoTo
<1>2. CASE WorkerGone(r)
  BY <1>2, RenderAssumption DEF WorkerGone, GoTo, Retire, KillSlot, Ended
<1>3. CASE NoWorkerYet(r)
  BY <1>3, RenderAssumption DEF NoWorkerYet, GoTo
<1>4. CASE RestartTooOften(r)
  BY <1>4, RenderAssumption DEF RestartTooOften, Return
<1>5. CASE RestartWhileClosing(r)
  BY <1>5, RenderAssumption DEF RestartWhileClosing, Return
<1>6. CASE Restart(r)
  BY <1>6, RenderAssumption DEF Restart, GoTo
<1>7. CASE Restarted(r)
  BY <1>7, RenderAssumption DEF Restarted, GoTo
<1>8. CASE RestartedTooLate(r)
  BY <1>8, RenderAssumption
  DEF RestartedTooLate, Return, Retire, KillSlot, Ended
<1> QED BY <1>1, <1>2, <1>3, <1>4, <1>5, <1>6, <1>7, <1>8

\* A step of launch.
LEMMA LaunchOwn ==
    ASSUME TypeInv, OwnInv, NEW t \in Threads, Launch(t) \/ Started
    PROVE  OwnInv'
<1> USE DEF TypeInv, TypeOK, OwnInv, Turns, Owner, NoStray, Closed, Waits, MainWaits,
            Turn, Launching, Asking, Threads, Pids, Running, NoWorker, callVars,
            stateVars, worldVars, watchVars, guardVars, channelVars, timeVars
<1>1. CASE Spawn(t)
  BY <1>1, RenderAssumption DEF Spawn, GoTo
<1>2. CASE SpawnFails(t)
  BY <1>2, RenderAssumption DEF SpawnFails, NotStarted
<1>3. CASE Register(t)
  <2>1. slot = 0 /\ Len(fate) > 0 /\ Len(fate) \in Nat /\ holder = t
    BY <1>3 DEF Register
  <2>2. fate' = fate /\ slot' = Len(fate) /\ pc' = [pc EXCEPT ![t] = "greeting"]
    BY <1>3, <2>1 DEF Register, KillSlot, GoTo
  <2>3. Turns'
    BY <1>3, <2>1, <2>2, RenderAssumption DEF Register
  <2>4. Owner'
    BY <1>3, <2>1, <2>2 DEF Register
  <2>5. NoStray'
    BY <2>1, <2>2
  <2>6. Closed'
    BY <1>3, <2>1, <2>2, RenderAssumption DEF Register
  <2> QED BY <2>3, <2>4, <2>5, <2>6
<1>4. CASE NoThreads(t)
  BY <1>4, RenderAssumption DEF NoThreads, GoTo
<1>5. CASE Greeted(t)
  <2>1. CASE GoTo(t, "greeted")
    BY <1>5, <2>1, RenderAssumption DEF Greeted, GoTo
  <2>2. CASE GoTo(t, "falling")
    BY <1>5, <2>2, RenderAssumption DEF Greeted, GoTo
  <2> QED BY <1>5, <2>1, <2>2 DEF Greeted
<1>6. CASE LaunchFails(t)
  BY <1>6, RenderAssumption
  DEF LaunchFails, NotStarted, Retire, KillSlot, Ended
<1>7. CASE Started
  BY <1>7, RenderAssumption DEF Started, GoTo
<1> QED BY <1>1, <1>2, <1>3, <1>4, <1>5, <1>6, <1>7 DEF Launch

\* A step of ask, or the fall of a request.
LEMMA AskOwn ==
    ASSUME TypeInv, OwnInv, NEW r \in Requests,
           \/ AskHeld(r) \/ TooBig(r) \/ RaiseCeiling(r) \/ SendDocument(r)
           \/ DocumentAnswered(r) \/ SendDraw(r) \/ PageAnswered(r)
           \/ Lied(r) \/ RequestFalls(r)
    PROVE  OwnInv'
<1> USE DEF TypeInv, TypeOK, OwnInv, Turns, Owner, NoStray, Closed, Waits, MainWaits,
            Turn, Launching, Asking, Threads, Pids, Running, NoWorker, callVars,
            stateVars, worldVars, watchVars, guardVars, channelVars, timeVars
<1>1. CASE AskHeld(r)
  <2>1. CASE GoTo(r, "opened") /\ UNCHANGED <<answer, holder>>
    BY <1>1, <2>1, RenderAssumption DEF AskHeld, GoTo
  <2>2. CASE Return(r, Say("failed"))
    BY <1>1, <2>2, RenderAssumption DEF AskHeld, Return
  <2> QED BY <1>1, <2>1, <2>2 DEF AskHeld
<1>2. CASE TooBig(r)
  BY <1>2, RenderAssumption DEF TooBig, Return
<1>3. CASE RaiseCeiling(r)
  BY <1>3, RenderAssumption DEF RaiseCeiling, GoTo, Worker
<1>4. CASE SendDocument(r)
  BY <1>4, RenderAssumption DEF SendDocument, GoTo
<1>5. CASE DocumentAnswered(r)
  <2>1. CASE GoTo(r, "opened") /\ UNCHANGED <<answer, holder>>
    BY <1>5, <2>1, RenderAssumption DEF DocumentAnswered, GoTo, Worker
  <2>2. CASE Return(r, Say("failed"))
    BY <1>5, <2>2, RenderAssumption DEF DocumentAnswered, Return, Worker
  <2> QED BY <1>5, <2>1, <2>2 DEF DocumentAnswered
<1>6. CASE SendDraw(r)
  BY <1>6, RenderAssumption DEF SendDraw, GoTo
<1>7. CASE PageAnswered(r)
  BY <1>7, RenderAssumption DEF PageAnswered, Return
<1>8. CASE Lied(r)
  BY <1>8, RenderAssumption DEF Lied, GoTo, Fails
<1>9. CASE RequestFalls(r)
  BY <1>9, RenderAssumption DEF RequestFalls, Return, Retire, KillSlot, Ended
<1> QED BY <1>1, <1>2, <1>3, <1>4, <1>5, <1>6, <1>7, <1>8, <1>9

\* An exchange that ends without a reply.
LEMMA ReceiveOwn ==
    ASSUME TypeInv, OwnInv, NEW t \in Threads, Receive(t)
    PROVE  OwnInv'
<1> USE DEF TypeInv, TypeOK, OwnInv, Turns, Owner, NoStray, Closed, Waits, MainWaits,
            Turn, Launching, Asking, Threads, Pids, Running, NoWorker, callVars,
            stateVars, worldVars, watchVars, guardVars, channelVars, timeVars
<1>1. CASE Lost(t)
  BY <1>1, RenderAssumption DEF Lost, GoTo, Fails, Awaiting
<1>2. CASE TimesOut(t)
  BY <1>2, RenderAssumption DEF TimesOut, GoTo, Fails, Awaiting
<1> QED BY <1>1, <1>2 DEF Receive

\* A step of the worker, which may only end.
LEMMA EngineOwn ==
    ASSUME TypeInv, OwnInv, Engine
    PROVE  OwnInv'
<1> USE DEF TypeInv, TypeOK, OwnInv, Turns, Owner, NoStray, Closed, Waits, MainWaits,
            Turn, Launching, Asking, Threads, Pids, Running, NoWorker, callVars,
            stateVars, worldVars, watchVars, guardVars, channelVars, timeVars
<1>1. CASE EngineGreets
  BY <1>1, RenderAssumption DEF EngineGreets, EngineUnchanged
<1>2. CASE EngineDeclines
  BY <1>2, RenderAssumption
  DEF EngineDeclines, Ended, EngineUnchanged, EngineRuns
<1>3. CASE EngineOpens
  BY <1>3, RenderAssumption DEF EngineOpens, EngineUnchanged
<1>4. CASE EngineDraws
  BY <1>4, RenderAssumption DEF EngineDraws, EngineUnchanged
<1>5. CASE EngineDies
  BY <1>5, RenderAssumption DEF EngineDies, Ended, EngineUnchanged
<1> QED BY <1>1, <1>2, <1>3, <1>4, <1>5 DEF Engine

\* A step of the guard, which may only stop the process of the slot.
LEMMA GuardOwn ==
    ASSUME TypeInv, OwnInv, Guard \/ Tick
    PROVE  OwnInv'
<1> USE DEF TypeInv, TypeOK, OwnInv, Turns, Owner, NoStray, Closed, Waits, MainWaits,
            Turn, Launching, Asking, Threads, Pids, Running, NoWorker, callVars,
            stateVars, worldVars, watchVars, guardVars, channelVars, timeVars
<1>1. CASE GuardLooks
  BY <1>1, RenderAssumption DEF GuardLooks, GuardUnchanged
<1>2. CASE GuardContent
  BY <1>2, RenderAssumption DEF GuardContent, GuardUnchanged
<1>3. ASSUME NEW held \in 0 .. MaxHeld, GuardCondemns(held) PROVE OwnInv'
  BY <1>3, RenderAssumption DEF GuardCondemns, GuardUnchanged
<1>4. CASE GuardStops
  BY <1>4, RenderAssumption DEF GuardStops, KillSlot, Ended, GuardUnchanged
<1>5. CASE GuardEnds
  BY <1>5, RenderAssumption DEF GuardEnds, GuardUnchanged
<1>6. CASE Tick
  BY <1>6, RenderAssumption DEF Tick
<1> QED BY <1>1, <1>2, <1>3, <1>4, <1>5, <1>6 DEF Guard

\* A step of shutdown.
LEMMA ShutdownOwn ==
    ASSUME TypeInv, OwnInv, Close \/ Shutdown
    PROVE  OwnInv'
<1> USE DEF TypeInv, TypeOK, OwnInv, Turns, Owner, NoStray, Closed, Waits, MainWaits,
            Turn, Launching, Asking, Threads, Pids, Running, NoWorker, callVars,
            stateVars, worldVars, watchVars, guardVars, channelVars, timeVars
<1>1. CASE Close
  BY <1>1, RenderAssumption DEF Close, GoTo
<1>2. CASE TryTurn
  <2>1. CASE holder = Nobody /\ holder' = Main /\ GoTo(Main, "leaving")
    BY <1>2, <2>1, RenderAssumption DEF TryTurn, GoTo
  <2>2. CASE holder # Nobody /\ GoTo(Main, "stopping") /\ UNCHANGED holder
    BY <1>2, <2>2, RenderAssumption DEF TryTurn, GoTo
  <2> QED BY <1>2, <2>1, <2>2 DEF TryTurn
<1>3. CASE StopUnder
  BY <1>3, RenderAssumption DEF StopUnder, GoTo, KillSlot, Ended
<1>4. CASE WaitTurn
  BY <1>4, RenderAssumption DEF WaitTurn, GoTo
<1>5. CASE Leave
  <2>1. CASE worker # NoWorker /\ Retire
    BY <1>5, <2>1, RenderAssumption DEF Leave, GoTo, Retire, KillSlot, Ended
  <2>2. CASE worker = NoWorker /\ UNCHANGED <<worker, slot, fate, channelVars>>
    BY <1>5, <2>2, RenderAssumption DEF Leave, GoTo, Retire, KillSlot, Ended
  <2> QED BY <1>5, <2>1, <2>2 DEF Leave
<1> QED BY <1>1, <1>2, <1>3, <1>4, <1>5 DEF Shutdown

LEMMA StepOwn == TypeInv /\ OwnInv /\ [Next]_vars => OwnInv'
<1> SUFFICES ASSUME TypeInv, OwnInv, [Next]_vars PROVE OwnInv'
  OBVIOUS
<1>1. ASSUME NEW r \in Requests, NEW d \in Docs, NEW p \in Pages, Issue(r, d, p)
      PROVE  OwnInv'
  BY <1>1, EntryOwn
<1>2. ASSUME NEW r \in Requests, Draw(r) PROVE OwnInv'
  BY <1>2, EntryOwn, EnsureOwn, AskOwn DEF Draw
<1>3. ASSUME NEW t \in Threads, Launch(t) PROVE OwnInv'
  BY <1>3, LaunchOwn
<1>4. ASSUME NEW t \in Threads, Receive(t) PROVE OwnInv'
  BY <1>4, ReceiveOwn
<1>5. CASE Started
  BY <1>5, LaunchOwn DEF Threads
<1>6. CASE Close \/ Shutdown
  BY <1>6, ShutdownOwn
<1>7. CASE Engine
  BY <1>7, EngineOwn
<1>8. CASE Guard \/ Tick
  BY <1>8, GuardOwn
<1>9. CASE UNCHANGED vars
  BY <1>9 DEF vars, callVars, stateVars, worldVars, watchVars, guardVars,
              channelVars, timeVars, OwnInv, Turns, Owner, NoStray, Closed, Pids, Running
<1> QED BY <1>1, <1>2, <1>3, <1>4, <1>5, <1>6, <1>7, <1>8, <1>9 DEF Next, Finished

THEOREM Owned == Spec => [](TypeInv /\ OwnInv)
<1>1. Init => TypeInv /\ OwnInv
  BY InitTypes, InitOwn
<1>2. TypeInv /\ OwnInv /\ [Next]_vars => TypeInv' /\ OwnInv'
  BY StepTypes, StepOwn
<1> QED BY <1>1, <1>2, PTL DEF Spec

\* No worker runs out of reach of the guard and of closing (NoStray).
THEOREM NeverAStray == Spec => []NoStray
<1>1. OwnInv => NoStray
  BY DEF OwnInv
<1> QED BY Owned, <1>1, PTL

\* There are never two workers (OneWorker), whatever crashes, restarts and
\* closing come together.
THEOREM NeverTwoWorkers == Spec => []OneWorker
<1>1. ASSUME TypeInv, OwnInv, NEW p \in Pids, NEW q \in Pids, Running(p), Running(q)
      PROVE  p = q
  <2>1. p # 0 /\ q # 0
    BY <1>1 DEF TypeInv, TypeOK, Pids
  <2> QED BY <1>1, <2>1 DEF OwnInv, NoStray
<1>2. TypeInv /\ OwnInv => OneWorker
  BY <1>1 DEF OneWorker
<1> QED BY Owned, <1>2, PTL

\* No worker is left running once shutdown has returned (NothingLeftRunning).
THEOREM ClosingLeavesNothing == Spec => []NothingLeftRunning
<1>1. ASSUME TypeInv, OwnInv, pc[Main] = "closed", NEW p \in Pids
      PROVE  ~Running(p)
  <2>1. slot = 0 /\ \A t \in Threads : pc[t] # "registering"
    BY <1>1 DEF OwnInv, Closed, Waits, Threads
  <2>2. p # 0
    BY <1>1 DEF TypeInv, TypeOK, Pids
  <2> QED BY <1>1, <2>1, <2>2 DEF OwnInv, NoStray
<1>2. TypeInv /\ OwnInv => NothingLeftRunning
  BY <1>1 DEF NothingLeftRunning
<1> QED BY Owned, <1>2, PTL
-----------------------------------------------------------------------------
(***************************************************************************)
(* The exchange with the worker, for every number of requests, documents   *)
(* and pages and every value of the limits: an image given is the one asked*)
(* for, a drawing is asked only of a worker that holds the document, the   *)
(* ceiling covers what the worker holds and what is on its way to it, and  *)
(* a worker that closing could not see is asked nothing.                   *)
(*                                                                         *)
(* The argument: at most one frame is under way, sent by the one whose turn*)
(* it is (Sent); a reply in the channel carries the number of a frame      *)
(* already sent, and never that of the frame under way (Answered), so that *)
(* a reply the worker gave twice is never taken for another; what the      *)
(* window believes loaded is loaded (Loaded) and under the ceiling         *)
(* (Covered).                                                              *)
(***************************************************************************)
\* The frame under way is that of the one whose turn it is, who waits for its
\* answer or is about to let go of the worker.
Sent ==
    /\ asked.kind = "hello" =>
          replies = <<>> /\ \E t \in Threads : pc[t] \in {"greeting", "falling"}
    /\ asked.kind = "document" =>
          \E r \in Requests : /\ pc[r] \in {"opening", "falling"}
                              /\ asked = DocumentFrame(r)
    /\ asked.kind = "draw" =>
          \E r \in Requests : /\ pc[r] \in {"drawing", "falling"}
                              /\ asked = DrawFrame(r)

\* Where a request is once it has sent its document, or its drawing.
Opening == {"opening", "opened", "drawing", "falling", "done"}
Drawing == {"drawing", "falling", "done"}

\* What a reply of the channel says of the request it answers.
Answers(m) ==
    /\ asked.kind \in {"document", "draw"} => m.number # asked.number
    /\ \A r \in Requests : m.number = Number(r, "opening") =>
          /\ pc[r] \in Opening
          /\ pc[r] = "opening" =>
                engine = IF m.kind = "opened" THEN req[r].doc ELSE NoDoc
    /\ \A r \in Requests : m.number = Number(r, "drawing") => pc[r] \in Drawing
    /\ m.kind = "bitmap" =>
          \E r \in Requests : /\ pc[r] # "idle"
                              /\ m.number = Number(r, "drawing")
                              /\ m.image = req[r]

Channel == {replies[i] : i \in DOMAIN replies}

Answered == \A m \in Channel : Answers(m)

\* What the window believes loaded is loaded.
Loaded ==
    /\ worker.opened => worker.loaded # NoDoc /\ engine = worker.loaded
    /\ \A r \in Requests : pc[r] \in {"opened", "drawing"} =>
          worker.opened /\ worker.loaded = req[r].doc
    /\ \A r \in Requests : pc[r] \in {"sending", "opening"} => worker.loaded = NoDoc
    /\ asked.kind = "document" => worker.loaded = NoDoc
    /\ asked.kind = "draw" => worker.opened /\ worker.loaded = asked.doc

\* The ceiling covers what is loaded and what is on its way.
Covered ==
    /\ engine # NoDoc => ceiling >= CeilingOf(engine)
    /\ asked.kind = "document" => ceiling >= CeilingOf(asked.doc)
    /\ \A r \in Requests : pc[r] = "sending" => ceiling >= CeilingOf(req[r].doc)
    /\ worker.loaded # NoDoc => ceiling = CeilingOf(worker.loaded)

ExchangeInv == Sent /\ Answered /\ Loaded /\ Covered

-----------------------------------------------------------------------------
(* What moves through the channel. *)

\* A number names one request and one phase.
LEMMA Numbering ==
    \A r, s, phase, other :
        Number(r, phase) = Number(s, other) <=> r = s /\ phase = other
BY DEF Number

\* What is left of the channel was in it, and so was its head.
LEMMA ChannelTail ==
    ASSUME TypeInv, replies # <<>>
    PROVE  /\ Head(replies) \in Channel
           /\ replies' = Tail(replies) => Channel' \subseteq Channel
<1>1. replies \in Seq(Replies)
  BY DEF TypeInv, TypeOK
<1>2. Head(replies) = replies[1] /\ 1 \in DOMAIN replies
  BY <1>1
<1>3. ASSUME replies' = Tail(replies) PROVE Channel' \subseteq Channel
  <2>1. \A i \in DOMAIN replies' : i + 1 \in DOMAIN replies /\ replies'[i] = replies[i + 1]
    BY <1>1, <1>3
  <2> QED BY <2>1 DEF Channel
<1> QED BY <1>2, <1>3 DEF Channel

\* What the worker says is all that is new in it.
LEMMA ChannelSays ==
    ASSUME TypeInv, NEW m
    PROVE  /\ EngineSays(m) => Channel' \subseteq Channel \cup {m}
           /\ replies' = Append(replies, m) => Channel' \subseteq Channel \cup {m}
<1>1. replies \in Seq(Replies)
  BY DEF TypeInv, TypeOK
<1>2. ASSUME replies' = Append(replies, m) PROVE Channel' \subseteq Channel \cup {m}
  BY <1>1, <1>2 DEF Channel
<1>3. ASSUME replies' = Append(Append(replies, m), m)
      PROVE  Channel' \subseteq Channel \cup {m}
  <2>1. DOMAIN replies' = 1 .. (Len(replies) + 2)
    BY <1>1, <1>3
  <2>2. \A i \in DOMAIN replies' : replies'[i] = IF i <= Len(replies) THEN replies[i] ELSE m
    BY <1>1, <1>3
  <2> QED BY <1>1, <2>1, <2>2 DEF Channel
<1> QED BY <1>2, <1>3 DEF EngineSays

-----------------------------------------------------------------------------
(* The steps that leave the channel alone. *)

\* A thread that moves, and does not leave what it waits for but to fall.
LEMMA MoveExchange ==
    ASSUME TypeInv, OwnInv, ExchangeInv, NEW t \in Threads, NEW where,
           pc' = [pc EXCEPT ![t] = where],
           UNCHANGED <<req, channelVars, worker, ceiling>>,
           pc[t] \in Awaiting => where = "falling",
           pc[t] \notin {"falling", "opened", "done"},
           where \notin {"idle", "sending", "opening", "drawing"},
           where = "opened" => worker.opened /\ Held(t)
    PROVE  ExchangeInv'
<1> USE DEF TypeInv, TypeOK, ExchangeInv, Threads, channelVars
<1>1. Sent'
  BY DEF Sent, Awaiting, DocumentFrame, DrawFrame
<1>2. Answered'
  <2> SUFFICES ASSUME NEW m \in Channel PROVE Answers(m)'
    BY DEF Answered, Channel
  <2> QED BY DEF Answered, Answers, Awaiting, Opening, Drawing
<1>3. Loaded'
  BY DEF Loaded, Held
<1>4. Covered'
  BY DEF Covered
<1> QED BY <1>1, <1>2, <1>3, <1>4

\* A worker let go of leaves nothing behind.
LEMMA RetireExchange ==
    ASSUME TypeInv, OwnInv, ExchangeInv, Retire, NEW t \in Threads, NEW where,
           pc' = [pc EXCEPT ![t] = where], UNCHANGED req,
           pc[t] \in Turn,
           where \in {"done", "counting", "serving", "closed"}
    PROVE  ExchangeInv'
<1> USE DEF TypeInv, TypeOK, ExchangeInv, Threads, Retire, Quiet, NoWorker
<1>1. \A r \in Requests : pc'[r] \notin {"sending", "opening", "opened", "drawing"}
  BY DEF OwnInv, Turns, Turn, Asking
<1>2. Sent' /\ Answered' /\ Loaded' /\ Covered'
  BY <1>1 DEF Sent, Answered, Channel, Loaded, Covered
<1> QED BY <1>2

\* Nobody moves, and the channel, the worker and its ceiling stay.
LEMMA StillExchange ==
    ASSUME ExchangeInv, UNCHANGED <<pc, req, channelVars, worker, ceiling>>
    PROVE  ExchangeInv'
BY DEF ExchangeInv, Sent, Answered, Answers, Channel, Loaded, Covered, DocumentFrame,
       DrawFrame, channelVars

-----------------------------------------------------------------------------
LEMMA InitExchange == Init => ExchangeInv
<1> SUFFICES ASSUME Init PROVE ExchangeInv
  OBVIOUS
<1>1. \A r \in Requests : pc[r] = "idle"
  BY RenderAssumption DEF Init, Threads
<1> QED BY <1>1 DEF Init, ExchangeInv, Sent, Answered, Channel, Loaded, Covered,
                    Quiet, NoWorker

\* A step from the call to the strikes.
LEMMA EntryExchange ==
    ASSUME TypeInv, OwnInv, ExchangeInv, NEW r \in Requests,
           \/ \E d \in Docs, p \in Pages : Issue(r, d, p)
           \/ Enter(r) \/ TurnedAway(r) \/ CheckStrikes(r)
    PROVE  ExchangeInv'
<1> USE DEF callVars, stateVars, worldVars, watchVars, guardVars, channelVars,
            timeVars, Awaiting
<1>1. ASSUME NEW d \in Docs, NEW p \in Pages, Issue(r, d, p) PROVE ExchangeInv'
  <2> USE <1>1 DEF TypeInv, TypeOK, ExchangeInv, Threads, Issue, GoTo
  <2>1. Sent'
    BY DEF Sent, DocumentFrame, DrawFrame
  <2>2. Answered'
    <3> SUFFICES ASSUME NEW m \in Channel PROVE Answers(m)'
      BY DEF Answered, Channel
    <3> QED BY DEF Answered, Answers, Opening, Drawing
  <2>3. Loaded' /\ Covered'
    BY DEF Loaded, Covered
  <2> QED BY <2>1, <2>2, <2>3
<1>2. CASE Enter(r)
  BY <1>2, MoveExchange DEF Enter, GoTo, Threads
<1>3. CASE TurnedAway(r)
  BY <1>3, MoveExchange DEF TurnedAway, Return, Threads
<1>4. CASE CheckStrikes(r)
  BY <1>4, MoveExchange DEF CheckStrikes, Return, GoTo, Threads
<1> QED BY <1>1, <1>2, <1>3, <1>4

\* A step of ensure_worker.
LEMMA EnsureExchange ==
    ASSUME TypeInv, OwnInv, ExchangeInv, NEW r \in Requests,
           \/ WorkerRuns(r) \/ WorkerGone(r) \/ NoWorkerYet(r)
           \/ RestartTooOften(r) \/ RestartWhileClosing(r) \/ Restart(r)
           \/ Restarted(r) \/ RestartedTooLate(r)
    PROVE  ExchangeInv'
<1> USE DEF callVars, stateVars, worldVars, watchVars, guardVars, channelVars,
            timeVars, Awaiting, Threads
<1>1. CASE WorkerRuns(r)
  BY <1>1, MoveExchange DEF WorkerRuns, GoTo
<1>2. CASE WorkerGone(r)
  BY <1>2, RetireExchange DEF WorkerGone, GoTo, Turn
<1>3. CASE NoWorkerYet(r)
  BY <1>3, MoveExchange DEF NoWorkerYet, GoTo
<1>4. CASE RestartTooOften(r)
  BY <1>4, MoveExchange DEF RestartTooOften, Return
<1>5. CASE RestartWhileClosing(r)
  BY <1>5, MoveExchange DEF RestartWhileClosing, Return
<1>6. CASE Restart(r)
  BY <1>6, MoveExchange DEF Restart, GoTo
<1>7. CASE Restarted(r)
  BY <1>7, MoveExchange DEF Restarted, GoTo
<1>8. CASE RestartedTooLate(r)
  BY <1>8, RetireExchange DEF RestartedTooLate, Return, Turn, Launching
<1> QED BY <1>1, <1>2, <1>3, <1>4, <1>5, <1>6, <1>7, <1>8

\* A step of launch: the channel of a new process is empty but for hello.
LEMMA LaunchExchange ==
    ASSUME TypeInv, OwnInv, ExchangeInv, NEW t \in Threads, Launch(t) \/ Started
    PROVE  ExchangeInv'
<1> USE DEF callVars, stateVars, worldVars, watchVars, guardVars, channelVars,
            timeVars, Awaiting
<1>1. CASE Spawn(t)
  BY <1>1, MoveExchange DEF Spawn, GoTo
<1>2. CASE SpawnFails(t)
  BY <1>2, MoveExchange DEF SpawnFails, NotStarted
<1>3. CASE Register(t)
  <2> USE <1>3 DEF TypeInv, TypeOK, Register, GoTo, Hello
  <2>1. /\ pc'[t] = "greeting"
        /\ \A r \in Requests : pc'[r] \notin {"sending", "opening", "opened", "drawing"}
    BY DEF OwnInv, Turns, Turn, Launching, Asking, Threads
  <2>2. Sent'
    BY <2>1 DEF Sent
  <2>3. Answered' /\ Loaded' /\ Covered'
    BY <2>1 DEF Answered, Channel, Loaded, Covered
  <2> QED BY <2>2, <2>3 DEF ExchangeInv
<1>4. CASE NoThreads(t)
  BY <1>4, MoveExchange DEF NoThreads, GoTo
<1>5. CASE Greeted(t)
  <2> USE <1>5 DEF TypeInv, TypeOK, ExchangeInv, Greeted, GoTo
  <2>1. PICK where \in {"greeted", "falling"} : pc' = [pc EXCEPT ![t] = where]
    OBVIOUS
  <2>2. \A r \in Requests : pc[r] \notin {"opening", "drawing", "falling"}
    BY DEF OwnInv, Turns, Turn, Launching, Asking, Threads
  <2>3. asked.kind \notin {"hello", "document", "draw"}
    BY <2>2 DEF Sent
  <2>4. Sent'
    BY <2>3 DEF Sent
  <2>5. Answered'
    <3> SUFFICES ASSUME NEW m \in Channel PROVE Answers(m)'
      BY ChannelTail DEF Answered
    <3> QED BY <2>1, <2>3 DEF Answered, Answers, Opening, Drawing
  <2>6. Loaded' /\ Covered'
    BY <2>1, <2>3 DEF Loaded, Covered
  <2> QED BY <2>4, <2>5, <2>6
<1>6. CASE LaunchFails(t)
  BY <1>6, RetireExchange DEF LaunchFails, NotStarted, Turn
<1>7. CASE Started
  BY <1>7, MoveExchange DEF Started, GoTo, Threads
<1> QED BY <1>1, <1>2, <1>3, <1>4, <1>5, <1>6, <1>7 DEF Launch

\* The ceiling of a document is a number of bytes.
LEMMA DocumentCeiling == \A d \in Docs : CeilingOf(d) \in Nat
BY RenderAssumption DEF CeilingOf

\* While a request is in its turn and not waiting, no frame is under way.
LEMMA NothingUnderWay ==
    ASSUME TypeInv, OwnInv, ExchangeInv, NEW t \in Threads, pc[t] \in Turn,
           pc[t] \notin Awaiting \cup {"falling"}
    PROVE  asked.kind = "none"
<1>1. \A s \in Threads : pc[s] \notin Awaiting \cup {"falling"}
  BY DEF OwnInv, Turns, Turn, Launching, Asking, Awaiting
<1> QED BY <1>1 DEF TypeInv, TypeOK, Frame, ExchangeInv, Sent, Awaiting, Threads

\* A reply to the drawing, or to the document, of the request in its turn is
\* not the frame under way.
LEMMA Served ==
    ASSUME TypeInv, OwnInv, ExchangeInv, NEW r \in Requests,
           pc[r] \in {"opening", "drawing"}, NEW m \in Channel,
           m.number = Number(r, pc[r])
    PROVE  asked.kind = "none"
<1>1. asked.kind \in {"none", "hello", "document", "draw"}
  BY DEF TypeInv, TypeOK, Frame
<1>2. \A t \in Threads : t # r => pc[t] \notin Awaiting \cup {"falling"}
  BY DEF OwnInv, Turns, Turn, Launching, Asking, Awaiting, Threads
<1>3. asked.kind # "hello"
  BY <1>2 DEF ExchangeInv, Sent, Awaiting, Threads
<1>4. asked.kind = "document" => pc[r] = "opening" /\ asked = DocumentFrame(r)
  BY <1>2 DEF ExchangeInv, Sent, Awaiting, Threads
<1>5. asked.kind = "draw" => pc[r] = "drawing" /\ asked = DrawFrame(r)
  BY <1>2 DEF ExchangeInv, Sent, Awaiting, Threads
<1>6. asked.kind \in {"document", "draw"} => m.number # asked.number
  BY DEF ExchangeInv, Answered, Answers
<1> QED BY <1>1, <1>3, <1>4, <1>5, <1>6 DEF DocumentFrame, DrawFrame

\* A step of ask, or the fall of a request.
LEMMA AskExchange ==
    ASSUME TypeInv, OwnInv, ExchangeInv, NEW r \in Requests,
           \/ AskHeld(r) \/ TooBig(r) \/ RaiseCeiling(r) \/ SendDocument(r)
           \/ DocumentAnswered(r) \/ SendDraw(r) \/ PageAnswered(r)
           \/ Lied(r) \/ RequestFalls(r)
    PROVE  ExchangeInv'
<1> USE DEF callVars, stateVars, worldVars, watchVars, guardVars, channelVars,
            timeVars, Awaiting
<1>0. \A s \in Requests : s # r /\ pc[r] \in Turn => pc[s] \notin Turn
  BY DEF OwnInv, Turns, Threads
<1>1. CASE AskHeld(r)
  BY <1>1, MoveExchange DEF AskHeld, Return, GoTo, Threads
<1>2. CASE TooBig(r)
  BY <1>2, MoveExchange DEF TooBig, Return, Threads
<1>3. CASE RaiseCeiling(r)
  <2> USE <1>3 DEF TypeInv, TypeOK, ExchangeInv, Threads, RaiseCeiling, GoTo
  <2>1. asked.kind = "none"
    BY NothingUnderWay DEF Turn, Asking
  <2>2. \A s \in Requests : pc'[s] \notin {"opening", "opened", "drawing"}
    BY <1>0 DEF Turn, Asking
  <2>3. /\ worker' = [worker EXCEPT !.loaded = NoDoc, !.opened = FALSE]
        /\ worker'.loaded = NoDoc /\ worker'.opened = FALSE
    BY DEF Worker
  <2>4. Sent'
    BY <2>1 DEF Sent
  <2>5. Answered'
    <3> SUFFICES ASSUME NEW m \in Channel PROVE Answers(m)'
      BY DEF Answered, Channel
    <3> QED BY <2>1, <2>2 DEF Answered, Answers, Opening, Drawing
  <2>6. Loaded'
    BY <2>1, <2>2, <2>3 DEF Loaded
  <2>7. /\ ceiling' \in Nat /\ ceiling' >= ceiling
        /\ ceiling' >= CeilingOf(req[r].doc)
    BY CeilingTypes DEF Raised, Larger
  <2>8. engine # NoDoc => CeilingOf(engine) \in Nat
    BY DocumentCeiling
  <2>9. \A s \in Requests : pc'[s] = "sending" => s = r
    BY <1>0 DEF Turn, Asking
  <2>10. (engine # NoDoc => ceiling >= CeilingOf(engine))'
    <3>1. engine' = engine /\ CeilingOf(engine') = CeilingOf(engine)
      BY DEF CeilingOf
    <3> HIDE DEF RaiseCeiling
    <3> QED BY <3>1, <2>7, <2>8 DEF Covered
  <2>11. Covered'
    BY <2>1, <2>3, <2>7, <2>9, <2>10 DEF Covered
  <2> QED BY <2>4, <2>5, <2>6, <2>11
<1>4. CASE SendDocument(r)
  <2> USE <1>4 DEF TypeInv, TypeOK, ExchangeInv, Threads, SendDocument, GoTo,
                   DocumentFrame
  <2>1. Sent'
    BY DEF Sent
  <2>2. \A m \in Channel : m.number # Number(r, "opening")
    BY DEF Answered, Answers, Opening
  <2>3. Answered'
    <3> SUFFICES ASSUME NEW m \in Channel PROVE Answers(m)'
      BY DEF Answered, Channel
    <3> QED BY <2>2 DEF Answered, Answers, Opening, Drawing
  <2>4. Loaded'
    BY DEF Loaded
  <2>5. Covered'
    BY DEF Covered
  <2> QED BY <2>1, <2>3, <2>4, <2>5
<1>5. CASE DocumentAnswered(r)
  <2> USE <1>5 DEF TypeInv, TypeOK, ExchangeInv, Threads, DocumentAnswered
  <2> DEFINE m == Head(replies)
  <2>1. m \in Channel /\ Channel' \subseteq Channel
    BY ChannelTail
  <2>2. m.number = Number(r, "opening")
    BY DEF ToThis, Echoes
  <2>3. engine = IF m.kind = "opened" THEN req[r].doc ELSE NoDoc
    BY <2>1, <2>2 DEF Answered, Answers
  <2>4. asked.kind = "none"
    BY <2>1, <2>2, Served
  <2>5. PICK where \in {"opened", "done"} :
          /\ pc' = [pc EXCEPT ![r] = where]
          /\ where = "opened" => m.kind = "opened"
    BY DEF Accepted, GoTo, Return
  <2>6. \A s \in Requests : s # r => pc'[s] \notin Asking
    BY <1>0, <2>5 DEF Turn, Asking
  <2>7. /\ worker'.loaded = req[r].doc /\ req[r].doc \in Docs
        /\ worker'.opened = (m.kind = "opened")
    BY DEF Accepted, Worker, Called
  <2>8. Sent'
    BY <2>4 DEF Sent
  <2>9. Answered'
    <3> SUFFICES ASSUME NEW n \in Channel PROVE Answers(n)'
      BY <2>1 DEF Answered
    <3> QED BY <2>4, <2>5, <2>6 DEF Answered, Answers, Opening, Drawing, Asking
  <2>10. Loaded'
    BY <2>3, <2>4, <2>5, <2>6, <2>7, RenderAssumption DEF Loaded, Asking
  <2>11. CeilingOf(req[r].doc) \in Nat
    BY CeilingTypes
  <2>12. Covered'
    BY <2>3, <2>4, <2>5, <2>6, <2>7, <2>11 DEF Covered, Asking, CeilingOf
  <2> QED BY <2>8, <2>9, <2>10, <2>12
<1>6. CASE SendDraw(r)
  <2> USE <1>6 DEF TypeInv, TypeOK, ExchangeInv, Threads, SendDraw, GoTo, DrawFrame
  <2>1. Sent'
    BY DEF Sent
  <2>2. \A m \in Channel : m.number # Number(r, "drawing")
    BY DEF Answered, Answers, Drawing
  <2>3. Answered'
    <3> SUFFICES ASSUME NEW m \in Channel PROVE Answers(m)'
      BY DEF Answered, Channel
    <3> QED BY <2>2 DEF Answered, Answers, Opening, Drawing
  <2>4. Loaded' /\ Covered'
    BY DEF Loaded, Covered
  <2> QED BY <2>1, <2>3, <2>4
<1>7. CASE PageAnswered(r)
  <2> USE <1>7 DEF TypeInv, TypeOK, ExchangeInv, Threads, PageAnswered, Return
  <2>1. Head(replies) \in Channel /\ Channel' \subseteq Channel
    BY ChannelTail
  <2>2. asked.kind = "none"
    BY <2>1, Served DEF ToThis, Echoes
  <2>3. Sent'
    BY <2>2 DEF Sent
  <2>4. Answered'
    <3> SUFFICES ASSUME NEW m \in Channel PROVE Answers(m)'
      BY <2>1 DEF Answered
    <3> QED BY <2>2 DEF Answered, Answers, Opening, Drawing
  <2>5. Loaded' /\ Covered'
    BY <2>2 DEF Loaded, Covered
  <2> QED BY <2>3, <2>4, <2>5
<1>8. CASE Lied(r)
  BY <1>8, MoveExchange DEF Lied, Fails, GoTo, Threads
<1>9. CASE RequestFalls(r)
  BY <1>9, RetireExchange DEF RequestFalls, Return, Turn, Threads
<1> QED BY <1>1, <1>2, <1>3, <1>4, <1>5, <1>6, <1>7, <1>8, <1>9

\* An exchange that ends without a reply.
LEMMA ReceiveExchange ==
    ASSUME TypeInv, OwnInv, ExchangeInv, NEW t \in Threads, Receive(t)
    PROVE  ExchangeInv'
BY MoveExchange DEF Receive, Lost, TimesOut, Fails, GoTo, Awaiting, callVars,
   worldVars, stateVars, channelVars, watchVars

\* A step of the worker: it answers the frame under way, once or twice.
LEMMA EngineExchange ==
    ASSUME TypeInv, OwnInv, ExchangeInv, Engine
    PROVE  ExchangeInv'
<1> USE DEF TypeInv, TypeOK, ExchangeInv, Threads, EngineUnchanged, callVars,
            stateVars, watchVars, guardVars, timeVars, channelVars, Quiet
<1>1. CASE EngineGreets
  <2> DEFINE n == Reply("ready", NoNumber, NoImage)
  <2>1. Channel' \subseteq Channel \cup {n}
    BY <1>1, ChannelSays DEF EngineGreets
  <2>2. \A r \in Requests : \A phase : n.number # Number(r, phase)
    BY RenderAssumption DEF Reply, NoNumber, Number, Threads
  <2>3. Answers(n)'
    BY <1>1, <2>2 DEF EngineGreets, Answers, Reply
  <2>4. Answered'
    <3> SUFFICES ASSUME NEW m \in Channel PROVE Answers(m)'
      BY <2>1, <2>3 DEF Answered
    <3> QED BY <1>1 DEF Answered, Answers, EngineGreets
  <2> QED BY <1>1, <2>4 DEF EngineGreets, Sent, Loaded, Covered
<1>2. CASE EngineDeclines
  <2> DEFINE n == Reply("declined", NoNumber, NoImage)
  <2>1. Channel' \subseteq Channel \cup {n}
    BY <1>2, ChannelSays DEF EngineDeclines
  <2>2. \A r \in Requests : \A phase : n.number # Number(r, phase)
    BY RenderAssumption DEF Reply, NoNumber, Number, Threads
  <2>3. Answers(n)'
    BY <1>2, <2>2 DEF EngineDeclines, Answers, Reply
  <2>4. Answered'
    <3> SUFFICES ASSUME NEW m \in Channel PROVE Answers(m)'
      BY <2>1, <2>3 DEF Answered
    <3> QED BY <1>2 DEF Answered, Answers, EngineDeclines
  <2> QED BY <1>2, <2>4 DEF EngineDeclines, Sent, Loaded, Covered
<1>3. CASE EngineOpens
  <2> USE <1>3 DEF EngineOpens
  <2>1. PICK r \in Requests : pc[r] \in {"opening", "falling"} /\ asked = DocumentFrame(r)
    BY DEF Sent
  <2>2. PICK kind \in {"opened", "failed"} :
          /\ EngineSays(Reply(kind, asked.number, NoImage))
          /\ engine' = IF kind = "opened" THEN asked.doc ELSE NoDoc
    OBVIOUS
  <2>0. PICK n : n = Reply(kind, asked.number, NoImage)
    OBVIOUS
  <2>3. Channel' \subseteq Channel \cup {n}
    BY <2>0, <2>2, ChannelSays
  <2>4. asked.number = Number(r, "opening") /\ asked.doc = req[r].doc
    BY <2>1 DEF DocumentFrame
  <2>5. \A s \in Requests : s # r => pc[s] # "opening"
    BY <2>1 DEF OwnInv, Turns, Turn, Asking
  <2>6. Answers(n)'
    BY <2>0, <2>1, <2>2, <2>4, Numbering DEF Answers, Reply, Opening
  <2>7. Answered'
    <3> SUFFICES ASSUME NEW m \in Channel PROVE Answers(m)'
      BY <2>3, <2>6 DEF Answered
    <3> QED BY <2>4, <2>5 DEF Answered, Answers, Opening, Drawing
  <2>8. Sent' /\ Loaded' /\ Covered'
    BY <2>1, <2>2, <2>4, <2>5 DEF Sent, Loaded, Covered, CeilingOf
  <2> QED BY <2>7, <2>8
<1>4. CASE EngineDraws
  <2> USE <1>4 DEF EngineDraws
  <2>1. PICK r \in Requests : pc[r] \in {"drawing", "falling"} /\ asked = DrawFrame(r)
    BY DEF Sent
  <2>2. PICK kind, image :
          /\ kind \in {"bitmap", "failed"}
          /\ EngineSays(Reply(kind, asked.number, image))
          /\ kind = "bitmap" => image = [doc |-> asked.doc, page |-> asked.page]
    OBVIOUS
  <2>0. PICK n : n = Reply(kind, asked.number, image)
    OBVIOUS
  <2>3. Channel' \subseteq Channel \cup {n}
    BY <2>0, <2>2, ChannelSays
  <2>4. /\ asked.number = Number(r, "drawing")
        /\ req[r] = [doc |-> asked.doc, page |-> asked.page]
    BY <2>1 DEF DrawFrame, Called
  <2>5. Answers(n)'
    BY <2>0, <2>1, <2>2, <2>4, Numbering DEF Answers, Reply, Drawing
  <2>6. Answered'
    <3> SUFFICES ASSUME NEW m \in Channel PROVE Answers(m)'
      BY <2>3, <2>5 DEF Answered
    <3> QED BY <2>4 DEF Answered, Answers, Opening, Drawing
  <2>7. Sent' /\ Loaded' /\ Covered'
    BY DEF Sent, Loaded, Covered
  <2> QED BY <2>6, <2>7
<1>5. CASE EngineDies
  BY <1>5, StillExchange DEF EngineDies
<1> QED BY <1>1, <1>2, <1>3, <1>4, <1>5 DEF Engine

\* A step of the guard or of the clock.
LEMMA GuardExchange ==
    ASSUME ExchangeInv, Guard \/ Tick
    PROVE  ExchangeInv'
BY StillExchange DEF Guard, Tick, GuardLooks, GuardContent, GuardCondemns, GuardStops,
   GuardEnds, GuardUnchanged, callVars, stateVars, watchVars, guardVars, channelVars

\* A step of shutdown.
LEMMA ShutdownExchange ==
    ASSUME TypeInv, OwnInv, ExchangeInv, Close \/ Shutdown
    PROVE  ExchangeInv'
<1> USE DEF callVars, stateVars, worldVars, watchVars, guardVars, channelVars,
            timeVars, Awaiting, Threads, GoTo
<1>1. CASE Close
  BY <1>1, MoveExchange DEF Close
<1>2. CASE TryTurn
  BY <1>2, MoveExchange DEF TryTurn
<1>3. CASE StopUnder
  BY <1>3, MoveExchange DEF StopUnder
<1>4. CASE WaitTurn
  BY <1>4, MoveExchange DEF WaitTurn
<1>5. CASE Leave
  <2>1. CASE Retire
    BY <1>5, <2>1, RetireExchange DEF Leave, Turn
  <2>2. CASE UNCHANGED <<worker, slot, fate, channelVars>>
    BY <1>5, <2>2, MoveExchange DEF Leave
  <2> QED BY <1>5, <2>1, <2>2 DEF Leave
<1> QED BY <1>1, <1>2, <1>3, <1>4, <1>5 DEF Shutdown

LEMMA StepExchange == TypeInv /\ OwnInv /\ ExchangeInv /\ [Next]_vars => ExchangeInv'
<1> SUFFICES ASSUME TypeInv, OwnInv, ExchangeInv, [Next]_vars PROVE ExchangeInv'
  OBVIOUS
<1>1. ASSUME NEW r \in Requests, NEW d \in Docs, NEW p \in Pages, Issue(r, d, p)
      PROVE  ExchangeInv'
  BY <1>1, EntryExchange
<1>2. ASSUME NEW r \in Requests, Draw(r) PROVE ExchangeInv'
  BY <1>2, EntryExchange, EnsureExchange, AskExchange DEF Draw
<1>3. ASSUME NEW t \in Threads, Launch(t) PROVE ExchangeInv'
  BY <1>3, LaunchExchange
<1>4. ASSUME NEW t \in Threads, Receive(t) PROVE ExchangeInv'
  BY <1>4, ReceiveExchange
<1>5. CASE Started
  BY <1>5, LaunchExchange DEF Threads
<1>6. CASE Close \/ Shutdown
  BY <1>6, ShutdownExchange
<1>7. CASE Engine
  BY <1>7, EngineExchange
<1>8. CASE Guard \/ Tick
  BY <1>8, GuardExchange
<1>9. CASE UNCHANGED vars
  BY <1>9, StillExchange DEF vars, callVars, stateVars, worldVars, watchVars,
                             channelVars
<1> QED BY <1>1, <1>2, <1>3, <1>4, <1>5, <1>6, <1>7, <1>8, <1>9 DEF Next, Finished

THEOREM Exchanged == Spec => [](TypeInv /\ OwnInv /\ ExchangeInv)
<1>1. Init => ExchangeInv
  BY InitExchange
<1>2. TypeInv /\ OwnInv /\ ExchangeInv /\ [Next]_vars => ExchangeInv'
  BY StepExchange
<1> QED BY Owned, <1>1, <1>2, PTL DEF Spec

-----------------------------------------------------------------------------
\* The worker is asked to draw a document only while it holds it
\* (DrawnFromItsDocument).
THEOREM DrawsWhatItHolds == Spec => []DrawnFromItsDocument
<1>1. ExchangeInv => DrawnFromItsDocument
  BY DEF ExchangeInv, Loaded, DrawnFromItsDocument
<1> QED BY Exchanged, <1>1, PTL

\* From before a document leaves until it is answered the ceiling covers that
\* document and the one the worker may still hold; after, it is exactly that
\* of the document (CeilingCovers).
THEOREM CeilingAlwaysCovers == Spec => []CeilingCovers
<1>1. ExchangeInv => CeilingCovers
  BY DEF ExchangeInv, Covered, CeilingCovers
<1> QED BY Exchanged, <1>1, PTL

-----------------------------------------------------------------------------
(* Closing under a request in flight. *)

\* Once closing has stopped what it found, only a worker launched since runs:
\* it has been asked nothing, and no request is past the look at closing.
Stopped ==
    /\ pc[Main] \in {"trying", "stopping", "blocked", "leaving"} => closing
    /\ pc[Main] = "blocked" /\ Running(slot) =>
          /\ asked.kind \in {"none", "hello"}
          /\ worker.loaded = NoDoc
          /\ \A r \in Requests : pc[r] \notin Asking \cup {"ensuring"}

\* A step that neither starts a process nor asks anything of one, where no
\* request goes past the look at closing.
LEMMA KeepsStopped ==
    ASSUME TypeInv, Stopped,
           pc'[Main] \in {"trying", "stopping", "blocked", "leaving"} =>
              pc'[Main] = pc[Main] \/ (closing' /\ pc'[Main] # "blocked"),
           closing => closing',
           Running(slot)' => Running(slot),
           asked' = asked \/ asked'.kind = "none",
           worker'.loaded = worker.loaded \/ worker'.loaded = NoDoc,
           \A r \in Requests : pc'[r] \in Asking \cup {"ensuring"} =>
               pc[r] \in Asking \cup {"ensuring"} \/ ~closing \/ ~Running(slot)
    PROVE  Stopped'
BY DEF Stopped

\* A process let go of does not run.
LEMMA RetireStopped ==
    ASSUME TypeInv, OwnInv, Retire
    PROVE  ~Running(slot)' /\ asked'.kind = "none" /\ worker'.loaded = NoDoc
BY DEF TypeInv, TypeOK, Retire, Running, Pids, Quiet, NoWorker, KillSlot, Ended

LEMMA InitStopped == Init => Stopped
BY DEF Init, Stopped, Threads, Running, Pids

LEMMA DrawStopped ==
    ASSUME TypeInv, OwnInv, ExchangeInv, Stopped, NEW r \in Requests,
           Draw(r) \/ \E d \in Docs, p \in Pages : Issue(r, d, p)
    PROVE  Stopped'
<1> USE DEF callVars, stateVars, worldVars, watchVars, guardVars, channelVars,
            timeVars, GoTo, Return, Running, Pids
<1>0. /\ pc \in [Threads -> States] /\ r \in Threads /\ Main \in Threads /\ r # Main
      /\ worker \in Worker
  BY RenderAssumption DEF TypeInv, TypeOK, Threads
<1>1. ASSUME NEW d \in Docs, NEW p \in Pages, Issue(r, d, p) PROVE Stopped'
  BY <1>0, <1>1, KeepsStopped DEF Issue, Asking, Threads
<1>2. CASE Enter(r) \/ TurnedAway(r)
  BY <1>0, <1>2, KeepsStopped DEF Enter, TurnedAway, Asking, Threads
<1>3. CASE CheckStrikes(r)
  BY <1>0, <1>3, KeepsStopped DEF CheckStrikes, Serving, Asking, Threads
<1>4. CASE WorkerRuns(r) \/ NoWorkerYet(r)
  BY <1>0, <1>4, KeepsStopped DEF WorkerRuns, NoWorkerYet, Asking, Threads
<1>5. CASE WorkerGone(r)
  BY <1>0, <1>5, KeepsStopped, RetireStopped DEF WorkerGone, Asking, Threads
<1>6. CASE RestartTooOften(r) \/ RestartWhileClosing(r) \/ Restart(r)
  BY <1>0, <1>6, KeepsStopped
  DEF RestartTooOften, RestartWhileClosing, Restart, Asking, Threads
<1>7. CASE Restarted(r)
  BY <1>0, <1>7, KeepsStopped DEF Restarted, Asking, Threads
<1>8. CASE RestartedTooLate(r) \/ RequestFalls(r)
  BY <1>0, <1>8, KeepsStopped, RetireStopped
  DEF RestartedTooLate, RequestFalls, Asking, Threads
<1>9. CASE AskHeld(r) \/ TooBig(r) \/ Lied(r)
  BY <1>0, <1>9, KeepsStopped DEF AskHeld, TooBig, Lied, Fails, Asking, Threads
<1>10. CASE RaiseCeiling(r)
  BY <1>0, <1>10, KeepsStopped DEF RaiseCeiling, Asking, Threads, Worker
<1>11. CASE SendDocument(r) \/ SendDraw(r) \/ DocumentAnswered(r)
  BY <1>0, <1>11 DEF SendDocument, SendDraw, DocumentAnswered, Stopped, Asking, Threads
<1>12. CASE PageAnswered(r)
  BY <1>0, <1>12, KeepsStopped DEF PageAnswered, Asking, Threads
<1> QED BY <1>1, <1>2, <1>3, <1>4, <1>5, <1>6, <1>7, <1>8, <1>9, <1>10, <1>11, <1>12
    DEF Draw

LEMMA LaunchStopped ==
    ASSUME TypeInv, OwnInv, ExchangeInv, Stopped, NEW t \in Threads,
           Launch(t) \/ Receive(t) \/ Started
    PROVE  Stopped'
<1> USE DEF callVars, stateVars, worldVars, watchVars, guardVars, channelVars,
            timeVars, GoTo, Threads
<1>0. pc \in [Threads -> States]
  BY DEF TypeInv, TypeOK
<1>1. CASE Spawn(t)
  <2>1. Running(slot)' => Running(slot)
    BY <1>1 DEF Spawn, Running, Pids, TypeInv, TypeOK, OwnInv, Owner
  <2> QED BY <1>0, <1>1, <2>1, KeepsStopped DEF Spawn, Asking
<1>2. CASE SpawnFails(t)
  BY <1>0, <1>2, KeepsStopped DEF SpawnFails, NotStarted, Asking, Running, Pids
<1>3. CASE Register(t)
  <2>1. \A r \in Requests : pc'[r] \notin Asking \cup {"ensuring"}
    BY <1>0, <1>3 DEF Register, OwnInv, Turns, Turn, Launching, Asking
  <2>2. asked'.kind = "hello" /\ worker'.loaded = NoDoc
    BY <1>3 DEF Register, Hello
  <2>3. pc'[Main] \in {"trying", "stopping", "blocked", "leaving"} => closing'
    BY <1>0, <1>3 DEF Register, Stopped
  <2> QED BY <2>1, <2>2, <2>3 DEF Stopped
<1>4. CASE NoThreads(t) \/ Greeted(t)
  BY <1>0, <1>4, KeepsStopped DEF NoThreads, Greeted, Asking, Running, Pids
<1>5. CASE LaunchFails(t)
  BY <1>0, <1>5, KeepsStopped, RetireStopped DEF LaunchFails, NotStarted, Asking
<1>6. CASE Started
  BY <1>0, <1>6, KeepsStopped, RenderAssumption DEF Started, Asking, Running, Pids
<1>7. CASE Receive(t)
  BY <1>0, <1>7, KeepsStopped
  DEF Receive, Lost, TimesOut, Fails, Asking, Running, Pids
<1> QED BY <1>1, <1>2, <1>3, <1>4, <1>5, <1>6, <1>7 DEF Launch

LEMMA OtherStopped ==
    ASSUME TypeInv, OwnInv, ExchangeInv, Stopped,
           Close \/ Shutdown \/ Engine \/ Guard \/ Tick \/ UNCHANGED vars
    PROVE  Stopped'
<1> USE DEF vars, callVars, stateVars, worldVars, watchVars, guardVars, channelVars,
            timeVars, GoTo, Threads
<1>0. pc \in [Threads -> States]
  BY DEF TypeInv, TypeOK
<1>1. CASE Close \/ TryTurn \/ WaitTurn \/ Tick \/ UNCHANGED vars
  BY <1>0, <1>1, RenderAssumption DEF Close, TryTurn, WaitTurn, Tick, Stopped, Running, Pids
<1>2. CASE StopUnder
  <2>1. ~Running(slot)'
    BY <1>2 DEF StopUnder, KillSlot, Ended, Running, Pids, TypeInv, TypeOK
  <2> QED BY <1>0, <1>2, <2>1 DEF StopUnder, Stopped
<1>3. CASE Leave
  BY <1>0, <1>3, RenderAssumption DEF Leave, Stopped
<1>4. CASE Engine
  <2>1. Running(slot)' => Running(slot)
    BY <1>4 DEF Engine, EngineGreets, EngineDeclines, EngineOpens, EngineDraws,
                EngineDies, EngineUnchanged, Ended, Running, Pids
  <2> QED BY <1>4, <2>1, KeepsStopped
          DEF Engine, EngineGreets, EngineDeclines, EngineOpens, EngineDraws,
              EngineDies, EngineUnchanged, Quiet
<1>5. CASE Guard
  <2>1. Running(slot)' => Running(slot)
    BY <1>5 DEF Guard, GuardLooks, GuardContent, GuardCondemns, GuardStops,
                GuardEnds, GuardUnchanged, KillSlot, Ended, Running, Pids
  <2>2. UNCHANGED <<pc, closing, asked, worker>>
    BY <1>5 DEF Guard, GuardLooks, GuardContent, GuardCondemns, GuardStops,
                GuardEnds, GuardUnchanged
  <2> QED BY <2>1, <2>2, KeepsStopped
<1> QED BY <1>1, <1>2, <1>3, <1>4, <1>5 DEF Shutdown

LEMMA StepStopped ==
    TypeInv /\ OwnInv /\ ExchangeInv /\ Stopped /\ [Next]_vars => Stopped'
<1> SUFFICES ASSUME TypeInv, OwnInv, ExchangeInv, Stopped, [Next]_vars PROVE Stopped'
  OBVIOUS
<1>1. ASSUME NEW r \in Requests, NEW d \in Docs, NEW p \in Pages, Issue(r, d, p)
      PROVE  Stopped'
  BY <1>1, DrawStopped
<1>2. ASSUME NEW r \in Requests, Draw(r) PROVE Stopped'
  BY <1>2, DrawStopped
<1>3. ASSUME NEW t \in Threads, Launch(t) \/ Receive(t) PROVE Stopped'
  BY <1>3, LaunchStopped
<1>4. CASE Started
  BY <1>4, LaunchStopped DEF Threads
<1>5. CASE Close \/ Shutdown \/ Engine \/ Guard \/ Tick \/ UNCHANGED vars
  BY <1>5, OtherStopped
<1> QED BY <1>1, <1>2, <1>3, <1>4, <1>5 DEF Next, Finished

\* A worker that closing could not see is never sent a document or a page
\* (ClosingAsksNothing).
THEOREM ClosingAsksNothingMore == Spec => []ClosingAsksNothing
<1>1. TypeInv /\ OwnInv /\ ExchangeInv /\ Stopped /\ [Next]_vars => Stopped'
  BY StepStopped
<1>2. Stopped => ClosingAsksNothing
  BY DEF Stopped, ClosingAsksNothing
<1> QED BY Exchanged, InitStopped, <1>1, <1>2, PTL DEF Spec
-----------------------------------------------------------------------------
(***************************************************************************)
(* What the requests of RenderService are told, and the accounts behind it,*)
(* for every number of requests, documents and pages and every value of the*)
(* limits: a request is given the image it asked for; strikes are earned;  *)
(* restarts stay within their budget; a request is told of the ceiling     *)
(* exactly when its own worker passed it.                                  *)
(*                                                                         *)
(* The argument: a step returns one request at most, an image only for a   *)
(* drawing and a phase only for a fall (StepAnswers); a request past the   *)
(* strikes faces those of its document with room for one more (Room), so a *)
(* fall adds one strike and one answer; the restarts remembered are the    *)
(* last ones, those forgotten are older than the window (Remembered); the  *)
(* stop on record is that of the process in the slot (Recorded).           *)
(*                                                                         *)
(* The refinement of PageService follows step by step: an image is served  *)
(* while rendering is on (ServedOn), a handler that touches the status is  *)
(* a step of its life (LifeStep), and no process runs once it is closed.   *)
(***************************************************************************)
\* A request is answered when it returns, and not before.
Unanswered == \A r \in Requests : pc[r] # "done" => answer[r] = NoAnswer

(***************************************************************************)
(* What a step does to the answers.                                        *)
(***************************************************************************)
\* A request returns: an image is that of its drawing, and only a fall during
\* an exchange is answered with its phase.
Returns(r) ==
    /\ pc[r] \in Turn
    /\ pc' = [pc EXCEPT ![r] = "done"]
    /\ req' = req
    /\ \E what \in Answer :
        /\ answer' = [answer EXCEPT ![r] = what]
        /\ what.kind # "none"
        /\ what.kind = "image" => PageAnswered(r) /\ what.image = req[r]
        /\ what.phase # "none" => RequestFalls(r)

\* Nobody calls nor returns.
NobodyReturns ==
    /\ UNCHANGED <<req, answer>>
    /\ \A r \in Requests : /\ pc'[r] = "done" <=> pc[r] = "done"
                           /\ pc'[r] = "idle" <=> pc[r] = "idle"

Calls == \E r \in Requests, d \in Docs, p \in Pages : Issue(r, d, p)

AnswerStep == Calls \/ (\E r \in Requests : Returns(r)) \/ NobodyReturns

\* A request that returns with a plain reason returns.
LEMMA SaysReturn ==
    ASSUME TypeInv, NEW r \in Requests, pc[r] \in Turn, req' = req,
           NEW kind \in Kinds \ {"none", "image"}, Return(r, Say(kind))
    PROVE  Returns(r)
<1>1. Say(kind) \in Answer
  BY AnswerTypes
<1>2. Say(kind).kind = kind /\ Say(kind).phase = "none"
  BY DEF Say
<1> QED BY <1>1, <1>2 DEF Return, Returns

LEMMA MoveReturns ==
    ASSUME TypeInv, NEW t \in Threads, NEW where, pc' = [pc EXCEPT ![t] = where],
           where \notin {"idle", "done"}, pc[t] \notin {"idle", "done"},
           UNCHANGED <<req, answer>>
    PROVE  NobodyReturns
BY DEF NobodyReturns, TypeInv, TypeOK, Threads

\* The steps of a request.
LEMMA DrawAnswers ==
    ASSUME TypeInv, OwnInv, ExchangeInv, NEW r \in Requests, Draw(r)
    PROVE  AnswerStep
<1> USE DEF callVars, AnswerStep, Turn, Launching, Asking
<1>0. r \in Threads
  BY DEF Threads
<1>1. CASE Enter(r) \/ WorkerRuns(r) \/ WorkerGone(r) \/ NoWorkerYet(r) \/ Restart(r)
          \/ Restarted(r) \/ RaiseCeiling(r) \/ SendDocument(r) \/ SendDraw(r)
          \/ Lied(r)
  <2>1. PICK where \in States \ {"idle", "done"} : pc' = [pc EXCEPT ![r] = where]
    BY <1>1 DEF Enter, WorkerRuns, WorkerGone, NoWorkerYet, Restart, Restarted,
                RaiseCeiling, SendDocument, SendDraw, Lied, Fails, GoTo, States
  <2>2. UNCHANGED <<req, answer>> /\ pc[r] \notin {"idle", "done"}
    BY <1>1 DEF Enter, WorkerRuns, WorkerGone, NoWorkerYet, Restart, Restarted,
                RaiseCeiling, SendDocument, SendDraw, Lied, Fails
  <2> QED BY <1>0, <2>1, <2>2, MoveReturns
<1>2. CASE TurnedAway(r)
  BY <1>2, SaysReturn DEF TurnedAway, Kinds
<1>3. CASE CheckStrikes(r)
  <2>1. CASE Return(r, Say("refused"))
    BY <1>3, <2>1, SaysReturn DEF CheckStrikes, Kinds
  <2>2. CASE GoTo(r, "ensuring") /\ UNCHANGED <<answer, holder>>
    BY <1>0, <1>3, <2>2, MoveReturns DEF CheckStrikes, GoTo
  <2> QED BY <1>3, <2>1, <2>2 DEF CheckStrikes
<1>4. CASE RestartTooOften(r)
  BY <1>4, SaysReturn DEF RestartTooOften, Kinds
<1>5. CASE RestartWhileClosing(r)
  BY <1>5, SaysReturn DEF RestartWhileClosing, Kinds
<1>6. CASE RestartedTooLate(r)
  BY <1>6, SaysReturn DEF RestartedTooLate, Kinds
<1>7. CASE AskHeld(r)
  <2>1. CASE Return(r, Say("failed"))
    BY <1>7, <2>1, SaysReturn DEF AskHeld, Kinds
  <2>2. CASE GoTo(r, "opened") /\ UNCHANGED <<answer, holder>>
    <3>1. /\ pc' = [pc EXCEPT ![r] = "opened"] /\ UNCHANGED <<req, answer>>
          /\ pc[r] = "asking"
      BY <1>7, <2>2 DEF AskHeld, GoTo
    <3> QED BY <1>0, <3>1, MoveReturns
  <2> QED BY <1>7, <2>1, <2>2 DEF AskHeld
<1>8. CASE TooBig(r)
  BY <1>8, SaysReturn DEF TooBig, Kinds
<1>9. CASE DocumentAnswered(r)
  <2>1. CASE Return(r, Say("failed"))
    BY <1>9, <2>1, SaysReturn DEF DocumentAnswered, Kinds
  <2>2. CASE GoTo(r, "opened") /\ UNCHANGED <<answer, holder>>
    BY <1>0, <1>9, <2>2, MoveReturns DEF DocumentAnswered, GoTo
  <2> QED BY <1>9, <2>1, <2>2 DEF DocumentAnswered
<1>10. CASE PageAnswered(r)
  <2>1. CASE Head(replies).kind # "bitmap"
    BY <1>10, <2>1, SaysReturn DEF PageAnswered, Kinds
  <2>2. CASE Head(replies).kind = "bitmap"
    <3> DEFINE what == Give(Head(replies).image)
    <3>1. Head(replies) \in Channel /\ Head(replies) \in Replies
      BY <1>10, ChannelTail DEF PageAnswered, TypeInv, TypeOK
    <3>2. Head(replies).number = Number(r, "drawing")
      BY <1>10 DEF PageAnswered, ToThis, Echoes
    <3>3. Head(replies).image = req[r]
      BY <2>2, <3>1, <3>2, Numbering DEF ExchangeInv, Answered, Answers
    <3>4. what \in Answer
      BY <3>1, AnswerTypes DEF Replies
    <3>5. what.kind = "image" /\ what.phase = "none" /\ what.image = req[r]
      BY <3>3 DEF Give
    <3>6. /\ pc' = [pc EXCEPT ![r] = "done"] /\ req' = req /\ pc[r] \in Turn
          /\ answer' = [answer EXCEPT ![r] = what]
      BY <1>10, <2>2 DEF PageAnswered, Return
    <3> QED BY <1>10, <3>4, <3>5, <3>6 DEF Returns
  <2> QED BY <2>1, <2>2
<1>11. CASE RequestFalls(r)
  <2> DEFINE what == Fell(Explained, cause.phase)
  <2>1. Explained \in Kinds \ {"none", "image"}
    BY <1>11 DEF RequestFalls, Explained, TypeInv, Blamed, Failures, Kinds
  <2>2. what \in Answer
    BY <1>11, <2>1, AnswerTypes DEF RequestFalls, Phases
  <2>3. what.kind \notin {"none", "image"}
    BY <2>1 DEF Fell
  <2>4. /\ pc' = [pc EXCEPT ![r] = "done"] /\ req' = req /\ pc[r] \in Turn
        /\ answer' = [answer EXCEPT ![r] = what]
    BY <1>11 DEF RequestFalls, Return
  <2> QED BY <1>11, <2>2, <2>3, <2>4 DEF Returns
<1> QED BY <1>1, <1>2, <1>3, <1>4, <1>5, <1>6, <1>7, <1>8, <1>9, <1>10, <1>11 DEF Draw

\* The steps of launch, and of an exchange that ends without a reply.
LEMMA LaunchAnswers ==
    ASSUME TypeInv, OwnInv, NEW t \in Threads, Launch(t) \/ Receive(t) \/ Started
    PROVE  AnswerStep
<1> USE DEF callVars, AnswerStep, Turn, Launching
<1>1. CASE Spawn(t) \/ Register(t) \/ NoThreads(t) \/ Greeted(t) \/ Receive(t)
  <2>1. PICK where \in States \ {"idle", "done"} : pc' = [pc EXCEPT ![t] = where]
    BY <1>1 DEF Spawn, Register, NoThreads, Greeted, Receive, Lost, TimesOut, Fails,
                GoTo, States
  <2>2. UNCHANGED <<req, answer>> /\ pc[t] \notin {"idle", "done"}
    BY <1>1 DEF Spawn, Register, NoThreads, Greeted, Receive, Lost, TimesOut, Fails,
                Awaiting
  <2> QED BY <2>1, <2>2, MoveReturns
<1>2. CASE SpawnFails(t) \/ LaunchFails(t)
  <2>1. PICK why : NotStarted(t, why)
    BY <1>2 DEF SpawnFails, LaunchFails
  <2>2. req' = req /\ pc[t] \in Turn /\ pc[t] \notin {"idle", "done"}
    BY <1>2 DEF SpawnFails, LaunchFails
  <2>3. CASE t = Main
    <3>1. pc' = [pc EXCEPT ![t] = "serving"] /\ answer' = answer
      BY <2>1, <2>3 DEF NotStarted
    <3> QED BY <2>2, <3>1, MoveReturns
  <2>4. CASE t # Main
    <3>1. t \in Requests /\ Return(t, Say("notstarted"))
      BY <2>1, <2>4 DEF NotStarted, Return, Threads
    <3> QED BY <2>2, <3>1, SaysReturn DEF Kinds
  <2> QED BY <2>3, <2>4
<1>3. CASE Started
  BY <1>3, MoveReturns DEF Started, GoTo, Threads
<1> QED BY <1>1, <1>2, <1>3 DEF Launch

\* The other steps answer nobody.
LEMMA OtherAnswers ==
    ASSUME TypeInv,
           Close \/ Shutdown \/ Engine \/ Guard \/ Tick \/ UNCHANGED vars
    PROVE  AnswerStep
<1>1. CASE Close \/ Shutdown
  BY <1>1, RenderAssumption
  DEF Close, Shutdown, TryTurn, StopUnder, WaitTurn, Leave, GoTo, callVars, AnswerStep,
      NobodyReturns, Threads, TypeInv, TypeOK
<1>2. CASE Engine \/ Guard \/ Tick \/ UNCHANGED vars
  <2>1. UNCHANGED <<pc, req, answer>>
    BY <1>2 DEF Engine, EngineGreets, EngineDeclines, EngineOpens, EngineDraws,
                EngineDies, EngineUnchanged, Guard, GuardLooks, GuardContent,
                GuardCondemns, GuardStops, GuardEnds, GuardUnchanged, Tick, vars, callVars
  <2> QED BY <2>1 DEF AnswerStep, NobodyReturns
<1> QED BY <1>1, <1>2

LEMMA StepAnswers ==
    TypeInv /\ OwnInv /\ ExchangeInv /\ [Next]_vars => AnswerStep
<1> SUFFICES ASSUME TypeInv, OwnInv, ExchangeInv, [Next]_vars PROVE AnswerStep
  OBVIOUS
<1>1. ASSUME NEW r \in Requests, NEW d \in Docs, NEW p \in Pages, Issue(r, d, p)
      PROVE  AnswerStep
  BY <1>1 DEF AnswerStep, Calls
<1>2. ASSUME NEW r \in Requests, Draw(r) PROVE AnswerStep
  BY <1>2, DrawAnswers
<1>3. ASSUME NEW t \in Threads, Launch(t) \/ Receive(t) PROVE AnswerStep
  BY <1>3, LaunchAnswers
<1>4. CASE Started
  BY <1>4, LaunchAnswers DEF Threads
<1>5. CASE Close \/ Shutdown \/ Engine \/ Guard \/ Tick \/ UNCHANGED vars
  BY <1>5, OtherAnswers
<1> QED BY <1>1, <1>2, <1>3, <1>4, <1>5 DEF Next, Finished

-----------------------------------------------------------------------------
(* The right image. *)

AnswersInv == Unanswered /\ RightImage

LEMMA InitAnswers == Init => AnswersInv
BY DEF Init, AnswersInv, Unanswered, RightImage, NoAnswer

LEMMA StepAnswersInv == TypeInv /\ AnswersInv /\ AnswerStep => AnswersInv'
<1> SUFFICES ASSUME TypeInv, AnswersInv, AnswerStep PROVE AnswersInv'
  OBVIOUS
<1> USE DEF TypeInv, TypeOK, AnswersInv, Threads
<1>1. CASE Calls
  <2>1. PICK r \in Requests : /\ pc[r] = "idle" /\ answer' = answer
                              /\ \A q \in Requests : q # r => req'[q] = req[q]
                              /\ pc' = [pc EXCEPT ![r] = "waiting"]
    BY <1>1 DEF Calls, Issue, GoTo
  <2>2. answer[r].kind # "image"
    BY <2>1 DEF Unanswered, NoAnswer
  <2> QED BY <2>1, <2>2 DEF Unanswered, RightImage
<1>2. ASSUME NEW r \in Requests, Returns(r) PROVE AnswersInv'
  BY <1>2 DEF Returns, Unanswered, RightImage
<1>3. CASE NobodyReturns
  BY <1>3 DEF NobodyReturns, Unanswered, RightImage
<1> QED BY <1>1, <1>2, <1>3 DEF AnswerStep

THEOREM Answering == Spec => [](TypeInv /\ OwnInv /\ ExchangeInv /\ AnswersInv)
<1>1. Init => AnswersInv
  BY InitAnswers
<1>2. TypeInv /\ OwnInv /\ ExchangeInv /\ AnswersInv /\ [Next]_vars => AnswersInv'
  BY StepAnswers, StepAnswersInv
<1> QED BY Exchanged, <1>1, <1>2, PTL DEF Spec

\* An image given to a request is the page of the document it asked for, even
\* when the worker answers twice (RightImage).
THEOREM ImagesAreRight == Spec => []RightImage
<1>1. AnswersInv => RightImage
  BY DEF AnswersInv
<1> QED BY Answering, <1>1, PTL

-----------------------------------------------------------------------------
(* The restarts. *)

\* The restarts no longer remembered are older than the window; the others
\* are remembered in their order.
Forgotten == Len(starts) - Len(restarts)

Remembered ==
    /\ Len(restarts) <= Len(starts)
    /\ \A i \in 1 .. Len(restarts) : restarts[i] = starts[Forgotten + i]
    /\ \A i \in 1 .. Forgotten : clock - starts[i] > RestartWindow

RestartInv == Remembered /\ RestartBudget

\* What is kept of the restarts is their end.
LEMMA RecentEnd ==
    ASSUME TypeOK, NEW k \in 0 .. Len(restarts)
    PROVE  /\ Recent(k) \in Seq(Nat)
           /\ Len(Recent(k)) = Len(restarts) - k
           /\ \A i \in 1 .. Len(Recent(k)) : Recent(k)[i] = restarts[k + i]
<1>1. restarts \in Seq(Nat) /\ Len(restarts) \in Nat
  BY DEF TypeOK
<1>2. \A i \in (k + 1) .. Len(restarts) : restarts[i] \in Nat
  BY <1>1
<1> QED BY <1>1, <1>2, SubSeqProperties DEF Recent

\* Only ensure_worker counts restarts, and only the clock moves time.
RestartStep ==
    \/ \E r \in Requests : RestartTooOften(r) \/ RestartWhileClosing(r) \/ Restart(r)
    \/ UNCHANGED <<restarts, starts>> /\ clock' \in {clock, clock + 1}

LEMMA StepRestarts == [Next]_vars => RestartStep
<1> USE DEF RestartStep, callVars, stateVars, worldVars, watchVars, guardVars,
            channelVars, timeVars
<1>1. ASSUME NEW r \in Requests, NEW d \in Docs, NEW p \in Pages, Issue(r, d, p)
      PROVE  RestartStep
  BY <1>1 DEF Issue
<1>2. ASSUME NEW r \in Requests, Draw(r) PROVE RestartStep
  BY <1>2 DEF Draw, Enter, TurnedAway, CheckStrikes, WorkerRuns, WorkerGone, NoWorkerYet,
              Restarted, RestartedTooLate, AskHeld, TooBig, RaiseCeiling,
              SendDocument, DocumentAnswered, SendDraw, PageAnswered, Lied, Fails,
              RequestFalls
<1>3. ASSUME NEW t \in Threads, Launch(t) \/ Receive(t) PROVE RestartStep
  BY <1>3 DEF Launch, Spawn, SpawnFails, Register, NoThreads, Greeted, LaunchFails,
              Receive, Lost, TimesOut, Fails
<1>4. CASE Started \/ Close \/ Shutdown
  BY <1>4 DEF Started, Close, Shutdown, TryTurn, StopUnder, WaitTurn, Leave
<1>5. CASE Engine \/ Guard \/ Tick
  BY <1>5 DEF Engine, EngineGreets, EngineDeclines, EngineOpens, EngineDraws,
              EngineDies, EngineUnchanged, Guard, GuardLooks, GuardContent,
              GuardCondemns, GuardStops, GuardEnds, GuardUnchanged, Tick
<1>6. CASE UNCHANGED vars
  BY <1>6 DEF vars
<1> QED BY <1>1, <1>2, <1>3, <1>4, <1>5, <1>6 DEF Next, Finished

\* Forgetting the restarts older than the window.
LEMMA ForgetRestarts ==
    ASSUME TypeInv, RestartInv, NEW k \in 0 .. Len(restarts), Old(k)
    PROVE  /\ Len(starts) - Len(Recent(k)) = Forgotten + k
           /\ Len(Recent(k)) <= Len(starts)
           /\ \A i \in 1 .. Len(Recent(k)) : Recent(k)[i] = starts[Forgotten + k + i]
           /\ \A i \in 1 .. (Forgotten + k) : clock - starts[i] > RestartWindow
<1> USE DEF TypeInv, TypeOK, RestartInv, Remembered, Forgotten
<1>1. /\ Len(Recent(k)) = Len(restarts) - k
      /\ \A i \in 1 .. Len(Recent(k)) : Recent(k)[i] = restarts[k + i]
  BY RecentEnd
<1>2. Len(starts) \in Nat /\ Len(restarts) \in Nat /\ Forgotten \in Nat
  OBVIOUS
<1>3. \A i \in 1 .. k : restarts[i] = starts[Forgotten + i]
  OBVIOUS
<1>4. ASSUME NEW i \in 1 .. (Forgotten + k) PROVE clock - starts[i] > RestartWindow
  <2>1. CASE i <= Forgotten
    BY <1>2, <2>1
  <2>2. CASE i > Forgotten
    <3>0. PICK j \in 1 .. k : i = Forgotten + j
      <4> HIDE DEF TypeInv, TypeOK, RestartInv, Remembered, Forgotten
      <4>1. i - Forgotten \in 1 .. k /\ i = Forgotten + (i - Forgotten)
        BY <1>2, <2>2
      <4> QED BY <4>1
    <3>1. restarts[j] = starts[i]
      BY <1>3, <3>0
    <3> QED BY <3>0, <3>1 DEF Old
  <2> QED BY <1>2, <2>1, <2>2
<1>5. ASSUME NEW i \in 1 .. Len(Recent(k))
      PROVE  Recent(k)[i] = starts[Forgotten + k + i]
  <2>1. k + i \in 1 .. Len(restarts) /\ Forgotten + k + i = Forgotten + (k + i)
    BY <1>1, <1>2
  <2> QED BY <1>1, <2>1
<1> QED BY <1>1, <1>2, <1>4, <1>5

LEMMA InitRestarts == Init => RestartInv
BY DEF Init, RestartInv, Remembered, Forgotten, RestartBudget

LEMMA StepRestartInv == TypeInv /\ RestartInv /\ RestartStep => RestartInv'
<1> SUFFICES ASSUME TypeInv, RestartInv, RestartStep PROVE RestartInv'
  OBVIOUS
<1>0. /\ starts \in Seq(Nat) /\ restarts \in Seq(Nat) /\ clock \in Nat
      /\ Len(starts) \in Nat /\ Len(restarts) \in Nat /\ Forgotten \in Nat
      /\ Restarts \in Nat /\ RestartWindow \in Nat
      /\ \A i \in 1 .. Len(starts) : starts[i] \in Nat
  BY RenderAssumption DEF TypeInv, TypeOK, RestartInv, Remembered, Forgotten
<1>00. Len(starts) \in Nat /\ Forgotten \in Nat /\ Restarts \in Nat
  BY <1>0
<1>1. ASSUME NEW r \in Requests, RestartTooOften(r) \/ RestartWhileClosing(r)
      PROVE  RestartInv'
  <2>1. PICK k \in 0 .. Len(restarts) : Old(k) /\ restarts' = Recent(k)
    BY <1>1 DEF RestartTooOften, RestartWhileClosing
  <2>2. starts' = starts /\ clock' = clock
    BY <1>1 DEF RestartTooOften, RestartWhileClosing, worldVars, timeVars
  <2>3. Forgotten' = Forgotten + k
    BY <2>1, <2>2, ForgetRestarts DEF Forgotten
  <2> QED BY <2>1, <2>2, <2>3, ForgetRestarts DEF RestartInv, Remembered, RestartBudget
<1>2. ASSUME NEW r \in Requests, Restart(r) PROVE RestartInv'
  <2>1. PICK k \in 0 .. Len(restarts) :
          /\ Old(k) /\ ~TooMany(Recent(k))
          /\ restarts' = Append(Recent(k), clock)
    BY <1>2 DEF Restart
  <2>2. starts' = Append(starts, clock) /\ clock' = clock
    BY <1>2 DEF Restart
  <2>3. /\ Recent(k) \in Seq(Nat) /\ Len(Recent(k)) \in Nat
        /\ Len(Recent(k)) < Restarts
    BY <1>0, <2>1, RecentEnd DEF TypeInv, TypeOK, TooMany
  <2>4. Len(restarts') = Len(Recent(k)) + 1 /\ Len(starts') = Len(starts) + 1
    BY <1>0, <2>1, <2>2, <2>3
  <2>9. /\ \A i \in 1 .. Len(Recent(k)) : restarts'[i] = Recent(k)[i]
        /\ restarts'[Len(Recent(k)) + 1] = clock
        /\ \A i \in 1 .. Len(starts) : starts'[i] = starts[i]
        /\ starts'[Len(starts) + 1] = clock
    BY <1>0, <2>1, <2>2, <2>3
  <2>5. Len(starts) = Forgotten + k + Len(Recent(k)) /\ k \in Nat
    BY <1>0, <2>1, <2>3, ForgetRestarts
  <2>6. Forgotten' = Forgotten + k
    <3>1. Forgotten' = Len(starts') - Len(restarts')
      BY DEF Forgotten
    <3> QED BY <1>00, <2>3, <2>4, <2>5, <3>1
  <2>7. Remembered'
    <3>1. Len(restarts') <= Len(starts')
      BY <1>00, <2>3, <2>4, <2>5
    <3>2. ASSUME NEW i \in 1 .. Len(restarts')
          PROVE  restarts'[i] = starts'[Forgotten + k + i]
      <4>1. CASE i = Len(Recent(k)) + 1
        <5>1. Forgotten + k + i = Len(starts) + 1
          BY <1>00, <2>3, <2>5, <4>1
        <5> QED BY <2>9, <4>1, <5>1
      <4>2. CASE i # Len(Recent(k)) + 1
        <5>1. i \in 1 .. Len(Recent(k)) /\ Forgotten + k + i \in 1 .. Len(starts)
          BY <1>00, <2>3, <2>4, <2>5, <4>2
        <5> QED BY <2>1, <2>9, <5>1, ForgetRestarts
      <4> QED BY <4>1, <4>2
    <3>3. ASSUME NEW i \in 1 .. (Forgotten + k)
          PROVE  clock - starts'[i] > RestartWindow
      <4>1. i \in 1 .. Len(starts)
        BY <1>00, <2>3, <2>5
      <4> QED BY <2>1, <2>9, <4>1, ForgetRestarts
    <3> QED BY <2>2, <2>6, <3>1, <3>2, <3>3 DEF Remembered
  <2>8. RestartBudget'
    <3> SUFFICES ASSUME NEW i \in 1 .. Len(starts'), NEW j \in 1 .. Len(starts'),
                        j = i + Restarts
                 PROVE  starts'[j] - starts'[i] > RestartWindow
      BY <1>0, <2>2 DEF RestartBudget
    <3>1. CASE j <= Len(starts)
      <4>1. i \in 1 .. Len(starts) /\ j \in 1 .. Len(starts)
        BY <1>00, <2>4, <3>1
      <4> QED BY <2>9, <4>1 DEF RestartInv, RestartBudget
    <3>2. CASE j > Len(starts)
      <4>1. j = Len(starts) + 1 /\ i \in 1 .. (Forgotten + k) /\ i \in 1 .. Len(starts)
        BY <1>00, <2>3, <2>4, <2>5, <3>2
      <4> QED BY <2>1, <2>9, <4>1, ForgetRestarts
    <3> QED BY <1>00, <3>1, <3>2
  <2> QED BY <2>7, <2>8 DEF RestartInv
<1>3. CASE UNCHANGED <<restarts, starts>> /\ clock' \in {clock, clock + 1}
  <2>1. Forgotten' = Forgotten /\ RestartBudget'
    BY <1>3 DEF Forgotten, RestartInv, RestartBudget
  <2>2. \A i \in 1 .. Forgotten : i \in 1 .. Len(starts)
    BY <1>0 DEF Forgotten
  <2>3. \A i \in 1 .. Forgotten : clock' - starts[i] > RestartWindow
    BY <1>0, <1>3, <2>2 DEF RestartInv, Remembered
  <2> QED BY <1>3, <2>1, <2>3 DEF RestartInv, Remembered
<1> QED BY <1>1, <1>2, <1>3 DEF RestartStep

\* The restarts of a session never exceed their limit within one window,
\* wherever the window is put (RestartBudget).
THEOREM RestartsWithinBudget == Spec => []RestartBudget
<1>1. TypeInv /\ RestartInv /\ [Next]_vars => RestartInv'
  BY StepRestarts, StepRestartInv
<1>2. TypeInv /\ [Next]_vars => TypeInv'
  BY StepTypes
<1>3. RestartInv => RestartBudget
  BY DEF RestartInv
<1> QED BY InitTypes, InitRestarts, <1>1, <1>2, <1>3, PTL DEF Spec

-----------------------------------------------------------------------------
(* The strikes. *)

\* Where a request is once its strikes are checked, until it returns.
Past == {"ensuring", "counting", "falling"} \cup Launching \cup Asking

\* The strikes it passed are of its document, and leave room for its fall.
Room ==
    \A r \in Requests : pc[r] \in Past =>
        strikes.document = req[r].doc /\ ~Refused(strikes, req[r].page)

Returned == {r \in Requests : pc[r] = "done"}

StrikesInv == Room /\ StrikesEarned /\ IsFiniteSet(Returned)

\* The requests that Falls counts.
Fallen(d, phase, pages) ==
    {r \in Requests : /\ answer[r].phase = phase
                      /\ req[r].doc = d
                      /\ req[r].page \in pages}

Falling == {"opening", "drawing"}

\* They returned, and only finitely many requests did.
LEMMA FallenFinite ==
    ASSUME AnswersInv, StrikesInv, NEW d, NEW pages, NEW phase \in Falling
    PROVE  /\ IsFiniteSet(Fallen(d, phase, pages))
           /\ Falls(d, phase, pages) = Cardinality(Fallen(d, phase, pages))
           /\ Falls(d, phase, pages) \in Nat
<1>1. Fallen(d, phase, pages) \subseteq Returned
  BY DEF Fallen, Returned, AnswersInv, Unanswered, NoAnswer, Falling
<1>2. IsFiniteSet(Fallen(d, phase, pages))
  BY <1>1, FS_Subset DEF StrikesInv
<1>3. Falls(d, phase, pages) = Cardinality(Fallen(d, phase, pages))
  BY DEF Falls, Fallen
<1> QED BY <1>2, <1>3, FS_CardinalityType

\* Strikes are checked when a request enters and added when it falls; nobody
\* else touches them or gets past them.
StrikesStep ==
    \/ \E r \in Requests : CheckStrikes(r) \/ RequestFalls(r)
    \/ /\ strikes' = strikes
       /\ \A r \in Requests : pc'[r] \in Past => pc[r] \in Past

LEMMA MoveStrikes ==
    ASSUME TypeInv, NEW t \in Threads, NEW where, pc' = [pc EXCEPT ![t] = where],
           where \in Past => pc[t] \in Past, strikes' = strikes
    PROVE  StrikesStep
BY DEF StrikesStep, TypeInv, TypeOK, Threads

LEMMA StepStrikes ==
    TypeInv /\ OwnInv /\ [Next]_vars => StrikesStep
<1> SUFFICES ASSUME TypeInv, OwnInv, [Next]_vars PROVE StrikesStep
  OBVIOUS
<1> USE DEF callVars, stateVars, worldVars, watchVars, guardVars, channelVars,
            timeVars, GoTo, Return, Threads
<1>1. ASSUME NEW r \in Requests, NEW d \in Docs, NEW p \in Pages, Issue(r, d, p)
      PROVE  StrikesStep
  BY <1>1, MoveStrikes DEF Issue, Past, Launching, Asking
<1>2. ASSUME NEW r \in Requests, Draw(r) PROVE StrikesStep
  <2>1. CASE CheckStrikes(r) \/ RequestFalls(r)
    BY <2>1 DEF StrikesStep
  <2>2. CASE Enter(r) \/ TurnedAway(r)
    <3>1. PICK where \in {"entered", "done"} : pc' = [pc EXCEPT ![r] = where]
      BY <2>2 DEF Enter, TurnedAway
    <3> QED BY <2>2, <3>1, MoveStrikes DEF Enter, TurnedAway, Past, Launching, Asking
  <2>3. CASE ~(CheckStrikes(r) \/ RequestFalls(r) \/ Enter(r) \/ TurnedAway(r))
    <3>1. \E where \in States : pc' = [pc EXCEPT ![r] = where]
      BY <1>2, <2>3
      DEF Draw, WorkerRuns, WorkerGone, NoWorkerYet, RestartTooOften, RestartWhileClosing,
          Restart, Restarted, RestartedTooLate, AskHeld, TooBig, RaiseCeiling,
          SendDocument, DocumentAnswered, SendDraw, PageAnswered, Lied, Fails, States,
          Turn, Launching, Asking
    <3>2. pc[r] \in Past /\ strikes' = strikes
      BY <1>2, <2>3
      DEF Draw, WorkerRuns, WorkerGone, NoWorkerYet, RestartTooOften, RestartWhileClosing,
          Restart, Restarted, RestartedTooLate, AskHeld, TooBig, RaiseCeiling,
          SendDocument, DocumentAnswered, SendDraw, PageAnswered, Lied, Fails, Past,
          Launching, Asking
    <3> QED BY <3>1, <3>2, MoveStrikes
  <2> QED BY <2>1, <2>2, <2>3
<1>3. ASSUME NEW t \in Threads, Launch(t) \/ Receive(t) PROVE StrikesStep
  <2>1. \E where \in States : pc' = [pc EXCEPT ![t] = where]
    BY <1>3 DEF Launch, Spawn, SpawnFails, NotStarted, Register, NoThreads, Greeted,
                LaunchFails, Receive, Lost, TimesOut, Fails, States, Turn, Launching,
                Asking
  <2>2. pc[t] \in Past /\ strikes' = strikes
    BY <1>3 DEF Launch, Spawn, SpawnFails, Register, NoThreads, Greeted, LaunchFails,
                Receive, Lost, TimesOut, Fails, Past, Launching, Asking, Awaiting
  <2> QED BY <2>1, <2>2, MoveStrikes
<1>4. CASE Started \/ Close \/ Shutdown
  <2>1. \A r \in Requests : pc'[r] = pc[r]
    BY <1>4, RenderAssumption
    DEF Started, Close, Shutdown, TryTurn, StopUnder, WaitTurn, Leave, TypeInv, TypeOK
  <2> QED BY <1>4, <2>1
      DEF Started, Close, Shutdown, TryTurn, StopUnder, WaitTurn, Leave, StrikesStep
<1>5. CASE Engine \/ Guard \/ Tick \/ UNCHANGED vars
  <2>1. UNCHANGED <<pc, strikes>>
    BY <1>5 DEF Engine, EngineGreets, EngineDeclines, EngineOpens, EngineDraws,
                EngineDies, EngineUnchanged, Guard, GuardLooks, GuardContent,
                GuardCondemns, GuardStops, GuardEnds, GuardUnchanged, Tick, vars
  <2> QED BY <2>1 DEF StrikesStep
<1> QED BY <1>1, <1>2, <1>3, <1>4, <1>5 DEF Next, Finished

LEMMA InitStrikes == Init => StrikesInv
<1> SUFFICES ASSUME Init PROVE StrikesInv
  OBVIOUS
<1>1. \A r \in Requests : pc[r] = "idle"
  BY RenderAssumption DEF Init, Threads
<1>2. Room /\ Returned = {}
  BY <1>1 DEF Room, Returned, Past, Launching, Asking
<1>3. ASSUME NEW d, NEW pages, NEW phase \in Falling PROVE Falls(d, phase, pages) = 0
  <2>1. Fallen(d, phase, pages) = {}
    BY DEF Init, NoAnswer, Fallen, Falling
  <2> QED BY <2>1, FS_EmptySet DEF Falls, Fallen
<1>4. StrikesEarned
  BY <1>3 DEF Init, StrikesEarned, NoStrikes, FALLS, Falling
<1> QED BY <1>2, <1>4, FS_EmptySet DEF StrikesInv

\* Answers without a phase leave the count of falls as it is.
LEMMA FallenSame ==
    ASSUME \A r \in Requests : answer'[r].phase = answer[r].phase,
           \A r \in Requests : answer[r].phase # "none" => req'[r] = req[r]
    PROVE  \A d, pages : \A phase \in Falling :
              Falls(d, phase, pages)' = Falls(d, phase, pages)
<1> SUFFICES ASSUME NEW d, NEW pages, NEW phase \in Falling
             PROVE  Falls(d, phase, pages)' = Falls(d, phase, pages)
  OBVIOUS
<1>1. Fallen(d, phase, pages)' = Fallen(d, phase, pages)
  BY DEF Fallen, Falling
<1> QED BY <1>1 DEF Falls, Fallen

\* A request whose strikes are checked finds those of its document, or none.
LEMMA CheckStrikesEarned ==
    ASSUME TypeInv, OwnInv, AnswersInv, StrikesInv, NEW r \in Requests, CheckStrikes(r)
    PROVE  Room' /\ StrikesEarned'
<1> USE DEF TypeInv, TypeOK, Threads, CheckStrikes, Return, GoTo
<1>1. /\ \A q \in Requests : answer'[q].phase = answer[q].phase
      /\ req' = req
  <2>1. answer' = answer \/ answer' = [answer EXCEPT ![r] = Say("refused")]
    OBVIOUS
  <2>2. answer[r].phase = "none" /\ Say("refused").phase = "none"
    BY DEF AnswersInv, Unanswered, NoAnswer, Say
  <2> QED BY <2>1, <2>2
<1>2. \A d, pages : \A phase \in Falling :
          Falls(d, phase, pages)' = Falls(d, phase, pages)
  BY <1>1, FallenSame
<1>3. \A d, pages : \A phase \in Falling : Falls(d, phase, pages) \in Nat
  BY FallenFinite
<1>4. \A q \in Requests : pc'[q] \in Past =>
          q = r /\ ~Refused(strikes', req[q].page)
  <2>1. \A q \in Requests : q # r => pc[q] \notin Past
    BY DEF OwnInv, Turns, Turn, Past, Launching, Asking
  <2>2. pc'[r] \in Past => ~Refused(strikes', req[r].page)
    BY DEF Past, Launching, Asking
  <2> QED BY <2>1, <2>2
<1>5. strikes'.document = req[r].doc
  BY DEF Concern, NoStrikes
<1>6. Room'
  BY <1>1, <1>4, <1>5 DEF Room, Refused
<1>7. CASE strikes.document = req[r].doc
  <2>1. strikes' = strikes
    BY <1>7 DEF Concern
  <2>2. /\ strikes.opening <= Falls(req[r].doc, "opening", Pages)
        /\ strikes.opening <= FALLS
        /\ \A p \in Pages : /\ strikes.pages[p] <= Falls(req[r].doc, "drawing", {p})
                            /\ strikes.pages[p] <= FALLS
    BY <1>7 DEF StrikesInv, StrikesEarned
  <2>3. /\ strikes'.opening <= Falls(req[r].doc, "opening", Pages)'
        /\ strikes'.opening <= FALLS
        /\ \A p \in Pages : /\ strikes'.pages[p] <= Falls(req[r].doc, "drawing", {p})'
                            /\ strikes'.pages[p] <= FALLS
    <3> HIDE DEF TypeInv, TypeOK, CheckStrikes, Return, GoTo
    <3>1. PICK d : d = req[r].doc /\ d = req'[r].doc
      BY <1>1
    <3>2. /\ Falls(d, "opening", Pages)' = Falls(d, "opening", Pages)
          /\ \A p \in Pages : Falls(d, "drawing", {p})' = Falls(d, "drawing", {p})
      BY <1>2 DEF Falling
    <3> QED BY <2>1, <2>2, <3>1, <3>2
  <2> QED BY <1>1, <1>5, <1>6, <2>3 DEF StrikesEarned
<1>8. CASE strikes.document # req[r].doc
  <2>1. strikes' = NoStrikes(req[r].doc)
    BY <1>8 DEF Concern
  <2> QED BY <1>2, <1>3, <1>6, <2>1 DEF StrikesEarned, NoStrikes, Falling, FALLS
<1> QED BY <1>7, <1>8

\* A request that falls adds a strike and an answer.
LEMMA FallEarned ==
    ASSUME TypeInv, OwnInv, AnswersInv, StrikesInv, NEW r \in Requests, RequestFalls(r)
    PROVE  Room' /\ StrikesEarned'
<1> DEFINE d == req[r].doc
           p == req[r].page
           at == cause.phase
<1>1. /\ pc[r] = "falling" /\ at \in Falling
      /\ strikes' = Fall(strikes, at, p) /\ req' = req
      /\ pc' = [pc EXCEPT ![r] = "done"]
      /\ answer' = [answer EXCEPT ![r] = Fell(Explained, at)]
  BY DEF RequestFalls, Return, Falling
<1>2. /\ strikes.document = d /\ strikes.opening < FALLS /\ strikes.pages[p] < FALLS
      /\ strikes \in Strikes /\ p \in Pages
  BY <1>1 DEF StrikesInv, Room, Past, Refused, FALLS, TypeInv, TypeOK, Called, Strikes
<1>3. answer[r].phase = "none" /\ answer'[r].phase = at
  BY <1>1 DEF AnswersInv, Unanswered, NoAnswer, Fell, TypeInv, TypeOK
<1>4. \A q \in Requests : q # r => answer'[q] = answer[q]
  BY <1>1 DEF TypeInv, TypeOK
<1>5. ASSUME NEW pages, NEW phase \in Falling
      PROVE  /\ phase = at /\ p \in pages =>
                Falls(d, phase, pages)' = Falls(d, phase, pages) + 1
             /\ phase # at \/ p \notin pages =>
                Falls(d, phase, pages)' = Falls(d, phase, pages)
  <2>0. PICK doc : doc = d
    OBVIOUS
  <2>1. r \notin Fallen(doc, phase, pages)
    BY <1>3 DEF Fallen, Falling
  <2>2. ASSUME phase = at, p \in pages
        PROVE  Fallen(doc, phase, pages)' = Fallen(doc, phase, pages) \cup {r}
    BY <1>1, <1>3, <1>4, <2>0, <2>2 DEF Fallen
  <2>3. ASSUME phase # at \/ p \notin pages
        PROVE  Fallen(doc, phase, pages)' = Fallen(doc, phase, pages)
    BY <1>1, <1>3, <1>4, <2>0, <2>3 DEF Fallen, Falling
  <2>4. /\ Falls(doc, phase, pages)' = Cardinality(Fallen(doc, phase, pages)')
        /\ Falls(d, phase, pages)' = Falls(doc, phase, pages)'
        /\ Falls(d, phase, pages) = Falls(doc, phase, pages)
    BY <1>1, <2>0 DEF Falls, Fallen
  <2>5. /\ IsFiniteSet(Fallen(doc, phase, pages))
        /\ Falls(doc, phase, pages) = Cardinality(Fallen(doc, phase, pages))
    BY FallenFinite
  <2> QED BY <2>1, <2>2, <2>3, <2>4, <2>5, FS_AddElement
<1>6. Room'
  <2>1. \A q \in Requests : pc'[q] \notin Past
    BY <1>1 DEF OwnInv, Turns, Turn, Past, Launching, Asking, Threads, TypeInv, TypeOK
  <2> QED BY <2>1 DEF Room
<1>7. strikes'.document = d /\ d' = d
  BY <1>1, <1>2 DEF Fall
<1>8. CASE at = "opening"
  <2>1. /\ strikes'.opening = strikes.opening + 1 /\ strikes'.pages = strikes.pages
    BY <1>1, <1>2, <1>8 DEF Fall, Strikes
  <2>2. /\ strikes'.opening <= Falls(d, "opening", Pages)'
        /\ \A q \in Pages : strikes'.pages[q] <= Falls(d, "drawing", {q})'
    BY <1>2, <1>5, <1>8, <2>1, FallenFinite DEF StrikesInv, StrikesEarned, Falling, Strikes
  <2> QED BY <1>2, <1>6, <1>7, <2>1, <2>2
          DEF StrikesInv, StrikesEarned, FALLS, Strikes
<1>9. CASE at = "drawing"
  <2>1. /\ strikes'.opening = strikes.opening
        /\ strikes'.pages[p] = strikes.pages[p] + 1
        /\ \A q \in Pages : q # p => strikes'.pages[q] = strikes.pages[q]
    BY <1>1, <1>2, <1>9 DEF Fall, Strikes
  <2>2. /\ strikes'.opening <= Falls(d, "opening", Pages)'
        /\ \A q \in Pages : strikes'.pages[q] <= Falls(d, "drawing", {q})'
    BY <1>2, <1>5, <1>9, <2>1, FallenFinite DEF StrikesInv, StrikesEarned, Falling, Strikes
  <2>3. \A q \in Pages : strikes'.pages[q] <= FALLS
    <3>1. \A q \in Pages : strikes.pages[q] <= FALLS /\ strikes.pages[q] \in Nat
      BY <1>2 DEF StrikesInv, StrikesEarned, Strikes
    <3> QED BY <1>2, <2>1, <3>1 DEF FALLS
  <2> QED BY <1>2, <1>6, <1>7, <2>1, <2>2, <2>3
          DEF StrikesInv, StrikesEarned
<1> QED BY <1>1, <1>8, <1>9 DEF Falling

LEMMA StepStrikesInv ==
    TypeInv /\ OwnInv /\ AnswersInv /\ StrikesInv /\ AnswerStep /\ StrikesStep
        => StrikesInv'
<1> SUFFICES ASSUME TypeInv, OwnInv, AnswersInv, StrikesInv, AnswerStep, StrikesStep
             PROVE  StrikesInv'
  OBVIOUS
<1>1. IsFiniteSet(Returned)'
  <2>1. CASE Calls
    <3>1. Returned' = Returned
      BY <2>1 DEF Calls, Issue, GoTo, Returned, TypeInv, TypeOK, Threads
    <3> QED BY <3>1 DEF StrikesInv
  <2>2. ASSUME NEW r \in Requests, Returns(r) PROVE IsFiniteSet(Returned)'
    <3>1. Returned' = Returned \cup {r}
      BY <2>2 DEF Returns, Returned, TypeInv, TypeOK, Threads
    <3> QED BY <3>1, FS_AddElement DEF StrikesInv
  <2>3. CASE NobodyReturns
    <3>1. Returned' = Returned
      BY <2>3 DEF NobodyReturns, Returned
    <3> QED BY <3>1 DEF StrikesInv
  <2> QED BY <2>1, <2>2, <2>3 DEF AnswerStep
<1>2. ASSUME NEW r \in Requests, CheckStrikes(r) \/ RequestFalls(r)
      PROVE  Room' /\ StrikesEarned'
  BY <1>2, CheckStrikesEarned, FallEarned
<1>3. CASE /\ strikes' = strikes
           /\ \A r \in Requests : pc'[r] \in Past => pc[r] \in Past
           /\ \A r \in Requests : ~RequestFalls(r)
  <2>1. /\ \A q \in Requests : answer'[q].phase = answer[q].phase
        /\ \A q \in Requests : pc[q] # "idle" => req'[q] = req[q]
    <3>1. CASE Calls
      BY <3>1 DEF Calls, Issue, TypeInv, TypeOK
    <3>2. ASSUME NEW r \in Requests, Returns(r)
          PROVE  /\ \A q \in Requests : answer'[q].phase = answer[q].phase
                 /\ req' = req
      <4>1. PICK what : what.phase = "none" /\ answer' = [answer EXCEPT ![r] = what]
        BY <1>3, <3>2 DEF Returns
      <4>2. answer[r].phase = "none" /\ req' = req
        BY <3>2 DEF Returns, AnswersInv, Unanswered, NoAnswer, Turn, Launching, Asking
      <4> QED BY <4>1, <4>2 DEF TypeInv, TypeOK
    <3>3. CASE NobodyReturns
      BY <3>3 DEF NobodyReturns
    <3> QED BY <3>1, <3>2, <3>3 DEF AnswerStep
  <2>2. \A q \in Requests : answer[q].phase # "none" => req'[q] = req[q]
    BY <2>1 DEF AnswersInv, Unanswered, NoAnswer
  <2>3. \A d, pages : \A phase \in Falling :
            Falls(d, phase, pages)' = Falls(d, phase, pages)
    BY <2>1, <2>2, FallenSame
  <2>4. StrikesEarned'
    BY <1>3, <2>3 DEF StrikesInv, StrikesEarned, Falling
  <2>5. Room'
    BY <1>3, <2>1 DEF StrikesInv, Room, Past, Launching, Asking, Refused
  <2> QED BY <1>1, <2>4, <2>5 DEF StrikesInv
<1> QED BY <1>1, <1>2, <1>3 DEF StrikesStep, StrikesInv

\* A strike is the fall of a request, and no page is struck more often than
\* the limit at which it is refused (StrikesEarned).
THEOREM StrikesAreEarned == Spec => []StrikesEarned
<1>1. /\ TypeInv /\ OwnInv /\ ExchangeInv /\ AnswersInv /\ StrikesInv /\ [Next]_vars
         => StrikesInv'
  BY StepAnswers, StepStrikes, StepStrikesInv
<1>2. StrikesInv => StrikesEarned
  BY DEF StrikesInv
<1> QED BY Answering, InitStrikes, <1>1, <1>2, PTL DEF Spec

-----------------------------------------------------------------------------
(* The stop on record. *)

\* The stop on record is that of the process in the slot: the guard has not
\* condemned the one about to be registered.
Recorded ==
    /\ condemned \subseteq Pids
    /\ \A t \in Threads : pc[t] = "registering" => Len(fate) \notin condemned
    /\ \A t \in Threads : pc[t] = "falling" => slot # 0
    /\ slot # 0 => (passed > 0 <=> slot \in condemned)

LEMMA InitRecorded == Init => Recorded
BY DEF Init, Recorded

\* A thread moves, and neither the slot nor the guard does.
LEMMA MoveRecorded ==
    ASSUME TypeInv, OwnInv, Recorded, NEW t \in Threads, NEW where,
           pc' = [pc EXCEPT ![t] = where], where # "registering",
           where = "falling" => slot # 0,
           UNCHANGED <<slot, passed, condemned>>, Len(fate') = Len(fate),
           fate' \in Seq({"running", "ended"})
    PROVE  Recorded'
BY DEF Recorded, TypeInv, TypeOK, Threads, Pids

\* A process let go of leaves the slot empty.
LEMMA RetireRecorded ==
    ASSUME TypeInv, OwnInv, Recorded, Retire, NEW t \in Threads, NEW where,
           pc[t] \in Turn, pc' = [pc EXCEPT ![t] = where], condemned' = condemned,
           where \notin {"registering", "falling"}
    PROVE  Recorded'
<1>1. /\ fate \in Seq({"running", "ended"}) /\ fate' \in Seq({"running", "ended"})
      /\ Len(fate') = Len(fate)
  BY KillSlotType DEF Retire, TypeInv, TypeOK
<1>2. \A s \in Threads : pc'[s] \notin {"registering", "falling"}
  BY DEF OwnInv, Turns, Turn, Launching, TypeInv, TypeOK
<1> QED BY <1>1, <1>2 DEF Retire, Recorded, Pids

\* The steps of the requests and of the main thread.
LEMMA ThreadRecorded ==
    ASSUME TypeInv, OwnInv, Recorded, NEW t \in Threads,
           \/ t \in Requests /\ Draw(t)
           \/ t \in Requests /\ \E d \in Docs, p \in Pages : Issue(t, d, p)
           \/ Launch(t) \/ Receive(t)
           \/ t = Main /\ (Started \/ Close \/ Shutdown)
    PROVE  Recorded'
<1> USE DEF callVars, stateVars, worldVars, watchVars, guardVars, channelVars,
            timeVars, GoTo, Return
<1>0. fate \in Seq({"running", "ended"}) /\ Len(fate) \in Nat /\ slot \in Nat
  BY DEF TypeInv, TypeOK
<1>1. CASE t \in Requests /\ \E d \in Docs, p \in Pages : Issue(t, d, p)
  BY <1>0, <1>1, MoveRecorded DEF Issue
<1>2. CASE t \in Requests /\ Draw(t)
  <2>1. CASE WorkerGone(t) \/ RestartedTooLate(t) \/ RequestFalls(t)
    BY <2>1, RetireRecorded DEF WorkerGone, RestartedTooLate, RequestFalls, Turn, Launching
  <2>2. CASE Lied(t)
    <3>1. slot # 0
      BY <2>2 DEF Lied, OwnInv, Owner, Asking
    <3> QED BY <1>0, <2>2, <3>1, MoveRecorded DEF Lied, Fails
  <2>3. CASE ~(WorkerGone(t) \/ RestartedTooLate(t) \/ RequestFalls(t) \/ Lied(t))
    <3>1. /\ \E where \in States \ {"registering", "falling"} :
                pc' = [pc EXCEPT ![t] = where]
          /\ UNCHANGED <<slot, passed, condemned, fate>>
      BY <1>2, <2>3
      DEF Draw, Enter, TurnedAway, CheckStrikes, WorkerRuns, NoWorkerYet, RestartTooOften,
          RestartWhileClosing, Restart, Restarted, AskHeld, TooBig, RaiseCeiling,
          SendDocument, DocumentAnswered, SendDraw, PageAnswered, States, Turn,
          Launching, Asking
    <3> QED BY <1>0, <3>1, MoveRecorded
  <2> QED BY <2>1, <2>2, <2>3
<1>3. CASE Spawn(t)
  <2>1. /\ fate' \in Seq({"running", "ended"}) /\ Len(fate') = Len(fate) + 1
        /\ pc' = [pc EXCEPT ![t] = "registering"]
        /\ UNCHANGED <<slot, passed, condemned>>
    BY <1>0, <1>3 DEF Spawn
  <2>2. \A s \in Threads : s # t => pc'[s] = pc[s]
    BY <2>1 DEF TypeInv, TypeOK
  <2>3. Len(fate') \notin condemned /\ condemned \subseteq Pids'
    BY <1>0, <2>1 DEF Recorded, Pids
  <2>4. \A s \in Threads : pc'[s] = "falling" => slot # 0
    BY <2>1, <2>2 DEF Recorded, TypeInv, TypeOK
  <2> QED BY <2>1, <2>3, <2>4 DEF Recorded
<1>4. CASE Register(t)
  <2>1. Len(fate) # 0 /\ Len(fate) \notin condemned /\ slot = 0 /\ fate' = fate
    BY <1>0, <1>4 DEF Register, OwnInv, Owner, Recorded, KillSlot
  <2>2. \A s \in Threads : pc'[s] \notin {"registering", "falling"}
    BY <1>4 DEF Register, OwnInv, Turns, Turn, Launching, TypeInv, TypeOK
  <2> QED BY <1>4, <2>1, <2>2 DEF Register, ForgetStop, Recorded, Pids
<1>5. CASE SpawnFails(t)
  BY <1>0, <1>5, MoveRecorded DEF SpawnFails, NotStarted
<1>6. CASE LaunchFails(t)
  <2>1. \E where \in {"serving", "done"} : pc' = [pc EXCEPT ![t] = where]
    BY <1>6 DEF LaunchFails, NotStarted
  <2>2. Retire /\ condemned' = condemned /\ pc[t] \in Turn
    BY <1>6 DEF LaunchFails, Turn
  <2> QED BY <2>1, <2>2, RetireRecorded
<1>7. CASE NoThreads(t) \/ Greeted(t) \/ Receive(t)
  <2>1. slot # 0
    BY <1>7 DEF NoThreads, Greeted, Receive, Lost, TimesOut, Awaiting, OwnInv, Owner, Asking
  <2>2. /\ \E where \in {"falling", "greeted"} : pc' = [pc EXCEPT ![t] = where]
        /\ UNCHANGED <<slot, passed, condemned, fate>>
    BY <1>7 DEF NoThreads, Greeted, Receive, Lost, TimesOut, Fails
  <2> QED BY <1>0, <2>1, <2>2, MoveRecorded
<1>8. CASE t = Main /\ (Started \/ Close \/ TryTurn \/ WaitTurn)
  <2>1. /\ \E where \in MainWaits \cup {"leaving"} : pc' = [pc EXCEPT ![t] = where]
        /\ UNCHANGED <<slot, passed, condemned, fate>>
    BY <1>8 DEF Started, Close, TryTurn, WaitTurn, MainWaits
  <2> QED BY <1>0, <2>1, MoveRecorded DEF MainWaits
<1>9. CASE t = Main /\ StopUnder
  BY <1>0, <1>9, MoveRecorded, KillSlotType DEF StopUnder, TypeInv
<1>10. CASE t = Main /\ Leave
  <2>1. CASE Retire
    BY <1>10, <2>1, RetireRecorded DEF Leave, Turn
  <2>2. CASE UNCHANGED <<worker, slot, fate, channelVars>>
    BY <1>0, <1>10, <2>2, MoveRecorded DEF Leave
  <2> QED BY <1>10, <2>1, <2>2 DEF Leave
<1> QED BY <1>1, <1>2, <1>3, <1>4, <1>5, <1>6, <1>7, <1>8, <1>9, <1>10
    DEF Launch, Shutdown

\* The steps of the worker, the guard and the clock.
LEMMA OtherRecorded ==
    ASSUME TypeInv, OwnInv, Recorded, Engine \/ Guard \/ Tick \/ UNCHANGED vars
    PROVE  Recorded'
<1> USE DEF callVars, stateVars, worldVars, watchVars, guardVars, channelVars,
            timeVars
<1>0. fate \in Seq({"running", "ended"}) /\ slot \in Nat /\ guard \in Guarding
  BY DEF TypeInv, TypeOK
<1>1. pc' = pc /\ slot' = slot
  BY DEF Engine, EngineGreets, EngineDeclines, EngineOpens, EngineDraws,
         EngineDies, EngineUnchanged, Guard, GuardLooks, GuardContent,
         GuardCondemns, GuardStops, GuardEnds, GuardUnchanged, Tick, vars
<1>2. fate' = fate \/ \E p : fate' = Ended(p)
  BY DEF Engine, EngineGreets, EngineDeclines, EngineOpens, EngineDraws,
         EngineDies, EngineUnchanged, Guard, GuardLooks, GuardContent,
         GuardCondemns, GuardStops, KillSlot, GuardEnds, GuardUnchanged, Tick, vars
<1>3. Len(fate') = Len(fate) /\ Pids' = Pids
  BY <1>0, <1>2, EndedType DEF TypeInv, Pids
<1>4. \/ UNCHANGED <<passed, condemned>>
      \/ /\ Running(slot) /\ passed' = Larger(guard.ceiling, 1)
         /\ condemned' = condemned \cup {slot}
  BY DEF Engine, EngineGreets, EngineDeclines, EngineOpens, EngineDraws,
         EngineDies, EngineUnchanged, Guard, GuardLooks, GuardContent,
         GuardCondemns, GuardStops, GuardEnds, GuardUnchanged, Tick, vars
<1>5. CASE UNCHANGED <<passed, condemned>>
  BY <1>1, <1>3, <1>5 DEF Recorded
<1>6. CASE /\ Running(slot) /\ passed' = Larger(guard.ceiling, 1)
           /\ condemned' = condemned \cup {slot}
  <2>1. passed' > 0
    BY <1>0, <1>6 DEF Guarding, Larger
  <2>2. slot # 0 /\ slot \in Pids
    BY <1>0, <1>6 DEF Running, Pids
  <2>3. \A t \in Threads : pc[t] # "registering"
    BY <2>2 DEF OwnInv, Owner
  <2> QED BY <1>1, <1>3, <1>6, <2>1, <2>2, <2>3 DEF Recorded
<1> QED BY <1>4, <1>5, <1>6

LEMMA StepRecorded == TypeInv /\ OwnInv /\ Recorded /\ [Next]_vars => Recorded'
BY ThreadRecorded, OtherRecorded DEF Next, Finished, Threads

\* A request stops falling when it lets go of its worker.
LEMMA FallsItself ==
    ASSUME TypeInv, OwnInv, [Next]_vars, NEW r \in Requests,
           pc[r] = "falling", pc'[r] = "done"
    PROVE  RequestFalls(r) \/ LaunchFails(r)
<1> USE DEF callVars, stateVars, worldVars, GoTo, Return, Threads, TypeInv, TypeOK
<1>1. ASSUME NEW s \in Requests, NEW d \in Docs, NEW p \in Pages, Issue(s, d, p)
      PROVE  FALSE
  BY <1>1 DEF Issue
<1>2. ASSUME NEW s \in Requests, Draw(s) PROVE s = r /\ RequestFalls(r)
  <2>1. s = r
    BY <1>2
    DEF Draw, Enter, TurnedAway, CheckStrikes, WorkerRuns, WorkerGone, NoWorkerYet,
        RestartTooOften, RestartWhileClosing, Restart, Restarted, RestartedTooLate,
        AskHeld, TooBig, RaiseCeiling, SendDocument, DocumentAnswered, SendDraw,
        PageAnswered, Lied, Fails, RequestFalls
  <2> QED BY <1>2, <2>1
      DEF Draw, Enter, TurnedAway, CheckStrikes, WorkerRuns, WorkerGone, NoWorkerYet,
          RestartTooOften, RestartWhileClosing, Restart, Restarted, RestartedTooLate,
          AskHeld, TooBig, RaiseCeiling, SendDocument, DocumentAnswered, SendDraw,
          PageAnswered, Lied
<1>3. ASSUME NEW t \in Threads, Launch(t) \/ Receive(t) PROVE t = r /\ LaunchFails(r)
  BY <1>3 DEF Launch, Spawn, SpawnFails, NotStarted, Register, NoThreads, Greeted,
              LaunchFails, Receive, Lost, TimesOut, Fails, Awaiting
<1>4. CASE Started \/ Close \/ Shutdown
  BY <1>4, RenderAssumption
  DEF Started, Close, Shutdown, TryTurn, StopUnder, WaitTurn, Leave
<1>5. CASE Engine \/ Guard \/ Tick \/ UNCHANGED vars
  BY <1>5 DEF Engine, EngineGreets, EngineDeclines, EngineOpens, EngineDraws,
              EngineDies, EngineUnchanged, Guard, GuardLooks, GuardContent,
              GuardCondemns, GuardStops, GuardEnds, GuardUnchanged, Tick, vars
<1> QED BY <1>1, <1>2, <1>3, <1>4, <1>5 DEF Next, Finished

\* A request is told that its worker passed its ceiling exactly when that
\* worker ended and the guard had stopped it for that (GreedyExactly).
THEOREM ToldOfItsOwnGreed == Spec => GreedyExactly
<1>1. ASSUME TypeInv, OwnInv, Recorded, [Next]_vars, NEW r \in Requests,
             pc[r] = "falling", pc'[r] = "done", cause.why = "stopped",
             cause.phase # "greeting"
      PROVE  answer'[r].kind = "greedy" <=> worker.pid \in condemned
  <2>1. RequestFalls(r)
    BY <1>1, FallsItself DEF LaunchFails
  <2>2. answer'[r].kind = Explained
    BY <1>1, <2>1 DEF RequestFalls, Return, Fell, TypeInv, TypeOK
  <2>3. passed > 0 <=> slot \in condemned
    BY <1>1 DEF Recorded, Threads
  <2> QED BY <1>1, <2>2, <2>3 DEF Explained, OwnInv, Owner
<1>2. TypeInv /\ OwnInv /\ Recorded /\ [Next]_vars => Recorded'
  BY StepRecorded
<1>3. TypeInv /\ OwnInv /\ Recorded /\ [Next]_vars =>
        [ \A r \in Requests :
            pc[r] = "falling" /\ pc'[r] = "done" /\ cause.why = "stopped"
              /\ cause.phase # "greeting"
            => (answer'[r].kind = "greedy" <=> worker.pid \in condemned) ]_vars
  BY <1>1
<1> QED BY Owned, InitRecorded, <1>2, <1>3, PTL DEF Spec, GreedyExactly

-----------------------------------------------------------------------------
(* The contract of PageService. *)

\* A request past the strikes is served: rendering is on.
ServedOn == \A r \in Requests : pc[r] \in Past => available

LEMMA InitServedOn == Init => ServedOn
BY RenderAssumption DEF Init, ServedOn, Past, Launching, Asking, Threads

\* Only the one whose turn it is turns rendering on or off.
LEMMA MoveServedOn ==
    ASSUME TypeInv, OwnInv, ServedOn, NEW t \in Threads, NEW where,
           pc' = [pc EXCEPT ![t] = where],
           \/ available' = available /\ (where \in Past /\ t # Main => available)
           \/ pc[t] \in Turn /\ (where \in Past => available')
    PROVE  ServedOn'
<1>1. \A r \in Requests : r # t => pc'[r] = pc[r]
  BY DEF TypeInv, TypeOK, Threads
<1>2. t \in Requests => pc'[t] = where
  BY DEF TypeInv, TypeOK, Threads
<1>3. t = Main => t \notin Requests
  BY RenderAssumption
<1>4. pc[t] \in Turn => \A r \in Requests : r # t => pc[r] \notin Past
  BY DEF OwnInv, Turns, Turn, Past, Launching, Asking, Threads
<1> QED BY <1>1, <1>2, <1>3, <1>4 DEF ServedOn

LEMMA StepServedOn == TypeInv /\ OwnInv /\ ServedOn /\ [Next]_vars => ServedOn'
<1> SUFFICES ASSUME TypeInv, OwnInv, ServedOn, [Next]_vars PROVE ServedOn'
  OBVIOUS
<1> USE DEF callVars, stateVars, worldVars, GoTo, Return, Threads
<1>1. ASSUME NEW r \in Requests, NEW d \in Docs, NEW p \in Pages, Issue(r, d, p)
      PROVE  ServedOn'
  BY <1>1, MoveServedOn DEF Issue, Past, Launching, Asking
<1>2. ASSUME NEW r \in Requests, Draw(r) PROVE ServedOn'
  <2>1. CASE Enter(r)
    BY <2>1, MoveServedOn DEF Enter, Past, Launching, Asking
  <2>2. CASE TurnedAway(r)
    BY <2>2, MoveServedOn DEF TurnedAway, Past, Launching, Asking
  <2>3. CASE CheckStrikes(r)
    BY <2>3, MoveServedOn DEF CheckStrikes, Serving, Past, Launching, Asking
  <2>4. CASE RestartTooOften(r)
    BY <2>4, MoveServedOn DEF RestartTooOften, Turn, Past, Launching, Asking
  <2>5. CASE Restarted(r)
    BY <2>5, MoveServedOn DEF Restarted, Turn, Launching
  <2>6. CASE ~(Enter(r) \/ TurnedAway(r) \/ CheckStrikes(r) \/ RestartTooOften(r)
               \/ Restarted(r))
    <3>1. /\ \E where \in States : pc' = [pc EXCEPT ![r] = where]
          /\ available' = available /\ pc[r] \in Past
      BY <1>2, <2>6
      DEF Draw, WorkerRuns, WorkerGone, NoWorkerYet, RestartWhileClosing, Restart,
          RestartedTooLate, AskHeld, TooBig, RaiseCeiling, SendDocument,
          DocumentAnswered, SendDraw, PageAnswered, Lied, Fails, RequestFalls, States,
          Turn, Past, Launching, Asking
    <3> QED BY <3>1, MoveServedOn DEF ServedOn
  <2> QED BY <2>1, <2>2, <2>3, <2>4, <2>5, <2>6
<1>3. ASSUME NEW t \in Threads, Launch(t) \/ Receive(t) PROVE ServedOn'
  <2>1. pc[t] \in Turn /\ (t # Main => available)
    BY <1>3 DEF Launch, Spawn, SpawnFails, Register, NoThreads, Greeted, LaunchFails,
                Receive, Lost, TimesOut, Awaiting, Turn, Launching, Asking, Past, ServedOn
  <2>2. CASE SpawnFails(t) \/ LaunchFails(t)
    <3>1. \E where \in {"serving", "done"} : pc' = [pc EXCEPT ![t] = where]
      BY <2>2 DEF SpawnFails, LaunchFails, NotStarted
    <3> QED BY <2>1, <3>1, MoveServedOn DEF Past, Launching, Asking
  <2>3. CASE ~(SpawnFails(t) \/ LaunchFails(t))
    <3>1. /\ \E where \in States : pc' = [pc EXCEPT ![t] = where]
          /\ available' = available
      BY <1>3, <2>3 DEF Launch, Spawn, Register, NoThreads, Greeted, Receive, Lost,
                        TimesOut, Fails, States, Turn, Launching
    <3> QED BY <2>1, <3>1, MoveServedOn
  <2> QED BY <2>2, <2>3
<1>4. CASE Started \/ Close \/ TryTurn \/ StopUnder \/ WaitTurn \/ Leave
  <2>1. /\ \E where \in MainWaits \cup {"leaving"} : pc' = [pc EXCEPT ![Main] = where]
        /\ available' = available \/ pc[Main] \in Turn
    BY <1>4 DEF Started, Close, TryTurn, StopUnder, WaitTurn, Leave, MainWaits, Turn,
                Launching
  <2> QED BY <2>1, MoveServedOn DEF MainWaits, Past, Launching, Asking
<1>5. CASE Engine \/ Guard \/ Tick \/ UNCHANGED vars
  <2>1. UNCHANGED <<pc, available>>
    BY <1>5 DEF Engine, EngineGreets, EngineDeclines, EngineOpens, EngineDraws,
                EngineDies, EngineUnchanged, Guard, GuardLooks, GuardContent,
                GuardCondemns, GuardStops, GuardEnds, GuardUnchanged, Tick, vars
  <2> QED BY <2>1 DEF ServedOn
<1> QED BY <1>1, <1>2, <1>3, <1>4, <1>5 DEF Next, Finished, Shutdown

\* What the window asks for and is told moves by one call or one return.
LEMMA AskedAndTold ==
    ASSUME TypeInv, OwnInv, AnswersInv, ServedOn, AnswerStep
    PROVE  \/ \E r \in Requests : Contract!Call(r) \/ Contract!Return(r)
           \/ UNCHANGED <<Asks, Told>>
<1> USE DEF TypeInv, TypeOK, Threads
<1>1. ASSUME NEW r \in Requests, NEW d \in Docs, NEW p \in Pages, Issue(r, d, p)
      PROVE  Contract!Call(r)
  <2> DEFINE image == [kind |-> "image", image |-> [doc |-> d, page |-> p]]
  <2>1. /\ pc[r] = "idle" /\ pc' = [pc EXCEPT ![r] = "waiting"]
        /\ req' = [req EXCEPT ![r] = [doc |-> d, page |-> p]] /\ answer' = answer
        /\ pc[Main] \notin Launching \cup {"falling"}
    BY <1>1 DEF Issue, GoTo
  <2>2. Asks[r] = Silence /\ Life # "starting"
    BY <2>1 DEF Asks, Life
  <2>3. image \in Contract!Asked
    BY DEF Contract!Asked
  <2>4. Asks' = [Asks EXCEPT ![r] = image]
    BY <2>1 DEF Asks
  <2>5. Told' = Told
    BY <2>1 DEF Told
  <2> QED BY <2>2, <2>3, <2>4, <2>5 DEF Contract!Call
<1>2. ASSUME NEW r \in Requests, Returns(r) PROVE Contract!Return(r)
  <2>1. PICK what \in Answer :
          /\ answer' = [answer EXCEPT ![r] = what]
          /\ what.kind # "none"
          /\ what.kind = "image" => PageAnswered(r) /\ what.image = req[r]
    BY <1>2 DEF Returns
  <2>2. /\ pc[r] \notin {"idle", "done"} /\ pc' = [pc EXCEPT ![r] = "done"] /\ req' = req
    BY <1>2 DEF Returns, Turn, Launching, Asking
  <2>3. Asks[r] = [kind |-> "image", image |-> req[r]] /\ Asks' = Asks
    BY <2>2 DEF Asks
  <2>4. Asks[r] # Silence
    BY <2>3 DEF Silence
  <2>5. Told[r] = Silence
    BY <2>2 DEF Told, AnswersInv, Unanswered, NoAnswer
  <2>6. CASE what.kind = "image"
    <3>1. Told' = [Told EXCEPT ![r] = Asks[r]]
      BY <2>1, <2>3, <2>6 DEF Told
    <3>2. available /\ pc[r] = "drawing"
      BY <2>1, <2>6 DEF PageAnswered, ServedOn, Past, Asking
    <3>3. pc[Main] \notin Launching \cup {"falling", "closed"}
      BY <3>2, RenderAssumption
      DEF OwnInv, Turns, Turn, Launching, Asking, Closed, Waits
    <3>4. Life = "on"
      BY <3>2, <3>3 DEF Life
    <3> QED BY <2>3, <2>4, <2>5, <3>1, <3>4 DEF Contract!Return
  <2>7. CASE what.kind # "image"
    <3>1. Told' = [Told EXCEPT ![r] = Reason]
      BY <2>1, <2>7 DEF Told
    <3> QED BY <2>3, <2>4, <2>5, <3>1 DEF Contract!Return
  <2> QED BY <2>6, <2>7
<1>3. CASE NobodyReturns
  BY <1>3 DEF NobodyReturns, Asks, Told
<1> QED BY <1>1, <1>2, <1>3 DEF AnswerStep, Calls

\* Once closed no process runs.
LEMMA NothingRuns ==
    ASSUME TypeInv', OwnInv', pc'[Main] = "closed"
    PROVE  ~Works'
<1>1. slot' = 0 /\ \A t \in Threads : pc'[t] # "registering"
  BY DEF OwnInv, Closed, Waits, Threads
<1>2. 0 \notin Pids'
  BY DEF TypeInv, TypeOK, Pids
<1>3. \A p \in Pids' : Running(p)' => p = 0
  BY <1>1 DEF OwnInv, NoStray
<1> QED BY <1>2, <1>3 DEF Works

\* Rendering is decided at the start and, once off, is off for good.
LifeStep ==
    \/ Life' = Life
    \/ Life \in {"on", "off"} /\ Life' = "closed" /\ ~Works'
    \/ Life = "starting" /\ Life' \in {"on", "off"}
    \/ Life = "on" /\ Life' = "off"

\* A step that leaves the main thread where it is, or on the same side of the
\* start and of the end, and turns rendering on only where it is on.
LEMMA SameLife ==
    ASSUME pc[Main] \in Launching \cup {"falling"} <=>
              pc'[Main] \in Launching \cup {"falling"},
           pc[Main] = "closed" <=> pc'[Main] = "closed",
           available \in BOOLEAN, available' \in BOOLEAN,
           available' = available \/ ~available'
    PROVE  LifeStep
BY DEF LifeStep, Life

LEMMA StepLife ==
    TypeInv /\ OwnInv /\ TypeInv' /\ OwnInv' /\ ServedOn /\ [Next]_vars => LifeStep
<1> SUFFICES ASSUME TypeInv, OwnInv, TypeInv', OwnInv', ServedOn, [Next]_vars
             PROVE  LifeStep
  OBVIOUS
<1> USE DEF callVars, stateVars, worldVars, GoTo, Return
<1>0. pc \in [Threads -> States] /\ available \in BOOLEAN /\ Main \in Threads
  BY DEF TypeInv, TypeOK, Threads
<1>1. ASSUME NEW r \in Requests,
             Draw(r) \/ \E d \in Docs, p \in Pages : Issue(r, d, p)
      PROVE  LifeStep
  <2>1. \E where \in States : pc' = [pc EXCEPT ![r] = where]
    BY <1>1
    DEF Draw, Issue, Enter, TurnedAway, CheckStrikes, WorkerRuns, WorkerGone, NoWorkerYet,
        RestartTooOften, RestartWhileClosing, Restart, Restarted, RestartedTooLate,
        AskHeld, TooBig, RaiseCeiling, SendDocument, DocumentAnswered, SendDraw,
        PageAnswered, Lied, Fails, RequestFalls, States, Turn, Launching, Asking
  <2>2. pc'[Main] = pc[Main]
    BY <1>0, <2>1, RenderAssumption
  <2>3. available' = available \/ ~available'
    BY <1>1
    DEF Draw, Issue, Enter, TurnedAway, CheckStrikes, WorkerRuns, WorkerGone, NoWorkerYet,
        RestartTooOften, RestartWhileClosing, Restart, Restarted, RestartedTooLate,
        AskHeld, TooBig, RaiseCeiling, SendDocument, DocumentAnswered, SendDraw,
        PageAnswered, Lied, Fails, RequestFalls, ServedOn, Past, Launching
  <2> QED BY <2>2, <2>3, SameLife DEF TypeInv, TypeOK
<1>2. ASSUME NEW t \in Threads, Launch(t) \/ Receive(t), t # Main PROVE LifeStep
  <2>1. \E where \in States : pc' = [pc EXCEPT ![t] = where]
    BY <1>2 DEF Launch, Spawn, SpawnFails, NotStarted, Register, NoThreads, Greeted,
                LaunchFails, Receive, Lost, TimesOut, Fails, States, Turn, Launching,
                Asking
  <2>2. pc'[Main] = pc[Main]
    BY <1>0, <1>2, <2>1
  <2>3. available' = available \/ ~available'
    <3>1. CASE SpawnFails(t) \/ LaunchFails(t)
      <4>1. PICK why : NotStarted(t, why)
        BY <3>1 DEF SpawnFails, LaunchFails
      <4>2. available' = IF why = "never" THEN FALSE ELSE available
        BY <1>2, <4>1 DEF NotStarted
      <4> QED BY <4>2
    <3>2. CASE ~(SpawnFails(t) \/ LaunchFails(t))
      BY <1>2, <3>2 DEF Launch, Spawn, Register, NoThreads, Greeted, Receive, Lost,
                        TimesOut, Fails
    <3> QED BY <3>1, <3>2
  <2> QED BY <2>2, <2>3, SameLife DEF TypeInv, TypeOK
<1>3. CASE Launch(Main) \/ Receive(Main)
  <2>1. pc[Main] \in Launching \cup {"falling"}
    BY <1>3, RenderAssumption
    DEF Launch, Spawn, SpawnFails, Register, NoThreads, Greeted, LaunchFails, Receive,
        Lost, TimesOut, Awaiting, OwnInv, Turns, MainWaits, Launching, Asking
  <2>2. pc'[Main] \in Launching \cup {"falling", "serving"}
    BY <1>0, <1>3
    DEF Launch, Spawn, SpawnFails, NotStarted, Register, NoThreads, Greeted,
        LaunchFails, Receive, Lost, TimesOut, Fails, Launching
  <2> QED BY <2>1, <2>2 DEF LifeStep, Life, TypeInv, TypeOK
<1>4. CASE Started
  BY <1>0, <1>4 DEF Started, LifeStep, Life, Launching
<1>5. CASE Close \/ TryTurn \/ StopUnder \/ WaitTurn
  <2>1. /\ pc[Main] \notin Launching \cup {"falling", "closed"}
        /\ pc'[Main] \notin Launching \cup {"falling", "closed"}
        /\ available' = available
    BY <1>0, <1>5 DEF Close, TryTurn, StopUnder, WaitTurn, Launching
  <2> QED BY <2>1, SameLife DEF TypeInv, TypeOK
<1>6. CASE Leave
  <2>1. Life \in {"on", "off"} /\ Life' = "closed"
    BY <1>0, <1>6 DEF Leave, Life, Launching
  <2>2. ~Works'
    BY <2>1, NothingRuns DEF Works, Life
  <2> QED BY <2>1, <2>2 DEF LifeStep
<1>7. CASE Engine \/ Guard \/ Tick \/ UNCHANGED vars
  <2>1. UNCHANGED <<pc, available>>
    BY <1>7 DEF Engine, EngineGreets, EngineDeclines, EngineOpens, EngineDraws,
                EngineDies, EngineUnchanged, Guard, GuardLooks, GuardContent,
                GuardCondemns, GuardStops, GuardEnds, GuardUnchanged, Tick, vars
  <2> QED BY <2>1, SameLife DEF TypeInv, TypeOK
<1> QED BY <1>1, <1>2, <1>3, <1>4, <1>5, <1>6, <1>7 DEF Next, Finished, Shutdown

\* A worker is started where none runs, and while rendering is starting or on.
WorkStep ==
    \/ Works' = Works
    \/ ~Works /\ Works' /\ Life \in {"starting", "on"} /\ Life' = Life
    \/ Works /\ ~Works'

LEMMA StepWork ==
    TypeInv /\ OwnInv /\ ServedOn /\ [Next]_vars => WorkStep
<1> SUFFICES ASSUME TypeInv, OwnInv, ServedOn, [Next]_vars PROVE WorkStep
  OBVIOUS
<1> USE DEF callVars, stateVars, worldVars
<1>1. ASSUME NEW t \in Threads, Spawn(t) PROVE WorkStep
  <2>1. ~Works
    <3>1. slot = 0 /\ \A s \in Threads : pc[s] # "registering"
      BY <1>1 DEF Spawn, OwnInv, Turns, Turn, Launching, Owner
    <3> QED BY <3>1 DEF Works, OwnInv, NoStray, Running, Pids, TypeInv, TypeOK
  <2>2. Life \in {"starting", "on"}
    <3>1. CASE t = Main
      BY <1>1, <3>1 DEF Spawn, Life, Launching
    <3>2. CASE t # Main
      BY <1>1, <3>2 DEF Spawn, Life, OwnInv, Closed, Waits, ServedOn, Past, Launching,
                        Threads
    <3> QED BY <3>1, <3>2
  <2>3. Life' = Life
    BY <1>1 DEF Spawn, GoTo, Life, Launching, TypeInv, TypeOK
  <2> QED BY <2>1, <2>2, <2>3 DEF WorkStep, Works
<1>2. ASSUME ~\E t \in Threads : Spawn(t) PROVE WorkStep
  <2>1. fate' = fate \/ \E p : fate' = Ended(p)
    BY <1>2
    DEF Next, Finished, Issue, Draw, Launch, Receive, Started, Close, Shutdown, Engine,
        Guard, Tick, vars, Enter, TurnedAway, CheckStrikes, WorkerRuns, WorkerGone,
        NoWorkerYet, RestartTooOften, RestartWhileClosing, Restart, Restarted,
        RestartedTooLate, AskHeld, TooBig, RaiseCeiling, SendDocument, DocumentAnswered,
        SendDraw, PageAnswered, Lied, Fails, RequestFalls, SpawnFails, Register, NoThreads,
        Greeted, LaunchFails, Lost, TimesOut, TryTurn, StopUnder, WaitTurn, Leave,
        EngineGreets, EngineDeclines, EngineOpens, EngineDraws, EngineDies,
        EngineUnchanged, GuardLooks, GuardContent, GuardCondemns, GuardStops, GuardEnds,
        GuardUnchanged, Retire, KillSlot, watchVars, guardVars, channelVars, timeVars
  <2>2. Works' => Works
    BY <2>1 DEF Works, Running, Pids, Ended
  <2> QED BY <2>2 DEF WorkStep, Works
<1> QED BY <1>1, <1>2

\* The page service keeps the promises of PageService (KeepsContract): every
\* call returns once, with the page it asked for or a reason; rendering, once
\* off, is off for good; no second worker is started, none while rendering is
\* off, and none is left when the application has closed.
THEOREM ServiceKeepsContract == Spec => KeepsContract
<1>1. Init => Contract!Init
  <2> SUFFICES ASSUME Init PROVE Contract!Init
    OBVIOUS
  <2>1. \A r \in Requests : pc[r] = "idle"
    BY RenderAssumption DEF Init, Threads
  <2>2. Asks = [r \in Requests |-> Silence] /\ Told = [r \in Requests |-> Silence]
    BY <2>1 DEF Init, Asks, Told, NoAnswer
  <2>3. Life \in {"starting", "off"}
    BY DEF Init, Life, Launching, Threads
  <2>4. Works = FALSE
    BY DEF Init, Works, Pids
  <2> QED BY <2>2, <2>3, <2>4 DEF Contract!Init
<1>2. TypeInv /\ OwnInv /\ TypeInv' /\ OwnInv' /\ ExchangeInv /\ AnswersInv /\ ServedOn
        /\ [Next]_vars => [Contract!Next]_(Contract!vars)
  <2> SUFFICES ASSUME TypeInv, OwnInv, TypeInv', OwnInv', ExchangeInv, AnswersInv,
                      ServedOn, [Next]_vars
               PROVE  Contract!Next
    OBVIOUS
  <2>1. Contract!Live
    BY StepLife DEF LifeStep, Contract!Live
  <2>2. Contract!Work
    BY StepWork DEF WorkStep, Contract!Work
  <2>3. \/ \E r \in Requests : Contract!Call(r) \/ Contract!Return(r)
        \/ UNCHANGED <<Asks, Told>>
    BY StepAnswers, AskedAndTold
  <2> QED BY <2>1, <2>2, <2>3 DEF Contract!Next
<1>3. TypeInv /\ OwnInv /\ ServedOn /\ [Next]_vars => ServedOn'
  BY StepServedOn
<1> QED BY Answering, InitServedOn, <1>1, <1>2, <1>3, PTL
        DEF Spec, KeepsContract, Contract!Spec
=============================================================================
