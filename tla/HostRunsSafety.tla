--------------------------- MODULE HostRunsSafety ---------------------------
(* The runs of a module host, for any calls, modules and limits: types, a  *)
(* budget never passed and kept to the unit, slots that are counted, memory *)
(* that is paid for, and no module stopped before its time.                                 *)
EXTENDS HostRuns, FoldFacts

-----------------------------------------------------------------------------
(* Types, and the budget.                                                  *)

\* What a store that has not started or is gone holds is a job (Sandbox::new).
LEMMA FreshIsAJob ==
    ASSUME NEW m \in Modules
    PROVE  Fresh(m) \in Jobs
BY DEF Fresh, Jobs

\* A host has a slot at least (budget.rs, Shared::new).
LEMMA SlotsType == Slots \in Nat \ {0}
BY HostAssumption DEF Slots, HostAssumption

\* A run that stops gives back what it held (sandbox.rs, start).
LEMMA StopsType ==
    ASSUME TypeOK, NEW c \in Calls, NEW why \in Outcomes, Stops(c, why)
    PROVE  TypeOK'
<1>1. job[c] \in Jobs
  BY DEF TypeOK
<1>2. Fresh(job[c].module) \in Jobs
  BY <1>1, FreshIsAJob DEF Jobs
<1>3. pc' \in [Calls -> Places] /\ outcome' \in [Calls -> Outcomes] /\ runs' \in 0..Slots
  BY DEF TypeOK, Stops, GoTo, Places
<1>4. job' \in [Calls -> Jobs]
  BY <1>2 DEF TypeOK, Stops, Limits
<1>5. job[c].inStore \in Nat /\ job[c].answer \in Nat
  BY <1>1 DEF Jobs
<1>6. held' \in Int /\ held' <= Budget
  BY <1>5, HostAssumption DEF TypeOK, Stops, HostAssumption
<1>7. QED
  BY <1>3, <1>4, <1>6 DEF TypeOK

\* A run goes on with what the budget gave it (budget.rs, Held::grow).
LEMMA GoesType ==
    ASSUME TypeOK, NEW c \in Calls, NEW taken \in Nat, NEW after \in Jobs,
           held + taken <= Budget, Goes(c, taken, after)
    PROVE  TypeOK'
<1>1. job' \in [Calls -> Jobs]
  BY DEF TypeOK, Goes
<1>2. QED
  BY <1>1 DEF TypeOK, Goes

\* The module gets memory (wasi.rs, memory_growing).
LEMMA GrowMemoryType ==
    ASSUME TypeOK, NEW c \in Calls, NEW n \in 1..Chunk, GrowMemory(c, n)
    PROVE  TypeOK'
<1>1. job[c] \in Jobs /\ n \in Nat /\ held \in Int
  BY HostAssumption DEF TypeOK, HostAssumption
<1>2. job[c].memory \in Nat /\ job[c].inStore \in Nat
  BY <1>1 DEF Jobs
<1>3. CASE Stops(c, "memory") \/ Stops(c, "host memory")
  BY <1>3, StopsType DEF Outcomes
<1>4. CASE \E memory \in {job[c].memory + n, job[c].memory} :
              Covers(c, n) /\ Goes(c, n, [job[c] EXCEPT !.inStore = @ + n, !.memory = memory])
  <2>1. PICK memory \in {job[c].memory + n, job[c].memory} :
              Covers(c, n) /\ Goes(c, n, [job[c] EXCEPT !.inStore = @ + n, !.memory = memory])
    BY <1>4
  <2>2. memory \in Nat /\ job[c].inStore + n \in Nat
    BY <1>1, <1>2
  <2>3. [job[c] EXCEPT !.inStore = @ + n, !.memory = memory] \in Jobs
    BY <1>1, <2>2 DEF Jobs
  <2>4. QED
    BY <1>1, <2>1, <2>3, GoesType DEF Covers
<1>5. QED
  BY <1>3, <1>4 DEF GrowMemory

\* The module gets table elements (wasi.rs, table_growing).
LEMMA GrowTableType ==
    ASSUME TypeOK, NEW c \in Calls, NEW n \in 1..Chunk, GrowTable(c, n)
    PROVE  TypeOK'
<1>1. job[c] \in Jobs /\ n \in Nat /\ held \in Int
  BY HostAssumption DEF TypeOK, HostAssumption
<1>2. job[c].inStore + n \in Nat
  BY <1>1 DEF Jobs
<1>3. [job[c] EXCEPT !.inStore = @ + n] \in Jobs
  BY <1>1, <1>2 DEF Jobs
<1>4. CASE Stops(c, "memory") \/ Stops(c, "host memory")
  BY <1>4, StopsType DEF Outcomes
<1>5. CASE Covers(c, n) /\ Goes(c, n, [job[c] EXCEPT !.inStore = @ + n])
  BY <1>1, <1>3, <1>5, GoesType DEF Covers
<1>6. QED
  BY <1>4, <1>5 DEF GrowTable

\* The buffer holds what it must and stays within the limit of the answer:
\* it never shrinks (wasi.rs, write_stdout).
LEMMA CapacityBounds ==
    ASSUME TypeOK, NEW c \in Calls, NEW total \in Nat,
           total <= OutputLimit[job[c].module] + Overhead, total > job[c].capacity
    PROVE  /\ Capacity(c, total) \in Nat
           /\ total <= Capacity(c, total)
           /\ Capacity(c, total) <= OutputLimit[job[c].module] + Overhead
<1>1. job[c] \in Jobs
  BY DEF TypeOK
<1>2. job[c].module \in Modules /\ job[c].capacity \in Nat
  BY <1>1 DEF Jobs
<1>3. OutputLimit[job[c].module] \in Nat /\ Overhead \in Nat
  BY <1>2, HostAssumption DEF HostAssumption
<1>4. QED
  BY <1>2, <1>3 DEF Capacity, Smaller, Larger, Limits

\* The module writes its answer (wasi.rs, write_stdout).
LEMMA WriteType ==
    ASSUME TypeOK, NEW c \in Calls, NEW n \in 1..Chunk, Write(c, n)
    PROVE  TypeOK'
<1> DEFINE total == job[c].length + n
           capacity == Capacity(c, total)
           more == capacity - job[c].capacity
<1>1. job[c] \in Jobs /\ n \in Nat /\ held \in Int
  BY HostAssumption DEF TypeOK, HostAssumption
<1>2. total \in Nat /\ job[c].capacity \in Nat /\ job[c].answer \in Nat
  BY <1>1 DEF Jobs
<1>3. CASE Stops(c, "output") \/ Stops(c, "host memory")
  BY <1>3, StopsType DEF Outcomes
<1>4. CASE Goes(c, 0, [job[c] EXCEPT !.length = total])
  <2>1. [job[c] EXCEPT !.length = total] \in Jobs
    BY <1>1, <1>2 DEF Jobs
  <2>2. held + 0 <= Budget
    BY <1>1 DEF TypeOK
  <2>3. QED
    BY <1>4, <2>1, <2>2, GoesType
<1>5. CASE /\ total <= OutputLimit[Limits(c)] + Overhead
           /\ total > job[c].capacity /\ Covers(c, more)
           /\ Goes(c, more, [job[c] EXCEPT !.length = total, !.capacity = capacity, !.answer = @ + more])
  <2>1. capacity \in Nat /\ total <= capacity
    BY <1>2, <1>5, CapacityBounds DEF Limits
  <2> HIDE DEF total, capacity
  <2>2. more \in Nat /\ job[c].answer + more \in Nat
    BY <1>2, <1>5, <2>1
  <2>3. [job[c] EXCEPT !.length = total, !.capacity = capacity, !.answer = @ + more] \in Jobs
    BY <1>1, <1>2, <2>1, <2>2 DEF Jobs
  <2>4. held + more <= Budget
    BY <1>5 DEF Covers
  <2> HIDE DEF more
  <2>5. QED
    BY <1>5, <2>2, <2>3, <2>4, GoesType
<1>6. QED
  BY <1>3, <1>4, <1>5 DEF Write

\* The module ends, and its answer stays (wasi.rs, Sandbox::finish).
LEMMA ReturnsType ==
    ASSUME TypeOK, NEW c \in Calls, NEW exit \in BOOLEAN, Returns(c, exit)
    PROVE  TypeOK'
<1> DEFINE kept == [Fresh(Limits(c)) EXCEPT !.length = job[c].length,
                       !.capacity = job[c].capacity, !.answer = job[c].answer, !.exit = exit]
<1>1. job[c] \in Jobs
  BY DEF TypeOK
<1>2. Limits(c) \in Modules /\ job[c].length \in Nat /\ job[c].capacity \in Nat
        /\ job[c].answer \in Nat /\ job[c].inStore \in Nat
  BY <1>1 DEF Jobs, Limits
<1>3. kept \in Jobs
  BY <1>2 DEF Jobs, Fresh
<1> HIDE DEF kept
<1>4. job' \in [Calls -> Jobs]
  BY <1>3 DEF TypeOK, Returns, kept
<1>5. held' \in Int /\ held' <= Budget
  BY <1>2, HostAssumption DEF TypeOK, Returns, HostAssumption
<1>6. pc' \in [Calls -> Places] /\ outcome' \in [Calls -> Outcomes] /\ runs' \in 0..Slots
  BY DEF TypeOK, Returns, GoTo, Places
<1>7. QED
  BY <1>4, <1>5, <1>6 DEF TypeOK

\* The clock and the ticker only move times (sandbox.rs, execute).
LEMMA TimeType ==
    ASSUME TypeOK, TimePasses \/ Tick
    PROVE  TypeOK'
<1>1. \A c \in Calls : [job[c] EXCEPT !.elapsed = @ + 1] \in Jobs /\ [job[c] EXCEPT !.due = TRUE] \in Jobs
  <2> TAKE c \in Calls
  <2>1. job[c] \in Jobs
    BY DEF TypeOK
  <2>2. job[c].elapsed + 1 \in Nat
    BY <2>1 DEF Jobs
  <2>3. QED
    BY <2>1, <2>2 DEF Jobs
<1>2. job' \in [Calls -> Jobs]
  BY <1>1 DEF TypeOK, TimePasses, Tick
<1>3. QED
  BY <1>2 DEF TypeOK, TimePasses, Tick

\* The deadline is looked at (sandbox.rs, start).
LEMMA DeadlineType ==
    ASSUME TypeOK, NEW c \in Calls, DeadlineChecked(c)
    PROVE  TypeOK'
<1>1. job[c] \in Jobs
  BY DEF TypeOK
<1>2. CASE Stops(c, "timeout")
  BY <1>2, StopsType DEF Outcomes
<1>3. CASE Continues(c)
  <2>1. [job[c] EXCEPT !.due = FALSE] \in Jobs
    BY <1>1 DEF Jobs
  <2>2. held + 0 <= Budget
    BY DEF TypeOK
  <2>3. QED
    BY <1>3, <2>1, <2>2, GoesType DEF Continues
<1>4. QED
  BY <1>2, <1>3 DEF DeadlineChecked

\* The document is taken for re-validation, or refused (sandbox.rs, accept).
LEMMA AcceptType ==
    ASSUME TypeOK, NEW c \in Calls, NEW size \in Sizes, Accept(c, size)
    PROVE  TypeOK'
<1>1. size * Factor \in Nat
  BY HostAssumption DEF Sizes, HostAssumption
<1>2. job[c] \in Jobs
  BY DEF TypeOK
<1>3. CASE \E what \in Outcomes : Over(c, what)
  BY <1>3 DEF TypeOK, Over, GoTo, Places
<1>4. CASE /\ Covers(c, size * Factor)
           /\ held' = held + size * Factor
           /\ job' = [job EXCEPT ![c].revalidation = size * Factor]
           /\ GoTo(c, "revalidating")
           /\ UNCHANGED <<outcome, runs>>
  <2> DEFINE share == size * Factor
  <2> HIDE DEF share
  <2>0. share \in Nat
    BY <1>1 DEF share
  <2>1. [job[c] EXCEPT !.revalidation = share] \in Jobs
    BY <2>0, <1>2 DEF Jobs
  <2>2. job' \in [Calls -> Jobs]
    BY <2>1, <1>4 DEF TypeOK, share
  <2>3. held' \in Int /\ held' <= Budget
    BY <2>0, <1>4 DEF TypeOK, Covers, share
  <2>4. QED
    BY <2>2, <2>3, <1>4 DEF TypeOK, GoTo, Places
<1>5. QED
  BY <1>3, <1>4 DEF Accept, Outcomes

\* What the call does before and after, without the module.
LEMMA HostStepType ==
    ASSUME TypeOK, NEW c \in Calls, HostStep(c)
    PROVE  TypeOK'
<1>0. job[c] \in Jobs
  BY DEF TypeOK
<1>1. CASE Enter(c)
  <2>1. runs' \in 0..Slots
    BY <1>1, SlotsType DEF TypeOK, Enter, Full
  <2>2. QED
    BY <2>1, <1>1 DEF TypeOK, Enter, GoTo, Places
<1>2. CASE Sleep(c) \/ Notify(c)
  BY <1>2 DEF TypeOK, Sleep, Notify, GoTo, Places
<1>3. CASE Start(c)
  BY <1>3 DEF TypeOK, Start, GoTo, Places, Outcomes
<1>4. CASE Decoded(c)
  BY <1>4 DEF TypeOK, Decoded, Over, GoTo, Places, Outcomes
<1>5. CASE \E size \in Sizes : Accept(c, size)
  BY <1>5, AcceptType
<1>6. CASE Revalidated(c)
  <2>1. job[c].revalidation \in Nat /\ [job[c] EXCEPT !.revalidation = 0] \in Jobs
    BY <1>0 DEF Jobs
  <2>2. job' \in [Calls -> Jobs]
    BY <2>1, <1>6 DEF TypeOK, Revalidated
  <2>3. held' \in Int /\ held' <= Budget
    BY <2>1, <1>6, HostAssumption DEF TypeOK, Revalidated, HostAssumption
  <2>4. QED
    BY <2>2, <2>3, <1>6 DEF TypeOK, Revalidated, GoTo, Places, Outcomes
<1>7. CASE DropAnswer(c)
  <2>1. job[c].answer \in Nat /\ Fresh(Limits(c)) \in Jobs
    BY <1>0, FreshIsAJob DEF Jobs, Limits
  <2>2. job' \in [Calls -> Jobs]
    BY <2>1, <1>7 DEF TypeOK, DropAnswer
  <2>3. held' \in Int /\ held' <= Budget
    BY <2>1, <1>7, HostAssumption DEF TypeOK, DropAnswer, GivesBackAnswer, HostAssumption
  <2>4. QED
    BY <2>2, <2>3, <1>7 DEF TypeOK, DropAnswer, GoTo, Places
<1>8. CASE FreeSlot(c)
  <2>1. runs' \in 0..Slots
    BY <1>8, SlotsType DEF TypeOK, FreeSlot
  <2>2. QED
    BY <2>1, <1>8 DEF TypeOK, FreeSlot, GoTo, Places
<1>9. QED
  BY <1>1, <1>2, <1>3, <1>4, <1>5, <1>6, <1>7, <1>8 DEF HostStep

\* Every variable keeps its type and the memory the modules of a host hold
\* together never passes its budget: budget.rs, « every growth takes its
\* bytes from the budget first ».
THEOREM TypeCorrect == Spec => []TypeOK
<1>1. Init => TypeOK
  <2> SUFFICES ASSUME Init PROVE TypeOK
    OBVIOUS
  <2>1. job \in [Calls -> Jobs]
    BY FreshIsAJob DEF Init
  <2>2. QED
    BY <2>1, HostAssumption DEF Init, TypeOK, Places, Outcomes, Slots, HostAssumption
<1>2. TypeOK /\ [Next]_vars => TypeOK'
  <2> SUFFICES ASSUME TypeOK, [Next]_vars PROVE TypeOK'
    OBVIOUS
  <2>1. CASE TimePasses \/ Tick
    BY <2>1, TimeType
  <2>2. ASSUME NEW c \in Calls, NEW documents \in BOOLEAN, Call(c, documents) PROVE TypeOK'
    BY <2>2 DEF TypeOK, Call, GoTo, Places, Outcomes
  <2>3. ASSUME NEW c \in Calls, WakesForNothing(c) PROVE TypeOK'
    BY <2>3 DEF TypeOK, WakesForNothing, GoTo, Places
  <2>4. ASSUME NEW c \in Calls, HostStep(c) PROVE TypeOK'
    BY <2>4, HostStepType
  <2>5. ASSUME NEW c \in Calls, ModuleStep(c) PROVE TypeOK'
    <3>1. CASE \E n \in 1..Chunk : GrowMemory(c, n) \/ GrowTable(c, n) \/ Write(c, n)
      BY <3>1, <2>5, GrowMemoryType, GrowTableType, WriteType
    <3>2. CASE Traps(c)
      BY <3>2, <2>5, StopsType DEF Traps, Outcomes
    <3>3. CASE \E exit \in BOOLEAN : Returns(c, exit)
      BY <3>3, <2>5, ReturnsType
    <3>4. QED
      BY <3>1, <3>2, <3>3, <2>5 DEF ModuleStep
  <2>6. ASSUME NEW c \in Calls, DeadlineChecked(c) PROVE TypeOK'
    BY <2>6, DeadlineType
  <2>7. CASE UNCHANGED vars
    BY <2>7 DEF TypeOK, vars
  <2>8. QED
    BY <2>1, <2>2, <2>3, <2>4, <2>5, <2>6, <2>7 DEF Next
<1>3. QED
  BY <1>1, <1>2, PTL DEF Spec

\* For any number of calls, the memory the modules hold together stays
\* within the budget of their host (budget.rs, Held::grow).
THEOREM BudgetKept == Spec => []WithinBudget
<1>1. TypeOK => WithinBudget
  BY DEF TypeOK, WithinBudget
<1>2. QED
  BY <1>1, TypeCorrect, PTL

-----------------------------------------------------------------------------
(* Slots, shares and deadlines.                                            *)

\* Places where a call has a slot (budget.rs, Slot).
LEMMA InsideIsFinite ==
    IsFiniteSet(Inside)
<1>1. Inside \subseteq Calls
  BY DEF Inside
<1>2. QED
  BY <1>1, FS_Subset, HostAssumption DEF HostAssumption

\* What a module does leaves its call where it has its slot.
LEMMA ModuleKeepsSlot ==
    ASSUME TypeOK, NEW c \in Calls, ModuleStep(c) \/ DeadlineChecked(c)
    PROVE  Inside' = Inside /\ runs' = runs
<1>1. pc[c] = "running"
  BY DEF ModuleStep, GrowMemory, GrowTable, Write, Traps, Returns, DeadlineChecked, Running
<1>2. ASSUME NEW why, Stops(c, why) PROVE Inside' = Inside /\ runs' = runs
  BY <1>1, <1>2 DEF TypeOK, Stops, GoTo, Inside
<1>3. ASSUME NEW n, NEW after, Goes(c, n, after) PROVE Inside' = Inside /\ runs' = runs
  BY <1>3 DEF Goes, Inside
<1>4. ASSUME NEW exit \in BOOLEAN, Returns(c, exit) PROVE Inside' = Inside /\ runs' = runs
  BY <1>1, <1>4 DEF TypeOK, Returns, GoTo, Inside
<1>5. CASE DeadlineChecked(c)
  BY <1>2, <1>3, <1>5 DEF DeadlineChecked, Continues
<1>6. ASSUME NEW n \in 1..Chunk, GrowMemory(c, n) \/ GrowTable(c, n) \/ Write(c, n)
      PROVE  Inside' = Inside /\ runs' = runs
  <2>1. CASE GrowMemory(c, n)
    BY <1>2, <1>3, <2>1 DEF GrowMemory
  <2>2. CASE GrowTable(c, n)
    BY <1>2, <1>3, <2>2 DEF GrowTable
  <2>3. CASE Write(c, n)
    BY <1>2, <1>3, <2>3 DEF Write
  <2>4. QED
    BY <1>6, <2>1, <2>2, <2>3
<1>7. QED
  BY <1>2, <1>4, <1>5, <1>6 DEF ModuleStep, Traps

\* A call takes a slot once and gives it back once (budget.rs, enter, drop).
LEMMA HostStepSlots ==
    ASSUME TypeOK, NEW c \in Calls, HostStep(c), runs = Cardinality(Inside)
    PROVE  runs' = Cardinality(Inside')
<1>1. CASE Enter(c)
  <2>1. c \notin Inside /\ Inside' = Inside \cup {c}
    BY <1>1 DEF TypeOK, Enter, GoTo, Inside
  <2>2. QED
    BY <1>1, <2>1, InsideIsFinite, FS_AddElement DEF Enter
<1>2. CASE FreeSlot(c)
  <2>1. c \in Inside /\ Inside' = Inside \ {c}
    BY <1>2 DEF TypeOK, FreeSlot, GoTo, Inside
  <2>2. Cardinality(Inside') = Cardinality(Inside) - 1 /\ Cardinality(Inside) \in Nat
    BY <2>1, InsideIsFinite, FS_RemoveElement, FS_CardinalityType
  <2>3. Cardinality(Inside) # 0
    BY <2>1, InsideIsFinite, FS_EmptySet
  <2>4. QED
    BY <1>2, <2>2, <2>3 DEF FreeSlot
<1>3. CASE Sleep(c) \/ Notify(c)
  BY <1>3 DEF TypeOK, Sleep, Notify, GoTo, Inside
<1>4. CASE Start(c) \/ Revalidated(c) \/ DropAnswer(c)
  BY <1>4 DEF TypeOK, Start, Revalidated, DropAnswer, GoTo, Inside
<1>5. ASSUME pc[c] = "answering", NEW what, Over(c, what) PROVE runs' = Cardinality(Inside')
  BY <1>5 DEF TypeOK, Over, GoTo, Inside
<1>6. CASE Decoded(c)
  BY <1>5, <1>6 DEF Decoded
<1>7. ASSUME NEW size \in Sizes, Accept(c, size) PROVE runs' = Cardinality(Inside')
  <2>1. CASE \E what : Over(c, what)
    BY <1>5, <1>7, <2>1 DEF Accept
  <2>2. CASE GoTo(c, "revalidating") /\ UNCHANGED <<outcome, runs>>
    BY <1>7, <2>2 DEF TypeOK, Accept, GoTo, Inside
  <2>3. QED
    BY <1>7, <2>1, <2>2 DEF Accept
<1>8. QED
  BY <1>1, <1>2, <1>3, <1>4, <1>6, <1>7 DEF HostStep

\* The number of runs the host keeps is that of the calls that have a slot,
\* never above its limit: budget.rs, « at most `max_concurrent_runs` ».
THEOREM SlotsCounted == Spec => []SlotsAreCounted
<1> DEFINE Counted == runs = Cardinality(Inside)
<1>1. Init => Counted
  <2>1. Init => Inside = {}
    BY DEF Init, Inside
  <2>2. QED
    BY <2>1, FS_EmptySet DEF Init
<1>2. TypeOK /\ Counted /\ [Next]_vars => Counted'
  <2> SUFFICES ASSUME TypeOK, Counted, [Next]_vars PROVE Counted'
    OBVIOUS
  <2>1. CASE TimePasses \/ Tick \/ UNCHANGED vars
    BY <2>1 DEF TimePasses, Tick, vars, Inside
  <2>2. ASSUME NEW c \in Calls, NEW documents \in BOOLEAN, Call(c, documents) PROVE Counted'
    BY <2>2 DEF TypeOK, Call, GoTo, Inside
  <2>3. ASSUME NEW c \in Calls, WakesForNothing(c) PROVE Counted'
    BY <2>3 DEF TypeOK, WakesForNothing, GoTo, Inside
  <2>4. ASSUME NEW c \in Calls, HostStep(c) PROVE Counted'
    BY <2>4, HostStepSlots
  <2>5. ASSUME NEW c \in Calls, ModuleStep(c) \/ DeadlineChecked(c) PROVE Counted'
    BY <2>5, ModuleKeepsSlot
  <2>6. QED
    BY <2>1, <2>2, <2>3, <2>4, <2>5 DEF Next
<1>3. TypeOK /\ Counted => SlotsAreCounted
  BY SlotsType DEF TypeOK, SlotsAreCounted
<1>4. QED
  BY <1>1, <1>2, <1>3, TypeCorrect, PTL DEF Spec
-----------------------------------------------------------------------------
\* Only the deadline of a run ends it for its time.
LEMMA StopsOnlyItself ==
    ASSUME TypeOK, NEW c \in Calls, NEW d \in Calls, NEW why, Stops(c, why),
           outcome[d] = "none", outcome'[d] = "timeout"
    PROVE  d = c /\ why = "timeout"
BY DEF TypeOK, Stops

\* A module that was stopped for its time ran that long itself, whatever
\* the ticks of the other runs: sandbox.rs, start.
THEOREM NeverStoppedEarly == Spec => NeverEarly
<1> DEFINE Early(d) == /\ outcome[d] = "none" /\ outcome'[d] = "timeout"
                       /\ ~(job[d].elapsed >= Timeout[job[d].module])
<1>1. TypeOK /\ [Next]_vars =>
        [\A c \in Calls : outcome[c] = "none" /\ outcome'[c] = "timeout"
                              => job[c].elapsed >= Timeout[job[c].module]]_vars
  <2> SUFFICES ASSUME TypeOK, Next, NEW d \in Calls, Early(d) PROVE FALSE
    OBVIOUS
  <2>1. ASSUME NEW c \in Calls, HostStep(c) PROVE FALSE
    <3>1. outcome' = outcome \/ \E what \in Outcomes \ {"timeout"} : outcome' = [outcome EXCEPT ![c] = what]
      <4>1. CASE Enter(c) \/ Sleep(c) \/ DropAnswer(c) \/ FreeSlot(c) \/ Notify(c)
        BY <4>1 DEF Enter, Sleep, DropAnswer, FreeSlot, Notify
      <4>2. CASE Start(c) \/ Revalidated(c)
        BY <4>2 DEF Start, Revalidated, Outcomes
      <4>3. CASE Decoded(c)
        BY <4>3 DEF Decoded, Over, Outcomes
      <4>4. CASE \E size \in Sizes : Accept(c, size)
        BY <4>4 DEF Accept, Over, Outcomes
      <4>5. QED
        BY <2>1, <4>1, <4>2, <4>3, <4>4 DEF HostStep
    <3>2. QED
      BY <3>1 DEF TypeOK
  <2>2. ASSUME NEW c \in Calls, ModuleStep(c) PROVE FALSE
    <3>a. ASSUME NEW taken, NEW after, Goes(c, taken, after) PROVE FALSE
      BY <3>a DEF Goes
    <3>b. ASSUME NEW why, why # "timeout", Stops(c, why) PROVE FALSE
      BY <3>b, StopsOnlyItself
    <3>1. ASSUME NEW n \in 1..Chunk, GrowMemory(c, n) PROVE FALSE
      <4>1. CASE Stops(c, "memory") \/ Stops(c, "host memory")
        BY <3>b, <4>1
      <4>2. CASE \E taken, after : Goes(c, taken, after)
        BY <3>a, <4>2
      <4>3. QED
        BY <3>1, <4>1, <4>2 DEF GrowMemory
    <3>2. ASSUME NEW n \in 1..Chunk, GrowTable(c, n) PROVE FALSE
      <4>1. CASE Stops(c, "memory") \/ Stops(c, "host memory")
        BY <3>b, <4>1
      <4>2. CASE \E taken, after : Goes(c, taken, after)
        BY <3>a, <4>2
      <4>3. QED
        BY <3>2, <4>1, <4>2 DEF GrowTable
    <3>3. ASSUME NEW n \in 1..Chunk, Write(c, n) PROVE FALSE
      <4>1. CASE Stops(c, "output") \/ Stops(c, "host memory")
        BY <3>b, <4>1
      <4>2. CASE \E taken, after : Goes(c, taken, after)
        BY <3>a, <4>2
      <4>3. QED
        BY <3>3, <4>1, <4>2 DEF Write
    <3>4. ASSUME Traps(c) PROVE FALSE
      BY <3>b, <3>4 DEF Traps
    <3>5. ASSUME NEW exit \in BOOLEAN, Returns(c, exit) PROVE FALSE
      BY <3>5 DEF Returns
    <3>6. QED
      BY <2>2, <3>1, <3>2, <3>3, <3>4, <3>5 DEF ModuleStep
  <2>3. ASSUME NEW c \in Calls, DeadlineChecked(c) PROVE FALSE
    <3>1. CASE Expired(c) /\ Stops(c, "timeout")
      <4>1. d = c
        BY <3>1, StopsOnlyItself
      <4>2. QED
        BY <3>1, <4>1 DEF Expired, Limits
    <3>2. CASE Continues(c)
      BY <3>2 DEF Continues, Goes
    <3>3. QED
      BY <2>3, <3>1, <3>2 DEF DeadlineChecked
  <2>4. ASSUME NEW c \in Calls, NEW documents \in BOOLEAN, Call(c, documents) PROVE FALSE
    BY <2>4 DEF TypeOK, Call
  <2>5. ASSUME NEW c \in Calls, WakesForNothing(c) PROVE FALSE
    BY <2>5 DEF WakesForNothing
  <2>6. CASE TimePasses \/ Tick
    BY <2>6 DEF TimePasses, Tick
  <2>7. QED
    BY <2>1, <2>2, <2>3, <2>4, <2>5, <2>6 DEF Next
<1>2. QED
  BY <1>1, TypeCorrect, PTL DEF Spec, NeverEarly
-----------------------------------------------------------------------------
(* What PaidFor says of one job.                                           *)
Paid(j) ==
    /\ j.memory <= j.inStore /\ j.memory <= MemoryLimit[j.module]
    /\ j.answer = j.capacity
    /\ j.length <= j.capacity
    /\ j.capacity <= OutputLimit[j.module] + Overhead

\* A store that is gone holds nothing (Sandbox::new).
LEMMA FreshIsPaid ==
    ASSUME NEW m \in Modules
    PROVE  Paid(Fresh(m))
<1>1. MemoryLimit[m] \in Nat /\ OutputLimit[m] \in Nat /\ Overhead \in Nat
  BY HostAssumption DEF HostAssumption
<1>2. QED
  BY <1>1 DEF Paid, Fresh

\* It is enough that the job that changes stays paid for.
LEMMA OthersStayPaid ==
    ASSUME TypeOK, PaidFor, NEW c \in Calls, NEW after, Paid(after),
           job' = [job EXCEPT ![c] = after]
    PROVE  PaidFor'
<1>1. \A d \in Calls : Paid(job[d])
  BY DEF PaidFor, Paid
<1>2. \A d \in Calls : Paid(job'[d])
  BY <1>1 DEF TypeOK
<1>3. QED
  BY <1>2 DEF PaidFor, Paid

\* A module that is stopped gives back its memory and its answer.
LEMMA StopsPaid ==
    ASSUME TypeOK, PaidFor, NEW c \in Calls, NEW why, Stops(c, why)
    PROVE  PaidFor'
<1>1. job[c].module \in Modules
  BY DEF TypeOK, Jobs
<1>2. job' = [job EXCEPT ![c] = Fresh(job[c].module)]
  BY DEF Stops, Limits
<1>3. QED
  BY <1>1, <1>2, FreshIsPaid, OthersStayPaid

\* The growths of memory and of tables are paid for (wasi.rs).
LEMMA GrowPaid ==
    ASSUME TypeOK, PaidFor, NEW c \in Calls, NEW n \in 1..Chunk, GrowMemory(c, n) \/ GrowTable(c, n)
    PROVE  PaidFor'
<1>1. CASE \E why : Stops(c, why)
  BY <1>1, StopsPaid
<1>2. job[c] \in Jobs /\ Paid(job[c]) /\ n \in Nat
  BY HostAssumption DEF TypeOK, PaidFor, Paid, HostAssumption
<1>3. job[c].memory \in Nat /\ job[c].inStore \in Nat /\ job[c].capacity \in Nat /\ MemoryLimit[job[c].module] \in Nat
  BY <1>2, HostAssumption DEF Jobs, HostAssumption
<1>4. ASSUME NEW memory \in {job[c].memory + n, job[c].memory}, memory <= MemoryLimit[job[c].module],
             Goes(c, n, [job[c] EXCEPT !.inStore = @ + n, !.memory = memory])
      PROVE  PaidFor'
  <2>1. Paid([job[c] EXCEPT !.inStore = @ + n, !.memory = memory])
    BY <1>2, <1>3, <1>4 DEF Paid, Jobs
  <2>2. QED
    BY <1>4, <2>1, OthersStayPaid DEF Goes
<1>5. CASE Goes(c, n, [job[c] EXCEPT !.inStore = @ + n])
  <2>1. Paid([job[c] EXCEPT !.inStore = @ + n])
    BY <1>2, <1>3 DEF Paid, Jobs
  <2>2. QED
    BY <1>5, <2>1, OthersStayPaid DEF Goes
<1>6. CASE GrowMemory(c, n)
  <2>1. CASE \E memory \in {job[c].memory + n, job[c].memory} :
               /\ job[c].memory + n <= MemoryLimit[job[c].module]
               /\ Goes(c, n, [job[c] EXCEPT !.inStore = @ + n, !.memory = memory])
    <3>1. PICK memory \in {job[c].memory + n, job[c].memory} :
               /\ job[c].memory + n <= MemoryLimit[job[c].module]
               /\ Goes(c, n, [job[c] EXCEPT !.inStore = @ + n, !.memory = memory])
      BY <2>1
    <3>2. memory <= MemoryLimit[job[c].module]
      BY <3>1, <1>2, <1>3
    <3>3. QED
      BY <1>4, <3>1, <3>2
  <2>2. QED
    BY <1>1, <1>6, <2>1 DEF GrowMemory, Limits
<1>7. QED
  BY <1>1, <1>5, <1>6 DEF GrowTable

\* The buffer of the answer is paid for, and stays within its limit
\* (wasi.rs, write_stdout).
LEMMA WritePaid ==
    ASSUME TypeOK, PaidFor, NEW c \in Calls, NEW n \in 1..Chunk, Write(c, n)
    PROVE  PaidFor'
<1> DEFINE total == job[c].length + n
           capacity == Capacity(c, total)
           more == capacity - job[c].capacity
<1>1. CASE \E why : Stops(c, why)
  BY <1>1, StopsPaid
<1>2. job[c] \in Jobs /\ Paid(job[c]) /\ n \in Nat
  BY HostAssumption DEF TypeOK, PaidFor, Paid, HostAssumption
<1>3. total \in Nat /\ job[c].capacity \in Nat /\ job[c].answer \in Nat
  BY <1>2 DEF Jobs
<1>4. CASE total <= job[c].capacity /\ Goes(c, 0, [job[c] EXCEPT !.length = total])
  <2> HIDE DEF total
  <2>1. Paid([job[c] EXCEPT !.length = total])
    BY <1>2, <1>3, <1>4 DEF Paid, Jobs
  <2>2. QED
    BY <1>4, <2>1, OthersStayPaid DEF Goes
<1>5. CASE /\ total <= OutputLimit[Limits(c)] + Overhead
           /\ total > job[c].capacity
           /\ Goes(c, more, [job[c] EXCEPT !.length = total, !.capacity = capacity, !.answer = @ + more])
  <2>1. capacity \in Nat /\ total <= capacity /\ capacity <= OutputLimit[job[c].module] + Overhead
    BY <1>3, <1>5, CapacityBounds DEF Limits
  <2> HIDE DEF total, capacity
  <2>2. job[c].answer + more = capacity
    BY <1>2, <1>3, <2>1 DEF Paid
  <2>3. Paid([job[c] EXCEPT !.length = total, !.capacity = capacity, !.answer = @ + more])
    BY <1>2, <2>1, <2>2 DEF Paid, Jobs
  <2> HIDE DEF more
  <2>4. QED
    BY <1>5, <2>3, OthersStayPaid DEF Goes
<1>6. QED
  BY <1>1, <1>4, <1>5 DEF Write

\* The call itself changes what it holds only to give it back or to
\* re-validate (sandbox.rs, run, accept).
LEMMA HostStepPaid ==
    ASSUME TypeOK, PaidFor, NEW c \in Calls, HostStep(c)
    PROVE  PaidFor'
<1>1. CASE job' = job
  BY <1>1 DEF PaidFor
<1>2. job[c] \in Jobs /\ Paid(job[c])
  BY DEF TypeOK, PaidFor, Paid
<1>3. ASSUME NEW share, job' = [job EXCEPT ![c].revalidation = share] PROVE PaidFor'
  <2>1. Paid([job[c] EXCEPT !.revalidation = share])
    BY <1>2 DEF Paid, Jobs
  <2>2. job' = [job EXCEPT ![c] = [job[c] EXCEPT !.revalidation = share]]
    BY <1>3
  <2>3. QED
    BY <2>1, <2>2, OthersStayPaid
<1>4. CASE DropAnswer(c)
  <2>1. job[c].module \in Modules
    BY <1>2 DEF Jobs
  <2>2. job' = [job EXCEPT ![c] = Fresh(job[c].module)]
    BY <1>4 DEF DropAnswer, Limits
  <2>3. QED
    BY <2>1, <2>2, FreshIsPaid, OthersStayPaid
<1>5. CASE \E size \in Sizes : Accept(c, size)
  BY <1>1, <1>3, <1>5 DEF Accept, Over
<1>6. CASE Revalidated(c)
  BY <1>3, <1>6 DEF Revalidated
<1>7. CASE Enter(c) \/ Sleep(c) \/ Start(c) \/ Decoded(c) \/ FreeSlot(c) \/ Notify(c)
  BY <1>1, <1>7 DEF Enter, Sleep, Start, Decoded, Over, FreeSlot, Notify
<1>8. QED
  BY <1>4, <1>5, <1>6, <1>7 DEF HostStep

\* What a module holds was asked of the budget and its answer stays within
\* its limit: wasi.rs, memory_growing, write_stdout.
THEOREM AlwaysPaidFor == Spec => []PaidFor
<1>1. Init => PaidFor
  <2> SUFFICES ASSUME Init, NEW c \in Calls PROVE Paid(job[c])
    BY DEF PaidFor, Paid
  <2>1. \E m \in Modules : job[c] = Fresh(m)
    BY DEF Init
  <2>2. QED
    BY <2>1, FreshIsPaid
<1>2. TypeOK /\ PaidFor /\ [Next]_vars => PaidFor'
  <2> SUFFICES ASSUME TypeOK, PaidFor, [Next]_vars PROVE PaidFor'
    OBVIOUS
  <2>1. CASE TimePasses \/ Tick
    <3>1. \A c \in Calls : job[c] \in Jobs /\ Paid(job[c])
      BY DEF TypeOK, PaidFor, Paid
    <3>2. ASSUME NEW c \in Calls PROVE Paid([job[c] EXCEPT !.elapsed = @ + 1]) /\ Paid([job[c] EXCEPT !.due = TRUE])
      BY <3>1 DEF Paid, Jobs
    <3>3. \A c \in Calls : Paid(job'[c])
      BY <2>1, <3>1, <3>2 DEF TimePasses, Tick
    <3>4. QED
      BY <3>3 DEF PaidFor, Paid
  <2>2. ASSUME NEW c \in Calls, NEW documents \in BOOLEAN, Call(c, documents) \/ WakesForNothing(c) PROVE PaidFor'
    BY <2>2 DEF Call, WakesForNothing, PaidFor
  <2>3. ASSUME NEW c \in Calls, HostStep(c) PROVE PaidFor'
    BY <2>3, HostStepPaid
  <2>4. ASSUME NEW c \in Calls, ModuleStep(c) PROVE PaidFor'
    <3>1. ASSUME NEW n \in 1..Chunk, GrowMemory(c, n) \/ GrowTable(c, n) \/ Write(c, n) PROVE PaidFor'
      BY <3>1, GrowPaid, WritePaid
    <3>2. CASE Traps(c)
      BY <3>2, StopsPaid DEF Traps
    <3>3. ASSUME NEW exit \in BOOLEAN, Returns(c, exit) PROVE PaidFor'
      <4> DEFINE kept == [Fresh(Limits(c)) EXCEPT !.length = job[c].length,
                            !.capacity = job[c].capacity, !.answer = job[c].answer, !.exit = exit]
      <4>1. job[c] \in Jobs /\ Paid(job[c]) /\ Paid(Fresh(Limits(c)))
        BY FreshIsPaid DEF TypeOK, PaidFor, Paid, Jobs, Limits
      <4>2. Paid(kept)
        BY <4>1 DEF Paid, Fresh, Limits
      <4>3. job' = [job EXCEPT ![c] = kept]
        BY <3>3 DEF Returns
      <4> HIDE DEF kept
      <4>4. QED
        BY <4>2, <4>3, OthersStayPaid
    <3>4. QED
      BY <2>4, <3>1, <3>2, <3>3 DEF ModuleStep
  <2>5. ASSUME NEW c \in Calls, DeadlineChecked(c) PROVE PaidFor'
    <3>1. CASE Stops(c, "timeout")
      BY <3>1, StopsPaid
    <3>2. CASE Continues(c)
      <4>1. Paid([job[c] EXCEPT !.due = FALSE])
        BY DEF TypeOK, Jobs, PaidFor, Paid
      <4>2. QED
        BY <3>2, <4>1, OthersStayPaid DEF Continues, Goes
    <3>3. QED
      BY <2>5, <3>1, <3>2 DEF DeadlineChecked
  <2>6. CASE UNCHANGED vars
    BY <2>6 DEF vars, PaidFor
  <2>7. QED
    BY <2>1, <2>2, <2>3, <2>4, <2>5, <2>6 DEF Next
<1>3. QED
  BY <1>1, <1>2, TypeCorrect, PTL DEF Spec
-----------------------------------------------------------------------------
(* The budget, to the unit.                                                *)

\* A store holds memory while its module runs, and re-validation only while
\* it is under way: what a call gives back at its end is then all it holds
\* (sandbox.rs, run).
HoldsWhileItRuns ==
    \A c \in Calls :
        /\ pc[c] # "running" => job[c].inStore = 0
        /\ pc[c] # "revalidating" => job[c].revalidation = 0

\* What the sum of the shares becomes when one call's job does.
LEMMA OneShareChanges ==
    ASSUME TypeOK, NEW c \in Calls, NEW after \in Jobs, job' = [job EXCEPT ![c] = after]
    PROVE  SumOf(Shares') = SumOf(Shares) - Shares[c] + (after.inStore + after.answer + after.revalidation)
<1>1. \A d \in Calls : job[d] \in Jobs
  BY DEF TypeOK
<1>2. \A d \in Calls : job[d].inStore \in Nat /\ job[d].answer \in Nat /\ job[d].revalidation \in Nat
  BY <1>1 DEF Jobs
<1>3. after.inStore \in Nat /\ after.answer \in Nat /\ after.revalidation \in Nat
  BY DEF Jobs
<1>4. \A d \in Calls : job'[d] = IF d = c THEN after ELSE job[d]
  BY DEF TypeOK
<1>5. Shares \in [Calls -> Int]
  BY <1>2 DEF Shares
<1>6. Shares' = [d \in Calls |-> job'[d].inStore + job'[d].answer + job'[d].revalidation]
  BY DEF Shares
<1>7. Shares' \in [Calls -> Int]
  BY <1>2, <1>3, <1>4, <1>6
<1>8. Shares'[c] = after.inStore + after.answer + after.revalidation
  BY <1>4, <1>6
<1>9. \A d \in Calls \ {c} : Shares'[d] = Shares[d]
  BY <1>4, <1>6 DEF Shares
<1>10. SumOf(Shares') = SumOf(Shares) - Shares[c] + Shares'[c]
  BY <1>5, <1>7, <1>9, SumChanges, HostAssumption DEF HostAssumption
<1>11. QED
  BY <1>8, <1>10

\* It is enough that the job that changes is one to which what is held
\* moves by as much.
LEMMA OneShareCounted ==
    ASSUME TypeOK, held = SumOf(Shares), NEW c \in Calls, NEW after \in Jobs,
           job' = [job EXCEPT ![c] = after],
           held' = held + ((after.inStore + after.answer + after.revalidation)
                           - (job[c].inStore + job[c].answer + job[c].revalidation))
    PROVE  held' = SumOf(Shares')
<1>1. job[c] \in Jobs
  BY DEF TypeOK
<1>2. /\ job[c].inStore \in Nat /\ job[c].answer \in Nat /\ job[c].revalidation \in Nat
      /\ after.inStore \in Nat /\ after.answer \in Nat /\ after.revalidation \in Nat
      /\ held \in Int
  BY <1>1 DEF Jobs, TypeOK
<1>3. Shares[c] = job[c].inStore + job[c].answer + job[c].revalidation
  BY DEF Shares
<1>4. SumOf(Shares') = held - Shares[c] + (after.inStore + after.answer + after.revalidation)
  BY OneShareChanges
<1>5. QED
  BY <1>2, <1>3, <1>4

\* A job whose shares are as they were leaves the sum.
LEMMA SameShares ==
    ASSUME held = SumOf(Shares), held' = held,
           \A c \in Calls : /\ job'[c].inStore = job[c].inStore
                            /\ job'[c].answer = job[c].answer
                            /\ job'[c].revalidation = job[c].revalidation
    PROVE  held' = SumOf(Shares')
<1>1. Shares' = Shares
  BY DEF Shares
<1>2. QED
  BY <1>1

\* A run that is stopped gives back all it holds: it does not re-validate
\* (sandbox.rs, start).
LEMMA StopsCounted ==
    ASSUME TypeOK, held = SumOf(Shares), HoldsWhileItRuns,
           NEW c \in Calls, NEW why, Running(c), Stops(c, why)
    PROVE  held' = SumOf(Shares') /\ HoldsWhileItRuns'
<1>1. job[c] \in Jobs /\ job[c].module \in Modules
  BY DEF TypeOK, Jobs
<1>2. Fresh(job[c].module) \in Jobs /\ job' = [job EXCEPT ![c] = Fresh(job[c].module)]
  BY <1>1, FreshIsAJob DEF Stops, Limits
<1>3. job[c].revalidation = 0 /\ job[c].inStore \in Nat /\ job[c].answer \in Nat /\ held \in Int
  BY <1>1 DEF HoldsWhileItRuns, Running, Jobs, TypeOK
<1>4. held' = held + ((Fresh(job[c].module).inStore + Fresh(job[c].module).answer + Fresh(job[c].module).revalidation)
                      - (job[c].inStore + job[c].answer + job[c].revalidation))
  BY <1>3 DEF Stops, Fresh
<1>5. held' = SumOf(Shares')
  BY <1>2, <1>4, OneShareCounted
<1>6. HoldsWhileItRuns'
  BY <1>2 DEF HoldsWhileItRuns, Stops, GoTo, Fresh, TypeOK
<1>7. QED
  BY <1>5, <1>6

\* A run that goes on holds what it took more (budget.rs, Held::grow).
LEMMA GoesCounted ==
    ASSUME TypeOK, held = SumOf(Shares), HoldsWhileItRuns,
           NEW c \in Calls, NEW taken \in Nat, NEW after \in Jobs, Running(c), Goes(c, taken, after),
           after.inStore + after.answer = job[c].inStore + job[c].answer + taken,
           after.revalidation = job[c].revalidation
    PROVE  held' = SumOf(Shares') /\ HoldsWhileItRuns'
<1>1. job[c] \in Jobs
  BY DEF TypeOK
<1>2. /\ job[c].inStore \in Nat /\ job[c].answer \in Nat /\ job[c].revalidation \in Nat
      /\ after.inStore \in Nat /\ after.answer \in Nat /\ held \in Int
  BY <1>1 DEF Jobs, TypeOK
<1>3. held' = SumOf(Shares')
  <2>1. held' = held + ((after.inStore + after.answer + after.revalidation)
                        - (job[c].inStore + job[c].answer + job[c].revalidation))
    BY <1>2 DEF Goes
  <2>2. QED
    BY <2>1, OneShareCounted DEF Goes
<1>4. HoldsWhileItRuns'
  BY DEF HoldsWhileItRuns, Goes, Running, TypeOK
<1>5. QED
  BY <1>3, <1>4

\* What a module does moves what is held by what its job holds more, or less
\* (wasi.rs, memory_growing, table_growing, write_stdout, finish).
LEMMA ModuleCounted ==
    ASSUME TypeOK, held = SumOf(Shares), HoldsWhileItRuns, PaidFor,
           NEW c \in Calls, ModuleStep(c) \/ DeadlineChecked(c)
    PROVE  held' = SumOf(Shares') /\ HoldsWhileItRuns'
<1> DEFINE Counted == held' = SumOf(Shares') /\ HoldsWhileItRuns'
<1>1. job[c] \in Jobs /\ job[c].module \in Modules
  BY DEF TypeOK, Jobs
<1>2. /\ job[c].inStore \in Nat /\ job[c].answer \in Nat /\ job[c].memory \in Nat
      /\ job[c].length \in Nat /\ job[c].capacity \in Nat /\ held \in Int
  BY <1>1 DEF Jobs, TypeOK
<1>c. Chunk \in Nat
  BY HostAssumption DEF HostAssumption
<1>3. ASSUME Running(c), NEW why, Stops(c, why) PROVE Counted
  BY <1>3, StopsCounted
<1>4. ASSUME NEW n \in 1..Chunk, GrowMemory(c, n) PROVE Counted
  <2>0. n \in Nat
    BY <1>c
  <2>1. n \in Nat /\ Running(c)
    BY <1>4, <2>0 DEF GrowMemory
  <2>2. ASSUME NEW memory \in {job[c].memory + n, job[c].memory},
               Goes(c, n, [job[c] EXCEPT !.inStore = @ + n, !.memory = memory])
        PROVE  Counted
    <3> DEFINE after == [job[c] EXCEPT !.inStore = @ + n, !.memory = memory]
    <3>0. memory \in Nat /\ job[c].inStore + n \in Nat
      BY <1>2, <2>1
    <3>1. after \in Jobs
      BY <1>1, <3>0 DEF Jobs
    <3>2. /\ after.inStore + after.answer = job[c].inStore + job[c].answer + n
          /\ after.revalidation = job[c].revalidation
      BY <1>1, <1>2, <2>1 DEF Jobs
    <3> HIDE DEF after
    <3>3. Goes(c, n, after)
      BY <2>2 DEF after
    <3>4. QED
      BY <2>1, <3>1, <3>2, <3>3, GoesCounted
  <2>3. QED
    BY <1>3, <1>4, <2>1, <2>2 DEF GrowMemory
<1>5. ASSUME NEW n \in 1..Chunk, GrowTable(c, n) PROVE Counted
  <2>0. n \in Nat
    BY <1>c
  <2>1. n \in Nat /\ Running(c)
    BY <1>5, <2>0 DEF GrowTable
  <2>2. ASSUME Goes(c, n, [job[c] EXCEPT !.inStore = @ + n]) PROVE Counted
    <3> DEFINE after == [job[c] EXCEPT !.inStore = @ + n]
    <3>1. after \in Jobs
      BY <1>1, <1>2, <2>1 DEF Jobs
    <3>2. /\ after.inStore + after.answer = job[c].inStore + job[c].answer + n
          /\ after.revalidation = job[c].revalidation
      BY <1>1, <1>2, <2>1 DEF Jobs
    <3> HIDE DEF after
    <3>3. Goes(c, n, after)
      BY <2>2 DEF after
    <3>4. QED
      BY <2>1, <3>1, <3>2, <3>3, GoesCounted
  <2>3. QED
    BY <1>3, <1>5, <2>1, <2>2 DEF GrowTable
<1>6. ASSUME NEW n \in 1..Chunk, Write(c, n) PROVE Counted
  <2> DEFINE total == job[c].length + n
             capacity == Capacity(c, total)
             more == capacity - job[c].capacity
  <2>0. n \in Nat /\ total \in Nat
    BY <1>2, <1>c
  <2>a. Running(c)
    BY <1>6 DEF Write
  <2>1. Running(c) /\ total \in Nat
    BY <2>0, <2>a
  <2>2. ASSUME Goes(c, 0, [job[c] EXCEPT !.length = total]) PROVE Counted
    <3> HIDE DEF total
    <3> DEFINE after == [job[c] EXCEPT !.length = total]
    <3>0. /\ after \in Jobs
          /\ after.inStore = job[c].inStore /\ after.answer = job[c].answer
          /\ after.revalidation = job[c].revalidation
      BY <1>1, <2>1 DEF Jobs
    <3>1. after.inStore + after.answer = job[c].inStore + job[c].answer + 0
      BY <1>2, <3>0
    <3> HIDE DEF after
    <3>2. Goes(c, 0, after)
      BY <2>2 DEF after
    <3>3. QED
      BY <2>1, <3>0, <3>1, <3>2, GoesCounted
  <2>3. ASSUME total <= OutputLimit[Limits(c)] + Overhead, total > job[c].capacity,
               Goes(c, more, [job[c] EXCEPT !.length = total, !.capacity = capacity, !.answer = @ + more])
        PROVE  Counted
    <3>1. capacity \in Nat /\ total <= capacity
      BY <1>2, <2>1, <2>3, CapacityBounds DEF Limits
    <3> HIDE DEF total, capacity
    <3>2. more \in Nat
      BY <1>2, <2>1, <2>3, <3>1
    <3> HIDE DEF more
    <3> DEFINE after == [job[c] EXCEPT !.length = total, !.capacity = capacity, !.answer = @ + more]
    <3>a. job[c].answer + more \in Nat
      BY <1>2, <3>2
    <3>b. /\ after \in Jobs
          /\ after.inStore = job[c].inStore /\ after.answer = job[c].answer + more
          /\ after.revalidation = job[c].revalidation
      BY <1>1, <2>1, <3>1, <3>a DEF Jobs
    <3>3. after.inStore + after.answer = job[c].inStore + job[c].answer + more
      BY <1>2, <3>2, <3>b
    <3> HIDE DEF after
    <3>4. Goes(c, more, after)
      BY <2>3 DEF after
    <3>5. QED
      BY <2>1, <3>2, <3>3, <3>4, <3>b, GoesCounted
  <2>4. QED
    BY <1>3, <1>6, <2>1, <2>2, <2>3 DEF Write
<1>7. ASSUME NEW exit \in BOOLEAN, Returns(c, exit) PROVE Counted
  <2> DEFINE after == [Fresh(Limits(c)) EXCEPT !.length = job[c].length,
                         !.capacity = job[c].capacity, !.answer = job[c].answer, !.exit = exit]
  <2>1. Fresh(Limits(c)) \in Jobs
    BY <1>1, FreshIsAJob DEF Limits
  <2>2. after \in Jobs /\ after.inStore = 0 /\ after.answer = job[c].answer /\ after.revalidation = 0
    BY <1>2, <2>1 DEF Jobs, Fresh
  <2>3. job' = [job EXCEPT ![c] = after] /\ pc' = [pc EXCEPT ![c] = "answering"]
        /\ held' = held - job[c].inStore
    BY <1>7 DEF Returns, GoTo
  <2> HIDE DEF after
  <2>4. job[c].revalidation = 0
    BY <1>7 DEF HoldsWhileItRuns, Returns, Running
  <2>5. held' = held + ((after.inStore + after.answer + after.revalidation)
                        - (job[c].inStore + job[c].answer + job[c].revalidation))
    BY <1>2, <2>2, <2>3, <2>4
  <2>6. held' = SumOf(Shares')
    BY <2>2, <2>3, <2>5, OneShareCounted
  <2>7. HoldsWhileItRuns'
    BY <2>2, <2>3 DEF HoldsWhileItRuns, TypeOK
  <2>8. QED
    BY <2>6, <2>7
<1>8. CASE DeadlineChecked(c)
  <2>1. ASSUME Continues(c) PROVE Counted
    <3> DEFINE after == [job[c] EXCEPT !.due = FALSE]
    <3>0. /\ after \in Jobs
          /\ after.inStore = job[c].inStore /\ after.answer = job[c].answer
          /\ after.revalidation = job[c].revalidation
      BY <1>1 DEF Jobs
    <3>1. after.inStore + after.answer = job[c].inStore + job[c].answer + 0
      BY <1>2, <3>0
    <3>2. Running(c)
      BY <1>8 DEF DeadlineChecked
    <3> HIDE DEF after
    <3>3. Goes(c, 0, after)
      BY <2>1 DEF after, Continues
    <3>4. QED
      BY <3>0, <3>1, <3>2, <3>3, GoesCounted
  <2>2. QED
    BY <1>3, <1>8, <2>1 DEF DeadlineChecked
<1>9. CASE Traps(c)
  BY <1>3, <1>9 DEF Traps
<1>10. QED
  BY <1>4, <1>5, <1>6, <1>7, <1>8, <1>9 DEF ModuleStep

\* The call itself counts what its re-validation may take, and gives it back
\* with the answer when it returns (sandbox.rs, accept, run).
LEMMA HostStepCounted ==
    ASSUME TypeOK, held = SumOf(Shares), HoldsWhileItRuns, NEW c \in Calls, HostStep(c)
    PROVE  held' = SumOf(Shares') /\ HoldsWhileItRuns'
<1> DEFINE Counted == held' = SumOf(Shares') /\ HoldsWhileItRuns'
<1>1. job[c] \in Jobs /\ job[c].module \in Modules
  BY DEF TypeOK, Jobs
<1>2. /\ job[c].inStore \in Nat /\ job[c].answer \in Nat /\ job[c].revalidation \in Nat
      /\ job[c].length \in Nat /\ held \in Int
  BY <1>1 DEF Jobs, TypeOK
<1>4. ASSUME job' = job, held' = held PROVE held' = SumOf(Shares')
  BY <1>4, SameShares
<1>5. ASSUME NEW share \in Nat, job' = [job EXCEPT ![c].revalidation = share],
             held' = held + (share - job[c].revalidation)
      PROVE  held' = SumOf(Shares')
  <2> DEFINE after == [job[c] EXCEPT !.revalidation = share]
  <2>1. after \in Jobs /\ after.inStore = job[c].inStore /\ after.answer = job[c].answer
        /\ after.revalidation = share
    BY <1>1 DEF Jobs
  <2>2. job' = [job EXCEPT ![c] = after]
    BY <1>5
  <2> HIDE DEF after
  <2>3. held' = held + ((after.inStore + after.answer + after.revalidation)
                        - (job[c].inStore + job[c].answer + job[c].revalidation))
    BY <1>2, <1>5, <2>1
  <2>4. QED
    BY <2>1, <2>2, <2>3, OneShareCounted
<1>6. CASE Enter(c) \/ Sleep(c) \/ Start(c) \/ Decoded(c) \/ FreeSlot(c) \/ Notify(c)
  <2>1. job' = job /\ held' = held
    BY <1>6 DEF Enter, Sleep, Start, Decoded, Over, FreeSlot, Notify
  <2>2. \A d \in Calls : /\ pc[d] = "running" => pc'[d] = "running"
                         /\ pc[d] = "revalidating" => pc'[d] = "revalidating"
    BY <1>6 DEF TypeOK, Enter, Sleep, Start, Decoded, Over, FreeSlot, Notify, GoTo
  <2>3. HoldsWhileItRuns'
    BY <2>1, <2>2 DEF HoldsWhileItRuns
  <2>4. QED
    BY <1>4, <2>1, <2>3
<1>7. ASSUME NEW size \in Sizes, Accept(c, size) PROVE Counted
  <2>1. CASE \E what : Over(c, what)
    <3>1. HoldsWhileItRuns'
      BY <1>7, <2>1 DEF HoldsWhileItRuns, Accept, Over, GoTo, TypeOK
    <3>2. QED
      BY <1>4, <2>1, <3>1 DEF Over
  <2>2. CASE /\ held' = held + size * Factor
             /\ job' = [job EXCEPT ![c].revalidation = size * Factor]
             /\ GoTo(c, "revalidating")
    <3> DEFINE share == size * Factor
    <3>1. share \in Nat
      BY HostAssumption DEF Sizes, HostAssumption
    <3>2. job[c].revalidation = 0 /\ pc[c] = "answering"
      BY <1>7 DEF Accept, HoldsWhileItRuns
    <3> HIDE DEF share
    <3>3. held' = held + share /\ job' = [job EXCEPT ![c].revalidation = share]
      BY <2>2 DEF share
    <3>a. held' = held + (share - job[c].revalidation)
      BY <1>2, <3>1, <3>2, <3>3
    <3>4. held' = SumOf(Shares')
      BY <1>5, <3>1, <3>3, <3>a
    <3>5. HoldsWhileItRuns'
      BY <2>2, <3>2, <3>3 DEF HoldsWhileItRuns, GoTo, TypeOK, Jobs
    <3>6. QED
      BY <3>4, <3>5
  <2>3. QED
    BY <1>7, <2>1, <2>2 DEF Accept
<1>8. CASE Revalidated(c)
  <2>1. held' = held - job[c].revalidation /\ job' = [job EXCEPT ![c].revalidation = 0]
        /\ pc' = [pc EXCEPT ![c] = "leaving"] /\ pc[c] = "revalidating"
    BY <1>8 DEF Revalidated, GoTo
  <2>a. held' = held + (0 - job[c].revalidation)
    BY <1>2, <2>1
  <2>2. held' = SumOf(Shares')
    BY <1>5, <2>1, <2>a
  <2>3. HoldsWhileItRuns'
    BY <2>1 DEF HoldsWhileItRuns, TypeOK, Jobs
  <2>4. QED
    BY <2>2, <2>3
<1>9. CASE DropAnswer(c)
  <2>1. Fresh(job[c].module) \in Jobs /\ job' = [job EXCEPT ![c] = Fresh(job[c].module)]
    BY <1>1, <1>9, FreshIsAJob DEF DropAnswer, Limits
  <2>2. job[c].inStore = 0 /\ job[c].revalidation = 0
    BY <1>9 DEF HoldsWhileItRuns, DropAnswer
  <2>3. held' = held + ((Fresh(job[c].module).inStore + Fresh(job[c].module).answer + Fresh(job[c].module).revalidation)
                        - (job[c].inStore + job[c].answer + job[c].revalidation))
    BY <1>2, <1>9, <2>2 DEF DropAnswer, GivesBackAnswer, Fresh
  <2>4. held' = SumOf(Shares')
    BY <2>1, <2>3, OneShareCounted
  <2>5. HoldsWhileItRuns'
    BY <1>9, <2>1 DEF HoldsWhileItRuns, DropAnswer, GoTo, Fresh, TypeOK
  <2>6. QED
    BY <2>4, <2>5
<1>10. QED
  BY <1>6, <1>7, <1>8, <1>9 DEF HostStep

\* For any number of calls, what the host counts is the sum of what its
\* calls hold, at every step: nothing is counted twice, kept or lost
\* (budget.rs, Held).
THEOREM CountedToTheUnit == Spec => []HeldIsTheSum
<1> DEFINE Counted == held = SumOf(Shares) /\ HoldsWhileItRuns
<1>1. Init => Counted
  <2> SUFFICES ASSUME Init PROVE Counted
    OBVIOUS
  <2>1. \A c \in Calls : job[c].inStore = 0 /\ job[c].answer = 0 /\ job[c].revalidation = 0
    BY DEF Init, Fresh
  <2>2. Shares \in [Calls -> Nat] /\ \A c \in Calls : Shares[c] = 0
    BY <2>1 DEF Shares
  <2>3. SumOf(Shares) = 0
    BY <2>2, SumOfNaturals, HostAssumption DEF HostAssumption
  <2>4. QED
    BY <2>1, <2>3 DEF Init, HoldsWhileItRuns
<1>2. TypeOK /\ PaidFor /\ Counted /\ [Next]_vars => Counted'
  <2> SUFFICES ASSUME TypeOK, PaidFor, Counted, [Next]_vars PROVE Counted'
    OBVIOUS
  <2>1. CASE TimePasses \/ Tick
    <3>1. \A c \in Calls : job[c] \in Jobs
      BY DEF TypeOK
    <3>2. \A c \in Calls : /\ job'[c].inStore = job[c].inStore
                           /\ job'[c].answer = job[c].answer
                           /\ job'[c].revalidation = job[c].revalidation
      BY <2>1, <3>1 DEF TimePasses, Tick, Jobs
    <3>3. held' = held /\ pc' = pc
      BY <2>1 DEF TimePasses, Tick
    <3>4. QED
      BY <3>2, <3>3, SameShares DEF HoldsWhileItRuns
  <2>2. ASSUME NEW c \in Calls, NEW documents \in BOOLEAN, Call(c, documents) \/ WakesForNothing(c) PROVE Counted'
    <3>1. job' = job /\ held' = held
      BY <2>2 DEF Call, WakesForNothing
    <3>2. HoldsWhileItRuns'
      BY <2>2, <3>1 DEF Call, WakesForNothing, GoTo, HoldsWhileItRuns, TypeOK
    <3>3. QED
      BY <3>1, <3>2, SameShares
  <2>3. ASSUME NEW c \in Calls, HostStep(c) PROVE Counted'
    BY <2>3, HostStepCounted
  <2>4. ASSUME NEW c \in Calls, ModuleStep(c) \/ DeadlineChecked(c) PROVE Counted'
    BY <2>4, ModuleCounted
  <2>5. CASE UNCHANGED vars
    BY <2>5, SameShares DEF vars, HoldsWhileItRuns
  <2>6. QED
    BY <2>1, <2>2, <2>3, <2>4, <2>5 DEF Next
<1>3. TypeOK /\ Counted => HeldIsTheSum
  BY DEF TypeOK, HeldIsTheSum, WithinBudget, SumOf
<1>4. QED
  BY <1>1, <1>2, <1>3, TypeCorrect, AlwaysPaidFor, PTL DEF Spec

\* No call ever gives back more than is counted: the subtraction of the code
\* saturates, and it never has to (budget.rs, Held::drop).
THEOREM NeverSaturates == Spec => [](\A c \in Calls : Shares[c] <= held)
<1>1. TypeOK /\ HeldIsTheSum => \A c \in Calls : Shares[c] <= held
  <2> SUFFICES ASSUME TypeOK, HeldIsTheSum, NEW c \in Calls PROVE Shares[c] <= held
    OBVIOUS
  <2>1. \A d \in Calls : job[d] \in Jobs
    BY DEF TypeOK
  <2>2. Shares \in [Calls -> Nat]
    BY <2>1 DEF Shares, Jobs
  <2>3. SumOf(Shares) >= Shares[c] /\ SumOf(Shares) \in Nat
    BY <2>2, SumCovers, SumOfNaturals, HostAssumption DEF HostAssumption
  <2>4. QED
    BY <2>2, <2>3 DEF HeldIsTheSum, SumOf
<1>2. QED
  BY <1>1, TypeCorrect, CountedToTheUnit, PTL
=============================================================================
