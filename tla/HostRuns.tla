------------------------------ MODULE HostRuns ------------------------------
(***************************************************************************)
(* Modules run by one host (crates/fyp-host): the run slots and the memory *)
(* budget they share (budget.rs), the sandbox that counts what each takes  *)
(* (wasi.rs), and a run from its checks to its answer (sandbox.rs).        *)
(*                                                                         *)
(* Each call of `LoadedModule::run` is a thread of its own.  It waits for  *)
(* a slot on a condition variable, has the module run on another thread    *)
(* beside a ticker, decodes what the module wrote, and re-validates the    *)
(* document.  What a module does is up to it, and it may do nothing at all *)
(* for ever; only the ticker, and a clock, stop it.                        *)
(*                                                                         *)
(* Bytes are counted in units.  A `Held` that is dropped gives back what   *)
(* it took, in a step with the event that drops it; the subtraction of the *)
(* code saturates, which HeldIsTheSum shows never happens.                 *)
(***************************************************************************)
EXTENDS Integers, FiniteSets, Functions

CONSTANTS
    Calls,          \* the calls of LoadedModule::run
    Modules,        \* the modules found, with what their manifests declare:
    Timeout,        \* Timeout[m]: timeout_ms, in steps of the clock
    MemoryLimit,    \* MemoryLimit[m]: memory_mib
    OutputLimit,    \* OutputLimit[m]: max_output_mib
    Grants,         \* Grants[m]: its permissions, "read" and "write"
    MaxTimeout, MaxMemory, MaxOutput, MaxRuns,  \* HostLimits
    Budget,         \* HostLimits.memory_budget_mib
    Overhead,       \* ANSWER_OVERHEAD
    Factor,         \* REVALIDATION_FACTOR
    Chunk           \* bound: the most a module asks for at once

ASSUME HostAssumption ==
    /\ IsFiniteSet(Calls)
    /\ {Timeout, MemoryLimit, OutputLimit} \subseteq [Modules -> Nat]
    /\ Grants \in [Modules -> SUBSET {"read", "write"}]
    /\ {MaxTimeout, MaxMemory, MaxOutput, MaxRuns, Budget, Overhead, Factor, Chunk} \subseteq Nat

VARIABLES
    pc,         \* pc[c]: where call c is
    job,        \* job[c]: what call c runs, and what it holds
    outcome,    \* outcome[c]: what the call returned
    runs,       \* State.runs
    held        \* State.held

vars == <<pc, job, outcome, runs, held>>

\* Shared::new: a host runs one module at least.
Slots == IF MaxRuns = 0 THEN 1 ELSE MaxRuns

Smaller(a, b) == IF a < b THEN a ELSE b
Larger(a, b) == IF a > b THEN a ELSE b

\* Nothing runs and nothing is held: a store that has not started
\* (Sandbox::new), or one that is gone.
Fresh(m) ==
    [module |-> m, memory |-> 0, inStore |-> 0, length |-> 0, capacity |-> 0, answer |-> 0,
     revalidation |-> 0, elapsed |-> 0, due |-> FALSE, exit |-> FALSE]

Init ==
    /\ pc = [c \in Calls |-> "idle"]
    /\ job \in [Calls -> {Fresh(m) : m \in Modules}]
    /\ outcome = [c \in Calls |-> "none"]
    /\ runs = 0
    /\ held = 0

GoTo(c, where) == pc' = [pc EXCEPT ![c] = where]

\* Host::load_bytes: what no run of this host may ask for is not loaded.
Loadable(m) ==
    /\ Timeout[m] <= MaxTimeout
    /\ MemoryLimit[m] <= Smaller(MaxMemory, Budget)
    /\ OutputLimit[m] <= MaxOutput
-----------------------------------------------------------------------------
(* Before a module runs.                                                   *)

\* LoadedModule::run: the action, its documents and its parameters are
\* checked before a slot is waited for.
Call(c, documents) ==
    /\ pc[c] = "idle"
    /\ Loadable(job[c].module)
    /\ \/ /\ documents => "read" \in Grants[job[c].module]
          /\ GoTo(c, "entering")
          /\ outcome' = outcome
       \/ /\ GoTo(c, "done")
          /\ outcome' = [outcome EXCEPT ![c] = "refused"]
    /\ UNCHANGED <<job, runs, held>>

\* Mutant: one run too many gets a slot.
FullTooLate == runs > Slots

Full == runs >= Slots

\* Shared::enter, under its lock: take a slot, or sleep.
Enter(c) ==
    /\ pc[c] = "entering"
    /\ ~Full
    /\ runs' = runs + 1
    /\ GoTo(c, "starting")
    /\ UNCHANGED <<job, outcome, held>>

Sleep(c) ==
    /\ pc[c] = "entering"
    /\ Full
    /\ GoTo(c, "asleep")
    /\ UNCHANGED <<job, outcome, runs, held>>

\* A condition variable may wake its waiters for nothing.
WakesForNothing(c) ==
    /\ pc[c] = "asleep"
    /\ GoTo(c, "entering")
    /\ UNCHANGED <<job, outcome, runs, held>>

\* LoadedModule::execute: the ticker, then the module; the time limit of
\* the run starts here.  A request that cannot be encoded, or a thread that
\* cannot be started, ends the run.
Start(c) ==
    /\ pc[c] = "starting"
    /\ \/ GoTo(c, "running") /\ outcome' = outcome
       \/ GoTo(c, "leaving") /\ outcome' = [outcome EXCEPT ![c] = "internal"]
    /\ UNCHANGED <<job, runs, held>>
-----------------------------------------------------------------------------
(* While a module runs.                                                    *)

Running(c) == pc[c] = "running"
Limits(c) == job[c].module

\* Held::grow: whether the budget covers n units more for call c.
Covers(c, n) == held + n <= Budget

\* The module is stopped: the store goes, and with it memory and answer.
Stops(c, why) ==
    /\ held' = held - job[c].inStore - job[c].answer
    /\ job' = [job EXCEPT ![c] = Fresh(Limits(c))]
    /\ outcome' = [outcome EXCEPT ![c] = why]
    /\ GoTo(c, "leaving")
    /\ runs' = runs

Goes(c, taken, after) ==
    /\ held' = held + taken
    /\ job' = [job EXCEPT ![c] = after]
    /\ UNCHANGED <<pc, outcome, runs>>

\* Sandbox::memory_growing, the first memory of the module included.  A
\* growth that then fails keeps its share.
GrowMemory(c, n) ==
    /\ Running(c)
    /\ LET m == Limits(c)
           desired == job[c].memory + n
       IN  \/ desired > MemoryLimit[m] /\ Stops(c, "memory")
           \/ desired <= MemoryLimit[m] /\ ~Covers(c, n) /\ Stops(c, "host memory")
           \/ /\ desired <= MemoryLimit[m]
              /\ Covers(c, n)
              /\ \E memory \in {desired, job[c].memory} :
                    Goes(c, n, [job[c] EXCEPT !.inStore = @ + n, !.memory = memory])

\* Sandbox::table_growing: a table may hold so many elements (refused or
\* not), and they are counted with the memory.
GrowTable(c, n) ==
    /\ Running(c)
    /\ \/ Stops(c, "memory")
       \/ ~Covers(c, n) /\ Stops(c, "host memory")
       \/ Covers(c, n) /\ Goes(c, n, [job[c] EXCEPT !.inStore = @ + n])

\* Mutant: the buffer doubles past the limit of the answer.
CapacityDoubles(c, total) == Larger(2 * job[c].capacity, total)

\* The buffer of the answer doubles, but never past its limit.
Capacity(c, total) ==
    Smaller(Larger(2 * job[c].capacity, total), OutputLimit[Limits(c)] + Overhead)

\* Sandbox::write_stdout.
Write(c, n) ==
    /\ Running(c)
    /\ LET total == job[c].length + n
           fits == total <= OutputLimit[Limits(c)] + Overhead
           capacity == Capacity(c, total)
           more == capacity - job[c].capacity
       IN  \/ ~fits /\ Stops(c, "output")
           \/ fits /\ total <= job[c].capacity /\ Goes(c, 0, [job[c] EXCEPT !.length = total])
           \/ fits /\ total > job[c].capacity /\ ~Covers(c, more) /\ Stops(c, "host memory")
           \/ /\ fits /\ total > job[c].capacity /\ Covers(c, more)
              /\ \/ Goes(c, more, [job[c] EXCEPT !.length = total, !.capacity = capacity, !.answer = @ + more])
                 \/ Stops(c, "output")    \* the system had no memory left

\* A trap, a call that was not granted, a panic of the thread.
Traps(c) == Running(c) /\ Stops(c, "trapped")

\* `_start` returns, or the module exits (`exit`: with another code than 0):
\* Sandbox::finish gives back its memory, and the answer keeps its share.
Returns(c, exit) ==
    /\ Running(c)
    /\ held' = held - job[c].inStore
    /\ job' = [job EXCEPT ![c] = [Fresh(Limits(c)) EXCEPT
          !.length = job[c].length, !.capacity = job[c].capacity, !.answer = job[c].answer,
          !.exit = exit]]
    /\ GoTo(c, "answering")
    /\ UNCHANGED <<outcome, runs>>

\* Time passes for the modules that run, as far as it matters.
TimePasses ==
    /\ \E c \in Calls : Running(c) /\ job[c].elapsed < Timeout[Limits(c)]
    /\ job' = [c \in Calls |-> IF Running(c) /\ job[c].elapsed < Timeout[Limits(c)]
                               THEN [job[c] EXCEPT !.elapsed = @ + 1] ELSE job[c]]
    /\ UNCHANGED <<pc, outcome, runs, held>>

\* The ticker of a run moves the epoch of the engine, which all runs share.
Tick ==
    /\ \E c \in Calls : Running(c)
    /\ job' = [c \in Calls |-> IF Running(c) THEN [job[c] EXCEPT !.due = TRUE] ELSE job[c]]
    /\ UNCHANGED <<pc, outcome, runs, held>>

\* Mutant: the deadline is a number of ticks.
ExpiredAtTick(c) == TRUE

Expired(c) == job[c].elapsed >= Timeout[Limits(c)]

\* UpdateDeadline::Continue(1): the next tick asks again.
Continues(c) == Goes(c, 0, [job[c] EXCEPT !.due = FALSE])

\* The callback of the epoch deadline, at the next loop or call of the code.
DeadlineChecked(c) ==
    /\ Running(c)
    /\ job[c].due
    /\ \/ Expired(c) /\ Stops(c, "timeout")
       \/ ~Expired(c) /\ Continues(c)
-----------------------------------------------------------------------------
(* After a module ran.                                                     *)

Over(c, what) ==
    /\ GoTo(c, "leaving")
    /\ outcome' = [outcome EXCEPT ![c] = what]
    /\ UNCHANGED <<job, runs, held>>

\* The answer is decoded in place.  An error the module reports comes first,
\* then how it exited, then what cannot be read.
Decoded(c) ==
    /\ pc[c] = "answering"
    /\ \/ job[c].length > 0 /\ Over(c, "failed")
       \/ job[c].exit /\ Over(c, "exited")
       \/ ~job[c].exit /\ Over(c, "bad response")

\* LoadedModule::accept, for a document of `size`: what its re-validation
\* may take is taken before.
Accept(c, size) ==
    /\ pc[c] = "answering"
    /\ ~job[c].exit /\ size < job[c].length
    /\ LET m == Limits(c)
           share == size * Factor
       IN  \/ "write" \notin Grants[m] /\ Over(c, "refused")
           \/ "write" \in Grants[m] /\ size > OutputLimit[m] /\ Over(c, "output")
           \/ /\ "write" \in Grants[m] /\ size <= OutputLimit[m]
              /\ \/ ~Covers(c, share) /\ Over(c, "host memory")
                 \/ /\ Covers(c, share)
                    /\ held' = held + share
                    /\ job' = [job EXCEPT ![c].revalidation = share]
                    /\ GoTo(c, "revalidating")
                    /\ UNCHANGED <<outcome, runs>>

\* revalidate: the rewrite of the core is handed on, or nothing.
Revalidated(c) ==
    /\ pc[c] = "revalidating"
    /\ \E what \in {"document", "rejected"} : outcome' = [outcome EXCEPT ![c] = what]
    /\ held' = held - job[c].revalidation
    /\ job' = [job EXCEPT ![c].revalidation = 0]
    /\ GoTo(c, "leaving")
    /\ runs' = runs

\* Mutant: the share of the answer is not given back.
KeepsAnswer(c) == held

GivesBackAnswer(c) == held - job[c].answer

\* The call returns: the answer is dropped, then the slot.
DropAnswer(c) ==
    /\ pc[c] = "leaving"
    /\ held' = GivesBackAnswer(c)
    /\ job' = [job EXCEPT ![c] = Fresh(Limits(c))]
    /\ GoTo(c, "freeing")
    /\ UNCHANGED <<outcome, runs>>

\* Slot::drop, under the lock of State.
FreeSlot(c) ==
    /\ pc[c] = "freeing"
    /\ runs' = IF runs > 0 THEN runs - 1 ELSE 0
    /\ GoTo(c, "notifying")
    /\ UNCHANGED <<job, outcome, held>>

\* Mutant: nobody is told of the slot.
NotifyNobody(c) ==
    /\ pc[c] = "notifying"
    /\ GoTo(c, "done")
    /\ UNCHANGED <<job, outcome, runs, held>>

\* Condvar::notify_one, once the lock is released.
Notify(c) ==
    /\ pc[c] = "notifying"
    /\ \/ \E d \in Calls : pc[d] = "asleep" /\ pc' = [pc EXCEPT ![c] = "done", ![d] = "entering"]
       \/ (\A d \in Calls : pc[d] # "asleep") /\ GoTo(c, "done")
    /\ UNCHANGED <<job, outcome, runs, held>>
-----------------------------------------------------------------------------
\* What the module does.
ModuleStep(c) ==
    \/ \E n \in 1..Chunk : GrowMemory(c, n) \/ GrowTable(c, n) \/ Write(c, n)
    \/ Traps(c)
    \/ \E exit \in BOOLEAN : Returns(c, exit)

Sizes == 0..(MaxOutput + Overhead)

\* What the thread of the call does.
HostStep(c) ==
    \/ Enter(c) \/ Sleep(c)
    \/ Start(c)
    \/ Decoded(c)
    \/ \E size \in Sizes : Accept(c, size)
    \/ Revalidated(c)
    \/ DropAnswer(c) \/ FreeSlot(c) \/ Notify(c)

Next ==
    \/ TimePasses \/ Tick
    \/ \E c \in Calls :
          \/ \E documents \in BOOLEAN : Call(c, documents)
          \/ WakesForNothing(c)
          \/ HostStep(c)
          \/ ModuleStep(c)
          \/ DeadlineChecked(c)

Spec == Init /\ [][Next]_vars

\* The threads of the host run, the ticker ticks and time passes; a module
\* owes nothing, nor does a condition variable wake anyone by itself.
Fairness ==
    /\ WF_vars(TimePasses) /\ WF_vars(Tick)
    /\ \A c \in Calls : WF_vars(HostStep(c) \/ DeadlineChecked(c))

FairSpec == Spec /\ Fairness
-----------------------------------------------------------------------------
(* Properties.                                                             *)

Places == {"idle", "entering", "asleep", "starting", "running", "answering", "revalidating",
           "leaving", "freeing", "notifying", "done"}
Outcomes == {"none", "refused", "internal", "memory", "host memory", "output", "trapped",
             "timeout", "failed", "exited", "bad response", "document", "rejected"}
Jobs == [module : Modules, memory : Nat, inStore : Nat, length : Nat, capacity : Nat,
         answer : Nat, revalidation : Nat, elapsed : Nat, due : BOOLEAN, exit : BOOLEAN]

\* Every variable has its type; what is held never passes the budget of the
\* host, however the growths of its runs interleave (budget.rs, Held::grow).
TypeOK ==
    /\ pc \in [Calls -> Places]
    /\ job \in [Calls -> Jobs]
    /\ outcome \in [Calls -> Outcomes]
    /\ runs \in 0..Slots
    /\ held \in Int /\ held <= Budget

\* What the modules of one host hold together never passes its budget,
\* whatever grows, ends and is dropped in which order (budget.rs, Held::grow).
WithinBudget == held <= Budget

\* The budget counts what the runs hold, to the unit and never past what the
\* host allows, at every step of every way a run may end: stopped, trapped,
\* refused, re-validated or not (budget.rs, Held; sandbox.rs, run).
Shares == [c \in Calls |-> job[c].inStore + job[c].answer + job[c].revalidation]
HeldIsTheSum == WithinBudget /\ held = FoldFunction(+, 0, Shares)

\* The slots taken are those of the runs that execute, and there are never
\* more of them than the host allows (budget.rs, Shared::enter, Slot).
Inside == {c \in Calls : pc[c] \in {"starting", "running", "answering", "revalidating", "leaving", "freeing"}}
SlotsAreCounted == runs = Cardinality(Inside) /\ runs <= Slots

\* Nothing a module holds was not asked of the budget, and its answer stays
\* within the limit of the module even while its buffer doubles (wasi.rs,
\* memory_growing, write_stdout).
PaidFor ==
    \A c \in Calls :
        LET j == job[c] IN
        /\ j.memory <= j.inStore /\ j.memory <= MemoryLimit[j.module]
        /\ j.answer = j.capacity
        /\ j.length <= j.capacity
        /\ j.capacity <= OutputLimit[j.module] + Overhead

\* A module is stopped for its time only once it ran that long itself: the
\* ticks of the other runs of its engine, and its wait for a slot, do not
\* count (sandbox.rs, start: « other runs on the same engine tick it too »).
NeverEarly ==
    [][\A c \in Calls : outcome[c] = "none" /\ outcome'[c] = "timeout"
                            => job[c].elapsed >= Timeout[job[c].module]]_vars

\* Every call returns, though modules may loop for ever and slots be few
\* (sandbox.rs, execute: « interrupted, never waited for »; budget.rs).
CallsReturn == \A c \in Calls : pc[c] = "entering" ~> pc[c] = "done"
=============================================================================
