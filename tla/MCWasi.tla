------------------------------- MODULE MCWasi -------------------------------
(* Inputs of WasiCalls for TLC.                                            *)
EXTENDS WasiCalls

\* An array of two buffers, then room for what is read and for counts.
MemoryOf(first, second) ==
    CellsOf(first[1]) \o CellsOf(first[2]) \o CellsOf(second[1]) \o CellsOf(second[2])
        \o <<1, 2, 3, 1, 2, 3>>
BuffersOf == {
    << <<8, 2>>, <<10, 2>> >>,      << <<8, 2>>, <<13, 3>> >>,      << <<8, 3>>, <<15, 1>> >>,
    << <<10, 0>>, <<8, 1>> >>,      << <<8, 3>>, <<9, 3>> >>,       << <<2, 4>>, <<8, 2>> >>,
    << <<14, 0>>, <<15, 0>> >>,     << <<0, 14>>, <<0, 14>> >>,     << <<8, 15>>, <<10, 2>> >>,
    << <<12, 2>>, <<8, 4>> >> }
MCGuests ==
    {[memory |-> MemoryOf(b[1], b[2]), exported |-> TRUE, stdin |-> stdin] :
         b \in BuffersOf, stdin \in {<< >>, <<3>>, <<3, 2, 1>>, <<3, 2, 1, 0, 3, 2>>}}
    \cup {[memory |-> << >>, exported |-> FALSE, stdin |-> <<1>>]}
\* Arrays in memory or not, too long or counted below zero, and counts told
\* beside the buffers, over them, over the array or out of memory.
MCVectors ==
    {[iovs |-> 0, count |-> 2, told |-> told] : told \in {0, 8, 12, 13, 15}}
    \cup {[iovs |-> iovs, count |-> 1, told |-> 12] : iovs \in {4, 11, 14}}
    \cup {[iovs |-> 0, count |-> count, told |-> 12] : count \in {0, 3, 4, 15}}
=============================================================================
