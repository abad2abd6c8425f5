------------------------------ MODULE UndoStack ------------------------------
(***************************************************************************)
(* What undo and redo promise, and nothing of how: the document takes one  *)
(* value after another; undoing gives back the value before exactly,       *)
(* redoing the value after, and an edit forgets what was undone.           *)
(* EditSession.tla is shown to implement it.                               *)
(***************************************************************************)
EXTENDS Integers, Sequences

VARIABLES
    tape,       \* the values the document took, or would take again
    place       \* where the document is on the tape

vars == <<tape, place>>

\* A document is opened with nothing to undo.
Init == Len(tape) = 1 /\ place = 1

\* An edit keeps every value up to the current one and adds one value.
Edit ==
    /\ Len(tape') = place + 1
    /\ SubSeq(tape', 1, place) = SubSeq(tape, 1, place)
    /\ place' = place + 1

Undo ==
    /\ place > 1
    /\ place' = place - 1
    /\ tape' = tape

Redo ==
    /\ place < Len(tape)
    /\ place' = place + 1
    /\ tape' = tape

Next == Edit \/ Undo \/ Redo

Spec == Init /\ [][Next]_vars
=============================================================================
