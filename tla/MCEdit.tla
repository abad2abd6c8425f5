------------------------------- MODULE MCEdit -------------------------------
(* Small files to open for EditSession: one in the clear, one that needs a *)
(* password.                                                               *)
EXTENDS EditSession

MCOne == {"a.pdf"}
MCTwo == {"a.pdf", "locked.pdf"}
MCNone == {}
MCLocked == {"locked.pdf"}
MCRight == {1}
MCBoth == {1, 3}
=============================================================================
