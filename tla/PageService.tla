----------------------------- MODULE PageService -----------------------------
(***************************************************************************)
(* What the page service promises the window, and nothing of how: calls    *)
(* return once, with the page they asked for or with a reason; rendering   *)
(* is decided at the start and, once off, is off for good; there is one    *)
(* worker process at most, none is started while rendering is off, and     *)
(* none is left when the application has closed.                           *)
(* RenderService.tla is shown to implement it.                             *)
(***************************************************************************)
CONSTANTS Requests, Docs, Pages, Silence, Reason

VARIABLES
    asks,       \* asks[r]: what r asks for, or Silence
    told,       \* told[r]: what r was given, or Silence
    life,       \* "starting", "on", "off" or "closed"
    running     \* whether a worker process runs

vars == <<asks, told, life, running>>

Asked == [kind : {"image"}, image : [doc : Docs, page : Pages]]

Init ==
    /\ asks = [r \in Requests |-> Silence]
    /\ told = [r \in Requests |-> Silence]
    /\ life \in {"starting", "off"}
    /\ running = FALSE

\* One call at most is made or returns in a step.
Call(r) ==
    /\ asks[r] = Silence
    /\ life # "starting"
    /\ \E image \in Asked : asks' = [asks EXCEPT ![r] = image]
    /\ told' = told

\* An image is given only while rendering is on; a reason, at any time.
Return(r) ==
    /\ asks[r] # Silence
    /\ told[r] = Silence
    /\ \/ life = "on" /\ told' = [told EXCEPT ![r] = asks[r]]
       \/ told' = [told EXCEPT ![r] = Reason]
    /\ asks' = asks

\* Off is for good, starting happens once, and closing leaves no worker.
Live ==
    \/ life' = life
    \/ life \in {"on", "off"} /\ life' = "closed" /\ ~running'
    \/ life = "starting" /\ life' \in {"on", "off"}
    \/ life = "on" /\ life' = "off"

\* A second worker is never started, nor one while rendering is off.
Work ==
    \/ running' = running
    \/ ~running /\ running' /\ life \in {"starting", "on"} /\ life' = life
    \/ running /\ ~running'

Next ==
    /\ Live
    /\ Work
    /\ \/ \E r \in Requests : Call(r) \/ Return(r)
       \/ UNCHANGED <<asks, told>>

Spec == Init /\ [][Next]_vars
=============================================================================
