----------------------------- MODULE RunControl ------------------------------
(***************************************************************************)
(* What a node promises whoever stops it: a run that drives a role ends    *)
(* when, and only when, a stop has been asked for since the previous run   *)
(* ended; a run that drives none may end by itself.  A stop is asked for   *)
(* by CSINodeClient::send_stop or by the end of the duration, and the end  *)
(* of a run takes it back.                                                 *)
(***************************************************************************)
VARIABLES
    running,   \* whether a run is in progress
    asked,     \* whether a stop is asked for
    drives     \* whether the run, or else the last one, drives a role

controlVars == <<running, asked, drives>>

Init == running = FALSE /\ asked = FALSE /\ drives \in BOOLEAN

Start == ~running /\ running' = TRUE /\ drives' \in BOOLEAN /\ UNCHANGED asked

Ask == asked' = TRUE /\ UNCHANGED <<running, drives>>

End ==
    /\ running
    /\ drives => asked
    /\ running' = FALSE
    /\ asked' = FALSE
    /\ UNCHANGED drives

Next == Start \/ Ask \/ End

SafeSpec == Init /\ [][Next]_controlVars

Spec == SafeSpec /\ WF_controlVars(End)
============================================================================
