----------------------------- MODULE Rendezvous -----------------------------
(***************************************************************************)
(* What barrier.c and rendezvous.c promise in their header comments: every *)
(* thread prints its "before" message before any thread prints its "after" *)
(* message, and every thread gets to print both.                           *)
(***************************************************************************)
CONSTANT Threads

VARIABLES arrived, departed     \* who has printed "before", who "after"

vars == <<arrived, departed>>

Init == arrived = {} /\ departed = {}

Arrive(t) ==
    /\ t \notin arrived
    /\ arrived' = arrived \cup {t}
    /\ UNCHANGED departed

Depart(t) ==
    /\ arrived = Threads
    /\ t \in Threads \ departed
    /\ departed' = departed \cup {t}
    /\ UNCHANGED arrived

Next == \E t \in Threads : Arrive(t) \/ Depart(t)

Spec == Init /\ [][Next]_vars

=============================================================================
