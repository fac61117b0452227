--------------------------- MODULE NsMutexClients ---------------------------
(***************************************************************************)
(* The lock of mutex-nostarve.c under clients that come back for it.  The  *)
(* workers of the program acquire once; starvation is a question about     *)
(* threads that return, so here a worker may start over after its release  *)
(* (an external caller of ns_mutex_acquire and ns_mutex_release).          *)
(* Counting overtakers makes "does not starve" a safety property as well.  *)
(***************************************************************************)
EXTENDS NsMutex

CONSTANT MaxBypass      \* how often one waiting thread may be overtaken by another

ASSUME ClientsAssumption == MaxBypass \in Nat

VARIABLE bypassed       \* [t][u]: entries of u while t was at drehkreuz1 or beyond

cvars == <<vars, bypassed>>

\* Threads that are registered in warteraum1 or warteraum2 and not yet in.
Waiting == At({"turnstile1", "room2", "relock", "leave1", "open1", "open2",
               "turnstile2", "leave2"})

ClientInit == Init /\ bypassed = [t \in Threads |-> [u \in Threads |-> 0]]

\* History: t starts from zero when it enters warteraum1, and an entry of u
\* counts against every thread that waits; more than MaxBypass is not counted.
Observe ==
    LET entered == {u \in Threads : pc[u] = "leave2" /\ pc'[u] = "critical"}
    IN  bypassed' = [t \in Threads |-> [u \in Threads |->
            IF t \notin Waiting THEN 0
            ELSE IF u \in entered /\ bypassed[t][u] <= MaxBypass
                 THEN bypassed[t][u] + 1
                 ELSE bypassed[t][u]]]

\* The critical section of a returning client: nothing shared is counted.
Use(t) ==
    /\ Goto(t, "critical", "release")
    /\ UNCHANGED <<rooms, mutex, turnstiles, critical, main>>

\* A client that is through wants the lock again.
Again(t) ==
    /\ Goto(t, "after", "acquire")
    /\ UNCHANGED <<rooms, mutex, turnstiles, critical, main>>

Client(t) == Acquire(t) \/ Use(t) \/ Release(t)

ClientNext ==
    /\ \E t \in Threads : Create(t) \/ Client(t) \/ Again(t)
    /\ Observe

\* A client need not come back: Again is not fair.
Fairness == \A t \in Threads : WF_cvars((Create(t) \/ Client(t)) /\ Observe)

ClientSpec == ClientInit /\ [][ClientNext]_cvars /\ Fairness

-----------------------------------------------------------------------------
\* A thread that has entered warteraum1 is overtaken by any other thread at
\* most MaxBypass times before it gets in, although the semaphores promise no
\* order (the question of the comment at lines 11-12).
BoundedBypass == \A t, u \in Threads : bypassed[t][u] <= MaxBypass

\* A thread that has entered warteraum1 enters the critical section, even
\* with weakly fair semaphores and clients that keep coming back.
NoStarvation ==
    \A t \in Threads : (pc[t] = "turnstile1") ~> (pc[t] = "critical")

=============================================================================
