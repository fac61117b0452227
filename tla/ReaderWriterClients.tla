------------------------- MODULE ReaderWriterClients -------------------------
(***************************************************************************)
(* The lock of reader-writer-nostarve.c under threads that start their     *)
(* loops over (an external caller), and the history needed to say what the *)
(* header comment promises the writers.                                    *)
(***************************************************************************)
EXTENDS ReaderWriterNoStarve

VARIABLES
    overtakers,         \* readers that entered while the present writer waits
    owed                \* the last reader left while a writer was waiting

cvars == <<nvars, overtakers, owed>>

ClientInit == NSInit /\ overtakers = {} /\ owed = FALSE

\* The threads that enter the critical section in this step.
Entering == {t \in Threads : t \notin Reading \cup Writing
                             /\ pc'[t] \in {"read", "load"}}

Observe ==
    /\ overtakers' = IF At({"wentry"}) = {} THEN {}
                     ELSE overtakers \cup (Entering \cap Readers)
    /\ owed' = IF Entering # {} THEN FALSE
               ELSE owed \/ (Reading # {} /\ Reading' = {} /\ At({"wentry"}) # {})

\* A thread whose loop is done starts it again.
Again(t) ==
    /\ Goto(t, "after", "idle")
    /\ i' = [i EXCEPT ![t] = 0]
    /\ UNCHANGED <<readers, locks, data, main, turnstile>>

\* A write that does not count: the value is not what these runs are about.
Overwrite(t) ==
    /\ Goto(t, "store", "print")
    /\ UNCHANGED <<i, readers, locks, data, main, turnstile>>

Locking(t) ==
    /\ ReadSection(t) \/ AcquireWrite(t) \/ Load(t) \/ ReleaseWrite(t)
       \/ Create(t) \/ Finish(t)
    /\ UNCHANGED turnstile

Client(t) == Turnstile(t) \/ Locking(t) \/ Overwrite(t)

ClientNext == (\E t \in Threads : Client(t) \/ Again(t)) /\ Observe

\* A thread need not come back: Again is not fair.
Fairness == \A t \in Threads : WF_cvars(Client(t) /\ Observe)

ClientSpec == ClientInit /\ [][ClientNext]_cvars /\ Fairness

-----------------------------------------------------------------------------
\* While a writer waits for writelock, each reader enters at most once: the
\* ones that were through the turnstile before it (lines 39-46 and 62-63).
BoundedOvertaking ==
    [][\A r \in Readers : (At({"wentry"}) # {} /\ r \in Entering) => r \notin overtakers]_cvars

\* A writer that has the turnstile gets to write, though the threads come
\* back for ever and the semaphores are only weakly fair ("No starve").
WriterEnters == \A w \in Writers : (pc[w] = "wentry") ~> (pc[w] = "load")

\* "When last reader leaves critical section, one writer enters next."
\* (comment, line 17)
WriterEntersNext ==
    [][owed => Entering \cap Readers = {}]_cvars

=============================================================================
