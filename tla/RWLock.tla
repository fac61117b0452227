------------------------------- MODULE RWLock -------------------------------
(***************************************************************************)
(* What a reader/writer lock promises, in the words of the header comments *)
(* of reader-writer.c and reader-writer-nostarve.c: any number of readers  *)
(* in the critical section, only one writer, and never both.               *)
(***************************************************************************)
CONSTANTS Readers, Writers

VARIABLES reading, writing      \* who is in the critical section

vars == <<reading, writing>>

Init == reading = {} /\ writing = {}

BeginRead(r) ==
    /\ r \notin reading /\ writing = {}
    /\ reading' = reading \cup {r}
    /\ UNCHANGED writing

EndRead(r) ==
    /\ r \in reading
    /\ reading' = reading \ {r}
    /\ UNCHANGED writing

BeginWrite(w) ==
    /\ reading = {} /\ writing = {}
    /\ writing' = {w}
    /\ UNCHANGED reading

EndWrite(w) ==
    /\ writing = {w}
    /\ writing' = {}
    /\ UNCHANGED reading

Next ==
    \/ \E r \in Readers : BeginRead(r) \/ EndRead(r)
    \/ \E w \in Writers : BeginWrite(w) \/ EndWrite(w)

Spec == Init /\ [][Next]_vars

=============================================================================
