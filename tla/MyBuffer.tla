------------------------------ MODULE MyBuffer ------------------------------
(***************************************************************************)
(* "Kernel Modules/hw4/modules/mybuffer/mybuffer.c": a buffer that keeps   *)
(* the last write.  Readers sleep while it is empty; nothing serialises    *)
(* readers and writers.  Both copies start at buffer->buffer[0].           *)
(***************************************************************************)
EXTENDS ThreadLabels, Integers, FiniteSetsExt

CONSTANTS
    Size,               \* MAX_BUFFER_SIZE
    MaxRequest,         \* what the calling processes ask for, at most
    Word,               \* the values of a size_t: 2^64
    MaxOffset           \* of a file: a bound

Parameters ==
    /\ Size \in Nat /\ MaxRequest \in Nat
    /\ MaxOffset \in Nat /\ MaxOffset > Size /\ Word \in Nat /\ Word > MaxOffset + MaxRequest

VARIABLES
    n,                  \* count, then to_copy
    offset,             \* of the file of each process
    length,             \* buffer->length
    shrunk              \* a write has left less than the one before

vars == <<pc, n, offset, length, shrunk>>

Init ==
    /\ pc = [t \in Threads |-> "idle"]
    /\ n = [t \in Threads |-> 0]
    /\ offset = [t \in Threads |-> 0]
    /\ length = 0 /\ shrunk = FALSE

\* A process calls a function of the driver.
Call(t, function) ==
    /\ Goto(t, "idle", function)
    /\ \E r \in 0..MaxRequest : n' = [n EXCEPT ![t] = r]
    /\ UNCHANGED <<offset, length, shrunk>>

\* A call returns, and its locals are gone.
Locals(t) == n' = [n EXCEPT ![t] = 0]

\* close and open again: a new file.
Reopen(t) ==
    /\ Goto(t, "idle", "idle")
    /\ offset' = [offset EXCEPT ![t] = 0]
    /\ UNCHANGED <<n, length, shrunk>>

-----------------------------------------------------------------------------
(* driver_read *)

CallRead(t) == Call(t, "rtest")

\* wait_event_interruptible: on the queue before BUFFER_FILLED is tested.
TestRead(t) ==
    /\ Goto(t, "rtest", IF length # 0 THEN "rsize" ELSE "rasleep")
    /\ UNCHANGED <<n, offset, length, shrunk>>

\* -ERESTARTSYS
InterruptRead(t) ==
    /\ Goto(t, "rasleep", "idle")
    /\ Locals(t)
    /\ UNCHANGED <<offset, length, shrunk>>

\* Mutant: the offset is forgotten.
SizeReadWhole(t) ==
    /\ Goto(t, "rsize", "rcopy")
    /\ n' = [n EXCEPT ![t] = Min({length, n[t]})]
    /\ UNCHANGED <<offset, length, shrunk>>

\* Unsigned: beyond the length, the difference is huge.
SizeRead(t) ==
    /\ Goto(t, "rsize", "rcopy")
    /\ n' = [n EXCEPT ![t] = Min({(length - offset[t]) % Word, n[t]})]
    /\ UNCHANGED <<offset, length, shrunk>>

\* All of it, or -EFAULT.
CopyRead(t) ==
    /\ Goto(t, "rcopy", "idle")
    /\ offset' = [offset EXCEPT ![t] = offset[t] + n[t]] \/ UNCHANGED offset
    /\ offset'[t] <= MaxOffset
    /\ Locals(t)
    /\ UNCHANGED <<length, shrunk>>

-----------------------------------------------------------------------------
(* driver_write *)

CallWrite(t) == Call(t, "wcopy")

\* copy_from_user may stop early.
CopyWrite(t) ==
    /\ Goto(t, "wcopy", "wlength")
    /\ \E copied \in 0..Min({n[t], Size}) : n' = [n EXCEPT ![t] = copied]
    /\ UNCHANGED <<offset, length, shrunk>>

SetLength(t) ==
    /\ Goto(t, "wlength", "wwake")
    /\ length' = n[t]
    /\ shrunk' = (shrunk \/ n[t] < length)
    /\ UNCHANGED <<n, offset>>

\* wake_up_interruptible(&wq_read)
WakeReaders(t) ==
    /\ pc[t] = "wwake"
    /\ pc' = [u \in Threads |-> CASE u = t -> "idle"
                                  [] pc[u] = "rasleep" -> "rtest"
                                  [] OTHER -> pc[u]]
    /\ Locals(t)
    /\ UNCHANGED <<offset, length, shrunk>>

Next ==
    \E t \in Threads :
        \/ Reopen(t)
        \/ CallRead(t) \/ TestRead(t) \/ InterruptRead(t) \/ SizeRead(t) \/ CopyRead(t)
        \/ CallWrite(t) \/ CopyWrite(t) \/ SetLength(t) \/ WakeReaders(t)

-----------------------------------------------------------------------------
\* A read copies no more than the buffer holds, and its offset stays within
\* what was written, unless a write has made it shorter (line 156 then wraps).
InBounds ==
    ~shrunk =>
        /\ \A t \in At({"rcopy"}) : offset[t] + n[t] <= length /\ length <= Size
        /\ \A t \in Threads : offset[t] <= length

\* A reader sleeps on a full buffer only until the writer wakes it.
NoLostWakeUp == At({"rasleep"}) # {} /\ length # 0 => At({"wwake"}) # {}

=============================================================================
