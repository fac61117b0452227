---------------------------- MODULE MyBufferSync ----------------------------
(***************************************************************************)
(* "Kernel Modules/hw5/modules/mybuffer_sync/mybuffer_sync.c": a buffer    *)
(* device.  Readers and writers sleep on two wait queues; two atomic       *)
(* counters say how many bytes can be read and how many can be written.    *)
(* Reads exclude each other (rlock), and so do writes (wlock), but a read  *)
(* does not exclude a write.  The bytes themselves are left out: both      *)
(* copies always start at kernelmem[0].                                    *)
(***************************************************************************)
EXTENDS ThreadLabels, Semaphores, FiniteSetsExt

CONSTANTS
    Size,               \* MAX_BUFFER_SIZE
    MaxRequest          \* what the calling processes ask for, at most

Parameters == Size \in Nat \ {0} /\ MaxRequest \in Nat

VARIABLES
    want,               \* max_bytes_to_read, max_bytes_to_write
    n,                  \* to_copy, then to_copy - not_copied
    available,          \* bytes_available
    writable,           \* bytes_that_can_be_written
    rlock, wlock        \* the spin locks

calls == <<want, n>>
counts == <<available, writable>>
vars == <<pc, calls, counts, rlock, wlock>>

\* The module is loaded and the device is open.
Init ==
    /\ pc = [t \in Threads |-> "idle"]
    /\ want = [t \in Threads |-> 0] /\ n = [t \in Threads |-> 0]
    /\ available = 0 /\ writable = Size
    /\ rlock = "free" /\ wlock = "free"

\* A process calls read or write; O_NONBLOCK gives it the first test.
Enter(t, nonblocking, blocking) ==
    /\ Goto(t, "idle", nonblocking) \/ Goto(t, "idle", blocking)
    /\ \E r \in 0..MaxRequest : want' = [want EXCEPT ![t] = r]
    /\ UNCHANGED <<n, counts, rlock, wlock>>

\* The whole wait queue: the sleepers test again; the call that wakes them
\* returns, and its locals are gone.
WakeUp(t, from, asleep, test) ==
    /\ pc[t] = from
    /\ pc' = [u \in Threads |-> CASE u = t -> "idle"
                                  [] pc[u] = asleep -> test
                                  [] OTHER -> pc[u]]
    /\ want' = [want EXCEPT ![t] = 0] /\ n' = [n EXCEPT ![t] = 0]
    /\ UNCHANGED <<counts, rlock, wlock>>

-----------------------------------------------------------------------------
(* driver_read *)

CallRead(t) == Enter(t, "rcheck", "rtest")

\* -EAGAIN, or on to the wait.
CheckRead(t) ==
    /\ Goto(t, "rcheck", IF available # 0 THEN "rtest" ELSE "idle")
    /\ UNCHANGED <<calls, counts, rlock, wlock>>

\* wait_event_interruptible: on the queue before the condition is tested.
TestRead(t) ==
    /\ Goto(t, "rtest", IF available # 0 THEN "rlock" ELSE "rasleep")
    /\ UNCHANGED <<calls, counts, rlock, wlock>>

\* -ERESTARTSYS
InterruptRead(t) ==
    /\ Goto(t, "rasleep", "idle")
    /\ UNCHANGED <<calls, counts, rlock, wlock>>

LockRead(t) ==
    /\ Goto(t, "rlock", "rsize")
    /\ Lock(rlock)
    /\ UNCHANGED <<calls, counts, wlock>>

\* The bytes that were there at the test may be gone: to_copy is 0 then.
SizeRead(t) ==
    /\ Goto(t, "rsize", "rcopy")
    /\ n' = [n EXCEPT ![t] = Min({available, want[t]})]
    /\ UNCHANGED <<want, counts, rlock, wlock>>

\* copy_to_user may stop early.
CopyRead(t) ==
    /\ Goto(t, "rcopy", "rsub")
    /\ \E copied \in 0..n[t] : n' = [n EXCEPT ![t] = copied]
    /\ UNCHANGED <<want, counts, rlock, wlock>>

SubRead(t) ==
    /\ Goto(t, "rsub", "radd")
    /\ available' = available - n[t]
    /\ UNCHANGED <<calls, writable, rlock, wlock>>

\* Mutant: the bytes that were asked for, not those that were copied.
AddReadWanted(t) ==
    /\ Goto(t, "radd", "rwake")
    /\ writable' = Min({Size, writable + want[t]})
    /\ Unlock(rlock)
    /\ UNCHANGED <<calls, available, wlock>>

AddRead(t) ==
    /\ Goto(t, "radd", "rwake")
    /\ writable' = writable + n[t]
    /\ Unlock(rlock)
    /\ UNCHANGED <<calls, available, wlock>>

\* wake_up_interruptible(&wq_write)
WakeWriters(t) == WakeUp(t, "rwake", "wasleep", "wtest")

-----------------------------------------------------------------------------
(* driver_write *)

CallWrite(t) == Enter(t, "wcheck", "wtest")

CheckWrite(t) ==
    /\ Goto(t, "wcheck", IF writable # 0 THEN "wtest" ELSE "idle")
    /\ UNCHANGED <<calls, counts, rlock, wlock>>

TestWrite(t) ==
    /\ Goto(t, "wtest", IF writable # 0 THEN "wlock" ELSE "wasleep")
    /\ UNCHANGED <<calls, counts, rlock, wlock>>

InterruptWrite(t) ==
    /\ Goto(t, "wasleep", "idle")
    /\ UNCHANGED <<calls, counts, rlock, wlock>>

LockWrite(t) ==
    /\ Goto(t, "wlock", "wsize")
    /\ Lock(wlock)
    /\ UNCHANGED <<calls, counts, rlock>>

SizeWrite(t) ==
    /\ Goto(t, "wsize", "wcopy")
    /\ n' = [n EXCEPT ![t] = Min({writable, want[t]})]
    /\ UNCHANGED <<want, counts, rlock, wlock>>

CopyWrite(t) ==
    /\ Goto(t, "wcopy", "wsub")
    /\ \E copied \in 0..n[t] : n' = [n EXCEPT ![t] = copied]
    /\ UNCHANGED <<want, counts, rlock, wlock>>

SubWrite(t) ==
    /\ Goto(t, "wsub", "wadd")
    /\ writable' = writable - n[t]
    /\ UNCHANGED <<calls, available, rlock, wlock>>

AddWrite(t) ==
    /\ Goto(t, "wadd", "wwake")
    /\ available' = available + n[t]
    /\ Unlock(wlock)
    /\ UNCHANGED <<calls, writable, rlock>>

\* Mutant: wakes the queue it slept on itself.
WakeWritersInstead(t) == WakeUp(t, "wwake", "wasleep", "wtest")

\* wake_up_interruptible(&wq_read)
WakeReaders(t) == WakeUp(t, "wwake", "rasleep", "rtest")

-----------------------------------------------------------------------------
\* What a call does once it is made; a signal may or may not come.
DriverRead(t) ==
    \/ CheckRead(t) \/ TestRead(t) \/ LockRead(t) \/ SizeRead(t)
    \/ CopyRead(t) \/ SubRead(t) \/ AddRead(t) \/ WakeWriters(t)

DriverWrite(t) ==
    \/ CheckWrite(t) \/ TestWrite(t) \/ LockWrite(t) \/ SizeWrite(t)
    \/ CopyWrite(t) \/ SubWrite(t) \/ AddWrite(t) \/ WakeReaders(t)

Caller(t) ==
    CallRead(t) \/ CallWrite(t) \/ InterruptRead(t) \/ InterruptWrite(t)

Next == \E t \in Threads : Caller(t) \/ DriverRead(t) \/ DriverWrite(t)

Spec == Init /\ [][Next]_vars

-----------------------------------------------------------------------------
\* What the only call at a label carries from one counter to the other.
Carried(label) == IF At({label}) = {} THEN 0 ELSE n[CHOOSE t \in At({label}) : TRUE]

\* Every byte of the buffer can be read or can be written, or is on its way
\* between the two counters (lines 66-67 and 99-100), with one read and one
\* write at most: the two locks are enough for the counters, which never
\* underflow into a huge size_t.
Conserved ==
    /\ available \in 0..Size /\ writable \in 0..Size
    /\ \A label \in {"radd", "wadd"} : \A s, t \in At({label}) : s = t
    /\ available + writable + Carried("radd") + Carried("wadd") = Size

\* A reader sleeps while there are bytes only until the writer that has put
\* them there wakes it (lines 100-106); the same for writers.  The counters
\* are tested and changed outside any common lock.
NoLostWakeUp ==
    /\ At({"rasleep"}) # {} /\ available > 0 => At({"wwake"}) # {}
    /\ At({"wasleep"}) # {} /\ writable > 0 => At({"rwake"}) # {}

\* "This driver creates a threadsafe bufferdevice" (MODULE_DESCRIPTION): no
\* byte of kernelmem is read by copy_to_user while copy_from_user writes it.
ThreadSafe ==
    ~ \E r \in At({"rcopy"}), w \in At({"wcopy"}) : n[r] > 0 /\ n[w] > 0

=============================================================================
