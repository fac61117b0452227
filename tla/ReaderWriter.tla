---------------------------- MODULE ReaderWriter ----------------------------
(***************************************************************************)
(* "Mutual Exclusion Problems/reader-writer.c": the first reader takes     *)
(* writelock for all of them and the last one gives it back; readers is    *)
(* protected by the semaphore mutex, which the first reader keeps while it *)
(* waits for writelock.                                                    *)
(*                                                                         *)
(* Within a section protected by mutex, the plain accesses and the posts   *)
(* that end it are one step: nobody can see a state in between.            *)
(***************************************************************************)
EXTENDS ThreadLabels, Semaphores

CONSTANTS
    Writers,            \* the threads of main's second creation loop
    Loops               \* how often each thread takes the lock

ASSUME ReaderWriterAssumption ==
    Writers \subseteq Threads /\ Loops \in Nat

VARIABLES
    i,                  \* each thread's loop counter
    readers,            \* readers that are in, or about to be
    mutex, writelock,   \* the semaphores
    value, reg,         \* the shared counter; a writer's copy between load and store
    main                \* "running" until main has joined everybody

Readers == Threads \ Writers

locks == <<mutex, writelock>>
data == <<value, reg>>
vars == <<pc, i, readers, locks, data, main>>

ReaderLabels == {"entry", "count", "first", "read", "leave", "uncount"}
WriterLabels == {"wentry", "load", "store", "print", "wrelease"}
Labels == {"new", "idle", "after"} \cup ReaderLabels \cup WriterLabels

\* Mutant: the semaphore writelock lets two in.
InitTwo ==
    /\ pc = [t \in Threads |-> "new"] /\ i = [t \in Threads |-> 0]
    /\ readers = 0 /\ mutex = 1 /\ writelock = 2
    /\ value = 0 /\ reg = [t \in Threads |-> 0]
    /\ main = "running"

Init ==
    /\ pc = [t \in Threads |-> "new"] /\ i = [t \in Threads |-> 0]
    /\ readers = 0 /\ mutex = 1 /\ writelock = 1
    /\ value = 0 /\ reg = [t \in Threads |-> 0]
    /\ main = "running"

-----------------------------------------------------------------------------
(* reader: rwlock_acquire_readlock, the access, rwlock_release_readlock *)

BeginRead(t) ==
    /\ t \in Readers /\ i[t] < Loops
    /\ Goto(t, "idle", "entry")
    /\ UNCHANGED <<i, readers, locks, data, main>>

LockReaders(t) ==
    /\ Goto(t, "entry", "count")
    /\ Wait(mutex)
    /\ UNCHANGED <<i, readers, writelock, data, main>>

CountIn(t) ==
    /\ readers' = readers + 1
    /\ \/ readers' = 1 /\ Goto(t, "count", "first") /\ UNCHANGED mutex
       \/ readers' # 1 /\ Goto(t, "count", "read") /\ Post(mutex)
    /\ UNCHANGED <<i, writelock, data, main>>

\* The first reader waits for the writer while it keeps mutex.
TakeWritelock(t) ==
    /\ Goto(t, "first", "read")
    /\ Wait(writelock)
    /\ Post(mutex)
    /\ UNCHANGED <<i, readers, data, main>>

Read(t) ==
    /\ Goto(t, "read", "leave")
    /\ UNCHANGED <<i, readers, locks, data, main>>

LockLeave(t) ==
    /\ Goto(t, "leave", "uncount")
    /\ Wait(mutex)
    /\ UNCHANGED <<i, readers, writelock, data, main>>

\* Mutant: the reader does not sign off.
LeaveUncounted(t) ==
    /\ Goto(t, "uncount", "idle")
    /\ Post(mutex)
    /\ i' = [i EXCEPT ![t] = @ + 1]
    /\ UNCHANGED <<readers, writelock, data, main>>

\* Mutant: the last reader keeps writelock.
LeaveKeeping(t) ==
    /\ Goto(t, "uncount", "idle")
    /\ readers' = readers - 1
    /\ Post(mutex)
    /\ i' = [i EXCEPT ![t] = @ + 1]
    /\ UNCHANGED <<writelock, data, main>>

Leave(t) ==
    /\ Goto(t, "uncount", "idle")
    /\ readers' = readers - 1
    /\ IF readers' = 0 THEN Post(writelock) ELSE UNCHANGED writelock
    /\ Post(mutex)
    /\ i' = [i EXCEPT ![t] = @ + 1]
    /\ UNCHANGED <<data, main>>

ReadSection(t) ==
    \/ LockReaders(t) \/ CountIn(t) \/ TakeWritelock(t)
    \/ Read(t) \/ LockLeave(t) \/ Leave(t)

-----------------------------------------------------------------------------
(* writer: rwlock_acquire_writelock, value++, rwlock_release_writelock *)

BeginWrite(t) ==
    /\ t \in Writers /\ i[t] < Loops
    /\ Goto(t, "idle", "wentry")
    /\ UNCHANGED <<i, readers, locks, data, main>>

AcquireWrite(t) ==
    /\ Goto(t, "wentry", "load")
    /\ Wait(writelock)
    /\ UNCHANGED <<i, readers, mutex, data, main>>

Load(t) ==
    /\ Goto(t, "load", "store")
    /\ reg' = [reg EXCEPT ![t] = value]
    /\ UNCHANGED <<i, readers, locks, value, main>>

Store(t) ==
    /\ Goto(t, "store", "print")
    /\ value' = reg[t] + 1
    /\ UNCHANGED <<i, readers, locks, reg, main>>

PrintValue(t) ==
    /\ Goto(t, "print", "wrelease")
    /\ UNCHANGED <<i, readers, locks, data, main>>

ReleaseWrite(t) ==
    /\ Goto(t, "wrelease", "idle")
    /\ Post(writelock)
    /\ i' = [i EXCEPT ![t] = @ + 1]
    /\ UNCHANGED <<readers, mutex, data, main>>

WriteSection(t) == AcquireWrite(t) \/ Load(t) \/ Store(t) \/ ReleaseWrite(t)

-----------------------------------------------------------------------------
(* the loops' ends, and main *)

Finish(t) ==
    /\ i[t] >= Loops
    /\ Goto(t, "idle", "after")
    /\ UNCHANGED <<i, readers, locks, data, main>>

Create(t) ==
    /\ Goto(t, "new", "idle")
    /\ UNCHANGED <<i, readers, locks, data, main>>

\* Mutant: main joins the readers only.
JoinReaders ==
    /\ main = "running"
    /\ \A t \in Readers : pc[t] = "after"
    /\ main' = "ended"
    /\ UNCHANGED <<pc, i, readers, locks, data>>

JoinAll ==
    /\ main = "running"
    /\ \A t \in Threads : pc[t] = "after"
    /\ main' = "ended"
    /\ UNCHANGED <<pc, i, readers, locks, data>>

Main == JoinAll \/ \E t \in Threads : Create(t)

Thread(t) ==
    \/ BeginRead(t) \/ ReadSection(t)
    \/ BeginWrite(t) \/ WriteSection(t) \/ PrintValue(t)
    \/ Finish(t)

Terminated == main = "ended" /\ UNCHANGED vars

Next == Main \/ (\E t \in Threads : Thread(t)) \/ Terminated

Spec == Init /\ [][Next]_vars

FairSpec == Spec /\ WF_vars(Main) /\ \A t \in Threads : WF_vars(Thread(t))

-----------------------------------------------------------------------------
TypeOK ==
    /\ pc \in [Threads -> Labels]
    /\ i \in [Threads -> 0..Loops]
    /\ \A t \in At(ReaderLabels) : t \in Readers /\ i[t] < Loops
    /\ \A t \in At(WriterLabels) : t \in Writers /\ i[t] < Loops
    /\ readers \in Int /\ mutex \in Nat /\ writelock \in Nat
    /\ value \in Nat /\ reg \in [Threads -> Nat]
    /\ main \in {"running", "ended"}

\* Past rwlock_acquire and not yet through with rwlock_release.
Reading == At({"read", "leave", "uncount"})
Writing == At({"load", "store", "print", "wrelease"})

\* readers is the number of readers registered, and mutex is what makes
\* readers++ and readers-- exclusive (lines 29-35 and 39-45).
ReadersExact ==
    /\ readers = Cardinality(At({"first", "read", "leave", "uncount"}))
    /\ \A s, t \in At({"count", "first", "uncount"}) : s = t /\ mutex = 0

\* writelock is free, with one writer, or with the readers as a group: the
\* first and the last of them are recognised however they overtake each other.
OneSide ==
    writelock + Cardinality(Writing) + (IF Reading # {} THEN 1 ELSE 0) = 1

\* While the first reader waits for writelock, nobody is left among the
\* readers who would need the mutex it keeps in order to leave (line 33).
FirstWaitsForWriters == At({"first"}) # {} => Reading = {}

\* One side at a time, with an exact count and no reader locked in by the one
\* that keeps mutex while it waits for writelock.
LockSound == ReadersExact /\ OneSide /\ FirstWaitsForWriters

\* No write is lost: the value printed at the end is the number of writes
\* (line 109).
ValueExact == main = "ended" => value = Loops * Cardinality(Writers)

reading == Reading
writing == Writing

RW == INSTANCE RWLock

\* Any number of readers, one writer, never both (comment, lines 10-11).
Implements == RW!Spec

\* Readers and writers all finish their loops, and main ends.
Termination == <>(main = "ended")

=============================================================================
