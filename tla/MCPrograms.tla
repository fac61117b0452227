----------------------------- MODULE MCPrograms -----------------------------
(***************************************************************************)
(* One of the programs that create a few threads, join them and print: the *)
(* small ones, linked-list.c, sloppy-counter.c, or queue.c (whose names    *)
(* are here without a prefix).                                             *)
(***************************************************************************)
EXTENDS TwoLockQueue

CONSTANTS Loop, MaxSpurious, MaxAdd, Threshold, MaxIncrement

VARIABLES
    started,
    program, at, holder, semaphore, copy, done, asleep, spurious, printed,
    current, previous, lock,
    id, tw, local, locallock, globallock, created, result, value

Locks == INSTANCE LockPrograms
Linked == INSTANCE LinkedList
Sloppy == INSTANCE SloppyCounter WITH k <- created

ASSUME ParametersAssumption ==
    Locks!Parameters /\ Linked!Parameters /\ Sloppy!Parameters

\* What the programs share, and what each has alone.
shared == <<pc, i, main>>
heapVars == <<allocated, next, head>>
queueVars == <<node, newHead, tail, headlock, taillock>>
lockVars == <<program, at, holder, semaphore, copy, done, asleep, spurious, printed>>
listVars == <<current, previous, lock>>
sloppyVars == <<id, tw, local, locallock, globallock, created, result>>
allVars == <<started, shared, heapVars, queueVars, lockVars, listVars, sloppyVars, value>>

\* The variables of the programs that were not started.
NoHeap == allocated = {} /\ head = NULL /\ next = [n \in {NULL} |-> NULL]

NoQueue ==
    /\ node = <<>> /\ newHead = <<>> /\ tail = NULL
    /\ headlock = "none" /\ taillock = "none"

NoLocks ==
    /\ program = "none" /\ at = <<>> /\ holder = <<>> /\ semaphore = <<>> /\ copy = <<>>
    /\ done = FALSE /\ asleep = {} /\ spurious = 0 /\ printed = {}

NoList == current = <<>> /\ previous = <<>> /\ lock = <<>>

NoSloppy ==
    /\ id = <<>> /\ tw = 0 /\ local = <<>> /\ locallock = <<>> /\ globallock = "none"
    /\ created = 0 /\ result = 0

Start ==
    \/ /\ started = "locks" /\ Locks!Init /\ NoHeap /\ NoQueue /\ NoList /\ NoSloppy
       /\ pc = <<>> /\ i = <<>> /\ main = "none"
    \/ started = "queue" /\ Init /\ NoLocks /\ NoList /\ NoSloppy /\ value = 0
    \/ started = "list" /\ Linked!Init /\ NoQueue /\ NoLocks /\ NoSloppy /\ value = 0
    \/ started = "sloppy" /\ Sloppy!Init /\ NoHeap /\ NoQueue /\ NoLocks /\ NoList

LockStep ==
    /\ started = "locks" /\ Locks!Next
    /\ UNCHANGED <<started, shared, heapVars, queueVars, listVars, sloppyVars>>

QueueStep ==
    /\ started = "queue" /\ Next
    /\ UNCHANGED <<started, lockVars, listVars, sloppyVars, value>>

ListStep ==
    /\ started = "list" /\ Linked!Next
    /\ UNCHANGED <<started, queueVars, lockVars, sloppyVars, value>>

SloppyStep ==
    /\ started = "sloppy" /\ Sloppy!Next
    /\ UNCHANGED <<started, heapVars, queueVars, lockVars, listVars>>

Steps == LockStep \/ QueueStep \/ ListStep \/ SloppyStep

\* The scheduler leaves out no thread that can go on.
Fairness ==
    /\ \A t \in 1..(Loop + 3) : WF_<<lockVars, value>>(started = "locks" /\ Locks!Run(t))
    /\ WF_vars(started = "queue" /\ Main)
    /\ WF_<<listVars, heapVars, shared>>(started = "list" /\ Linked!Main)
    /\ WF_<<sloppyVars, value, shared>>(started = "sloppy" /\ Sloppy!Main)
    /\ \A t \in Threads :
        /\ WF_vars(started = "queue" /\ EnqueueWrapper(t))
        /\ WF_<<listVars, heapVars, shared>>(started = "list" /\ Linked!Thread(t))
        /\ WF_<<sloppyVars, value, shared>>(started = "sloppy" /\ Sloppy!Increment(t))

Programs == Start /\ [][Steps]_allVars /\ Fairness

-----------------------------------------------------------------------------
\* No node of the queue's heap or of the list is lost, and no increment of the
\* sloppy counter.
NothingLost ==
    /\ started = "queue" => HeapSound
    /\ started = "list" => Linked!NothingLost /\ Linked!LocksOwned
    /\ started = "sloppy" => Sloppy!Conserved

\* What sloppy-counter.c prints is too little by a bounded amount.
Sloppiness == started = "sloppy" => Sloppy!Batches /\ Sloppy!Sloppiness

\* What the small programs print is right: the number of increments, and "first"
\* before "last", though main may wake up for no reason.
PrintsTrue == started = "locks" => Locks!CountersExact /\ Locks!InOrder

\* Enqueues, dequeues and appends happen at one instant each, at the ends of a
\* queue.
IsQueue == Implements

\* Neither child of rendezvous.c is past the rendezvous before both are there.
Meets == Locks!Meets

\* Every program ends, but for the deadlock that main-deadlock.c demonstrates.
Termination ==
    <>CASE started = "locks" -> Locks!Done
        [] started \in {"queue", "list", "sloppy"} -> main = "ended"

=============================================================================
