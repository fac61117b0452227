------------------------------ MODULE Barrier ------------------------------
(***************************************************************************)
(* "Mutual Exclusion Problems/barrier.c": the children of main meet in     *)
(* barrier().  count is written under mutex and compared with threads      *)
(* without it (line 47), so any number of children, and not only the last  *)
(* one, may find the barrier complete and post it.                         *)
(***************************************************************************)
EXTENDS ThreadLabels, Semaphores

\* Threads are the children; main asserts that there are any.
ASSUME BarrierAssumption == Threads # {}

VARIABLES
    count,              \* children that have arrived
    mutex,              \* semaphore that protects the writes of count
    barrier,            \* semaphore the children wait for
    main                \* "running" until main has joined every child

vars == <<pc, count, mutex, barrier, main>>

Labels == {"new", "before", "arrive", "count", "check", "open", "wait",
           "pass", "after"}

\* Mutant: the barrier starts open.
InitOpen ==
    /\ pc = [t \in Threads |-> "new"]
    /\ count = 0 /\ mutex = 1 /\ barrier = 1
    /\ main = "running"

Init ==
    /\ pc = [t \in Threads |-> "new"]
    /\ count = 0 /\ mutex = 1 /\ barrier = 0
    /\ main = "running"

-----------------------------------------------------------------------------
(* child: the message, then barrier() *)

Before(t) ==
    /\ Goto(t, "before", "arrive")
    /\ UNCHANGED <<count, mutex, barrier, main>>

LockCount(t) ==
    /\ Goto(t, "arrive", "count")
    /\ Wait(mutex)
    /\ UNCHANGED <<count, barrier, main>>

Count(t) ==
    /\ Goto(t, "count", "check")
    /\ count' = count + 1
    /\ Post(mutex)
    /\ UNCHANGED <<barrier, main>>

\* Mutant: off by one, the last child is not waited for.
CheckEarly(t) ==
    /\ Goto(t, "check", IF count >= Cardinality(Threads) - 1 THEN "open" ELSE "wait")
    /\ UNCHANGED <<count, mutex, barrier, main>>

\* Reads count after mutex was given back: others may have counted since.
Check(t) ==
    /\ Goto(t, "check", IF count = Cardinality(Threads) THEN "open" ELSE "wait")
    /\ UNCHANGED <<count, mutex, barrier, main>>

Open(t) ==
    /\ Goto(t, "open", "wait")
    /\ Post(barrier)
    /\ UNCHANGED <<count, mutex, main>>

WaitBarrier(t) ==
    /\ Goto(t, "wait", "pass")
    /\ Wait(barrier)
    /\ UNCHANGED <<count, mutex, main>>

\* Mutant: without the sem_post of line 52 ("so no deadlock will occur").
PassAlone(t) ==
    /\ Goto(t, "pass", "after")
    /\ UNCHANGED <<count, mutex, barrier, main>>

\* The post that lets the next child through, and the "after" message.
PassOn(t) ==
    /\ Goto(t, "pass", "after")
    /\ Post(barrier)
    /\ UNCHANGED <<count, mutex, main>>

-----------------------------------------------------------------------------
(* main: the children's identities do not matter, so neither does their order *)

Create(t) ==
    /\ Goto(t, "new", "before")
    /\ UNCHANGED <<count, mutex, barrier, main>>

JoinAll ==
    /\ main = "running"
    /\ \A t \in Threads : pc[t] = "after"
    /\ main' = "ended"
    /\ UNCHANGED <<pc, count, mutex, barrier>>

Child(t) ==
    \/ Before(t) \/ LockCount(t) \/ Count(t) \/ Check(t)
    \/ Open(t) \/ WaitBarrier(t) \/ PassOn(t)

Main == JoinAll \/ \E t \in Threads : Create(t)

Terminated == main = "ended" /\ UNCHANGED vars

Next == Main \/ (\E t \in Threads : Child(t)) \/ Terminated

Spec == Init /\ [][Next]_vars

\* Every thread that can run does; semaphores serve waiters in any order.
FairSpec == Spec /\ WF_vars(Main) /\ \A t \in Threads : WF_vars(Child(t))

-----------------------------------------------------------------------------
Uncounted == {"new", "before", "arrive", "count"}
Through == {"pass", "after"}

TypeOK ==
    /\ pc \in [Threads -> Labels]
    /\ count \in Nat /\ mutex \in Nat /\ barrier \in Nat
    /\ main \in {"running", "ended"}

\* The barrier opens only when every child has counted itself, whoever sees
\* it (lines 45-49).
OpensLate ==
    (barrier > 0 \/ At({"open"} \cup Through) # {}) => At(Uncounted) = {}

\* Somebody will open the barrier: when all have counted, it is open, or a
\* child is passing it on, or one has yet to compare or to post.  The check
\* without the mutex (line 47) loses no wake-up.
NotForgotten ==
    At(Uncounted) = {} => barrier > 0 \/ At({"check", "open", "pass"}) # {}

\* Each child that went through leaves the barrier open behind it (line 52),
\* and however many children find the count complete, every child posts the
\* barrier on balance at most once.
StaysOpen ==
    /\ At(Through) # {} => barrier + Cardinality(At({"pass"})) > 0
    /\ barrier + Cardinality(At(Labels \ {"wait", "after"})) <= Cardinality(Threads)

\* mutex makes count++ exclusive, so every arrival is counted (lines 44-46).
CountExact ==
    /\ \A s, t \in At({"count"}) : s = t
    /\ count + Cardinality(At(Uncounted)) = Cardinality(Threads)

\* Nobody passes too early and nobody is left behind, whoever finds the count
\* complete in the comparison of line 47, outside the mutex.
BarrierSafe == OpensLate /\ NotForgotten /\ StaysOpen /\ CountExact

arrived == At(Labels \ {"new", "before"})
departed == At({"after"})

R == INSTANCE Rendezvous

\* All "before" messages precede all "after" messages (comment, lines 11-12).
Implements == R!Spec

\* main joins all children.
Termination == <>(main = "ended")

=============================================================================
