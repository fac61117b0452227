--------------------------- MODULE SloppyCounter ---------------------------
(***************************************************************************)
(* "Multithreaded Datastructures/sloppy-counter.c": a thread counts in a   *)
(* local counter and adds it to the global one when it has reached the     *)
(* threshold.  main passes every thread a pointer to the same loop-local   *)
(* struct tw (lines 75-80), and a thread reads its id from there before    *)
(* each increment: threads end up with one another's local counters, so    *)
(* that the local locks are needed after all.                              *)
(***************************************************************************)
EXTENDS ThreadLabels, Semaphores, FiniteSetsExt

CONSTANTS
    Threshold,          \* THRESHOLD
    MaxIncrement        \* MAX: increments of each thread

\* The threads are the indices of local[] and locallock[].
Parameters ==
    /\ Threads = 0..(Cardinality(Threads) - 1)
    /\ Threshold \in Nat \ {0} /\ MaxIncrement \in Nat

VARIABLES
    i,                  \* loop counter of each thread
    id,                 \* increment's threadId
    tw,                 \* tw.id: main's stack slot, the same in each iteration
    local, locallock,
    value, globallock,
    main, k,            \* main's next step and its loop counter
    result              \* what main prints

counter == <<local, locallock, value, globallock>>
mainVars == <<main, k, tw, result>>
vars == <<pc, i, id, counter, mainVars>>

\* init.  No thread reads tw before main has written it.
Init ==
    /\ pc = [t \in Threads |-> "new"] /\ i = [t \in Threads |-> 0]
    /\ id = [t \in Threads |-> 0]
    /\ local = [t \in Threads |-> 0] /\ locallock = [t \in Threads |-> "free"]
    /\ value = 0 /\ globallock = "free"
    /\ main = "argument" /\ k = 0 /\ tw = 0 /\ result = 0

-----------------------------------------------------------------------------
(* incrementWrapper and increment *)

\* thread->id is read anew for each increment, whatever main has put there.
ReadId(t) ==
    /\ i[t] < MaxIncrement
    /\ Goto(t, "loop", "lockLocal")
    /\ id' = [id EXCEPT ![t] = tw]
    /\ UNCHANGED <<i, counter, mainVars>>

\* Mutant: without the local lock ("every thread has a counter of its own").
LockLocalNot(t) ==
    /\ Goto(t, "lockLocal", "add")
    /\ UNCHANGED <<i, id, counter, mainVars>>

LockLocal(t) ==
    /\ Goto(t, "lockLocal", "add")
    /\ locallock[id[t]] = "free"
    /\ locallock' = [locallock EXCEPT ![id[t]] = "held"]
    /\ UNCHANGED <<i, id, local, value, globallock, mainVars>>

Add(t) ==
    /\ local' = [local EXCEPT ![id[t]] = @ + 1]
    /\ Goto(t, "add", IF local'[id[t]] >= Threshold THEN "lockGlobal" ELSE "unlock")
    /\ UNCHANGED <<i, id, locallock, value, globallock, mainVars>>

LockGlobal(t) ==
    /\ Goto(t, "lockGlobal", "flush")
    /\ Lock(globallock)
    /\ UNCHANGED <<i, id, local, locallock, value, mainVars>>

Flush(t) ==
    /\ Goto(t, "flush", "reset")
    /\ value' = value + local[id[t]]
    /\ Unlock(globallock)
    /\ UNCHANGED <<i, id, local, locallock, mainVars>>

\* Mutant: the local counter keeps what has been added to the global one.
ResetNot(t) ==
    /\ Goto(t, "reset", "unlock")
    /\ UNCHANGED <<i, id, counter, mainVars>>

\* After the global lock is given back: only the local one protects this.
Reset(t) ==
    /\ Goto(t, "reset", "unlock")
    /\ local' = [local EXCEPT ![id[t]] = 0]
    /\ UNCHANGED <<i, id, locallock, value, globallock, mainVars>>

UnlockLocal(t) ==
    /\ Goto(t, "unlock", "loop")
    /\ locallock' = [locallock EXCEPT ![id[t]] = "free"]
    /\ i' = [i EXCEPT ![t] = @ + 1]
    /\ UNCHANGED <<id, local, value, globallock, mainVars>>

Finish(t) ==
    /\ i[t] >= MaxIncrement
    /\ Goto(t, "loop", "after")
    /\ UNCHANGED <<i, id, counter, mainVars>>

-----------------------------------------------------------------------------
(* main *)

\* tw.id = i overwrites what the threads created so far point to.
SetArgument ==
    /\ main = "argument" /\ k < Cardinality(Threads)
    /\ tw' = k /\ main' = "create"
    /\ UNCHANGED <<pc, i, id, counter, k, result>>

Create ==
    /\ main = "create"
    /\ Goto(k, "new", "loop")
    /\ k' = k + 1 /\ main' = "argument"
    /\ UNCHANGED <<i, id, counter, tw, result>>

JoinAll ==
    /\ main = "argument" /\ k = Cardinality(Threads)
    /\ \A t \in Threads : pc[t] = "after"
    /\ main' = "get"
    /\ UNCHANGED <<pc, i, id, counter, k, tw, result>>

\* get: the lock, the read and the unlock.
Get ==
    /\ main = "get" /\ globallock = "free"
    /\ result' = value /\ main' = "ended"
    /\ UNCHANGED <<pc, i, id, counter, k, tw>>

Increment(t) ==
    \/ ReadId(t) \/ LockLocal(t) \/ Add(t) \/ LockGlobal(t)
    \/ Flush(t) \/ Reset(t) \/ UnlockLocal(t) \/ Finish(t)

Main == SetArgument \/ Create \/ JoinAll \/ Get

Terminated == main = "ended" /\ UNCHANGED vars

Next == Main \/ (\E t \in Threads : Increment(t)) \/ Terminated

Spec == Init /\ [][Next]_vars

\* The scheduler leaves out no thread that can go on.
Fairness == WF_vars(Main) /\ \A t \in Threads : WF_vars(Increment(t))

-----------------------------------------------------------------------------
SumOver(f) == MapThenSumSet(LAMBDA t : f[t], Threads)

\* No increment is lost and none is counted twice: what has been added is in
\* the global counter or in a local one; a local counter that has been added
\* to the global one and not yet been reset (lines 39-41) is in both.
Conserved ==
    LET added == SumOver(i)
                 + Cardinality(At({"lockGlobal", "flush", "reset", "unlock"}))
        twice == MapThenSumSet(LAMBDA t : local[id[t]], At({"reset"}))
    IN  value + SumOver(local) - twice = added

\* The global counter grows by whole batches, and a counter nobody is working
\* on is below the threshold, so that what get() misses is bounded.
Batches ==
    /\ value % Threshold = 0
    /\ \A c \in Threads : locallock[c] = "free" => local[c] < Threshold

\* How sloppy the counter is: main prints at most Threshold - 1 too little for
\* every local counter, and never too much.
Sloppiness ==
    main = "ended" =>
        LET exact == Cardinality(Threads) * MaxIncrement
        IN  /\ result <= exact
            /\ result + Cardinality(Threads) * (Threshold - 1) >= exact

=============================================================================
