----------------------------- MODULE LinkedList -----------------------------
(***************************************************************************)
(* "Multithreaded Datastructures/linked-list.c": threads append to a list  *)
(* with a lock per node.  A thread walks to the end hand over hand: it     *)
(* locks the next node before it unlocks the one it is on.  Nodes are      *)
(* never freed, and the head node holds no value.                          *)
(***************************************************************************)
EXTENDS ThreadLabels, Sequences

CONSTANTS
    Nodes, NULL,        \* what initNode can return, and the null pointer
    MaxAdd              \* MAX: how often each thread appends

Parameters ==
    /\ NULL \notin Nodes /\ IsFiniteSet(Nodes) /\ MaxAdd \in Nat
    /\ Cardinality(Nodes) > MaxAdd * Cardinality(Threads)

VARIABLES
    i,                  \* loop counter of each thread
    current, previous,  \* addToList's local pointers
    allocated, next,    \* the heap
    lock,               \* each node's mutex
    head,
    main                \* "running" until main has joined everybody

vars == <<pc, i, current, previous, allocated, next, lock, head, main>>

\* initList
Init ==
    /\ pc = [t \in Threads |-> "new"] /\ i = [t \in Threads |-> 0]
    /\ current = [t \in Threads |-> NULL] /\ previous = [t \in Threads |-> NULL]
    /\ \E n \in Nodes : head = n /\ allocated = {n}
    /\ next = [n \in Nodes |-> NULL] /\ lock = [n \in Nodes |-> "free"]
    /\ main = "running"

LockNode(n) == lock[n] = "free" /\ lock' = [lock EXCEPT ![n] = "held"]
UnlockNode(n) == lock' = [lock EXCEPT ![n] = "free"]

-----------------------------------------------------------------------------
(* addToList *)

AddToList(t) ==
    /\ i[t] < MaxAdd
    /\ Goto(t, "loop", "lockHead")
    /\ current' = [current EXCEPT ![t] = head]
    /\ UNCHANGED <<i, previous, allocated, next, lock, head, main>>

LockHead(t) ==
    /\ Goto(t, "lockHead", "test")
    /\ LockNode(current[t])
    /\ UNCHANGED <<i, current, previous, allocated, next, head, main>>

\* current->next != NULL, of the empty list's test and of the loop's.
Walk(t) ==
    /\ Goto(t, "test", "lockNext")
    /\ next[current[t]] # NULL
    /\ previous' = [previous EXCEPT ![t] = current[t]]
    /\ current' = [current EXCEPT ![t] = next[current[t]]]
    /\ UNCHANGED <<i, allocated, next, lock, head, main>>

\* current->next == NULL: the last node, and this thread has its lock.
AtEnd(t) ==
    /\ Goto(t, "test", "append")
    /\ next[current[t]] = NULL
    /\ UNCHANGED <<i, current, previous, allocated, next, lock, head, main>>

\* Mutant: the next node's lock is not taken.
LockNextNot(t) ==
    /\ Goto(t, "lockNext", "unlockPrevious")
    /\ UNCHANGED <<i, current, previous, allocated, next, lock, head, main>>

LockNext(t) ==
    /\ Goto(t, "lockNext", "unlockPrevious")
    /\ LockNode(current[t])
    /\ UNCHANGED <<i, current, previous, allocated, next, head, main>>

UnlockPrevious(t) ==
    /\ Goto(t, "unlockPrevious", "test")
    /\ UnlockNode(previous[t])
    /\ UNCHANGED <<i, current, previous, allocated, next, head, main>>

\* initNode, the link, the unlock and the loop's next round.
Add(t) ==
    /\ Goto(t, "append", "loop")
    /\ \E n \in Nodes \ allocated :
          /\ allocated' = allocated \cup {n}
          /\ next' = [next EXCEPT ![n] = NULL, ![current[t]] = n]
    /\ UnlockNode(current[t])
    /\ i' = [i EXCEPT ![t] = @ + 1]
    /\ UNCHANGED <<current, previous, head, main>>

-----------------------------------------------------------------------------
(* addToListWrapper's end, and main *)

Finish(t) ==
    /\ i[t] >= MaxAdd
    /\ Goto(t, "loop", "after")
    /\ UNCHANGED <<i, current, previous, allocated, next, lock, head, main>>

Create(t) ==
    /\ Goto(t, "new", "loop")
    /\ UNCHANGED <<i, current, previous, allocated, next, lock, head, main>>

JoinAll ==
    /\ main = "running"
    /\ \A t \in Threads : pc[t] = "after"
    /\ main' = "ended"
    /\ UNCHANGED <<pc, i, current, previous, allocated, next, lock, head>>

Main == JoinAll \/ \E t \in Threads : Create(t)

Thread(t) ==
    \/ AddToList(t) \/ LockHead(t) \/ Walk(t) \/ AtEnd(t)
    \/ LockNext(t) \/ UnlockPrevious(t) \/ Add(t) \/ Finish(t)

Terminated == main = "ended" /\ UNCHANGED vars

Next == Main \/ (\E t \in Threads : Thread(t)) \/ Terminated

Spec == Init /\ [][Next]_vars

\* The scheduler leaves out no thread that can go on.
Fairness == WF_vars(Main) /\ \A t \in Threads : WF_vars(Thread(t))

-----------------------------------------------------------------------------
\* The list from its head on.
Chain ==
    LET walk[k \in 0..Cardinality(Nodes)] ==
            IF k = 0 THEN <<head>>
            ELSE LET s == walk[k - 1]
                     n == next[s[Len(s)]]
                 IN  IF n = NULL THEN s ELSE Append(s, n)
    IN  walk[Cardinality(Nodes)]

\* The nodes whose locks t holds.
Holds(t) ==
    CASE pc[t] \in {"test", "append"} -> {current[t]}
      [] pc[t] = "lockNext" -> {previous[t]}
      [] pc[t] = "unlockPrevious" -> {previous[t], current[t]}
      [] OTHER -> {}

\* A node's lock is held by the one thread that thinks it holds it, or free.
LocksOwned ==
    /\ \A s, t \in Threads : s # t => Holds(s) \cap Holds(t) = {}
    /\ \A n \in Nodes : (lock[n] = "held") <=> (\E t \in Threads : n \in Holds(t))

\* No append is lost: every node ever made is in the list, once.
NothingLost ==
    /\ {Chain[k] : k \in DOMAIN Chain} = allocated
    /\ Len(Chain) = Cardinality(allocated)

Q == INSTANCE FifoQueue WITH Items <- Nodes, queue <- Tail(Chain)

\* The list is a queue that nothing is taken from.
Implements == Q!Spec

=============================================================================
