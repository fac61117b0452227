---------------------------- MODULE TwoLockQueue ----------------------------
(***************************************************************************)
(* "Multithreaded Datastructures/queue.c": a linked queue with a dummy     *)
(* node, one lock for the head and one for the tail (Michael and Scott).   *)
(* The two ends share a node when the queue is empty: dequeue then reads   *)
(* the next field that an enqueue, under the other lock, is writing.       *)
(* A node's memory can be handed out again by malloc once it is freed.     *)
(***************************************************************************)
EXTENDS ThreadLabels, Semaphores, Sequences

CONSTANTS
    Nodes,              \* addresses malloc can return
    NULL,
    MaxEnqueue,         \* MAX: each thread's enqueues
    MaxDequeue          \* DEQUEUE: each thread's dequeues, after them

ASSUME QueueAssumption ==
    /\ NULL \notin Nodes /\ IsFiniteSet(Nodes)
    /\ MaxEnqueue \in Nat /\ MaxDequeue \in Nat
    /\ Cardinality(Nodes) > MaxEnqueue * Cardinality(Threads)

VARIABLES
    i,                  \* loop counter: enqueues done, then dequeues as well
    node, newHead,      \* the operations' local pointers
    allocated, next,    \* the heap: nodes in use, and their next fields
    head, tail,         \* the queue's two ends
    headlock, taillock,
    main                \* "running" until main has joined everybody

locals == <<i, node, newHead>>
heap == <<allocated, next>>
locks == <<headlock, taillock>>
vars == <<pc, locals, heap, head, tail, locks, main>>

Labels == {"new", "loop", "lockTail", "link", "swing", "peek", "advance",
           "free", "after"}

\* initQueue
Init ==
    /\ pc = [t \in Threads |-> "new"] /\ i = [t \in Threads |-> 0]
    /\ node = [t \in Threads |-> NULL] /\ newHead = [t \in Threads |-> NULL]
    /\ \E dummy \in Nodes :
          /\ allocated = {dummy} /\ head = dummy /\ tail = dummy
    /\ next = [n \in Nodes |-> NULL]
    /\ headlock = "free" /\ taillock = "free"
    /\ main = "running"

\* The end of an operation: the wrapper's loops go on.
Return(t, from) == Goto(t, from, "loop") /\ i' = [i EXCEPT ![t] = @ + 1]

-----------------------------------------------------------------------------
(* enqueue *)

\* initNode: the new node is t's own until it is linked.
NewNode(t) ==
    /\ i[t] < MaxEnqueue
    /\ Goto(t, "loop", "lockTail")
    /\ \E n \in Nodes \ allocated :
          /\ allocated' = allocated \cup {n}
          /\ next' = [next EXCEPT ![n] = NULL]
          /\ node' = [node EXCEPT ![t] = n]
    /\ UNCHANGED <<i, newHead, head, tail, locks, main>>

\* Mutant: enqueue without taillock.
LockTailNot(t) ==
    /\ Goto(t, "lockTail", "link")
    /\ UNCHANGED <<locals, heap, head, tail, locks, main>>

LockTail(t) ==
    /\ Goto(t, "lockTail", "link")
    /\ Lock(taillock)
    /\ UNCHANGED <<locals, heap, head, tail, headlock, main>>

\* The new node is in the queue from here on, before tail points to it.
Link(t) ==
    /\ Goto(t, "link", "swing")
    /\ next' = [next EXCEPT ![tail] = node[t]]
    /\ UNCHANGED <<locals, allocated, head, tail, locks, main>>

Swing(t) ==
    /\ Return(t, "swing")
    /\ tail' = node[t]
    /\ Unlock(taillock)
    /\ UNCHANGED <<node, newHead, heap, head, headlock, main>>

-----------------------------------------------------------------------------
(* dequeue *)

LockHead(t) ==
    /\ i[t] >= MaxEnqueue /\ i[t] < MaxEnqueue + MaxDequeue
    /\ Goto(t, "loop", "peek")
    /\ Lock(headlock)
    /\ UNCHANGED <<locals, heap, head, tail, taillock, main>>

\* The queue is empty, as far as the node under head can tell.
Empty(t) ==
    /\ next[head] = NULL
    /\ Return(t, "peek")
    /\ Unlock(headlock)
    /\ UNCHANGED <<node, newHead, heap, head, tail, taillock, main>>

Peek(t) ==
    /\ next[head] # NULL
    /\ Goto(t, "peek", "advance")
    /\ node' = [node EXCEPT ![t] = head]
    /\ newHead' = [newHead EXCEPT ![t] = next[head]]
    /\ UNCHANGED <<i, heap, head, tail, locks, main>>

\* Mutant: the new head is freed in place of the old one.
AdvanceTooFar(t) ==
    /\ Goto(t, "advance", "free")
    /\ head' = newHead[t]
    /\ node' = [node EXCEPT ![t] = newHead[t]]
    /\ Unlock(headlock)
    /\ UNCHANGED <<i, newHead, heap, tail, taillock, main>>

Advance(t) ==
    /\ Goto(t, "advance", "free")
    /\ head' = newHead[t]
    /\ Unlock(headlock)
    /\ UNCHANGED <<locals, heap, tail, taillock, main>>

\* After the unlock: nobody else has a pointer to the old dummy.
Free(t) ==
    /\ Return(t, "free")
    /\ allocated' = allocated \ {node[t]}
    /\ UNCHANGED <<node, newHead, next, head, tail, locks, main>>

-----------------------------------------------------------------------------
(* enqueueWrapper's end, and main *)

Finish(t) ==
    /\ i[t] >= MaxEnqueue + MaxDequeue
    /\ Goto(t, "loop", "after")
    /\ UNCHANGED <<locals, heap, head, tail, locks, main>>

Create(t) ==
    /\ Goto(t, "new", "loop")
    /\ UNCHANGED <<locals, heap, head, tail, locks, main>>

JoinAll ==
    /\ main = "running"
    /\ \A t \in Threads : pc[t] = "after"
    /\ main' = "ended"
    /\ UNCHANGED <<pc, locals, heap, head, tail, locks>>

Main == JoinAll \/ \E t \in Threads : Create(t)

Enqueue(t) == NewNode(t) \/ LockTail(t) \/ Link(t) \/ Swing(t)
Dequeue(t) == LockHead(t) \/ Empty(t) \/ Peek(t) \/ Advance(t) \/ Free(t)
EnqueueWrapper(t) == Enqueue(t) \/ Dequeue(t) \/ Finish(t)

Terminated == main = "ended" /\ UNCHANGED vars

Next == Main \/ (\E t \in Threads : EnqueueWrapper(t)) \/ Terminated

Spec == Init /\ [][Next]_vars

-----------------------------------------------------------------------------
\* The nodes from head on, the dummy first.
Chain ==
    LET walk[k \in 0..Cardinality(Nodes)] ==
            IF k = 0 THEN <<head>>
            ELSE LET s == walk[k - 1]
                     n == next[s[Len(s)]]
                 IN  IF n = NULL THEN s ELSE Append(s, n)
    IN  walk[Cardinality(Nodes)]

ChainNodes == {Chain[k] : k \in DOMAIN Chain}

\* Nodes a thread holds and the queue does not: not yet linked, or unlinked.
Private == {node[t] : t \in At({"lockTail", "link", "free"})}

\* Every pointer an operation is about to dereference, make head or free is to
\* allocated memory.  dequeue frees outside the lock (line 62), and may free
\* the node tail still points to: the enqueue that is between its two writes
\* (lines 44-45) must not look at it again.
NoUseAfterFree ==
    /\ At({"link"}) # {} => tail \in allocated
    /\ At({"peek"}) # {} => head \in allocated
    /\ \A t \in At({"advance"}) : newHead[t] \in allocated
    /\ \A t \in At({"lockTail", "link", "swing", "free"}) : node[t] \in allocated

\* The list is what it should be: no node twice, all of them in use, the end
\* at tail, or at the node that an enqueue has linked and tail does not yet
\* point to.
WellFormed ==
    /\ \A k, l \in DOMAIN Chain : Chain[k] = Chain[l] => k = l
    /\ Chain[Len(Chain)] = IF At({"swing"}) = {} THEN tail
                           ELSE node[CHOOSE t \in At({"swing"}) : TRUE]

\* No memory is lost and none is shared by mistake: a node in use is in the
\* list or with the one thread that is about to link it or free it.
NoLeak ==
    /\ allocated = ChainNodes \cup Private /\ ChainNodes \cap Private = {}
    /\ \A s, t \in At({"lockTail", "link", "free"}) : node[s] = node[t] => s = t

\* The heap as a whole, although enqueue and dequeue hold different locks.
HeapSound == NoUseAfterFree /\ WellFormed /\ NoLeak

Q == INSTANCE FifoQueue WITH Items <- Nodes, queue <- Tail(Chain)

\* Linearizability: an enqueue happens at Link and a dequeue at Advance.
Implements == Q!Spec

=============================================================================
