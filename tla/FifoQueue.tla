------------------------------ MODULE FifoQueue ------------------------------
(***************************************************************************)
(* What queue.c and linked-list.c promise their threads: an unbounded      *)
(* queue whose operations happen at one instant each.  An item is a node,  *)
(* which carries its value with it.                                        *)
(***************************************************************************)
EXTENDS Sequences

CONSTANT Items

VARIABLE queue

Contents == {queue[k] : k \in DOMAIN queue}

Init == queue = <<>>

Enqueue(x) == x \notin Contents /\ queue' = Append(queue, x)

Dequeue == queue # <<>> /\ queue' = Tail(queue)

Next == Dequeue \/ \E x \in Items : Enqueue(x)

Spec == Init /\ [][Next]_queue

=============================================================================
