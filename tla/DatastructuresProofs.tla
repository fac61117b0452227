------------------------ MODULE DatastructuresProofs ------------------------
(***************************************************************************)
(* "Multithreaded Datastructures": the heap of queue.c is sound and its    *)
(* list is a FIFO queue, and so is the list of linked-list.c; the sloppy   *)
(* counter loses no increment.  What the small programs of "Mutual         *)
(* Exclusion" and rendezvous.c print is right.  For any finite             *)
(* sets of threads and addresses and any numbers of operations.            *)
(***************************************************************************)
EXTENDS MCPrograms, ThreadLabelsProofs, FunctionTheorems, WellFoundedInduction,
        SequenceTheorems, FiniteSetTheorems

-----------------------------------------------------------------------------
(* The list that begins at a node *)

N == Cardinality(Nodes)

\* Chain, for any head and any next fields.
Walk(h, nx) ==
    LET walk[k \in 0..N] ==
            IF k = 0 THEN <<h>>
            ELSE LET s == walk[k - 1]
                     n == nx[s[Len(s)]]
                 IN  IF n = NULL THEN s ELSE Append(s, n)
    IN  walk[N]

\* w[k] is the list's first k + 1 nodes.
Walks(h, nx, w) ==
    w = [k \in 0..N |-> IF k = 0 THEN <<h>>
                        ELSE LET s == w[k - 1]
                                 n == nx[s[Len(s)]]
                             IN  IF n = NULL THEN s ELSE Append(s, n)]

\* q is the list that begins at h.
List(q, h, nx) ==
    /\ q \in Seq(Nodes) /\ q # <<>> /\ q[1] = h
    /\ \A k \in 1..Len(q) : nx[q[k]] = IF k = Len(q) THEN NULL ELSE q[k + 1]
    /\ \A k, l \in 1..Len(q) : q[k] = q[l] => k = l

LEMMA Least == ASSUME NEW T, T \subseteq Nat, T # {} PROVE \E x \in T : \A y \in T : x <= y
<1>1. IsWellFoundedOn(OpToRel(<, Nat), Nat)
  BY NatLessThanWellFounded, Zenon
<1>2. \E x \in T : \A y \in T : ~(<<y, x>> \in OpToRel(<, Nat))
  BY <1>1, WFMin
<1>3. \A x, y \in Nat : <<y, x>> \in OpToRel(<, Nat) <=> y < x
  BY DEF OpToRel
<1>4. \E x \in T : \A y \in T : ~(y < x)
  BY <1>2, <1>3, Zenon
<1> QED BY <1>4

LEMMA Recursion == ASSUME NEW h, NEW nx, NEW f, Walks(h, nx, f)
               PROVE \E w : Walks(h, nx, w) /\ Walk(h, nx) = w[N]
<1> DEFINE g == CHOOSE w : Walks(h,nx,w)
<1>1. Walks(h,nx,g) OBVIOUS
<1>2. Walk(h,nx) = g[N] BY DEF Walk, Walks
<1> QED BY <1>1, <1>2

\* There is one function at most that a recursion defines.
LEMMA OneWalk ==
    ASSUME NEW h, NEW nx, NEW f, NEW g, Walks(h, nx, f), Walks(h, nx, g)
    PROVE  N \in Nat => f[N] = g[N]
<1> SUFFICES ASSUME N \in Nat PROVE f[N] = g[N]
  OBVIOUS
<1> DEFINE T == {k \in 0..N : f[k] # g[k]}
<1>1. CASE T = {}
  BY <1>1
<1>2. CASE T # {}
  <2>1. PICK k \in T : \A l \in T : k <= l
    <3> HIDE DEF N
    <3>1. T \subseteq Nat
      OBVIOUS
    <3> HIDE DEF T
    <3> QED BY <1>2, <3>1, Least
  <2>2. k \in 0..N /\ k # 0
    BY <2>1 DEF Walks
  <2>3. k - 1 \in 0..N /\ k - 1 \notin T
    BY <2>1, <2>2
  <2>4. f[k - 1] = g[k - 1]
    BY <2>3
  <2>5. ASSUME NEW w, Walks(h, nx, w)
        PROVE  w[k] = LET s == w[k - 1]
                          n == nx[s[Len(s)]]
                      IN  IF n = NULL THEN s ELSE Append(s, n)
    BY <2>2, <2>5 DEF Walks
  <2>6. f[k] = g[k]
    BY <2>4, <2>5
  <2> QED BY <2>1, <2>6
<1> QED BY <1>1, <1>2

LEMMA ShortList == ASSUME NEW h, NEW nx, NEW q, List(q, h, nx) PROVE Len(q) \in 1..N /\ N \in Nat
<1>1. q \in Seq(Nodes) /\ q # <<>> /\ \A k, l \in 1..Len(q) : q[k] = q[l] => k = l
  BY DEF List
<1>2. Len(q) \in Nat /\ Len(q) # 0 /\ q \in [1..Len(q) -> Nodes]
  BY <1>1, LenProperties, EmptySeq
<1>3. q \in Injection(1..Len(q), Nodes)
  BY <1>1, <1>2, Fun_IsInj
<1>4. Cardinality(1..Len(q)) <= N /\ IsFiniteSet(1..Len(q))
  BY <1>3, QueueAssumption, FS_Injection DEF N
<1>5. Cardinality(1..Len(q)) = Len(q)
  BY <1>2, FS_Interval
<1>6. N \in Nat
  BY QueueAssumption, FS_CardinalityType DEF N
<1> QED BY <1>2, <1>4, <1>5, <1>6

LEMMA WalkIsList == ASSUME NEW h, NEW nx, NEW q, List(q, h, nx) PROVE Walk(h, nx) = q
<1>1. Len(q) \in 1..N /\ N \in Nat
  BY ShortList
<1>2. /\ q \in Seq(Nodes) /\ q[1] = h
      /\ \A k \in 1..Len(q) : nx[q[k]] = IF k = Len(q) THEN NULL ELSE q[k + 1]
      /\ \A k \in 1..Len(q) : q[k] # NULL
  BY QueueAssumption DEF List
<1> DEFINE First(k) == SubSeq(q, 1, IF k < Len(q) THEN k + 1 ELSE Len(q))
           f == [k \in 0..N |-> First(k)]
<1>3. First(0) = <<h>>
  <2>1. First(0) = SubSeq(q, 1, 1)
    BY <1>1
  <2>2. SubSeq(q, 1, 1) = <<q[1]>>
    <3>1. SubSeq(q, 1, 1) = <<q[1]>> \o SubSeq(q, 2, 1)
      <4>1. 1 \in 1..Len(q) /\ 1 \in 1..1 /\ 1 + 1 = 2
        BY <1>1
      <4> QED BY <1>1, <1>2, <4>1, SubSeqRecursiveFirst
    <3>2. SubSeq(q, 2, 1) = <<>>
      BY SubSeqEmpty
    <3>3. <<q[1]>> \o <<>> = <<q[1]>>
      <4>1. q[1] \in Nodes
        BY <1>1, <1>2
      <4> QED BY <4>1, ConcatEmptySeq
    <3> QED BY <3>1, <3>2, <3>3
  <2> HIDE DEF First
  <2> QED BY <1>2, <2>1, <2>2
<1>4. ASSUME NEW k \in 1..N
      PROVE  First(k) = LET s == First(k - 1)
                            n == nx[s[Len(s)]]
                        IN  IF n = NULL THEN s ELSE Append(s, n)
  <2>1. CASE k < Len(q)
    <3>1. First(k - 1) = SubSeq(q, 1, k) /\ First(k) = SubSeq(q, 1, k + 1)
      BY <1>1, <2>1
    <3>2. Len(SubSeq(q, 1, k)) = k /\ SubSeq(q, 1, k)[k] = q[k]
      BY <1>1, <1>2, <2>1
    <3>3. nx[q[k]] = q[k + 1] /\ q[k + 1] # NULL
      BY <1>1, <1>2, <2>1
    <3>4. SubSeq(q, 1, k + 1) = Append(SubSeq(q, 1, k), q[k + 1])
      BY <1>1, <1>2, <2>1
    <3> HIDE DEF First
    <3> QED BY <3>1, <3>2, <3>3, <3>4
  <2>2. CASE k >= Len(q)
    <3>1. First(k - 1) = SubSeq(q, 1, Len(q)) /\ First(k) = SubSeq(q, 1, Len(q))
      BY <1>1, <2>2
    <3>2. Len(SubSeq(q, 1, Len(q))) = Len(q) /\ SubSeq(q, 1, Len(q))[Len(q)] = q[Len(q)]
      BY <1>1, <1>2
    <3>3. nx[q[Len(q)]] = NULL
      BY <1>1, <1>2
    <3> HIDE DEF First
    <3> QED BY <3>1, <3>2, <3>3
  <2> QED BY <1>1, <2>1, <2>2
<1>5. Walks(h, nx, f)
  <2> SUFFICES ASSUME NEW k \in 0..N
               PROVE  First(k) = IF k = 0 THEN <<h>>
                        ELSE LET s == f[k - 1]
                                 n == nx[s[Len(s)]]
                             IN  IF n = NULL THEN s ELSE Append(s, n)
    BY DEF Walks
  <2> HIDE DEF First
  <2>1. CASE k = 0
    BY <1>3, <2>1
  <2>2. CASE k # 0
    <3>1. k \in 1..N /\ k - 1 \in 0..N
      BY <1>1, <2>2
    <3>2. f[k - 1] = First(k - 1)
      BY <3>1
    <3> QED BY <1>4, <2>2, <3>1, <3>2
  <2> QED BY <2>1, <2>2
<1>6. Walk(h, nx) = f[N]
  BY <1>1, <1>5, Recursion, OneWalk
<1>7. f[N] = SubSeq(q, 1, Len(q))
  BY <1>1
<1> QED BY <1>1, <1>2, <1>6, <1>7, SubSeqFull

-----------------------------------------------------------------------------
(* What happens to a list *)

LEMMA OneNodeList ==
    ASSUME NEW h \in Nodes
    PROVE  /\ List(<<h>>, h, [n \in Nodes |-> NULL])
           /\ {<<h>>[k] : k \in 1..Len(<<h>>)} = {h}
<1> DEFINE q == <<h>>
<1>1. q \in Seq(Nodes) /\ Len(q) = 1 /\ q[1] = h /\ q # <<>>
  OBVIOUS
<1> HIDE DEF q
<1>2. \A k \in 1..Len(q) : k = 1 /\ k = Len(q)
  BY <1>1
<1>3. 1 \in 1..Len(q)
  BY <1>1
<1>4. {q[k] : k \in 1..Len(q)} = {h}
  BY <1>1, <1>2, <1>3
<1> QED BY <1>1, <1>2, <1>4 DEF List, q

\* A node is added after the last one.
LEMMA ListGrows ==
    ASSUME NEW h, NEW nx \in [Nodes -> Nodes \cup {NULL}], NEW q, List(q, h, nx), NEW n \in Nodes,
           \A k \in 1..Len(q) : q[k] # n, nx[n] = NULL
    PROVE  List(Append(q, n), h, [nx EXCEPT ![q[Len(q)]] = n])
<1> DEFINE r == Append(q, n)
           nxt == [nx EXCEPT ![q[Len(q)]] = n]
<1>1. Len(q) \in Nat /\ Len(q) >= 1 /\ q \in Seq(Nodes)
  BY ShortList DEF List
<1>2. /\ r \in Seq(Nodes) /\ Len(r) = Len(q) + 1 /\ r[Len(q) + 1] = n
      /\ \A k \in 1..Len(q) : r[k] = q[k]
  BY <1>1, AppendProperties
<1>3. \A k \in 1..Len(q) : q[k] \in Nodes
  BY <1>1
<1> HIDE DEF r
<1>4. r # <<>> /\ r[1] = h
  BY <1>1, <1>2 DEF List
<1>5. ASSUME NEW k \in 1..Len(r) PROVE nxt[r[k]] = IF k = Len(r) THEN NULL ELSE r[k + 1]
  <2>1. CASE k = Len(r)
    BY <1>1, <1>2, <1>3, <2>1
  <2>2. CASE k = Len(q)
    BY <1>1, <1>2, <1>3, <2>2
  <2>3. CASE k < Len(q)
    <3>1. k \in 1..Len(q) /\ k # Len(q) /\ k + 1 \in 1..Len(q) /\ k # Len(r)
      BY <1>1, <1>2, <2>3
    <3>2. q[k] # q[Len(q)] /\ nx[q[k]] = q[k + 1]
      BY <1>1, <3>1 DEF List
    <3> QED BY <1>2, <1>3, <3>1, <3>2
  <2> QED BY <1>1, <1>2, <2>1, <2>2, <2>3
<1>6. \A k, l \in 1..Len(r) : r[k] = r[l] => k = l
  <2>1. \A k \in 1..Len(r) : k \in 1..Len(q) \/ k = Len(q) + 1
    BY <1>1, <1>2
  <2>2. \A k, l \in 1..Len(q) : q[k] = q[l] => k = l
    BY DEF List
  <2> QED BY <1>2, <2>1, <2>2
<1> QED BY <1>2, <1>4, <1>5, <1>6 DEF List, r

\* The first node is taken away.
LEMMA ListShrinks ==
    ASSUME NEW h, NEW nx, NEW q, List(q, h, nx), nx[h] # NULL
    PROVE  /\ Len(q) > 1 /\ nx[h] = q[2] /\ List(Tail(q), nx[h], nx)
           /\ Len(Tail(q)) = Len(q) - 1 /\ \A k \in 1..Len(Tail(q)) : Tail(q)[k] = q[k + 1]
<1> DEFINE r == Tail(q)
<1>1. Len(q) \in Nat /\ Len(q) >= 1 /\ q \in Seq(Nodes) /\ q # <<>> /\ q[1] = h
  BY ShortList DEF List
<1>2. Len(q) # 1
  BY <1>1 DEF List
<1>3. /\ r \in Seq(Nodes) /\ Len(r) = Len(q) - 1
      /\ \A k \in 1..Len(r) : r[k] = q[k + 1]
  BY <1>1, HeadTailProperties
<1> HIDE DEF r
<1>4. nx[h] = q[2] /\ r # <<>> /\ r[1] = q[2]
  <2>1. 1 \in 1..Len(q) /\ 1 # Len(q) /\ 1 \in 1..Len(r) /\ 1 + 1 = 2
    BY <1>1, <1>2, <1>3
  <2>2. r # <<>>
    BY <1>3, <2>1, EmptySeq
  <2> QED BY <1>1, <1>3, <2>1, <2>2 DEF List
<1>5. ASSUME NEW k \in 1..Len(r) PROVE nx[r[k]] = IF k = Len(r) THEN NULL ELSE r[k + 1]
  <2>1. k + 1 \in 1..Len(q) /\ (k = Len(r) <=> k + 1 = Len(q))
    BY <1>1, <1>3
  <2>2. nx[q[k + 1]] = IF k + 1 = Len(q) THEN NULL ELSE q[(k + 1) + 1]
    BY <2>1 DEF List
  <2>3. k # Len(r) => k + 1 \in 1..Len(r)
    BY <1>1, <1>3
  <2> QED BY <1>3, <2>1, <2>2, <2>3
<1>6. ASSUME NEW k \in 1..Len(r), NEW l \in 1..Len(r), r[k] = r[l] PROVE k = l
  <2>1. k + 1 \in 1..Len(q) /\ l + 1 \in 1..Len(q)
    BY <1>1, <1>3
  <2>2. k + 1 = l + 1
    BY <1>3, <1>6, <2>1 DEF List
  <2> QED BY <1>1, <1>3, <2>2
<1>7. List(r, nx[h], nx)
  BY <1>3, <1>4, <1>5, <1>6, Zenon DEF List
<1>8. Len(q) > 1
  <2>1. \A m \in Nat : m >= 1 /\ m # 1 => m > 1
    OBVIOUS
  <2> QED BY <1>1, <1>2, <2>1, Zenon
<1> QED BY <1>3, <1>4, <1>7, <1>8 DEF r

\* What is behind the dummy grows with the list.
LEMMA TailsGrow ==
    ASSUME NEW c \in Seq(Nodes), Len(c) >= 1, NEW n \in Nodes, \A k \in 1..Len(c) : c[k] # n
    PROVE  Tail(Append(c, n)) = Append(Tail(c), n) /\ n \notin {Tail(c)[k] : k \in DOMAIN Tail(c)}
<1>1. Tail(Append(c, n)) = Append(Tail(c), n)
  OBVIOUS
<1>2. /\ Tail(c) \in Seq(Nodes) /\ Len(Tail(c)) = Len(c) - 1
      /\ \A k \in 1..Len(Tail(c)) : Tail(c)[k] = c[k + 1]
  BY HeadTailProperties, EmptySeq
<1>3. DOMAIN Tail(c) = 1..Len(Tail(c))
  BY <1>2
<1>4. \A k \in 1..Len(Tail(c)) : k + 1 \in 1..Len(c)
  BY <1>2
<1> QED BY <1>1, <1>2, <1>3, <1>4

-----------------------------------------------------------------------------
(* The inductive invariant *)

Linking == {"link", "swing"}
Unlinking == {"peek", "advance"}
Owning == {"lockTail", "link", "free"}

Types ==
    /\ pc \in [Threads -> Labels]
    /\ node \in [Threads -> Nodes \cup {NULL}] /\ newHead \in [Threads -> Nodes \cup {NULL}]
    /\ allocated \subseteq Nodes /\ next \in [Nodes -> Nodes \cup {NULL}]
    /\ head \in Nodes /\ tail \in Nodes

\* One thread at each end.
Ends ==
    /\ \A s, t \in Threads : pc[s] \in Linking /\ pc[t] \in Linking => s = t
    /\ \A s, t \in Threads : pc[s] \in Unlinking /\ pc[t] \in Unlinking => s = t
    /\ \A t \in Threads : pc[t] \in Linking => taillock = "held"
    /\ \A t \in Threads : pc[t] \in Unlinking => headlock = "held"

\* What the threads have in their local pointers.
Pointers ==
    \A t \in Threads :
        /\ pc[t] \in {"lockTail", "link"} => next[node[t]] = NULL
        /\ pc[t] = "advance" => node[t] = head /\ newHead[t] = next[head] /\ newHead[t] # NULL

\* q is the queue: it ends at tail, or at the node that tail is about to point
\* to, and what is allocated is in it or some thread's own.
Queue(q) ==
    /\ List(q, head, next)
    /\ (\A t \in Threads : pc[t] # "swing") => q[Len(q)] = tail
    /\ \A t \in Threads : pc[t] = "swing" => q[Len(q)] = node[t]
    /\ \A k \in 1..Len(q) : q[k] \in allocated
    /\ \A t \in Threads : pc[t] \in Owning =>
          node[t] \in allocated /\ \A k \in 1..Len(q) : q[k] # node[t]
    /\ \A s, t \in Threads : pc[s] \in Owning /\ pc[t] \in Owning /\ node[s] = node[t] => s = t
    /\ \A n \in allocated : \/ \E k \in 1..Len(q) : q[k] = n
                            \/ \E t \in Threads : pc[t] \in Owning /\ node[t] = n

IInv == Types /\ Ends /\ Pointers /\ Queue(Chain)

LEMMA ChainIsWalk == Chain = Walk(head, next) /\ Chain' = Walk(head', next')
BY DEF Chain, Walk, N

LEMMA QueueIsChain == \A q : (Queue(q) => Chain = q) /\ (Queue(q)' => Chain' = q)
BY ChainIsWalk, WalkIsList DEF Queue

-----------------------------------------------------------------------------
(* Steps *)

LEMMA Moves ==
    ASSUME Types, NEW t \in Threads, NEW from, NEW to \in Labels, Goto(t, from, to)
    PROVE  /\ pc[t] = from /\ pc'[t] = to /\ pc' \in [Threads -> Labels]
           /\ \A s \in Threads \ {t} : pc'[s] = pc[s]
BY DEF Goto, Types

\* A step that touches neither the heap nor the two ends.
LEMMA QuietStep ==
    ASSUME Types, Ends, Pointers, NEW q, Queue(q), NEW t \in Threads,
           \/ Create(t) \/ Finish(t) \/ LockTail(t) \/ LockHead(t) \/ Empty(t)
    PROVE  Types' /\ Ends' /\ Pointers' /\ Queue(q)'
<1>1. /\ UNCHANGED <<node, newHead, heap, head, tail>> /\ pc' \in [Threads -> Labels]
      /\ \A s \in Threads \ {t} : pc'[s] = pc[s]
      /\ \/ /\ pc[t] \notin Linking \cup Unlinking /\ pc'[t] \notin Linking \cup Unlinking
            /\ UNCHANGED locks
         \/ /\ pc[t] = "lockTail" /\ pc'[t] = "link" /\ Lock(taillock) /\ UNCHANGED headlock
         \/ /\ pc[t] = "loop" /\ pc'[t] = "peek" /\ Lock(headlock) /\ UNCHANGED taillock
         \/ /\ pc[t] = "peek" /\ pc'[t] = "loop" /\ Unlock(headlock) /\ UNCHANGED taillock
      /\ pc[t] # "swing" /\ pc'[t] # "swing" /\ pc[t] # "advance" /\ pc'[t] # "advance"
      /\ (pc'[t] \in Owning <=> pc[t] \in Owning)
      /\ pc'[t] \in {"lockTail", "link"} => pc[t] \in {"lockTail", "link"}
  BY Moves DEF Create, Finish, LockTail, LockHead, Empty, Return, locals, locks, Linking, Unlinking,
     Owning, Labels, Goto, Types
<1>2. Types'
  BY <1>1 DEF Types, heap
<1>3. Ends'
  BY <1>1 DEF Ends, Linking, Unlinking, Lock, Unlock, locks
<1>4. Pointers'
  BY <1>1 DEF Pointers, heap
<1>5. Queue(q)'
  <2>1. \A s \in Threads : (pc'[s] \in Owning <=> pc[s] \in Owning) /\ (pc'[s] = "swing" <=> pc[s] = "swing")
    BY <1>1
  <2> QED BY <1>1, <2>1 DEF Queue, heap
<1> QED BY <1>2, <1>3, <1>4, <1>5

LEMMA NewNodeStep ==
    ASSUME Types, Ends, Pointers, NEW q, Queue(q), NEW t \in Threads, NewNode(t)
    PROVE  Types' /\ Ends' /\ Pointers' /\ Queue(q)'
<1>1. PICK n \in Nodes \ allocated :
        /\ allocated' = allocated \cup {n} /\ next' = [next EXCEPT ![n] = NULL]
        /\ node' = [node EXCEPT ![t] = n]
  BY DEF NewNode
<1>2. /\ pc[t] = "loop" /\ pc'[t] = "lockTail" /\ pc' \in [Threads -> Labels]
      /\ \A s \in Threads \ {t} : pc'[s] = pc[s]
      /\ UNCHANGED <<newHead, head, tail, headlock, taillock>>
  BY Moves DEF NewNode, Labels, locks
<1>3. /\ next'[n] = NULL /\ node'[t] = n /\ \A s \in Threads \ {t} : node'[s] = node[s]
      /\ \A m \in Nodes : m # n => next'[m] = next[m]
  BY <1>1 DEF Types
<1>4. Types'
  BY <1>1, <1>2 DEF Types
<1>5. Ends'
  BY <1>2 DEF Ends, Linking, Unlinking
<1>6. /\ q \in Seq(Nodes) /\ \A k \in 1..Len(q) : q[k] \in allocated
      /\ Len(q) \in 1..N /\ head = q[1]
      /\ \A s \in Threads : pc[s] \in Owning => node[s] \in allocated
  <2>1. List(q, head, next)
    BY DEF Queue
  <2>2. Len(q) \in 1..N /\ q \in Seq(Nodes) /\ head = q[1]
    BY <2>1, ShortList DEF List
  <2> QED BY <2>2 DEF Queue
<1>7. head # n
  <2>1. 1 \in 1..Len(q)
    BY <1>6
  <2> QED BY <1>6, <2>1
<1>8. Pointers'
  <2> SUFFICES ASSUME NEW s \in Threads
               PROVE  /\ pc'[s] \in {"lockTail", "link"} => next'[node'[s]] = NULL
                      /\ pc'[s] = "advance" => /\ node'[s] = head' /\ newHead'[s] = next'[head']
                                               /\ newHead'[s] # NULL
    BY DEF Pointers
  <2>1. CASE s = t
    BY <1>2, <1>3, <2>1
  <2>2. CASE s # t
    <3>1. pc'[s] = pc[s] /\ node'[s] = node[s] /\ newHead'[s] = newHead[s] /\ head' = head
      BY <1>2, <1>3, <2>2
    <3>2. next'[head] = next[head]
      BY <1>3, <1>7 DEF Types
    <3>3. pc[s] \in {"lockTail", "link"} => next'[node[s]] = next[node[s]]
      BY <1>3, <1>6 DEF Owning, Types
    <3> QED BY <3>1, <3>2, <3>3 DEF Pointers
  <2> QED BY <2>1, <2>2
<1>9. Queue(q)'
  <2>1. List(q, head', next')
    <3>1. \A k \in 1..Len(q) : next'[q[k]] = next[q[k]]
      BY <1>3, <1>6 DEF Types
    <3> QED BY <1>2, <3>1 DEF Queue, List
  <2>2. \A s \in Threads : (pc'[s] = "swing" <=> pc[s] = "swing") /\ (pc[s] = "swing" => node'[s] = node[s])
    BY <1>2, <1>3
  <2>3. \A s \in Threads : pc'[s] \in Owning <=> s = t \/ pc[s] \in Owning
    BY <1>2 DEF Owning
  <2>4. \A k \in 1..Len(q) : q[k] \in allocated' /\ q[k] # n
    BY <1>1, <1>6
  <2>5. \A s \in Threads : pc'[s] \in Owning =>
           node'[s] \in allocated' /\ \A k \in 1..Len(q) : q[k] # node'[s]
    BY <1>1, <1>3, <2>3, <2>4 DEF Queue
  <2>6. \A r, s \in Threads : pc'[r] \in Owning /\ pc'[s] \in Owning /\ node'[r] = node'[s] => r = s
    BY <1>3, <1>6, <2>3 DEF Queue
  <2>7. \A m \in allocated' : \/ \E k \in 1..Len(q) : q[k] = m
                              \/ \E s \in Threads : pc'[s] \in Owning /\ node'[s] = m
    <3> SUFFICES ASSUME NEW m \in allocated',  ~ \E k \in 1..Len(q) : q[k] = m
                 PROVE  \E s \in Threads : pc'[s] \in Owning /\ node'[s] = m
      OBVIOUS
    <3>1. CASE m = n
      BY <1>3, <2>3, <3>1
    <3>2. CASE m # n
      <4>1. PICK s \in Threads : pc[s] \in Owning /\ node[s] = m
        BY <1>1, <3>2 DEF Queue
      <4> QED BY <1>2, <1>3, <2>3, <4>1 DEF Owning
    <3> QED BY <3>1, <3>2
  <2>8. /\ (\A s \in Threads : pc'[s] # "swing") => q[Len(q)] = tail'
        /\ \A s \in Threads : pc'[s] = "swing" => q[Len(q)] = node'[s]
    BY <1>2, <2>2 DEF Queue
  <2> QED BY <2>1, <2>4, <2>5, <2>6, <2>7, <2>8 DEF Queue
<1> QED BY <1>4, <1>5, <1>8, <1>9

\* What every step below uses of the list.
LEMMA Elements ==
    ASSUME NEW q, Queue(q)
    PROVE  /\ q \in Seq(Nodes) /\ Len(q) \in 1..N /\ N \in Nat /\ List(q, head, next)
           /\ q[1] = head /\ q[Len(q)] \in Nodes /\ next[q[Len(q)]] = NULL
           /\ \A k \in 1..Len(q) : q[k] \in Nodes /\ q[k] \in allocated
           /\ \A k, l \in 1..Len(q) : q[k] = q[l] => k = l
<1>1. List(q, head, next)
  BY DEF Queue
<1>2. Len(q) \in 1..N /\ N \in Nat /\ q \in Seq(Nodes) /\ q[1] = head
  BY <1>1, ShortList DEF List
<1>3. Len(q) \in 1..Len(q) /\ \A k \in 1..Len(q) : q[k] \in Nodes
  BY <1>2
<1>4. next[q[Len(q)]] = NULL /\ \A k, l \in 1..Len(q) : q[k] = q[l] => k = l
  BY <1>1, <1>3 DEF List
<1> QED BY <1>1, <1>2, <1>3, <1>4 DEF Queue

LEMMA LinkStep ==
    ASSUME Types, Ends, Pointers, NEW q, Queue(q), NEW t \in Threads, Link(t)
    PROVE  /\ Types' /\ Ends' /\ Pointers' /\ Queue(Append(q, node[t]))'
           /\ node[t] \in Nodes /\ \A k \in 1..Len(q) : q[k] # node[t]
<1>1. /\ pc[t] = "link" /\ pc'[t] = "swing" /\ pc' \in [Threads -> Labels]
      /\ \A s \in Threads \ {t} : pc'[s] = pc[s]
      /\ next' = [next EXCEPT ![tail] = node[t]]
      /\ UNCHANGED <<node, newHead, allocated, head, tail, headlock, taillock>>
  BY Moves DEF Link, Labels, locals, locks
<1>2. /\ \A s \in Threads : pc[s] # "swing" /\ (pc[s] = "link" => s = t)
      /\ \A s \in Threads : pc'[s] = "swing" => s = t
  BY <1>1 DEF Ends, Linking
<1>3. q[Len(q)] = tail /\ node[t] \in allocated /\ node[t] \in Nodes /\ next[node[t]] = NULL
      /\ \A k \in 1..Len(q) : q[k] # node[t]
  BY <1>1, <1>2 DEF Queue, Owning, Types, Pointers
<1>4. Types'
  BY <1>1, <1>3 DEF Types
<1>5. Ends'
  BY <1>1 DEF Ends, Linking, Unlinking
<1>6. \A m \in Nodes : m # tail => next'[m] = next[m]
  BY <1>1 DEF Types
<1>7. Pointers'
  <2> SUFFICES ASSUME NEW s \in Threads
               PROVE  /\ pc'[s] \in {"lockTail", "link"} => next'[node[s]] = NULL
                      /\ pc'[s] = "advance" => /\ node[s] = head /\ newHead[s] = next'[head]
                                               /\ newHead[s] # NULL
    BY <1>1 DEF Pointers
  <2>1. CASE s = t
    BY <1>1, <2>1
  <2>2. ASSUME s # t, pc'[s] \in {"lockTail", "link"} PROVE next'[node[s]] = NULL
    <3>1. pc[s] \in {"lockTail", "link"} /\ next[node[s]] = NULL
      BY <1>1, <2>2 DEF Pointers
    <3>2. node[s] \in Nodes /\ node[s] # tail
      <4>1. Len(q) \in 1..Len(q)
        BY Elements
      <4> QED BY <1>3, <3>1, <4>1 DEF Queue, Owning, Types
    <3> QED BY <1>6, <3>1, <3>2
  <2>3. ASSUME s # t, pc'[s] = "advance"
        PROVE  node[s] = head /\ newHead[s] = next'[head] /\ newHead[s] # NULL
    <3>1. node[s] = head /\ newHead[s] = next[head] /\ newHead[s] # NULL
      BY <1>1, <2>3 DEF Pointers
    <3>2. head # tail
      BY <1>3, <3>1, Elements
    <3> QED BY <1>6, <3>1, <3>2 DEF Types
  <2> QED BY <2>1, <2>2, <2>3
<1>8. Queue(Append(q, node[t]))'
  <2> DEFINE r == Append(q, node[t])
  <2>0. Append(q, node[t])' = r
    BY <1>1
  <2>1. List(r, head', next')
    <3>1. List(r, head, [next EXCEPT ![q[Len(q)]] = node[t]])
      BY <1>3, Elements, ListGrows DEF Types
    <3> QED BY <1>1, <1>3, <3>1
  <2>2. /\ Len(r) = Len(q) + 1 /\ r[Len(r)] = node[t] /\ Len(q) \in Nat
        /\ \A k \in 1..Len(q) : r[k] = q[k]
    BY <1>3, Elements, AppendProperties
  <2> HIDE DEF r
  <2>3. \A k \in 1..Len(r) : (k \in 1..Len(q) /\ r[k] = q[k]) \/ r[k] = node[t]
    BY <2>2
  <2>4. \A s \in Threads : pc'[s] \in Owning <=> s # t /\ pc[s] \in Owning
    BY <1>1 DEF Owning
  <2>5. \A k \in 1..Len(r) : r[k] \in allocated'
    BY <1>1, <1>3, <2>3, Elements
  <2>6. \A s \in Threads : pc'[s] \in Owning =>
           node'[s] \in allocated' /\ \A k \in 1..Len(r) : r[k] # node'[s]
    BY <1>1, <2>3, <2>4 DEF Queue, Owning
  <2>7. \A m \in allocated' : \/ \E k \in 1..Len(r) : r[k] = m
                              \/ \E s \in Threads : pc'[s] \in Owning /\ node'[s] = m
    <3> SUFFICES ASSUME NEW m \in allocated
                 PROVE  \/ \E k \in 1..Len(r) : r[k] = m
                        \/ \E s \in Threads : pc'[s] \in Owning /\ node'[s] = m
      BY <1>1
    <3>1. Len(r) \in 1..Len(r) /\ \A k \in 1..Len(q) : k \in 1..Len(r)
      BY <2>2
    <3>2. CASE m = node[t]
      BY <2>2, <3>1, <3>2
    <3>3. CASE \E k \in 1..Len(q) : q[k] = m
      BY <2>2, <3>1, <3>3
    <3>4. CASE m # node[t] /\ \E s \in Threads : pc[s] \in Owning /\ node[s] = m
      BY <1>1, <2>4, <3>4
    <3> QED BY <3>2, <3>3, <3>4 DEF Queue
  <2>8. /\ (\A s \in Threads : pc'[s] # "swing") => r[Len(r)] = tail'
        /\ \A s \in Threads : pc'[s] = "swing" => r[Len(r)] = node'[s]
    BY <1>1, <1>2, <2>2
  <2>9. \A u, s \in Threads : pc'[u] \in Owning /\ pc'[s] \in Owning /\ node'[u] = node'[s] => u = s
    BY <1>1, <2>4 DEF Queue
  <2> QED BY <2>0, <2>1, <2>5, <2>6, <2>7, <2>8, <2>9 DEF Queue
<1> QED BY <1>3, <1>4, <1>5, <1>7, <1>8

LEMMA SwingStep ==
    ASSUME Types, Ends, Pointers, NEW q, Queue(q), NEW t \in Threads, Swing(t)
    PROVE  Types' /\ Ends' /\ Pointers' /\ Queue(q)'
<1>1. /\ pc[t] = "swing" /\ pc'[t] = "loop" /\ pc' \in [Threads -> Labels]
      /\ \A s \in Threads \ {t} : pc'[s] = pc[s]
      /\ tail' = node[t] /\ UNCHANGED <<node, newHead, allocated, next, head, headlock>>
  BY Moves DEF Swing, Return, Labels, heap
<1>2. \A s \in Threads : pc'[s] \notin Linking
  BY <1>1 DEF Ends, Linking
<1>3. q[Len(q)] = node[t] /\ node[t] \in Nodes
  BY <1>1, Elements DEF Queue
<1>4. Types'
  BY <1>1, <1>3 DEF Types
<1>5. Ends'
  BY <1>1, <1>2 DEF Ends, Linking, Unlinking
<1>6. Pointers'
  BY <1>1 DEF Pointers
<1>7. \A s \in Threads : (pc'[s] \in Owning <=> pc[s] \in Owning) /\ pc'[s] # "swing"
  BY <1>1, <1>2 DEF Owning, Linking
<1>8. Queue(q)'
  BY <1>1, <1>3, <1>7 DEF Queue
<1> QED BY <1>4, <1>5, <1>6, <1>8

LEMMA PeekStep ==
    ASSUME Types, Ends, Pointers, NEW q, Queue(q), NEW t \in Threads, Peek(t)
    PROVE  Types' /\ Ends' /\ Pointers' /\ Queue(q)'
<1>1. /\ pc[t] = "peek" /\ pc'[t] = "advance" /\ pc' \in [Threads -> Labels]
      /\ \A s \in Threads \ {t} : pc'[s] = pc[s]
      /\ next[head] # NULL
      /\ node' = [node EXCEPT ![t] = head] /\ newHead' = [newHead EXCEPT ![t] = next[head]]
      /\ UNCHANGED <<allocated, next, head, tail, headlock, taillock>>
  BY Moves DEF Peek, Labels, heap, locks
<1>2. Types'
  BY <1>1 DEF Types
<1>3. Ends'
  BY <1>1 DEF Ends, Linking, Unlinking
<1>4. \A s \in Threads \ {t} : node'[s] = node[s] /\ newHead'[s] = newHead[s]
  BY <1>1 DEF Types
<1>5. Pointers'
  <2>1. node'[t] = head /\ newHead'[t] = next[head]
    BY <1>1 DEF Types
  <2> QED BY <1>1, <1>4, <2>1 DEF Pointers
<1>6. \A s \in Threads : /\ pc'[s] \in Owning <=> pc[s] \in Owning
                         /\ pc'[s] = "swing" <=> pc[s] = "swing"
                         /\ pc[s] \in Owning \cup {"swing"} => node'[s] = node[s]
  BY <1>1, <1>4 DEF Owning
<1>7. Queue(q)'
  BY <1>1, <1>6 DEF Queue
<1> QED BY <1>2, <1>3, <1>5, <1>7

LEMMA AdvanceStep ==
    ASSUME Types, Ends, Pointers, NEW q, Queue(q), NEW t \in Threads, Advance(t)
    PROVE  Types' /\ Ends' /\ Pointers' /\ Queue(Tail(q))' /\ Len(q) > 1
<1>1. /\ pc[t] = "advance" /\ pc'[t] = "free" /\ pc' \in [Threads -> Labels]
      /\ \A s \in Threads \ {t} : pc'[s] = pc[s]
      /\ head' = newHead[t]
      /\ UNCHANGED <<node, newHead, allocated, next, tail, taillock>>
  BY Moves DEF Advance, Labels, heap, locals
<1>2. node[t] = head /\ newHead[t] = next[head] /\ next[head] # NULL
  BY <1>1 DEF Pointers
<1>3. \A s \in Threads : pc'[s] \notin Unlinking
  BY <1>1 DEF Ends, Unlinking
<1>4. Types'
  BY <1>1, <1>2 DEF Types
<1>5. Ends'
  BY <1>1, <1>3 DEF Ends, Linking, Unlinking
<1>6. Pointers'
  BY <1>1, <1>3 DEF Pointers, Unlinking
<1> DEFINE r == Tail(q)
<1>7. /\ Len(q) > 1 /\ List(r, head', next') /\ Len(r) = Len(q) - 1
      /\ \A k \in 1..Len(r) : r[k] = q[k + 1]
  BY <1>1, <1>2, Elements, ListShrinks
<1> HIDE DEF r
<1>8. /\ Len(q) \in Nat
      /\ \A k \in 1..Len(r) : k + 1 \in 1..Len(q) /\ k + 1 # 1
      /\ \A k \in 1..Len(q) : k = 1 \/ (k - 1 \in 1..Len(r) /\ r[k - 1] = q[k])
      /\ r[Len(r)] = q[Len(q)] /\ 1 \in 1..Len(q)
  BY <1>7, Elements
<1>9. Queue(r)'
  <2>1. \A s \in Threads : /\ pc'[s] \in Owning <=> s = t \/ pc[s] \in Owning
                           /\ pc'[s] = "swing" <=> pc[s] = "swing"
    BY <1>1 DEF Owning
  <2>2. pc[t] \notin Owning /\ node[t] = q[1] /\ node[t] \in allocated
    BY <1>1, <1>2, <1>8, Elements DEF Owning
  <2>3. \A k \in 1..Len(r) : r[k] \in allocated /\ r[k] # node[t]
    BY <1>7, <1>8, <2>2, Elements
  <2>4. \A s \in Threads : pc'[s] \in Owning =>
           node'[s] \in allocated' /\ \A k \in 1..Len(r) : r[k] # node'[s]
    BY <1>1, <1>7, <1>8, <2>1, <2>2, <2>3 DEF Queue
  <2>5. \A u, s \in Threads : pc'[u] \in Owning /\ pc'[s] \in Owning /\ node'[u] = node'[s] => u = s
    BY <1>1, <1>8, <2>1, <2>2 DEF Queue
  <2>6. \A m \in allocated : \/ \E k \in 1..Len(r) : r[k] = m
                             \/ \E s \in Threads : pc'[s] \in Owning /\ node'[s] = m
    <3> SUFFICES ASSUME NEW m \in allocated, ~ \E k \in 1..Len(r) : r[k] = m
                 PROVE  \E s \in Threads : pc'[s] \in Owning /\ node'[s] = m
      OBVIOUS
    <3>1. CASE \E k \in 1..Len(q) : q[k] = m
      <4>1. m = q[1]
        BY <1>8, <3>1
      <4> QED BY <1>1, <2>1, <2>2, <4>1
    <3>2. CASE \E s \in Threads : pc[s] \in Owning /\ node[s] = m
      BY <1>1, <2>1, <3>2
    <3> QED BY <3>1, <3>2 DEF Queue
  <2>7. /\ (\A s \in Threads : pc'[s] # "swing") => r[Len(r)] = tail'
        /\ \A s \in Threads : pc'[s] = "swing" => r[Len(r)] = node'[s]
    BY <1>1, <1>8, <2>1 DEF Queue
  <2> QED BY <1>1, <1>7, <2>3, <2>4, <2>5, <2>6, <2>7 DEF Queue
<1> QED BY <1>4, <1>5, <1>6, <1>7, <1>9 DEF r

LEMMA FreeStep ==
    ASSUME Types, Ends, Pointers, NEW q, Queue(q), NEW t \in Threads, Free(t)
    PROVE  Types' /\ Ends' /\ Pointers' /\ Queue(q)'
<1>1. /\ pc[t] = "free" /\ pc'[t] = "loop" /\ pc' \in [Threads -> Labels]
      /\ \A s \in Threads \ {t} : pc'[s] = pc[s]
      /\ allocated' = allocated \ {node[t]}
      /\ UNCHANGED <<node, newHead, next, head, tail, headlock, taillock>>
  BY Moves DEF Free, Return, Labels, locks
<1>2. Types'
  BY <1>1 DEF Types
<1>3. Ends'
  BY <1>1 DEF Ends, Linking, Unlinking
<1>4. Pointers'
  BY <1>1 DEF Pointers
<1>5. \A s \in Threads : /\ pc'[s] \in Owning <=> s # t /\ pc[s] \in Owning
                         /\ pc'[s] = "swing" <=> pc[s] = "swing"
  BY <1>1 DEF Owning
<1>6. pc[t] \in Owning
  BY <1>1 DEF Owning
<1>7. Queue(q)'
  BY <1>1, <1>5, <1>6 DEF Queue
<1> QED BY <1>2, <1>3, <1>4, <1>7

LEMMA IdleStep ==
    ASSUME Types, Ends, Pointers, NEW q, Queue(q), JoinAll \/ UNCHANGED vars
    PROVE  Types' /\ Ends' /\ Pointers' /\ Queue(q)'
<1>1. UNCHANGED <<pc, node, newHead, allocated, next, head, tail, headlock, taillock>>
  BY DEF JoinAll, vars, locals, heap, locks
<1>2. Types' /\ Ends' /\ Pointers'
  BY <1>1 DEF Types, Ends, Pointers, Linking, Unlinking
<1>3. Queue(q)'
  BY <1>1 DEF Queue
<1> QED BY <1>2, <1>3

-----------------------------------------------------------------------------
(* The specification *)

\* initQueue: the dummy node alone.
LEMMA OneNode == Init => Types /\ Ends /\ Pointers /\ Queue(<<head>>)
<1> SUFFICES ASSUME Init PROVE Types /\ Ends /\ Pointers /\ Queue(<<head>>)
  OBVIOUS
<1>1. /\ pc = [t \in Threads |-> "new"]
      /\ node = [t \in Threads |-> NULL] /\ newHead = [t \in Threads |-> NULL]
      /\ head \in Nodes /\ allocated = {head} /\ tail = head /\ next = [n \in Nodes |-> NULL]
  BY DEF Init
<1>2. Types /\ Ends /\ Pointers
  BY <1>1 DEF Types, Ends, Pointers, Labels, Linking, Unlinking
<1>3. \A t \in Threads : pc[t] \notin Owning /\ pc[t] # "swing"
  BY <1>1 DEF Owning
<1> DEFINE q == <<head>>
<1>4. q \in Seq(Nodes) /\ Len(q) = 1 /\ q[1] = head
  BY <1>1
<1>5. \A k \in 1..1 : q[k] = head
  BY <1>4
<1>6. List(q, head, next)
  BY <1>1, OneNodeList
<1> HIDE DEF q
<1>7. 1 \in 1..Len(q)
  BY <1>4
<1>8. Queue(q)
  BY <1>1, <1>3, <1>4, <1>5, <1>6, <1>7 DEF Queue
<1> QED BY <1>2, <1>8 DEF q

\* Every step keeps the invariant, and adds a node at the end, removes the
\* first or leaves the list alone.
LEMMA NextStep ==
    ASSUME IInv, [Next]_vars
    PROVE  /\ IInv'
           /\ \/ Chain' = Chain
              \/ \E n \in Nodes : Chain' = Append(Chain, n) /\ \A k \in 1..Len(Chain) : Chain[k] # n
              \/ Chain' = Tail(Chain) /\ Len(Chain) > 1
<1> DEFINE Effect(r) ==
              \/ r = Chain
              \/ \E n \in Nodes : r = Append(Chain, n) /\ \A k \in 1..Len(Chain) : Chain[k] # n
              \/ r = Tail(Chain) /\ Len(Chain) > 1
           Kept == Types' /\ Ends' /\ Pointers'
<1> USE DEF IInv
<1>1. PICK q : q = Chain /\ Queue(q)
  OBVIOUS
<1>2. \E r : Kept /\ Queue(r)' /\ Effect(r)
  <2> HIDE DEF Kept
  <2>1. CASE JoinAll \/ UNCHANGED vars
    <3>1. Kept /\ Queue(q)'
      BY <1>1, <2>1, IdleStep DEF Kept
    <3> QED BY <1>1, <3>1
  <2>2. ASSUME NEW t \in Threads,
               \/ Create(t) \/ Finish(t) \/ LockTail(t) \/ LockHead(t) \/ Empty(t)
               \/ NewNode(t) \/ Swing(t) \/ Peek(t) \/ Free(t)
        PROVE  \E r : Kept /\ Queue(r)' /\ Effect(r)
    <3>1. Kept /\ Queue(q)'
      BY <1>1, <2>2, QuietStep, NewNodeStep, SwingStep, PeekStep, FreeStep DEF Kept
    <3> QED BY <1>1, <3>1
  <2>3. ASSUME NEW t \in Threads, Link(t) PROVE \E r : Kept /\ Queue(r)' /\ Effect(r)
    <3>1. /\ Kept /\ Queue(Append(q, node[t]))'
          /\ node[t] \in Nodes /\ \A k \in 1..Len(q) : q[k] # node[t]
      BY <1>1, <2>3, LinkStep DEF Kept
    <3>2. PICK r : r = Append(q, node[t])
      OBVIOUS
    <3>3. Append(q, node[t])' = r
      BY <2>3, <3>2 DEF Link, locals
    <3>4. Queue(r)'
      BY <3>1, <3>3
    <3>5. Effect(r)
      BY <1>1, <3>1, <3>2
    <3> QED BY <3>1, <3>4, <3>5
  <2>4. ASSUME NEW t \in Threads, Advance(t) PROVE \E r : Kept /\ Queue(r)' /\ Effect(r)
    <3>1. Kept /\ Queue(Tail(q))' /\ Len(q) > 1
      BY <1>1, <2>4, AdvanceStep DEF Kept
    <3> QED BY <1>1, <3>1
  <2> QED BY <2>1, <2>2, <2>3, <2>4 DEF Next, Main, EnqueueWrapper, Enqueue, Dequeue, Terminated
<1>3. PICK r : Kept /\ Queue(r)' /\ Effect(r)
  BY <1>2
<1>4. Chain' = r
  BY <1>3, QueueIsChain
<1>5. Queue(Chain)'
  BY <1>3, <1>4
<1> QED BY <1>3, <1>4, <1>5

THEOREM Invariance == Spec => []IInv
<1>1. Init => IInv
  <2>1. Init => Queue(<<head>>) /\ Chain = <<head>>
    BY OneNode, QueueIsChain
  <2> QED BY <2>1, OneNode DEF IInv
<1>2. IInv /\ [Next]_vars => IInv'
  BY NextStep
<1> QED BY <1>1, <1>2, PTL DEF Spec

LEMMA HeapIsKept == IInv => HeapSound
<1> SUFFICES ASSUME IInv PROVE HeapSound
  OBVIOUS
<1>1. PICK q : q = Chain /\ Queue(q)
  BY DEF IInv
<1>2. q \in Seq(Nodes) /\ Len(q) \in 1..N /\ N \in Nat /\ q[1] = head /\ DOMAIN q = 1..Len(q)
  BY <1>1, Elements
<1>3. 1 \in 1..Len(q) /\ Len(q) \in 1..Len(q)
  BY <1>2
<1>4. NoUseAfterFree
  <2>1. ASSUME NEW t \in Threads, pc[t] = "link" PROVE tail \in allocated
    <3>1. \A s \in Threads : pc[s] # "swing"
      BY <2>1 DEF IInv, Ends, Linking
    <3> QED BY <1>1, <1>3, <3>1 DEF Queue
  <2>2. head \in allocated
    BY <1>1, <1>2, <1>3 DEF Queue
  <2>3. ASSUME NEW t \in Threads, pc[t] = "advance" PROVE newHead[t] \in allocated
    <3>1. newHead[t] = next[head] /\ next[head] # NULL
      BY <2>3 DEF IInv, Pointers
    <3>2. List(q, head, next)
      BY <1>1, Elements
    <3>3. Len(q) > 1 /\ next[head] = q[2]
      BY <3>1, <3>2, ListShrinks
    <3>4. 2 \in 1..Len(q)
      BY <1>2, <3>3
    <3> QED BY <1>1, <3>1, <3>3, <3>4 DEF Queue
  <2>4. ASSUME NEW t \in Threads, pc[t] \in {"lockTail", "link", "swing", "free"}
        PROVE  node[t] \in allocated
    BY <1>1, <1>3, <2>4 DEF Queue, Owning
  <2> QED BY <2>1, <2>2, <2>3, <2>4 DEF NoUseAfterFree, At
<1>5. WellFormed
  <2>1. \A k, l \in 1..Len(q) : q[k] = q[l] => k = l
    BY <1>1, Elements
  <2>2. CASE At({"swing"}) = {}
    BY <1>1, <1>2, <2>1, <2>2 DEF WellFormed, Queue, At
  <2>3. CASE At({"swing"}) # {}
    <3> DEFINE t == CHOOSE t \in At({"swing"}) : TRUE
    <3>1. t \in Threads /\ pc[t] = "swing"
      BY <2>3 DEF At
    <3> HIDE DEF t
    <3>2. q[Len(q)] = node[t]
      BY <1>1, <3>1 DEF Queue
    <3> QED BY <1>1, <1>2, <2>1, <2>3, <3>2 DEF WellFormed, t
  <2> QED BY <2>2, <2>3
<1>6. NoLeak
  <2>1. ChainNodes = {q[k] : k \in 1..Len(q)}
    BY <1>1, <1>2 DEF ChainNodes
  <2>2. Private = {node[t] : t \in {s \in Threads : pc[s] \in Owning}}
    BY DEF Private, At, Owning
  <2>3. allocated \subseteq ChainNodes \cup Private
    BY <1>1, <2>1, <2>2 DEF Queue
  <2>4. ChainNodes \subseteq allocated /\ Private \subseteq allocated
    BY <1>1, <2>1, <2>2 DEF Queue
  <2>5. ChainNodes \cap Private = {}
    BY <1>1, <2>1, <2>2 DEF Queue
  <2>6. \A s, t \in At({"lockTail", "link", "free"}) : node[s] = node[t] => s = t
    BY <1>1 DEF Queue, At, Owning
  <2> QED BY <2>3, <2>4, <2>5, <2>6 DEF NoLeak
<1> QED BY <1>4, <1>5, <1>6 DEF HeapSound

\* No operation touches freed memory, the list is well formed and every node in
\* use is in it or in one thread's hands (queue.c lines 29-64), although enqueue
\* and dequeue hold different locks and meet in the dummy node.
THEOREM HeapIsSound == Spec => []HeapSound
BY HeapIsKept, Invariance, PTL

\* A step of the program is one of the queue's, or none.
LEMMA QueueStepIsFifo == IInv /\ [Next]_vars => [Q!Next]_(Tail(Chain))
<1> SUFFICES ASSUME IInv, [Next]_vars PROVE [Q!Next]_(Tail(Chain))
  OBVIOUS
<1>1. Chain \in Seq(Nodes) /\ Len(Chain) \in Nat /\ Len(Chain) >= 1
  BY Elements DEF IInv
<1>2. CASE Chain' = Chain
  BY <1>2
<1>3. ASSUME NEW n \in Nodes, Chain' = Append(Chain, n), \A k \in 1..Len(Chain) : Chain[k] # n
      PROVE  Q!Enqueue(n)
  BY <1>1, <1>3, TailsGrow DEF Q!Enqueue, Q!Contents
<1>4. CASE Chain' = Tail(Chain) /\ Len(Chain) > 1
  <2>1. Tail(Chain) # <<>>
    <3>1. Len(Tail(Chain)) = Len(Chain) - 1
      BY <1>1, HeadTailProperties, EmptySeq
    <3>2. Len(Tail(Chain)) # 0
      BY <1>1, <1>4, <3>1
    <3>3. Tail(Chain) \in Seq(Nodes)
      BY <1>1, HeadTailProperties, EmptySeq
    <3> QED BY <3>2, <3>3, EmptySeq
  <2>2. Tail(Chain') = Tail(Tail(Chain))
    BY <1>4
  <2> QED BY <2>1, <2>2 DEF Q!Next, Q!Dequeue
<1> QED BY <1>2, <1>3, <1>4, NextStep DEF Q!Next

\* The nodes behind the dummy are a FIFO queue: an enqueue takes effect when it
\* writes the last node's next field (queue.c line 44), a dequeue when it moves
\* head (line 59), and no other step changes what the queue holds.
THEOREM QueueIsFifo == Spec => Implements
<1>1. Init => Q!Init
  <2> SUFFICES ASSUME Init PROVE Tail(Chain) = <<>>
    BY DEF Q!Init
  <2>1. Chain = <<head>>
    BY OneNode, QueueIsChain
  <2> QED BY <2>1
<1> QED BY <1>1, QueueStepIsFifo, Invariance, PTL DEF Spec, Implements, Q!Spec

-----------------------------------------------------------------------------
(* linked-list.c: a thread has the lock of the node it is on *)

LinkedLabels == {"new", "loop", "lockHead", "test", "lockNext", "unlockPrevious", "append", "after"}
Walking == {"lockHead", "test", "lockNext", "unlockPrevious", "append"}

LinkedTypes ==
    /\ pc \in [Threads -> LinkedLabels]
    /\ current \in [Threads -> Nodes \cup {NULL}] /\ previous \in [Threads -> Nodes \cup {NULL}]
    /\ allocated \subseteq Nodes /\ next \in [Nodes -> Nodes \cup {NULL}]
    /\ lock \in [Nodes -> {"free", "held"}] /\ head \in Nodes

\* A thread is on a node of the list, and at the end where it appends.
OnTheList ==
    \A t \in Threads :
        /\ pc[t] \in Walking => current[t] \in allocated
        /\ pc[t] \in {"lockNext", "unlockPrevious"} => previous[t] \in allocated
        /\ pc[t] = "unlockPrevious" => previous[t] # current[t]
        /\ pc[t] = "append" => next[current[t]] = NULL

\* q is the list, and what is allocated is in it.
AllOf(q) == List(q, head, next) /\ allocated = {q[k] : k \in 1..Len(q)}

LinkedInv == LinkedTypes /\ OnTheList /\ Linked!LocksOwned /\ AllOf(Linked!Chain)

LEMMA LinkedChainIsWalk == Linked!Chain = Walk(head, next) /\ Linked!Chain' = Walk(head', next')
<1>1. Linked!Cardinality(Nodes) = N
  BY Zenon DEF Linked!Cardinality, Cardinality, N
<1> QED BY <1>1 DEF Linked!Chain, Walk

LEMMA AllOfIsChain == \A q : (AllOf(q) => Linked!Chain = q) /\ (AllOf(q)' => Linked!Chain' = q)
BY LinkedChainIsWalk, WalkIsList DEF AllOf

\* A thread takes a lock that is free, gives back one of its own or does neither.
LEMMA LocksMove ==
    ASSUME LinkedTypes, Linked!LocksOwned, NEW t \in Threads,
           \A s \in Threads \ {t} : Linked!Holds(s)' = Linked!Holds(s),
           \/ Linked!Holds(t)' = Linked!Holds(t) /\ lock' = lock
           \/ \E n \in Nodes : /\ lock[n] = "free" /\ lock' = [lock EXCEPT ![n] = "held"]
                              /\ Linked!Holds(t)' = Linked!Holds(t) \cup {n}
           \/ \E n \in Nodes : /\ n \in Linked!Holds(t) /\ lock' = [lock EXCEPT ![n] = "free"]
                              /\ Linked!Holds(t)' = Linked!Holds(t) \ {n}
    PROVE  Linked!LocksOwned'
<1> DEFINE H(s) == Linked!Holds(s)
           Hp(s) == Linked!Holds(s)'
<1>1. /\ \A r, s \in Threads : r # s => H(r) \cap H(s) = {}
      /\ \A n \in Nodes : lock[n] = "held" <=> \E s \in Threads : n \in H(s)
      /\ lock \in [Nodes -> {"free", "held"}]
  BY DEF Linked!LocksOwned, LinkedTypes
<1>2. \A s \in Threads \ {t} : Hp(s) = H(s)
  OBVIOUS
<1>3. SUFFICES /\ \A r, s \in Threads : r # s => Hp(r) \cap Hp(s) = {}
               /\ \A n \in Nodes : lock'[n] = "held" <=> \E s \in Threads : n \in Hp(s)
  BY DEF Linked!LocksOwned
<1>4. CASE Hp(t) = H(t) /\ lock' = lock
  <2> HIDE DEF H, Hp
  <2>1. \A s \in Threads : Hp(s) = H(s)
    BY <1>2, <1>4
  <2> QED BY <1>1, <1>4, <2>1
<1>5. ASSUME NEW n \in Nodes, lock[n] = "free", lock' = [lock EXCEPT ![n] = "held"],
             Hp(t) = H(t) \cup {n}
      PROVE  /\ \A r, s \in Threads : r # s => Hp(r) \cap Hp(s) = {}
             /\ \A m \in Nodes : lock'[m] = "held" <=> \E s \in Threads : m \in Hp(s)
  <2> HIDE DEF H, Hp
  <2>1. \A s \in Threads : n \notin H(s)
    BY <1>1, <1>5
  <2>2. \A m \in Nodes : lock'[m] = "held" <=> m = n \/ lock[m] = "held"
    BY <1>1, <1>5
  <2> QED BY <1>1, <1>2, <1>5, <2>1, <2>2
<1>6. ASSUME NEW n \in Nodes, n \in H(t), lock' = [lock EXCEPT ![n] = "free"],
             Hp(t) = H(t) \ {n}
      PROVE  /\ \A r, s \in Threads : r # s => Hp(r) \cap Hp(s) = {}
             /\ \A m \in Nodes : lock'[m] = "held" <=> \E s \in Threads : m \in Hp(s)
  <2> HIDE DEF H, Hp
  <2>1. \A s \in Threads \ {t} : n \notin H(s)
    BY <1>1, <1>6
  <2>2. \A m \in Nodes : lock'[m] = "held" <=> m # n /\ lock[m] = "held"
    BY <1>1, <1>6
  <2> QED BY <1>1, <1>2, <1>6, <2>1, <2>2
<1> QED BY <1>4, <1>5, <1>6

\* What every step below uses of the list.
LEMMA Members ==
    ASSUME NEW q, AllOf(q)
    PROVE  /\ q \in Seq(Nodes) /\ Len(q) \in Nat /\ Len(q) \in 1..Len(q) /\ head \in allocated
           /\ \A k \in 1..Len(q) : q[k] \in Nodes
           /\ \A n \in allocated : next[n] \in allocated \cup {NULL}
           /\ \A n \in allocated : next[n] = NULL => n = q[Len(q)]
           /\ next[q[Len(q)]] = NULL
<1>1. /\ q \in Seq(Nodes) /\ q[1] = head /\ Len(q) \in Nat /\ Len(q) >= 1
      /\ \A k \in 1..Len(q) : next[q[k]] = IF k = Len(q) THEN NULL ELSE q[k + 1]
      /\ allocated = {q[k] : k \in 1..Len(q)}
  BY ShortList DEF AllOf, List
<1>2. 1 \in 1..Len(q) /\ Len(q) \in 1..Len(q)
  BY <1>1
<1>3. \A k \in 1..Len(q) : q[k] \in Nodes /\ q[k] # NULL /\ (k # Len(q) => k + 1 \in 1..Len(q))
  BY <1>1, QueueAssumption
<1> QED BY <1>1, <1>2, <1>3

\* A step that does not change the list; who is at its end stays there.
LEMMA WalkStep ==
    ASSUME LinkedTypes, OnTheList, Linked!LocksOwned, NEW q, AllOf(q), NEW t \in Threads,
           \/ Linked!Create(t) \/ Linked!AddToList(t) \/ Linked!LockHead(t) \/ Linked!Walk(t)
           \/ Linked!AtEnd(t) \/ Linked!LockNext(t) \/ Linked!UnlockPrevious(t) \/ Linked!Finish(t)
    PROVE  LinkedTypes' /\ OnTheList' /\ Linked!LocksOwned' /\ AllOf(q)'
<1>1. /\ UNCHANGED <<allocated, next, head>>
      /\ pc' \in [Threads -> LinkedLabels]
      /\ current' \in [Threads -> Nodes \cup {NULL}] /\ previous' \in [Threads -> Nodes \cup {NULL}]
      /\ \A s \in Threads \ {t} : pc'[s] = pc[s] /\ current'[s] = current[s] /\ previous'[s] = previous[s]
  <2>1. CASE Linked!Walk(t)
    <3>1. pc[t] = "test" /\ current[t] \in Nodes
      BY <2>1 DEF Linked!Walk, Linked!Goto, OnTheList, Walking, LinkedTypes
    <3> QED BY <2>1, <3>1 DEF Linked!Walk, Linked!Goto, LinkedTypes, LinkedLabels
  <2>2. CASE ~Linked!Walk(t)
    BY <2>2 DEF Linked!Create, Linked!AddToList, Linked!LockHead, Linked!AtEnd, Linked!LockNext,
       Linked!UnlockPrevious, Linked!Finish, Linked!Goto, LinkedTypes, LinkedLabels
  <2> QED BY <2>1, <2>2
<1>2. AllOf(q)'
  BY <1>1 DEF AllOf
<1>3. \A s \in Threads \ {t} : Linked!Holds(s)' = Linked!Holds(s)
  BY <1>1 DEF Linked!Holds
<1>4. \/ /\ pc[t] \notin Walking /\ pc'[t] \notin Walking /\ lock' = lock
      \/ /\ pc[t] = "loop" /\ pc'[t] = "lockHead" /\ current'[t] = head /\ lock' = lock
      \/ /\ pc[t] = "lockHead" /\ pc'[t] = "test" /\ current'[t] = current[t]
         /\ lock[current[t]] = "free" /\ lock' = [lock EXCEPT ![current[t]] = "held"]
      \/ /\ pc[t] = "test" /\ pc'[t] = "lockNext" /\ next[current[t]] # NULL
         /\ previous'[t] = current[t] /\ current'[t] = next[current[t]] /\ lock' = lock
      \/ /\ pc[t] = "test" /\ pc'[t] = "append" /\ next[current[t]] = NULL
         /\ current'[t] = current[t] /\ lock' = lock
      \/ /\ pc[t] = "lockNext" /\ pc'[t] = "unlockPrevious"
         /\ current'[t] = current[t] /\ previous'[t] = previous[t]
         /\ lock[current[t]] = "free" /\ lock' = [lock EXCEPT ![current[t]] = "held"]
      \/ /\ pc[t] = "unlockPrevious" /\ pc'[t] = "test"
         /\ current'[t] = current[t] /\ previous'[t] = previous[t]
         /\ lock' = [lock EXCEPT ![previous[t]] = "free"]
  BY DEF Linked!Create, Linked!AddToList, Linked!LockHead, Linked!Walk, Linked!AtEnd, Linked!LockNext,
     Linked!UnlockPrevious, Linked!Finish, Linked!Goto, Linked!LockNode, Linked!UnlockNode,
     LinkedTypes, Walking
<1>5. LinkedTypes'
  BY <1>1, <1>4 DEF LinkedTypes
<1>6. /\ pc[t] \in Walking => current[t] \in allocated /\ current[t] \in Nodes
      /\ pc[t] \in {"lockNext", "unlockPrevious"} =>
            /\ previous[t] \in allocated /\ previous[t] \in Nodes
            /\ lock[previous[t]] = "held"
      /\ pc[t] = "unlockPrevious" => previous[t] # current[t]
  <2>1. pc[t] \in {"lockNext", "unlockPrevious"} => previous[t] \in Linked!Holds(t)
    BY DEF Linked!Holds
  <2> QED BY <2>1 DEF OnTheList, Linked!LocksOwned, LinkedTypes
<1>7. OnTheList'
  <2>1. \A s \in Threads \ {t} : OnTheList!(s)'
    BY <1>1 DEF OnTheList
  <2>2. head \in allocated /\ (current[t] \in allocated => next[current[t]] \in allocated \cup {NULL})
    BY Members
  <2>3. OnTheList!(t)'
    BY <1>1, <1>4, <1>6, <2>2 DEF Walking
  <2> QED BY <2>1, <2>3 DEF OnTheList
<1>8. Linked!LocksOwned'
  <2>1. \/ Linked!Holds(t)' = Linked!Holds(t) /\ lock' = lock
        \/ \E n \in Nodes : /\ lock[n] = "free" /\ lock' = [lock EXCEPT ![n] = "held"]
                           /\ Linked!Holds(t)' = Linked!Holds(t) \cup {n}
        \/ \E n \in Nodes : /\ n \in Linked!Holds(t) /\ lock' = [lock EXCEPT ![n] = "free"]
                           /\ Linked!Holds(t)' = Linked!Holds(t) \ {n}
    BY <1>4, <1>6 DEF Linked!Holds, Walking
  <2> QED BY <1>3, <2>1, LocksMove
<1> QED BY <1>2, <1>5, <1>7, <1>8

\* The node is added behind the last one, whose lock t has: nobody else is there.
LEMMA AddStep ==
    ASSUME LinkedTypes, OnTheList, Linked!LocksOwned, NEW q, AllOf(q), NEW t \in Threads, Linked!Add(t)
    PROVE  /\ LinkedTypes' /\ OnTheList' /\ Linked!LocksOwned'
           /\ \E n \in Nodes : AllOf(Append(q, n))' /\ \A k \in 1..Len(q) : q[k] # n
<1>1. PICK n \in Nodes \ allocated :
        /\ allocated' = allocated \cup {n}
        /\ next' = [next EXCEPT ![n] = NULL, ![current[t]] = n]
  BY DEF Linked!Add
<1>2. /\ pc[t] = "append" /\ pc'[t] = "loop" /\ pc' \in [Threads -> LinkedLabels]
      /\ \A s \in Threads \ {t} : pc'[s] = pc[s]
      /\ lock' = [lock EXCEPT ![current[t]] = "free"]
      /\ UNCHANGED <<current, previous, head>>
  BY DEF Linked!Add, Linked!Goto, Linked!UnlockNode, LinkedTypes, LinkedLabels
<1>3. /\ current[t] \in allocated /\ current[t] \in Nodes /\ current[t] # n
      /\ next[current[t]] = NULL /\ current[t] = q[Len(q)]
  BY <1>2, Members DEF OnTheList, Walking, LinkedTypes
<1>4. \A k \in 1..Len(q) : q[k] # n
  BY DEF AllOf
<1>5. LinkedTypes'
  BY <1>1, <1>2 DEF LinkedTypes
<1>6. Linked!LocksOwned'
  <2>1. \A s \in Threads \ {t} : Linked!Holds(s)' = Linked!Holds(s)
    BY <1>2 DEF Linked!Holds
  <2>2. Linked!Holds(t) = {current[t]} /\ Linked!Holds(t)' = {}
    BY <1>2 DEF Linked!Holds
  <2>3. \E m \in Nodes : /\ m \in Linked!Holds(t) /\ lock' = [lock EXCEPT ![m] = "free"]
                         /\ Linked!Holds(t)' = Linked!Holds(t) \ {m}
    BY <1>2, <1>3, <2>2
  <2> QED BY <2>1, <2>3, LocksMove
<1>7. OnTheList'
  <2>1. ASSUME NEW s \in Threads \ {t}, pc[s] = "append" PROVE FALSE
    <3>1. current[s] = q[Len(q)]
      BY <2>1, Members DEF OnTheList, Walking
    <3>2. current[s] \in Linked!Holds(s) /\ current[t] \in Linked!Holds(t)
      BY <1>2, <2>1 DEF Linked!Holds
    <3> QED BY <1>3, <2>1, <3>1, <3>2 DEF Linked!LocksOwned
  <2> QED BY <1>1, <1>2, <2>1 DEF OnTheList, Walking
<1>8. AllOf(Append(q, n))'
  <2> DEFINE nx == [next EXCEPT ![n] = NULL]
             r == Append(q, n)
  <2>1. nx \in [Nodes -> Nodes \cup {NULL}] /\ nx[n] = NULL
    BY DEF LinkedTypes
  <2>2. \A k \in 1..Len(q) : nx[q[k]] = next[q[k]]
    BY <1>4, Members DEF LinkedTypes
  <2>3. List(q, head, nx)
    <3> HIDE DEF nx
    <3> QED BY <2>2 DEF AllOf, List
  <2>4. next' = [nx EXCEPT ![q[Len(q)]] = n]
    BY <1>1, <1>3 DEF LinkedTypes
  <2>5. List(r, head', next')
    <3> HIDE DEF nx
    <3> QED BY <1>2, <1>4, <2>1, <2>3, <2>4, ListGrows
  <2>6. /\ Len(r) = Len(q) + 1 /\ r[Len(q) + 1] = n /\ \A k \in 1..Len(q) : r[k] = q[k]
        /\ Len(q) \in Nat
    BY Members, AppendProperties
  <2>7. allocated' = {r[k] : k \in 1..Len(r)}
    <3> HIDE DEF r
    <3>1. 1..Len(r) = (1..Len(q)) \cup {Len(q) + 1}
      BY <2>6
    <3>2. {r[k] : k \in 1..Len(r)} = {q[k] : k \in 1..Len(q)} \cup {n}
      BY <2>6, <3>1
    <3> QED BY <1>1, <3>2 DEF AllOf
  <2> QED BY <2>5, <2>7 DEF AllOf
<1> QED BY <1>4, <1>5, <1>6, <1>7, <1>8

LEMMA LinkedInit == Linked!Init => LinkedTypes /\ OnTheList /\ Linked!LocksOwned /\ AllOf(<<head>>)
<1> SUFFICES ASSUME Linked!Init
             PROVE  LinkedTypes /\ OnTheList /\ Linked!LocksOwned /\ AllOf(<<head>>)
  OBVIOUS
<1>1. /\ pc = [t \in Threads |-> "new"] /\ lock = [n \in Nodes |-> "free"]
      /\ current = [t \in Threads |-> NULL] /\ previous = [t \in Threads |-> NULL]
      /\ head \in Nodes /\ allocated = {head} /\ next = [n \in Nodes |-> NULL]
  BY DEF Linked!Init
<1>2. LinkedTypes /\ OnTheList
  BY <1>1 DEF LinkedTypes, LinkedLabels, OnTheList, Walking
<1>3. Linked!LocksOwned
  BY <1>1 DEF Linked!LocksOwned, Linked!Holds
<1>4. AllOf(<<head>>)
  BY <1>1, OneNodeList DEF AllOf
<1> QED BY <1>2, <1>3, <1>4

LEMMA LinkedStep ==
    ASSUME LinkedInv, [Linked!Next]_Linked!vars
    PROVE  /\ LinkedInv'
           /\ \/ Linked!Chain' = Linked!Chain
              \/ \E n \in Nodes : /\ Linked!Chain' = Append(Linked!Chain, n)
                                 /\ \A k \in 1..Len(Linked!Chain) : Linked!Chain[k] # n
<1> USE DEF LinkedInv
<1>1. PICK q : q = Linked!Chain /\ AllOf(q)
  OBVIOUS
<1> DEFINE Kept == LinkedTypes' /\ OnTheList' /\ Linked!LocksOwned'
           Effect(r) ==
              \/ r = Linked!Chain
              \/ \E n \in Nodes : /\ r = Append(Linked!Chain, n)
                                 /\ \A k \in 1..Len(Linked!Chain) : Linked!Chain[k] # n
<1>2. \E r : Kept /\ AllOf(r)' /\ Effect(r)
  <2>1. CASE Linked!JoinAll \/ UNCHANGED Linked!vars
    <3>1. UNCHANGED <<pc, current, previous, allocated, next, lock, head>>
      BY <2>1 DEF Linked!JoinAll, Linked!vars
    <3>2. Kept
      <4>1. LinkedTypes' /\ OnTheList'
        BY <3>1 DEF LinkedTypes, OnTheList
      <4>2. \A t \in Threads : Linked!Holds(t)' = Linked!Holds(t)
        BY <3>1 DEF Linked!Holds
      <4>3. Linked!LocksOwned'
        BY <3>1, <4>2 DEF Linked!LocksOwned
      <4> QED BY <4>1, <4>3
    <3>3. AllOf(q)'
      BY <1>1, <3>1 DEF AllOf
    <3> QED BY <1>1, <3>2, <3>3
  <2>2. ASSUME NEW t \in Threads,
               \/ Linked!Create(t) \/ Linked!AddToList(t) \/ Linked!LockHead(t) \/ Linked!Walk(t)
               \/ Linked!AtEnd(t) \/ Linked!LockNext(t) \/ Linked!UnlockPrevious(t) \/ Linked!Finish(t)
        PROVE  Kept /\ AllOf(q)' /\ Effect(q)
    BY <1>1, <2>2, WalkStep
  <2>3. ASSUME NEW t \in Threads, Linked!Add(t)
        PROVE  \E r : Kept /\ AllOf(r)' /\ Effect(r)
    <3>1. Kept
      BY <1>1, <2>3, AddStep
    <3>2. PICK n \in Nodes : AllOf(Append(q, n))' /\ \A k \in 1..Len(q) : q[k] # n
      BY <1>1, <2>3, AddStep
    <3>3. PICK r : r = Append(q, n)
      OBVIOUS
    <3>4. AllOf(r)'
      BY <3>2, <3>3
    <3>5. Effect(r)
      BY <1>1, <3>2, <3>3
    <3> HIDE DEF Kept, Effect
    <3> QED BY <3>1, <3>4, <3>5
  <2> HIDE DEF Kept
  <2> QED BY <2>1, <2>2, <2>3 DEF Linked!Next, Linked!Main, Linked!Thread, Linked!Terminated
<1> HIDE DEF Kept
<1>3. PICK r : Kept /\ AllOf(r)' /\ Effect(r)
  BY <1>2
<1>4. Linked!Chain' = r
  BY <1>3, AllOfIsChain
<1>5. AllOf(Linked!Chain)'
  BY <1>3, <1>4
<1> QED BY <1>1, <1>3, <1>4, <1>5 DEF Kept

THEOREM LinkedInvariance == Linked!Spec => []LinkedInv
<1>1. Linked!Init => LinkedInv
  BY LinkedInit, AllOfIsChain DEF LinkedInv
<1>2. LinkedInv /\ [Linked!Next]_Linked!vars => LinkedInv'
  BY LinkedStep
<1> QED BY <1>1, <1>2, PTL DEF Linked!Spec

LEMMA AllNodesLinked == LinkedInv => Linked!NothingLost
<1> SUFFICES ASSUME LinkedInv PROVE Linked!NothingLost
  OBVIOUS
<1>1. PICK q : q = Linked!Chain /\ AllOf(q)
  BY DEF LinkedInv
<1>2. /\ q \in Seq(Nodes) /\ Len(q) \in Nat /\ DOMAIN q = 1..Len(q)
      /\ allocated = {q[k] : k \in 1..Len(q)} /\ \A k, l \in 1..Len(q) : q[k] = q[l] => k = l
  BY <1>1, Members DEF AllOf, List
<1>3. Cardinality(allocated) = Len(q)
  <2>1. q \in Bijection(1..Len(q), allocated)
    <3>1. q \in [1..Len(q) -> allocated] /\ \A n \in allocated : \E k \in 1..Len(q) : q[k] = n
      BY <1>2
    <3> QED BY <1>2, <3>1 DEF Bijection, Injection, Surjection, IsInjective
  <2>2. IsFiniteSet(1..Len(q)) /\ Cardinality(1..Len(q)) = Len(q)
    BY <1>2, FS_Interval
  <2> QED BY <2>1, <2>2, FS_Bijection DEF ExistsBijection
<1>4. Linked!Cardinality(allocated) = Cardinality(allocated)
  BY Zenon DEF Linked!Cardinality, Cardinality
<1> QED BY <1>1, <1>2, <1>3, <1>4 DEF Linked!NothingLost

\* Every node that linked-list.c ever made is in the list, once, and a node's
\* lock is held by the one thread that thinks so (lines 44-71), however many
\* threads walk behind one another.
THEOREM NoNodeIsLost == Linked!Spec => [](Linked!NothingLost /\ Linked!LocksOwned)
BY AllNodesLinked, LinkedInvariance, PTL DEF LinkedInv

LEMMA LinkedStepIsFifo ==
    LinkedInv /\ [Linked!Next]_Linked!vars => [Linked!Q!Next]_(Tail(Linked!Chain))
<1> SUFFICES ASSUME LinkedInv, [Linked!Next]_Linked!vars
             PROVE  [Linked!Q!Next]_(Tail(Linked!Chain))
  OBVIOUS
<1>1. Linked!Chain \in Seq(Nodes) /\ Len(Linked!Chain) \in Nat /\ Len(Linked!Chain) >= 1
  BY Members DEF LinkedInv
<1>2. ASSUME NEW n \in Nodes, Linked!Chain' = Append(Linked!Chain, n),
             \A k \in 1..Len(Linked!Chain) : Linked!Chain[k] # n
      PROVE  Linked!Q!Enqueue(n)
  BY <1>1, <1>2, TailsGrow DEF Linked!Q!Enqueue, Linked!Q!Contents
<1> QED BY <1>2, LinkedStep DEF Linked!Q!Next

\* The list of linked-list.c is a FIFO queue that nothing is taken from: an
\* append takes effect when it writes the last node's next field (line 69).
THEOREM ListIsQueue == Linked!Spec => Linked!Implements
<1>1. Linked!Init => Linked!Q!Init
  <2> SUFFICES ASSUME Linked!Init PROVE Tail(Linked!Chain) = <<>>
    BY DEF Linked!Q!Init
  <2>1. Linked!Chain = <<head>>
    BY LinkedInit, AllOfIsChain
  <2> QED BY <2>1
<1> QED BY <1>1, LinkedStepIsFifo, LinkedInvariance, PTL
    DEF Linked!Spec, Linked!Implements, Linked!Q!Spec

-----------------------------------------------------------------------------
(* Sums over finite sets *)

\* A set of sets has a member from which nothing can be taken.
LEMMA Smallest ==
    ASSUME NEW S, IsFiniteSet(S), NEW B \in SUBSET (SUBSET S), B # {}
    PROVE  \E s \in B : \A x \in s : s \ {x} \notin B
<1> DEFINE T == {Cardinality(s) : s \in B}
<1>1. \A s \in SUBSET S : IsFiniteSet(s) /\ Cardinality(s) \in Nat
  BY FS_Subset, FS_CardinalityType
<1>2. PICK s \in B : \A u \in B : Cardinality(s) <= Cardinality(u)
  <2>1. T \subseteq Nat /\ T # {}
    BY <1>1
  <2> HIDE DEF T
  <2>2. \E n \in T : \A m \in T : n <= m
    BY <2>1, Least
  <2> QED BY <2>2 DEF T
<1>3. ASSUME NEW x \in s, s \ {x} \in B PROVE FALSE
  <2>1. Cardinality(s \ {x}) = Cardinality(s) - 1 /\ Cardinality(s) \in Nat
    BY <1>1, <1>2, FS_RemoveElement
  <2> QED BY <1>2, <1>3, <2>1
<1> QED BY <1>2, <1>3

\* w[s] is the sum of f over s, as MapThenSumSet computes it.
One(s) == CHOOSE x \in s : TRUE

Sums(S, f, w) ==
    w = [s \in SUBSET S |-> IF s = {} THEN 0 ELSE f[One(s)] + w[s \ {One(s)}]]

Total(S, f) == (CHOOSE w : Sums(S, f, w))[S]

LEMMA SumsAgree ==
    ASSUME NEW S, IsFiniteSet(S), NEW f, NEW w, Sums(S, f, w),
           NEW R, NEW g, NEW v, Sums(R, g, v), S \subseteq R, \A x \in S : f[x] = g[x]
    PROVE  w[S] = v[S]
<1> DEFINE B == {s \in SUBSET S : w[s] # v[s]}
<1>1. CASE B # {}
  <2>1. PICK s \in B : \A x \in s : s \ {x} \notin B
    <3>1. B \in SUBSET (SUBSET S)
      OBVIOUS
    <3> HIDE DEF B
    <3> QED BY <1>1, <3>1, Smallest
  <2>2. s \in SUBSET S /\ s \in SUBSET R
    BY <2>1
  <2>3. CASE s = {}
    BY <2>1, <2>2, <2>3 DEF Sums, One
  <2>4. CASE s # {}
    <3> DEFINE x == One(s)
    <3>1. /\ x \in s
          /\ w[s] = f[x] + w[s \ {x}] /\ v[s] = g[x] + v[s \ {x}]
      <4>1. x \in s /\ w[s] = f[x] + w[s \ {x}]
        BY <2>2, <2>4 DEF Sums, One
      <4>2. v[s] = g[x] + v[s \ {x}]
        BY <2>2, <2>4 DEF Sums
      <4> QED BY <4>1, <4>2
    <3> HIDE DEF x
    <3>2. w[s \ {x}] = v[s \ {x}]
      BY <2>1, <2>2, <3>1
    <3> QED BY <2>1, <2>2, <3>1, <3>2
  <2> QED BY <2>3, <2>4
<1> QED BY <1>1

LEMMA SumsExist ==
    ASSUME NEW S, IsFiniteSet(S), NEW f
    PROVE  \E w : Sums(S, f, w)
<1> DEFINE B == {s \in SUBSET S : ~ \E w : Sums(s, f, w)}
<1>1. CASE B # {}
  <2>1. PICK s \in B : \A x \in s : s \ {x} \notin B
    <3>1. B \in SUBSET (SUBSET S)
      OBVIOUS
    <3> HIDE DEF B
    <3> QED BY <1>1, <3>1, Smallest
  <2>2. ASSUME NEW x \in s, NEW u \in SUBSET (s \ {x}) PROVE \E w : Sums(u, f, w)
    <3>1. PICK w : Sums(s \ {x}, f, w)
      BY <2>1
    <3>2. Sums(u, f, [v \in SUBSET u |-> w[v]])
      BY <3>1 DEF Sums
    <3> QED BY <3>2
  <2> DEFINE V(u) == (CHOOSE w : Sums(u, f, w))[u]
             h == [u \in SUBSET s |-> IF u = {} THEN 0 ELSE f[One(u)] + V(u \ {One(u)})]
  <2>3. ASSUME NEW x \in s, NEW u \in SUBSET (s \ {x}) PROVE h[u] = V(u)
    <3>1. PICK w : w = (CHOOSE g : Sums(u, f, g)) /\ Sums(u, f, w)
      BY <2>2
    <3>2. CASE u = {}
      BY <3>1, <3>2 DEF Sums, One
    <3>3. CASE u # {}
      <4>1. PICK y \in u : y = One(u) /\ w[u] = f[y] + w[u \ {y}]
        <5>1. u \in SUBSET u
          OBVIOUS
        <5> HIDE DEF V, h
        <5>2. One(u) \in u /\ w[u] = f[One(u)] + w[u \ {One(u)}]
          BY <3>1, <3>3, <5>1 DEF Sums, One
        <5> QED BY <5>2
      <4>2. w[u \ {y}] = V(u \ {y})
        <5>1. PICK v : v = (CHOOSE g : Sums(u \ {y}, f, g)) /\ Sums(u \ {y}, f, v)
          BY <2>2
        <5>2. IsFiniteSet(u \ {y})
          BY <2>1, FS_Subset
        <5> QED BY <3>1, <5>1, <5>2, SumsAgree
      <4>3. h[u] = f[y] + V(u \ {y})
        BY <3>3, <4>1
      <4> QED BY <3>1, <4>1, <4>2, <4>3
    <3> QED BY <3>2, <3>3
  <2>4. Sums(s, f, h)
    <3>1. ASSUME NEW u \in SUBSET s, u # {} PROVE h[u \ {One(u)}] = V(u \ {One(u)})
      <4>1. One(u) \in s /\ u \ {One(u)} \in SUBSET (s \ {One(u)})
        BY <3>1 DEF One
      <4> HIDE DEF V, h
      <4> QED BY <2>3, <4>1
    <3>2. h = [u \in SUBSET s |-> IF u = {} THEN 0 ELSE f[One(u)] + h[u \ {One(u)}]]
      <4> HIDE DEF V
      <4> QED BY <3>1
    <3> HIDE DEF h
    <3> QED BY <3>2 DEF Sums
  <2> QED BY <2>1, <2>4
<1> QED BY <1>1

LEMMA TotalIsSum ==
    ASSUME NEW S, IsFiniteSet(S), NEW f, NEW R, NEW w, Sums(R, f, w), S \subseteq R
    PROVE  Total(S, f) = w[S]
<1>1. PICK v : v = (CHOOSE g : Sums(S, f, g)) /\ Sums(S, f, v)
  BY SumsExist
<1> QED BY <1>1, SumsAgree DEF Total

LEMMA EmptyTotal == \A f : Total({}, f) = 0
<1> SUFFICES ASSUME NEW f PROVE Total({}, f) = 0
  OBVIOUS
<1>1. IsFiniteSet({})
  BY FS_EmptySet
<1>2. PICK w : Sums({}, f, w)
  BY <1>1, SumsExist
<1>3. w[{}] = 0
  BY <1>2 DEF Sums
<1> QED BY <1>1, <1>2, <1>3, TotalIsSum

\* The sum does not depend on the order in which elements are taken.
LEMMA TotalSplits ==
    ASSUME NEW S, IsFiniteSet(S), NEW f, \A x \in S : f[x] \in Int
    PROVE  /\ Total(S, f) \in Int
           /\ \A x \in S : Total(S, f) = f[x] + Total(S \ {x}, f)
<1>1. PICK w : Sums(S, f, w)
  BY SumsExist
<1>2. \A s \in SUBSET S : IsFiniteSet(s) /\ Total(s, f) = w[s]
  <2>1. \A s \in SUBSET S : IsFiniteSet(s)
    BY FS_Subset
  <2> QED BY <1>1, <2>1, TotalIsSum
<1> DEFINE B == {s \in SUBSET S : w[s] \notin Int}
           C == {s \in SUBSET S : \E x \in s : w[s] # f[x] + w[s \ {x}]}
<1>3. CASE B # {}
  <2>1. PICK s \in B : \A x \in s : s \ {x} \notin B
    <3>1. B \in SUBSET (SUBSET S)
      OBVIOUS
    <3> HIDE DEF B
    <3> QED BY <1>3, <3>1, Smallest
  <2>2. s # {} /\ One(s) \in s /\ w[s] = f[One(s)] + w[s \ {One(s)}]
    BY <1>1, <2>1 DEF Sums, One
  <2>3. w[s \ {One(s)}] \in Int /\ f[One(s)] \in Int
    BY <2>1, <2>2
  <2> QED BY <2>1, <2>2, <2>3
<1>4. CASE B = {} /\ C # {}
  <2>1. PICK s \in C : \A x \in s : s \ {x} \notin C
    <3>1. C \in SUBSET (SUBSET S)
      OBVIOUS
    <3> HIDE DEF C
    <3> QED BY <1>4, <3>1, Smallest
  <2>2. PICK x \in s : w[s] # f[x] + w[s \ {x}]
    BY <2>1
  <2>3. PICK y \in s : y = One(s) /\ w[s] = f[y] + w[s \ {y}]
    <3>1. s \in SUBSET S /\ s # {}
      BY <2>1, <2>2
    <3> HIDE DEF B, C
    <3>2. One(s) \in s /\ w[s] = f[One(s)] + w[s \ {One(s)}]
      BY <1>1, <3>1 DEF Sums, One
    <3> QED BY <3>2
  <2>4. x # y
    BY <2>2, <2>3
  <2>5. w[s \ {y}] = f[x] + w[(s \ {y}) \ {x}] /\ w[s \ {x}] = f[y] + w[(s \ {x}) \ {y}]
    BY <2>1, <2>4
  <2>6. (s \ {y}) \ {x} = (s \ {x}) \ {y}
    OBVIOUS
  <2>7. f[x] \in Int /\ f[y] \in Int /\ w[(s \ {x}) \ {y}] \in Int
    BY <1>4, <2>1
  <2> HIDE DEF B, C
  <2>8. \A a, b, c \in Int : a + (b + c) = b + (a + c)
    OBVIOUS
  <2>9. w[s] = f[y] + (f[x] + w[(s \ {x}) \ {y}]) /\ w[s \ {x}] = f[y] + w[(s \ {x}) \ {y}]
    BY <2>3, <2>5, <2>6, Zenon
  <2>10. w[s] = f[x] + w[s \ {x}]
    <3>1. f[y] + (f[x] + w[(s \ {x}) \ {y}]) = f[x] + (f[y] + w[(s \ {x}) \ {y}])
      BY <2>7, <2>8, Zenon
    <3> QED BY <2>9, <3>1, Zenon
  <2> QED BY <2>2, <2>10
<1>5. CASE B = {} /\ C = {}
  <2>1. S \in SUBSET S /\ \A x \in S : S \ {x} \in SUBSET S
    OBVIOUS
  <2>2. w[S] \in Int /\ \A x \in S : w[S] = f[x] + w[S \ {x}]
    BY <1>5, <2>1
  <2> QED BY <1>2, <2>1, <2>2
<1> QED BY <1>3, <1>4, <1>5

LEMMA TotalsAgree ==
    ASSUME NEW S, IsFiniteSet(S), NEW f, NEW g, \A x \in S : f[x] = g[x]
    PROVE  Total(S, f) = Total(S, g)
<1>1. PICK w, v : Sums(S, f, w) /\ Sums(S, g, v)
  BY SumsExist
<1> QED BY <1>1, SumsAgree, TotalIsSum

\* One summand changes.
LEMMA TotalChanges ==
    ASSUME NEW S, IsFiniteSet(S), NEW f, NEW g, NEW x \in S,
           \A y \in S : f[y] \in Int /\ g[y] \in Int, \A y \in S \ {x} : f[y] = g[y]
    PROVE  Total(S, g) = Total(S, f) + g[x] - f[x]
<1>1. IsFiniteSet(S \ {x})
  BY FS_Subset
<1>2. Total(S \ {x}, f) = Total(S \ {x}, g) /\ Total(S \ {x}, f) \in Int
  BY <1>1, TotalsAgree, TotalSplits
<1>3. Total(S, f) = f[x] + Total(S \ {x}, f) /\ Total(S, g) = g[x] + Total(S \ {x}, g)
  BY TotalSplits
<1> QED BY <1>2, <1>3

\* Equal summands, and summands with a bound.
LEMMA TotalBounded ==
    ASSUME NEW S, IsFiniteSet(S), NEW f, NEW b \in Nat, \A x \in S : f[x] \in Nat /\ f[x] <= b
    PROVE  /\ Total(S, f) \in Nat /\ Total(S, f) <= Cardinality(S) * b
           /\ (\A x \in S : f[x] = b) => Total(S, f) = Cardinality(S) * b
<1> DEFINE Bounded(s) == /\ Total(s, f) \in Nat /\ Total(s, f) <= Cardinality(s) * b
                         /\ (\A x \in S : f[x] = b) => Total(s, f) = Cardinality(s) * b
           B == {s \in SUBSET S : ~Bounded(s)}
<1>1. CASE B # {}
  <2>1. PICK s \in B : \A x \in s : s \ {x} \notin B
    <3>1. B \in SUBSET (SUBSET S)
      OBVIOUS
    <3> HIDE DEF B
    <3> QED BY <1>1, <3>1, Smallest
  <2>2. s # {}
    <3>1. Cardinality({}) = 0 /\ 0 * b = 0 /\ Total({}, f) = 0 /\ 0 \in Nat /\ 0 <= 0
      BY FS_EmptySet, EmptyTotal
    <3>2. Bounded({})
      BY <3>1, Zenon
    <3> HIDE DEF Bounded
    <3> QED BY <2>1, <3>2
  <2>3. PICK x : x \in s
    BY <2>2
  <2>4. IsFiniteSet(s) /\ Cardinality(s) \in Nat /\ Cardinality(s \ {x}) = Cardinality(s) - 1
    BY <2>1, <2>3, FS_Subset, FS_RemoveElement, FS_CardinalityType
  <2>5. Total(s, f) = f[x] + Total(s \ {x}, f)
    BY <2>1, <2>3, <2>4, TotalSplits
  <2>6. Bounded(s \ {x})
    BY <2>1, <2>3
  <2>7. \A n \in Int : (n - 1) * b = n * b - b /\ n * b \in Int
    OBVIOUS
  <2>8. f[x] \in Nat /\ f[x] <= b /\ ((\A y \in S : f[y] = b) => f[x] = b)
    BY <2>1, <2>3
  <2> DEFINE n == Cardinality(s)
             c == n * b
             r == Total(s \ {x}, f)
  <2>9. /\ (n - 1) * b = c - b /\ c \in Int /\ r \in Nat /\ r <= c - b
        /\ (\A y \in S : f[y] = b) => r = c - b
    <3>1. n \in Int /\ Cardinality(s \ {x}) = n - 1
      BY <2>4
    <3> HIDE DEF n
    <3>2. (n - 1) * b = c - b /\ c \in Int
      BY <2>7, <3>1
    <3> QED BY <2>6, <3>1, <3>2
  <2> HIDE DEF c, r
  <2>10. f[x] + r \in Nat /\ f[x] + r <= c /\ ((\A y \in S : f[y] = b) => f[x] + r = c)
    BY <2>8, <2>9
  <2> QED BY <2>1, <2>5, <2>10 DEF c, r
<1>2. CASE B = {}
  <2>1. Bounded(S)
    BY <1>2
  <2> QED BY <2>1
<1> QED BY <1>1, <1>2

-----------------------------------------------------------------------------
(* sloppy-counter.c: what is counted is in a local counter or in the global one *)

LEMMA SumOverIsTotal == \A f : Sloppy!SumOver(f) = Total(Threads, f)
BY Zenon DEF Total, Sums, One, Sloppy!SumOver, Sloppy!MapThenSumSet, Sloppy!MapThenFoldSet

\* A whole batch more is still whole batches.
LEMMA WholeBatches ==
    ASSUME NEW T \in Nat \ {0}, NEW v \in Nat, v % T = 0
    PROVE  (v + T) % T = 0
<1> DEFINE q == v \div T
           d == (v + T) \div T
           r == (v + T) % T
<1>1. q \in Int /\ d \in Int /\ r \in 0..(T - 1) /\ v = T * q /\ v + T = T * d + r
  OBVIOUS
<1> HIDE DEF q, d, r
<1>2. T * (q + 1 - d) = r
  <2>1. T * (q + 1 - d) = T * q + T - T * d
    BY <1>1
  <2> QED BY <1>1, <2>1
<1>3. \A m \in Int : (m >= 1 => T * m >= T) /\ (m <= -1 => T * m <= -T)
  OBVIOUS
<1>4. q + 1 - d = 0
  <2>1. PICK m \in Int : m = q + 1 - d
    BY <1>1
  <2>2. T * m \in 0..(T - 1)
    BY <1>1, <1>2, <2>1
  <2> QED BY <1>3, <2>1, <2>2
<1>5. T * 0 = 0
  OBVIOUS
<1> QED BY <1>2, <1>4, <1>5 DEF r

\* Sloppy!Conserved, with Total for its sums.
Added == {"lockGlobal", "flush", "reset", "unlock"}
Twice == [t \in Threads |-> local[id[t]]]
Balance ==
    value + Total(Threads, local) - Total(At({"reset"}), Twice)
        = Total(Threads, i) + Cardinality(At(Added))

LEMMA ConservedIsBalance == Sloppy!Conserved <=> Balance
<1>1. \A L : Sloppy!At(L) = At(L)
  BY DEF Sloppy!At, At
<1>2. \A S : Sloppy!Cardinality(S) = Cardinality(S)
  BY Zenon DEF Sloppy!Cardinality, Cardinality
<1> DEFINE R == At({"reset"})
<1>3. Sloppy!MapThenSumSet(LAMBDA t : local[id[t]], R) = Total(R, Twice)
  <2>1. \A s \in SUBSET R : s # {} => Twice[One(s)] = local[id[One(s)]]
    BY DEF One, Twice, At
  <2> HIDE DEF R
  <2>2. \A w : Sums(R, Twice, w) <=> w = [s \in SUBSET R |-> IF s = {} THEN 0
                                              ELSE local[id[One(s)]] + w[s \ {One(s)}]]
    BY <2>1 DEF Sums
  <2>3. (CHOOSE w : Sums(R, Twice, w)) = (CHOOSE w : w = [s \in SUBSET R |-> IF s = {} THEN 0
                                              ELSE local[id[One(s)]] + w[s \ {One(s)}]])
    BY <2>2
  <2> QED BY <2>3, Zenon DEF Total, One, Sloppy!MapThenSumSet, Sloppy!MapThenFoldSet
<1> QED BY <1>1, <1>2, <1>3, SumOverIsTotal DEF Sloppy!Conserved, Added, Balance

LEMMA NextBalance == Sloppy!Conserved' <=> Balance'
BY ConservedIsBalance, PTL

SloppyLabels == {"new", "loop", "lockLocal", "add", "lockGlobal", "flush", "reset", "unlock", "after"}
Full == {"lockGlobal", "flush", "reset"}
Counting == {"add", "unlock"} \cup Full

SloppyTypes ==
    /\ pc \in [Threads -> SloppyLabels] /\ i \in [Threads -> Nat]
    /\ id \in [Threads -> Threads] /\ (Threads # {} => tw \in Threads)
    /\ local \in [Threads -> Nat] /\ locallock \in [Threads -> {"free", "held"}]
    /\ value \in Nat /\ created \in Nat /\ (main = "create" => created \in Threads)

\* One thread at each local counter, whoever's it was meant to be.
CountersOwned ==
    /\ \A s, t \in Threads : pc[s] \in Counting /\ pc[t] \in Counting /\ id[s] = id[t] => s = t
    /\ \A t \in Threads : pc[t] \in Counting => locallock[id[t]] = "held"

\* A local counter is full while a thread empties it, and at no other time.
Levels ==
    \A c \in Threads :
        \/ local[c] < Threshold /\ \A t \in Threads : pc[t] \in Full => id[t] # c
        \/ local[c] = Threshold /\ \E t \in Threads : pc[t] \in Full /\ id[t] = c

Rounds ==
    \A t \in Threads :
        /\ i[t] <= MaxIncrement
        /\ pc[t] \in {"lockLocal"} \cup Counting => i[t] < MaxIncrement
        /\ pc[t] = "after" => i[t] = MaxIncrement

\* main reads the counter when everybody is done.
Ending ==
    /\ main \in {"get", "ended"} => \A t \in Threads : pc[t] = "after"
    /\ main = "ended" => result = value

SloppyInv ==
    /\ SloppyTypes /\ CountersOwned /\ Levels /\ Rounds /\ Ending
    /\ value % Threshold = 0 /\ Balance

\* What the assumption says.
LEMMA SloppyParameters ==
    ASSUME Sloppy!Parameters
    PROVE  /\ IsFiniteSet(Threads) /\ Threads = 0..(Cardinality(Threads) - 1)
           /\ Cardinality(Threads) \in Nat
           /\ Threshold \in Nat \ {0} /\ MaxIncrement \in Nat
<1>1. Sloppy!Cardinality(Threads) = Cardinality(Threads)
  BY Zenon DEF Sloppy!Cardinality, Cardinality
<1> QED BY <1>1, ThreadsAssumption, CountsAreNatural DEF Sloppy!Parameters

LEMMA SloppyMoves ==
    ASSUME SloppyTypes, NEW t \in Threads, NEW from, NEW to \in SloppyLabels, Sloppy!Goto(t, from, to)
    PROVE  /\ pc[t] = from /\ pc'[t] = to /\ pc' \in [Threads -> SloppyLabels]
           /\ \A s \in Threads \ {t} : pc'[s] = pc[s]
           /\ \A L : Cardinality(At(L)') = Cardinality(At(L))
                        + (IF to \in L THEN 1 ELSE 0) - (IF from \in L THEN 1 ELSE 0)
<1>1. Goto(t, from, to)
  BY DEF Goto, Sloppy!Goto
<1>2. \A L : Cardinality(At(L)') = Cardinality(At(L))
                + (IF to \in L THEN 1 ELSE 0) - (IF from \in L THEN 1 ELSE 0)
  BY <1>1, MoveCounts DEF SloppyTypes
<1> QED BY <1>1, <1>2 DEF Goto, SloppyTypes

\* The sums are numbers, before and after a step.
LEMMA Numbers ==
    ASSUME SloppyTypes, SloppyTypes', Sloppy!Parameters
    PROVE  /\ IsFiniteSet(At({"reset"})) /\ IsFiniteSet(At({"reset"})') /\ IsFiniteSet(Threads)
           /\ Total(Threads, local) \in Int /\ Total(Threads, local') \in Int
           /\ Total(Threads, i) \in Int /\ Total(Threads, i') \in Int
           /\ Total(At({"reset"}), Twice) \in Int
           /\ Cardinality(At(Added)) \in Int /\ value \in Int
           /\ \A t \in Threads : Twice[t] = local[id[t]] /\ Twice[t] \in Int
           /\ \A t \in Threads : Twice'[t] = local'[id'[t]] /\ Twice'[t] \in Int
<1>1. IsFiniteSet(Threads) /\ IsFiniteSet(At({"reset"})) /\ IsFiniteSet(At({"reset"})')
  BY SloppyParameters, FS_Subset DEF At
<1>2. /\ \A t \in Threads : local[t] \in Int /\ local'[t] \in Int /\ i[t] \in Int /\ i'[t] \in Int
      /\ \A t \in Threads : Twice[t] = local[id[t]] /\ Twice[t] \in Int
      /\ \A t \in Threads : Twice'[t] = local'[id'[t]] /\ Twice'[t] \in Int
  BY DEF SloppyTypes, Twice
<1>3. /\ Total(Threads, local) \in Int /\ Total(Threads, local') \in Int
      /\ Total(Threads, i) \in Int /\ Total(Threads, i') \in Int
  BY <1>1, <1>2, TotalSplits
<1>4. Total(At({"reset"}), Twice) \in Int
  <2>1. \A t \in At({"reset"}) : Twice[t] \in Int
    BY <1>2 DEF At
  <2> QED BY <1>1, <2>1, TotalSplits
<1> QED BY <1>1, <1>2, <1>3, <1>4, CountsAreNatural DEF SloppyTypes

\* One counter gets another value.
LEMMA OneCounterChanges ==
    ASSUME Sloppy!Parameters, NEW f, NEW g, NEW c \in Threads,
           \A y \in Threads : f[y] \in Nat /\ g[y] \in Nat, \A y \in Threads \ {c} : f[y] = g[y]
    PROVE  Total(Threads, g) = Total(Threads, f) + g[c] - f[c]
<1>1. IsFiniteSet(Threads) /\ \A y \in Threads : f[y] \in Int /\ g[y] \in Int
  BY SloppyParameters
<1> QED BY <1>1, TotalChanges

\* A step that leaves the counters alone.
LEMMA BalanceKept ==
    ASSUME SloppyTypes, SloppyTypes', Sloppy!Parameters, Balance,
           UNCHANGED <<local, value, i>>, At({"reset"})' = At({"reset"}),
           \A t \in At({"reset"}) : id'[t] = id[t],
           Cardinality(At(Added)') = Cardinality(At(Added))
    PROVE  Balance'
<1>1. \A t \in At({"reset"}) : Twice'[t] = Twice[t]
  BY Numbers DEF At
<1>2. Total(At({"reset"}), Twice) = Total(At({"reset"}), Twice')
  BY <1>1, Numbers, TotalsAgree
<1> QED BY <1>2 DEF Balance

LEMMA SloppyQuietStep ==
    ASSUME SloppyInv, Sloppy!Parameters, NEW t \in Threads,
           \/ Sloppy!ReadId(t) \/ Sloppy!LockLocal(t) \/ Sloppy!LockGlobal(t) \/ Sloppy!Finish(t)
    PROVE  SloppyInv'
<1> USE DEF SloppyInv
<1>1. /\ UNCHANGED <<i, local, value, main, created, tw, result>>
      /\ pc' \in [Threads -> SloppyLabels] /\ id' \in [Threads -> Threads]
      /\ \A s \in Threads \ {t} : pc'[s] = pc[s] /\ id'[s] = id[s]
      /\ \/ /\ pc[t] = "loop" /\ pc'[t] = "lockLocal" /\ i[t] < MaxIncrement /\ UNCHANGED locallock
         \/ /\ pc[t] = "lockLocal" /\ pc'[t] = "add" /\ id'[t] = id[t] /\ locallock[id[t]] = "free"
            /\ locallock' = [locallock EXCEPT ![id[t]] = "held"]
         \/ /\ pc[t] = "lockGlobal" /\ pc'[t] = "flush" /\ id'[t] = id[t] /\ UNCHANGED locallock
         \/ /\ pc[t] = "loop" /\ pc'[t] = "after" /\ i[t] >= MaxIncrement /\ UNCHANGED locallock
      /\ Cardinality(At(Added)') = Cardinality(At(Added))
  <2>1. CASE Sloppy!ReadId(t)
    BY <2>1, SloppyMoves, CountsAreNatural
       DEF Sloppy!ReadId, Sloppy!counter, Sloppy!mainVars, SloppyLabels, SloppyTypes, Added
  <2>2. CASE Sloppy!LockLocal(t)
    BY <2>2, SloppyMoves, CountsAreNatural
       DEF Sloppy!LockLocal, Sloppy!mainVars, SloppyLabels, SloppyTypes, Added
  <2>3. CASE Sloppy!LockGlobal(t)
    BY <2>3, SloppyMoves, CountsAreNatural
       DEF Sloppy!LockGlobal, Sloppy!mainVars, SloppyLabels, SloppyTypes, Added
  <2>4. CASE Sloppy!Finish(t)
    BY <2>4, SloppyMoves, CountsAreNatural
       DEF Sloppy!Finish, Sloppy!counter, Sloppy!mainVars, SloppyLabels, SloppyTypes, Added
  <2> QED BY <2>1, <2>2, <2>3, <2>4
<1>2. SloppyTypes'
  BY <1>1 DEF SloppyTypes
<1>3. CountersOwned'
  BY <1>1 DEF CountersOwned, Counting, Full, SloppyTypes
<1>4. Levels'
  <2>1. \A s \in Threads : /\ pc'[s] \in Full <=> pc[s] \in Full
                           /\ pc[s] \in Full => id'[s] = id[s]
    BY <1>1 DEF Full
  <2> QED BY <1>1, <2>1 DEF Levels
<1>5. Rounds' /\ Ending'
  <2>1. MaxIncrement \in Nat /\ i[t] \in Nat /\ (i[t] >= MaxIncrement => i[t] = MaxIncrement)
    BY SloppyParameters DEF Rounds, SloppyTypes
  <2>2. Rounds'
    BY <1>1, <2>1 DEF Rounds, Counting, Full
  <2>3. pc[t] # "after"
    BY <1>1
  <2> QED BY <1>1, <2>2, <2>3 DEF Ending
<1>6. At({"reset"})' = At({"reset"}) /\ \A s \in At({"reset"}) : id'[s] = id[s]
  BY <1>1 DEF At
<1>7. Balance'
  BY <1>1, <1>2, <1>6, BalanceKept
<1> QED BY <1>1, <1>2, <1>3, <1>4, <1>5, <1>7

\* local[id[t]] is counted up; nobody who empties a counter is at this one.
LEMMA SloppyAddStep ==
    ASSUME SloppyInv, Sloppy!Parameters, NEW t \in Threads, Sloppy!Add(t)
    PROVE  SloppyInv'
<1> USE DEF SloppyInv
<1> DEFINE c == id[t]
<1>1. /\ local' = [local EXCEPT ![c] = @ + 1]
      /\ UNCHANGED <<i, id, locallock, value, main, created, tw, result>>
  BY DEF Sloppy!Add, Sloppy!mainVars
<1>2. c \in Threads /\ local'[c] = local[c] + 1 /\ local' \in [Threads -> Nat]
      /\ \A b \in Threads \ {c} : local'[b] = local[b]
  BY <1>1 DEF SloppyTypes
<1>3. PICK to \in {"lockGlobal", "unlock"} :
        Sloppy!Goto(t, "add", to) /\ (to = "lockGlobal" <=> local'[c] >= Threshold)
  BY DEF Sloppy!Add
<1>4. /\ pc[t] = "add" /\ pc'[t] = to /\ pc' \in [Threads -> SloppyLabels]
      /\ \A s \in Threads \ {t} : pc'[s] = pc[s]
      /\ Cardinality(At(Added)') = Cardinality(At(Added)) + 1
  <2>1. to \in SloppyLabels /\ to \in Added /\ "add" \notin Added
    BY DEF SloppyLabels, Added
  <2> QED BY <1>3, <2>1, SloppyMoves, CountsAreNatural
<1>5. SloppyTypes'
  BY <1>1, <1>2, <1>4 DEF SloppyTypes
<1>6. CountersOwned'
  BY <1>1, <1>3, <1>4 DEF CountersOwned, Counting, Full
<1>7. \A s \in Threads \ {t} : pc[s] \in Counting => id[s] # c
  BY <1>4 DEF CountersOwned, Counting
<1>8. Levels'
  <2>1. local[c] < Threshold /\ local[c] \in Nat /\ Threshold \in Nat
    BY <1>2, <1>4, <1>7, SloppyParameters DEF Levels, Full, Counting, SloppyTypes
  <2>2. \/ to = "lockGlobal" /\ local'[c] = Threshold
        \/ to = "unlock" /\ local'[c] < Threshold
    BY <1>2, <1>3, <2>1
  <2>3. \A s \in Threads : pc'[s] \in Full <=> (s = t /\ to = "lockGlobal") \/ (s # t /\ pc[s] \in Full)
    BY <1>3, <1>4 DEF Full
  <2>4. \A s \in Threads : s # t /\ pc[s] \in Full => id[s] # c
    BY <1>7 DEF Counting
  <2>5. pc[t] \notin Full
    BY <1>4 DEF Full
  <2> HIDE DEF c
  <2>6. ASSUME NEW b \in Threads, b # c
        PROVE  \/ local'[b] < Threshold /\ \A s \in Threads : pc'[s] \in Full => id[s] # b
               \/ local'[b] = Threshold /\ \E s \in Threads : pc'[s] \in Full /\ id[s] = b
    <3>1. \A s \in Threads : id[s] = b => (pc'[s] \in Full <=> pc[s] \in Full)
      BY <2>3, <2>5, <2>6 DEF c
    <3> QED BY <1>2, <2>6, <3>1 DEF Levels
  <2>7. \/ local'[c] < Threshold /\ \A s \in Threads : pc'[s] \in Full => id[s] # c
        \/ local'[c] = Threshold /\ \E s \in Threads : pc'[s] \in Full /\ id[s] = c
    BY <2>2, <2>3, <2>4 DEF c
  <2> QED BY <1>1, <2>6, <2>7 DEF Levels
<1>9. Rounds' /\ Ending'
  BY <1>1, <1>3, <1>4 DEF Rounds, Ending, Counting, Full
<1>10. Balance'
  <2>1. Total(Threads, local') = Total(Threads, local) + local'[c] - local[c]
    <3>1. /\ c \in Threads /\ \A b \in Threads \ {c} : local[b] = local'[b]
          /\ \A b \in Threads : local[b] \in Nat /\ local'[b] \in Nat
      BY <1>2 DEF SloppyTypes
    <3> HIDE DEF c, SloppyInv
    <3> QED BY <3>1, OneCounterChanges
  <2>2. At({"reset"})' = At({"reset"})
    BY <1>3, <1>4 DEF At
  <2>3. \A s \in At({"reset"}) : Twice[s] = Twice'[s]
    BY <1>1, <1>2, <1>4, <1>5, <1>7, Numbers DEF At, Counting, Full, SloppyTypes
  <2>4. Total(At({"reset"}), Twice) = Total(At({"reset"}), Twice')
    BY <1>5, <2>3, Numbers, TotalsAgree
  <2>5. local[c] \in Int /\ local'[c] = local[c] + 1
    BY <1>2 DEF SloppyTypes
  <2> HIDE DEF c
  <2>6. Total(Threads, local') = Total(Threads, local) + 1
    BY <1>5, <2>1, <2>5, Numbers
  <2> QED BY <1>1, <1>4, <1>5, <2>2, <2>4, <2>6, Numbers DEF Balance
<1> QED BY <1>1, <1>5, <1>6, <1>8, <1>9, <1>10

\* The full counter goes into the global one and counts twice from here on.
LEMMA SloppyFlushStep ==
    ASSUME SloppyInv, Sloppy!Parameters, NEW t \in Threads, Sloppy!Flush(t)
    PROVE  SloppyInv'
<1> USE DEF SloppyInv
<1> DEFINE c == id[t]
           R == At({"reset"})
<1>1. /\ value' = value + local[c] /\ c \in Threads
      /\ UNCHANGED <<i, id, local, locallock, main, created, tw, result>>
  BY DEF Sloppy!Flush, Sloppy!mainVars, SloppyTypes
<1>2. /\ pc[t] = "flush" /\ pc'[t] = "reset" /\ pc' \in [Threads -> SloppyLabels]
      /\ \A s \in Threads \ {t} : pc'[s] = pc[s]
      /\ Cardinality(At(Added)') = Cardinality(At(Added))
  <2>1. "reset" \in SloppyLabels /\ "reset" \in Added /\ "flush" \in Added
    BY DEF SloppyLabels, Added
  <2>2. Sloppy!Goto(t, "flush", "reset")
    BY DEF Sloppy!Flush
  <2> QED BY <2>1, <2>2, SloppyMoves, CountsAreNatural
<1>3. local[c] = Threshold /\ local[c] \in Nat /\ Threshold \in Nat \ {0} /\ value \in Nat
  BY <1>1, <1>2, SloppyParameters DEF Levels, Full, SloppyTypes
<1>4. value' \in Nat /\ value' % Threshold = 0
  <2>1. value' = value + Threshold
    <3> HIDE DEF c
    <3> QED BY <1>1, <1>3
  <2>2. value % Threshold = 0
    OBVIOUS
  <2> HIDE DEF SloppyInv
  <2>3. (value + Threshold) % Threshold = 0
    BY <1>3, <2>2, WholeBatches
  <2> QED BY <1>3, <2>1, <2>3
<1>5. SloppyTypes'
  BY <1>1, <1>2, <1>4 DEF SloppyTypes
<1>6. CountersOwned' /\ Rounds'
  BY <1>1, <1>2 DEF CountersOwned, Rounds, Counting, Full
<1>7. Levels'
  <2>1. \A s \in Threads : pc'[s] \in Full <=> pc[s] \in Full
    BY <1>2 DEF Full
  <2> QED BY <1>1, <2>1 DEF Levels
<1>8. Ending'
  BY <1>1, <1>2 DEF Ending
<1>9. Balance'
  <2>1. R' = R \cup {t} /\ t \notin R
    BY <1>2 DEF At
  <2>2. Total(R', Twice') = local[c] + Total(R, Twice)
    <3>1. IsFiniteSet(R') /\ \A s \in R' : Twice[s] \in Int
      BY <1>5, Numbers DEF At
    <3>2. t \in R' /\ R' \ {t} = R /\ Twice' = Twice /\ Twice[t] = local[c]
      BY <1>1, <2>1 DEF Twice
    <3> HIDE DEF R, c
    <3>3. Total(R', Twice) = Twice[t] + Total(R' \ {t}, Twice)
      BY <3>1, <3>2, TotalSplits
    <3> QED BY <3>2, <3>3
  <2>3. Total(R, Twice) \in Int
    BY <1>5, Numbers
  <2> HIDE DEF R, c
  <2> QED BY <1>1, <1>2, <1>3, <1>5, <2>2, <2>3, Numbers DEF Balance, R
<1> QED BY <1>1, <1>4, <1>5, <1>6, <1>7, <1>8, <1>9

\* The counter is emptied: what it held is in the global one only.
LEMMA SloppyResetStep ==
    ASSUME SloppyInv, Sloppy!Parameters, NEW t \in Threads, Sloppy!Reset(t)
    PROVE  SloppyInv'
<1> USE DEF SloppyInv
<1> DEFINE c == id[t]
           R == At({"reset"})
<1>1. /\ local' = [local EXCEPT ![c] = 0] /\ c \in Threads /\ local[c] \in Nat
      /\ UNCHANGED <<i, id, locallock, value, main, created, tw, result>>
  BY DEF Sloppy!Reset, Sloppy!mainVars, SloppyTypes
<1>2. /\ local' \in [Threads -> Nat] /\ local'[c] = 0
      /\ \A b \in Threads \ {c} : local'[b] = local[b]
  BY <1>1 DEF SloppyTypes
<1>3. /\ pc[t] = "reset" /\ pc'[t] = "unlock" /\ pc' \in [Threads -> SloppyLabels]
      /\ \A s \in Threads \ {t} : pc'[s] = pc[s]
      /\ Cardinality(At(Added)') = Cardinality(At(Added))
  <2>1. "unlock" \in SloppyLabels /\ "reset" \in Added /\ "unlock" \in Added
    BY DEF SloppyLabels, Added
  <2>2. Sloppy!Goto(t, "reset", "unlock")
    BY DEF Sloppy!Reset
  <2> QED BY <2>1, <2>2, SloppyMoves, CountsAreNatural
<1>4. SloppyTypes'
  BY <1>1, <1>2, <1>3 DEF SloppyTypes
<1>5. CountersOwned' /\ Rounds'
  BY <1>1, <1>3 DEF CountersOwned, Rounds, Counting, Full
<1>6. \A s \in Threads \ {t} : pc[s] \in Counting => id[s] # c
  BY <1>3 DEF CountersOwned, Counting, Full
<1>7. Levels'
  <2>1. \A s \in Threads : pc'[s] \in Full <=> s # t /\ pc[s] \in Full
    BY <1>3 DEF Full
  <2>2. \A s \in Threads : pc'[s] \in Full => id[s] # c
    BY <1>6, <2>1 DEF Counting
  <2>3. 0 < Threshold
    BY SloppyParameters
  <2> HIDE DEF c
  <2>4. ASSUME NEW b \in Threads, b # c
        PROVE  \/ local'[b] < Threshold /\ \A s \in Threads : pc'[s] \in Full => id[s] # b
               \/ local'[b] = Threshold /\ \E s \in Threads : pc'[s] \in Full /\ id[s] = b
    <3>1. \A s \in Threads : id[s] = b => (pc'[s] \in Full <=> pc[s] \in Full)
      BY <2>1, <2>4 DEF c
    <3> QED BY <1>2, <2>4, <3>1 DEF Levels
  <2> QED BY <1>1, <1>2, <2>2, <2>3, <2>4 DEF Levels
<1>8. Ending'
  BY <1>1, <1>3 DEF Ending
<1>9. Balance'
  <2>1. R' = R \ {t} /\ t \in R
    BY <1>3 DEF At
  <2>2. Total(R', Twice') = Total(R, Twice) - local[c]
    <3>1. \A s \in R' : Twice[s] = Twice'[s]
      BY <1>1, <1>2, <1>3, <1>4, <1>6, Numbers DEF At, Counting, Full
    <3>2. IsFiniteSet(R) /\ IsFiniteSet(R') /\ \A s \in R : Twice[s] \in Int
      BY <1>4, Numbers DEF At
    <3>3. Twice[t] = local[c]
      BY DEF Twice
    <3> HIDE DEF R, c
    <3>4. Total(R', Twice) = Total(R', Twice')
      BY <3>1, <3>2, TotalsAgree
    <3>5. Total(R, Twice) = Twice[t] + Total(R \ {t}, Twice)
      BY <2>1, <3>2, TotalSplits
    <3>6. IsFiniteSet(R \ {t}) /\ Total(R \ {t}, Twice) \in Int
      <4>1. IsFiniteSet(R \ {t}) /\ \A s \in R \ {t} : Twice[s] \in Int
        BY <2>1, <3>2
      <4> QED BY <4>1, TotalSplits
    <3> QED BY <1>1, <2>1, <3>3, <3>4, <3>5, <3>6
  <2>3. Total(Threads, local') = Total(Threads, local) - local[c]
    <3>1. /\ c \in Threads /\ \A b \in Threads \ {c} : local[b] = local'[b]
          /\ \A b \in Threads : local[b] \in Nat /\ local'[b] \in Nat
      BY <1>1, <1>2 DEF SloppyTypes
    <3> HIDE DEF c, SloppyInv
    <3>2. Total(Threads, local') = Total(Threads, local) + local'[c] - local[c]
      BY <3>1, OneCounterChanges
    <3>3. Total(Threads, local) \in Int
      BY <1>4, Numbers DEF SloppyInv
    <3> QED BY <1>1, <1>2, <3>2, <3>3
  <2>4. Total(R, Twice) \in Int
    BY <1>4, Numbers
  <2> HIDE DEF R, c
  <2> QED BY <1>1, <1>3, <1>4, <2>2, <2>3, <2>4, Numbers DEF Balance, R
<1> QED BY <1>1, <1>4, <1>5, <1>7, <1>8, <1>9

\* The increment is over: the loop counter has it.
LEMMA SloppyUnlockStep ==
    ASSUME SloppyInv, Sloppy!Parameters, NEW t \in Threads, Sloppy!UnlockLocal(t)
    PROVE  SloppyInv'
<1> USE DEF SloppyInv
<1>1. /\ i' = [i EXCEPT ![t] = i[t] + 1] /\ locallock' = [locallock EXCEPT ![id[t]] = "free"]
      /\ UNCHANGED <<id, local, value, main, created, tw, result>>
  BY DEF Sloppy!UnlockLocal, Sloppy!mainVars
<1>2. i \in [Threads -> Nat] /\ i' \in [Threads -> Nat] /\ i'[t] = i[t] + 1 /\ i[t] \in Nat
      /\ \A s \in Threads \ {t} : i'[s] = i[s]
  BY <1>1 DEF SloppyTypes
<1>3. /\ pc[t] = "unlock" /\ pc'[t] = "loop" /\ pc' \in [Threads -> SloppyLabels]
      /\ \A s \in Threads \ {t} : pc'[s] = pc[s]
      /\ Cardinality(At(Added)') = Cardinality(At(Added)) - 1
  <2>1. "loop" \in SloppyLabels /\ "loop" \notin Added /\ "unlock" \in Added
    BY DEF SloppyLabels, Added
  <2>2. Sloppy!Goto(t, "unlock", "loop")
    BY DEF Sloppy!UnlockLocal
  <2> QED BY <2>1, <2>2, SloppyMoves, CountsAreNatural
<1>4. SloppyTypes'
  BY <1>1, <1>2, <1>3 DEF SloppyTypes
<1>5. CountersOwned'
  BY <1>1, <1>3 DEF CountersOwned, Counting, Full, SloppyTypes
<1>6. Levels'
  <2>1. \A s \in Threads : pc'[s] \in Full <=> pc[s] \in Full
    BY <1>3 DEF Full
  <2> QED BY <1>1, <2>1 DEF Levels
<1>7. Rounds'
  <2>1. MaxIncrement \in Nat /\ i[t] < MaxIncrement
    BY <1>3, SloppyParameters DEF Rounds, Counting
  <2> QED BY <1>2, <1>3, <2>1 DEF Rounds, Counting, Full
<1>8. Ending'
  BY <1>1, <1>3 DEF Ending
<1>9. Balance'
  <2>1. At({"reset"})' = At({"reset"}) /\ Twice' = Twice
    BY <1>1, <1>3 DEF At, Twice
  <2>2. Total(Threads, i') = Total(Threads, i) + i'[t] - i[t]
    <3>1. /\ \A s \in Threads \ {t} : i[s] = i'[s]
          /\ \A s \in Threads : i[s] \in Nat /\ i'[s] \in Nat
      BY <1>2
    <3> HIDE DEF SloppyInv
    <3> QED BY <3>1, OneCounterChanges
  <2>3. Total(Threads, i') = Total(Threads, i) + 1
    BY <1>2, <1>4, <2>2, Numbers
  <2> QED BY <1>1, <1>3, <1>4, <2>1, <2>3, Numbers DEF Balance
<1> QED BY <1>1, <1>4, <1>5, <1>6, <1>7, <1>8, <1>9

\* main writes the struct the threads point to, creates, joins and reads.
LEMMA SloppyMainStep ==
    ASSUME SloppyInv, Sloppy!Parameters, Sloppy!Main
    PROVE  SloppyInv'
<1> USE DEF SloppyInv
<1>1. UNCHANGED <<i, id, local, locallock, value>>
  BY DEF Sloppy!Main, Sloppy!SetArgument, Sloppy!Create, Sloppy!JoinAll, Sloppy!Get, Sloppy!counter
<1>2. /\ SloppyTypes' /\ Ending' /\ At({"reset"})' = At({"reset"})
      /\ Cardinality(At(Added)') = Cardinality(At(Added))
      /\ \A s \in Threads : pc'[s] # pc[s] => pc[s] = "new" /\ pc'[s] = "loop"
  <2>1. CASE Sloppy!Create
    <3>1. created \in Threads /\ Sloppy!Goto(created, "new", "loop")
          /\ created' = created + 1 /\ main = "create" /\ main' = "argument" /\ tw' = tw
      BY <2>1 DEF Sloppy!Create, SloppyTypes
    <3>2. "loop" \in SloppyLabels /\ "loop" \notin Added /\ "new" \notin Added
      BY DEF SloppyLabels, Added
    <3>3. /\ pc[created] = "new" /\ pc'[created] = "loop" /\ pc' \in [Threads -> SloppyLabels]
          /\ \A s \in Threads \ {created} : pc'[s] = pc[s]
          /\ Cardinality(At(Added)') = Cardinality(At(Added))
      BY <3>1, <3>2, SloppyMoves, CountsAreNatural
    <3>4. SloppyTypes'
      BY <1>1, <3>1, <3>3 DEF SloppyTypes
    <3> QED BY <3>1, <3>3, <3>4 DEF Ending, At
  <2>2. CASE Sloppy!SetArgument
    <3>1. /\ created < Cardinality(Threads) /\ tw' = created /\ main' = "create"
          /\ UNCHANGED <<pc, created, result>>
      <4>1. Sloppy!Cardinality(Threads) = Cardinality(Threads)
        BY Zenon DEF Sloppy!Cardinality, Cardinality
      <4> QED BY <2>2, <4>1 DEF Sloppy!SetArgument
    <3>2. created \in Threads
      <4>1. created \in Nat
        BY DEF SloppyTypes
      <4>2. created \in 0..(Cardinality(Threads) - 1)
        BY <3>1, <4>1, SloppyParameters
      <4> QED BY <4>2, SloppyParameters
    <3>3. SloppyTypes'
      BY <1>1, <3>1, <3>2 DEF SloppyTypes
    <3> QED BY <3>1, <3>3 DEF Ending, At
  <2>3. CASE Sloppy!JoinAll \/ Sloppy!Get
    <3>1. UNCHANGED <<pc, tw, created>> /\ main' # "create"
      BY <2>3 DEF Sloppy!JoinAll, Sloppy!Get
    <3>2. SloppyTypes'
      BY <1>1, <3>1 DEF SloppyTypes
    <3>3. Ending'
      BY <1>1, <2>3 DEF Sloppy!JoinAll, Sloppy!Get, Ending
    <3> QED BY <3>1, <3>2, <3>3 DEF At
  <2> QED BY <2>1, <2>2, <2>3 DEF Sloppy!Main
<1>3. CountersOwned'
  BY <1>1, <1>2 DEF CountersOwned, Counting, Full
<1>4. Levels'
  <2>1. \A s \in Threads : pc'[s] \in Full <=> pc[s] \in Full
    BY <1>2 DEF Full
  <2> QED BY <1>1, <2>1 DEF Levels
<1>5. Rounds'
  BY <1>1, <1>2 DEF Rounds, Counting, Full
<1>6. Balance'
  BY <1>1, <1>2, BalanceKept
<1> QED BY <1>1, <1>2, <1>3, <1>4, <1>5, <1>6

LEMMA SloppyStart == ASSUME Sloppy!Parameters, Sloppy!Init PROVE SloppyInv
<1>1. /\ \A t \in Threads : pc[t] = "new" /\ i[t] = 0 /\ local[t] = 0
      /\ value = 0 /\ main = "argument"
  BY DEF Sloppy!Init
<1>2. SloppyTypes
  <2>1. Threads # {} => 0 \in Threads
    BY SloppyParameters
  <2> QED BY <2>1 DEF Sloppy!Init, SloppyTypes, SloppyLabels
<1>3. CountersOwned /\ Ending
  BY <1>1 DEF CountersOwned, Ending, Counting, Full
<1>4. Levels /\ Rounds
  BY <1>1, SloppyParameters DEF Levels, Rounds, Counting, Full
<1>5. value % Threshold = 0
  BY <1>1, SloppyParameters
<1>6. Balance
  <2>1. At({"reset"}) = {} /\ At(Added) = {}
    BY <1>1 DEF At, Added
  <2>2. Cardinality(Threads) * 0 = 0 /\ IsFiniteSet(Threads)
    BY SloppyParameters
  <2>3. Total(Threads, local) = 0 /\ Total(Threads, i) = 0
    BY <1>1, <2>2, TotalBounded
  <2>4. Total(At({"reset"}), Twice) = 0 /\ Cardinality(At(Added)) = 0
    BY <2>1, EmptyTotal, CountsAreNatural
  <2> QED BY <1>1, <2>3, <2>4 DEF Balance
<1> QED BY <1>2, <1>3, <1>4, <1>5, <1>6 DEF SloppyInv

LEMMA SloppyNextStep ==
    ASSUME SloppyInv, Sloppy!Parameters, [Sloppy!Next]_Sloppy!vars
    PROVE  SloppyInv'
<1>1. ASSUME NEW t \in Threads, Sloppy!Increment(t) PROVE SloppyInv'
  BY <1>1, SloppyQuietStep, SloppyAddStep, SloppyFlushStep, SloppyResetStep, SloppyUnlockStep
     DEF Sloppy!Increment
<1>2. CASE UNCHANGED Sloppy!vars
  <2>1. /\ UNCHANGED <<pc, i, id, local, locallock, value, main, created, tw, result>>
        /\ At({"reset"})' = At({"reset"}) /\ At(Added)' = At(Added)
    BY <1>2 DEF Sloppy!vars, Sloppy!counter, Sloppy!mainVars, At
  <2>2. SloppyTypes' /\ CountersOwned' /\ Levels' /\ Rounds' /\ Ending'
    BY <2>1 DEF SloppyInv, SloppyTypes, CountersOwned, Levels, Rounds, Ending
  <2>3. Balance'
    BY <2>1, <2>2, BalanceKept DEF SloppyInv
  <2> QED BY <2>1, <2>2, <2>3 DEF SloppyInv
<1> QED BY <1>1, <1>2, SloppyMainStep DEF Sloppy!Next, Sloppy!Terminated

LEMMA SloppyInvariance == ASSUME Sloppy!Parameters PROVE Sloppy!Spec => []SloppyInv
<1>1. Sloppy!Init => SloppyInv
  BY SloppyStart
<1>2. SloppyInv /\ [Sloppy!Next]_Sloppy!vars => SloppyInv'
  BY SloppyNextStep
<1> QED BY <1>1, <1>2, PTL DEF Sloppy!Spec

LEMMA NoIncrementDropped == SloppyInv => Sloppy!Conserved /\ Sloppy!Batches
<1> SUFFICES ASSUME SloppyInv PROVE Sloppy!Conserved /\ Sloppy!Batches
  OBVIOUS
<1>1. Sloppy!Conserved
  BY ConservedIsBalance DEF SloppyInv
<1>2. ASSUME NEW c \in Threads, locallock[c] = "free" PROVE local[c] < Threshold
  BY <1>2 DEF SloppyInv, CountersOwned, Levels, Counting
<1> QED BY <1>1, <1>2 DEF SloppyInv, Sloppy!Batches

\* Although threads may work on one another's local counters (the shared
\* struct tw, sloppy-counter.c:75-80), increment loses no increment and counts
\* none twice (34-45), and what it has brought into the global counter are
\* whole batches, of any threshold, for any number of threads.
THEOREM NoIncrementIsLost ==
    ASSUME Sloppy!Parameters
    PROVE  Sloppy!Spec => [](Sloppy!Conserved /\ Sloppy!Batches)
BY NoIncrementDropped, SloppyInvariance, PTL

LEMMA SlopBounded == ASSUME Sloppy!Parameters, SloppyInv PROVE Sloppy!Sloppiness
<1>1. ASSUME SloppyInv, main = "ended"
      PROVE  /\ result <= Cardinality(Threads) * MaxIncrement
             /\ result + Cardinality(Threads) * (Threshold - 1) >= Cardinality(Threads) * MaxIncrement
  <2>1. \A t \in Threads : pc[t] = "after"
    BY <1>1 DEF SloppyInv, Ending
  <2>2. At({"reset"}) = {} /\ At(Added) = {}
    BY <2>1 DEF At, Added
  <2>3. Total(At({"reset"}), Twice) = 0 /\ Cardinality(At(Added)) = 0
    BY <2>2, EmptyTotal, CountsAreNatural
  <2>4. /\ IsFiniteSet(Threads) /\ MaxIncrement \in Nat /\ Threshold - 1 \in Nat
        /\ Cardinality(Threads) \in Nat
    BY SloppyParameters
  <2>5. \A t \in Threads : i[t] = MaxIncrement /\ i[t] \in Nat /\ i[t] <= MaxIncrement
    BY <1>1, <2>1 DEF SloppyInv, SloppyTypes, Rounds
  <2>6. \A t \in Threads : local[t] \in Nat /\ local[t] <= Threshold - 1
    <3>1. \A t \in Threads : local[t] \in Nat /\ local[t] < Threshold
      BY <1>1, <2>1 DEF SloppyInv, SloppyTypes, Levels, Full
    <3>2. Threshold \in Nat
      BY SloppyParameters
    <3> QED BY <3>1, <3>2
  <2>7. Total(Threads, i) = Cardinality(Threads) * MaxIncrement
    BY <2>4, <2>5, TotalBounded
  <2>8. Total(Threads, local) \in Nat /\ Total(Threads, local) <= Cardinality(Threads) * (Threshold - 1)
    BY <2>4, <2>6, TotalBounded
  <2>9. value + Total(Threads, local) = Total(Threads, i) /\ result = value /\ value \in Nat
    <3>1. value + Total(Threads, local) - 0 = Total(Threads, i) + 0
      BY <1>1, <2>3 DEF SloppyInv, Balance
    <3>2. result = value /\ value \in Nat
      BY <1>1 DEF SloppyInv, SloppyTypes, Ending
    <3>3. Total(Threads, i) \in Int
      BY <2>4, <2>7
    <3> QED BY <2>8, <3>1, <3>2, <3>3
  <2>10. Cardinality(Threads) * MaxIncrement \in Nat /\ Cardinality(Threads) * (Threshold - 1) \in Nat
    BY <2>4
  <2> DEFINE exact == Cardinality(Threads) * MaxIncrement
             missed == Cardinality(Threads) * (Threshold - 1)
  <2> HIDE DEF exact, missed
  <2>11. result + Total(Threads, local) = exact /\ Total(Threads, local) <= missed
         /\ exact \in Nat /\ missed \in Nat
    BY <2>7, <2>8, <2>9, <2>10 DEF exact, missed
  <2>12. result <= exact /\ result + missed >= exact
    BY <2>8, <2>9, <2>11
  <2> QED BY <2>12 DEF exact, missed
<1>2. SloppyInv => Sloppy!Sloppiness
  <2>1. Sloppy!Cardinality(Threads) = Cardinality(Threads)
    BY Zenon DEF Sloppy!Cardinality, Cardinality
  <2> QED BY <1>1, <2>1 DEF Sloppy!Sloppiness
<1> QED BY <1>2

\* What get gives main in the end (sloppy-counter.c:47-52) is too small by at
\* most Threshold - 1 for each local counter, and never too large.
THEOREM SloppinessBounded ==
    ASSUME Sloppy!Parameters
    PROVE  Sloppy!Spec => []Sloppy!Sloppiness
<1>1. SloppyInv => Sloppy!Sloppiness
  BY SlopBounded
<1> QED BY <1>1, SloppyInvariance, PTL

-----------------------------------------------------------------------------
(* The small programs: their code *)

Counters == {"main_race", "simple_counter"}
Orders == {"main_signal", "main_signal_cv", "fork_join"}
SmallPrograms == Counters \cup Orders \cup {"main_deadlock", "main_deadlock_global", "rendezvous"}

Mutexes == {"m1", "m2", "g", "lock"}
Sems == {"OneArrived", "TwoArrived", "s"}

LEMMA Few ==
    /\ Locks!Create(1) = <<Locks!Do("create", 2)>>
    /\ Locks!Create(2) = <<Locks!Do("create", 2), Locks!Do("create", 3)>>
    /\ Locks!Join(1) = <<Locks!Do("join", 2)>>
    /\ Locks!Join(2) = <<Locks!Do("join", 2), Locks!Do("join", 3)>>
<1>1. \A f : [c \in 1..1 |-> Locks!Do(f, c + 1)] = <<Locks!Do(f, 2)>>
  OBVIOUS
<1>2. \A f : [c \in 1..2 |-> Locks!Do(f, c + 1)] = <<Locks!Do(f, 2), Locks!Do(f, 3)>>
  OBVIOUS
<1> QED BY <1>1, <1>2 DEF Locks!Create, Locks!Join

\* What the calls of a program may be.
CallIs(t, j) ==
    LET c == Locks!Code[t][j]
    IN  /\ c.op = "again" => j > 2
        /\ c.op = "create" => c.on \in Locks!Members
        /\ c.op \in {"lock", "unlock", "again"} => c.on \in Mutexes
        /\ c.op \in {"post", "wait"} => c.on \in Sems
        /\ c.op = "store" => program \in Counters
        /\ c.op = "print" => /\ program \in Orders => c.on \in {"first", "last"}
                             /\ program = "rendezvous" => c.on \in {"before", "after"}
                             /\ program \in Orders \cup {"rendezvous"}

CodeIs == \A t \in Locks!Members : /\ Len(Locks!Code[t]) \in Nat
                                   /\ \A j \in 1..Len(Locks!Code[t]) : CallIs(t, j)

\* A thread that has just a few calls.
LEMMA FewCalls ==
    /\ \A n \in 1..2 : n = 1 \/ n = 2
    /\ \A n \in 1..3 : n = 1 \/ n = 2 \/ n = 3
    /\ \A n \in 1..4 : n = 1 \/ n = 2 \/ n = 3 \/ n = 4
    /\ \A n \in 1..5 : n = 1 \/ n = 2 \/ n = 3 \/ n = 4 \/ n = 5
    /\ \A n \in 1..6 : n = 1 \/ n = 2 \/ n = 3 \/ n = 4 \/ n = 5 \/ n = 6
    /\ \A n \in 1..7 : n = 1 \/ n = 2 \/ n = 3 \/ n = 4 \/ n = 5 \/ n = 6 \/ n = 7
OBVIOUS

LEMMA DeadlockCode ==
    ASSUME program \in {"main_deadlock", "main_deadlock_global"}
    PROVE  Locks!Members = 1..3 /\ CodeIs
<1> DEFINE a == Locks!Code[1]
           b == Locks!Code[2]
           c == Locks!Code[3]
<1>1. /\ Locks!Members = 1..3 /\ a = Locks!Create(2) \o Locks!Join(2)
      /\ program = "main_deadlock" => /\ b = Locks!LockBoth("m1", "m2")
                                      /\ c = Locks!LockBoth("m2", "m1")
      /\ program = "main_deadlock_global" =>
             /\ b = <<Locks!Do("lock", "g")>> \o Locks!LockBoth("m1", "m2") \o <<Locks!Do("unlock", "g")>>
             /\ c = <<Locks!Do("lock", "g")>> \o Locks!LockBoth("m2", "m1") \o <<Locks!Do("unlock", "g")>>
  <2>1. CASE program = "main_deadlock"
    BY <2>1 DEF Locks!Members, Locks!Code, Locks!Program, Locks!main_deadlock
  <2>2. CASE program = "main_deadlock_global"
    BY <2>2 DEF Locks!Members, Locks!Code, Locks!Program, Locks!main_deadlock_global
  <2> QED BY <2>1, <2>2
<1> HIDE DEF a, b, c
<1>2. /\ Len(a) = 4 /\ a[1] = Locks!Do("create", 2) /\ a[2] = Locks!Do("create", 3)
      /\ a[3] = Locks!Do("join", 2) /\ a[4] = Locks!Do("join", 3)
  <2>1. a = <<Locks!Do("create", 2), Locks!Do("create", 3)>> \o <<Locks!Do("join", 2), Locks!Do("join", 3)>>
    BY <1>1, Few
  <2> QED BY <2>1
<1>3. program = "main_deadlock" =>
        /\ Len(b) = 4 /\ b[1] = Locks!Do("lock", "m1") /\ b[2] = Locks!Do("lock", "m2")
        /\ b[3] = Locks!Do("unlock", "m1") /\ b[4] = Locks!Do("unlock", "m2")
        /\ Len(c) = 4 /\ c[1] = Locks!Do("lock", "m2") /\ c[2] = Locks!Do("lock", "m1")
        /\ c[3] = Locks!Do("unlock", "m1") /\ c[4] = Locks!Do("unlock", "m2")
  BY <1>1 DEF Locks!LockBoth
<1>4. program = "main_deadlock_global" =>
        /\ Len(b) = 6 /\ b[1] = Locks!Do("lock", "g") /\ b[2] = Locks!Do("lock", "m1")
        /\ b[3] = Locks!Do("lock", "m2") /\ b[4] = Locks!Do("unlock", "m1")
        /\ b[5] = Locks!Do("unlock", "m2") /\ b[6] = Locks!Do("unlock", "g")
        /\ Len(c) = 6 /\ c[1] = Locks!Do("lock", "g") /\ c[2] = Locks!Do("lock", "m2")
        /\ c[3] = Locks!Do("lock", "m1") /\ c[4] = Locks!Do("unlock", "m1")
        /\ c[5] = Locks!Do("unlock", "m2") /\ c[6] = Locks!Do("unlock", "g")
  BY <1>1 DEF Locks!LockBoth
<1>5. Len(a) \in Nat /\ \A j \in 1..Len(a) : CallIs(1, j)
  BY <1>1, <1>2, FewCalls, SMTT(30) DEF CallIs, a, Locks!Do
<1>6. Len(b) \in Nat /\ \A j \in 1..Len(b) : CallIs(2, j)
  <2>1. CASE program = "main_deadlock"
    <3>1. \A j \in 1..4 : j = 1 \/ j = 2 \/ j = 3 \/ j = 4
      OBVIOUS
    <3> QED BY <1>3, <2>1, <3>1 DEF CallIs, b, Locks!Do, Mutexes
  <2>2. CASE program = "main_deadlock_global"
    <3>1. \A j \in 1..6 : j = 1 \/ j = 2 \/ j = 3 \/ j = 4 \/ j = 5 \/ j = 6
      OBVIOUS
    <3> QED BY <1>4, <2>2, <3>1 DEF CallIs, b, Locks!Do, Mutexes
  <2> QED BY <2>1, <2>2
<1>7. Len(c) \in Nat /\ \A j \in 1..Len(c) : CallIs(3, j)
  <2>1. CASE program = "main_deadlock"
    <3>1. \A j \in 1..4 : j = 1 \/ j = 2 \/ j = 3 \/ j = 4
      OBVIOUS
    <3> QED BY <1>3, <2>1, <3>1 DEF CallIs, c, Locks!Do, Mutexes
  <2>2. CASE program = "main_deadlock_global"
    <3>1. \A j \in 1..6 : j = 1 \/ j = 2 \/ j = 3 \/ j = 4 \/ j = 5 \/ j = 6
      OBVIOUS
    <3> QED BY <1>4, <2>2, <3>1, SMTT(60) DEF CallIs, c, Locks!Do, Mutexes
  <2> QED BY <2>1, <2>2
<1> QED BY <1>1, <1>5, <1>6, <1>7, FewCalls DEF CodeIs, a, b, c

LEMMA RendezvousCode ==
    ASSUME program = "rendezvous"
    PROVE  /\ Locks!Members = 1..3 /\ CodeIs
           /\ LET a == Locks!Code[1]
                  b == Locks!Code[2]
                  c == Locks!Code[3]
              IN  /\ Len(a) = 4 /\ a[1] = Locks!Do("create", 2) /\ a[2] = Locks!Do("create", 3)
                  /\ a[3] = Locks!Do("join", 2) /\ a[4] = Locks!Do("join", 3)
                  /\ Len(b) = 4 /\ b[1] = Locks!Do("print", "before") /\ b[2] = Locks!Do("post", "OneArrived")
                  /\ b[3] = Locks!Do("wait", "TwoArrived") /\ b[4] = Locks!Do("print", "after")
                  /\ Len(c) = 4 /\ c[1] = Locks!Do("print", "before") /\ c[2] = Locks!Do("post", "TwoArrived")
                  /\ c[3] = Locks!Do("wait", "OneArrived") /\ c[4] = Locks!Do("print", "after")
<1> DEFINE a == Locks!Code[1]
           b == Locks!Code[2]
           c == Locks!Code[3]
<1>1. /\ Locks!Members = 1..3 /\ a = Locks!Create(2) \o Locks!Join(2)
      /\ b = <<Locks!Do("print", "before"), Locks!Do("post", "OneArrived"),
               Locks!Do("wait", "TwoArrived"), Locks!Do("print", "after")>>
      /\ c = <<Locks!Do("print", "before"), Locks!Do("post", "TwoArrived"),
               Locks!Do("wait", "OneArrived"), Locks!Do("print", "after")>>
  BY DEF Locks!Members, Locks!Code, Locks!Program, Locks!rendezvous
<1> HIDE DEF a, b, c
<1>2. /\ Len(a) = 4 /\ a[1] = Locks!Do("create", 2) /\ a[2] = Locks!Do("create", 3)
      /\ a[3] = Locks!Do("join", 2) /\ a[4] = Locks!Do("join", 3)
  <2>1. a = <<Locks!Do("create", 2), Locks!Do("create", 3)>> \o <<Locks!Do("join", 2), Locks!Do("join", 3)>>
    BY <1>1, Few
  <2> QED BY <2>1
<1>3. /\ Len(b) = 4 /\ b[1] = Locks!Do("print", "before") /\ b[2] = Locks!Do("post", "OneArrived")
      /\ b[3] = Locks!Do("wait", "TwoArrived") /\ b[4] = Locks!Do("print", "after")
      /\ Len(c) = 4 /\ c[1] = Locks!Do("print", "before") /\ c[2] = Locks!Do("post", "TwoArrived")
      /\ c[3] = Locks!Do("wait", "OneArrived") /\ c[4] = Locks!Do("print", "after")
  BY <1>1
<1>5. Len(a) \in Nat /\ \A j \in 1..Len(a) : CallIs(1, j)
  BY <1>1, <1>2, FewCalls, SMTT(30) DEF CallIs, a, Locks!Do
<1>6. Len(b) \in Nat /\ \A j \in 1..Len(b) : CallIs(2, j)
  BY <1>3, FewCalls DEF CallIs, b, Locks!Do, Sems, Orders
<1>7. Len(c) \in Nat /\ \A j \in 1..Len(c) : CallIs(3, j)
  BY <1>3, FewCalls DEF CallIs, c, Locks!Do, Sems, Orders
<1>8. CodeIs
  BY <1>1, <1>5, <1>6, <1>7, FewCalls DEF CodeIs, a, b, c
<1> QED BY <1>1, <1>2, <1>3, <1>8 DEF a, b, c

LEMMA ForkJoinCode ==
    ASSUME program = "fork_join"
    PROVE  /\ Locks!Members = 1..2 /\ CodeIs
           /\ LET a == Locks!Code[1]
                  b == Locks!Code[2]
              IN  /\ Len(a) = 3 /\ a[1] = Locks!Do("create", 2) /\ a[2] = Locks!Do("wait", "s")
                  /\ a[3] = Locks!Do("print", "last")
                  /\ Len(b) = 2 /\ b[1] = Locks!Do("print", "first") /\ b[2] = Locks!Do("post", "s")
<1> DEFINE a == Locks!Code[1]
           b == Locks!Code[2]
<1>1. /\ Locks!Members = 1..2
      /\ a = Locks!Create(1) \o <<Locks!Do("wait", "s"), Locks!Do("print", "last")>>
      /\ b = <<Locks!Do("print", "first"), Locks!Do("post", "s")>>
  BY DEF Locks!Members, Locks!Code, Locks!Program, Locks!fork_join
<1> HIDE DEF a, b
<1>2. /\ Len(a) = 3 /\ a[1] = Locks!Do("create", 2) /\ a[2] = Locks!Do("wait", "s")
      /\ a[3] = Locks!Do("print", "last")
  <2>1. a = <<Locks!Do("create", 2)>> \o <<Locks!Do("wait", "s"), Locks!Do("print", "last")>>
    BY <1>1, Few
  <2> QED BY <2>1
<1>3. Len(b) = 2 /\ b[1] = Locks!Do("print", "first") /\ b[2] = Locks!Do("post", "s")
  BY <1>1
<1>4. Len(a) \in Nat /\ \A j \in 1..Len(a) : CallIs(1, j)
  BY <1>1, <1>2, FewCalls DEF CallIs, a, Locks!Do, Sems, Orders
<1>5. Len(b) \in Nat /\ \A j \in 1..Len(b) : CallIs(2, j)
  BY <1>3, FewCalls DEF CallIs, b, Locks!Do, Sems, Orders
<1>6. CodeIs
  BY <1>1, <1>4, <1>5, FewCalls DEF CodeIs, a, b
<1> QED BY <1>1, <1>2, <1>3, <1>6 DEF a, b

LEMMA SignalCode ==
    ASSUME program = "main_signal"
    PROVE  /\ Locks!Members = 1..2 /\ CodeIs
           /\ LET a == Locks!Code[1]
                  b == Locks!Code[2]
              IN  /\ Len(a) = 3 /\ a[1] = Locks!Do("create", 2) /\ a[2] = Locks!Do("spin", "done")
                  /\ a[3] = Locks!Do("print", "last")
                  /\ Len(b) = 2 /\ b[1] = Locks!Do("print", "first") /\ b[2] = Locks!Do("set", "done")
<1> DEFINE a == Locks!Code[1]
           b == Locks!Code[2]
<1>1. /\ Locks!Members = 1..2
      /\ a = Locks!Create(1) \o <<Locks!Do("spin", "done"), Locks!Do("print", "last")>>
      /\ b = <<Locks!Do("print", "first"), Locks!Do("set", "done")>>
  BY DEF Locks!Members, Locks!Code, Locks!Program, Locks!main_signal
<1> HIDE DEF a, b
<1>2. /\ Len(a) = 3 /\ a[1] = Locks!Do("create", 2) /\ a[2] = Locks!Do("spin", "done")
      /\ a[3] = Locks!Do("print", "last")
  <2>1. a = <<Locks!Do("create", 2)>> \o <<Locks!Do("spin", "done"), Locks!Do("print", "last")>>
    BY <1>1, Few
  <2> QED BY <2>1
<1>3. Len(b) = 2 /\ b[1] = Locks!Do("print", "first") /\ b[2] = Locks!Do("set", "done")
  BY <1>1
<1>4. Len(a) \in Nat /\ \A j \in 1..Len(a) : CallIs(1, j)
  BY <1>1, <1>2, FewCalls DEF CallIs, a, Locks!Do, Orders
<1>5. Len(b) \in Nat /\ \A j \in 1..Len(b) : CallIs(2, j)
  BY <1>3, FewCalls DEF CallIs, b, Locks!Do, Orders
<1>6. CodeIs
  BY <1>1, <1>4, <1>5, FewCalls DEF CodeIs, a, b
<1> QED BY <1>1, <1>2, <1>3, <1>6 DEF a, b

LEMMA SignalCvCode ==
    ASSUME program = "main_signal_cv"
    PROVE  /\ Locks!Members = 1..2 /\ CodeIs
           /\ LET a == Locks!Code[1]
                  b == Locks!Code[2]
              IN  /\ Len(a) = 7 /\ a[1] = Locks!Do("create", 2) /\ a[2] = Locks!Do("lock", "lock")
                  /\ a[3] = Locks!Do("test", "done") /\ a[4] = Locks!Do("sleep", "cond")
                  /\ a[5] = Locks!Do("again", "lock") /\ a[6] = Locks!Do("unlock", "lock")
                  /\ a[7] = Locks!Do("print", "last")
                  /\ Len(b) = 5 /\ b[1] = Locks!Do("print", "first") /\ b[2] = Locks!Do("lock", "lock")
                  /\ b[3] = Locks!Do("set", "done") /\ b[4] = Locks!Do("signal", "cond")
                  /\ b[5] = Locks!Do("unlock", "lock")
<1> DEFINE a == Locks!Code[1]
           b == Locks!Code[2]
<1>1. /\ Locks!Members = 1..2
      /\ a = Locks!Create(1) \o Locks!signal_wait \o <<Locks!Do("print", "last")>>
      /\ b = <<Locks!Do("print", "first")>> \o Locks!signal_done
  BY DEF Locks!Members, Locks!Code, Locks!Program, Locks!main_signal_cv
<1>0. 2 \in Locks!Members
  BY <1>1
<1> HIDE DEF a, b
<1>2. /\ Len(a) = 7 /\ a[1] = Locks!Do("create", 2) /\ a[2] = Locks!Do("lock", "lock")
      /\ a[3] = Locks!Do("test", "done") /\ a[4] = Locks!Do("sleep", "cond")
      /\ a[5] = Locks!Do("again", "lock") /\ a[6] = Locks!Do("unlock", "lock")
      /\ a[7] = Locks!Do("print", "last")
  <2>1. a = <<Locks!Do("create", 2)>> \o Locks!signal_wait \o <<Locks!Do("print", "last")>>
    BY <1>1, Few
  <2> QED BY <2>1 DEF Locks!signal_wait
<1>3. /\ Len(b) = 5 /\ b[1] = Locks!Do("print", "first") /\ b[2] = Locks!Do("lock", "lock")
      /\ b[3] = Locks!Do("set", "done") /\ b[4] = Locks!Do("signal", "cond")
      /\ b[5] = Locks!Do("unlock", "lock")
  BY <1>1 DEF Locks!signal_done
<1>4. Len(a) \in Nat /\ \A j \in 1..Len(a) : CallIs(1, j)
  <2>1. \A j \in 1..7 : j = 1 \/ j = 2 \/ j = 3 \/ j = 4 \/ j = 5 \/ j = 6 \/ j = 7
    OBVIOUS
  <2>2. CallIs(1, 1) /\ CallIs(1, 2) /\ CallIs(1, 3) /\ CallIs(1, 4)
    BY <1>0, <1>2 DEF CallIs, a, Locks!Do, Mutexes
  <2>3. CallIs(1, 5) /\ CallIs(1, 6) /\ CallIs(1, 7)
    BY <1>0, <1>2 DEF CallIs, a, Locks!Do, Orders, Mutexes
  <2> QED BY <1>2, <2>1, <2>2, <2>3
<1>5. Len(b) \in Nat /\ \A j \in 1..Len(b) : CallIs(2, j)
  BY <1>3, FewCalls DEF CallIs, b, Locks!Do, Orders, Mutexes
<1>6. CodeIs
  BY <1>1, <1>4, <1>5, FewCalls DEF CodeIs, a, b
<1> QED BY <1>1, <1>2, <1>3, <1>6 DEF a, b

\* main-race.c and simple-counter.c: who increments, where the lock is taken and
\* given back, and where a thread is joined.
Adders == IF program = "main_race" THEN {1, 2} ELSE 2..(Loop + 1)
Enter(t) == IF t # 1 THEN 1 ELSE IF program = "main_race" THEN 2 ELSE 2 * Loop + 1
Leave(t) == Enter(t) + IF t \in Adders THEN 3 ELSE 2
JoinOf(u) == IF program = "main_race" THEN 6 ELSE Loop + u - 1

CountingCall(t, j) ==
    LET c == Locks!Code[t][j]
    IN  \/ j = Enter(t) /\ c = Locks!Do("lock", "lock")
        \/ j = Enter(t) + 1 /\ c = Locks!Do("load", "value")
        \/ t \in Adders /\ j = Enter(t) + 2 /\ c = Locks!Do("store", "value")
        \/ j = Leave(t) /\ c = Locks!Do("unlock", "lock")
        \/ /\ t = 1 /\ j < Enter(1) /\ c.op = "create" /\ c.on = j + 1 /\ c.on \in Locks!Members
        \/ /\ t = 1 /\ c.op = "join" /\ c.on \in Locks!Members \ {1} /\ j = JoinOf(c.on)
           /\ j \notin Enter(1)..Leave(1)

CodeOfCounters ==
    /\ Locks!Members = 1..(IF program = "main_race" THEN 2 ELSE Loop + 1)
    /\ \A t \in Locks!Members : /\ Len(Locks!Code[t]) \in Nat
                                /\ \A j \in 1..Len(Locks!Code[t]) : CountingCall(t, j)
    /\ \A u \in Locks!Members \ {1} : Len(Locks!Code[u]) = Leave(u) /\ JoinOf(u) <= Len(Locks!Code[1])
    /\ Leave(1) <= Len(Locks!Code[1])

LEMMA LoopIsNat == Loop \in Nat
BY ParametersAssumption DEF Locks!Parameters

LEMMA MainRaceCode == program = "main_race" => CodeOfCounters
<1> SUFFICES ASSUME program = "main_race" PROVE CodeOfCounters
  OBVIOUS
<1> DEFINE a == Locks!Code[1]
           b == Locks!Code[2]
<1>1. /\ Locks!Members = 1..2
      /\ a = Locks!Create(1) \o Locks!increment \o Locks!Join(1) /\ b = Locks!increment
  BY DEF Locks!Members, Locks!Code, Locks!Program, Locks!main_race
<1> HIDE DEF a, b
<1>2. /\ Len(a) = 6 /\ a[1] = Locks!Do("create", 2) /\ a[2] = Locks!Do("lock", "lock")
      /\ a[3] = Locks!Do("load", "value") /\ a[4] = Locks!Do("store", "value")
      /\ a[5] = Locks!Do("unlock", "lock") /\ a[6] = Locks!Do("join", 2)
  <2>1. a = <<Locks!Do("create", 2)>> \o Locks!increment \o <<Locks!Do("join", 2)>>
    BY <1>1, Few
  <2> QED BY <2>1 DEF Locks!increment
<1>3. /\ Len(b) = 4 /\ b[1] = Locks!Do("lock", "lock")
      /\ b[2] = Locks!Do("load", "value") /\ b[3] = Locks!Do("store", "value")
      /\ b[4] = Locks!Do("unlock", "lock")
  BY <1>1 DEF Locks!increment
<1>4. /\ Adders = {1, 2} /\ Enter(1) = 2 /\ Enter(2) = 1 /\ Leave(1) = 5 /\ Leave(2) = 4
      /\ JoinOf(2) = 6
  BY DEF Adders, Enter, Leave, JoinOf
<1>5. \A j \in 1..6 : CountingCall(1, j)
  <2>1. \A j \in 1..6 : j = 1 \/ j = 2 \/ j = 3 \/ j = 4 \/ j = 5 \/ j = 6
    OBVIOUS
  <2>2. CountingCall(1, 1)
    BY <1>1, <1>2, <1>4 DEF CountingCall, a, Locks!Do
  <2>3. CountingCall(1, 2) /\ CountingCall(1, 3) /\ CountingCall(1, 4) /\ CountingCall(1, 5)
    BY <1>2, <1>4 DEF CountingCall, a
  <2>4. CountingCall(1, 6)
    BY <1>1, <1>2, <1>4 DEF CountingCall, a, Locks!Do
  <2> QED BY <2>1, <2>2, <2>3, <2>4
<1>6. \A j \in 1..4 : CountingCall(2, j)
  <2>1. \A j \in 1..4 : j = 1 \/ j = 2 \/ j = 3 \/ j = 4
    OBVIOUS
  <2>2. CountingCall(2, 1) /\ CountingCall(2, 2)
    BY <1>3, <1>4 DEF CountingCall, b
  <2>3. CountingCall(2, 3) /\ CountingCall(2, 4)
    BY <1>3, <1>4 DEF CountingCall, b
  <2> QED BY <2>1, <2>2, <2>3
<1>7. \A t \in 1..2 : t = 1 \/ t = 2
  OBVIOUS
<1>8. Len(Locks!Code[1]) = 6 /\ Len(Locks!Code[2]) = 4
  BY <1>2, <1>3 DEF a, b
<1>9. Locks!Members = 1..2
  BY <1>1
<1>10. ASSUME NEW t \in Locks!Members
       PROVE  Len(Locks!Code[t]) \in Nat /\ \A j \in 1..Len(Locks!Code[t]) : CountingCall(t, j)
  <2>1. CASE t = 1
    <3>1. Len(Locks!Code[t]) = 6
      BY <1>8, <2>1
    <3>2. \A j \in 1..6 : CountingCall(t, j)
      BY <1>5, <2>1, Zenon
    <3> QED BY <3>1, <3>2
  <2>2. CASE t = 2
    <3>1. Len(Locks!Code[t]) = 4
      BY <1>8, <2>2
    <3>2. \A j \in 1..4 : CountingCall(t, j)
      BY <1>6, <2>2, Zenon
    <3> QED BY <3>1, <3>2
  <2> QED BY <1>7, <1>9, <2>1, <2>2
<1>11. \A u \in Locks!Members \ {1} : Len(Locks!Code[u]) = Leave(u) /\ JoinOf(u) <= Len(Locks!Code[1])
  <2>1. \A u \in Locks!Members \ {1} : u = 2
    BY <1>9
  <2>2. \A u : u = 2 => Leave(u) = 4 /\ JoinOf(u) = 6 /\ Len(Locks!Code[u]) = 4
    BY <1>4, <1>8, Zenon
  <2>3. ASSUME NEW u \in Locks!Members \ {1}
        PROVE  Len(Locks!Code[u]) = Leave(u) /\ JoinOf(u) <= Len(Locks!Code[1])
    <3>1. Leave(u) = 4 /\ JoinOf(u) = 6 /\ Len(Locks!Code[u]) = 4
      BY <2>1, <2>2, Zenon
    <3> QED BY <1>8, <3>1
  <2> QED BY <2>3
<1> QED BY <1>4, <1>8, <1>9, <1>10, <1>11 DEF CodeOfCounters

LEMMA SimpleCounterCode == program = "simple_counter" => CodeOfCounters
<1> SUFFICES ASSUME program = "simple_counter" PROVE CodeOfCounters
  OBVIOUS
<1> USE LoopIsNat
<1> DEFINE a == Locks!Create(Loop) \o Locks!Join(Loop) \o Locks!get
           w == [c \in 1..Loop |-> Locks!increment]
           S == [op : {"create", "join", "lock", "load", "unlock"}, on : Int \cup {"lock", "value"}]
<1>1. Locks!Code = <<a>> \o w
  BY DEF Locks!Code, Locks!Program, Locks!simple_counter
<1>2. /\ Locks!Create(Loop) \in Seq(S) /\ Locks!Join(Loop) \in Seq(S) /\ Locks!get \in Seq(S)
      /\ Len(Locks!Create(Loop)) = Loop /\ Len(Locks!Join(Loop)) = Loop /\ Len(Locks!get) = 3
      /\ \A j \in 1..Loop : /\ Locks!Create(Loop)[j] = Locks!Do("create", j + 1)
                            /\ Locks!Join(Loop)[j] = Locks!Do("join", j + 1)
  BY DEF Locks!Create, Locks!Join, Locks!get, Locks!Do
<1> DEFINE p == Locks!Create(Loop) \o Locks!Join(Loop)
<1>3. p \in Seq(S) /\ Len(p) = 2 * Loop /\ \A j \in 1..(2 * Loop) :
          p[j] = IF j <= Loop THEN Locks!Do("create", j + 1) ELSE Locks!Do("join", j - Loop + 1)
  <2> HIDE DEF S
  <2>1. /\ p \in Seq(S) /\ Len(p) = Loop + Loop
        /\ \A j \in 1..(Loop + Loop) : /\ j <= Loop => p[j] = Locks!Create(Loop)[j]
                                       /\ ~(j <= Loop) => p[j] = Locks!Join(Loop)[j - Loop]
    <3>1. p = Locks!Create(Loop) \o Locks!Join(Loop)
      OBVIOUS
    <3>2. PICK x, y : x = Locks!Create(Loop) /\ y = Locks!Join(Loop)
      OBVIOUS
    <3>3. x \in Seq(S) /\ y \in Seq(S) /\ Len(x) = Loop /\ Len(y) = Loop /\ Loop \in Nat
      BY <1>2, <3>2
    <3>4. /\ x \o y \in Seq(S) /\ Len(x \o y) = Loop + Loop
          /\ \A j \in 1..(Loop + Loop) : /\ j <= Loop => (x \o y)[j] = x[j]
                                         /\ ~(j <= Loop) => (x \o y)[j] = y[j - Loop]
      <4>1. /\ x \o y \in Seq(S) /\ Len(x \o y) = Len(x) + Len(y)
            /\ \A j \in 1 .. Len(x) + Len(y) : (x \o y)[j] = IF j <= Len(x) THEN x[j] ELSE y[j - Len(x)]
        BY <3>3, ConcatProperties
      <4> QED BY <3>3, <4>1
    <3> HIDE DEF p
    <3> QED BY <3>1, <3>2, <3>4
  <2> HIDE DEF p
  <2> QED BY <1>2, <2>1
<1>4. /\ Len(a) = 2 * Loop + 3
      /\ \A j \in 1..(2 * Loop + 3) : a[j] = IF j <= 2 * Loop THEN p[j] ELSE Locks!get[j - 2 * Loop]
  <2> HIDE DEF S, p
  <2>1. a = p \o Locks!get
    BY DEF p
  <2> HIDE DEF a
  <2>2. /\ Len(a) = 2 * Loop + 3
        /\ \A j \in 1..(2 * Loop + 3) : /\ j <= 2 * Loop => a[j] = p[j]
                                        /\ ~(j <= 2 * Loop) => a[j] = Locks!get[j - 2 * Loop]
    <3>2. PICK x, y : x = p /\ y = Locks!get
      OBVIOUS
    <3>3. x \in Seq(S) /\ y \in Seq(S) /\ Len(x) = 2 * Loop /\ Len(y) = 3 /\ 2 * Loop \in Nat /\ 3 \in Nat
      BY <1>2, <1>3, <3>2
    <3>4. /\ x \o y \in Seq(S) /\ Len(x \o y) = 2 * Loop + 3
          /\ \A j \in 1..(2 * Loop + 3) : /\ j <= 2 * Loop => (x \o y)[j] = x[j]
                                          /\ ~(j <= 2 * Loop) => (x \o y)[j] = y[j - 2 * Loop]
      <4>1. /\ x \o y \in Seq(S) /\ Len(x \o y) = Len(x) + Len(y)
            /\ \A j \in 1 .. Len(x) + Len(y) : (x \o y)[j] = IF j <= Len(x) THEN x[j] ELSE y[j - Len(x)]
        BY <3>3, ConcatProperties
      <4> QED BY <3>3, <4>1
    <3>5. a = x \o y
      BY <2>1, <3>2
    <3> QED BY <3>2, <3>4, <3>5
  <2>3. ASSUME NEW j \in 1..(2 * Loop + 3)
        PROVE  a[j] = IF j <= 2 * Loop THEN p[j] ELSE Locks!get[j - 2 * Loop]
    BY <2>2
  <2> QED BY <2>2, <2>3, Zenon
<1> HIDE DEF a, p, S
<1>5. /\ Len(Locks!Code) = Loop + 1 /\ DOMAIN Locks!Code = 1..(Loop + 1) /\ Locks!Code[1] = a
      /\ \A t \in 2..(Loop + 1) : Locks!Code[t] = Locks!increment
  <2>1. <<a>> \in Seq({a, Locks!increment}) /\ Len(<<a>>) = 1 /\ <<a>>[1] = a
    OBVIOUS
  <2>2. w \in Seq({a, Locks!increment}) /\ Len(w) = Loop /\ \A j \in 1..Loop : w[j] = Locks!increment
    OBVIOUS
  <2> HIDE DEF w
  <2>3. /\ Locks!Code \in Seq({a, Locks!increment}) /\ Len(Locks!Code) = 1 + Loop
        /\ \A j \in 1..(1 + Loop) : Locks!Code[j] = IF j <= 1 THEN <<a>>[j] ELSE w[j - 1]
    BY <1>1, <2>1, <2>2, ConcatProperties
  <2>4. DOMAIN Locks!Code = 1..(Loop + 1)
    BY <2>3
  <2> QED BY <2>1, <2>2, <2>3, <2>4
<1>6. /\ Adders = 2..(Loop + 1) /\ Enter(1) = 2 * Loop + 1 /\ Leave(1) = 2 * Loop + 3
      /\ \A t \in 2..(Loop + 1) : Enter(t) = 1 /\ Leave(t) = 4 /\ JoinOf(t) = Loop + t - 1
  BY DEF Adders, Enter, Leave, JoinOf
<1>7. Locks!Members = 1..(Loop + 1)
  BY <1>5 DEF Locks!Members
<1>8. ASSUME NEW j \in 1..(2 * Loop + 3) PROVE CountingCall(1, j)
  <2>1. CASE j <= Loop
    <3>1. Locks!Code[1][j] = Locks!Do("create", j + 1)
      BY <1>3, <1>4, <1>5, <2>1
    <3> QED BY <1>6, <1>7, <2>1, <3>1 DEF CountingCall, Locks!Do
  <2>2. CASE j > Loop /\ j <= 2 * Loop
    <3>1. Locks!Code[1][j] = Locks!Do("join", j - Loop + 1)
      BY <1>3, <1>4, <1>5, <2>2
    <3>2. j - Loop + 1 \in 2..(Loop + 1) /\ JoinOf(j - Loop + 1) = j
      BY <2>2 DEF JoinOf
    <3> QED BY <1>6, <1>7, <2>2, <3>1, <3>2 DEF CountingCall, Locks!Do
  <2>3. CASE j > 2 * Loop
    <3>1. j - 2 * Loop = 1 \/ j - 2 * Loop = 2 \/ j - 2 * Loop = 3
      BY <2>3
    <3>2. Locks!Code[1][j] = Locks!get[j - 2 * Loop]
      BY <1>4, <1>5, <2>3
    <3>3. /\ Locks!get[1] = Locks!Do("lock", "lock") /\ Locks!get[2] = Locks!Do("load", "value")
          /\ Locks!get[3] = Locks!Do("unlock", "lock")
      BY DEF Locks!get
    <3>4. j = 2 * Loop + 1 \/ j = 2 * Loop + 2 \/ j = 2 * Loop + 3
      BY <3>1
    <3>5. CASE j = 2 * Loop + 1
      <4>1. Locks!Code[1][j] = Locks!Do("lock", "lock")
        BY <3>2, <3>3, <3>5
      <4> QED BY <1>6, <3>5, <4>1 DEF CountingCall
    <3>6. CASE j = 2 * Loop + 2
      <4>1. Locks!Code[1][j] = Locks!Do("load", "value")
        <5>1. j - 2 * Loop = 2
          BY <3>6
        <5> QED BY <3>2, <3>3, <5>1
      <4> QED BY <1>6, <3>6, <4>1 DEF CountingCall
    <3>7. CASE j = 2 * Loop + 3
      <4>1. Locks!Code[1][j] = Locks!Do("unlock", "lock")
        BY <3>2, <3>3, <3>7
      <4> QED BY <1>6, <3>7, <4>1 DEF CountingCall
    <3> QED BY <3>4, <3>5, <3>6, <3>7
  <2> QED BY <2>1, <2>2, <2>3
<1>9. ASSUME NEW t \in 2..(Loop + 1) PROVE Len(Locks!Code[t]) = 4 /\ \A j \in 1..4 : CountingCall(t, j)
  <2>1. /\ Len(Locks!increment) = 4 /\ Locks!increment[1] = Locks!Do("lock", "lock")
        /\ Locks!increment[2] = Locks!Do("load", "value") /\ Locks!increment[3] = Locks!Do("store", "value")
        /\ Locks!increment[4] = Locks!Do("unlock", "lock")
    BY DEF Locks!increment
  <2>2. \A j \in 1..4 : j = 1 \/ j = 2 \/ j = 3 \/ j = 4
    OBVIOUS
  <2> QED BY <1>5, <1>6, <2>1, <2>2 DEF CountingCall
<1>10. \A t \in 1..(Loop + 1) : t = 1 \/ t \in 2..(Loop + 1)
  OBVIOUS
<1>11. Len(Locks!Code[1]) = 2 * Loop + 3
  BY <1>4, <1>5
<1>12. \A t \in Locks!Members : /\ Len(Locks!Code[t]) \in Nat
                                 /\ \A j \in 1..Len(Locks!Code[t]) : CountingCall(t, j)
  <2> SUFFICES ASSUME NEW t \in Locks!Members
               PROVE  Len(Locks!Code[t]) \in Nat /\ \A j \in 1..Len(Locks!Code[t]) : CountingCall(t, j)
    OBVIOUS
  <2>1. CASE t = 1
    BY <1>8, <1>11, <2>1
  <2>2. CASE t \in 2..(Loop + 1)
    <3>1. Len(Locks!Code[t]) = 4 /\ \A j \in 1..4 : CountingCall(t, j)
      BY <1>9, <2>2, Zenon
    <3> QED BY <3>1
  <2> QED BY <1>7, <1>10, <2>1, <2>2
<1>13. \A u \in Locks!Members \ {1} : Len(Locks!Code[u]) = Leave(u) /\ JoinOf(u) <= Len(Locks!Code[1])
  <2> SUFFICES ASSUME NEW u \in Locks!Members \ {1}
               PROVE  Len(Locks!Code[u]) = Leave(u) /\ JoinOf(u) <= Len(Locks!Code[1])
    OBVIOUS
  <2>1. u \in 2..(Loop + 1)
    BY <1>7
  <2>2. Len(Locks!Code[u]) = 4 /\ Leave(u) = 4 /\ JoinOf(u) = Loop + u - 1
    BY <1>6, <1>9, <2>1, Zenon
  <2> QED BY <1>11, <2>1, <2>2
<1>14. Leave(1) <= Len(Locks!Code[1])
  BY <1>6, <1>11
<1> QED BY <1>7, <1>12, <1>13, <1>14 DEF CodeOfCounters

LEMMA CountingIsCode == ASSUME program \in Counters, CodeOfCounters PROVE CodeIs
BY LoopIsNat
   DEF Counters, CodeOfCounters, CodeIs, CallIs, CountingCall, Locks!Do, Mutexes, Orders, Enter

LEMMA AllCode ==
    ASSUME program \in SmallPrograms
    PROVE  CodeIs /\ 1 \in Locks!Members /\ Locks!Members \subseteq Nat \ {0}
<1>1. CASE program \in Counters
  <2>1. CodeOfCounters
    BY <1>1, MainRaceCode, SimpleCounterCode DEF Counters
  <2> QED BY <1>1, <2>1, CountingIsCode, LoopIsNat DEF CodeOfCounters
<1>2. CASE program \notin Counters
  BY <1>2, DeadlockCode, RendezvousCode, ForkJoinCode, SignalCode, SignalCvCode
     DEF SmallPrograms, Orders
<1> QED BY <1>1, <1>2

-----------------------------------------------------------------------------
(* The small programs: their steps *)

SmallTypes ==
    /\ program \in SmallPrograms
    /\ at \in [Locks!Members -> Nat] /\ copy \in [Locks!Members -> Nat] /\ value \in Nat
    /\ holder \in [Mutexes -> Nat] /\ semaphore \in [Sems -> Nat]

\* What a thread's next call does.
LEMMA CallEffect ==
    ASSUME NEW t \in Locks!Members, Locks!Step(t), NEW c, c = Locks!Code[t][at[t]]
    PROVE  /\ at[t] # 0 /\ ~(at[t] > Len(Locks!Code[t])) /\ ~Locks!Ended(1) /\ UNCHANGED program
           /\ c.op = "create" => at' = [at EXCEPT ![t] = @ + 1, ![c.on] = 1]
           /\ c.op = "test" => at' = [at EXCEPT ![t] = @ + IF done THEN 3 ELSE 1]
           /\ c.op = "again" => at' = [at EXCEPT ![t] = @ + -2]
           /\ c.op \notin {"create", "test", "again"} => at' = [at EXCEPT ![t] = @ + 1]
           /\ value' = IF c.op = "store" THEN copy[t] + 1 ELSE value
           /\ copy' = IF c.op = "load" THEN [copy EXCEPT ![t] = value] ELSE copy
           /\ printed' = IF c.op = "print" THEN printed \cup {<<t, c.on>>} ELSE printed
           /\ done' = IF c.op = "set" THEN TRUE ELSE done
           /\ c.op = "join" => Locks!Ended(c.on)
           /\ c.op = "spin" => done
           /\ c.op = "lock" => holder[c.on] = 0 /\ holder' = [holder EXCEPT ![c.on] = t]
           /\ c.op = "again" => holder' = [holder EXCEPT ![c.on] = t]
           /\ c.op = "unlock" => holder' = [holder EXCEPT ![c.on] = 0]
           /\ c.op = "sleep" => holder' = [holder EXCEPT !["lock"] = 0]
           /\ c.op \notin {"lock", "again", "unlock", "sleep"} => UNCHANGED holder
           /\ c.op = "post" => semaphore' = [semaphore EXCEPT ![c.on] = @ + 1]
           /\ c.op = "wait" => semaphore[c.on] > 0 /\ semaphore' = [semaphore EXCEPT ![c.on] = @ - 1]
           /\ c.op \notin {"post", "wait"} => UNCHANGED semaphore
<1> USE DEF Locks!At, Locks!Argument, Locks!Advance, Locks!data, Locks!flag
<1>0. /\ \A op : Locks!At(t, op) => /\ at[t] # 0 /\ ~(at[t] > Len(Locks!Code[t])) /\ ~Locks!Ended(1)
                                   /\ c.op = op
      /\ Locks!Argument(t) = c.on
  BY DEF Locks!Ended
<1> USE <1>0
<1>1. CASE Locks!Pthread_create(t)
  BY <1>1 DEF Locks!Pthread_create
<1>2. CASE Locks!Pthread_join(t)
  BY <1>2 DEF Locks!Pthread_join
<1>3. CASE Locks!Pthread_mutex_lock(t)
  BY <1>3 DEF Locks!Pthread_mutex_lock
<1>4. CASE Locks!Pthread_mutex_unlock(t)
  BY <1>4 DEF Locks!Pthread_mutex_unlock
<1>5. CASE Locks!Post(t)
  BY <1>5 DEF Locks!Post
<1>6. CASE Locks!Wait(t)
  BY <1>6 DEF Locks!Wait
<1>7. CASE Locks!Load(t)
  BY <1>7 DEF Locks!Load
<1>8. CASE Locks!Store(t)
  BY <1>8 DEF Locks!Store
<1>9. CASE Locks!Set(t)
  BY <1>9 DEF Locks!Set
<1>10. CASE Locks!Spin(t)
  BY <1>10 DEF Locks!Spin
<1>11. CASE Locks!Test(t)
  BY <1>11 DEF Locks!Test
<1>12. CASE Locks!Sleep(t)
  BY <1>12 DEF Locks!Sleep
<1>13. CASE Locks!Again(t)
  BY <1>13 DEF Locks!Again
<1>14. CASE Locks!Pthread_cond_signal(t)
  BY <1>14 DEF Locks!Pthread_cond_signal
<1>15. CASE Locks!Printf(t)
  BY <1>15 DEF Locks!Printf
<1> QED BY <1>1, <1>2, <1>3, <1>4, <1>5, <1>6, <1>7, <1>8, <1>9, <1>10, <1>11, <1>12, <1>13, <1>14,
        <1>15 DEF Locks!Step

LEMMA SmallTypesStep ==
    ASSUME SmallTypes, NEW t \in Locks!Members, Locks!Step(t)
    PROVE  /\ SmallTypes' /\ Locks!Members' = Locks!Members /\ at[t] \in 1..Len(Locks!Code[t])
           /\ CallIs(t, at[t])
<1> DEFINE c == Locks!Code[t][at[t]]
<1>1. CodeIs /\ Locks!Members \subseteq Nat \ {0} /\ at[t] \in Nat
  BY AllCode DEF SmallTypes
<1>2. at[t] # 0 /\ ~(at[t] > Len(Locks!Code[t])) /\ UNCHANGED program
  BY CallEffect
<1>3. at[t] \in 1..Len(Locks!Code[t]) /\ CallIs(t, at[t])
  BY <1>1, <1>2 DEF CodeIs
<1>4. /\ c.op = "again" => at[t] > 2
      /\ c.op = "create" => c.on \in Locks!Members
      /\ c.op \in {"lock", "unlock", "again"} => c.on \in Mutexes
      /\ c.op \in {"post", "wait"} => c.on \in Sems
  BY <1>3 DEF CallIs
<1>5. Locks!Members' = Locks!Members
  BY <1>2 DEF Locks!Members, Locks!Code
<1> HIDE DEF c
<1>7. at' \in [Locks!Members -> Nat]
  <2>1. CASE c.op = "create"
    <3>1. at' = [at EXCEPT ![t] = @ + 1, ![c.on] = 1]
      BY <2>1, CallEffect DEF c
    <3> QED BY <1>1, <1>4, <2>1, <3>1 DEF SmallTypes
  <2>2. CASE c.op = "again"
    <3>1. at' = [at EXCEPT ![t] = @ + -2]
      BY <2>2, CallEffect DEF c
    <3>2. at[t] + -2 \in Nat
      BY <1>1, <1>4, <2>2
    <3> QED BY <1>1, <3>1, <3>2 DEF SmallTypes
  <2>3. CASE c.op = "test"
    <3>1. at' = [at EXCEPT ![t] = @ + IF done THEN 3 ELSE 1]
      BY <2>3, CallEffect DEF c
    <3>2. at[t] + (IF done THEN 3 ELSE 1) \in Nat
      BY <1>1
    <3> QED BY <1>1, <3>1, <3>2 DEF SmallTypes
  <2>4. CASE c.op \notin {"create", "test", "again"}
    <3>1. at' = [at EXCEPT ![t] = @ + 1]
      BY <2>4, CallEffect DEF c
    <3> QED BY <1>1, <3>1 DEF SmallTypes
  <2> QED BY <2>1, <2>2, <2>3, <2>4
<1>8. copy' \in [Locks!Members -> Nat] /\ value' \in Nat
  <2>1. /\ value' = IF c.op = "store" THEN copy[t] + 1 ELSE value
        /\ copy' = IF c.op = "load" THEN [copy EXCEPT ![t] = value] ELSE copy
    BY CallEffect DEF c
  <2> QED BY <2>1 DEF SmallTypes
<1>9. holder' \in [Mutexes -> Nat]
  <2>1. /\ c.op \in {"lock", "again"} => holder' = [holder EXCEPT ![c.on] = t]
        /\ c.op = "unlock" => holder' = [holder EXCEPT ![c.on] = 0]
        /\ c.op = "sleep" => holder' = [holder EXCEPT !["lock"] = 0]
        /\ c.op \notin {"lock", "again", "unlock", "sleep"} => UNCHANGED holder
    BY CallEffect DEF c
  <2> QED BY <1>1, <2>1 DEF SmallTypes
<1>10. semaphore' \in [Sems -> Nat]
  <2>1. /\ c.op = "post" => semaphore' = [semaphore EXCEPT ![c.on] = @ + 1]
        /\ c.op = "wait" => semaphore[c.on] > 0 /\ semaphore' = [semaphore EXCEPT ![c.on] = @ - 1]
        /\ c.op \notin {"post", "wait"} => UNCHANGED semaphore
    BY CallEffect DEF c
  <2> QED BY <1>4, <2>1 DEF SmallTypes
<1> QED BY <1>2, <1>3, <1>5, <1>7, <1>8, <1>9, <1>10 DEF SmallTypes

\* Awake for no reason, or at the end.
SmallQuiet == UNCHANGED <<program, at, copy, value, holder, semaphore, done, printed>>

\* The number of increments that were stored is the counter; who has the lock is
\* between its lock and its unlock, and no copy is older than the counter.
Stored(t) == at[t] > Enter(t) + 2
Holds(t) == at[t] > Enter(t) /\ at[t] <= Leave(t)

StoresCounted == value = Cardinality({t \in Adders : Stored(t)})
LockHeld == \A t \in Locks!Members : Holds(t) <=> holder["lock"] = t
CopyFresh == \A t \in Adders : at[t] = Enter(t) + 2 => copy[t] = value
CreatedAndJoined ==
    \A u \in Locks!Members \ {1} : /\ at[1] < u => at[u] = 0
                                   /\ at[1] > JoinOf(u) => at[u] > Leave(u)

Counted ==
    IF program \in Counters THEN StoresCounted /\ LockHeld /\ CopyFresh /\ CreatedAndJoined
    ELSE value = 0

LEMMA CountingNumbers ==
    ASSUME program \in Counters
    PROVE  /\ CodeOfCounters /\ 1 \in Locks!Members /\ Locks!Members \subseteq Nat \ {0}
           /\ Adders \subseteq Locks!Members /\ IsFiniteSet(Adders)
           /\ Cardinality(Adders) = IF program = "main_race" THEN 2 ELSE Loop
           /\ \A t \in Locks!Members : /\ Enter(t) \in Nat \ {0}
                                       /\ Leave(t) = Enter(t) + IF t \in Adders THEN 3 ELSE 2
           /\ \A u \in Locks!Members \ {1} :
                 /\ JoinOf(u) \in Nat /\ u <= JoinOf(u) /\ JoinOf(u) + 1 \notin Locks!Members
                 /\ JoinOf(u) < Enter(1) \/ Leave(1) < JoinOf(u)
                 /\ \A v \in Locks!Members \ {1} : JoinOf(u) = JoinOf(v) => u = v
<1>1. CodeOfCounters
  BY MainRaceCode, SimpleCounterCode DEF Counters
<1>2. Loop \in Nat
  BY LoopIsNat
<1>3. CASE program = "main_race"
  <2>1. Locks!Members = 1..2 /\ Adders = {1, 2} /\ 1..2 = {1, 2}
    BY <1>1, <1>3 DEF CodeOfCounters, Adders
  <2>2. IsFiniteSet(1..2) /\ Cardinality(1..2) = 2
    <3>1. PICK n \in Int : n = 2
      OBVIOUS
    <3>2. IsFiniteSet(1..n) /\ Cardinality(1..n) = IF 1 > n THEN 0 ELSE n - 1 + 1
      BY FS_Interval
    <3> QED BY <3>1, <3>2
  <2>3. Enter(1) = 2 /\ Leave(1) = 5
    BY <1>3 DEF Enter, Leave, Adders
  <2>4. ASSUME NEW t \in Locks!Members
        PROVE  Enter(t) \in Nat \ {0} /\ Leave(t) = Enter(t) + IF t \in Adders THEN 3 ELSE 2
    BY <1>3 DEF Enter, Leave
  <2>5. ASSUME NEW u \in Locks!Members \ {1}
        PROVE  /\ JoinOf(u) \in Nat /\ u <= JoinOf(u) /\ JoinOf(u) + 1 \notin Locks!Members
               /\ JoinOf(u) < Enter(1) \/ Leave(1) < JoinOf(u)
               /\ \A v \in Locks!Members \ {1} : JoinOf(u) = JoinOf(v) => u = v
    BY <1>3, <2>1, <2>3 DEF JoinOf
  <2> QED BY <1>1, <1>3, <2>1, <2>2, <2>4, <2>5
<1>4. CASE program = "simple_counter"
  <2>1. Locks!Members = 1..(Loop + 1) /\ Adders = 2..(Loop + 1)
    BY <1>1, <1>4 DEF CodeOfCounters, Adders
  <2>2. IsFiniteSet(2..(Loop + 1)) /\ Cardinality(2..(Loop + 1)) = Loop
    BY <1>2, FS_Interval
  <2>3. Enter(1) = 2 * Loop + 1 /\ Leave(1) = 2 * Loop + 3
    BY <1>2, <1>4 DEF Enter, Leave, Adders
  <2>4. ASSUME NEW t \in Locks!Members
        PROVE  Enter(t) \in Nat \ {0} /\ Leave(t) = Enter(t) + IF t \in Adders THEN 3 ELSE 2
    BY <1>2, <1>4 DEF Enter, Leave
  <2>5. ASSUME NEW u \in Locks!Members \ {1}
        PROVE  /\ JoinOf(u) \in Nat /\ u <= JoinOf(u) /\ JoinOf(u) + 1 \notin Locks!Members
               /\ JoinOf(u) < Enter(1) \/ Leave(1) < JoinOf(u)
               /\ \A v \in Locks!Members \ {1} : JoinOf(u) = JoinOf(v) => u = v
    BY <1>2, <1>4, <2>1, <2>3 DEF JoinOf
  <2> QED BY <1>1, <1>2, <1>4, <2>1, <2>2, <2>4, <2>5
<1> QED BY <1>3, <1>4 DEF Counters

\* A step of one thread disturbs the others only if it creates one.
LEMMA OneGoesOn ==
    ASSUME SmallTypes, program \in Counters, CreatedAndJoined, UNCHANGED program,
           NEW t \in Locks!Members, at' = [at EXCEPT ![t] = @ + 1], at[t] # 0,
           \A u \in Locks!Members \ {1} : t = 1 /\ at[1] = JoinOf(u) => at[u] > Leave(u)
    PROVE  /\ CreatedAndJoined' /\ at'[t] = at[t] + 1
           /\ \A u \in Locks!Members \ {t} : at'[u] = at[u]
<1>1. /\ at'[t] = at[t] + 1 /\ \A u \in Locks!Members \ {t} : at'[u] = at[u]
      /\ \A u \in Locks!Members : at[u] \in Nat
  BY DEF SmallTypes
<1>2. Locks!Members' = Locks!Members /\ \A u : JoinOf(u)' = JoinOf(u) /\ Leave(u)' = Leave(u)
  BY DEF Locks!Members, Locks!Code, JoinOf, Leave, Enter, Adders
<1>3. ASSUME NEW u \in Locks!Members \ {1}
      PROVE  (at'[1] < u => at'[u] = 0) /\ (at'[1] > JoinOf(u) => at'[u] > Leave(u))
  <2>1. /\ at[1] < u => at[u] = 0
        /\ at[1] > JoinOf(u) => at[u] > Leave(u)
        /\ t = 1 /\ at[1] = JoinOf(u) => at[u] > Leave(u)
    BY DEF CreatedAndJoined
  <2>2. /\ JoinOf(u) \in Nat /\ u \in Nat /\ Leave(u) \in Nat /\ 1 \in Locks!Members
        /\ at[1] \in Nat /\ at[u] \in Nat
    BY <1>1, CountingNumbers
  <2>3. CASE t = 1
    <3>1. at'[1] = at[1] + 1 /\ at'[u] = at[u]
      BY <1>1, <2>3
    <3> QED BY <2>1, <2>2, <2>3, <3>1
  <2>4. CASE t = u
    <3>1. at'[1] = at[1] /\ at'[u] = at[u] + 1 /\ at[u] # 0
      BY <1>1, <2>2, <2>4
    <3> QED BY <2>1, <2>2, <3>1
  <2>5. CASE t # 1 /\ t # u
    <3>1. at'[1] = at[1] /\ at'[u] = at[u]
      BY <1>1, <2>2, <2>5
    <3> QED BY <2>1, <3>1
  <2> QED BY <2>3, <2>4, <2>5
<1> QED BY <1>1, <1>2, <1>3 DEF CreatedAndJoined

LEMMA CountedStep ==
    ASSUME SmallTypes, Counted, program \in Counters, NEW t \in Locks!Members, Locks!Step(t)
    PROVE  Counted'
<1> DEFINE c == Locks!Code[t][at[t]]
<1>1. /\ Locks!Members' = Locks!Members /\ at[t] \in 1..Len(Locks!Code[t]) /\ SmallTypes'
      /\ UNCHANGED program
  BY SmallTypesStep, CallEffect
<1>2. /\ Adders' = Adders /\ \A u : Enter(u)' = Enter(u) /\ Leave(u)' = Leave(u) /\ JoinOf(u)' = JoinOf(u)
  BY <1>1 DEF JoinOf, Leave, Enter, Adders
<1>3. /\ CodeOfCounters /\ 1 \in Locks!Members /\ Locks!Members \subseteq Nat \ {0}
      /\ Adders \subseteq Locks!Members /\ IsFiniteSet(Adders)
      /\ \A u \in Locks!Members : /\ Enter(u) \in Nat \ {0} /\ at[u] \in Nat /\ at'[u] \in Nat
                                  /\ Leave(u) = Enter(u) + IF u \in Adders THEN 3 ELSE 2
      /\ \A u \in Locks!Members \ {1} :
            /\ JoinOf(u) \in Nat /\ u <= JoinOf(u) /\ JoinOf(u) + 1 \notin Locks!Members
            /\ JoinOf(u) < Enter(1) \/ Leave(1) < JoinOf(u)
            /\ \A v \in Locks!Members \ {1} : JoinOf(u) = JoinOf(v) => u = v
  BY <1>1, CountingNumbers DEF SmallTypes
<1>4. CountingCall(t, at[t]) /\ \A u \in Locks!Members \ {1} : Len(Locks!Code[u]) = Leave(u)
  BY <1>1, <1>3 DEF CodeOfCounters
<1>5. StoresCounted /\ LockHeld /\ CopyFresh /\ CreatedAndJoined
  BY DEF Counted
<1>6. /\ "lock" \in Mutexes /\ holder \in [Mutexes -> Nat] /\ copy \in [Locks!Members -> Nat]
      /\ at \in [Locks!Members -> Nat] /\ value \in Nat
  BY DEF Mutexes, SmallTypes
<1>7. ASSUME c.op \notin {"create", "join", "test", "again"},
             \A u \in Locks!Members \ {1} : ~(t = 1 /\ at[1] = JoinOf(u))
      PROVE  /\ CreatedAndJoined' /\ at'[t] = at[t] + 1
             /\ \A u \in Locks!Members \ {t} : at'[u] = at[u]
  <2>1. at' = [at EXCEPT ![t] = @ + 1] /\ at[t] # 0
    BY <1>7, CallEffect
  <2> QED BY <1>1, <1>5, <1>7, <2>1, OneGoesOn
<1>e. /\ value' = IF c.op = "store" THEN copy[t] + 1 ELSE value
      /\ copy' = IF c.op = "load" THEN [copy EXCEPT ![t] = value] ELSE copy
      /\ c.op = "lock" => holder[c.on] = 0 /\ holder' = [holder EXCEPT ![c.on] = t]
      /\ c.op = "unlock" => holder' = [holder EXCEPT ![c.on] = 0]
      /\ c.op \notin {"lock", "again", "unlock", "sleep"} => UNCHANGED holder
  BY CallEffect
<1>8. CASE at[t] = Enter(t) /\ c = Locks!Do("lock", "lock")
  <2>1. c.op = "lock" /\ c.on = "lock"
    BY <1>8 DEF Locks!Do
  <2> HIDE DEF c
  <2>2. /\ holder["lock"] = 0 /\ holder' = [holder EXCEPT !["lock"] = t] /\ UNCHANGED <<value, copy>>
    BY <2>1, <1>e
  <2>3. /\ CreatedAndJoined' /\ at'[t] = at[t] + 1 /\ \A u \in Locks!Members \ {t} : at'[u] = at[u]
    BY <1>3, <1>7, <1>8, <2>1
  <2>4. holder'["lock"] = t
    BY <1>6, <2>2
  <2>5. LockHeld'
    <3>1. ASSUME NEW u \in Locks!Members
          PROVE  (at'[u] > Enter(u) /\ at'[u] <= Leave(u)) <=> holder'["lock"] = u
      <4>1. CASE u = t
        BY <1>3, <1>8, <2>3, <2>4, <4>1
      <4>2. CASE u # t
        <5>1. ~Holds(u)
          BY <1>3, <1>5, <2>2 DEF LockHeld
        <5> QED BY <2>3, <2>4, <4>2, <5>1 DEF Holds
      <4> QED BY <4>1, <4>2
    <3> QED BY <1>1, <1>2, <3>1 DEF LockHeld, Holds
  <2>6. CopyFresh'
    <3>1. ASSUME NEW u \in Adders, at'[u] = Enter(u) + 2 PROVE copy'[u] = value'
      <4>1. u # t
        BY <1>3, <1>8, <2>3, <3>1
      <4> QED BY <1>3, <1>5, <2>2, <2>3, <3>1, <4>1 DEF CopyFresh
    <3> QED BY <1>2, <3>1 DEF CopyFresh
  <2>7. StoresCounted'
    <3>1. \A u \in Adders : at'[u] > Enter(u) + 2 <=> at[u] > Enter(u) + 2
      BY <1>3, <1>8, <2>3
    <3> QED BY <1>2, <1>5, <2>2, <3>1 DEF StoresCounted, Stored
  <2> QED BY <1>1, <2>3, <2>5, <2>6, <2>7 DEF Counted
<1>9. CASE at[t] = Enter(t) + 1 /\ c = Locks!Do("load", "value")
  <2>1. c.op = "load"
    BY <1>9 DEF Locks!Do
  <2> HIDE DEF c
  <2>2. /\ UNCHANGED <<value, holder>> /\ copy' = [copy EXCEPT ![t] = value]
    BY <2>1, <1>e
  <2>3. /\ CreatedAndJoined' /\ at'[t] = at[t] + 1 /\ \A u \in Locks!Members \ {t} : at'[u] = at[u]
    BY <1>3, <1>7, <1>9, <2>1
  <2>4. LockHeld'
    <3>1. \A u \in Locks!Members : (at'[u] > Enter(u) /\ at'[u] <= Leave(u)) <=>
                                   (at[u] > Enter(u) /\ at[u] <= Leave(u))
      BY <1>3, <1>9, <2>3
    <3> QED BY <1>1, <1>2, <1>5, <2>2, <3>1 DEF LockHeld, Holds
  <2>5. CopyFresh'
    <3>1. ASSUME NEW u \in Adders, at'[u] = Enter(u) + 2 PROVE copy'[u] = value'
      <4>1. CASE u = t
        BY <1>6, <2>2, <4>1
      <4>2. CASE u # t
        BY <1>3, <1>5, <1>6, <2>2, <2>3, <3>1, <4>2 DEF CopyFresh
      <4> QED BY <4>1, <4>2
    <3> QED BY <1>2, <3>1 DEF CopyFresh
  <2>6. StoresCounted'
    <3>1. \A u \in Adders : at'[u] > Enter(u) + 2 <=> at[u] > Enter(u) + 2
      BY <1>3, <1>9, <2>3
    <3> QED BY <1>2, <1>5, <2>2, <3>1 DEF StoresCounted, Stored
  <2> QED BY <1>1, <2>3, <2>4, <2>5, <2>6 DEF Counted
<1>10. CASE t \in Adders /\ at[t] = Enter(t) + 2 /\ c = Locks!Do("store", "value")
  <2>1. c.op = "store"
    BY <1>10 DEF Locks!Do
  <2> HIDE DEF c
  <2>2. value' = copy[t] + 1 /\ UNCHANGED <<copy, holder>>
    BY <2>1, <1>e
  <2>3. /\ CreatedAndJoined' /\ at'[t] = at[t] + 1 /\ \A u \in Locks!Members \ {t} : at'[u] = at[u]
    BY <1>3, <1>7, <1>10, <2>1
  <2>4. LockHeld'
    <3>1. \A u \in Locks!Members : (at'[u] > Enter(u) /\ at'[u] <= Leave(u)) <=>
                                   (at[u] > Enter(u) /\ at[u] <= Leave(u))
      BY <1>3, <1>10, <2>3
    <3> QED BY <1>1, <1>2, <1>5, <2>2, <3>1 DEF LockHeld, Holds
  <2>5. CopyFresh'
    <3>1. ASSUME NEW u \in Adders, at'[u] = Enter(u) + 2 PROVE FALSE
      <4>1. u # t /\ at[u] = Enter(u) + 2
        BY <1>3, <1>10, <2>3, <3>1
      <4>2. holder["lock"] = u /\ holder["lock"] = t
        BY <1>3, <1>5, <1>10, <4>1 DEF LockHeld, Holds
      <4> QED BY <4>1, <4>2
    <3> QED BY <1>2, <3>1 DEF CopyFresh
  <2>6. StoresCounted'
    <3> DEFINE A == {u \in Adders : Stored(u)}
               B == {u \in Adders : at'[u] > Enter(u) + 2}
    <3>1. t \notin A /\ B = A \cup {t}
      <4>1. \A u \in Adders : at'[u] > Enter(u) + 2 <=> u = t \/ at[u] > Enter(u) + 2
        BY <1>3, <1>10, <2>3
      <4>2. ~(at[t] > Enter(t) + 2)
        BY <1>3, <1>10
      <4> QED BY <1>10, <4>1, <4>2 DEF Stored
    <3>2. IsFiniteSet(A)
      BY <1>3, FS_Subset
    <3>3. Cardinality(B) = Cardinality(A) + 1
      BY <3>1, <3>2, FS_AddElement
    <3>4. value' = Cardinality(B)
      BY <1>5, <1>10, <2>2, <3>3 DEF StoresCounted, CopyFresh
    <3> QED BY <1>2, <3>4 DEF StoresCounted, Stored
  <2> QED BY <1>1, <2>3, <2>4, <2>5, <2>6 DEF Counted
<1>11. CASE at[t] = Leave(t) /\ c = Locks!Do("unlock", "lock")
  <2>1. c.op = "unlock" /\ c.on = "lock"
    BY <1>11 DEF Locks!Do
  <2> HIDE DEF c
  <2>2. /\ holder' = [holder EXCEPT !["lock"] = 0] /\ UNCHANGED <<value, copy>>
    BY <2>1, <1>e
  <2>3. /\ CreatedAndJoined' /\ at'[t] = at[t] + 1 /\ \A u \in Locks!Members \ {t} : at'[u] = at[u]
    BY <1>3, <1>7, <1>11, <2>1
  <2>4. holder'["lock"] = 0 /\ holder["lock"] = t
    BY <1>3, <1>5, <1>6, <1>11, <2>2 DEF LockHeld, Holds
  <2>5. LockHeld'
    <3>1. ASSUME NEW u \in Locks!Members
          PROVE  (at'[u] > Enter(u) /\ at'[u] <= Leave(u)) <=> holder'["lock"] = u
      <4>1. CASE u = t
        BY <1>3, <1>11, <2>3, <2>4, <4>1
      <4>2. CASE u # t
        <5>1. ~Holds(u)
          BY <1>5, <2>4, <4>2 DEF LockHeld
        <5> QED BY <1>3, <2>3, <2>4, <4>2, <5>1 DEF Holds
      <4> QED BY <4>1, <4>2
    <3> QED BY <1>1, <1>2, <3>1 DEF LockHeld, Holds
  <2>6. CopyFresh'
    <3>1. ASSUME NEW u \in Adders, at'[u] = Enter(u) + 2 PROVE copy'[u] = value'
      <4>1. u # t
        BY <1>3, <1>11, <2>3, <3>1
      <4> QED BY <1>3, <1>5, <2>2, <2>3, <3>1, <4>1 DEF CopyFresh
    <3> QED BY <1>2, <3>1 DEF CopyFresh
  <2>7. StoresCounted'
    <3>1. \A u \in Adders : at'[u] > Enter(u) + 2 <=> at[u] > Enter(u) + 2
      BY <1>3, <1>11, <2>3
    <3> QED BY <1>2, <1>5, <2>2, <3>1 DEF StoresCounted, Stored
  <2> QED BY <1>1, <2>3, <2>5, <2>6, <2>7 DEF Counted
<1>12. CASE /\ t = 1 /\ at[t] < Enter(1)
            /\ c.op = "create" /\ c.on = at[t] + 1 /\ c.on \in Locks!Members
  <2> HIDE DEF c
  <2>1. at' = [at EXCEPT ![1] = @ + 1, ![c.on] = 1] /\ UNCHANGED <<value, copy, holder>> /\ at[1] # 0
    BY <1>12, CallEffect DEF c
  <2>2. PICK v \in Locks!Members \ {1} : v = c.on /\ v = at[1] + 1
    BY <1>3, <1>12, <2>1
  <2>3. /\ at'[1] = at[1] + 1 /\ at'[v] = 1 /\ at[v] = 0 /\ Enter(v) = 1
        /\ \A u \in Locks!Members \ {1, v} : at'[u] = at[u]
    <3>1. at[v] = 0
      BY <1>3, <1>5, <2>2 DEF CreatedAndJoined
    <3>2. Enter(v) = 1
      BY DEF Enter
    <3> QED BY <1>3, <1>6, <2>1, <2>2, <3>1, <3>2
  <2>4. LockHeld'
    <3>1. \A u \in Locks!Members : (at'[u] > Enter(u) /\ at'[u] <= Leave(u)) <=>
                                   (at[u] > Enter(u) /\ at[u] <= Leave(u))
      BY <1>3, <1>12, <2>3
    <3> QED BY <1>1, <1>2, <1>5, <2>1, <3>1 DEF LockHeld, Holds
  <2>5. CopyFresh'
    <3>1. ASSUME NEW u \in Adders, at'[u] = Enter(u) + 2 PROVE copy'[u] = value'
      <4>1. u # 1 /\ u # v
        BY <1>3, <1>12, <2>3, <3>1
      <4> QED BY <1>3, <1>5, <2>1, <2>3, <3>1, <4>1 DEF CopyFresh
    <3> QED BY <1>2, <3>1 DEF CopyFresh
  <2>6. StoresCounted'
    <3>1. \A u \in Adders : at'[u] > Enter(u) + 2 <=> at[u] > Enter(u) + 2
      BY <1>3, <1>12, <2>3
    <3> QED BY <1>2, <1>5, <2>1, <3>1 DEF StoresCounted, Stored
  <2>7. CreatedAndJoined'
    <3>1. ASSUME NEW u \in Locks!Members \ {1}
          PROVE  (at'[1] < u => at'[u] = 0) /\ (at'[1] > JoinOf(u) => at'[u] > Leave(u))
      <4>1. CASE u = v
        BY <1>3, <2>2, <2>3, <4>1
      <4>2. CASE u # v
        <5>1. at[1] # JoinOf(u)
          BY <1>3, <2>2
        <5>2. at'[u] = at[u] /\ u \in Nat /\ JoinOf(u) \in Nat /\ at[1] \in Nat
          BY <1>3, <2>3, <4>2
        <5> QED BY <1>5, <2>3, <5>1, <5>2 DEF CreatedAndJoined
      <4> QED BY <4>1, <4>2
    <3> QED BY <1>1, <1>2, <3>1 DEF CreatedAndJoined
  <2> QED BY <1>1, <2>4, <2>5, <2>6, <2>7 DEF Counted
<1>13. CASE /\ t = 1 /\ c.op = "join" /\ c.on \in Locks!Members \ {1} /\ at[t] = JoinOf(c.on)
            /\ at[t] \notin Enter(1)..Leave(1)
  <2> HIDE DEF c
  <2>1. /\ at' = [at EXCEPT ![t] = @ + 1] /\ UNCHANGED <<value, copy, holder>> /\ at[t] # 0
        /\ Locks!Ended(c.on)
    BY <1>13, CallEffect DEF c
  <2>2. \A u \in Locks!Members \ {1} : t = 1 /\ at[1] = JoinOf(u) => at[u] > Leave(u)
    BY <1>3, <1>4, <1>13, <2>1 DEF Locks!Ended
  <2>3. /\ CreatedAndJoined' /\ at'[t] = at[t] + 1 /\ \A u \in Locks!Members \ {t} : at'[u] = at[u]
    BY <1>1, <1>5, <2>1, <2>2, OneGoesOn
  <2>4. at[1] < Enter(1) \/ Leave(1) < at[1]
    BY <1>3, <1>13
  <2>5. LockHeld'
    <3>1. \A u \in Locks!Members : (at'[u] > Enter(u) /\ at'[u] <= Leave(u)) <=>
                                   (at[u] > Enter(u) /\ at[u] <= Leave(u))
      BY <1>3, <1>13, <2>3, <2>4
    <3> QED BY <1>1, <1>2, <1>5, <2>1, <3>1 DEF LockHeld, Holds
  <2>6. CopyFresh'
    <3>1. ASSUME NEW u \in Adders, at'[u] = Enter(u) + 2 PROVE copy'[u] = value'
      <4>1. u # t
        BY <1>3, <1>13, <2>3, <2>4, <3>1
      <4> QED BY <1>3, <1>5, <2>1, <2>3, <3>1, <4>1 DEF CopyFresh
    <3> QED BY <1>2, <3>1 DEF CopyFresh
  <2>7. StoresCounted'
    <3>1. \A u \in Adders : at'[u] > Enter(u) + 2 <=> at[u] > Enter(u) + 2
      BY <1>3, <1>13, <2>3, <2>4
    <3> QED BY <1>2, <1>5, <2>1, <3>1 DEF StoresCounted, Stored
  <2> QED BY <1>1, <2>3, <2>5, <2>6, <2>7 DEF Counted
<1> QED BY <1>4, <1>8, <1>9, <1>10, <1>11, <1>12, <1>13 DEF CountingCall

\* Programs that have no counter leave it alone.
LEMMA NoCounter ==
    ASSUME SmallTypes, Counted, program \notin Counters, NEW t \in Locks!Members, Locks!Step(t)
    PROVE  Counted'
<1> DEFINE c == Locks!Code[t][at[t]]
<1>1. c.op # "store"
  BY SmallTypesStep DEF CallIs
<1>2. UNCHANGED <<program, value>>
  BY <1>1, CallEffect
<1> QED BY <1>2 DEF Counted

LEMMA QuietCounted == ASSUME Counted, SmallQuiet PROVE Counted'
<1>1. Locks!Members' = Locks!Members
  BY DEF SmallQuiet, Locks!Members, Locks!Code
<1>2. /\ Adders' = Adders
      /\ \A u : Enter(u)' = Enter(u) /\ Leave(u)' = Leave(u) /\ JoinOf(u)' = JoinOf(u)
      /\ \A u : Stored(u)' = Stored(u) /\ Holds(u)' = Holds(u)
  BY DEF SmallQuiet, Adders, Enter, Leave, JoinOf, Stored, Holds
<1> QED BY <1>1, <1>2 DEF SmallQuiet, Counted, StoresCounted, LockHeld, CopyFresh, CreatedAndJoined

\* When main has returned every increment has been stored.
LEMMA CountersAreExact == SmallTypes /\ Counted => Locks!CountersExact
<1> SUFFICES ASSUME SmallTypes, Counted, Locks!Ended(1) PROVE Locks!CountersExact
  BY DEF Locks!CountersExact
<1>1. CASE program \in Counters
  <2>1. /\ CodeOfCounters /\ 1 \in Locks!Members /\ Locks!Members \subseteq Nat \ {0}
        /\ Adders \subseteq Locks!Members
        /\ Cardinality(Adders) = IF program = "main_race" THEN 2 ELSE Loop
        /\ \A t \in Locks!Members : /\ Enter(t) \in Nat /\ at[t] \in Nat
                                    /\ Leave(t) = Enter(t) + IF t \in Adders THEN 3 ELSE 2
        /\ \A u \in Locks!Members \ {1} : JoinOf(u) \in Nat
    BY <1>1, CountingNumbers DEF SmallTypes
  <2>2. /\ at[1] > Leave(1) /\ \A u \in Locks!Members \ {1} : at[1] > JoinOf(u)
    BY <2>1 DEF CodeOfCounters, Locks!Ended
  <2>3. \A u \in Locks!Members : at[u] > Leave(u)
    BY <1>1, <2>1, <2>2 DEF Counted, CreatedAndJoined
  <2>4. {t \in Adders : Stored(t)} = Adders
    <3>1. \A t \in Adders : at[t] > Enter(t) + 2
      BY <2>1, <2>3
    <3> QED BY <3>1 DEF Stored
  <2>5. value = IF program = "main_race" THEN 2 ELSE Loop
    BY <1>1, <2>1, <2>4 DEF Counted, StoresCounted
  <2> QED BY <1>1, <2>5 DEF Locks!CountersExact, Counters
<1>2. CASE program \notin Counters
  BY <1>2 DEF Counted, Locks!CountersExact, Counters
<1> QED BY <1>1, <1>2

\* main gets as far as Printer only when the flag or the semaphore says that the
\* child has printed.
Printer == IF program = "main_signal_cv" THEN 6 ELSE 3

Ordered ==
    IF program \in Orders
    THEN at[2] > 1 \/ done \/ semaphore["s"] > 0 \/ at[1] >= Printer \/ <<1, "last">> \in printed
         => <<2, "first">> \in printed
    ELSE <<1, "last">> \notin printed

LEMMA OrderedStep ==
    ASSUME SmallTypes, Ordered, NEW t \in Locks!Members, Locks!Step(t)
    PROVE  Ordered'
<1> DEFINE c == Locks!Code[t][at[t]]
<1>0. \A n : t = n => c = Locks!Code[n][at[n]] /\ at[n] \in 1..Len(Locks!Code[n])
  BY SmallTypesStep, Zenon
<1>1. /\ at[t] \in 1..Len(Locks!Code[t]) /\ CallIs(t, at[t])
      /\ at \in [Locks!Members -> Nat] /\ semaphore \in [Sems -> Nat]
  BY SmallTypesStep DEF SmallTypes
<1>2. /\ UNCHANGED program
      /\ c.op = "create" => at' = [at EXCEPT ![t] = @ + 1, ![c.on] = 1]
      /\ c.op = "test" => at' = [at EXCEPT ![t] = @ + IF done THEN 3 ELSE 1]
      /\ c.op = "again" => at' = [at EXCEPT ![t] = @ + -2]
      /\ c.op \notin {"create", "test", "again"} => at' = [at EXCEPT ![t] = @ + 1]
      /\ printed' = IF c.op = "print" THEN printed \cup {<<t, c.on>>} ELSE printed
      /\ done' = IF c.op = "set" THEN TRUE ELSE done
      /\ c.op = "spin" => done
      /\ c.op = "post" => semaphore' = [semaphore EXCEPT ![c.on] = @ + 1]
      /\ c.op = "wait" => semaphore[c.on] > 0 /\ semaphore' = [semaphore EXCEPT ![c.on] = @ - 1]
      /\ c.op \notin {"post", "wait"} => UNCHANGED semaphore
  BY CallEffect
<1>3. "s" \in Sems
  BY DEF Sems
<1>4. CASE program \notin Orders
  <2>1. c.op = "print" => c.on \in {"before", "after"}
    BY <1>1, <1>4 DEF CallIs
  <2> HIDE DEF c
  <2> QED BY <1>2, <1>4, <2>1 DEF Ordered
<1>5. CASE program = "main_signal"
  <2>1. /\ t \in {1, 2} /\ 1 \in Locks!Members /\ 2 \in Locks!Members
        /\ t = 1 => \/ at[1] = 1 /\ c = Locks!Do("create", 2)
                    \/ at[1] = 2 /\ c = Locks!Do("spin", "done")
                    \/ at[1] = 3 /\ c = Locks!Do("print", "last")
        /\ t = 2 => \/ at[2] = 1 /\ c = Locks!Do("print", "first")
                    \/ at[2] = 2 /\ c = Locks!Do("set", "done")
    <3>1. t \in {1, 2} /\ 1 \in Locks!Members /\ 2 \in Locks!Members
      BY <1>1, <1>5, SignalCode
    <3> HIDE DEF c
    <3>2. t = 1 => c = Locks!Code[1][at[1]] /\ (at[1] = 1 \/ at[1] = 2 \/ at[1] = 3)
      <4>1. t = 1 => c = Locks!Code[1][at[1]] /\ at[1] \in 1..3
        BY <1>0, <1>5, SignalCode
      <4> QED BY <4>1
    <3>3. t = 2 => c = Locks!Code[2][at[2]] /\ (at[2] = 1 \/ at[2] = 2)
      <4>1. t = 2 => c = Locks!Code[2][at[2]] /\ at[2] \in 1..2
        BY <1>0, <1>5, SignalCode
      <4> QED BY <4>1
    <3> QED BY <3>1, <3>2, <3>3, <1>5, SignalCode
  <2>2. Printer = 3 /\ Printer' = 3 /\ program \in Orders /\ program' \in Orders
    BY <1>2, <1>5 DEF Printer, Orders
  <2> HIDE DEF c
  <2>3. CASE t = 1
    BY <1>1, <1>2, <1>3, <2>1, <2>2, <2>3 DEF Ordered, Locks!Do
  <2>4. CASE t = 2
    BY <1>1, <1>2, <1>3, <2>1, <2>2, <2>4 DEF Ordered, Locks!Do
  <2> QED BY <2>1, <2>3, <2>4
<1>6. CASE program = "fork_join"
  <2>1. /\ t \in {1, 2} /\ 1 \in Locks!Members /\ 2 \in Locks!Members
        /\ t = 1 => \/ at[1] = 1 /\ c = Locks!Do("create", 2)
                    \/ at[1] = 2 /\ c = Locks!Do("wait", "s")
                    \/ at[1] = 3 /\ c = Locks!Do("print", "last")
        /\ t = 2 => \/ at[2] = 1 /\ c = Locks!Do("print", "first")
                    \/ at[2] = 2 /\ c = Locks!Do("post", "s")
    <3>1. t \in {1, 2} /\ 1 \in Locks!Members /\ 2 \in Locks!Members
      BY <1>1, <1>6, ForkJoinCode
    <3> HIDE DEF c
    <3>2. t = 1 => c = Locks!Code[1][at[1]] /\ (at[1] = 1 \/ at[1] = 2 \/ at[1] = 3)
      <4>1. t = 1 => c = Locks!Code[1][at[1]] /\ at[1] \in 1..3
        BY <1>0, <1>6, ForkJoinCode
      <4> QED BY <4>1
    <3>3. t = 2 => c = Locks!Code[2][at[2]] /\ (at[2] = 1 \/ at[2] = 2)
      <4>1. t = 2 => c = Locks!Code[2][at[2]] /\ at[2] \in 1..2
        BY <1>0, <1>6, ForkJoinCode
      <4> QED BY <4>1
    <3> QED BY <3>1, <3>2, <3>3, <1>6, ForkJoinCode
  <2>2. Printer = 3 /\ Printer' = 3 /\ program \in Orders /\ program' \in Orders
    BY <1>2, <1>6 DEF Printer, Orders
  <2> HIDE DEF c
  <2>3. CASE t = 1
    BY <1>1, <1>2, <1>3, <2>1, <2>2, <2>3 DEF Ordered, Locks!Do
  <2>4. CASE t = 2
    BY <1>1, <1>2, <1>3, <2>1, <2>2, <2>4 DEF Ordered, Locks!Do
  <2> QED BY <2>1, <2>3, <2>4
<1>7. CASE program = "main_signal_cv"
  <2>1. /\ t \in {1, 2} /\ 1 \in Locks!Members /\ 2 \in Locks!Members
        /\ t = 1 => \/ at[1] = 1 /\ c = Locks!Do("create", 2)
                    \/ at[1] = 2 /\ c = Locks!Do("lock", "lock")
                    \/ at[1] = 3 /\ c = Locks!Do("test", "done")
                    \/ at[1] = 4 /\ c = Locks!Do("sleep", "cond")
                    \/ at[1] = 5 /\ c = Locks!Do("again", "lock")
                    \/ at[1] = 6 /\ c = Locks!Do("unlock", "lock")
                    \/ at[1] = 7 /\ c = Locks!Do("print", "last")
        /\ t = 2 => \/ at[2] = 1 /\ c = Locks!Do("print", "first")
                    \/ at[2] = 2 /\ c = Locks!Do("lock", "lock")
                    \/ at[2] = 3 /\ c = Locks!Do("set", "done")
                    \/ at[2] = 4 /\ c = Locks!Do("signal", "cond")
                    \/ at[2] = 5 /\ c = Locks!Do("unlock", "lock")
    <3>1. t \in {1, 2} /\ 1 \in Locks!Members /\ 2 \in Locks!Members
      BY <1>1, <1>7, SignalCvCode
    <3> HIDE DEF c
    <3>2. t = 1 => /\ c = Locks!Code[1][at[1]]
                   /\ (at[1] = 1 \/ at[1] = 2 \/ at[1] = 3 \/ at[1] = 4
                       \/ at[1] = 5 \/ at[1] = 6 \/ at[1] = 7)
      <4>1. t = 1 => c = Locks!Code[1][at[1]] /\ at[1] \in 1..7
        BY <1>0, <1>7, SignalCvCode
      <4> QED BY <4>1
    <3>3. t = 2 => /\ c = Locks!Code[2][at[2]]
                   /\ (at[2] = 1 \/ at[2] = 2 \/ at[2] = 3 \/ at[2] = 4 \/ at[2] = 5)
      <4>1. t = 2 => c = Locks!Code[2][at[2]] /\ at[2] \in 1..5
        BY <1>0, <1>7, SignalCvCode
      <4> QED BY <4>1
    <3> QED BY <3>1, <3>2, <3>3, <1>7, SignalCvCode
  <2>2. Printer = 6 /\ Printer' = 6 /\ program \in Orders /\ program' \in Orders
    BY <1>2, <1>7 DEF Printer, Orders
  <2> HIDE DEF c
  <2>3. CASE t = 1
    BY <1>1, <1>2, <1>3, <2>1, <2>2, <2>3 DEF Ordered, Locks!Do
  <2>4. CASE t = 2
    BY <1>1, <1>2, <1>3, <2>1, <2>2, <2>4 DEF Ordered, Locks!Do
  <2> QED BY <2>1, <2>3, <2>4
<1> QED BY <1>4, <1>5, <1>6, <1>7 DEF Orders

\* A child of rendezvous.c that has posted its semaphore has printed "before".
Met ==
    IF program = "rendezvous"
    THEN /\ \A t \in {2, 3} : at[t] > 1 => <<t, "before">> \in printed
         /\ semaphore["OneArrived"] > 0 \/ at[3] > 3 => <<2, "before">> \in printed
         /\ semaphore["TwoArrived"] > 0 \/ at[2] > 3 => <<3, "before">> \in printed
    ELSE \A t \in {2, 3} : <<t, "before">> \notin printed /\ <<t, "after">> \notin printed

LEMMA MetStep ==
    ASSUME SmallTypes, Met, NEW t \in Locks!Members, Locks!Step(t)
    PROVE  Met' /\ [Locks!R!Next]_Locks!R!vars
<1> DEFINE c == Locks!Code[t][at[t]]
<1>0. \A n : t = n => c = Locks!Code[n][at[n]] /\ at[n] \in 1..Len(Locks!Code[n])
  BY SmallTypesStep, Zenon
<1>1. /\ at[t] \in 1..Len(Locks!Code[t]) /\ CallIs(t, at[t]) /\ program \in SmallPrograms
      /\ at \in [Locks!Members -> Nat] /\ semaphore \in [Sems -> Nat]
  BY SmallTypesStep DEF SmallTypes
<1>2. /\ UNCHANGED program
      /\ c.op = "create" => at' = [at EXCEPT ![t] = @ + 1, ![c.on] = 1]
      /\ c.op \notin {"create", "test", "again"} => at' = [at EXCEPT ![t] = @ + 1]
      /\ printed' = IF c.op = "print" THEN printed \cup {<<t, c.on>>} ELSE printed
      /\ c.op = "post" => semaphore' = [semaphore EXCEPT ![c.on] = @ + 1]
      /\ c.op = "wait" => semaphore[c.on] > 0 /\ semaphore' = [semaphore EXCEPT ![c.on] = @ - 1]
      /\ c.op \notin {"post", "wait"} => UNCHANGED semaphore
  BY CallEffect
<1>3. "OneArrived" \in Sems /\ "TwoArrived" \in Sems
  BY DEF Sems
<1>4. CASE program # "rendezvous"
  <2>1. c.op = "print" => c.on \in {"first", "last"}
    BY <1>1, <1>4 DEF CallIs
  <2> HIDE DEF c
  <2>2. Met' /\ \A u \in {2, 3} : /\ <<u, "before">> \in printed' <=> <<u, "before">> \in printed
                                  /\ <<u, "after">> \in printed' <=> <<u, "after">> \in printed
    BY <1>2, <1>4, <2>1 DEF Met
  <2> QED BY <2>2 DEF Locks!R!vars, Locks!arrived, Locks!departed
<1>5. CASE program = "rendezvous"
  <2>1. /\ t \in {1, 2, 3} /\ \A u \in {1, 2, 3} : u \in Locks!Members
        /\ t = 1 => \/ at[1] = 1 /\ c = Locks!Do("create", 2)
                    \/ at[1] = 2 /\ c = Locks!Do("create", 3)
                    \/ at[1] = 3 /\ c = Locks!Do("join", 2)
                    \/ at[1] = 4 /\ c = Locks!Do("join", 3)
        /\ t = 2 => \/ at[2] = 1 /\ c = Locks!Do("print", "before")
                    \/ at[2] = 2 /\ c = Locks!Do("post", "OneArrived")
                    \/ at[2] = 3 /\ c = Locks!Do("wait", "TwoArrived")
                    \/ at[2] = 4 /\ c = Locks!Do("print", "after")
        /\ t = 3 => \/ at[3] = 1 /\ c = Locks!Do("print", "before")
                    \/ at[3] = 2 /\ c = Locks!Do("post", "TwoArrived")
                    \/ at[3] = 3 /\ c = Locks!Do("wait", "OneArrived")
                    \/ at[3] = 4 /\ c = Locks!Do("print", "after")
    <3>1. t \in {1, 2, 3} /\ \A u \in {1, 2, 3} : u \in Locks!Members
      BY <1>1, <1>5, RendezvousCode
    <3> HIDE DEF c
    <3>2. t = 1 => c = Locks!Code[1][at[1]] /\ (at[1] = 1 \/ at[1] = 2 \/ at[1] = 3 \/ at[1] = 4)
      <4>1. t = 1 => c = Locks!Code[1][at[1]] /\ at[1] \in 1..4
        BY <1>0, <1>5, RendezvousCode
      <4> QED BY <4>1
    <3>3. t = 2 => c = Locks!Code[2][at[2]] /\ (at[2] = 1 \/ at[2] = 2 \/ at[2] = 3 \/ at[2] = 4)
      <4>1. t = 2 => c = Locks!Code[2][at[2]] /\ at[2] \in 1..4
        BY <1>0, <1>5, RendezvousCode
      <4> QED BY <4>1
    <3>4. t = 3 => c = Locks!Code[3][at[3]] /\ (at[3] = 1 \/ at[3] = 2 \/ at[3] = 3 \/ at[3] = 4)
      <4>1. t = 3 => c = Locks!Code[3][at[3]] /\ at[3] \in 1..4
        BY <1>0, <1>5, RendezvousCode
      <4> QED BY <4>1
    <3> QED BY <3>1, <3>2, <3>3, <3>4, <1>5, RendezvousCode
  <2> HIDE DEF c
  <2>2. CASE t = 1
    <3>1. Met' /\ UNCHANGED printed
      BY <1>1, <1>2, <1>3, <1>5, <2>1, <2>2 DEF Met, Locks!Do
    <3> QED BY <3>1 DEF Locks!R!vars, Locks!arrived, Locks!departed
  <2>3. CASE t = 2
    <3>1. Met'
      BY <1>1, <1>2, <1>3, <1>5, <2>1, <2>3, SMTT(30) DEF Met, Locks!Do
    <3>2. \/ UNCHANGED printed
          \/ printed' = printed \cup {<<t, "before">>}
          \/ /\ printed' = printed \cup {<<t, "after">>}
             /\ <<2, "before">> \in printed /\ <<3, "before">> \in printed
      BY <1>1, <1>2, <1>3, <1>5, <2>1, <2>3, SMTT(30) DEF Met, Locks!Do
    <3> QED BY <2>3, <3>1, <3>2
        DEF Locks!R!vars, Locks!R!Next, Locks!R!Arrive, Locks!R!Depart, Locks!arrived, Locks!departed
  <2>4. CASE t = 3
    <3>1. Met'
      BY <1>1, <1>2, <1>3, <1>5, <2>1, <2>4, SMTT(30) DEF Met, Locks!Do
    <3>2. \/ UNCHANGED printed
          \/ printed' = printed \cup {<<t, "before">>}
          \/ /\ printed' = printed \cup {<<t, "after">>}
             /\ <<2, "before">> \in printed /\ <<3, "before">> \in printed
      BY <1>1, <1>2, <1>3, <1>5, <2>1, <2>4, SMTT(30) DEF Met, Locks!Do
    <3> QED BY <2>4, <3>1, <3>2
        DEF Locks!R!vars, Locks!R!Next, Locks!R!Arrive, Locks!R!Depart, Locks!arrived, Locks!departed
  <2> QED BY <2>1, <2>2, <2>3, <2>4
<1> QED BY <1>4, <1>5

SmallInv == SmallTypes /\ Counted /\ Ordered /\ Met

LEMMA SmallInit == Locks!Init => SmallInv /\ Locks!R!Init
<1> SUFFICES ASSUME Locks!Init PROVE SmallInv /\ Locks!R!Init
  OBVIOUS
<1>1. program \in SmallPrograms
  BY DEF Locks!Init, Locks!Program, SmallPrograms, Counters, Orders
<1>2. 1 \in Locks!Members /\ Locks!Members \subseteq Nat \ {0}
  BY <1>1, AllCode
<1>3. SmallTypes
  BY <1>1 DEF SmallTypes, Locks!Init, Mutexes, Sems
<1>4. /\ value = 0 /\ done = FALSE /\ printed = {} /\ holder["lock"] = 0
      /\ \A s \in Sems : semaphore[s] = 0
      /\ \A t \in Locks!Members : at[t] = IF t = 1 THEN 1 ELSE 0
  BY DEF Locks!Init, Sems
<1>5. Counted
  <2>1. CASE program \in Counters
    <3>1. /\ Adders \subseteq Locks!Members
          /\ \A t \in Locks!Members : Enter(t) \in Nat \ {0}
          /\ \A u \in Locks!Members \ {1} : JoinOf(u) \in Nat /\ u <= JoinOf(u)
      BY <2>1, CountingNumbers
    <3>2. {t \in Adders : Stored(t)} = {}
      BY <1>4, <3>1 DEF Stored
    <3>3. StoresCounted
      BY <1>4, <3>2, FS_EmptySet DEF StoresCounted
    <3>4. \A t \in Locks!Members : ~Holds(t)
      BY <1>4, <3>1 DEF Holds
    <3>5. LockHeld /\ CopyFresh /\ CreatedAndJoined
      BY <1>2, <1>4, <3>1, <3>4 DEF LockHeld, CopyFresh, CreatedAndJoined
    <3> QED BY <2>1, <3>3, <3>5 DEF Counted
  <2>2. CASE program \notin Counters
    BY <1>4, <2>2 DEF Counted
  <2> QED BY <2>1, <2>2
<1>6. Ordered
  <2>1. program \in Orders => Locks!Members = 1..2
    BY ForkJoinCode, SignalCode, SignalCvCode DEF Orders
  <2>2. "s" \in Sems
    BY DEF Sems
  <2> QED BY <1>4, <2>1, <2>2 DEF Ordered, Printer
<1>7. Met
  <2>1. program = "rendezvous" => Locks!Members = 1..3
    BY RendezvousCode
  <2>2. "OneArrived" \in Sems /\ "TwoArrived" \in Sems
    BY DEF Sems
  <2> QED BY <1>4, <2>1, <2>2 DEF Met
<1>8. Locks!R!Init
  BY <1>4 DEF Locks!R!Init, Locks!arrived, Locks!departed
<1> QED BY <1>3, <1>5, <1>6, <1>7, <1>8 DEF SmallInv

LEMMA SmallStep ==
    ASSUME SmallInv, [Locks!Next]_Locks!vars
    PROVE  SmallInv' /\ [Locks!R!Next]_Locks!R!vars
<1>1. CASE \E t \in Locks!Members : Locks!Step(t)
  <2> PICK t \in Locks!Members : Locks!Step(t)
    BY <1>1
  <2>1. Counted'
    BY CountedStep, NoCounter DEF SmallInv
  <2> QED BY <2>1, SmallTypesStep, OrderedStep, MetStep DEF SmallInv
<1>2. CASE SmallQuiet
  <2>1. SmallTypes' /\ Ordered' /\ Met'
    BY <1>2 DEF SmallInv, SmallTypes, Ordered, Met, Printer, SmallQuiet, Locks!Members, Locks!Code
  <2>2. UNCHANGED Locks!R!vars
    BY <1>2 DEF SmallQuiet, Locks!R!vars, Locks!arrived, Locks!departed
  <2> QED BY <1>2, <2>1, <2>2, QuietCounted DEF SmallInv
<1>3. CASE \E t \in Locks!Members : Locks!SpuriousWakeUp(t)
  BY <1>2, <1>3 DEF SmallQuiet, Locks!SpuriousWakeUp, Locks!data
<1>4. CASE UNCHANGED Locks!vars
  BY <1>2, <1>4 DEF SmallQuiet, Locks!vars, Locks!data, Locks!flag
<1> QED BY <1>1, <1>3, <1>4 DEF Locks!Next, Locks!Terminated

LEMMA InOrderKept == SmallInv => Locks!InOrder
BY DEF SmallInv, Ordered, Locks!InOrder

-----------------------------------------------------------------------------
(* The programs of which one is started *)

ProgramInv ==
    /\ started = "queue" => IInv
    /\ started = "list" => LinkedInv
    /\ started = "sloppy" => SloppyInv
    /\ IF started = "locks" THEN SmallInv ELSE printed = {}

\* A program that has no list is at its end at once.
LEMMA NoWalk == ASSUME NEW h, NEW nx, nx[h] = NULL PROVE Walk(h, nx) = <<h>>
<1>1. N \in Nat
  BY QueueAssumption, FS_CardinalityType DEF N
<1> DEFINE f == [n \in 0..N |-> <<h>>]
<1>2. Walks(h, nx, f)
  <2>1. \A n \in 0..N : n # 0 => n - 1 \in 0..N
    BY <1>1
  <2>2. <<h>>[Len(<<h>>)] = h
    OBVIOUS
  <2>3. \A n \in 0..N : n # 0 => f[n - 1] = <<h>> /\ nx[f[n - 1][Len(f[n - 1])]] = NULL
    BY <2>1, <2>2
  <2>4. f = [n \in 0..N |-> IF n = 0 THEN <<h>>
                            ELSE LET s == f[n - 1]
                                     m == nx[s[Len(s)]]
                                 IN  IF m = NULL THEN s ELSE Append(s, m)]
    <3>1. \A n \in 0..N : f[n] = IF n = 0 THEN <<h>>
                                 ELSE LET s == f[n - 1]
                                          m == nx[s[Len(s)]]
                                      IN  IF m = NULL THEN s ELSE Append(s, m)
      BY <2>3
    <3> QED BY <3>1
  <2> HIDE DEF f
  <2> QED BY <2>4 DEF Walks
<1>3. f[N] = <<h>>
  BY <1>1
<1> HIDE DEF f
<1>4. PICK w : Walks(h, nx, w) /\ Walk(h, nx) = w[N]
  BY <1>2, Recursion
<1> QED BY <1>1, <1>2, <1>3, <1>4, OneWalk

LEMMA ChainIsLinked == Linked!Chain = Chain /\ Linked!Chain' = Chain'
BY ChainIsWalk, LinkedChainIsWalk

LEMMA ProgramStart == Start => ProgramInv /\ Q!Init /\ Locks!R!Init
<1> SUFFICES ASSUME Start PROVE ProgramInv /\ Q!Init /\ Locks!R!Init
  OBVIOUS
<1>0. IF started = "locks" THEN SmallInv /\ Locks!R!Init ELSE printed = {} /\ Locks!R!Init
  <2>1. started = "locks" => Locks!Init
    BY DEF Start
  <2>2. started # "locks" => printed = {}
    BY DEF Start, NoLocks
  <2>3. printed = {} => Locks!R!Init
    BY DEF Locks!R!Init, Locks!arrived, Locks!departed
  <2> QED BY <2>1, <2>2, <2>3, SmallInit
<1>1. CASE started = "queue" /\ Init
  <2>1. Queue(<<head>>) /\ Chain = <<head>>
    BY <1>1, OneNode, QueueIsChain
  <2>2. IInv
    BY <1>1, <2>1, OneNode DEF IInv
  <2> QED BY <1>0, <1>1, <2>1, <2>2 DEF ProgramInv, Q!Init
<1>2. CASE started = "list" /\ Linked!Init
  <2>1. LinkedTypes /\ OnTheList /\ Linked!LocksOwned /\ AllOf(<<head>>) /\ Linked!Chain = <<head>>
    BY <1>2, LinkedInit, AllOfIsChain
  <2>2. LinkedInv
    BY <1>2, LinkedInit, AllOfIsChain DEF LinkedInv
  <2>3. Chain = <<head>>
    BY <2>1, ChainIsLinked, Zenon
  <2> QED BY <1>0, <1>2, <2>2, <2>3 DEF ProgramInv, Q!Init
<1>3. CASE started \in {"locks", "sloppy"} /\ NoHeap
  <2>1. next[head] = NULL
    BY <1>3 DEF NoHeap
  <2>2. Chain = <<head>>
    BY <2>1, NoWalk, ChainIsWalk
  <2>3. started = "sloppy" => SloppyInv
    BY SloppyStart, ParametersAssumption DEF Start
  <2> QED BY <1>0, <1>3, <2>2, <2>3 DEF ProgramInv, Q!Init
<1> QED BY <1>1, <1>2, <1>3 DEF Start

LEMMA ProgramStep ==
    ASSUME ProgramInv, [Steps]_allVars
    PROVE  ProgramInv' /\ [Q!Next]_(Tail(Chain)) /\ [Locks!R!Next]_Locks!R!vars
<1>0. ASSUME started # "locks", UNCHANGED <<started, printed>>
      PROVE  IF started' = "locks" THEN SmallInv' ELSE printed' = {} /\ UNCHANGED Locks!R!vars
  BY <1>0 DEF ProgramInv, Locks!R!vars, Locks!arrived, Locks!departed
<1>1. CASE UNCHANGED <<started, head, next>>
           /\ (started = "locks" => [Locks!Next]_Locks!vars)
           /\ (started # "locks" => UNCHANGED printed)
           /\ (started = "queue" => UNCHANGED vars)
           /\ (started = "list" => UNCHANGED Linked!vars)
           /\ (started = "sloppy" => [Sloppy!Next]_Sloppy!vars)
  <2>1. started = "queue" => IInv'
    BY <1>1, NextStep DEF ProgramInv
  <2>2. started = "list" => LinkedInv'
    BY <1>1, LinkedStep DEF ProgramInv
  <2>3. started = "sloppy" => SloppyInv'
    BY <1>1, SloppyNextStep, ParametersAssumption DEF ProgramInv
  <2>4. Chain' = Chain
    BY <1>1, ChainIsWalk
  <2>5. CASE started = "locks"
    <3>1. SmallInv' /\ [Locks!R!Next]_Locks!R!vars
      BY <1>1, <2>5, SmallStep DEF ProgramInv
    <3> QED BY <1>1, <2>4, <2>5, <3>1 DEF ProgramInv
  <2>6. CASE started # "locks"
    BY <1>0, <1>1, <2>1, <2>2, <2>3, <2>4, <2>6 DEF ProgramInv
  <2> QED BY <2>5, <2>6
<1>2. CASE QueueStep
  <2>1. started = "queue" /\ started' = "queue" /\ IInv /\ [Next]_vars
    BY <1>2 DEF QueueStep, ProgramInv
  <2>3. UNCHANGED printed
    BY <1>2 DEF QueueStep, lockVars
  <2>2. IInv' /\ [Q!Next]_(Tail(Chain))
    BY <2>1, NextStep, QueueStepIsFifo
  <2> QED BY <1>0, <2>1, <2>2, <2>3 DEF ProgramInv
<1>3. CASE ListStep
  <2>1. started = "list" /\ started' = "list" /\ LinkedInv /\ [Linked!Next]_Linked!vars
    BY <1>3 DEF ListStep, ProgramInv
  <2>4. UNCHANGED printed
    BY <1>3 DEF ListStep, lockVars
  <2>2. LinkedInv' /\ [Linked!Q!Next]_(Tail(Linked!Chain))
    BY <2>1, LinkedStep, LinkedStepIsFifo
  <2>3. [Q!Next]_(Tail(Chain))
    BY <2>2, ChainIsLinked DEF Linked!Q!Next, Linked!Q!Enqueue, Linked!Q!Dequeue, Linked!Q!Contents,
       Q!Next, Q!Enqueue, Q!Dequeue, Q!Contents
  <2> QED BY <1>0, <2>1, <2>2, <2>3, <2>4 DEF ProgramInv
<1>4. CASE SloppyStep
  <2>1. UNCHANGED <<started, head, next, printed>> /\ started = "sloppy" /\ Sloppy!Next
    BY <1>4 DEF SloppyStep, heapVars, lockVars
  <2> QED BY <1>1, <2>1
<1>5. CASE LockStep
  <2>1. UNCHANGED <<started, head, next>> /\ started = "locks" /\ Locks!Next
    BY <1>5 DEF LockStep, heapVars
  <2> QED BY <1>1, <2>1
<1>6. CASE UNCHANGED allVars
  <2>1. UNCHANGED <<started, head, next, printed>>
    BY <1>6 DEF allVars, heapVars, lockVars
  <2>2. UNCHANGED vars
    BY <1>6 DEF allVars, shared, heapVars, queueVars, vars, locals, heap, locks
  <2>3. UNCHANGED Linked!vars
    BY <1>6 DEF allVars, shared, heapVars, listVars, Linked!vars
  <2>4. UNCHANGED Sloppy!vars
    BY <1>6 DEF allVars, shared, sloppyVars, Sloppy!vars, Sloppy!counter, Sloppy!mainVars
  <2>5. UNCHANGED Locks!vars
    BY <1>6 DEF allVars, lockVars, Locks!vars, Locks!data, Locks!flag
  <2> QED BY <1>1, <2>1, <2>2, <2>3, <2>4, <2>5
<1> QED BY <1>2, <1>3, <1>4, <1>5, <1>6 DEF Steps

LEMMA ProgramInvariance == Programs => []ProgramInv
<1>1. Start => ProgramInv
  BY ProgramStart
<1>2. ProgramInv /\ [Steps]_allVars => ProgramInv'
  BY ProgramStep
<1> QED BY <1>1, <1>2, PTL DEF Programs

\* Whichever program runs: nothing that queue.c, linked-list.c or
\* sloppy-counter.c has been given is lost or there twice.
THEOREM ProgramsLoseNothing == Programs => []NothingLost
<1>1. ProgramInv => NothingLost
  BY HeapIsKept, AllNodesLinked, NoIncrementDropped DEF ProgramInv, NothingLost, LinkedInv
<1> QED BY <1>1, ProgramInvariance, PTL

\* Whichever program runs: what sloppy-counter.c prints is too little by a
\* bounded amount.
THEOREM ProgramsAreSloppy == Programs => []Sloppiness
<1>1. ProgramInv => Sloppiness
  BY NoIncrementDropped, SlopBounded, ParametersAssumption DEF ProgramInv, Sloppiness
<1> QED BY <1>1, ProgramInvariance, PTL

\* Whichever program runs: main-race.c and simple-counter.c print the number of
\* their increments, and main-signal.c, main-signal-cv.c and fork-join.c print in
\* the order that their texts announce.
THEOREM ProgramsPrintTrue == Programs => []PrintsTrue
<1>1. ProgramInv => PrintsTrue
  BY CountersAreExact, InOrderKept DEF ProgramInv, PrintsTrue, SmallInv
<1> QED BY <1>1, ProgramInvariance, PTL

\* The children of rendezvous.c print "before", both of them, before either
\* prints "after": they are a Rendezvous (lines 7-8).
THEOREM ProgramsMeet == Programs => Meets
<1>1. Start => Locks!R!Init
  BY ProgramStart
<1>2. ProgramInv /\ [Steps]_allVars => [Locks!R!Next]_Locks!R!vars
  BY ProgramStep
<1> QED BY <1>1, <1>2, ProgramInvariance, PTL DEF Programs, Meets, Locks!Meets, Locks!R!Spec

\* The nodes of queue.c and of linked-list.c change like a queue.
THEOREM ProgramsQueue == Programs => IsQueue
<1>1. Start => Q!Init
  BY ProgramStart
<1>2. ProgramInv /\ [Steps]_allVars => [Q!Next]_(Tail(Chain))
  BY ProgramStep
<1> QED BY <1>1, <1>2, ProgramInvariance, PTL DEF Programs, IsQueue, Implements, Q!Spec

=============================================================================
