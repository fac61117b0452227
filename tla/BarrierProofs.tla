---------------------------- MODULE BarrierProofs ----------------------------
(***************************************************************************)
(* The safety of barrier.c for any finite set of children, and that it     *)
(* implements Rendezvous.                                                  *)
(***************************************************************************)
EXTENDS Barrier, ThreadLabelsProofs

\* The semaphore mutex is 1, or one child is between sem_wait and sem_post.
MutexHeld ==
    /\ mutex \in {0, 1}
    /\ \A s, t \in At({"count"}) : s = t
    /\ At({"count"}) # {} => mutex = 0

IInv == TypeOK /\ MutexHeld /\ CountExact /\ StaysOpen /\ OpensLate /\ NotForgotten

-----------------------------------------------------------------------------
-----------------------------------------------------------------------------
LEMMA InitIInv == Init => IInv
<1> SUFFICES ASSUME Init PROVE IInv
  OBVIOUS
<1>1. \A L : At(L) = IF "new" \in L THEN Threads ELSE {}
  BY DEF Init, At
<1>2. Cardinality({}) = 0 /\ Cardinality(Threads) \in Nat /\ Threads # {}
  BY FS_EmptySet, CountsAreNatural, BarrierAssumption
<1>3. TypeOK /\ MutexHeld
  BY <1>1 DEF Init, TypeOK, MutexHeld, Labels
<1>4. CountExact /\ StaysOpen
  BY <1>1, <1>2 DEF Init, CountExact, StaysOpen, Uncounted, Through, Labels
<1>5. OpensLate /\ NotForgotten
  BY <1>1, <1>2 DEF Init, OpensLate, NotForgotten, Uncounted, Through
<1> QED BY <1>3, <1>4, <1>5 DEF IInv

LEMMA TypeStep == TypeOK /\ [Next]_vars => TypeOK'
<1> SUFFICES ASSUME TypeOK, [Next]_vars PROVE TypeOK'
  OBVIOUS
<1> USE DEF TypeOK, Labels, Goto
<1>1. CASE UNCHANGED vars \/ Main
  BY <1>1 DEF vars, Main, Create, JoinAll
<1>2. ASSUME NEW t \in Threads, Child(t) PROVE TypeOK'
  <2>1. CASE Before(t) \/ LockCount(t) \/ Count(t) \/ Check(t)
    BY <2>1 DEF Before, LockCount, Count, Check, Wait, Post
  <2>2. CASE Open(t) \/ WaitBarrier(t) \/ PassOn(t)
    BY <2>2 DEF Open, WaitBarrier, PassOn, Wait, Post
  <2> QED BY <1>2, <2>1, <2>2 DEF Child
<1> QED BY <1>1, <1>2 DEF Next, Terminated

LEMMA MutexStep == TypeOK /\ MutexHeld /\ [Next]_vars => MutexHeld'
<1> SUFFICES ASSUME TypeOK, MutexHeld, [Next]_vars PROVE MutexHeld'
  OBVIOUS
<1> USE DEF TypeOK, MutexHeld, At, Goto
<1>1. CASE UNCHANGED vars \/ Main
  BY <1>1 DEF vars, Main, Create, JoinAll
<1>2. ASSUME NEW t \in Threads, Child(t) PROVE MutexHeld'
  <2>1. CASE LockCount(t) \/ Count(t)
    BY <2>1 DEF LockCount, Count, Wait, Post
  <2>2. CASE Before(t) \/ Check(t) \/ Open(t) \/ WaitBarrier(t) \/ PassOn(t)
    BY <2>2 DEF Before, Check, Open, WaitBarrier, PassOn
  <2> QED BY <1>2, <2>1, <2>2 DEF Child
<1> QED BY <1>1, <1>2 DEF Next, Terminated

-----------------------------------------------------------------------------
\* Every child that is not counted yet is somewhere before its count++, and
\* the barrier's value is bounded by the children that can still post it.
Counting == CountExact /\ StaysOpen

LEMMA CountingStep == IInv /\ [Next]_vars => Counting'
<1> SUFFICES ASSUME IInv, [Next]_vars PROVE Counting'
  OBVIOUS
<1>1. \A s, t \in At({"count"})' : s = t
  BY MutexStep DEF IInv, MutexHeld
<1>2. TypeOK /\ Counting
  BY DEF IInv, Counting
<1>3. CASE UNCHANGED vars \/ JoinAll
  BY <1>2, <1>3 DEF vars, JoinAll, At, Counting, CountExact, StaysOpen
\* The four counts the invariants speak of, and how they move.
<1> DEFINE Posters == Labels \ {"wait", "after"}
           Moved(from, to, L) == Cardinality(At(L)') = Cardinality(At(L))
                 + (IF to \in L THEN 1 ELSE 0) - (IF from \in L THEN 1 ELSE 0)
           AllMoved(from, to) ==
             /\ Moved(from, to, Uncounted) /\ Moved(from, to, Through)
             /\ Moved(from, to, {"pass"}) /\ Moved(from, to, Posters)
<1>4. ASSUME NEW t \in Threads, NEW from, NEW to, Goto(t, from, to)
      PROVE  AllMoved(from, to)
  <2>1. ASSUME NEW L PROVE Moved(from, to, L)
    BY <1>2, <1>4, MoveCounts DEF TypeOK
  <2> QED BY <2>1
<1>5. /\ Cardinality(Threads) \in Nat
      /\ Cardinality(At(Uncounted)) \in Nat /\ Cardinality(At(Through)) \in Nat
      /\ Cardinality(At({"pass"})) \in Nat /\ Cardinality(At(Posters)) \in Nat
      /\ Cardinality(At(Through)) = 0 <=> At(Through) = {}
      /\ Cardinality(At(Through)') = 0 <=> At(Through)' = {}
  BY CountsAreNatural
<1> USE <1>1, <1>2, <1>5
    DEF Counting, CountExact, StaysOpen, Uncounted, Through, Labels, TypeOK
<1>6. ASSUME NEW t \in Threads, Create(t) PROVE Counting'
  <2>1. AllMoved("new", "before")
    BY ONLY <1>4, <1>6 DEF Create
  <2> QED BY <2>1, <1>6 DEF Create
<1>7. ASSUME NEW t \in Threads, Before(t) PROVE Counting'
  <2>1. AllMoved("before", "arrive")
    BY ONLY <1>4, <1>7 DEF Before
  <2> QED BY <2>1, <1>7 DEF Before
<1>8. ASSUME NEW t \in Threads, LockCount(t) PROVE Counting'
  <2>1. AllMoved("arrive", "count")
    BY ONLY <1>4, <1>8 DEF LockCount
  <2> QED BY <2>1, <1>8 DEF LockCount
<1>9. ASSUME NEW t \in Threads, Count(t) PROVE Counting'
  <2>1. AllMoved("count", "check")
    BY ONLY <1>4, <1>9 DEF Count
  <2> QED BY <2>1, <1>9 DEF Count
<1>10. ASSUME NEW t \in Threads, Check(t) PROVE Counting'
  <2>1. AllMoved("check", IF count = Cardinality(Threads) THEN "open" ELSE "wait")
    BY ONLY <1>4, <1>10 DEF Check
  <2> QED BY <2>1, <1>10 DEF Check
<1>11. ASSUME NEW t \in Threads, Open(t) PROVE Counting'
  <2>1. AllMoved("open", "wait")
    BY ONLY <1>4, <1>11 DEF Open
  <2> QED BY <2>1, <1>11 DEF Open, Post
<1>12. ASSUME NEW t \in Threads, WaitBarrier(t) PROVE Counting'
  <2>1. AllMoved("wait", "pass")
    BY ONLY <1>4, <1>12 DEF WaitBarrier
  <2> QED BY <2>1, <1>12 DEF WaitBarrier, Wait
<1>13. ASSUME NEW t \in Threads, PassOn(t) PROVE Counting'
  <2>1. AllMoved("pass", "after")
    BY ONLY <1>4, <1>13 DEF PassOn
  <2> QED BY <2>1, <1>13 DEF PassOn, Post
<1> QED BY <1>3, <1>6, <1>7, <1>8, <1>9, <1>10, <1>11, <1>12, <1>13
        DEF Next, Main, Child, Terminated

LEMMA OpeningStep == IInv /\ [Next]_vars => OpensLate' /\ NotForgotten'
<1> SUFFICES ASSUME IInv, [Next]_vars PROVE OpensLate' /\ NotForgotten'
  OBVIOUS
<1>1. TypeOK /\ OpensLate /\ NotForgotten
  BY DEF IInv
<1>2. (count = Cardinality(Threads)) <=> (At(Uncounted) = {})
  BY CountsAreNatural DEF IInv, TypeOK, CountExact
<1> USE DEF TypeOK, OpensLate, NotForgotten, At, Uncounted, Through, Goto
<1>3. CASE UNCHANGED vars \/ Main
  BY <1>1, <1>3 DEF vars, Main, Create, JoinAll
<1>4. ASSUME NEW t \in Threads, Child(t) PROVE OpensLate' /\ NotForgotten'
  <2>1. CASE Before(t) \/ LockCount(t)
    BY <1>1, <2>1 DEF Before, LockCount
  <2>2. CASE Count(t)
    BY <1>1, <2>2 DEF Count
  <2>3. CASE Check(t)
    BY <1>1, <1>2, <2>3 DEF Check
  <2>4. CASE Open(t) \/ WaitBarrier(t) \/ PassOn(t)
    BY <1>1, <2>4 DEF Open, WaitBarrier, PassOn, Wait, Post
  <2> QED BY <1>4, <2>1, <2>2, <2>3, <2>4 DEF Child
<1> QED BY <1>3, <1>4 DEF Next, Terminated

-----------------------------------------------------------------------------
LEMMA IInvStep == IInv /\ [Next]_vars => IInv'
BY TypeStep, MutexStep, CountingStep, OpeningStep DEF IInv, Counting

THEOREM Invariance == Spec => []IInv
BY InitIInv, IInvStep, PTL DEF Spec

\* The barrier opens only after the last count++ (lines 45-49), for any number
\* of children.
THEOREM OpensOnlyLate == Spec => []OpensLate
<1>1. IInv => OpensLate
  BY DEF IInv
<1> QED BY <1>1, Invariance, PTL

\* The unlocked comparison of line 47 loses no wake-up.
THEOREM NoLostWakeUp == Spec => []NotForgotten
<1>1. IInv => NotForgotten
  BY DEF IInv
<1> QED BY <1>1, Invariance, PTL

\* The post of line 52 keeps the barrier open, and its value bounded.
THEOREM BarrierStaysOpen == Spec => []StaysOpen
<1>1. IInv => StaysOpen
  BY DEF IInv
<1> QED BY <1>1, Invariance, PTL

\* No arrival is lost (lines 44-46).
THEOREM CountIsExact == Spec => []CountExact
<1>1. IInv => CountExact
  BY DEF IInv
<1> QED BY <1>1, Invariance, PTL

\* All of it, for any number of children.
THEOREM BarrierIsSafe == Spec => []BarrierSafe
<1>1. IInv => BarrierSafe
  BY DEF IInv, BarrierSafe
<1> QED BY <1>1, Invariance, PTL

-----------------------------------------------------------------------------
\* Every step of the program is a step of Rendezvous or leaves it alone.
LEMMA StepImplements == IInv /\ [Next]_vars => [R!Next]_(R!vars)
<1> SUFFICES ASSUME IInv, [Next]_vars PROVE [R!Next]_(R!vars)
  OBVIOUS
<1>1. TypeOK /\ OpensLate
  BY DEF IInv
<1> USE DEF TypeOK, At, Goto, Labels, arrived, departed, R!vars
<1>2. CASE UNCHANGED vars \/ Main
  BY <1>1, <1>2 DEF vars, Main, Create, JoinAll
<1>3. ASSUME NEW t \in Threads, Child(t) PROVE [R!Next]_(R!vars)
  <2>1. CASE Before(t)
    <3>1. R!Arrive(t)
      BY <1>1, <2>1 DEF Before, R!Arrive
    <3> QED BY <3>1 DEF R!Next
  <2>2. CASE PassOn(t)
    \* Somebody is through, so everybody has arrived.
    <3>1. arrived = Threads
      BY <1>1, <2>2 DEF PassOn, OpensLate, Uncounted, Through
    <3>2. R!Depart(t)
      BY <1>1, <2>2, <3>1 DEF PassOn, R!Depart
    <3> QED BY <3>2 DEF R!Next
  <2>3. CASE LockCount(t) \/ Count(t) \/ Check(t) \/ Open(t) \/ WaitBarrier(t)
    BY <1>1, <2>3 DEF LockCount, Count, Check, Open, WaitBarrier
  <2> QED BY <1>3, <2>1, <2>2, <2>3 DEF Child
<1> QED BY <1>2, <1>3 DEF Next, Terminated

\* No child prints "after" before every child has printed "before" (the
\* comment at lines 11-12), for any number of children.
THEOREM BarrierImplementsRendezvous == Spec => Implements
<1>1. Init => R!Init
  BY DEF Init, R!Init, arrived, departed, At
<1> QED BY <1>1, StepImplements, Invariance, PTL DEF Spec, Implements, R!Spec
=============================================================================
