-------------------------- MODULE ReaderWriterProofs --------------------------
(***************************************************************************)
(* The safety of reader-writer.c for any finite sets of readers and        *)
(* writers and any number of loops, and that it implements RWLock.  Then   *)
(* reader-writer-nostarve.c implements reader-writer.c, so that all of it  *)
(* holds there too; what its turnstile adds is that no reader overtakes a  *)
(* waiting writer twice.                                                   *)
(***************************************************************************)
EXTENDS ReaderWriterClients, ThreadLabelsProofs

\* The semaphore mutex is 1, or one reader is in a section it protects.
MutexHeld ==
    /\ mutex \in {0, 1}
    /\ \A s, t \in At({"count", "first", "uncount"}) : s = t /\ mutex = 0

OneWriter == \A s, t \in Writing : s = t

IInv ==
    /\ TypeOK /\ MutexHeld /\ ReadersExact
    /\ OneSide /\ OneWriter /\ FirstWaitsForWriters

\* The readers that are counted in readers, and the labels of a writer inside.
InLabels == {"first", "read", "leave", "uncount"}
WriteLabels == {"load", "store", "print", "wrelease"}

-----------------------------------------------------------------------------
LEMMA InitIInv == Init => IInv
<1> SUFFICES ASSUME Init PROVE IInv
  OBVIOUS
<1>1. \A L : "new" \notin L => At(L) = {}
  BY DEF Init, At
<1>2. Cardinality({}) = 0
  BY FS_EmptySet
<1>3. TypeOK
  BY ReaderWriterAssumption DEF Init, TypeOK, Labels, ReaderLabels, WriterLabels, At
<1>4. MutexHeld /\ ReadersExact /\ OneSide /\ OneWriter /\ FirstWaitsForWriters
  BY <1>1, <1>2 DEF Init, MutexHeld, ReadersExact, OneSide, OneWriter,
                   FirstWaitsForWriters, Reading, Writing
<1> QED BY <1>3, <1>4 DEF IInv

LEMMA TypeStep == TypeOK /\ [Next]_vars => TypeOK'
<1> SUFFICES ASSUME TypeOK, [Next]_vars PROVE TypeOK'
  OBVIOUS
<1> USE ReaderWriterAssumption
    DEF TypeOK, Labels, ReaderLabels, WriterLabels, Readers, Goto, At, locks, data
<1>1. CASE UNCHANGED vars \/ JoinAll
  BY <1>1 DEF vars, JoinAll
<1>2. ASSUME NEW t \in Threads, BeginRead(t) \/ BeginWrite(t) \/ Finish(t) \/ Create(t)
      PROVE  TypeOK'
  BY <1>2 DEF BeginRead, BeginWrite, Finish, Create
<1>3. ASSUME NEW t \in Threads, ReadSection(t) PROVE TypeOK'
  <2>1. CASE LockReaders(t) \/ CountIn(t) \/ TakeWritelock(t)
    BY <2>1 DEF LockReaders, CountIn, TakeWritelock, Wait, Post
  <2>2. CASE Read(t) \/ LockLeave(t)
    BY <2>2 DEF Read, LockLeave, Wait
  <2>3. CASE Leave(t)
    BY <2>3 DEF Leave, Post
  <2> QED BY <1>3, <2>1, <2>2, <2>3 DEF ReadSection
<1>4. ASSUME NEW t \in Threads, WriteSection(t) \/ PrintValue(t) PROVE TypeOK'
  <2>1. CASE AcquireWrite(t) \/ Load(t) \/ Store(t) \/ PrintValue(t)
    BY <2>1 DEF AcquireWrite, Load, Store, PrintValue, Wait
  <2>2. CASE ReleaseWrite(t)
    BY <2>2 DEF ReleaseWrite, Post
  <2> QED BY <1>4, <2>1, <2>2 DEF WriteSection
<1> QED BY <1>1, <1>2, <1>3, <1>4 DEF Next, Main, Thread, Terminated

-----------------------------------------------------------------------------
LEMMA MutexStep == TypeOK /\ MutexHeld /\ [Next]_vars => MutexHeld'
<1> SUFFICES ASSUME TypeOK, MutexHeld, [Next]_vars PROVE MutexHeld'
  OBVIOUS
<1> USE DEF TypeOK, MutexHeld, Goto, At, locks
<1>1. CASE UNCHANGED vars \/ JoinAll
  BY <1>1 DEF vars, JoinAll
<1>2. ASSUME NEW t \in Threads, BeginRead(t) \/ BeginWrite(t) \/ Finish(t) \/ Create(t)
      PROVE  MutexHeld'
  BY <1>2 DEF BeginRead, BeginWrite, Finish, Create
<1>3. ASSUME NEW t \in Threads, ReadSection(t) PROVE MutexHeld'
  <2>1. CASE LockReaders(t) \/ CountIn(t)
    BY <2>1 DEF LockReaders, CountIn, Wait, Post
  <2>2. CASE TakeWritelock(t) \/ Read(t)
    BY <2>2 DEF TakeWritelock, Read, Post
  <2>3. CASE LockLeave(t) \/ Leave(t)
    BY <2>3 DEF LockLeave, Leave, Wait, Post
  <2> QED BY <1>3, <2>1, <2>2, <2>3 DEF ReadSection
<1>4. ASSUME NEW t \in Threads, WriteSection(t) \/ PrintValue(t) PROVE MutexHeld'
  BY <1>4 DEF WriteSection, AcquireWrite, Load, Store, PrintValue, ReleaseWrite
<1> QED BY <1>1, <1>2, <1>3, <1>4 DEF Next, Main, Thread, Terminated

-----------------------------------------------------------------------------
\* How the number of threads at the labels L changes in a move.
Moved(L, from, to) ==
    Cardinality(At(L)') = Cardinality(At(L))
        + (IF to \in L THEN 1 ELSE 0) - (IF from \in L THEN 1 ELSE 0)

LEMMA BothMoved ==
    ASSUME TypeOK, NEW t \in Threads, NEW from, NEW to, Goto(t, from, to)
    PROVE  Moved(InLabels, from, to) /\ Moved(WriteLabels, from, to)
<1>1. pc \in [Threads -> Labels]
  BY DEF TypeOK
<1>2. ASSUME NEW L PROVE Moved(L, from, to)
  BY <1>1, MoveCounts DEF Moved
<1> QED BY <1>2

\* Who is inside, as far as readers and writelock can tell.
Inside == ReadersExact /\ OneSide /\ OneWriter /\ FirstWaitsForWriters

LEMMA InsideStep == IInv /\ [Next]_vars => Inside'
<1> SUFFICES ASSUME IInv, [Next]_vars PROVE Inside'
  OBVIOUS
<1>1. MutexHeld' /\ MutexHeld /\ TypeOK /\ Inside
  BY MutexStep DEF IInv, Inside
<1>2. /\ Cardinality(At(InLabels)) \in Nat /\ Cardinality(At(WriteLabels)) \in Nat
      /\ Cardinality(At(InLabels)) = 0 <=> At(InLabels) = {}
      /\ Cardinality(At(InLabels)') = 0 <=> At(InLabels)' = {}
      /\ Cardinality(At(WriteLabels)) = 0 <=> At(WriteLabels) = {}
      /\ Cardinality(At(WriteLabels)') = 0 <=> At(WriteLabels)' = {}
  BY CountsAreNatural
<1> USE DEF Inside, ReadersExact, OneSide, OneWriter, FirstWaitsForWriters,
            Reading, Writing, InLabels, WriteLabels, MutexHeld, locks, Moved
<1>3. CASE UNCHANGED vars \/ JoinAll
  BY <1>1, <1>3 DEF vars, JoinAll, At
<1>4. ASSUME NEW t \in Threads, BeginRead(t) PROVE Inside'
  <2>1. Goto(t, "idle", "entry")
    BY <1>4 DEF BeginRead
  <2>2. Moved(InLabels, "idle", "entry") /\ Moved(WriteLabels, "idle", "entry")
    BY ONLY <1>1, <2>1, BothMoved
  <2> QED BY <1>1, <1>2, <2>1, <2>2, <1>4 DEF BeginRead, At, Goto, TypeOK
<1>5. ASSUME NEW t \in Threads, BeginWrite(t) PROVE Inside'
  <2>1. Goto(t, "idle", "wentry")
    BY <1>5 DEF BeginWrite
  <2>2. Moved(InLabels, "idle", "wentry") /\ Moved(WriteLabels, "idle", "wentry")
    BY ONLY <1>1, <2>1, BothMoved
  <2> QED BY <1>1, <1>2, <2>1, <2>2, <1>5 DEF BeginWrite, At, Goto, TypeOK
<1>6. ASSUME NEW t \in Threads, Finish(t) PROVE Inside'
  <2>1. Goto(t, "idle", "after")
    BY <1>6 DEF Finish
  <2>2. Moved(InLabels, "idle", "after") /\ Moved(WriteLabels, "idle", "after")
    BY ONLY <1>1, <2>1, BothMoved
  <2> QED BY <1>1, <1>2, <2>1, <2>2, <1>6 DEF Finish, At, Goto, TypeOK
<1>7. ASSUME NEW t \in Threads, Create(t) PROVE Inside'
  <2>1. Goto(t, "new", "idle")
    BY <1>7 DEF Create
  <2>2. Moved(InLabels, "new", "idle") /\ Moved(WriteLabels, "new", "idle")
    BY ONLY <1>1, <2>1, BothMoved
  <2> QED BY <1>1, <1>2, <2>1, <2>2, <1>7 DEF Create, At, Goto, TypeOK
<1>8. ASSUME NEW t \in Threads, LockReaders(t) PROVE Inside'
  <2>1. Goto(t, "entry", "count")
    BY <1>8 DEF LockReaders
  <2>2. Moved(InLabels, "entry", "count") /\ Moved(WriteLabels, "entry", "count")
    BY ONLY <1>1, <2>1, BothMoved
  <2> QED BY <1>1, <1>2, <2>1, <2>2, <1>8 DEF LockReaders, Wait, At, Goto, TypeOK
<1>9. ASSUME NEW t \in Threads, TakeWritelock(t) PROVE Inside'
  <2>1. Goto(t, "first", "read")
    BY <1>9 DEF TakeWritelock
  <2>2. Moved(InLabels, "first", "read") /\ Moved(WriteLabels, "first", "read")
    BY ONLY <1>1, <2>1, BothMoved
  <2> QED BY <1>1, <1>2, <2>1, <2>2, <1>9 DEF TakeWritelock, Wait, Post, At, Goto, TypeOK
<1>10. ASSUME NEW t \in Threads, Read(t) PROVE Inside'
  <2>1. Goto(t, "read", "leave")
    BY <1>10 DEF Read
  <2>2. Moved(InLabels, "read", "leave") /\ Moved(WriteLabels, "read", "leave")
    BY ONLY <1>1, <2>1, BothMoved
  <2> QED BY <1>1, <1>2, <2>1, <2>2, <1>10 DEF Read, At, Goto, TypeOK
<1>11. ASSUME NEW t \in Threads, LockLeave(t) PROVE Inside'
  <2>1. Goto(t, "leave", "uncount")
    BY <1>11 DEF LockLeave
  <2>2. Moved(InLabels, "leave", "uncount") /\ Moved(WriteLabels, "leave", "uncount")
    BY ONLY <1>1, <2>1, BothMoved
  <2> QED BY <1>1, <1>2, <2>1, <2>2, <1>11 DEF LockLeave, Wait, At, Goto, TypeOK
<1>12. ASSUME NEW t \in Threads, Leave(t) PROVE Inside'
  <2>1. Goto(t, "uncount", "idle")
    BY <1>12 DEF Leave
  <2>2. Moved(InLabels, "uncount", "idle") /\ Moved(WriteLabels, "uncount", "idle")
    BY ONLY <1>1, <2>1, BothMoved
  \* t holds mutex, so nobody is the first reader.
  <2>3. At({"first"}) = {} /\ At({"first"})' = {} /\ t \in Reading
    BY <1>1, <2>1 DEF At, Goto, TypeOK
  <2>4. readers' = Cardinality(At(InLabels)') /\ readers' = readers - 1
    BY <1>1, <1>2, <2>2, <1>12 DEF Leave
  <2>5. writelock + Cardinality(At(WriteLabels)) = 0
        /\ At(WriteLabels) = {} /\ At(WriteLabels)' = {} /\ writelock = 0
    <3>1. writelock \in Nat /\ writelock + Cardinality(At(WriteLabels)) + 1 = 1
      BY <1>1, <2>3 DEF TypeOK
    <3>2. Cardinality(At(WriteLabels)) = 0 /\ writelock = 0
      BY <1>2, <3>1
    <3> QED BY <1>2, <2>2, <3>1, <3>2
  <2>6. CASE readers' = 0
    <3>1. At(InLabels)' = {}
      BY <1>2, <2>4, <2>6
    <3>2. Reading' = {}
      BY <3>1 DEF At
    <3>3. writelock' = 1
      BY <2>5, <2>6, <1>12 DEF Leave, Post
    <3> QED BY <1>1, <1>2, <2>2, <2>3, <2>4, <2>5, <3>2, <3>3
  <2>7. CASE readers' # 0
    <3>1. Reading' # {} /\ writelock' = 0
      BY <1>2, <2>3, <2>4, <2>5, <2>7, <1>12 DEF Leave, At
    <3> QED BY <1>1, <1>2, <2>2, <2>3, <2>4, <2>5, <3>1
  <2> QED BY <2>6, <2>7
<1>13. ASSUME NEW t \in Threads, AcquireWrite(t) PROVE Inside'
  <2>1. Goto(t, "wentry", "load")
    BY <1>13 DEF AcquireWrite
  <2>2. Moved(InLabels, "wentry", "load") /\ Moved(WriteLabels, "wentry", "load")
    BY ONLY <1>1, <2>1, BothMoved
  <2> QED BY <1>1, <1>2, <2>1, <2>2, <1>13 DEF AcquireWrite, Wait, At, Goto, TypeOK
<1>14. ASSUME NEW t \in Threads, Load(t) PROVE Inside'
  <2>1. Goto(t, "load", "store")
    BY <1>14 DEF Load
  <2>2. Moved(InLabels, "load", "store") /\ Moved(WriteLabels, "load", "store")
    BY ONLY <1>1, <2>1, BothMoved
  <2> QED BY <1>1, <1>2, <2>1, <2>2, <1>14 DEF Load, At, Goto, TypeOK
<1>15. ASSUME NEW t \in Threads, Store(t) PROVE Inside'
  <2>1. Goto(t, "store", "print")
    BY <1>15 DEF Store
  <2>2. Moved(InLabels, "store", "print") /\ Moved(WriteLabels, "store", "print")
    BY ONLY <1>1, <2>1, BothMoved
  <2> QED BY <1>1, <1>2, <2>1, <2>2, <1>15 DEF Store, At, Goto, TypeOK
<1>16. ASSUME NEW t \in Threads, PrintValue(t) PROVE Inside'
  <2>1. Goto(t, "print", "wrelease")
    BY <1>16 DEF PrintValue
  <2>2. Moved(InLabels, "print", "wrelease") /\ Moved(WriteLabels, "print", "wrelease")
    BY ONLY <1>1, <2>1, BothMoved
  <2> QED BY <1>1, <1>2, <2>1, <2>2, <1>16 DEF PrintValue, At, Goto, TypeOK
<1>17. ASSUME NEW t \in Threads, ReleaseWrite(t) PROVE Inside'
  <2>1. Goto(t, "wrelease", "idle")
    BY <1>17 DEF ReleaseWrite
  <2>2. Moved(InLabels, "wrelease", "idle") /\ Moved(WriteLabels, "wrelease", "idle")
    BY ONLY <1>1, <2>1, BothMoved
  <2> QED BY <1>1, <1>2, <2>1, <2>2, <1>17 DEF ReleaseWrite, Post, At, Goto, TypeOK
<1>18. ASSUME NEW t \in Threads, CountIn(t) PROVE Inside'
  <2>1. pc[t] = "count" /\ At({"first"}) = {} /\ readers' = readers + 1
        /\ UNCHANGED writelock
    BY <1>1, <1>18 DEF CountIn, Goto, At
  <2>2. CASE readers' = 1
    <3>1. Goto(t, "count", "first")
      BY <2>2, <1>18 DEF CountIn
    <3>2. Moved(InLabels, "count", "first") /\ Moved(WriteLabels, "count", "first")
      BY ONLY <1>1, <3>1, BothMoved
    <3>3. Reading = {}
      BY <1>1, <1>2, <2>1, <2>2 DEF At, TypeOK
    <3> QED BY <1>1, <1>2, <2>1, <3>1, <3>2, <3>3 DEF At, Goto, TypeOK
  <2>3. CASE readers' # 1
    <3>1. Goto(t, "count", "read")
      BY <2>3, <1>18 DEF CountIn
    <3>2. Moved(InLabels, "count", "read") /\ Moved(WriteLabels, "count", "read")
      BY ONLY <1>1, <3>1, BothMoved
    \* The others that are counted are inside: t holds mutex.
    <3>3. Reading # {}
      BY <1>1, <1>2, <2>1, <2>3 DEF At, TypeOK
    <3>4. Reading' # {}
      BY <1>1, <3>1 DEF At, Goto, TypeOK
    <3> QED BY <1>1, <1>2, <2>1, <3>1, <3>2, <3>3, <3>4 DEF At, Goto, TypeOK
  <2> QED BY <2>2, <2>3
<1> QED BY <1>3, <1>4, <1>5, <1>6, <1>7, <1>8, <1>9, <1>10, <1>11, <1>12, <1>13, <1>14, <1>15, <1>16, <1>17, <1>18
        DEF Next, Main, Thread, ReadSection, WriteSection, Terminated

-----------------------------------------------------------------------------
LEMMA IInvStep == IInv /\ [Next]_vars => IInv'
BY TypeStep, MutexStep, InsideStep DEF IInv, Inside

THEOREM Invariance == Spec => []IInv
BY InitIInv, IInvStep, PTL DEF Spec

\* Types: in particular no semaphore ever becomes negative.
THEOREM TypeCorrect == Spec => []TypeOK
<1>1. IInv => TypeOK
  BY DEF IInv
<1> QED BY <1>1, Invariance, PTL

\* readers counts the readers that are in (lines 30 and 40).
THEOREM ReadersAreExact == Spec => []ReadersExact
<1>1. IInv => ReadersExact
  BY DEF IInv
<1> QED BY <1>1, Invariance, PTL

\* writelock is with one writer or with the readers (lines 32-34 and 42-44).
THEOREM OneSideOnly == Spec => []OneSide
<1>1. IInv => OneSide
  BY DEF IInv
<1> QED BY <1>1, Invariance, PTL

\* Keeping mutex while waiting for writelock locks no reader in (line 33).
THEOREM NoReaderLockedIn == Spec => []FirstWaitsForWriters
<1>1. IInv => FirstWaitsForWriters
  BY DEF IInv
<1> QED BY <1>1, Invariance, PTL

\* All of it, for every set of threads and number of rounds.
THEOREM LockIsSound == Spec => []LockSound
<1>1. IInv => LockSound
  BY DEF IInv, LockSound
<1> QED BY <1>1, Invariance, PTL

-----------------------------------------------------------------------------
\* Who may be inside together.
LEMMA Exclusion == IInv => /\ Reading # {} => Writing = {}
                           /\ writelock > 0 => Reading = {} /\ Writing = {}
<1> SUFFICES ASSUME IInv
             PROVE  /\ Reading # {} => Writing = {}
                    /\ writelock > 0 => Reading = {} /\ Writing = {}
  OBVIOUS
<1>1. Cardinality(Writing) \in Nat /\ (Cardinality(Writing) = 0 <=> Writing = {})
  BY CountsAreNatural DEF Writing
<1> QED BY <1>1 DEF IInv, TypeOK, OneSide

\* Every step of the program is a step of RWLock or leaves it alone.
LEMMA StepImplements == IInv /\ [Next]_vars => [RW!Next]_(RW!vars)
<1> SUFFICES ASSUME IInv, [Next]_vars PROVE [RW!Next]_(RW!vars)
  OBVIOUS
<1>1. /\ TypeOK /\ MutexHeld /\ OneWriter /\ FirstWaitsForWriters
      /\ Reading # {} => Writing = {}
      /\ writelock > 0 => Reading = {} /\ Writing = {}
  BY Exclusion DEF IInv
<1> USE DEF RW!vars, reading, writing, Reading, Writing, At, Goto, TypeOK
<1>2. CASE UNCHANGED vars \/ JoinAll
  BY <1>1, <1>2 DEF vars, JoinAll
<1>3. ASSUME NEW t \in Threads, BeginRead(t) \/ BeginWrite(t) \/ Finish(t) \/ Create(t)
      PROVE  UNCHANGED RW!vars
  BY <1>1, <1>3 DEF BeginRead, BeginWrite, Finish, Create
<1>4. ASSUME NEW t \in Threads, LockReaders(t) \/ Read(t) \/ LockLeave(t)
      PROVE  UNCHANGED RW!vars
  BY <1>1, <1>4 DEF LockReaders, Read, LockLeave
<1>5. ASSUME NEW t \in Threads, Load(t) \/ Store(t) \/ PrintValue(t)
      PROVE  UNCHANGED RW!vars
  BY <1>1, <1>5 DEF Load, Store, PrintValue
<1>6. ASSUME NEW t \in Threads, TakeWritelock(t) PROVE RW!BeginRead(t) /\ t \in Readers
  BY <1>1, <1>6 DEF TakeWritelock, Wait, RW!BeginRead, ReaderLabels
<1>7. ASSUME NEW t \in Threads, Leave(t) PROVE RW!EndRead(t) /\ t \in Readers
  BY <1>1, <1>7 DEF Leave, RW!EndRead, ReaderLabels
<1>8. ASSUME NEW t \in Threads, AcquireWrite(t) PROVE RW!BeginWrite(t) /\ t \in Writers
  BY <1>1, <1>8 DEF AcquireWrite, Wait, RW!BeginWrite, WriterLabels
<1>9. ASSUME NEW t \in Threads, ReleaseWrite(t) PROVE RW!EndWrite(t) /\ t \in Writers
  <2>1. t \in Writing /\ t \notin Writing' /\ t \in Writers
    BY <1>1, <1>9 DEF ReleaseWrite, WriterLabels, Labels
  <2>2. Writing = {t} /\ Writing' = {}
    BY <1>1, <1>9, <2>1 DEF ReleaseWrite, OneWriter
  <2>3. Reading' = Reading
    BY <1>1, <1>9 DEF ReleaseWrite
  <2> QED BY <2>1, <2>2, <2>3 DEF RW!EndWrite
<1>10. ASSUME NEW t \in Threads, CountIn(t)
       PROVE  (RW!BeginRead(t) /\ t \in Readers) \/ UNCHANGED RW!vars
  <2>1. CASE readers' = 1
    BY <1>1, <1>10, <2>1 DEF CountIn
  <2>2. CASE readers' # 1
    \* readers was not 0, and t holds mutex: somebody is reading.
    <3>1. At(InLabels) # {}
      BY <1>10, <2>2, CountsAreNatural DEF CountIn, IInv, ReadersExact, InLabels
    <3>2. Writing = {}
      BY <1>1, <1>10, <3>1 DEF CountIn, MutexHeld, InLabels
    <3> QED BY <1>1, <1>10, <2>2, <3>2 DEF CountIn, RW!BeginRead, ReaderLabels
  <2> QED BY <2>1, <2>2
<1> QED BY <1>2, <1>3, <1>4, <1>5, <1>6, <1>7, <1>8, <1>9, <1>10
        DEF Next, Main, Thread, ReadSection, WriteSection, Terminated, RW!Next

\* Any number of readers, one writer, never both (the comment at lines 10-11),
\* for any numbers of threads and loops.
THEOREM ReaderWriterImplementsRWLock == Spec => Implements
<1>1. Init => RW!Init
  BY DEF Init, RW!Init, reading, writing, Reading, Writing, At
<1> QED BY <1>1, StepImplements, Invariance, PTL DEF Spec, Implements, RW!Spec

-----------------------------------------------------------------------------
(* The value *)

\* How often w has written: a write counts from the store on.
Done(w) == i[w] + (IF pc[w] \in {"print", "wrelease"} THEN 1 ELSE 0)

\* The writes so far, each with its place in its writer's loop.
Writes == {p \in (0..(Loops - 1)) \X Writers : p[1] < Done(p[2])}

Counted ==
    /\ value = Cardinality(Writes)
    /\ \A t \in At({"store"}) : reg[t] = value
    /\ \A t \in At({"after"}) : i[t] = Loops
    /\ main = "ended" => \A t \in Threads : pc[t] = "after"

LEMMA WritesFinite == IsFiniteSet(Writes)
<1>1. IsFiniteSet(0..(Loops - 1)) /\ IsFiniteSet(Writers)
  BY FS_Interval, FS_Subset, ThreadsAssumption, ReaderWriterAssumption
<1>2. IsFiniteSet((0..(Loops - 1)) \X Writers)
  BY <1>1, FS_Product
<1> QED BY <1>2, FS_Subset DEF Writes

LEMMA CountedStep == IInv /\ Counted /\ [Next]_vars => Counted'
<1> SUFFICES ASSUME IInv, Counted, [Next]_vars PROVE Counted'
  OBVIOUS
<1>1. TypeOK /\ OneWriter
  BY DEF IInv
<1> USE ReaderWriterAssumption
\* A step that leaves every writer where it was, as far as its writes go.
<1>2. ASSUME UNCHANGED value, \A w \in Writers : Done(w)' = Done(w),
             \A t \in At({"store"})' : reg'[t] = value,
             \A t \in At({"after"})' : i'[t] = Loops,
             main' = "ended" => \A t \in Threads : pc'[t] = "after"
      PROVE  Counted'
  <2>1. Writes' = Writes
    BY <1>2 DEF Writes
  <2> QED BY <1>2, <2>1 DEF Counted
<1> USE DEF Goto, At, locks, data
<1>3. CASE UNCHANGED vars \/ JoinAll
  BY <1>2, <1>3 DEF vars, JoinAll, Counted, Done
<1>4. ASSUME NEW t \in Threads, BeginRead(t) \/ BeginWrite(t) \/ Finish(t) \/ Create(t)
      PROVE  Counted'
  BY <1>1, <1>2, <1>4 DEF BeginRead, BeginWrite, Finish, Create, Counted, Done, TypeOK
<1>5. ASSUME NEW t \in Threads, ReadSection(t) PROVE Counted'
  <2>1. CASE LockReaders(t) \/ TakeWritelock(t) \/ Read(t) \/ LockLeave(t)
    BY <1>1, <1>2, <2>1 DEF LockReaders, TakeWritelock, Read, LockLeave, Counted, Done, TypeOK
  <2>2. CASE CountIn(t)
    BY <1>1, <1>2, <2>2 DEF CountIn, Counted, Done, TypeOK
  <2>3. CASE Leave(t)
    BY <1>1, <1>2, <2>3 DEF Leave, Counted, Done, TypeOK, ReaderLabels, Readers
  <2> QED BY <1>5, <2>1, <2>2, <2>3 DEF ReadSection
<1>6. ASSUME NEW t \in Threads, AcquireWrite(t) \/ Load(t) \/ PrintValue(t) PROVE Counted'
  BY <1>1, <1>2, <1>6 DEF AcquireWrite, Load, PrintValue, Counted, Done, TypeOK
<1>7. ASSUME NEW t \in Threads, ReleaseWrite(t) PROVE Counted'
  BY <1>1, <1>2, <1>7 DEF ReleaseWrite, Counted, Done, TypeOK, WriterLabels
<1>8. ASSUME NEW t \in Threads, Store(t) PROVE Counted'
  <2>1. /\ t \in Writers /\ i[t] \in 0..(Loops - 1) /\ i' = i /\ main' = main
        /\ pc[t] = "store" /\ pc' = [pc EXCEPT ![t] = "print"]
        /\ value' = value + 1
    BY <1>1, <1>8 DEF Store, Counted, TypeOK, WriterLabels
  <2>2. \A w \in Writers : Done(w)' = IF w = t THEN i[t] + 1 ELSE Done(w)
    BY <1>1, <2>1 DEF Done, TypeOK
  <2>3. Done(t) = i[t]
    BY <1>1, <2>1 DEF Done, TypeOK
  <2>4. Writes' = Writes \cup {<<i[t], t>>} /\ <<i[t], t>> \notin Writes
    BY <1>1, <2>1, <2>2, <2>3 DEF Writes, TypeOK
  <2>5. Cardinality(Writes') = Cardinality(Writes) + 1
    BY <2>4, WritesFinite, FS_AddElement
  <2>6. At({"store"})' = {}
    BY <1>1, <2>1 DEF OneWriter, Writing, TypeOK
  <2> QED BY <1>1, <2>1, <2>5, <2>6 DEF Counted, TypeOK
<1> QED BY <1>3, <1>4, <1>5, <1>6, <1>7, <1>8
        DEF Next, Main, Thread, WriteSection, Terminated

\* What main prints in line 109 is the number of writes, for any numbers of
\* threads and loops: no write is lost.
THEOREM NoLostWrite == Spec => []ValueExact
<1>1. Init => Counted
  <2> SUFFICES ASSUME Init PROVE Counted
    OBVIOUS
  <2>1. Writes = {}
    BY ReaderWriterAssumption DEF Init, Writes, Done
  <2> QED BY <2>1, FS_EmptySet DEF Init, Counted, At
<1>2. IInv /\ Counted => ValueExact
  <2> SUFFICES ASSUME IInv, Counted, main = "ended" PROVE value = Loops * Cardinality(Writers)
    BY DEF ValueExact
  <2>1. \A w \in Writers : Done(w) = Loops
    BY ReaderWriterAssumption DEF Counted, Done, At, IInv, TypeOK
  <2>2. Writes = (0..(Loops - 1)) \X Writers
    BY <2>1, ReaderWriterAssumption DEF Writes
  <2>3. /\ IsFiniteSet(0..(Loops - 1)) /\ IsFiniteSet(Writers)
        /\ Cardinality(0..(Loops - 1)) = Loops
    BY FS_Interval, FS_Subset, ThreadsAssumption, ReaderWriterAssumption
  <2>4. Cardinality((0..(Loops - 1)) \X Writers) = Cardinality(0..(Loops - 1)) * Cardinality(Writers)
    BY <2>3, FS_Product
  <2> QED BY <2>2, <2>3, <2>4 DEF Counted
<1> QED BY <1>1, <1>2, CountedStep, InitIInv, IInvStep, PTL DEF Spec

-----------------------------------------------------------------------------
(* reader-writer-nostarve.c *)

\* Where the threads can be; a reader in the turnstile is in its loop.
Places ==
    /\ pc \in [Threads -> Labels \cup {"gate"}]
    /\ \A t \in At({"gate"}) : t \in Readers /\ i[t] < Loops
    /\ turnstile \in Nat
    /\ i \in [Threads -> Nat]

\* A step of the program or of the clients that come back.
LockStep == NSNext \/ \E t \in Threads : Overwrite(t) \/ Again(t)

LEMMA PlacesStep == Places /\ [LockStep]_nvars => Places'
<1> SUFFICES ASSUME Places, [LockStep]_nvars PROVE Places'
  OBVIOUS
<1> USE DEF Places, Labels, ReaderLabels, WriterLabels, At, Goto
<1>1. CASE UNCHANGED nvars \/ NSMain
  BY <1>1 DEF nvars, vars, NSMain, Main, JoinAll, Create
<1>2. ASSUME NEW t \in Threads, Turnstile(t) PROVE Places'
  BY <1>2 DEF Turnstile, EnterTurnstile, LeaveTurnstile, BlockTurnstile,
              UnblockTurnstile, Wait, Post
<1>3. ASSUME NEW t \in Threads, Shared(t) PROVE Places'
  <2>1. CASE LockReaders(t) \/ CountIn(t) \/ TakeWritelock(t) \/ Read(t) \/ LockLeave(t)
    BY <1>3, <2>1 DEF Shared, LockReaders, CountIn, TakeWritelock, Read, LockLeave
  <2>2. CASE Leave(t) \/ ReleaseWrite(t)
    BY <1>3, <2>2 DEF Shared, Leave, ReleaseWrite
  <2>3. CASE AcquireWrite(t) \/ Load(t) \/ Store(t) \/ Finish(t)
    BY <1>3, <2>3 DEF Shared, AcquireWrite, Load, Store, Finish
  <2> QED BY <1>3, <2>1, <2>2, <2>3 DEF Shared, ReadSection, WriteSection
<1>4. ASSUME NEW t \in Threads, Overwrite(t) \/ Again(t) PROVE Places'
  BY <1>4 DEF Overwrite, Again
<1> QED BY <1>1, <1>2, <1>3, <1>4 DEF LockStep, NSNext, NSThread, NSTerminated

-----------------------------------------------------------------------------
\* Every step is a step of reader-writer.c or leaves it alone.
LEMMA NoStarveStep == Places /\ [NSNext]_nvars => [Plain!Next]_(Plain!vars)
<1> SUFFICES ASSUME Places, [NSNext]_nvars PROVE [Plain!Next]_(Plain!vars)
  OBVIOUS
<1>1. /\ \A t \in Threads : plainPc[t] = IF pc[t] = "gate" THEN "idle" ELSE pc[t]
      /\ pc \in [Threads -> Labels \cup {"gate"}]
  BY DEF plainPc, Places
\* A move that starts and ends outside the turnstile is the same move there.
<1>2. ASSUME NEW t \in Threads, NEW from, NEW to, Goto(t, from, to),
             from # "gate", to # "gate"
      PROVE  Plain!Goto(t, from, to)
  BY <1>1, <1>2 DEF Goto, Plain!Goto, plainPc
<1>3. CASE UNCHANGED nvars
  BY <1>3 DEF nvars, vars, Plain!vars, plainPc, locks, data, Plain!locks, Plain!data
<1>4. CASE JoinAll
  BY <1>1, <1>4 DEF JoinAll, Plain!JoinAll, Plain!Next, Plain!Main, plainPc, locks, data,
                    Plain!locks, Plain!data
<1> USE DEF locks, data, Plain!locks, Plain!data
<1>5. ASSUME NEW t \in Threads, Create(t) PROVE Plain!Create(t)
  BY <1>2, <1>5 DEF Create, Plain!Create
<1>6. ASSUME NEW t \in Threads, Turnstile(t)
      PROVE  Plain!BeginRead(t) \/ Plain!BeginWrite(t) \/ Plain!PrintValue(t)
             \/ UNCHANGED Plain!vars
  <2>1. CASE EnterTurnstile(t)
    BY <1>1, <2>1 DEF EnterTurnstile, Goto, plainPc, Plain!vars
  <2>2. CASE LeaveTurnstile(t)
    BY <1>1, <2>2 DEF LeaveTurnstile, Goto, Plain!Goto, plainPc, Plain!BeginRead, Places, At,
                      Plain!Readers, Readers
  <2>3. CASE BlockTurnstile(t)
    BY <1>2, <2>3 DEF BlockTurnstile, Plain!BeginWrite
  <2>4. CASE UnblockTurnstile(t)
    BY <1>2, <2>4 DEF UnblockTurnstile, Plain!PrintValue
  <2> QED BY <1>6, <2>1, <2>2, <2>3, <2>4 DEF Turnstile
<1>7. ASSUME NEW t \in Threads, LockReaders(t) PROVE Plain!LockReaders(t)
  BY <1>2, <1>7 DEF LockReaders, Plain!LockReaders, Wait, Plain!Wait
<1>8. ASSUME NEW t \in Threads, CountIn(t) PROVE Plain!CountIn(t)
  BY <1>2, <1>8 DEF CountIn, Plain!CountIn, Post, Plain!Post
<1>9. ASSUME NEW t \in Threads, TakeWritelock(t) PROVE Plain!TakeWritelock(t)
  BY <1>2, <1>9 DEF TakeWritelock, Plain!TakeWritelock, Wait, Plain!Wait, Post, Plain!Post
<1>10. ASSUME NEW t \in Threads, Read(t) PROVE Plain!Read(t)
  BY <1>2, <1>10 DEF Read, Plain!Read
<1>11. ASSUME NEW t \in Threads, LockLeave(t) PROVE Plain!LockLeave(t)
  BY <1>2, <1>11 DEF LockLeave, Plain!LockLeave, Wait, Plain!Wait
<1>12. ASSUME NEW t \in Threads, Leave(t) PROVE Plain!Leave(t)
  BY <1>2, <1>12 DEF Leave, Plain!Leave, Post, Plain!Post
<1>13. ASSUME NEW t \in Threads, AcquireWrite(t) PROVE Plain!AcquireWrite(t)
  BY <1>2, <1>13 DEF AcquireWrite, Plain!AcquireWrite, Wait, Plain!Wait
<1>14. ASSUME NEW t \in Threads, Load(t) PROVE Plain!Load(t)
  BY <1>2, <1>14 DEF Load, Plain!Load
<1>15. ASSUME NEW t \in Threads, Store(t) PROVE Plain!Store(t)
  BY <1>2, <1>15 DEF Store, Plain!Store
<1>16. ASSUME NEW t \in Threads, ReleaseWrite(t) PROVE Plain!ReleaseWrite(t)
  BY <1>2, <1>16 DEF ReleaseWrite, Plain!ReleaseWrite, Post, Plain!Post
<1>17. ASSUME NEW t \in Threads, Finish(t) PROVE Plain!Finish(t)
  BY <1>2, <1>17 DEF Finish, Plain!Finish
<1> QED BY <1>3, <1>4, <1>5, <1>6, <1>7, <1>8, <1>9, <1>10, <1>11, <1>12, <1>13, <1>14, <1>15, <1>16, <1>17
        DEF NSNext, NSMain, Main, NSThread, Shared, ReadSection, WriteSection, NSTerminated,
            Plain!Next, Plain!Main, Plain!Thread, Plain!ReadSection, Plain!WriteSection

-----------------------------------------------------------------------------
LEMMA NoStarveInit == NSInit => Places /\ Plain!Init
BY DEF NSInit, Init, Places, Labels, At, Plain!Init, plainPc

\* The turnstile only takes behaviours away (lines 39-40, 62 and 67).
THEOREM NoStarveImplementsPlain == NSSpec => ImplementsPlain
<1>1. [NSNext]_nvars => [LockStep]_nvars
  BY DEF LockStep
<1> QED
  BY <1>1, NoStarveInit, PlacesStep, NoStarveStep, PTL DEF NSSpec, ImplementsPlain, Plain!Spec

-----------------------------------------------------------------------------
\* How the number of threads in the turnstile changes in a move.
LEMMA TurnstileMoves ==
    ASSUME Places, NEW t \in Threads, NEW from, NEW to, Goto(t, from, to)
    PROVE  Cardinality(At(InTurnstile)') = Cardinality(At(InTurnstile))
             + (IF to \in InTurnstile THEN 1 ELSE 0)
             - (IF from \in InTurnstile THEN 1 ELSE 0)
BY MoveCounts DEF Places

LEMMA TurnstileStep == Places /\ OneInTurnstile /\ [LockStep]_nvars => OneInTurnstile'
<1> SUFFICES ASSUME Places, OneInTurnstile, [LockStep]_nvars PROVE OneInTurnstile'
  OBVIOUS
<1> USE DEF OneInTurnstile
<1>1. turnstile \in Nat /\ Cardinality(At(InTurnstile)) \in Nat
  BY CountsAreNatural DEF Places
\* What does not change the label's side of the turnstile keeps the balance.
<1>2. ASSUME NEW t \in Threads, NEW from, NEW to, Goto(t, from, to),
             (from \in InTurnstile) = (to \in InTurnstile), UNCHANGED turnstile
      PROVE  OneInTurnstile'
  BY <1>1, <1>2, TurnstileMoves
<1>3. CASE UNCHANGED nvars
  BY <1>3 DEF nvars, vars, At
<1>4. CASE NSMain
  <2>1. CASE JoinAll
    BY <1>4, <2>1 DEF NSMain, JoinAll, At
  <2>2. ASSUME NEW t \in Threads, Create(t) PROVE OneInTurnstile'
    BY <1>2, <1>4, <2>2 DEF NSMain, Create, InTurnstile
  <2> QED BY <1>4, <2>1, <2>2 DEF NSMain, Main
<1>5. ASSUME NEW t \in Threads, EnterTurnstile(t) \/ BlockTurnstile(t)
      PROVE  OneInTurnstile'
  <2>1. Cardinality(At(InTurnstile)') = Cardinality(At(InTurnstile)) + 1
    BY <1>1, <1>5, TurnstileMoves DEF EnterTurnstile, BlockTurnstile, InTurnstile
  <2> QED BY <1>1, <1>5, <2>1 DEF EnterTurnstile, BlockTurnstile, Wait
<1>6. ASSUME NEW t \in Threads, LeaveTurnstile(t) \/ UnblockTurnstile(t)
      PROVE  OneInTurnstile'
  <2>1. Cardinality(At(InTurnstile)') = Cardinality(At(InTurnstile)) - 1
    BY <1>1, <1>6, TurnstileMoves DEF LeaveTurnstile, UnblockTurnstile, InTurnstile
  <2> QED BY <1>1, <1>6, <2>1 DEF LeaveTurnstile, UnblockTurnstile, Post
<1>7. ASSUME NEW t \in Threads, Shared(t) PROVE OneInTurnstile'
  <2>1. CASE LockReaders(t) \/ CountIn(t) \/ TakeWritelock(t)
    BY <1>2, <1>7, <2>1 DEF Shared, LockReaders, CountIn, TakeWritelock, InTurnstile
  <2>2. CASE Read(t) \/ LockLeave(t) \/ Leave(t)
    BY <1>2, <1>7, <2>2 DEF Shared, Read, LockLeave, Leave, InTurnstile
  <2>3. CASE AcquireWrite(t) \/ Load(t) \/ Store(t)
    BY <1>2, <1>7, <2>3 DEF Shared, AcquireWrite, Load, Store, InTurnstile
  <2>4. CASE ReleaseWrite(t) \/ Finish(t)
    BY <1>2, <1>7, <2>4 DEF Shared, ReleaseWrite, Finish, InTurnstile
  <2> QED BY <1>7, <2>1, <2>2, <2>3, <2>4 DEF Shared, ReadSection, WriteSection
<1>8. ASSUME NEW t \in Threads, Overwrite(t) \/ Again(t) PROVE OneInTurnstile'
  BY <1>2, <1>8 DEF Overwrite, Again, InTurnstile
<1> QED BY <1>3, <1>4, <1>5, <1>6, <1>7, <1>8
        DEF LockStep, NSNext, NSThread, Turnstile, NSTerminated

LEMMA TurnstileInit == NSInit => OneInTurnstile
<1> SUFFICES ASSUME NSInit PROVE OneInTurnstile
  OBVIOUS
<1>1. At(InTurnstile) = {}
  BY DEF NSInit, Init, At, InTurnstile
<1> QED BY <1>1, CountsAreNatural DEF NSInit, OneInTurnstile

\* Between line 39 and line 40, and from line 62 to line 67, a thread has the
\* turnstile to itself, whatever the numbers of readers and writers.
THEOREM TurnstileIsExclusive == NSSpec => []OneInTurnstile
<1>1. [NSNext]_nvars => [LockStep]_nvars
  BY DEF LockStep
<1> QED
  BY <1>1, NoStarveInit, PlacesStep, TurnstileInit, TurnstileStep, PTL DEF NSSpec

-----------------------------------------------------------------------------
(* Clients that come back *)

LEMMA ClientStepIsLockStep == [ClientNext]_cvars => [LockStep]_nvars
BY DEF ClientNext, cvars, Client, Locking, LockStep, NSNext, NSMain, Main, NSThread, Shared,
       WriteSection

\* A reader that has overtaken the writer is not on its way in again: it would
\* have to come through the turnstile, which the writer keeps.
Overtaken ==
    /\ \A t \in At({"wentry"}) : t \in Writers
    /\ \A t \in overtakers : t \in Readers /\ pc[t] \notin {"gate", "entry", "count", "first"}

OvertakingInv == Places /\ OneInTurnstile /\ Overtaken

LEMMA TurnstileKept == OvertakingInv => (At({"wentry"}) # {} => turnstile = 0)
<1> SUFFICES ASSUME OvertakingInv, At({"wentry"}) # {} PROVE turnstile = 0
  OBVIOUS
<1>1. At(InTurnstile) # {}
  BY DEF At, InTurnstile
<1> QED BY <1>1, CountsAreNatural DEF OvertakingInv, Places, OneInTurnstile

\* Where a thread that moves in a client's step comes from and goes to.
LEMMA ClientMoves ==
    ASSUME OvertakingInv, NEW t \in Threads, Client(t) \/ Again(t)
    PROVE  \E from, to :
              /\ Goto(t, from, to)
              /\ to = "gate" => turnstile > 0
              /\ to \in {"entry", "count", "first"} => from \in {"gate", "entry", "count"}
              /\ to = "read" => from \in {"count", "first"}
              /\ to = "load" => from = "wentry"
              /\ to = "wentry" => t \in Writers
<1> USE DEF Places
<1>1. CASE Turnstile(t)
  BY <1>1 DEF Turnstile, EnterTurnstile, LeaveTurnstile, BlockTurnstile, UnblockTurnstile, Wait
<1>2. CASE Locking(t)
  BY <1>2 DEF Locking, ReadSection, LockReaders, CountIn, TakeWritelock, Read, LockLeave, Leave,
              AcquireWrite, Load, ReleaseWrite, Create, Finish
<1>3. CASE Overwrite(t) \/ Again(t)
  BY <1>3 DEF Overwrite, Again
<1> QED BY <1>1, <1>2, <1>3 DEF Client

LEMMA OvertakingStep ==
    OvertakingInv /\ [ClientNext]_cvars =>
        /\ OvertakingInv'
        /\ [\A r \in Readers : (At({"wentry"}) # {} /\ r \in Entering) => r \notin overtakers]_cvars
<1>1. ASSUME OvertakingInv, UNCHANGED cvars PROVE OvertakingInv'
  BY <1>1 DEF OvertakingInv, Places, OneInTurnstile, Overtaken, cvars, nvars, vars, At
<1>2. ASSUME OvertakingInv, ClientNext
      PROVE  /\ OvertakingInv'
             /\ \A r \in Readers : (At({"wentry"}) # {} /\ r \in Entering) => r \notin overtakers
  <2>1. Places' /\ OneInTurnstile'
    BY <1>2, ClientStepIsLockStep, PlacesStep, TurnstileStep DEF OvertakingInv
  <2>2. PICK t \in Threads : Client(t) \/ Again(t)
    BY <1>2 DEF ClientNext
  <2>3. PICK from, to :
           /\ Goto(t, from, to)
           /\ to = "gate" => turnstile > 0
           /\ to \in {"entry", "count", "first"} => from \in {"gate", "entry", "count"}
           /\ to = "read" => from \in {"count", "first"}
           /\ to = "load" => from = "wentry"
           /\ to = "wentry" => t \in Writers
    BY <1>2, <2>2, ClientMoves
  <2>4. pc[t] = from /\ pc'[t] = to /\ \A r \in Threads \ {t} : pc'[r] = pc[r]
    BY <1>2, <2>3 DEF Goto, OvertakingInv, Places
  <2>5. Entering \subseteq {t} /\ (Entering # {} => to \in {"read", "load"})
    BY <2>4 DEF Entering, Reading, Writing, At
  <2>6. \A r \in Readers : r \in Entering => pc[r] \in {"count", "first"} /\ pc'[r] = "read"
    BY <1>2, <2>3, <2>4, <2>5 DEF Readers, OvertakingInv, Overtaken, At
  <2>7. overtakers' = IF At({"wentry"}) = {} THEN {} ELSE overtakers \cup (Entering \cap Readers)
    BY <1>2 DEF ClientNext, Observe
  <2>8. At({"wentry"}) # {} => to # "gate"
    BY <1>2, <2>3, TurnstileKept
  <2>9. Overtaken'
    <3>1. \A r \in At({"wentry"})' : r \in Writers
      BY <1>2, <2>3, <2>4 DEF OvertakingInv, Overtaken, At
    <3>2. ASSUME NEW r \in overtakers'
          PROVE  r \in Readers /\ pc'[r] \notin {"gate", "entry", "count", "first"}
      <4>1. At({"wentry"}) # {} /\ (r \in overtakers \/ r \in Entering \cap Readers)
        BY <2>7, <3>2
      <4>2. CASE r \in Entering \cap Readers
        BY <2>6, <4>2
      <4>3. CASE r \in overtakers
        BY <1>2, <2>3, <2>4, <2>8, <4>1, <4>3 DEF OvertakingInv, Overtaken, Readers
      <4> QED BY <4>1, <4>2, <4>3
    <3> QED BY <3>1, <3>2 DEF Overtaken
  <2> QED BY <1>2, <2>1, <2>6, <2>9 DEF OvertakingInv, Overtaken
<1> QED BY <1>1, <1>2

\* While a writer waits for writelock it keeps the turnstile, and each reader
\* enters at most once before it: the promise of the name, for any numbers of
\* readers and writers that keep coming back (lines 39-46 and 62-63).
THEOREM OvertakingBounded == ClientSpec => BoundedOvertaking
<1>1. ClientInit => OvertakingInv
  BY NoStarveInit, TurnstileInit DEF ClientInit, NSInit, Init, OvertakingInv, Overtaken, At
<1> QED BY <1>1, OvertakingStep, PTL DEF ClientSpec, BoundedOvertaking
=============================================================================
