---------------------------- MODULE NsMutexProofs ----------------------------
(***************************************************************************)
(* The safety of mutex-nostarve.c for any finite set of threads: the       *)
(* workers of the program, and clients that come back for the lock.        *)
(* A step moves one thread from one label to another, so every count of    *)
(* threads changes by what MoveCounts says; the invariant LockInv says who *)
(* holds the mutex and the turnstiles' token, and that the lock's own      *)
(* counters are such counts.  Who was overtaken how often follows from the *)
(* phase the lock is in.                                                   *)
(***************************************************************************)
EXTENDS NsMutexClients, ThreadLabelsProofs

\* The semaphore mutex is 1, or one thread is between sem_wait and sem_post.
MutexHeld ==
    /\ mutex \in {0, 1}
    /\ \A s, t \in At({"room1", "leave1"}) : s = t
    /\ At({"room1", "leave1"}) # {} => mutex = 0

\* The token is on one turnstile or with one thread.
OneToken ==
    /\ drehkreuz1 + drehkreuz2 <= 1
    /\ \A s, t \in At(Holding) : s = t
    /\ At(Holding) # {} => drehkreuz1 + drehkreuz2 = 0

\* A thread about to reopen drehkreuz1 left somebody behind in warteraum1.
SomebodyComes == At({"open1"}) # {} => warteraum1 > 0

\* The increments done, counted by where the threads are.
Incremented ==
    /\ critical = Cardinality(At(Counted))
    /\ main = "ended" => \A t \in Threads : pc[t] = "after"

\* What the program and the clients have in common.
LockInv ==
    /\ TypeOK /\ MutexHeld /\ OneToken /\ CountsExact
    /\ SomebodyComes /\ Phases

IInv == LockInv /\ Incremented

\* A step of either.
LockStep == Next \/ \E t \in Threads : Use(t) \/ Again(t)

-----------------------------------------------------------------------------
LEMMA InitIInv == Init => IInv
<1> SUFFICES ASSUME Init PROVE IInv
  OBVIOUS
<1>1. TypeOK
  BY DEF Init, TypeOK, Labels
<1>2. \A L : "new" \notin L => At(L) = {}
  BY DEF Init, At
<1>3. At(Room1) = {} /\ At(Room2) = {} /\ At(Holding) = {} /\ At(Counted) = {}
  BY <1>2 DEF Room1, Room2, Holding, Counted
<1>4. Cardinality({}) = 0
  BY FS_EmptySet
<1>5. CountsExact /\ Phases /\ Incremented
  BY <1>2, <1>3, <1>4 DEF Init, CountsExact, Phases, Incremented
<1>6. MutexHeld /\ OneToken /\ SomebodyComes
  BY <1>2, <1>3 DEF Init, MutexHeld, OneToken, SomebodyComes
<1> QED BY <1>1, <1>5, <1>6 DEF IInv, LockInv

LEMMA TypeStep == TypeOK /\ [LockStep]_vars => TypeOK'
<1> SUFFICES ASSUME TypeOK, [LockStep]_vars PROVE TypeOK'
  OBVIOUS
<1> USE DEF TypeOK, Labels, Goto
<1>1. CASE UNCHANGED vars
  BY <1>1 DEF vars, rooms, turnstiles
<1>2. CASE Main
  BY <1>2 DEF Main, Create, JoinAll, rooms, turnstiles
<1>3. ASSUME NEW t \in Threads, Acquire(t) PROVE TypeOK'
  <2>1. CASE LockRoom1(t) \/ EnterRoom1(t) \/ PassTurnstile1(t)
    BY <2>1 DEF LockRoom1, EnterRoom1, PassTurnstile1, Wait, Post, rooms, turnstiles
  <2>2. CASE EnterRoom2(t) \/ LockAgain(t) \/ LeaveRoom1(t)
    BY <2>2 DEF EnterRoom2, LockAgain, LeaveRoom1, Wait, Post, rooms, turnstiles
  <2>3. CASE Open1(t) \/ Open2(t) \/ PassTurnstile2(t) \/ LeaveRoom2(t)
    BY <2>3 DEF Open1, Open2, PassTurnstile2, LeaveRoom2, Wait, Post, rooms, turnstiles
  <2> QED BY <1>3, <2>1, <2>2, <2>3 DEF Acquire
<1>4. ASSUME NEW t \in Threads, Critical(t) \/ Release(t) PROVE TypeOK'
  BY <1>4 DEF Critical, Release, Post, rooms, turnstiles
<1>5. ASSUME NEW t \in Threads, Use(t) \/ Again(t) PROVE TypeOK'
  BY <1>5 DEF Use, Again, rooms, turnstiles
<1> QED BY <1>1, <1>2, <1>3, <1>4, <1>5 DEF LockStep, Next, Worker, Terminated

\* Who holds the semaphore mutex.
LEMMA MutexStep == TypeOK /\ MutexHeld /\ [LockStep]_vars => MutexHeld'
<1> SUFFICES ASSUME TypeOK, MutexHeld, [LockStep]_vars PROVE MutexHeld'
  OBVIOUS
<1> USE DEF TypeOK, MutexHeld, At, Goto
<1>1. CASE UNCHANGED vars
  BY <1>1 DEF vars, rooms, turnstiles
<1>2. CASE Main
  BY <1>2 DEF Main, Create, JoinAll, rooms, turnstiles
<1>3. ASSUME NEW t \in Threads, Acquire(t) PROVE MutexHeld'
  <2>1. CASE LockRoom1(t) \/ LockAgain(t)
    BY <2>1 DEF LockRoom1, LockAgain, Wait
  <2>2. CASE EnterRoom1(t) \/ LeaveRoom1(t)
    BY <2>2 DEF EnterRoom1, LeaveRoom1, Post
  <2>3. CASE PassTurnstile1(t) \/ EnterRoom2(t) \/ Open1(t) \/ Open2(t)
    BY <2>3 DEF PassTurnstile1, EnterRoom2, Open1, Open2
  <2>4. CASE PassTurnstile2(t) \/ LeaveRoom2(t)
    BY <2>4 DEF PassTurnstile2, LeaveRoom2
  <2> QED BY <1>3, <2>1, <2>2, <2>3, <2>4 DEF Acquire
<1>4. ASSUME NEW t \in Threads, Critical(t) \/ Release(t) PROVE MutexHeld'
  BY <1>4 DEF Critical, Release
<1>5. ASSUME NEW t \in Threads, Use(t) \/ Again(t) PROVE MutexHeld'
  BY <1>5 DEF Use, Again, rooms, turnstiles
<1> QED BY <1>1, <1>2, <1>3, <1>4, <1>5 DEF LockStep, Next, Worker, Terminated

\* Who holds the token of the two turnstiles.
LEMMA TokenStep == TypeOK /\ OneToken /\ [LockStep]_vars => OneToken'
<1> SUFFICES ASSUME TypeOK, OneToken, [LockStep]_vars PROVE OneToken'
  OBVIOUS
<1> USE DEF TypeOK, OneToken, At, Holding, Goto
<1>1. CASE UNCHANGED vars
  BY <1>1 DEF vars, rooms, turnstiles
<1>2. CASE Main
  BY <1>2 DEF Main, Create, JoinAll, rooms, turnstiles
<1>3. ASSUME NEW t \in Threads, Acquire(t) PROVE OneToken'
  <2>1. CASE LockRoom1(t) \/ EnterRoom1(t)
    BY <2>1 DEF LockRoom1, EnterRoom1, turnstiles
  <2>2. CASE PassTurnstile1(t) \/ PassTurnstile2(t)
    BY <2>2 DEF PassTurnstile1, PassTurnstile2, Wait
  <2>3. CASE EnterRoom2(t) \/ LockAgain(t) \/ LeaveRoom1(t) \/ LeaveRoom2(t)
    BY <2>3 DEF EnterRoom2, LockAgain, LeaveRoom1, LeaveRoom2, turnstiles
  <2>4. CASE Open1(t) \/ Open2(t)
    BY <2>4 DEF Open1, Open2, Post
  <2> QED BY <1>3, <2>1, <2>2, <2>3, <2>4 DEF Acquire
<1>4. ASSUME NEW t \in Threads, Critical(t) \/ Release(t) PROVE OneToken'
  BY <1>4 DEF Critical, Release, Post, turnstiles
<1>5. ASSUME NEW t \in Threads, Use(t) \/ Again(t) PROVE OneToken'
  BY <1>5 DEF Use, Again, rooms, turnstiles
<1> QED BY <1>1, <1>2, <1>3, <1>4, <1>5 DEF LockStep, Next, Worker, Terminated

-----------------------------------------------------------------------------
\* What the counts of threads give: the lock's counters and the number of tokens.
Counting ==
    /\ CountsExact
    /\ drehkreuz1 + drehkreuz2 + Cardinality(At(Holding)) = 1

LEMMA CountingStep == TypeOK /\ Counting /\ [LockStep]_vars => Counting'
<1> SUFFICES ASSUME TypeOK, Counting, [LockStep]_vars PROVE Counting'
  OBVIOUS
<1> USE DEF TypeOK, Counting, CountsExact, Room1, Room2, Holding
<1>1. CASE UNCHANGED vars
  BY <1>1 DEF vars, rooms, turnstiles, At
<1>2. \A L : Cardinality(At(L)) \in Nat
  BY CountsAreNatural
\* The one use of MoveCounts: a thread t moves from one label to another.
<1> DEFINE Moved(from, to) ==
      \A L : Cardinality(At(L)') = Cardinality(At(L))
                 + (IF to \in L THEN 1 ELSE 0) - (IF from \in L THEN 1 ELSE 0)
<1>3. ASSUME NEW t \in Threads, NEW from, NEW to, Goto(t, from, to)
      PROVE  Moved(from, to) /\ (pc[t] = from)
  <2>1. ASSUME NEW L
        PROVE  Cardinality(At(L)') = Cardinality(At(L))
                 + (IF to \in L THEN 1 ELSE 0) - (IF from \in L THEN 1 ELSE 0)
    BY <1>3, MoveCounts
  <2> QED BY <1>3, <2>1 DEF Goto
<1> HIDE DEF TypeOK
<1>4. ASSUME NEW t \in Threads, Create(t) PROVE Counting'
  <2>1. Moved("new", "acquire") /\ pc[t] = "new"
    BY <1>3, <1>4 DEF Create
  <2> QED BY <2>1, <1>2, <1>4 DEF Create, rooms, turnstiles, Goto, TypeOK
<1>5. CASE JoinAll
  BY <1>5 DEF JoinAll, rooms, turnstiles, At
<1>6. ASSUME NEW t \in Threads, Acquire(t) PROVE Counting'
  <2>1. CASE LockRoom1(t)
    <3>1. Moved("acquire", "room1") /\ pc[t] = "acquire"
      BY <1>3, <2>1 DEF LockRoom1
    <3> QED BY <3>1, <1>2, <2>1 DEF LockRoom1, Wait, rooms, turnstiles, Goto, TypeOK
  <2>2. CASE EnterRoom1(t)
    <3>1. Moved("room1", "turnstile1") /\ pc[t] = "room1"
      BY <1>3, <2>2 DEF EnterRoom1
    <3> QED BY <3>1, <1>2, <2>2 DEF EnterRoom1, Post, rooms, turnstiles, Goto, TypeOK
  <2>3. CASE PassTurnstile1(t)
    <3>1. Moved("turnstile1", "room2") /\ pc[t] = "turnstile1"
      BY <1>3, <2>3 DEF PassTurnstile1
    <3> QED BY <3>1, <1>2, <2>3 DEF PassTurnstile1, Wait, rooms, turnstiles, Goto, TypeOK
  <2>4. CASE EnterRoom2(t)
    <3>1. Moved("room2", "relock") /\ pc[t] = "room2"
      BY <1>3, <2>4 DEF EnterRoom2
    <3> QED BY <3>1, <1>2, <2>4 DEF EnterRoom2, rooms, turnstiles, Goto, TypeOK
  <2>5. CASE LockAgain(t)
    <3>1. Moved("relock", "leave1") /\ pc[t] = "relock"
      BY <1>3, <2>5 DEF LockAgain
    <3> QED BY <3>1, <1>2, <2>5 DEF LockAgain, Wait, rooms, turnstiles, Goto, TypeOK
  <2>6. CASE Open2(t)
    <3>1. Moved("open2", "turnstile2") /\ pc[t] = "open2"
      BY <1>3, <2>6 DEF Open2
    <3> QED BY <3>1, <1>2, <2>6 DEF Open2, Post, rooms, turnstiles, Goto, TypeOK
  <2>7. CASE Open1(t)
    <3>1. Moved("open1", "turnstile2") /\ pc[t] = "open1"
      BY <1>3, <2>7 DEF Open1
    <3> QED BY <3>1, <1>2, <2>7 DEF Open1, Post, rooms, turnstiles, Goto, TypeOK
  <2>8. CASE PassTurnstile2(t)
    <3>1. Moved("turnstile2", "leave2") /\ pc[t] = "turnstile2"
      BY <1>3, <2>8 DEF PassTurnstile2
    <3> QED BY <3>1, <1>2, <2>8 DEF PassTurnstile2, Wait, rooms, turnstiles, Goto, TypeOK
  <2>9. CASE LeaveRoom2(t)
    <3>1. Moved("leave2", "critical") /\ pc[t] = "leave2"
      BY <1>3, <2>9 DEF LeaveRoom2
    <3> QED BY <3>1, <1>2, <2>9 DEF LeaveRoom2, rooms, turnstiles, Goto, TypeOK
  <2>10. CASE LeaveRoom1(t)
    <3>1. Moved("leave1", IF warteraum1 - 1 = 0 THEN "open2" ELSE "open1")
          /\ pc[t] = "leave1"
      BY <1>3, <2>10 DEF LeaveRoom1
    <3> QED BY <3>1, <1>2, <2>10 DEF LeaveRoom1, Post, rooms, turnstiles, Goto, TypeOK
  <2> QED BY <1>6, <2>1, <2>2, <2>3, <2>4, <2>5, <2>6, <2>7, <2>8, <2>9, <2>10 DEF Acquire
<1>7. ASSUME NEW t \in Threads, Critical(t) \/ Use(t) PROVE Counting'
  <2>1. Moved("critical", "release") /\ pc[t] = "critical"
    BY <1>3, <1>7 DEF Critical, Use
  <2> QED BY <2>1, <1>2, <1>7 DEF Critical, Use, rooms, turnstiles, Goto, TypeOK
<1>8. ASSUME NEW t \in Threads, Release(t) PROVE Counting'
  <2>1. Moved("release", "after") /\ pc[t] = "release"
    BY <1>3, <1>8 DEF Release
  <2> QED BY <2>1, <1>2, <1>8 DEF Release, Post, rooms, turnstiles, Goto, TypeOK
<1>9. ASSUME NEW t \in Threads, Again(t) PROVE Counting'
  <2>1. Moved("after", "acquire") /\ pc[t] = "after"
    BY <1>3, <1>9 DEF Again
  <2> QED BY <2>1, <1>2, <1>9 DEF Again, rooms, turnstiles, Goto, TypeOK
<1> QED BY <1>1, <1>4, <1>5, <1>6, <1>7, <1>8, <1>9 DEF LockStep, Next, Main, Worker, Terminated

\* In the program, one increment for every worker that is through with it.
LEMMA IncrementedStep == TypeOK /\ Incremented /\ [Next]_vars => Incremented'
<1> SUFFICES ASSUME TypeOK, Incremented, [Next]_vars PROVE Incremented'
  OBVIOUS
<1> USE DEF Incremented
<1>1. CASE UNCHANGED vars
  BY <1>1 DEF vars, At
<1>2. CASE JoinAll
  BY <1>2 DEF JoinAll, At
<1>3. ASSUME NEW t \in Threads, Create(t) \/ Acquire(t) \/ Release(t) PROVE Incremented'
  <2>1. /\ UNCHANGED <<critical, main>> /\ pc[t] # "after"
        /\ \E from, to : Goto(t, from, to) /\ (from \in Counted <=> to \in Counted)
    BY <1>3 DEF Create, Acquire, LockRoom1, EnterRoom1, PassTurnstile1, EnterRoom2, LockAgain,
                LeaveRoom1, Open1, Open2, PassTurnstile2, LeaveRoom2, Release, Goto, Counted
  <2>2. At(Counted)' = At(Counted)
    BY <2>1 DEF At, Goto, TypeOK
  <2> QED BY <2>1, <2>2
<1>4. ASSUME NEW t \in Threads, Critical(t) PROVE Incremented'
  <2>1. Goto(t, "critical", "release")
    BY <1>4 DEF Critical
  <2>2. ASSUME NEW L
        PROVE  Cardinality(At(L)') = Cardinality(At(L))
                 + (IF "release" \in L THEN 1 ELSE 0) - (IF "critical" \in L THEN 1 ELSE 0)
    BY <2>1, MoveCounts DEF TypeOK
  <2>3. Cardinality(At(Counted)') = Cardinality(At(Counted)) + 1
    BY <2>2, CountsAreNatural DEF Counted
  <2> QED BY <1>4, <2>1, <2>3, CountsAreNatural DEF Critical, Goto, TypeOK
<1> QED BY <1>1, <1>2, <1>3, <1>4 DEF Next, Main, Worker, Terminated

-----------------------------------------------------------------------------
\* A turnstile that is open, or about to be, is open for somebody.
HandOver ==
    /\ SomebodyComes
    /\ drehkreuz2 = 1 => At({"turnstile2"}) # {}
    /\ (drehkreuz1 = 1 /\ At({"turnstile2"}) # {}) => At({"turnstile1"}) # {}

LEMMA HandOverStep == LockInv /\ [LockStep]_vars => HandOver'
<1> SUFFICES ASSUME LockInv, [LockStep]_vars PROVE HandOver'
  OBVIOUS
<1>1. TypeOK /\ OneToken /\ HandOver
  BY DEF LockInv, Phases, HandOver
<1>2. (warteraum1 = 0 <=> At(Room1) = {}) /\ (warteraum2 = 0 <=> At(Room2) = {})
  BY CountsAreNatural DEF LockInv, TypeOK, CountsExact
<1>3. warteraum1 \in Nat
  BY CountsAreNatural DEF LockInv, CountsExact
<1> USE DEF TypeOK, OneToken, HandOver, SomebodyComes, At, Holding, Goto
<1>4. CASE UNCHANGED vars
  BY <1>1, <1>4 DEF vars, rooms, turnstiles
<1>5. CASE Main
  BY <1>1, <1>5 DEF Main, Create, JoinAll, rooms, turnstiles
<1>6. ASSUME NEW t \in Threads, Acquire(t) PROVE HandOver'
  <2>1. CASE LockRoom1(t) \/ EnterRoom1(t)
    BY <1>1, <1>3, <2>1 DEF LockRoom1, EnterRoom1, rooms, turnstiles
  <2>2. CASE PassTurnstile1(t) \/ PassTurnstile2(t)
    BY <1>1, <2>2 DEF PassTurnstile1, PassTurnstile2, Wait, rooms
  <2>3. CASE EnterRoom2(t) \/ LockAgain(t) \/ LeaveRoom2(t)
    BY <1>1, <2>3 DEF EnterRoom2, LockAgain, LeaveRoom2, rooms, turnstiles
  <2>4. CASE LeaveRoom1(t)
    BY <1>1, <1>2, <1>3, <2>4 DEF LeaveRoom1, turnstiles, Room1
  <2>5. CASE Open1(t)
    \* Somebody is in warteraum1 and does not hold the token: at drehkreuz1.
    <3>1. At(Room1) # {} /\ pc[t] = "open1"
      BY <1>1, <1>2, <1>3, <2>5 DEF Open1
    <3>2. At({"turnstile1"}) # {}
      BY <1>1, <3>1 DEF Room1
    <3> QED BY <1>1, <3>1, <3>2, <2>5 DEF Open1, Post, rooms
  <2>6. CASE Open2(t)
    BY <1>1, <2>6 DEF Open2, Post, rooms
  <2> QED BY <1>6, <2>1, <2>2, <2>3, <2>4, <2>5, <2>6 DEF Acquire
<1>7. ASSUME NEW t \in Threads, Critical(t) PROVE HandOver'
  BY <1>1, <1>7 DEF Critical, rooms, turnstiles
<1>8. ASSUME NEW t \in Threads, Release(t) PROVE HandOver'
  \* Whoever is in warteraum2 does not hold the token: at drehkreuz2.
  <2>1. pc[t] = "release"
    BY <1>8 DEF Release
  <2>2. (warteraum2 # 0) <=> (At({"turnstile2"}) # {})
    BY <1>1, <1>2, <2>1 DEF Room2
  <2> QED BY <1>1, <2>1, <2>2, <1>8 DEF Release, Post, rooms
<1>9. ASSUME NEW t \in Threads, Use(t) \/ Again(t) PROVE HandOver'
  BY <1>1, <1>9 DEF Use, Again, rooms, turnstiles
<1> QED BY <1>4, <1>5, <1>6, <1>7, <1>8, <1>9 DEF LockStep, Next, Worker, Terminated

-----------------------------------------------------------------------------
LEMMA LockInvStep == LockInv /\ [LockStep]_vars => LockInv'
<1> SUFFICES ASSUME LockInv, [LockStep]_vars PROVE LockInv'
  OBVIOUS
<1>1. TypeOK' /\ MutexHeld' /\ OneToken'
  BY TypeStep, MutexStep, TokenStep DEF LockInv
<1>2. Counting'
  BY CountingStep DEF LockInv, Counting, Phases
<1>3. HandOver'
  BY HandOverStep
<1> QED BY <1>1, <1>2, <1>3 DEF LockInv, Counting, HandOver, Phases

LEMMA IInvStep == IInv /\ [Next]_vars => IInv'
BY LockInvStep, IncrementedStep DEF IInv, LockInv, LockStep

\* What the inductive invariant says of the critical section and the counter.
LEMMA LockInvImplies == LockInv => MutualExclusion /\ RaceFree /\ Turnstiles
BY DEF LockInv, Turnstiles, OneToken, MutexHeld, MutualExclusion, RaceFree, Holding, At

LEMMA IInvImplies == IInv => MutualExclusion /\ RaceFree /\ CounterExact
<1> SUFFICES ASSUME IInv PROVE MutualExclusion /\ RaceFree /\ CounterExact
  OBVIOUS
<1>1. MutualExclusion /\ RaceFree
  BY LockInvImplies DEF IInv
<1>2. ASSUME main = "ended" PROVE critical = Cardinality(Threads)
  <2>1. At(Counted) = Threads
    BY <1>2 DEF IInv, Incremented, Counted, At
  <2> QED BY <2>1 DEF IInv, Incremented
<1> QED BY <1>1, <1>2 DEF CounterExact

THEOREM Invariance == Spec => []IInv
<1> QED BY InitIInv, IInvStep, PTL DEF Spec

\* Types: in particular no semaphore ever becomes negative.
THEOREM TypeCorrect == Spec => []TypeOK
<1>1. IInv => TypeOK
  BY DEF IInv, LockInv
<1> QED BY <1>1, Invariance, PTL

\* ns_mutex_acquire and ns_mutex_release (lines 45-74) enclose a critical
\* section, for any finite number of workers.
THEOREM MutualExclusionHolds == Spec => []MutualExclusion
<1> QED BY IInvImplies, Invariance, PTL

\* The plain accesses of lines 47, 51, 53, 63, 69 and 86 never race, so the
\* unlocked counters are as good as locked ones.
THEOREM RaceFreedom == Spec => []RaceFree
<1> QED BY IInvImplies, Invariance, PTL

\* warteraum1 and warteraum2 count exactly the threads they are meant to.
THEOREM CountsAreExact == Spec => []CountsExact
<1>1. IInv => CountsExact
  BY DEF IInv, LockInv
<1> QED BY <1>1, Invariance, PTL

\* One token, and an open turnstile is always open for somebody: the phases
\* of the header comment (lines 16-19).
THEOREM PhasesAlternate == Spec => []Phases
<1>1. IInv => Phases
  BY DEF IInv, LockInv
<1> QED BY <1>1, Invariance, PTL

\* The counters and the semaphores they steer, together.
THEOREM TurnstilesAlternate == Spec => []Turnstiles
<1>1. IInv => Turnstiles
  BY LockInvImplies DEF IInv
<1> QED BY <1>1, Invariance, PTL

\* main prints the number of workers it created (line 112).
THEOREM NoLostIncrement == Spec => []CounterExact
<1> QED BY IInvImplies, Invariance, PTL

-----------------------------------------------------------------------------
(* Clients that come back *)

\* Past drehkreuz1 and not yet in.
Batch == {"room2", "relock", "leave1", "open1", "open2", "turnstile2", "leave2"}

\* The token is on drehkreuz2's side: a batch is let in, one by one.
Entering == drehkreuz2 = 1 \/ At({"open2", "leave2", "critical", "release"}) # {}

\* While a batch is let in, u gets past a thread t at drehkreuz1 when u leaves
\* the batch; then all who wait join the next batch before anybody gets in, and
\* u gets past t once more at most, when u leaves that one.
Bypasses ==
    /\ bypassed \in [Threads -> [Threads -> 0..2]]
    /\ \A t \in At({"turnstile1"}), u \in Threads :
           /\ bypassed[t][u] <= 1
           /\ Entering /\ u \in At(Batch) => bypassed[t][u] = 0
    /\ \A t \in At(Batch), u \in Threads :
           ~Entering \/ u \in At(Batch) => bypassed[t][u] <= 1

ClientInv == LockInv /\ Bypasses

\* What Observe does to one count.
LEMMA Observed ==
    ASSUME Bypasses, Observe, MaxBypass >= 2, NEW t \in Threads, NEW u \in Threads
    PROVE  /\ bypassed' = [r \in Threads |-> [s \in Threads |-> bypassed'[r][s]]]
           /\ t \notin Waiting => bypassed'[t][u] = 0
           /\ t \in Waiting /\ ~(pc[u] = "leave2" /\ pc'[u] = "critical")
                => bypassed'[t][u] = bypassed[t][u]
           /\ t \in Waiting /\ pc[u] = "leave2" /\ pc'[u] = "critical"
                => bypassed'[t][u] = bypassed[t][u] + 1
<1>1. bypassed[t][u] \in 0..2 /\ MaxBypass \in Nat
  BY ClientsAssumption DEF Bypasses
<1>2. bypassed[t][u] <= MaxBypass
  BY <1>1
<1> QED BY <1>1, <1>2 DEF Observe

LEMMA BypassesStep == ClientInv /\ MaxBypass >= 2 /\ [ClientNext]_cvars => Bypasses'
<1> SUFFICES ASSUME ClientInv, MaxBypass >= 2, [ClientNext]_cvars PROVE Bypasses'
  OBVIOUS
<1>1. CASE UNCHANGED cvars
  BY <1>1 DEF ClientInv, cvars, vars, turnstiles, Bypasses, Entering, At
<1>2. ASSUME NEW m \in Threads, Create(m) \/ Client(m) \/ Again(m), Observe PROVE Bypasses'
  <2>1. /\ TypeOK /\ OneToken /\ CountsExact /\ Bypasses
        /\ CountsExact'
    BY <1>2, LockInvStep DEF ClientInv, LockInv, LockStep, Next, Main, Worker, Client
  <2>2. SUFFICES ASSUME NEW t \in Threads, NEW u \in Threads
                 PROVE  /\ bypassed'[t][u] \in 0..2
                        /\ pc'[t] = "turnstile1" =>
                              bypassed'[t][u] <= 1 /\ (Entering' /\ pc'[u] \in Batch => bypassed'[t][u] = 0)
                        /\ pc'[t] \in Batch =>
                              (~Entering' \/ pc'[u] \in Batch => bypassed'[t][u] <= 1)
    <3>1. bypassed' = [r \in Threads |-> [s \in Threads |-> bypassed'[r][s]]]
      BY <1>2, Observed DEF ClientInv
    <3> QED BY <3>1, <2>2 DEF Bypasses, At
  <2>3. /\ bypassed[t][u] \in 0..2
        /\ pc[t] = "turnstile1" =>
              bypassed[t][u] <= 1 /\ (Entering /\ pc[u] \in Batch => bypassed[t][u] = 0)
        /\ pc[t] \in Batch => (~Entering \/ pc[u] \in Batch => bypassed[t][u] <= 1)
    BY <2>1 DEF Bypasses, At
  <2>4. t \in Waiting <=> pc[t] = "turnstile1" \/ pc[t] \in Batch
    BY DEF Waiting, At, Batch
  <2>5. /\ t \notin Waiting => bypassed'[t][u] = 0
        /\ t \in Waiting /\ ~(pc[u] = "leave2" /\ pc'[u] = "critical")
             => bypassed'[t][u] = bypassed[t][u]
        /\ t \in Waiting /\ pc[u] = "leave2" /\ pc'[u] = "critical"
             => bypassed'[t][u] = bypassed[t][u] + 1
    BY <1>2, Observed DEF ClientInv
  <2>6. \A from, to : Goto(m, from, to) =>
           pc[m] = from /\ pc'[m] = to /\ \A r \in Threads \ {m} : pc'[r] = pc[r]
    BY <2>1 DEF Goto, TypeOK
  \* One of the batch gets in.
  <2>7. CASE LeaveRoom2(m)
    <3>1. /\ Entering /\ Entering' /\ "leave2" \in Batch
          /\ "critical" \notin Batch /\ "turnstile1" \notin Batch
      BY <2>6, <2>7 DEF Entering, At, Batch, LeaveRoom2
    <3>2. /\ pc[m] = "leave2"
          /\ pc'[t] = IF t = m THEN "critical" ELSE pc[t]
          /\ pc'[u] = IF u = m THEN "critical" ELSE pc[u]
      BY <2>6, <2>7 DEF LeaveRoom2
    <3>3. CASE u = m
      <4>1. t \in Waiting => bypassed'[t][u] = bypassed[t][u] + 1
        BY <2>5, <3>2, <3>3
      <4>2. pc[t] = "turnstile1" => bypassed[t][u] = 0
        BY <2>3, <3>1, <3>2, <3>3
      <4>3. pc[t] \in Batch => bypassed[t][u] <= 1
        BY <2>3, <3>1, <3>2, <3>3
      <4>4. bypassed'[t][u] \in 0..2 /\ (pc[t] = "turnstile1" => bypassed'[t][u] <= 1)
        BY <2>3, <2>4, <2>5, <4>1, <4>2, <4>3
      <4> QED BY <3>1, <3>2, <3>3, <4>4
    <3>4. CASE u # m
      <4>1. bypassed'[t][u] = IF t \in Waiting THEN bypassed[t][u] ELSE 0
        <5>1. ~(pc[u] = "leave2" /\ pc'[u] = "critical")
          BY <3>2, <3>4
        <5> QED BY <2>5, <5>1
      <4> QED BY <2>3, <2>4, <3>1, <3>2, <3>4, <4>1
    <3> QED BY <3>3, <3>4
  <2>8. CASE EnterRoom1(m)
    <3>1. (Entering' <=> Entering) /\ "room1" \notin Batch /\ "turnstile1" \notin Batch
      BY <2>1, <2>8 DEF EnterRoom1, Entering, At, Goto, turnstiles, TypeOK, Batch
    <3> QED BY <2>3, <2>4, <2>5, <2>6, <2>8, <3>1 DEF EnterRoom1
  \* Others join the batch before anybody gets in.
  <2>9. CASE PassTurnstile1(m)
    <3>1. ~Entering /\ ~Entering' /\ "turnstile1" \notin Batch
      BY <2>1, <2>9 DEF PassTurnstile1, Wait, OneToken, Holding, Entering, At, Goto, TypeOK, Batch
    <3> QED BY <2>3, <2>4, <2>5, <2>6, <2>9, <3>1 DEF PassTurnstile1
  \* The last one to join leaves nobody at drehkreuz1.
  <2>10. CASE LeaveRoom1(m)
    <3>1. /\ pc[m] = "leave1" /\ pc'[m] \in {"open1", "open2"} /\ "leave1" \in Batch
          /\ "open1" \in Batch /\ "open2" \in Batch /\ ~Entering
          /\ \A r \in Threads \ {m} : pc'[r] = pc[r]
      <4>1. /\ pc[m] = "leave1" /\ pc'[m] \in {"open1", "open2"}
            /\ \A r \in Threads \ {m} : pc'[r] = pc[r]
        BY <2>1, <2>10 DEF LeaveRoom1, Goto, TypeOK
      <4>2. ~Entering
        BY <2>1, <4>1 DEF OneToken, Holding, Entering, At, TypeOK
      <4> QED BY <4>1, <4>2 DEF Batch
    <3>2. CASE pc'[m] = "open1"
      <4>1. ~Entering'
        BY <2>1, <2>10, <3>1, <3>2 DEF LeaveRoom1, turnstiles, OneToken, Holding, Entering, At
      <4> QED BY <2>3, <2>4, <2>5, <3>1, <3>2, <4>1
    <3>3. CASE pc'[m] = "open2"
      <4>1. warteraum1' = 0
        BY <2>1, <2>10, <3>1, <3>3 DEF LeaveRoom1, Goto, TypeOK
      <4>2. At(Room1)' = {}
        BY <2>1, <4>1, CountsAreNatural DEF CountsExact
      <4>3. pc'[t] # "turnstile1"
        BY <4>2 DEF At, Room1
      <4> QED BY <2>3, <2>4, <2>5, <3>1, <3>3, <4>3
    <3> QED BY <3>1, <3>2, <3>3
  \* drehkreuz1 is opened when the batch is empty.
  <2>11. CASE Release(m)
    <3>1. /\ pc[m] = "release" /\ pc'[m] = "after" /\ "release" \notin Batch /\ "after" \notin Batch
          /\ \A r \in Threads \ {m} : pc'[r] = pc[r]
          /\ Entering
      BY <2>6, <2>11 DEF Release, Batch, Entering, At
    <3>2. CASE warteraum2 # 0
      <4>1. Entering'
        BY <2>1, <2>11, <3>1, <3>2 DEF Release, Post, OneToken, Holding, Entering, At, TypeOK
      <4> QED BY <2>3, <2>4, <2>5, <3>1, <4>1
    <3>3. CASE warteraum2 = 0
      <4>1. At(Room2) = {}
        BY <2>1, <3>3, CountsAreNatural DEF CountsExact
      <4>2. \A r \in Threads : pc[r] \notin Batch
        BY <2>1, <3>1, <4>1 DEF Room2, At, Batch, OneToken, Holding
      <4> QED BY <2>3, <2>4, <2>5, <3>1, <4>2
    <3> QED BY <3>2, <3>3
  <2>12. CASE Open1(m) \/ Open2(m) \/ PassTurnstile2(m) \/ Use(m)
    <3>1. Entering' <=> Entering
      <4>1. CASE Open1(m)
        BY <2>1, <2>6, <4>1 DEF Open1, Post, OneToken, Holding, Entering, At, TypeOK
      <4>2. CASE Open2(m)
        BY <2>1, <2>6, <4>2 DEF Open2, Post, OneToken, Holding, Entering, At, TypeOK
      <4>3. CASE PassTurnstile2(m)
        BY <2>1, <2>6, <4>3 DEF PassTurnstile2, Wait, OneToken, Holding, Entering, At, TypeOK
      <4>4. CASE Use(m)
        BY <2>1, <2>6, <4>4 DEF Use, turnstiles, Entering, At
      <4> QED BY <2>12, <4>1, <4>2, <4>3, <4>4
    <3>2. /\ pc[m] # "leave2" /\ (pc'[m] \in Batch <=> pc[m] \in Batch)
          /\ pc[m] # "turnstile1" /\ pc'[m] # "turnstile1"
          /\ \A r \in Threads \ {m} : pc'[r] = pc[r]
      BY <2>6, <2>12 DEF Open1, Open2, PassTurnstile2, Use, Batch
    <3> QED BY <2>3, <2>4, <2>5, <3>1, <3>2
  <2>13. CASE Create(m) \/ Again(m) \/ LockRoom1(m) \/ EnterRoom2(m) \/ LockAgain(m)
    <3>1. /\ pc[m] \notin {"leave2", "open2", "critical", "release", "turnstile1"}
          /\ pc'[m] \notin {"leave2", "open2", "critical", "release", "turnstile1"}
          /\ (pc'[m] \in Batch <=> pc[m] \in Batch)
          /\ \A r \in Threads \ {m} : pc'[r] = pc[r]
          /\ drehkreuz2' = drehkreuz2
      BY <2>6, <2>13 DEF Create, Again, LockRoom1, EnterRoom2, LockAgain, turnstiles, Batch
    <3>2. Entering' <=> Entering
      BY <3>1 DEF Entering, At
    <3> QED BY <2>3, <2>4, <2>5, <3>1, <3>2
  <2> QED
    BY <1>2, <2>7, <2>8, <2>9, <2>10, <2>11, <2>12, <2>13 DEF Client, Acquire
<1> QED BY <1>1, <1>2 DEF ClientNext

LEMMA ClientInvInit == ClientInit => ClientInv
<1> SUFFICES ASSUME ClientInit PROVE ClientInv
  OBVIOUS
<1>1. LockInv
  BY InitIInv DEF ClientInit, IInv
<1>2. Bypasses
  BY DEF ClientInit, Init, Bypasses, At, Batch
<1> QED BY <1>1, <1>2 DEF ClientInv

LEMMA ClientLockStep == LockInv /\ [ClientNext]_cvars => LockInv'
<1> SUFFICES ASSUME LockInv, [ClientNext]_cvars PROVE LockInv'
  OBVIOUS
<1>1. [LockStep]_vars
  BY DEF ClientNext, cvars, Client, LockStep, Next, Main, Worker
<1> QED BY <1>1, LockInvStep

\* The lock is as safe for clients that come back as for the workers: mutual
\* exclusion, no races on the unlocked counters, alternating turnstiles.
THEOREM ClientsExclude == ClientSpec => [](MutualExclusion /\ RaceFree /\ Turnstiles)
<1>1. ClientInit => LockInv
  BY ClientInvInit DEF ClientInv
<1> QED BY <1>1, ClientLockStep, LockInvImplies, PTL DEF ClientSpec

\* The question of lines 11-12: once in warteraum1, a thread is overtaken by any
\* other thread twice at most, however many threads there are and however
\* often they come back, although the semaphores promise no order.
THEOREM BypassBounded == ASSUME MaxBypass >= 2 PROVE ClientSpec => []BoundedBypass
<1>1. ClientInv /\ [ClientNext]_cvars => ClientInv'
  BY ClientLockStep, BypassesStep DEF ClientInv
<1>2. ClientInv => BoundedBypass
  <2> SUFFICES ASSUME ClientInv, NEW t \in Threads, NEW u \in Threads
               PROVE  bypassed[t][u] <= MaxBypass
    BY DEF BoundedBypass
  <2>1. bypassed[t][u] \in 0..2 /\ MaxBypass \in Nat
    BY ClientsAssumption DEF ClientInv, Bypasses
  <2> QED BY <2>1
<1> QED BY <1>1, <1>2, ClientInvInit, PTL DEF ClientSpec
=============================================================================
