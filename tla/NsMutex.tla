------------------------------ MODULE NsMutex ------------------------------
(***************************************************************************)
(* "Mutual Exclusion Problems/mutex-nostarve.c": a mutex built from three  *)
(* semaphores (Morris's algorithm).  Threads gather in warteraum1, pass    *)
(* drehkreuz1 one at a time into warteraum2 and, once warteraum1 is empty, *)
(* pass drehkreuz2 one at a time into the critical section.                *)
(*                                                                         *)
(* Threads are the num_threads workers of main.  A plain access and the   *)
(* semaphore operation next to it are one step when no other thread can    *)
(* reach the variable in between; RaceFree is the check that this is so.   *)
(***************************************************************************)
EXTENDS ThreadLabels, Semaphores

VARIABLES
    warteraum1,         \* threads that still have to pass drehkreuz1
    warteraum2,         \* threads that still have to pass drehkreuz2
    mutex,              \* semaphore that protects warteraum1
    drehkreuz1,         \* semaphore: first turnstile
    drehkreuz2,         \* semaphore: second turnstile
    critical,           \* the shared counter the workers increment
    main                \* "running" until main has joined every worker

rooms == <<warteraum1, warteraum2>>
turnstiles == <<drehkreuz1, drehkreuz2>>
vars == <<pc, rooms, mutex, turnstiles, critical, main>>

Labels == {"new", "acquire", "room1", "turnstile1", "room2", "relock",
           "leave1", "open1", "open2", "turnstile2", "leave2", "critical",
           "release", "after"}

\* Mutant: the second turnstile starts open, like the first.
InitBothOpen ==
    /\ pc = [t \in Threads |-> "new"]
    /\ warteraum1 = 0 /\ warteraum2 = 0
    /\ mutex = 1 /\ drehkreuz1 = 1 /\ drehkreuz2 = 1
    /\ critical = 0
    /\ main = "running"

Init ==
    /\ pc = [t \in Threads |-> "new"]
    /\ warteraum1 = 0 /\ warteraum2 = 0
    /\ mutex = 1 /\ drehkreuz1 = 1 /\ drehkreuz2 = 0
    /\ critical = 0
    /\ main = "running"

-----------------------------------------------------------------------------
(* ns_mutex_acquire *)

LockRoom1(t) ==
    /\ Goto(t, "acquire", "room1")
    /\ Wait(mutex)
    /\ UNCHANGED <<rooms, turnstiles, critical, main>>

EnterRoom1(t) ==
    /\ Goto(t, "room1", "turnstile1")
    /\ warteraum1' = warteraum1 + 1
    /\ Post(mutex)
    /\ UNCHANGED <<warteraum2, turnstiles, critical, main>>

PassTurnstile1(t) ==
    /\ Goto(t, "turnstile1", "room2")
    /\ Wait(drehkreuz1)
    /\ UNCHANGED <<rooms, mutex, drehkreuz2, critical, main>>

\* Not under mutex: whoever passed drehkreuz1 relies on being alone here.
EnterRoom2(t) ==
    /\ Goto(t, "room2", "relock")
    /\ warteraum2' = warteraum2 + 1
    /\ UNCHANGED <<warteraum1, mutex, turnstiles, critical, main>>

LockAgain(t) ==
    /\ Goto(t, "relock", "leave1")
    /\ Wait(mutex)
    /\ UNCHANGED <<rooms, turnstiles, critical, main>>

\* Mutant: drehkreuz2 is opened while others still are in warteraum1.
LeaveRoom1Early(t) ==
    /\ Goto(t, "leave1", "open2")
    /\ warteraum1' = warteraum1 - 1
    /\ Post(mutex)
    /\ UNCHANGED <<warteraum2, turnstiles, critical, main>>

\* The value just written decides which turnstile is opened after the post.
LeaveRoom1(t) ==
    /\ Goto(t, "leave1", IF warteraum1 - 1 = 0 THEN "open2" ELSE "open1")
    /\ warteraum1' = warteraum1 - 1
    /\ Post(mutex)
    /\ UNCHANGED <<warteraum2, turnstiles, critical, main>>

Open2(t) ==
    /\ Goto(t, "open2", "turnstile2")
    /\ Post(drehkreuz2)
    /\ UNCHANGED <<rooms, mutex, drehkreuz1, critical, main>>

Open1(t) ==
    /\ Goto(t, "open1", "turnstile2")
    /\ Post(drehkreuz1)
    /\ UNCHANGED <<rooms, mutex, drehkreuz2, critical, main>>

PassTurnstile2(t) ==
    /\ Goto(t, "turnstile2", "leave2")
    /\ Wait(drehkreuz2)
    /\ UNCHANGED <<rooms, mutex, drehkreuz1, critical, main>>

LeaveRoom2(t) ==
    /\ Goto(t, "leave2", "critical")
    /\ warteraum2' = warteraum2 - 1
    /\ UNCHANGED <<warteraum1, mutex, turnstiles, critical, main>>

-----------------------------------------------------------------------------
(* the worker's critical section, and ns_mutex_release *)

Critical(t) ==
    /\ Goto(t, "critical", "release")
    /\ critical' = critical + 1
    /\ UNCHANGED <<rooms, mutex, turnstiles, main>>

\* Mutant: warteraum1 is tested in place of warteraum2.
ReleaseWrongRoom(t) ==
    /\ Goto(t, "release", "after")
    /\ \/ warteraum1 = 0 /\ Post(drehkreuz1) /\ UNCHANGED drehkreuz2
       \/ warteraum1 # 0 /\ Post(drehkreuz2) /\ UNCHANGED drehkreuz1
    /\ UNCHANGED <<rooms, mutex, critical, main>>

Release(t) ==
    /\ Goto(t, "release", "after")
    /\ \/ warteraum2 = 0 /\ Post(drehkreuz1) /\ UNCHANGED drehkreuz2
       \/ warteraum2 # 0 /\ Post(drehkreuz2) /\ UNCHANGED drehkreuz1
    /\ UNCHANGED <<rooms, mutex, critical, main>>

-----------------------------------------------------------------------------
(* main: the workers' identities do not matter, so neither does their order *)

Create(t) ==
    /\ Goto(t, "new", "acquire")
    /\ UNCHANGED <<rooms, mutex, turnstiles, critical, main>>

JoinAll ==
    /\ main = "running"
    /\ \A t \in Threads : pc[t] = "after"
    /\ main' = "ended"
    /\ UNCHANGED <<pc, rooms, mutex, turnstiles, critical>>

Acquire(t) ==
    \/ LockRoom1(t) \/ EnterRoom1(t) \/ PassTurnstile1(t) \/ EnterRoom2(t)
    \/ LockAgain(t) \/ LeaveRoom1(t) \/ Open2(t) \/ Open1(t)
    \/ PassTurnstile2(t) \/ LeaveRoom2(t)

Worker(t) == Acquire(t) \/ Critical(t) \/ Release(t)

Main == JoinAll \/ \E t \in Threads : Create(t)

Terminated == main = "ended" /\ UNCHANGED vars

Next == Main \/ (\E t \in Threads : Worker(t)) \/ Terminated

Spec == Init /\ [][Next]_vars

-----------------------------------------------------------------------------
\* Registered in warteraum1; registered in warteraum2; through with critical++.
Room1 == {"turnstile1", "room2", "relock", "leave1"}
Room2 == {"relock", "leave1", "open1", "open2", "turnstile2", "leave2"}
Counted == {"release", "after"}

\* Took a token from a turnstile and has not put one back.
Holding == {"room2", "relock", "leave1", "open1", "open2", "leave2",
            "critical", "release"}

TypeOK ==
    /\ pc \in [Threads -> Labels]
    /\ warteraum1 \in Int /\ warteraum2 \in Int
    /\ mutex \in Nat /\ drehkreuz1 \in Nat /\ drehkreuz2 \in Nat
    /\ critical \in Nat
    /\ main \in {"running", "ended"}

\* At most one thread is between ns_mutex_acquire and the end of
\* ns_mutex_release (worker, lines 84-87).
MutualExclusion ==
    \A s, t \in At({"critical", "release"}) : s = t

\* No two threads are about to touch the same plain variable: warteraum2 and
\* critical are accessed without holding mutex (lines 51, 63, 69 and 86), and
\* warteraum1 under it (lines 47 and 53).
RaceFree ==
    /\ \A s, t \in At({"room2", "leave2", "release"}) : s = t
    /\ \A s, t \in At({"critical"}) : s = t
    /\ \A s, t \in At({"room1", "leave1"}) : s = t

\* The two counters the turnstiles are steered by are exact, although one is
\* updated without a lock (lines 47, 51, 53, 63).
CountsExact ==
    /\ warteraum1 = Cardinality(At(Room1))
    /\ warteraum2 = Cardinality(At(Room2))

\* The phases of the header comment (lines 16-19): there is one token, on a
\* turnstile or with one thread; drehkreuz2 is open only for somebody who
\* waits there, and drehkreuz1 is open while somebody waits at drehkreuz2 only
\* when another thread will come through drehkreuz1 and hand the token on.
Phases ==
    /\ drehkreuz1 + drehkreuz2 + Cardinality(At(Holding)) = 1
    /\ drehkreuz2 = 1 => At({"turnstile2"}) # {}
    /\ (drehkreuz1 = 1 /\ At({"turnstile2"}) # {}) => At({"turnstile1"}) # {}

\* The two semaphores admit one thread at a time and never all stay closed, since
\* the counters that steer them are exact.
Turnstiles == CountsExact /\ Phases

\* No increment of critical is lost: main prints num_threads (line 112).
CounterExact == main = "ended" => critical = Cardinality(Threads)

=============================================================================
