---------------------------- MODULE LockPrograms ----------------------------
(***************************************************************************)
(* The small programs of "Mutual Exclusion", and rendezvous.c, fork-join.c *)
(* and simple-counter.c: a few threads, each a list of calls without       *)
(* branches, but for the loops that wait.  A program is the sequence of    *)
(* its threads' code, main first; an increment is a load and a store.      *)
(***************************************************************************)
EXTENDS Integers, Sequences

CONSTANTS
    Loop,               \* the threads that simple-counter.c creates
    MaxSpurious         \* wake-ups for no reason, at most

Parameters == Loop \in Nat /\ MaxSpurious \in Nat

Do(op, on) == [op |-> op, on |-> on]

Create(n) == [c \in 1..n |-> Do("create", c + 1)]
Join(n) == [c \in 1..n |-> Do("join", c + 1)]

-----------------------------------------------------------------------------
(* Mutual Exclusion: main-deadlock.c, main-deadlock-global.c, main-race.c *)

LockBoth(first, second) ==
    <<Do("lock", first), Do("lock", second), Do("unlock", "m1"), Do("unlock", "m2")>>

main_deadlock ==
    <<Create(2) \o Join(2), LockBoth("m1", "m2"), LockBoth("m2", "m1")>>

\* Mutant: without the global lock.
GlobalNot == main_deadlock

main_deadlock_global ==
    <<Create(2) \o Join(2),
      <<Do("lock", "g")>> \o LockBoth("m1", "m2") \o <<Do("unlock", "g")>>,
      <<Do("lock", "g")>> \o LockBoth("m2", "m1") \o <<Do("unlock", "g")>> >>

increment ==
    <<Do("lock", "lock"), Do("load", "value"), Do("store", "value"), Do("unlock", "lock")>>

main_race == <<Create(1) \o increment \o Join(1), increment>>

-----------------------------------------------------------------------------
(* main-signal.c, main-signal-cv.c *)

\* Compiled without optimisation (Makefile): the loop reads done again.
main_signal ==
    <<Create(1) \o <<Do("spin", "done"), Do("print", "last")>>,
      <<Do("print", "first"), Do("set", "done")>> >>

signal_done ==
    <<Do("lock", "lock"), Do("set", "done"), Do("signal", "cond"), Do("unlock", "lock")>>

\* Mutant: if in place of while.
SignalWaitIf ==
    <<Do("lock", "lock"), Do("test", "done"), Do("sleep", "cond"), Do("lock", "lock"),
      Do("unlock", "lock")>>

\* pthread_cond_wait gives the lock back and, once woken, takes it again; then
\* done is tested again.
signal_wait ==
    <<Do("lock", "lock"), Do("test", "done"), Do("sleep", "cond"), Do("again", "lock"),
      Do("unlock", "lock")>>

main_signal_cv ==
    <<Create(1) \o signal_wait \o <<Do("print", "last")>>,
      <<Do("print", "first")>> \o signal_done>>

-----------------------------------------------------------------------------
(* simple-counter.c, rendezvous.c, fork-join.c *)

get == <<Do("lock", "lock"), Do("load", "value"), Do("unlock", "lock")>>

simple_counter ==
    <<Create(Loop) \o Join(Loop) \o get>> \o [c \in 1..Loop |-> increment]

\* Mutant: waits for itself.
RendezvousAlone ==
    <<Create(2) \o Join(2),
      <<Do("print", "before"), Do("post", "OneArrived"), Do("wait", "OneArrived"), Do("print", "after")>>,
      <<Do("print", "before"), Do("post", "TwoArrived"), Do("wait", "TwoArrived"), Do("print", "after")>> >>

rendezvous ==
    <<Create(2) \o Join(2),
      <<Do("print", "before"), Do("post", "OneArrived"), Do("wait", "TwoArrived"), Do("print", "after")>>,
      <<Do("print", "before"), Do("post", "TwoArrived"), Do("wait", "OneArrived"), Do("print", "after")>> >>

fork_join ==
    <<Create(1) \o <<Do("wait", "s"), Do("print", "last")>>,
      <<Do("print", "first"), Do("post", "s")>> >>

Program ==
    [main_deadlock |-> main_deadlock, main_deadlock_global |-> main_deadlock_global,
     main_race |-> main_race, main_signal |-> main_signal,
     main_signal_cv |-> main_signal_cv, simple_counter |-> simple_counter,
     rendezvous |-> rendezvous, fork_join |-> fork_join]

-----------------------------------------------------------------------------
VARIABLES
    program,
    at,                 \* each thread's next call, 0 before it is created
    holder,             \* of each mutex, 0 when it is free
    semaphore,
    value, copy,        \* the counter; a thread's copy between load and store
    done, asleep,       \* the flag, and who sleeps on the condition variable
    spurious,           \* the wake-ups for no reason so far
    printed             \* who has printed what

data == <<value, copy>>
flag == <<done, asleep, spurious>>
vars == <<program, at, holder, semaphore, data, flag, printed>>

Code == Program[program]
Members == DOMAIN Code

Init ==
    /\ program \in DOMAIN Program
    /\ at = [t \in Members |-> IF t = 1 THEN 1 ELSE 0]
    /\ holder = [m \in {"m1", "m2", "g", "lock"} |-> 0]
    /\ semaphore = [s \in {"OneArrived", "TwoArrived", "s"} |-> 0]
    /\ value = 0 /\ copy = [t \in Members |-> 0]
    /\ done = FALSE /\ asleep = {} /\ spurious = 0 /\ printed = {}

Ended(t) == at[t] > Len(Code[t])

\* t's next call is op; the threads end when main returns.
At(t, op) == ~Ended(1) /\ at[t] # 0 /\ ~Ended(t) /\ Code[t][at[t]].op = op

Argument(t) == Code[t][at[t]].on

Advance(t, steps) == at' = [at EXCEPT ![t] = @ + steps]

Pthread_create(t) ==
    /\ At(t, "create")
    /\ at' = [at EXCEPT ![t] = @ + 1, ![Argument(t)] = 1]
    /\ UNCHANGED <<program, holder, semaphore, data, flag, printed>>

Pthread_join(t) ==
    /\ At(t, "join") /\ Ended(Argument(t))
    /\ Advance(t, 1)
    /\ UNCHANGED <<program, holder, semaphore, data, flag, printed>>

Pthread_mutex_lock(t) ==
    /\ At(t, "lock") /\ t \notin asleep /\ holder[Argument(t)] = 0
    /\ holder' = [holder EXCEPT ![Argument(t)] = t]
    /\ Advance(t, 1)
    /\ UNCHANGED <<program, semaphore, data, flag, printed>>

Pthread_mutex_unlock(t) ==
    /\ At(t, "unlock")
    /\ holder' = [holder EXCEPT ![Argument(t)] = 0]
    /\ Advance(t, 1)
    /\ UNCHANGED <<program, semaphore, data, flag, printed>>

Post(t) ==
    /\ At(t, "post")
    /\ semaphore' = [semaphore EXCEPT ![Argument(t)] = @ + 1]
    /\ Advance(t, 1)
    /\ UNCHANGED <<program, holder, data, flag, printed>>

Wait(t) ==
    /\ At(t, "wait") /\ semaphore[Argument(t)] > 0
    /\ semaphore' = [semaphore EXCEPT ![Argument(t)] = @ - 1]
    /\ Advance(t, 1)
    /\ UNCHANGED <<program, holder, data, flag, printed>>

Load(t) ==
    /\ At(t, "load")
    /\ copy' = [copy EXCEPT ![t] = value]
    /\ Advance(t, 1)
    /\ UNCHANGED <<program, holder, semaphore, value, flag, printed>>

Store(t) ==
    /\ At(t, "store")
    /\ value' = copy[t] + 1
    /\ Advance(t, 1)
    /\ UNCHANGED <<program, holder, semaphore, copy, flag, printed>>

Set(t) ==
    /\ At(t, "set")
    /\ done' = TRUE
    /\ Advance(t, 1)
    /\ UNCHANGED <<program, holder, semaphore, data, asleep, spurious, printed>>

\* A round that reads 0 changes nothing.
Spin(t) ==
    /\ At(t, "spin") /\ done
    /\ Advance(t, 1)
    /\ UNCHANGED <<program, holder, semaphore, data, flag, printed>>

\* Into the loop, or past it.
Test(t) ==
    /\ At(t, "test")
    /\ Advance(t, IF done THEN 3 ELSE 1)
    /\ UNCHANGED <<program, holder, semaphore, data, flag, printed>>

Sleep(t) ==
    /\ At(t, "sleep")
    /\ asleep' = asleep \cup {t} /\ holder' = [holder EXCEPT !["lock"] = 0]
    /\ Advance(t, 1)
    /\ UNCHANGED <<program, semaphore, data, done, spurious, printed>>

\* Awake, by a signal or for no reason: the lock again, and back to the test.
Again(t) ==
    /\ At(t, "again") /\ t \notin asleep /\ holder[Argument(t)] = 0
    /\ holder' = [holder EXCEPT ![Argument(t)] = t]
    /\ Advance(t, -2)
    /\ UNCHANGED <<program, semaphore, data, flag, printed>>

SpuriousWakeUp(t) ==
    /\ t \in asleep /\ spurious < MaxSpurious
    /\ asleep' = asleep \ {t} /\ spurious' = spurious + 1
    /\ UNCHANGED <<program, at, holder, semaphore, data, done, printed>>

\* One sleeper, if there is any.
Pthread_cond_signal(t) ==
    /\ At(t, "signal")
    /\ IF asleep = {} THEN UNCHANGED asleep ELSE \E u \in asleep : asleep' = asleep \ {u}
    /\ Advance(t, 1)
    /\ UNCHANGED <<program, holder, semaphore, data, done, spurious, printed>>

Printf(t) ==
    /\ At(t, "print")
    /\ printed' = printed \cup {<<t, Argument(t)>>}
    /\ Advance(t, 1)
    /\ UNCHANGED <<program, holder, semaphore, data, flag>>

Step(t) ==
    \/ Pthread_create(t) \/ Pthread_join(t) \/ Post(t) \/ Wait(t)
    \/ Pthread_mutex_lock(t) \/ Pthread_mutex_unlock(t)
    \/ Load(t) \/ Store(t) \/ Set(t) \/ Spin(t) \/ Test(t)
    \/ Sleep(t) \/ Again(t) \/ Pthread_cond_signal(t) \/ Printf(t)

\* Each worker has one lock and waits for the other.
Circle == holder["m1"] = 2 /\ holder["m2"] = 3

Terminated == (Ended(1) \/ Circle) /\ UNCHANGED vars

Next == (\E t \in Members : Step(t) \/ SpuriousWakeUp(t)) \/ Terminated

\* Every thread that can take a step does so.
Run(t) == t \in Members /\ Step(t)

Fairness == \A t \in 1..(Loop + 3) : WF_vars(Run(t))

Spec == Init /\ [][Next]_vars /\ Fairness

-----------------------------------------------------------------------------
\* No increment is lost: the last value is the number of increments (main-race.c
\* line 10, simple-counter.c line 64).
CountersExact ==
    Ended(1) => value = CASE program = "main_race" -> 2
                          [] program = "simple_counter" -> Loop
                          [] OTHER -> 0

\* "this should print first" comes before "this should print last", and child
\* before "parent: end", also when the waiter wakes up for no reason.
InOrder == <<1, "last">> \in printed => <<2, "first">> \in printed

arrived == {t \in {2, 3} : <<t, "before">> \in printed}
departed == {t \in {2, 3} : <<t, "after">> \in printed}

R == INSTANCE Rendezvous WITH Threads <- {2, 3}

\* "each child should print their 'before' message before either prints their
\* 'after' message" (rendezvous.c, lines 7-8).
Meets == R!Spec

\* The end of every program; main-deadlock.c may end up in the circle that the
\* global lock of main-deadlock-global.c prevents.
Done == Ended(1) \/ (program = "main_deadlock" /\ Circle)

=============================================================================
