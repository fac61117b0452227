------------------------ MODULE MCKernelModulesProofs ------------------------
(***************************************************************************)
(* The safety of the kernel threads and of the deferred work of hw5, for   *)
(* any width of the jiffies, any interval and any delay of a call; and     *)
(* what the character devices of hw4 and hw5 hold while they are loaded,   *)
(* whichever calls of init fail.                                           *)
(***************************************************************************)
EXTENDS MCKernelModules, Sequences, FiniteSetTheorems, TLAPS

-----------------------------------------------------------------------------
(* mykthread and mysemaphore *)

Labels == {"none", "created", "loop", "lock", "load", "store", "sleep", "complete", "exited"}

ThreadsUsed == IF program = "mykthread" THEN 1 ELSE 2

\* The completions that rmmod has waited for.
Waited == CASE exit = "wait" -> k - 1
            [] exit = "gone" -> ThreadsUsed
            [] OTHER -> 0

Exited(t) == IF pc[t] = "exited" THEN 1 ELSE 0

\* Every thread that exits completes once, and rmmod takes one completion for
\* each thread; whose completion it is does not matter.
KthreadInv ==
    /\ program \in {"mykthread", "mysemaphore"}
    /\ pc \in [Threads -> Labels]
    /\ \A t \in Threads : pc[t] = "none" <=> t > ThreadsUsed
    /\ completions \in Nat /\ exit \in {"loaded", "kill", "wait", "gone", "oops"}
    /\ k \in 1..ThreadsUsed
    /\ completions + Waited = Exited(1) + Exited(2)

-----------------------------------------------------------------------------
(* mytimer, myworkqueue and mytasklet *)

DeferredTypes ==
    /\ item \in {"mytimer", "myworkqueue", "mytasklet"}
    /\ module \in {"live", "exit", "gone"}
    /\ queued \in BOOLEAN /\ due \in Nat /\ calls \in {0, 1}
    /\ func \in {"idle", "measure", "stamp", "again", "end"}
    /\ func \in {"measure", "stamp", "again"} => ~queued
    /\ func = "stamp" => item = "myworkqueue"
    /\ now \in 0..(W - 1) /\ elapsed \in 0..MaxDelay
    /\ jiff \in [prev : 0..(W - 1), min : Nat, max : Nat]
    /\ nanosecs \in [min : Int, max : Int]
    /\ delays \subseteq Int

\* What is left to be called when the module is gone was being called when it
\* was cancelled, and only cancel_delayed_work does not wait for that.
LeftOver ==
    /\ item = "mytasklet" => func \in {"idle", "end"} /\ (~queued => calls = 1)
    /\ module = "gone" =>
          /\ queued \/ func # "idle" => item = "myworkqueue" /\ cancelled # "idle"
          /\ item = "mytasklet" => ~queued

\* The clock is where it was at the last call plus the time since, modulo W.
Clock == now \in {jiff.prev + elapsed, jiff.prev + elapsed - W}

\* A call comes an interval after the last one, or later.
NotEarly ==
    /\ queued /\ item # "mytasklet" => due + elapsed >= Interval
    /\ func = "again" /\ item = "mytimer" => due + elapsed >= Interval
    /\ func = "measure" => elapsed >= Interval

\* The extremes are those of the delays so far.
Extremes ==
    /\ \A d \in delays : Interval <= d /\ d <= MaxDelay /\ jiff.min <= d /\ d <= jiff.max
    /\ IF delays = {} THEN jiff.min = W - 1 /\ jiff.max = 0
       ELSE /\ jiff.min \in delays /\ jiff.max \in delays
            /\ nanosecs.min = jiff.min /\ nanosecs.max = jiff.max

\* Without a delay that was measured the extremes are only initial values.
DeferredInv ==
    /\ DeferredTypes /\ LeftOver
    /\ item = "mytasklet" => delays = {}
    /\ item # "mytasklet" => Clock /\ NotEarly /\ Extremes

-----------------------------------------------------------------------------
(* Lemmas about the operators *)

LEMMA Parameters ==
    /\ Threads = {1, 2}
    /\ W \in Nat /\ Interval \in Nat \ {0} /\ MaxDelay \in Nat
    /\ Interval <= MaxDelay /\ MaxDelay < W - 1
BY ParametersAssumption DEF Kthread!Parameters, Deferred!Parameters

LEMMA UsedThreads == Kthread!Cardinality(Kthread!Used) = ThreadsUsed
<1>1. Cardinality({1}) = 1 /\ Cardinality({1, 2}) = 2
  <2>1. Cardinality({1}) = 1 /\ IsFiniteSet({1})
    BY FS_Singleton
  <2>2. Cardinality({1} \cup {2}) = 2
    BY <2>1, FS_AddElement
  <2>3. {1} \cup {2} = {1, 2}
    OBVIOUS
  <2> QED BY <2>1, <2>2, <2>3
<1>2. Kthread!Cardinality({1}) = 1 /\ Kthread!Cardinality({1, 2}) = 2
  BY <1>1, Zenon DEF Kthread!Cardinality, Cardinality
<1> QED BY <1>2, Zenon DEF Kthread!Used, ThreadsUsed

LEMMA TwoElements ==
    \A a, b \in Int : /\ Deferred!Min({a, b}) = (IF a <= b THEN a ELSE b)
                      /\ Deferred!Max({a, b}) = (IF a >= b THEN a ELSE b)
<1> SUFFICES ASSUME NEW a \in Int, NEW b \in Int
             PROVE  /\ \E x \in {a, b} : \A y \in {a, b} : x <= y
                    /\ \E x \in {a, b} : \A y \in {a, b} : x >= y
  BY DEF Deferred!Min, Deferred!Max
<1> QED OBVIOUS

\* The extremes of a set of integers are the ones that Min and Max choose.
LEMMA ExtremesChosen ==
    ASSUME NEW S \in SUBSET Int, NEW m \in S
    PROVE  /\ (\A d \in S : m <= d) => Deferred!Min(S) = m
           /\ (\A d \in S : d <= m) => Deferred!Max(S) = m
<1>1. ASSUME \A d \in S : m <= d PROVE Deferred!Min(S) = m
  <2>1. Deferred!Min(S) \in S /\ \A y \in S : Deferred!Min(S) <= y
    BY <1>1 DEF Deferred!Min
  <2>2. Deferred!Min(S) \in Int /\ m \in Int /\ m <= Deferred!Min(S) /\ Deferred!Min(S) <= m
    BY <1>1, <2>1
  <2> QED BY <2>2
<1>2. ASSUME \A d \in S : d <= m PROVE Deferred!Max(S) = m
  <2>1. Deferred!Max(S) \in S /\ \A y \in S : Deferred!Max(S) >= y
    BY <1>2 DEF Deferred!Max
  <2>2. Deferred!Max(S) \in Int /\ m \in Int /\ m <= Deferred!Max(S) /\ Deferred!Max(S) <= m
    BY <1>2, <2>1
  <2> QED BY <2>2
<1> QED BY <1>1, <1>2

\* The clock goes on, and wraps around.
LEMMA ClockTicks == \A x \in 0..(W - 1) : (x + 1) % W = (IF x = W - 1 THEN 0 ELSE x + 1)
BY Parameters

\* The unsigned difference is the time that has passed, for a time below W.
LEMMA UnsignedDelay ==
    ASSUME DeferredTypes, Clock
    PROVE  Deferred!Delay = elapsed
<1>1. \A e \in 0..(W - 1) : e % W = e /\ (e - W) % W = e
  BY Parameters
<1>2. elapsed \in 0..(W - 1) /\ now - jiff.prev \in {elapsed, elapsed - W}
  BY Parameters DEF DeferredTypes, Clock
<1> QED BY <1>1, <1>2 DEF Deferred!Delay

-----------------------------------------------------------------------------
(* Steps of mykthread and mysemaphore *)

\* A thread goes from one label to another, and completes if it exits.
Moves(t, from, to) ==
    /\ Kthread!Goto(t, from, to) /\ from \notin {"none", "exited"}
    /\ to \in Labels \ {"none"}
    /\ completions' = completions + (IF to = "exited" THEN 1 ELSE 0)
    /\ UNCHANGED <<program, exit, k>>

LEMMA ThreadMoves ==
    ASSUME KthreadInv, NEW t \in Threads, NEW from, NEW to, Moves(t, from, to)
    PROVE  KthreadInv'
BY Parameters DEF KthreadInv, ThreadsUsed, Waited, Exited, Moves, Kthread!Goto

LEMMA ThreadSteps ==
    ASSUME NEW t \in Threads, Kthread!Thread(t), completions \in Nat
    PROVE  \E from, to \in Labels : Moves(t, from, to)
<1> USE DEF Moves, Labels, Kthread!rmmod
<1>1. CASE Kthread!Start(t)
  <2>1. Moves(t, "created", "loop")
    BY <1>1 DEF Kthread!Start
  <2> QED BY <2>1
<1>2. CASE Kthread!Loop(t)
  <2>1. Moves(t, "loop", "complete") \/ Moves(t, "loop", "sleep") \/ Moves(t, "loop", "lock")
    BY <1>2 DEF Kthread!Loop
  <2> QED BY <2>1
<1>3. CASE Kthread!LockMutex(t)
  <2>1. Moves(t, "lock", "load") \/ Moves(t, "lock", "complete")
    BY <1>3 DEF Kthread!LockMutex
  <2> QED BY <2>1
<1>4. CASE Kthread!LoadCounter(t)
  <2>1. Moves(t, "load", "store")
    BY <1>4 DEF Kthread!LoadCounter
  <2> QED BY <2>1
<1>5. CASE Kthread!StoreCounter(t)
  <2>1. Moves(t, "store", "sleep")
    BY <1>5 DEF Kthread!StoreCounter
  <2> QED BY <2>1
<1>6. CASE Kthread!WakeUp(t) \/ Kthread!Interrupted(t)
  <2>1. Moves(t, "sleep", "loop") \/ Moves(t, "sleep", "complete")
    BY <1>6 DEF Kthread!WakeUp, Kthread!Interrupted
  <2> QED BY <2>1
<1>7. CASE Kthread!CompleteAndExit(t)
  <2>1. Moves(t, "complete", "exited")
    BY <1>7 DEF Kthread!CompleteAndExit
  <2> QED BY <2>1
<1> QED BY <1>1, <1>2, <1>3, <1>4, <1>5, <1>6, <1>7 DEF Kthread!Thread

LEMMA KthreadInvStep == ASSUME KthreadInv, Kthread!Next PROVE KthreadInv'
<1>1. ASSUME NEW t \in Threads, Kthread!Thread(t) PROVE KthreadInv'
  <2>1. completions \in Nat
    BY DEF KthreadInv
  <2> QED BY <1>1, <2>1, ThreadSteps, ThreadMoves
<1> USE Parameters DEF KthreadInv, ThreadsUsed, Waited, Exited
<1>2. CASE Kthread!Rmmod
  BY <1>2 DEF Kthread!Rmmod
<1>3. CASE Kthread!Kill
  BY <1>3, UsedThreads DEF Kthread!Kill, Kthread!ForEach
<1>4. CASE Kthread!WaitForCompletion
  <2>1. /\ exit = "wait" /\ completions > 0 /\ completions' = completions - 1
        /\ UNCHANGED <<program, pc>>
        /\ IF k < ThreadsUsed THEN k' = k + 1 /\ exit' = "wait" ELSE k' = 1 /\ exit' = "gone"
    BY <1>4, UsedThreads, Zenon DEF Kthread!WaitForCompletion, Kthread!ForEach
  <2>2. CASE k < ThreadsUsed
    BY <2>1, <2>2
  <2>3. CASE k = ThreadsUsed
    BY <2>1, <2>3
  <2> QED BY <2>2, <2>3
<1>5. CASE Kthread!Done
  BY <1>5 DEF Kthread!Done, Kthread!vars, Kthread!rmmod
<1> QED BY <1>1, <1>2, <1>3, <1>4, <1>5 DEF Kthread!Next, Kthread!Exit


-----------------------------------------------------------------------------
(* Steps of mytimer, myworkqueue and mytasklet *)

LEMMA InitDeferredInv == Deferred!Init => DeferredInv
<1> USE Parameters DEF DeferredInv, DeferredTypes, LeftOver, Clock, NotEarly, Extremes,
        Deferred!Scheduled
<1>1. Deferred!TimerInit => DeferredInv
  BY DEF Deferred!TimerInit
<1>2. Deferred!InitModule => DeferredInv
  BY DEF Deferred!InitModule, Deferred!Junk
<1>3. Deferred!ModInit => DeferredInv
  BY DEF Deferred!ModInit
<1> QED BY <1>1, <1>2, <1>3 DEF Deferred!Init

LEMMA TickStep == ASSUME DeferredInv, Deferred!Tick PROVE DeferredInv'
<1>1. now' \in 0..(W - 1) /\ now' \in {now + 1, now + 1 - W}
  BY ClockTicks, Parameters DEF DeferredInv, DeferredTypes, Deferred!Tick
<1>2. due' \in Nat /\ due' >= due - 1
  <2>1. due \in Nat /\ due' = Deferred!Max({0, due - 1})
    BY DEF DeferredInv, DeferredTypes, Deferred!Tick
  <2> DEFINE d == due - 1
  <2>2. d \in Int
    BY <2>1
  <2>3. Deferred!Max({0, d}) = (IF 0 >= d THEN 0 ELSE d)
    <3> DEFINE zero == 0
    <3>1. zero \in Int
      OBVIOUS
    <3> HIDE DEF d, zero
    <3>2. Deferred!Max({zero, d}) = (IF zero >= d THEN zero ELSE d)
      BY <2>2, <3>1, TwoElements
    <3> QED BY <3>2 DEF zero
  <2> QED BY <2>1, <2>3
<1>3. /\ item \in {"mytimer", "myworkqueue"} /\ elapsed' = elapsed + 1 /\ elapsed' \in 0..MaxDelay
      /\ UNCHANGED <<item, module, queued, func, jiff, nanosecs, delays, calls, cancelled>>
  BY Parameters DEF DeferredInv, DeferredTypes, Deferred!Tick, Deferred!stats
<1>4. DeferredTypes' /\ LeftOver'
  BY <1>1, <1>2, <1>3 DEF DeferredInv, DeferredTypes, LeftOver
<1>5. Clock'
  BY <1>1, <1>3, Parameters DEF DeferredInv, DeferredTypes, Clock
<1>6. NotEarly'
  <2>1. due' + elapsed' >= due + elapsed /\ elapsed' >= elapsed
    <3>1. due \in Nat /\ elapsed \in Nat
      BY Parameters DEF DeferredInv, DeferredTypes
    <3>2. elapsed' = elapsed + 1 /\ elapsed' \in Nat
      BY <1>3, <3>1
    <3>3. due' \in Nat /\ due' >= due - 1
      BY <1>2
    <3>4. \A a, b, c \in Nat : b >= a - 1 => b + (c + 1) >= a + c /\ c + 1 >= c
      OBVIOUS
    <3> QED BY <3>1, <3>2, <3>3, <3>4, Zenon
  <2>2. {due, due', elapsed, elapsed', Interval} \subseteq Int
    BY <1>2, <1>3, Parameters DEF DeferredInv, DeferredTypes
  <2> QED BY <1>3, <2>1, <2>2 DEF DeferredInv, NotEarly
<1>7. Extremes'
  BY <1>3 DEF DeferredInv, Extremes
<1> QED BY <1>3, <1>4, <1>5, <1>6, <1>7 DEF DeferredInv

LEMMA CallStep == ASSUME DeferredInv, Deferred!Call PROVE DeferredInv'
<1> USE DEF Deferred!Step, Deferred!stats
<1>1. calls' = 1
  <2>1. calls \in {0, 1} /\ calls' = Deferred!Min({calls + 1, 1})
    BY DEF DeferredInv, DeferredTypes, Deferred!Call
  <2>2. Deferred!Min({calls + 1, 1}) = 1
    BY <2>1, TwoElements
  <2> QED BY <2>1, <2>2
<1>2. /\ queued /\ due = 0 /\ func = "idle" /\ func' = (IF item = "mytasklet" THEN "end" ELSE "measure")
      /\ queued' = FALSE
      /\ UNCHANGED <<item, module, now, cancelled, due, jiff, nanosecs, delays, elapsed>>
  BY DEF Deferred!Call
<1>3. DeferredTypes'
  BY <1>1, <1>2 DEF DeferredInv, DeferredTypes
<1>4. LeftOver'
  BY <1>1, <1>2 DEF DeferredInv, LeftOver
<1>5. item # "mytasklet" => Clock' /\ Extremes'
  BY <1>2 DEF DeferredInv, Clock, Extremes
<1>6. item # "mytasklet" => NotEarly'
  <2>1. due + elapsed = elapsed
    BY <1>2 DEF DeferredInv, DeferredTypes
  <2> QED BY <1>2, <2>1 DEF DeferredInv, NotEarly
<1> QED BY <1>2, <1>3, <1>4, <1>5, <1>6 DEF DeferredInv

\* The new delay becomes one of the delays and changes the extremes accordingly.
LEMMA MeasureStep ==
    ASSUME DeferredInv, item # "mytasklet", elapsed >= Interval, NEW prev \in 0..(W - 1),
           Deferred!Measure(prev)
    PROVE  /\ jiff' \in [prev : 0..(W - 1), min : Nat, max : Nat] /\ jiff'.prev = prev
           /\ nanosecs' \in [min : Int, max : Int] /\ delays' \subseteq Int
           /\ Extremes'
<1> DEFINE e == elapsed
<1>1. /\ e \in Nat /\ Interval <= e /\ e <= MaxDelay /\ e < W - 1 /\ e > 0
      /\ jiff \in [prev : 0..(W - 1), min : Nat, max : Nat] /\ nanosecs \in [min : Int, max : Int]
  BY Parameters DEF DeferredInv, DeferredTypes
<1>2. Deferred!Delay = e
  BY UnsignedDelay DEF DeferredInv
<1>3. /\ jiff' = [prev |-> prev, min |-> IF jiff.min <= e THEN jiff.min ELSE e,
                                max |-> IF jiff.max >= e THEN jiff.max ELSE e]
      /\ nanosecs' = [min |-> IF e < jiff.min THEN e ELSE nanosecs.min,
                      max |-> IF e > jiff.max THEN e ELSE nanosecs.max]
      /\ delays' = delays \cup {e}
  <2>1. {jiff.min, jiff.max, Deferred!Delay} \subseteq Int
    BY <1>1, <1>2
  <2>2. /\ Deferred!Min({jiff.min, Deferred!Delay})
             = (IF jiff.min <= Deferred!Delay THEN jiff.min ELSE Deferred!Delay)
        /\ Deferred!Max({jiff.max, Deferred!Delay})
             = (IF jiff.max >= Deferred!Delay THEN jiff.max ELSE Deferred!Delay)
    BY <2>1, TwoElements
  <2> QED BY <1>2, <2>2 DEF Deferred!Measure
<1> HIDE DEF e
<1>4. CASE delays = {}
  BY <1>1, <1>3, <1>4 DEF DeferredInv, DeferredTypes, Extremes
<1>5. CASE delays # {}
  BY <1>1, <1>3, <1>5 DEF DeferredInv, DeferredTypes, Extremes
<1> QED BY <1>4, <1>5

LEMMA FunctionStep == ASSUME DeferredInv, Deferred!Function PROVE DeferredInv'
<1> USE Parameters DEF Deferred!Step, Deferred!stats, DeferredInv, DeferredTypes, LeftOver, Clock,
        NotEarly
<1>1. CASE Deferred!TimerFunc
  <2>1. elapsed >= Interval /\ item = "mytimer" /\ Deferred!Measure(now) /\ now \in 0..(W - 1)
    BY <1>1 DEF Deferred!TimerFunc
  <2>2. /\ jiff' \in [prev : 0..(W - 1), min : Nat, max : Nat] /\ jiff'.prev = now
        /\ nanosecs' \in [min : Int, max : Int] /\ delays' \subseteq Int
        /\ Extremes'
    BY <2>1, MeasureStep
  <2> QED BY <1>1, <2>2 DEF Deferred!TimerFunc
<1>2. CASE Deferred!WorkFunc
  <2>1. /\ elapsed >= Interval /\ item = "myworkqueue" /\ Deferred!Measure(jiff.prev)
        /\ jiff.prev \in 0..(W - 1)
    BY <1>2 DEF Deferred!WorkFunc
  <2>2. /\ jiff' \in [prev : 0..(W - 1), min : Nat, max : Nat] /\ jiff'.prev = jiff.prev
        /\ nanosecs' \in [min : Int, max : Int] /\ delays' \subseteq Int
        /\ Extremes'
    BY <2>1, MeasureStep
  <2> QED BY <1>2, <2>2 DEF Deferred!WorkFunc
<1>3. CASE Deferred!Stamp
  <2>1. /\ jiff' = [jiff EXCEPT !.prev = now] /\ elapsed' = 0 /\ func = "stamp" /\ func' = "again"
        /\ ~queued /\ item = "myworkqueue"
        /\ UNCHANGED <<item, module, now, cancelled, queued, due, nanosecs, delays, calls>>
    BY <1>3 DEF Deferred!Stamp
  <2>2. /\ jiff' \in [prev : 0..(W - 1), min : Nat, max : Nat]
        /\ jiff'.prev = now /\ jiff'.min = jiff.min /\ jiff'.max = jiff.max
    BY <2>1
  <2>3. Extremes'
    BY <2>1, <2>2 DEF Extremes
  <2> QED BY <2>1, <2>2, <2>3
<1>4. CASE Deferred!Again
  BY <1>4 DEF Deferred!Again, Extremes
<1>5. CASE Deferred!End
  BY <1>5 DEF Deferred!End, Extremes
<1> QED BY <1>1, <1>2, <1>3, <1>4, <1>5, CallStep DEF Deferred!Function

LEMMA DeferredInvStep == ASSUME DeferredInv, Deferred!Next PROVE DeferredInv'
<1> USE DEF Deferred!stats, DeferredInv, DeferredTypes, LeftOver, Clock, NotEarly, Extremes
<1>1. CASE Deferred!Rmmod
  BY <1>1 DEF Deferred!Rmmod
<1>2. CASE Deferred!Exit
  BY <1>2 DEF Deferred!Exit, Deferred!TakeBack, Deferred!DelTimerSync,
     Deferred!CancelDelayedWork, Deferred!TaskletKill
<1>3. CASE Deferred!Done
  BY <1>3 DEF Deferred!Done, Deferred!vars
<1> QED BY <1>1, <1>2, <1>3, TickStep, FunctionStep DEF Deferred!Next

-----------------------------------------------------------------------------
(* Registration: the tables of the twelve drivers *)

Hellos == {"hello", "mynull", "myzero", "hello_counted"}
Plain == {"simple_chardev", "simple_chardev5", "hello_kworld", "openclose"}
Drivers == Hellos \cup Plain \cup {"mybuffer", "mybuffer_sync", "mykthread", "mysemaphore"}

EndsLoaded == driver \notin Hellos \cup {"mybuffer_sync"}

\* What init asks for.
Needs == {"numbers", "cdev", "added", "class", "device"}
         \cup CASE driver = "mybuffer" -> {"struct", "storage"}
                [] driver = "mybuffer_sync" -> {"storage"}
                [] driver = "mykthread" -> {"thread"}
                [] driver = "mysemaphore" -> {"thread", "thread2"}
                [] OTHER -> {}

\* The steps before the numbers are reserved, and before the device is given back.
First == CASE driver = "mybuffer" -> 3 [] driver = "mybuffer_sync" -> 1 [] OTHER -> 0
ExitFirst == CASE driver = "mykthread" -> 1 [] driver \in {"mybuffer", "mysemaphore"} -> 2 [] OTHER -> 0

StepCount == First + CASE driver = "mykthread" -> 7 [] driver = "mysemaphore" -> 9 [] OTHER -> 5
ExitCount == ExitFirst + IF driver = "openclose" THEN 3 ELSE 4

\* The step of init that gets w, and the step of exit that gives it back.
Position(w) ==
    CASE w = "numbers" -> First + 1 [] w = "cdev" -> First + 2 [] w = "added" -> First + 3
      [] w = "class" -> First + 4 [] w = "device" -> First + 5
      [] w = "struct" -> 1 [] w = "storage" -> IF driver = "mybuffer" THEN 2 ELSE 1
      [] w = "thread" -> 6 [] w = "thread2" -> 7

ExitPosition(w) ==
    CASE w = "device" -> ExitFirst + 1 [] w = "class" -> ExitFirst + 2
      [] w \in {"cdev", "added"} -> ExitFirst + 3 [] w = "numbers" -> ExitFirst + 4
      [] w \in {"storage", "thread"} -> 1 [] w \in {"struct", "thread2"} -> 2

\* What exit does not give back.
Kept == CASE driver = "openclose" -> {"numbers"}
          [] driver = "mybuffer_sync" -> {"storage"}
          [] OTHER -> {}

\* Where a failure leads to.
Failure(w) ==
    CASE w = "numbers" -> "return" [] w = "cdev" -> "numbers" [] w = "added" -> "cdev"
      [] w = "class" /\ driver \in Hellos -> "class"
      [] w = "class" /\ driver = "mybuffer_sync" -> "cdev"
      [] w = "device" /\ driver \in Hellos -> "numbers"
      [] OTHER -> "ignore"

LEMMA DriverTables ==
    /\ DOMAIN Device!Driver = Drivers
    /\ driver \in Drivers => (Device!Driver[driver].end = IF EndsLoaded THEN "loaded" ELSE "refused")
BY DEF Device!Driver, Drivers, Hellos, Plain, EndsLoaded, Device!hello, Device!mynull, Device!myzero,
   Device!hello_counted, Device!simple_chardev, Device!simple_chardev5, Device!hello_kworld,
   Device!openclose, Device!mybuffer, Device!mybuffer_sync, Device!mykthread, Device!mysemaphore

\* Every step of init gets something that no other step gets, or uses something
\* that an earlier step has got.
StepIs(j) ==
    LET s == Device!Steps[j]
    IN  \/ /\ s.op = "get" /\ s.what \in Needs /\ Position(s.what) = j
           /\ s.failure = Failure(s.what)
        \/ /\ s.op = "use" /\ s.what \in Needs /\ EndsLoaded /\ Position(s.what) < j
           /\ \A w \in Needs : Position(w) # j

LEMMA InitTables ==
    ASSUME driver \in Drivers
    PROVE  /\ Len(Device!Steps) = StepCount /\ DOMAIN Device!Steps = 1..StepCount
           /\ \A j \in 1..StepCount : StepIs(j)
<1>1. CASE driver \in Hellos
  <2>1. Device!Steps = Device!Register("class", "numbers")
    BY <1>1 DEF Device!Steps, Device!Driver, Hellos, Device!hello, Device!mynull, Device!myzero,
       Device!hello_counted
  <2>2. StepCount = 5 /\ First = 0
    BY <1>1 DEF StepCount, First, Hellos
  <2>3. \A j \in 1..5 : j = 1 \/ j = 2 \/ j = 3 \/ j = 4 \/ j = 5
    OBVIOUS
  <2>4. \A j \in 1..5 : StepIs(j)
    BY <1>1, <2>1, <2>2, <2>3 DEF StepIs, Device!Register, Device!Get, Needs, Position, Failure, Hellos
  <2> QED BY <2>1, <2>2, <2>4 DEF Device!Register
<1>2. CASE driver \in Plain
  <2>1. Device!Steps = Device!Register("ignore", "ignore")
    BY <1>2 DEF Device!Steps, Device!Driver, Plain, Device!simple_chardev, Device!simple_chardev5,
       Device!hello_kworld, Device!openclose
  <2>2. StepCount = 5 /\ First = 0
    BY <1>2 DEF StepCount, First, Plain
  <2>3. \A j \in 1..5 : j = 1 \/ j = 2 \/ j = 3 \/ j = 4 \/ j = 5
    OBVIOUS
  <2>4. \A j \in 1..5 : StepIs(j)
    BY <1>2, <2>1, <2>2, <2>3
       DEF StepIs, Device!Register, Device!Get, Needs, Position, Failure, Hellos, Plain
  <2> QED BY <2>1, <2>2, <2>4 DEF Device!Register
<1>3. CASE driver = "mybuffer"
  <2>1. Device!Steps = <<Device!Get("struct", "ignore"), Device!Get("storage", "ignore"), Device!Use("struct"),
             Device!Get("numbers", "return"), Device!Get("cdev", "numbers"), Device!Get("added", "cdev"),
             Device!Get("class", "ignore"), Device!Get("device", "ignore")>>
    BY <1>3 DEF Device!Steps, Device!Driver, Device!mybuffer, Device!Register
  <2>2. StepCount = 8 /\ First = 3
    BY <1>3 DEF StepCount, First
  <2>3. \A j \in 1..8 : j = 1 \/ j = 2 \/ j = 3 \/ j = 4 \/ j = 5 \/ j = 6 \/ j = 7 \/ j = 8
    OBVIOUS
  <2>4. \A j \in 1..8 : StepIs(j)
    BY <1>3, <2>1, <2>2, <2>3
       DEF StepIs, Device!Get, Device!Use, Needs, Position, Failure, Hellos, EndsLoaded
  <2> QED BY <2>1, <2>2, <2>4
<1>4. CASE driver = "mybuffer_sync"
  <2>1. Device!Steps = <<Device!Get("storage", "ignore"),
             Device!Get("numbers", "return"), Device!Get("cdev", "numbers"), Device!Get("added", "cdev"),
             Device!Get("class", "cdev"), Device!Get("device", "ignore")>>
    BY <1>4 DEF Device!Steps, Device!Driver, Device!mybuffer_sync, Device!Register
  <2>2. StepCount = 6 /\ First = 1
    BY <1>4 DEF StepCount, First
  <2>3. \A j \in 1..6 : j = 1 \/ j = 2 \/ j = 3 \/ j = 4 \/ j = 5 \/ j = 6
    OBVIOUS
  <2>4. \A j \in 1..6 : StepIs(j)
    BY <1>4, <2>1, <2>2, <2>3 DEF StepIs, Device!Get, Needs, Position, Failure, Hellos
  <2> QED BY <2>1, <2>2, <2>4
<1>5. CASE driver = "mykthread"
  <2>1. Device!Steps = <<Device!Get("numbers", "return"), Device!Get("cdev", "numbers"),
             Device!Get("added", "cdev"), Device!Get("class", "ignore"), Device!Get("device", "ignore"),
             Device!Get("thread", "ignore"), Device!Use("thread")>>
    BY <1>5 DEF Device!Steps, Device!Driver, Device!mykthread, Device!Register
  <2>2. StepCount = 7 /\ First = 0
    BY <1>5 DEF StepCount, First
  <2>3. \A j \in 1..7 : j = 1 \/ j = 2 \/ j = 3 \/ j = 4 \/ j = 5 \/ j = 6 \/ j = 7
    OBVIOUS
  <2>4. \A j \in 1..7 : StepIs(j)
    BY <1>5, <2>1, <2>2, <2>3
       DEF StepIs, Device!Get, Device!Use, Needs, Position, Failure, Hellos, EndsLoaded
  <2> QED BY <2>1, <2>2, <2>4
<1>6. CASE driver = "mysemaphore"
  <2>1. Device!Steps = <<Device!Get("numbers", "return"), Device!Get("cdev", "numbers"),
             Device!Get("added", "cdev"), Device!Get("class", "ignore"), Device!Get("device", "ignore"),
             Device!Get("thread", "ignore"), Device!Get("thread2", "ignore"),
             Device!Use("thread"), Device!Use("thread2")>>
    BY <1>6 DEF Device!Steps, Device!Driver, Device!mysemaphore, Device!Register
  <2>2. StepCount = 9 /\ First = 0
    BY <1>6 DEF StepCount, First
  <2>3. \A j \in 1..9 : j = 1 \/ j = 2 \/ j = 3 \/ j = 4 \/ j = 5 \/ j = 6 \/ j = 7 \/ j = 8 \/ j = 9
    OBVIOUS
  <2>4. \A j \in 1..9 : StepIs(j)
    BY <1>6, <2>1, <2>2, <2>3
       DEF StepIs, Device!Get, Device!Use, Needs, Position, Failure, Hellos, EndsLoaded
  <2> QED BY <2>1, <2>2, <2>4
<1> QED BY <1>1, <1>2, <1>3, <1>4, <1>5, <1>6 DEF Drivers

LEMMA Positions ==
    ASSUME driver \in Drivers
    PROVE  /\ Needs \subseteq Device!Things /\ Kept \subseteq Needs
           /\ \A w \in Needs : Position(w) \in 1..StepCount /\ ExitPosition(w) \in Nat \ {0}
           /\ \A v, w \in Needs : Position(v) = Position(w) => v = w
           /\ \A w \in Needs : w \notin Kept => ExitPosition(w) <= ExitCount
           /\ ExitPosition("added") = ExitPosition("cdev") /\ ExitPosition("added") <= ExitCount
<1>1. Needs \subseteq Device!Things /\ Kept \subseteq Needs
  BY DEF Drivers, Needs, Kept, Device!Things
<1>2. \A w \in Needs : Position(w) \in 1..StepCount
  <2>1. /\ Position("numbers") = First + 1 /\ Position("cdev") = First + 2 /\ Position("added") = First + 3
        /\ Position("class") = First + 4 /\ Position("device") = First + 5
        /\ Position("struct") = 1 /\ Position("storage") = IF driver = "mybuffer" THEN 2 ELSE 1
        /\ Position("thread") = 6 /\ Position("thread2") = 7
    BY DEF Position
  <2>2. First \in Nat /\ StepCount \in Nat /\ First + 5 <= StepCount
    BY DEF First, StepCount
  <2>3. /\ driver \in {"mybuffer", "mybuffer_sync"} => 2 <= StepCount
        /\ driver \in {"mykthread", "mysemaphore"} => 7 <= StepCount
    BY DEF First, StepCount
  <2>4. ASSUME NEW w \in Needs PROVE Position(w) \in 1..StepCount
    <3>1. CASE w \in {"numbers", "cdev", "added", "class", "device"}
      BY <2>1, <2>2, <3>1
    <3>2. CASE w \in {"struct", "storage"} /\ driver \in {"mybuffer", "mybuffer_sync"}
      BY <2>1, <2>2, <2>3, <3>2
    <3>3. CASE w = "thread" /\ driver \in {"mykthread", "mysemaphore"}
      BY <2>1, <2>2, <2>3, <3>3
    <3>4. CASE w = "thread2" /\ driver = "mysemaphore"
      BY <2>1, <2>2, <2>3, <3>4
    <3> QED BY <3>1, <3>2, <3>3, <3>4 DEF Needs
  <2> QED BY <2>4
<1>3. \A v, w \in Needs : Position(v) = Position(w) => v = w
  BY DEF Drivers, Needs, Position, First
<1>4. /\ \A w \in Needs : ExitPosition(w) \in Nat \ {0}
      /\ ExitPosition("added") = ExitPosition("cdev") /\ ExitPosition("added") <= ExitCount
  BY DEF Drivers, Needs, ExitPosition, ExitFirst, ExitCount
<1>5. \A w \in Needs : w \notin Kept => ExitPosition(w) <= ExitCount
  BY DEF Drivers, Needs, Kept, ExitPosition, ExitFirst, ExitCount
<1> QED BY <1>1, <1>2, <1>3, <1>4, <1>5

\* Every step of exit gives back one thing, the last of them with its cdev.
LEMMA ExitTables ==
    ASSUME driver \in Drivers
    PROVE  /\ Len(Device!Exit) = ExitCount
           /\ \A j \in 1..ExitCount :
                 /\ Device!Exit[j] \in Needs \ (Kept \cup {"cdev"}) /\ ExitPosition(Device!Exit[j]) = j
                 /\ \A w \in Needs \ (Kept \cup {"cdev"}) : ExitPosition(w) = j => w = Device!Exit[j]
<1>1. CASE driver \in (Plain \ {"openclose"}) \cup Hellos \cup {"mybuffer_sync"}
  <2>1. Device!Exit = <<"device", "class", "added", "numbers">>
    BY <1>1 DEF Device!Exit, Device!Driver, Plain, Hellos, Device!simple_chardev, Device!simple_chardev5,
       Device!hello_kworld, Device!hello, Device!mynull, Device!myzero, Device!hello_counted,
       Device!mybuffer_sync, Device!Unregister
  <2>2. ExitCount = 4 /\ ExitFirst = 0
    BY <1>1 DEF ExitCount, ExitFirst, Plain, Hellos
  <2>3. \A j \in 1..4 : j = 1 \/ j = 2 \/ j = 3 \/ j = 4
    OBVIOUS
  <2> QED BY <1>1, <2>1, <2>2, <2>3 DEF Needs, Kept, ExitPosition, Plain, Hellos
<1>2. CASE driver = "openclose"
  <2>1. Device!Exit = <<"device", "class", "added">>
    BY <1>2 DEF Device!Exit, Device!Driver, Device!openclose, Device!simple_chardev
  <2>2. ExitCount = 3 /\ ExitFirst = 0
    BY <1>2 DEF ExitCount, ExitFirst
  <2>3. \A j \in 1..3 : j = 1 \/ j = 2 \/ j = 3
    OBVIOUS
  <2> QED BY <1>2, <2>1, <2>2, <2>3 DEF Needs, Kept, ExitPosition
<1>3. CASE driver = "mykthread"
  <2>1. Device!Exit = <<"thread", "device", "class", "added", "numbers">>
    BY <1>3 DEF Device!Exit, Device!Driver, Device!mykthread, Device!Unregister
  <2>2. ExitCount = 5 /\ ExitFirst = 1
    BY <1>3 DEF ExitCount, ExitFirst
  <2>3. \A j \in 1..5 : j = 1 \/ j = 2 \/ j = 3 \/ j = 4 \/ j = 5
    OBVIOUS
  <2> QED BY <1>3, <2>1, <2>2, <2>3 DEF Needs, Kept, ExitPosition
<1>4. CASE driver = "mybuffer"
  <2>1. Device!Exit = <<"storage", "struct", "device", "class", "added", "numbers">>
    BY <1>4 DEF Device!Exit, Device!Driver, Device!mybuffer, Device!Unregister
  <2>2. ExitCount = 6 /\ ExitFirst = 2
    BY <1>4 DEF ExitCount, ExitFirst
  <2>3. \A j \in 1..6 : j = 1 \/ j = 2 \/ j = 3 \/ j = 4 \/ j = 5 \/ j = 6
    OBVIOUS
  <2> QED BY <1>4, <2>1, <2>2, <2>3 DEF Needs, Kept, ExitPosition
<1>5. CASE driver = "mysemaphore"
  <2>1. Device!Exit = <<"thread", "thread2", "device", "class", "added", "numbers">>
    BY <1>5 DEF Device!Exit, Device!Driver, Device!mysemaphore, Device!Unregister
  <2>2. ExitCount = 6 /\ ExitFirst = 2
    BY <1>5 DEF ExitCount, ExitFirst
  <2>3. \A j \in 1..6 : j = 1 \/ j = 2 \/ j = 3 \/ j = 4 \/ j = 5 \/ j = 6
    OBVIOUS
  <2> QED BY <1>5, <2>1, <2>2, <2>3 DEF Needs, Kept, ExitPosition
<1> QED BY <1>1, <1>2, <1>3, <1>4, <1>5 DEF Drivers

\* Where a label is in a ladder.
LEMMA LabelFound ==
    ASSUME NEW q, Len(q) \in Nat, NEW f, NEW n \in 1..Len(q), q[n] = f,
           \A m \in 1..Len(q) : q[m] = f => m = n
    PROVE  Device!SelectInSeq(q, LAMBDA l : l = f) = n
<1>1. {m \in 1..Len(q) : q[m] = f} = {n}
  OBVIOUS
<1>2. \A x \in {n} : (\A y \in {n} : x <= y) <=> x = n
  OBVIOUS
<1> QED BY <1>1, <1>2 DEF Device!SelectInSeq, Device!Min

LEMMA LadderTables ==
    ASSUME driver \in Drivers
    PROVE  /\ Len(Device!Ladder) \in 2..4 /\ Device!Ladder[1] = "cdev" /\ Device!Ladder[2] = "numbers"
           /\ ~EndsLoaded => /\ Len(Device!Ladder) = 3
                             /\ Device!Ladder[3] = IF driver \in Hellos THEN "class" ELSE "storage"
           /\ \A n \in 1..Len(Device!Ladder) : Device!Ladder[n] \in Needs \ {"added", "device"}
           /\ Device!SelectInSeq(Device!Ladder, LAMBDA l : l = "cdev") = 1
           /\ Device!SelectInSeq(Device!Ladder, LAMBDA l : l = "numbers") = 2
           /\ driver \in Hellos => Device!SelectInSeq(Device!Ladder, LAMBDA l : l = "class") = 3
<1>1. Device!Ladder = CASE driver \in Hellos -> <<"cdev", "numbers", "class">>
                        [] driver = "mybuffer" -> <<"cdev", "numbers", "storage", "struct">>
                        [] driver = "mybuffer_sync" -> <<"cdev", "numbers", "storage">>
                        [] OTHER -> <<"cdev", "numbers">>
  <2>1. CASE driver \in Hellos
    BY <2>1 DEF Hellos, Device!Ladder, Device!Driver, Device!hello, Device!mynull, Device!myzero,
       Device!hello_counted
  <2>2. CASE driver \in Plain
    BY <2>2 DEF Plain, Hellos, Device!Ladder, Device!Driver, Device!simple_chardev,
       Device!simple_chardev5, Device!hello_kworld, Device!openclose
  <2>3. CASE driver \in {"mybuffer", "mybuffer_sync", "mykthread", "mysemaphore"}
    <3>1. CASE driver = "mybuffer"
      BY <3>1 DEF Hellos, Device!Ladder, Device!Driver, Device!mybuffer
    <3>2. CASE driver = "mybuffer_sync"
      BY <3>2 DEF Hellos, Device!Ladder, Device!Driver, Device!mybuffer_sync
    <3>3. CASE driver = "mykthread"
      BY <3>3 DEF Hellos, Device!Ladder, Device!Driver, Device!mykthread
    <3>4. CASE driver = "mysemaphore"
      BY <3>4 DEF Hellos, Device!Ladder, Device!Driver, Device!mysemaphore
    <3> QED BY <2>3, <3>1, <3>2, <3>3, <3>4
  <2> QED BY <2>1, <2>2, <2>3 DEF Drivers
<1>2. \A n \in 1..4 : n = 1 \/ n = 2 \/ n = 3 \/ n = 4
  OBVIOUS
<1>3. /\ Len(Device!Ladder) \in 2..4 /\ Device!Ladder[1] = "cdev" /\ Device!Ladder[2] = "numbers"
      /\ ~EndsLoaded => /\ Len(Device!Ladder) = 3
                        /\ Device!Ladder[3] = IF driver \in Hellos THEN "class" ELSE "storage"
      /\ \A n \in 1..Len(Device!Ladder) : Device!Ladder[n] \in Needs \ {"added", "device"}
      /\ \A n \in 1..Len(Device!Ladder) : /\ n > 1 => Device!Ladder[n] # "cdev"
                                          /\ n # 2 => Device!Ladder[n] # "numbers"
                                          /\ n < 3 => Device!Ladder[n] # "class"
  BY <1>1, <1>2 DEF EndsLoaded, Hellos, Needs, Drivers, Plain
<1>4. PICK q : q = Device!Ladder
  OBVIOUS
<1>5. /\ Len(q) \in Nat /\ 1 \in 1..Len(q) /\ 2 \in 1..Len(q)
      /\ \A m \in 1..Len(q) : (q[m] = "cdev" => m = 1) /\ (q[m] = "numbers" => m = 2)
  BY <1>3, <1>4
<1>6. /\ Device!SelectInSeq(q, LAMBDA l : l = "cdev") = 1
      /\ Device!SelectInSeq(q, LAMBDA l : l = "numbers") = 2
  <2>1. Device!SelectInSeq(q, LAMBDA l : l = "cdev") = 1
    <3>1. 1 \in 1..Len(q) /\ q[1] = "cdev" /\ \A m \in 1..Len(q) : q[m] = "cdev" => m = 1
      BY <1>3, <1>4, <1>5
    <3> QED BY <1>5, <3>1, LabelFound
  <2>2. Device!SelectInSeq(q, LAMBDA l : l = "numbers") = 2
    <3>1. 2 \in 1..Len(q) /\ q[2] = "numbers" /\ \A m \in 1..Len(q) : q[m] = "numbers" => m = 2
      BY <1>3, <1>4, <1>5
    <3> QED BY <1>5, <3>1, LabelFound
  <2> QED BY <2>1, <2>2
<1>7. ASSUME driver \in Hellos PROVE Device!SelectInSeq(q, LAMBDA l : l = "class") = 3
  <2>1. ~EndsLoaded
    BY <1>7 DEF EndsLoaded
  <2>2. Len(q) = 3 /\ q[3] = "class" /\ q[1] = "cdev" /\ q[2] = "numbers"
    BY <1>3, <1>4, <1>7, <2>1
  <2>3. \A m \in 1..3 : m = 1 \/ m = 2 \/ m = 3
    OBVIOUS
  <2>4. 3 \in 1..Len(q) /\ \A m \in 1..Len(q) : q[m] = "class" => m = 3
    BY <2>2, <2>3
  <2> QED BY <1>5, <2>2, <2>4, LabelFound
<1> QED BY <1>3, <1>4, <1>6, <1>7

-----------------------------------------------------------------------------
(* Registration: what insmod and rmmod have got and given back *)

DeviceTypes ==
    /\ driver \in Drivers
    /\ stage \in {"init", "ladder", "loaded", "exit", "refused", "gone", "undefined"}
    /\ at \in Nat \ {0} /\ files \in Nat
    /\ thing \in [Device!Things -> {"never", "held", "error", "back"}]
    /\ failed \subseteq Needs /\ \A w \in Device!Things \ Needs : thing[w] = "never"

\* A failure after which insmod refuses the module, if it looks.
Noticed == {w \in Needs : Failure(w) # "ignore"}

\* What init has asked for, it has, but for what failed and was ignored.
Asked(w) == thing[w] = IF w \notin failed THEN "held"
                       ELSE IF w \in Device!ErrorPointers THEN "error" ELSE "never"

Initialising ==
    stage = "init" =>
        /\ at <= StepCount + 1 /\ failed \cap Noticed = {}
        /\ \A w \in Needs : IF Position(w) < at THEN Asked(w)
                            ELSE thing[w] = "never" /\ w \notin failed

\* A module that is loaded has everything, or it has been down the ladder.
Loaded ==
    stage = "loaded" =>
        IF failed \cap Noticed = {}
        THEN \A w \in Needs : Asked(w)
        ELSE EndsLoaded /\ thing["added"] # "held"

\* The ladders of the modules that are refused find what they give back, and
\* leave what cdev_add has made.
OnTheLadder ==
    stage = "ladder" =>
        /\ at <= Len(Device!Ladder) + 1 /\ failed \cap Noticed # {}
        /\ IF EndsLoaded THEN thing["added"] # "held"
           ELSE /\ at <= 1 => thing["cdev"] = "held"
                /\ at <= 2 => thing["numbers"] = "held"
                /\ at <= 3 => IF driver \in Hellos THEN thing["class"] # "back"
                              ELSE thing["storage"] \in {"never", "held"}
                /\ IF failed \cap {"class", "device"} # {} THEN thing["added"] = "held"
                   ELSE /\ at > 1 => thing["cdev"] # "held"
                        /\ at > 2 => thing["numbers"] # "held"
                        /\ \A w \in Needs \ {"cdev", "numbers", "storage"} : thing[w] # "held"
                /\ at > 3 => thing["storage"] # "held"

\* What exit has not come to yet is there; a module that has been down the
\* ladder gets no further than cdev_del.
Exiting ==
    stage = "exit" =>
        /\ at <= ExitCount + 1
        /\ IF failed \cap Noticed = {}
           THEN \A w \in Needs : IF w \in Kept \/ at <= ExitPosition(w) THEN Asked(w)
                                ELSE thing[w] # "held"
           ELSE EndsLoaded /\ thing["added"] # "held" /\ at <= ExitPosition("added")

\* The device is there while it is open.
OpenFiles ==
    IF stage \in {"exit", "gone"} THEN files = 0
    ELSE stage \in {"init", "ladder", "loaded"} /\ files > 0 => thing["added"] = "held"

\* A file that was opened before class_create or device_create failed outlives
\* the module, which insmod refuses; mybuffer_sync looks at class_create only.
FilesLeft ==
    /\ stage = "refused" /\ files > 0 => ~EndsLoaded /\ failed \cap {"class", "device"} # {}
    /\ stage \in {"ladder", "refused"} /\ driver = "mybuffer_sync" => "device" \notin failed
    /\ stage = "undefined" /\ files > 0 => driver # "mybuffer"

DeviceInv ==
    /\ DeviceTypes /\ Initialising /\ Loaded /\ OnTheLadder /\ Exiting /\ OpenFiles /\ FilesLeft
    /\ Device!CleanRefusal /\ Device!CleanUnload

LEMMA DeviceStart == Device!Init => DeviceInv
<1> SUFFICES ASSUME Device!Init PROVE DeviceInv
  OBVIOUS
<1>1. /\ driver \in Drivers /\ stage = "init" /\ at = 1 /\ failed = {} /\ files = 0
      /\ thing = [w \in Device!Things |-> "never"]
  BY DriverTables DEF Device!Init
<1>2. StepCount \in Nat
  BY DEF StepCount, First
<1>3. DeviceTypes
  BY <1>1, Positions DEF DeviceTypes
<1>4. Initialising
  BY <1>1, <1>2, Positions DEF Initialising
<1> QED BY <1>1, <1>3, <1>4 DEF DeviceInv, Loaded, OnTheLadder, Exiting, OpenFiles, FilesLeft,
       Device!CleanRefusal, Device!CleanUnload

\* A step of init that goes on with the next one.
LEMMA InitGoesOn ==
    ASSUME DeviceTypes, Initialising, OpenFiles, stage = "init", stage' = "init", at' = at + 1,
           UNCHANGED <<driver, files>>, at <= StepCount,
           thing' \in [Device!Things -> {"never", "held", "error", "back"}], failed' \subseteq Needs,
           failed' \cap Noticed = {},
           \A w \in Device!Things : Position(w) # at \/ w \notin Needs =>
                  thing'[w] = thing[w] /\ (w \in failed' <=> w \in failed),
           \A w \in Needs : Position(w) = at => Asked(w)'
    PROVE  DeviceInv'
<1>1. /\ Needs' = Needs /\ StepCount' = StepCount /\ Noticed' = Noticed
      /\ \A w : Position(w)' = Position(w)
  BY DEF Needs, StepCount, First, Noticed, Failure, Position
<1>2. DeviceTypes'
  BY <1>1 DEF DeviceTypes
<1>3. driver \in Drivers /\ at \in Nat /\ StepCount \in Nat /\ \A w \in Needs : Position(w) \in Nat
  BY Positions DEF DeviceTypes, StepCount, First
<1>4. Initialising'
  <2>1. ASSUME NEW w \in Needs
        PROVE  IF Position(w) < at + 1 THEN Asked(w)' ELSE thing'[w] = "never" /\ w \notin failed'
    <3>1. CASE Position(w) = at
      BY <1>3, <3>1
    <3>2. CASE Position(w) # at
      <4>1. w \in Device!Things /\ thing'[w] = thing[w] /\ (w \in failed' <=> w \in failed)
        BY <1>3, <3>2, Positions
      <4>2. Position(w) < at + 1 <=> Position(w) < at
        BY <1>3, <3>2
      <4> QED BY <4>1, <4>2 DEF Initialising, Asked
    <3> QED BY <3>1, <3>2
  <2> QED BY <1>1, <1>3, <2>1 DEF Initialising
<1>5. OpenFiles'
  <2>1. "added" \in Needs /\ "added" \in Device!Things /\ files \in Nat
    BY DEF Needs, Device!Things, DeviceTypes
  <2>2. Position("added") # at \/ files = 0
    BY <2>1, <1>3 DEF Initialising, OpenFiles
  <2> QED BY <2>1, <2>2 DEF OpenFiles
<1> QED BY <1>2, <1>4, <1>5 DEF DeviceInv, Loaded, OnTheLadder, Exiting, FilesLeft,
       Device!CleanRefusal, Device!CleanUnload

-----------------------------------------------------------------------------
(* Registration: the steps *)

LEMMA ObtainStep == ASSUME DeviceInv, Device!Obtain PROVE DeviceInv'
<1> DEFINE v == Device!Steps[at].what
<1>1. /\ stage = "init" /\ stage' = "init" /\ at' = at + 1 /\ UNCHANGED <<driver, files, failed>>
      /\ thing' = [thing EXCEPT ![v] = "held"] /\ Device!Steps[at].op = "get" /\ at <= Len(Device!Steps)
  BY DEF Device!Obtain
<1>2. DeviceTypes /\ Initialising /\ OpenFiles /\ at \in Nat \ {0} /\ driver \in Drivers
  BY DEF DeviceInv, DeviceTypes
<1>3. at <= StepCount /\ StepIs(at)
  <2>1. StepCount \in Nat
    BY DEF StepCount, First
  <2> QED BY <1>1, <1>2, <2>1, InitTables
<1>4. v \in Needs /\ Position(v) = at
  BY <1>1, <1>3 DEF StepIs
<1>5. v \in Device!Things /\ \A w \in Needs : Position(w) = at => w = v
  BY <1>2, <1>4, Positions
<1>6. v \notin failed /\ failed \cap Noticed = {} /\ failed \subseteq Needs
  BY <1>1, <1>2, <1>4 DEF Initialising, DeviceTypes
<1>7. /\ thing' \in [Device!Things -> {"never", "held", "error", "back"}] /\ thing'[v] = "held"
      /\ \A w \in Device!Things : w # v => thing'[w] = thing[w]
  BY <1>1, <1>2, <1>5 DEF DeviceTypes
<1>8. \A w \in Needs : Position(w) = at => Asked(w)'
  BY <1>1, <1>5, <1>6, <1>7 DEF Asked
<1>9. \A w \in Device!Things : Position(w) # at \/ w \notin Needs => w # v
  BY <1>4
<1> HIDE DEF v
<1> QED BY <1>1, <1>2, <1>3, <1>6, <1>7, <1>8, <1>9, InitGoesOn

LEMMA UseStep == ASSUME DeviceInv, Device!UseThing PROVE DeviceInv'
<1> DEFINE v == Device!Steps[at].what
<1>1. /\ stage = "init" /\ at' = at + 1 /\ UNCHANGED <<driver, files, failed, thing>>
      /\ IF thing[v] = "held" THEN UNCHANGED stage ELSE stage' = "undefined"
      /\ Device!Steps[at].op = "use" /\ at <= Len(Device!Steps)
  BY DEF Device!UseThing
<1>2. DeviceTypes /\ Initialising /\ OpenFiles /\ at \in Nat \ {0} /\ driver \in Drivers
  BY DEF DeviceInv, DeviceTypes
<1>3. at <= StepCount /\ StepIs(at)
  <2>1. StepCount \in Nat
    BY DEF StepCount, First
  <2> QED BY <1>1, <1>2, <2>1, InitTables
<1>4. v \in Needs /\ EndsLoaded /\ Position(v) < at /\ \A w \in Needs : Position(w) # at
  BY <1>1, <1>3 DEF StepIs
<1> HIDE DEF v
<1>5. CASE thing[v] = "held"
  <2>1. failed \cap Noticed = {} /\ failed \subseteq Needs
    BY <1>1, <1>2 DEF Initialising, DeviceTypes
  <2> QED BY <1>1, <1>2, <1>3, <1>4, <1>5, <2>1, InitGoesOn DEF DeviceTypes
<1>6. CASE thing[v] # "held"
  <2>1. failed # {}
    BY <1>1, <1>2, <1>4, <1>6 DEF Initialising, Asked
  <2>2. Device!Driver[driver].end = "loaded"
    BY <1>2, <1>4, DriverTables
  <2>3. DeviceTypes'
    BY <1>1, <1>2 DEF DeviceTypes, Needs
  <2>4. Device!CleanUnload'
    BY <1>1, <1>6, <2>1, <2>2 DEF Device!CleanUnload
  <2>5. driver # "mybuffer" \/ files = 0
    <3> SUFFICES ASSUME driver = "mybuffer" PROVE files = 0
      OBVIOUS
    <3>1. First = 3 /\ Position("added") = 6
      BY DEF First, Position
    <3>2. at < 6
      <4>1. /\ Position("numbers") = 4 /\ Position("cdev") = 5 /\ Position("class") = 7
            /\ Position("device") = 8 /\ StepCount = 8
        BY <3>1 DEF Position, StepCount
      <4> QED BY <1>2, <1>3, <1>4, <3>1, <4>1 DEF Needs
    <3>3. "added" \in Needs
      BY DEF Needs
    <3>4. thing["added"] = "never"
      BY <1>1, <1>2, <3>1, <3>2, <3>3 DEF Initialising
    <3> QED BY <1>1, <1>2, <3>4 DEF OpenFiles, DeviceTypes
  <2>6. FilesLeft'
    BY <1>1, <1>6, <2>5 DEF FilesLeft
  <2> QED BY <1>1, <1>6, <2>3, <2>4, <2>6 DEF DeviceInv, Initialising, Loaded, OnTheLadder, Exiting,
          OpenFiles, Device!CleanRefusal
<1> QED BY <1>5, <1>6

\* What a failure leaves as it is, and where it leads to.
LEMMA FailStep == ASSUME DeviceInv, Device!Fail PROVE DeviceInv'
<1> DEFINE v == Device!Steps[at].what
<1>1. /\ stage = "init" /\ UNCHANGED <<driver, files>> /\ failed' = failed \cup {v}
      /\ thing' = IF v \in Device!ErrorPointers THEN [thing EXCEPT ![v] = "error"] ELSE thing
      /\ Device!Steps[at].op = "get" /\ at <= Len(Device!Steps)
  BY DEF Device!Fail
<1>2. DeviceTypes /\ Initialising /\ OpenFiles /\ at \in Nat \ {0} /\ driver \in Drivers
  BY DEF DeviceInv, DeviceTypes
<1>3. at <= StepCount /\ StepIs(at) /\ StepCount \in Nat
  <2>1. StepCount \in Nat
    BY DEF StepCount, First
  <2> QED BY <1>1, <1>2, <2>1, InitTables
<1>4. v \in Needs /\ Position(v) = at /\ Device!Steps[at].failure = Failure(v)
  BY <1>1, <1>3 DEF StepIs
<1>a. \/ Failure(v) = "ignore" /\ at' = at + 1 /\ UNCHANGED stage
      \/ Failure(v) = "return" /\ stage' = "refused" /\ UNCHANGED at
      \/ /\ Failure(v) \notin {"ignore", "return"} /\ stage' = "ladder"
         /\ at' = Device!SelectInSeq(Device!Ladder, LAMBDA l : l = Failure(v))
  BY <1>4 DEF Device!Fail
<1>5. v \in Device!Things /\ \A w \in Needs : Position(w) = at => w = v
  BY <1>2, <1>4, Positions
<1>6. v \notin failed /\ failed \cap Noticed = {} /\ failed \subseteq Needs /\ thing[v] = "never"
  BY <1>1, <1>2, <1>4 DEF Initialising, DeviceTypes
<1>7. /\ thing' \in [Device!Things -> {"never", "held", "error", "back"}]
      /\ thing'[v] = IF v \in Device!ErrorPointers THEN "error" ELSE "never"
      /\ \A w \in Device!Things : w # v => thing'[w] = thing[w]
      /\ failed' \subseteq Needs
  BY <1>1, <1>2, <1>4, <1>5, <1>6 DEF DeviceTypes
<1> HIDE DEF v
<1>8. CASE Failure(v) = "ignore"
  <2>1. stage' = "init" /\ at' = at + 1
    BY <1>1, <1>8, <1>a
  <2>2. failed' \cap Noticed = {}
    BY <1>1, <1>6, <1>8 DEF Noticed
  <2>3. \A w \in Needs : Position(w) = at => Asked(w)'
    BY <1>1, <1>5, <1>7 DEF Asked
  <2>4. \A w \in Device!Things : Position(w) # at \/ w \notin Needs => w # v
    BY <1>4
  <2>5. \A w \in Device!Things : Position(w) # at \/ w \notin Needs =>
              thing'[w] = thing[w] /\ (w \in failed' <=> w \in failed)
    BY <1>1, <1>7, <2>4
  <2> QED BY <1>1, <1>2, <1>3, <1>7, <2>1, <2>2, <2>3, <2>5, InitGoesOn
<1>9. CASE Failure(v) # "ignore"
  <2> DEFINE Before(w) == Position(w) < at
  <2>1. /\ \A w \in Needs : Before(w) => Asked(w)
        /\ \A w \in Needs : ~Before(w) => thing[w] = "never" /\ w \notin failed
    BY <1>1, <1>2 DEF Initialising
  <2>2. First \in Nat
    BY DEF First
  <2>3. /\ "numbers" \in Needs /\ "cdev" \in Needs /\ "added" \in Needs /\ "class" \in Needs
        /\ "device" \in Needs
    BY DEF Needs
  <2>4. /\ Position("numbers") = First + 1 /\ Position("cdev") = First + 2 /\ Position("added") = First + 3
        /\ Position("class") = First + 4 /\ Position("device") = First + 5
    BY DEF Position
  <2>5. /\ Failure("numbers") # "ignore" /\ Failure("cdev") # "ignore" /\ Failure("added") # "ignore"
        /\ Failure("numbers") = "return" /\ Failure("cdev") = "numbers" /\ Failure("added") = "cdev"
        /\ Failure("class") = CASE driver \in Hellos -> "class" [] driver = "mybuffer_sync" -> "cdev"
                                [] OTHER -> "ignore"
        /\ Failure("device") = IF driver \in Hellos THEN "numbers" ELSE "ignore"
        /\ v \in {"numbers", "cdev", "added", "class", "device"}
    BY <1>4, <1>9 DEF Failure
  <2>6. v \in Noticed
    BY <1>4, <1>9 DEF Noticed
  <2>7. "numbers" \notin failed /\ "cdev" \notin failed /\ "added" \notin failed
    BY <1>6, <2>3, <2>5 DEF Noticed
  <2>8. CASE v = "numbers"
    <3>1. stage' = "refused" /\ at' = at
      BY <1>a, <2>5, <2>8
    <3>2. at = First + 1
      BY <1>4, <2>4, <2>8
    <3>3. ~Before("class") /\ ~Before("device") /\ ~Before("added") /\ ~Before("cdev")
      BY <2>2, <2>4, <3>2
    <3>4. DeviceTypes'
      BY <1>1, <1>2, <1>7, <3>1, <1>4 DEF DeviceTypes, Needs
    <3>5. failed' \cap {"class", "device"} = {} /\ "numbers" \in failed'
      BY <1>1, <2>1, <2>3, <3>3, <2>8
    <3>6. thing' = thing
      BY <1>1, <2>8 DEF Device!ErrorPointers
    <3>7. \A w \in Device!Things : thing'[w] = "held" => w \in Device!Buffers
      <4>1. thing["cdev"] = "never" /\ thing["added"] = "never" /\ thing["class"] = "never"
            /\ thing["device"] = "never" /\ thing["numbers"] = "never"
        BY <2>1, <2>3, <3>3, <1>6, <2>8
      <4>2. thing["thread"] # "held" /\ thing["thread2"] # "held"
        <5>1. ASSUME NEW w \in {"thread", "thread2"}, w \in Needs PROVE ~Before(w)
          <6>1. driver \in {"mykthread", "mysemaphore"}
            BY <5>1 DEF Needs
          <6>2. First = 0
            BY <6>1 DEF First
          <6>3. Position(w) \in {6, 7}
            BY <5>1 DEF Position
          <6> QED BY <6>2, <6>3, <3>2
        <5>2. "thread" \in Device!Things /\ "thread2" \in Device!Things
          BY DEF Device!Things
        <5> QED BY <5>1, <5>2, <2>1, <1>2 DEF DeviceTypes
      <4> QED BY <4>1, <4>2, <3>6 DEF Device!Things, Device!Buffers
    <3>8. Device!CleanRefusal'
      BY <3>5, <3>7 DEF Device!CleanRefusal, Device!Held, Device!Buffers
    <3>9. files = 0
      <4>1. thing["added"] # "held"
        BY <2>1, <2>3, <3>3
      <4> QED BY <1>1, <1>2, <4>1 DEF OpenFiles, DeviceTypes
    <3>10. "device" \notin failed'
      BY <1>1, <2>1, <2>3, <3>3, <2>8
    <3>11. FilesLeft'
      BY <1>1, <3>1, <3>9, <3>10 DEF FilesLeft
    <3> QED BY <3>1, <3>4, <3>8, <3>11 DEF DeviceInv, Initialising, Loaded, OnTheLadder, Exiting, OpenFiles,
            Device!CleanUnload
  <2>9. CASE v # "numbers"
    <3>1. stage' = "ladder" /\ at' = Device!SelectInSeq(Device!Ladder, LAMBDA l : l = Failure(v))
      BY <1>a, <1>9, <2>5, <2>9
    <3>2. at' = IF Failure(v) = "cdev" THEN 1 ELSE IF Failure(v) = "numbers" THEN 2 ELSE 3
      <4>1. CASE Failure(v) = "cdev"
        BY <3>1, <4>1, <1>2, LadderTables
      <4>2. CASE Failure(v) = "numbers"
        BY <3>1, <4>2, <1>2, LadderTables
      <4>3. CASE Failure(v) = "class" /\ driver \in Hellos
        BY <3>1, <4>3, <1>2, LadderTables
      <4> QED BY <4>1, <4>2, <4>3, <2>5, <2>9, <1>9
    <3>3. /\ at' \in 1..3 /\ (at' = 3 => Failure(v) = "class" /\ driver \in Hellos)
          /\ (at' = 2 => Failure(v) = "numbers") /\ (at' = 1 => Failure(v) = "cdev")
      BY <3>2, <2>5, <2>9, <1>9
    <3>4. Len(Device!Ladder) \in 2..4 /\ (~EndsLoaded => Len(Device!Ladder) = 3)
      BY <1>2, LadderTables
    <3>5. at' <= Len(Device!Ladder) + 1
      BY <3>3, <3>4 
    <3>6. failed' \cap Noticed # {}
      BY <1>1, <2>6
    <3>7. DeviceTypes'
      BY <1>1, <1>2, <1>4, <1>7, <3>1, <3>3 DEF DeviceTypes, Needs
    <3>8. /\ "added" \in Device!Things /\ "cdev" \in Device!Things /\ "numbers" \in Device!Things
          /\ "class" \in Device!Things /\ "device" \in Device!Things /\ "storage" \in Device!Things
      BY DEF Device!Things
    <3>9. thing'["numbers"] = "held"
      <4>1. Before("numbers")
        BY <1>4, <2>2, <2>4, <2>5, <2>9
      <4> QED BY <4>1, <2>1, <2>3, <2>7, <1>7, <3>8, <2>9 DEF Asked
    <3>10. v = "cdev" => thing'["cdev"] # "held" /\ thing'["added"] # "held"
      <4>1. v = "cdev" => ~Before("added") /\ ~Before("cdev")
        BY <1>4, <2>2, <2>4
      <4> QED BY <4>1, <2>1, <2>3, <1>7, <3>8, <1>6 DEF Device!ErrorPointers
    <3>11. v # "cdev" => thing'["cdev"] = "held"
      <4>1. v # "cdev" => Before("cdev")
        BY <1>4, <2>2, <2>4, <2>5, <2>9
      <4> QED BY <4>1, <2>1, <2>3, <2>7, <1>7, <3>8 DEF Asked
    <3>12. v = "added" => thing'["added"] # "held"
      BY <1>7 DEF Device!ErrorPointers
    <3>13. v \in {"class", "device"} => thing'["added"] = "held"
      <4>1. v \in {"class", "device"} => Before("added")
        BY <1>4, <2>2, <2>4
      <4> QED BY <4>1, <2>1, <2>3, <2>7, <1>7, <3>8 DEF Asked
    <3>14. v \in {"cdev", "added"} =>
              /\ thing'["class"] # "held" /\ thing'["device"] # "held"
              /\ failed' \cap {"class", "device"} = {}
      <4>1. v \in {"cdev", "added"} => ~Before("class") /\ ~Before("device")
        BY <1>4, <2>2, <2>4
      <4> QED BY <4>1, <2>1, <2>3, <1>1, <1>7, <3>8
    <3>15. v \in {"class", "device"} => v \in failed'
      BY <1>1
    <3>16. thing'["class"] # "back"
      BY <2>1, <2>3, <1>7, <3>8 DEF Asked
    <3>17. driver = "mybuffer_sync" => thing'["storage"] \in {"never", "held"}
      <4>1. driver = "mybuffer_sync" => "storage" \in Needs
        BY DEF Needs
      <4> QED BY <4>1, <2>1, <1>7, <3>8, <2>5 DEF Asked, Device!ErrorPointers
    <3>18. EndsLoaded => v \in {"cdev", "added"}
      BY <1>9, <2>5, <2>9 DEF EndsLoaded
    <3>19. ~EndsLoaded => /\ driver \in Hellos \cup {"mybuffer_sync"}
                          /\ Needs \ {"cdev", "numbers", "storage"} = {"added", "class", "device"}
      BY <1>2 DEF EndsLoaded, Needs, Drivers, Plain, Hellos
    <3>20. Needs' = Needs /\ Noticed' = Noticed /\ Device!Ladder' = Device!Ladder /\ EndsLoaded' = EndsLoaded
      BY <1>1 DEF Needs, Noticed, Failure, Device!Ladder, EndsLoaded
    <3>21. OnTheLadder'
      <4>1. CASE EndsLoaded
        BY <4>1, <3>18, <3>10, <3>12, <3>5, <3>6, <3>20 DEF OnTheLadder
      <4>2. CASE ~EndsLoaded
        <5>1. at' <= 1 => thing'["cdev"] = "held"
          BY <3>3, <2>5, <3>11
        <5>2. at' <= 3 => IF driver \in Hellos THEN thing'["class"] # "back"
                              ELSE thing'["storage"] \in {"never", "held"}
          BY <3>16, <3>17, <3>19, <4>2
        <5>3. IF failed' \cap {"class", "device"} # {} THEN thing'["added"] = "held"
                   ELSE /\ at' > 1 => thing'["cdev"] # "held"
                        /\ at' > 2 => thing'["numbers"] # "held"
                        /\ \A w \in Needs \ {"cdev", "numbers", "storage"} : thing'[w] # "held"
          <6>1. CASE v \in {"class", "device"}
            BY <6>1, <3>13, <3>15
          <6>2. CASE v = "cdev"
            <7>1. at' = 2
              BY <6>2, <3>2, <2>5
            <7> QED BY <6>2, <7>1, <3>10, <3>14, <3>19, <4>2
          <6>3. CASE v = "added"
            <7>1. at' = 1
              BY <6>3, <3>2, <2>5
            <7> QED BY <6>3, <7>1, <3>12, <3>14, <3>19, <4>2
          <6> QED BY <6>1, <6>2, <6>3, <2>5, <2>9
        <5>4. ~(at' > 3)
          BY <3>3
        <5> QED BY <1>1, <4>2, <5>1, <5>2, <5>3, <5>4, <3>9, <3>5, <3>6, <3>20 DEF OnTheLadder
      <4> QED BY <4>1, <4>2
    <3>22. OpenFiles'
      <4>1. files > 0 => thing["added"] = "held"
        BY <1>1, <1>2 DEF OpenFiles
      <4>2. v # "added" \/ files = 0
        BY <4>1, <1>6, <1>2 DEF DeviceTypes
      <4> QED BY <1>1, <3>1, <4>1, <4>2, <1>7, <3>8, <1>2 DEF OpenFiles, DeviceTypes
    <3>23. FilesLeft'
      <4>1. driver = "mybuffer_sync" => ~Before("device") /\ v # "device"
        BY <1>4, <1>9, <2>2, <2>4, <2>5 DEF Hellos
      <4>2. driver = "mybuffer_sync" => "device" \notin failed'
        BY <1>1, <2>1, <2>3, <4>1
      <4> QED BY <1>1, <3>1, <4>2 DEF FilesLeft
    <3> QED BY <3>1, <3>7, <3>21, <3>22, <3>23 DEF DeviceInv, Initialising, Loaded, Exiting,
            Device!CleanUnload, Device!CleanRefusal
  <2> QED BY <2>8, <2>9
<1> QED BY <1>8, <1>9

\* What a step of the ladder or of exit does to what there is.
LEMMA GiveBackEffect ==
    ASSUME DeviceTypes, NEW w \in Needs, Device!GiveBack(w)
    PROVE  /\ thing' \in [Device!Things -> {"never", "held", "error", "back"}]
           /\ \A x \in Device!Things \ Needs : thing'[x] = "never"
           /\ \A x \in Device!Things : thing'[x] = thing[x] \/ thing'[x] = "back"
           /\ \A x \in Device!Things : x # w /\ (w = "added" => x # "cdev") => thing'[x] = thing[x]
           /\ UNCHANGED stage \/ (stage' = "undefined" /\ thing[w] # "held" /\ ~Device!Tolerated(w))
           /\ thing[w] = "held" => UNCHANGED stage
           /\ UNCHANGED stage /\ stage # "undefined" =>
                  thing'[w] # "held" /\ (w = "added" => thing'["cdev"] # "held")
<1>1. /\ w \in Device!Things /\ "cdev" \in Needs /\ "cdev" \in Device!Things /\ "added" \in Device!Things
      /\ thing \in [Device!Things -> {"never", "held", "error", "back"}]
      /\ \A x \in Device!Things \ Needs : thing[x] = "never"
  BY Positions DEF DeviceTypes, Needs, Device!Things
<1>2. CASE /\ thing[w] = "held" /\ UNCHANGED stage
           /\ thing' = IF w = "added" THEN [thing EXCEPT !["added"] = "back", !["cdev"] = "back"]
                       ELSE [thing EXCEPT ![w] = "back"]
  <2>1. CASE w = "added"
    <3>1. /\ thing'["added"] = "back" /\ thing'["cdev"] = "back"
          /\ \A x \in Device!Things : x \notin {"added", "cdev"} => thing'[x] = thing[x]
          /\ thing' \in [Device!Things -> {"never", "held", "error", "back"}]
      BY <1>1, <1>2, <2>1
    <3>2. \A x \in Device!Things \ Needs : x \notin {"added", "cdev"}
      BY <1>1, <2>1
    <3> QED BY <1>1, <1>2, <2>1, <3>1, <3>2
  <2>2. CASE w # "added"
    <3>1. /\ thing'[w] = "back" /\ \A x \in Device!Things : x # w => thing'[x] = thing[x]
          /\ thing' \in [Device!Things -> {"never", "held", "error", "back"}]
      BY <1>1, <1>2, <2>2
    <3> QED BY <1>1, <1>2, <2>2, <3>1
  <2> QED BY <2>1, <2>2
<1>3. CASE Device!Tolerated(w) /\ UNCHANGED <<thing, stage>>
  <2>1. thing[w] # "held" /\ w # "added"
    BY <1>3 DEF Device!Tolerated
  <2> QED BY <1>1, <1>3, <2>1
<1>4. CASE thing[w] # "held" /\ ~Device!Tolerated(w) /\ stage' = "undefined" /\ UNCHANGED thing
  BY <1>1, <1>4
<1> QED BY <1>2, <1>3, <1>4 DEF Device!GiveBack

\* What is not there when it is given back was not there when init answered 0.
LEMMA Undefined ==
    ASSUME DeviceInv, stage' = "undefined", DeviceTypes', EndsLoaded, failed # {},
           UNCHANGED <<driver, failed, files>>, files = 0
    PROVE  DeviceInv'
<1>1. Device!Driver[driver].end = "loaded"
  BY DriverTables DEF DeviceInv, DeviceTypes
<1> QED BY <1>1 DEF DeviceInv, Initialising, Loaded, OnTheLadder, Exiting, OpenFiles, FilesLeft,
        Device!CleanRefusal, Device!CleanUnload

LEMMA UndoStep == ASSUME DeviceInv, Device!Undo PROVE DeviceInv'
<1> DEFINE w == Device!Ladder[at]
<1>1. /\ stage = "ladder" /\ at <= Len(Device!Ladder) /\ Device!GiveBack(w) /\ at' = at + 1
      /\ UNCHANGED <<driver, failed, files>>
  BY DEF Device!Undo
<1>2. DeviceTypes /\ OnTheLadder /\ OpenFiles /\ at \in Nat \ {0} /\ driver \in Drivers
  BY DEF DeviceInv, DeviceTypes
<1>3. /\ Len(Device!Ladder) \in 2..4 /\ Device!Ladder[1] = "cdev" /\ Device!Ladder[2] = "numbers"
      /\ ~EndsLoaded => /\ Len(Device!Ladder) = 3
                        /\ Device!Ladder[3] = IF driver \in Hellos THEN "class" ELSE "storage"
  BY <1>2, LadderTables
<1>4. w \in Needs \ {"added", "device"}
  BY <1>1, <1>2, <1>3, LadderTables
<1>5. /\ thing' \in [Device!Things -> {"never", "held", "error", "back"}]
      /\ \A x \in Device!Things \ Needs : thing'[x] = "never"
      /\ \A x \in Device!Things : x # w => thing'[x] = thing[x]
      /\ UNCHANGED stage \/ (stage' = "undefined" /\ thing[w] # "held" /\ ~Device!Tolerated(w))
      /\ thing[w] = "held" => UNCHANGED stage
      /\ UNCHANGED stage => thing'[w] # "held"
      /\ thing'[w] = thing[w] \/ thing'[w] = "back"
  <2>1. w # "added" /\ w \in Needs /\ stage # "undefined" /\ w \in Device!Things
    BY <1>1, <1>2, <1>4, Positions
  <2> HIDE DEF w
  <2> QED BY <1>1, <1>2, <2>1, GiveBackEffect
<1>6. /\ "added" \in Device!Things /\ "cdev" \in Device!Things /\ "numbers" \in Device!Things
      /\ "class" \in Device!Things /\ "device" \in Device!Things /\ "storage" \in Device!Things
      /\ Needs \subseteq Device!Things
  BY <1>2, Positions DEF Device!Things
<1>7. thing'["added"] = thing["added"]
  BY <1>4, <1>5, <1>6
<1>8. DeviceTypes'
  BY <1>1, <1>2, <1>5 DEF DeviceTypes, Needs
<1>9. failed \cap Noticed # {}
  BY <1>1, <1>2 DEF OnTheLadder
<1>10. Needs' = Needs /\ Noticed' = Noticed /\ Device!Ladder' = Device!Ladder /\ EndsLoaded' = EndsLoaded
  BY <1>1 DEF Needs, Noticed, Failure, Device!Ladder, EndsLoaded
<1>11. CASE EndsLoaded
  <2>1. CASE stage' = "undefined"
    <3>1. files = 0
      BY <1>1, <1>2, <1>11 DEF OnTheLadder, OpenFiles, DeviceTypes
    <3> QED BY <1>1, <1>8, <1>9, <1>11, <2>1, <3>1, Undefined
  <2>2. CASE stage' = "ladder"
    <3>1. OnTheLadder'
      BY <1>1, <1>2, <1>3, <1>7, <1>9, <1>10, <1>11 DEF OnTheLadder
    <3>2. OpenFiles'
      BY <1>1, <1>2, <1>7, <2>2 DEF OpenFiles
    <3>3. FilesLeft'
      BY <1>1, <2>2 DEF DeviceInv, FilesLeft
    <3> QED BY <1>8, <2>2, <3>1, <3>2, <3>3 DEF DeviceInv, Initialising, Loaded, Exiting,
            Device!CleanRefusal, Device!CleanUnload
  <2> QED BY <1>1, <1>5, <2>1, <2>2
<1>12. CASE ~EndsLoaded
  <2>1. /\ at <= 1 => thing["cdev"] = "held"
        /\ at <= 2 => thing["numbers"] = "held"
        /\ at <= 3 => IF driver \in Hellos THEN thing["class"] # "back"
                      ELSE thing["storage"] \in {"never", "held"}
        /\ IF failed \cap {"class", "device"} # {} THEN thing["added"] = "held"
           ELSE /\ at > 1 => thing["cdev"] # "held"
                /\ at > 2 => thing["numbers"] # "held"
                /\ \A x \in Needs \ {"cdev", "numbers", "storage"} : thing[x] # "held"
        /\ at > 3 => thing["storage"] # "held"
    BY <1>1, <1>2, <1>12 DEF OnTheLadder
  <2>2. at = 1 \/ at = 2 \/ at = 3
    <3>1. Len(Device!Ladder) = 3
      BY <1>3, <1>12
    <3>2. at <= 3 /\ at \in Nat \ {0}
      BY <1>1, <1>2, <3>1
    <3> QED BY <3>2
  <2>3. at = 3 => thing[w] = "held" \/ Device!Tolerated(w)
    <3>1. CASE driver \in Hellos
      <4>1. at = 3 => w = "class" /\ thing["class"] \in {"never", "held", "error"}
        BY <1>2, <1>3, <1>6, <1>12, <2>1, <3>1 DEF DeviceTypes
      <4> HIDE DEF w
      <4> QED BY <4>1 DEF Device!Tolerated
    <3>2. CASE driver \notin Hellos
      <4>1. at = 3 => w = "storage" /\ thing["storage"] \in {"never", "held"}
        BY <1>3, <1>12, <2>1, <3>2
      <4> HIDE DEF w
      <4> QED BY <4>1 DEF Device!Tolerated
    <3> QED BY <3>1, <3>2
  <2>4. stage' = "ladder" /\ thing'[w] # "held"
    <3>1. at = 1 => w = "cdev"
      BY <1>3
    <3>2. at = 2 => w = "numbers"
      BY <1>3
    <3> HIDE DEF w
    <3> QED BY <1>1, <1>5, <2>1, <2>2, <2>3, <3>1, <3>2
  <2>5. \A x \in Needs : thing[x] # "held" => thing'[x] # "held"
    BY <1>5, <1>6
  <2>6. /\ at = 1 => w = "cdev" 
        /\ at = 2 => w = "numbers"
        /\ at = 3 => w = IF driver \in Hellos THEN "class" ELSE "storage"
    BY <1>3, <1>12
  <2> HIDE DEF w
  <2>7. at' <= 2 => thing'["numbers"] = "held"
    BY <1>1, <1>5, <1>6, <2>1, <2>2, <2>6
  <2>8. at' <= 3 => IF driver \in Hellos THEN thing'["class"] # "back"
                    ELSE thing'["storage"] \in {"never", "held"}
    BY <1>1, <1>5, <1>6, <2>1, <2>2, <2>6
  <2>9. failed \cap {"class", "device"} # {} => thing'["added"] = "held"
    BY <1>7, <2>1
  <2>10. failed \cap {"class", "device"} = {} =>
            /\ at' > 1 => thing'["cdev"] # "held"
            /\ at' > 2 => thing'["numbers"] # "held"
            /\ \A x \in Needs \ {"cdev", "numbers", "storage"} : thing'[x] # "held"
    <3>1. "cdev" \in Needs /\ "numbers" \in Needs
      BY DEF Needs
    <3> QED BY <1>1, <2>1, <2>2, <2>4, <2>5, <2>6, <3>1
  <2>11. at' > 3 => thing'["storage"] # "held"
    <3>1. CASE driver \in Hellos
      <4>1. "storage" \notin Needs
        BY <3>1 DEF Needs, Hellos
      <4> QED BY <4>1, <1>5, <1>6
    <3>2. CASE driver \notin Hellos
      BY <1>1, <2>2, <2>4, <2>6, <3>2
    <3> QED BY <3>1, <3>2
  <2>12. at' <= Len(Device!Ladder) + 1 /\ ~(at' <= 1)
    BY <1>1, <1>2, <1>3
  <2>13. OnTheLadder'
    BY <1>1, <1>9, <1>10, <1>12, <2>7, <2>8, <2>9, <2>10, <2>11, <2>12 DEF OnTheLadder
  <2>14. OpenFiles'
    BY <1>1, <1>2, <1>7, <2>4 DEF OpenFiles
  <2>15. FilesLeft'
    BY <1>1, <2>4 DEF DeviceInv, FilesLeft
  <2> QED BY <1>8, <2>4, <2>13, <2>14, <2>15 DEF DeviceInv, Initialising, Loaded, Exiting,
          Device!CleanRefusal, Device!CleanUnload
<1> QED BY <1>11, <1>12

LEMMA InitReturnsStep == ASSUME DeviceInv, Device!InitReturns PROVE DeviceInv'
<1>1. UNCHANGED <<driver, at, thing, failed, files>>
  BY DEF Device!InitReturns
<1>2. DeviceTypes /\ Initialising /\ OnTheLadder /\ OpenFiles /\ at \in Nat \ {0} /\ driver \in Drivers
  BY DEF DeviceInv, DeviceTypes
<1>3. Needs' = Needs /\ Noticed' = Noticed /\ EndsLoaded' = EndsLoaded
  BY <1>1 DEF Needs, Noticed, Failure, EndsLoaded
<1>4. CASE stage = "init" /\ at > Len(Device!Steps) /\ stage' = "loaded"
  <2>1. at > StepCount /\ StepCount \in Nat /\ \A w \in Needs : Position(w) \in 1..StepCount
    BY <1>2, <1>4, InitTables, Positions DEF StepCount, First
  <2>2. failed \cap Noticed = {} /\ \A w \in Needs : Asked(w)
    BY <1>2, <1>4, <2>1 DEF Initialising
  <2>3. Loaded' /\ OpenFiles' /\ DeviceTypes'
    BY <1>1, <1>2, <1>3, <1>4, <2>2 DEF Loaded, Asked, OpenFiles, DeviceTypes
  <2> QED BY <1>4, <2>3 DEF DeviceInv, Initialising, OnTheLadder, Exiting, FilesLeft,
          Device!CleanRefusal, Device!CleanUnload
<1>5. CASE stage = "ladder" /\ at > Len(Device!Ladder) /\ stage' = Device!Driver[driver].end
  <2>1. CASE EndsLoaded
    <3>1. stage' = "loaded"
      BY <1>2, <1>5, <2>1, DriverTables
    <3>2. Loaded' /\ OpenFiles' /\ DeviceTypes'
      BY <1>1, <1>2, <1>3, <1>5, <2>1, <3>1 DEF Loaded, OnTheLadder, OpenFiles, DeviceTypes
    <3> QED BY <3>1, <3>2 DEF DeviceInv, Initialising, OnTheLadder, Exiting, FilesLeft,
            Device!CleanRefusal, Device!CleanUnload
  <2>2. CASE ~EndsLoaded
    <3>1. stage' = "refused"
      BY <1>2, <1>5, <2>2, DriverTables
    <3>2. at > 3
      BY <1>2, <1>5, <2>2, LadderTables
    <3>3. /\ IF failed \cap {"class", "device"} # {} THEN thing["added"] = "held"
             ELSE /\ thing["cdev"] # "held" /\ thing["numbers"] # "held"
                  /\ \A x \in Needs \ {"cdev", "numbers", "storage"} : thing[x] # "held"
          /\ thing["storage"] # "held"
      BY <1>2, <1>5, <2>2, <3>2 DEF OnTheLadder
    <3>4. "added" \in Device!Things /\ "added" \in Needs
      BY DEF Device!Things, Needs
    <3>5. thing["struct"] # "held"
      <4>1. driver # "mybuffer"
        BY <2>2 DEF EndsLoaded, Hellos
      <4>2. "struct" \in Device!Things \ Needs
        BY <4>1 DEF Needs, Device!Things
      <4> QED BY <4>2, <1>2 DEF DeviceTypes
    <3>6. Device!Held \cap Device!Buffers = {}
      BY <3>3, <3>5 DEF Device!Held, Device!Buffers
    <3>9. FilesLeft'
      <4>1. failed \cap {"class", "device"} = {} => files = 0
        BY <1>2, <1>5, <3>3, <3>4 DEF OpenFiles, DeviceTypes, Needs
      <4>2. driver = "mybuffer_sync" => "device" \notin failed
        BY <1>5 DEF DeviceInv, FilesLeft
      <4> QED BY <1>1, <1>3, <2>2, <3>1, <4>1, <4>2 DEF FilesLeft
    <3>7. CASE failed \cap {"class", "device"} # {}
      <4>1. "added" \in Device!Held
        BY <3>3, <3>4, <3>7 DEF Device!Held
      <4>2. DeviceTypes' /\ Device!CleanRefusal'
        BY <1>1, <1>2, <3>1, <3>6, <3>7, <4>1
           DEF DeviceTypes, Device!CleanRefusal, Device!Held, Device!Buffers, Needs
      <4> QED BY <3>1, <3>9, <4>2 DEF DeviceInv, Initialising, Loaded, OnTheLadder, Exiting, OpenFiles,
              Device!CleanUnload
    <3>8. CASE failed \cap {"class", "device"} = {}
      <4>1. \A x \in Device!Things : thing[x] # "held"
        BY <3>3, <3>8, <1>2 DEF DeviceTypes
      <4>2. Device!Held = {}
        BY <4>1 DEF Device!Held
      <4>3. DeviceTypes' /\ Device!CleanRefusal'
        BY <1>1, <1>2, <3>1, <3>8, <4>2
           DEF DeviceTypes, Device!CleanRefusal, Device!Held, Device!Buffers, Needs
      <4> QED BY <3>1, <3>9, <4>3 DEF DeviceInv, Initialising, Loaded, OnTheLadder, Exiting, OpenFiles,
              Device!CleanUnload
    <3> QED BY <3>7, <3>8
  <2> QED BY <2>1, <2>2
<1> QED BY <1>4, <1>5 DEF Device!InitReturns

LEMMA RmmodStep == ASSUME DeviceInv, Device!Rmmod PROVE DeviceInv'
<1>1. /\ stage = "loaded" /\ files = 0 /\ stage' = "exit" /\ at' = 1
      /\ UNCHANGED <<driver, thing, failed, files>>
  BY DEF Device!Rmmod
<1>2. DeviceTypes /\ Loaded /\ driver \in Drivers
  BY DEF DeviceInv, DeviceTypes
<1>3. /\ Needs' = Needs /\ Noticed' = Noticed /\ EndsLoaded' = EndsLoaded /\ Kept' = Kept
      /\ ExitCount' = ExitCount /\ \A w : ExitPosition(w)' = ExitPosition(w)
  BY <1>1 DEF Needs, Noticed, Failure, EndsLoaded, Kept, ExitCount, ExitFirst, ExitPosition
<1>4. ExitCount \in Nat /\ "added" \in Needs
  BY DEF ExitCount, ExitFirst, Needs
<1>5. \A w \in Needs : 1 <= ExitPosition(w)
  BY <1>2, Positions
<1>6. Exiting'
  <2>1. CASE failed \cap Noticed = {}
    BY <1>1, <1>2, <1>3, <1>4, <1>5, <2>1 DEF Loaded, Exiting, Asked
  <2>2. CASE failed \cap Noticed # {}
    BY <1>1, <1>2, <1>3, <1>4, <1>5, <2>2 DEF Loaded, Exiting
  <2> QED BY <2>1, <2>2
<1>7. DeviceTypes' /\ OpenFiles'
  BY <1>1, <1>2, <1>3 DEF DeviceTypes, OpenFiles
<1> QED BY <1>1, <1>6, <1>7 DEF DeviceInv, Initialising, Loaded, OnTheLadder, FilesLeft,
        Device!CleanRefusal, Device!CleanUnload

LEMMA ExitStepStep == ASSUME DeviceInv, Device!ExitStep PROVE DeviceInv'
<1> DEFINE w == Device!Exit[at]
<1>1. /\ stage = "exit" /\ at <= Len(Device!Exit) /\ Device!GiveBack(w) /\ at' = at + 1
      /\ UNCHANGED <<driver, failed, files>>
  BY DEF Device!ExitStep
<1>2. DeviceTypes /\ Exiting /\ OpenFiles /\ at \in Nat \ {0} /\ driver \in Drivers
  BY DEF DeviceInv, DeviceTypes
<1>3. ExitCount \in Nat
  BY DEF ExitCount, ExitFirst
<1>4. /\ at \in 1..ExitCount /\ w \in Needs \ (Kept \cup {"cdev"}) /\ ExitPosition(w) = at
      /\ \A x \in Needs \ (Kept \cup {"cdev"}) : ExitPosition(x) = at => x = w
  <2>1. at \in 1..ExitCount
    BY <1>1, <1>2, <1>3, ExitTables
  <2> QED BY <1>2, <2>1, ExitTables
<1> HIDE DEF w
<1>5. /\ thing' \in [Device!Things -> {"never", "held", "error", "back"}]
      /\ \A x \in Device!Things \ Needs : thing'[x] = "never"
      /\ \A x \in Device!Things : thing'[x] = thing[x] \/ thing'[x] = "back"
      /\ \A x \in Device!Things : x # w /\ (w = "added" => x # "cdev") => thing'[x] = thing[x]
      /\ UNCHANGED stage \/ (stage' = "undefined" /\ thing[w] # "held" /\ ~Device!Tolerated(w))
      /\ thing[w] = "held" => UNCHANGED stage
      /\ UNCHANGED stage => thing'[w] # "held" /\ (w = "added" => thing'["cdev"] # "held")
  BY <1>1, <1>2, <1>4, GiveBackEffect
<1>6. /\ Needs' = Needs /\ Noticed' = Noticed /\ EndsLoaded' = EndsLoaded /\ Kept' = Kept
      /\ ExitCount' = ExitCount /\ \A x : ExitPosition(x)' = ExitPosition(x)
  BY <1>1 DEF Needs, Noticed, Failure, EndsLoaded, Kept, ExitCount, ExitFirst, ExitPosition
<1>7. DeviceTypes'
  BY <1>1, <1>2, <1>5, <1>6 DEF DeviceTypes
<1>11. files = 0
  BY <1>1, <1>2 DEF OpenFiles
<1>8. /\ Needs \subseteq Device!Things /\ \A x \in Needs : ExitPosition(x) \in Nat \ {0}
      /\ ExitPosition("added") = ExitPosition("cdev") /\ "added" \in Needs /\ "cdev" \in Needs
      /\ "added" \notin Kept /\ "cdev" \notin Kept /\ "class" \in Needs /\ "device" \in Needs
  BY <1>2, Positions DEF Needs, Kept
<1>9. CASE failed \cap Noticed = {}
  <2>1. \A x \in Needs : IF x \in Kept \/ at <= ExitPosition(x) THEN Asked(x) ELSE thing[x] # "held"
    BY <1>1, <1>2, <1>9 DEF Exiting
  <2>2. Asked(w)
    BY <1>2, <1>4, <2>1
  <2>3. CASE stage' = "undefined"
    <3>1. w \in failed /\ ~Device!Tolerated(w) /\ thing[w] # "held"
      BY <1>1, <1>5, <2>2, <2>3 DEF Asked
    <3>2. EndsLoaded
      <4>1. driver \notin Hellos
        BY <1>4, <1>9, <3>1 DEF Noticed, Needs, Hellos, Failure
      <4>2. driver # "mybuffer_sync"
        <5> SUFFICES ASSUME driver = "mybuffer_sync" PROVE FALSE
          OBVIOUS
        <5>1. Failure("class") = "cdev" /\ "class" \notin failed
          BY <1>8, <1>9 DEF Noticed, Failure, Hellos
        <5>2. w = "device"
          BY <1>4, <1>9, <3>1 DEF Noticed, Needs, Failure, Hellos, Kept
        <5>3. at = 1 /\ ExitPosition("class") = 2
          BY <1>4, <5>2 DEF ExitPosition, ExitFirst
        <5>4. thing["class"] = "held"
          BY <1>8, <2>1, <5>1, <5>3 DEF Asked
        <5> QED BY <3>1, <5>2, <5>4 DEF Device!Tolerated
      <4> QED BY <4>1, <4>2 DEF EndsLoaded
    <3> QED BY <1>1, <1>7, <1>11, <2>3, <3>1, <3>2, Undefined
  <2>4. CASE stage' = "exit"
    <3>1. ASSUME NEW x \in Needs
          PROVE  IF x \in Kept \/ at + 1 <= ExitPosition(x) THEN Asked(x)' ELSE thing'[x] # "held"
      <4>1. x \in Device!Things /\ ExitPosition(x) \in Nat
        BY <1>8
      <4>2. CASE x \in Kept \/ at + 1 <= ExitPosition(x)
        <5>1. x # w /\ (w = "added" => x # "cdev")
          BY <1>2, <1>4, <1>8, <4>2
        <5>2. Asked(x)
          BY <1>2, <2>1, <4>1, <4>2
        <5> QED BY <1>1, <1>5, <4>1, <4>2, <5>1, <5>2 DEF Asked
      <4>3. CASE x \notin Kept /\ ExitPosition(x) = at
        <5>1. x = w \/ (x = "cdev" /\ w = "added")
          BY <1>4, <1>8, <4>3
        <5> QED BY <1>1, <1>2, <1>5, <2>4, <4>3, <5>1
      <4>4. CASE x \notin Kept /\ ExitPosition(x) < at
        <5>1. thing[x] # "held"
          BY <1>2, <2>1, <4>1, <4>4
        <5> QED BY <1>2, <1>5, <4>1, <4>4, <5>1
      <4> QED BY <1>2, <4>1, <4>2, <4>3, <4>4
    <3>2. Exiting'
      BY <1>1, <1>3, <1>4, <1>6, <1>9, <3>1 DEF Exiting
    <3>3. OpenFiles'
      BY <1>1, <1>2, <2>4 DEF OpenFiles
    <3> QED BY <1>7, <2>4, <3>2, <3>3 DEF DeviceInv, Initialising, Loaded, OnTheLadder, FilesLeft,
            Device!CleanRefusal, Device!CleanUnload
  <2> QED BY <1>1, <1>5, <2>3, <2>4
<1>10. CASE failed \cap Noticed # {}
  <2>1. EndsLoaded /\ thing["added"] # "held" /\ at <= ExitPosition("added") /\ failed # {}
    BY <1>1, <1>2, <1>10 DEF Exiting
  <2>2. CASE stage' = "undefined"
    BY <1>1, <1>7, <1>11, <2>1, <2>2, Undefined
  <2>3. CASE stage' = "exit"
    <3>1. w # "added"
      <4>1. ASSUME w = "added" PROVE FALSE
        <5>1. ~Device!Tolerated("added")
          BY DEF Device!Tolerated
        <5>2. stage' = "undefined"
          BY <1>1, <2>1, <4>1, <5>1 DEF Device!GiveBack
        <5> QED BY <5>2, <2>3
      <4> QED BY <4>1
    <3>2. at # ExitPosition("added")
      BY <1>4, <1>8, <3>1
    <3>3. thing'["added"] # "held"
      BY <1>5, <1>8, <2>1, <3>1
    <3>4. Exiting'
      BY <1>1, <1>2, <1>3, <1>4, <1>6, <1>8, <1>10, <2>1, <3>2, <3>3 DEF Exiting
    <3>5. OpenFiles'
      BY <1>1, <1>2, <2>3 DEF OpenFiles
    <3> QED BY <1>7, <2>3, <3>4, <3>5 DEF DeviceInv, Initialising, Loaded, OnTheLadder, FilesLeft,
            Device!CleanRefusal, Device!CleanUnload
  <2> QED BY <1>1, <1>5, <2>2, <2>3
<1> QED BY <1>9, <1>10

LEMMA ExitReturnsStep == ASSUME DeviceInv, Device!ExitReturns PROVE DeviceInv'
<1>1. /\ stage = "exit" /\ at > Len(Device!Exit) /\ stage' = "gone"
      /\ UNCHANGED <<driver, at, thing, failed, files>>
  BY DEF Device!ExitReturns
<1>2. DeviceTypes /\ Exiting /\ OpenFiles /\ at \in Nat \ {0} /\ driver \in Drivers
  BY DEF DeviceInv, DeviceTypes
<1>3. at > ExitCount /\ ExitCount \in Nat
  BY <1>1, <1>2, ExitTables DEF ExitCount, ExitFirst
<1>4. /\ \A w \in Needs : w \notin Kept => ExitPosition(w) <= ExitCount
      /\ \A w \in Needs : ExitPosition(w) \in Nat \ {0}
      /\ ExitPosition("added") <= ExitCount /\ "added" \in Needs
      /\ Kept \subseteq Needs /\ Needs \subseteq Device!Things
  BY <1>2, Positions DEF Needs
<1>5. failed \cap Noticed = {}
  BY <1>1, <1>2, <1>3, <1>4 DEF Exiting
<1>6. /\ \A w \in Needs : w \notin Kept => thing[w] # "held"
      /\ \A w \in Kept : Asked(w)
  BY <1>1, <1>2, <1>3, <1>4, <1>5 DEF Exiting
<1>7. \A w \in Device!Things : thing[w] = "held" <=> w \in Kept /\ Asked(w) /\ thing[w] = "held"
  BY <1>2, <1>6 DEF DeviceTypes
<1>8. Device!Held = {w \in Kept : thing[w] = "held"}
  BY <1>4, <1>7 DEF Device!Held
<1>9. Device!Held = CASE driver = "openclose" -> {"numbers"}
                      [] driver = "mybuffer_sync" -> {"storage"} \ failed
                      [] OTHER -> {}
  <2>1. CASE driver = "openclose"
    <3>1. Kept = {"numbers"} /\ "numbers" \notin failed
      BY <1>4, <1>5, <2>1 DEF Kept, Noticed, Failure
    <3>2. thing["numbers"] = "held"
      BY <1>6, <3>1 DEF Asked
    <3> QED BY <1>8, <2>1, <3>1, <3>2
  <2>2. CASE driver = "mybuffer_sync"
    <3>1. Kept = {"storage"}
      BY <2>2 DEF Kept
    <3>2. thing["storage"] = "held" <=> "storage" \notin failed
      BY <1>6, <3>1 DEF Asked, Device!ErrorPointers
    <3> QED BY <1>8, <2>2, <3>1, <3>2
  <2>3. CASE driver \notin {"openclose", "mybuffer_sync"}
    BY <1>8, <2>3 DEF Kept
  <2> QED BY <2>1, <2>2, <2>3
<1>10. DeviceTypes' /\ OpenFiles' /\ Device!CleanUnload'
  BY <1>1, <1>2, <1>9 DEF DeviceTypes, OpenFiles, Device!CleanUnload, Device!Held, Needs
<1> QED BY <1>1, <1>10 DEF DeviceInv, Initialising, Loaded, OnTheLadder, Exiting, FilesLeft, Device!CleanRefusal

LEMMA OpenStep ==
    ASSUME DeviceInv, UNCHANGED <<driver, stage, at, thing, failed>>,
           Device!Open \/ Device!Close \/ UNCHANGED files
    PROVE  DeviceInv'
<1>1. DeviceTypes' /\ OpenFiles'
  BY DEF DeviceInv, DeviceTypes, OpenFiles, Needs, Device!Open, Device!Close
<1>4. FilesLeft'
  BY DEF DeviceInv, DeviceTypes, FilesLeft, EndsLoaded, Device!Open, Device!Close
<1>2. Initialising' /\ Loaded' /\ OnTheLadder' /\ Exiting'
  BY DEF DeviceInv, Initialising, Loaded, OnTheLadder, Exiting, Asked, Needs, Noticed, Failure, Position,
     StepCount, First, ExitCount, ExitFirst, ExitPosition, Kept, EndsLoaded, Device!Ladder
<1>3. Device!CleanRefusal' /\ Device!CleanUnload'
  BY DEF DeviceInv, Device!CleanRefusal, Device!CleanUnload, Device!Held
<1> QED BY <1>1, <1>2, <1>3, <1>4 DEF DeviceInv

LEMMA DeviceInvStep == ASSUME DeviceInv, [Device!Next]_deviceVars PROVE DeviceInv'
<1>1. CASE Device!Open \/ Device!Close \/ Device!Done \/ UNCHANGED deviceVars
  <2>1. /\ UNCHANGED <<driver, stage, at, thing, failed>>
        /\ Device!Open \/ Device!Close \/ UNCHANGED files
    BY <1>1 DEF Device!Open, Device!Close, Device!Done, Device!vars, deviceVars
  <2> QED BY <2>1, OpenStep
<1> QED BY <1>1, ObtainStep, FailStep, UseStep, UndoStep, InitReturnsStep, RmmodStep, ExitStepStep,
        ExitReturnsStep DEF Device!Next

\* The buffers are asked for before cdev_add, and the device is not there when
\* the ladder of mybuffer comes to them.
LEMMA BuffersFound == DeviceInv => Device!BuffersOutliveFiles
<1> SUFFICES ASSUME DeviceInv, files > 0, NEW w \in Device!Buffers,
                    Device!Get(w, "ignore") \in Device!ToSet(Device!Steps), thing[w] # "held"
             PROVE  \/ w \in failed
                    \/ driver = "mybuffer_sync" /\ "class" \in failed /\ stage \in {"ladder", "refused"}
  BY DEF Device!BuffersOutliveFiles
<1>1. driver \in Drivers /\ stage \notin {"exit", "gone"}
  BY DEF DeviceInv, DeviceTypes, OpenFiles
<1>2. PICK j \in 1..StepCount : Device!Steps[j] = Device!Get(w, "ignore")
  BY <1>1, InitTables DEF Device!ToSet
<1>3. w \in Needs
  BY <1>1, <1>2, InitTables DEF StepIs, Device!Get
<1>4. driver \in {"mybuffer", "mybuffer_sync"}
  BY <1>3 DEF Needs, Device!Buffers
<1>5. CASE stage = "loaded"
  BY <1>1, <1>3, <1>5 DEF DeviceInv, Loaded, Asked, OpenFiles
<1>6. CASE stage = "init"
  <2>1. "added" \in Needs
    BY DEF Needs
  <2>2. Position("added") < at
    BY <1>1, <1>6, <2>1 DEF DeviceInv, Initialising, OpenFiles
  <2>3. Position(w) < Position("added")
    BY <1>3 DEF Device!Buffers, Position, First, Needs
  <2>4. Position(w) < at
    BY <1>1, <1>3, <2>1, <2>2, <2>3, Positions DEF DeviceInv, DeviceTypes, StepCount, First
  <2> QED BY <1>3, <1>6, <2>4 DEF DeviceInv, Initialising, Asked
<1>7. CASE stage = "ladder"
  <2>1. thing["added"] = "held" /\ failed \cap Noticed # {} /\ ~EndsLoaded
    BY <1>7 DEF DeviceInv, OpenFiles, OnTheLadder
  <2>2. driver = "mybuffer_sync" /\ "device" \notin failed
    BY <1>4, <1>7, <2>1 DEF EndsLoaded, Hellos, DeviceInv, FilesLeft
  <2>3. "added" \in Needs \ {"cdev", "numbers", "storage"}
    BY DEF Needs
  <2>4. failed \cap {"class", "device"} # {}
    BY <1>7, <2>1, <2>3 DEF DeviceInv, OnTheLadder
  <2> QED BY <1>7, <2>2, <2>4
<1>8. CASE stage = "refused"
  <2>1. ~EndsLoaded /\ failed \cap {"class", "device"} # {}
    BY <1>8 DEF DeviceInv, FilesLeft
  <2>2. driver = "mybuffer_sync" /\ "device" \notin failed
    BY <1>4, <1>8, <2>1 DEF EndsLoaded, Hellos, DeviceInv, FilesLeft
  <2> QED BY <1>8, <2>1, <2>2
<1>9. CASE stage = "undefined"
  <2>1. driver = "mybuffer_sync"
    BY <1>4, <1>9 DEF DeviceInv, FilesLeft
  <2>2. Device!Driver[driver].end = "refused" /\ Device!Driver[driver].end = "loaded"
    BY <1>1, <1>9, <2>1, DriverTables DEF DeviceInv, Device!CleanUnload, EndsLoaded, Hellos
  <2> QED BY <2>2
<1> QED BY <1>1, <1>5, <1>6, <1>7, <1>8, <1>9 DEF DeviceInv, DeviceTypes

-----------------------------------------------------------------------------
(* The modules *)

IInv ==
    /\ loaded \in {"device", "kthread", "deferred"}
    /\ IF loaded = "device" THEN DeviceInv ELSE files = 0 /\ stage = "none"
    /\ IF loaded = "kthread" THEN KthreadInv ELSE exit = "none"
    /\ IF loaded = "deferred" THEN DeferredInv ELSE module = "none" /\ delays = {}

LEMMA InitIInv == Init => IInv
<1>1. Kthread!Init => KthreadInv
  BY Parameters DEF Kthread!Init, Kthread!Used, KthreadInv, Labels, ThreadsUsed, Waited, Exited
<1> QED
  BY <1>1, DeviceStart, InitDeferredInv DEF Init, IInv, NoDevice, NoKthread, NoDeferred

LEMMA IInvStep == IInv /\ [Next]_vars => IInv'
<1> SUFFICES ASSUME IInv, [Next]_vars PROVE IInv'
  OBVIOUS
<1>1. CASE DeviceStep
  BY <1>1, DeviceInvStep DEF DeviceStep, kthreadVars, deferredVars, IInv
<1>2. CASE KthreadStep
  BY <1>2, KthreadInvStep DEF KthreadStep, deviceVars, deferredVars, IInv
<1>3. CASE DeferredStep
  BY <1>3, DeferredInvStep DEF DeferredStep, deviceVars, kthreadVars, IInv
<1>4. CASE UNCHANGED vars
  <2>1. KthreadInv => KthreadInv'
    BY <1>4 DEF vars, kthreadVars, KthreadInv, ThreadsUsed, Waited, Exited
  <2>2. DeferredInv => DeferredInv'
    BY <1>4 DEF vars, deferredVars, DeferredInv, DeferredTypes, LeftOver, Clock, NotEarly, Extremes
  <2>3. DeviceInv => DeviceInv'
    BY <1>4, DeviceInvStep DEF vars
  <2> QED BY <1>4, <2>1, <2>2, <2>3 DEF vars, deviceVars, kthreadVars, deferredVars, IInv
<1> QED BY <1>1, <1>2, <1>3, <1>4 DEF Next

THEOREM Invariance == Spec => []IInv
BY InitIInv, IInvStep, PTL DEF Spec

-----------------------------------------------------------------------------
\* mykthread.c and mysemaphore.c wait for as many completions as they started
\* threads, so that all have left the code when it goes; mytimer.c and
\* mytasklet.c take their item back before, and myworkqueue.c does, unless the
\* work is being done while it is cancelled.
THEOREM CodeOutlivesCalls == Spec => []NothingLeftToRun
<1>1. IInv => Kthread!CodeOutlivesThreads
  BY Parameters DEF IInv, KthreadInv, Labels, ThreadsUsed, Waited, Exited,
     Kthread!CodeOutlivesThreads, Kthread!At
<1>2. IInv => Deferred!NothingLeftToCall
  BY DEF IInv, DeferredInv, DeferredTypes, LeftOver, Deferred!NothingLeftToCall
<1> QED BY <1>1, <1>2, Invariance, PTL DEF NothingLeftToRun

\* The init and exit functions of the twelve character devices, whatever call
\* fails: what goes wrong before cdev_add leaves at most the buffers of a module
\* whose numbers were refused, what goes wrong after it always leaves the device
\* registered, and rmmod gives back once whatever init got, but for the numbers
\* of openclose.c and the memory of mybuffer_sync.c.
THEOREM RegistrationIsClean == Spec => []CleanRegistration
<1>1. IInv => CleanRegistration
  BY DEF IInv, DeviceInv, CleanRegistration, Device!CleanRefusal, Device!CleanUnload
<1> QED BY <1>1, Invariance, PTL

\* mybuffer.c and mybuffer_sync.c, in every stage of the module: a file is open
\* on a buffer that is not there only if kmalloc or kcalloc refused the buffer,
\* which init does not notice, or in mybuffer_sync.c after class_create failed,
\* when the ladder frees kernelmem and leaves the device registered.
THEOREM OperationsFindBuffers == Spec => []BuffersOutliveFiles
<1>1. IInv => BuffersOutliveFiles
  BY BuffersFound DEF IInv, BuffersOutliveFiles, Device!BuffersOutliveFiles
<1> QED BY <1>1, Invariance, PTL

\* mytimer.c and myworkqueue.c: the unsigned difference of jiffies is the time
\* that has passed, also when the counter has wrapped around, and the extremes
\* that are printed are those of all delays there were.
THEOREM DelaysPrintedAreTrue == Spec => []DelaysTrue
<1>1. IInv => DelaysTrue
  <2> SUFFICES ASSUME IInv, delays # {} PROVE Deferred!DelaysTrue
    BY DEF DelaysTrue, Deferred!DelaysTrue
  <2>1. DeferredInv /\ item # "mytasklet" /\ Extremes /\ delays \subseteq Int
    BY DEF IInv, DeferredInv, DeferredTypes
  <2>2. jiff.min = Deferred!Min(delays) /\ jiff.max = Deferred!Max(delays)
    BY <2>1, ExtremesChosen DEF Extremes
  <2> QED BY <2>1, <2>2 DEF Extremes, Deferred!DelaysTrue
<1> QED BY <1>1, Invariance, PTL

=============================================================================
