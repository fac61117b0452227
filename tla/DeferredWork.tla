---------------------------- MODULE DeferredWork ----------------------------
(***************************************************************************)
(* "Kernel Modules/hw5/modules": mytimer.c, myworkqueue.c and mytasklet.c. *)
(* A module hands a function to the kernel, which calls it later; the      *)
(* timer and the work item measure the delay in jiffies since the last     *)
(* call and schedule themselves again.  The exit function takes the item   *)
(* back, while it waits to be called or is being called.                   *)
(***************************************************************************)
EXTENDS Integers, FiniteSets, FiniteSetsExt

CONSTANTS
    W,                  \* jiffies are counted modulo W
    Interval,           \* 2 * HZ
    MaxDelay            \* within how many jiffies a call comes, at most

Parameters ==
    /\ W \in Nat /\ Interval \in Nat \ {0} /\ MaxDelay \in Nat
    /\ Interval <= MaxDelay /\ MaxDelay < W - 1

VARIABLES
    item,               \* which of the three
    module,             \* "live", "exit" while rmmod is called, "gone"
    queued, due,        \* the item waits to be called, in due jiffies or later
    func,               \* next step of the function, or "idle"
    now,                \* jiffies
    jiff, nanosecs,     \* the delays; nanosecs stands for the same in other units
    elapsed,            \* history: the time since jiff.prev was taken
    delays,             \* history: all delays so far
    calls,              \* history: the tasklet has been called
    cancelled           \* history: what func was at the end of exit

stats == <<jiff, nanosecs, delays>>
vars == <<item, module, queued, due, func, now, stats, elapsed, calls, cancelled>>

\* What kmalloc leaves in memory: no delay.
Junk == -1

\* Nothing has been measured, and the item is called in d jiffies.
Scheduled(d) ==
    /\ module = "live" /\ queued = TRUE /\ due = d /\ func = "idle"
    /\ now \in 0..(W - 1) /\ jiff = [prev |-> now, min |-> W - 1, max |-> 0]
    /\ elapsed = 0 /\ delays = {} /\ calls = 0 /\ cancelled = "idle"

TimerInit ==
    /\ item = "mytimer" /\ Scheduled(Interval)
    /\ nanosecs = [min |-> W - 1, max |-> 0]

\* nanosecs is allocated and left as it is.
InitModule ==
    /\ item = "myworkqueue" /\ Scheduled(Interval)
    /\ nanosecs = [min |-> Junk, max |-> Junk]

ModInit ==
    /\ item = "mytasklet" /\ Scheduled(0)
    /\ nanosecs = [min |-> 0, max |-> 0]

Init == TimerInit \/ InitModule \/ ModInit

Tick ==
    /\ item \in {"mytimer", "myworkqueue"}
    /\ elapsed < MaxDelay - (IF func \in {"again", "end"} THEN Interval ELSE 0)
    /\ now' = (now + 1) % W
    /\ elapsed' = elapsed + 1
    /\ due' = Max({0, due - 1})
    /\ UNCHANGED <<item, module, queued, func, stats, calls, cancelled>>

-----------------------------------------------------------------------------
(* timer_func, work_func and tasklet_function *)

Step(from, to) == func = from /\ func' = to /\ UNCHANGED <<item, module, now, cancelled>>

\* The kernel takes the item off its queue and calls the function.
Call ==
    /\ queued /\ due = 0
    /\ Step("idle", IF item = "mytasklet" THEN "end" ELSE "measure")
    /\ queued' = FALSE /\ calls' = Min({calls + 1, 1})
    /\ UNCHANGED <<due, stats, elapsed>>

\* Mutant: the difference is taken as signed numbers.
DelaySigned == now - jiff.prev

\* unsigned long
Delay == (now - jiff.prev) % W

\* The two extremes are compared one after the other, the first delay with both.
Measure(prev) ==
    /\ jiff' = [prev |-> prev, min |-> Min({jiff.min, Delay}), max |-> Max({jiff.max, Delay})]
    /\ nanosecs' = [min |-> IF Delay < jiff.min THEN Delay ELSE nanosecs.min,
                    max |-> IF Delay > jiff.max THEN Delay ELSE nanosecs.max]
    /\ delays' = delays \cup {elapsed}

\* The next call is counted from the jiffy that was read here.
TimerFunc ==
    /\ item = "mytimer" /\ Step("measure", "again")
    /\ Measure(now)
    /\ elapsed' = 0 /\ due' = Interval
    /\ UNCHANGED <<queued, calls>>

WorkFunc ==
    /\ item = "myworkqueue" /\ Step("measure", "stamp")
    /\ Measure(jiff.prev)
    /\ UNCHANGED <<queued, due, elapsed, calls>>

\* The work item reads the time again.
Stamp ==
    /\ Step("stamp", "again")
    /\ jiff' = [jiff EXCEPT !.prev = now]
    /\ elapsed' = 0
    /\ UNCHANGED <<queued, due, nanosecs, delays, calls>>

\* Mutant: the function does not schedule itself again.
AgainNot ==
    /\ Step("again", "end")
    /\ UNCHANGED <<queued, due, stats, elapsed, calls>>

\* add_timer, schedule_delayed_work
Again ==
    /\ Step("again", "end")
    /\ queued' = TRUE
    /\ due' = IF item = "mytimer" THEN due ELSE Interval
    /\ UNCHANGED <<stats, elapsed, calls>>

End ==
    /\ Step("end", "idle")
    /\ UNCHANGED <<queued, due, stats, elapsed, calls>>

-----------------------------------------------------------------------------
(* the exit functions *)

Rmmod ==
    /\ module = "live" /\ module' = "exit"
    /\ UNCHANGED <<item, queued, due, func, now, stats, elapsed, calls, cancelled>>

\* The item is off the queue, and the module is gone.
TakeBack ==
    /\ module = "exit" /\ module' = "gone"
    /\ queued' = FALSE /\ cancelled' = func
    /\ UNCHANGED <<item, due, func, now, stats, elapsed, calls>>

\* Mutant: del_timer, which does not wait for a function that is running.
DelTimer == item = "mytimer" /\ TakeBack

\* del_timer_sync waits for a function that is running.
DelTimerSync == item = "mytimer" /\ func = "idle" /\ TakeBack

\* cancel_delayed_work does not.
CancelDelayedWork == item = "myworkqueue" /\ TakeBack

\* tasklet_kill waits until the tasklet has run.
TaskletKill == item = "mytasklet" /\ ~queued /\ func = "idle" /\ TakeBack

Function == Call \/ TimerFunc \/ WorkFunc \/ Stamp \/ Again \/ End

Exit == DelTimerSync \/ CancelDelayedWork \/ TaskletKill

Done == module = "gone" /\ ~queued /\ func = "idle" /\ UNCHANGED vars

Next == Tick \/ Function \/ Rmmod \/ Exit \/ Done

\* Exit is strongly fair: it looks again and again until it finds the function
\* idle, and the function is idle for most of an Interval.
Fairness == WF_vars(Tick) /\ WF_vars(Function) /\ SF_vars(Exit)

Spec == Init /\ [][Next]_vars /\ Fairness

-----------------------------------------------------------------------------
\* The kernel has nothing of a module that is gone to call.  The work item may
\* survive, but only when it was being called while it was cancelled ("re-insmod
\* panics", myworkqueue.c line 182); the tasklet has been called.
NothingLeftToCall ==
    module = "gone" =>
        /\ queued \/ func # "idle" => item = "myworkqueue" /\ cancelled # "idle"
        /\ item = "mytasklet" => calls = 1

\* The delays that are printed are the true ones and never below Interval, also
\* when jiffies wrap around; nanosecs belongs to the same delays, although its
\* memory was never initialised.
DelaysTrue ==
    delays # {} =>
        /\ jiff.min = Min(delays) /\ jiff.max = Max(delays) /\ jiff.min >= Interval
        /\ nanosecs.min = jiff.min /\ nanosecs.max = jiff.max

\* The timer and the work item go on until rmmod is called.
GoesOn == item = "mytasklet" \/ []<>(func = "measure") \/ <>(module # "live")

RmmodEnds == (module = "exit") ~> (module = "gone")

=============================================================================
