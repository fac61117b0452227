---------------------------- MODULE KernelThreads ----------------------------
(***************************************************************************)
(* "Kernel Modules/hw5/modules/mykthread/mykthread.c" and "mysemaphore.c": *)
(* a module whose init function starts one or two kernel threads; they     *)
(* sleep between their rounds, and the exit function signals them and      *)
(* waits until each has called complete_and_exit.  Here init has           *)
(* succeeded; CharDevice has the other cases.                              *)
(***************************************************************************)
EXTENDS ThreadLabels

\* thread_id, or thread_id1 and thread_id2
Parameters == Threads = {1, 2}

VARIABLES
    program,
    i,                  \* loop counter of each thread
    signalled,          \* SIGTERM is pending
    mutex,              \* list_mutex
    counter,            \* global_counter
    reg,                \* a thread's copy of it
    completions,        \* on_exit, cmpltn: completed and not yet waited for
    exit, k             \* what rmmod does, and for which thread

locals == <<i, reg>>
semaphore == <<mutex, counter>>
rmmod == <<exit, k>>
vars == <<program, pc, locals, signalled, semaphore, completions, rmmod>>

Used == IF program = "mykthread" THEN {1} ELSE {1, 2}
Rounds == IF program = "mykthread" THEN 3 ELSE 2

\* The threads have been created and woken up.
Init ==
    /\ program \in {"mykthread", "mysemaphore"}
    /\ pc = [t \in Threads |-> IF t \in Used THEN "created" ELSE "none"]
    /\ i = [t \in Threads |-> 0] /\ reg = [t \in Threads |-> 0]
    /\ signalled = [t \in Threads |-> FALSE]
    /\ mutex = "free" /\ counter = 0
    /\ completions = 0
    /\ exit = "loaded" /\ k = 1

-----------------------------------------------------------------------------
(* print_messages and thread_code *)

\* allow_signal: a SIGTERM that came before was ignored.
Start(t) ==
    /\ Goto(t, "created", "loop")
    /\ UNCHANGED <<program, locals, signalled, semaphore, completions, rmmod>>

\* The head of the for loop; nobody calls kthread_stop.
Loop(t) ==
    /\ Goto(t, "loop", IF i[t] >= Rounds THEN "complete"
                       ELSE IF program = "mykthread" THEN "sleep" ELSE "lock")
    /\ UNCHANGED <<program, locals, signalled, semaphore, completions, rmmod>>

\* Mutant: without the mutex.
LockNot(t) ==
    /\ Goto(t, "lock", "load")
    /\ UNCHANGED <<program, locals, signalled, semaphore, completions, rmmod>>

\* mutex_lock_interruptible takes a free mutex, signal or not.
LockMutex(t) ==
    /\ \/ mutex = "free" /\ mutex' = "held" /\ Goto(t, "lock", "load")
       \/ mutex = "held" /\ signalled[t] /\ Goto(t, "lock", "complete") /\ UNCHANGED mutex
    /\ UNCHANGED <<program, locals, signalled, counter, completions, rmmod>>

LoadCounter(t) ==
    /\ Goto(t, "load", "store")
    /\ reg' = [reg EXCEPT ![t] = counter]
    /\ UNCHANGED <<program, i, signalled, semaphore, completions, rmmod>>

StoreCounter(t) ==
    /\ Goto(t, "store", "sleep")
    /\ counter' = reg[t] + 1
    /\ mutex' = "free"
    /\ UNCHANGED <<program, locals, signalled, completions, rmmod>>

\* The time is over.
WakeUp(t) ==
    /\ Goto(t, "sleep", "loop")
    /\ i' = [i EXCEPT ![t] = @ + 1]
    /\ UNCHANGED <<program, reg, signalled, semaphore, completions, rmmod>>

\* -ERESTARTSYS, which print_messages does not look at.
Interrupted(t) ==
    /\ signalled[t]
    /\ IF program = "mykthread"
       THEN Goto(t, "sleep", "loop") /\ i' = [i EXCEPT ![t] = @ + 1]
       ELSE Goto(t, "sleep", "complete") /\ UNCHANGED i
    /\ UNCHANGED <<program, reg, signalled, semaphore, completions, rmmod>>

\* complete_and_exit does not come back into the module's code.
CompleteAndExit(t) ==
    /\ Goto(t, "complete", "exited")
    /\ completions' = completions + 1
    /\ UNCHANGED <<program, locals, signalled, semaphore, rmmod>>

-----------------------------------------------------------------------------
(* ModExit *)

\* For each thread in turn; then on to the next part.
ForEach(part, next) ==
    /\ exit = part
    /\ IF k < Cardinality(Used) THEN k' = k + 1 /\ UNCHANGED exit
       ELSE k' = 1 /\ exit' = next

Rmmod ==
    /\ exit = "loaded" /\ exit' = "kill"
    /\ UNCHANGED <<program, pc, locals, signalled, semaphore, completions, k>>

\* task_pid of a thread that has exited reads a task the kernel may have freed:
\* nothing happens, or the call does not survive it.
Kill ==
    /\ \/ /\ pc[k] = "exited" /\ exit = "kill"
          /\ exit' = "oops" /\ UNCHANGED <<signalled, k>>
       \/ /\ ForEach("kill", "wait")
          /\ signalled' = [signalled EXCEPT ![k] = pc[k] \notin {"created", "exited"}]
    /\ UNCHANGED <<program, pc, locals, semaphore, completions>>

WaitForCompletion ==
    /\ completions > 0
    /\ completions' = completions - 1
    /\ ForEach("wait", "gone")
    /\ UNCHANGED <<program, pc, locals, signalled, semaphore>>

Thread(t) ==
    \/ Start(t) \/ Loop(t) \/ LockMutex(t) \/ LoadCounter(t) \/ StoreCounter(t)
    \/ WakeUp(t) \/ Interrupted(t) \/ CompleteAndExit(t)

Exit == Kill \/ WaitForCompletion

Done == At({"none", "exited"}) = Threads /\ exit \in {"gone", "oops"} /\ UNCHANGED vars

Next == (\E t \in Threads : Thread(t)) \/ Rmmod \/ Exit \/ Done

\* Time passes, and a call of rmmod goes on; nobody has to call it.
Fairness == WF_vars(Exit) /\ \A t \in Threads : WF_vars(Thread(t))

Spec == Init /\ [][Next]_vars /\ Fairness

-----------------------------------------------------------------------------
\* When the code is gone no thread will run it any more ("Firste ensure that
\* the thread is completed.", mykthread.c line 101), also when SIGTERM came too
\* early to be noticed or a thread was interrupted while it waited for the mutex.
CodeOutlivesThreads == exit = "gone" => At({"none", "exited"}) = Threads

\* Without rmmod the two threads of mysemaphore count to 4 ("Counter: 4",
\* mysemaphore.ko.test).
CountsToFour == <>(counter = 4 \/ exit # "loaded" \/ program = "mykthread")

\* rmmod does not hang.
RmmodEnds == (exit = "kill") ~> (exit \in {"gone", "oops"})

=============================================================================
