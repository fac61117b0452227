--------------------------- MODULE MCKernelModules ---------------------------
(***************************************************************************)
(* The modules of hw4 and hw5 from insmod to rmmod: one is loaded, as a    *)
(* character device, with its kernel threads, or with its deferred work.   *)
(***************************************************************************)
EXTENDS Integers, FiniteSets

CONSTANTS Threads, MaxFiles, W, Interval, MaxDelay

VARIABLES
    loaded,
    driver, stage, at, thing, failed, files,
    program, pc, i, signalled, mutex, counter, reg, completions, exit, k,
    item, module, queued, due, func, now, jiff, nanosecs, elapsed, delays,
    calls, cancelled

deviceVars == <<driver, stage, at, thing, failed, files>>
kthreadVars == <<program, pc, i, signalled, mutex, counter, reg, completions, exit, k>>
deferredVars == <<item, module, queued, due, func, now, jiff, nanosecs, elapsed,
                  delays, calls, cancelled>>
vars == <<loaded, deviceVars, kthreadVars, deferredVars>>

Device == INSTANCE CharDevice
Kthread == INSTANCE KernelThreads
Deferred == INSTANCE DeferredWork

ASSUME ParametersAssumption ==
    Device!Parameters /\ Kthread!Parameters /\ Deferred!Parameters

\* The variables of what is not loaded.
NoDevice ==
    /\ driver = "none" /\ stage = "none" /\ at = 0 /\ thing = <<>>
    /\ failed = {} /\ files = 0

NoKthread ==
    /\ program = "none" /\ pc = [t \in Threads |-> "none"] /\ i = 0 /\ reg = 0
    /\ signalled = [t \in Threads |-> FALSE] /\ mutex = "none" /\ counter = 0 /\ completions = 0
    /\ exit = "none" /\ k = 1

NoDeferred ==
    /\ item = "none" /\ module = "none" /\ queued = FALSE /\ due = 0 /\ func = "none"
    /\ now = 0 /\ jiff = <<>> /\ nanosecs = <<>> /\ elapsed = 0 /\ delays = {}
    /\ calls = 0 /\ cancelled = "none"

Init ==
    \/ loaded = "device" /\ Device!Init /\ NoKthread /\ NoDeferred
    \/ loaded = "kthread" /\ NoDevice /\ Kthread!Init /\ NoDeferred
    \/ loaded = "deferred" /\ NoDevice /\ NoKthread /\ Deferred!Init

DeviceStep == loaded = "device" /\ Device!Next /\ UNCHANGED <<loaded, kthreadVars, deferredVars>>
KthreadStep == loaded = "kthread" /\ Kthread!Next /\ UNCHANGED <<loaded, deviceVars, deferredVars>>
DeferredStep == loaded = "deferred" /\ Deferred!Next /\ UNCHANGED <<loaded, deviceVars, kthreadVars>>

Next == DeviceStep \/ KthreadStep \/ DeferredStep

Spec == Init /\ [][Next]_vars /\ Kthread!Fairness /\ Deferred!Fairness

-----------------------------------------------------------------------------
\* A module that insmod refuses leaves behind nothing of what failed before
\* cdev_add, and always the registered device if a call failed after it; rmmod
\* gives back what init got, once, for each of the twelve drivers.
CleanRegistration == Device!CleanRefusal /\ Device!CleanUnload

\* An operation runs on a buffer that is not made or freed already only if its
\* allocation failed unnoticed, or on the kernelmem that mybuffer_sync frees
\* because class_create failed, while the device stays registered.
BuffersOutliveFiles == Device!BuffersOutliveFiles

\* Nothing will run the code of a module that is gone: no thread, no timer, no
\* tasklet, and no work item but one that was running while it was cancelled.
NothingLeftToRun == Kthread!CodeOutlivesThreads /\ Deferred!NothingLeftToCall

\* The two threads of mysemaphore count to 4.
CountsToFour == Kthread!CountsToFour

\* The delays that mytimer and myworkqueue print are the true ones.
DelaysTrue == Deferred!DelaysTrue

\* Timer and work item go on until rmmod, and rmmod does not wait for ever for
\* threads that may have ended, or may have been interrupted, before.
GoesOnAndEnds == Deferred!GoesOn /\ Deferred!RmmodEnds /\ Kthread!RmmodEnds

=============================================================================
