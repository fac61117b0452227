----------------------------- MODULE Semaphores -----------------------------
(***************************************************************************)
(* The synchronisation primitives the programs are built from: POSIX       *)
(* counting semaphores (libpthread, an external) and the mutex wrappers of *)
(* threads.c, which assert that the pthread call succeeded.  A blocking    *)
(* call is an action that is not enabled while the caller would block; no  *)
(* order among the waiters is promised.                                    *)
(***************************************************************************)
EXTENDS Naturals

\* sem_wait
Wait(s) == s > 0 /\ s' = s - 1

\* sem_post
Post(s) == s' = s + 1

\* mutex_lock
Lock(m) == m = "free" /\ m' = "held"

\* mutex_unlock
Unlock(m) == m = "held" /\ m' = "free"

=============================================================================
