------------------------------ MODULE MCNsMutex ------------------------------
(***************************************************************************)
(* The lock of mutex-nostarve.c, with the workers of the program, or with  *)
(* clients that come back.                                                 *)
(***************************************************************************)
EXTENDS NsMutexClients

VARIABLE returning

mvars == <<cvars, returning>>

MCInit == ClientInit /\ returning \in BOOLEAN

ProgramStep == ~returning /\ Next /\ Observe /\ UNCHANGED returning
ClientStep == returning /\ ClientNext /\ UNCHANGED returning

MCSpec == MCInit /\ [][ProgramStep \/ ClientStep]_mvars /\ Fairness
=============================================================================
