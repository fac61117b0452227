---------------------------- MODULE ThreadLabels ----------------------------
(***************************************************************************)
(* The programs' threads: pc[t] names the step thread t takes next.        *)
(***************************************************************************)
EXTENDS Integers, FiniteSets

CONSTANT Threads

ASSUME ThreadsAssumption == IsFiniteSet(Threads)

VARIABLE pc

Goto(t, from, to) == pc[t] = from /\ pc' = [pc EXCEPT ![t] = to]

At(labels) == {t \in Threads : pc[t] \in labels}

=============================================================================
