----------------------------- MODULE HttpCounter -----------------------------
(***************************************************************************)
(* "Kernel Modules/hw6/complexserver/src/controller/MyController.hpp": two *)
(* counters behind a web server that has a thread for each connection.     *)
(* /FScounter keeps its count in counter.txt, under a mutex; /MEMcounter   *)
(* has an atomic in memory.  The process may be killed and started again.  *)
(***************************************************************************)
EXTENDS ThreadLabels, Integers, FiniteSetsExt

CONSTANTS
    MaxCount,           \* answers: a bound
    MaxRestarts         \* a bound

Parameters == MaxCount \in Nat /\ MaxRestarts \in Nat

VARIABLES
    i,                  \* the local of each FScounter request
    mutex,              \* the thread that has it
    file,               \* counter.txt: {a number}, {Text}, or {} without a line
    memory,             \* the atomic
    last,               \* history: the greatest answer of each counter so far
    floor,              \* history: what last was when a request came
    lost,               \* history: a count was truncated and not written
    restarts

\* What std::stoi throws for.
Text == -1

server == <<i, mutex, memory>>
history == <<last, floor, lost>>
vars == <<pc, server, file, history, restarts>>

Init ==
    /\ pc = [t \in Threads |-> "idle"] /\ i = [t \in Threads |-> 0]
    /\ mutex = {} /\ memory = 0
    /\ file \in {{}, {0}, {Text}}
    /\ last = [fs |-> 0, mem |-> 0] /\ floor = [t \in Threads |-> 0]
    /\ lost = FALSE /\ restarts = 0

Request(t, counter, first) ==
    /\ Goto(t, "idle", first)
    /\ floor' = [floor EXCEPT ![t] = last[counter]]
    /\ UNCHANGED <<server, file, last, lost, restarts>>

\* The response; MaxCount bounds what is counted.
Reply(t, from, counter, x) ==
    /\ Goto(t, from, "idle")
    /\ last' = [last EXCEPT ![counter] = Max({last[counter], x})]
    /\ UNCHANGED <<lost, restarts>>
    /\ floor' = [floor EXCEPT ![t] = 0]

-----------------------------------------------------------------------------
(* /FScounter *)

GetFS(t) == last.fs < MaxCount /\ Request(t, "fs", "lock")

\* Mutant: without the mutex.
LockNot(t) ==
    /\ Goto(t, "lock", "read")
    /\ UNCHANGED <<server, file, history, restarts>>

Lock(t) ==
    /\ mutex = {} /\ mutex' = {t}
    /\ Goto(t, "lock", "read")
    /\ UNCHANGED <<i, memory, file, history, restarts>>

\* No number where there is no file or no line; std::stoi throws for a line
\* that is no number, and nobody unlocks the mutex.
Read(t) ==
    /\ IF file = {Text}
       THEN Goto(t, "read", "idle") /\ UNCHANGED i
       ELSE /\ Goto(t, "read", "truncate")
            /\ i' = [i EXCEPT ![t] = Max(file \cup {0}) + 1]
    /\ UNCHANGED <<mutex, memory, file, history, restarts>>

\* ofstream::open truncates, or fails, and the count stays where it was.
Truncate(t) ==
    \/ /\ Goto(t, "truncate", "write")
       /\ file' = {}
       /\ UNCHANGED <<server, history, restarts>>
    \/ /\ Goto(t, "truncate", "unlock")
       /\ lost' = TRUE
       /\ UNCHANGED <<server, file, last, floor, restarts>>

Write(t) ==
    /\ Goto(t, "write", "unlock")
    /\ \/ file' = {i[t]} /\ UNCHANGED lost
       \/ UNCHANGED file /\ lost' = TRUE
    /\ UNCHANGED <<server, last, floor, restarts>>

\* Mutant: the mutex is kept.
UnlockNot(t) ==
    /\ Reply(t, "unlock", "fs", i[t])
    /\ i' = [i EXCEPT ![t] = 0]
    /\ UNCHANGED <<mutex, memory, file>>

Unlock(t) ==
    /\ Reply(t, "unlock", "fs", i[t])
    /\ mutex' = mutex \ {t}
    /\ i' = [i EXCEPT ![t] = 0]
    /\ UNCHANGED <<memory, file>>

-----------------------------------------------------------------------------
(* /MEMcounter *)

GetMEM(t) == memory < MaxCount /\ Request(t, "mem", "increment")

Increment(t) ==
    /\ Goto(t, "increment", "load")
    /\ memory' = memory + 1
    /\ UNCHANGED <<i, mutex, file, history, restarts>>

\* i.load(), which another request may have incremented since.
Load(t) == Reply(t, "load", "mem", memory) /\ UNCHANGED <<server, file>>

-----------------------------------------------------------------------------
\* The process is killed and started again: what is left is the file.
Restart ==
    /\ restarts < MaxRestarts /\ restarts' = restarts + 1
    /\ pc' = [t \in Threads |-> "idle"] /\ i' = [t \in Threads |-> 0]
    /\ mutex' = {} /\ memory' = 0
    /\ last' = [last EXCEPT !.mem = 0] /\ floor' = [t \in Threads |-> 0]
    /\ lost' = (lost \/ At({"write"}) # {})
    /\ UNCHANGED file

Step(t) == Lock(t) \/ Read(t) \/ Truncate(t) \/ Write(t) \/ Unlock(t) \/ Increment(t) \/ Load(t)

\* Nobody asks for anything any more, or everybody waits for the mutex.
Quiet == (\A t \in Threads : pc[t] \in {"idle", "lock"}) /\ UNCHANGED vars

Next == Restart \/ Quiet \/ \E t \in Threads : GetFS(t) \/ GetMEM(t) \/ Step(t)

\* A request that can go on does so.
Fairness == \A t \in Threads : WF_vars(Step(t))

-----------------------------------------------------------------------------
\* Whoever asks after an answer was given gets a larger one, also after a
\* restart in the case of counter.txt, unless a count was truncated and not
\* written again; and no count is ahead of the file.
CountsGrow ==
    /\ \A t \in Threads : pc[t] = "unlock" /\ ~lost => i[t] > floor[t]
    /\ \A t \in Threads : pc[t] = "load" => memory > floor[t]
    /\ ~lost => \A x \in file \ {Text} : last.fs <= x

\* The mutex does not stay locked, unless counter.txt holds something else than
\* a number: then the exception of std::stoi leaves it locked.
Served == mutex # {} ~> mutex = {} \/ file = {Text}

=============================================================================
