------------------------------ MODULE MCServers ------------------------------
(***************************************************************************)
(* A socket server and its clients, or the web server with the counters.   *)
(***************************************************************************)
EXTENDS Integers, Sequences, FiniteSets

CONSTANTS Clients, Paths, Files, Threads, MaxCount, MaxRestarts

VARIABLES
    running,
    server, stage, at, undo, live, listening, backlog, ready, served, path, found,
    typed, stopped, disk, failed, erred, client, asks, got, extent,
    pc, i, mutex, file, memory, last, floor, lost, restarts

socketVars == <<server, stage, at, undo, live, listening, backlog, ready, served, path,
                found, typed, stopped, disk, failed, erred, client, asks, got, extent>>
httpVars == <<pc, i, mutex, file, memory, last, floor, lost, restarts>>
vars == <<running, socketVars, httpVars>>

Socket == INSTANCE Servers
Http == INSTANCE HttpCounter

ASSUME ParametersAssumption == Socket!Parameters /\ Http!Parameters

\* The variables of the servers that do not run.
NoSocket ==
    /\ server = "none" /\ stage = "ended" /\ at = 1 /\ undo = <<>> /\ live = {}
    /\ listening = FALSE /\ backlog = <<>> /\ ready = {} /\ served = {}
    /\ path = "" /\ found = FALSE /\ typed = FALSE /\ stopped = FALSE
    /\ disk = {} /\ failed = FALSE /\ erred = FALSE
    /\ client = [c \in Clients |-> "gone"] /\ asks = [c \in Clients |-> ""]
    /\ got = [c \in Clients |-> "nothing"] /\ extent = [c \in Clients |-> "exact"]

NoHttp ==
    /\ pc = [t \in Threads |-> "idle"] /\ i = [t \in Threads |-> 0]
    /\ mutex = {} /\ memory = 0 /\ file = {}
    /\ last = [fs |-> 0, mem |-> 0] /\ floor = [t \in Threads |-> 0]
    /\ lost = FALSE /\ restarts = 0

Init ==
    \/ running = "socket" /\ Socket!Init /\ NoHttp
    \/ running = "http" /\ NoSocket /\ Http!Init

SocketStep == running = "socket" /\ Socket!Next /\ UNCHANGED <<running, httpVars>>
HttpStep == running = "http" /\ Http!Next /\ UNCHANGED <<running, socketVars>>

Next == SocketStep \/ HttpStep

Spec == Init /\ [][Next]_vars /\ Socket!Fairness /\ Http!Fairness

-----------------------------------------------------------------------------
\* The six servers use and free their own memory and close their connections as
\* they should, until a failed call is reacted to; they keep readFromFile's blocks.
Orderly == running = "socket" => Socket!Orderly

\* What a client prints begins with what it asked for.
Shows == running = "socket" => Socket!Shows

\* The counters of the web server grow from answer to answer.
CountsGrow == running = "http" => Http!CountsGrow

\* A client is answered, Enter stops a server, and the web server's mutex does
\* not stay locked.
Answered == Socket!Answered /\ Http!Served

=============================================================================
