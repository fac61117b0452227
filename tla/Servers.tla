------------------------------- MODULE Servers -------------------------------
(***************************************************************************)
(* "Multithreaded Server implementations": five servers, each one process  *)
(* that serves one connection after the other, and file-server-client.c;   *)
(* and hw6's easy_server.c, which answers whoever connects.                *)
(* A server is what it does before, in and after its main loop; a call     *)
(* that fails is followed by a few more calls, and then by the next one.   *)
(* Sockets, files and signals are the kernel's.                            *)
(***************************************************************************)
EXTENDS Naturals, Sequences, FiniteSets

CONSTANTS
    Clients,            \* processes that run file-server-client
    Paths, Files        \* what they ask for, and what there is

\* A path stands for what the file holds, too, which is none of the other
\* things a client can receive.
Parameters ==
    /\ IsFiniteSet(Clients) /\ Clients \cap {"server", "info"} = {}
    /\ Files \subseteq Paths
    /\ Paths \cap {"", "nothing", "garbage", "error", "hallo"} = {}

Try(call, undo) == [call |-> call, undo |-> undo]
Do(call) == Try(call, <<>>)

-----------------------------------------------------------------------------
(* What cleanExit frees, what the head of the loop reads, what is looked up *)
(* on the disk, and the calls.                                              *)

\* Mutant: the memory is not given back at the end.
FileServerKeeps ==
    [frees |-> {"server"}, reads |-> {"server"}, name |-> "path",
     start |-> <<Try("createServer", <<"cleanExit">>)>>,
     round |-> <<Try("select", <<"cleanExit">>), Do("stdin"), Try("accept", <<"cleanExit">>),
                 Try("read", <<"close", "cleanExit">>),
                 Try("readFromFile", <<"error", "close", "cleanExit">>),
                 Do("writeToClient"), Do("close")>>,
     end |-> <<>>]

\* Mutant: the connection is closed before the answer is written.
FileServerClosesFirst ==
    [frees |-> {"server"}, reads |-> {"server"}, name |-> "path",
     start |-> <<Try("createServer", <<"cleanExit">>)>>,
     round |-> <<Try("select", <<"cleanExit">>), Do("stdin"), Try("accept", <<"cleanExit">>),
                 Try("read", <<"close", "cleanExit">>),
                 Try("readFromFile", <<"error", "close", "cleanExit">>),
                 Do("close"), Do("writeToClient")>>,
     end |-> <<Do("cleanExit")>>]

file_server ==
    [frees |-> {"server"}, reads |-> {"server"}, name |-> "path",
     start |-> <<Try("createServer", <<"cleanExit">>)>>,
     round |-> <<Try("select", <<"cleanExit">>), Do("stdin"), Try("accept", <<"cleanExit">>),
                 Try("read", <<"close", "cleanExit">>),
                 Try("readFromFile", <<"error", "close", "cleanExit">>),
                 Do("writeToClient"), Do("close")>>,
     end |-> <<Do("cleanExit")>>]

\* The file is looked up under pos: null, or the end of the path.
file_server_async ==
    [file_server EXCEPT
        !.name = "pos",
        !.round = <<Try("select", <<"cleanExit">>), Do("stdin"), Try("accept", <<"cleanExit">>),
                    Try("read", <<"close", "cleanExit">>),
                    Try("AsyncreadFromFile", <<"error", "close", "cleanExit">>),
                    Do("writeToClient"), Do("close")>>]

\* notdone is written and never read.
file_server_signals ==
    [frees |-> {"info", "server"}, reads |-> {"info", "server"}, name |-> "pos",
     start |-> <<Try("createServer", <<"cleanExit">>), Do("mallocInfo")>>,
     round |-> <<Try("select", <<"cleanExit">>), Try("accept", <<"cleanExit">>),
                 Try("read", <<"close", "cleanExit">>),
                 Try("AsyncreadFromFile", <<"error", "close", "cleanExit">>),
                 Do("writeToClient"), Do("close")>>,
     end |-> <<Do("log_message"), Do("cleanExit")>>]

select_server ==
    [frees |-> {"server"}, reads |-> {"server"}, name |-> "none",
     start |-> <<Try("createServer", <<"cleanExit">>)>>,
     round |-> <<Try("select", <<"cleanExit">>), Do("stdin"), Try("accept", <<"cleanExit">>),
                 Try("read", <<"cleanExit">>), Try("hallo", <<"cleanExit">>), Do("close")>>,
     end |-> <<Do("cleanExit")>>]

\* It accepts once and never leaves its loop but by return -1.
simple_server ==
    [frees |-> {}, reads |-> {}, name |-> "none",
     start |-> <<Try("createServer", <<"return">>), Try("accept", <<"return">>)>>,
     round |-> <<Try("read", <<"return">>), Try("hallo", <<"return">>)>>,
     end |-> <<>>]

\* socket and bind may fail, and the loop begins; what they made is listened on
\* in every round.  recv, print_info and write may fail, and the round goes on.
easy_server ==
    [frees |-> {}, reads |-> {}, name |-> "none",
     start |-> <<Do("createServer")>>,
     round |-> <<Try("listen", <<"return">>), Try("accept", <<"return">>),
                 Do("read"), Do("hallo"), Do("close")>>,
     end |-> <<>>]

Server ==
    [file_server |-> file_server, file_server_async |-> file_server_async,
     file_server_signals |-> file_server_signals, select_server |-> select_server,
     simple_server |-> simple_server, easy_server |-> easy_server]

-----------------------------------------------------------------------------
VARIABLES
    server,
    stage, at, undo,    \* start, loop, round, end, then ended or undefined
    live,               \* what malloc returned and free has not taken back: "server", "info",
                        \* and the clients for whose requests blocks were allocated
    listening,          \* createServer has returned 0: clients reach this port
    backlog,            \* clients that are connected and not accepted
    ready,              \* what select has found
    served,             \* {the accepted client}, or {} when descriptor is closed
    path, found,        \* what the client asked for; tmp # NULL
    typed, stopped,     \* input on stdin; notdone = 0, or eflag = 1
    disk,               \* the paths that name a file
    failed, erred,      \* history: a call has failed; one with something under its test
    client, asks,       \* where each client is, argv[1] once sent
    got, extent         \* what it received, and how far the message went

loopVars == <<stage, at, undo>>
heapVars == <<live, failed, erred>>
socketVars == <<listening, backlog, served>>
requestVars == <<path, found, disk>>
eventVars == <<ready, typed, stopped>>
clientVars == <<client, asks, got, extent>>
vars == <<server, loopVars, heapVars, socketVars, requestVars, eventVars, clientVars>>

S == Server[server]

Init ==
    /\ server \in DOMAIN Server
    /\ stage = "start" /\ at = 1 /\ undo = <<>>
    /\ live = S.frees \ {"info"} /\ failed = FALSE /\ erred = FALSE
    /\ listening = FALSE /\ backlog = <<>> /\ served = {}
    /\ path = "" /\ found = FALSE /\ disk = Files
    /\ ready = {} /\ typed = FALSE /\ stopped = FALSE
    /\ client = [c \in Clients |-> "start"] /\ asks = [c \in Clients |-> ""]
    /\ got = [c \in Clients |-> "nothing"] /\ extent = [c \in Clients |-> "exact"]

Stopped == stage \in {"ended", "undefined"}

\* The calls of the stage the server is in.
Calls == CASE stage = "start" -> S.start [] stage = "round" -> S.round
           [] stage = "end" -> S.end [] OTHER -> <<>>

At(call) == undo = <<>> /\ at <= Len(Calls) /\ Calls[at].call = call

\* The call returns, and the next one is made.
Return == at' = at + 1 /\ UNCHANGED <<stage, undo, failed, erred>>

\* The call fails, and what stands under its test is done first.
Fail ==
    /\ at' = at + 1 /\ undo' = Calls[at].undo
    /\ failed' = TRUE /\ erred' = (erred \/ undo' # <<>>)
    /\ UNCHANGED stage

\* The code reads or frees memory that it has given back.
Undefined == stage' = "undefined" /\ UNCHANGED <<at, undo, failed, erred>>

-----------------------------------------------------------------------------
(* The loop *)

\* The last call of a stage has returned.
EndOfStage ==
    /\ undo = <<>> /\ ~Stopped /\ stage # "loop" /\ at > Len(Calls)
    /\ stage' = IF stage = "end" THEN "ended" ELSE "loop"
    /\ UNCHANGED <<server, at, undo, heapVars, socketVars, requestVars, eventVars, clientVars>>

\* while (notdone), or (!eflag), and the first use of the pointers.  The round
\* writes its sets and buffers before it reads them.
While ==
    /\ stage = "loop"
    /\ stage' = IF stopped THEN "end" ELSE IF S.reads \subseteq live THEN "round" ELSE "undefined"
    /\ at' = 1
    /\ ready' = {} /\ path' = "" /\ found' = FALSE
    /\ UNCHANGED <<server, undo, heapVars, socketVars, disk, typed, stopped, clientVars>>

CreateServer ==
    /\ At("createServer")
    /\ \/ Return /\ listening' = TRUE
       \/ Fail /\ UNCHANGED listening
    /\ UNCHANGED <<server, live, backlog, served, requestVars, eventVars, clientVars>>

\* Without an address it listens where nobody knows.
Listen ==
    /\ At("listen")
    /\ Return \/ Fail
    /\ UNCHANGED <<server, live, socketVars, requestVars, eventVars, clientVars>>

MallocInfo ==
    /\ At("mallocInfo")
    /\ Return
    /\ live' = live \cup {"info"}
    /\ UNCHANGED <<server, socketVars, requestVars, eventVars, clientVars>>

Unspecified == ready' \in SUBSET {"stdin", "listen"}

\* Blocks until something is ready, and reports all that is; the set is
\* unspecified when it fails.
Select ==
    /\ At("select")
    /\ \/ /\ ready' = {r \in {"stdin", "listen"} : IF r = "stdin" THEN typed ELSE backlog # <<>>}
          /\ ready' # {}
          /\ Return
       \/ Fail /\ Unspecified
    /\ UNCHANGED <<server, live, socketVars, requestVars, typed, stopped, clientVars>>

Stdin ==
    /\ At("stdin")
    /\ Return
    /\ stopped' = (stopped \/ "stdin" \in ready)
    /\ UNCHANGED <<server, live, socketVars, requestVars, ready, typed, clientVars>>

\* The others wait in accept, and never look at stdin.
Selects == server \notin {"simple_server", "easy_server"}

\* FD_ISSET(server->descriptor, &readfds) reads the server's memory; without a
\* connection the round is over.
Accept ==
    /\ At("accept")
    /\ IF S.reads \subseteq live
       THEN \/ /\ Selects /\ "listen" \notin ready
               /\ stage' = "loop" /\ UNCHANGED <<at, undo, failed, erred, socketVars>>
            \/ /\ Selects => "listen" \in ready
               /\ backlog # <<>>
               /\ served' = {Head(backlog)} /\ backlog' = Tail(backlog)
               /\ Return /\ UNCHANGED listening
            \/ /\ Selects => "listen" \in ready
               /\ Fail /\ UNCHANGED socketVars
       ELSE Undefined /\ UNCHANGED socketVars
    /\ UNCHANGED <<server, live, requestVars, eventVars, clientVars>>

\* The request, or nothing from a client that has gone.
Read ==
    /\ At("read")
    /\ \/ /\ \E c \in served : /\ client[c] \in {"sent", "gone"}
                               /\ path' = IF client[c] = "sent" THEN asks[c] ELSE ""
          /\ Return
       \/ Fail /\ path' = ""
    /\ UNCHANGED <<server, live, socketVars, found, disk, eventVars, clientVars>>

\* strchr(...'\n'): what follows the path names no file.
Name == IF S.name = "pos" THEN "" ELSE path

\* What readFromFile has allocated for the request; nobody frees it, and a short
\* fread leaves it behind, too.
Allocate == live' = live \cup served

ReadFromFile ==
    /\ At("readFromFile")
    /\ \/ Name \in disk /\ found' = TRUE /\ Return /\ Allocate
       \/ found' = FALSE /\ Fail /\ (UNCHANGED live \/ (Name \in disk /\ Allocate))
    /\ UNCHANGED <<server, socketVars, path, disk, eventVars, clientVars>>

\* readFromFile first; then a block of no bytes is allocated, and the file is
\* deleted, and cannot be opened.
AsyncReadFromFile ==
    /\ At("AsyncreadFromFile")
    /\ \/ Name \in disk /\ found' = TRUE /\ disk' = disk /\ Return
       \/ found' = FALSE /\ disk' = disk \ {Name} /\ Fail
    /\ Allocate
    /\ UNCHANGED <<server, socketVars, path, eventVars, clientVars>>

\* A message goes as far as its first zero byte.  A literal ends in one; a file
\* fills its block and is not terminated: the zero byte is in the file, right
\* behind it, or somewhere else in the heap.
Extents(message) == IF message \in Paths THEN {"less", "exact", "more"} ELSE {"exact"}

Receives(c) == c \in served /\ client[c] # "gone" /\ got[c] = "nothing"

\* What the client receives; SIGPIPE ends a server whose client has gone.
Send(message) ==
    \/ /\ got' = [c \in Clients |-> IF Receives(c) THEN message ELSE got[c]]
       /\ \E e \in Extents(message) :
             extent' = [c \in Clients |-> IF Receives(c) THEN e ELSE extent[c]]
       /\ UNCHANGED <<stage, failed, erred>>
    \/ /\ \E c \in served : client[c] = "gone"
       /\ stage' = "ended" /\ failed' = TRUE /\ erred' = TRUE
       /\ UNCHANGED <<got, extent>>

\* writeToClient: a write that fails is reported on stdout, and to no caller.
Write(message) ==
    \/ Send(message)
    \/ failed' = TRUE /\ UNCHANGED <<stage, erred, got, extent>>

WriteToClient ==
    /\ At("writeToClient")
    /\ IF found THEN Write(path) ELSE UNCHANGED <<stage, failed, erred, got, extent>>
    /\ at' = at + 1
    /\ UNCHANGED <<server, undo, live, socketVars, requestVars, eventVars, client, asks>>

\* "hallo", "hello", or what print_info has written.
Hallo ==
    /\ At("hallo")
    /\ \/ Send("hallo") /\ at' = at + 1 /\ UNCHANGED undo
       \/ Fail /\ UNCHANGED <<got, extent>>
    /\ UNCHANGED <<server, live, socketVars, requestVars, eventVars, client, asks>>

CloseClient ==
    /\ At("close")
    /\ Return
    /\ served' = {}
    /\ UNCHANGED <<server, live, listening, backlog, requestVars, eventVars, clientVars>>

LogMessage ==
    /\ At("log_message")
    /\ IF "info" \in live THEN Return ELSE Undefined
    /\ UNCHANGED <<server, live, socketVars, requestVars, eventVars, clientVars>>

CleanExit ==
    /\ At("cleanExit")
    /\ IF "server" \in live THEN Return /\ live' = live \ S.frees ELSE Undefined /\ UNCHANGED live
    /\ UNCHANGED <<server, socketVars, requestVars, eventVars, clientVars>>

\* One call of what stands under a test.
Undo ==
    /\ undo # <<>> /\ ~Stopped
    /\ undo' = Tail(undo)
    /\ CASE Head(undo) = "error" -> Write("error") /\ UNCHANGED <<live, served>>
         [] Head(undo) = "close" ->
                served' = {} /\ UNCHANGED <<stage, live, failed, erred, got, extent>>
         [] Head(undo) = "return" ->
                stage' = "ended" /\ UNCHANGED <<live, failed, erred, served, got, extent>>
         [] Head(undo) = "cleanExit" ->
                /\ IF "server" \in live
                   THEN live' = live \ S.frees /\ UNCHANGED stage
                   ELSE stage' = "undefined" /\ UNCHANGED live
                /\ UNCHANGED <<failed, erred, served, got, extent>>
    /\ UNCHANGED <<server, at, listening, backlog, requestVars, eventVars, client, asks>>

Step ==
    \/ EndOfStage \/ While \/ CreateServer \/ Listen \/ MallocInfo \/ Select \/ Stdin \/ Accept
    \/ Read \/ ReadFromFile \/ AsyncReadFromFile \/ WriteToClient \/ Hallo
    \/ CloseClient \/ LogMessage \/ CleanExit \/ Undo

-----------------------------------------------------------------------------
(* What happens to the server *)

\* Somebody presses Enter: nobody reads the line, stdin stays ready.
Type ==
    /\ Selects /\ ~typed /\ ~Stopped /\ typed' = TRUE
    /\ UNCHANGED <<server, loopVars, heapVars, socketVars, requestVars, ready, stopped, clientVars>>

\* handler sets eflag; a select that has begun to wait fails with EINTR.
Sigint ==
    /\ server = "file_server_signals" /\ stage # "start" /\ ~Stopped /\ ~stopped
    /\ stopped' = TRUE
    /\ UNCHANGED <<loopVars, failed, erred, ready>> \/ (At("select") /\ Fail /\ Unspecified)
    /\ UNCHANGED <<server, live, socketVars, requestVars, typed, clientVars>>

-----------------------------------------------------------------------------
(* file-server-client.c *)

\* A client whose createClient or connect fails stays where it is: it never
\* gets to the server.
Connect(c) ==
    /\ client[c] = "start" /\ listening /\ ~Stopped
    /\ client' = [client EXCEPT ![c] = "connected"]
    /\ backlog' = Append(backlog, c)
    /\ UNCHANGED <<server, loopVars, heapVars, listening, served, requestVars, eventVars, asks, got, extent>>

\* strlen(path) + 1 bytes, so that there is no '\n' in them; or the message of
\* line 75, and the end.
SendPath(c) ==
    /\ client[c] = "connected"
    /\ \/ client' = [client EXCEPT ![c] = "gone"] /\ UNCHANGED asks
       \/ /\ client' = [client EXCEPT ![c] = "sent"]
          /\ \E argument \in Paths : asks' = [asks EXCEPT ![c] = argument]
    /\ UNCHANGED <<server, loopVars, heapVars, socketVars, requestVars, eventVars, got, extent>>

\* The server has written, or has closed the connection, or is gone; recv's
\* result is not looked at.
Closed(c) == Stopped \/ c \notin served \cup {backlog[k] : k \in DOMAIN backlog}

Recv(c) ==
    /\ client[c] = "sent"
    /\ got[c] # "nothing" \/ Closed(c)
    /\ client' = [client EXCEPT ![c] = "gone"]
    /\ got' = [got EXCEPT ![c] = IF @ = "nothing" THEN "garbage" ELSE @]
    /\ UNCHANGED <<server, loopVars, heapVars, socketVars, requestVars, eventVars, asks, extent>>

Client(c) == SendPath(c) \/ Recv(c)

Terminated == Stopped /\ (\A c \in Clients : client[c] \in {"start", "gone"}) /\ UNCHANGED vars

Next ==
    \/ Step \/ Type \/ Sigint \/ Terminated
    \/ \E c \in Clients : Connect(c) \/ Client(c)

\* What must happen: no call has to fail but for a path that names no file.
Progress ==
    Step /\ (failed' = failed \/ At("readFromFile") \/ At("AsyncreadFromFile"))

\* The server runs, and a client that is connected sends and receives.
Fairness == WF_vars(Progress) /\ \A c \in Clients : WF_vars(Client(c))

-----------------------------------------------------------------------------
\* Until a call fails that has something under its test, no server touches
\* memory that it has freed, it begins every round with all connections closed
\* that it has accepted, and it ends with its own memory given back.  What it
\* does not give back is readFromFile's: a block of file-server.c for every file
\* it served, and none of the others.  A failed write whose result nobody looks
\* at changes none of this.  simple-server.c and easy_server.c, which leave at an
\* error or go on without it, are never undefined.
Orderly ==
    /\ stage = "undefined" => erred /\ Selects
    /\ ~erred =>
          /\ stage = "loop" /\ server # "simple_server" => served = {}
          /\ stage = "loop" => S.frees \subseteq live
          /\ stage = "ended" => live \subseteq Clients
          /\ \A c \in live \cap Clients : server = "file_server" /\ asks[c] \in disk

\* What a client prints begins with what it asked for: the file, an error if
\* there is none, or the text they all get.  A file may be cut off, or followed
\* by what is in the server's heap; the other messages are exact.  The client
\* prints its uninitialised buffer (line 78) only when the server stopped before
\* it came to this client, or a call has failed.
Shows ==
    \A c \in Clients :
        /\ got[c] \in Paths => got[c] = asks[c] /\ asks[c] \in disk
        /\ extent[c] # "exact" => got[c] \in Paths
        /\ got[c] = "error" => failed
        /\ got[c] = "hallo" => server \in {"select_server", "simple_server", "easy_server"}
        /\ got[c] = "garbage" => Stopped \/ failed

\* A client that has sent its request receives something, unless it is not the
\* first one of simple-server.c or the server has stopped; Enter ends the
\* servers that look at stdin, after the request they are at.
Answered ==
    /\ \A c \in Clients :
          client[c] = "sent" ~> \/ client[c] = "gone" \/ Stopped
                                \/ (server = "simple_server" /\ c \notin served)
    /\ typed /\ server \in {"file_server", "file_server_async", "select_server"} ~> Stopped

=============================================================================
