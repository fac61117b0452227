--------------------------- MODULE MCServersProofs ---------------------------
(***************************************************************************)
(* The safety of the socket servers, for any set of clients and of paths,  *)
(* and of the counters of the web server, for any set of threads.          *)
(***************************************************************************)
EXTENDS MCServers, SequenceTheorems, TLAPS

-----------------------------------------------------------------------------
(* The web server *)

Handling == {"read", "truncate", "write", "unlock"}

HttpTypes ==
    /\ pc \in [Threads -> {"idle", "lock", "increment", "load"} \cup Handling]
    /\ i \in [Threads -> Nat] /\ floor \in [Threads -> Nat]
    /\ memory \in Nat /\ last \in [fs : Nat, mem : Nat] /\ lost \in BOOLEAN
    /\ file \subseteq Int /\ \A x, y \in file : x = y /\ x >= -1

\* The mutex; it stays locked after a request that has ended in an exception.
OneHandles == \A t \in Threads : pc[t] \in Handling => mutex = {t}

\* What a request has seen of the answers, or will.
Floors ==
    \A t \in Threads :
        /\ pc[t] \in {"lock"} \cup Handling => floor[t] <= last.fs
        /\ pc[t] = "increment" => floor[t] <= last.mem
        /\ pc[t] = "load" => floor[t] < memory

\* The file is behind no answer, and the request that is being handled is ahead
\* of all answers.  The file is empty at the beginning, or while it is written.
FileCounts ==
    /\ \A x \in file \cap Nat : last.fs <= x
    /\ file = {} /\ (\A t \in Threads : pc[t] # "write") => last.fs = 0
    /\ \A t \in Threads :
          /\ pc[t] \in {"truncate", "write", "unlock"} => i[t] > last.fs
          /\ pc[t] = "write" => file = {}
          /\ pc[t] = "unlock" => file = {i[t]}

HttpInv ==
    /\ HttpTypes /\ OneHandles /\ Floors /\ last.mem <= memory
    /\ ~lost => FileCounts

-----------------------------------------------------------------------------
(* The socket servers *)

Asynchronous == {"file_server_async", "file_server_signals"}
Impatient == {"simple_server", "easy_server"}
Names == {"file_server", "select_server"} \cup Asynchronous \cup Impatient

\* Where in its round a server accepts and closes the connection; simple-server
\* has accepted it before, and keeps it.
AcceptAt == CASE server \in {"file_server_signals", "easy_server"} -> 2
              [] server = "simple_server" -> 0
              [] OTHER -> 3
CloseAt == CASE server \in {"file_server", "file_server_async"} -> 7
             [] server \in {"file_server_signals", "select_server"} -> 6
             [] server = "easy_server" -> 5
             [] OTHER -> 3

EndLength == CASE server = "file_server_signals" -> 2
               [] server \in Impatient -> 0
               [] OTHER -> 1

\* What may be left to do after a call has failed.
Undos == {<<>>, <<"return">>, <<"cleanExit">>, <<"close", "cleanExit">>,
          <<"error", "close", "cleanExit">>}

LoopTypes ==
    /\ server \in Names
    /\ stage \in {"start", "loop", "round", "end", "ended", "undefined"}
    /\ at \in Nat \ {0} /\ undo \in Undos /\ stopped \in BOOLEAN
    /\ failed \in BOOLEAN /\ erred \in BOOLEAN

DataTypes ==
    /\ backlog \in Seq(Clients) /\ served \subseteq Clients /\ \A c, d \in served : c = d
    /\ found \in BOOLEAN /\ path \in Paths \cup {""} /\ disk = Files
    /\ client \in [Clients -> {"start", "connected", "sent", "gone"}]
    /\ asks \in [Clients -> Paths \cup {""}]
    /\ got \in [Clients -> Paths \cup {"nothing", "garbage", "error", "hallo"}]

\* The servers that leave at an error, or go on, free nothing and end by return.
NothingFreed ==
    server \in Impatient => stage # "undefined" /\ ~stopped /\ undo \in {<<>>, <<"return">>}

\* What main allocates and cleanExit frees.
Allocated == CASE server \in Impatient -> {}
               [] server = "file_server_signals" -> {"info", "server"}
               [] OTHER -> {"server"}

\* The server's own blocks, by where it is, until an error branch is entered.
Heap ==
    /\ stage \notin {"undefined"} /\ (server \in Impatient => stage \notin {"end", "ended"})
    /\ stage = "start" => live \ Clients = IF at > 2 THEN Allocated ELSE Allocated \ {"info"}
    /\ stage \in {"loop", "round"} => live \ Clients = Allocated
    /\ stage = "end" => live \ Clients = IF at <= EndLength THEN Allocated ELSE {}
    /\ stage = "ended" => live \ Clients = {}

\* What readFromFile has left behind.
Leaks ==
    \A c \in live \cap Clients :
        server = "file_server" /\ client[c] \in {"sent", "gone"} /\ asks[c] \in disk

\* The connection is open from accept to close.
Connection ==
    /\ served # {} /\ server # "simple_server" => stage = "round" /\ at > AcceptAt /\ at <= CloseAt
    /\ served # {} /\ server = "simple_server" => ~(stage = "start" /\ at <= 2)

\* The request has been answered when it is closed.
Replies ==
    /\ stage = "round" /\ server = "file_server" /\ at > 5 => found
    /\ stage = "round" /\ server \in Asynchronous => at <= AcceptAt + 2
    /\ stage = "round" /\ at = CloseAt /\ server # "simple_server" =>
          \A c \in served : got[c] # "nothing" \/ client[c] = "gone"

\* Whoever waits for an answer will be accepted or has been.
Waiting ==
    stage \notin {"ended", "undefined"} =>
        \A c \in Clients : client[c] \in {"connected", "sent"} /\ got[c] = "nothing" =>
            c \in served \/ \E l \in 1..Len(backlog) : backlog[l] = c

\* What was read is the request of the client that is served, and a file is
\* found only for what was read.
Request ==
    /\ path # "" => /\ stage # "start" /\ (stage = "round" => at > AcceptAt + 1)
                    /\ \A c \in served : client[c] \in {"sent", "gone"} /\ asks[c] = path
    /\ found => server = "file_server" /\ (stage = "round" => at > 5) /\ path \in disk
    /\ \A c \in Clients : got[c] \in Paths =>
          client[c] \in {"sent", "gone"} /\ asks[c] = got[c] /\ got[c] \in disk

\* What a client has received.
Received ==
    \A c \in Clients :
        /\ extent[c] # "exact" => got[c] \in Paths
        /\ got[c] = "error" => failed
        /\ got[c] = "hallo" => server \in {"select_server"} \cup Impatient
        /\ got[c] = "garbage" => failed \/ stage \in {"ended", "undefined"}

SocketInv ==
    /\ LoopTypes /\ DataTypes /\ NothingFreed /\ Request /\ Received
    /\ stage = "undefined" \/ undo # <<>> => erred
    /\ erred => failed
    /\ ~erred => Heap /\ Leaks /\ Connection
    /\ ~failed => Replies /\ Waiting

IInv ==
    /\ running \in {"socket", "http"}
    /\ running = "http" => HttpInv
    /\ running = "socket" => SocketInv

-----------------------------------------------------------------------------
(* Steps of the web server *)

LEMMA GreaterOf ==
    \A a, b \in Nat : /\ Http!Max({a, b}) \in {a, b}
                      /\ Http!Max({a, b}) >= a /\ Http!Max({a, b}) >= b
<1> SUFFICES ASSUME NEW a \in Nat, NEW b \in Nat
             PROVE  \E x \in {a, b} : \A y \in {a, b} : x >= y
  BY DEF Http!Max
<1> QED OBVIOUS

\* What Read counts up from: the number in the file, if there is one.
LEMMA NumberRead ==
    ASSUME HttpTypes, file # {Http!Text}
    PROVE  /\ Http!Max(file \cup {0}) \in Nat
           /\ file = {} \/ Http!Max(file \cup {0}) \in file
<1>1. CASE file = {}
  <2>1. file \cup {0} = {0}
    BY <1>1
  <2>2. Http!Max({0}) = 0
    BY DEF Http!Max
  <2> QED BY <1>1, <2>1, <2>2
<1>2. ASSUME NEW x \in file PROVE Http!Max(file \cup {0}) = x /\ x \in Nat
  <2>1. file = {x} /\ x \in Nat
    <3>1. x \in Int /\ x >= -1 /\ file = {x}
      BY <1>2 DEF HttpTypes
    <3>2. x # -1
      BY <3>1 DEF Http!Text
    <3> QED BY <3>1, <3>2
  <2>2. Http!Max({x, 0}) = x
    <3>1. \E y \in {x, 0} : \A z \in {x, 0} : y >= z
      BY <2>1
    <3>2. Http!Max({x, 0}) \in {x, 0} /\ Http!Max({x, 0}) >= x /\ Http!Max({x, 0}) >= 0
      BY <3>1 DEF Http!Max
    <3> QED BY <2>1, <3>2
  <2>3. file \cup {0} = {x, 0}
    BY <2>1
  <2> QED BY <2>1, <2>2, <2>3
<1> QED BY <1>1, <1>2

LEMMA HttpInvStep == ASSUME HttpInv, Http!Next PROVE HttpInv'
<1> USE DEF HttpInv, HttpTypes, OneHandles, Floors, FileCounts, Handling, Http!Goto,
        Http!server, Http!history
<1>1. CASE Http!Restart
  <2>1. /\ pc' = [t \in Threads |-> "idle"] /\ i' = [t \in Threads |-> 0]
        /\ floor' = [t \in Threads |-> 0] /\ memory' = 0 /\ file' = file
        /\ last' = [last EXCEPT !.mem = 0] /\ lost' \in BOOLEAN
        /\ ~lost' => ~lost /\ \A t \in Threads : pc[t] # "write"
    BY <1>1 DEF Http!Restart, Http!At
  <2>2. last' \in [fs : Nat, mem : Nat] /\ last'.fs = last.fs /\ last'.mem = 0
    BY <2>1
  <2> QED BY <2>1, <2>2
<1>2. CASE Http!Quiet
  BY <1>2 DEF Http!Quiet, Http!vars
<1>3. ASSUME NEW t \in Threads, Http!GetFS(t) \/ Http!GetMEM(t) PROVE HttpInv'
  <2>1. CASE Http!GetFS(t)
    <3>1. /\ pc[t] = "idle" /\ pc' = [pc EXCEPT ![t] = "lock"]
          /\ floor' = [floor EXCEPT ![t] = last.fs] /\ last.fs \in Nat
          /\ UNCHANGED <<i, mutex, memory, file, last, lost>>
      BY <2>1 DEF Http!GetFS, Http!Request
    <3>2. HttpTypes' /\ OneHandles' /\ last'.mem <= memory'
      BY <3>1
    <3>3. Floors'
      BY <3>1
    <3>4. ~lost => FileCounts'
      BY <3>1
    <3> QED BY <3>1, <3>2, <3>3, <3>4
  <2>2. CASE Http!GetMEM(t)
    BY <1>3, <2>2 DEF Http!GetMEM, Http!Request
  <2> QED BY <1>3, <2>1, <2>2
<1>4. ASSUME NEW t \in Threads, Http!Lock(t) PROVE HttpInv'
  BY <1>4 DEF Http!Lock
<1>5. ASSUME NEW t \in Threads, Http!Read(t) PROVE HttpInv'
  BY <1>5, NumberRead DEF Http!Read
<1>6. ASSUME NEW t \in Threads, Http!Truncate(t) PROVE HttpInv'
  <2>1. CASE lost' = lost /\ pc' = [pc EXCEPT ![t] = "write"]
    BY <1>6, <2>1 DEF Http!Truncate
  <2>2. CASE lost' = TRUE /\ pc' = [pc EXCEPT ![t] = "unlock"]
    BY <1>6, <2>2 DEF Http!Truncate
  <2> QED BY <1>6, <2>1, <2>2 DEF Http!Truncate
<1>7. ASSUME NEW t \in Threads, Http!Write(t) PROVE HttpInv'
  <2>1. CASE file' = {i[t]} /\ lost' = lost
    BY <1>7, <2>1 DEF Http!Write
  <2>2. CASE file' = file /\ lost' = TRUE
    BY <1>7, <2>2 DEF Http!Write
  <2> QED BY <1>7, <2>1, <2>2 DEF Http!Write
<1>8. ASSUME NEW t \in Threads, Http!Unlock(t) PROVE HttpInv'
  <2>1. /\ last' = [last EXCEPT !.fs = Http!Max({last.fs, i[t]})]
        /\ Http!Max({last.fs, i[t]}) \in {last.fs, i[t]}
        /\ Http!Max({last.fs, i[t]}) >= last.fs /\ Http!Max({last.fs, i[t]}) >= i[t]
    BY <1>8, GreaterOf DEF Http!Unlock, Http!Reply
  <2> HIDE DEF FileCounts, Floors, OneHandles
  <2>2. last'.mem = last.mem /\ last'.fs \in {last.fs, i[t]} /\ last'.fs >= last.fs
        /\ last'.fs >= i[t] /\ last' \in [fs : Nat, mem : Nat]
    BY <2>1
  <2> USE DEF FileCounts, Floors, OneHandles
  <2>3. /\ pc[t] = "unlock" /\ pc' = [pc EXCEPT ![t] = "idle"] /\ mutex' = mutex \ {t}
        /\ i' = [i EXCEPT ![t] = 0] /\ floor' = [floor EXCEPT ![t] = 0]
        /\ UNCHANGED <<memory, file, lost>>
    BY <1>8 DEF Http!Unlock, Http!Reply
  <2>4. \A u \in Threads \ {t} : pc[u] \notin Handling
    BY <2>3
  <2>5. HttpTypes' /\ OneHandles' /\ last'.mem <= memory'
    BY <2>2, <2>3, <2>4
  <2>6. Floors'
    BY <2>2, <2>3, <2>4
  <2>7. ~lost => FileCounts'
    BY <2>2, <2>3, <2>4
  <2> QED BY <2>3, <2>5, <2>6, <2>7
<1>9. ASSUME NEW t \in Threads, Http!Increment(t) PROVE HttpInv'
  BY <1>9 DEF Http!Increment
<1>10. ASSUME NEW t \in Threads, Http!Load(t) PROVE HttpInv'
  <2>1. /\ last' = [last EXCEPT !.mem = Http!Max({last.mem, memory})]
        /\ Http!Max({last.mem, memory}) \in {last.mem, memory}
        /\ Http!Max({last.mem, memory}) >= last.mem /\ Http!Max({last.mem, memory}) >= memory
    BY <1>10, GreaterOf DEF Http!Load, Http!Reply
  <2>2. last'.fs = last.fs /\ last'.mem = memory /\ last'.mem >= last.mem
        /\ last' \in [fs : Nat, mem : Nat]
    BY <2>1
  <2> QED BY <1>10, <2>2 DEF Http!Load, Http!Reply
<1> QED
  BY <1>1, <1>2, <1>3, <1>4, <1>5, <1>6, <1>7, <1>8, <1>9, <1>10 DEF Http!Next, Http!Step

-----------------------------------------------------------------------------
(* The servers' calls *)

\* The calls of each server by stage and position.
Positions ==
    CASE server \in {"file_server", "file_server_async"} ->
           {<<"start", 1, "createServer">>, <<"round", 1, "select">>, <<"round", 2, "stdin">>,
            <<"round", 3, "accept">>, <<"round", 4, "read">>,
            <<"round", 5, IF server = "file_server" THEN "readFromFile" ELSE "AsyncreadFromFile">>,
            <<"round", 6, "writeToClient">>, <<"round", 7, "close">>, <<"end", 1, "cleanExit">>}
      [] server = "file_server_signals" ->
           {<<"start", 1, "createServer">>, <<"start", 2, "mallocInfo">>, <<"round", 1, "select">>,
            <<"round", 2, "accept">>, <<"round", 3, "read">>, <<"round", 4, "AsyncreadFromFile">>,
            <<"round", 5, "writeToClient">>, <<"round", 6, "close">>, <<"end", 1, "log_message">>,
            <<"end", 2, "cleanExit">>}
      [] server = "select_server" ->
           {<<"start", 1, "createServer">>, <<"round", 1, "select">>, <<"round", 2, "stdin">>,
            <<"round", 3, "accept">>, <<"round", 4, "read">>, <<"round", 5, "hallo">>,
            <<"round", 6, "close">>, <<"end", 1, "cleanExit">>}
      [] server = "simple_server" ->
           {<<"start", 1, "createServer">>, <<"start", 2, "accept">>, <<"round", 1, "read">>,
            <<"round", 2, "hallo">>}
      [] server = "easy_server" ->
           {<<"start", 1, "createServer">>, <<"round", 1, "listen">>, <<"round", 2, "accept">>,
            <<"round", 3, "read">>, <<"round", 4, "hallo">>, <<"round", 5, "close">>}

StartLength == IF server \in {"file_server_signals", "simple_server"} THEN 2 ELSE 1
RoundLength == IF server = "simple_server" THEN 2 ELSE CloseAt

\* What the table of a server comes to.
Tabled ==
    /\ Socket!S.frees = Allocated
    /\ Socket!S.reads = Socket!S.frees
    /\ (Socket!S.name = "pos") = (server \in Asynchronous)
    /\ Len(Socket!S.start) = StartLength /\ Len(Socket!S.round) = RoundLength
    /\ Len(Socket!S.end) = EndLength
    /\ \A call : Socket!At(call) => undo = <<>> /\ <<stage, at, call>> \in Positions
    /\ at <= Len(Socket!Calls) =>
          /\ Socket!Calls[at].undo \in (IF server \in Impatient THEN {<<>>, <<"return">>} ELSE Undos)
          /\ Socket!Calls[at].call = "AsyncreadFromFile" => Socket!Calls[at].undo # <<>>

LEMMA FileServer == server = "file_server" /\ at \in Nat \ {0} => Tabled
<1> SUFFICES ASSUME server = "file_server", at \in Nat \ {0} PROVE Tabled
  OBVIOUS
<1>1. Socket!S = Socket!file_server
  BY DEF Socket!S, Socket!Server
<1>2. /\ Socket!S.frees = {"server"} /\ Socket!S.reads = {"server"} /\ Socket!S.name = "path"
      /\ Socket!S.start = <<Socket!Try("createServer", <<"cleanExit">>)>>
      /\ Socket!S.round = <<Socket!Try("select", <<"cleanExit">>), Socket!Do("stdin"),
                            Socket!Try("accept", <<"cleanExit">>),
                            Socket!Try("read", <<"close", "cleanExit">>),
                            Socket!Try("readFromFile", <<"error", "close", "cleanExit">>),
                            Socket!Do("writeToClient"), Socket!Do("close")>>
      /\ Socket!S.end = <<Socket!Do("cleanExit")>>
  BY <1>1 DEF Socket!file_server
<1>3. Len(Socket!S.start) = 1 /\ Len(Socket!S.round) = 7 /\ Len(Socket!S.end) = 1
  BY <1>2
<1>4. ASSUME at <= Len(Socket!Calls)
      PROVE  /\ <<stage, at, Socket!Calls[at].call>> \in Positions
             /\ Socket!Calls[at].undo \in Undos
             /\ Socket!Calls[at].call = "AsyncreadFromFile" => Socket!Calls[at].undo # <<>>
  <2>1. CASE stage = "start"
    BY <1>2, <1>3, <1>4, <2>1 DEF Socket!Calls, Socket!Try, Socket!Do, Positions, Undos
  <2>2. CASE stage = "round"
    BY <1>2, <1>3, <1>4, <2>2 DEF Socket!Calls, Socket!Try, Socket!Do, Positions, Undos
  <2>3. CASE stage = "end"
    BY <1>2, <1>3, <1>4, <2>3 DEF Socket!Calls, Socket!Try, Socket!Do, Positions, Undos
  <2>4. CASE stage \notin {"start", "round", "end"}
    BY <1>4, <2>4 DEF Socket!Calls
  <2> QED BY <2>1, <2>2, <2>3, <2>4
<1> QED
  BY <1>2, <1>3, <1>4 DEF Tabled, Socket!At, Impatient, Asynchronous, Allocated, StartLength,
     RoundLength, EndLength, CloseAt

LEMMA AsyncServer == server = "file_server_async" /\ at \in Nat \ {0} => Tabled
<1> SUFFICES ASSUME server = "file_server_async", at \in Nat \ {0} PROVE Tabled
  OBVIOUS
<1>1. Socket!S = Socket!file_server_async
  BY DEF Socket!S, Socket!Server
<1>2. /\ Socket!S.frees = {"server"} /\ Socket!S.reads = {"server"} /\ Socket!S.name = "pos"
      /\ Socket!S.start = <<Socket!Try("createServer", <<"cleanExit">>)>>
      /\ Socket!S.round = <<Socket!Try("select", <<"cleanExit">>), Socket!Do("stdin"),
                            Socket!Try("accept", <<"cleanExit">>),
                            Socket!Try("read", <<"close", "cleanExit">>),
                            Socket!Try("AsyncreadFromFile", <<"error", "close", "cleanExit">>),
                            Socket!Do("writeToClient"), Socket!Do("close")>>
      /\ Socket!S.end = <<Socket!Do("cleanExit")>>
  BY <1>1 DEF Socket!file_server_async, Socket!file_server
<1>3. Len(Socket!S.start) = 1 /\ Len(Socket!S.round) = 7 /\ Len(Socket!S.end) = 1
  BY <1>2
<1>4. ASSUME at <= Len(Socket!Calls)
      PROVE  /\ <<stage, at, Socket!Calls[at].call>> \in Positions
             /\ Socket!Calls[at].undo \in Undos
             /\ Socket!Calls[at].call = "AsyncreadFromFile" => Socket!Calls[at].undo # <<>>
  <2>1. CASE stage = "start"
    BY <1>2, <1>3, <1>4, <2>1 DEF Socket!Calls, Socket!Try, Socket!Do, Positions, Undos
  <2>2. CASE stage = "round"
    BY <1>2, <1>3, <1>4, <2>2 DEF Socket!Calls, Socket!Try, Socket!Do, Positions, Undos
  <2>3. CASE stage = "end"
    BY <1>2, <1>3, <1>4, <2>3 DEF Socket!Calls, Socket!Try, Socket!Do, Positions, Undos
  <2>4. CASE stage \notin {"start", "round", "end"}
    BY <1>4, <2>4 DEF Socket!Calls
  <2> QED BY <2>1, <2>2, <2>3, <2>4
<1> QED
  BY <1>2, <1>3, <1>4 DEF Tabled, Socket!At, Impatient, Asynchronous, Allocated, StartLength,
     RoundLength, EndLength, CloseAt

LEMMA SignalServer == server = "file_server_signals" /\ at \in Nat \ {0} => Tabled
<1> SUFFICES ASSUME server = "file_server_signals", at \in Nat \ {0} PROVE Tabled
  OBVIOUS
<1>1. Socket!S = Socket!file_server_signals
  BY DEF Socket!S, Socket!Server
<1>2. /\ Socket!S.frees = {"info", "server"} /\ Socket!S.reads = {"info", "server"} /\ Socket!S.name = "pos"
      /\ Socket!S.start = <<Socket!Try("createServer", <<"cleanExit">>),
                            Socket!Do("mallocInfo")>>
      /\ Socket!S.round = <<Socket!Try("select", <<"cleanExit">>),
                            Socket!Try("accept", <<"cleanExit">>),
                            Socket!Try("read", <<"close", "cleanExit">>),
                            Socket!Try("AsyncreadFromFile", <<"error", "close", "cleanExit">>),
                            Socket!Do("writeToClient"), Socket!Do("close")>>
      /\ Socket!S.end = <<Socket!Do("log_message"), Socket!Do("cleanExit")>>
  BY <1>1 DEF Socket!file_server_signals
<1>3. Len(Socket!S.start) = 2 /\ Len(Socket!S.round) = 6 /\ Len(Socket!S.end) = 2
  BY <1>2
<1>4. ASSUME at <= Len(Socket!Calls)
      PROVE  /\ <<stage, at, Socket!Calls[at].call>> \in Positions
             /\ Socket!Calls[at].undo \in Undos
             /\ Socket!Calls[at].call = "AsyncreadFromFile" => Socket!Calls[at].undo # <<>>
  <2>1. CASE stage = "start"
    BY <1>2, <1>3, <1>4, <2>1 DEF Socket!Calls, Socket!Try, Socket!Do, Positions, Undos
  <2>2. CASE stage = "round"
    BY <1>2, <1>3, <1>4, <2>2 DEF Socket!Calls, Socket!Try, Socket!Do, Positions, Undos
  <2>3. CASE stage = "end"
    BY <1>2, <1>3, <1>4, <2>3 DEF Socket!Calls, Socket!Try, Socket!Do, Positions, Undos
  <2>4. CASE stage \notin {"start", "round", "end"}
    BY <1>4, <2>4 DEF Socket!Calls
  <2> QED BY <2>1, <2>2, <2>3, <2>4
<1> QED
  BY <1>2, <1>3, <1>4 DEF Tabled, Socket!At, Impatient, Asynchronous, Allocated, StartLength,
     RoundLength, EndLength, CloseAt

LEMMA SelectServer == server = "select_server" /\ at \in Nat \ {0} => Tabled
<1> SUFFICES ASSUME server = "select_server", at \in Nat \ {0} PROVE Tabled
  OBVIOUS
<1>1. Socket!S = Socket!select_server
  BY DEF Socket!S, Socket!Server
<1>2. /\ Socket!S.frees = {"server"} /\ Socket!S.reads = {"server"} /\ Socket!S.name = "none"
      /\ Socket!S.start = <<Socket!Try("createServer", <<"cleanExit">>)>>
      /\ Socket!S.round = <<Socket!Try("select", <<"cleanExit">>), Socket!Do("stdin"),
                            Socket!Try("accept", <<"cleanExit">>),
                            Socket!Try("read", <<"cleanExit">>),
                            Socket!Try("hallo", <<"cleanExit">>), Socket!Do("close")>>
      /\ Socket!S.end = <<Socket!Do("cleanExit")>>
  BY <1>1 DEF Socket!select_server
<1>3. Len(Socket!S.start) = 1 /\ Len(Socket!S.round) = 6 /\ Len(Socket!S.end) = 1
  BY <1>2
<1>4. ASSUME at <= Len(Socket!Calls)
      PROVE  /\ <<stage, at, Socket!Calls[at].call>> \in Positions
             /\ Socket!Calls[at].undo \in Undos
             /\ Socket!Calls[at].call = "AsyncreadFromFile" => Socket!Calls[at].undo # <<>>
  <2>1. CASE stage = "start"
    BY <1>2, <1>3, <1>4, <2>1 DEF Socket!Calls, Socket!Try, Socket!Do, Positions, Undos
  <2>2. CASE stage = "round"
    BY <1>2, <1>3, <1>4, <2>2 DEF Socket!Calls, Socket!Try, Socket!Do, Positions, Undos
  <2>3. CASE stage = "end"
    BY <1>2, <1>3, <1>4, <2>3 DEF Socket!Calls, Socket!Try, Socket!Do, Positions, Undos
  <2>4. CASE stage \notin {"start", "round", "end"}
    BY <1>4, <2>4 DEF Socket!Calls
  <2> QED BY <2>1, <2>2, <2>3, <2>4
<1> QED
  BY <1>2, <1>3, <1>4 DEF Tabled, Socket!At, Impatient, Asynchronous, Allocated, StartLength,
     RoundLength, EndLength, CloseAt

LEMMA SimpleServer == server = "simple_server" /\ at \in Nat \ {0} => Tabled
<1> SUFFICES ASSUME server = "simple_server", at \in Nat \ {0} PROVE Tabled
  OBVIOUS
<1>1. Socket!S = Socket!simple_server
  BY DEF Socket!S, Socket!Server
<1>2. /\ Socket!S.frees = {} /\ Socket!S.reads = {} /\ Socket!S.name = "none"
      /\ Socket!S.start = <<Socket!Try("createServer", <<"return">>),
                            Socket!Try("accept", <<"return">>)>>
      /\ Socket!S.round = <<Socket!Try("read", <<"return">>),
                            Socket!Try("hallo", <<"return">>)>>
      /\ Socket!S.end = <<>>
  BY <1>1 DEF Socket!simple_server
<1>3. Len(Socket!S.start) = 2 /\ Len(Socket!S.round) = 2 /\ Len(Socket!S.end) = 0
  BY <1>2
<1>4. ASSUME at <= Len(Socket!Calls)
      PROVE  /\ <<stage, at, Socket!Calls[at].call>> \in Positions
             /\ Socket!Calls[at].undo \in {<<>>, <<"return">>}
             /\ Socket!Calls[at].call # "AsyncreadFromFile"
  <2>1. CASE stage = "start"
    BY <1>2, <1>3, <1>4, <2>1 DEF Socket!Calls, Socket!Try, Socket!Do, Positions, Undos
  <2>2. CASE stage = "round"
    BY <1>2, <1>3, <1>4, <2>2 DEF Socket!Calls, Socket!Try, Socket!Do, Positions, Undos
  <2>3. CASE stage = "end"
    BY <1>2, <1>3, <1>4, <2>3 DEF Socket!Calls, Socket!Try, Socket!Do, Positions, Undos
  <2>4. CASE stage \notin {"start", "round", "end"}
    BY <1>4, <2>4 DEF Socket!Calls
  <2> QED BY <2>1, <2>2, <2>3, <2>4
<1> QED
  BY <1>2, <1>3, <1>4 DEF Tabled, Socket!At, Impatient, Asynchronous, Allocated, StartLength,
     RoundLength, EndLength, CloseAt

LEMMA EasyServer == server = "easy_server" /\ at \in Nat \ {0} => Tabled
<1> SUFFICES ASSUME server = "easy_server", at \in Nat \ {0} PROVE Tabled
  OBVIOUS
<1>1. Socket!S = Socket!easy_server
  BY DEF Socket!S, Socket!Server
<1>2. /\ Socket!S.frees = {} /\ Socket!S.reads = {} /\ Socket!S.name = "none"
      /\ Socket!S.start = <<Socket!Do("createServer")>>
      /\ Socket!S.round = <<Socket!Try("listen", <<"return">>),
                            Socket!Try("accept", <<"return">>), Socket!Do("read"),
                            Socket!Do("hallo"), Socket!Do("close")>>
      /\ Socket!S.end = <<>>
  BY <1>1 DEF Socket!easy_server
<1>3. Len(Socket!S.start) = 1 /\ Len(Socket!S.round) = 5 /\ Len(Socket!S.end) = 0
  BY <1>2
<1>4. ASSUME at <= Len(Socket!Calls)
      PROVE  /\ <<stage, at, Socket!Calls[at].call>> \in Positions
             /\ Socket!Calls[at].undo \in {<<>>, <<"return">>}
             /\ Socket!Calls[at].call # "AsyncreadFromFile"
  <2>1. CASE stage = "start"
    BY <1>2, <1>3, <1>4, <2>1 DEF Socket!Calls, Socket!Try, Socket!Do, Positions, Undos
  <2>2. CASE stage = "round"
    BY <1>2, <1>3, <1>4, <2>2 DEF Socket!Calls, Socket!Try, Socket!Do, Positions, Undos
  <2>3. CASE stage = "end"
    BY <1>2, <1>3, <1>4, <2>3 DEF Socket!Calls, Socket!Try, Socket!Do, Positions, Undos
  <2>4. CASE stage \notin {"start", "round", "end"}
    BY <1>4, <2>4 DEF Socket!Calls
  <2> QED BY <2>1, <2>2, <2>3, <2>4
<1>5. \A call : Socket!At(call) => undo = <<>> /\ <<stage, at, call>> \in Positions
  BY <1>4 DEF Socket!At
<1> QED
  BY <1>2, <1>3, <1>4, <1>5 DEF Tabled, Impatient, Asynchronous, Allocated, StartLength,
     RoundLength, EndLength, CloseAt

LEMMA CallsTabled == LoopTypes => Tabled
BY FileServer, AsyncServer, SignalServer, SelectServer, SimpleServer, EasyServer
   DEF LoopTypes, Names, Asynchronous, Impatient

LEMMA Where ==
    ASSUME LoopTypes
    PROVE  /\ Socket!At("createServer") => stage = "start" /\ at = 1
           /\ Socket!At("mallocInfo") => server = "file_server_signals" /\ stage = "start" /\ at = 2
           /\ Socket!At("listen") => server = "easy_server" /\ stage = "round" /\ at = 1
           /\ Socket!At("select") => server \notin Impatient /\ stage = "round" /\ at = 1
           /\ Socket!At("stdin") => server \notin Impatient /\ stage = "round" /\ at = 2 /\ AcceptAt = 3
           /\ Socket!At("accept") => IF server = "simple_server" THEN stage = "start" /\ at = 2
                                     ELSE stage = "round" /\ at = AcceptAt
           /\ Socket!At("read") => stage = "round" /\ at = AcceptAt + 1
           /\ Socket!At("readFromFile") => server = "file_server" /\ stage = "round" /\ at = 5
           /\ Socket!At("AsyncreadFromFile") =>
                  server \in Asynchronous /\ stage = "round" /\ at = AcceptAt + 2
           /\ Socket!At("writeToClient") =>
                  /\ server \in {"file_server"} \cup Asynchronous
                  /\ stage = "round" /\ at = AcceptAt + 3 /\ at + 1 = CloseAt
           /\ Socket!At("hallo") =>
                  /\ server \in {"select_server"} \cup Impatient
                  /\ stage = "round" /\ at = AcceptAt + 2 /\ at + 1 = CloseAt
           /\ Socket!At("close") => server # "simple_server" /\ stage = "round" /\ at = CloseAt
           /\ Socket!At("log_message") => server = "file_server_signals" /\ stage = "end" /\ at = 1
           /\ Socket!At("cleanExit") => server \notin Impatient /\ stage = "end" /\ at = EndLength
<1>1. \A call : Socket!At(call) => <<stage, at, call>> \in Positions
  BY CallsTabled DEF Tabled
<1> USE DEF Positions, Asynchronous, Impatient, AcceptAt, CloseAt, EndLength
<1>2. CASE server = "file_server"
  BY <1>1, <1>2
<1>3. CASE server = "file_server_async"
  BY <1>1, <1>3
<1>4. CASE server = "file_server_signals"
  BY <1>1, <1>4
<1>5. CASE server = "select_server"
  BY <1>1, <1>5
<1>6. CASE server = "simple_server"
  BY <1>1, <1>6
<1>7. CASE server = "easy_server"
  BY <1>1, <1>7
<1> QED BY <1>2, <1>3, <1>4, <1>5, <1>6, <1>7 DEF LoopTypes, Names

-----------------------------------------------------------------------------
(* Steps of the socket servers *)

\* A call has returned, or has failed.
Returned ==
    stage' = stage /\ at' = at + 1 /\ undo' = undo /\ failed' = failed /\ erred' = erred

Fails ==
    /\ stage' = stage /\ at' = at + 1 /\ failed' = TRUE
    /\ undo' \in Undos /\ (server \in Impatient => undo' \in {<<>>, <<"return">>})
    /\ erred' \in BOOLEAN /\ (erred' <=> erred \/ undo' # <<>>)

LEMMA CallReturns ==
    ASSUME LoopTypes, NEW call, Socket!At(call)
    PROVE  (Socket!Return => Returned) /\ (Socket!Fail => Fails)
<1>1. at <= Len(Socket!Calls) /\ Tabled
  BY CallsTabled DEF Socket!At
<1> QED BY <1>1 DEF LoopTypes, Tabled, Undos, Returned, Fails, Socket!Return, Socket!Fail

LEMMA LoopTypesKept ==
    ASSUME LoopTypes, Returned \/ Fails, server' = server, stopped' \in BOOLEAN
    PROVE  LoopTypes'
<1>1. at' \in Nat \ {0}
  BY DEF LoopTypes, Returned, Fails
<1>2. undo' \in Undos /\ failed' \in BOOLEAN /\ erred' \in BOOLEAN /\ stage' = stage
  BY DEF LoopTypes, Returned, Fails
<1> QED BY <1>1, <1>2 DEF LoopTypes

\* The facts about the places of a call that the other steps need.
LEMMA Places ==
    ASSUME LoopTypes
    PROVE  /\ AcceptAt \in Nat /\ CloseAt \in Nat /\ at \in Nat
           /\ server' = server => AcceptAt' = AcceptAt /\ CloseAt' = CloseAt /\ EndLength' = EndLength
           /\ server # "simple_server" =>
                  /\ AcceptAt > 1 /\ AcceptAt <= 3 /\ AcceptAt + 2 < CloseAt
                  /\ (server \in Asynchronous => CloseAt = AcceptAt + 4)
           /\ server = "simple_server" => AcceptAt = 0 /\ CloseAt = 3
           /\ server = "file_server" => AcceptAt = 3 /\ CloseAt = 7
           /\ server \notin Impatient => EndLength \in Nat /\ EndLength > 0
BY DEF LoopTypes, Names, Asynchronous, Impatient, AcceptAt, CloseAt, EndLength

LEMMA FreedKept ==
    ASSUME NothingFreed, Returned \/ Fails, server' = server, server \in Impatient => stopped' = stopped,
           stage = "undefined" \/ undo # <<>> => erred, erred => failed
    PROVE  /\ NothingFreed' /\ (stage' = "undefined" \/ undo' # <<>> => erred')
           /\ erred' => failed'
BY DEF NothingFreed, Returned, Fails, Impatient

LEMMA RequestKept ==
    ASSUME LoopTypes, DataTypes, Request, UNCHANGED <<server, path, found, disk>>,
           served' \subseteq served, at' \in Nat,
           (stage' = stage /\ at' >= at) \/ stage' \notin {"start", "round"},
           \A c \in Clients :
              /\ client[c] \in {"sent", "gone"} => client'[c] \in {"sent", "gone"} /\ asks'[c] = asks[c]
              /\ got'[c] = got[c] \/ got'[c] \notin Paths
    PROVE  Request'
<1>1. AcceptAt' = AcceptAt /\ AcceptAt \in Nat /\ at \in Nat
  BY Places DEF AcceptAt, LoopTypes
<1>2. (stage' = "start" => stage = "start") /\ (stage' = "round" => stage = "round" /\ at' >= at)
  OBVIOUS
<1>3. \A k \in Nat : (stage = "round" => at > k) => (stage' = "round" => at' > k)
  BY <1>1, <1>2
<1>4. path' # "" => /\ stage' # "start" /\ (stage' = "round" => at' > AcceptAt' + 1)
                   /\ \A c \in served' : client'[c] \in {"sent", "gone"} /\ asks'[c] = path'
  <2>1. (stage = "round" => at > AcceptAt + 1) => (stage' = "round" => at' > AcceptAt + 1)
    BY <1>1, <1>3
  <2>2. ASSUME path # "", NEW c \in served'
        PROVE  client'[c] \in {"sent", "gone"} /\ asks'[c] = path
    BY <2>2 DEF Request, DataTypes
  <2> QED BY <1>1, <1>2, <2>1, <2>2 DEF Request
<1>5. found' => server' = "file_server" /\ (stage' = "round" => at' > 5) /\ path' \in disk'
  BY <1>3 DEF Request
<1>6. \A c \in Clients : got'[c] \in Paths =>
          client'[c] \in {"sent", "gone"} /\ asks'[c] = got'[c] /\ got'[c] \in disk'
  BY DEF Request
<1> QED BY <1>4, <1>5, <1>6 DEF Request

LEMMA ReceivedKept ==
    ASSUME Received, server' = server, failed => failed',
           stage \in {"ended", "undefined"} => stage' \in {"ended", "undefined"},
           got' = got, extent' = extent
    PROVE  Received'
BY DEF Received

\* What concerns the connection and the clients stays as it is.
Untouched == UNCHANGED <<server, path, found, disk, backlog, served, client, asks, got, extent>>

LEMMA NothingToFree == server \in Impatient => Allocated = {}
<1>1. CASE server = "simple_server"
  BY <1>1 DEF Allocated, Impatient
<1>2. CASE server = "easy_server"
  BY <1>2 DEF Allocated, Impatient
<1> QED BY <1>1, <1>2 DEF Impatient

\* What has been allocated for requests stays there.
LEMMA LeaksKept ==
    ASSUME Leaks, UNCHANGED <<server, disk>>, live' \cap Clients \subseteq live,
           \A c \in Clients : client[c] \in {"sent", "gone"} =>
               client'[c] \in {"sent", "gone"} /\ asks'[c] = asks[c]
    PROVE  Leaks'
BY DEF Leaks

LEMMA QuietCall ==
    ASSUME SocketInv, Returned \/ Fails, Untouched, stopped' \in BOOLEAN,
           server \in Impatient => stopped' = stopped,
           stage = "round" => at < AcceptAt, ~erred' => Heap', live' \cap Clients \subseteq live
    PROVE  SocketInv'
<1> USE DEF SocketInv, Untouched
<1>1. LoopTypes' /\ DataTypes'
  BY LoopTypesKept DEF DataTypes
<1>2. NothingFreed' /\ (stage' = "undefined" \/ undo' # <<>> => erred') /\ (erred' => failed')
  BY FreedKept
<1>3. /\ at \in Nat /\ at' = at + 1 /\ stage' = stage /\ (failed => failed')
      /\ erred => erred'
  BY DEF Returned, Fails, LoopTypes
<1>4. Request' /\ Received'
  BY <1>3, RequestKept, ReceivedKept
<1>5. /\ AcceptAt' = AcceptAt /\ CloseAt' = CloseAt /\ AcceptAt \in Nat /\ CloseAt \in Nat
      /\ server # "simple_server" => AcceptAt <= 3 /\ AcceptAt + 2 < CloseAt
      /\ server = "simple_server" => AcceptAt = 0
  BY Places
<1>6. ASSUME ~failed' PROVE Replies' /\ Waiting'
  <2>1. ~failed /\ ~erred /\ Connection /\ Replies /\ Waiting
    BY <1>3, <1>6
  <2>2. Replies'
    BY <2>1, <1>3, <1>5 DEF Replies, Asynchronous
  <2>3. Waiting'
    BY <2>1, <1>3 DEF Waiting
  <2> QED BY <2>2, <2>3
<1>7. ASSUME ~erred' PROVE Leaks' /\ Connection'
  <2>1. ~erred /\ Leaks /\ Connection
    BY <1>3, <1>7
  <2>2. Connection'
    BY <2>1, <1>3, <1>5 DEF Connection
  <2> QED BY <2>1, <2>2, LeaksKept
<1> QED BY <1>1, <1>2, <1>4, <1>6, <1>7

LEMMA SetUpStep ==
    ASSUME SocketInv,
           \/ Socket!CreateServer \/ Socket!Listen \/ Socket!MallocInfo
           \/ Socket!Select \/ Socket!Stdin
    PROVE  SocketInv'
<1>1. LoopTypes /\ NothingFreed /\ stopped \in BOOLEAN
  BY DEF SocketInv, LoopTypes
<1>2. AcceptAt \in Nat /\ (server # "simple_server" => AcceptAt > 1)
  BY <1>1, Places
<1>3. CASE Socket!CreateServer \/ Socket!Listen \/ Socket!Select
  <2>1. (Returned \/ Fails) /\ Untouched /\ UNCHANGED <<live, stopped>>
    BY <1>1, <1>3, CallReturns DEF Socket!CreateServer, Socket!Listen, Socket!Select, Untouched,
       Socket!socketVars, Socket!requestVars,
     Socket!eventVars, Socket!clientVars
  <2>2. (stage = "start" /\ at = 1) \/ (stage = "round" /\ at < AcceptAt)
    <3>1. \/ stage = "start" /\ at = 1
          \/ server = "easy_server" /\ stage = "round" /\ at = 1
          \/ server \notin Impatient /\ stage = "round" /\ at = 1
      BY <1>1, <1>3, Where DEF Socket!CreateServer, Socket!Listen, Socket!Select
    <3>2. CASE stage = "start" /\ at = 1
      BY <3>2
    <3>3. CASE stage = "round" /\ at = 1 /\ server # "simple_server"
      <4>1. AcceptAt > at
        BY <1>2, <3>3
      <4> QED BY <1>2, <3>3, <4>1
    <3> QED BY <3>1, <3>2, <3>3, Zenon DEF Impatient
  <2>3. ~erred' => Heap'
    <3> SUFFICES ASSUME ~erred' PROVE Heap'
      OBVIOUS
    <3>1. ~erred /\ Heap /\ stage' = stage /\ at' = at + 1 /\ at \in Nat /\ server' = server
      BY <2>1, <1>1 DEF Returned, Fails, Untouched, SocketInv, LoopTypes
    <3> QED BY <2>1, <2>2, <3>1 DEF Heap, Allocated, EndLength
  <2> QED BY <1>1, <2>1, <2>2, <2>3, QuietCall
<1>4. CASE Socket!MallocInfo
  <2>1. (Returned \/ Fails) /\ Untouched /\ UNCHANGED stopped /\ live' = live \cup {"info"}
    BY <1>1, <1>4, CallReturns DEF Socket!MallocInfo, Untouched, Socket!socketVars, Socket!requestVars,
     Socket!eventVars, Socket!clientVars
  <2>2. server = "file_server_signals" /\ stage = "start" /\ at = 2
    BY <1>1, <1>4, Where DEF Socket!MallocInfo
  <2>4. "info" \notin Clients
    BY ParametersAssumption DEF Socket!Parameters
  <2>3. ~erred' => Heap'
    <3> SUFFICES ASSUME ~erred' PROVE Heap'
      OBVIOUS
    <3>1. ~erred /\ Heap /\ stage' = stage /\ at' = at + 1 /\ server' = server
      BY <2>1 DEF Returned, Fails, Untouched, SocketInv
    <3>2. live' \ Clients = Allocated /\ at' = 3
      BY <2>1, <2>2, <2>4, <3>1 DEF Heap, Allocated, Impatient
    <3> QED BY <2>2, <3>1, <3>2 DEF Heap, Allocated, Impatient
  <2> QED BY <1>1, <2>1, <2>2, <2>3, <2>4, QuietCall
<1>5. CASE Socket!Stdin
  <2>1. (Returned \/ Fails) /\ Untouched /\ UNCHANGED live /\ stopped' \in BOOLEAN
    BY <1>1, <1>5, CallReturns DEF Socket!Stdin, Untouched, Socket!socketVars, Socket!requestVars,
     Socket!eventVars, Socket!clientVars
  <2>2. server \notin Impatient /\ stage = "round" /\ at < AcceptAt
    BY <1>1, <1>5, Where DEF Socket!Stdin
  <2>3. ~erred' => Heap'
    BY <2>1, <2>2 DEF Returned, Fails, Untouched, SocketInv, Heap, Allocated
  <2> QED BY <1>1, <2>1, <2>2, <2>3, QuietCall
<1> QED BY <1>3, <1>4, <1>5

\* The code is left in an undefined state only after an error branch.
LEMMA BrokenStep ==
    ASSUME SocketInv, Socket!Undefined, Untouched, UNCHANGED stopped, erred, server \notin Impatient
    PROVE  SocketInv'
<1> USE DEF SocketInv, Untouched, Socket!Undefined
<1>1. LoopTypes' /\ DataTypes'
  BY DEF LoopTypes, DataTypes
<1>2. NothingFreed' /\ failed' = failed /\ erred' = erred /\ failed /\ Received'
  BY ReceivedKept DEF NothingFreed
<1>3. Request'
  BY RequestKept DEF LoopTypes
<1> QED BY <1>1, <1>2, <1>3

LEMMA LogMessageStep == ASSUME SocketInv, Socket!LogMessage PROVE SocketInv'
<1>1. LoopTypes /\ server = "file_server_signals" /\ stage = "end" /\ at = 1
  BY Where DEF Socket!LogMessage, SocketInv
<1>2. Untouched /\ UNCHANGED <<live, stopped>> /\ server \notin Impatient /\ stopped \in BOOLEAN
  BY <1>1 DEF Socket!LogMessage, Untouched, Impatient, LoopTypes, Socket!socketVars, Socket!requestVars,
     Socket!eventVars, Socket!clientVars
<1>3. CASE "info" \in live
  <2>1. Returned
    BY <1>1, <1>3, CallReturns DEF Socket!LogMessage
  <2>2. ~erred' => Heap'
    BY <1>1, <1>2, <2>1 DEF Returned, Untouched, SocketInv, Heap, Allocated, EndLength, Impatient
  <2> QED BY <1>1, <1>2, <2>1, <2>2, QuietCall
<1>4. CASE "info" \notin live
  <2>1. erred
    BY <1>1, <1>4 DEF SocketInv, Heap, Allocated, EndLength, Impatient
  <2>2. Socket!Undefined
    BY <1>4 DEF Socket!LogMessage
  <2> QED BY <1>2, <2>1, <2>2, BrokenStep
<1> QED BY <1>3, <1>4

LEMMA CleanExitStep == ASSUME SocketInv, Socket!CleanExit PROVE SocketInv'
<1>1. LoopTypes /\ server \notin Impatient /\ stage = "end" /\ at = EndLength
  BY Where DEF Socket!CleanExit, SocketInv
<1>2. Untouched /\ UNCHANGED stopped /\ stopped \in BOOLEAN /\ Tabled
  BY <1>1, CallsTabled DEF Socket!CleanExit, Untouched, LoopTypes, Socket!socketVars, Socket!requestVars,
     Socket!eventVars, Socket!clientVars
<1>3. CASE "server" \in live
  <2>1. Returned /\ live' = live \ Allocated
    BY <1>1, <1>2, <1>3, CallReturns DEF Socket!CleanExit, Tabled
  <2>2. ~erred' => Heap'
    <3> SUFFICES ASSUME ~erred PROVE Heap'
      BY <2>1 DEF Returned
    <3>1. live \ Clients = Allocated /\ EndLength \in Nat /\ EndLength' = EndLength
      BY <1>1, <1>2 DEF SocketInv, Heap, Untouched, EndLength
    <3>2. at' > EndLength' /\ ~(at' <= EndLength') /\ stage' = "end" /\ live' \ Clients = {} /\ server' = server
      BY <1>1, <1>2, <2>1, <3>1 DEF Returned, Untouched
    <3> QED BY <1>1, <3>2 DEF Heap, Impatient
  <2> QED BY <1>1, <1>2, <2>1, <2>2, QuietCall
<1>4. CASE "server" \notin live
  <2>1. erred
    <3>1. at <= EndLength
      BY <1>1 DEF EndLength
    <3> QED BY <1>1, <1>4, <3>1 DEF SocketInv, Heap, Allocated, Impatient
  <2>2. Socket!Undefined
    BY <1>4 DEF Socket!CleanExit
  <2> QED BY <1>1, <1>2, <2>1, <2>2, BrokenStep
<1> QED BY <1>3, <1>4

LEMMA EndOfStageStep == ASSUME SocketInv, Socket!EndOfStage PROVE SocketInv'
<1> USE DEF SocketInv
<1>1. /\ Untouched /\ UNCHANGED <<live, failed, erred, stopped, at, undo>> /\ undo = <<>>
      /\ stage \in {"start", "round", "end"}
      /\ stage' = (IF stage = "end" THEN "ended" ELSE "loop")
  BY DEF Socket!EndOfStage, Untouched, Socket!heapVars, Socket!Stopped, LoopTypes,
     Socket!socketVars, Socket!requestVars,
     Socket!eventVars, Socket!clientVars
<1>2. /\ stage = "start" => at > StartLength
      /\ stage = "round" => at > RoundLength
      /\ stage = "end" => at > EndLength
  BY <1>1, CallsTabled DEF Socket!EndOfStage, Socket!Calls, Tabled
<1>3. LoopTypes' /\ DataTypes' /\ NothingFreed' /\ Received'
  BY <1>1, ReceivedKept DEF Untouched, LoopTypes, DataTypes, NothingFreed
<1>4. Request'
  BY <1>1, <1>3, RequestKept DEF Untouched, LoopTypes
<1>5. ASSUME ~erred PROVE Heap' /\ Leaks' /\ Connection'
  <2>1. Heap'
    <3>1. stage \in {"start", "round"} => live \ Clients = Allocated
      BY <1>1, <1>2, <1>5 DEF Heap, Allocated, StartLength, Impatient
    <3>2. stage = "end" => live \ Clients = {} /\ server \notin Impatient
      BY <1>1, <1>2, <1>5, Places DEF Heap
    <3> QED BY <1>1, <3>1, <3>2 DEF Heap, Untouched, Allocated
  <2>2. served # {} => server = "simple_server"
    BY <1>1, <1>2, <1>5, Places DEF Connection, RoundLength
  <2>3. Connection'
    BY <1>1, <2>2 DEF Connection, Untouched
  <2>4. Leaks'
    BY <1>1, <1>5, LeaksKept DEF Untouched
  <2> QED BY <2>1, <2>3, <2>4
<1>6. ASSUME ~failed PROVE Replies' /\ Waiting'
  <2>1. Replies'
    BY <1>1 DEF Replies
  <2>2. Waiting'
    BY <1>1, <1>6 DEF Waiting, Untouched
  <2> QED BY <2>1, <2>2
<1> QED BY <1>1, <1>3, <1>4, <1>5, <1>6

LEMMA WhileStep == ASSUME SocketInv, Socket!While PROVE SocketInv'
<1> USE DEF SocketInv
<1>1. /\ UNCHANGED <<server, live, failed, erred, stopped, undo, disk, backlog, served>>
      /\ UNCHANGED <<client, asks, got, extent>>
      /\ stage = "loop" /\ at' = 1 /\ path' = "" /\ found' = FALSE
      /\ stage' = (IF stopped THEN "end"
                   ELSE IF Socket!S.reads \subseteq live THEN "round" ELSE "undefined")
      /\ Socket!S.reads = Allocated
  BY CallsTabled DEF Socket!While, Socket!heapVars, Socket!socketVars, Socket!clientVars, Tabled
<1>2. /\ stage' \in {"end", "round", "undefined"} /\ (stage' = "end" => stopped)
      /\ stage' = "undefined" => server \notin Impatient /\ ~(Allocated \subseteq live)
  BY <1>1, NothingToFree DEF LoopTypes
<1>3. LoopTypes' /\ DataTypes' /\ NothingFreed'
  <2>1. LoopTypes'
    <3>1. stage' \in {"end", "round", "undefined"} /\ at' = 1
      BY <1>1, <1>2
    <3>2. UNCHANGED <<server, undo, stopped, failed, erred>>
      BY <1>1
    <3> QED BY <3>1, <3>2 DEF LoopTypes
  <2>2. DataTypes'
    BY <1>1 DEF DataTypes
  <2>3. NothingFreed'
    BY <1>1, <1>2 DEF NothingFreed
  <2> QED BY <2>1, <2>2, <2>3
<1>4. Request' /\ Received'
  BY <1>1 DEF Request, Received
<1>5. stage' = "undefined" => erred
  BY <1>1, <1>2 DEF Heap
<1>6. ASSUME ~erred PROVE Heap' /\ Leaks' /\ Connection'
  <2>1. Heap'
    <3>1. live' \ Clients = Allocated' /\ stage' # "undefined" /\ server' = server
      BY <1>1, <1>2, <1>5, <1>6 DEF Heap, Allocated
    <3>2. stage' = "end" => server' \notin Impatient /\ at' <= EndLength'
      <4>1. server' = server /\ at' = 1 /\ EndLength' = EndLength
        BY <1>1, Places
      <4>2. stage' = "end" => server \notin Impatient
        BY <1>2 DEF NothingFreed
      <4>3. server \notin Impatient => EndLength \in Nat /\ EndLength > 0
        BY Places
      <4> QED BY <4>1, <4>2, <4>3
    <3> QED BY <1>2, <3>1, <3>2 DEF Heap
  <2>2. Connection'
    BY <1>1, <1>2, <1>6 DEF Connection
  <2>3. Leaks'
    BY <1>1, <1>6, LeaksKept
  <2> QED BY <2>1, <2>2, <2>3
<1>7. ASSUME ~failed PROVE Replies' /\ Waiting'
  <2>4. Replies'
    <3>1. server' = server /\ AcceptAt' = AcceptAt /\ CloseAt' = CloseAt
      BY <1>1, Places
    <3>2. AcceptAt \in Nat /\ CloseAt \in Nat /\ (server # "simple_server" => 1 # CloseAt)
      BY Places
    <3>3. 1 <= AcceptAt + 2 /\ ~(1 > 5)
      BY <3>2
    <3>4. at' = 1
      BY <1>1
    <3> QED BY <3>1, <3>2, <3>3, <3>4 DEF Replies
  <2>3. Waiting'
    BY <1>1, <1>7 DEF Waiting
  <2> QED BY <2>3, <2>4
<1> QED BY <1>1, <1>3, <1>4, <1>5, <1>6, <1>7

\* A call in the round, and simple-server.c's accept.
LEMMA CallKeeps ==
    ASSUME SocketInv, Returned \/ Fails, UNCHANGED <<server, stopped>>, live' \ Clients = live \ Clients,
           stage = "round" \/ (server = "simple_server" /\ stage = "start" /\ at = 2)
    PROVE  /\ LoopTypes' /\ NothingFreed' /\ (stage' = "undefined" \/ undo' # <<>> => erred')
           /\ (erred' => failed') /\ (failed => failed')
           /\ ~erred' => ~erred /\ Heap /\ Leaks /\ Connection /\ Heap'
           /\ ~failed' => ~failed /\ ~erred' /\ Replies /\ Waiting
           /\ stage' = stage /\ at' = at + 1 /\ AcceptAt' = AcceptAt /\ CloseAt' = CloseAt
<1> USE DEF SocketInv
<1>1. /\ LoopTypes' /\ NothingFreed' /\ (stage' = "undefined" \/ undo' # <<>> => erred')
      /\ erred' => failed'
  BY LoopTypesKept, FreedKept DEF LoopTypes
<1>2. stage' = stage /\ at' = at + 1 /\ AcceptAt' = AcceptAt /\ CloseAt' = CloseAt /\ at \in Nat
  BY Places DEF Returned, Fails
<1>3. (failed => failed') /\ (erred => erred')
  BY DEF Returned, Fails
<1>4. Allocated' = Allocated /\ (server = "simple_server" => Allocated = {})
  BY DEF Allocated, Impatient
<1>5. Heap => Heap'
  BY <1>2, <1>4 DEF Heap, Impatient
<1> QED BY <1>1, <1>2, <1>3, <1>5

\* The first element of a sequence, and the others.
LEMMA HeadAndTail ==
    ASSUME NEW T, NEW q \in Seq(T), q # <<>>
    PROVE  /\ Head(q) = q[1] /\ Head(q) \in T /\ Tail(q) \in Seq(T)
           /\ Len(Tail(q)) = Len(q) - 1 /\ Len(q) \in Nat
           /\ \A l \in 1..(Len(q) - 1) : Tail(q)[l] = q[l + 1]
<1>1. /\ Head(q) \in T /\ Tail(q) \in Seq(T) /\ Len(Tail(q)) = Len(q) - 1
      /\ \A l \in 1..Len(Tail(q)) : Tail(q)[l] = q[l + 1]
  BY HeadTailProperties, Zenon
<1>2. \A l \in 1..(Len(q) - 1) : Tail(q)[l] = q[l + 1]
  BY <1>1, Zenon
<1>3. Head(q) = q[1] /\ Len(q) \in Nat
  OBVIOUS
<1> QED BY <1>1, <1>2, <1>3

LEMMA AcceptStep == ASSUME SocketInv, Socket!Accept PROVE SocketInv'
<1> USE DEF SocketInv
<1>1. /\ server = "simple_server" => stage = "start" /\ at = 2
      /\ server # "simple_server" => stage = "round" /\ at = AcceptAt
  BY Where DEF Socket!Accept
<1>2. /\ UNCHANGED <<server, live, stopped, path, found, disk, client, asks, got, extent>>
      /\ Socket!Selects <=> server \notin Impatient
      /\ Socket!S.reads = Allocated
  BY CallsTabled DEF Socket!Accept, Socket!requestVars, Socket!eventVars, Socket!clientVars,
     Tabled, Socket!Selects, Impatient
<1>3. path = "" /\ found = FALSE
  <2>1. CASE server = "simple_server"
    BY <1>1, <2>1 DEF Request, DataTypes
  <2>2. CASE server # "simple_server"
    <3>1. stage = "round" /\ ~(at > AcceptAt + 1) /\ ~(at > 5)
      BY <1>1, <2>2, Places
    <3> QED BY <3>1 DEF Request, DataTypes
  <2> QED BY <2>1, <2>2
<1>4. ~erred => served = {}
  BY <1>1, Places DEF Connection
<1>5. CASE /\ server \notin Impatient /\ stage' = "loop"
           /\ UNCHANGED <<at, undo, failed, erred, backlog, served>>
  <2>1. stage = "round" /\ at \in Nat
    BY <1>1, <1>5, Places DEF Impatient
  <2>2. LoopTypes' /\ DataTypes' /\ NothingFreed'
    BY <1>2, <1>5 DEF LoopTypes, DataTypes, NothingFreed
  <2>3. Request' /\ Received'
    BY <1>2, <1>5, <2>1, RequestKept, ReceivedKept
  <2>4. ~erred => Heap' /\ Connection'
    BY <1>2, <1>4, <1>5, <2>1 DEF Heap, Allocated, Connection
  <2>5. ~erred => Leaks'
    BY <1>2, <1>5, LeaksKept
  <2>6. ~failed => Replies' /\ Waiting'
    BY <1>2, <1>5, <2>1 DEF Replies, Waiting
  <2> QED BY <1>2, <1>5, <2>1, <2>2, <2>3, <2>4, <2>5, <2>6
<1>6. CASE /\ backlog # <<>> /\ served' = {Head(backlog)} /\ backlog' = Tail(backlog)
           /\ Returned
  <2>1. /\ LoopTypes' /\ NothingFreed' /\ (stage' = "undefined" \/ undo' # <<>> => erred')
        /\ (erred' => failed') /\ (failed => failed')
        /\ ~erred' => ~erred /\ Heap /\ Leaks /\ Connection /\ Heap'
        /\ ~failed' => ~failed /\ ~erred' /\ Replies /\ Waiting
        /\ stage' = stage /\ at' = at + 1 /\ AcceptAt' = AcceptAt /\ CloseAt' = CloseAt
    BY <1>1, <1>2, <1>6, CallKeeps
  <2>6. /\ backlog \in Seq(Clients) /\ backlog # <<>>
        /\ Head(backlog) = backlog[1] /\ Head(backlog) \in Clients /\ Tail(backlog) \in Seq(Clients)
        /\ Len(Tail(backlog)) = Len(backlog) - 1 /\ Len(backlog) \in Nat
        /\ \A l \in 1..(Len(backlog) - 1) : Tail(backlog)[l] = backlog[l + 1]
    BY <1>6, HeadAndTail DEF DataTypes
  <2>2. DataTypes'
    BY <1>2, <1>6, <2>6 DEF DataTypes
  <2>3. Request' /\ Received'
    BY <1>2, <1>3, <2>1, ReceivedKept DEF Request
  <2>4. Connection' /\ (Replies => Replies')
    <3>1. CASE server = "simple_server"
      BY <1>1, <1>2, <2>1, <3>1, Places DEF Connection, Replies, Asynchronous
    <3>2. CASE server # "simple_server"
      <4>1. stage' = "round" /\ at' > AcceptAt /\ at' < CloseAt /\ at' <= 4 /\ at' <= AcceptAt + 2
        BY <1>1, <2>1, <3>2, Places
      <4> QED BY <1>2, <2>1, <3>2, <4>1, Places DEF Connection, Replies
    <3> QED BY <3>1, <3>2
  <2>5. ~failed' => Waiting'
    <3> SUFFICES ASSUME ~failed', stage' \notin {"ended", "undefined"}, NEW c \in Clients,
                        client[c] \in {"connected", "sent"}, got[c] = "nothing"
                 PROVE  c \in served' \/ \E l \in 1..Len(backlog') : backlog'[l] = c
      BY <1>2 DEF Waiting
    <3>1. PICK l \in 1..Len(backlog) : backlog[l] = c
      BY <1>2, <1>4, <2>1 DEF Waiting
    <3>2. CASE l = 1
      BY <1>6, <2>6, <3>1, <3>2
    <3>3. CASE l # 1
      <4>1. l - 1 \in 1..Len(backlog') /\ backlog'[l - 1] = c
        <5>1. l \in Nat /\ l - 1 \in 1..(Len(backlog) - 1) /\ (l - 1) + 1 = l
          BY <2>6, <3>1, <3>3
        <5> QED BY <1>6, <2>6, <3>1, <5>1
      <4> QED BY <4>1
    <3> QED BY <3>2, <3>3
  <2>7. ~erred' => Leaks'
    BY <1>2, <2>1, LeaksKept
  <2> QED BY <2>1, <2>2, <2>3, <2>4, <2>5, <2>7
<1>7. CASE Fails /\ UNCHANGED <<backlog, served>>
  <2>1. /\ LoopTypes' /\ NothingFreed' /\ (stage' = "undefined" \/ undo' # <<>> => erred')
        /\ (erred' => failed') /\ (failed => failed') /\ stage' = stage /\ at' = at + 1
        /\ ~erred' => ~erred /\ Leaks /\ Heap'
    BY <1>1, <1>2, <1>7, CallKeeps
  <2>2. DataTypes'
    BY <1>2, <1>7 DEF DataTypes
  <2>3. at' \in Nat /\ at' >= at
    <3>1. at \in Nat /\ at' = at + 1
      BY <2>1, Places
    <3> QED BY <3>1
  <2>4. Request'
    BY <1>2, <1>7, <2>1, <2>3, RequestKept
  <2>5. Received'
    BY <1>2, <2>1, ReceivedKept
  <2>6. ~erred' => Leaks' /\ Connection'
    BY <1>2, <1>4, <1>7, <2>1, LeaksKept DEF Connection
  <2> QED BY <1>7, <2>1, <2>2, <2>4, <2>5, <2>6 DEF Fails
<1>8. CASE Socket!Undefined /\ UNCHANGED <<backlog, served>> /\ ~(Socket!S.reads \subseteq live)
  <2>1. server \notin Impatient
    BY <1>2, <1>8, NothingToFree
  <2>2. erred
    BY <1>1, <1>2, <1>8, <2>1 DEF Heap, Impatient
  <2> QED BY <1>2, <1>8, <2>1, <2>2, BrokenStep DEF Untouched
<1> QED
  BY <1>2, <1>5, <1>6, <1>7, <1>8, CallReturns DEF Socket!Accept, Socket!socketVars

LEMMA ReadStep == ASSUME SocketInv, Socket!Read PROVE SocketInv'
<1> USE DEF SocketInv
<1>1. stage = "round" /\ at = AcceptAt + 1
  BY Where DEF Socket!Read
<1>2. /\ UNCHANGED <<server, live, stopped, backlog, served, found, disk, client, asks, got, extent>>
      /\ Returned \/ Fails
      /\ \/ path' = ""
         \/ \E c \in served : client[c] = "sent" /\ path' = asks[c]
  BY CallReturns DEF Socket!Read, Socket!socketVars, Socket!eventVars, Socket!clientVars
<1>3. /\ LoopTypes' /\ NothingFreed' /\ (stage' = "undefined" \/ undo' # <<>> => erred')
      /\ (erred' => failed') /\ (failed => failed')
      /\ ~erred' => ~erred /\ Heap /\ Leaks /\ Connection /\ Heap'
      /\ ~failed' => ~failed /\ ~erred' /\ Replies /\ Waiting
      /\ stage' = stage /\ at' = at + 1 /\ AcceptAt' = AcceptAt /\ CloseAt' = CloseAt
  BY <1>1, <1>2, CallKeeps
<1>4. DataTypes'
  BY <1>2 DEF DataTypes
<1>5. found = FALSE
  <2>1. server = "file_server" => ~(at > 5)
    BY <1>1, Places
  <2> QED BY <1>1, <2>1 DEF Request, DataTypes
<1>6. Request'
  <2>1. path' # "" => \A c \in served' : client'[c] \in {"sent", "gone"} /\ asks'[c] = path'
    BY <1>2 DEF DataTypes
  <2>2. stage' = "round" /\ at' > AcceptAt' + 1
    BY <1>1, <1>3, Places
  <2> QED BY <1>2, <1>5, <2>1, <2>2 DEF Request
<1>7. Received'
  BY <1>2, <1>3, <1>1, ReceivedKept
<1>8. (~erred' => Leaks' /\ Connection') /\ (~failed' => Replies' /\ Waiting')
  <2>1. stage' = "round" /\ at' = AcceptAt + 2
    BY <1>1, <1>3, Places
  <2>2. Connection => Connection'
    <3>1. AcceptAt \in Nat /\ (server # "simple_server" => CloseAt \in Nat /\ AcceptAt + 2 < CloseAt)
      BY Places
    <3>2. server # "simple_server" => at' > AcceptAt' /\ at' <= CloseAt'
      BY <1>3, <2>1, <3>1
    <3> QED BY <1>2, <2>1, <3>2 DEF Connection
  <2>3. Replies'
    <3>1. /\ server = "file_server" => ~(at' > 5)
          /\ at' <= AcceptAt' + 2
          /\ server # "simple_server" => at' # CloseAt'
      BY <1>3, <2>1, Places
    <3> QED BY <1>2, <3>1 DEF Replies
  <2>4. Waiting => Waiting'
    BY <1>2, <1>3 DEF Waiting
  <2>5. Leaks => Leaks'
    BY <1>2, LeaksKept
  <2> QED BY <1>3, <2>2, <2>3, <2>4, <2>5
<1> QED BY <1>3, <1>4, <1>6, <1>7, <1>8

\* Only file-server looks a request up: what follows a path names no file.
LEMMA FileStep ==
    ASSUME SocketInv, Socket!ReadFromFile \/ Socket!AsyncReadFromFile
    PROVE  SocketInv'
<1> USE DEF SocketInv
<1>1. /\ stage = "round" /\ at = AcceptAt + 2
      /\ server \in {"file_server"} \cup Asynchronous
      /\ Socket!ReadFromFile => server = "file_server"
      /\ Socket!AsyncReadFromFile => server \in Asynchronous
  BY Where, Places DEF Socket!ReadFromFile, Socket!AsyncReadFromFile
<1>2. /\ UNCHANGED <<server, stopped, backlog, served, path, client, asks, got, extent>>
      /\ live' = live \/ live' = live \cup served
  BY DEF Socket!Allocate, Socket!ReadFromFile, Socket!AsyncReadFromFile, Socket!socketVars, Socket!eventVars,
     Socket!clientVars
<1>3. /\ \/ server = "file_server" /\ path \in disk /\ found' = TRUE /\ disk' = disk /\ Returned
         \/ found' = FALSE /\ disk' = disk /\ Fails
      /\ live' = live \/ (server = "file_server" /\ path \in disk) \/ erred'
  <2>1. Tabled
    BY CallsTabled
  <2>2. CASE Socket!ReadFromFile
    <3>1. server = "file_server" /\ Socket!Name = path
      BY <1>1, <2>1, <2>2 DEF Tabled, Socket!Name, Asynchronous
    <3> QED BY <2>2, <3>1, CallReturns DEF Socket!ReadFromFile, Socket!Allocate
  <2>3. CASE Socket!AsyncReadFromFile
    <3>1. Socket!Name = "" /\ "" \notin disk
      BY <1>1, <2>1, <2>3, ParametersAssumption DEF Tabled, Socket!Name, Socket!Parameters, DataTypes
    <3>2. found' = FALSE /\ disk' = disk \ {""} /\ Socket!Fail /\ Fails
      BY <2>3, <3>1, CallReturns DEF Socket!AsyncReadFromFile
    <3>3. undo' # <<>>
      BY <2>1, <2>3, <3>2 DEF Tabled, Socket!AsyncReadFromFile, Socket!At, Socket!Fail
    <3> QED BY <3>1, <3>2, <3>3 DEF Fails
  <2> QED BY <2>2, <2>3
<1>4. /\ LoopTypes' /\ NothingFreed' /\ (stage' = "undefined" \/ undo' # <<>> => erred')
      /\ (erred' => failed') /\ (failed => failed')
      /\ ~erred' => ~erred /\ Heap /\ Leaks /\ Connection /\ Heap'
      /\ ~failed' => ~failed /\ ~erred' /\ Replies /\ Waiting
      /\ stage' = stage /\ at' = at + 1 /\ AcceptAt' = AcceptAt /\ CloseAt' = CloseAt
  <2>1. live' \ Clients = live \ Clients
    BY <1>2 DEF DataTypes
  <2> QED BY <1>1, <1>2, <1>3, <2>1, CallKeeps
<1>5. DataTypes'
  BY <1>2, <1>3 DEF DataTypes
<1>10. ~erred' => Leaks'
  <2>1. CASE live' = live
    BY <1>2, <1>3, <1>4, <2>1, LeaksKept
  <2>2. CASE server = "file_server" /\ path \in disk
    <3>1. path # ""
      BY <2>2, ParametersAssumption DEF Socket!Parameters, DataTypes
    <3>2. \A c \in served : client[c] \in {"sent", "gone"} /\ asks[c] \in disk
      BY <2>2, <3>1 DEF Request
    <3> QED BY <1>2, <1>3, <1>4, <2>2, <3>2 DEF Leaks
  <2> QED BY <1>3, <2>1, <2>2
<1>6. stage' = "round" /\ at' = AcceptAt + 3 /\ AcceptAt \in Nat /\ at' > AcceptAt + 1
  BY <1>1, <1>4, Places
<1>7. Request'
  <2>1. server = "file_server" => at' > 5
    BY <1>6, Places
  <2> QED BY <1>2, <1>3, <1>4, <1>6, <2>1 DEF Request
<1>8. Received'
  BY <1>1, <1>2, <1>4, ReceivedKept
<1>11. ~erred' => Connection'
  <2>1. server # "simple_server" /\ AcceptAt + 2 < CloseAt /\ CloseAt \in Nat
    BY <1>1, Places DEF Asynchronous
  <2>2. at' > AcceptAt' /\ at' <= CloseAt'
    BY <1>4, <1>6, <2>1
  <2> QED BY <1>2, <1>4, <1>6, <2>1, <2>2 DEF Connection
<1>9. ~failed' => Replies' /\ Waiting'
  <2> SUFFICES ASSUME ~failed' PROVE Replies' /\ Waiting'
    OBVIOUS
  <2>1. server = "file_server" /\ found' = TRUE
    BY <1>3 DEF Fails
  <2>2. at' = 6 /\ AcceptAt = 3 /\ CloseAt = 7
    BY <1>6, <2>1, Places
  <2>3. Replies'
    BY <1>2, <1>4, <2>1, <2>2 DEF Replies, Asynchronous
  <2>4. Waiting'
    BY <1>2, <1>4 DEF Waiting
  <2> QED BY <2>3, <2>4
<1> QED BY <1>4, <1>5, <1>7, <1>8, <1>9, <1>10, <1>11

\* What a message does to the clients: the one that is served has received one
\* or has gone, or the server has ended.
LEMMA MessageSent ==
    ASSUME SocketInv, NEW m \in Paths \cup {"error", "hallo"}, Socket!Send(m),
           stage \notin {"ended", "undefined"},
           UNCHANGED <<server, path, found, disk, backlog, served, client, asks>>,
           at' \in Nat, at' >= at,
           m = "error" => failed, m = "hallo" => server \in {"select_server"} \cup Impatient,
           m \in Paths => \A c \in served : client[c] \in {"sent", "gone"} /\ asks[c] = m /\ m \in disk
    PROVE  /\ DataTypes' /\ Request' /\ Received' /\ (failed => failed')
           /\ \/ stage' = "ended" /\ failed' = TRUE /\ erred' = TRUE
              \/ /\ stage' = stage /\ failed' = failed /\ erred' = erred
                 /\ \A c \in served : got'[c] # "nothing" \/ client[c] = "gone"
           /\ \A c \in Clients : got'[c] = "nothing" => got[c] = "nothing"
<1> USE DEF SocketInv
<1>1. CASE stage' = "ended" /\ failed' = TRUE /\ erred' = TRUE /\ got' = got /\ extent' = extent
  <2>1. DataTypes'
    BY <1>1 DEF DataTypes
  <2>2. Request'
    BY <1>1, RequestKept
  <2>3. Received'
    BY <1>1, ReceivedKept
  <2> QED BY <1>1, <2>1, <2>2, <2>3
<1>2. ASSUME NEW e \in Socket!Extents(m),
             got' = [c \in Clients |-> IF Socket!Receives(c) THEN m ELSE got[c]],
             extent' = [c \in Clients |-> IF Socket!Receives(c) THEN e ELSE extent[c]],
             UNCHANGED <<stage, failed, erred>>
      PROVE  /\ DataTypes' /\ Request' /\ Received'
             /\ \A c \in served : got'[c] # "nothing" \/ client[c] = "gone"
             /\ \A c \in Clients : got'[c] = "nothing" => got[c] = "nothing"
  <2>1. m # "nothing" /\ m # "garbage" /\ "nothing" \notin Paths
    BY ParametersAssumption DEF Socket!Parameters
  <2>2. \A c \in Clients : \/ got'[c] = got[c] /\ extent'[c] = extent[c]
                           \/ c \in served /\ got'[c] = m /\ extent'[c] = e
    BY <1>2 DEF Socket!Receives
  <2>7. e # "exact" => m \in Paths
    BY DEF Socket!Extents
  <2>3. DataTypes'
    BY <1>2 DEF DataTypes
  <2>4. Request'
    <3>1. (at > AcceptAt + 1 => at' > AcceptAt' + 1) /\ (at > 5 => at' > 5)
      <4>1. AcceptAt' = AcceptAt /\ AcceptAt \in Nat /\ at \in Nat
        BY Places
      <4> QED BY <4>1
    <3>2. path # "" => /\ stage' # "start" /\ (stage' = "round" => at' > AcceptAt' + 1)
                       /\ \A c \in served' : client'[c] \in {"sent", "gone"} /\ asks'[c] = path'
      <4>1. stage' = stage /\ path' = path /\ served' = served /\ client' = client /\ asks' = asks
        BY <1>2
      <4>2. path # "" => /\ stage # "start" /\ (stage = "round" => at > AcceptAt + 1)
                         /\ \A c \in served : client[c] \in {"sent", "gone"} /\ asks[c] = path
        BY DEF Request
      <4> QED BY <3>1, <4>1, <4>2
    <3>3. found => server' = "file_server" /\ (stage' = "round" => at' > 5) /\ path' \in disk'
      <4>1. stage' = stage
        BY <1>2
      <4>2. found => server = "file_server" /\ (stage = "round" => at > 5) /\ path \in disk
        BY DEF Request
      <4> QED BY <3>1, <4>1, <4>2
    <3>4. \A c \in Clients : got'[c] \in Paths =>
              client'[c] \in {"sent", "gone"} /\ asks'[c] = got'[c] /\ got'[c] \in disk'
      BY <2>2 DEF Request
    <3> QED BY <3>2, <3>3, <3>4 DEF Request
  <2>5. Received'
    BY <1>2, <2>1, <2>2, <2>7 DEF Received
  <2>6. \A c \in served : got'[c] # "nothing" \/ client[c] = "gone"
    BY <1>2, <2>1 DEF DataTypes, Socket!Receives
  <2> QED BY <1>2, <2>1, <2>2, <2>3, <2>4, <2>5, <2>6
<1>3. CASE \E e \in Socket!Extents(m) :
              /\ got' = [c \in Clients |-> IF Socket!Receives(c) THEN m ELSE got[c]]
              /\ extent' = [c \in Clients |-> IF Socket!Receives(c) THEN e ELSE extent[c]]
              /\ UNCHANGED <<stage, failed, erred>>
  BY <1>2, <1>3
<1> QED BY <1>1, <1>3 DEF Socket!Send

\* An answer in the round, before the connection is closed.
LEMMA AnswerStep ==
    ASSUME SocketInv, NEW m \in Paths \cup {"hallo"}, Socket!Send(m),
           stage = "round", at + 1 = CloseAt, at > AcceptAt, at' = at + 1,
           UNCHANGED <<server, undo, live, stopped, path, found, disk, backlog, served, client, asks>>,
           m = "hallo" => server \in {"select_server"} \cup Impatient,
           m \in Paths => \A c \in served : client[c] \in {"sent", "gone"} /\ asks[c] = m /\ m \in disk,
           server \in Asynchronous => failed
    PROVE  SocketInv'
<1> USE DEF SocketInv
<1>1. /\ AcceptAt' = AcceptAt /\ CloseAt' = CloseAt /\ AcceptAt \in Nat /\ CloseAt \in Nat
      /\ at \in Nat /\ at' \in Nat /\ at' >= at /\ at' > AcceptAt' /\ at' = CloseAt'
  BY Places
<1>2. m # "error"
  BY ParametersAssumption DEF Socket!Parameters
<1>3. /\ DataTypes' /\ Request' /\ Received' /\ (failed => failed')
      /\ \/ stage' = "ended" /\ failed' = TRUE /\ erred' = TRUE
         \/ /\ stage' = stage /\ failed' = failed /\ erred' = erred
            /\ \A c \in served : got'[c] # "nothing" \/ client[c] = "gone"
      /\ \A c \in Clients : got'[c] = "nothing" => got[c] = "nothing"
  BY <1>1, <1>2, MessageSent
<1>4. LoopTypes' /\ NothingFreed'
  <2>1. at' \in Nat \ {0}
    BY <1>1
  <2>2. stage' \in {"round", "ended"} /\ failed' \in BOOLEAN /\ erred' \in BOOLEAN
    BY <1>3 DEF LoopTypes
  <2> QED BY <2>1, <2>2 DEF LoopTypes, NothingFreed
<1>7. ASSUME ~erred' PROVE Heap' /\ Leaks' /\ Connection'
  <2>1. ~erred /\ stage' = "round" /\ Heap /\ Leaks /\ Connection
    BY <1>3, <1>7
  <2>2. Heap'
    BY <2>1 DEF Heap, Allocated
  <2>3. Connection'
    <3>1. at' <= CloseAt'
      BY <1>1
    <3> QED BY <1>1, <2>1, <3>1 DEF Connection
  <2> QED BY <2>1, <2>2, <2>3, LeaksKept
<1>5. ASSUME ~failed' PROVE Replies' /\ Waiting'
  <2>1. /\ ~failed /\ stage' = "round" /\ Replies /\ Waiting
        /\ \A c \in served : got'[c] # "nothing" \/ client[c] = "gone"
    BY <1>3, <1>5
  <2>4. Replies'
    <3>1. server = "file_server" => found
      <4>1. server = "file_server" => at > 5
        BY Places
      <4>2. server = "file_server" /\ at > 5 => found
        BY <2>1 DEF Replies
      <4> QED BY <4>1, <4>2
    <3>2. server \notin Asynchronous
      BY <2>1
    <3> QED BY <1>1, <2>1, <3>1, <3>2 DEF Replies
  <2>5. Waiting'
    BY <1>3, <2>1 DEF Waiting
  <2> QED BY <2>4, <2>5
<1>6. (stage' = "undefined" \/ undo' # <<>> => erred') /\ (erred' => failed')
  BY <1>3
<1> QED BY <1>3, <1>4, <1>5, <1>6, <1>7

\* No answer, or one that could not be written.
LEMMA NoAnswerStep ==
    ASSUME SocketInv, Returned \/ Fails, failed' = TRUE, stage = "round", at + 1 = CloseAt, at > AcceptAt,
           UNCHANGED <<server, live, stopped, path, found, disk, backlog, served, client, asks, got, extent>>
    PROVE  SocketInv'
<1> USE DEF SocketInv
<1>1. /\ LoopTypes' /\ NothingFreed' /\ (stage' = "undefined" \/ undo' # <<>> => erred')
      /\ (erred' => failed') /\ (failed => failed')
      /\ ~erred' => ~erred /\ Heap /\ Leaks /\ Connection /\ Heap'
      /\ stage' = stage /\ at' = at + 1 /\ AcceptAt' = AcceptAt /\ CloseAt' = CloseAt
  BY CallKeeps
<1>2. /\ at \in Nat /\ at' \in Nat /\ at' >= at /\ AcceptAt \in Nat /\ CloseAt \in Nat
      /\ at' > AcceptAt' /\ at' <= CloseAt'
  BY <1>1, Places
<1>3. DataTypes'
  BY DEF DataTypes
<1>4. Request' /\ Received'
  BY <1>1, <1>2, RequestKept, ReceivedKept
<1>5. ~erred' => Leaks' /\ Connection'
  BY <1>1, <1>2, LeaksKept DEF Connection
<1> QED BY <1>1, <1>3, <1>4, <1>5

LEMMA WriteToClientStep == ASSUME SocketInv, Socket!WriteToClient PROVE SocketInv'
<1> USE DEF SocketInv
<1>1. /\ server \in {"file_server"} \cup Asynchronous
      /\ stage = "round" /\ at = AcceptAt + 3 /\ at + 1 = CloseAt
  BY Where DEF Socket!WriteToClient
<1>2. /\ UNCHANGED <<server, undo, live, stopped, path, found, disk, backlog, served, client, asks>>
      /\ at' = at + 1 /\ at \in Nat /\ AcceptAt \in Nat /\ at > AcceptAt
  BY <1>1, Places DEF Socket!WriteToClient, Socket!socketVars, Socket!requestVars, Socket!eventVars
<1>3. ~found \/ server \in Asynchronous => failed
  <2>1. server \in Asynchronous => ~(at <= AcceptAt + 2)
    BY <1>1, <1>2
  <2>2. server = "file_server" => at > 5
    BY <1>1, <1>2, Places
  <2> QED BY <1>1, <2>1, <2>2 DEF Replies
<1>4. CASE found
  <2>1. Socket!Write(path) /\ path \in Paths
    BY <1>4, ParametersAssumption DEF Socket!WriteToClient, Request, DataTypes, Socket!Parameters
  <2>2. path # "hallo" /\ path # ""
    BY <2>1, ParametersAssumption DEF Socket!Parameters
  <2>3. \A c \in served : client[c] \in {"sent", "gone"} /\ asks[c] = path /\ path \in disk
    BY <1>4, <2>2 DEF Request
  <2>4. CASE Socket!Send(path)
    BY <1>1, <1>2, <1>3, <2>1, <2>2, <2>3, <2>4, AnswerStep
  <2>5. CASE failed' = TRUE /\ UNCHANGED <<stage, erred, got, extent>>
    <3>1. Fails
      <4>1. undo = <<>>
        BY DEF Socket!WriteToClient, Socket!At
      <4>2. <<>> \in Undos
        BY DEF Undos
      <4> QED BY <1>2, <2>5, <4>1, <4>2 DEF Fails, LoopTypes
    <3> QED BY <1>1, <1>2, <2>5, <3>1, NoAnswerStep
  <2> QED BY <2>1, <2>4, <2>5 DEF Socket!Write
<1>5. CASE ~found
  <2>1. UNCHANGED <<stage, failed, erred, got, extent>>
    BY <1>5 DEF Socket!WriteToClient
  <2>2. Returned /\ failed' = TRUE
    BY <1>2, <1>3, <1>5, <2>1 DEF Returned, LoopTypes
  <2> QED BY <1>1, <1>2, <2>1, <2>2, NoAnswerStep
<1> QED BY <1>4, <1>5

LEMMA HalloStep == ASSUME SocketInv, Socket!Hallo PROVE SocketInv'
<1> USE DEF SocketInv
<1>1. /\ server \in {"select_server"} \cup Impatient
      /\ stage = "round" /\ at = AcceptAt + 2 /\ at + 1 = CloseAt
  BY Where DEF Socket!Hallo
<1>2. /\ UNCHANGED <<server, live, stopped, path, found, disk, backlog, served, client, asks>>
      /\ at \in Nat /\ AcceptAt \in Nat /\ at > AcceptAt
  BY <1>1, Places DEF Socket!Hallo, Socket!socketVars, Socket!requestVars, Socket!eventVars
<1>3. CASE Socket!Send("hallo") /\ at' = at + 1 /\ undo' = undo
  <2>1. "hallo" \notin Paths /\ server \notin Asynchronous
    BY <1>1, ParametersAssumption DEF Socket!Parameters, Asynchronous, Impatient
  <2> QED BY <1>1, <1>2, <1>3, <2>1, AnswerStep
<1>4. CASE Fails /\ UNCHANGED <<got, extent>>
  <2>1. failed' = TRUE
    BY <1>4 DEF Fails
  <2> QED BY <1>1, <1>2, <1>4, <2>1, NoAnswerStep
<1> QED BY <1>3, <1>4, CallReturns DEF Socket!Hallo

LEMMA CloseClientStep == ASSUME SocketInv, Socket!CloseClient PROVE SocketInv'
<1> USE DEF SocketInv
<1>1. server # "simple_server" /\ stage = "round" /\ at = CloseAt /\ Returned
  BY Where, CallReturns DEF Socket!CloseClient
<1>2. /\ UNCHANGED <<server, live, stopped, path, found, disk, backlog, client, asks, got, extent>>
      /\ served' = {}
  BY DEF Socket!CloseClient, Socket!requestVars, Socket!eventVars, Socket!clientVars
<1>3. /\ LoopTypes' /\ NothingFreed' /\ (stage' = "undefined" \/ undo' # <<>> => erred')
      /\ (erred' => failed') /\ (failed => failed')
      /\ ~erred' => ~erred /\ Heap /\ Leaks /\ Connection /\ Heap'
      /\ ~failed' => ~failed /\ ~erred' /\ Replies /\ Waiting
      /\ stage' = stage /\ at' = at + 1 /\ AcceptAt' = AcceptAt /\ CloseAt' = CloseAt
  BY <1>1, <1>2, CallKeeps
<1>4. /\ at \in Nat /\ at' \in Nat /\ at' >= at /\ CloseAt \in Nat /\ AcceptAt \in Nat /\ at' # CloseAt'
      /\ server \in Asynchronous => ~(at <= AcceptAt + 2)
  BY <1>1, <1>3, Places
<1>5. DataTypes'
  BY <1>2 DEF DataTypes
<1>6. Request' /\ Received'
  BY <1>2, <1>3, <1>4, RequestKept, ReceivedKept
<1>8. ~erred' => Leaks' /\ Connection'
  BY <1>2, <1>3, LeaksKept DEF Connection
<1>7. ASSUME ~failed' PROVE Replies' /\ Waiting'
  <2>1. server \notin Asynchronous
    BY <1>1, <1>3, <1>4, <1>7 DEF Replies
  <2>2. \A c \in served : got[c] # "nothing" \/ client[c] = "gone"
    BY <1>1, <1>3, <1>7 DEF Replies
  <2>4. Replies'
    <3>1. server = "file_server" /\ at' > 5 => found
      <4>1. server = "file_server" => at > 5
        BY <1>1, <1>4, Places
      <4> QED BY <1>1, <1>3, <1>7, <4>1 DEF Replies
    <3> QED BY <1>2, <1>4, <2>1, <3>1 DEF Replies
  <2>5. Waiting'
    BY <1>1, <1>2, <1>3, <1>7, <2>2 DEF Waiting
  <2> QED BY <2>4, <2>5
<1> QED BY <1>3, <1>5, <1>6, <1>7, <1>8

LEMMA UndoTails ==
    ASSUME NEW u \in Undos, u # <<>>
    PROVE  /\ Tail(u) \in Undos /\ Head(u) \in {"error", "close", "return", "cleanExit"}
           /\ u = <<"return">> => Head(u) = "return" /\ Tail(u) = <<>>
<1>1. CASE u = <<"return">>
  BY <1>1 DEF Undos
<1>2. CASE u = <<"cleanExit">>
  BY <1>2 DEF Undos
<1>3. CASE u = <<"close", "cleanExit">>
  BY <1>3 DEF Undos
<1>4. CASE u = <<"error", "close", "cleanExit">>
  BY <1>4 DEF Undos
<1> QED BY <1>1, <1>2, <1>3, <1>4 DEF Undos

\* What stands under a test is done only after a call has failed.
LEMMA UndoStep == ASSUME SocketInv, Socket!Undo PROVE SocketInv'
<1> USE DEF SocketInv
<1>1. /\ undo # <<>> /\ undo \in Undos /\ undo' = Tail(undo) /\ failed /\ erred
      /\ stage \notin {"ended", "undefined"}
      /\ Tail(undo) \in Undos /\ Head(undo) \in {"error", "close", "return", "cleanExit"}
      /\ server \in Impatient => undo = <<"return">>
      /\ undo = <<"return">> => Head(undo) = "return" /\ Tail(undo) = <<>>
  BY UndoTails DEF Socket!Undo, Socket!Stopped, LoopTypes, NothingFreed
<1>2. /\ UNCHANGED <<server, at, stopped, path, found, disk, backlog, client, asks>>
      /\ at \in Nat /\ at' \in Nat /\ at' >= at
  BY Places DEF Socket!Undo, Socket!requestVars, Socket!eventVars
<1>3. ASSUME DataTypes', Request', Received', failed' = TRUE, erred' = TRUE, stage' \in {stage, "ended", "undefined"},
             stage' = "undefined" => server \notin Impatient
      PROVE  SocketInv'
  <2>1. LoopTypes'
    <3>1. stage' \in {"start", "loop", "round", "end", "ended", "undefined"}
      BY <1>3 DEF LoopTypes
    <3> QED BY <1>1, <1>2, <1>3, <3>1 DEF LoopTypes
  <2>2. NothingFreed'
    BY <1>1, <1>2, <1>3 DEF NothingFreed
  <2> QED BY <1>3, <2>1, <2>2
<1>4. ASSUME failed' = TRUE, erred' = erred, UNCHANGED <<got, extent>>, served' \subseteq served,
             stage' \in {stage, "ended", "undefined"}, stage' = "undefined" => server \notin Impatient
      PROVE  SocketInv'
  <2>1. DataTypes'
    BY <1>2, <1>4 DEF DataTypes
  <2>2. failed' = TRUE /\ erred' = TRUE
    BY <1>1, <1>4 DEF LoopTypes
  <2>3. (stage' = stage /\ at' >= at) \/ stage' \notin {"start", "round"}
    BY <1>2, <1>4
  <2>4. Request'
    BY <1>2, <1>4, <2>3, RequestKept
  <2>5. Received'
    BY <1>1, <1>2, <1>4, <2>2, ReceivedKept
  <2> QED BY <1>3, <1>4, <2>1, <2>2, <2>4, <2>5
<1>5. CASE Head(undo) = "error"
  <2>1. /\ served' = served
        /\ Socket!Send("error") \/ (failed' = TRUE /\ UNCHANGED <<stage, erred, got, extent>>)
    BY <1>5 DEF Socket!Undo, Socket!Write
  <2>2. "error" \notin Paths
    BY ParametersAssumption DEF Socket!Parameters
  <2>3. CASE Socket!Send("error")
    <3>1. /\ DataTypes' /\ Request' /\ Received'
          /\ stage' = "ended" \/ stage' = stage
          /\ failed' = TRUE /\ erred' = TRUE
      BY <1>1, <1>2, <2>1, <2>2, <2>3, MessageSent DEF LoopTypes
    <3> QED BY <1>1, <1>3, <3>1
  <2>4. CASE failed' = TRUE /\ UNCHANGED <<stage, erred, got, extent>>
    BY <1>1, <1>4, <2>1, <2>4
  <2> QED BY <2>1, <2>3, <2>4
<1>6. CASE Head(undo) = "close"
  BY <1>1, <1>4, <1>6 DEF Socket!Undo, LoopTypes
<1>7. CASE Head(undo) = "return"
  BY <1>1, <1>4, <1>7 DEF Socket!Undo, LoopTypes
<1>8. CASE Head(undo) = "cleanExit"
  <2>1. /\ failed' = TRUE /\ UNCHANGED <<erred, got, extent, served>>
        /\ stage' \in {stage, "undefined"}
    BY <1>1, <1>8 DEF Socket!Undo, LoopTypes
  <2> QED BY <1>1, <1>4, <1>8, <2>1
<1> QED BY <1>1, <1>5, <1>6, <1>7, <1>8

-----------------------------------------------------------------------------
(* What happens to the socket servers, and their clients *)

\* A step that changes no part of the invariant but stopped.
LEMMA NothingMoves ==
    ASSUME SocketInv, Untouched, UNCHANGED <<stage, at, undo, live, failed, erred>>, stopped' \in BOOLEAN,
           server \in Impatient => stopped' = stopped
    PROVE  SocketInv'
<1> USE DEF SocketInv, Untouched
<1>1. LoopTypes' /\ DataTypes' /\ NothingFreed'
  BY DEF LoopTypes, DataTypes, NothingFreed
<1>2. Request' /\ Received'
  BY DEF Request, Received, AcceptAt
<1>3. ~erred => Heap' /\ Leaks' /\ Connection'
  BY DEF Heap, Allocated, EndLength, Leaks, Connection, AcceptAt, CloseAt
<1>4. ~failed => Replies' /\ Waiting'
  BY DEF Replies, Waiting, AcceptAt, CloseAt
<1> QED BY <1>1, <1>2, <1>3, <1>4

LEMMA SignalStep == ASSUME SocketInv, Socket!Type \/ Socket!Sigint PROVE SocketInv'
<1> USE DEF SocketInv
<1>1. Untouched /\ live' = live
  BY DEF Socket!Type, Socket!Sigint, Untouched, Socket!heapVars, Socket!socketVars,
     Socket!requestVars, Socket!clientVars
<1>2. CASE UNCHANGED <<stage, at, undo, failed, erred>> /\ stopped' \in BOOLEAN
           /\ (server \in Impatient => stopped' = stopped)
  BY <1>1, <1>2, NothingMoves
<1>3. CASE Socket!At("select") /\ Socket!Fail /\ stopped' = TRUE
  <2>1. Fails /\ failed'
    BY <1>3, CallReturns DEF Fails
  <2>2. server \notin Impatient /\ (stage = "round" => at < AcceptAt)
    <3>1. server \notin Impatient /\ stage = "round" /\ at = 1
      BY <1>3, Where
    <3>2. AcceptAt \in Nat /\ AcceptAt > 1
      BY <3>1, Places DEF Impatient
    <3> QED BY <3>1, <3>2
  <2>3. ~erred' => Heap'
    BY <1>1, <1>3, <2>1, Where, Places DEF Fails, Heap, Allocated, Untouched
  <2> QED BY <1>1, <1>3, <2>1, <2>2, <2>3, QuietCall
<1>4. CASE Socket!Type
  BY <1>2, <1>4 DEF Socket!Type, Socket!loopVars, Socket!heapVars, LoopTypes
<1>5. CASE Socket!Sigint
  BY <1>2, <1>3, <1>5 DEF Socket!Sigint, Socket!loopVars, Impatient
<1> QED BY <1>4, <1>5

\* A step of a client leaves the server where it is.
LEMMA ClientKeeps ==
    ASSUME SocketInv, DataTypes', Received',
           UNCHANGED <<server, stage, at, undo, live, stopped, failed, erred, served, path, found, disk>>,
           \A c \in Clients :
              /\ client[c] \in {"sent", "gone"} => client'[c] \in {"sent", "gone"} /\ asks'[c] = asks[c]
              /\ got'[c] = got[c] \/ (got'[c] \notin Paths /\ got'[c] # "nothing")
              /\ client[c] = "gone" => client'[c] = "gone",
           ~failed /\ Waiting => Waiting'
    PROVE  SocketInv'
<1> USE DEF SocketInv
<1>1. LoopTypes' /\ NothingFreed' /\ at \in Nat /\ at' = at
  BY DEF LoopTypes, NothingFreed
<1>2. Request'
  <2>1. at' \in Nat /\ at' >= at
    BY <1>1
  <2> QED BY <1>1, <2>1, RequestKept
<1>3. ~erred => Heap' /\ Connection'
  BY DEF Heap, Allocated, EndLength, Connection, AcceptAt, CloseAt
<1>5. ~erred => Leaks'
  BY LeaksKept
<1>4. ~failed => Replies'
  <2>1. \A c \in served : c \in Clients
    BY DEF DataTypes
  <2>2. \A c \in served : got[c] # "nothing" \/ client[c] = "gone" =>
                             got'[c] # "nothing" \/ client'[c] = "gone"
    BY <2>1
  <2>3. AcceptAt' = AcceptAt /\ CloseAt' = CloseAt
    BY DEF AcceptAt, CloseAt
  <2> QED BY <2>2, <2>3 DEF Replies
<1> QED BY <1>1, <1>2, <1>3, <1>4, <1>5

LEMMA ConnectStep == ASSUME SocketInv, NEW c \in Clients, Socket!Connect(c) PROVE SocketInv'
<1> USE DEF SocketInv
<1>1. /\ client[c] = "start" /\ client' = [client EXCEPT ![c] = "connected"]
      /\ backlog' = Append(backlog, c)
      /\ UNCHANGED <<server, stage, at, undo, live, stopped, failed, erred, served, path, found, disk>>
      /\ UNCHANGED <<asks, got, extent>>
  BY DEF Socket!Connect, Socket!loopVars, Socket!heapVars, Socket!requestVars, Socket!eventVars
<1>2. /\ backlog' \in Seq(Clients) /\ Len(backlog') = Len(backlog) + 1 /\ Len(backlog) \in Nat
      /\ backlog'[Len(backlog) + 1] = c
      /\ \A l \in 1..Len(backlog) : backlog'[l] = backlog[l]
  <2>1. backlog \in Seq(Clients)
    BY DEF DataTypes
  <2> QED BY <1>1, <2>1, AppendProperties
<1>3. DataTypes'
  BY <1>1, <1>2 DEF DataTypes
<1>4. Received'
  BY <1>1, ReceivedKept
<1>5. ASSUME Waiting PROVE Waiting'
  <2> SUFFICES ASSUME stage \notin {"ended", "undefined"}, NEW d \in Clients,
                      client'[d] \in {"connected", "sent"}, got'[d] = "nothing"
               PROVE  d \in served' \/ \E l \in 1..Len(backlog') : backlog'[l] = d
    BY <1>1 DEF Waiting
  <2>1. CASE d = c
    <3>1. Len(backlog) + 1 \in 1..Len(backlog')
      BY <1>2
    <3> QED BY <1>2, <2>1, <3>1
  <2>2. CASE d # c
    <3>1. d \in served \/ \E l \in 1..Len(backlog) : backlog[l] = d
      BY <1>1, <1>5, <2>2 DEF Waiting, DataTypes
    <3>2. \A l \in 1..Len(backlog) : l \in 1..Len(backlog')
      BY <1>2
    <3> QED BY <1>1, <1>2, <3>1, <3>2
  <2> QED BY <2>1, <2>2
<1>6. \A d \in Clients :
         /\ client[d] \in {"sent", "gone"} => client'[d] \in {"sent", "gone"} /\ asks'[d] = asks[d]
         /\ got'[d] = got[d]
         /\ client[d] = "gone" => client'[d] = "gone"
  BY <1>1 DEF DataTypes
<1> QED BY <1>1, <1>3, <1>4, <1>5, <1>6, ClientKeeps

LEMMA SendPathStep == ASSUME SocketInv, NEW c \in Clients, Socket!SendPath(c) PROVE SocketInv'
<1> USE DEF SocketInv
<1>1. /\ client[c] = "connected"
      /\ UNCHANGED <<server, stage, at, undo, live, stopped, failed, erred, backlog, served, path, found>>
      /\ UNCHANGED <<disk, got, extent>>
      /\ \/ client' = [client EXCEPT ![c] = "gone"] /\ asks' = asks
         \/ /\ client' = [client EXCEPT ![c] = "sent"]
            /\ \E argument \in Paths : asks' = [asks EXCEPT ![c] = argument]
  BY DEF Socket!SendPath, Socket!loopVars, Socket!heapVars, Socket!socketVars, Socket!requestVars,
     Socket!eventVars
<1>2. DataTypes'
  BY <1>1 DEF DataTypes
<1>3. Received'
  BY <1>1, ReceivedKept
<1>4. \A d \in Clients :
         /\ client[d] \in {"sent", "gone"} => client'[d] \in {"sent", "gone"} /\ asks'[d] = asks[d]
         /\ got'[d] = got[d]
         /\ client[d] = "gone" => client'[d] = "gone"
         /\ client'[d] \in {"connected", "sent"} => client[d] \in {"connected", "sent"}
  BY <1>1 DEF DataTypes
<1>5. Waiting => Waiting'
  BY <1>1, <1>4 DEF Waiting
<1> QED BY <1>1, <1>2, <1>3, <1>4, <1>5, ClientKeeps

LEMMA RecvStep == ASSUME SocketInv, NEW c \in Clients, Socket!Recv(c) PROVE SocketInv'
<1> USE DEF SocketInv
<1>1. /\ client[c] = "sent" /\ client' = [client EXCEPT ![c] = "gone"]
      /\ got' = [got EXCEPT ![c] = IF @ = "nothing" THEN "garbage" ELSE @]
      /\ got[c] # "nothing" \/ Socket!Closed(c)
      /\ UNCHANGED <<server, stage, at, undo, live, stopped, failed, erred, backlog, served, path, found>>
      /\ UNCHANGED <<disk, asks, extent>>
  BY DEF Socket!Recv, Socket!loopVars, Socket!heapVars, Socket!socketVars, Socket!requestVars,
     Socket!eventVars
<1>2. "garbage" \notin Paths /\ "nothing" \notin Paths
  BY ParametersAssumption DEF Socket!Parameters
<1>3. /\ \A d \in Clients \ {c} : got'[d] = got[d] /\ client'[d] = client[d]
      /\ got'[c] = got[c] \/ (got[c] = "nothing" /\ got'[c] = "garbage")
      /\ client'[c] = "gone"
  BY <1>1 DEF DataTypes
<1>4. DataTypes'
  BY <1>1 DEF DataTypes
<1>5. got[c] = "nothing" => failed \/ stage \in {"ended", "undefined"}
  <2> SUFFICES ASSUME got[c] = "nothing", ~failed, stage \notin {"ended", "undefined"} PROVE FALSE
    OBVIOUS
  <2>1. c \in served \/ \E l \in 1..Len(backlog) : backlog[l] = c
    BY <1>1 DEF Waiting
  <2>2. DOMAIN backlog = 1..Len(backlog)
    <3>1. backlog \in Seq(Clients)
      BY DEF DataTypes
    <3> QED BY <3>1, LenProperties
  <2> QED BY <1>1, <2>1, <2>2 DEF Socket!Closed, Socket!Stopped
<1>6. Received'
  <2> SUFFICES ASSUME NEW d \in Clients
               PROVE  /\ extent[d] # "exact" => got'[d] \in Paths
                      /\ got'[d] = "error" => failed
                      /\ got'[d] = "hallo" => server \in {"select_server"} \cup Impatient
                      /\ got'[d] = "garbage" => failed \/ stage \in {"ended", "undefined"}
    BY <1>1 DEF Received
  <2> QED BY <1>2, <1>3, <1>5 DEF Received
<1>7. \A d \in Clients :
         /\ client[d] \in {"sent", "gone"} => client'[d] \in {"sent", "gone"} /\ asks'[d] = asks[d]
         /\ got'[d] = got[d] \/ (got'[d] \notin Paths /\ got'[d] # "nothing")
         /\ client[d] = "gone" => client'[d] = "gone"
         /\ client'[d] \in {"connected", "sent"} => d # c
  BY <1>1, <1>2, <1>3
<1>8. Waiting => Waiting'
  BY <1>1, <1>3, <1>7 DEF Waiting
<1> QED BY <1>1, <1>4, <1>6, <1>7, <1>8, ClientKeeps

LEMMA SocketInvStep == ASSUME SocketInv, Socket!Next PROVE SocketInv'
<1>1. CASE Socket!Step
  BY <1>1, EndOfStageStep, WhileStep, SetUpStep, AcceptStep, ReadStep, FileStep, WriteToClientStep,
     HalloStep, CloseClientStep, LogMessageStep, CleanExitStep, UndoStep DEF Socket!Step
<1>2. CASE Socket!Type \/ Socket!Sigint
  BY <1>2, SignalStep
<1>3. CASE Socket!Terminated
  <2>1. UNCHANGED <<stage, at, undo, live, stopped, failed, erred>> /\ Untouched
    BY <1>3 DEF Socket!Terminated, Socket!vars, Socket!loopVars, Socket!heapVars,
       Socket!socketVars, Socket!requestVars, Socket!eventVars, Socket!clientVars, Untouched
  <2>2. stopped' \in BOOLEAN
    BY <2>1 DEF SocketInv, LoopTypes
  <2> QED BY <2>1, <2>2, NothingMoves
<1>4. ASSUME NEW c \in Clients, Socket!Connect(c) \/ Socket!Client(c) PROVE SocketInv'
  BY <1>4, ConnectStep, SendPathStep, RecvStep DEF Socket!Client
<1> QED BY <1>1, <1>2, <1>3, <1>4 DEF Socket!Next

-----------------------------------------------------------------------------
(* The theorems *)

LEMMA InitIInv == Init => IInv
<1> SUFFICES ASSUME Init PROVE IInv
  OBVIOUS
<1>1. CASE running = "socket" /\ Socket!Init
  <2>1. server \in Names
    BY <1>1 DEF Socket!Init, Socket!Server, Names, Asynchronous, Impatient
  <2> USE DEF Socket!Init
  <2>2. /\ stage = "start" /\ at = 1 /\ undo = <<>> /\ failed = FALSE /\ erred = FALSE
        /\ live = Socket!S.frees \ {"info"} /\ extent = [c \in Clients |-> "exact"]
        /\ backlog = <<>> /\ served = {} /\ path = "" /\ found = FALSE /\ disk = Files
        /\ stopped = FALSE /\ client = [c \in Clients |-> "start"]
        /\ asks = [c \in Clients |-> ""] /\ got = [c \in Clients |-> "nothing"]
    BY <1>1
  <2> HIDE DEF Socket!Init
  <2>3. LoopTypes /\ NothingFreed
    <3>1. <<>> \in Undos
      BY DEF Undos
    <3>2. 1 \in Nat \ {0} /\ FALSE \in BOOLEAN
      OBVIOUS
    <3>3. LoopTypes
      BY <2>1, <2>2, <3>1, <3>2 DEF LoopTypes
    <3> QED BY <2>2, <3>3 DEF NothingFreed
  <2>4. DataTypes
    <3>1. backlog \in Seq(Clients)
      BY <2>2, EmptySeq
    <3>2. /\ client \in [Clients -> {"start", "connected", "sent", "gone"}]
          /\ asks \in [Clients -> Paths \cup {""}]
          /\ got \in [Clients -> Paths \cup {"nothing", "garbage", "error", "hallo"}]
      BY <2>2
    <3> QED BY <2>2, <3>1, <3>2 DEF DataTypes
  <2>5. "nothing" \notin Paths
    BY ParametersAssumption DEF Socket!Parameters
  <2>6. Request /\ Received
    BY <2>2, <2>5 DEF Request, Received
  <2>7. Heap /\ Leaks /\ Connection /\ Replies /\ Waiting
    <3>1. Heap /\ Leaks
      <4>1. ~(at > 2)
        <5>1. at = 1
          BY <2>2
        <5> QED BY <5>1
      <4>2. live = Allocated \ {"info"}
        BY <2>2, <2>3, CallsTabled DEF Tabled
      <4>3. "server" \notin Clients /\ live \ Clients = live /\ live \cap Clients = {}
        BY <4>2, ParametersAssumption DEF Socket!Parameters, Allocated
      <4> QED BY <2>2, <4>1, <4>2, <4>3 DEF Heap, Leaks
    <3>2. Connection /\ Replies
      BY <2>2 DEF Connection, Replies
    <3>3. Waiting
      BY <2>2 DEF Waiting
    <3> QED BY <3>1, <3>2, <3>3
  <2> QED BY <1>1, <2>2, <2>3, <2>4, <2>6, <2>7 DEF IInv, SocketInv
<1>2. CASE running = "http" /\ Http!Init
  <2>1. /\ pc = [t \in Threads |-> "idle"] /\ i = [t \in Threads |-> 0] /\ mutex = {} /\ memory = 0
        /\ file \in {{}, {0}, {-1}} /\ last = [fs |-> 0, mem |-> 0]
        /\ floor = [t \in Threads |-> 0] /\ lost = FALSE
    BY <1>2 DEF Http!Init, Http!Text
  <2>2. HttpTypes
    <3>1. file \subseteq Int /\ \A x, y \in file : x = y /\ x >= -1
      BY <2>1
    <3>2. pc \in [Threads -> {"idle", "lock", "increment", "load"} \cup Handling]
      BY <2>1
    <3> QED BY <2>1, <3>1, <3>2 DEF HttpTypes
  <2>3. OneHandles /\ Floors /\ last.mem <= memory
    BY <2>1 DEF OneHandles, Floors, Handling
  <2>4. FileCounts
    <3>1. last.fs = 0 /\ \A x \in file \cap Nat : 0 <= x
      BY <2>1
    <3> QED BY <2>1, <3>1 DEF FileCounts
  <2> QED BY <1>2, <2>2, <2>3, <2>4 DEF IInv, HttpInv
<1> QED BY <1>1, <1>2 DEF Init

LEMMA IInvStep == IInv /\ [Next]_vars => IInv'
<1> SUFFICES ASSUME IInv, [Next]_vars PROVE IInv'
  OBVIOUS
<1>1. CASE SocketStep
  BY <1>1, SocketInvStep DEF SocketStep, IInv
<1>2. CASE HttpStep
  BY <1>2, HttpInvStep DEF HttpStep, IInv
<1>3. CASE UNCHANGED vars
  <2>1. HttpInv => HttpInv'
    BY <1>3 DEF vars, httpVars, HttpInv, HttpTypes, OneHandles, Floors, FileCounts
  <2>2. SocketInv => SocketInv'
    <3>1. UNCHANGED <<stage, at, undo, live, stopped, failed, erred>> /\ Untouched
      BY <1>3 DEF vars, socketVars, Untouched
    <3>2. SocketInv => stopped' \in BOOLEAN
      BY <3>1 DEF SocketInv, LoopTypes
    <3> QED BY <3>1, <3>2, NothingMoves
  <2>3. running' = running
    BY <1>3 DEF vars
  <2> QED BY <2>1, <2>2, <2>3 DEF IInv
<1> QED BY <1>1, <1>2, <1>3 DEF Next

\* The invariant of all that is said below: where the program has come to, what
\* it has allocated, whose connection is open, and who waits for an answer.
THEOREM Invariance == Spec => []IInv
BY InitIInv, IInvStep, PTL DEF Spec

\* Until it has entered an error branch, no server (main and cleanExit of each)
\* uses memory that it has given back, begins a round with a connection open, or
\* ends with memory of its own allocated; what is left of the requests are the
\* blocks that readFromFile of file-server.c made for files that it found.  This
\* holds with any number of clients, and after writes that failed unnoticed.
THEOREM ServersAreOrderly == Spec => []Orderly
<1>1. IInv => Orderly
  <2> SUFFICES ASSUME running = "socket", SocketInv PROVE Socket!Orderly
    BY DEF IInv, Orderly
  <2>1. stage = "undefined" => erred /\ server \notin Impatient
    BY DEF SocketInv, NothingFreed
  <2>2. ~erred /\ stage = "loop" /\ server # "simple_server" => served = {}
    BY DEF SocketInv, Connection
  <2>3. ~erred /\ stage = "loop" => Socket!S.frees \subseteq live
    BY CallsTabled DEF SocketInv, Heap, Tabled
  <2>4. ~erred /\ stage = "ended" => live \subseteq Clients
    BY DEF SocketInv, Heap
  <2>5. ~erred => \A c \in live \cap Clients : server = "file_server" /\ asks[c] \in disk
    BY DEF SocketInv, Leaks
  <2> QED BY <2>1, <2>2, <2>3, <2>4, <2>5 DEF Socket!Orderly, Socket!Selects, Impatient
<1> QED BY <1>1, Invariance, PTL

\* What a client (recv and printf of file-server-client.c) prints begins with the
\* file it asked for, an error after a failure, or the text of the servers that
\* have one, and goes on behind that, or stops short of it, for files only; for
\* any clients, paths and files, and however many calls have failed.
THEOREM AnswersMatchRequests == Spec => []Shows
<1>1. IInv => Shows
  <2> SUFFICES ASSUME running = "socket", SocketInv PROVE Socket!Shows
    BY DEF IInv, Shows
  <2> QED BY DEF SocketInv, Request, Received, Socket!Shows, Socket!Stopped, Impatient
<1> QED BY <1>1, Invariance, PTL

\* The counts that MyController.hpp answers with never fall below an answer
\* given before the request came, whatever the number of its threads.
THEOREM CountersNeverFallBack == Spec => []CountsGrow
<1>1. IInv => CountsGrow
  <2> SUFFICES ASSUME HttpInv PROVE Http!CountsGrow
    BY DEF IInv, CountsGrow
  <2>1. ASSUME NEW t \in Threads, pc[t] = "unlock", ~lost PROVE i[t] > floor[t]
    <3>1. i[t] \in Nat /\ floor[t] \in Nat /\ last.fs \in Nat
      BY DEF HttpInv, HttpTypes
    <3>2. i[t] > last.fs /\ floor[t] <= last.fs
      BY <2>1 DEF HttpInv, FileCounts, Floors, Handling
    <3> QED BY <3>1, <3>2
  <2>2. ASSUME NEW t \in Threads, pc[t] = "load" PROVE memory > floor[t]
    <3>1. memory \in Nat /\ floor[t] \in Nat
      BY DEF HttpInv, HttpTypes
    <3> QED BY <2>2, <3>1 DEF HttpInv, Floors
  <2>3. ASSUME ~lost, NEW x \in file \ {Http!Text} PROVE last.fs <= x
    <3>1. x \in Nat
      BY DEF HttpInv, HttpTypes, Http!Text
    <3> QED BY <2>3, <3>1 DEF HttpInv, FileCounts
  <2> QED BY <2>1, <2>2, <2>3 DEF Http!CountsGrow
<1> QED BY <1>1, Invariance, PTL

=============================================================================
