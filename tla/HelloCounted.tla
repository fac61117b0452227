---------------------------- MODULE HelloCounted ----------------------------
(***************************************************************************)
(* "Kernel Modules/hw5/modules/hello_counted/hello_counted.c": a device    *)
(* that tells a reader how many bytes it has read.  driver_open allocates  *)
(* the counter, but there is one pointer to it for all files.              *)
(***************************************************************************)
EXTENDS ThreadLabels, Integers

CONSTANTS
    Cells,              \* what kmalloc can return
    TextLength,         \* of the text without its number: 47 in the source
    Counts,             \* what processes ask for in a read
    ShortCopies,        \* what copy_to_user copies if it comes to a bad address
    MaxBytes            \* what is counted, at most: a bound

Parameters ==
    /\ TextLength \in Nat /\ MaxBytes \in Nat
    /\ Counts \subseteq Nat /\ ShortCopies \subseteq Nat

VARIABLES
    counted,            \* the pointer, {} when it is null, else {a cell}
    live,               \* cells that are allocated
    value,              \* of the cell the pointer points to
    offset,             \* of the file of each process
    n,                  \* to_copy - not_copied
    overlapped          \* a file was opened while another one was in use

heap == <<counted, live, value>>
vars == <<pc, heap, offset, n, overlapped>>

Init ==
    /\ pc = [t \in Threads |-> "idle"]
    /\ counted = {} /\ live = {} /\ value = 0
    /\ offset = [t \in Threads |-> 0] /\ n = [t \in Threads |-> 0]
    /\ overlapped = FALSE

\* What may be in a cell that the driver has not written since its allocation,
\* or has freed.
Junk == {0, MaxBytes}

\* *counted
Counted == IF counted \subseteq live THEN {value} ELSE Junk

\* *counted = x
Put(x) == value' = IF counted \subseteq live THEN x ELSE value

Digits(x) == CASE x < 10 -> 1 [] x < 100 -> 2 [] OTHER -> 3

-----------------------------------------------------------------------------
(* driver_open *)

Open(t) ==
    /\ Goto(t, "idle", "reset")
    /\ \E c \in Cells \ live : counted' = {c} /\ live' = live \cup {c}
    /\ value' \in Junk
    /\ offset' = [offset EXCEPT ![t] = 0]
    /\ overlapped' = (overlapped \/ At({"idle"}) # Threads)
    /\ UNCHANGED n

\* A null pointer is dereferenced in line 22: an oops ends the process.
OpenFails(t) ==
    /\ Goto(t, "idle", "idle")
    /\ counted' = {}
    /\ overlapped' = (overlapped \/ At({"idle"}) # Threads)
    /\ UNCHANGED <<live, value, offset, n>>

\* Mutant: a new counter starts with what kmalloc returned.
ResetNot(t) ==
    /\ Goto(t, "reset", "open")
    /\ UNCHANGED <<heap, offset, n, overlapped>>

Reset(t) ==
    /\ Goto(t, "reset", "open")
    /\ Put(0)
    /\ UNCHANGED <<counted, live, offset, n, overlapped>>

-----------------------------------------------------------------------------
(* read_hello *)

\* The text with its number: nothing if the file's offset is beyond it, else as
\* much of its start as the process asks for, or the part of that which
\* copy_to_user copies before it comes to a bad address.
Read(t) ==
    \E x \in Counted, asked \in Counts :
        LET length == TextLength + Digits(x)
            toCopy == IF length > asked THEN asked ELSE length
        IN  IF offset[t] >= length
            THEN Goto(t, "open", "open") /\ UNCHANGED <<heap, offset, n, overlapped>>
            ELSE /\ Goto(t, "open", "add")
                 /\ \E copied \in {toCopy} \cup (ShortCopies \cap 0..toCopy) : n' = [n EXCEPT ![t] = copied]
                 /\ x + toCopy <= MaxBytes /\ offset[t] + toCopy <= MaxBytes
                 /\ UNCHANGED <<heap, offset, overlapped>>

\* kmalloc of the text fails: an oops, and the dying process closes its file.
ReadFails(t) ==
    /\ Goto(t, "open", "close")
    /\ UNCHANGED <<heap, offset, n, overlapped>>

Add(t) ==
    /\ Goto(t, "add", "open")
    /\ offset' = [offset EXCEPT ![t] = offset[t] + n[t]]
    /\ \E x \in Counted : Put(x + n[t])
    /\ n' = [n EXCEPT ![t] = 0]
    /\ UNCHANGED <<counted, live, overlapped>>

-----------------------------------------------------------------------------
(* driver_close *)

Close(t) ==
    /\ Goto(t, "open", "close")
    /\ UNCHANGED <<heap, offset, n, overlapped>>

Free(t) ==
    /\ Goto(t, "close", "idle")
    /\ live' = live \ counted
    /\ offset' = [offset EXCEPT ![t] = 0]
    /\ UNCHANGED <<counted, value, n, overlapped>>

Next ==
    \E t \in Threads :
        \/ Open(t) \/ OpenFails(t) \/ Reset(t)
        \/ Read(t) \/ ReadFails(t) \/ Add(t)
        \/ Close(t) \/ Free(t)

-----------------------------------------------------------------------------
\* As long as nobody opened the device while another file was in use, every
\* counter is allocated exactly while its file is open, and the number printed
\* is what was read through that file, whatever failed on the way.
SoleReader ==
    ~overlapped =>
        /\ live = IF At({"idle"}) = Threads THEN {} ELSE counted
        /\ \A t \in At({"open", "add"}) : Counted = {offset[t]}

=============================================================================
