------------------------------ MODULE OpenClose ------------------------------
(***************************************************************************)
(* "Kernel Modules/hw4/modules/openclose/openclose.c": a device that may   *)
(* be open MAX_DEVICES times.  count is a plain int; driver_open tests and *)
(* increments it, driver_close decrements it, and the kernel serialises    *)
(* neither.  An increment is a load and a store.                           *)
(***************************************************************************)
EXTENDS ThreadLabels, Integers

CONSTANTS
    MaxDevices,         \* MAX_DEVICES
    MaxOverlaps         \* calls that overlap another one: a bound

Parameters == MaxDevices \in Nat /\ MaxOverlaps \in Nat

VARIABLES
    count,
    reg,                \* a process's copy of count between load and store
    files,              \* files that are open: open succeeded, no release yet
    overlaps            \* calls made so far while another one was in the driver

vars == <<pc, count, reg, files, overlaps>>

\* The module has been loaded.
Init ==
    /\ pc = [t \in Threads |-> "idle"]
    /\ count = 0 /\ reg = [t \in Threads |-> 0]
    /\ files = 0 /\ overlaps = 0

\* A process enters the driver.
Call(t, function) ==
    /\ Goto(t, "idle", function)
    /\ overlaps' = overlaps + (IF At({"idle"}) = Threads THEN 0 ELSE 1)
    /\ overlaps' <= MaxOverlaps

\* count, in a register.
Load(t, from, to) ==
    /\ Goto(t, from, to)
    /\ reg' = [reg EXCEPT ![t] = count]
    /\ UNCHANGED <<count, files, overlaps>>

\* The process leaves the driver, and its register is gone.
Store(t, from, value) ==
    /\ Goto(t, from, "idle")
    /\ count' = value
    /\ reg' = [reg EXCEPT ![t] = 0]
    /\ UNCHANGED overlaps

-----------------------------------------------------------------------------
(* driver_open *)

Open(t) == Call(t, "check") /\ UNCHANGED <<count, reg, files>>

\* Mutant: > in place of >=.
CheckOneMore(t) ==
    /\ Goto(t, "check", IF count > MaxDevices THEN "idle" ELSE "oload")
    /\ UNCHANGED <<count, reg, files, overlaps>>

\* -EBUSY, or on to the increment.
Check(t) ==
    /\ Goto(t, "check", IF count >= MaxDevices THEN "idle" ELSE "oload")
    /\ UNCHANGED <<count, reg, files, overlaps>>

LoadOpen(t) == Load(t, "oload", "ostore")

StoreOpen(t) == Store(t, "ostore", reg[t] + 1) /\ files' = files + 1

-----------------------------------------------------------------------------
(* driver_close, when the last descriptor of an open file is closed *)

Close(t) ==
    /\ files > 0
    /\ Call(t, "cload")
    /\ files' = files - 1
    /\ UNCHANGED <<count, reg>>

LoadClose(t) == Load(t, "cload", "cstore")

StoreClose(t) == Store(t, "cstore", reg[t] - 1) /\ UNCHANGED files

Next ==
    \E t \in Threads :
        \/ Open(t) \/ Check(t) \/ LoadOpen(t) \/ StoreOpen(t)
        \/ Close(t) \/ LoadClose(t) \/ StoreClose(t)

-----------------------------------------------------------------------------
\* The count of open files goes wrong by at most one for every call that
\* overlapped another one (lines 97 and 102): alone, a process sees an exact
\* count.  The device is therefore never open more than MAX_DEVICES times
\* ("Could open more than 257 times." is the first failure openclosetest.c
\* looks for) unless opens overlapped, and by no more files than calls did.
OpenLimit ==
    /\ LET drift == count - (files + Cardinality(At({"cload", "cstore"})))
       IN  drift \in (-overlaps)..overlaps
    /\ files <= MaxDevices + overlaps

=============================================================================
