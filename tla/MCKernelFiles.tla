---------------------------- MODULE MCKernelFiles ----------------------------
(***************************************************************************)
(* The devices of hw4 and hw5 whose operations processes call at the same  *)
(* time: one of the four is loaded.                                        *)
(***************************************************************************)
EXTENDS ThreadLabels, TLC

CONSTANTS
    Size, MaxRequest, Word, MaxOffset,
    MaxDevices, MaxOverlaps,
    Cells, TextLength, Counts, ShortCopies, MaxBytes

VARIABLES
    loaded,
    want, n, offset,
    available, writable, rlock, wlock,
    length, shrunk,
    count, reg, files, overlaps,
    counted, live, value, overlapped

bufferSyncVars == <<available, writable, rlock, wlock>>
bufferVars == <<length, shrunk>>
openCloseVars == <<count, reg, files, overlaps>>
helloVars == <<counted, live, value, overlapped>>
vars == <<loaded, pc, want, n, offset, bufferSyncVars, bufferVars, openCloseVars, helloVars>>

Symmetry == Permutations(Threads) \cup Permutations(Cells)

BufferSync == INSTANCE MyBufferSync
Buffer == INSTANCE MyBuffer
OpenClose == INSTANCE OpenClose
Hello == INSTANCE HelloCounted

ASSUME ParametersAssumption ==
    BufferSync!Parameters /\ Buffer!Parameters /\ OpenClose!Parameters /\ Hello!Parameters

\* The devices start alike: nothing is open, nothing is written.
Init ==
    /\ loaded \in {"mybuffer_sync", "mybuffer", "openclose", "hello_counted"}
    /\ BufferSync!Init /\ Buffer!Init /\ OpenClose!Init /\ Hello!Init

BufferSyncStep ==
    /\ loaded = "mybuffer_sync" /\ BufferSync!Next
    /\ UNCHANGED <<loaded, offset, bufferVars, openCloseVars, helloVars>>

BufferStep ==
    /\ loaded = "mybuffer" /\ Buffer!Next
    /\ UNCHANGED <<loaded, want, bufferSyncVars, openCloseVars, helloVars>>

OpenCloseStep ==
    /\ loaded = "openclose" /\ OpenClose!Next
    /\ UNCHANGED <<loaded, want, n, offset, bufferSyncVars, bufferVars, helloVars>>

HelloStep ==
    /\ loaded = "hello_counted" /\ Hello!Next
    /\ UNCHANGED <<loaded, want, bufferSyncVars, bufferVars, openCloseVars>>

Next == BufferSyncStep \/ BufferStep \/ OpenCloseStep \/ HelloStep

Spec == Init /\ [][Next]_vars

-----------------------------------------------------------------------------
\* Every byte of mybuffer_sync's buffer can be read, can be written, or is on
\* its way between the two counters, which never underflow.
Conserved == loaded = "mybuffer_sync" => BufferSync!Conserved

\* In both buffers a process sleeps on a true condition only until the one that
\* made it true wakes it.
NoLostWakeUp ==
    /\ loaded = "mybuffer_sync" => BufferSync!NoLostWakeUp
    /\ loaded = "mybuffer" => Buffer!NoLostWakeUp

\* mybuffer is read within what was written, unless a write made it shorter.
InBounds == loaded = "mybuffer" => Buffer!InBounds

\* openclose miscounts by no more than the calls that overlapped.
OpenLimit == loaded = "openclose" => OpenClose!OpenLimit

\* hello_counted tells a process that is alone what it has read, and frees it.
SoleReader == loaded = "hello_counted" => Hello!SoleReader

=============================================================================
