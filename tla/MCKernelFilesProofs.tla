------------------------- MODULE MCKernelFilesProofs -------------------------
(***************************************************************************)
(* The safety of the devices of hw4 and hw5, for any finite set of         *)
(* processes, any buffer, and any bound on what the processes do.  One of  *)
(* the four modules is loaded, and the inductive invariant of each says    *)
(* what its processes have in hand between one access to the shared        *)
(* variables and the next.                                                 *)
(***************************************************************************)
EXTENDS MCKernelFiles, ThreadLabelsProofs

-----------------------------------------------------------------------------
(* mybuffer_sync *)

SyncLabels == {"idle", "rcheck", "rtest", "rasleep", "rlock", "rsize", "rcopy", "rsub", "radd",
               "rwake", "wcheck", "wtest", "wasleep", "wlock", "wsize", "wcopy", "wsub", "wadd",
               "wwake"}

SyncTypes ==
    /\ pc \in [Threads -> SyncLabels]
    /\ want \in [Threads -> Nat] /\ n \in [Threads -> Nat]
    /\ available \in Nat /\ writable \in Nat

\* Between mutex_lock and mutex_unlock.
Reading == {"rsize", "rcopy", "rsub", "radd"}
Writing == {"wsize", "wcopy", "wsub", "wadd"}

\* One process at a time is between lock and unlock.
SyncLocks ==
    /\ \A s, t \in At(Reading) : s = t
    /\ \A s, t \in At(Writing) : s = t
    /\ At(Reading) # {} => rlock = "held"
    /\ At(Writing) # {} => wlock = "held"

\* What is going to be subtracted is still there: only the process itself can
\* take it away.
SyncCopies ==
    /\ \A t \in At({"rcopy", "rsub"}) : n[t] <= available
    /\ \A t \in At({"wcopy", "wsub"}) : n[t] <= writable

\* The balance of the two counters.
SyncSum ==
    /\ \A r \in At({"radd"}), w \in At({"wadd"}) : available + writable + n[r] + n[w] = Size
    /\ At({"wadd"}) = {} => \A r \in At({"radd"}) : available + writable + n[r] = Size
    /\ At({"radd"}) = {} => \A w \in At({"wadd"}) : available + writable + n[w] = Size
    /\ At({"radd", "wadd"}) = {} => available + writable = Size

SyncInv == SyncTypes /\ SyncLocks /\ SyncCopies /\ SyncSum /\ BufferSync!NoLostWakeUp

-----------------------------------------------------------------------------
(* mybuffer *)

BufferTypes ==
    /\ pc \in [Threads -> {"idle", "rtest", "rasleep", "rsize", "rcopy", "wcopy", "wlength", "wwake"}]
    /\ n \in [Threads -> Nat] /\ offset \in [Threads -> Nat]
    /\ length \in 0..Size /\ shrunk \in BOOLEAN

\* A write leaves no more than the buffer holds.
BufferWrites == \A t \in At({"wlength"}) : n[t] <= Size

BufferInv == BufferTypes /\ BufferWrites /\ Buffer!InBounds /\ Buffer!NoLostWakeUp

-----------------------------------------------------------------------------
(* openclose *)

OpenCloseTypes ==
    /\ pc \in [Threads -> {"idle", "check", "oload", "ostore", "cload", "cstore"}]
    /\ count \in Int /\ reg \in [Threads -> Int]
    /\ files \in Nat /\ overlaps \in Nat

Busy == {"check", "oload", "ostore", "cload", "cstore"}

\* What count should be: a file that is being closed still counts.
Exact == files + Cardinality(At({"cload", "cstore"}))

\* The calls that have overlapped another one and have returned.
Past == overlaps - (IF At(Busy) = {} THEN 0 ELSE Cardinality(At(Busy)) - 1)

\* Only a call that has returned can have left count wrong.
Drift == count - Exact \in (-Past)..Past

\* A register may be stale by the calls that have returned, too.
Stale == \A t \in At({"ostore", "cstore"}) : reg[t] - Exact \in (-Past)..Past

Admitted == files + Cardinality(At({"oload", "ostore"})) <= MaxDevices + overlaps

OpenCloseInv == OpenCloseTypes /\ Past >= 0 /\ Drift /\ Stale /\ Admitted

-----------------------------------------------------------------------------
(* hello_counted *)

HelloTypes ==
    /\ pc \in [Threads -> {"idle", "reset", "open", "add", "close"}]
    /\ value \in Nat /\ offset \in [Threads -> Nat] /\ n \in [Threads -> Nat]
    /\ overlapped \in BOOLEAN

InUse == {"reset", "open", "add", "close"}

\* Without overlap there is one file at most, and the pointer is its counter's.
HelloAlone ==
    ~overlapped =>
        /\ \A s, t \in At(InUse) : s = t
        /\ live = IF At(InUse) = {} THEN {} ELSE counted
        /\ \A t \in At({"reset"}) : offset[t] = 0
        /\ \A t \in At({"open", "add"}) : value = offset[t]

HelloInv == HelloTypes /\ HelloAlone

-----------------------------------------------------------------------------
IInv ==
    /\ loaded \in {"mybuffer_sync", "mybuffer", "openclose", "hello_counted"}
    /\ loaded = "mybuffer_sync" => SyncInv
    /\ loaded = "mybuffer" => BufferInv
    /\ loaded = "openclose" => OpenCloseInv
    /\ loaded = "hello_counted" => HelloInv

-----------------------------------------------------------------------------
(* Steps of mybuffer_sync *)

SyncStep(t) == BufferSync!Caller(t) \/ BufferSync!DriverRead(t) \/ BufferSync!DriverWrite(t)

LEMMA SyncMin ==
    \A a, b \in Nat : /\ BufferSync!Min({a, b}) \in Nat
                      /\ BufferSync!Min({a, b}) <= a /\ BufferSync!Min({a, b}) <= b
<1> SUFFICES ASSUME NEW a \in Nat, NEW b \in Nat
             PROVE  \E x \in {a, b} : \A y \in {a, b} : x <= y
  BY DEF BufferSync!Min
<1> QED OBVIOUS

LEMMA SyncInvStep == ASSUME SyncInv, BufferSync!Next PROVE SyncInv'
<1>1. PICK t \in Threads : SyncStep(t)
  BY DEF BufferSync!Next, SyncStep
<1> USE DEF SyncInv, SyncTypes, SyncLabels, SyncLocks, SyncCopies, SyncSum,
            BufferSync!NoLostWakeUp, BufferSync!At, At, Reading, Writing,
            BufferSync!Goto, BufferSync!calls, BufferSync!counts
\* A process calls, tests or gives up: no counter changes.
<1>2. CASE BufferSync!CallRead(t) \/ BufferSync!CallWrite(t)
  BY <1>2 DEF BufferSync!CallRead, BufferSync!CallWrite, BufferSync!Enter
<1>3. CASE BufferSync!CheckRead(t) \/ BufferSync!TestRead(t) \/ BufferSync!InterruptRead(t)
  BY <1>3 DEF BufferSync!CheckRead, BufferSync!TestRead, BufferSync!InterruptRead
<1>4. CASE BufferSync!CheckWrite(t) \/ BufferSync!TestWrite(t) \/ BufferSync!InterruptWrite(t)
  BY <1>4 DEF BufferSync!CheckWrite, BufferSync!TestWrite, BufferSync!InterruptWrite
<1>5. CASE BufferSync!LockRead(t) \/ BufferSync!LockWrite(t)
  BY <1>5 DEF BufferSync!LockRead, BufferSync!LockWrite, BufferSync!Lock
\* What is copied is no more than there is.
<1>6. CASE BufferSync!SizeRead(t)
  <2>1. /\ n' \in [Threads -> Nat] /\ n'[t] <= available
        /\ \A u \in Threads \ {t} : n'[u] = n[u]
    BY <1>6, SyncMin DEF BufferSync!SizeRead
  <2>2. SyncTypes' /\ SyncLocks' /\ BufferSync!NoLostWakeUp'
    BY <1>6, <2>1 DEF BufferSync!SizeRead
  <2>3. SyncCopies'
    BY <1>6, <2>1 DEF BufferSync!SizeRead
  <2>4. SyncSum'
    BY <1>6, <2>1 DEF BufferSync!SizeRead
  <2> QED BY <2>2, <2>3, <2>4
<1>7. CASE BufferSync!SizeWrite(t)
  <2>1. /\ n' \in [Threads -> Nat] /\ n'[t] <= writable
        /\ \A u \in Threads \ {t} : n'[u] = n[u]
    BY <1>7, SyncMin DEF BufferSync!SizeWrite
  <2>2. SyncTypes' /\ SyncLocks' /\ BufferSync!NoLostWakeUp'
    BY <1>7, <2>1 DEF BufferSync!SizeWrite
  <2>3. SyncCopies'
    BY <1>7, <2>1 DEF BufferSync!SizeWrite
  <2>4. SyncSum'
    BY <1>7, <2>1 DEF BufferSync!SizeWrite
  <2> QED BY <2>2, <2>3, <2>4
<1>8. CASE BufferSync!CopyRead(t) \/ BufferSync!CopyWrite(t)
  BY <1>8 DEF BufferSync!CopyRead, BufferSync!CopyWrite
\* Bytes move between the counters.
<1>9. CASE BufferSync!SubRead(t)
  BY <1>9 DEF BufferSync!SubRead
<1>10. CASE BufferSync!AddRead(t)
  BY <1>10 DEF BufferSync!AddRead, BufferSync!Unlock
<1>11. CASE BufferSync!SubWrite(t)
  BY <1>11 DEF BufferSync!SubWrite
<1>12. CASE BufferSync!AddWrite(t)
  BY <1>12 DEF BufferSync!AddWrite, BufferSync!Unlock
\* Everybody on a wait queue tests again.
<1>13. CASE BufferSync!WakeWriters(t)
  <2>1. /\ SyncTypes' /\ At({"wasleep"})' = {}
        /\ pc[t] = "rwake" /\ pc'[t] = "idle" /\ UNCHANGED <<available, writable>>
    BY <1>13 DEF BufferSync!WakeWriters, BufferSync!WakeUp
  <2>2. \A u \in Threads \ {t} : n'[u] = n[u] /\ pc'[u] = IF pc[u] = "wasleep" THEN "wtest" ELSE pc[u]
    BY <1>13 DEF BufferSync!WakeWriters, BufferSync!WakeUp
  <2>3. \A L \in {Reading, Writing, {"rcopy", "rsub"}, {"wcopy", "wsub"}, {"radd"}, {"wadd"},
                  {"radd", "wadd"}} : At(L)' = At(L)
    BY <2>1, <2>2
  <2>4. SyncLocks' /\ SyncCopies'
    BY <1>13, <2>1, <2>2 DEF BufferSync!WakeWriters, BufferSync!WakeUp
  <2>5. SyncSum'
    BY <2>1, <2>2, <2>3
  <2>6. BufferSync!NoLostWakeUp'
    BY <1>13, <2>1, <2>2 DEF BufferSync!WakeWriters, BufferSync!WakeUp
  <2> QED BY <2>1, <2>4, <2>5, <2>6
<1>14. CASE BufferSync!WakeReaders(t)
  <2>1. /\ SyncTypes' /\ At({"rasleep"})' = {}
        /\ pc[t] = "wwake" /\ pc'[t] = "idle" /\ UNCHANGED <<available, writable>>
    BY <1>14 DEF BufferSync!WakeReaders, BufferSync!WakeUp
  <2>2. \A u \in Threads \ {t} : n'[u] = n[u] /\ pc'[u] = IF pc[u] = "rasleep" THEN "rtest" ELSE pc[u]
    BY <1>14 DEF BufferSync!WakeReaders, BufferSync!WakeUp
  <2>3. \A L \in {Reading, Writing, {"rcopy", "rsub"}, {"wcopy", "wsub"}, {"radd"}, {"wadd"},
                  {"radd", "wadd"}} : At(L)' = At(L)
    BY <2>1, <2>2
  <2>4. SyncLocks' /\ SyncCopies'
    BY <1>14, <2>1, <2>2 DEF BufferSync!WakeReaders, BufferSync!WakeUp
  <2>5. SyncSum'
    BY <2>1, <2>2, <2>3
  <2>6. BufferSync!NoLostWakeUp'
    BY <1>14, <2>1, <2>2 DEF BufferSync!WakeReaders, BufferSync!WakeUp
  <2> QED BY <2>1, <2>4, <2>5, <2>6
<1> QED
  BY <1>1, <1>2, <1>3, <1>4, <1>5, <1>6, <1>7, <1>8, <1>9, <1>10, <1>11, <1>12, <1>13, <1>14
     DEF SyncStep, BufferSync!Caller, BufferSync!DriverRead, BufferSync!DriverWrite

-----------------------------------------------------------------------------
(* Steps of mybuffer *)

LEMMA BufferMin ==
    \A a, b \in Nat : /\ Buffer!Min({a, b}) \in Nat
                      /\ Buffer!Min({a, b}) <= a /\ Buffer!Min({a, b}) <= b
<1> SUFFICES ASSUME NEW a \in Nat, NEW b \in Nat
             PROVE  \E x \in {a, b} : \A y \in {a, b} : x <= y
  BY DEF Buffer!Min
<1> QED OBVIOUS

\* The unsigned difference of line 156 is the difference while the offset is
\* within the buffer, and a natural number in any case.
LEMMA Unsigned ==
    \A a \in 0..Size, b \in Nat : (a - b) % Word \in Nat /\ (b <= a => (a - b) % Word = a - b)
<1>1. Word \in Nat /\ Word > Size /\ Size \in Nat
  BY ParametersAssumption DEF Buffer!Parameters
<1> QED BY <1>1

LEMMA BufferInvStep == ASSUME BufferInv, Buffer!Next PROVE BufferInv'
<1> USE DEF BufferInv, BufferTypes, BufferWrites, Buffer!InBounds, Buffer!NoLostWakeUp,
            Buffer!At, At, Buffer!Goto, Buffer!Locals
<1>0. Size \in Nat
  BY ParametersAssumption DEF Buffer!Parameters
<1>1. ASSUME NEW t \in Threads, Buffer!Reopen(t) PROVE BufferInv'
  BY <1>1 DEF Buffer!Reopen
<1>2. ASSUME NEW t \in Threads, Buffer!CallRead(t) \/ Buffer!CallWrite(t) PROVE BufferInv'
  BY <1>2 DEF Buffer!CallRead, Buffer!CallWrite, Buffer!Call
<1>3. ASSUME NEW t \in Threads, Buffer!TestRead(t) PROVE BufferInv'
  BY <1>3 DEF Buffer!TestRead
<1>4. ASSUME NEW t \in Threads, Buffer!InterruptRead(t) PROVE BufferInv'
  BY <1>4 DEF Buffer!InterruptRead
<1>5. ASSUME NEW t \in Threads, Buffer!SizeRead(t) PROVE BufferInv'
  <2> DEFINE rest == (length - offset[t]) % Word
  <2>1. /\ n' = [n EXCEPT ![t] = Buffer!Min({rest, n[t]})]
        /\ Buffer!Min({rest, n[t]}) \in Nat /\ Buffer!Min({rest, n[t]}) <= rest
    BY <1>5, Unsigned, BufferMin DEF Buffer!SizeRead
  <2>2. ~shrunk => Buffer!Min({rest, n[t]}) <= length - offset[t]
    BY <2>1, Unsigned
  <2>3. \A u \in Threads \ {t} : n'[u] = n[u] /\ pc'[u] = pc[u]
    BY <1>5, <2>1 DEF Buffer!SizeRead
  <2>4. ~shrunk => offset[t] + n'[t] <= length
    BY <2>1, <2>2
  <2>5. Buffer!InBounds'
    BY <1>5, <1>0, <2>3, <2>4 DEF Buffer!SizeRead
  <2>6. BufferTypes' /\ BufferWrites' /\ Buffer!NoLostWakeUp'
    BY <1>5, <2>1, <2>3 DEF Buffer!SizeRead
  <2> QED BY <2>5, <2>6
<1>6. ASSUME NEW t \in Threads, Buffer!CopyRead(t) PROVE BufferInv'
  BY <1>6 DEF Buffer!CopyRead
<1>7. ASSUME NEW t \in Threads, Buffer!CopyWrite(t) PROVE BufferInv'
  BY <1>7, <1>0, BufferMin DEF Buffer!CopyWrite
<1>8. ASSUME NEW t \in Threads, Buffer!SetLength(t) PROVE BufferInv'
  <2> DEFINE less == n[t] < length
  <2>1. length' = n[t] /\ length' \in 0..Size /\ UNCHANGED <<n, offset>>
    BY <1>8, <1>0 DEF Buffer!SetLength
  <2>2. shrunk' = (shrunk \/ less)
    BY <1>8 DEF Buffer!SetLength
  <2>3. shrunk' \in BOOLEAN /\ (~shrunk' => ~shrunk /\ ~less)
    <3> HIDE DEF less
    <3> QED BY <2>2
  <2>4. Buffer!InBounds'
    BY <1>8, <1>0, <2>1, <2>3 DEF Buffer!SetLength
  <2>5. BufferTypes' /\ BufferWrites' /\ Buffer!NoLostWakeUp'
    BY <1>8, <2>1, <2>3 DEF Buffer!SetLength
  <2> QED BY <2>4, <2>5
<1>9. ASSUME NEW t \in Threads, Buffer!WakeReaders(t) PROVE BufferInv'
  BY <1>9 DEF Buffer!WakeReaders
<1> QED
  BY <1>1, <1>2, <1>3, <1>4, <1>5, <1>6, <1>7, <1>8, <1>9 DEF Buffer!Next

-----------------------------------------------------------------------------
(* Steps of openclose *)

\* The numbers of processes the invariant counts, before and after a process
\* moves from one label to another.
Number(L) == Cardinality(At(L))

LEMMA OpenCloseCounts ==
    ASSUME OpenCloseTypes, NEW t \in Threads, NEW from, NEW to, OpenClose!Goto(t, from, to)
    PROVE  \A L : /\ Number(L) \in Nat /\ Number(L)' \in Nat
                  /\ Number(L) = 0 <=> At(L) = {}
                  /\ Number(L)' = 0 <=> At(L)' = {}
                  /\ Number(L)' = Number(L) + (IF to \in L THEN 1 ELSE 0)
                                              - (IF from \in L THEN 1 ELSE 0)
<1>1. Goto(t, from, to)
  BY DEF OpenClose!Goto, Goto
<1> QED BY <1>1, CountsAreNatural, MoveCounts DEF OpenCloseTypes, Number

\* The same for the labels that matter below.
LEMMA OpenCloseMoves ==
    ASSUME OpenCloseTypes, NEW t \in Threads, NEW from, NEW to, OpenClose!Goto(t, from, to)
    PROVE  /\ Number({"cload", "cstore"})' = Number({"cload", "cstore"})
                + (IF to \in {"cload", "cstore"} THEN 1 ELSE 0) - (IF from \in {"cload", "cstore"} THEN 1 ELSE 0)
           /\ Number({"oload", "ostore"})' = Number({"oload", "ostore"})
                + (IF to \in {"oload", "ostore"} THEN 1 ELSE 0) - (IF from \in {"oload", "ostore"} THEN 1 ELSE 0)
           /\ Number({"check"})' = Number({"check"})
                + (IF to \in {"check"} THEN 1 ELSE 0) - (IF from \in {"check"} THEN 1 ELSE 0)
           /\ Number(Busy)' = Number(Busy)
                + (IF to \in Busy THEN 1 ELSE 0) - (IF from \in Busy THEN 1 ELSE 0)
  BY OpenCloseCounts

\* A process in the driver is one of those counted; those that hold a register
\* or are about to load it are, too.
LEMMA BusyCounts ==
    ASSUME OpenCloseTypes
    PROVE  /\ Number({"cload", "cstore"}) + Number({"oload", "ostore"}) + Number({"check"})
                = Number(Busy)
           /\ OpenClose!At({"idle"}) = Threads <=> At(Busy) = {}
<1>1. \A K, L : K \cap L = {} => Number(K) + Number(L) = Number(K \cup L)
  <2> SUFFICES ASSUME NEW K, NEW L, K \cap L = {} PROVE Number(K) + Number(L) = Number(K \cup L)
    OBVIOUS
  <2>1. /\ IsFiniteSet(At(K)) /\ IsFiniteSet(At(L)) /\ At(K) \cap At(L) = {}
        /\ At(K \cup L) = At(K) \cup At(L)
    BY FS_Subset, ThreadsAssumption DEF At
  <2>2. Cardinality(At(K) \cup At(L)) = Cardinality(At(K)) + Cardinality(At(L)) - Cardinality({})
    BY <2>1, FS_Union
  <2>3. Cardinality({}) = 0 /\ Cardinality(At(K)) \in Nat /\ Cardinality(At(L)) \in Nat
    BY FS_EmptySet, CountsAreNatural
  <2>4. Cardinality(At(K \cup L)) = Cardinality(At(K)) + Cardinality(At(L)) - 0
    BY <2>1, <2>2, <2>3, Zenon
  <2>5. Cardinality(At(K)) + Cardinality(At(L)) - 0 = Cardinality(At(K)) + Cardinality(At(L))
    BY <2>3
  <2> QED BY <2>4, <2>5 DEF Number
<1>2. Busy = ({"cload", "cstore"} \cup {"oload", "ostore"}) \cup {"check"}
  BY DEF Busy
<1>3. OpenClose!At({"idle"}) = Threads <=> At(Busy) = {}
  BY DEF OpenCloseTypes, OpenClose!At, At, Busy
<1>4. Number({"cload", "cstore"}) + Number({"oload", "ostore"})
        = Number({"cload", "cstore"} \cup {"oload", "ostore"})
  BY <1>1
<1>5. Number({"cload", "cstore"} \cup {"oload", "ostore"}) + Number({"check"}) = Number(Busy)
  BY <1>1, <1>2
<1> QED BY <1>3, <1>4, <1>5

LEMMA OpenCloseInvStep == ASSUME OpenCloseInv, OpenClose!Next PROVE OpenCloseInv'
<1>0. MaxDevices \in Nat
  BY ParametersAssumption DEF OpenClose!Parameters
<1>1. OpenCloseTypes'
  BY DEF OpenCloseInv, OpenCloseTypes, OpenClose!Next, OpenClose!Goto, OpenClose!Open, OpenClose!Check,
         OpenClose!LoadOpen, OpenClose!StoreOpen, OpenClose!Close, OpenClose!LoadClose,
         OpenClose!StoreClose, OpenClose!Call, OpenClose!Load, OpenClose!Store
<1> DEFINE closing == Number({"cload", "cstore"})
           opening == Number({"oload", "ostore"})
           checking == Number({"check"})
           busy == Number(Busy)
<1>2. /\ OpenCloseTypes
      /\ closing \in Nat /\ opening \in Nat /\ checking \in Nat /\ busy \in Nat
      /\ closing + opening + checking = busy
      /\ Exact = files + closing
      /\ Past = overlaps - (IF busy = 0 THEN 0 ELSE busy - 1)
      /\ OpenClose!At({"idle"}) = Threads <=> busy = 0
  BY BusyCounts, CountsAreNatural DEF OpenCloseInv, Exact, Past, Number
<1>3. /\ Exact' = files' + closing'
      /\ Past' = overlaps' - (IF busy' = 0 THEN 0 ELSE busy' - 1)
      /\ Admitted <=> files + opening <= MaxDevices + overlaps
      /\ Admitted' <=> files' + opening' <= MaxDevices + overlaps'
      /\ closing' \in Nat /\ opening' \in Nat /\ checking' \in Nat /\ busy' \in Nat
  BY CountsAreNatural DEF Exact, Past, Number, Admitted
\* What is left to show is arithmetic.
<1>4. SUFFICES Past' >= 0 /\ Drift' /\ Stale' /\ Admitted'
  BY <1>1 DEF OpenCloseInv
<1>5. ASSUME NEW t \in Threads, OpenClose!Open(t) PROVE Past' >= 0 /\ Drift' /\ Stale' /\ Admitted'
  <2>1. /\ closing' = closing /\ opening' = opening /\ busy' = busy + 1
    BY <1>2, <1>5, OpenCloseMoves DEF OpenClose!Open, OpenClose!Call, Busy
  <2>2. /\ UNCHANGED <<count, reg, files>> /\ overlaps' = overlaps + (IF busy = 0 THEN 0 ELSE 1)
        /\ At({"ostore", "cstore"})' = At({"ostore", "cstore"})
    BY <1>2, <1>5 DEF OpenClose!Open, OpenClose!Call, OpenClose!Goto, At, OpenCloseTypes
  <2>3. Past' = Past /\ Exact' = Exact
    BY <1>2, <1>3, <2>1, <2>2 DEF OpenCloseTypes
  <2>4. Past' >= 0 /\ Drift'
    BY <2>2, <2>3 DEF OpenCloseInv, Drift
  <2>5. Admitted'
    BY <1>0, <1>2, <1>3, <2>1, <2>2 DEF OpenCloseInv, OpenCloseTypes
  <2> QED BY <2>2, <2>3, <2>4, <2>5 DEF OpenCloseInv, Stale
\* Whoever is admitted has seen fewer than MaxDevices; the others in the driver
\* are no more than the overlaps that Past leaves out.
<1>6. ASSUME NEW t \in Threads, OpenClose!Check(t) PROVE Past' >= 0 /\ Drift' /\ Stale' /\ Admitted'
  <2>1. UNCHANGED <<count, reg, files, overlaps>> /\ At({"ostore", "cstore"})' = At({"ostore", "cstore"})
    BY <1>2, <1>6 DEF OpenClose!Check, OpenClose!Goto, At, OpenCloseTypes
  <2>2. CASE count >= MaxDevices
    <3>1. closing' = closing /\ opening' = opening /\ busy' = busy - 1
      BY <1>2, <1>6, <2>2, OpenCloseMoves DEF OpenClose!Check, Busy
    <3>2. Exact' = Exact /\ Past' \in {Past, Past + 1}
      BY <1>2, <1>3, <2>1, <3>1 DEF OpenCloseTypes
    <3> QED
      BY <1>0, <1>2, <1>3, <2>1, <3>1, <3>2 DEF OpenCloseInv, OpenCloseTypes, Drift, Stale, At
  <2>3. CASE ~(count >= MaxDevices)
    <3>1. closing' = closing /\ opening' = opening + 1 /\ checking' = checking - 1 /\ busy' = busy
      <4>1. OpenClose!Goto(t, "check", "oload")
        BY <1>6, <2>3 DEF OpenClose!Check
      <4> QED BY <1>2, <4>1, OpenCloseMoves DEF Busy
    <3>2. Exact' = Exact /\ Past' = Past
      BY <1>2, <1>3, <2>1, <3>1 DEF OpenCloseTypes
    <3>3. Exact - Past <= count /\ count < MaxDevices
      BY <1>0, <1>2, <2>3 DEF OpenCloseInv, OpenCloseTypes, Drift
    <3>4. Admitted'
      BY <1>0, <1>2, <1>3, <2>1, <3>1, <3>3 DEF OpenCloseTypes
    <3> QED BY <2>1, <3>2, <3>4 DEF OpenCloseInv, Drift, Stale
  <2> QED BY <2>2, <2>3
<1>7. ASSUME NEW t \in Threads, OpenClose!LoadOpen(t) \/ OpenClose!LoadClose(t)
      PROVE  Past' >= 0 /\ Drift' /\ Stale' /\ Admitted'
  <2>1. closing' = closing /\ opening' = opening /\ busy' = busy
    <3>1. OpenClose!Goto(t, "oload", "ostore") \/ OpenClose!Goto(t, "cload", "cstore")
      BY <1>7 DEF OpenClose!LoadOpen, OpenClose!LoadClose, OpenClose!Load
    <3>2. CASE OpenClose!Goto(t, "oload", "ostore")
      BY <1>2, <3>2, OpenCloseMoves DEF Busy
    <3>3. CASE OpenClose!Goto(t, "cload", "cstore")
      BY <1>2, <3>3, OpenCloseMoves DEF Busy
    <3> QED BY <3>1, <3>2, <3>3
  <2>2. /\ UNCHANGED <<count, files, overlaps>> /\ reg' = [reg EXCEPT ![t] = count]
        /\ At({"ostore", "cstore"})' = At({"ostore", "cstore"}) \cup {t}
    BY <1>2, <1>7
       DEF OpenClose!LoadOpen, OpenClose!LoadClose, OpenClose!Load, OpenClose!Goto, At, OpenCloseTypes
  <2>3. Exact' = Exact /\ Past' = Past
    BY <1>2, <1>3, <2>1, <2>2
  <2>4. Stale'
    BY <1>2, <2>2, <2>3 DEF OpenCloseInv, OpenCloseTypes, Drift, Stale, At
  <2> QED BY <1>3, <2>1, <2>2, <2>3, <2>4 DEF OpenCloseInv, Drift, Admitted
\* A store makes the registers of the others stale by one more, and the call
\* that returns is one more that has overlapped them.
<1>8. ASSUME NEW t \in Threads, OpenClose!StoreOpen(t) PROVE Past' >= 0 /\ Drift' /\ Stale' /\ Admitted'
  <2>1. closing' = closing /\ opening' = opening - 1 /\ busy' = busy - 1
    BY <1>2, <1>8, OpenCloseMoves DEF OpenClose!StoreOpen, OpenClose!Store, Busy
  <2>2. /\ count' = reg[t] + 1 /\ files' = files + 1 /\ overlaps' = overlaps
        /\ reg' = [reg EXCEPT ![t] = 0] /\ t \in At({"ostore", "cstore"})
        /\ At({"ostore", "cstore"})' = At({"ostore", "cstore"}) \ {t}
    BY <1>2, <1>8 DEF OpenClose!StoreOpen, OpenClose!Store, OpenClose!Goto, At, OpenCloseTypes
  <2>3. Exact' = Exact + 1 /\ Past' = Past + (IF busy = 1 THEN 0 ELSE 1)
    BY <1>2, <1>3, <2>1, <2>2, CountsAreNatural DEF OpenCloseTypes, Number
  <2>4. busy = 1 => At({"ostore", "cstore"})' = {}
    <3>1. At({"ostore", "cstore"})' \subseteq At(Busy)'
      BY DEF At, Busy
    <3> QED BY <1>2, <2>1, <3>1, CountsAreNatural DEF Number
  <2>5. reg[t] - Exact \in (-Past)..Past /\ reg[t] \in Int /\ Past \in Int /\ Exact \in Int
    BY <1>2, <2>2 DEF OpenCloseInv, Stale, At, OpenCloseTypes
  <2>6. Past' >= 0 /\ Drift'
    BY <2>2, <2>3, <2>5 DEF OpenCloseInv, Drift
  <2>7. Stale'
    BY <1>2, <2>2, <2>3, <2>4, <2>5 DEF OpenCloseInv, OpenCloseTypes, Stale, At
  <2>8. Admitted'
    BY <1>0, <1>2, <1>3, <2>1, <2>2 DEF OpenCloseInv, OpenCloseTypes
  <2> QED BY <2>6, <2>7, <2>8
<1>9. ASSUME NEW t \in Threads, OpenClose!Close(t) PROVE Past' >= 0 /\ Drift' /\ Stale' /\ Admitted'
  <2>1. closing' = closing + 1 /\ opening' = opening /\ busy' = busy + 1
    BY <1>2, <1>9, OpenCloseMoves DEF OpenClose!Close, OpenClose!Call, Busy
  <2>2. /\ UNCHANGED <<count, reg>> /\ files' = files - 1
        /\ overlaps' = overlaps + (IF busy = 0 THEN 0 ELSE 1)
        /\ At({"ostore", "cstore"})' = At({"ostore", "cstore"})
    BY <1>2, <1>9 DEF OpenClose!Close, OpenClose!Call, OpenClose!Goto, At, OpenCloseTypes
  <2>3. Past' = Past /\ Exact' = Exact
    BY <1>2, <1>3, <2>1, <2>2 DEF OpenCloseTypes
  <2>4. Admitted'
    BY <1>0, <1>2, <1>3, <2>1, <2>2 DEF OpenCloseInv, OpenCloseTypes
  <2> QED BY <2>2, <2>3, <2>4 DEF OpenCloseInv, Drift, Stale
<1>10. ASSUME NEW t \in Threads, OpenClose!StoreClose(t) PROVE Past' >= 0 /\ Drift' /\ Stale' /\ Admitted'
  <2>1. closing' = closing - 1 /\ opening' = opening /\ busy' = busy - 1
    BY <1>2, <1>10, OpenCloseMoves DEF OpenClose!StoreClose, OpenClose!Store, Busy
  <2>2. /\ count' = reg[t] - 1 /\ files' = files /\ overlaps' = overlaps
        /\ reg' = [reg EXCEPT ![t] = 0] /\ t \in At({"ostore", "cstore"})
        /\ At({"ostore", "cstore"})' = At({"ostore", "cstore"}) \ {t}
    BY <1>2, <1>10 DEF OpenClose!StoreClose, OpenClose!Store, OpenClose!Goto, At, OpenCloseTypes
  <2>3. Exact' = Exact - 1 /\ Past' = Past + (IF busy = 1 THEN 0 ELSE 1)
    BY <1>2, <1>3, <2>1, <2>2, CountsAreNatural DEF OpenCloseTypes, Number
  <2>4. busy = 1 => At({"ostore", "cstore"})' = {}
    <3>1. At({"ostore", "cstore"})' \subseteq At(Busy)'
      BY DEF At, Busy
    <3> QED BY <1>2, <2>1, <3>1, CountsAreNatural DEF Number
  <2>5. reg[t] - Exact \in (-Past)..Past /\ reg[t] \in Int /\ Past \in Int /\ Exact \in Int
    BY <1>2, <2>2 DEF OpenCloseInv, Stale, At, OpenCloseTypes
  <2>6. Past' >= 0 /\ Drift'
    BY <2>2, <2>3, <2>5 DEF OpenCloseInv, Drift
  <2>7. Stale'
    BY <1>2, <2>2, <2>3, <2>4, <2>5 DEF OpenCloseInv, OpenCloseTypes, Stale, At
  <2>8. Admitted'
    BY <1>0, <1>2, <1>3, <2>1, <2>2 DEF OpenCloseInv, OpenCloseTypes
  <2> QED BY <2>6, <2>7, <2>8
<1> QED
  BY <1>5, <1>6, <1>7, <1>8, <1>9, <1>10 DEF OpenClose!Next

-----------------------------------------------------------------------------
(* Steps of hello_counted *)

LEMMA HelloParameters ==
    /\ TextLength \in Nat /\ Counts \subseteq Nat /\ ShortCopies \subseteq Nat /\ MaxBytes \in Nat
    /\ \A x \in Nat : Hello!Digits(x) \in Nat
    /\ Hello!Junk \subseteq Nat
BY ParametersAssumption DEF Hello!Parameters, Hello!Digits, Hello!Junk

LEMMA HelloInvStep == ASSUME HelloInv, Hello!Next PROVE HelloInv'
<1> USE DEF HelloInv, HelloTypes, HelloAlone, InUse, Hello!At, At, Hello!Goto, Hello!heap
<1>1. ASSUME NEW t \in Threads, Hello!Open(t) PROVE HelloInv'
  BY <1>1, HelloParameters DEF Hello!Open
<1>2. ASSUME NEW t \in Threads, Hello!OpenFails(t) PROVE HelloInv'
  BY <1>2 DEF Hello!OpenFails
<1>3. ASSUME NEW t \in Threads, Hello!Reset(t) PROVE HelloInv'
  BY <1>3 DEF Hello!Reset, Hello!Put
<1>4. ASSUME NEW t \in Threads, Hello!Read(t) PROVE HelloInv'
  BY <1>4, HelloParameters DEF Hello!Read, Hello!Counted
<1>5. ASSUME NEW t \in Threads, Hello!ReadFails(t) \/ Hello!Close(t) PROVE HelloInv'
  BY <1>5 DEF Hello!ReadFails, Hello!Close
<1>6. ASSUME NEW t \in Threads, Hello!Add(t) PROVE HelloInv'
  BY <1>6, HelloParameters DEF Hello!Add, Hello!Put, Hello!Counted
<1>7. ASSUME NEW t \in Threads, Hello!Free(t) PROVE HelloInv'
  BY <1>7 DEF Hello!Free
<1> QED
  BY <1>1, <1>2, <1>3, <1>4, <1>5, <1>6, <1>7 DEF Hello!Next

-----------------------------------------------------------------------------
(* One module is loaded and stays loaded. *)

LEMMA InitIInv == Init => IInv
<1> SUFFICES ASSUME Init PROVE IInv
  OBVIOUS
<1>0. Size \in Nat
  BY ParametersAssumption DEF Buffer!Parameters
<1>1. /\ pc = [t \in Threads |-> "idle"]
      /\ want = [t \in Threads |-> 0] /\ n = [t \in Threads |-> 0]
      /\ available = 0 /\ writable = Size
  BY DEF Init, BufferSync!Init
<1>2. \A L : "idle" \notin L => At(L) = {} /\ BufferSync!At(L) = {} /\ Buffer!At(L) = {}
  BY <1>1 DEF At, BufferSync!At, Buffer!At
<1>3. SyncInv
  BY <1>0, <1>1, <1>2
     DEF SyncInv, SyncTypes, SyncLabels, SyncLocks, SyncCopies, SyncSum, Reading, Writing,
         BufferSync!NoLostWakeUp
<1>4. BufferInv
  <2>1. offset = [t \in Threads |-> 0] /\ length = 0 /\ shrunk = FALSE
    BY DEF Init, Buffer!Init
  <2>2. Buffer!InBounds /\ Buffer!NoLostWakeUp
    BY <1>2, <2>1 DEF Buffer!InBounds, Buffer!NoLostWakeUp
  <2>3. BufferTypes /\ BufferWrites
    <3>1. BufferTypes
      <4>1. shrunk \in BOOLEAN
        BY <2>1
      <4>2. length \in 0..Size
        BY <1>0, <2>1
      <4> QED BY <1>1, <2>1, <4>1, <4>2 DEF BufferTypes
    <3> QED BY <3>1, <1>2 DEF BufferWrites
  <2> QED BY <2>2, <2>3 DEF BufferInv
<1>5. OpenCloseInv
  <2>1. At(Busy) = {} /\ Cardinality(At({"cload", "cstore"})) = 0 /\ Cardinality(At({"oload", "ostore"})) = 0
    BY <1>2, CountsAreNatural DEF Busy
  <2>2. OpenCloseTypes /\ Stale /\ files = 0 /\ count = 0 /\ overlaps = 0
    BY <1>1, <1>2 DEF Init, OpenClose!Init, OpenCloseTypes, Stale
  <2>3. Past = 0 /\ Exact = 0
    BY <2>1, <2>2 DEF Past, Exact
  <2> QED
    BY <2>1, <2>2, <2>3, ParametersAssumption DEF OpenCloseInv, Drift, Admitted, OpenClose!Parameters
<1>6. HelloInv
  <2>1. offset = [t \in Threads |-> 0] /\ live = {} /\ value = 0 /\ overlapped = FALSE
    BY DEF Init, Hello!Init
  <2>2. HelloTypes
    BY <1>1, <2>1 DEF HelloTypes
  <2>3. HelloAlone
    BY <1>2, <2>1 DEF HelloAlone, InUse
  <2> QED BY <2>2, <2>3 DEF HelloInv
<1> QED BY <1>3, <1>4, <1>5, <1>6 DEF Init, IInv

LEMMA IInvStep == IInv /\ [Next]_vars => IInv'
<1> SUFFICES ASSUME IInv, [Next]_vars PROVE IInv'
  OBVIOUS
<1>1. CASE BufferSyncStep
  BY <1>1, SyncInvStep DEF IInv, BufferSyncStep
<1>2. CASE BufferStep
  BY <1>2, BufferInvStep DEF IInv, BufferStep
<1>3. CASE OpenCloseStep
  BY <1>3, OpenCloseInvStep DEF IInv, OpenCloseStep
<1>4. CASE HelloStep
  BY <1>4, HelloInvStep DEF IInv, HelloStep
<1>5. CASE UNCHANGED vars
  BY <1>5 DEF vars, bufferSyncVars, bufferVars, openCloseVars, helloVars,
     IInv, SyncInv, SyncTypes, SyncLocks, SyncCopies, SyncSum, BufferSync!NoLostWakeUp, BufferSync!At, At,
     BufferInv, BufferTypes, BufferWrites, Buffer!InBounds, Buffer!NoLostWakeUp, Buffer!At,
     OpenCloseInv, OpenCloseTypes, Past, Exact, Drift, Stale, Admitted,
     HelloInv, HelloTypes, HelloAlone
<1> QED BY <1>1, <1>2, <1>3, <1>4, <1>5 DEF Next

THEOREM Invariance == Spec => []IInv
BY InitIInv, IInvStep, PTL DEF Spec

-----------------------------------------------------------------------------
\* mybuffer_sync.c: whatever its readers and writers do, every byte of the
\* buffer is in one of the two counters or on its way between them.
THEOREM BytesConserved == Spec => []Conserved
<1>1. IInv => Conserved
  <2> SUFFICES ASSUME SyncInv PROVE BufferSync!Conserved
    BY DEF IInv, Conserved
  <2>1. \A L : BufferSync!At(L) = At(L)
    BY DEF BufferSync!At, At
  <2>2. ASSUME NEW label, NEW t \in At({label}), \A s, u \in At({label}) : s = u
        PROVE  BufferSync!Carried(label) = n[t]
    BY <2>1, <2>2 DEF BufferSync!Carried
  <2>3. ASSUME NEW label, At({label}) = {} PROVE BufferSync!Carried(label) = 0
    BY <2>1, <2>3 DEF BufferSync!Carried
  <2>4. \A label \in {"radd", "wadd"} : \A s, t \in At({label}) : s = t
    BY DEF SyncInv, SyncLocks, At, Reading, Writing
  <2>5. /\ \A t \in At({"radd"}) : BufferSync!Carried("radd") = n[t] /\ n[t] \in Nat
        /\ \A t \in At({"wadd"}) : BufferSync!Carried("wadd") = n[t] /\ n[t] \in Nat
        /\ At({"radd"}) = {} => BufferSync!Carried("radd") = 0
        /\ At({"wadd"}) = {} => BufferSync!Carried("wadd") = 0
    <3>1. \A label, t : t \in At({label}) => n[t] \in Nat
      BY DEF SyncInv, SyncTypes, At
    <3> QED BY <3>1, <2>2, <2>3, <2>4
  <2>6. available + writable + BufferSync!Carried("radd") + BufferSync!Carried("wadd") = Size
    <3>1. CASE At({"radd"}) = {} /\ At({"wadd"}) = {}
      <4>1. At({"radd", "wadd"}) = {}
        BY <3>1 DEF At
      <4> QED BY <3>1, <4>1, <2>5 DEF SyncInv, SyncTypes, SyncSum
    <3>2. ASSUME NEW r \in At({"radd"}), At({"wadd"}) = {}
          PROVE  available + writable + BufferSync!Carried("radd") + BufferSync!Carried("wadd") = Size
      BY <3>2, <2>5 DEF SyncInv, SyncTypes, SyncSum
    <3>3. ASSUME NEW w \in At({"wadd"}), At({"radd"}) = {}
          PROVE  available + writable + BufferSync!Carried("radd") + BufferSync!Carried("wadd") = Size
      BY <3>3, <2>5 DEF SyncInv, SyncTypes, SyncSum
    <3>4. ASSUME NEW r \in At({"radd"}), NEW w \in At({"wadd"})
          PROVE  available + writable + BufferSync!Carried("radd") + BufferSync!Carried("wadd") = Size
      BY <3>4, <2>5 DEF SyncInv, SyncTypes, SyncSum
    <3> QED BY <3>1, <3>2, <3>3, <3>4
  <2>7. BufferSync!Carried("radd") \in Nat /\ BufferSync!Carried("wadd") \in Nat
    BY <2>5
  <2>8. available \in 0..Size /\ writable \in 0..Size
    BY <2>6, <2>7 DEF SyncInv, SyncTypes
  <2> QED BY <2>1, <2>4, <2>6, <2>8 DEF BufferSync!Conserved
<1> QED BY <1>1, Invariance, PTL

\* mybuffer_sync.c and mybuffer.c: nobody sleeps on a condition that is true
\* unless whoever made it true is about to wake the queue.
THEOREM NoWakeUpIsLost == Spec => []NoLostWakeUp
<1>1. IInv => NoLostWakeUp
  BY DEF IInv, SyncInv, BufferInv, NoLostWakeUp
<1> QED BY <1>1, Invariance, PTL

\* mybuffer.c: as long as no write shortens the buffer, no read copies more than
\* it holds, whatever sizes are asked for and however the calls interleave.
THEOREM ReadsInBounds == Spec => []InBounds
<1>1. IInv => InBounds
  BY DEF IInv, BufferInv, InBounds
<1> QED BY <1>1, Invariance, PTL

\* openclose.c: count is wrong by at most the number of overlapping calls, and
\* no more files are open than MAX_DEVICES and these.
THEOREM OpensLimited == Spec => []OpenLimit
<1>1. IInv => OpenLimit
  <2> SUFFICES ASSUME OpenCloseInv PROVE OpenClose!OpenLimit
    BY DEF IInv, OpenLimit
  <2>1. Cardinality(At(Busy)) \in Nat /\ Cardinality(At({"cload", "cstore"})) \in Nat
        /\ Cardinality(At({"oload", "ostore"})) \in Nat
        /\ (Cardinality(At(Busy)) = 0 <=> At(Busy) = {})
    BY CountsAreNatural
  <2>2. OpenClose!At({"cload", "cstore"}) = At({"cload", "cstore"})
    BY DEF OpenClose!At, At
  <2>3. Past <= overlaps /\ MaxDevices \in Nat
    BY <2>1, ParametersAssumption DEF Past, OpenCloseInv, OpenCloseTypes, OpenClose!Parameters
  <2>4. count - Exact \in (-overlaps)..overlaps
    BY <2>1, <2>3 DEF OpenCloseInv, OpenCloseTypes, Drift, Exact, Past
  <2>5. files <= MaxDevices + overlaps
    BY <2>1, <2>3 DEF OpenCloseInv, OpenCloseTypes, Admitted
  <2>6. OpenClose!Cardinality(OpenClose!At({"cload", "cstore"})) = Cardinality(At({"cload", "cstore"}))
    BY <2>2, Zenon DEF OpenClose!Cardinality, Cardinality
  <2>7. count - (files + OpenClose!Cardinality(OpenClose!At({"cload", "cstore"}))) \in (-overlaps)..overlaps
    BY <2>4, <2>6, Zenon DEF Exact
  <2> QED BY <2>5, <2>7, Zenon DEF OpenClose!OpenLimit
<1> QED BY <1>1, Invariance, PTL

\* hello_counted.c: a process that is alone with the device is told what it has
\* read, and its counter is allocated exactly while its file is open.
THEOREM AloneIsExact == Spec => []SoleReader
<1>1. IInv => SoleReader
  <2> SUFFICES ASSUME HelloInv PROVE Hello!SoleReader
    BY DEF IInv, SoleReader
  <2>1. Hello!At({"idle"}) = Threads <=> At(InUse) = {}
    BY DEF HelloInv, HelloTypes, Hello!At, At, InUse
  <2>2. Hello!At({"open", "add"}) = At({"open", "add"}) /\ (At({"open", "add"}) # {} => At(InUse) # {})
    BY DEF Hello!At, At, InUse
  <2> QED
    BY <2>1, <2>2 DEF HelloInv, HelloAlone, Hello!SoleReader, Hello!Counted
<1> QED BY <1>1, Invariance, PTL
=============================================================================
