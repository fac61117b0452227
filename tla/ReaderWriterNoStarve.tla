------------------------- MODULE ReaderWriterNoStarve -------------------------
(***************************************************************************)
(* "Mutual Exclusion Problems/reader-writer-nostarve.c": reader-writer.c   *)
(* with a turnstile in front.  Readers pass through it; a writer keeps it  *)
(* from before it waits for writelock until it is done, and gives it back  *)
(* before it gives back writelock.                                         *)
(***************************************************************************)
EXTENDS ReaderWriter

VARIABLE turnstile      \* the third semaphore

nvars == <<vars, turnstile>>

NSInit == Init /\ turnstile = 1

\* sem_wait(turnstile) of a reader; it is between the wait and the post.
EnterTurnstile(t) ==
    /\ t \in Readers /\ i[t] < Loops
    /\ Goto(t, "idle", "gate")
    /\ Wait(turnstile)
    /\ UNCHANGED <<i, readers, locks, data, main>>

\* Mutant: the reader keeps the turnstile closed behind it.
LeaveTurnstileClosed(t) ==
    /\ Goto(t, "gate", "entry")
    /\ UNCHANGED <<turnstile, i, readers, locks, data, main>>

\* Mutant: the reader goes on without sem_wait(mutex) (line 41).
LeaveTurnstileUnlocked(t) ==
    /\ Goto(t, "gate", "count")
    /\ Post(turnstile)
    /\ UNCHANGED <<i, readers, locks, data, main>>

LeaveTurnstile(t) ==
    /\ Goto(t, "gate", "entry")
    /\ Post(turnstile)
    /\ UNCHANGED <<i, readers, locks, data, main>>

\* Mutant: the writer only passes through the turnstile, like a reader.
PassTurnstile(t) ==
    /\ t \in Writers /\ i[t] < Loops
    /\ Goto(t, "idle", "wentry")
    /\ turnstile > 0
    /\ UNCHANGED <<turnstile, i, readers, locks, data, main>>

\* A writer blocks the readers, and the other writers, that come after it.
BlockTurnstile(t) ==
    /\ t \in Writers /\ i[t] < Loops
    /\ Goto(t, "idle", "wentry")
    /\ Wait(turnstile)
    /\ UNCHANGED <<i, readers, locks, data, main>>

\* The writer prints the value and lets the others come up to writelock.
UnblockTurnstile(t) ==
    /\ Goto(t, "print", "wrelease")
    /\ Post(turnstile)
    /\ UNCHANGED <<i, readers, locks, data, main>>

\* What this program does differently.
Turnstile(t) ==
    \/ EnterTurnstile(t) \/ LeaveTurnstile(t)
    \/ BlockTurnstile(t) \/ UnblockTurnstile(t)

\* What it shares with reader-writer.c.
Shared(t) ==
    /\ ReadSection(t) \/ WriteSection(t) \/ Finish(t)
    /\ UNCHANGED turnstile

NSThread(t) == Turnstile(t) \/ Shared(t)

NSMain == Main /\ UNCHANGED turnstile

NSTerminated == main = "ended" /\ UNCHANGED nvars

NSNext == NSMain \/ (\E t \in Threads : NSThread(t)) \/ NSTerminated

NSSpec == NSInit /\ [][NSNext]_nvars

NSFairSpec ==
    NSSpec /\ WF_nvars(NSMain) /\ \A t \in Threads : WF_nvars(NSThread(t))

-----------------------------------------------------------------------------
\* A reader in the turnstile has not started its section as far as
\* reader-writer.c is concerned.
plainPc == [t \in Threads |-> IF pc[t] = "gate" THEN "idle" ELSE pc[t]]

Plain == INSTANCE ReaderWriter WITH pc <- plainPc

NSTypeOK ==
    /\ pc \in [Threads -> Labels \cup {"gate"}]
    /\ \A t \in At({"gate"}) : t \in Readers /\ i[t] < Loops
    /\ Plain!TypeOK
    /\ turnstile \in Nat

InTurnstile == {"gate", "wentry", "load", "store", "print"}

\* One thread at a time is in the turnstile or keeps it; a writer that waits
\* for writelock, or holds it, keeps the others out of the queue for it.
OneInTurnstile == turnstile + Cardinality(At(InTurnstile)) = 1

\* The turnstile only takes behaviours away: this lock is the lock of
\* reader-writer.c, with everything that holds of it.
ImplementsPlain == Plain!Spec

=============================================================================
