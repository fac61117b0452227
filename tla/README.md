# TLA+ models of C-advanced-problems

The repository is a collection of small C programs: exercises in mutual
exclusion, concurrent data structures, socket servers and Linux kernel modules.
Nearly all of them are about several threads or processes that share a few
variables, so this project takes each program for a system of its own: a module
with the program's variables and one action per step that another thread can
observe, the abstract specification its header comment promises where there is
one, a TLC configuration with small sets of threads (programs of the same kind share
a run, whose initial states choose the program), and proofs of the safety
properties that hold for every number of threads, nodes, processes or clients.

## 1. The repository's parts

`MEP` is `src/Mutual Exclusion Problems`, `MDS` is `src/Multithreaded
Datastructures`, `KM` is `src/Kernel Modules`.

| part | state | operations | what is hard | what makes it correct |
|---|---|---|---|---|
| `MEP/mutex-nostarve.c` | two room counters, three semaphores, `critical` | acquire, release | counters are touched outside the mutex; no order among waiters | exclusion, exact counters, nobody is overtaken for ever |
| `MEP/barrier.c` | `count`, two semaphores | barrier | `count` is read after the mutex was released | no "after" before the last "before"; nobody left behind |
| `MEP/reader-writer.c` | `readers`, two semaphores, `value` | two acquire/release pairs | the first reader waits while it holds the mutex | readers together, a writer alone; no lost write |
| `MEP/reader-writer-nostarve.c` | the same and a turnstile | the same | order of turnstile, mutex and writelock | the above, and writers get in |
| `MEP/rendezvous.c`, `fork-join.c` | one or two semaphores | post, wait | - | as the barrier, for two threads |
| `MDS/queue.c` | list with head, tail and two locks; the heap | enqueue, dequeue | the ends share a node; memory freed outside the lock is reused | linearizable FIFO, no access to freed memory, no leak |
| `MDS/linked-list.c` | list with a lock per node | append | lock coupling | no lost append, no circle of locks |
| `MDS/sloppy-counter.c` | a global and ten local counters, a lock each; `tw` on main's stack | increment, get | all threads read their id from one stack slot | no lost increment, bounded error |
| `MDS/simple-counter.c` | a counter and a lock | increment, get | - | no lost increment |
| `src/Mutual Exclusion/*` | locks, a flag, a condition variable | two workers each | lock order; signals | termination, or a known deadlock |
| `KM/hw5/.../mybuffer_sync` | two atomic counters, two spin locks, two wait queues, the bytes | read, write | two locks for one buffer, sleeping and waking, partial copies, signals | no byte of capacity lost, no lost wake-up |
| `KM/hw4/.../openclose` | `count` | open, close | an unlocked counter | at most MAX_DEVICES opens |
| `KM/hw4/.../mybuffer` | bytes, `length`, file offset | read, write | no lock, `size_t` subtraction | a read returns what was written |
| `KM/hw5/.../hello_counted` | one global pointer | open, read, close | every open replaces it | each open has a counter of its own |
| `KM/.../hello, hello_kworld, mynull, myzero, simple_chardev` | none shared | read, write | init's error ladder | what was acquired is released, once |
| `KM/hw5/.../mykthread, mysemaphore` | threads, a completion, a counter | init, thread, exit | exit against a thread that may have ended | no thread outlives the module |
| `KM/hw5/.../mytimer, myworkqueue, mytasklet` | a timer, a work item, a tasklet | handler, init, exit | handlers that arm themselves again | no handler runs after exit |
| `src/Multithreaded Server implementations/*` | socket, `server` on the heap, a signal flag | accept, read, answer | error paths that free and go on; signals | a request is answered once, the server ends when told to |
| `KM/hw6/complexserver` | `counter.txt` and a mutex; an atomic counter | two requests | exceptions under the mutex, crashes between truncate and write | each request counted once |
| `KM/hw6/easyserver` | a listening socket | accept, answer | calls whose result is not looked at | whoever connects is answered |
| `sysinfo`, `src/Simple Datastructures`, `src/IO-timer`, `src/Translation lookaside Buffer Performance` | none that lasts | straight-line code | - | - |
| kernel, busybox, dropbear configurations, shell scripts | - | - | - | not programs with state |

The programs do not call each other; within a program the threads interact
through the shared variables listed and through semaphores, mutexes, wait queues
or spin locks only. `threads.c` wraps the pthread calls with an assertion.
PROJECT.json lists every part with its status, and the hazards at the lines
where they bite (of several of the same kind, one).

## 2. Modules

| module | models | state and actions |
|---|---|---|
| `Semaphores` | libpthread's semaphores, the wrappers of `threads.c` | `Wait`, `Post`, `Lock`, `Unlock` as action fragments |
| `ThreadLabels` | threads and where they are | `pc`, `Goto`, `At(labels)` |
| `NsMutex` | `mutex-nostarve.c` | one action per semaphore call or unprotected access of `ns_mutex_acquire` and `ns_mutex_release`; `main` creates and joins |
| `NsMutexClients` | the same lock under callers that come back | adds `Again` and the history `bypassed` |
| `Barrier`, `Rendezvous` | `barrier.c` and its promise | `Check` is the unlocked comparison of line 47 |
| `ReaderWriter`, `RWLock` | `reader-writer.c` and its promise | `value++` is `Load` and `Store` |
| `ReaderWriterNoStarve` | `reader-writer-nostarve.c` | EXTENDS `ReaderWriter`: only the turnstile's actions are new |
| `ReaderWriterClients` | that lock under threads that come back | adds `Again` and the histories `overtakers`, `owed` |
| `TwoLockQueue`, `FifoQueue` | `queue.c` and its promise | a heap `allocated`, `next`; `Free` makes an address available again |
| `LinkedList` | `linked-list.c` | one action per lock operation of the walk |
| `SloppyCounter` | `sloppy-counter.c` | `tw` is main's stack slot; `ReadId` reads it before each increment |
| `LockPrograms` | five demonstrations of `src/Mutual Exclusion`, `simple-counter.c`, `rendezvous.c`, `fork-join.c`, the wrappers of `mythreads.h` | a program is a sequence of calls for each thread; one action per call. `rendezvous` implements `Rendezvous` |
| `CharDevice` | `ModInit` and `ModExit` of twelve kernel modules | a driver is a table: what init gets and where a failure leads, the ladder, what exit gives back; `Obtain` and `Fail`, `Undo`, `ExitStep`, with processes that open the device meanwhile |
| `MyBufferSync` | `mybuffer_sync.c` | `driver_read` and `driver_write`, each statement on shared data an action |
| `MyBuffer` | `mybuffer.c` | the same for the buffer without locks, its differences modulo `Word` |
| `OpenClose` | `openclose.c` | `count++` and `count--` are a load and a store |
| `HelloCounted` | `hello_counted.c` | one global pointer `counted`, cells that are allocated and freed, the offset of each file |
| `KernelThreads` | `mykthread.c`, `mysemaphore.c` | the threads' rounds, SIGTERM, `completions`, and rmmod thread by thread |
| `DeferredWork` | `mytimer.c`, `myworkqueue.c`, `mytasklet.c` | an item that the kernel queues and calls, `jiffies` modulo `W`, the statistics, and the three ways to take it back |
| `Servers` | the five socket servers, `easy_server.c`, `file-server-client.c` | a server is a table of what it calls before, in and after its loop, each call with what stands under its test; one action per call; the heap (`live`: the server's own memory and the blocks that requests allocated), how far a message goes (`extent`), whether an error branch was entered (`erred`), the disk, the backlog, SIGINT, Enter, and clients that go away |
| `HttpCounter` | `MyController.hpp` | the read, truncate and write of `counter.txt` under the mutex, the atomic, and `Restart` |
| `MCNsMutex` | - | workers that acquire once, as in the program, or returning clients |
| `MCKernelModules` | - | one module from insmod to rmmod: `CharDevice`, `KernelThreads` or `DeferredWork` |
| `MCKernelFiles` | - | one device and the processes that use it: the four modules with shared state |
| `MCPrograms` | - | one program that creates threads and ends: EXTENDS `TwoLockQueue`, and takes `LockPrograms`, `LinkedList` and `SloppyCounter` |
| `MCServers` | - | `Servers` or `HttpCounter` |
| other `MC*` | - | symmetry sets; constants are in the `.cfg` files |
| `ThreadLabelsProofs` | - | lemmas on counting threads at labels |
| `NsMutexProofs`, `BarrierProofs`, `ReaderWriterProofs` | - | theorems on the mutex and its clients; on the barrier; on both reader/writer locks and their clients |
| `DatastructuresProofs` | - | theorems on the queue, the list, the sloppy counter and the small programs |
| `MCKernelModulesProofs`, `MCKernelFilesProofs`, `MCServersProofs` | - | theorems on what the module of the same name composes |

The four composing modules take the components with `INSTANCE` (`MCPrograms` extends
the queue, whose names are without a prefix there); the variables of the
parts that were not chosen never change, and a property of a part is stated for
the states in which it was chosen.

Definitions keep the source's names for state (`warteraum1`, `drehkreuz2`,
`readers`, `writelock`, `tw`, `counted`). Operators whose comment begins with
`Mutant:` are plausible faults of a definition (a missing lock, an off-by-one, a
wrong label): it is replaced by its mutant to see that a property notices. They
are not part of any specification.

How fine the steps are: every operation that can block, and every access to
shared data that is not protected at that moment, is a step of its own.
Accesses under a lock are merged with the operation next to them when no other
thread can tell the difference; `RaceFree`, `LockSound`, `BarrierSafe` and
`LocksOwned` check the exclusion such a merge relies on. A protected `value++` is
still a load and a store, so that losing a write is possible in the model.
Printing and timing are left out, except where messages are what the program is
about (`Rendezvous`, `PrintsTrue`, what a client of a server prints). The order in
which main creates threads is left open where the threads are alike; in
`SloppyCounter`, where their order is what `tw` depends on, and in
`LockPrograms`, it is the code's.

Memory model: sequential consistency. The semaphore programs synchronise every
conflicting access (`RaceFree` says so for the mutex; `Barrier`'s read of `count`
is the exception, an aligned int, read once in a build without optimisation as
the Makefiles do it). The unlocked pointer read in `queue.c` (line 55), the
reads of `tw`, and the flag that `main-signal.c` spins on are single loads for the
same reason, and so are the plain ints of the kernel modules.

Undefined behaviour: memory used after it was freed, or through an error
pointer, ends a behaviour in the state `undefined` (`CharDevice`, `Servers`) or
`oops` (`KernelThreads`), because nothing can be said of what follows; a read of
memory that nobody has written, or that was freed, yields any of a few values
(`HelloCounted`, the sets after a failed `select`). The properties say under
which conditions that can happen.

## 3. What is checked

| run | instance | properties |
|---|---|---|
| `ns_mutex` | 3 workers, or 3 returning clients | `MutualExclusion`, `RaceFree`, `Turnstiles`, `BoundedBypass` with bound 2 (1 is not enough), `NoStarvation` |
| `barrier` | 4 children | `BarrierSafe`, `Implements` (Rendezvous), `Termination` |
| `reader_writer` | 2 readers, 2 writers, 2 rounds | `LockSound`, `ValueExact`, `Implements` (RWLock), `Termination` |
| `nostarve` | 2 readers, 2 writers, 2 rounds | `OneInTurnstile`, `ImplementsPlain` (ReaderWriter), `Termination` |
| `nostarve_clients` | 2 + 2 returning threads | `BoundedOvertaking`, `WriterEnters` |
| `nostarve_claim` | 2 readers, 1 writer | `WriterEntersNext`: violated |
| `queue` | 3 threads, 1 enqueue and 2 dequeues each, 4 addresses, symmetric | `HeapSound`, `Implements` (FifoQueue) |
| `programs` | the 8 small programs, the queue, the list and the sloppy counter; 3 threads in each of the last three, 1 enqueue and 1 dequeue each, 1 append, 3 increments with threshold 2; 2 spurious wake-ups | `NothingLost`, `Sloppiness`, `PrintsTrue`, `IsQueue` (FifoQueue), `Meets` (Rendezvous), `Termination` |
| `mybuffer_sync_claim` | 2 processes, 2 bytes | `ThreadSafe`: violated |
| `kernel_modules` | 12 drivers, 2 files; 2 kernel threads; 3 deferred items, jiffies modulo 7, interval 2, calls at most 4 jiffies late | `CleanRegistration`, `BuffersOutliveFiles`, `NothingLeftToRun`, `DelaysTrue`, `CountsToFour`, `GoesOnAndEnds` |
| `kernel_files` | 3 processes, symmetric; buffers of 2 bytes, requests up to 3, a word of 8 values, offsets up to 4; 2 devices, 3 overlapping calls; 3 cells, a text of 9 characters, requests of 4 and 20 bytes, copied whole or cut off after 0 or 4 bytes, 24 bytes counted | `Conserved`, `NoLostWakeUp`, `InBounds`, `OpenLimit`, `SoleReader` |
| `servers` | 6 servers, 2 clients, a path that names a file and one that does not; the web server with 2 threads, 2 counts, 1 restart | `Orderly`, `Shows`, `CountsGrow`, `Answered` |

Why the bounds are enough to be interesting:

* Mutex: with three threads one can be in the critical section, one in room 2 and
  one in room 1 or still arriving. Three clients suffice to be overtaken by two
  different ones, again and again. The proofs cover any number.
* Barrier: with four children several find the count complete at once, and one
  can be anywhere while they do.
* Reader/writer: two of each is a first and a last reader that are different
  threads, and a second writer behind the first; two rounds let a thread meet its
  own leftovers.
* Queue: dequeues outnumber enqueues, so the empty queue, where the two ends share
  the dummy, is reached again and again; four addresses are one more than the
  enqueues, so freed addresses are handed out again. The run `queue` looks at
  safety under symmetry, `programs` at the end of a shorter program without it.
* List: the third thread walks over a node the first appended while the second
  appends. Longer lists repeat that situation further from the head.
* Sloppy counter: three increments of a threshold of two leave a remainder, and
  three threads that all read main's slot end up with one, two or three counters.
* The small programs are whole; only `simple-counter.c` creates three threads in
  place of its own number. Two spurious wake-ups let a thread be woken again
  after it has gone back to sleep.
* Buffers: three processes are two of one kind and one of the other, asleep or
  awake; a capacity of two allows a partial copy of a partly full buffer, and
  requests of three ask for more than there can be. In `mybuffer`, a word of
  eight values is larger than any legal sum, so that only a difference below
  zero wraps; offsets go two beyond the buffer.
* Open count: two devices and three processes are one open too many; three
  overlaps let lost increments and lost decrements add up.
* Counted hello: 9 characters and two digits make the text grow from 10 to 11
  while it is read; one request is shorter and one longer than it; three cells
  for three processes never run out, so that a failing `kmalloc` is a choice.
* Init ladders: every call of every driver may fail, independently; two files
  are one that is closed and one that is left.
* Deferred work: seven jiffies wrap around within two delays; a delay may be
  exact, or one or two jiffies late.
* Servers: the second client comes while the first is served, or waits for a server that
  has stopped; longer queues repeat that. A missing file, a client that goes
  away, and one failure of each call are all among the steps of one round. Two
  threads and two counts let requests overlap and follow one another; after one
  restart the file is all that is left of two lives.

**What the runs found.** `reader-writer-nostarve.c` line 17 says that when the last
reader leaves "one writer enters next". A reader that passed the turnstile before
the writer, and has not yet taken `mutex`, may enter first (`nostarve_claim`);
what holds is that each reader overtakes a waiting writer at most once
(`BoundedOvertaking`) and that the writer gets in (`WriterEnters`).
`mybuffer_sync.c` line 15 calls the device threadsafe; its counters are
(`Conserved`, `NoLostWakeUp`), but a read and a write hold different locks and copy
out of and into the same bytes at the same time (`mybuffer_sync_claim`).

What the runs show to be right although it looks doubtful: the unlocked counters
of the mutex; the unlocked comparison of the barrier, where several children may
post it; the first reader that waits while holding `mutex`; the queue's free
outside its lock, even of the node `tail` still points to; the ids of the sloppy
counter, where threads share local counters and yet lose no increment, because the
local locks are there; rmmod of the two modules with threads, which neither hangs nor
leaves a thread behind when SIGTERM comes before the threads allow it; the delays of
the timer and the work item when jiffies wrap, and their nanoseconds, which start
as whatever `kmalloc` returned.

What holds only under a condition, which the property names, because the code
promises nothing more (no document or test of the repository contradicts it):

* `CleanRegistration`: a failure up to `cdev_add` leaves nothing behind but
  `mybuffer`'s allocations after a failed `alloc_chrdev_region`; a failure after it
  leaves the device registered although insmod refuses the module. The modules
  whose init ends in `return 0` stay loaded after a failure, and then rmmod may
  work on what is not there. `mybuffer_sync` never frees its memory, and
  `openclose` unregisters other numbers than it reserved.
* `BuffersOutliveFiles`: in every stage of the module an open file finds its buffer,
  with two exceptions, which the property names. A failed `kcalloc` goes unnoticed
  (`mybuffer.c` line 54, `mybuffer_sync.c` line 128, where a pointer is compared with
  `< 0`), and the operations work on a null pointer. When `class_create` fails, the
  ladder of `mybuffer_sync.c` (lines 142-155) frees `kernelmem` and leaves the device
  registered, and a file that was opened in between keeps on using it.
* `NothingLeftToRun`: `cancel_delayed_work` does not wait, so a work item that is
  running while rmmod cancels it schedules itself again.
* `InBounds`: until a write leaves less than the one before; from then on
  `length - offset` may wrap. `OpenLimit`: the count is wrong by at most the calls
  that overlapped. `SoleReader`: until a file is opened while another is in use.
* `Orderly`: until an error branch is entered, or SIGPIPE kills the server. `cleanExit`
  frees the server and returns, and the loop goes on with freed memory: every failed
  call of the select and file servers that is looked at, the answer to a missing file
  included, is followed by a use of what was freed. What is left of such a server is
  only that nothing else makes it use freed memory. Of a failed write nobody looks at
  the result (line 163 of `file-server.c`), and it changes nothing. Nor is all memory
  given back without a failure: the block `readFromFile` reads a file into is never
  freed (lines 71 and 155-165), so `file-server.c` keeps one for every file it serves;
  `Orderly` says that this is all that is left.
  `file-server-async.c` and `file-server-signals.c` look the file up under what follows
  the newline in the request, where the client sends none; so they never serve a
  file, and every request ends them. Ctrl-C while `file-server-signals.c` waits in
  `select` takes the same path; pressed anywhere else it is noticed after the
  next request only.
* `Shows`: what a client prints begins with the file it asked for, but need not be that
  file. `readFromFile` fills a block of exactly the file's size and does not terminate
  it, and `writeToClient` sends up to the first zero byte (lines 71-85): a file with a
  zero byte in it is cut off, and heap bytes follow any other one unless the byte
  behind the block happens to be zero (`extent` is "less", "more" or "exact"). The
  fixed messages are always exact.
* `Answered`: `simple-server.c` accepts one client and no other. `Enter` stops
  `file-server.c`, `file-server-async.c` and `select-server.c` only. The web
  server's mutex stays locked for ever once `counter.txt` holds something that
  `std::stoi` throws for.
* `CountsGrow`: unless a file could not be written, or the process was killed
  between the truncation of `counter.txt` and the write: then counting starts again.

### Fairness

Liveness is checked under weak fairness of each thread's steps and of main: the
scheduler lets every thread run that can, but a semaphore or mutex hands over to
any waiter (POSIX promises no order). A returning client is not obliged to return
(`Again` is not fair), and `NoStarvation` and `WriterEnters` hold although the other
clients may come back for ever. The programs terminate under the same assumption,
because their loops are finite; `main-deadlock.c` ends, or stops in the circle it
demonstrates, which `Termination` names and excludes for every other program.

* Kernel threads: time passes (`WakeUp`), and a call of rmmod goes on; nobody has to
  call it. Deferred work: jiffies pass, the kernel calls what is due, and `Exit` is
  strongly fair, because `del_timer_sync` and `tasklet_kill` try again until they
  find the function idle, and the function is idle for most of every interval.
* Servers: `Progress` makes the server take its next step without assuming that a
  call fails, except that a path that names no file must fail; clients that are
  connected send or give up, and receive. Nobody has to connect, to press Enter or
  Ctrl-C. The web server's requests go on; its mutex hands over to anybody, so no
  request is promised the mutex, only that whoever has it gives it back.

Deadlock is checked in every run. Where a program ends, or a module may stay
loaded and idle, a stuttering step (`Terminated`, `Done`, `Quiet`) is enabled in
exactly these states, so that a thread that waits for ever is still noticed.

## 4. What is proved

TLAPS checks the proofs; Z3, Zenon and LS4 are the provers. Every invariant and every
action property that a passing run checks is also a theorem, and so is every refinement.
A theorem holds for every value of the constants that the assumptions of the modules
allow:

* any finite set of threads (`ThreadsAssumption`); at least one child for the barrier
  (`BarrierAssumption`, which main asserts); any set of writers among the threads and
  any number of rounds (`ReaderWriterAssumption`);
* for the queue and the list any finite set of addresses with one more than are ever
  allocated (`QueueAssumption`, `LinkedList!Parameters`: `malloc` succeeds), and any
  number of operations;
* for the sloppy counter any threshold above zero and any number of increments; any
  number of threads of `simple-counter.c` and of wake-ups for no reason;
* for the devices any capacity and sizes of requests, and for `mybuffer` a word wider
  than an offset and a request together; for the deferred work any interval, and a delay
  shorter than the width of `jiffies`; `mysemaphore` has two threads, as in the code;
* any finite set of clients, any paths and files, where no path is also one of the names
  the model has for the other messages.

`BypassBounded` has one hypothesis more, a bound of two or more (with one, TLC
finds a counterexample). `NoIncrementIsLost` and `SloppinessBounded` have the counter's
parameters as their hypothesis, which `MCPrograms` assumes of the constants: there the
threads are the numbers from 0, as the ids of `sloppy-counter.c` are.

### Locks

* `NsMutexProofs`. The inductive invariant is `TypeOK`, `MutexHeld` (`mutex` is open, or
  one thread is in a section it protects), `OneToken` (the token is on one turnstile or
  with one thread), `CountsExact`, `SomebodyComes` (a thread about to reopen the first
  turnstile left somebody behind in room 1), `Phases` and `Incremented`.
  `MutualExclusion` is not inductive: it follows from the token, and the token's route
  depends on the room counters being exact, which in turn needs that the unlocked
  accesses exclude each other, which is the token again; hence one invariant for all of
  them. Results: `TypeCorrect`, `MutualExclusionHolds`, `RaceFreedom`, `CountsAreExact`,
  `PhasesAlternate`, `TurnstilesAlternate` (the property `Turnstiles` of the run: the
  two together), `NoLostIncrement`. Clients that come back preserve all of it but the
  counter: `ClientsExclude`. `BypassBounded` adds `Bypasses`: while a batch is let in,
  `u` gets past a `t` at `drehkreuz1` when it leaves that batch, and once more at most
  when it leaves the next one, which `t` is in; how often it may have done so until now
  depends on where both are and on which side the token is.
* `BarrierProofs`. `OpensLate` needs `CountExact` (the last child to count makes `count`
  equal to `threads`, and nobody before), and `NotForgotten` needs both: the step that
  counts last is followed by a comparison that must succeed. Results: `OpensOnlyLate`,
  `NoLostWakeUp`, `BarrierStaysOpen`, `CountIsExact`, and `BarrierIsSafe`, which is all
  four; `BarrierImplementsRendezvous`.
* `ReaderWriterProofs`. `OneSide` is preserved because the reader that finds `readers`
  equal to one, or zero, is the first, or the last: `ReadersExact`, with `MutexHeld`,
  says so. Results: `TypeCorrect`, `ReadersAreExact`, `OneSideOnly`, `NoReaderLockedIn`,
  and `LockIsSound`, which is the last three; `ReaderWriterImplementsRWLock`.
  `NoLostWrite` (`ValueExact`) needs `Counted`: `value` is the number of writes, each
  taken for a pair of a writer and a place in its loop, and a writer between its load
  and its store has a copy that is still `value`, because it is alone.
* In the same module, the lock with the turnstile. A reader in the turnstile is mapped
  to one that has not begun; each step is then a step of `ReaderWriter` or a stutter,
  and everything above carries over: `NoStarveImplementsPlain`. `TurnstileIsExclusive`:
  the semaphore and the threads in the turnstile add up to one. `OvertakingBounded` is
  an action property; its invariant says where threads are (`Places`) and that a reader
  that has overtaken the writer is not on its way in again, because it would have to
  pass the turnstile that the writer keeps (`Overtaken`).
* `ThreadLabelsProofs` has the two lemmas on counting threads at labels that all of
  these rest on (`CountsAreNatural`, `MoveCounts`): a step of one thread changes the
  number of threads at a set of labels by at most one.

### Data structures and small programs (`DatastructuresProofs`)

* Queue and list: the models walk the list with a recursive function (`Chain`), about
  which nothing could be concluded by induction over an operator; the proofs argue by a
  least counterexample instead (`Least`, from the well-foundedness of `<`), once, in
  `WalkIsList`: if the `next` fields of distinct nodes `q` lead from the head to NULL,
  the walk is `q`. All else speaks of such a `q`.
* Queue: the invariant is `Types`, `Ends` (a lock is held by the one thread between its
  lock and unlock), `Pointers` (what the local pointers may be at each label), and
  `Queue(Chain)`: the list's nodes are distinct and allocated, the last one is `tail`
  or, between lines 44 and 45, the node that `tail` is about to point to; what is
  allocated is in the list, or new or about to be freed by one thread. There is a lemma
  for each kind of step, and each also says how the list changes. Results:
  `HeapIsSound`, `QueueIsFifo`.
* List: `OnTheList` (a walk's `current` and `previous` are allocated, and who appends is
  at the end), `LocksOwned` and `AllOf`: the list's nodes are all that were allocated.
  Results: `NoNodeIsLost`, `ListIsQueue`.
* Sloppy counter: its sums are folds; `TotalSplits` and `TotalChanges` give what the
  proofs need of them, a sum over all threads when one of its terms changes. `Balance`
  (all counters together are what was added, but for amounts between flush and reset),
  `Levels` (a local counter is full while a thread empties it, and at no other time) and
  `Rounds` (nobody adds more often than it goes round). Results: `NoIncrementIsLost`,
  `SloppinessBounded`.
* Small programs: a lemma for each program gives its code as a table, which is then the
  only thing that is used of it. `Counted`: the counter is the number of threads past
  their store, whoever is between lock and unlock is the holder, its copy is the
  counter, and whom main has joined has ended. `Ordered`: the flag, the semaphore and
  main's position each say that "first" was printed; a wake-up for no reason leads back
  to the test, so it does not matter. `Met`: a posted semaphore, or a thread that passed
  one, says that the other has printed "before".
* `ProgramsLoseNothing`, `ProgramsAreSloppy`, `ProgramsPrintTrue`, `ProgramsMeet` and
  `ProgramsQueue` are the properties of the run `programs`, from the invariants above.

### Kernel modules and servers

* `MCKernelFilesProofs`. `mybuffer_sync`: `SyncSum` (the two counters and what calls
  have taken from one and not yet given to the other are the capacity), `SyncCopies`
  (what is going to be subtracted is still there: only the process itself can take it
  away, because each counter is decreased under one lock only) and `SyncLocks`.
  `openclose`: `Drift` bounds how far `count` is from the exact number by the
  overlapping calls that have returned, `Stale` does so for copies between load and
  store, and `Admitted` bounds the files by all overlaps. `mybuffer`: no write leaves
  more than the buffer holds (`BufferWrites`). `hello_counted`: while uses do not
  overlap one file at most is in use, and the pointer is its counter (`HelloAlone`).
  Results: `BytesConserved`, `NoWakeUpIsLost`, `ReadsInBounds`, `OpensLimited`,
  `AloneIsExact`.
* `MCKernelModulesProofs`. Threads: completions given and waited for are the threads
  that ended. Deferred work: `LeftOver` (what can still be called after rmmod), `Clock`
  (stamps and `jiffies` modulo `W` agree with the time), `NotEarly`, `Extremes`.
  Character devices: what init asked for so far is held, or has failed and was ignored
  (`Initialising`, `Loaded`), a file that is open after its module was refused was opened
  before `class_create` or `device_create` failed (`FilesLeft`), the ladder finds what it gives back and leaves what
  `cdev_add` has made (`OnTheLadder`), what exit has not come to yet is held, and a
  module that stayed loaded after a failure gets no further than `cdev_del` (`Exiting`);
  the drivers' tables are evaluated once, in lemmas. Results: `CodeOutlivesCalls`,
  `DelaysPrintedAreTrue`, `RegistrationIsClean`, `OperationsFindBuffers`.
* `MCServersProofs`. Socket servers: `Heap` (the server's memory is there, until its
  end), `Leaks` (a block that a request left behind is of `file-server.c`, for a file
  that was found) and `Connection` tie the heap and the connections to the server's
  position in its loop, until an error branch is entered; `Replies` and `Waiting` do so
  for the messages on the way, until a call fails; `Request` and `Received` hold also
  after that, which is why `AnswersMatchRequests` says something of servers that failed. Web server: one request
  has the mutex (`OneHandles`), a request's `floor` is below every later answer
  (`Floors`), and `counter.txt` is behind no answer unless a count was lost
  (`FileCounts`). Results: `ServersAreOrderly`, `AnswersMatchRequests`,
  `CountersNeverFallBack`.

### Only model-checked

Liveness is out of this prover's reach: every `Termination`, `NoStarvation`,
`WriterEnters`, `CountsToFour`, `GoesOnAndEnds` and `Answered`. So is the absence of
deadlock, which needs ENABLED: every run checks it.

## 5. Not modelled

* The `sysinfo` programs and `print_info`: they format what the kernel reports and
  end; `easy_server.c`'s loop around `print_info` is in `Servers`.
* `src/Simple Datastructures`, `src/IO-timer`, `src/Translation lookaside Buffer
  Performance`: straight-line programs of one thread that show a memory error to a
  debugger, or measure time. There is nothing in them that interleaves, fails or waits.
* Build scripts, kernel, busybox and dropbear configurations (`options.h`, five times the
  same): no program with state.
* The file operations of `hello`, `hello_kworld`, `mynull`, `myzero` and
  `simple_chardev`: each call touches the caller's own offset at most. Their
  registration is in `CharDevice`.
* Contents: the bytes of the buffers, of files and of requests. What matters of
  them is in the models: how many there are, whether a path names a file, whether a
  line is a number. Of the answer to a request there is also whether it ends where the
  file does (`extent`); how many heap bytes follow a file, and whether a read beyond the
  block leaves the heap, is not modelled. Nor are input buffers that
  a request or an answer fills to the last byte and that are then printed without a
  terminator, `easy_server.c`'s two buffers, and the size `mybuffer.c` line 50 gives to
  `kmalloc` (of a pointer, not of the struct: in a 64-bit build `length` lies behind it).
* Failures that end the program: an assertion of a wrapper in `threads.c` or
  `mythreads.h`, a `malloc` whose null pointer is used next, except in the kernel
  modules, where the system lives on.
* `decrement` of `simple-counter.c`, which nobody calls; the `cycles` of `mytimer.c` and
  `myworkqueue.c`, which count the same delays with another clock, and the failing
  allocations of `myworkqueue.c`'s statistics.
* How oatpp is configured and started (`App.cpp`, `AppComponent.hpp`,
  `Logger.hpp`); its threads are taken to be one for each connection.
* That a blocking read of `mybuffer_sync` may return 0 bytes (line 64): it happens in
  the model, but nothing in the repository says what a read should return then.

What could come next: the part of termination that is safety. That some thread's guard
holds until a program has ended can be stated without ENABLED, and that every step of a
program that ends decreases a measure is an action property; both could be proved for
any number of threads.
