# Verification of the Critical Mass Modula-3 runtime

This directory holds TLA+ models of the concurrent core of Critical Mass
Modula-3 (CM3), TLC configurations that check them on small instances, and
TLAPS proofs. Paths below are relative to the root of the repository; `PT`
stands for `m3-libs/m3core/src/thread/PTHREAD/ThreadPThread.m3`.

## 1. The system and its parts

CM3 is a compiler, a runtime and a large set of libraries. Most of it is
sequential. The parts whose correctness depends on interleavings, failures or
protocols are in the runtime (`m3-libs/m3core`), the communication packages
(`m3-comm`) and the stable-storage packages (`m3-db`).

| Part | State | Operations | What is hard | What makes it correct |
|---|---|---|---|---|
| Mutexes, conditions, alerts, pauses (`PT` 124-411, 740-778) | `m.holder`, `m.waiters`, `c.waiters`; per activation `waitingOn`, `nextWaiter`, `alerted`, a parking condition | `LockMutex`, `UnlockMutex`, `XWait`, `Signal`, `Broadcast`, `Alert`, `TestAlert`, `XPause` | hand-off in two critical sections; alerts against signals; spurious wakeups; intrusive circular lists | exclusion, no lost waiter, FIFO, every signalled or alerted thread resumes, implements the interface |
| Thread interface (`thread/Common/Thread.lm3`) | holders, wait sets, pending alerts | one atomic action for each step of a procedure | - | it is the specification |
| Suspension for the collector (`PT` 880-1319, `ThreadPThreadC.c`) | `act.state`, `act.stacks.context`, `allThreads`, `activeMu`, `ackSem` | `SuspendOthers`, `ResumeOthers`, `ProcessStacks`, `ProcessEachStack`, `SignalHandler` | asynchronous signals; state shared with a handler without a lock; threads that decline; repeated requests | nobody runs while the heap is scanned, acknowledgements balance, stopping and resuming end |
| Fork, Join, slots (`PT` 413-518, 600-736) | `slots`, `n_slotted`, `next_slot`, `t.join`, `t.joined` | `Fork`, `AssignSlot`, `FreeSlot`, `RunThread`, `XJoin` | reallocation of the table with the lock dropped; alert against the end of the thread | slots are distinct, a join returns the result, a thread is joined once |
| Heap lock and fork handlers (`PT` 1590-1730, `RTProcessC.c`) | `heapMu`, `holder`, `inCritical`, `heapCond` | `LockHeap`, `UnlockHeap`, `WaitHeap`, `BroadcastHeap`, `AtFork*` | unsynchronised holder test; one condition for three kinds of sleeper; a long lock order; signals held back by `fork` on Solaris; the child's single thread | exclusion, no deadlock between fork, collection and `InitMutex`, nobody sleeps over his work, a consistent child |
| Garbage collector (`runtime/common/RTCollector.m3`) | state of the collection, `disableCount`, waiting and signal flags; pages, colours, weak references | `CollectEnough`, `CollectSome`, `Collect`, `Disable`, `Enable`, three threads of its own; incremental copying | who collects and who is told; barriers | collections exclude each other; the mutator sees no white object |
| In-memory pipe (`m3-comm/rdwr/src/RdWrPipe.m3`) | ring buffer `first_i`, `next_i`, `closed` and the two stream records | `RdSeek`, `WrSeek`, `WrFlush`, `RdClose`, `WrClose` | wrap-around; one condition for both ends; close against a blocked end | bytes arrive once and in order; nobody blocks for ever |
| Small databases (`m3-db/smalldb/src/SmallDB.m3`) | version files, checkpoint, log | `Snapshot`, `Update`, `Recover` | crash between any two file operations | what was committed is recovered |
| Stable objects (`m3-db/stable`) | the same with other names | `BeginCheckpoint`, `EndCheckpoint`, `Recover` | the same | the same |
| Network objects (`m3-comm/netobj/src/netobjrt/NetObjRT.m3`) | object table, dirty sets, pin counts, cleaner queue | `Find`, `AgentDirty`, `AgentClean`, `CleanerApply` | lost, late and reordered calls; the lock dropped for a remote call | an object is not removed while a client holds a surrogate |
| Events (`m3-comm/events`) | worker counts, reader-writer lock | `WorkerPool`, `RdWrMutex` | clients of the thread package | exclusion, work is done |
| Threads for Windows and user level | as above | as above | as above | implements the interface |
| Compiler and tools (`m3-sys`), user interface (`m3-ui`), libraries | - | - | - | not modelled |

How they interact: every package above is a client of the Thread interface. The
thread package calls the collector (a `NEW` may collect, so no `NEW` under its
internal locks), the collector calls `SuspendOthers` holding the heap lock, and
`SuspendOthers` takes `activeMu` and signals every other activation. The fork
handlers take all these locks at once. The pthread mutexes inside the runtime
are not Modula-3 mutexes, so there are two worlds of locks, and the modules
divide along that line: `PThreadSync` and `ForkJoin` are about what clients
see, `StopWorld` about one suspension in detail, and `HeapLock` composes the
sections of all of them (the mutex of an activation, `slotsMu`, `initMu`,
`perfMu`), the collector's threads, the suspension and the fork handlers, and
asks whether they can block each other. The pipe and the joins use only the
atomic actions of `ThreadSpec`, which `PThreadSync` implements.

## 2. Modules

| Module | Models | Status |
|---|---|---|
| `ThreadSpec` | the Larch specification of the Thread interface | done |
| `PThreadSync` | mutexes, conditions, alerts, pauses of `PT` | done |
| `PThreadSyncInv` | its inductive invariant | done |
| `PThreadSyncProofs` | the theorems about its safety | done |
| `PThreadSyncRefines` | the proof that it implements `ThreadSpec` | done |
| `PThreadSyncFifo` | the proof that its rings are first in, first out | done |
| `MCPThreadSync` | its instances for TLC | done |
| `StopWorld`, `MCStopWorld` | suspension by signals | done |
| `StopWorldProofs` | its inductive invariant and the theorems about it | done |
| `ByteQueue` | what the pipe promises | done |
| `RdWrPipe`, `MCRdWrPipe` | the in-memory pipe | done |
| `RdWrPipeProofs` | its inductive invariant, the theorems about it, the refinement of `ByteQueue` | done |
| `DurableStore` | what a small database promises | done |
| `SmallDB` | checkpoint, log and version files | done |
| `SmallDBProofs` | its inductive invariant, the theorems about it, the refinement of `DurableStore` | done |
| `JoinSpec` | what Fork, Join and AlertJoin promise | done |
| `ForkJoin`, `MCForkJoin` | threads made, joined, cleaned up; the slot table | done |
| `ForkJoinProofs` | its inductive invariant, the theorems about it, the refinement of `JoinSpec` | done |
| `HeapLock`, `MCHeapLock` | the locks of the runtime, the collector's threads, fork | done |
| `HeapLockProofs` | its inductive invariant and the theorems about its safety | done |
| `MCSyncLive` | the liveness instances of `PThreadSync` | done |

### PThreadSync

`Thread` is the set of activations, `Mutex` the mutexes, numbered in the order
in which clients lock them (`REQUIRES sup(LL) < m` in Thread.i3 lines 111-113),
`Condition` the conditions. The variables are the fields of the code: `holder`
(`m.holder`), `waiters` (`m.waiters`, `c.waiters`, the tail of a ring),
`waitingOn`, `nextWaiter`, `alerted`; `parked` is the set of threads blocked in
`pthread_cond_wait` on their own condition, `pc` and `local` say where in a
procedure a thread is and with which variables, `LL` is what the client has
locked, `fault` the first assertion that failed or reference that was invalid.

*Atomicity.* Every action is one critical section of the code. A section locks
`self.mutex` and, inside it, perhaps `m.mutex` or `c.mutex`; all accesses to the
fields they protect lie between the last lock and the first unlock of the
section, so sections that touch the same field are ordered and the section may
be taken as one step (two-phase locking). `pthread_cond_wait` ends a section
and parks the thread in the same step, as POSIX says. The second sections of
`UnlockMutex`, `Signal` and `Broadcast` are actions of their own (`Grant`,
`Wake`, `WakeAll`): they are where the hazards are. `self.mutex` of the enqueuing
thread stays locked until it parks, so a hand-off cannot find it half-way.

| Code | Action |
|---|---|
| `LockMutex` 178-200, up to the wait | `LockMutex` (in `Acquire`, `Reacquire`) |
| `LockMutex` 201-206 | `LockWake` |
| `UnlockMutex` 216-233 / 234-239 | `UnlockMutex` (in `Release`, `WaitRelease`) / `Grant` |
| `XWait` 258-274, 276, 278-317, 307/312 | `XWait`, `WaitRelease`, `WaitLoop`, `Reacquire` |
| `Signal` 341-352 / 353-359 | `Signal` / `Wake` |
| `Broadcast` 368-373 / 374-385 | `Broadcast` / `WakeAll`, once for each thread |
| `Alert`, `TestAlert`, `XPause` | `Alert`, `TestAlert`, `XPause`, `PauseLoop`, `PauseTimeout` |

`SpuriousWakeup` is what POSIX allows. The search of an alerted thread in the
ring of its condition (`Unlink`) is modelled by its result: when the thread is
on the ring it is removed, otherwise the search ends in a null reference
(`"nil"`), empties a ring that holds one other thread (`"lost"`) or does not end
(`"endless"`). The model stops at the first fault, since a failed assertion
stops the program and nothing can be said after a corrupt list.

Left out: the lazy creation of the pthread mutexes and the perf hooks (they are in
`HeapLock`), real-time mutex protocols, `XIOWait` and `WaitProcess`, and time (a
pause may end at any moment).

### ThreadSpec and the refinement

`ThreadSpec` is Thread.lm3 action by action. `PThreadSync!Interface` maps the
holder of a mutex to the thread whose client has it locked (so a mutex that is
being handed over is free in the abstract), the wait set of a condition to the
threads on its ring, and `pc` to the point between two atomic actions. A thread
signalled and alerted at once makes the code differ from the specification
(observation 2) or fail (finding 1). `ImplementsInterface` excludes exactly the
steps that lead to or start from that coincidence, and says that every other
step is a step of `ThreadSpec` or changes nothing there.

### StopWorld

`state`, `context`, `inCritical` are fields of the activation, `active` the ring
`allThreads`, `acks` the semaphore; `pending` counts queued signals; `handler`
is the stack of activations of `SignalHandler` of a thread with the statement
each is about to execute, so a signal that arrives in `sigsuspend` nests; `gc`
holds the variables of the procedure of the suspending thread. Each statement
of the handler is one action, because nothing protects `act.state` from it, and
the two halves of a repeated request (`IF act.state # Stopped`, `SetState`) are
two. `RETRY_INTERVAL` is abstracted: whenever an answer is missing, the request
may be repeated. A signal is queued or merged with one that is pending.

`SpecUnpreempted` lets no handler stop its thread between the two halves of a
repeated request; without that assumption the assertion in the handler fails
(finding 2), which is the only thing that goes wrong in the run `world_resend`.

Left out: the direct variant (`SIG_SUSPEND = 0`), the scanning of stacks, and
the flag `suspended`, which restates the bracketing of the two calls. The loop of
`ProcessEachStack` is in the run `world` for what it does to the handlers; that it
does not end is observation 4.

### RdWrPipe and ByteQueue

`PI` stands for `m3-comm/rdwr/src/RdWrPipe.m3`. `buf`, `first`, `next`,
`closed` are the shared record; `rd` and `wr` hold, for each end, `st`,
`used` (`cur - lo`), `len` (`hi - lo`) and the place in a procedure; `waiting`
is the wait set of the one condition, with the `Signal` of `ThreadSpec`, which
may wake more than one thread. `LOCK rd` and `LOCK wr` in `Rd.m3` and `Wr.m3`
make each end sequential, so there is one process for each end. A client step
is `PutChar` or `GetChar` inside the window, or the entry into `WrFlush`,
`WrSeek`, `RdSeek`, a close; the client may do anything after a procedure
returns, which includes what the rest of `PutChar` or `GetChar` does.

| Code | Action |
|---|---|
| `Wr.FastPutChar` with room / without, `FastFlush`, `FastClose` | `PutChar` / `WrCall` |
| `WrFlush` `PI` 308-340 / 341 | `FlushFails`, `WrFlush` / `WrSignal` |
| `WrSeek` `PI` 267-306 / alerted | `WrSeek` / `WrAlerted` |
| `WrClose`, `RdClose` | `WrClose`, `RdClose` |
| `Rd.FastGetChar` with bytes / without, `FastEOF`, `CharsReady` | `GetChar` / `RdCall` |
| `RdSeek` `PI` 165-205 / its loop 206-233 / 237 / alerted | `RdSeek` / `RdLoop` in `RdSeek` and `RdAwake` / `RdSignal` / `RdAlerted` |

`ByteQueue` is a bounded queue in two parts: bytes written but not flushed, and
bytes flushed but not read. The refinement mapping reads both out of the ring:
`pending` is the writer's window up to `cur`, `visible` what lies between the
reader's `cur` and `next_i`. What the reader's client is told (`out`) is a
variable of both, so the refinement says which bytes are delivered, and that
the end of the stream is reported after all of them.

Left out: `UnGetChar`, which moves `cur` back inside the reader's window (Rd.m3
373-376) or, at its start, turns to a buffer of `Rd` itself: it calls no method of
the pipe, and only bytes that were read are read again; the strings and
lines of `Rd` and `Wr`, which are repeated characters; `ResetRdCounter` and
`ResetWrCounter`, which leave `used` and `len` alone; the fields `lo` and `hi`
reaching `LAST(CARDINAL)`, which those two exist to prevent. A ring needs two
slots (`SizeAssumption`): with one it would be full and empty at once.

### SmallDB and DurableStore

`SD` stands for `m3-db/smalldb/src/SmallDB.m3`. `snapshot`, `logfile`,
`versionFile`, `newVersion` are the files of the directory; a number 0 stands
for a file that is absent, empty or unreadable, which `GetVersion` treats alike.
An update is a number, a value the sequence of the updates applied to it. A log
entry has contents and a length; each is in the system's cache or on the disk,
and the length is also "zero" while the entry is incomplete. `pc` is the file
operation that comes next.

| Code | Action |
|---|---|
| `New`, `GetVersion` `SD` 59-71, 201-237 | `Start`, `ReadNew`, `ReadVersion`, `FirstVersion` |
| `Recover`, `RecoverUpdates` 280-292, 351-423 | `Recover` |
| `Update` 300-323 / 324-329 / 331-349 | `UpdateContents` / `UpdateLength` / `UpdateFinish` |
| `Snapshot` 240-262, `OpenLogfile` | `Snapshot`, `WriteSnapshot`, `OpenLogfile` |
| `WriteVersionFile` and `CommitToNewVersion` | `OpenNew`, `WriteNew`, `OpenVersion`, `WriteVersion`, `DeleteNew` |
| the deletions 266-270 | `DeleteSnapshot`, `DeleteLogfile` |
| an exception from a file operation | `CallRaises`, `StartRaises` |

A crash of the process keeps what is in the cache, a crash of the machine loses
any of the lengths that were not forced. After a crash or an exception the
client starts the program again (PackageDB.m3 does so). The passing run lets any
file operation of `Recover`, `Update` and `Snapshot` raise, and the deletion of
`New_Version_Number` in `New`; what the others of `New` do is `"BadStart"` below.

*Assumptions,* each named because the guarantee needs it: closing a file makes
its contents stable (the snapshot and the version files are closed, never
forced); operations on the directory and on the version files reach the disk in
their order; the length of an entry is one machine word that never straddles two
disk pages (the code pads for that); the client's representation of an update
is not empty. `Adversity` drops them one at a time, and adds two coincidences:

| Adversity | What happens | Consequence |
|---|---|---|
| `"GoesOn"` | the client goes on after `Update` has raised (BoardX.m3 263-267) | a forced update that fails after its contents are written leaves an entry of length zero; later updates are acknowledged behind it and recovery stops before them: `NoUpdateLost` fails |
| `"BadStart"` | reading a version file or writing `Version_Number` raises `OSError.E` once in `GetVersion` | `GetVersion` deletes `New_Version_Number` and, when `Version_Number` cannot be read or has just been emptied, takes the directory for a new database: `CreateFirstVersion` overwrites the version, and `NoUpdateLost` fails |
| `"LateSnapshot"`, `"Torn"`, `"Empty"` | the assumptions above | an incomplete snapshot, an entry with foreign contents, an entry taken for the end of the log |

`DurableStore` has a value that no crash can undo (`stable`) and updates of which
a crash may lose a tail (`loose`). Its updates and snapshots are single steps,
so the refinement says that a snapshot is atomic and that an update is recorded
completely or not at all.

### ForkJoin and JoinSpec

Every action is one section under `slotsMu`, `joinMu`, `activeMu` or the mutex of
an activation. `AssignSlot` gives up `slotsMu` to allocate a larger table
(`NewTable`), comes back (`Grow`) and may find another table, with room or without.
`t.join = NIL` is `ended`. `held` are the threads that clients can still reach; when
nothing reaches one, `CleanThread` may run.

The wait for `t.join` is `XWait` itself, not the atomic action of Thread.lm3, because
the two differ when an alert and the `Broadcast` of the thread that ends reach the
same `AlertJoin` (observation 2), and `XJoin` depends on which of them wins.
`NotifyJoiner` takes `joinMu` and the list of the condition, `TellJoiner` clears
`waitingOn` of the joiner, sets `t.join` and gives `joinMu` up. In between `joinMu` is
taken (`JoinMuFree`), and a joiner that is alerted looks for itself in a list that is
`NIL` (finding 1, the fault `"prev"`). A joiner in the loop of `XWait` tests its alert
first: `ChooseAlert` raises whether it was told or not, `JoinWake` goes on to
`m.acquire` without raising. Each then needs `joinMu` again (`JoinRaises`,
`JoinResumes`), so the end of the thread or another alert may come between.

| Code | Action |
|---|---|
| `AssignSlot` `PT` 448-475 / 461-475 / 476-503 | `AssignSlot` / `NewTable` / `Grow`, with `Register` |
| `Fork` 669-708, the failures 689-697 | `Fork`, `CreateThread`, `ForkFails` |
| `ThreadBase` 600-618 / `RunThread` 638-655 / 506-518 / 621-633 | `ThreadBase` / `ReadSelf`, `Finish`, `NotifyJoiner`, `TellJoiner` / `FreeSlot` / `LeaveRing` |
| `Broadcast` 362-373 / 374-386, as `RunThread` calls it | `NotifyJoiner` / `TellJoiner` |
| `XJoin` 710-723 | `XJoin`, `JoinResumes`, `JoinRaises`, with `JoinLoop` |
| `XWait` 278-308 / 309-311 | `ChooseAlert` / `JoinWake` |
| `CleanThread` 587-594 | `CleanThread` |

`Adversity`: `"LateAlert"` lets the end of a thread meet an alert in an `AlertJoin`.
Without it, a thread does not begin to tell while its joiner has an alert pending or
chosen, and no alert reaches a joiner between that moment and the moment when
`XWait` has seen that it was told. With it, findings 4 and 1 are there:
`ImplementsJoin` fails when the alert was chosen before the thread told its joiner as
well as when it came after, and `NobodyDies` fails. `"EarlyCleanup"` lets the
collector find a thread unreachable after `FreeSlot` and before `ThreadBase` has left the ring,
when only the activation itself keeps it in use: `ActivationLives` fails, with
the activation disposed while `ThreadBase` still unlinks it; the passing run
assumes that the stack still shows the reference. `"NoMemory"` lets
the allocation in `AssignSlot` fail: `NobodyDies` fails, since the `FINALLY` of `Fork`
(690-695) disposes the activation of a `T` that is registered for `CleanThread`,
which disposes it again. `"JoinMain"` is a join with the initial thread, whose
`t.join` is `NIL` from the start, so that it returns at once with `NIL`; nothing fails.

### HeapLock

A thread carries `todo`, the steps that it has still to do. A call puts the steps
of the procedure in front, so that a nesting of locks in the model is the nesting
of calls in the code, and every lock and unlock is a step. A lock is not
reentrant (`LockStep`); `LockHeap` reads `holder` in one step and takes `heapMu`
in the next, as the code does.

| Code | Definition |
|---|---|
| `LockHeap` `PT` 1692-1700 | `LockHeap`, the lock step, `HoldHeap` |
| `UnlockHeap`, `WaitHeap`, `BroadcastHeap` | `UnlockHeap`, `WaitHeap` with `HaveWaited`, `BroadcastHeap` |
| `Self`, `AssignSlot`, `FreeSlot`; `PerfChanged` | a section of `slotsMu`; of `perfMu` |
| `LockMutex` ... `Signal` on a MUTEX, with `InitMutex` 143-170 | `MutexSections`, `NeedsMutex`, `InitMutex`, `SetMutex` |
| `AllocTraced` (RTAllocator.m3 351-375) | `AllocTraced`, `LongRoute` |
| `Collect`, `Disable`, `Enable`, `VisitAllRefs`, `ReportReachable` | the same names |
| `CollectEnough`, `Behind`, `CollectorOn/Off`, `CollectSome` | the same names; states One to Three and Four, Five are joined |
| `BackgroundThread`, `ForegroundThread`, `WeakCleaner` | the same names, one action for each section between two waits |
| `SuspendOthers`, `ResumeOthers` | `StopWorld` (one step for each thread), `StartWorld` |
| `ThreadBase` under `activeMu` | `Enter`, `Leave` |
| `AtForkPrepare`, `AtForkParent`, `AtForkChild`, `RTProcess.Fork` | `AtForkPrepare`, `AtForkParent`, `AtForkChild`, `RTProcessFork`, `WalkRing`, `Fork` |

`StopWorld` here keeps of its namesake what matters to other locks: a thread stops
wherever it is unless it is allocating or its signals are held back, and stays
stopped with the locks that it holds. `Fork` goes on in the parent or in the child,
which has a copy of everything but the other threads. How much work a collection
has, when `Behind` says that it is behind and what dies are choices. The `Pause` of
the background thread and the cleanup procedures of weak references, which hold
no lock, are left out.

`UnlockMutex` and `Signal` wake a waiter under its own mutex. The waiter itself is
not modelled as blocked, so a call on a MUTEX chooses whom it will wake among the
threads that may be waiting (`Waiters`: those that exist and have not begun to
leave), and a thread that somebody is about to wake does not leave (`ToBeWoken`):
in the code it stays in `XWait` or `LockMutex` until it has been signalled. With two
clients this changes nothing that TLC reaches; it was found necessary with three, in
the attempt to prove `NobodyStuck`.

The sections of `slotsMu` load and store traced references (`PT` 464-503), and the
barriers that the compiler puts there may call the collector, which takes the heap
lock (`CheckLoadTracedRef`, `CheckStoreTraced`, RTCollector.m3 2231-2285). These entries
are left out. They take the heap lock after `slotsMu`, as `AtForkPrepare` does, so
they add no new order.

The fork handlers leave the parent's threads in the child's ring, and a collection
in such a child fails (finding 5); `Collectable` keeps such collections out of the
passing run, which covers the rest of the child. `Solaris` adds the deferral of
signals by `fork`, which is the stronger case: without it the same locks are taken
in the same order and every thread can always be stopped.

## 3. Runs

| Run | Instance | Shows |
|---|---|---|
| `sync_safety` | 3 threads, 1 mutex, 1 condition, every procedure; symmetry | the safety invariants, the inductive invariant, FIFO order, the only fault is the alert race, implements `ThreadSpec` |
| `sync_live` | 3 threads without alerts, 2 with every procedure, fair | mutex hand-off, signals and alerts arrive |
| `sync_prev_is_nil` | 2 threads | finding 1 |
| `world` | 3 threads, 2 collectors, fair | the world is stopped, acknowledgements balance, everybody resumes |
| `world_resend` | 2 threads | finding 2 |
| `pipe` | 4 slots, 2 bytes, alerts and closes at any moment, fair | the windows stay apart, no wakeup is lost, implements `ByteQueue`, a blocked end goes on |
| `pipe_writer_hangs` | 2 slots, 1 byte, fair | finding 3 |
| `smalldb` | 3 updates, 3 versions, a crash or an exception at any moment, fair | no acknowledged update is lost, files and memory agree, implements `DurableStore`, a crashed database starts again |
| `forkjoin` | 6 threads that fork while one ends, 3 that do everything; a table of 3, fair | the slot table is exact, nobody dies, no activation is used after its disposal, implements `JoinSpec`, joins and forks return |
| `forkjoin_late_alert` | 2 threads | finding 4 |
| `heaplock` | 2 clients, or 1 beside 2 of the collector's threads, Solaris, every call | the heap lock excludes, nobody is stuck, nobody sleeps over his work; deadlock is checked |
| `heaplock_child` | 2 clients, one fork | finding 5 |

*Bounds.* Three threads give a ring of two waiters beside the thread that acts,
so the head, the tail and the singleton case of every list operation, two
hand-offs in flight and a `Broadcast` in the middle of its walk occur. One
mutex and one condition suffice for that, since rings do not interact except
through the thread that moves from the condition to the mutex; the proofs cover
any number. `MaxPending` is the number of queued signals per thread: one pending
and one being handled already give a stray signal after the thread has
resumed, and a merged one. `MaxAllocs` bounds how often a thread can start
another allocation while the collector, which holds the heap lock, waits for it:
the pool of a thread is finite and is refilled under that lock.

Four slots of a pipe give windows of one, two and three bytes, empty, partial
and full rings, and every way in which a window can meet the end of the buffer;
two different bytes distinguish order, loss and duplication, since the code
never looks at a byte. No counter of the pipe is bounded: the ring is finite.

Three updates and three versions give a snapshot while the log has entries, a
second one that deletes the files of the first, the leftovers of an interrupted
one and a log whose last entries are only in the cache. A table of three slots
has two to give; it is full with two forks in flight, and five threads let a
loser of the race for a larger table find it with room and, because a second
growth has happened, without. With two joiners a thread can be joined twice, and
a joiner can be joined. In `HeapLock` two clients give each pair of calls in every
interleaving, and every circle of two; three threads add the circles of three
between a client and two of the collector's threads, which only take the heap
lock and `activeMu`. One dead weak reference (`MaxDead`) suffices, since the
cleaner only asks whether there is one. `inCritical` never exceeds 3.

*Deadlock* is not checked where the clients may all wait for a signal that
nobody sends, where a failed assertion stops the program, where both ends of
the pipe are closed, or where threads may join each other. The runs `world`,
`smalldb` and `heaplock` check it.

*Fairness.* Weak fairness of `Continue`: the kernel schedules every runnable
thread and no pthread mutex is held for ever. Strong fairness of `Release`: a
client leaves its `LOCK` blocks, although it may be interrupted by other calls.
Strong fairness of `PauseTimeout`: the deadline of a pause is absolute, so
wakeups in between do not move it. Nothing is assumed about `Call` or
`SpuriousWakeup`. In `StopWorld`, weak fairness of signal delivery, the handler
and the collector, and strong fairness of `LeaveCritical`: the interval between
two requests (`RETRY_INTERVAL`) is much longer than a handler that declines, so
repeated requests do not keep an allocation from ending. In `RdWrPipe`, weak
fairness of each end inside a procedure; nothing is assumed of its clients or of
alerts. In `SmallDB`, weak fairness of `Continue`: the program runs and its client
calls `Recover` after `New`; `StartsAgain` allows for endless crashes. In `ForkJoin`,
weak fairness of each thread inside a procedure: `joinMu` is kept only by a thread that
tells its joiners, which each thread does once, so it is free in the end.

## 4. What is proved

`PThreadSyncProofs` proves for every set of threads, mutexes and conditions
(`ASSUME`s: mutexes are numbers, mutexes and conditions are distinct, `NIL` is
neither) that `Spec` implies `[]IInv` and from it `TypeOK`,
`MutualExclusion`, `AssertionsHold`, `NoLostWaiter`, `NeverIdle` and
`OnlyTheAlertRaceFaults`.

The properties are not inductive. A hand-off is safe only because the thread
dequeued in the first section is still waiting on the same object in the
second, and that holds because no second dequeuer can reach it, which in turn
needs the exact shape of the rings. `IInv` says:

* `Places`: where a thread is in the code decides what it may be waiting on;
* `Holders`: the holder of a mutex is in its `LOCK` block, about to leave it in
  `XWait`, or was handed the mutex and has not woken up;
* `Flights`: the thread that a second section will wake is still waiting, no two
  sections will wake the same thread, and the rest of a detached ring that
  `Broadcast` has not visited is a chain of links back to its start;
* `Rings`: the ring of an object is one cycle of exactly the threads that wait
  for it and that nobody has dequeued (`Queued`).

A ring is `Walk`, the least set that holds the tail and is closed under the
links; the lemmas show that in a cycle this is the whole cycle, and what
appending, dequeuing, detaching and unlinking do to a cycle. Then there is one
lemma for each action. After the alert race the rings are broken, so everything
but the types, exclusion and the assertions is claimed only while
`fault = "none"`; the race is the only step that leaves that condition.

`RdWrPipeProofs` proves for every size of at least two and every set of bytes
that the `Spec` of `RdWrPipe` implies `TypeOK`, `WindowsApart` and
`NoLostWakeup`. The invariant `PipeInv` replaces the sets of slots by lengths
(`Windows`: the reader's window is no longer than the data, the writer's no
longer than the room less one), says which windows are used up at which point
of a seek (`Points`), and why a blocked end is blocked (`Reasons`). Two lemmas,
`Wrap` and `DistanceValue`, replace `MOD` by a case distinction; the rest is
linear arithmetic. That the ends are never blocked together follows from
`FullValue`: a ring is not full and empty at once, which is where the size of
two is needed.

`PipeImplementsQueue` is the refinement: every behaviour of the pipe is one of
`ByteQueue`. `Ends` says what a closed end has left behind, so that the mapping is
defined there too. The contents of a stretch of the ring (`Bytes`) are taken apart
and put together by lemmas (`BytesFrame`, `Turn`: two indexes of one stretch never
meet), and each action appends at one end of a stretch, cuts at the other, or
moves the border between the two.

`PThreadSyncRefines` proves `ImplementsInterface` from `IInv` and one more
invariant, `Raisings`: an alert that `AlertWait` has taken is raised when the mutex
is locked again. The mapped state has four parts (`Owners`, `Waiting`, `Pending`,
`Points`); a lemma for each says what changes it, a lemma for each action says
which action of `ThreadSpec` that is, or that all four parts stay. The property
excludes the steps from and to a thread that is alerted and signalled at once, the
theorem excludes nothing else.

`PThreadSyncFifo` proves `NoOvertaking`, for every step, the ones that lose the
alert race included. `u` is before `v` when a walk from the head meets `u` first,
and a walk is a least fixed point: `InsertOrder` and `RemoveOrder` say that a new
tail comes after everybody else, and that taking an element out changes no other
walk.

`StopWorldProofs` proves under `SpecUnpreempted`, for every set of threads, both
ways of suspending and every number of queued signals, that no assertion fails,
that the world is stopped while the collector works, and that no answer is left
over. The invariant puts every thread into a class that its part in the suspension
determines: `Asked` (it has declined, is to answer or has answered), `Asleep`,
`Waking` or `Quiet`, each with the handler stacks that it allows, a stray signal
included. The semaphore counts exactly the threads of a class that have answered
(`AcksGood`). So when the collector has taken as many answers as it made requests,
two finite sets of the same size, one in the other, are equal: everybody has
answered. `SpecUnpreempted` is needed, since finding 2 is what happens without it.

`ForkJoinProofs` proves, for every number of threads and every size of the first
table, `TypeOK` and `SlotsExact` under every `Adversity`, and the rest under the
adversities that the property survives: `NobodyDies` without `"LateAlert"` (findings
1 and 4) and `"NoMemory"`, `ActivationLives` without `"EarlyCleanup"`, `ImplementsJoin`
without `"LateAlert"` and `"JoinMain"` (where the code does not do what Thread.lm3
says). The invariant: a `T` in `Fork` belongs to one caller and no thread runs it
yet (`ForksApart`); slots and the threads that have one correspond one to one, and
the count is the size of that set (`TableExact`), so a table with room has a free
slot, and so has one that was replaced while the lock was dropped; an activation
is disposed only when nothing reaches it (`LivesApart`); a thread has one joiner at
most, which keeps its claim until it has the result (`JoinsApart`). For the last part
an alert that a joiner has not answered must find the joiner still waiting, and one
that it has answered must find its thread still running and not about to tell; this
is where `"LateAlert"` is excluded, and nothing else in the invariant needs that.

`SmallDBProofs` proves `TypeOK` under every `Adversity` and, when `Adversity` is empty
(each member of it makes the property fail, see section 2), `VersionsAgree`,
`NoUpdateLost` and the refinement of `DurableStore`, for every number of updates and
versions. Between two file operations the database is in one of four phases, and
the invariant has a part for each, besides what is true of the files in all of them
(`FilesGood`: the version that would be chosen now has a whole snapshot and a log
that yields every acknowledged update): an entry is being written (`UpdateGood`), the
next version is being prepared while the old one counts (`PrepareGood`), the switch
is under way and either version has the same value (`CommitGood`), or the program is
looking for the version (`StartGood`). A crash may happen in each, and after it only
`FilesGood` and the files remain, so `FilesGood` has to carry everything recovery
needs. The refinement adds what a log yields, as two sequences: the entries that are
forced and the readable rest.

`HeapLockProofs` proves `TypeOK`, `HeapExclusion`, `WorkWakes` and `NobodyStuck` when
`Adversity` is empty, that is, when nothing stops the world in a child that has
inherited other threads (finding 5): for every finite set of clients, any of the
three services, any of the calls in any order, with signals deferred by `fork` or
not. `TypeOK` contains that `LockHeap` nests at most three deep and that the mutex of
a MUTEX is made once. What a thread has before it is a sequence of steps of any
length, so the invariant is about where each step leads: between two steps a thread
is in a *place* (`Place`: how deep it is in the heap lock, which locks it holds, what
it knows, for example that `collectorState` is `Zero`), and a `Rule` for each kind of
step, which mentions no variable, says from which place to which place it leads and
what it demands of the first. `Piece(t, steps, a, b)` says that a sequence of steps
leads from `a` to `b`. A lemma for each procedure states its piece, and pieces
compose, so a call in front of other steps leads where they start. The invariant
says that everything a thread has before it leads from a place that the state fits
(`Fits`) to the place of a thread with nothing to do; it also says what
`disableCount` counts (`Counted`), that nobody who is to be woken is leaving
(`Apart`), and who may have stopped threads (`Stopper`). A step then moves one thread
along its rule, or puts a piece in front, and leaves the places of the others
(`Untouched`, `OthersFit`): what a thread knows is either lasting or protected by a
lock that it holds. `NobodyStuck` follows from the rule of a lock, which gives the
locks an order (`HigherThanHeld`): in a set of threads that wait for each other, the
one that wants the highest lock would have to wait for one that wants a higher one;
and a thread that allocates, or is inside `fork` with its signals held back, waits
for nobody. It uses the assumptions on the constants that `HeapLock` declares.

Only model-checked: all liveness (outside the reach of the prover), and the
counterexamples of section 5.

## 5. Findings

1. `PT` 287: an alert between the two sections of `Signal` or `Broadcast` makes
   `AlertWait` search a ring it is no longer on; the comment says
   `prev # NIL`. Run `sync_prev_is_nil`. In `ForkJoin` the same happens to an
   `AlertJoin` (fault `"prev"`, with `"LateAlert"`).
2. `PT` 1191: a repeated suspend request can overwrite the state `Stopped`, and
   the next signal nests and fails the assertion at 1309. Run `world_resend`.
3. `PI` 276: a writer blocked on a full ring when the reader closes is signalled
   but looks only at the ring and waits for ever. Run `pipe_writer_hangs`.
4. `PT` 719: an `AlertJoin` that raises after its thread has ended leaves
   `t.joined` set, against Thread.lm3 line 120, and the next `Join` dies at 714. The
   thread may end after the joiner has chosen to raise and before it has `joinMu`
   again, or the alert may come after the `Broadcast` and is preferred to it
   (280, 303-308). Run `forkjoin_late_alert`.
5. `PT` 1670: `AtForkChild` clears the slots of the other threads but leaves
   their activations in `allThreads`, so the first collection in a child of a
   process with several threads signals threads that do not exist, although
   RTCollector.m3 line 2792 says that there are none. Run `heaplock_child`.

Observations that no run states, made while modelling:

1. RTCollector.m3 691: `foregroundWaiting` and `backgroundWaiting` are not reset in
   the child, so with a foreground thread in the parent `Behind` always answers
   `FALSE` and a `NEW` in the child no longer collects. A `disableCount` that
   another thread had raised stays raised in the same way.
2. `PT` 303: a thread that was signalled and then alerted raises `Alerted` and
   swallows the signal, against Thread.lm3 line 100. Finding 4 is what this does to
   an `AlertJoin`.
3. SmallDB.m3 322 and 233: what `"GoesOn"` and `"BadStart"` show (section 2).
4. `PT` 1054: the loop of `ProcessEachStack` neither advances nor resets
   `nLive`; it stops the same thread again and waits for ever. Nothing in the
   repository calls it.
5. `PT` 587 and 663: the disposal of an activation before its thread has left the
   ring, what `"EarlyCleanup"` shows, and `PT` 695: a second disposal of the activation
   of a `Fork` that failed, what `"NoMemory"` shows (section 2).
6. `PI` 210: `CharsReady` answers 0, not 1, at the end of the stream, because
   `RdSeek` tests `dontBlock` before `closed`.

## 6. Plan

Proofs: every safety property that a passing run checks is a theorem, and so is every
refinement but that of the liveness instances. What is left is to say more: that a
collection is begun and ended by the same thread, and what a thread knows of the
collector in each place (`Knows`), as properties of `HeapLock`.

Models: network objects (`NetObjRT.Find` and the cleaner against `AgentDirty` and
`AgentClean` with lost and reordered calls); `RdWrMutex` and `WorkerPool` on top of
the atomic actions of `ThreadSpec`; that a dead weak reference is cleaned at last,
under a fair heap lock.

## 7. Not modelled

* Network objects and the event library: planned, see above.
* The stable objects of `m3-db/stable`: the same protocol as `SmallDB` in other code.
* The heap of the collector: pages, barriers and copying depend on layout and on
  code that the compiler emits.
* `ThreadWin32.m3` and `ThreadPosix.m3`: other implementations of the interface;
  `ThreadSpec` and `JoinSpec` are what to hold them against.
* `m3front`, `m3back`, `cm3`, `m3quake` and the tools: sequential translators.
* `m3gdb`, `m3cc` and other vendored or generated code: not part of the program's
  own logic; they are by far the largest part of the repository by lines.
* The user interface toolkits, the libraries of data structures, demonstrations.
