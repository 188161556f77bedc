------------------------------ MODULE HeapLock ------------------------------
(***************************************************************************)
(* The locks inside the runtime and what nests in what: the heap lock with *)
(* its condition (ThreadPThread.m3, "collector"), the threads that sleep   *)
(* on it (RTCollector.m3), slotsMu, perfMu, initMu, activeMu, the mutex    *)
(* of every activation and of a MUTEX, and the fork handlers that take     *)
(* them all.                                                               *)
(*                                                                         *)
(* A thread carries the steps that it has still to do; a call puts the     *)
(* steps of the procedure in front.  Every lock and unlock is a step of    *)
(* its own.  Fork goes on in one of the two processes.                     *)
(***************************************************************************)
EXTENDS Integers, FiniteSets, SequencesExt

CONSTANTS
  Client,     \* the threads that run the program
  Main,       \* the initial one of them
  Service,    \* the collector's own threads, named after their procedures
  Calls,      \* the procedures of the runtime that the clients use
  Solaris,    \* Solaris (): signals are deferred while fork () runs
  MaxDead,    \* bound on the dead weak references that wait for cleaning
  Adversity   \* "ChildCollects": see Collectable

ASSUME MainIsAClient == Main \in Client
ASSUME ServicesAreKnown ==
  Service \subseteq {"WeakCleaner", "BackgroundThread", "ForegroundThread"}
ASSUME ClientsAreNoServices == Client \cap Service = {}
ASSUME ClientsAreFinite == IsFiniteSet(Client)
ASSUME CallsAreKnown ==
  Calls \subseteq {"Self", "PerfChanged", "NEW", "Collect", "VisitAllRefs",
                   "ReportReachable", "MUTEX", "Fork", "Start"}
ASSUME SolarisIsKnown == Solaris \in BOOLEAN
ASSUME MaxDeadIsPositive == MaxDead \in Nat \ {0}
ASSUME AdversityIsKnown == Adversity \subseteq {"ChildCollects"}

VARIABLES
  process,     \* "parent", and "child" after a fork that is followed there
  exists,      \* the threads of this process
  ring,        \* allThreads
  todo,        \* the steps that a thread has before it
  owner,       \* who holds a lock
  holder,      \* holder: the activation in LockHeap
  inCritical,  \* inCritical: how deep it is in
  asleep,      \* the wait set of heapCond
  allocating,  \* the threads t with t.heapState.inCritical > 0
  deferred,    \* the threads whose signals the system holds back
  stopped,     \* the threads that SuspendOthers has stopped
  gc,          \* the variables of RTCollector, see NoCollection
  made,        \* how often the mutex of the MUTEX has been made, 0: m = NIL
  fault        \* the first assertion or Die that was reached

locks == <<owner, holder, inCritical, asleep>>
world == <<process, exists, ring, deferred>>
vars == <<world, todo, locks, allocating, stopped, gc, made, fault>>

Thread == Client \union Service
NIL == "NIL"

\* The mutex of an activation is named by its thread, m.mutex is "m".
Global == {"slotsMu", "perfMu", "initMu", "heapMu", "activeMu"}
Locks == Global \union {"m"} \union Thread
ASSUME ClientsAreNoLocks == Client \cap (Global \union {"m", NIL}) = {}

\* state: collectorState, where "Three" stands for One to Three and "Five" for
\* Four and Five; dead: the length of the list weakDead0; disabled:
\* disableCount.
NoCollection ==
  [state |-> "Zero", on |-> FALSE, dead |-> 0,
   signalBackground |-> FALSE, signalWeak |-> FALSE,
   backgroundWaiting |-> FALSE, foregroundWaiting |-> FALSE, disabled |-> 0,
   started |-> {}]

Init ==
  /\ process = "parent" /\ exists = {Main} /\ ring = <<Main>>
  /\ todo = [t \in Thread |-> <<>>]
  /\ owner = [l \in Locks |-> NIL]
  /\ holder = NIL /\ inCritical = 0
  /\ asleep = {} /\ allocating = {} /\ deferred = {} /\ stopped = {}
  /\ gc = NoCollection
  /\ made = 0
  /\ fault = "none"

-----------------------------------------------------------------------------
(* Steps.                                                                  *)

Step(name) == <<name, NIL>>
Lock(l) == <<"lock", l>>
Unlock(l) == <<"unlock", l>>
Section(l) == <<Lock(l), Unlock(l)>>

\* A thread that runs and what it does next.
Runs(t) == t \in exists \ (stopped \union asleep) /\ fault = "none"
At(t, step) == Runs(t) /\ todo[t] # <<>> /\ Head(todo[t]) = step

\* The step is done; the step is done and calls a procedure.
Call(t, steps) == todo' = [todo EXCEPT ![t] = steps \o Tail(@)]
Done(t) == Call(t, <<>>)

\* <*ASSERT*>
Check(condition) == fault' = IF condition THEN fault ELSE "assert"

\* Not reentrant: a thread that locks twice waits for itself.
LockStep(t) ==
  \E l \in Locks :
    /\ At(t, Lock(l)) /\ owner[l] = NIL
    /\ owner' = [owner EXCEPT ![l] = t]
    /\ Done(t)
    /\ UNCHANGED <<world, holder, inCritical, asleep, allocating, stopped, gc,
                   made, fault>>

UnlockStep(t) ==
  \E l \in Locks :
    /\ At(t, Unlock(l))
    /\ Check(owner[l] = t)
    /\ owner' = [owner EXCEPT ![l] = NIL]
    /\ Done(t)
    /\ UNCHANGED <<world, holder, inCritical, asleep, allocating, stopped, gc,
                   made>>

-----------------------------------------------------------------------------
(* The heap lock.                                                          *)

LockHeap(t) ==
  /\ At(t, Step("LockHeap"))
  /\ \/ /\ holder # t
        /\ Call(t, <<Lock("heapMu"), Step("HoldHeap")>>)
        /\ UNCHANGED inCritical
     \/ /\ holder = t
        /\ inCritical' = inCritical + 1
        /\ Done(t)
  /\ UNCHANGED <<world, owner, holder, asleep, allocating, stopped, gc, made,
                 fault>>

HoldHeap(t) ==
  /\ At(t, Step("HoldHeap"))
  /\ holder' = t
  /\ inCritical' = inCritical + 1
  /\ Done(t)
  /\ UNCHANGED <<world, owner, asleep, allocating, stopped, gc, made, fault>>

\* Mutant: the holder is not forgotten.
KeepHolder(t) ==
  /\ Check(holder = t)
  /\ inCritical' = inCritical - 1
  /\ UNCHANGED holder
  /\ Call(t, IF inCritical = 1 THEN <<Unlock("heapMu")>> ELSE <<>>)
LeaveHeap(t) ==
  /\ Check(holder = t)
  /\ inCritical' = inCritical - 1
  /\ holder' = IF inCritical = 1 THEN NIL ELSE holder
  /\ Call(t, IF inCritical = 1 THEN <<Unlock("heapMu")>> ELSE <<>>)

UnlockHeap(t) ==
  /\ At(t, Step("UnlockHeap"))
  /\ LeaveHeap(t)
  /\ UNCHANGED <<world, owner, asleep, allocating, stopped, gc, made>>

\* pthread_cond_wait gives up heapMu and sleeps in one step.
WaitHeap(t) ==
  /\ At(t, Step("WaitHeap"))
  /\ Check(holder = t /\ inCritical = 1)
  /\ inCritical' = inCritical - 1
  /\ holder' = NIL
  /\ owner' = [owner EXCEPT !["heapMu"] = NIL]
  /\ asleep' = asleep \union {t}
  /\ Call(t, <<Lock("heapMu"), Step("HaveWaited")>>)
  /\ UNCHANGED <<world, allocating, stopped, gc, made>>

HaveWaited(t) ==
  /\ At(t, Step("HaveWaited"))
  /\ Check(inCritical = 0)
  /\ holder' = t
  /\ inCritical' = inCritical + 1
  /\ Done(t)
  /\ UNCHANGED <<world, owner, asleep, allocating, stopped, gc, made>>

\* POSIX lets pthread_cond_wait return without a signal.
SpuriousWakeup(t) ==
  /\ t \in asleep \ stopped /\ fault = "none"
  /\ asleep' = asleep \ {t}
  /\ UNCHANGED <<world, todo, owner, holder, inCritical, allocating, stopped, gc,
                 made, fault>>

-----------------------------------------------------------------------------
(* The collector and its threads, all under the heap lock.                 *)

\* The next step of t is a procedure of the collector, which has changed only
\* its own variables.
CollectorStep(t, name) ==
  /\ At(t, Step(name))
  /\ UNCHANGED <<world, owner, holder, inCritical, allocating, stopped, made>>

BroadcastHeap == asleep' = {}

\* The fork handlers leave the threads of the parent in the ring.  Without
\* this adversity nothing stops the world in a child that has inherited some.
Collectable ==
  process = "parent" \/ Len(ring) = 1 \/ "ChildCollects" \in Adversity

Disabled == gc.disabled > 0 /\ gc.state = "Zero"

\* How Behind may answer.  When there is a foreground thread to wake it is
\* woken instead.
Behind ==
  IF gc.foregroundWaiting \/ Disabled \/ (gc.state = "Zero" /\ ~Collectable)
  THEN {FALSE} ELSE BOOLEAN
WakeForeground ==
  IF gc.foregroundWaiting /\ ~Disabled THEN BroadcastHeap ELSE UNCHANGED asleep

CollectEnough(t) ==
  /\ CollectorStep(t, "CollectEnough")
  /\ \/ /\ gc.on
        /\ Done(t)
        /\ UNCHANGED asleep
     \/ /\ ~gc.on /\ WakeForeground
        /\ \/ FALSE \in Behind /\ Done(t)
           \/ /\ TRUE \in Behind
              /\ Call(t, <<Step("CollectorOn"), Step("CollectSome"),
                           Step("CollectMore"), Step("CollectorOff")>>)
  /\ UNCHANGED <<gc, fault>>

\* UNTIL NOT Behind () OR collectorState = Zero
CollectMore(t) ==
  /\ CollectorStep(t, "CollectMore") /\ WakeForeground
  /\ \/ /\ FALSE \in Behind \/ gc.state = "Zero"
        /\ Done(t)
     \/ /\ TRUE \in Behind /\ gc.state # "Zero"
        /\ Call(t, <<Step("CollectSome"), Step("CollectMore")>>)
  /\ UNCHANGED <<gc, fault>>

CollectorOn(t) ==
  /\ CollectorStep(t, "CollectorOn")
  /\ Check(~gc.on)
  /\ gc' = [gc EXCEPT !.on = TRUE]
  /\ Done(t)
  /\ UNCHANGED asleep

\* Mutant: the cleaner is forgotten.
SignalsBackground == gc.signalBackground
Signals == gc.signalBackground \/ gc.signalWeak

CollectorOff(t) ==
  /\ CollectorStep(t, "CollectorOff")
  /\ Check(gc.on)
  /\ \/ /\ Signals /\ BroadcastHeap
        /\ gc' = [gc EXCEPT !.on = FALSE, !.signalBackground = FALSE,
                            !.signalWeak = FALSE]
     \/ /\ ~Signals
        /\ gc' = [gc EXCEPT !.on = FALSE]
        /\ UNCHANGED asleep
  /\ Done(t)

\* The part of AllocTraced that refills the pool of a thread.
LongRoute == <<Step("LockHeap"), Step("CollectEnough"), Step("UnlockHeap")>>

\* gc in a new state, with the background thread to be told.
Collected(state) ==
  [gc EXCEPT !.state = state,
             !.signalBackground = @ \/ gc.backgroundWaiting]

\* CollectSome.  The work on the pages is left out: a state may need any
\* number of steps.
CollectIn(t, states) ==
  /\ CollectorStep(t, "CollectSome")
  /\ gc.state \in states
  /\ Check(gc.disabled = 0)
  /\ UNCHANGED asleep

CollectSomeInStateZero(t) ==
  /\ CollectIn(t, {"Zero"})
  /\ Call(t, <<Lock("activeMu"), Step("StopWorld"), Step("MarkRoots"),
               Step("StartWorld"), Unlock("activeMu")>>)
  /\ UNCHANGED gc

CopySome(t) ==
  /\ CollectIn(t, {"Three", "Five"})
  /\ gc' = Collected(gc.state)
  /\ Done(t)

\* PostHandleWeakRefs puts what has died on the list.
CollectSomeInStateThree(t) ==
  /\ CollectIn(t, {"Three"})
  /\ \E dead \in gc.dead ..
                 (IF "WeakCleaner" \in gc.started THEN MaxDead ELSE gc.dead) :
       gc' = [Collected("Five") EXCEPT !.signalWeak = TRUE, !.dead = dead]
  /\ Done(t)

\* The monitors that are told of the end may allocate.
CollectSomeInStateFive(t) ==
  /\ CollectIn(t, {"Five"})
  /\ \E monitors \in {<<>>, LongRoute} :
       Call(t, monitors \o <<Step("EndCollection")>>)
  /\ UNCHANGED gc

EndCollection(t) ==
  /\ CollectorStep(t, "EndCollection")
  /\ gc' = [gc EXCEPT !.state = "Zero"]
  /\ Done(t)
  /\ UNCHANGED <<asleep, fault>>

CollectSome(t) ==
  \/ CollectSomeInStateZero(t) \/ CopySome(t) \/ CollectSomeInStateThree(t)
  \/ CollectSomeInStateFive(t)

\* WHILE collectorState # Zero DO CollectSome () END
CollectAll(t) ==
  /\ CollectorStep(t, "CollectAll")
  /\ Call(t, IF gc.state = "Zero" THEN <<>>
             ELSE <<Step("CollectSome"), Step("CollectAll")>>)
  /\ UNCHANGED <<asleep, gc, fault>>

StartGC(t) ==
  /\ CollectorStep(t, "StartGC")
  /\ Call(t, IF gc.state = "Zero" /\ gc.disabled = 0 /\ Collectable
             THEN <<Step("CollectSome")>> ELSE <<>>)
  /\ UNCHANGED <<asleep, gc, fault>>

CountDisabled(t) ==
  /\ \/ /\ CollectorStep(t, "Disable")
        /\ gc' = [gc EXCEPT !.disabled = @ + 1]
     \/ /\ CollectorStep(t, "Enable")
        /\ gc' = [gc EXCEPT !.disabled = @ - 1]
  /\ Done(t)
  /\ UNCHANGED <<asleep, fault>>

MarkRoots(t) ==
  /\ CollectorStep(t, "MarkRoots")
  /\ Check(gc.disabled = 0)
  /\ gc' = Collected("Three")
  /\ Done(t)
  /\ UNCHANGED asleep

\* SuspendOthers, with what module StopWorld shows of it: a thread stops
\* unless it is allocating, and one at a time.  A thread whose signals are
\* held back does not stop; pthread_kill fails for one that is not there.
StopWorld(t) ==
  /\ At(t, Step("StopWorld"))
  /\ LET others == ToSet(ring) \ {t}
     IN \/ \E u \in others \ (stopped \union allocating \union deferred) :
             IF u \in exists
             THEN /\ stopped' = stopped \union {u}
                  /\ UNCHANGED <<todo, fault>>
             ELSE /\ fault' = "no such thread"
                  /\ UNCHANGED <<todo, stopped>>
        \/ /\ others \subseteq stopped
           /\ Done(t)
           /\ UNCHANGED <<stopped, fault>>
  /\ UNCHANGED <<world, locks, allocating, gc, made>>

StartWorld(t) ==
  /\ At(t, Step("StartWorld"))
  /\ stopped' = {}
  /\ Done(t)
  /\ UNCHANGED <<world, locks, allocating, gc, made, fault>>

\* WHILE collectorState = Zero DO ... WaitHeap ... END
BackgroundThread(t) ==
  /\ CollectorStep(t, "BackgroundTest")
  /\ \/ /\ gc.state = "Zero"
        /\ gc' = [gc EXCEPT !.backgroundWaiting = TRUE]
        /\ Call(t, <<Step("WaitHeap"), Step("BackgroundAwake"),
                     Step("BackgroundTest")>>)
     \/ /\ gc.state # "Zero"
        /\ Call(t, <<Step("CollectorOn"), Step("CollectSome"),
                     Step("CollectorOff")>>)
        /\ UNCHANGED gc
  /\ UNCHANGED <<asleep, fault>>

BackgroundAwake(t) ==
  /\ CollectorStep(t, "BackgroundAwake")
  /\ gc' = [gc EXCEPT !.backgroundWaiting = FALSE]
  /\ Done(t)
  /\ UNCHANGED <<asleep, fault>>

ForegroundThread(t) ==
  /\ CollectorStep(t, "ForegroundLoop")
  /\ gc' = [gc EXCEPT !.foregroundWaiting = TRUE]
  /\ Call(t, <<Step("WaitHeap"), Step("ForegroundAwake"),
               Step("CollectEnough"), Step("ForegroundLoop")>>)
  /\ UNCHANGED <<asleep, fault>>

ForegroundAwake(t) ==
  /\ CollectorStep(t, "ForegroundAwake")
  /\ gc' = [gc EXCEPT !.foregroundWaiting = FALSE]
  /\ Done(t)
  /\ UNCHANGED <<asleep, fault>>

\* WHILE weakDead0 = -1 DO WaitHeap END, then the first entry is taken.
WeakCleaner(t) ==
  /\ CollectorStep(t, "CleanerTest")
  /\ \/ /\ gc.dead = 0
        /\ Call(t, <<Step("WaitHeap"), Step("CleanerTest")>>)
     \/ /\ gc.dead > 0
        /\ Call(t, <<Step("CollectorOn"), Step("CollectorOff"),
                     Step("TakeDead")>>)
  /\ UNCHANGED <<asleep, gc, fault>>

TakeDead(t) ==
  /\ CollectorStep(t, "TakeDead")
  /\ gc' = [gc EXCEPT !.dead = @ - 1]
  /\ Done(t)
  /\ UNCHANGED <<asleep, fault>>

-----------------------------------------------------------------------------
(* What the clients call.                                                  *)

\* The sections of LockMutex, UnlockMutex, Wait and Signal on m: m.mutex is
\* taken under the thread's own mutex, and that of a waiter u by itself.
OwnFirst(t) == <<Lock(t), Lock("m"), Unlock("m"), Unlock(t)>>
MutexSections(t, u) == OwnFirst(t) \o (IF u = t THEN <<>> ELSE Section(u))

\* AllocTraced: INC (thread.inCritical), and for the long route DEC before the
\* heap is locked.
AllocTraced ==
  <<Step("Critical"), Step("Uncritical")>> \o LongRoute \o
  <<Step("Critical"), Step("Uncritical")>>

FinishGC == <<Step("CollectorOn"), Step("CollectAll"), Step("CollectorOff")>>
Collect ==
  <<Step("LockHeap")>> \o FinishGC \o
  <<Step("CollectorOn"), Step("StartGC"), Step("CollectorOff")>> \o FinishGC \o
  <<Step("UnlockHeap")>>
Disable ==
  <<Step("LockHeap")>> \o FinishGC \o <<Step("Disable"), Step("UnlockHeap")>>
Enable ==
  <<Step("LockHeap"), Step("Enable"), Step("CollectEnough"), Step("UnlockHeap")>>

\* SuspendOthers ... ResumeOthers around what t does meanwhile.
Alone(steps) ==
  <<Lock("activeMu"), Step("StopWorld")>> \o steps \o
  <<Step("StartWorld"), Unlock("activeMu")>>

\* The world is stopped without the heap lock.
VisitAllRefs == Disable \o Alone(<<>>) \o Enable

\* RTHeapStats: NEW locks the heap again while the world is stopped.
ReportReachable ==
  Disable \o <<Step("LockHeap")>> \o
  Alone(<<Step("LockHeap"), Step("CollectEnough"), Step("UnlockHeap")>>) \o
  <<Step("UnlockHeap")>> \o Enable

\* AtForkPrepare takes everything, the mutexes of the ring last.
AtForkPrepare ==
  <<Lock("slotsMu"), Lock("perfMu"), Lock("initMu"), Step("LockHeap"),
    Lock("activeMu"), Step("LockRing")>>

AtForkParent ==
  <<Step("UnlockRing"), Unlock("activeMu"), Step("UnlockHeap"),
    Unlock("initMu"), Unlock("perfMu"), Unlock("slotsMu")>>

\* The child's handler unlocks in the same order; that of RTCollector forgets
\* the collector's threads.
AtForkChild == AtForkParent \o <<Step("ForgetStarted")>>

\* RTProcess.Fork, with AtForkPrepareInFork and AtForkPrepareOutsideFork.
\* Mutant: the handler runs inside fork on Solaris too.
PrepareInFork == <<Step("EnterFork")>> \o AtForkPrepare \o <<Step("Fork")>>
RTProcessFork ==
  IF Solaris
  THEN AtForkPrepare \o <<Step("EnterFork"), Step("Fork")>>
  ELSE <<Step("EnterFork")>> \o AtForkPrepare \o <<Step("Fork")>>

\* StartBackgroundCollection, StartForegroundCollection, WeakRefFromRef.
StartService(s) == <<Step("LockHeap"), <<"start", s>>, Step("UnlockHeap")>>

\* The threads that may be waiting for a MUTEX: they are not on their way out,
\* and once somebody is about to wake one it stays until he has.
Waiters == {u \in ToSet(ring) \cap exists : ~Contains(todo[u], Step("Leave"))}
ToBeWoken(u) == \E t \in exists \ {u} : Contains(todo[t], Unlock(u))

\* A procedure of the runtime, as the steps of one call by t.
Body(t, call) ==
  CASE call = "Self" -> {Section("slotsMu")}        \* AssignSlot, FreeSlot too
    [] call = "PerfChanged" -> {Section("perfMu")}
    [] call = "NEW" -> {AllocTraced}
    [] call = "Collect" -> {Collect}
    [] call = "VisitAllRefs" -> {VisitAllRefs}
    [] call = "ReportReachable" -> {ReportReachable}
    [] call = "MUTEX" -> {<<Step("InitMutex")>> \o MutexSections(t, u) :
                            u \in Waiters}
    [] call = "Fork" -> {RTProcessFork}
    [] call = "Start" -> {StartService(s) : s \in Service}

Calling(t) ==
  \E call \in Calls :
    /\ t \in Client \cap ToSet(ring) /\ Runs(t) /\ todo[t] = <<>>
    /\ call = "Start" => process = "parent"
    /\ call \in {"VisitAllRefs", "ReportReachable"} => Collectable
    /\ \E steps \in Body(t, call) : todo' = [todo EXCEPT ![t] = steps]
    /\ UNCHANGED <<world, locks, allocating, stopped, gc, made, fault>>

\* IF m.mutex = NIL THEN InitMutex (...)
NeedsMutex(t) ==
  /\ At(t, Step("InitMutex"))
  /\ Call(t, IF made = 0 THEN <<Lock("initMu"), Step("MakeMutex")>> ELSE <<>>)
  /\ UNCHANGED <<world, locks, allocating, stopped, gc, made, fault>>

\* Someone else may have won the race to initMu.
\* Mutant: nobody looks.
AlwaysFirst == TRUE
Won == made = 0

InitMutex(t) ==
  /\ At(t, Step("MakeMutex"))
  /\ Call(t, IF Won THEN <<Step("LockHeap"), Step("UnlockHeap"),
                           Step("SetMutex"), Unlock("initMu")>>
             ELSE <<Unlock("initMu")>>)
  /\ UNCHANGED <<world, locks, allocating, stopped, gc, made, fault>>

SetMutex(t) ==
  /\ At(t, Step("SetMutex"))
  /\ made' = made + 1
  /\ Done(t)
  /\ UNCHANGED <<world, locks, allocating, stopped, gc, fault>>

Critical(t) ==
  /\ \/ At(t, Step("Critical")) /\ allocating' = allocating \union {t}
     \/ At(t, Step("Uncritical")) /\ allocating' = allocating \ {t}
  /\ Done(t)
  /\ UNCHANGED <<world, locks, stopped, gc, made, fault>>

-----------------------------------------------------------------------------
(* Threads and processes.                                                  *)

ThreadEntry == <<Lock("activeMu"), Step("Enter"), Unlock("activeMu")>>
ThreadExit == <<Lock("activeMu"), Step("Leave"), Unlock("activeMu"),
                Step("Exit")>>

\* The code of a service thread, after ThreadBase has called it.
Serve(s) ==
  CASE s = "WeakCleaner" -> <<Step("LockHeap"), Step("CleanerTest"),
                              Step("UnlockHeap")>>
    [] s = "BackgroundThread" -> <<Step("LockHeap"), Step("BackgroundTest"),
                                   Step("UnlockHeap")>>
    [] s = "ForegroundThread" -> <<Step("LockHeap"), Step("ForegroundLoop")>>

\* Their endless loop.
Serving(s) ==
  /\ s \in Service \cap ToSet(ring) /\ Runs(s) /\ todo[s] = <<>>
  /\ todo' = [todo EXCEPT ![s] = Serve(s)]
  /\ UNCHANGED <<world, locks, allocating, stopped, gc, made, fault>>

\* Thread.Fork of a thread that nothing is known of: a client, or a service
\* that has been found not started.
Create(u) ==
  /\ u \notin exists \union ToSet(ring)
  /\ exists' = exists \union {u}
  /\ UNCHANGED <<process, ring, deferred>>

CreateClient(t) ==
  \E u \in Client :
    /\ t \in Client \cap ToSet(ring) /\ Runs(t) /\ todo[t] = <<>>
    /\ Create(u)
    /\ todo' = [todo EXCEPT ![u] = ThreadEntry]
    /\ UNCHANGED <<locks, allocating, stopped, gc, made, fault>>

Start(t) ==
  \E s \in Service :
    /\ At(t, <<"start", s>>)
    /\ gc' = [gc EXCEPT !.started = @ \union {s}]
    /\ todo' = [todo EXCEPT ![t] =
                  Tail(@) \o (IF s \in gc.started THEN <<>>
                              ELSE <<<<"create", s>>>>)]
    /\ UNCHANGED <<world, locks, allocating, stopped, made, fault>>

CreateService(t) ==
  \E s \in Service :
    /\ At(t, <<"create", s>>)
    /\ Create(s)
    /\ todo' = [todo EXCEPT ![t] = Tail(@), ![s] = ThreadEntry]
    /\ UNCHANGED <<locks, allocating, stopped, gc, made, fault>>

\* ThreadBase.  Any thread but the initial one may end, the services do not.
Enter(t) ==
  /\ At(t, Step("Enter"))
  /\ ring' = Append(ring, t)
  /\ Done(t)
  /\ UNCHANGED <<process, exists, deferred, locks, allocating, stopped, gc, made,
                 fault>>

Ending(t) ==
  /\ t \in (Client \ {Main}) \cap ToSet(ring) /\ Runs(t) /\ todo[t] = <<>>
  /\ ~ToBeWoken(t)
  /\ todo' = [todo EXCEPT ![t] = ThreadExit]
  /\ UNCHANGED <<world, locks, allocating, stopped, gc, made, fault>>

Leave(t) ==
  /\ At(t, Step("Leave"))
  /\ \E i \in DOMAIN ring : ring[i] = t /\ ring' = RemoveAt(ring, i)
  /\ Done(t)
  /\ UNCHANGED <<process, exists, deferred, locks, allocating, stopped, gc, made,
                 fault>>

Exit(t) ==
  /\ At(t, Step("Exit"))
  /\ exists' = exists \ {t}
  /\ Done(t)
  /\ UNCHANGED <<process, ring, deferred, locks, allocating, stopped, gc, made,
                 fault>>

\* act := me; REPEAT ... act := act.next UNTIL act = me
RoundFrom(t) ==
  LET me == CHOOSE i \in DOMAIN ring : ring[i] = t
  IN SubSeq(ring, me, Len(ring)) \o SubSeq(ring, 1, me - 1)

WalkRing(t) ==
  /\ \/ /\ At(t, Step("LockRing"))
        /\ Call(t, [i \in DOMAIN ring |-> Lock(RoundFrom(t)[i])])
     \/ /\ At(t, Step("UnlockRing"))
        /\ Call(t, [i \in DOMAIN ring |-> Unlock(RoundFrom(t)[i])])
  /\ UNCHANGED <<world, locks, allocating, stopped, gc, made, fault>>

EnterFork(t) ==
  /\ At(t, Step("EnterFork"))
  /\ deferred' = IF Solaris THEN deferred \union {t} ELSE deferred
  /\ Done(t)
  /\ UNCHANGED <<process, exists, ring, locks, allocating, stopped, gc, made,
                 fault>>

LeaveFork(t) ==
  /\ At(t, Step("LeaveFork"))
  /\ deferred' = deferred \ {t}
  /\ Done(t)
  /\ UNCHANGED <<process, exists, ring, locks, allocating, stopped, gc, made,
                 fault>>

\* fork (): in the parent, where it may also have failed, all goes on; the
\* child has a copy of everything but the other threads.
Fork(t) ==
  /\ At(t, Step("Fork"))
  /\ \/ /\ Call(t, AtForkParent \o <<Step("LeaveFork")>>)
        /\ UNCHANGED <<world, asleep, allocating>>
     \/ /\ process = "parent"
        /\ process' = "child"
        /\ exists' = {t}
        /\ todo' = [u \in Thread |->
                      IF u = t THEN AtForkChild \o <<Step("LeaveFork")>>
                      ELSE <<>>]
        /\ asleep' = {} /\ allocating' = {}
        /\ deferred' = deferred \cap {t}
        /\ UNCHANGED ring
  /\ UNCHANGED <<owner, holder, inCritical, stopped, gc, made, fault>>

ForgetStarted(t) ==
  /\ At(t, Step("ForgetStarted"))
  /\ gc' = [gc EXCEPT !.started = {}]
  /\ Done(t)
  /\ UNCHANGED <<world, locks, allocating, stopped, made, fault>>

-----------------------------------------------------------------------------

Heap(t) ==
  LockHeap(t) \/ HoldHeap(t) \/ UnlockHeap(t) \/ WaitHeap(t) \/ HaveWaited(t)
Collector(t) ==
  \/ CollectEnough(t) \/ CollectMore(t) \/ CollectorOn(t) \/ CollectorOff(t)
  \/ CollectSome(t) \/ EndCollection(t) \/ CollectAll(t) \/ StartGC(t)
  \/ CountDisabled(t)
  \/ MarkRoots(t) \/ StopWorld(t) \/ StartWorld(t)
  \/ BackgroundThread(t) \/ BackgroundAwake(t)
  \/ ForegroundThread(t) \/ ForegroundAwake(t)
  \/ WeakCleaner(t) \/ TakeDead(t)
Runtime(t) == NeedsMutex(t) \/ InitMutex(t) \/ SetMutex(t) \/ Critical(t)
Process(t) ==
  \/ Start(t) \/ CreateService(t) \/ Enter(t) \/ Leave(t) \/ Exit(t)
  \/ WalkRing(t) \/ EnterFork(t) \/ Fork(t) \/ ForgetStarted(t) \/ LeaveFork(t)

\* A thread goes on with what it has begun; what the clients begin is theirs.
Continue(t) ==
  LockStep(t) \/ UnlockStep(t) \/ Heap(t) \/ Collector(t) \/ Runtime(t) \/ Process(t)
Begin(t) == Calling(t) \/ CreateClient(t) \/ Ending(t)

\* The child of a fork by another thread than the initial one may end.
ProcessEnded == exists = {} /\ UNCHANGED vars

Next ==
  \/ \E t \in Thread :
       Continue(t) \/ Serving(t) \/ Begin(t) \/ SpuriousWakeup(t)
  \/ ProcessEnded

Spec == Init /\ [][Next]_vars

-----------------------------------------------------------------------------

Steps ==
  {Lock(l) : l \in Locks} \union {Unlock(l) : l \in Locks}
    \union {<<"start", s>> : s \in Service}
    \union {<<"create", s>> : s \in Service}
    \union {Step(name) : name \in
         {"LockHeap", "HoldHeap", "UnlockHeap", "WaitHeap", "HaveWaited",
          "CollectEnough", "CollectMore", "CollectorOn", "CollectorOff",
          "CollectSome", "EndCollection", "CollectAll", "StartGC", "Disable",
          "Enable", "MarkRoots", "StopWorld", "StartWorld", "BackgroundTest",
          "BackgroundAwake", "ForegroundLoop", "ForegroundAwake",
          "CleanerTest", "TakeDead", "InitMutex", "MakeMutex", "SetMutex",
          "Critical", "Uncritical", "Enter", "Leave", "Exit", "LockRing",
          "UnlockRing", "EnterFork", "LeaveFork", "Fork", "ForgetStarted"}}

TypeOK ==
  /\ process \in {"parent", "child"}
  /\ exists \subseteq Thread
  /\ ToSet(ring) \subseteq Thread /\ IsInjective(ring)
  /\ todo \in [Thread -> Seq(Steps)]
  /\ owner \in [Locks -> Thread \union {NIL}]
  /\ holder \in Thread \union {NIL} /\ inCritical \in 0 .. 3
  /\ asleep \subseteq exists /\ allocating \subseteq exists
  /\ deferred \subseteq exists /\ stopped \subseteq exists
  /\ gc.state \in {"Zero", "Three", "Five"} /\ gc.dead \in 0 .. MaxDead
  /\ gc.started \subseteq Service /\ gc.disabled \in 0 .. Cardinality(Client)
  /\ made \in 0 .. 1

\* How often a thread with these steps before it is inside LockHeap: the calls
\* that it has still to undo, less those that it has still to do.
Among(steps, names) == Cardinality({i \in DOMAIN steps : steps[i][1] \in names})
Depth(steps) ==
  Among(steps, {"UnlockHeap", "ForegroundLoop", "Fork"})
    - Among(steps, {"LockHeap", "HoldHeap", "HaveWaited"})

\* The heap lock excludes although holder is read without it: only the holder
\* is between LockHeap and UnlockHeap, inCritical counts how deep, and no
\* assertion of the lock or of the collector under it fails.
HeapExclusion ==
  /\ fault = "none"
  /\ \A t \in exists : Depth(todo[t]) = IF holder = t THEN inCritical ELSE 0
  /\ holder # NIL => owner["heapMu"] = holder

\* What t waits for that only another thread can give it.
WaitsFor(t) ==
  IF t \in stopped THEN {owner["activeMu"]}
  ELSE IF todo[t] = <<>> \/ t \in asleep THEN {}
  ELSE IF Head(todo[t])[1] = "lock" THEN {owner[Head(todo[t])[2]]} \ {NIL}
  ELSE IF Head(todo[t]) = Step("StopWorld")
       THEN (ToSet(ring) \ {t}) \cap ((allocating \union deferred) \ stopped)
  ELSE {}

\* No threads wait for each other in a circle, through any of the locks, the
\* suspension by the collector and the signals that fork () holds back; and
\* nobody waits for a thread that a fork has left behind.
NobodyStuck ==
  \A S \in (SUBSET exists) \ {{}} :
    \E t \in S : WaitsFor(t) \cap (S \union (Thread \ exists)) = {}

\* Nobody sleeps over his work: when the heap lock is free the cleaner is
\* asleep only when nothing is dead, and the background thread only when no
\* collection is on its way.
WorkWakes ==
  owner["heapMu"] = NIL =>
    /\ "WeakCleaner" \in asleep => gc.dead = 0
    /\ "BackgroundThread" \in asleep => gc.state = "Zero"

\* RTCollector.m3:2792, "There are no other threads": a collection in the
\* child finds no other thread to stop.
NoOtherThreads ==
  process = "child" =>
    \A t \in exists : At(t, Step("StopWorld")) => ToSet(ring) \subseteq exists

=============================================================================
