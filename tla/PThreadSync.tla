---------------------------- MODULE PThreadSync ----------------------------
(***************************************************************************)
(* Mutexes, condition variables and alerts of the pthread implementation   *)
(* of the Thread interface                                                 *)
(* (m3-libs/m3core/src/thread/PTHREAD/ThreadPThread.m3).                   *)
(*                                                                         *)
(* A thread that has to wait parks on the pthread condition variable of    *)
(* its own activation.  Modula-3 mutexes and conditions keep the parked    *)
(* activations in a ring linked through nextWaiter, and whoever dequeues   *)
(* one wakes it in a second critical section, under the other activation's *)
(* mutex.  An action below is one critical section: it takes self.mutex    *)
(* and perhaps m.mutex or c.mutex inside it, and releases both at the end. *)
(***************************************************************************)
EXTENDS Naturals

CONSTANTS
  Thread,     \* the activations (one per Thread.T)
  Mutex,      \* the mutexes, numbered in the order clients lock them
  Condition,  \* the condition variables
  NIL,        \* the null reference
  Calls       \* the procedures that the clients of this instance call

Object == Mutex \union Condition

ASSUME MutexOrder == Mutex \subseteq Nat
ASSUME ObjectsDistinct == Mutex \intersect Condition = {}
ASSUME NilIsNothing == NIL \notin Thread \union Object

VARIABLES
  holder,      \* m.holder
  waiters,     \* o.waiters: the tail of the ring of o, or NIL
  waitingOn,   \* act.waitingOn: the object waited for, or NIL
  nextWaiter,  \* act.nextWaiter: the link of the ring
  alerted,     \* act.alerted
  parked,      \* the threads blocked in pthread_cond_wait on their act.cond
  pc,          \* the critical section the thread is about to enter
  local,       \* the parameters and variables of the procedure it is in
  LL,          \* the mutexes the client has locked (SPEC pragmas of Thread.i3)
  fault        \* the first failed assertion or invalid reference, if any

vars == <<holder, waiters, waitingOn, nextWaiter, alerted, parked, pc, local,
          LL, fault>>

\* No procedure is running.
NoLocal == [m |-> NIL, c |-> NIL, alertable |-> FALSE, raising |-> FALSE,
            t |-> NIL, start |-> NIL]

Init ==
  /\ holder = [m \in Mutex |-> NIL]
  /\ waiters = [o \in Object |-> NIL]
  /\ waitingOn = [t \in Thread |-> NIL]
  /\ nextWaiter = [t \in Thread |-> NIL]
  /\ alerted = [t \in Thread |-> FALSE]
  /\ parked = {}
  /\ pc = [t \in Thread |-> "Ready"]
  /\ local = [t \in Thread |-> NoLocal]
  /\ LL = [t \in Thread |-> {}]
  /\ fault = "none"

-----------------------------------------------------------------------------
(* The ring of waiting activations.                                        *)

Head(o) == nextWaiter[waiters[o]]

\* Mutant: the new waiter goes to the head of the ring.
EnqueueAtHead(o, self) ==
  /\ waitingOn' = [waitingOn EXCEPT ![self] = o]
  /\ waiters' = [waiters EXCEPT ![o] = IF @ = NIL THEN self ELSE @]
  /\ nextWaiter' =
       IF waiters[o] = NIL
       THEN [nextWaiter EXCEPT ![self] = self]
       ELSE [nextWaiter EXCEPT ![self] = Head(o), ![waiters[o]] = self]

\* Append self at the tail (LockMutex and XWait).
Enqueue(o, self) ==
  /\ waitingOn' = [waitingOn EXCEPT ![self] = o]
  /\ waiters' = [waiters EXCEPT ![o] = self]
  /\ nextWaiter' =
       IF waiters[o] = NIL
       THEN [nextWaiter EXCEPT ![self] = self]
       ELSE [nextWaiter EXCEPT ![self] = Head(o), ![waiters[o]] = self]

\* Mutant: the ring is emptied whatever its length.
DequeueDropsRest(o) ==
  /\ waiters' = [waiters EXCEPT ![o] = NIL]
  /\ UNCHANGED nextWaiter

\* Unlink the head (UnlockMutex and Signal); its own fields are not touched.
Dequeue(o) ==
  IF Head(o) = waiters[o]
  THEN /\ waiters' = [waiters EXCEPT ![o] = NIL]
       /\ UNCHANGED nextWaiter
  ELSE /\ nextWaiter' = [nextWaiter EXCEPT ![waiters[o]] = nextWaiter[Head(o)]]
       /\ UNCHANGED waiters

\* What a walk along the links from first meets before it comes to stop: the
\* least set that holds first and is closed under the links that are followed.
Walk(link, first, stop) ==
  {u \in Thread :
     \A S \in SUBSET Thread :
       (/\ first \in S
        /\ \A x \in S : link[x] \notin {NIL, stop} => link[x] \in S)
       => u \in S}

Ring(o) ==
  IF waiters[o] = NIL THEN {} ELSE Walk(nextWaiter, waiters[o], waiters[o])

-----------------------------------------------------------------------------
(* Small steps shared by the procedures.                                   *)

Go(t, label) == pc' = [pc EXCEPT ![t] = label]

Return(t) ==
  /\ Go(t, "Ready")
  /\ local' = [local EXCEPT ![t] = NoLocal]

\* <*ASSERT*> and Die: the program stops when the condition is false.
Check(condition) == fault' = IF condition THEN fault ELSE "assert"

\* pthread_cond_signal: without effect when the thread is not parked.  In the
\* mutant nobody is signalled.
NoCondSignal(u) == UNCHANGED parked
CondSignal(u) == parked' = parked \ {u}

\* Mutant: the link is not cleared.
WakeUpKeepsLink(u) ==
  /\ waitingOn' = [waitingOn EXCEPT ![u] = NIL]
  /\ UNCHANGED nextWaiter
  /\ CondSignal(u)

\* The second section: the activation is told that it is off the list.
WakeUp(u) ==
  /\ waitingOn' = [waitingOn EXCEPT ![u] = NIL]
  /\ nextWaiter' = [nextWaiter EXCEPT ![u] = NIL]
  /\ CondSignal(u)

-----------------------------------------------------------------------------
(* LockMutex.                                                              *)

\* self.mutex and m.mutex: take a free mutex, or queue up and park.
LockMutex(t, m) ==
  \/ /\ holder[m] = NIL
     /\ holder' = [holder EXCEPT ![m] = t]
     /\ LL' = [LL EXCEPT ![t] = @ \union {m}]
     /\ Return(t)
     /\ UNCHANGED <<waiters, waitingOn, nextWaiter, parked, fault>>
  \/ /\ holder[m] # NIL
     /\ Check(waitingOn[t] = NIL /\ nextWaiter[t] = NIL /\ holder[m] # t)
     /\ Enqueue(m, t)
     /\ parked' = parked \union {t}
     /\ Go(t, "LockWait")
     /\ local' = [local EXCEPT ![t].m = m]
     /\ UNCHANGED <<holder, LL>>

\* The client locks mutexes in increasing order: REQUIRES sup(LL) < m.
Acquire(t, m) ==
  /\ "Acquire" \in Calls
  /\ pc[t] = "Ready"
  /\ \A held \in LL[t] : held < m
  /\ LockMutex(t, m)
  /\ UNCHANGED alerted

\* m.acquire () at the end of XWait.
Reacquire(t) ==
  /\ pc[t] = "Lock"
  /\ LockMutex(t, local[t].m)
  /\ UNCHANGED alerted

\* UNTIL self.waitingOn = NIL.  The mutant takes any wakeup for the handoff.
AnyWakeup(t) == TRUE
OffList(t) == waitingOn[t] = NIL

\* Woken in LockMutex: the mutex was handed over, or the wakeup was an alert
\* or spurious and the thread parks again.
LockWake(t) ==
  /\ pc[t] = "LockWait"
  /\ t \notin parked
  /\ \/ /\ ~OffList(t)
        /\ parked' = parked \union {t}
        /\ UNCHANGED <<pc, local, LL, fault>>
     \/ /\ OffList(t)
        /\ Check(holder[local[t].m] = t /\ nextWaiter[t] = NIL)
        /\ LL' = [LL EXCEPT ![t] = @ \union {local[t].m}]
        /\ Return(t)
        /\ UNCHANGED parked
  /\ UNCHANGED <<holder, waiters, waitingOn, nextWaiter, alerted>>

-----------------------------------------------------------------------------
(* UnlockMutex.                                                            *)

\* XWait, the caller when a condition is given, goes on to its waiting loop.
AfterUnlock(t) == IF local[t].c = NIL THEN "Ready" ELSE "Waiting"

\* Who holds m next.  In the mutant the head is woken to try again.
NoSuccessor(m) == NIL
Successor(m) == IF waiters[m] = NIL THEN NIL ELSE Head(m)

\* self.mutex and m.mutex: free the mutex, or hand it to the head of the ring.
UnlockMutex(t, m) ==
  /\ Check(holder[m] = t)
  /\ LL' = [LL EXCEPT ![t] = @ \ {m}]
  /\ holder' = [holder EXCEPT ![m] = Successor(m)]
  /\ \/ /\ waiters[m] = NIL
        /\ Go(t, AfterUnlock(t))
        /\ UNCHANGED <<waiters, nextWaiter, local>>
     \/ /\ waiters[m] # NIL
        /\ Dequeue(m)
        /\ local' = [local EXCEPT ![t].m = m, ![t].t = Head(m)]
        /\ Go(t, "Grant")
  /\ UNCHANGED <<waitingOn, alerted, parked>>

Release(t, m) ==
  /\ "Release" \in Calls
  /\ pc[t] = "Ready"
  /\ m \in LL[t]
  /\ UnlockMutex(t, m)

\* m.release () in XWait.
WaitRelease(t) ==
  /\ pc[t] = "Unlock"
  /\ UnlockMutex(t, local[t].m)

\* t.mutex: tell the new holder.
Grant(t) ==
  /\ pc[t] = "Grant"
  /\ Check(waitingOn[local[t].t] = local[t].m)
  /\ WakeUp(local[t].t)
  /\ Go(t, AfterUnlock(t))
  /\ local' = [local EXCEPT ![t] =
                 IF @.c = NIL THEN NoLocal ELSE [@ EXCEPT !.t = NIL]]
  /\ UNCHANGED <<holder, waiters, alerted, LL>>

-----------------------------------------------------------------------------
(* XWait: Wait and AlertWait.                                              *)

\* In the mutant the mutex and the condition are mixed up.
SwappedArguments(m, c, alertable) ==
  [NoLocal EXCEPT !.m = c, !.c = m, !.alertable = alertable]
Arguments(m, c, alertable) ==
  [NoLocal EXCEPT !.m = m, !.c = c, !.alertable = alertable]

\* self.mutex and c.mutex: join the ring of c.  The client gives m up here.
XWait(t, m, c, alertable) ==
  /\ (IF alertable THEN "AlertWait" ELSE "Wait") \in Calls
  /\ pc[t] = "Ready"
  /\ m \in LL[t]
  /\ Check(waitingOn[t] = NIL /\ nextWaiter[t] = NIL)
  /\ Enqueue(c, t)
  /\ LL' = [LL EXCEPT ![t] = @ \ {m}]
  /\ local' = [local EXCEPT ![t] = Arguments(m, c, alertable)]
  /\ Go(t, "Unlock")
  /\ UNCHANGED <<holder, alerted, parked>>

\* Mutant: it waits first and looks afterwards.
KeepWaitingBlindly(t) ==
  /\ parked' = parked \union {t}
  /\ UNCHANGED <<waiters, waitingOn, nextWaiter, alerted, pc, local, fault>>

\* The loop of XWait: not alerted and still on a list, wait (some more).
KeepWaiting(t) ==
  /\ ~OffList(t)
  /\ parked' = parked \union {t}
  /\ UNCHANGED <<waiters, waitingOn, nextWaiter, alerted, pc, local, fault>>

\* Signal or Broadcast happened without an alert.
WaitSignalled(t) ==
  /\ OffList(t)
  /\ Check(nextWaiter[t] = NIL)
  /\ Go(t, "Lock")
  /\ UNCHANGED <<waiters, waitingOn, nextWaiter, alerted, parked, local>>

\* In the mutant the tail pointer is left alone when the tail goes.
SameTail(c, t, prev) == waiters[c]
TailWithout(c, t, prev) == IF waiters[c] = t THEN prev ELSE waiters[c]

\* Take an alerted thread off the ring of c.  The search for its predecessor
\* trusts that it is there: otherwise it meets a null reference, empties a
\* ring that holds another thread, or never ends.
Unlink(t, c) ==
  \/ /\ t \notin Ring(c)
     /\ fault' = IF waiters[c] = NIL THEN "nil"
                 ELSE IF Head(c) = waiters[c] THEN "lost" ELSE "endless"
     /\ waiters' = IF fault' = "lost" THEN [waiters EXCEPT ![c] = NIL] ELSE waiters
     /\ nextWaiter' =
          IF fault' = "lost" THEN [nextWaiter EXCEPT ![t] = NIL] ELSE nextWaiter
  \/ /\ Ring(c) = {t}
     /\ waiters' = [waiters EXCEPT ![c] = NIL]
     /\ nextWaiter' = [nextWaiter EXCEPT ![t] = NIL]
     /\ Check(waitingOn[t] = c)
  \/ /\ t \in Ring(c) /\ Head(c) # waiters[c]
     /\ \E prev \in Ring(c) :
          /\ nextWaiter[prev] = t
          /\ nextWaiter' = [nextWaiter EXCEPT ![prev] = nextWaiter[t], ![t] = NIL]
          /\ waiters' = [waiters EXCEPT ![c] = TailWithout(c, t, prev)]
     /\ Check(waitingOn[t] = c)

WaitAlerted(t) ==
  /\ alerted' = [alerted EXCEPT ![t] = FALSE]
  /\ \/ /\ ~OffList(t)
        /\ Unlink(t, local[t].c)
        /\ waitingOn' = [waitingOn EXCEPT ![t] = NIL]
     \/ /\ OffList(t)
        /\ Check(nextWaiter[t] = NIL)
        /\ UNCHANGED <<waiters, waitingOn, nextWaiter>>
  /\ Go(t, "Lock")
  /\ local' = [local EXCEPT ![t].raising = TRUE]
  /\ UNCHANGED parked

MustRaise(t) == local[t].alertable /\ alerted[t]

WaitLoop(t) ==
  /\ pc[t] = "Waiting"
  /\ t \notin parked
  /\ \/ MustRaise(t) /\ WaitAlerted(t)
     \/ ~MustRaise(t) /\ WaitSignalled(t)
     \/ ~MustRaise(t) /\ KeepWaiting(t)
  /\ UNCHANGED <<holder, LL>>

-----------------------------------------------------------------------------
(* Signal and Broadcast.                                                   *)

\* self.mutex and c.mutex: take the head off the ring.
Signal(t, c) ==
  /\ "Signal" \in Calls
  /\ pc[t] = "Ready"
  /\ \/ /\ waiters[c] = NIL
        /\ UNCHANGED <<waiters, nextWaiter, pc, local>>
     \/ /\ waiters[c] # NIL
        /\ Dequeue(c)
        /\ local' = [local EXCEPT ![t].t = Head(c)]
        /\ Go(t, "Wake")
  /\ UNCHANGED <<holder, waitingOn, alerted, parked, LL, fault>>

\* t.mutex: wake it.
Wake(t) ==
  /\ pc[t] = "Wake"
  /\ WakeUp(local[t].t)
  /\ Return(t)
  /\ UNCHANGED <<holder, waiters, alerted, LL, fault>>

\* self.mutex and c.mutex: detach the whole ring.
Broadcast(t, c) ==
  /\ "Broadcast" \in Calls
  /\ pc[t] = "Ready"
  /\ \/ /\ waiters[c] = NIL
        /\ UNCHANGED <<waiters, pc, local>>
     \/ /\ waiters[c] # NIL
        /\ waiters' = [waiters EXCEPT ![c] = NIL]
        /\ local' = [local EXCEPT ![t].t = waiters[c], ![t].start = waiters[c]]
        /\ Go(t, "WakeAll")
  /\ UNCHANGED <<holder, waitingOn, nextWaiter, alerted, parked, LL, fault>>

\* In the mutant the link is read after it was cleared.
NextTooLate(t) == NIL
NextToWake(t) == nextWaiter[local[t].t]

\* t.mutex, once for every detached activation: the link is read before it is
\* cleared, and the loop ends when it comes back to the first.
WakeAll(t) ==
  /\ pc[t] = "WakeAll"
  /\ WakeUp(local[t].t)
  /\ LET next == NextToWake(t) IN
       \/ /\ next = local[t].start
          /\ Return(t)
          /\ UNCHANGED fault
       \/ /\ next # local[t].start
          /\ local' = [local EXCEPT ![t].t = next]
          /\ fault' = IF next = NIL THEN "link" ELSE fault
          /\ UNCHANGED pc
  /\ UNCHANGED <<holder, waiters, alerted, LL>>

-----------------------------------------------------------------------------
(* Alerts and pauses.                                                      *)

Alert(t, u) ==
  /\ "Alert" \in Calls
  /\ pc[t] = "Ready"
  /\ alerted' = [alerted EXCEPT ![u] = TRUE]
  /\ CondSignal(u)
  /\ UNCHANGED <<holder, waiters, waitingOn, nextWaiter, pc, local, LL, fault>>

TestAlert(t) ==
  /\ "TestAlert" \in Calls
  /\ pc[t] = "Ready"
  /\ alerted' = [alerted EXCEPT ![t] = FALSE]
  /\ UNCHANGED <<holder, waiters, waitingOn, nextWaiter, parked, pc, local, LL,
                 fault>>

\* XPause: Pause and AlertPause.
XPause(t, alertable) ==
  /\ (IF alertable THEN "AlertPause" ELSE "Pause") \in Calls
  /\ pc[t] = "Ready"
  /\ Check(waitingOn[t] = NIL /\ nextWaiter[t] = NIL)
  /\ local' = [local EXCEPT ![t].alertable = alertable]
  /\ Go(t, "Pause")
  /\ UNCHANGED <<holder, waiters, waitingOn, nextWaiter, alerted, parked, LL>>

PauseLoop(t) ==
  /\ pc[t] = "Pause"
  /\ t \notin parked
  /\ \/ /\ MustRaise(t)
        /\ alerted' = [alerted EXCEPT ![t] = FALSE]
        /\ Return(t)
        /\ UNCHANGED parked
     \/ /\ ~MustRaise(t)
        /\ parked' = parked \union {t}
        /\ UNCHANGED <<alerted, pc, local>>
  /\ UNCHANGED <<holder, waiters, waitingOn, nextWaiter, LL, fault>>

\* pthread_cond_timedwait returns ETIMEDOUT.
PauseTimeout(t) ==
  /\ pc[t] = "Pause"
  /\ t \in parked
  /\ parked' = parked \ {t}
  /\ Return(t)
  /\ UNCHANGED <<holder, waiters, waitingOn, nextWaiter, alerted, LL, fault>>

\* POSIX lets pthread_cond_wait return although nobody signalled.
SpuriousWakeup(t) ==
  /\ t \in parked
  /\ parked' = parked \ {t}
  /\ UNCHANGED <<holder, waiters, waitingOn, nextWaiter, alerted, pc, local, LL,
                 fault>>

-----------------------------------------------------------------------------
\* The procedures a client calls.
Call(t) ==
  \/ \E m \in Mutex : Acquire(t, m) \/ Release(t, m)
  \/ \E m \in Mutex, c \in Condition, b \in BOOLEAN : XWait(t, m, c, b)
  \/ \E c \in Condition : Signal(t, c) \/ Broadcast(t, c)
  \/ \E u \in Thread : Alert(t, u)
  \/ TestAlert(t)
  \/ \E b \in BOOLEAN : XPause(t, b)

\* The rest of a procedure that has been called.
Continue(t) ==
  \/ Reacquire(t) \/ LockWake(t) \/ WaitRelease(t) \/ Grant(t)
  \/ WaitLoop(t)
  \/ Wake(t) \/ WakeAll(t)
  \/ PauseLoop(t) \/ PauseTimeout(t)

Step(t) == fault = "none" /\ (Call(t) \/ Continue(t) \/ SpuriousWakeup(t))

Next == \E t \in Thread : Step(t)

Spec == Init /\ [][Next]_vars

\* Every thread keeps running (the kernel schedules all pthreads and no pthread
\* mutex is held for ever); the deadline of a pause is absolute, so repeated
\* wakeups do not put it off; and clients come to the end of their LOCK blocks.
Fairness ==
  \A t \in Thread :
    /\ WF_vars(fault = "none" /\ Continue(t))
    /\ SF_vars(fault = "none" /\ PauseTimeout(t))
    /\ \A m \in Mutex : SF_vars(fault = "none" /\ Release(t, m))

FairSpec == Spec /\ Fairness

-----------------------------------------------------------------------------
(* Properties.                                                             *)

Labels == {"Ready", "Lock", "LockWait", "Unlock", "Grant", "Waiting", "Wake",
           "WakeAll", "Pause"}

Locals == [m : Mutex \union {NIL}, c : Condition \union {NIL},
           alertable : BOOLEAN, raising : BOOLEAN,
           t : Thread \union {NIL}, start : Thread \union {NIL}]

\* The variables hold what the declarations of ThreadPThread.m3 let them hold.
TypeOK ==
  /\ holder \in [Mutex -> Thread \union {NIL}]
  /\ waiters \in [Object -> Thread \union {NIL}]
  /\ waitingOn \in [Thread -> Object \union {NIL}]
  /\ nextWaiter \in [Thread -> Thread \union {NIL}]
  /\ alerted \in [Thread -> BOOLEAN]
  /\ parked \subseteq Thread
  /\ pc \in [Thread -> Labels]
  /\ local \in [Thread -> Locals]
  /\ LL \in [Thread -> SUBSET Mutex]
  /\ fault \in {"none", "assert", "link", "nil", "lost", "endless"}

\* A mutex that a client thread has locked is held by that thread and by no
\* other, whatever mix of handoffs, waits, alerts and wakeups went before
\* (LockMutex, UnlockMutex, XWait).
MutualExclusion ==
  \A t, u \in Thread : \A m \in LL[t] :
    /\ holder[m] = t
    /\ m \in LL[u] => u = t

\* No ASSERT of LockMutex, UnlockMutex, XWait or XPause fails, neither Die is
\* reached and Broadcast never follows a null link: the second critical section
\* of UnlockMutex, Signal and Broadcast finds the fields that the first one
\* left, although both locks were dropped in between.
AssertionsHold == fault \notin {"assert", "link"}

\* The threads that s took off a list and has not told so yet.
Flight(s) ==
  IF pc[s] = "WakeAll" THEN Walk(nextWaiter, local[s].t, local[s].start)
  ELSE IF pc[s] \in {"Grant", "Wake"} THEN {local[s].t} ELSE {}

InFlight(u) == \E s \in Thread : u \in Flight(s)

\* No waiter is lost: a thread that waits for an object is on its ring, where
\* a later release or signal finds it, or somebody is about to wake it; and the
\* ring holds nobody else (the theory in the comment before Activation).
NoLostWaiter ==
  fault = "none" =>
    /\ \A u \in Thread :
         waitingOn[u] # NIL => u \in Ring(waitingOn[u]) \/ InFlight(u)
    /\ \A o \in Object : \A u \in Ring(o) : waitingOn[u] = o /\ ~InFlight(u)

\* A mutex that threads queue for is never free, so nobody can overtake them
\* by the fast path of LockMutex, and none of them holds it already.
NeverIdle ==
  \A m \in Mutex : waiters[m] # NIL => holder[m] \notin Ring(m) \union {NIL}

\* Following the links from the head of the ring of o one meets u before v.
Before(o, u, v) ==
  /\ {u, v} \subseteq Ring(o)
  /\ v # Head(o)
  /\ u \in Walk(nextWaiter, Head(o), v)

\* First in, first out ("Newer, with O(1) FIFO scheduling", m3makefile): nobody
\* leaves a ring before a thread ahead of it, unless it leaves by an alert, and
\* a new waiter comes after all the others.
NoOvertaking ==
  [][\A o \in Object : \A u \in Ring(o) : \A v \in Thread \ {u} :
       u \in Ring(o)' =>
         /\ v \notin Ring(o) /\ v \in Ring(o)' => Before(o, u, v)'
         /\ Before(o, u, v) => Before(o, u, v)' \/ (alerted[v] /\ ~alerted'[v])
    ]_vars

\* The only step of the whole package that can go wrong is a thread in
\* AlertWait that handles an alert while a Signal or Broadcast has taken it off
\* the list and not told it yet.
OnlyTheAlertRaceFaults ==
  [][fault' # fault =>
       \E t \in Thread : pc[t] = "Waiting" /\ MustRaise(t) /\ InFlight(t)]_vars

-----------------------------------------------------------------------------
(* What the comments and the interface say and the code does not keep.     *)

\* "prev := c.waiters; (* prev # NIL. *)" in XWait.
PrevIsNotNil == fault # "nil"

-----------------------------------------------------------------------------
(* Refinement of ThreadSpec.                                               *)

\* Where the thread is between the atomic actions of the interface.
At(t) ==
  LET l == local[t] IN
  CASE pc[t] = "Pause" -> [step |-> "Pause", alertable |-> l.alertable]
    [] l.c # NIL ->
         [step |-> CASE l.raising -> "ResumeAlerted"
                     [] ~l.raising /\ l.alertable /\ pc[t] \notin {"Lock", "LockWait"}
                          -> "Choose"
                     [] OTHER -> "Resume",
          m |-> l.m, c |-> l.c, alertable |-> l.alertable]
    [] OTHER -> [step |-> "Idle"]

Owner(m) ==
  IF \E t \in Thread : m \in LL[t] THEN CHOOSE t \in Thread : m \in LL[t] ELSE NIL

Interface == INSTANCE ThreadSpec WITH
  holder <- [m \in Mutex |-> Owner(m)],
  waiting <- [c \in Condition |-> Ring(c)],
  pendingAlerts <- {t \in Thread : alerted[t]},
  at <- [t \in Thread |-> At(t)]

\* No thread in AlertWait is alerted and signalled at the same time.
Undisturbed ==
  \A t \in Thread :
    MustRaise(t) /\ pc[t] \in {"Unlock", "Grant", "Waiting"} => t \in Ring(local[t].c)

\* Every step of the package that neither starts from such a coincidence nor
\* leads to one is a step of the interface or changes nothing there.
ImplementsInterface ==
  /\ Interface!Init
  /\ [][Undisturbed /\ Undisturbed' => Interface!Next]_(Interface!vars)

-----------------------------------------------------------------------------
(* Liveness, as long as nothing has gone wrong.                            *)

Resumed(t) == pc[t] = "Ready" \/ fault # "none"

\* FIFO handoff: whoever queues for a mutex gets it.
LockersProceed ==
  \A t \in Thread : pc[t] \in {"Lock", "LockWait"} ~> Resumed(t)

\* A signalled waiter returns with its mutex, however the wakeup interleaves
\* with the release in its own Wait and with alerts.
SignalledResume ==
  \A t \in Thread :
    local[t].c # NIL /\ t \notin Ring(local[t].c) ~> Resumed(t)

\* An alert ends an AlertWait or an AlertPause.
AlertedResume ==
  \A t \in Thread : MustRaise(t) ~> Resumed(t)
=============================================================================
