----------------------------- MODULE StopWorld -----------------------------
(***************************************************************************)
(* How the collector suspends and resumes the other threads with signals   *)
(* (ThreadPThread.m3, "Garbage collector support", SIG_SUSPEND # 0).       *)
(*                                                                         *)
(* The suspending thread holds activeMu.  It sets act.state to Stopping    *)
(* and sends a signal; the handler of that thread answers on a semaphore   *)
(* and sleeps in sigsuspend until the state is Starting.  A thread that is *)
(* allocating (inCritical) declines without an answer and is asked again   *)
(* after RETRY_INTERVAL.  No lock protects act.state from its handler.     *)
(***************************************************************************)
EXTENDS Naturals, Sequences

CONSTANTS
  Thread,      \* the activations
  Main,        \* the initial thread: it never leaves allThreads
  NIL,         \* no thread
  Collectors,  \* the threads that find too little memory and collect
  Ops,         \* {"World", "Each"}: which of the two suspensions are used
  MaxPending,  \* the signals that the kernel queues for one thread
  MaxAllocs    \* the allocations a thread can do in its pool while the
               \* collector, which holds the heap lock, waits for it

ASSUME MainIsAThread == Main \in Thread
ASSUME NilIsNoThread == NIL \notin Thread
ASSUME QueueHasRoom == MaxPending \in Nat \ {0}
ASSUME PoolIsFinite == MaxAllocs \in Nat

VARIABLES
  active,      \* the ring allThreads
  activeMu,    \* who holds activeMu
  state,       \* act.state
  context,     \* act.stacks.context # NIL: the stack of act can be scanned
  inCritical,  \* act.heapState.inCritical # 0
  allocs,      \* how often act may still become critical
  pending,     \* the SIG_SUSPEND signals pending for act
  handler,     \* the activations of SignalHandler in act, innermost first
  acks,        \* the semaphore ackSem
  gc,          \* the procedure of the thread that holds activeMu
  fault        \* the first failed assertion, if any

vars == <<active, activeMu, state, context, inCritical, allocs, pending,
          handler, acks, gc, fault>>

mutator == <<active, inCritical, allocs>>

ActState == {"Starting", "Started", "Stopping", "Stopped"}

\* targets: the threads to suspend; todo: those that a walk has not visited;
\* cur: the thread that the walk has just looked at; act: the loop variable of
\* ProcessEachStack.
NoGC == [op |-> NIL, pc |-> "Idle", act |-> NIL, targets |-> {}, todo |-> {},
         cur |-> NIL, nLive |-> 0, nDead |-> 0]

Init ==
  /\ active = {Main}
  /\ activeMu = NIL
  /\ state = [t \in Thread |-> "Started"]
  /\ context = [t \in Thread |-> FALSE]
  /\ inCritical = [t \in Thread |-> FALSE]
  /\ allocs = [t \in Thread |-> MaxAllocs]
  /\ pending = [t \in Thread |-> 0]
  /\ handler = [t \in Thread |-> <<>>]
  /\ acks = 0
  /\ gc = NoGC
  /\ fault = "none"

\* The client's code runs: no handler has interrupted it.
Runs(t) == handler[t] = <<>>

Others(t) == active \ {t}

\* <*ASSERT*>: the program stops when the condition is false.
Check(condition) == fault' = IF condition THEN fault ELSE "assert"

\* pthread_kill.  Real-time signals are queued, the others are merged.
SignalThread(act) ==
  \/ /\ pending[act] < MaxPending
     /\ pending' = [pending EXCEPT ![act] = @ + 1]
  \/ /\ pending[act] > 0
     /\ UNCHANGED pending

SetState(act, s) == state' = [state EXCEPT ![act] = s]

-----------------------------------------------------------------------------
(* The other threads.                                                      *)

\* A pool allocation: INC (inCritical) ... DEC (inCritical).  The pool is
\* refilled under the heap lock only.
EnterCritical(t) ==
  /\ t \in active /\ Runs(t) /\ activeMu # t
  /\ ~inCritical[t]
  /\ activeMu = NIL \/ allocs[t] > 0
  /\ inCritical' = [inCritical EXCEPT ![t] = TRUE]
  /\ allocs' = [allocs EXCEPT ![t] = IF activeMu = NIL THEN @ ELSE @ - 1]
  /\ UNCHANGED <<active, activeMu, state, context, pending, handler, acks, gc,
                 fault>>

LeaveCritical(t) ==
  /\ Runs(t)
  /\ inCritical[t]
  /\ inCritical' = [inCritical EXCEPT ![t] = FALSE]
  /\ UNCHANGED <<active, activeMu, state, context, allocs, pending, handler,
                 acks, gc, fault>>

\* ThreadBase: a new thread enters allThreads, a dying one leaves it, both
\* under activeMu.
ThreadStarts(t) ==
  /\ t \notin active /\ activeMu = NIL
  /\ active' = active \union {t}
  /\ UNCHANGED <<activeMu, state, context, inCritical, allocs, pending, handler,
                 acks, gc, fault>>

ThreadEnds(t) ==
  /\ t \in active /\ activeMu = NIL
  /\ t # Main
  /\ Runs(t) /\ ~inCritical[t]
  /\ active' = active \ {t}
  /\ pending' = [pending EXCEPT ![t] = 0]
  /\ UNCHANGED <<activeMu, state, context, inCritical, allocs, handler, acks, gc,
                 fault>>

-----------------------------------------------------------------------------
(* SignalHandler.                                                          *)

\* What t is executing.
Innermost(t) == IF Runs(t) THEN "client" ELSE Head(handler[t])

\* sa_mask blocks the signal while a handler runs; sigsuspend lets it in.
\* Mutant: sa_mask is empty.
AlwaysOpen(t) == TRUE
Unmasked(t) == Innermost(t) \in {"client", "sigsuspend"}

Deliver(t) ==
  /\ pending[t] > 0
  /\ Unmasked(t)
  /\ pending' = [pending EXCEPT ![t] = @ - 1]
  /\ handler' = [handler EXCEPT ![t] = <<"Entry">> \o @]
  /\ UNCHANGED <<activeMu, state, context, acks, gc, fault>>
  /\ UNCHANGED mutator

HandlerGo(t, label) == handler' = [handler EXCEPT ![t][1] = label]

\* Back to the client's code, or out of the sigsuspend of an outer handler.
HandlerReturn(t) ==
  handler' = [handler EXCEPT ![t] =
                IF Len(@) = 1 THEN <<>> ELSE <<"Until">> \o Tail(Tail(@))]

\* In the mutant a thread lets itself be stopped while it is allocating.
NeverDeclines(t) == FALSE
Declines(t) == inCritical[t]

HandlerEntry(t) ==
  /\ \/ /\ state[t] # "Stopping"
        /\ HandlerReturn(t)
     \/ /\ state[t] = "Stopping" /\ Declines(t)
        /\ HandlerGo(t, "Decline")
     \/ /\ state[t] = "Stopping" /\ ~Declines(t)
        /\ HandlerGo(t, "Stop")
  /\ UNCHANGED <<state, context, acks, fault>>

HandlerDecline(t) ==
  /\ SetState(t, "Started")
  /\ HandlerReturn(t)
  /\ UNCHANGED <<context, acks, fault>>

HandlerStop(t) ==
  /\ SetState(t, "Stopped")
  /\ HandlerGo(t, "Ack")
  /\ UNCHANGED <<context, acks, fault>>

HandlerAck(t) ==
  /\ Check(~context[t])
  /\ context' = [context EXCEPT ![t] = TRUE]
  /\ acks' = acks + 1
  /\ HandlerGo(t, "sigsuspend")
  /\ UNCHANGED state

HandlerUntil(t) ==
  /\ HandlerGo(t, IF state[t] = "Starting" THEN "Resume" ELSE "sigsuspend")
  /\ UNCHANGED <<state, context, acks, fault>>

\* Mutant: the context is not forgotten.
ResumeKeepsContext(t) ==
  /\ SetState(t, "Started")
  /\ HandlerGo(t, "AckStart")
  /\ UNCHANGED <<context, acks, fault>>
HandlerResume(t) ==
  /\ context' = [context EXCEPT ![t] = FALSE]
  /\ SetState(t, "Started")
  /\ HandlerGo(t, "AckStart")
  /\ UNCHANGED <<acks, fault>>

HandlerAckStart(t) ==
  /\ acks' = acks + 1
  /\ HandlerReturn(t)
  /\ UNCHANGED <<state, context, fault>>

SignalHandler(t) ==
  /\ \/ Innermost(t) = "Entry" /\ HandlerEntry(t)
     \/ Innermost(t) = "Decline" /\ HandlerDecline(t)
     \/ Innermost(t) = "Stop" /\ HandlerStop(t)
     \/ Innermost(t) = "Ack" /\ HandlerAck(t)
     \/ Innermost(t) = "Until" /\ HandlerUntil(t)
     \/ Innermost(t) = "Resume" /\ HandlerResume(t)
     \/ Innermost(t) = "AckStart" /\ HandlerAckStart(t)
  /\ UNCHANGED <<activeMu, pending, gc>>
  /\ UNCHANGED mutator

-----------------------------------------------------------------------------
(* SuspendOthers, ResumeOthers and ProcessEachStack, in thread t.          *)

Collects(t, pc) == activeMu = t /\ Runs(t) /\ gc.pc \in pc

\* The end of a walk over the ring.
Walked == gc.todo = {} /\ gc.cur = NIL

\* SuspendOthers and the start of StopWorld.
SuspendOthers(t) ==
  /\ "World" \in Ops /\ t \in Collectors
  /\ t \in active /\ Runs(t) /\ ~inCritical[t]
  /\ activeMu = NIL
  /\ activeMu' = t
  /\ gc' = [NoGC EXCEPT !.op = "World", !.pc = "Stop", !.targets = Others(t),
                        !.todo = Others(t)]
  /\ UNCHANGED <<state, context, pending, handler, acks, fault>>
  /\ UNCHANGED mutator

\* ProcessEachStack: the others are suspended one at a time, from me.next on,
\* which is NIL here when the ring holds nobody else.
ProcessEachStack(t) ==
  /\ "Each" \in Ops /\ t \in Collectors
  /\ t \in active /\ Runs(t) /\ ~inCritical[t]
  /\ activeMu = NIL
  /\ Check(state[t] # "Stopped")
  /\ activeMu' = t
  /\ \E next \in IF Others(t) = {} THEN {NIL} ELSE Others(t) :
       gc' = [NoGC EXCEPT !.op = "Each", !.pc = "Next", !.act = next]
  /\ UNCHANGED <<state, context, pending, handler, acks>>
  /\ UNCHANGED mutator

\* Its loop.  The body neither moves act on nor resets nLive.
NextStack(t) ==
  /\ Collects(t, {"Next"})
  /\ gc.act # NIL
  /\ gc' = [gc EXCEPT !.pc = "Stop", !.targets = {gc.act}, !.todo = {gc.act}]
  /\ UNCHANGED <<activeMu, state, context, pending, handler, acks, fault>>
  /\ UNCHANGED mutator

\* Release activeMu; the threads that found the heap locked fill their pools.
Unlock ==
  /\ activeMu' = NIL
  /\ gc' = NoGC
  /\ allocs' = [u \in Thread |-> MaxAllocs]

LastStack(t) ==
  /\ Collects(t, {"Next"})
  /\ gc.act = NIL
  /\ Unlock
  /\ UNCHANGED <<active, state, context, inCritical, pending, handler, acks,
                 fault>>

\* The first walk of StopWorld.
SendStop(t) ==
  /\ Collects(t, {"Stop"})
  /\ \E act \in gc.todo :
       /\ Check(IF gc.op = "World" THEN state[act] # "Starting"
                                   ELSE state[act] = "Started")
       /\ IF gc.op = "Each" \/ state[act] = "Started"
          THEN /\ SetState(act, "Stopping")
               /\ SignalThread(act)
               /\ gc' = [gc EXCEPT !.todo = @ \ {act}, !.nLive = @ + 1]
          ELSE /\ gc' = [gc EXCEPT !.todo = @ \ {act}]
               /\ UNCHANGED <<state, pending>>
  /\ UNCHANGED <<activeMu, context, handler, acks>>
  /\ UNCHANGED mutator

\* sem_wait, n times.  Mutant: once less.
DrainLess(n) == acks' = IF n = 0 THEN acks ELSE acks - (n - 1)
Drain(n) ==
  /\ acks >= n
  /\ acks' = acks - n

\* acks = nLive: everybody has answered.
AllStopped(t) ==
  /\ Collects(t, {"Stop", "Restop"}) /\ Walked
  /\ acks = gc.nLive
  /\ Drain(gc.nLive)
  /\ gc' = [gc EXCEPT !.pc = "Stopped"]
  /\ UNCHANGED <<activeMu, state, context, pending, handler, fault>>
  /\ UNCHANGED mutator

\* acks # nLive: <*ASSERT acks < nLive*>, and after RETRY_INTERVAL the threads
\* that are not Stopped are asked again.
AskAgain(t) ==
  /\ Collects(t, {"Stop", "Restop"}) /\ Walked
  /\ acks # gc.nLive
  /\ Check(acks < gc.nLive)
  /\ gc' = [gc EXCEPT !.pc = "Restop", !.todo = gc.targets]
  /\ UNCHANGED <<activeMu, state, context, pending, handler, acks>>
  /\ UNCHANGED mutator

\* IF act.state # ActState.Stopped THEN ...
LookAgain(t) ==
  /\ Collects(t, {"Restop"}) /\ gc.cur = NIL
  /\ \E act \in gc.todo :
       /\ Check(state[act] # "Starting")
       /\ gc' = [gc EXCEPT !.todo = @ \ {act},
                           !.cur = IF state[act] # "Stopped" THEN act ELSE NIL]
  /\ UNCHANGED <<activeMu, state, context, pending, handler, acks>>
  /\ UNCHANGED mutator

\* ... SetState(act, ActState.Stopping); SignalThread(act).  Mutant: the state
\* is left as the handler that declined set it.
RestopBySignal(t) ==
  /\ Collects(t, {"Restop"}) /\ gc.cur # NIL
  /\ SignalThread(gc.cur)
  /\ gc' = [gc EXCEPT !.cur = NIL]
  /\ UNCHANGED <<activeMu, state, context, handler, acks, fault>>
  /\ UNCHANGED mutator
Restop(t) ==
  /\ Collects(t, {"Restop"}) /\ gc.cur # NIL
  /\ SetState(gc.cur, "Stopping")
  /\ SignalThread(gc.cur)
  /\ gc' = [gc EXCEPT !.cur = NIL]
  /\ UNCHANGED <<activeMu, context, handler, acks, fault>>
  /\ UNCHANGED mutator

\* ProcessStacks (ProcessOther of every activation), then ResumeOthers.
ResumeOthers(t) ==
  /\ Collects(t, {"Stopped"})
  /\ Check(\A act \in gc.targets : state[act] = "Stopped")
  /\ gc' = [gc EXCEPT !.pc = "Start", !.todo = gc.targets, !.nDead = 0]
  /\ UNCHANGED <<activeMu, state, context, pending, handler, acks>>
  /\ UNCHANGED mutator

\* In the mutant the state is not set: the sleeper goes back to sleep.
StaysStopped(act) == UNCHANGED state
SetStarting(act) == SetState(act, "Starting")

\* The first walk of StartWorld.
SendStart(t) ==
  /\ Collects(t, {"Start"})
  /\ \E act \in gc.todo :
       /\ Check(IF gc.op = "World" THEN state[act] # "Stopping"
                                   ELSE state[act] = "Stopped")
       /\ IF gc.op = "Each" \/ state[act] # "Started"
          THEN /\ SetStarting(act)
               /\ SignalThread(act)
               /\ gc' = [gc EXCEPT !.todo = @ \ {act}, !.nDead = @ + 1]
          ELSE /\ gc' = [gc EXCEPT !.todo = @ \ {act}]
               /\ UNCHANGED <<state, pending>>
  /\ UNCHANGED <<activeMu, context, handler, acks>>
  /\ UNCHANGED mutator

AllStarted(t) ==
  /\ Collects(t, {"Start", "Restart"}) /\ Walked
  /\ acks = gc.nDead
  /\ Drain(gc.nDead)
  /\ \/ /\ gc.op = "World"
        /\ Unlock
     \/ /\ gc.op = "Each"
        /\ gc' = [gc EXCEPT !.pc = "Next"]
        /\ UNCHANGED <<activeMu, allocs>>
  /\ UNCHANGED <<active, state, context, inCritical, pending, handler, fault>>

StartAgain(t) ==
  /\ Collects(t, {"Start", "Restart"}) /\ Walked
  /\ acks # gc.nDead
  /\ Check(acks < gc.nDead)
  /\ gc' = [gc EXCEPT !.pc = "Restart", !.todo = gc.targets]
  /\ UNCHANGED <<activeMu, state, context, pending, handler, acks>>
  /\ UNCHANGED mutator

Restart(t) ==
  /\ Collects(t, {"Restart"})
  /\ \E act \in gc.todo :
       /\ Check(state[act] # "Stopping")
       /\ gc' = [gc EXCEPT !.todo = @ \ {act}]
       /\ \/ state[act] # "Started" /\ SignalThread(act)
          \/ state[act] = "Started" /\ UNCHANGED pending
  /\ UNCHANGED <<activeMu, state, context, handler, acks>>
  /\ UNCHANGED mutator

-----------------------------------------------------------------------------
Collector(t) ==
  \/ NextStack(t) \/ LastStack(t)
  \/ SendStop(t) \/ AllStopped(t) \/ AskAgain(t) \/ LookAgain(t) \/ Restop(t)
  \/ ResumeOthers(t)
  \/ SendStart(t) \/ AllStarted(t) \/ StartAgain(t) \/ Restart(t)

Step(t) ==
  \/ EnterCritical(t) \/ LeaveCritical(t) \/ ThreadStarts(t) \/ ThreadEnds(t)
  \/ Deliver(t) \/ SignalHandler(t)
  \/ SuspendOthers(t) \/ ProcessEachStack(t) \/ Collector(t)

Next == fault = "none" /\ \E t \in Thread : Step(t)

\* The suspending thread looks at a state and sets it without the handler of
\* that thread stopping in between.
Unpreempted ==
  \A t \in Thread :
    state[t] # "Stopped" /\ state'[t] = "Stopped" => gc.cur # t

\* What the kernel schedules: signals are delivered, handlers and the
\* suspending thread run.  The handler takes much less than RETRY_INTERVAL, so
\* repeated requests do not keep a thread from ending its allocation.
Fairness ==
  \A t \in Thread :
    /\ SF_vars(fault = "none" /\ LeaveCritical(t))
    /\ WF_vars(fault = "none" /\ Deliver(t))
    /\ WF_vars(fault = "none" /\ SignalHandler(t))
    /\ WF_vars(fault = "none" /\ Collector(t))

Spec == Init /\ [][Next]_vars

FairSpec == Spec /\ Fairness

SpecUnpreempted == Init /\ [][Next /\ Unpreempted]_vars /\ Fairness

-----------------------------------------------------------------------------
(* Properties.                                                             *)

Labels == {"Entry", "Decline", "Stop", "Ack", "sigsuspend", "Until", "Resume",
           "AckStart"}

\* The declared types; a handler is interrupted at most once, in sigsuspend.
TypeOK ==
  /\ active \subseteq Thread /\ Main \in active
  /\ activeMu \in active \union {NIL}
  /\ state \in [Thread -> ActState]
  /\ context \in [Thread -> BOOLEAN]
  /\ inCritical \in [Thread -> BOOLEAN]
  /\ allocs \in [Thread -> 0..MaxAllocs]
  /\ pending \in [Thread -> 0..MaxPending]
  /\ \A t \in Thread :
       \/ handler[t] = <<>>
       \/ \E l \in Labels : handler[t] = <<l>>
       \/ \E l \in {"Entry", "Decline", "Stop", "Ack"} :
            handler[t] = <<l, "sigsuspend">>
  /\ acks \in Nat
  /\ gc.pc \in {"Idle", "Next", "Stop", "Restop", "Stopped", "Start", "Restart"}

\* No assertion of StopWorld, StartWorld, ProcessEachStack, ProcessOther or
\* SignalHandler fails, whatever stray signals a repeated request leaves.
AssertionsHold == fault = "none"

\* The threads that must not run now.
Suspended ==
  IF gc.pc # "Stopped" THEN {}
  ELSE IF gc.op = "World" THEN active \ {activeMu} ELSE gc.targets

\* While the collector works every other thread of the program sleeps in its
\* handler with its context saved, and none was stopped in the middle of an
\* allocation ("BEWARE", RTHeapRep.ThreadState); threads that come or go and
\* stray signals do not change that.
WorldStopped ==
  \A t \in Suspended :
    /\ state[t] = "Stopped" /\ context[t] /\ ~inCritical[t]
    /\ handler[t] # <<>>
    /\ handler[t][Len(handler[t])] \in {"sigsuspend", "Until"}

\* No answer is left over when activeMu is released, and none will come: the
\* next suspension counts only its own.
NoStrayAck ==
  activeMu = NIL =>
    /\ acks = 0
    /\ \A t \in Thread :
         /\ state[t] = "Started" /\ ~context[t]
         /\ handler[t] \in {<<>>, <<"Entry">>}

\* A suspension of the world is completed although threads decline, because
\* they are asked again.
WorldStops ==
  gc.op = "World" /\ gc.pc \in {"Stop", "Restop"} ~>
    gc.pc = "Stopped" \/ fault # "none"

\* A suspended thread runs again.
EveryoneResumes ==
  \A t \in Thread :
    gc.op = "World" /\ t \in Suspended ~> Runs(t) \/ fault # "none"

-----------------------------------------------------------------------------
(* What the assertions and the interface say and the code does not keep.   *)

\* <*ASSERT me.stacks.context = NIL*> in SignalHandler.
ContextIsNil ==
  \A t \in Thread :
    Innermost(t) = "Ack" => ~context[t]
=============================================================================
