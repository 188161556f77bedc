--------------------------- MODULE PThreadSyncInv ---------------------------
(***************************************************************************)
(* The inductive invariant behind the safety properties of PThreadSync.    *)
(***************************************************************************)
EXTENDS PThreadSync

\* The threads that wait for o and that a signaller can still find.
Queued(o) == {u \in Thread : waitingOn[u] = o /\ ~InFlight(u)}

\* Q is one cycle of links: they stay in Q, no two of them meet, and no proper
\* part of Q is closed under them.
Cycle(link, Q) ==
  /\ \A x \in Q : link[x] \in Q
  /\ \A x, y \in Q : link[x] = link[y] => x = y
  /\ \A S \in SUBSET Q : S # {} /\ (\A x \in S : link[x] \in S) => S = Q

\* R is what is left of a detached cycle: the links lead from cur through R
\* and back to start, and none of them leads back to cur.
Remainder(link, R, cur, start) ==
  /\ cur \in R
  /\ \A x \in R : link[x] \in R \union {start}
  /\ \A x, y \in R : link[x] = link[y] => x = y
  /\ \A x \in R : link[x] = cur => cur = start

\* Where a thread is decides what it may be waiting on.
Place(t) ==
  /\ waitingOn[t] = NIL <=> nextWaiter[t] = NIL
  /\ pc[t] \in {"Lock", "LockWait", "Unlock", "Grant", "Waiting"} =>
       local[t].m \in Mutex
  /\ pc[t] \in {"Lock", "Unlock", "Waiting"} => local[t].c \in Condition
  /\ pc[t] \in {"Ready", "Wake", "WakeAll", "Pause"} => local[t].c = NIL
  /\ waitingOn[t] # NIL =>
       \/ pc[t] = "LockWait" /\ waitingOn[t] = local[t].m
       \/ pc[t] \in {"Unlock", "Grant", "Waiting"} /\ waitingOn[t] = local[t].c

Places == \A t \in Thread : Place(t)

\* The mutex a thread gave up in XWait or is queueing for is not in its LL.
Outside(t) ==
  \/ pc[t] \in {"Lock", "LockWait", "Unlock", "Waiting"}
  \/ pc[t] = "Grant" /\ local[t].c # NIL

\* The holder of a mutex is in its LOCK block, or about to leave it in XWait,
\* or was handed the mutex and has not woken up yet.
Holding(t) ==
  /\ \A m \in Mutex :
       holder[m] = t =>
         m \in LL[t] \/ (pc[t] \in {"Unlock", "LockWait"} /\ local[t].m = m)
  /\ pc[t] = "Unlock" => holder[local[t].m] = t
  /\ pc[t] = "LockWait" /\ waitingOn[t] = NIL => holder[local[t].m] = t
  /\ Outside(t) => local[t].m \notin LL[t]

Holders ==
  /\ \A t \in Thread : Holding(t)
  /\ \A m \in Mutex : Queued(m) # {} => holder[m] \notin Queued(m) \union {NIL}

\* What the second critical section of s will find.
FlightOK(s) ==
  /\ pc[s] = "Grant" =>
       /\ local[s].t \in Thread
       /\ waitingOn[local[s].t] = local[s].m
       /\ holder[local[s].m] = local[s].t
  /\ pc[s] = "Wake" =>
       local[s].t \in Thread /\ waitingOn[local[s].t] \in Condition
  /\ pc[s] = "WakeAll" =>
       /\ local[s].t \in Thread
       /\ local[s].start \in Thread
       /\ Remainder(nextWaiter, Flight(s), local[s].t, local[s].start)
       /\ \A u \in Flight(s) : waitingOn[u] \in Condition

Flights ==
  /\ \A s \in Thread : FlightOK(s)
  /\ \A r, s \in Thread : r # s => Flight(r) \intersect Flight(s) = {}

\* The ring of o is a single cycle of exactly the threads queued on o.
RingOK(o) ==
  IF waiters[o] = NIL
  THEN Queued(o) = {}
  ELSE waiters[o] \in Queued(o) /\ Cycle(nextWaiter, Queued(o))

Rings == \A o \in Object : RingOK(o)

\* The inductive invariant.  A step that loses the alert race leaves the rings
\* broken and is the last one.
IInv ==
  /\ TypeOK
  /\ MutualExclusion
  /\ AssertionsHold
  /\ fault = "none" => Places /\ Holders /\ Flights /\ Rings
=============================================================================
