------------------------------ MODULE ForkJoin ------------------------------
(***************************************************************************)
(* Threads that are made, joined and cleaned up (ThreadPThread.m3): Fork   *)
(* with AssignSlot, ThreadBase with RunThread and FreeSlot, Self, XJoin    *)
(* and CleanThread.  Every action is one section under slotsMu, joinMu,    *)
(* activeMu or the mutex of an activation.  The wait for t.join is the one *)
(* of XWait against the Broadcast of RunThread, which tells the joiners    *)
(* after it has taken their list.                                          *)
(***************************************************************************)
EXTENDS Integers, FiniteSetsExt

CONSTANTS
  MaxThread,    \* bound on the threads that are ever forked
  InitialSize,  \* the size of the first slot table, 20 in the code
  Adversity     \* coincidences and failures that are let happen, see below

\* "LateAlert": the end of a thread and an alert meet in an AlertJoin.  The
\* thread begins to tell its joiners while one of them has an alert pending or
\* has chosen to raise Alerted, or a joiner is alerted after that and before
\* XWait has seen that it was told.
\* "EarlyCleanup": the collector finds the T of a thread unreachable before
\* that thread has left the ring of active threads.
\* "NoMemory": there is no memory for a larger slot table.
\* "JoinMain": a thread joins the initial one.
ASSUME AdversityIsKnown ==
  Adversity \subseteq {"LateAlert", "EarlyCleanup", "NoMemory", "JoinMain"}
ASSUME BoundsArePositive == MaxThread \in Nat /\ InitialSize \in Nat \ {0}

Thread == 0 .. MaxThread
Main == 0   \* the initial thread
NIL == -1

VARIABLES
  slots,     \* the slot table; slots[0] is not used
  nSlotted,  \* n_slotted
  nextSlot,  \* next_slot
  slot,      \* act.slot
  active,    \* the ring allThreads
  pc,        \* the place of a thread in the code
  arg,       \* the T that it forks or joins, with the local variable n
  ended,     \* the threads t with t.join = NIL
  joined,    \* the threads t with t.joined
  result,    \* the threads whose t.result is set
  waiting,   \* the threads whose waitingOn is the condition t.join
  alerted,   \* the threads with act.alerted
  got,       \* what Join (t) has returned: nothing yet, t's result or NIL
  held,      \* the threads whose T the clients can still reach
  disposed,  \* the threads whose activation is disposed
  cleaned,   \* the threads t for which CleanThread (t) has run
  fault      \* the first Die that was reached, or endless loop

table == <<slots, nSlotted, nextSlot, slot>>
joins == <<ended, joined, result, waiting, got>>
memory == <<held, disposed, cleaned>>
vars == <<table, joins, active, pc, arg, alerted, memory, fault>>

Place ==
  {"Unborn", "Ready", "Assign", "NewTable", "Grow", "Create", "Base",
   "ReadSelf", "Notify", "Tell", "Free", "Leave", "Dead", "New",
   "Joining", "AlertJoining", "Woken", "AlertWoken", "Alerted"}

NoArg == [t |-> NIL, n |-> 0]

\* InitWithStackBase: the initial thread has no join condition and is about to
\* get its slot.
Init ==
  /\ slots = <<>>
  /\ nSlotted = 0 /\ nextSlot = 1
  /\ slot = [t \in Thread |-> 0]
  /\ active = {Main}
  /\ pc = [t \in Thread |-> IF t = Main THEN "Assign" ELSE "Unborn"]
  /\ arg = [t \in Thread |-> [NoArg EXCEPT !.t = IF t = Main THEN Main ELSE NIL]]
  /\ ended = {Main}
  /\ joined = {} /\ result = {}
  /\ waiting = [t \in Thread |-> {}]
  /\ alerted = {}
  /\ got = [t \in Thread |-> "none"]
  /\ held = {} /\ disposed = {} /\ cleaned = {}
  /\ fault = "none"

Goto(s, place) == pc' = [pc EXCEPT ![s] = place]

\* The threads inside XJoin (self, t, ...): in the loop of XWait, or at its
\* m.acquire, with or without Alerted to raise.
Inside == {"Joining", "AlertJoining", "Woken", "AlertWoken", "Alerted"}
Joiners(t) == {s \in Thread : pc[s] \in Inside /\ arg[s].t = t}

\* A thread keeps joinMu while it tells its joiners; nobody else keeps it from
\* one step to the next.
JoinMuFree == \A t \in Thread : pc[t] # "Tell"

Return(s) ==
  /\ Goto(s, "Ready")
  /\ arg' = [arg EXCEPT ![s] = NoArg]

Die(reason) == fault' = reason

-----------------------------------------------------------------------------
(* AssignSlot.                                                             *)

Size(t) == Cardinality(DOMAIN t)    \* NUMBER (t^), 0 when t is NIL
\* Mutant: off by one.
FullLate(t) == nSlotted >= Size(t)
Full(t) == nSlotted >= Size(t) - 1  \* n_slotted >= LAST (t^)

\* Mutants: the array starts at 1, the copy is missing.
NewSlotsFromOne(t, n) == [i \in 1 .. n |-> IF i \in DOMAIN t THEN t[i] ELSE NIL]
NewSlotsEmpty(t, n) == [i \in 0 .. n - 1 |-> NIL]

\* A table of n slots with the contents of t.
NewSlots(t, n) == [i \in 0 .. n - 1 |-> IF i \in DOMAIN t THEN t[i] ELSE NIL]

FreeSlots(t) == {i \in 1 .. Size(t) - 1 : t[i] = NIL}

\* The search goes round the table from next_slot.
EmptySlot(t) ==
  LET ahead == {i \in FreeSlots(t) : i >= nextSlot}
  IN Min(IF ahead # {} THEN ahead ELSE FreeSlots(t))

\* Take a slot for the new thread in t, the table that is now in use; the slot
\* becomes act.slot, which nobody reads before the thread runs.
Register(s, t) ==
  IF FreeSlots(t) = {}
  THEN Die("endless") /\ UNCHANGED <<table, pc, arg>>
  ELSE LET i == EmptySlot(t) IN
       /\ slots' = [t EXCEPT ![i] = arg[s].t]
       /\ slot' = [slot EXCEPT ![arg[s].t] = i]
       /\ nextSlot' = i
       /\ nSlotted' = nSlotted + 1
       /\ IF arg[s].t = Main THEN Return(s)
          ELSE Goto(s, "Create") /\ UNCHANGED arg
       /\ UNCHANGED fault

\* There may be no room in t; a new table is allocated without the lock.
RegisterOrGrow(s, t) ==
  IF Full(t)
  THEN /\ slots' = t
       /\ arg' = [arg EXCEPT ![s].n = Size(t)]
       /\ Goto(s, "Grow")
       /\ UNCHANGED <<nSlotted, nextSlot, slot, fault>>
  ELSE Register(s, t)

NotSlots == <<joins, active, alerted, memory>>

AssignSlot(s) ==
  /\ pc[s] = "Assign"
  /\ IF slots = <<>>
     THEN Goto(s, "NewTable") /\ UNCHANGED <<table, arg, fault>>
     ELSE RegisterOrGrow(s, slots)
  /\ UNCHANGED NotSlots

\* Another thread may have made a table in the mean time.
NewTable(s) ==
  /\ pc[s] = "NewTable"
  /\ RegisterOrGrow(s, IF slots = <<>> THEN NewSlots(<<>>, InitialSize) ELSE slots)
  /\ UNCHANGED NotSlots

\* The larger table is installed by the first thread that comes back; another
\* one uses it, or starts again when that table is full too.
\* Mutant: it does not look at the size again.
GrowOnce(s) ==
  /\ pc[s] = "Grow"
  /\ IF arg[s].n = Size(slots) THEN Register(s, NewSlots(slots, 2 * arg[s].n))
     ELSE ~Full(slots) /\ Register(s, slots)
  /\ UNCHANGED NotSlots
Grow(s) ==
  /\ pc[s] = "Grow"
  /\ IF arg[s].n = Size(slots) THEN Register(s, NewSlots(slots, 2 * arg[s].n))
     ELSE IF ~Full(slots) THEN Register(s, slots)
     ELSE Goto(s, "Assign") /\ UNCHANGED <<table, arg, fault>>
  /\ UNCHANGED NotSlots

-----------------------------------------------------------------------------
(* Fork and the life of the new thread.                                    *)

Unborn == {t \in Thread : pc[t] = "Unborn"}

\* The activation and the T are made; the T is registered for CleanThread.
Fork(s) ==
  /\ pc[s] = "Ready"
  /\ Unborn # {}
  /\ pc' = [pc EXCEPT ![s] = "Assign", ![Min(Unborn)] = "New"]
  /\ arg' = [arg EXCEPT ![s].t = Min(Unborn)]
  /\ UNCHANGED <<table, joins, active, alerted, memory, fault>>

\* NEW raises an exception; the FINALLY clause disposes the activation.  (The
\* initial thread gets its slot outside Fork.)
ForkFails(s) ==
  /\ "NoMemory" \in Adversity
  /\ pc[s] = "Grow" /\ arg[s].t # Main
  /\ pc' = [pc EXCEPT ![s] = "Ready", ![arg[s].t] = "Dead"]
  /\ arg' = [arg EXCEPT ![s] = NoArg]
  /\ disposed' = disposed \union {arg[s].t}
  /\ UNCHANGED <<table, joins, active, alerted, held, cleaned, fault>>

\* thread_create, and the client gets the T.
CreateThread(s) ==
  /\ pc[s] = "Create"
  /\ pc' = [pc EXCEPT ![s] = "Ready", ![arg[s].t] = "Base"]
  /\ held' = held \union {arg[s].t}
  /\ arg' = [arg EXCEPT ![s] = NoArg]
  /\ UNCHANGED <<table, joins, active, alerted, disposed, cleaned, fault>>

ThreadBase(t) ==
  /\ pc[t] = "Base"
  /\ active' = active \union {t}
  /\ Goto(t, "ReadSelf")
  /\ UNCHANGED <<table, joins, arg, alerted, memory, fault>>

\* RunThread: self := slots [me.slot], and apply begins.
ReadSelf(t) ==
  /\ pc[t] = "ReadSelf"
  /\ IF slots[slot[t]] = t
     THEN Goto(t, "Ready") /\ UNCHANGED fault
     ELSE Die("slot") /\ UNCHANGED pc
  /\ UNCHANGED <<table, joins, active, arg, alerted, memory>>

\* Self: the client may give its T away.
Self(t) ==
  /\ pc[t] = "Ready"
  /\ IF slots[slot[t]] = t
     THEN held' = held \union {t} /\ UNCHANGED fault
     ELSE Die("slot") /\ UNCHANGED held
  /\ UNCHANGED <<table, joins, active, pc, arg, alerted, disposed, cleaned>>

\* apply returns; the result is stored without a lock.
Finish(t) ==
  /\ pc[t] = "Ready"
  /\ t # Main
  /\ result' = result \union {t}
  /\ Goto(t, "Notify")
  /\ UNCHANGED <<table, ended, joined, waiting, got, active, arg, alerted,
                 memory, fault>>

\* LOCK joinMu and the first half of Broadcast (self.join): the list of the
\* waiters is taken off the condition.
NotifyJoiner(t) ==
  /\ pc[t] = "Notify"
  /\ JoinMuFree
  /\ \/ "LateAlert" \in Adversity
     \/ \A s \in Joiners(t) :
          pc[s] # "Alerted" /\ ~(pc[s] = "AlertJoining" /\ s \in alerted)
  /\ Goto(t, "Tell")
  /\ UNCHANGED <<table, joins, active, arg, alerted, memory, fault>>

\* Mutant: nobody is told.
TellNobody(t) ==
  /\ pc[t] = "Tell"
  /\ ended' = ended \union {t}
  /\ Goto(t, "Free")
  /\ UNCHANGED <<table, joined, result, waiting, got, active, arg, alerted,
                 memory, fault>>
\* The second half tells each of them (there is one at most); self.join := NIL
\* and joinMu is free.
TellJoiner(t) ==
  /\ pc[t] = "Tell"
  /\ waiting' = [waiting EXCEPT ![t] = {}]
  /\ ended' = ended \union {t}
  /\ Goto(t, "Free")
  /\ UNCHANGED <<table, joined, result, got, active, arg, alerted,
                 memory, fault>>

FreeSlot(t) ==
  /\ pc[t] = "Free"
  /\ nSlotted' = nSlotted - 1
  /\ IF slots[slot[t]] = t
     THEN /\ slots' = [slots EXCEPT ![slot[t]] = NIL]
          /\ slot' = [slot EXCEPT ![t] = 0]
          /\ Goto(t, "Leave")
          /\ UNCHANGED fault
     ELSE Die("slot") /\ UNCHANGED <<slots, slot, pc>>
  /\ UNCHANGED <<nextSlot, joins, active, arg, alerted, memory>>

\* Mutant: the neighbours keep their links to it.
LeaveNothing(t) ==
  /\ pc[t] = "Leave"
  /\ Goto(t, "Dead")
  /\ UNCHANGED <<table, joins, active, arg, alerted, memory, fault>>
LeaveRing(t) ==
  /\ pc[t] = "Leave"
  /\ active' = active \ {t}
  /\ Goto(t, "Dead")
  /\ UNCHANGED <<table, joins, arg, alerted, memory, fault>>

-----------------------------------------------------------------------------
(* XJoin.                                                                  *)

\* The loop WHILE t.join # NIL under joinMu, at the call and after XWait has
\* returned; XWait joins the waiters and releases joinMu.
JoinLoop(s, t, place) ==
  IF t \in ended
  THEN /\ got' = [got EXCEPT ![t] = IF t \in result THEN "result" ELSE "NIL"]
       /\ Return(s)
       /\ UNCHANGED waiting
  ELSE /\ waiting' = [waiting EXCEPT ![t] = @ \union {s}]
       /\ Goto(s, place)
       /\ arg' = [arg EXCEPT ![s].t = t]
       /\ UNCHANGED got

\* A client joins a thread that nobody has joined or is joining.
XJoin(s, t, alertable) ==
  /\ pc[s] = "Ready"
  /\ JoinMuFree
  /\ t \in held
  /\ t # Main \/ "JoinMain" \in Adversity
  /\ got[t] = "none" /\ Joiners(t) = {}
  /\ IF t \in joined
     THEN Die("joined") /\ UNCHANGED <<joined, got, waiting, pc, arg>>
     ELSE /\ joined' = joined \union {t}
          /\ JoinLoop(s, t, IF alertable THEN "AlertJoining" ELSE "Joining")
          /\ UNCHANGED fault
  /\ UNCHANGED <<table, ended, result, active, alerted, memory>>

\* XWait finds that s is not alerted and has been told; joinMu is next.
JoinWake(s) ==
  /\ pc[s] \in {"Joining", "AlertJoining"}
  /\ pc[s] = "AlertJoining" => s \notin alerted
  /\ s \notin waiting[arg[s].t]
  /\ Goto(s, IF pc[s] = "Joining" THEN "Woken" ELSE "AlertWoken")
  /\ UNCHANGED <<table, joins, active, arg, alerted, memory, fault>>

\* XWait has joinMu and returns.
JoinResumes(s) ==
  /\ pc[s] \in {"Woken", "AlertWoken"}
  /\ JoinMuFree
  /\ JoinLoop(s, arg[s].t, IF pc[s] = "Woken" THEN "Joining" ELSE "AlertJoining")
  /\ UNCHANGED <<table, ended, joined, result, active, alerted, memory,
                 fault>>

\* XWait looks for an alert first, whether s has been told or not; a waiter
\* takes itself off the list of the condition, which is NIL in a Broadcast.
ChooseAlert(s) ==
  /\ pc[s] = "AlertJoining"
  /\ s \in alerted
  /\ alerted' = alerted \ {s}
  /\ IF s \in waiting[arg[s].t] /\ pc[arg[s].t] = "Tell"
     THEN Die("prev") /\ UNCHANGED <<waiting, pc>>
     ELSE /\ waiting' = [waiting EXCEPT ![arg[s].t] = @ \ {s}]
          /\ Goto(s, "Alerted")
          /\ UNCHANGED fault
  /\ UNCHANGED <<table, ended, joined, result, got, active, arg, memory>>

\* Mutant: the claim is kept.
JoinRaisesClaimed(s) ==
  /\ pc[s] = "Alerted"
  /\ JoinMuFree
  /\ Return(s)
  /\ UNCHANGED <<table, joins, active, alerted, memory, fault>>
\* With joinMu, the FINALLY clause takes the claim back only if the thread has
\* not ended.
JoinRaises(s) ==
  /\ pc[s] = "Alerted"
  /\ JoinMuFree
  /\ joined' = IF arg[s].t \in ended THEN joined ELSE joined \ {arg[s].t}
  /\ Return(s)
  /\ UNCHANGED <<table, ended, result, waiting, got, active, alerted,
                 memory, fault>>

\* t is in AlertJoin, and the thread that it joins tells it or has told it.
AlertIsLate(t) ==
  /\ pc[t] = "AlertJoining"
  /\ t \notin waiting[arg[t].t] \/ pc[arg[t].t] = "Tell"

Alert(s, t) ==
  /\ pc[s] = "Ready"
  /\ t \in held
  /\ "LateAlert" \in Adversity \/ ~AlertIsLate(t)
  /\ alerted' = alerted \union {t}
  /\ UNCHANGED <<table, joins, active, pc, arg, memory, fault>>

-----------------------------------------------------------------------------
(* The end of a T.                                                         *)

\* The clients forget t.
Drop(t) ==
  /\ t \in held
  /\ held' = held \ {t}
  /\ UNCHANGED <<table, joins, active, pc, arg, alerted, disposed, cleaned, fault>>

\* What the collector finds a reference to: in the clients' data, in the slot
\* table or on the stack of a thread.
Reachable(t) ==
  \/ t \in held
  \/ \E i \in DOMAIN slots : slots[i] = t
  \/ \E s \in Thread : arg[s].t = t
  \/ pc[t] \in {"Unborn", "New", "Ready", "Notify", "Tell", "Free"}

\* The final cleanup of a T runs once.
CleanThread(t) ==
  /\ t \notin cleaned /\ ~Reachable(t)
  /\ pc[t] \in {"Dead"} \union
              (IF "EarlyCleanup" \in Adversity THEN {"Leave"} ELSE {})
  /\ cleaned' = cleaned \union {t}
  /\ disposed' = disposed \union {t}
  /\ IF t \in disposed THEN Die("disposed") ELSE UNCHANGED fault
  /\ UNCHANGED <<table, joins, active, pc, arg, alerted, held>>

-----------------------------------------------------------------------------
Call(s) ==
  \/ Fork(s) \/ Self(s) \/ Finish(s)
  \/ \E t \in Thread, alertable \in BOOLEAN : XJoin(s, t, alertable)
  \/ \E t \in Thread : Alert(s, t)

Continue(s) ==
  \/ AssignSlot(s) \/ NewTable(s) \/ Grow(s) \/ CreateThread(s)
  \/ ThreadBase(s) \/ ReadSelf(s)
  \/ NotifyJoiner(s) \/ TellJoiner(s) \/ FreeSlot(s) \/ LeaveRing(s)
  \/ JoinWake(s) \/ JoinResumes(s) \/ ChooseAlert(s) \/ JoinRaises(s)

Step(s) ==
  /\ fault = "none"
  /\ Call(s) \/ Continue(s) \/ ForkFails(s) \/ Drop(s) \/ CleanThread(s)

Next == \E s \in Thread : Step(s)

Spec == Init /\ [][Next]_vars

\* The kernel runs every thread and no pthread mutex is held for ever.
FairSpec == Spec /\ \A s \in Thread : WF_vars(fault = "none" /\ Continue(s))

-----------------------------------------------------------------------------
(* Properties.                                                             *)

\* The variables hold what the declarations of ThreadPThread.m3 let them hold.
TypeOK ==
  /\ slots \in [DOMAIN slots -> Thread \union {NIL}]
  /\ DOMAIN slots = 0 .. Size(slots) - 1
  /\ nSlotted \in Nat /\ nextSlot \in Nat \ {0}
  /\ slot \in [Thread -> {0} \union DOMAIN slots]
  /\ active \subseteq Thread
  /\ pc \in [Thread -> Place]
  /\ arg \in [Thread -> [t : Thread \union {NIL}, n : Nat]]
  /\ ended \subseteq Thread /\ joined \subseteq Thread /\ result \subseteq Thread
  /\ waiting \in [Thread -> SUBSET Thread]
  /\ alerted \subseteq Thread
  /\ got \in [Thread -> {"none", "result", "NIL"}]
  /\ held \subseteq Thread /\ disposed \subseteq Thread /\ cleaned \subseteq Thread
  /\ fault \in {"none", "endless", "slot", "joined", "prev", "disposed"}

\* The threads between AssignSlot and FreeSlot.
Slotted ==
  {arg[s].t : s \in {s \in Thread : pc[s] = "Create"}}
    \union {t \in Thread : pc[t] \notin {"Unborn", "New", "Leave", "Dead"}
                             /\ (t = Main => slot[Main] # 0)}

\* Whatever forks, table growths and deaths interleave, the slot table holds
\* each of these threads once, at its act.slot, and nobody else; n_slotted
\* counts them, so that the search for an empty slot ends.
SlotsExact ==
  /\ {i \in DOMAIN slots : slots[i] # NIL} = {slot[t] : t \in Slotted}
  /\ \A t \in Slotted : slots[slot[t]] = t
  /\ nSlotted = Cardinality(Slotted)
  /\ nextSlot = 1 \/ nextSlot \in DOMAIN slots

\* No Die of Self, FreeSlot or XJoin is reached by clients that join a thread
\* once and repeat only an AlertJoin that has raised, XWait follows no NIL, the
\* search of AssignSlot ends and no activation is disposed twice.
NobodyDies == fault = "none"

\* The activation of a thread that runs, is in the ring that the collector
\* walks, or can be alerted by a client is not disposed.
ActivationLives ==
  disposed \intersect
    (active \union held
       \union {t \in Thread : pc[t] \notin {"Unborn", "Dead"}}) = {}

\* A thread whose Fork has raised an exception was never born.
Life(t) ==
  CASE pc[t] \in {"Unborn", "New", "Dead"} /\ t \notin ended -> "unborn"
    [] t \in ended \ {Main} -> "done"
    [] OTHER -> "running"

Promise == INSTANCE JoinSpec
             WITH life <- [t \in Thread |-> Life(t)],
                  joined <- {t \in joined : Joiners(t) = {}},
                  delivered <- {t \in Thread : got[t] = "result"},
                  pendingAlerts <- alerted

\* Fork, Join and AlertJoin implement the interface: a Join returns after the
\* closure of its thread and with its result, and an AlertJoin that raises
\* leaves the thread to be joined.
ImplementsJoin == Promise!Spec

\* A joiner returns when the thread has ended, whichever of its wait and that
\* end comes first.
JoinReturns ==
  \A s \in Thread :
    pc[s] \in Inside /\ arg[s].t \in result ~> pc[s] = "Ready"

\* AssignSlot ends: a thread that loses the race for a larger table tries again,
\* but not for ever.
ForkReturns ==
  \A s \in Thread :
    pc[s] \in {"Assign", "NewTable", "Grow", "Create"} ~> pc[s] = "Ready"
=============================================================================
