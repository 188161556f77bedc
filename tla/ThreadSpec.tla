----------------------------- MODULE ThreadSpec -----------------------------
(***************************************************************************)
(* What the Thread interface promises about mutexes, conditions and        *)
(* alerts: the Larch specification of the interface                        *)
(* (m3-libs/m3core/src/thread/Common/Thread.lm3), one TLA+ action for each *)
(* of its atomic actions.  A WHEN clause is the guard of the action, a     *)
(* REQUIRES clause is an obligation of the client and becomes a guard too. *)
(***************************************************************************)
CONSTANTS
  Thread,      \* the threads (Thread.T)
  Mutex,       \* the mutexes
  Condition,   \* the condition variables
  NIL          \* no thread

VARIABLES
  holder,         \* FIELDS OF Mutex: the thread that holds it, or NIL
  waiting,        \* FIELDS OF Condition: the set of waiting threads
  pendingAlerts,  \* the threads with an alert pending
  at              \* where a thread is inside a procedure made of several actions

vars == <<holder, waiting, pendingAlerts, at>>

Idle == [step |-> "Idle"]

\* The points between the atomic actions of Wait, AlertWait and the pauses.
Inside(step, m, c, alertable) ==
  [step |-> step, m |-> m, c |-> c, alertable |-> alertable]
Pausing(alertable) == [step |-> "Pause", alertable |-> alertable]

Init ==
  /\ holder = [m \in Mutex |-> NIL]
  /\ waiting = [c \in Condition |-> {}]
  /\ pendingAlerts = {}
  /\ at = [t \in Thread |-> Idle]

-----------------------------------------------------------------------------
Acquire(t, m) ==
  /\ at[t] = Idle
  /\ holder[m] = NIL
  /\ holder' = [holder EXCEPT ![m] = t]
  /\ UNCHANGED <<waiting, pendingAlerts, at>>

Release(t, m) ==
  /\ at[t] = Idle
  /\ holder[m] = t
  /\ holder' = [holder EXCEPT ![m] = NIL]
  /\ UNCHANGED <<waiting, pendingAlerts, at>>

\* ACTION Enqueue of Wait and AlertWait: atomically unlock m and wait on c.
Enqueue(t, m, c, alertable) ==
  /\ at[t] = Idle
  /\ holder[m] = t
  /\ holder' = [holder EXCEPT ![m] = NIL]
  /\ waiting' = [waiting EXCEPT ![c] = @ \union {t}]
  /\ at' = [at EXCEPT ![t] =
              Inside(IF alertable THEN "Choose" ELSE "Resume", m, c, alertable)]
  /\ UNCHANGED pendingAlerts

\* ACTION ChooseOutcome of AlertWait: signalChosen' = CURRENT \notin c.waiting.
ChooseSignal(t) ==
  /\ at[t].step = "Choose"
  /\ t \notin waiting[at[t].c]
  /\ at' = [at EXCEPT ![t].step = "Resume"]
  /\ UNCHANGED <<holder, waiting, pendingAlerts>>

ChooseAlert(t) ==
  /\ at[t].step = "Choose"
  /\ t \in pendingAlerts
  /\ t \in waiting[at[t].c]
  /\ waiting' = [waiting EXCEPT ![at[t].c] = @ \ {t}]
  /\ pendingAlerts' = pendingAlerts \ {t}
  /\ at' = [at EXCEPT ![t].step = "ResumeAlerted"]
  /\ UNCHANGED holder

\* ACTION Resume of Wait and AlertWait: relock m, then return or raise Alerted.
Resume(t) ==
  /\ at[t].step \in {"Resume", "ResumeAlerted"}
  /\ holder[at[t].m] = NIL
  /\ t \notin waiting[at[t].c]
  /\ holder' = [holder EXCEPT ![at[t].m] = t]
  /\ at' = [at EXCEPT ![t] = Idle]
  /\ UNCHANGED <<waiting, pendingAlerts>>

\* c.waiting' is a proper subset of c.waiting, unless that is empty.
Signal(t, c) ==
  /\ at[t] = Idle
  /\ \E left \in SUBSET waiting[c] :
       /\ waiting[c] # {} => left # waiting[c]
       /\ waiting' = [waiting EXCEPT ![c] = left]
  /\ UNCHANGED <<holder, pendingAlerts, at>>

Broadcast(t, c) ==
  /\ at[t] = Idle
  /\ waiting' = [waiting EXCEPT ![c] = {}]
  /\ UNCHANGED <<holder, pendingAlerts, at>>

Alert(t, u) ==
  /\ at[t] = Idle
  /\ pendingAlerts' = pendingAlerts \union {u}
  /\ UNCHANGED <<holder, waiting, at>>

TestAlert(t) ==
  /\ at[t] = Idle
  /\ pendingAlerts' = pendingAlerts \ {t}
  /\ UNCHANGED <<holder, waiting, at>>

\* Pause and AlertPause: time is abstracted, the pause may end at any moment.
Pause(t, alertable) ==
  /\ at[t] = Idle
  /\ at' = [at EXCEPT ![t] = Pausing(alertable)]
  /\ UNCHANGED <<holder, waiting, pendingAlerts>>

EndPause(t) ==
  /\ at[t].step = "Pause"
  /\ \/ UNCHANGED pendingAlerts
     \/ /\ at[t].alertable
        /\ t \in pendingAlerts
        /\ pendingAlerts' = pendingAlerts \ {t}
  /\ at' = [at EXCEPT ![t] = Idle]
  /\ UNCHANGED <<holder, waiting>>

-----------------------------------------------------------------------------
Step(t) ==
  \/ \E m \in Mutex : Acquire(t, m) \/ Release(t, m)
  \/ \E m \in Mutex, c \in Condition, b \in BOOLEAN : Enqueue(t, m, c, b)
  \/ ChooseSignal(t) \/ ChooseAlert(t) \/ Resume(t)
  \/ \E c \in Condition : Signal(t, c) \/ Broadcast(t, c)
  \/ \E u \in Thread : Alert(t, u)
  \/ TestAlert(t)
  \/ \E b \in BOOLEAN : Pause(t, b)
  \/ EndPause(t)

Next == \E t \in Thread : Step(t)

Spec == Init /\ [][Next]_vars
=============================================================================
