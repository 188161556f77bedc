------------------------------ MODULE JoinSpec ------------------------------
(***************************************************************************)
(* What the Thread interface promises about Fork, Join and AlertJoin       *)
(* (Thread.lm3, FIELDS OF T and the procedures), one action for each       *)
(* atomic action.  CHECKS and WHEN clauses are guards.                     *)
(***************************************************************************)
CONSTANTS
  Thread,   \* the threads (Thread.T)
  Main      \* the initial thread, which no Fork made

VARIABLES
  life,           \* "unborn", "running" or, when t.done, "done"
  joined,         \* the threads t with t.joined
  delivered,      \* those whose result a Join has returned
  pendingAlerts   \* the threads with an alert pending

vars == <<life, joined, delivered, pendingAlerts>>

Init ==
  /\ life = [t \in Thread |-> IF t = Main THEN "running" ELSE "unborn"]
  /\ joined = {}
  /\ delivered = {}
  /\ pendingAlerts = {}

Fork(t) ==
  /\ life[t] = "unborn"
  /\ life' = [life EXCEPT ![t] = "running"]
  /\ UNCHANGED <<joined, delivered, pendingAlerts>>

\* The closure of t returns.
Finish(t) ==
  /\ life[t] = "running"
  /\ life' = [life EXCEPT ![t] = "done"]
  /\ UNCHANGED <<joined, delivered, pendingAlerts>>

\* Join, and AlertJoin when it returns.
Join(t) ==
  /\ t \notin joined
  /\ life[t] = "done"
  /\ joined' = joined \union {t}
  /\ delivered' = delivered \union {t}
  /\ UNCHANGED <<life, pendingAlerts>>

\* AlertJoin when it raises Alerted: t.joined does not change.
AlertJoinRaises(s) ==
  /\ s \in pendingAlerts
  /\ pendingAlerts' = pendingAlerts \ {s}
  /\ UNCHANGED <<life, joined, delivered>>

Alert(t) ==
  /\ life[t] # "unborn"
  /\ pendingAlerts' = pendingAlerts \union {t}
  /\ UNCHANGED <<life, joined, delivered>>

Next ==
  \E t \in Thread :
    Fork(t) \/ Finish(t) \/ Join(t) \/ AlertJoinRaises(t) \/ Alert(t)

Spec == Init /\ [][Next]_vars
=============================================================================
