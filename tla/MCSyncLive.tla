----------------------------- MODULE MCSyncLive -----------------------------
(* The liveness instance of PThreadSync: what the clients do is chosen at  *)
(* the start, so that one run covers three threads without alerts and two  *)
(* threads with every procedure.                                           *)
EXTENDS PThreadSync

CONSTANT Pair   \* the threads that run beside alerts

VARIABLE client   \* "Signals" or "Alerts"

Permitted ==
  \/ /\ client = "Signals"
     /\ UNCHANGED alerted
     /\ \A t \in Thread : ~local'[t].alertable /\ pc'[t] # "Pause"
  \/ /\ client = "Alerts"
     /\ \A t \in Thread \ Pair :
          UNCHANGED <<pc[t], LL[t], alerted[t]>>

MCSpec ==
  /\ Init /\ client \in {"Signals", "Alerts"}
  /\ [][Next /\ Permitted /\ UNCHANGED client]_<<vars, client>>
  /\ Fairness
=============================================================================
