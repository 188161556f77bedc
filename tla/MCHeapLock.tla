----------------------------- MODULE MCHeapLock -----------------------------
(* Instances of HeapLock for TLC: which threads there are is chosen at the *)
(* start, so that one run covers two clients and a client beside any two   *)
(* threads of the collector that share its condition.                      *)
EXTENDS HeapLock

VARIABLE crew

Crews ==
  {{Main, "t"}, {Main, "WeakCleaner", "BackgroundThread"},
   {Main, "BackgroundThread", "ForegroundThread"}}

Starts(s) == \E t \in exists' : Contains(todo'[t], <<"start", s>>)

MCInit == Init /\ crew \in Crews
MCNext ==
  /\ Next /\ UNCHANGED crew
  /\ exists' \subseteq crew
  /\ \A s \in Service \ crew : ~Starts(s)
MCSpec == MCInit /\ [][MCNext]_<<vars, crew>>

=============================================================================
