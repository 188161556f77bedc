----------------------------- MODULE MCForkJoin -----------------------------
(* Instances of ForkJoin for TLC: what the clients do is chosen at the     *)
(* start, so that one run covers many threads that only fork and end, and  *)
(* fewer threads that do everything.                                       *)
EXTENDS ForkJoin

CONSTANT MaxJoining   \* bound on the threads that are forked by such clients

VARIABLE client       \* "Forks" or "Joins"

Permitted ==
  \/ /\ client = "Forks"
     /\ UNCHANGED <<joined, alerted, disposed>>
     /\ held \subseteq held'
     /\ result' \subseteq {1}
  \/ /\ client = "Joins"
     /\ Thread \ (0 .. MaxJoining) \subseteq Unborn'

MCInit == Init /\ client \in {"Forks", "Joins"}
MCNext == Next /\ Permitted /\ UNCHANGED client

MCSpec ==
  /\ MCInit /\ [][MCNext]_<<vars, client>>
  /\ \A s \in Thread : WF_vars(fault = "none" /\ Continue(s))
=============================================================================
