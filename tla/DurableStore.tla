---------------------------- MODULE DurableStore ----------------------------
(***************************************************************************)
(* What SmallDB.i3 promises: the client's value is kept across crashes.    *)
(* A forced update is stable when the call returns, each update is         *)
(* recorded completely or not at all, and a snapshot is atomic.            *)
(***************************************************************************)
EXTENDS Naturals, Sequences

CONSTANT Update

VARIABLES
  mem,     \* the client's data structure: the updates applied to it, in order
  stable,  \* the updates that no crash can undo
  loose,   \* recorded after those, but a crash may lose a tail of them
  mode     \* what the client is doing

vars == <<mem, stable, loose, mode>>

Init ==
  /\ mem = <<>>
  /\ stable = <<>>
  /\ loose = <<>>
  /\ mode = "Down"

\* Some of the loose updates become stable; a crash or a failed call may lose
\* the others from some point on.
Settle(kept) ==
  \E n \in 0 .. kept :
    /\ stable' = stable \o SubSeq(loose, 1, n)
    /\ loose' = SubSeq(loose, n + 1, kept)

LoseTail == \E kept \in 0 .. Len(loose) : Settle(kept)

Start ==
  /\ mode = "Down"
  /\ mode' = "Closed"
  /\ UNCHANGED <<mem, stable, loose>>

Recover ==
  /\ mode = "Closed"
  /\ mode' = "Open"
  /\ mem' = stable \o loose
  /\ UNCHANGED <<stable, loose>>

Close ==
  /\ mode = "Open"
  /\ mode' = "Closed"
  /\ UNCHANGED <<mem, stable, loose>>

\* To force an update to the disk writes the earlier ones out as well.
Request(u) ==
  /\ mode = "Open"
  /\ mem' = Append(mem, u)
  /\ \/ /\ mode' = "Forced"
        /\ stable' = stable \o loose
        /\ loose' = <<u>>
     \/ /\ mode' = "Buffered"
        /\ loose' = Append(loose, u)
        /\ UNCHANGED stable

Acknowledge ==
  /\ mode' = "Open"
  /\ \/ /\ mode = "Forced"
        /\ stable' = stable \o loose
        /\ loose' = <<>>
     \/ /\ mode = "Buffered"
        /\ UNCHANGED <<stable, loose>>
  /\ UNCHANGED mem

BeginSnapshot ==
  /\ mode \in {"Closed", "Open"}
  /\ mode' = "Snapshot"
  /\ UNCHANGED <<mem, stable, loose>>

CommitSnapshot ==
  /\ mode = "Snapshot"
  /\ mode' = "Committed"
  /\ stable' = mem
  /\ loose' = <<>>
  /\ UNCHANGED mem

EndSnapshot ==
  /\ mode = "Committed"
  /\ mode' = "Open"
  /\ UNCHANGED <<mem, stable, loose>>

Fail ==
  /\ mode' = "Failed"
  /\ LoseTail
  /\ UNCHANGED mem

Crash ==
  /\ mode' = "Down"
  /\ LoseTail
  /\ mem' = <<>>

Next ==
  \/ Start \/ Recover \/ Close \/ Acknowledge \/ Fail \/ Crash
  \/ \E u \in Update : Request(u)
  \/ BeginSnapshot \/ CommitSnapshot \/ EndSnapshot

Spec == Init /\ [][Next]_vars
=============================================================================
