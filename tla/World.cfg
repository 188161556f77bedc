\* The initial thread and two more; both ways of suspending; signals are queued
\* (one at most) or merged, and the handler does not stop between the two halves
\* of a repeated request.
SPECIFICATION SpecUnpreempted
CONSTANTS
  Thread = {t1, t2, t3}
  Main = t1
  NIL = NIL
  Collectors = {t1, t2}
  Ops = {"World", "Each"}
  MaxPending = 1
  MaxAllocs = 1
INVARIANTS
  TypeOK
  AssertionsHold
  WorldStopped
  NoStrayAck
PROPERTIES
  WorldStops
  EveryoneResumes
