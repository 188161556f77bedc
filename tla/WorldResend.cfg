\* Two threads, one of which suspends the other; a handler may stop its thread between
\* the two halves of a repeated request.
SPECIFICATION FairSpec
CONSTANTS
  Thread = {t1, t2}
  Main = t1
  NIL = NIL
  Collectors = {t1}
  Ops = {"World"}
  MaxPending = 2
  MaxAllocs = 1
\* A failed assertion stops the program.
CHECK_DEADLOCK FALSE
INVARIANTS
  ContextIsNil
