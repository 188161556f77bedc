\* Three threads, one mutex, one condition that is waited on, signalled and
\* broadcast, with alerts at any moment.
SPECIFICATION Spec
CONSTANTS
  Thread = {t1, t2, t3}
  Mutex = {1}
  Condition = {c1}
  NIL = NIL
  Calls = {"Acquire", "Release", "Wait", "AlertWait", "Signal", "Broadcast",
           "Alert", "TestAlert", "Pause", "AlertPause"}
SYMMETRY Symmetry
\* All threads may wait for a signal that nobody sends.
CHECK_DEADLOCK FALSE
INVARIANTS
  TypeOK
  MutualExclusion
  AssertionsHold
  NoLostWaiter
  NeverIdle
  IInv
PROPERTIES
  NoOvertaking
  OnlyTheAlertRaceFaults
  ImplementsInterface
