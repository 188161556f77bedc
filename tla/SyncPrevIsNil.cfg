\* One waiter in AlertWait, signalled and alerted.
SPECIFICATION Spec
CONSTANTS
  Thread = {t1, t2}
  Mutex = {1}
  Condition = {c1}
  NIL = NIL
  Calls = {"Acquire", "Release", "AlertWait", "Signal", "Alert"}
CHECK_DEADLOCK FALSE
INVARIANTS
  PrevIsNotNil
