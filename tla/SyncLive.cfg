\* Three threads that wait, signal and broadcast, and two threads that call
\* every procedure with alerts at any moment; fair scheduling.
SPECIFICATION MCSpec
CONSTANTS
  Thread = {t1, t2, t3}
  Pair = {t1, t2}
  Mutex = {1}
  Condition = {c1}
  NIL = NIL
  Calls = {"Acquire", "Release", "Wait", "AlertWait", "Signal", "Broadcast",
           "Alert", "TestAlert", "Pause", "AlertPause"}
\* All threads may wait for a signal that nobody sends.
CHECK_DEADLOCK FALSE
PROPERTIES
  LockersProceed
  SignalledResume
  AlertedResume
