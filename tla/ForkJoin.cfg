\* Six threads of which one ends while the others fork, so that a thread comes
\* back with a larger table to find another one in use, with room and without;
\* and three threads that fork, join, alert and forget each other.
SPECIFICATION MCSpec
CONSTANTS
  MaxThread = 5
  MaxJoining = 2
  InitialSize = 3
  Adversity = {}
\* Threads may join each other, and no thread may be left to fork.
CHECK_DEADLOCK FALSE
INVARIANTS
  TypeOK
  SlotsExact
  NobodyDies
  ActivationLives
PROPERTIES
  ImplementsJoin
  JoinReturns
  ForkReturns
