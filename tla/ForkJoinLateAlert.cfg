\* Two threads; an alert and the end of the joined thread meet in AlertJoin.
SPECIFICATION Spec
CONSTANTS
  MaxThread = 1
  InitialSize = 2
  Adversity = {"LateAlert"}
CHECK_DEADLOCK FALSE
PROPERTIES
  ImplementsJoin
