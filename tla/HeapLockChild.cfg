\* A child that collects while the ring still has the threads of its parent.
SPECIFICATION Spec
CONSTANTS
  Client = {"main", "t"}
  Main = "main"
  Service = {}
  Calls = {"NEW", "Fork"}
  Solaris = FALSE
  MaxDead = 1
  Adversity = {"ChildCollects"}
INVARIANT
  NoOtherThreads
