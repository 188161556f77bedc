SPECIFICATION MCSpec
CONSTANTS
  Client = {"main", "t"}
  Main = "main"
  Service = {"WeakCleaner", "BackgroundThread", "ForegroundThread"}
  Calls = {"Self", "PerfChanged", "NEW", "Collect", "MUTEX", "Fork", "Start",
           "VisitAllRefs", "ReportReachable"}
  Solaris = TRUE
  MaxDead = 1
  Adversity = {}
INVARIANTS
  TypeOK
  HeapExclusion
  NobodyStuck
  WorkWakes
