SPECIFICATION FairSpec
CONSTANTS
  Remote = {r1}
  Local = {}
  NoHandle = NoHandle
  MaxTask = 2
  MaxReports = 0
  DiskFaults = FALSE
  PromptCleared = {TRUE, FALSE}
INVARIANTS OneWorker BusyWillEnd ButtonsWork
PROPERTIES EndedIsReported KillTakesEffect
CHECK_DEADLOCK FALSE
