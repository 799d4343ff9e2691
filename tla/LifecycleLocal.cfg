SPECIFICATION Spec
CONSTANTS
  Remote = {}
  Local = {l1}
  NoHandle = NoHandle
  MaxTask = 3
  MaxReports = 1
  DiskFaults = TRUE
  PromptCleared = {TRUE, FALSE}
INVARIANTS StoredOnDisk CreatingNotStored
CHECK_DEADLOCK FALSE
