SPECIFICATION Spec
CONSTANTS
  Remote = {r1}
  Local = {l1}
  NoHandle = NoHandle
  MaxTask = 2
  MaxReports = 0
  DiskFaults = TRUE
  PromptCleared = {TRUE, FALSE}
INVARIANTS LaunchStoppable GameSupervised
CHECK_DEADLOCK FALSE
