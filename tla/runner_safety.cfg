\* One refresh, one message, one failure or kill. After Stop nothing runs: the system may stop.
SPECIFICATION Spec
CONSTANTS
  MaxRuns = 2
  MaxRefreshes = 1
  MaxChanges = 0
  MaxFailures = 1
  MaxEvents = 1
  Messages = {m1}
CHECK_DEADLOCK FALSE
INVARIANTS
  OneRun
  SessionUnused
  WaitsForTheCancelled
