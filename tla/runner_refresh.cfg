\* One refresh of a runner that nothing else happens to. After Stop nothing runs: the system may stop.
SPECIFICATION FairSpec
CONSTANTS
  MaxRuns = 2
  MaxRefreshes = 1
  MaxChanges = 0
  MaxFailures = 0
  MaxEvents = 1
  Messages = {}
CHECK_DEADLOCK FALSE
PROPERTIES
  DisconnectionIsNoticed
