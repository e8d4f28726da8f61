\* No refresh, one change of the connection. After Stop nothing runs: the system may stop.
SPECIFICATION FairSpec
CONSTANTS
  MaxRuns = 1
  MaxRefreshes = 0
  MaxChanges = 1
  MaxFailures = 0
  MaxEvents = 1
  Messages = {}
CHECK_DEADLOCK FALSE
PROPERTIES
  DisconnectionIsNoticed
  PairedRunComesUp
