\* One refresh, one message. After Stop nothing runs: the system may stop.
SPECIFICATION FairSpec
CONSTANTS
  MaxRuns = 1
  MaxRefreshes = 1
  MaxChanges = 0
  MaxFailures = 0
  MaxEvents = 1
  Messages = {m1}
CHECK_DEADLOCK FALSE
PROPERTIES
  NothingWaitsForever
