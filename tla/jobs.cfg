\* Two processes work off two jobs in batches of two, one slip; the user edits memories meanwhile.
SPECIFICATION FairSpec
CONSTANTS
  Servers = {s1, s2}
  Users = {ana}
  NoUser = NoUser
  Contents = {m1, m2}
  MaxJobs = 2
  BatchSize = 2
  MaxReply = 1
  MaxSlips = 1
INVARIANTS
  ClaimedOnce
  CallsAreBounded
  OnlySlipsStrand
PROPERTIES
  FinalStays
  WaitingJobsEnd
  LearnsFromLiveJobs
