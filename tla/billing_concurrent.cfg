\* Two requests at a time about one order, which may be interrupted once; notifications may come late.
SPECIFICATION FairSpec
CONSTANTS
  Requests = {r1, r2}
  Users = {ana}
  NoUser = NoUser
  Orders = {o1}
  NoOrder = NoOrder
  SubProducts = {"monthly"}
  PlayProducts = {"monthly"}
  Credits = {}
  StoreStatuses = {"paid"}
  Kinds = {"checkout", "sync", "notice"}
  Late = TRUE
  Month <- Lengths
  Year <- Lengths
  TrialLength = 1
  MaxOpen = 2
  MaxTime = 1
  MaxSlips = 1
INVARIANTS
  NothingUnpaid
  NoOneIsBlocked
  AckedIsActivated
PROPERTIES
  
  PaidOrdersActivate
CHECK_DEADLOCK FALSE
