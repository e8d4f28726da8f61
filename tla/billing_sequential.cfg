\* One request at a time, of every kind; notifications come in order.
SPECIFICATION Spec
CONSTANTS
  Requests = {r1}
  Users = {ana}
  NoUser = NoUser
  Orders = {o1}
  NoOrder = NoOrder
  SubProducts = {"monthly", "yearly"}
  PlayProducts = {"monthly"}
  Credits = {"credit"}
  StoreStatuses = {"paid", "on_hold", "unknown"}
  Kinds = {"account", "checkout", "sync", "trial", "android", "platform", "webhook", "notice"}
  Late = FALSE
  Month <- Lengths
  Year <- Lengths
  TrialLength = 1
  MaxOpen = 2
  MaxTime = 3
  MaxSlips = 0
SYMMETRY Symmetry
INVARIANTS
  AccountsAgree
  PeriodsDontStack
PROPERTIES
  SettledOrdersStay
  TrialUsedOnce
