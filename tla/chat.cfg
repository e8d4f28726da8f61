\* Three requests of any kind about one conversation, with or without legacy rows.
SPECIFICATION Spec
CONSTANTS
  Requests = {r1, r2, r3}
  NoRequest = NoRequest
  Convs = {c1}
  MaxSlips = 1
SYMMETRY Symmetry
CHECK_DEADLOCK FALSE
INVARIANTS
  TurnsSurvive
  TornByTwo
  DeletedStays
  RemovedStays
  TitlesSurvive
