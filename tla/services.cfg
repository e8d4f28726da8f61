\* Two calls, three reviews of two suggestions, three sign-ins of one identity, three
\* visits to two names.
SPECIFICATION Spec
CONSTANTS
  Calls = {q1, q2}
  ApiKeys = {k1}
  FreePrompts = 1
  ProPrompts = 2
  FreeImages = 1
  ProImages = 0
  ProResearch = 1
  FreeCredit = 0
  ProCredit = 1
  MaxTokens = 2
  MaxBought = 1
  WeekDays = 1
  LastDay = 2
  MaxEra = 1
  MaxUsageSlips = 1
  GuestChats = {p1, p2, p3}
  GuestLimit = 2
  MaxCookies = 1
  MaxGuestSlips = 1
  Reviews = {p1, p2, p3}
  Suggestions = {q1, q2}
  Entries = {u1, u2}
  OldEntries = {u1}
  NoId = NoId
  Contents = {x, y}
  MaxTrackerSlips = 1
  Attempts = {p1, p2, p3}
  Identities = {i1}
  Emails = {q1, q2}
  UserIds = {u1, u2, u3}
  Codes = {d1}
  Nobody = Nobody
  MaxSignSlips = 1
  Pages = {p1, p2, p3}
  Admins = {o1, o2}
  RunnerOwner = o1
  Accounts = {u1, u2}
  NoAccount = NoAccount
  MaxPageSlips = 1
  Visits = {p1, p2, p3}
  Names = {q1, q2}
  NoVisit = NoVisit
  Garbled = Garbled
  MaxRestarts = 1
SYMMETRY Symmetry
CHECK_DEADLOCK FALSE
INVARIANTS
  ServicesInv
  PromptOverrun
  CreditOverrun
  LatePlanIsByKey
  ReviewsStand
  SameAccount
  CodesBuyOnce
  ListsReachRunner
