\* Two messages handled at a time, two users contend for one number.
SPECIFICATION Spec
CONSTANTS
  Owner = owner
  Users = {owner, ana}
  NoUser = NoUser
  Contacts = {c1}
  Secrets = {s1}
  Chatter = chatter
  Handlers = {h1, h2}
  MaxCodes = 2
  Reports = {"connected", "disconnected", "revoked"}
  MaxCreating = 1
SYMMETRY Symmetry
INVARIANTS
  IInv
  OnlyVerifiedNumbersChat
  LinkedIsAllowed
PROPERTIES
  CodesOnlyAdvance
  LinkSpendsCode
