\* Two messages of one user handled at a time: the documented single number.
SPECIFICATION Spec
CONSTANTS
  Owner = owner
  Users = {owner}
  NoUser = NoUser
  Contacts = {c1, c2}
  Secrets = {s1}
  Chatter = chatter
  Handlers = {h1, h2}
  MaxCodes = 2
  Reports = {"connected"}
  MaxCreating = 1
INVARIANT OneNumberPerUser
