\* One message handled at a time, two numbers, two link codes.
SPECIFICATION Spec
CONSTANTS
  Owner = owner
  Users = {owner, ana}
  NoUser = NoUser
  Contacts = {c1, c2}
  Secrets = {s1}
  Chatter = chatter
  Handlers = {h1}
  MaxCodes = 2
  Reports = {"connected"}
  MaxCreating = 1
SYMMETRY Symmetry
PROPERTIES
  RefinesRegistry
