SPECIFICATION FairSpec
CONSTANTS
  Objs = {root, a, b}
  Root = root
  NoChannel = NoChannel
  Users = {u1, u2}
  NestingLimit = 2
  TempOffset = 4
  MaxEvents = 2
  MaxLinks = 1
  Rpc = TRUE
PROPERTIES EmptyTemporaryGoes
