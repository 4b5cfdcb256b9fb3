SPECIFICATION Spec
CONSTANTS
  Objs = {root, a, b, c}
  Root = root
  NoChannel = NoChannel
  Users = {u1}
  NestingLimit = 2
  TempOffset = 5
  MaxEvents = 2
  MaxLinks = 1
  Rpc = TRUE
SYMMETRY Symmetry
INVARIANTS TypeOK Rooted NestingRespected NothingDangles HashMatches DatabaseMatches DatabaseIsTree EmptyTemporaryIsDue
PROPERTIES RemovesOnlyTemporary
CHECK_DEADLOCK FALSE
