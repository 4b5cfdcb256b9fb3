SPECIFICATION Spec
CONSTANTS
  Conns = {c1, c2, c3}
  Names = {admin, alice, guest}
  Registered = {admin, alice}
  SuperUser = admin
  Addrs = {a1, a2}
  UserLimits = {1, 2, 3}
  NoOne = NoOne
SYMMETRY Symmetry
INVARIANTS TypeOK NoIdTwice NoIdFreeAndUsed NoIdLost TableMatches
 
CHECK_DEADLOCK FALSE
