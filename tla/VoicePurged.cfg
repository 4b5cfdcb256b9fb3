SPECIFICATION Spec
CONSTANTS
  Users = {u1, u2}
  iMaxUsers = 2
  Channels = {lobby, den}
  Lobby = lobby
  Whisperers = {u1}
  Varied = {lobby}
  Ports = {p1}
  Targets <- SessionOrShout
  NoUser = NoUser
  NoChannel = NoChannel
  NoPort = NoPort
  Turnaways = TRUE
  RpcListens = FALSE
INVARIANTS CachePurged
