SPECIFICATION Spec
CONSTANTS
  a = a
  b = b
  Users = {2}
  Channels = {root, a}
  Root = root
  NoChannel = NoChannel
  NoGroup = NoGroup
  NotCached = NotCached
  Accounts = {1}
  Edits <- FewEdits
  Asked = {a}
  Movable = {}
  Watched = {2}
  Editors = {2}
  Tokened = {2}
INVARIANTS ShownIsSuppress
