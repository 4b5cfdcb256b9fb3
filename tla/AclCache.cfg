SPECIFICATION Spec
CONSTANTS
  a = a
  b = b
  Users = {2, 3}
  Channels = {root, a, b}
  Root = root
  NoChannel = NoChannel
  NoGroup = NoGroup
  NotCached = NotCached
  Accounts = {1}
  Edits <- MCEdits
  Asked = {b}
  Movable = {b}
  Watched = {}
  Editors = {2}
  Tokened = {2}
INVARIANTS TypeOK CacheFresh LastWordDecides TempMembersPresent
PROPERTIES EditorStays
