SPECIFICATION Spec
CONSTANTS
  Tabs = {a, b}
  Workspaces = {u, w}
  ManyTokens = 4
  FewTokens = 2
  Pair = {c1, c2}
  Rows = {r1, r2}
  FirstRow = r1
  MaxEvents = 2
  MaxMoves = 1
  MaxVersion = 3
  None = None
INVARIANTS
  TabsFollowTheSwitch
  HonestTabsRaiseNoAlarm
  LogoutEndsTheSession
  PagesTellTheTruth
  SubmissionsAreDeliberate
PROPERTIES
  RestorationEnds
CHECK_DEADLOCK FALSE
