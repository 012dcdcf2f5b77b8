\* Two calls over one request, two tenants, under the fairness of the event loop.
SPECIFICATION FairSpec
CONSTANTS
  Users = {u1, u2}
  Workspaces = {w1, w2}
  Approvals = {a1}
  Calls = {c1, c2}
  Roles = {owner, user}
  Permitted = {owner}
  None = None
  TTL = 1
  MaxClock = 1
INVARIANTS AtMostOnceExecution ExecutionIsDue
           TrailIsWhole
PROPERTIES ApprovedIsSettled ImplementsDecision
CHECK_DEADLOCK FALSE
