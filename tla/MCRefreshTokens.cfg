\* Two calls over one login, two workspaces, under the fairness of the event loop.
SPECIFICATION FairSpec
CONSTANTS
  Users = {u1}
  Workspaces = {w1, w2}
  Tokens = {t1, t2, t3}
  Issued = {t1}
  Calls = {c1, c2}
  None = None
  Lifetime = 1
  Skew = 1
  Lag = 1
  MaxClock = 2
INVARIANTS NoAmplification RevokedHoldNothing ReportsAreTrue ReplaysAreTold
PROPERTIES ClaimIsHonoured ImplementsLoginSession
CHECK_DEADLOCK FALSE
