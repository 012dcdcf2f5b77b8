SPECIFICATION Instances
CONSTANTS
  Users = {u1, u2}
  Invitations = {i1, i2, i3}
  Issued = {i1}
  Calls = {c1, c2}
  OrgRole <- AdminAbove
  Seats = {"ORG_OWNER", "SUPERADMIN", "AGENT"}
  Asked = {"ORG_OWNER", "USER"}
  Spare = i3
  None = None
INVARIANTS OneLinkOneEntry OwnerRemains RemovedAreSignedOut
PROPERTIES ImplementsTeamRoster LinkCallsEnd
CHECK_DEADLOCK FALSE
