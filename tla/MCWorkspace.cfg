SPECIFICATION Spec
CONSTANTS
  Calls = {c3, c4, c5}
  Editors = {c1, c2}
  Guarded = {c6}
  Invited = invited
  Spelled = spelled
  Other = other
  Passwords = {c1, c2}
  Subdomains = {d1}
  Sessions = {c1, c2}
  Workspaces = {"u", "v"}
  Users = {p1, p2}
  Member <- MemberOf
  Clients = {c1, c2}
  Limits <- LimitOf
  MaxMinutes = 1
  Home <- OrganizationOf
  Units = {"u"}
  Asked = {"getDashboard", "createOpportunity", "unheardOf"}
  Given = {"USER", "WORKSPACE_ADMIN"}
  MaxChanges = 1
  p1 = p1
  p2 = p2
  None = None
SYMMETRY Symmetry
INVARIANTS
  RegistrationAnswersTruly
  InvitationsEndForGood
  CancellationHolds
  RelationsStayInside
  BudgetsAreTheirOwn
  AuthorityWasHeld
CHECK_DEADLOCK FALSE
