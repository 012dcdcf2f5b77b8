\* Three calls of any kind over one candidate and one engram of earlier days.
SPECIFICATION Spec
CONSTANTS
  Subjects = {s1, s2}
  Candidates = {k1, k2}
  Engrams = {e1, e2, e3}
  Directives = {d1}
  Issued = {k1, e1}
  Calls = {c1, c2, c3}
  Redacted = Redacted
  None = None
INVARIANTS RecordsAreTruthful LossesNeedOverlap
SYMMETRY Symmetry
CHECK_DEADLOCK FALSE
