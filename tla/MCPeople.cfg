SPECIFICATION Spec
CONSTANTS
  Rows = {x1, x2}
  Employees = {e1}
  Planners = {p1, p2}
  Times = {1, 2}
  None = None
  Profiles = {x1, x2}
  Users = {ann, bob}
  Owner = ann
  Clerks = {p1, p2}
  HandNumbers = {2}
  EmptyNumber = 9
  Nobody = Nobody
  Blank = Blank
INVARIANTS
  TypeOK
  DoubleBookedOnlyByOverlapOrMove
  InvertedOnlyByPartialEdit
  PortalNumberFree
PROPERTIES
  LinkTakenOnlyAskedOrStale
SYMMETRY Symmetry
