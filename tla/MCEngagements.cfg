SPECIFICATION Spec
CONSTANTS
  Customers = {c1, c2}
  Facilities = {f}
  Sheets = {k}
  Lines = {x1, x2}
  Desks = {d1, d2}
  Amounts = {1}
  StatusInputs = {"ACTIVE", "PAUSED"}
  None = None
INVARIANTS
  EngagementTypeOK
  TotalExactUnlessOverlap
  ActiveUntilRemoval
  ForeignFacilityOnlyByMove
SYMMETRY Symmetry
