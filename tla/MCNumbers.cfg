SPECIFICATION Spec
CONSTANTS
  Calls = {c1, c2, c3}
  Pool = 2
  Typed = {0, 3}
  MaxRows = 4
  Records = {r1, r2}
  Employees = {ann}
  Days = {1, 2, 3}
  Times = {0, 89, 3600}
  Wages = {1550}
  Unset = Unset
INVARIANTS
  NumberRefusedOnlyByOverlap
  PayWithinRounding
PROPERTIES
  CreateEnds
CHECK_DEADLOCK FALSE
