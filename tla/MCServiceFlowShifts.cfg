SPECIFICATION Spec
CONSTANTS
  Requests = {}
  WorkOrders = {}
  Shifts = {s1}
  Staff = {e1}
  Records = {a1, a2, a3}
  Calls = {c1, c2, c3}
  RequestInputs = {}
  WorkInputs = {}
  ShiftInputs = {"COMPLETED"}
  MaxManual = 1
  None = None
SYMMETRY Symmetry
INVARIANTS
  OpenBoundedByOverlap
  ClosedOncePerOverlap
