SPECIFICATION Spec
CONSTANTS
  Requests = {r1}
  WorkOrders = {w1}
  Shifts = {}
  Staff = {e1, e2}
  Records = {a1, a2}
  Calls = {c1, c2}
  RequestInputs = {"REJECTED"}
  WorkInputs = {"PAUSED"}
  ShiftInputs = {"COMPLETED"}
  MaxManual = 0
  None = None
SYMMETRY Symmetry
INVARIANTS
  HistoryExplainsStatus
  CompletedRequestHasCompletedWork
