SPECIFICATION Spec
CONSTANTS
  Requests = {}
  WorkOrders = {}
  Shifts = {}
  Staff = {e1}
  Records = {a1, a2}
  Calls = {c1, c2}
  RequestInputs = {}
  WorkInputs = {}
  ShiftInputs = {}
  MaxManual = 0
  None = None
INVARIANT
  AlreadyClockedIn
