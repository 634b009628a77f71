SPECIFICATION Spec
CONSTANTS
  Requests = {r1}
  WorkOrders = {w1}
  Shifts = {}
  Staff = {}
  Records = {}
  Calls = {c1}
  RequestInputs = {"REJECTED"}
  WorkInputs = {}
  ShiftInputs = {}
  MaxManual = 0
  None = None
PROPERTY
  RejectedNeverConverted
