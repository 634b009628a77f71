SPECIFICATION MCSpec
CONSTANTS
  Invoices = {i1, i2}
  Items = {x1}
  Payments = {y1}
  Calls = {c1, c2}
  Quantities = {50, 100}
  Prices = {25, 50}
  Rates = {4, 5}
  Amounts = {26}
  StatusInputs = {"DRAFT"}
  None = None
SYMMETRY Symmetry
INVARIANTS
  TypeOK
  TotalsExact
  LinesPriced
  PaidIsSettledOrTakenBack
  StatusFollowsMoney
