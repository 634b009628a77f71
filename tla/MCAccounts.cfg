SPECIFICATION Spec
CONSTANTS
  ann = ann
  None = None
  Emails = {ann}
  Profiles = {emp}
  EmailOf <- MCEmailOf
  KindOf <- MCKindOf
  Tokens = {t1, t2}
  Sessions = {s1, s2}
  Requests = {r1, r2}
  PublicSignUp = FALSE
  SiteAdmin = FALSE
  StatusInputs = {"ACTIVE"}
  RoleInputs = {"OWNER"}
  MaxEpoch = 2
SYMMETRY MCSymmetry
CHECK_DEADLOCK FALSE
INVARIANTS
  TypeOK
  TokenUsesBoundedByOverlap
  RefreshForksOnlyOnOverlap
  SurvivorsRacedTheReset
  UnlinkedOnlyWhenCut
PROPERTIES
  InvitationKeepsStatus
