SPECIFICATION Spec
CONSTANTS
  ann = ann
  bob = bob
  home = home
  spoken = spoken
  Nil = Nil
  None = Nil
  Unasked = Unasked
  Outside = Outside
  Rows = {x1, x2, x3}
  Groups = {g1}
  Tellers = {t1, t2}
  Customers = {g1, g2}
  Contacts = {x1, x2, x3}
  Visitors = {t1, t2}
  MaxOrder = 2
  Details <- MCDetails
  Digits <- MCDigits
  Lines = {x1, x2, x3}
  Asked = {2, 3}
  DefaultTake = 1
  LargestTake = 2
  Ranks = {1, 2, 3}
  Users = {ann, bob}
  Managers = {ann}
  Talks = {k}
  Messages = {m1, m2}
  Posts = {t1, t2}
  Cases = {g1}
  Results = {x1, x2, x3}
  Hands = {t1, t2}
  Unscored = Nil
INVARIANTS
  TypeOK
  TwoMarkedOnlyUnseen
  LookupFailsOnlyAfterRewrite
  ListedUnlessMoved
PROPERTIES
  PostsReachTheRoom
SYMMETRY Symmetry
