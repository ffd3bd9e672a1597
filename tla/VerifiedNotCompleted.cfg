\* A learner without money in the wallet pays through ZarinPal.
SPECIFICATION FairSpec
CONSTANTS
  u1 = u1
  Users = {u1}
  Items = {i1}
  Bundles = {}
  Orders = {o1}
  Owner <- MCOwner
  Total <- MCTotal
  Sessions = {s1}
  Requests = {r1}
  Provider = "zarinpal"
  Kinds = {"checkout", "callback"}
  Legacy = {}
  LegacyLines <- MCLegacyLines
  InitialBalance <- MCNoBalance
  MaxMoney = 2
  None = None
  i1 = i1
  o1 = o1
  r1 = r1
  s1 = s1
PROPERTIES
  VerifiedIsCompleted
CHECK_DEADLOCK FALSE
