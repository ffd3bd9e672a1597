\* Purchases, refunds and adjustments of a wallet yet to be opened, the dev provider.
SPECIFICATION Spec
CONSTANTS
  u1 = u1
  Users = {u1}
  Items = {i1}
  Bundles = {}
  Orders = {o1, o2}
  Owner <- MCOwner
  Total <- MCTotal
  Sessions = {s1}
  Requests = {r1, r2}
  Provider = "dev"
  Kinds = {"checkout", "confirm", "refund", "revoke", "adjust"}
  Legacy = {o1}
  LegacyLines <- MCLegacyLines
  InitialBalance <- MCNoBalance
  MaxMoney = 2
  None = None
  i1 = i1
  o1 = o1
  o2 = o2
  r1 = r1
  r2 = r2
  s1 = s1
INVARIANTS
  TypeOK
PROPERTIES
  DriftOnlyByStaleAdjustment
CHECK_DEADLOCK FALSE
