\* A retry beside the callback of the first session.
SPECIFICATION Spec
CONSTANTS
  u1 = u1
  Users = {u1}
  Items = {i1}
  Bundles = {}
  Orders = {o1}
  Owner <- MCOwner
  Total <- MCTotal
  Sessions = {s1}
  Requests = {r1, r2}
  Provider = "zarinpal"
  Kinds = {"checkout", "callback", "retry"}
  Legacy = {}
  LegacyLines <- MCLegacyLines
  InitialBalance <- MCBalance
  MaxMoney = 2
  None = None
  i1 = i1
  o1 = o1
  r1 = r1
  r2 = r2
  s1 = s1
PROPERTIES
  OnlyTabledEdges
CHECK_DEADLOCK FALSE
