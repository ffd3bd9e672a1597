\* Stripe: retries beside webhooks that fail, are released, redelivered, duplicated.
SPECIFICATION Spec
CONSTANTS
  u1 = u1
  Users = {u1}
  Items = {i1}
  Bundles = {}
  Orders = {o1}
  Owner <- MCOwner
  Total <- MCTotal
  Sessions = {s1, s2}
  Requests = {r1, r2}
  Provider = "stripe"
  Kinds = {"checkout", "callback", "confirm", "webhook", "retry", "refund", "faults"}
  Legacy = {}
  LegacyLines <- MCLegacyLines
  InitialBalance <- MCDoubleBalance
  MaxMoney = 2
  None = None
  i1 = i1
  o1 = o1
  r1 = r1
  r2 = r2
  s1 = s1
  s2 = s2
SYMMETRY MCSlotSymmetry
INVARIANTS
  MoneyMovesOnce
  Inv
  Claims
PROPERTIES
  LeavesLifecycleByStaleReset
CHECK_DEADLOCK FALSE
