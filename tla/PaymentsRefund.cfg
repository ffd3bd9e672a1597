\* Refunds of orders older than the ledger, beside the admin's grants.
SPECIFICATION Spec
CONSTANTS
  u1 = u1
  Users = {u1}
  Items = {i1, b1}
  Bundles = {b1}
  Orders = {o1, o2, o3}
  Owner <- MCOwner
  Total <- MCTotal
  Sessions = {s1}
  Requests = {r1, r2}
  Provider = "idpay"
  Kinds = {"checkout", "callback", "refund", "grant", "revoke", "enroll"}
  Legacy = {o1, o2}
  LegacyLines <- MCLegacyLines
  InitialBalance <- MCBalance
  MaxMoney = 2
  None = None
  b1 = b1
  i1 = i1
  o1 = o1
  o2 = o2
  o3 = o3
  r1 = r1
  r2 = r2
  s1 = s1
SYMMETRY MCSlotSymmetry
INVARIANTS
  MoneyMovesOnce
  RoadmapIsPaid
PROPERTIES
  RefundSparesGifts
CHECK_DEADLOCK FALSE
