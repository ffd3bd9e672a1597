\* Two orders of one course on ZarinPal, every request but a retry, crashes.
SPECIFICATION Spec
CONSTANTS
  u1 = u1
  Users = {u1}
  Items = {i1}
  Bundles = {}
  Orders = {o1, o2}
  Owner <- MCOwner
  Total <- MCTotal
  Sessions = {s1, s2}
  Requests = {r1, r2}
  Provider = "zarinpal"
  Kinds = {"checkout", "cart", "callback", "confirm", "refund", "faults"}
  Legacy = {}
  LegacyLines <- MCLegacyLines
  InitialBalance <- MCDoubleBalance
  MaxMoney = 2
  None = None
  i1 = i1
  o1 = o1
  o2 = o2
  r1 = r1
  r2 = r2
  s1 = s1
  s2 = s2
SYMMETRY MCSymmetry
INVARIANTS
  SettledIsBooked
  OrderMatchesPayment
  Agreement
PROPERTIES
  ImplementsLifecycle
CHECK_DEADLOCK FALSE
