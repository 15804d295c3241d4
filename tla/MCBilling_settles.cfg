CONSTANTS
  u1 = u1
  u2 = u2
  c1 = c1
  c2 = c2
  x1 = x1
  x2 = x2
  k1 = k1
  k2 = k2
  p1 = p1
  p2 = p2
  None = None
  Never = 9
  Users = {u1, u2}
  Customers = {c1, c2}
  Subs = {x1, x2}
  Checkouts = {k1, k2}
  CheckoutUser <- FirstByAnn
  Events <- OneAccount
  Procs = {p1, p2}
  Leeway = 1
  Grace = 1
  TrialDays = 1
  Managed = {u2}
  Requests <- FourRequests
  MaxNow = 2
  MaxFailures = 1
  MaxOperations = 0
SPECIFICATION FairSpec
CHECK_DEADLOCK FALSE

PROPERTIES EventSettles
