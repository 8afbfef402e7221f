SPECIFICATION Spec
CONSTANTS
  u1 = u1
  u2 = u2
  j1 = j1
  j2 = j2
  j3 = j3
  j4 = j4
  User = {u1, u2}
  Conn = {c1, c2}
  Job = {j1, j2, j3, j4}
  NewProject = {j1, j2}
  Call = {}
  Order = {}
  Cycle = {y1}
  Unmatched = {y1}
  Fee = {f1}
  Owner <- OneOwner
  None = None
  GRANT = 3
  ALLOTMENT = 4
  PACK = 2
  PROMO = 1
  PRICE = 2
  COST = 2
  MIN_SPEND = 2
  MIN_BALANCE = 1
  MaxConcurrentJobs = 1
  MaxRedemptions = 1
  MaxIndex = 0
  MaxRetries = 0
  MaxFaults = 1
SYMMETRY JobSymmetry
INVARIANTS CapAmongEqual PromoWithinLimit
CHECK_DEADLOCK FALSE
