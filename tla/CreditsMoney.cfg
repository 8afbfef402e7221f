SPECIFICATION Spec
CONSTANTS
  u1 = u1
  u2 = u2
  j1 = j1
  j2 = j2
  j3 = j3
  j4 = j4
  User = {u1}
  Conn = {c1, c2}
  Job = {j1}
  NewProject = {j1}
  Call = {k1}
  Order = {o1}
  Cycle = {y1}
  Unmatched = {}
  Fee = {}
  Owner <- OneOwner
  None = None
  GRANT = 3
  ALLOTMENT = 4
  PACK = 2
  PROMO = 1
  PRICE = 2
  COST = 4
  MIN_SPEND = 2
  MIN_BALANCE = 1
  MaxConcurrentJobs = 1
  MaxRedemptions = 1
  MaxIndex = 1
  MaxRetries = 1
  MaxFaults = 1
SYMMETRY ConnSymmetry
INVARIANTS TypeOK LedgerMatchesBalance ProcessedMeansGranted
PROPERTIES WalletImplemented
CHECK_DEADLOCK FALSE
