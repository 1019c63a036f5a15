SPECIFICATION Spec
CONSTANTS
  t1 = t1
  t2 = t2
  k1 = k1
  k2 = k2
  w1 = w1
  Tasks = {t1, t2}
  BrowserTasks = {}
  Ticks = {k1, k2}
  Executors = {}
  Identities = {w1}
  IdentityOf <- MCIdentityOf
  NoOwner = NoOwner
  MaxAttempts = 2
  MaxDeps = 1
  MaxResolves = 1
  TickBatch = 2
  MaxBrowser = 1
  MaxConcurrency = 1
INVARIANTS TypeOK RowConsistent ApprovalGate DependenciesSettled AttemptsBounded
PROPERTIES NoStaleSettlement TransitionsLegal ImplementsLease
SYMMETRY RowSymmetry
