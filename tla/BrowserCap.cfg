SPECIFICATION CapSpec
CONSTANTS
  t1 = t1
  t3 = t3
  e1 = e1
  e2 = e2
  w2 = w2
  t2 = t2
  t4 = t4
  w1 = w1
  Tasks = {t1, t2, t3, t4}
  BrowserTasks = {t1, t2, t3, t4}
  Ticks = {}
  Executors = {e1, e2}
  Identities = {w1, w2}
  IdentityOf <- MCOwnIdentity
  NoOwner = NoOwner
  MaxAttempts = 1
  MaxDeps = 0
  MaxResolves = 0
  TickBatch = 2
  MaxBrowser = 2
  MaxConcurrency = 2
INVARIANTS OvershootBounded IdentityCap
SYMMETRY TaskSymmetry
