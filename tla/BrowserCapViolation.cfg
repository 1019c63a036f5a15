SPECIFICATION Spec
CONSTANTS
  t1 = t1
  t3 = t3
  e1 = e1
  e2 = e2
  w2 = w2
  t2 = t2
  w1 = w1
  Tasks = {t1, t2, t3}
  BrowserTasks = {t1, t2, t3}
  Ticks = {}
  Executors = {e1, e2}
  Identities = {w1, w2}
  IdentityOf <- MCOwnIdentity
  NoOwner = NoOwner
  MaxAttempts = 1
  MaxDeps = 0
  MaxResolves = 0
  TickBatch = 2
  MaxBrowser = 1
  MaxConcurrency = 1
INVARIANTS GlobalBrowserCap
SYMMETRY TaskSymmetry
