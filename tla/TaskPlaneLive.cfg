SPECIFICATION CountedSpec
CONSTANTS
  t1 = t1
  t2 = t2
  k1 = k1
  e1 = e1
  e2 = e2
  w1 = w1
  Tasks = {t1, t2}
  BrowserTasks = {t2}
  Ticks = {k1}
  Executors = {e1, e2}
  Identities = {w1}
  IdentityOf <- MCIdentityOf
  NoOwner = NoOwner
  MaxAttempts = 1
  MaxDeps = 1
  MaxResolves = 0
  TickBatch = 2
  MaxBrowser = 1
  MaxConcurrency = 1
PROPERTIES NoStrandedWork
