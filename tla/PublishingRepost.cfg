SPECIFICATION Spec
CONSTANTS
  k1 = k1
  w1 = w1
  NoKey = NoKey
  NoOwner = NoOwner
  Keys = {k1}
  Workers = {w1}
  Providers = {"adapter"}
  MaxAttempts = 3
  MaxPolls = 0
  MaxRetries = 1
INVARIANTS ResubmitsGranted
