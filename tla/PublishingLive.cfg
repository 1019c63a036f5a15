SPECIFICATION OrderedSpec
CONSTANTS
  k1 = k1
  k2 = k2
  w1 = w1
  NoKey = NoKey
  NoOwner = NoOwner
  Keys = {k1, k2}
  Workers = {w1}
  Providers = {"adapter"}
  MaxAttempts = 1
  MaxPolls = 0
  MaxRetries = 0
INVARIANTS PublishedIsRecorded
PROPERTIES NeverStuck
