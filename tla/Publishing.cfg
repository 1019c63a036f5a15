SPECIFICATION AskingSpec
CONSTANTS
  k1 = k1
  w1 = w1
  NoKey = NoKey
  NoOwner = NoOwner
  Keys = {k1}
  Workers = {w1}
  Providers = {"polled", "gateway"}
  MaxAttempts = 2
  MaxPolls = 1
  MaxRetries = 1
INVARIANTS TypeOK AtMostOnePost EvidenceKept
PROPERTIES SubmitsFollowFailures ImplementsLease
