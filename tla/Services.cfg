SPECIFICATION ServicesSpec
CONSTANTS
  r1 = r1
  r2 = r2
  x1 = x1
  x2 = x2
  j1 = j1
  j2 = j2
  Parts = {"secrets", "sessions", "artifacts", "ledger", "sequence", "flow", "schedule"}
  SecretIds = {x1, x2}
  Callers = {r1, r2}
  MaxVersion = 2
  NoSecret = NoSecret
  MaxFlows = 4
  ArtifactIds = {x1, x2}
  Requests = {r1, r2}
  Quota = 1
  Jobs = {j1, j2}
  Runs = {r1, r2}
  NoJob = NoJob
  MaxAttempts = 2
  Batch = 1
  OccurredAt <- MCOccurredAt
  Named = TRUE
  MaxContacts = 2
  MaxFaults = 1
  Steps <- MCSteps
  Crons = {r1, r2}
  Flow <- MCFlow
  Walkers = {r1, r2}
  MaxTries = 2
  MaxSessions = 2
  MaxJobs = 2
  MaxMessages = 2
  MaxDeaths = 1
  Hands = {r1, r2}
  NoHand = NoHand
  Timings <- MCTimings
  Occurrences = {1, 2}
  MaxTime = 2
INVARIANTS ServicesTypeOK CurrentVersionKept RetiredKeyUnused RevocationShreds AvailableIsStored SweepLeavesNoObject FlowStartsOnce QueuedMeansQueued SessionRecoverable OccurrenceOnce
PROPERTIES RevokedForGood NeverBackwards StepsInOrder DelayRespected LiveNotCancelled
SYMMETRY ServiceSymmetry
CHECK_DEADLOCK FALSE
