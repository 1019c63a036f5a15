SPECIFICATION Spec
CONSTANTS
  s1 = s1
  c1 = c1
  r1 = r1
  r2 = r2
  NoJob = NoJob
  Sends = {s1}
  Contacts = {c1}
  Runs = {r1, r2}
  Jobs <- MCJobs
  MaxAttempts = 3
  Batch = 1
SYMMETRY RunSymmetry
INVARIANTS TypeOK Exclusive CountersExact CompletedMeansSettled
PROPERTIES BackoffRespected
