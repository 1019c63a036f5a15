SPECIFICATION FairSpec
CONSTANTS
  s1 = s1
  c1 = c1
  r1 = r1
  r2 = r2
  NoJob = NoJob
  Sends = {s1}
  Contacts = {c1}
  Runs = {r1, r2}
  Jobs <- MCJobs
  MaxAttempts = 1
  Batch = 1
PROPERTIES RowsEnd BroadcastCompletes
