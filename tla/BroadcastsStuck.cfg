SPECIFICATION FairSpec
CONSTANTS
  s1 = s1
  c1 = c1
  r1 = r1
  NoJob = NoJob
  Sends = {s1}
  Contacts = {c1}
  Runs = {r1}
  Jobs <- MCJobs
  MaxAttempts = 2
  Batch = 2
PROPERTY CompletesOnceSent
