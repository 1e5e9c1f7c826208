SPECIFICATION Spec
CONSTANTS
  w1 = w1
  w2 = w2
  q1 = q1
  q2 = q2
  q3 = q3
  a = a
  b = b
  Unlimited = 9
  Uploads = {1, 2}
  Workers = {w1}
  Runs = {1, 2, 3, 4}
  Requests = {q1, q2, q3}
  Templates = {a, b}
  Docs <- MixedAndPlain
  Sheets = {}
  Undetected = {2}
  Bad <- FirstBad
  ApprovedChoices <- AllApproved
  Limits = {9}
  ChunkSize = 1
  NoRun = NoRun
  NoUpload = NoUpload
  Endpoints = {"batch", "single", "retry"}
  Faults = {"raise", "openrun", "move", "retry", "gone", "retryload", "retrydb", "stage", "crash", "finish", "apicrash"}
  MaxFaults = 1
INVARIANTS
  RetryLeavesVerdict
  FailuresRecorded
PROPERTIES
  LedgerPromise
SYMMETRY Symmetry
CHECK_DEADLOCK FALSE
