SPECIFICATION FairSpec
CONSTANTS
  w1 = w1
  w2 = w2
  q1 = q1
  q2 = q2
  q3 = q3
  a = a
  b = b
  Unlimited = 9
  Uploads = {1, 2}
  Workers = {w1, w2}
  Runs = {1}
  Requests = {q1}
  Templates = {a, b}
  Docs <- MixedAndPlain
  Sheets = {2}
  Undetected = {}
  Bad <- NothingBad
  ApprovedChoices <- AllApproved
  Limits = {1, 3, 9}
  ChunkSize = 1
  NoRun = NoRun
  NoUpload = NoUpload
  Endpoints = {"batch", "approve", "reject"}
  Faults = {"crash", "raise", "finish", "apicrash"}
  MaxFaults = 1
INVARIANTS
  TypeOK
  CountedWerePrinted
  PrintedWithinRun
  FileNotLost
  AccountedIsClosed
PROPERTIES
  RunsEnd
  QueueDrains
CHECK_DEADLOCK FALSE
