SPECIFICATION Spec
CONSTANTS
  w1 = w1
  w2 = w2
  q1 = q1
  q2 = q2
  q3 = q3
  a = a
  b = b
  Unlimited = 9
  Uploads = {1, 2}
  Workers = {w1, w2}
  Runs = {1, 2}
  Requests = {q1, q2}
  Templates = {a, b}
  Docs <- MixedAndPlain
  Sheets = {2}
  Undetected = {}
  Bad <- NothingBad
  ApprovedChoices <- AllApproved
  Limits = {1, 9}
  ChunkSize = 1
  NoRun = NoRun
  NoUpload = NoUpload
  Endpoints = {"batch"}
  Faults = {}
  MaxFaults = 0
INVARIANTS
  NoDocumentTwice
  CompletedPrintedAll
  CountsMatchOutput
  OneHolder
  SidecarOwned
PROPERTIES
  CompletedIsFinal
SYMMETRY Symmetry
CHECK_DEADLOCK FALSE
