SPECIFICATION FairSpec
CONSTANTS
  Invoices = {i1, i2}
  Scanners = {s1, s2}
  Emailed = {}
  Phoned = {i1}
  SmsEnabled = TRUE
  MaxAttempts = 2
  MaxFaults = 1
  NoRow = NoRow
  NoKey = NoKey
INVARIANTS
  RerunNeverDoubles
PROPERTIES
  OutboxKeepsPromise
  EveryInvoiceQueued
  OutboxSettles
