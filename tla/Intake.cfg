SPECIFICATION Spec
CONSTANTS
  d1 = d1
  d2 = d2
  n1 = n1
  n2 = n2
  t1 = t1
  t2 = t2
  w1 = w1
  w2 = w2
  p1 = p1
  p2 = p2
  Deliveries = {d1, d2}
  Names = {n1, n2}
  Folders <- TheFolders
  NameOf <- TwoNames
  FolderOf <- BillAndTest
  Templates = {t1}
  TemplatesOf <- OneTemplate
  Watchers = {w1, w2}
  ProcessOf <- OneProcess
  Uploaders = {u1}
  RowIds = {1, 2}
  Tries = 2
  MaxDecisions = 1
  Faults = {"work"}
  NoFile = NoFile
  NoRow = NoRow
  DeletedRow = DeletedRow
  Nobody = Nobody
INVARIANTS
  
  CompletedWasPrinted
SYMMETRY Threads
CHECK_DEADLOCK FALSE
