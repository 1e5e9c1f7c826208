SPECIFICATION CreatedSpec
CONSTANTS
  Handlers = {h0, h1, h2}
  Creator = h0
  Clients = {c1}
  Processes = {p1, p2}
  Tickets = {t1}
  RoleLists <- SomeLists
  TTL = 1
  MaxTime = 2
  NoUser = NoUser
  NoEntry = NoEntry
SYMMETRY Symmetry
INVARIANTS
  AnswersRecent
CHECK_DEADLOCK FALSE
