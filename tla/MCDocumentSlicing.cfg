SPECIFICATION Spec
CONSTANTS
  Templates = {tA, tB}
  MaxDocs = 4
  Unlimited = 99
INVARIANTS
  SliceIsListSlice
  ResumeIsExact
CHECK_DEADLOCK FALSE
