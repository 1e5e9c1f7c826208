SPECIFICATION Spec
CONSTANTS
  Layouts <- AllLayouts
  Bills <- AllBills
  MaxCharges = 40
  MaxRows = 4
  MaxLines = 75
CHECK_DEADLOCK FALSE
INVARIANTS
  RowsDrawnOnce
  FloorKept
PROPERTIES
  ReadingOrder
  HeadingKept
