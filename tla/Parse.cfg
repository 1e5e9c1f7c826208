SPECIFICATION Spec
CONSTANTS
  Layouts <- AllLayouts
  Families = {f1, f2}
  Phones = {p1}
  Plain = plain
  MaxOpened = 3
  MaxLabels = 2
  MaxCharges = 2
  MaxItems = 2
  MaxGroups = 2
  MaxRows = 1
  MaxClosing = 2
CHECK_DEADLOCK FALSE
INVARIANTS
  ChargesKept
  RowsKept
  SubtotalsBelong
  PhoneHasCharge
