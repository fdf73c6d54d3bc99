\* One bean whose rows fill its sheets exactly.
SPECIFICATION Spec
CONSTANTS
    SheetSize = 2
    MaxRows = 2
    MaxBeans = 1
    Nil = Nil
INVARIANT NoSheetWithoutRows
CHECK_DEADLOCK FALSE
