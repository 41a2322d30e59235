SPECIFICATION Spec
CONSTANTS
  e1 = e1
  e2 = e2
  NoEmployee = NoEmployee
  Employees = {e1}
  MaxId = 2
  Punches <- OneEmployeePunches
  DayLen = 3
  CloseTick = 2
  ReconcileTick = 1
  AutoCloseEnabled = TRUE
  ReconcileEnabled = TRUE
  Debounce = 1
  BatchSize = 2
  CloseLimit = 2
  TwoWriters = FALSE
  MaxTime = 5
  MaxFaults = 0
  MaxManual = 0
INVARIANT
  ClosedDayStaysClosed
