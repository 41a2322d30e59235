SPECIFICATION FairSpec
CONSTANTS
  e1 = e1
  e2 = e2
  NoEmployee = NoEmployee
  Employees = {e1}
  MaxId = 3
  Punches <- OneEmployeePunches
  DayLen = 3
  CloseTick = 2
  ReconcileTick = 1
  AutoCloseEnabled = TRUE
  ReconcileEnabled = FALSE
  Debounce = 1
  BatchSize = 2
  CloseLimit = 2
  TwoWriters = FALSE
  MaxTime = 4
  MaxFaults = 2
  MaxManual = 0
INVARIANTS
  TypeOK
  PassedIsStaged
  AcceptedAreApart
  OutcomeMatchesAttendance
PROPERTIES
  ImplementsLedger
  
  
