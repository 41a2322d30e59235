SPECIFICATION BackfillSpec
CONSTANTS
  e1 = e1
  NoEmployee = NoEmployee
  Employees = {e1}
  MaxId = 3
  Punches <- GapPunches
  DayLen = 3
  CloseTick = 2
  ReconcileTick = 1
  AutoCloseEnabled = TRUE
  ReconcileEnabled = FALSE
  Debounce = 0
  BatchSize = 2
  CloseLimit = 2
  TwoWriters = FALSE
  MaxTime = 6
  Started = 5
  MaxFaults = 1
  MaxManual = 1
  Gap = 2
  MaxApplies = 2
CHECK_DEADLOCK FALSE
INVARIANTS
  BackfillTypeOK
  
  SuccessSettlesRange
  DryRunPredicts

  
