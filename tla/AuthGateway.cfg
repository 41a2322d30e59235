SPECIFICATION Spec
CONSTANTS
  ana = ana
  guest = guest
  tablet = tablet
  f1 = f1
  Users <- MCUsers
  Employees <- MCEmployees
  Devices <- MCDevices
  Flows <- MCFlows
  Requests <- MCRequests
  Scripts <- MCScripts
  SyncEnabled = TRUE
  MaxAttempts = 2
  MaxPosts = 2
  DayLen = 2
  MaxTime = 2
  MaxFaults = 3
INVARIANTS
  AuthTypeOK
  
  AnswerTellsAttendance
  
  EventIsKept
CHECK_DEADLOCK FALSE
