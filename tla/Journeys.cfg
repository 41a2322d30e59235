SPECIFICATION Spec
CONSTANTS
  c1 = c1
  c2 = c2
  Clients = {c1, c2}
  Batch = batch
  Employees = {1}
  Days = {0, 1}
  DayLen = 4
  AttendanceIds = {1, 2}
  Shifts <- TwoDays
  BatchSize = 1
  MaxEdits = 3
  MaxOpen = 2
  LateKeys <- LateOnDayZero
  NoTxn = NoTxn
  NoShift = NoShift
  NoJourney = NoJourney
SYMMETRY ClientSymmetry
INVARIANTS
  TypeOK
  JourneyMatches
  
PROPERTIES
  BatchRepairs
