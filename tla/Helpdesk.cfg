SPECIFICATION Spec
CONSTANTS
  u1 = u1
  u2 = u2
  s1 = s1
  s2 = s2
  order = order
  sale = sale
  typedOrder = typedOrder
  typedLower = typedLower
  typedSale = typedSale
  typedBad = typedBad
  typedBlank = typedBlank
  Sessions = {u1, u2}
  Interleaved = {u1}
  Cron = cron
  TicketIds = {1, 2, 3}
  Subcategories = {s1, s2}
  NeedsReference = {s2}
  Typed = {typedOrder, typedLower, typedSale, typedBad, typedBlank}
  Normal <- MCNormal
  References = {order, sale}
  Blank = Blank
  Malformed = Malformed
  Priorities = {0, 1}
  Policies <- MCPolicies
  FirstTickets <- MCFirstTickets
  CreateBatches <- MCCreateBatches
  FormVals <- MCFormVals
  MassVals <- MCMassVals
  DayTicks = 2
  Weekend <- MCWeekend
  CloseAfter = 2
  MaxTime = 4
  MaxEdits = 3
  NoTicket = NoTicket
  NoTxn = NoTxn
INVARIANTS
  HelpdeskTypeOK
  PendingPairsOverlapped
  
PROPERTIES
  CronClosesOnlyInactive
  
CHECK_DEADLOCK FALSE
