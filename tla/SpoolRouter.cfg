SPECIFICATION FairRouterSpec
CONSTANTS
  d1 = d1
  ip = ip
  u1 = u1
  h1 = h1
  p1 = p1
  odd = odd
  NoDevice = NoDevice
  NoUser = NoUser
  NoBlock = NoBlock
  Requests = {h1, p1, odd}
  Payload <- HeartbeatAndPunch
  Devices = {d1}
  Addresses = {ip}
  Legacy = {}
  Window = 0
  StaleAfter = 2
  OfflineAfter = 2
  MaxTime = 1
  MaxRows = 3
  DbRejects = {}
  Raises = {odd}
  MaxDays = 2
  MaxCrashes = 1
  MaxDbFails = 1
  MaxTears = 1
INVARIANTS
  RouterTypeOK
  PassedIsAccounted
  RawInSpoolOrder
  NormalizedOnce

  
