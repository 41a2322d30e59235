SPECIFICATION FairRouterSpec
CONSTANTS
  d1 = d1
  ip = ip
  u1 = u1
  h1 = h1
  p1 = p1
  odd = odd
  NoDevice = NoDevice
  NoUser = NoUser
  NoBlock = NoBlock
  Requests = {h1, p1, odd}
  Payload <- HeartbeatAndPunch
  Devices = {d1}
  Addresses = {ip}
  Legacy = {}
  Window = 1
  StaleAfter = 1
  OfflineAfter = 1
  MaxTime = 1
  MaxRows = 3
  DbRejects = {odd}
  Raises = {}
  MaxDays = 1
  MaxCrashes = 0
  MaxDbFails = 0
  MaxTears = 0
PROPERTY
  EveryRequestIsStored
