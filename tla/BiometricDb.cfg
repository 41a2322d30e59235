SPECIFICATION DbSpec
CONSTANTS
  d1 = d1
  d2 = d2
  ip = ip
  ip2 = ip2
  u1 = u1
  u2 = u2
  h1 = h1
  h2 = h2
  h1late = h1late
  p1 = p1
  p2 = p2
  door = door
  legacy = legacy
  NoDevice = NoDevice
  NoUser = NoUser
  NoBlock = NoBlock
  Requests = {h1, h2, h1late, p1, door, legacy}
  Payload <- MixedPayload
  Devices = {d1, d2}
  Addresses = {ip, ip2}
  Legacy = {legacy}
  Window = 1
  StaleAfter = 1
  OfflineAfter = 2
  MaxTime = 3
  MaxRows = 2
INVARIANTS
  DbTypeOK
  SilenceFollowsHeartbeat
  OutboxIsAttributed

  
  
