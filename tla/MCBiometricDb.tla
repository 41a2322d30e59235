---------------------------- MODULE MCBiometricDb ----------------------------
(***************************************************************************)
(* Instances of BiometricDb for TLC: two devices that share an address, as *)
(* behind the router of a branch.                                          *)
(***************************************************************************)
EXTENDS BiometricDb

CONSTANTS d1, d2, ip, ip2, u1, u2, h1, h2, h1late, p1, p2, door, legacy

Says(kind, hint, addr, at, user, block) ==
  [kind |-> kind, hint |-> hint, addr |-> addr, at |-> at, user |-> user, block |-> block]

(* Heartbeats of both devices, a later one of the first, a punch the second*)
(* sends with its name from another address, a door event without a device *)
(* and a punch without one that an earlier release left in quarantine.     *)
MixedPayload ==
  [r \in Requests |->
    CASE r = h1     -> Says("heartbeat_connect", d1, ip, 0, NoUser, NoBlock)
      [] r = h2     -> Says("heartbeat_connect", d2, ip, 1, NoUser, NoBlock)
      [] r = h1late -> Says("heartbeat_connect", d1, ip, 2, NoUser, NoBlock)
      [] r = p1     -> Says("access_control", d2, ip2, 1, u1, 7)
      [] r = door   -> Says("door_status", NoDevice, ip, 1, NoUser, NoBlock)
      [] r = legacy -> Says("access_control", NoDevice, ip, 0, u2, 5)]

(* Two devices that have not been heard of number their blocks alike.      *)
SameBlockPayload ==
  [r \in Requests |->
    CASE r = p1     -> Says("access_control", NoDevice, ip, 0, u1, 7)
      [] r = p2     -> Says("access_control", NoDevice, ip2, 1, u2, 7)
      [] r = h1     -> Says("heartbeat_connect", d1, ip, 0, NoUser, NoBlock)
      [] r = door   -> Says("door_status", NoDevice, ip, 1, NoUser, NoBlock)]
=============================================================================
