---------------------------- MODULE MCSpoolRouter ----------------------------
(***************************************************************************)
(* Instances of SpoolRouter for TLC.                                       *)
(***************************************************************************)
EXTENDS SpoolRouter

CONSTANTS d1, ip, u1, h1, p1, odd

Says(kind, at, hint, user) ==
  [kind |-> kind, hint |-> hint, addr |-> ip, at |-> at, user |-> user, block |-> NoBlock]

(* The heartbeat of a device, a punch it sends without its name at the     *)
(* same time, and a request the worker cannot process.                     *)
HeartbeatAndPunch ==
  [r \in Requests |->
    CASE r = h1  -> Says("heartbeat_connect", 0, d1, NoUser)
      [] r = p1  -> Says("access_control", 0, NoDevice, u1)
      [] r = odd -> Says("unknown", 0, NoDevice, NoUser)]
=============================================================================
