--------------------------- MODULE MCAuthGateway ---------------------------
(***************************************************************************)
(* Four requests, most of one employee: the steps of a login or logout     *)
(* flow, two of them results of its one session, or local check-ins and    *)
(* check-outs over two days, some refused.  Requests arrive in order and   *)
(* are served side by side.                                                *)
(***************************************************************************)
EXTENDS AuthGateway

CONSTANTS ana, guest, tablet, f1

MCUsers == {ana, guest}
MCEmployees == {ana}
MCDevices == {tablet}
MCFlows == {f1}
MCRequests == 1 .. 4

OfFlow(kind, proof) ==
  [kind |-> kind, user |-> ana, dev |-> tablet, flow |-> f1, act |-> "none", proof |-> proof]
Local(kind, act, proof) ==
  [kind |-> kind, user |-> ana, dev |-> tablet, flow |-> f1, act |-> act, proof |-> proof]

MCScripts ==
  {<<OfFlow("login_start", "password"), OfFlow("liveness_result", "wrong"),
     OfFlow("liveness_result", "wrong"), OfFlow("login_complete", "wrong")>>,
   <<OfFlow("login_start", "wrong"), Local("local_failure", "check_in", "wrong"),
     OfFlow("liveness_result", "wrong"), Local("local_complete", "check_out", "expired")>>,
   <<OfFlow("logout_start", "wrong"), OfFlow("logout_complete", "wrong"),
     OfFlow("logout_complete", "wrong"), OfFlow("login_complete", "wrong")>>,
   <<Local("local_complete", "check_in", "password"),
     Local("local_complete", "check_out", "signed"),
     Local("local_complete", "check_in", "password"),
     Local("local_complete", "check_out", "password")>>,
   <<Local("local_complete", "check_in", "password"),
     Local("local_complete", "check_in", "wrong"),
     [Local("local_complete", "check_in", "password") EXCEPT !.user = guest],
     Local("local_complete", "check_in", "password")>>}
=============================================================================
