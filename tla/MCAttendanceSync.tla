-------------------------- MODULE MCAttendanceSync --------------------------
(***************************************************************************)
(* Instances of AttendanceSync for TLC.  A day has three ticks: tick 2 is  *)
(* the minute from 23:59, where the close run is due, and tick 1 is when   *)
(* reconciliation becomes due.  The debounce window is one tick.           *)
(***************************************************************************)
EXTENDS AttendanceSync

CONSTANTS e1, e2

Punch(e, t, g) == [emp |-> e, at |-> t, granted |-> g]

(* One employee over two days: a punch in the morning, one in the close    *)
(* minute and one the next morning, which is within the debounce window of *)
(* the one before.  Each may be committed again, under another id.         *)
OneEmployeePunches ==
  {Punch(e1, t, TRUE) : t \in {0, 2, 3}}

(* Two employees, a badge nobody has and a refusal by the device.          *)
MixedPunches ==
  {Punch(e1, 0, TRUE), Punch(e2, 1, TRUE), Punch(e1, 2, TRUE),
   Punch(e1, 2, FALSE), Punch(NoEmployee, 1, TRUE)}
=============================================================================
