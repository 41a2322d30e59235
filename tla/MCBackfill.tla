----------------------------- MODULE MCBackfill -----------------------------
(***************************************************************************)
(* Instances of Backfill for TLC: days of three ticks, as in               *)
(* MCAttendanceSync.                                                       *)
(***************************************************************************)
EXTENDS Backfill

CONSTANTS e1

Punch(e, t, g) == [emp |-> e, at |-> t, granted |-> g]

(* Two punches of one day and one of the next, in any order and repeated.  *)
GapPunches == {Punch(e1, t, TRUE) : t \in {0, 1, 3}}
=============================================================================
