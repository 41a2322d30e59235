----------------------------- MODULE MCJourneys -----------------------------
(***************************************************************************)
(* An instance of Journeys for TLC: one employee, two days of four ticks,  *)
(* two clients and the batch.                                              *)
(***************************************************************************)
EXTENDS Journeys, TLC

CONSTANTS c1, c2

Worked(in, out, auto) ==
  [emp |-> 1, in |-> in, out |-> out, biometric |-> TRUE, auto |-> auto]

(* Two segments of day 0 with a gap between them, the first also while it  *)
(* is open, and one segment of day 1.                                      *)
TwoDays == {Worked(0, 1, FALSE), Worked(0, Open, FALSE), Worked(2, 3, TRUE),
            Worked(4, 5, FALSE)}

LateOnDayZero == {<<1, 0>>}

ClientSymmetry == Permutations(Clients)
=============================================================================
