---------------------------- MODULE PunchLedger ----------------------------
(***************************************************************************)
(* What the attendance synchronisation promises about the punches of the  *)
(* biometric database, whatever happens to the worker: they are taken in   *)
(* the order of their identifiers, none is passed over, and the outcome    *)
(* recorded for a punch the cursor has passed is never changed again.      *)
(* The abstract counterpart of the cursor of hr.biometric.sync.cursor and  *)
(* of the staging table hr.biometric.event.                                *)
(***************************************************************************)
EXTENDS Naturals

CONSTANTS MaxId,      \* identifiers of normalized_event are 1..MaxId
          Outcomes,   \* the outcomes a punch may end with
          Undecided   \* what is recorded of a punch that is not passed yet

VARIABLES punches,    \* the identifiers committed so far
          passed,     \* the last identifier the cursor has passed
          outcome     \* the outcome recorded for each identifier

LedgerIds == 1 .. MaxId

ledgerVars == <<punches, passed, outcome>>

Init ==
  /\ punches = {}
  /\ passed = 0
  /\ outcome = [id \in LedgerIds |-> Undecided]

(* The router commits a punch above everything the cursor has passed.      *)
Arrive(id) ==
  /\ id \notin punches
  /\ id > passed
  /\ punches' = punches \cup {id}
  /\ UNCHANGED <<passed, outcome>>

(* The cursor passes the lowest waiting punch, whose outcome is now final. *)
Pass(id) ==
  /\ id \in punches
  /\ id > passed
  /\ \A other \in punches : other > passed => id <= other
  /\ passed' = id
  /\ \E o \in Outcomes : outcome' = [outcome EXCEPT ![id] = o]
  /\ UNCHANGED punches

Next == \E id \in LedgerIds : Arrive(id) \/ Pass(id)

Spec == Init /\ [][Next]_ledgerVars
=============================================================================
