----------------------------- MODULE MCHelpdesk -----------------------------
EXTENDS Helpdesk, TLC

CONSTANTS u1, u2, s1, s2, order, sale, typedOrder, typedLower, typedSale, typedBad, typedBlank

MCNormal == typedOrder :> order @@ typedLower :> order @@ typedSale :> sale
            @@ typedBad :> Malformed @@ typedBlank :> Blank

Vals(stage, sub, refs, pri) ==
  [stage |-> stage, sub |-> sub, refs |-> refs, pri |-> pri, dated |-> stage = InProgress]

(* The web form, the kanban column "On Hold", and imports of two.          *)
MCCreateBatches ==
  {<<Vals(New, s1, {typedLower}, 0)>>,
   <<Vals(OnHold, s2, {typedOrder}, 1)>>,
   <<Vals(New, s2, {typedBlank}, 0)>>,
   <<Vals(New, s1, {typedBad}, 0)>>,
   <<Vals(New, s1, {typedLower}, 0), Vals(InProgress, s1, {typedSale}, 0)>>,
   <<Vals(OnHold, s1, {typedSale}, 0), Vals(New, s1, {typedOrder, typedSale}, 0)>>}

MCFormVals ==
  {[stage |-> s] : s \in Stages}
  \cup {[stage |-> InProgress, dated |-> TRUE],
        [refs |-> {typedSale}, stage |-> OnHold], [pri |-> 1]}
MCMassVals == {[pri |-> 1], [refs |-> {typedOrder}]}

MCPolicies == {[stage |-> InProgress, pri |-> 0], [stage |-> Solved, pri |-> 0],
               [stage |-> InProgress, pri |-> 1]}
(* A pending ticket of the web form.                                       *)
MCFirstTickets ==
  [i \in 1..3 |->
     IF i > 1 THEN NoTicket
     ELSE [stage |-> New, sub |-> s1, refs |-> {order}, pri |-> 0, dated |-> FALSE,
           closed |-> FALSE, wrote |-> 0,
           sla |-> [p \in MCPolicies |-> IF p.pri = 0 THEN "ongoing" ELSE "none"]]]
MCWeekend == {0}
=============================================================================
