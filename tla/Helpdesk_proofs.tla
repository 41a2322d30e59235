-------------------------- MODULE Helpdesk_proofs --------------------------
(***************************************************************************)
(* Proofs about Helpdesk: the rows stay rows, a ticket follows its stage,  *)
(* two pending tickets of an order overlapped, and the cron closes only    *)
(* what nobody wrote for long enough.                                      *)
(***************************************************************************)
EXTENDS Helpdesk, FiniteSetTheorems, NaturalsInduction, WellFoundedInduction, TLAPS

All == Sessions \cup {Cron}

(* Values for some of the fields a user may give, with these references.   *)
Partial(vals, refs) ==
  /\ "stage" \in DOMAIN vals => vals.stage \in Stages
  /\ "sub" \in DOMAIN vals => vals.sub \in Subcategories
  /\ "refs" \in DOMAIN vals => vals.refs \subseteq refs
  /\ "pri" \in DOMAIN vals => vals.pri \in Priorities
  /\ "dated" \in DOMAIN vals => vals.dated \in BOOLEAN

-----------------------------------------------------------------------------
(***************************************************************************)
(* Values and rows.                                                        *)
(***************************************************************************)
(* What a form or a multiple edit gives is typed as the fields are.        *)
LEMMA FormPartial ==
  ASSUME NEW vals \in FormVals \cup MassVals
  PROVE  Partial(vals, Typed)
<1>1. PICK new \in NewVals : DOMAIN vals \subseteq DOMAIN new /\ \A f \in DOMAIN vals : vals[f] = new[f]
  BY HelpdeskAssumption
<1> QED
  BY <1>1 DEF Partial, NewVals

(* Normalization keeps the fields that are given, and what passes the      *)
(* format check are references.                                            *)
LEMMA NormalizedPartial ==
  ASSUME NEW raw, Partial(raw, Typed), WellFormed(NormalizeVals(raw))
  PROVE  /\ Partial(NormalizeVals(raw), References)
         /\ DOMAIN NormalizeVals(raw) = DOMAIN raw
<1>1. CASE "refs" \notin DOMAIN raw
  BY <1>1 DEF NormalizeVals, Partial
<1>2. CASE "refs" \in DOMAIN raw
  <2> DEFINE some == {Normal[x] : x \in raw.refs} \ {Blank}
  <2>1. NormalizeVals(raw) = [raw EXCEPT !.refs = some]
    BY <1>2 DEF NormalizeVals
  <2>2. DOMAIN NormalizeVals(raw) = DOMAIN raw
    BY <2>1
  <2>3. NormalizeVals(raw).refs = some
    BY <2>1, <1>2
  <2>4. \A f \in DOMAIN raw : f # "refs" => NormalizeVals(raw)[f] = raw[f]
    BY <2>1
  <2>5. some \subseteq References
    <3>1. Malformed \notin some
      BY <2>2, <2>3, <1>2 DEF WellFormed
    <3>2. \A x \in raw.refs : Normal[x] \in References \cup {Blank, Malformed}
      BY <1>2, HelpdeskAssumption DEF Partial
    <3> QED
      BY <3>1, <3>2
  <2> HIDE DEF some
  <2> QED
    BY <2>2, <2>3, <2>4, <2>5 DEF Partial
<1> QED
  BY <1>1, <1>2

(* A ticket with the values it is given is a ticket.                       *)
LEMMA OverlayTyped ==
  ASSUME NEW vals, NEW row \in Fields, Partial(vals, References)
  PROVE  /\ Overlay(vals, row) \in Fields
         /\ Overlay(vals, row).stage = Given(vals, "stage", row.stage)
         /\ Overlay(vals, row).dated = Given(vals, "dated", row.dated)
         /\ Overlay(vals, row).pri = Given(vals, "pri", row.pri)
         /\ Overlay(vals, row).closed = row.closed
         /\ Overlay(vals, row).sla = row.sla
         /\ Overlay(vals, row).wrote = row.wrote
BY DEF Overlay, Given, Fields, Partial


-----------------------------------------------------------------------------
(***************************************************************************)
(* What the base module keeps with a row.                                  *)
(***************************************************************************)
(* A nonempty set of naturals has a least element.                         *)
LEMMA LeastNat ==
  ASSUME NEW S \in SUBSET Nat, S # {}
  PROVE  \E n \in S : \A m \in S : n <= m
<1>1. PICK n \in S : \A m \in S : ~(<<m, n>> \in OpToRel(<, Nat))
  BY WFMin, NatLessThanWellFounded
<1>2. \A m \in S : ~(m < n)
  BY <1>1 DEF OpToRel
<1> QED
  BY <1>2

(* The stage of a group is that of one of its tickets, and of no other     *)
(* field but the stages and priorities.                                    *)
LEMMA KeyStageSame ==
  ASSUME NEW one, NEW two, NEW seq, DOMAIN seq \subseteq Nat, NEW i \in Written(seq),
         \A j \in Written(seq) : one[j].pri = two[j].pri /\ one[j].stage = two[j].stage
  PROVE  KeyStage(one, seq, i) = KeyStage(two, seq, i)
<1> DEFINE same == {n \in DOMAIN seq : one[seq[n]].pri = one[i].pri}
           n0   == CHOOSE n \in same : \A m \in same : n <= m
<1>1. \A n \in DOMAIN seq : seq[n] \in Written(seq)
  BY DEF Written
<1>2. same = {n \in DOMAIN seq : two[seq[n]].pri = two[i].pri}
  BY <1>1
<1>3. PICK k \in DOMAIN seq : seq[k] = i
  BY DEF Written
<1>4. same # {} /\ same \subseteq Nat
  BY <1>3
<1>5. n0 \in same
  <2> HIDE DEF same
  <2> QED
    BY <1>4, LeastNat
<1>6. one[seq[n0]].stage = two[seq[n0]].stage
  BY <1>1, <1>5
<1>7. KeyStage(one, seq, i) = one[seq[n0]].stage
  BY DEF KeyStage
<1>8. KeyStage(two, seq, i) = two[seq[n0]].stage
  BY <1>2 DEF KeyStage
<1> QED
  BY <1>6, <1>7, <1>8

(* row is old with its statuses made anew for the stage key.               *)
Renewed(row, old, key) ==
  /\ row \in Fields
  /\ row.stage = old.stage /\ row.sub = old.sub /\ row.refs = old.refs /\ row.pri = old.pri
  /\ row.dated = old.dated /\ row.closed = old.closed /\ row.wrote = old.wrote
  /\ \A p \in Policies :
       /\ row.sla[p] = "reached" => p.stage <= row.stage \/ old.sla[p] = "reached"
       /\ key = row.stage /\ row.sla[p] = "ongoing" => p.stage > row.stage

(* Statuses made anew for a group but for the reached ones, which stay:    *)
(* they follow the stage of a ticket whose stage is the group's.           *)
LEMMA KeptFollows ==
  ASSUME NEW rows, NEW seq, NEW i \in TicketIds \cap Written(seq),
         rows[i] \in Fields
  PROVE  Renewed(SlaApply(rows, seq, TRUE)[i], rows[i], KeyStage(rows, seq, i))
<1> DEFINE new == [p \in Policies |->
             IF rows[i].sla[p] = "reached" THEN "reached"
             ELSE IF p \notin SlaFind(rows, seq, i) THEN "none"
             ELSE IF p.stage = rows[i].stage THEN "reached" ELSE "ongoing"]
           row == [rows[i] EXCEPT !.sla = new]
<1>1. SlaApply(rows, seq, TRUE)[i] = row
  BY DEF SlaApply
<1>2. new \in [Policies -> {"none", "ongoing", "reached"}]
  OBVIOUS
<1>3. \A p \in Policies : p.stage \in Int /\ rows[i].stage \in Int
  BY HelpdeskAssumption DEF Fields, Stages, New, Cancelled
<1>4. \A p \in Policies :
        new[p] = "reached" => p.stage <= rows[i].stage \/ rows[i].sla[p] = "reached"
  BY <1>3
<1>5. \A p \in Policies :
        KeyStage(rows, seq, i) = rows[i].stage /\ new[p] = "ongoing" => p.stage > rows[i].stage
  <2> SUFFICES ASSUME NEW p \in Policies, KeyStage(rows, seq, i) = rows[i].stage, new[p] = "ongoing"
               PROVE  p.stage > rows[i].stage
    OBVIOUS
  <2>1. p \in SlaFind(rows, seq, i) /\ p.stage # rows[i].stage
    OBVIOUS
  <2>2. p.stage >= rows[i].stage
    BY <2>1 DEF SlaFind
  <2> QED
    BY <2>1, <2>2, <1>3
<1> HIDE DEF new
<1>6. /\ row \in Fields /\ row.sla = new
      /\ row.stage = rows[i].stage /\ row.sub = rows[i].sub /\ row.refs = rows[i].refs
      /\ row.pri = rows[i].pri /\ row.dated = rows[i].dated
      /\ row.closed = rows[i].closed /\ row.wrote = rows[i].wrote
  BY <1>2 DEF Fields
<1> HIDE DEF row
<1>7. Renewed(row, rows[i], KeyStage(rows, seq, i))
  BY <1>4, <1>5, <1>6 DEF Renewed
<1> QED
  BY <1>1, <1>4, <1>6, <1>7

(* Statuses made anew for the tickets of a create.                         *)
LEMMA AnewFollows ==
  ASSUME NEW rows, NEW seq, NEW i \in TicketIds \cap Written(seq),
         rows[i] \in Fields
  PROVE  /\ Renewed(SlaApply(rows, seq, FALSE)[i], rows[i], KeyStage(rows, seq, i))
         /\ \A p \in Policies : SlaApply(rows, seq, FALSE)[i].sla[p] = "reached"
                                => p.stage <= rows[i].stage
<1> DEFINE new == [p \in Policies |->
             IF p \notin SlaFind(rows, seq, i) THEN "none"
             ELSE IF p.stage = rows[i].stage THEN "reached" ELSE "ongoing"]
           row == [rows[i] EXCEPT !.sla = new]
<1>1. SlaApply(rows, seq, FALSE)[i] = row
  BY DEF SlaApply
<1>2. new \in [Policies -> {"none", "ongoing", "reached"}]
  OBVIOUS
<1>3. \A p \in Policies : p.stage \in Int /\ rows[i].stage \in Int
  BY HelpdeskAssumption DEF Fields, Stages, New, Cancelled
<1>4. \A p \in Policies :
        new[p] = "reached" => p.stage <= rows[i].stage
  BY <1>3
<1>5. \A p \in Policies :
        KeyStage(rows, seq, i) = rows[i].stage /\ new[p] = "ongoing" => p.stage > rows[i].stage
  <2> SUFFICES ASSUME NEW p \in Policies, KeyStage(rows, seq, i) = rows[i].stage, new[p] = "ongoing"
               PROVE  p.stage > rows[i].stage
    OBVIOUS
  <2>1. p \in SlaFind(rows, seq, i) /\ p.stage # rows[i].stage
    OBVIOUS
  <2>2. p.stage >= rows[i].stage
    BY <2>1 DEF SlaFind
  <2> QED
    BY <2>1, <2>2, <1>3
<1> HIDE DEF new
<1>6. /\ row \in Fields /\ row.sla = new
      /\ row.stage = rows[i].stage /\ row.sub = rows[i].sub /\ row.refs = rows[i].refs
      /\ row.pri = rows[i].pri /\ row.dated = rows[i].dated
      /\ row.closed = rows[i].closed /\ row.wrote = rows[i].wrote
  BY <1>2 DEF Fields
<1> HIDE DEF row
<1>7. Renewed(row, rows[i], KeyStage(rows, seq, i))
  BY <1>4, <1>5, <1>6 DEF Renewed
<1> QED
  BY <1>1, <1>4, <1>6, <1>7

(* Statuses reached or reset by a move follow the stage moved to.          *)
LEMMA ReachFollows ==
  ASSUME NEW row \in Fields, NEW stage \in Stages
  PROVE  /\ SlaReach(row, stage) \in Fields
         /\ SlaReach(row, stage).stage = row.stage /\ SlaReach(row, stage).sub = row.sub
         /\ SlaReach(row, stage).refs = row.refs /\ SlaReach(row, stage).pri = row.pri
         /\ SlaReach(row, stage).dated = row.dated /\ SlaReach(row, stage).closed = row.closed
         /\ SlaReach(row, stage).wrote = row.wrote
         /\ \A p \in Policies :
              /\ SlaReach(row, stage).sla[p] = "reached" => p.stage <= stage
              /\ SlaReach(row, stage).sla[p] = "ongoing" => p.stage > stage
<1> DEFINE new == [p \in Policies |->
             IF row.sla[p] = "none" THEN "none"
             ELSE IF p.stage <= stage THEN "reached" ELSE "ongoing"]
<1>1. SlaReach(row, stage) = [row EXCEPT !.sla = new]
  BY DEF SlaReach
<1>2. new \in [Policies -> {"none", "ongoing", "reached"}]
  OBVIOUS
<1>3. \A p \in Policies : p.stage \in Int
  BY HelpdeskAssumption DEF Stages, New, Cancelled
<1>4. stage \in Int
  BY DEF Stages, New, Cancelled
<1>5. \A p \in Policies : /\ new[p] = "reached" => p.stage <= stage
                          /\ new[p] = "ongoing" => p.stage > stage
  BY <1>3, <1>4
<1> HIDE DEF new
<1> QED
  BY <1>1, <1>2, <1>5 DEF Fields

(* A ticket follows its stage when its SLAs were found for it, and when    *)
(* they may have been found for another.                                   *)
FollowsOwn(row) == Follows(row, TRUE)
FollowsSome(row) == Follows(row, FALSE)

(* A row the base module wrote: a row, with the values given, the time of  *)
(* the write, and close_date and SLAs that follow its stage.               *)
LEMMA WrittenRow ==
  ASSUME NEW view \in Table, NEW seq, NEW vals, Partial(vals, References),
         now \in 0..MaxTime, NEW i \in TicketIds \cap Written(seq), view[i] # NoTicket,
         FollowsSome(view[i]), DOMAIN seq \subseteq Nat,
         \A j \in Written(seq) : j \in TicketIds /\ view[j] # NoTicket,
         CommitmentGiven(vals, view[i].stage),
         "dated" \in DOMAIN vals => view[i].stage = New
  PROVE  LET rows == BaseWrite(view, seq, vals)
             over == Overlay(vals, view[i])
         IN  /\ rows[i] \in Fields
             /\ rows[i].sub = over.sub /\ rows[i].refs = over.refs
             /\ rows[i].stage = over.stage
             /\ rows[i].wrote = now
             /\ FollowsSome(rows[i])
             /\ \/ "stage" \in DOMAIN vals
                \/ "pri" \in DOMAIN vals /\ KeyStage(rows, seq, i) = rows[i].stage
                \/ "pri" \notin DOMAIN vals /\ FollowsOwn(view[i])
                => FollowsOwn(rows[i])
<1> DEFINE plain == [j \in TicketIds |->
             IF j \notin Written(seq) THEN view[j]
             ELSE [Overlay(vals, view[j]) EXCEPT
                     !.wrote = now,
                     !.closed = IF "stage" \in DOMAIN vals THEN vals.stage \in Folded
                                ELSE view[j].closed]]
           applied == IF "pri" \in DOMAIN vals THEN SlaApply(plain, seq, TRUE) ELSE plain
           rows == BaseWrite(view, seq, vals)
           moved == "stage" \in DOMAIN vals
<1>1. rows = [j \in TicketIds |->
                IF j \in Written(seq) /\ "stage" \in DOMAIN vals
                THEN SlaReach(applied[j], vals.stage) ELSE applied[j]]
  BY DEF BaseWrite
<1>2. \A j \in Written(seq) : view[j] \in Fields
  BY DEF Table
<1>3. ASSUME NEW j \in Written(seq)
      PROVE  /\ plain[j] \in Fields
             /\ plain[j].stage = Overlay(vals, view[j]).stage
             /\ plain[j].sub = Overlay(vals, view[j]).sub
             /\ plain[j].refs = Overlay(vals, view[j]).refs
             /\ plain[j].pri = Overlay(vals, view[j]).pri
             /\ plain[j].dated = Overlay(vals, view[j]).dated
             /\ plain[j].sla = view[j].sla
             /\ plain[j].wrote = now
             /\ moved => (plain[j].closed <=> vals.stage \in Folded)
             /\ ~moved => (plain[j].closed <=> view[j].closed)
  <2>1. view[j] \in Fields
    BY <1>2
  <2>2. /\ Overlay(vals, view[j]) \in Fields
        /\ Overlay(vals, view[j]).sla = view[j].sla
    BY <2>1, OverlayTyped
  <2> DEFINE b == IF moved THEN vals.stage \in Folded ELSE view[j].closed
  <2>3. b \in BOOLEAN
    <3>1. CASE moved
      BY <3>1
    <3>2. CASE ~moved
      BY <3>2, <2>1 DEF Fields
    <3> QED
      BY <3>1, <3>2
  <2>4. plain[j] = [Overlay(vals, view[j]) EXCEPT !.wrote = now, !.closed = b]
    BY <1>3
  <2>5. /\ moved => (b <=> vals.stage \in Folded)
        /\ ~moved => (b <=> view[j].closed)
    OBVIOUS
  <2> HIDE DEF b, plain, moved
  <2>6. now \in 0..MaxTime
    OBVIOUS
  <2>7. /\ plain[j] \in Fields
        /\ plain[j].stage = Overlay(vals, view[j]).stage
        /\ plain[j].sub = Overlay(vals, view[j]).sub
        /\ plain[j].refs = Overlay(vals, view[j]).refs
        /\ plain[j].pri = Overlay(vals, view[j]).pri
        /\ plain[j].dated = Overlay(vals, view[j]).dated
        /\ plain[j].sla = Overlay(vals, view[j]).sla
        /\ plain[j].wrote = now
        /\ plain[j].closed = b
    BY <2>2, <2>3, <2>4, <2>6 DEF Fields
  <2> QED
    BY <2>2, <2>5, <2>7
<1>4. view[i] \in Fields
  BY <1>2
<1>5. \A p \in Policies : plain[i].sla[p] = "reached" => p.stage <= view[i].stage
  BY <1>3 DEF FollowsSome, FollowsOwn, Follows
<1> HIDE DEF plain
<1>6. plain[i] \in Fields
  BY <1>3
<1>7. ASSUME ~moved PROVE plain[i].stage = view[i].stage
  BY <1>3, <1>4, <1>7, OverlayTyped DEF Given
<1>8. ASSUME moved PROVE plain[i].stage = vals.stage /\ vals.stage \in Stages
  BY <1>3, <1>4, <1>8, OverlayTyped DEF Given, Partial
<1> HIDE DEF rows
<1>9. view[i].stage \in Stages /\ view[i].dated \in BOOLEAN
  BY <1>4 DEF Fields
<1>10. plain[i].stage = InProgress => plain[i].dated
  <2>1. view[i].stage = InProgress => view[i].dated
    BY DEF FollowsSome, FollowsOwn, Follows
  <2>2. plain[i].dated = Given(vals, "dated", view[i].dated)
    BY <1>3, <1>4, OverlayTyped
  <2>3. CASE moved
    BY <2>1, <2>2, <2>3, <1>8 DEF Given, CommitmentGiven, New, InProgress
  <2>4. CASE ~moved
    BY <2>1, <2>2, <2>4, <1>7 DEF Given, New, InProgress
  <2> QED
    BY <2>3, <2>4
<1>11. plain[i].closed <=> plain[i].stage \in Folded
  <2>1. CASE moved
    BY <2>1, <1>3, <1>8
  <2>2. CASE ~moved
    BY <2>2, <1>3, <1>7 DEF FollowsSome, FollowsOwn, Follows
  <2> QED
    BY <2>1, <2>2
<1> DEFINE again(j) == SlaApply(plain, seq, TRUE)[j]
<1>20. ASSUME NEW j \in Written(seq)
       PROVE  /\ again(j) \in Fields
              /\ again(j).stage = plain[j].stage /\ again(j).sub = plain[j].sub
              /\ again(j).refs = plain[j].refs /\ again(j).pri = plain[j].pri
              /\ again(j).dated = plain[j].dated /\ again(j).closed = plain[j].closed
              /\ again(j).wrote = plain[j].wrote
              /\ \A p \in Policies :
                   /\ again(j).sla[p] = "reached"
                        => p.stage <= again(j).stage \/ plain[j].sla[p] = "reached"
                   /\ KeyStage(plain, seq, j) = again(j).stage /\ again(j).sla[p] = "ongoing"
                        => p.stage > again(j).stage
  <2>1. j \in TicketIds \cap Written(seq) /\ plain[j] \in Fields
    BY <1>3, <1>20
  <2>2. Renewed(again(j), plain[j], KeyStage(plain, seq, j))
    BY <2>1, KeptFollows
  <2> HIDE DEF again
  <2> QED
    BY <2>2 DEF Renewed
<1> HIDE DEF again
<1>12. /\ applied[i] \in Fields
       /\ applied[i].stage = plain[i].stage /\ applied[i].sub = plain[i].sub
       /\ applied[i].refs = plain[i].refs /\ applied[i].dated = plain[i].dated
       /\ applied[i].closed = plain[i].closed /\ applied[i].wrote = plain[i].wrote
  <2>1. CASE "pri" \in DOMAIN vals
    <3>1. applied[i] = again(i)
      BY <2>1 DEF again
    <3> HIDE DEF applied
    <3> QED
      BY <3>1, <1>20
  <2>2. CASE "pri" \notin DOMAIN vals
    BY <2>2, <1>6
  <2> QED
    BY <2>1, <2>2
<1>13. ASSUME moved
       PROVE  /\ rows[i] \in Fields
              /\ rows[i].stage = plain[i].stage /\ rows[i].sub = plain[i].sub
              /\ rows[i].refs = plain[i].refs /\ rows[i].dated = plain[i].dated
              /\ rows[i].closed = plain[i].closed /\ rows[i].wrote = plain[i].wrote
              /\ \A p \in Policies : /\ rows[i].sla[p] = "reached" => p.stage <= plain[i].stage
                                     /\ rows[i].sla[p] = "ongoing" => p.stage > plain[i].stage
  <2>1. rows[i] = SlaReach(applied[i], vals.stage)
    BY <1>1, <1>13
  <2> HIDE DEF applied
  <2> QED
    BY <2>1, <1>8, <1>12, <1>13, ReachFollows
<1>14. ASSUME ~moved
       PROVE  /\ rows[i] = applied[i]
              /\ \A p \in Policies : rows[i].sla[p] = "reached" => p.stage <= plain[i].stage
  <2>1. rows[i] = applied[i]
    BY <1>1, <1>14
  <2>2. \A p \in Policies : plain[i].sla[p] = "reached" => p.stage <= plain[i].stage
    BY <1>5, <1>7, <1>14
  <2>3. CASE "pri" \in DOMAIN vals
    <3>1. rows[i] = again(i)
      BY <2>1, <2>3 DEF again
    <3>2. again(i).stage = plain[i].stage
      BY <1>20
    <3>3. \A p \in Policies : again(i).sla[p] = "reached"
                               => p.stage <= again(i).stage \/ plain[i].sla[p] = "reached"
      BY <1>20
    <3> HIDE DEF applied
    <3> QED
      BY <2>1, <2>2, <3>1, <3>2, <3>3
  <2>4. CASE "pri" \notin DOMAIN vals
    BY <2>1, <2>2, <2>4
  <2> QED
    BY <2>3, <2>4
<1>15. ASSUME ~moved, "pri" \in DOMAIN vals, KeyStage(rows, seq, i) = rows[i].stage,
              NEW p \in Policies, rows[i].sla[p] = "ongoing"
       PROVE  p.stage > rows[i].stage
  <2>1. \A j \in Written(seq) : rows[j] = again(j)
    BY <1>1, <1>15 DEF again
  <2>2. \A j \in Written(seq) : rows[j].pri = plain[j].pri /\ rows[j].stage = plain[j].stage
    BY <2>1, <1>20
  <2>3. KeyStage(rows, seq, i) = KeyStage(plain, seq, i)
    BY <2>2, KeyStageSame
  <2>4. KeyStage(plain, seq, i) = again(i).stage
    BY <2>1, <2>3, <1>15
  <2>5. KeyStage(plain, seq, i) = again(i).stage /\ again(i).sla[p] = "ongoing"
          => p.stage > again(i).stage
    BY <1>20, <1>15
  <2> QED
    BY <2>1, <2>4, <2>5, <1>15
<1>16. ASSUME ~moved, "pri" \notin DOMAIN vals, FollowsOwn(view[i]), NEW p \in Policies, rows[i].sla[p] = "ongoing"
       PROVE  p.stage > rows[i].stage
  <2>1. rows[i] = plain[i]
    BY <1>14, <1>16
  <2>2. view[i].sla[p] = "ongoing" => p.stage > view[i].stage
    BY <1>16 DEF FollowsSome, FollowsOwn, Follows
  <2> QED
    BY <2>1, <2>2, <1>3, <1>7, <1>16
<1>17. /\ rows[i] \in Fields
       /\ rows[i].stage = plain[i].stage /\ rows[i].sub = plain[i].sub
       /\ rows[i].refs = plain[i].refs /\ rows[i].dated = plain[i].dated
       /\ rows[i].closed = plain[i].closed /\ rows[i].wrote = plain[i].wrote
  <2>1. CASE moved
    BY <2>1, <1>13
  <2>2. CASE ~moved
    <3>1. rows[i] = applied[i]
      BY <2>2, <1>14
    <3> HIDE DEF applied
    <3> QED
      BY <3>1, <1>12
  <2> QED
    BY <2>1, <2>2
<1>18. /\ FollowsSome(rows[i])
       /\ \/ moved
          \/ "pri" \in DOMAIN vals /\ KeyStage(rows, seq, i) = rows[i].stage
          \/ "pri" \notin DOMAIN vals /\ FollowsOwn(view[i])
          => FollowsOwn(rows[i])
  <2>1. rows[i].closed <=> rows[i].stage \in Folded
    BY <1>11, <1>17
  <2>2. rows[i].stage = InProgress => rows[i].dated
    BY <1>10, <1>17
  <2>3. \A p \in Policies : rows[i].sla[p] = "reached" => p.stage <= rows[i].stage
    BY <1>13, <1>14, <1>17
  <2>4. FollowsSome(rows[i])
    BY <2>1, <2>2, <2>3 DEF FollowsSome, FollowsOwn, Follows
  <2>5. (\A p \in Policies : rows[i].sla[p] = "ongoing" => p.stage > rows[i].stage)
          => FollowsOwn(rows[i])
    BY <2>1, <2>2, <2>3 DEF FollowsSome, FollowsOwn, Follows
  <2>6. ASSUME moved PROVE FollowsOwn(rows[i])
    BY <2>5, <2>6, <1>13, <1>17
  <2>7. ASSUME ~moved, "pri" \in DOMAIN vals, KeyStage(rows, seq, i) = rows[i].stage
        PROVE  FollowsOwn(rows[i])
    BY <2>5, <2>7, <1>15
  <2>8. ASSUME ~moved, "pri" \notin DOMAIN vals, FollowsOwn(view[i])
        PROVE  FollowsOwn(rows[i])
    BY <2>5, <2>8, <1>16
  <2> HIDE DEF moved
  <2> QED
    BY <2>4, <2>6, <2>7, <2>8
<1>19. rows[i].stage = Overlay(vals, view[i]).stage /\ rows[i].sub = Overlay(vals, view[i]).sub
       /\ rows[i].refs = Overlay(vals, view[i]).refs /\ rows[i].wrote = now
  BY <1>3, <1>17
<1> QED
  BY <1>17, <1>18, <1>19 DEF rows


(* A created row: a row, with the values given and the SLAs found.         *)
LEMMA CreatedRow ==
  ASSUME NEW old \in Table, NEW seq, NEW list, DOMAIN seq \subseteq Nat,
         Written(seq) \subseteq TicketIds, now \in 0..MaxTime,
         \A n \in DOMAIN seq :
           /\ Partial(list[n], References)
           /\ DOMAIN list[n] = {"stage", "sub", "refs", "pri", "dated"}
           /\ CommitmentGiven(list[n], NoStage),
         NEW i \in Written(seq)
  PROVE  LET rows == BaseCreate(old, seq, list)
         IN  /\ rows[i] \in Fields
             /\ \E n \in DOMAIN seq : /\ seq[n] = i
                                      /\ rows[i].sub = list[n].sub /\ rows[i].refs = list[n].refs
             /\ Follows(rows[i], KeyStage(rows, seq, i) = rows[i].stage)
<1> DEFINE row(n) == [stage |-> list[n].stage, sub |-> list[n].sub, refs |-> list[n].refs,
                      pri |-> list[n].pri, dated |-> list[n].dated,
                      closed |-> list[n].stage \in Folded, wrote |-> now,
                      sla |-> [p \in Policies |-> "none"]]
           at(j) == CHOOSE n \in DOMAIN seq : seq[n] = j
           plain == [j \in TicketIds |-> IF j \in Written(seq) THEN row(at(j)) ELSE old[j]]
           rows  == BaseCreate(old, seq, list)
<1>1. rows = SlaApply(plain, seq, FALSE)
  BY DEF BaseCreate
<1>2. ASSUME NEW j \in Written(seq)
      PROVE  at(j) \in DOMAIN seq /\ seq[at(j)] = j /\ plain[j] = row(at(j))
  BY <1>2 DEF Written
<1>3. ASSUME NEW n \in DOMAIN seq
      PROVE  /\ row(n) \in Fields
             /\ row(n).stage = InProgress => row(n).dated
             /\ \A p \in Policies : row(n).sla[p] = "none"
  <2>1. /\ list[n].stage \in Stages /\ list[n].sub \in Subcategories
        /\ list[n].refs \subseteq References /\ list[n].pri \in Priorities
        /\ list[n].dated \in BOOLEAN
    BY <1>3 DEF Partial
  <2>2. row(n) \in Fields
    BY <2>1 DEF Fields
  <2>3. list[n].stage = InProgress => list[n].dated
    BY <1>3 DEF CommitmentGiven, NoStage, InProgress
  <2> QED
    BY <2>2, <2>3
<1>4. ASSUME NEW j \in Written(seq)
      PROVE  Renewed(rows[j], plain[j], KeyStage(plain, seq, j))
  <2>1. plain[j] \in Fields
    <3>1. at(j) \in DOMAIN seq /\ plain[j] = row(at(j))
      BY <1>2
    <3> HIDE DEF at, row, plain
    <3> QED
      BY <3>1, <1>3
  <2>2. j \in TicketIds \cap Written(seq)
    OBVIOUS
  <2> HIDE DEF plain
  <2> QED
    BY <1>1, <2>1, <2>2, AnewFollows
<1>5. \A p \in Policies : rows[i].sla[p] = "reached" => p.stage <= plain[i].stage
  <2>1. plain[i] \in Fields /\ i \in TicketIds \cap Written(seq)
    <3>1. at(i) \in DOMAIN seq /\ plain[i] = row(at(i))
      BY <1>2
    <3> HIDE DEF at, row, plain
    <3> QED
      BY <3>1, <1>3
  <2> HIDE DEF plain
  <2> QED
    BY <1>1, <2>1, AnewFollows
<1> DEFINE m == at(i)
<1>6. /\ m \in DOMAIN seq /\ seq[m] = i
      /\ plain[i].stage = list[m].stage /\ plain[i].sub = list[m].sub
      /\ plain[i].refs = list[m].refs /\ plain[i].dated = list[m].dated
      /\ plain[i].closed <=> list[m].stage \in Folded
      /\ plain[i].stage = InProgress => plain[i].dated
  BY <1>2, <1>3
<1> HIDE DEF rows, plain, m
<1>7. KeyStage(rows, seq, i) = KeyStage(plain, seq, i)
  <2>1. \A j \in Written(seq) : rows[j].pri = plain[j].pri /\ rows[j].stage = plain[j].stage
    BY <1>4 DEF Renewed
  <2> QED
    BY <2>1, KeyStageSame
<1>8. Follows(rows[i], KeyStage(rows, seq, i) = rows[i].stage)
  <2>1. /\ rows[i].stage = plain[i].stage /\ rows[i].closed = plain[i].closed
        /\ rows[i].dated = plain[i].dated
    BY <1>4 DEF Renewed
  <2>2. rows[i].closed <=> rows[i].stage \in Folded
    BY <2>1, <1>6
  <2>3. rows[i].stage = InProgress => rows[i].dated
    BY <2>1, <1>6
  <2>4. \A p \in Policies : rows[i].sla[p] = "reached" => p.stage <= rows[i].stage
    BY <2>1, <1>5
  <2>5. \A p \in Policies : KeyStage(rows, seq, i) = rows[i].stage /\ rows[i].sla[p] = "ongoing"
                              => p.stage > rows[i].stage
    BY <1>4, <1>7 DEF Renewed
  <2> QED
    BY <2>2, <2>3, <2>4, <2>5 DEF FollowsSome, FollowsOwn, Follows
<1>9. rows[i] \in Fields /\ rows[i].sub = list[m].sub /\ rows[i].refs = list[m].refs
  BY <1>4, <1>6 DEF Renewed
<1> QED
  BY <1>6, <1>8, <1>9 DEF rows

-----------------------------------------------------------------------------
(***************************************************************************)
(* Transactions.  A view shows the committed row of every ticket that      *)
(* nobody wrote since the view was taken.                                  *)
(***************************************************************************)
ViewsCurrent ==
  \A s \in All : txn[s] # NoTxn =>
    \A i \in TicketIds \ txn[s].others : txn[s].rows[i] = tickets[i]

(* The rows of a view, or of the tickets, never say two things: what a     *)
(* session works on is a view, current where it was not written since.     *)
LEMMA ViewOfCurrent ==
  ASSUME HelpdeskTypeOK, ViewsCurrent, NEW s \in All
  PROVE  /\ ViewOf(s) \in View
         /\ \A i \in TicketIds \ ViewOf(s).others : ViewOf(s).rows[i] = tickets[i]
<1>1. CASE txn[s] = NoTxn
  <2>1. ViewOf(s) = [rows |-> tickets, others |-> {}, due |-> {}]
    BY <1>1 DEF ViewOf, Snapshot
  <2> QED
    BY <2>1 DEF View, HelpdeskTypeOK
<1>2. CASE txn[s] # NoTxn
  <2>1. ViewOf(s) = txn[s]
    BY <1>2 DEF ViewOf
  <2> QED
    BY <1>2, <2>1 DEF HelpdeskTypeOK, ViewsCurrent, All
<1> QED
  BY <1>1, <1>2

(* Two pairs of ids and how an unordered pair is counted.                  *)
LEMMA PairOfTwo ==
  ASSUME NEW i, NEW j, i # j
  PROVE  Cardinality({i, j}) = 2
<1>1. IsFiniteSet({j}) /\ Cardinality({j}) = 1
  BY FS_Singleton
<1>2. Cardinality({j} \cup {i}) = 2
  BY <1>1, FS_AddElement
<1>3. {j} \cup {i} = {i, j}
  OBVIOUS
<1> QED
  BY <1>2, <1>3

(* A commit of well-typed rows keeps the tickets typed and the views       *)
(* current; it closes its own transaction and tells the others.            *)
LEMMA CommitKeeps ==
  ASSUME HelpdeskTypeOK, ViewsCurrent, NEW s \in All, NEW seq, NEW rows,
         Written(seq) \subseteq TicketIds, \A i \in Written(seq) : rows[i] \in Fields,
         Commit(s, seq, rows)
  PROVE  /\ tickets' \in Table
         /\ txn' \in [All -> View \cup {NoTxn}]
         /\ overlapped' \subseteq SUBSET TicketIds
         /\ ViewsCurrent'
         /\ \A i \in TicketIds : tickets[i] # NoTicket => tickets'[i] # NoTicket
         /\ \A i \in Written(seq) : tickets'[i] # NoTicket
         /\ \A i \in Written(seq) : tickets'[i] = rows[i]
         /\ \A i \in TicketIds \ Written(seq) : tickets'[i] = tickets[i]
         /\ \A x \in All \ {s} : txn[x] # NoTxn => txn'[x] # NoTxn
         /\ \A x \in All : txn'[x] # NoTxn => /\ txn[x] # NoTxn /\ x # s
                                              /\ txn'[x].rows = txn[x].rows
                                              /\ txn'[x].due = txn[x].due
<1> DEFINE mine == Written(seq)
           seen == mine \cup ViewOf(s).others
<1>1. tickets' = [i \in TicketIds |-> IF i \in mine THEN rows[i] ELSE tickets[i]]
  BY DEF Commit
<1>2. txn' = [x \in DOMAIN txn |->
                IF x = s \/ txn[x] = NoTxn THEN NoTxn
                ELSE [txn[x] EXCEPT !.others = txn[x].others \cup mine]]
  BY DEF Commit
<1>3. tickets' \in Table
  BY <1>1 DEF Table, HelpdeskTypeOK
<1>4. ASSUME NEW x \in All
      PROVE  /\ txn'[x] \in View \cup {NoTxn}
             /\ x # s /\ txn[x] # NoTxn => txn'[x] # NoTxn
             /\ txn'[x] # NoTxn => /\ txn[x] # NoTxn /\ x # s
                                   /\ txn'[x].rows = txn[x].rows
                                   /\ txn'[x].due = txn[x].due
                                   /\ txn'[x].others = txn[x].others \cup mine
  <2>1. txn[x] \in View \cup {NoTxn} /\ x \in DOMAIN txn
    BY <1>4 DEF HelpdeskTypeOK, All
  <2>2. CASE x = s \/ txn[x] = NoTxn
    BY <1>2, <2>1, <2>2
  <2>3. CASE ~(x = s \/ txn[x] = NoTxn)
    <3>1. txn'[x] = [txn[x] EXCEPT !.others = txn[x].others \cup mine]
      BY <1>2, <2>1, <2>3
    <3>2. txn[x] \in View
      BY <2>1, <2>3
    <3> QED
      BY <2>3, <3>1, <3>2, HelpdeskAssumption DEF View
  <2> QED
    BY <2>2, <2>3
<1>5. txn' \in [All -> View \cup {NoTxn}]
  <2>1. DOMAIN txn = All
    BY DEF HelpdeskTypeOK, All
  <2> QED
    BY <2>1, <1>2, <1>4
<1>6. ViewOf(s).others \subseteq TicketIds
  BY ViewOfCurrent DEF View
<1>7. overlapped' \subseteq SUBSET TicketIds
  BY <1>6 DEF Commit, HelpdeskTypeOK
<1>8. \A i \in TicketIds \ mine : tickets'[i] = tickets[i]
  BY <1>1
<1>9. ViewsCurrent'
  <2>1. SUFFICES ASSUME NEW x \in All, txn'[x] # NoTxn, NEW i \in TicketIds \ txn'[x].others
                 PROVE  txn'[x].rows[i] = tickets'[i]
    BY DEF ViewsCurrent
  <2>2. txn[x] # NoTxn /\ txn'[x].rows = txn[x].rows /\ txn'[x].others = txn[x].others \cup mine
    BY <1>4, <2>1
  <2>3. i \in TicketIds \ mine /\ i \in TicketIds \ txn[x].others
    BY <2>1, <2>2
  <2>4. txn[x].rows[i] = tickets[i]
    BY <2>2, <2>3 DEF ViewsCurrent
  <2> QED
    BY <2>2, <2>3, <2>4, <1>8
<1>10. \A i \in mine : tickets'[i] = rows[i] /\ tickets'[i] # NoTicket
  BY <1>1, HelpdeskAssumption
<1>11. \A i \in TicketIds : tickets[i] # NoTicket => tickets'[i] # NoTicket
  BY <1>8, <1>10
<1> QED
  BY <1>3, <1>4, <1>5, <1>7, <1>8, <1>9, <1>10, <1>11

(* A commit of which every row was looked up in its view, and found no     *)
(* pending ticket of its order there, leaves every pending pair overlapped. *)
LEMMA CommitPairs ==
  ASSUME HelpdeskTypeOK, ViewsCurrent, PendingPairsOverlapped, NEW s \in All, NEW seq, NEW rows,
         Written(seq) \subseteq TicketIds, \A i \in Written(seq) : rows[i] \in Fields,
         \A i \in Written(seq) : FindDuplicatePending(ViewOf(s).rows, rows[i], {i}) = {},
         Commit(s, seq, rows)
  PROVE  PendingPairsOverlapped'
<1> DEFINE mine == Written(seq)
           seen == mine \cup ViewOf(s).others
<1>1. overlapped' = {pair \in overlapped : pair \cap mine = {}}
        \cup {pair \in SUBSET seen : Cardinality(pair) = 2 /\ pair \cap mine # {}}
  BY DEF Commit
<1>2. \A i \in TicketIds \ mine : tickets'[i] = tickets[i]
  BY CommitKeeps
<1>3. \A i \in mine : tickets'[i] = rows[i]
  BY CommitKeeps
<1>4. ASSUME NEW i \in mine, NEW j \in TicketIds, PendingPair(tickets', i, j)
      PROVE  {i, j} \in overlapped'
  <2>1. i # j
    BY <1>4 DEF PendingPair
  <2>2. CASE j \in seen
    <3>1. {i, j} \in SUBSET seen /\ {i, j} \cap mine # {}
      BY <1>4, <2>2
    <3> QED
      BY <1>1, <2>1, <3>1, PairOfTwo
  <2>3. CASE j \notin seen
    <3>1. tickets'[j] = tickets[j] /\ ViewOf(s).rows[j] = tickets[j]
      BY <1>2, <2>3, ViewOfCurrent
    <3>2. tickets'[i] = rows[i]
      BY <1>3, <1>4
    <3>3. j \in FindDuplicatePending(ViewOf(s).rows, rows[i], {i})
      BY <1>4, <2>1, <3>1, <3>2 DEF PendingPair, FindDuplicatePending
    <3> QED
      BY <1>4, <3>3
  <2> QED
    BY <2>2, <2>3
<1>5. ASSUME NEW i \in TicketIds \ mine, NEW j \in TicketIds \ mine, PendingPair(tickets', i, j)
      PROVE  {i, j} \in overlapped'
  <2>1. PendingPair(tickets, i, j)
    BY <1>2, <1>5 DEF PendingPair
  <2>2. {i, j} \in overlapped
    BY <2>1, <1>5 DEF PendingPairsOverlapped
  <2> QED
    BY <2>2, <1>1, <1>5
<1>6. \A i, j \in TicketIds : PendingPair(tickets', i, j) => PendingPair(tickets', j, i)
  BY DEF PendingPair
<1>7. \A i, j \in TicketIds : PendingPair(tickets', i, j) => {i, j} \in overlapped'
  <2>1. SUFFICES ASSUME NEW i \in TicketIds, NEW j \in TicketIds, PendingPair(tickets', i, j)
                 PROVE  {i, j} \in overlapped'
    OBVIOUS
  <2>2. CASE i \in mine
    BY <2>1, <2>2, <1>4
  <2>3. CASE j \in mine
    <3>1. {j, i} \in overlapped'
      BY <2>1, <2>3, <1>4, <1>6
    <3>2. {j, i} = {i, j}
      OBVIOUS
    <3> QED
      BY <3>1, <3>2
  <2>4. CASE i \notin mine /\ j \notin mine
    BY <2>1, <2>4, <1>5
  <2> QED
    BY <2>2, <2>3, <2>4
<1> QED
  BY <1>7 DEF PendingPairsOverlapped

(* A commit of rows that follow their stages leaves every ticket following *)
(* its own.                                                                *)
LEMMA CommitFollows ==
  ASSUME HelpdeskTypeOK, ViewsCurrent, TicketFollowsStage, NEW s \in All, NEW seq, NEW rows,
         Written(seq) \subseteq TicketIds, \A i \in Written(seq) : rows[i] \in Fields,
         \A i \in Written(seq) : /\ FollowsSome(rows[i])
                                 /\ i \notin mixed' => FollowsOwn(rows[i]),
         \A i \in TicketIds \ Written(seq) : i \in mixed' <=> i \in mixed,
         Commit(s, seq, rows)
  PROVE  TicketFollowsStage'
<1>1. \A i \in TicketIds \ Written(seq) : tickets'[i] = tickets[i]
  BY CommitKeeps
<1>2. \A i \in Written(seq) : tickets'[i] = rows[i]
  BY CommitKeeps
<1>3. SUFFICES ASSUME NEW i \in TicketIds, tickets'[i] # NoTicket
               PROVE  Follows(tickets'[i], i \notin mixed')
  BY DEF TicketFollowsStage, Exists
<1>4. CASE i \in Written(seq)
  <2>1. tickets'[i] = rows[i]
    BY <1>2, <1>4
  <2>2. FollowsSome(rows[i]) /\ (i \notin mixed' => FollowsOwn(rows[i]))
    BY <1>4
  <2> QED
    BY <2>1, <2>2 DEF FollowsSome, FollowsOwn, Follows
<1>5. CASE i \notin Written(seq)
  <2>1. tickets'[i] = tickets[i] /\ (i \in mixed' <=> i \in mixed)
    BY <1>1, <1>5
  <2>2. Follows(tickets[i], i \notin mixed)
    BY <1>3, <2>1 DEF TicketFollowsStage, Exists
  <2> QED
    BY <2>1, <2>2 DEF FollowsSome, FollowsOwn, Follows
<1> QED
  BY <1>4, <1>5

-----------------------------------------------------------------------------
(***************************************************************************)
(* Every step keeps the invariants.  What the cron is about to close was   *)
(* inactive in its view at some time up to now.                            *)
(***************************************************************************)
DueInactive ==
  txn[Cron] # NoTxn =>
    \A i \in txn[Cron].due : \E t \in 0..now : IsInactive(txn[Cron].rows[i], t)

HelpdeskInv ==
  /\ HelpdeskTypeOK
  /\ DueInactive
  /\ ViewsCurrent
  /\ TicketFollowsStage
  /\ PendingPairsOverlapped

(* A selection of one ticket or of two is a list of tickets.               *)
LEMMA Selections ==
  ASSUME NEW seq, (\E i \in TicketIds : seq = <<i>>) \/ seq \in Pairs
  PROVE  DOMAIN seq \subseteq Nat /\ Written(seq) \subseteq TicketIds
<1>1. CASE \E i \in TicketIds : seq = <<i>>
  <2>1. PICK i \in TicketIds : seq = <<i>>
    BY <1>1
  <2>2. DOMAIN seq = {1} /\ seq[1] = i
    BY <2>1
  <2> QED
    BY <2>2 DEF Written
<1>2. CASE seq \in Pairs
  BY <1>2 DEF Pairs, Written
<1> QED
  BY <1>1, <1>2

(* What write asks of a row before it writes it is what the row needs.     *)
LEMMA WriteRows ==
  ASSUME HelpdeskInv, NEW s \in All, NEW seq, NEW vals, Partial(vals, References),
         DOMAIN seq \subseteq Nat, Written(seq) \subseteq TicketIds,
         \A i \in Written(seq) : ViewOf(s).rows[i] # NoTicket /\ i \notin ViewOf(s).others,
         \A i \in Written(seq) :
           /\ LockedOutsideNew \cap DOMAIN vals # {} => ViewOf(s).rows[i].stage = New
           /\ FindDuplicatePending(ViewOf(s).rows, Overlay(vals, ViewOf(s).rows[i]), {i}) = {}
           /\ CommitmentGiven(vals, ViewOf(s).rows[i].stage),
         NEW i \in Written(seq)
  PROVE  LET rows == BaseWrite(ViewOf(s).rows, seq, vals)
         IN  /\ rows[i] \in Fields
             /\ FindDuplicatePending(ViewOf(s).rows, rows[i], {i}) = {}
             /\ FollowsSome(rows[i])
             /\ \/ "stage" \in DOMAIN vals
                \/ "pri" \in DOMAIN vals /\ KeyStage(rows, seq, i) = rows[i].stage
                \/ "pri" \notin DOMAIN vals /\ i \notin mixed
                => FollowsOwn(rows[i])
<1> DEFINE view == ViewOf(s).rows
           rows == BaseWrite(view, seq, vals)
<1>1. view \in Table
  BY ViewOfCurrent DEF HelpdeskInv, View
<1>2. view[i] = tickets[i] /\ view[i] # NoTicket
  BY ViewOfCurrent DEF HelpdeskInv
<1>3. FollowsSome(view[i]) /\ (i \notin mixed => FollowsOwn(view[i]))
  BY <1>2 DEF HelpdeskInv, TicketFollowsStage, Exists, FollowsSome, FollowsOwn, Follows
<1>4. "dated" \in DOMAIN vals => view[i].stage = New
  BY DEF LockedOutsideNew
<1>5. now \in 0..MaxTime
  BY DEF HelpdeskInv, HelpdeskTypeOK
<1>6. CommitmentGiven(vals, view[i].stage)
  OBVIOUS
<1>7. \A j \in Written(seq) : j \in TicketIds /\ view[j] # NoTicket
  OBVIOUS
<1>8. FindDuplicatePending(view, Overlay(vals, view[i]), {i}) = {}
  OBVIOUS
<1> HIDE DEF view
<1>9. /\ rows[i] \in Fields
      /\ rows[i].sub = Overlay(vals, view[i]).sub /\ rows[i].refs = Overlay(vals, view[i]).refs
      /\ FollowsSome(rows[i])
      /\ \/ "stage" \in DOMAIN vals
         \/ "pri" \in DOMAIN vals /\ KeyStage(rows, seq, i) = rows[i].stage
         \/ "pri" \notin DOMAIN vals /\ FollowsOwn(view[i])
         => FollowsOwn(rows[i])
  BY <1>1, <1>2, <1>3, <1>4, <1>5, <1>6, <1>7, WrittenRow
<1>10. FindDuplicatePending(view, rows[i], {i}) = {}
  BY <1>8, <1>9 DEF FindDuplicatePending
<1> QED
  BY <1>3, <1>9, <1>10 DEF view

(* The due tickets of the cron's view stay those it found.                 *)
LEMMA CommitKeepsDue ==
  ASSUME HelpdeskInv, NEW s \in All, NEW seq, NEW rows,
         Written(seq) \subseteq TicketIds, \A i \in Written(seq) : rows[i] \in Fields,
         Commit(s, seq, rows), now' = now
  PROVE  DueInactive'
<1>1. SUFFICES ASSUME txn'[Cron] # NoTxn, NEW i \in txn'[Cron].due
               PROVE  \E t \in 0..now : IsInactive(txn'[Cron].rows[i], t)
  BY DEF DueInactive
<1>2. /\ txn[Cron] # NoTxn /\ txn'[Cron].rows = txn[Cron].rows
      /\ txn'[Cron].due = txn[Cron].due
  BY <1>1, CommitKeeps DEF HelpdeskInv, All
<1> QED
  BY <1>1, <1>2 DEF HelpdeskInv, DueInactive

LEMMA WriteKeeps ==
  ASSUME HelpdeskInv, NEW s \in Sessions, NEW raw \in FormVals \cup MassVals, NEW seq,
         (\E i \in TicketIds : seq = <<i>>) \/ seq \in Pairs, Write(s, seq, raw)
  PROVE  HelpdeskInv' /\ (txn[Cron] # NoTxn => txn'[Cron] # NoTxn)
<1> DEFINE vals == NormalizeVals(raw)
           view == ViewOf(s).rows
           rows == BaseWrite(view, seq, vals)
<1>1. /\ \A i \in Written(seq) : view[i] # NoTicket /\ i \notin ViewOf(s).others
      /\ WriteAccepted(view, seq, vals)
      /\ Commit(s, seq, rows)
      /\ MayCall(s)
      /\ edits' = edits + 1
      /\ mixed' = IF {"stage", "pri"} \cap DOMAIN vals = {} THEN mixed
                  ELSE (mixed \ Written(seq)) \cup
                       {i \in Written(seq) : "stage" \notin DOMAIN vals
                                             /\ KeyStage(rows, seq, i) # rows[i].stage}
      /\ now' = now
  BY DEF Write
<1>2. DOMAIN seq \subseteq Nat /\ Written(seq) \subseteq TicketIds
  BY Selections
<1>3. Partial(vals, References)
  <2>1. WellFormed(vals)
    BY <1>1 DEF WriteAccepted
  <2> QED
    BY <2>1, FormPartial, NormalizedPartial
<1>4. s \in All
  BY DEF All
<1> HIDE DEF vals
<1>5. \A i \in Written(seq) :
        /\ LockedOutsideNew \cap DOMAIN vals # {} => view[i].stage = New
        /\ FindDuplicatePending(view, Overlay(vals, view[i]), {i}) = {}
        /\ CommitmentGiven(vals, view[i].stage)
  BY <1>1 DEF WriteAccepted
<1>6. ASSUME NEW i \in Written(seq)
      PROVE  /\ rows[i] \in Fields
             /\ FindDuplicatePending(view, rows[i], {i}) = {}
             /\ FollowsSome(rows[i])
             /\ \/ "stage" \in DOMAIN vals
                \/ "pri" \in DOMAIN vals /\ KeyStage(rows, seq, i) = rows[i].stage
                \/ "pri" \notin DOMAIN vals /\ i \notin mixed
                => FollowsOwn(rows[i])
  BY <1>1, <1>2, <1>3, <1>4, <1>5, <1>6, WriteRows
<1> HIDE DEF rows, view
<1>7. \A i \in Written(seq) : i \notin mixed' => FollowsOwn(rows[i])
  BY <1>1, <1>6
<1>8. \A i \in TicketIds \ Written(seq) : i \in mixed' <=> i \in mixed
  BY <1>1
<1>9. /\ tickets' \in Table
      /\ txn' \in [All -> View \cup {NoTxn}]
      /\ overlapped' \subseteq SUBSET TicketIds
      /\ ViewsCurrent'
      /\ \A i \in TicketIds : tickets[i] # NoTicket => tickets'[i] # NoTicket
      /\ \A i \in Written(seq) : tickets'[i] # NoTicket
      /\ \A x \in All \ {s} : txn[x] # NoTxn => txn'[x] # NoTxn
  BY <1>1, <1>2, <1>4, <1>6, CommitKeeps DEF HelpdeskInv
<1>10. mixed' \subseteq {i \in TicketIds : tickets'[i] # NoTicket}
  BY <1>1, <1>2, <1>9 DEF HelpdeskInv, HelpdeskTypeOK, Exists
<1>11. edits' \in 0..MaxEdits
  BY <1>1, HelpdeskAssumption DEF MayCall, HelpdeskInv, HelpdeskTypeOK
<1>12. HelpdeskTypeOK'
  BY <1>1, <1>9, <1>10, <1>11 DEF HelpdeskInv, HelpdeskTypeOK, Exists, All
<1>13. DueInactive'
  BY <1>1, <1>2, <1>4, <1>6, CommitKeepsDue
<1>14. TicketFollowsStage'
  BY <1>1, <1>2, <1>4, <1>6, <1>7, <1>8, CommitFollows DEF HelpdeskInv
<1>15. PendingPairsOverlapped'
  BY <1>1, <1>2, <1>4, <1>6, CommitPairs DEF HelpdeskInv, view
<1>16. Cron \in All \ {s}
  BY HelpdeskAssumption DEF All
<1> QED
  BY <1>9, <1>12, <1>13, <1>14, <1>15, <1>16 DEF HelpdeskInv

(* The ids a list of new tickets gets.                                     *)
LEMMA NextIdsTyped ==
  ASSUME NEW list \in Seq(NewVals)
  PROVE  DOMAIN NextIds(list) = DOMAIN list /\ DOMAIN list \subseteq Nat
BY DEF NextIds

LEMMA CreateKeeps ==
  ASSUME HelpdeskInv, NEW s \in Sessions, NEW list \in CreateBatches, Create(s, list)
  PROVE  HelpdeskInv' /\ (txn[Cron] # NoTxn => txn'[Cron] # NoTxn)
<1> DEFINE vals == [n \in DOMAIN list |-> NormalizeVals(list[n])]
           seq  == NextIds(list)
           view == ViewOf(s).rows
           rows == BaseCreate(view, seq, vals)
<1>1. /\ MayCall(s)
      /\ Written(seq) \subseteq TicketIds
      /\ CreateAccepted(view, vals)
      /\ Commit(s, seq, rows)
      /\ edits' = edits + 1
      /\ mixed' = mixed \cup {i \in Written(seq) : KeyStage(rows, seq, i) # rows[i].stage}
      /\ now' = now
  BY DEF Create
<1>2. list \in Seq(NewVals)
  BY HelpdeskAssumption
<1>3. DOMAIN seq = DOMAIN vals /\ DOMAIN seq \subseteq Nat
  BY <1>2, NextIdsTyped DEF HelpdeskInv
<1>4. ASSUME NEW n \in DOMAIN seq
      PROVE  /\ Partial(vals[n], References)
             /\ DOMAIN vals[n] = {"stage", "sub", "refs", "pri", "dated"}
             /\ CommitmentGiven(vals[n], NoStage)
             /\ FindDuplicatePending(view, vals[n], {}) = {}
  <2>1. n \in DOMAIN list /\ list[n] \in NewVals /\ vals[n] = NormalizeVals(list[n])
    BY <1>2, <1>3, <1>4
  <2>2. Partial(list[n], Typed) /\ DOMAIN list[n] = {"stage", "sub", "refs", "pri", "dated"}
    BY <2>1 DEF Partial, NewVals
  <2>3. /\ WellFormed(vals[n]) /\ CommitmentGiven(vals[n], NoStage)
        /\ FindDuplicatePending(view, vals[n], {}) = {}
    BY <1>1, <1>3, <1>4 DEF CreateAccepted
  <2> QED
    BY <2>1, <2>2, <2>3, NormalizedPartial
<1>5. s \in All
  BY DEF All
<1>6. view \in Table
  BY <1>5, ViewOfCurrent DEF HelpdeskInv, View
<1>7. now \in 0..MaxTime
  BY DEF HelpdeskInv, HelpdeskTypeOK
<1> HIDE DEF vals, seq, view
<1>8. ASSUME NEW i \in Written(seq)
      PROVE  /\ rows[i] \in Fields
             /\ \E n \in DOMAIN seq : rows[i].sub = vals[n].sub /\ rows[i].refs = vals[n].refs
             /\ Follows(rows[i], KeyStage(rows, seq, i) = rows[i].stage)
  BY <1>1, <1>3, <1>4, <1>6, <1>7, <1>8, CreatedRow
<1> HIDE DEF rows
<1>9. ASSUME NEW i \in Written(seq)
      PROVE  FindDuplicatePending(view, rows[i], {i}) = {}
  <2>1. PICK n \in DOMAIN seq : rows[i].sub = vals[n].sub /\ rows[i].refs = vals[n].refs
    BY <1>8, <1>9
  <2>2. FindDuplicatePending(view, vals[n], {}) = {}
    BY <1>4
  <2> QED
    BY <2>1, <2>2 DEF FindDuplicatePending
<1>10. ASSUME NEW i \in Written(seq)
       PROVE  FollowsSome(rows[i]) /\ (KeyStage(rows, seq, i) = rows[i].stage => FollowsOwn(rows[i]))
  BY <1>8, <1>10 DEF FollowsSome, FollowsOwn, Follows
<1>11. \A i \in Written(seq) : i \notin mixed' => FollowsOwn(rows[i])
  BY <1>1, <1>10
<1>12. \A i \in TicketIds \ Written(seq) : i \in mixed' <=> i \in mixed
  BY <1>1
<1>13. /\ tickets' \in Table
       /\ txn' \in [All -> View \cup {NoTxn}]
       /\ overlapped' \subseteq SUBSET TicketIds
       /\ ViewsCurrent'
       /\ \A i \in TicketIds : tickets[i] # NoTicket => tickets'[i] # NoTicket
       /\ \A i \in Written(seq) : tickets'[i] # NoTicket
       /\ \A x \in All \ {s} : txn[x] # NoTxn => txn'[x] # NoTxn
  BY <1>1, <1>5, <1>8, CommitKeeps DEF HelpdeskInv
<1>14. mixed' \subseteq {i \in TicketIds : tickets'[i] # NoTicket}
  BY <1>1, <1>13 DEF HelpdeskInv, HelpdeskTypeOK, Exists
<1>15. edits' \in 0..MaxEdits
  BY <1>1, HelpdeskAssumption DEF MayCall, HelpdeskInv, HelpdeskTypeOK
<1>16. HelpdeskTypeOK'
  BY <1>1, <1>13, <1>14, <1>15 DEF HelpdeskInv, HelpdeskTypeOK, Exists, All
<1>17. DueInactive'
  BY <1>1, <1>5, <1>8, CommitKeepsDue
<1>18. TicketFollowsStage'
  BY <1>1, <1>5, <1>8, <1>10, <1>11, <1>12, CommitFollows DEF HelpdeskInv
<1>19. PendingPairsOverlapped'
  BY <1>1, <1>5, <1>8, <1>9, CommitPairs DEF HelpdeskInv, view
<1>20. Cron \in All \ {s}
  BY HelpdeskAssumption DEF All
<1> QED
  BY <1>13, <1>16, <1>17, <1>18, <1>19, <1>20 DEF HelpdeskInv

(* The due tickets can be listed.                                          *)
LEMMA Listing ==
  ASSUME NEW S, IsFiniteSet(S)
  PROVE  LET seq == CHOOSE q \in [1..Cardinality(S) -> S] : Written(q) = S
         IN  seq \in [1..Cardinality(S) -> S] /\ Written(seq) = S
<1>1. \E q \in [1..Cardinality(S) -> S] : Written(q) = S
  <2>1. Cardinality(S) \in Nat /\ ExistsBijection(1..Cardinality(S), S)
    BY FS_CardinalityType
  <2>2. PICK q \in Bijection(1..Cardinality(S), S) : TRUE
    BY <2>1 DEF ExistsBijection
  <2>3. q \in [1..Cardinality(S) -> S] /\ \A x \in S : \E n \in 1..Cardinality(S) : q[n] = x
    BY <2>2 DEF Bijection, Surjection, Injection
  <2>4. Written(q) = S
    BY <2>3 DEF Written
  <2> QED
    BY <2>3, <2>4
<1> QED
  BY <1>1

LEMMA CronCloseKeeps ==
  ASSUME HelpdeskInv, CronClose
  PROVE  HelpdeskInv'
<1> DEFINE view == txn[Cron]
           vals == [stage |-> ClosingStage]
           seq  == CHOOSE q \in [1..Cardinality(view.due) -> view.due] : Written(q) = view.due
           rows == BaseWrite(view.rows, seq, vals)
<1>1. /\ view # NoTxn /\ now' = now /\ edits' = edits
      /\ \/ /\ \A i \in view.due : WriteAccepted(view.rows, <<i>>, vals)
            /\ view.due \cap view.others = {}
            /\ Commit(Cron, seq, rows)
            /\ mixed' = mixed \ view.due
         \/ txn' = [txn EXCEPT ![Cron] = NoTxn] /\ UNCHANGED <<tickets, overlapped, mixed>>
  BY DEF CronClose
<1>2. view \in View /\ view.due \subseteq TicketIds
  BY <1>1 DEF HelpdeskInv, HelpdeskTypeOK, View
<1>3. ASSUME txn' = [txn EXCEPT ![Cron] = NoTxn], UNCHANGED <<tickets, overlapped, mixed>>
      PROVE  HelpdeskInv'
  <2>1. \A x \in All : txn'[x] = txn[x] \/ txn'[x] = NoTxn
    BY <1>3 DEF HelpdeskInv, HelpdeskTypeOK, All
  <2>2. HelpdeskTypeOK'
    BY <1>1, <1>3 DEF HelpdeskInv, HelpdeskTypeOK, Exists
  <2>3. ViewsCurrent'
    BY <1>3, <2>1 DEF HelpdeskInv, ViewsCurrent
  <2>4. txn'[Cron] = NoTxn
    BY <1>3 DEF HelpdeskInv, HelpdeskTypeOK
  <2>5. DueInactive'
    BY <2>4 DEF DueInactive
  <2>6. TicketFollowsStage' /\ PendingPairsOverlapped'
    BY <1>3 DEF HelpdeskInv, TicketFollowsStage, PendingPairsOverlapped, Exists
  <2> QED
    BY <2>2, <2>3, <2>5, <2>6 DEF HelpdeskInv
<1>4. ASSUME \A i \in view.due : WriteAccepted(view.rows, <<i>>, vals),
             view.due \cap view.others = {},
             Commit(Cron, seq, rows),
             mixed' = mixed \ view.due
      PROVE  HelpdeskInv'
  <2>1. ViewOf(Cron) = view
    BY <1>1 DEF ViewOf
  <2>2. seq \in [1..Cardinality(view.due) -> view.due] /\ Written(seq) = view.due
    <3>1. IsFiniteSet(view.due)
      BY <1>2, FS_Subset, HelpdeskAssumption
    <3> HIDE DEF view
    <3> QED
      BY <3>1, Listing
  <2>3. DOMAIN seq \subseteq Nat
    <3>1. DOMAIN seq = 1..Cardinality(view.due)
      BY <2>2
    <3>2. 1..Cardinality(view.due) \subseteq Nat
      BY <1>2, FS_Subset, FS_CardinalityType, HelpdeskAssumption
    <3> QED
      BY <3>1, <3>2
  <2>4. ClosingStage \in Stages
    <3>1. Solved \in Folded /\ \A f \in Folded : Solved <= f
      BY DEF Folded, Solved, Cancelled
    <3>2. ClosingStage \in Folded
      BY <3>1 DEF ClosingStage
    <3> QED
      BY <3>2 DEF Folded, Solved, Cancelled, Stages, New
  <2>5. DOMAIN vals = {"stage"} /\ vals.stage = ClosingStage
    OBVIOUS
  <2>6. Partial(vals, References)
    BY <2>4, <2>5 DEF Partial
  <2>7. Cron \in All
    BY DEF All
  <2> HIDE DEF seq
  <2>8. \A i \in Written(seq) : view.rows[i] # NoTicket /\ i \notin view.others
    <3>1. \A i \in view.due : view.rows[i] # NoTicket
      BY <1>1 DEF HelpdeskInv, DueInactive, IsInactive
    <3> QED
      BY <3>1, <2>2, <1>4
  <2>9. \A i \in Written(seq) :
          /\ LockedOutsideNew \cap DOMAIN vals # {} => view.rows[i].stage = New
          /\ FindDuplicatePending(view.rows, Overlay(vals, view.rows[i]), {i}) = {}
          /\ CommitmentGiven(vals, view.rows[i].stage)
    <3>1. LockedOutsideNew \cap DOMAIN vals = {}
      BY <2>5 DEF LockedOutsideNew
    <3>2. SUFFICES ASSUME NEW i \in Written(seq)
                   PROVE  /\ FindDuplicatePending(view.rows, Overlay(vals, view.rows[i]), {i}) = {}
                          /\ CommitmentGiven(vals, view.rows[i].stage)
      BY <3>1
    <3>3. WriteAccepted(view.rows, <<i>>, vals) /\ i \in Written(<<i>>)
      BY <2>2, <1>4 DEF Written
    <3> QED
      BY <3>3 DEF WriteAccepted
  <2> HIDE DEF vals
  <2>10. ASSUME NEW i \in Written(seq)
         PROVE  /\ rows[i] \in Fields
                /\ FindDuplicatePending(view.rows, rows[i], {i}) = {}
                /\ FollowsSome(rows[i])
                /\ FollowsOwn(rows[i])
    <3>1. Written(seq) \subseteq TicketIds
      BY <1>2, <2>2
    <3>2. "stage" \in DOMAIN vals
      BY <2>5
    <3> QED
      BY <2>1, <2>3, <2>6, <2>7, <2>8, <2>9, <2>10, <3>1, <3>2, WriteRows
  <2> HIDE DEF rows
  <2>11. Written(seq) \subseteq TicketIds
    BY <1>2, <2>2
  <2>12. /\ tickets' \in Table
         /\ txn' \in [All -> View \cup {NoTxn}]
         /\ overlapped' \subseteq SUBSET TicketIds
         /\ ViewsCurrent'
         /\ \A i \in TicketIds : tickets[i] # NoTicket => tickets'[i] # NoTicket
    BY <1>4, <2>7, <2>10, <2>11, CommitKeeps DEF HelpdeskInv
  <2>13. mixed' \subseteq {i \in TicketIds : tickets'[i] # NoTicket}
    BY <1>4, <2>12 DEF HelpdeskInv, HelpdeskTypeOK, Exists
  <2>14. HelpdeskTypeOK'
    BY <1>1, <2>12, <2>13 DEF HelpdeskInv, HelpdeskTypeOK, Exists, All
  <2>15. DueInactive'
    BY <1>1, <1>4, <2>7, <2>10, <2>11, CommitKeepsDue
  <2>16. \A i \in TicketIds \ Written(seq) : i \in mixed' <=> i \in mixed
    BY <1>4, <2>2
  <2>17. TicketFollowsStage'
    BY <1>4, <2>7, <2>10, <2>11, <2>16, CommitFollows DEF HelpdeskInv
  <2>18. PendingPairsOverlapped'
    BY <1>4, <2>1, <2>7, <2>10, <2>11, CommitPairs DEF HelpdeskInv
  <2> QED
    BY <2>12, <2>14, <2>15, <2>17, <2>18 DEF HelpdeskInv
<1> QED
  BY <1>1, <1>3, <1>4

(* Opening a transaction, or giving one up, changes no ticket.             *)
LEMMA OpenKeeps ==
  ASSUME HelpdeskInv, NEW s \in All, NEW due \in SUBSET TicketIds,
         txn' = [txn EXCEPT ![s] = Snapshot(due)],
         s = Cron => \A i \in due : IsInactive(tickets[i], now),
         UNCHANGED <<tickets, now, edits, overlapped, mixed>>
  PROVE  HelpdeskInv'
<1>1. /\ Snapshot(due) \in View /\ Snapshot(due).rows = tickets
      /\ Snapshot(due).others = {} /\ Snapshot(due).due = due
  BY DEF Snapshot, View, HelpdeskInv, HelpdeskTypeOK
<1>2. \A x \in All : txn'[x] = IF x = s THEN Snapshot(due) ELSE txn[x]
  BY DEF HelpdeskInv, HelpdeskTypeOK, All
<1>3. HelpdeskTypeOK'
  BY <1>1 DEF HelpdeskInv, HelpdeskTypeOK, Exists
<1>4. ViewsCurrent'
  BY <1>1, <1>2 DEF HelpdeskInv, ViewsCurrent
<1>5. DueInactive'
  <2>1. CASE s = Cron
    <3>1. now \in 0..now
      BY DEF HelpdeskInv, HelpdeskTypeOK
    <3>2. txn'[Cron] = Snapshot(due)
      BY <1>2, <2>1
    <3> QED
      BY <1>1, <2>1, <3>1, <3>2 DEF DueInactive
  <2>2. CASE s # Cron
    <3>1. txn'[Cron] = txn[Cron]
      BY <1>2, <2>2 DEF All
    <3> QED
      BY <3>1 DEF HelpdeskInv, DueInactive
  <2> QED
    BY <2>1, <2>2
<1>6. TicketFollowsStage' /\ PendingPairsOverlapped'
  BY DEF HelpdeskInv, TicketFollowsStage, PendingPairsOverlapped, Exists
<1> QED
  BY <1>3, <1>4, <1>5, <1>6 DEF HelpdeskInv

LEMMA RollbackKeeps ==
  ASSUME HelpdeskInv, NEW s \in Sessions, Rollback(s)
  PROVE  HelpdeskInv'
<1>1. /\ txn' = [txn EXCEPT ![s] = NoTxn]
      /\ UNCHANGED <<tickets, now, edits, overlapped, mixed>>
  BY DEF Rollback
<1>2. \A x \in All : txn'[x] = txn[x] \/ txn'[x] = NoTxn
  BY <1>1 DEF HelpdeskInv, HelpdeskTypeOK, All
<1>3. HelpdeskTypeOK'
  BY <1>1 DEF HelpdeskInv, HelpdeskTypeOK, Exists
<1>4. ViewsCurrent'
  BY <1>1, <1>2 DEF HelpdeskInv, ViewsCurrent
<1>5. DueInactive'
  <2>1. txn'[Cron] = txn[Cron] \/ txn'[Cron] = NoTxn
    BY <1>2 DEF All
  <2> QED
    BY <1>1, <2>1 DEF HelpdeskInv, DueInactive
<1>6. TicketFollowsStage' /\ PendingPairsOverlapped'
  BY <1>1 DEF HelpdeskInv, TicketFollowsStage, PendingPairsOverlapped, Exists
<1> QED
  BY <1>3, <1>4, <1>5, <1>6 DEF HelpdeskInv

LEMMA TickKeeps ==
  ASSUME HelpdeskInv, Tick
  PROVE  HelpdeskInv'
<1>1. /\ now < MaxTime /\ now' = now + 1
      /\ UNCHANGED <<tickets, txn, edits, overlapped, mixed>>
  BY DEF Tick
<1>2. now \in Nat /\ 0..now \subseteq 0..now' /\ now' \in 0..MaxTime
  BY <1>1, HelpdeskAssumption DEF HelpdeskInv, HelpdeskTypeOK
<1>3. HelpdeskTypeOK'
  BY <1>1, <1>2 DEF HelpdeskInv, HelpdeskTypeOK, Exists
<1>4. DueInactive'
  BY <1>1, <1>2 DEF HelpdeskInv, DueInactive
<1>5. ViewsCurrent' /\ TicketFollowsStage' /\ PendingPairsOverlapped'
  BY <1>1 DEF HelpdeskInv, ViewsCurrent, TicketFollowsStage, PendingPairsOverlapped, Exists
<1> QED
  BY <1>3, <1>4, <1>5 DEF HelpdeskInv

LEMMA InitHolds ==
  ASSUME Init
  PROVE  HelpdeskInv
<1>1. tickets \in Table /\ mixed = {} /\ overlapped = {}
  BY HelpdeskAssumption DEF Init
<1>2. \A s \in All : txn[s] = NoTxn
  BY DEF Init, All
<1>3. HelpdeskTypeOK
  BY <1>1, HelpdeskAssumption DEF Init, HelpdeskTypeOK
<1>4. ViewsCurrent /\ DueInactive
  BY <1>2 DEF ViewsCurrent, DueInactive, All
<1>5. TicketFollowsStage
  <2>1. SUFFICES ASSUME NEW i \in TicketIds, tickets[i] # NoTicket
                 PROVE  Follows(tickets[i], i \notin mixed)
    BY DEF TicketFollowsStage, Exists
  <2>2. FollowsOwn(tickets[i])
    BY <2>1, HelpdeskAssumption DEF Init, FollowsOwn
  <2> QED
    BY <2>2, <1>1 DEF FollowsOwn, Follows
<1>6. PendingPairsOverlapped
  BY HelpdeskAssumption DEF Init, PendingPairsOverlapped
<1> QED
  BY <1>3, <1>4, <1>5, <1>6 DEF HelpdeskInv

LEMMA NextKeeps ==
  ASSUME HelpdeskInv, [Next]_vars
  PROVE  HelpdeskInv'
<1>1. ASSUME NEW s \in Sessions, Begin(s) PROVE HelpdeskInv'
  <2>1. s \in All /\ s # Cron /\ {} \in SUBSET TicketIds
    BY <1>1, HelpdeskAssumption DEF All
  <2> QED
    BY <1>1, <2>1, OpenKeeps DEF Begin
<1>2. ASSUME NEW s \in Sessions, Rollback(s) PROVE HelpdeskInv'
  BY <1>2, RollbackKeeps
<1>3. ASSUME NEW s \in Sessions, NEW list \in CreateBatches, Create(s, list) PROVE HelpdeskInv'
  BY <1>3, CreateKeeps
<1>4. ASSUME NEW s \in Sessions, NEW i \in TicketIds, NEW vals \in FormVals, Write(s, <<i>>, vals)
      PROVE  HelpdeskInv'
  BY <1>4, WriteKeeps
<1>5. ASSUME NEW s \in Sessions, NEW seq \in Pairs, NEW vals \in MassVals, Write(s, seq, vals)
      PROVE  HelpdeskInv'
  BY <1>5, WriteKeeps
<1>6. ASSUME CronBegin PROVE HelpdeskInv'
  <2>1. /\ InactiveTickets(tickets, now) \in SUBSET TicketIds
        /\ \A i \in InactiveTickets(tickets, now) : IsInactive(tickets[i], now)
    BY DEF InactiveTickets
  <2>2. Cron \in All
    BY DEF All
  <2> QED
    BY <1>6, <2>1, <2>2, OpenKeeps DEF CronBegin
<1>7. ASSUME CronClose PROVE HelpdeskInv'
  BY <1>7, CronCloseKeeps
<1>8. ASSUME Tick PROVE HelpdeskInv'
  BY <1>8, TickKeeps
<1>9. CASE UNCHANGED vars
  BY <1>9 DEF vars, HelpdeskInv, HelpdeskTypeOK, DueInactive, ViewsCurrent, TicketFollowsStage,
              PendingPairsOverlapped, Exists
<1> QED
  BY <1>1, <1>2, <1>3, <1>4, <1>5, <1>6, <1>7, <1>8, <1>9 DEF Next

LEMMA HelpdeskInvariant == Spec => []HelpdeskInv
<1>1. Init => HelpdeskInv
  BY InitHolds
<1>2. HelpdeskInv /\ [Next]_vars => HelpdeskInv'
  BY NextKeeps
<1> QED
  BY <1>1, <1>2, PTL DEF Spec

(* The tickets stay rows and the open transactions views of them, for any  *)
(* number of sessions, tickets, stages' policies and reference formats.    *)
THEOREM HelpdeskTyped == Spec => []HelpdeskTypeOK
<1>1. HelpdeskInv => HelpdeskTypeOK
  BY DEF HelpdeskInv
<1> QED
  BY <1>1, HelpdeskInvariant, PTL

(* What the base module keeps with a ticket follows its stage.             *)
THEOREM TicketsFollow == Spec => []TicketFollowsStage
<1>1. HelpdeskInv => TicketFollowsStage
  BY DEF HelpdeskInv
<1> QED
  BY <1>1, HelpdeskInvariant, PTL

(* Two pending tickets of one order come of transactions that did not see  *)
(* each other, or of one transaction.                                      *)
THEOREM PendingPairsOverlap == Spec => []PendingPairsOverlapped
<1>1. HelpdeskInv => PendingPairsOverlapped
  BY DEF HelpdeskInv
<1> QED
  BY <1>1, HelpdeskInvariant, PTL


-----------------------------------------------------------------------------
(***************************************************************************)
(* The weekday hours.  The sum over the days that                          *)
(* _get_weekday_hours_between makes is the number of ticks between that    *)
(* fall on weekdays.                                                       *)
(***************************************************************************)
WeekdayTicks(start, end) == {t \in start..(end - 1) : IsWeekday(DayOf(t))}

LEMMA DayBounds ==
  ASSUME NEW t \in Nat
  PROVE  DayOf(t) \in Nat /\ DayOf(t) * DayTicks <= t /\ t < (DayOf(t) + 1) * DayTicks
BY HelpdeskAssumption DEF DayOf

LEMMA DayIs ==
  ASSUME NEW t \in Nat, NEW day \in Nat, day * DayTicks <= t, t < (day + 1) * DayTicks
  PROVE  DayOf(t) = day
BY HelpdeskAssumption DEF DayOf

(* The ticks of a part of one day.                                         *)
LEMMA PartOfDay ==
  ASSUME NEW day \in Nat, NEW start \in Nat, NEW end \in Nat,
         day * DayTicks <= start, start <= end, end <= (day + 1) * DayTicks
  PROVE  /\ IsFiniteSet(WeekdayTicks(start, end))
         /\ Cardinality(WeekdayTicks(start, end)) = IF IsWeekday(day) THEN end - start ELSE 0
<1>1. \A t \in start..(end - 1) : DayOf(t) = day
  <2>1. SUFFICES ASSUME NEW t \in start..(end - 1)
                 PROVE  DayOf(t) = day
    OBVIOUS
  <2>2. t \in Nat /\ start <= t /\ t < end
    OBVIOUS
  <2>3. day * DayTicks \in Nat /\ (day + 1) * DayTicks \in Nat
    BY HelpdeskAssumption
  <2> QED
    BY <2>2, <2>3, DayIs
<1>2. CASE IsWeekday(day)
  <2>1. WeekdayTicks(start, end) = start..(end - 1)
    BY <1>1, <1>2 DEF WeekdayTicks
  <2>2. /\ IsFiniteSet(start..(end - 1))
        /\ Cardinality(start..(end - 1)) = IF start > end - 1 THEN 0 ELSE (end - 1) - start + 1
    <3>1. start \in Int /\ end - 1 \in Int
      OBVIOUS
    <3> HIDE DEF WeekdayTicks
    <3> QED
      BY ONLY <3>1, FS_Interval
  <2>3. Cardinality(start..(end - 1)) = end - start
    BY <2>2
  <2> QED
    BY <1>2, <2>1, <2>2, <2>3
<1>3. CASE ~IsWeekday(day)
  <2>1. WeekdayTicks(start, end) = {}
    BY <1>1, <1>3 DEF WeekdayTicks
  <2> QED
    BY <1>3, <2>1, FS_EmptySet
<1> QED
  BY <1>2, <1>3

(* Ticks up to a time and from it on.                                      *)
LEMMA TicksAddUp ==
  ASSUME NEW start \in Nat, NEW mid \in Nat, NEW end \in Nat, start <= mid, mid <= end
  PROVE  /\ IsFiniteSet(WeekdayTicks(start, end))
         /\ Cardinality(WeekdayTicks(start, end))
              = Cardinality(WeekdayTicks(start, mid)) + Cardinality(WeekdayTicks(mid, end))
<1>1. \A a, b \in Nat : IsFiniteSet(WeekdayTicks(a, b))
  <2>1. SUFFICES ASSUME NEW a \in Nat, NEW b \in Nat PROVE IsFiniteSet(WeekdayTicks(a, b))
    OBVIOUS
  <2>2. IsFiniteSet(a..(b - 1))
    BY FS_Interval
  <2> QED
    BY <2>2, FS_Subset DEF WeekdayTicks
<1>2. WeekdayTicks(start, end) = WeekdayTicks(start, mid) \cup WeekdayTicks(mid, end)
  BY DEF WeekdayTicks
<1>3. WeekdayTicks(start, mid) \cap WeekdayTicks(mid, end) = {}
  BY DEF WeekdayTicks
<1> DEFINE one == WeekdayTicks(start, mid)
           two == WeekdayTicks(mid, end)
<1>4. IsFiniteSet(one) /\ IsFiniteSet(two)
  BY <1>1
<1>5. Cardinality(one) \in Nat /\ Cardinality(two) \in Nat
  BY <1>4, FS_CardinalityType
<1>6. one \cap two = {}
  BY <1>3
<1> HIDE DEF one, two
<1>7. IsFiniteSet(one \cup two) /\ Cardinality(one \cup two) = Cardinality(one) + Cardinality(two) - 0
  BY <1>4, <1>6, FS_Union, FS_EmptySet
<1> QED
  BY <1>2, <1>5, <1>7 DEF one, two

LEMMA TimesGrow ==
  ASSUME NEW a \in Nat, NEW b \in Nat, NEW c \in Nat, a <= b
  PROVE  a * c <= b * c
OBVIOUS

(* The sum over the days up to one of them.                                *)
LEMMA HoursByDayCount ==
  ASSUME NEW start \in Nat, NEW end \in Nat, start < end
  PROVE  HoursByDay(start, end)[DayOf(end)] = Cardinality(WeekdayTicks(start, end))
<1> DEFINE first == DayOf(start)
           last  == DayOf(end)
           days  == first..last
           part(day) == IF IsWeekday(day) THEN DayEnd(day, end) - DayStart(day, start) ELSE 0
           upto(day) == Cardinality(WeekdayTicks(start, DayEnd(day, end)))
           total == HoursByDay(start, end)
           g == [day \in days |-> upto(day)]
<1>1. /\ first \in Nat /\ first * DayTicks <= start /\ start < (first + 1) * DayTicks
      /\ last \in Nat /\ last * DayTicks <= end /\ end < (last + 1) * DayTicks
  BY DayBounds
<1>2. first <= last
  <2>1. SUFFICES ASSUME last + 1 <= first PROVE FALSE
    BY <1>1
  <2>2. (last + 1) * DayTicks <= first * DayTicks
    BY <1>1, <2>1, HelpdeskAssumption
  <2>3. (last + 1) * DayTicks \in Nat /\ first * DayTicks \in Nat
    BY <1>1, HelpdeskAssumption
  <2> QED
    BY <1>1, <2>2, <2>3
<1>3. ASSUME NEW day \in days
      PROVE  upto(day) = (IF day = first THEN 0 ELSE upto(day - 1)) + part(day)
  <2>1. /\ day \in Nat /\ first <= day /\ day <= last
        /\ day * DayTicks \in Nat /\ (day + 1) * DayTicks \in Nat
        /\ day * DayTicks <= (day + 1) * DayTicks
    BY <1>1, <1>3, HelpdeskAssumption
  <2> DEFINE until == DayEnd(day, end)
  <2>2. until \in Nat /\ until <= (day + 1) * DayTicks /\ day * DayTicks <= until
    BY <1>1, <2>1 DEF DayEnd
  <2>3. CASE day = first
    <3>1. DayStart(day, start) = start
      BY <2>3 DEF DayStart
    <3>2. start <= until
      BY <1>1, <2>1, <2>3 DEF DayEnd
    <3> HIDE DEF until
    <3>3. Cardinality(WeekdayTicks(start, until)) = IF IsWeekday(day) THEN until - start ELSE 0
      BY <1>1, <2>1, <2>2, <2>3, <3>2, PartOfDay
    <3>4. (IF IsWeekday(day) THEN until - start ELSE 0) \in Int
      BY <2>2
    <3> QED
      BY <2>3, <3>1, <3>3, <3>4 DEF until
  <2>4. CASE day # first
    <3> DEFINE mid == day * DayTicks
    <3>1. DayStart(day, start) = mid
      BY <2>4 DEF DayStart
    <3>2. DayEnd(day - 1, end) = mid
      BY <1>1, <2>1 DEF DayEnd
    <3>3. start <= mid
      <4>1. first + 1 <= day
        BY <1>1, <2>1, <2>4
      <4>2. (first + 1) * DayTicks <= day * DayTicks
        <5>1. DayTicks \in Nat /\ first + 1 \in Nat /\ day \in Nat
          BY <1>1, <2>1, HelpdeskAssumption
        <5> HIDE DEF first
        <5> QED
          BY ONLY <4>1, <5>1, TimesGrow
      <4>3. (first + 1) * DayTicks \in Nat
        BY <1>1, HelpdeskAssumption
      <4> QED
        BY <4>2, <4>3, <1>1, <2>1
    <3>4. mid \in Nat /\ mid <= until
      BY <2>1, <2>2
    <3>5. mid <= mid /\ day * DayTicks <= mid
      BY <3>4
    <3> HIDE DEF until, mid
    <3>6. Cardinality(WeekdayTicks(start, until))
            = Cardinality(WeekdayTicks(start, mid)) + Cardinality(WeekdayTicks(mid, until))
      BY <2>2, <3>3, <3>4, TicksAddUp
    <3>7. Cardinality(WeekdayTicks(mid, until)) = IF IsWeekday(day) THEN until - mid ELSE 0
      BY <2>1, <2>2, <3>4, <3>5, PartOfDay
    <3> QED
      BY <2>4, <3>1, <3>2, <3>6, <3>7 DEF until
  <2> QED
    BY <2>3, <2>4
<1>4. total = CHOOSE h : h = [day \in days |-> (IF day = first THEN 0 ELSE h[day - 1]) + part(day)]
  BY DEF HoursByDay
<1>5. g = [day \in days |-> (IF day = first THEN 0 ELSE g[day - 1]) + part(day)]
  <2>1. \A day \in days : day # first => day - 1 \in days
    BY <1>1
  <2> HIDE DEF days, part, upto, first
  <2> QED
    BY <1>3, <2>1
<1>6. total = [day \in days |-> (IF day = first THEN 0 ELSE total[day - 1]) + part(day)]
  <2> HIDE DEF total, days, part, first, g
  <2> QED
    BY <1>4, <1>5
<1> HIDE DEF total
<1>7. \A day \in days : total[day] = (IF day = first THEN 0 ELSE total[day - 1]) + part(day)
  <2> HIDE DEF days, part, first
  <2> QED
    BY <1>6
<1>8. \A day \in days : total[day] = upto(day)
  <2> DEFINE wrong == {day \in days : total[day] # upto(day)}
  <2>1. SUFFICES ASSUME wrong # {} PROVE FALSE
    OBVIOUS
  <2>2. wrong \subseteq Nat
    BY <1>1
  <2>3. PICK day \in wrong : \A m \in wrong : day <= m
    <3> HIDE DEF wrong
    <3> QED
      BY <2>1, <2>2, LeastNat
  <2>4. day \in days /\ total[day] # upto(day)
    BY <2>3
  <2>5. day # first => day - 1 \in days /\ total[day - 1] = upto(day - 1)
    <3>1. day \in Nat /\ first <= day /\ day <= last
      BY <1>1, <2>4
    <3>2. day # first => day - 1 \in days
      BY <3>1, <1>1
    <3>3. day - 1 \notin wrong
      BY <2>3, <3>1
    <3> QED
      BY <3>2, <3>3
  <2> HIDE DEF days, part, upto, first, wrong
  <2> QED
    BY <1>3, <1>7, <2>4, <2>5
<1>9. last \in days /\ DayEnd(last, end) = end
  BY <1>1, <1>2 DEF DayEnd
<1> QED
  BY <1>8, <1>9 DEF total

(* The weekday hours never shrink as time passes, and are what the         *)
(* property counts.                                                        *)
LEMMA InactiveTicks ==
  ASSUME NEW row \in Fields, NEW at \in 0..MaxTime, NEW later \in at..MaxTime, IsInactive(row, at)
  PROVE  WeekdayTicksIn(row.wrote, later) >= CloseAfter
<1>1. /\ row.wrote \in 0..MaxTime /\ row.wrote <= at - CloseAfter
      /\ WeekdayHours[row.wrote][at] >= CloseAfter
  BY DEF IsInactive, Fields
<1>2. row.wrote \in Nat /\ at \in Nat /\ later \in Nat /\ row.wrote < at /\ at <= later
  BY <1>1, HelpdeskAssumption
<1>3. WeekdayHours[row.wrote][at] = HoursByDay(row.wrote, at)[DayOf(at)]
  BY <1>1, <1>2 DEF WeekdayHours
<1>4. HoursByDay(row.wrote, at)[DayOf(at)] = Cardinality(WeekdayTicks(row.wrote, at))
  BY <1>2, HoursByDayCount
<1>5. Cardinality(WeekdayTicks(row.wrote, later))
        = Cardinality(WeekdayTicks(row.wrote, at)) + Cardinality(WeekdayTicks(at, later))
  BY <1>2, TicksAddUp
<1>6. IsFiniteSet(WeekdayTicks(row.wrote, at)) /\ IsFiniteSet(WeekdayTicks(at, later))
  BY <1>2, TicksAddUp
<1>7. /\ Cardinality(WeekdayTicks(row.wrote, at)) \in Nat
      /\ Cardinality(WeekdayTicks(at, later)) \in Nat
  BY <1>6, FS_CardinalityType
<1>8. WeekdayTicksIn(row.wrote, later) = Cardinality(WeekdayTicks(row.wrote, later))
  BY DEF WeekdayTicksIn, WeekdayTicks
<1> QED
  BY <1>1, <1>3, <1>4, <1>5, <1>7, <1>8, HelpdeskAssumption


-----------------------------------------------------------------------------
(***************************************************************************)
(* What the cron closes.                                                   *)
(***************************************************************************)
CronCloseStep ==
  \A i \in TicketIds :
    /\ txn[Cron] # NoTxn /\ txn'[Cron] = NoTxn
    /\ tickets'[i] # tickets[i]
    => WeekdayTicksIn(tickets[i].wrote, now) >= CloseAfter

LEMMA CronCloses ==
  ASSUME HelpdeskInv, CronClose
  PROVE  CronCloseStep
<1>1. SUFFICES ASSUME NEW i \in TicketIds, txn[Cron] # NoTxn, tickets'[i] # tickets[i]
               PROVE  WeekdayTicksIn(tickets[i].wrote, now) >= CloseAfter
  BY DEF CronCloseStep
<1> DEFINE view == txn[Cron]
           seq  == CHOOSE q \in [1..Cardinality(view.due) -> view.due] : Written(q) = view.due
           rows == BaseWrite(view.rows, seq, [stage |-> ClosingStage])
<1>2. view.due \cap view.others = {} /\ Commit(Cron, seq, rows)
  BY <1>1 DEF CronClose
<1>3. view \in View
  BY <1>1 DEF HelpdeskInv, HelpdeskTypeOK
<1>4. Written(seq) = view.due
  <2>1. IsFiniteSet(view.due)
    BY <1>3, FS_Subset, HelpdeskAssumption DEF View
  <2> HIDE DEF view
  <2> QED
    BY <2>1, Listing
<1> HIDE DEF seq, rows
<1>5. i \in view.due
  <2>1. tickets' = [k \in TicketIds |-> IF k \in Written(seq) THEN rows[k] ELSE tickets[k]]
    BY <1>2 DEF Commit
  <2> QED
    BY <1>1, <1>4, <2>1
<1>6. view.rows[i] = tickets[i]
  <2>1. i \in TicketIds \ view.others
    BY <1>2, <1>5
  <2> QED
    BY <1>1, <2>1 DEF HelpdeskInv, ViewsCurrent, All
<1>7. PICK t \in 0..now : IsInactive(tickets[i], t)
  BY <1>1, <1>5, <1>6 DEF HelpdeskInv, DueInactive
<1>8. tickets[i] \in Fields
  BY <1>7 DEF IsInactive, HelpdeskInv, HelpdeskTypeOK, Table
<1>9. t \in 0..MaxTime /\ now \in t..MaxTime
  BY <1>7, HelpdeskAssumption DEF HelpdeskInv, HelpdeskTypeOK
<1> QED
  BY <1>7, <1>8, <1>9, InactiveTicks

LEMMA StepCloses ==
  ASSUME HelpdeskInv, [Next]_vars
  PROVE  [CronCloseStep]_vars
<1>1. ASSUME NEW s \in Sessions, Begin(s) PROVE txn'[Cron] = txn[Cron]
  <2>1. s # Cron
    BY HelpdeskAssumption
  <2> QED
    BY <1>1, <2>1 DEF Begin, HelpdeskInv, HelpdeskTypeOK
<1>2. ASSUME NEW s \in Sessions, Rollback(s) PROVE txn'[Cron] = txn[Cron]
  <2>1. s # Cron
    BY HelpdeskAssumption
  <2> QED
    BY <1>2, <2>1 DEF Rollback, HelpdeskInv, HelpdeskTypeOK
<1>3. ASSUME NEW s \in Sessions, NEW list \in CreateBatches, Create(s, list)
      PROVE  CronCloseStep
  <2>1. txn[Cron] # NoTxn => txn'[Cron] # NoTxn
    BY <1>3, CreateKeeps
  <2> QED
    BY <2>1 DEF CronCloseStep
<1>4. ASSUME NEW s \in Sessions, NEW raw \in FormVals \cup MassVals, NEW seq,
             (\E i \in TicketIds : seq = <<i>>) \/ seq \in Pairs, Write(s, seq, raw)
      PROVE  CronCloseStep
  <2>1. txn[Cron] # NoTxn => txn'[Cron] # NoTxn
    BY <1>4, WriteKeeps
  <2> QED
    BY <2>1 DEF CronCloseStep
<1>5. ASSUME CronBegin PROVE txn[Cron] = NoTxn
  BY <1>5 DEF CronBegin
<1>6. ASSUME CronClose PROVE CronCloseStep
  BY <1>6, CronCloses
<1>7. ASSUME Tick PROVE UNCHANGED tickets
  BY <1>7 DEF Tick
<1>8. txn'[Cron] = txn[Cron] \/ txn[Cron] = NoTxn \/ UNCHANGED tickets => CronCloseStep
  BY DEF CronCloseStep
<1>9. CASE UNCHANGED vars
  BY <1>9
<1> QED
  BY <1>1, <1>2, <1>3, <1>4, <1>5, <1>6, <1>7, <1>8, <1>9 DEF Next

(* The cron closes a ticket only if nobody wrote it for CloseAfter weekday *)
(* ticks by the committed row.                                             *)
THEOREM CronClosesInactive == Spec => CronClosesOnlyInactive
<1>1. HelpdeskInv /\ [Next]_vars => [CronCloseStep]_vars
  BY StepCloses
<1>2. Spec => [][CronCloseStep]_vars
  BY <1>1, HelpdeskInvariant, PTL DEF Spec
<1> QED
  BY <1>2 DEF CronClosesOnlyInactive, CronCloseStep
=============================================================================
