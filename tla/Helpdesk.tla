------------------------------ MODULE Helpdesk ------------------------------
(***************************************************************************)
(* helpdesk_custom_datos over helpdesk: the life of a helpdesk.ticket.     *)
(* create and write refuse a second pending ticket of an order, lock the   *)
(* custom fields outside "Nuevo", ask for a commitment date; the base      *)
(* module keeps close_date and the SLA statuses; an hourly cron closes     *)
(* what nobody wrote for 24 weekday hours.                                 *)
(*                                                                         *)
(* An Odoo transaction reads the snapshot it began with (REPEATABLE READ)  *)
(* and may not write a row another one wrote since.  A transaction is one call *)
(* of create or write, or nothing; one that nothing is committed beside is *)
(* one step, the others begin in a step of their own.                      *)
(***************************************************************************)
EXTENDS Integers, FiniteSets, Sequences

CONSTANTS
  Sessions,       \* users' sessions
  Interleaved,    \* bound: the sessions whose transactions others run into
  Cron,           \* the session of the cron
  TicketIds,      \* bound: the ids of helpdesk.ticket
  Subcategories,  \* x_subcategory_id
  NeedsReference, \* subcategories whose form requires a reference
  Typed,          \* what is typed into a reference field
  Normal,         \* what strip and upper make of it: a Reference, or a blank
  References,     \* order numbers, each with its group (pedido or ov)
  Blank, Malformed,
  Priorities,
  Policies,       \* helpdesk.sla: [stage, pri]
  FirstTickets,   \* bound: the tickets there already are
  CreateBatches,  \* the vals_lists given to create
  FormVals,       \* the vals given to write on one ticket
  MassVals,       \* the vals of the list's multiple edit
  DayTicks,       \* ticks in a day
  Weekend,        \* days that are no weekdays
  CloseAfter,     \* _AUTO_CLOSE_WEEKDAY_HOURS, in ticks
  MaxTime,        \* bound on the clock
  MaxEdits,       \* bound on the users' committed transactions
  NoTicket, NoTxn

(* The stages, by their sequence.                                          *)
New == 0
InProgress == 1
OnHold == 2
Solved == 3
Cancelled == 4
Stages == New..Cancelled
NoStage == -1
Folded == {Solved, Cancelled}

Fields == [stage : Stages, sub : Subcategories, refs : SUBSET References,
           pri : Priorities, dated : BOOLEAN, closed : BOOLEAN,
           sla : [Policies -> {"none", "ongoing", "reached"}], wrote : 0..MaxTime]

(* What a user gives with a new ticket, with its references as typed.      *)
NewVals == [stage : Stages, sub : Subcategories, refs : SUBSET Typed, pri : Priorities,
            dated : BOOLEAN]

Table == [TicketIds -> Fields \cup {NoTicket}]
View == [rows : Table, others : SUBSET TicketIds, due : SUBSET TicketIds]

(* A ticket agrees with its stage, own when its SLAs were found for that   *)
(* stage.                                                                  *)
Follows(row, own) ==
  /\ row.closed <=> row.stage \in Folded
  /\ row.stage = InProgress => row.dated
  /\ \A p \in Policies :
       /\ row.sla[p] = "reached" => p.stage <= row.stage
       /\ own /\ row.sla[p] = "ongoing" => p.stage > row.stage

(* Two tickets of which the second should have been refused.               *)
PendingPair(rows, i, j) ==
  /\ i # j /\ rows[i] # NoTicket /\ rows[j] # NoTicket
  /\ Cancelled \notin {rows[i].stage, rows[j].stage}
  /\ rows[i].sub = rows[j].sub /\ rows[i].refs \cap rows[j].refs # {}

ASSUME HelpdeskAssumption ==
  /\ TicketIds \subseteq Nat /\ IsFiniteSet(TicketIds)
  /\ Interleaved \subseteq Sessions /\ Cron \notin Sessions
  /\ CreateBatches \subseteq Seq(NewVals)
  /\ \A vals \in FormVals \cup MassVals : \E new \in NewVals :
       DOMAIN vals \subseteq DOMAIN new /\ \A f \in DOMAIN vals : vals[f] = new[f]
  /\ NeedsReference \subseteq Subcategories
  /\ Normal \in [Typed -> References \cup {Blank, Malformed}]
  /\ Policies \subseteq [stage : Stages, pri : Priorities]
  /\ DayTicks \in Nat \ {0} /\ CloseAfter \in Nat \ {0} /\ MaxTime \in Nat /\ MaxEdits \in Nat
  /\ NoTicket \notin Fields /\ NoTxn \notin View
  /\ FirstTickets \in Table
  /\ \A i \in TicketIds : FirstTickets[i] # NoTicket => Follows(FirstTickets[i], TRUE)
  /\ \A i, j \in TicketIds : ~PendingPair(FirstTickets, i, j)

VARIABLES
  tickets,    \* helpdesk.ticket as committed: id -> row, or NoTicket
  txn,        \* the open transactions: session -> its view, or NoTxn
  now,        \* the clock
  edits,      \* the users' committed transactions
  overlapped, \* history: pairs whose last writes did not see each other
  mixed       \* history: tickets given the SLAs found for another's stage

vars == <<tickets, txn, now, edits, overlapped, mixed>>

Written(seq) == {seq[n] : n \in DOMAIN seq}

(***************************************************************************)
(* The checks of helpdesk_custom_datos.                                    *)
(***************************************************************************)
Given(vals, f, old) == IF f \in DOMAIN vals THEN vals[f] ELSE old

(* A ticket with the values it is given.                                   *)
Overlay(vals, row) ==
  [row EXCEPT !.stage = Given(vals, "stage", @), !.sub = Given(vals, "sub", @),
              !.refs = Given(vals, "refs", @), !.pri = Given(vals, "pri", @),
              !.dated = Given(vals, "dated", @)]

(* Fault: what was typed is kept as it was.                                *)
NormalizeNothing(vals) == vals

(* _normalize_optional_ticket_format_vals                                  *)
NormalizeVals(vals) ==
  IF "refs" \in DOMAIN vals
  THEN [vals EXCEPT !.refs = {Normal[x] : x \in @} \ {Blank}] ELSE vals

(* _validate_optional_ticket_formats                                       *)
WellFormed(vals) == "refs" \in DOMAIN vals => Malformed \notin vals.refs

(* Fault: a ticket that was solved no longer counts.                       *)
FindOpenDuplicate(view, row, exclude) ==
  {i \in TicketIds \ exclude : /\ view[i] # NoTicket /\ view[i].stage \notin Folded
                               /\ view[i].sub = row.sub /\ view[i].refs \cap row.refs # {}}

(* _find_duplicate_pending_ticket: the tickets that are not cancelled, of  *)
(* the same subcategory, with a reference of the same group and number.    *)
FindDuplicatePending(view, row, exclude) ==
  {i \in TicketIds \ exclude : /\ view[i] # NoTicket /\ view[i].stage # Cancelled
                               /\ view[i].sub = row.sub /\ view[i].refs \cap row.refs # {}}

(* _validate_commitment_date_for_stage_change                              *)
CommitmentGiven(vals, from) ==
  "stage" \in DOMAIN vals /\ vals.stage = InProgress /\ from # InProgress
    => "dated" \in DOMAIN vals /\ vals.dated

(* _validate_required_view_fields, _check_dynamic_required_fields          *)
RequiredPresent(row) == row.sub \in NeedsReference => row.refs # {}

(* Fault: the stage is locked with the fields.                             *)
LockedWithStage == {"sub", "refs", "dated", "stage"}

(* _get_locked_fields_outside_new_stage: the x_ fields among those here.   *)
LockedOutsideNew == {"sub", "refs", "dated"}

(* write of helpdesk_custom_datos: what it asks before and after the base. *)
WriteAccepted(view, seq, vals) ==
  /\ LockedOutsideNew \cap DOMAIN vals # {} => \A i \in Written(seq) : view[i].stage = New
  /\ WellFormed(vals)
  /\ \A i \in Written(seq) :
       /\ FindDuplicatePending(view, Overlay(vals, view[i]), {i}) = {}
       /\ CommitmentGiven(vals, view[i].stage)
       /\ RequiredPresent(Overlay(vals, view[i]))

(* create of helpdesk_custom_datos: every vals of the list is validated    *)
(* before any of them is created.                                          *)
CreateAccepted(view, list) ==
  \A n \in DOMAIN list : /\ WellFormed(list[n])
                         /\ FindDuplicatePending(view, list[n], {}) = {}
                         /\ CommitmentGiven(list[n], NoStage)
                         /\ RequiredPresent(list[n])

(***************************************************************************)
(* What the base module keeps with a ticket.                               *)
(***************************************************************************)
(* _sla_find groups tickets by key, and the key has no stage: the SLAs of  *)
(* a group are those found for the stage of its first ticket.              *)
KeyStage(rows, seq, i) ==
  LET same == {n \in DOMAIN seq : rows[seq[n]].pri = rows[i].pri}
  IN  rows[seq[CHOOSE n \in same : \A m \in same : n <= m]].stage

SlaFind(rows, seq, i) ==
  {p \in Policies : p.pri = rows[i].pri /\ p.stage >= KeyStage(rows, seq, i)}

(* _sla_apply: the statuses of the tickets of seq made anew; with keep the *)
(* reached ones stay.                                                      *)
SlaApply(rows, seq, keep) ==
  [i \in TicketIds |->
     IF i \notin Written(seq) THEN rows[i]
     ELSE [rows[i] EXCEPT !.sla = [p \in Policies |->
            IF keep /\ rows[i].sla[p] = "reached" THEN "reached"
            ELSE IF p \notin SlaFind(rows, seq, i) THEN "none"
            ELSE IF p.stage = rows[i].stage THEN "reached" ELSE "ongoing"]]]

(* Fault: a status once reached stays reached.                             *)
SlaReachOnly(row, stage) ==
  [row EXCEPT !.sla = [p \in Policies |->
     IF @[p] = "ongoing" /\ p.stage <= stage THEN "reached" ELSE @[p]]]

(* _sla_reach: statuses up to the stage are reached, later ones are reset. *)
SlaReach(row, stage) ==
  [row EXCEPT !.sla = [p \in Policies |->
     IF row.sla[p] = "none" THEN "none" ELSE IF p.stage <= stage THEN "reached" ELSE "ongoing"]]

(* write of helpdesk: the values, close_date, then the SLA statuses.       *)
BaseWrite(view, seq, vals) ==
  LET plain == [i \in TicketIds |->
        IF i \notin Written(seq) THEN view[i]
        ELSE [Overlay(vals, view[i]) EXCEPT
                !.wrote = now,
                !.closed = IF "stage" \in DOMAIN vals THEN vals.stage \in Folded
                           ELSE view[i].closed]]
      applied == IF "pri" \in DOMAIN vals THEN SlaApply(plain, seq, TRUE) ELSE plain
  IN  [i \in TicketIds |->
        IF i \in Written(seq) /\ "stage" \in DOMAIN vals
        THEN SlaReach(applied[i], vals.stage) ELSE applied[i]]

(* create of helpdesk.                                                     *)
BaseCreate(rows, seq, list) ==
  LET row(n) == [stage |-> list[n].stage, sub |-> list[n].sub, refs |-> list[n].refs,
                 pri |-> list[n].pri, dated |-> list[n].dated,
                 closed |-> list[n].stage \in Folded, wrote |-> now,
                 sla |-> [p \in Policies |-> "none"]]
      plain == [i \in TicketIds |->
        IF i \in Written(seq) THEN row(CHOOSE n \in DOMAIN seq : seq[n] = i) ELSE rows[i]]
  IN  SlaApply(plain, seq, FALSE)

(***************************************************************************)
(* The weekday hours and the cron.                                         *)
(***************************************************************************)
DayOf(t) == t \div DayTicks
IsWeekday(day) == day \notin Weekend

(* Fault: the hours of the weekend count too.                              *)
CalendarHours ==
  [start \in 0..MaxTime |-> [end \in 0..MaxTime |-> IF end <= start THEN 0 ELSE end - start]]

(* _get_weekday_hours_between: day by day, to midnight or to the end.      *)
DayStart(day, start) == IF day = DayOf(start) THEN start ELSE day * DayTicks
DayEnd(day, end) == IF day = DayOf(end) THEN end ELSE (day + 1) * DayTicks

HoursByDay(start, end) ==
  LET total[day \in DayOf(start)..DayOf(end)] ==
        (IF day = DayOf(start) THEN 0 ELSE total[day - 1])
        + (IF IsWeekday(day) THEN DayEnd(day, end) - DayStart(day, start) ELSE 0)
  IN  total

WeekdayHours ==
  [start \in 0..MaxTime |-> [end \in 0..MaxTime |->
     IF end <= start THEN 0 ELSE HoursByDay(start, end)[DayOf(end)]]]

(* _get_auto_close_inactive_tickets                                        *)
IsInactive(row, at) ==
  /\ row # NoTicket /\ row.stage \notin Folded
  /\ row.wrote <= at - CloseAfter
  /\ WeekdayHours[row.wrote][at] >= CloseAfter

InactiveTickets(rows, at) == {i \in TicketIds : IsInactive(rows[i], at)}

(* _get_closing_stage: the first folded stage of the team.                 *)
ClosingStage == CHOOSE s \in Folded : \A f \in Folded : s <= f

(***************************************************************************)
(* Transactions.                                                           *)
(***************************************************************************)
Snapshot(due) == [rows |-> tickets, others |-> {}, due |-> due]

ViewOf(s) == IF txn[s] = NoTxn THEN Snapshot({}) ELSE txn[s]

(* Session s commits rows, in which it wrote the tickets of seq, none of   *)
(* which was written since its snapshot.                                   *)
Commit(s, seq, rows) ==
  LET mine == Written(seq)
      seen == mine \cup ViewOf(s).others
  IN  /\ tickets' = [i \in TicketIds |-> IF i \in mine THEN rows[i] ELSE tickets[i]]
      /\ txn' = [x \in DOMAIN txn |->
                   IF x = s \/ txn[x] = NoTxn THEN NoTxn
                   ELSE [txn[x] EXCEPT !.others = @ \cup mine]]
      /\ overlapped' = {pair \in overlapped : pair \cap mine = {}}
           \cup {pair \in SUBSET seen : Cardinality(pair) = 2 /\ pair \cap mine # {}}

Begin(s) ==
  /\ s \in Interleaved /\ txn[s] = NoTxn /\ edits < MaxEdits
  /\ txn' = [txn EXCEPT ![s] = Snapshot({})]
  /\ UNCHANGED <<tickets, now, edits, overlapped, mixed>>

(* Refused, a serialization failure, or a client gone: nothing is kept.    *)
Rollback(s) ==
  /\ txn[s] # NoTxn
  /\ txn' = [txn EXCEPT ![s] = NoTxn]
  /\ UNCHANGED <<tickets, now, edits, overlapped, mixed>>

MayCall(s) == edits < MaxEdits /\ (s \in Interleaved => txn[s] # NoTxn)

(* The ids the sequence of the table gives to the tickets of a list.       *)
NextIds(list) ==
  LET used == Cardinality({i \in TicketIds : tickets[i] # NoTicket})
  IN  [n \in DOMAIN list |-> used + n]

Create(s, list) ==
  LET vals == [n \in DOMAIN list |-> NormalizeVals(list[n])]
      seq  == NextIds(list)
      view == ViewOf(s).rows
      rows == BaseCreate(view, seq, vals)
  IN  /\ MayCall(s)
      /\ Written(seq) \subseteq TicketIds
      /\ CreateAccepted(view, vals)
      /\ Commit(s, seq, rows)
      /\ edits' = edits + 1
      /\ mixed' = mixed \cup {i \in Written(seq) : KeyStage(rows, seq, i) # rows[i].stage}
      /\ UNCHANGED now

(* write on the tickets of a selection: the form, the stage buttons, the   *)
(* wizard of the commitment date, the list's multiple edit.                *)
Write(s, seq, raw) ==
  LET vals == NormalizeVals(raw)
      view == ViewOf(s).rows
      rows == BaseWrite(view, seq, vals)
  IN  /\ MayCall(s)
      /\ \A i \in Written(seq) : view[i] # NoTicket /\ i \notin ViewOf(s).others
      /\ WriteAccepted(view, seq, vals)
      /\ Commit(s, seq, rows)
      /\ edits' = edits + 1
      /\ mixed' = IF {"stage", "pri"} \cap DOMAIN vals = {} THEN mixed
                  ELSE (mixed \ Written(seq)) \cup
                       {i \in Written(seq) : "stage" \notin DOMAIN vals
                                             /\ KeyStage(rows, seq, i) # rows[i].stage}
      /\ UNCHANGED now

(* The hourly cron begins; a run that finds no ticket does nothing.        *)
CronBegin ==
  /\ txn[Cron] = NoTxn
  /\ InactiveTickets(tickets, now) # {}
  /\ txn' = [txn EXCEPT ![Cron] = Snapshot(InactiveTickets(tickets, now))]
  /\ UNCHANGED <<tickets, now, edits, overlapped, mixed>>

(* _cron_auto_close_inactive_weekday_tickets: one write per ticket, in one *)
(* transaction.  A ticket that is refused, or written meanwhile, undoes    *)
(* the run.                                                                *)
CronClose ==
  LET view == txn[Cron]
      vals == [stage |-> ClosingStage]
      seq  == CHOOSE q \in [1..Cardinality(view.due) -> view.due] : Written(q) = view.due
  IN  /\ view # NoTxn
      /\ IF /\ \A i \in view.due : WriteAccepted(view.rows, <<i>>, vals)
            /\ view.due \cap view.others = {}
         THEN /\ Commit(Cron, seq, BaseWrite(view.rows, seq, vals))
              /\ mixed' = mixed \ view.due
         ELSE txn' = [txn EXCEPT ![Cron] = NoTxn] /\ UNCHANGED <<tickets, overlapped, mixed>>
      /\ UNCHANGED <<now, edits>>

Tick ==
  /\ now < MaxTime
  /\ now' = now + 1
  /\ UNCHANGED <<tickets, txn, edits, overlapped, mixed>>

Init ==
  /\ tickets = FirstTickets
  /\ txn = [s \in Sessions \cup {Cron} |-> NoTxn]
  /\ now = 0
  /\ edits = 0
  /\ overlapped = {}
  /\ mixed = {}

Pairs == {q \in [1..2 -> TicketIds] : q[1] # q[2]}

Next ==
  \/ \E s \in Sessions :
       \/ Begin(s)
       \/ Rollback(s)
       \/ \E list \in CreateBatches : Create(s, list)
       \/ \E i \in TicketIds, vals \in FormVals : Write(s, <<i>>, vals)
       \/ \E seq \in Pairs, vals \in MassVals : Write(s, seq, vals)
  \/ CronBegin
  \/ CronClose
  \/ Tick

Spec == Init /\ [][Next]_vars /\ WF_vars(CronBegin) /\ WF_vars(CronClose)

(***************************************************************************)
(* Properties.                                                             *)
(***************************************************************************)
Exists(i) == tickets[i] # NoTicket
Duplicates(i) == FindDuplicatePending(tickets, tickets[i], {i})

(* The rows, the views and the histories are what they are declared to be. *)
HelpdeskTypeOK ==
  /\ tickets \in Table
  /\ txn \in [Sessions \cup {Cron} -> View \cup {NoTxn}]
  /\ now \in 0..MaxTime /\ edits \in 0..MaxEdits
  /\ overlapped \subseteq SUBSET TicketIds
  /\ mixed \subseteq {i \in TicketIds : Exists(i)}

(* Two pending tickets of one subcategory share an order only when the     *)
(* transactions that last wrote them did not see each other, or were one:  *)
(* no chain of creations, edits, cancellations and reopenings, each of     *)
(* which saw the one before, gets past _validate_duplicate_pending_ticket. *)
PendingPairsOverlapped ==
  \A i, j \in TicketIds : PendingPair(tickets, i, j) => {i, j} \in overlapped

(* What the base module keeps agrees with the stage after any sequence of  *)
(* moves, priority changes and closings: close_date is set exactly in the  *)
(* folded stages, "In Progress" has a commitment date, a reached SLA is    *)
(* not past the stage, and one that is not reached is past it.  The last   *)
(* need not hold of a ticket whose SLAs were found for another's stage.    *)
TicketFollowsStage ==
  \A i \in TicketIds : Exists(i) => Follows(tickets[i], i \notin mixed)

WeekdayTicksIn(start, end) == Cardinality({t \in start..(end - 1) : IsWeekday(DayOf(t))})

(* The cron closes a ticket only if nobody wrote it for CloseAfter weekday *)
(* ticks by the committed row, whatever was committed since its snapshot.  *)
CronClosesOnlyInactive ==
  [][\A i \in TicketIds :
       /\ txn[Cron] # NoTxn /\ txn'[Cron] = NoTxn
       /\ tickets'[i] # tickets[i]
       => WeekdayTicksIn(tickets[i].wrote, now) >= CloseAfter]_vars

(* A ticket nobody writes is closed, unless one of the tickets the cron    *)
(* takes has a pending duplicate: that one is refused and undoes the run   *)
(* for all of them.                                                        *)
InactiveIsClosed ==
  \A i \in TicketIds :
    IsInactive(tickets[i], now) ~>
      \/ ~IsInactive(tickets[i], now)
      \/ \E j \in TicketIds : IsInactive(tickets[j], now) /\ Duplicates(j) # {}
=============================================================================
