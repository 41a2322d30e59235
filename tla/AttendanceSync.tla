--------------------------- MODULE AttendanceSync ---------------------------
(***************************************************************************)
(* dahua_interface/attendance_sync_worker.py: the worker that reads the    *)
(* punches of biometric_ingest.normalized_event above its cursor, stages   *)
(* each one in hr.biometric.event and toggles hr.attendance.  Every write  *)
(* to Odoo is an XML-RPC call with a transaction of its own, so a crash,   *)
(* a failed call or an edit made in Odoo can come between any two of them. *)
(*                                                                         *)
(* Time is counted in ticks, DayLen of them to a local day; an event, a    *)
(* check-in and a check-out carry the tick they happened at.               *)
(***************************************************************************)
EXTENDS Integers, FiniteSets, Sequences

CONSTANTS
  Employees,         \* the active employees with a unique employee_number
  NoEmployee,        \* a badge that zero or several employees match
  MaxId,             \* bound: identifiers of normalized_event are 1..MaxId
  Punches,           \* the access_control rows the router may commit
  DayLen,            \* ticks in a local day
  CloseTick,         \* close_time_local, as a tick of the day
  ReconcileTick,     \* reconcile_time_local, as a tick of the day
  AutoCloseEnabled,  \* hr.biometric.sync.config.auto_close_enabled
  ReconcileEnabled,  \* hr.biometric.sync.config.reconcile_enabled
  Debounce,          \* hr.biometric.sync.config.debounce_seconds, in ticks
  BatchSize,         \* rows of one SELECT ... LIMIT
  CloseLimit,        \* attendances one close run reads (1000 in the code)
  TwoWriters,        \* TRUE when a second inserter may commit out of id order
  MaxTime,           \* bound on the clock
  MaxFaults,         \* bound on crashes and failed calls
  MaxManual          \* bound on check-ins and check-outs made in Odoo

Row == [emp : Employees \cup {NoEmployee}, at : Nat, granted : BOOLEAN]

ASSUME SyncAssumption ==
  /\ MaxId \in Nat /\ BatchSize \in Nat \ {0} /\ CloseLimit \in Nat \ {0}
  /\ DayLen \in Nat \ {0} /\ Debounce \in Nat
  /\ CloseTick \in 0 .. DayLen - 1 /\ ReconcileTick \in 0 .. DayLen - 1
  /\ MaxTime \in Nat /\ MaxFaults \in Nat /\ MaxManual \in Nat
  /\ {AutoCloseEnabled, ReconcileEnabled, TwoWriters} \subseteq BOOLEAN
  /\ NoEmployee \notin Employees
  /\ Punches \subseteq Row

Ids == 1 .. MaxId
NoRow == [emp |-> NoEmployee, at |-> -1, granted |-> FALSE]
NoDate == -1            \* a date the configuration has not recorded yet
Open == -1              \* the check_out of an open attendance
NoEvent == 0            \* an empty many2one to hr.biometric.event
NoAttendance == 0       \* an empty many2one to hr.attendance

Accepted == {"check_in_created", "check_out_written"}
Settled == Accepted \cup {"employee_not_found", "denied_ignored",
                          "after_close_review", "duplicate_ignored"}
Final == Settled \cup {"error"}
Status == Final \cup {"none", "pending"}

Day(t) == t \div DayLen
EndOfDay(d) == d * DayLen + (DayLen - 1)

VARIABLES
  now,          \* the clock
  rows,         \* normalized_event: the committed row of each id, or NoRow
  cursor,       \* hr.biometric.sync.cursor.last_normalized_event_id
  event,        \* hr.biometric.event, one record per normalized_event_id
  attendance,   \* hr.attendance, a table in the order of creation
  lastClose,    \* hr.biometric.sync.config.last_close_run_date
  lastReconcile,\* hr.biometric.sync.config.last_reconcile_run_date
  pc,           \* where the worker is in run_cycle
  todo,         \* rows of the batch not yet passed
  cur,          \* the row of the batch being processed, 0 when there is none
  seen,         \* existing_map: the statuses prefetched for the batch
  cfgClose,     \* last_close_run_date as read when the cycle began
  held,         \* the attendance the worker is acting on
  closing,      \* attendances the close run has still to write
  runDate,      \* the day the close run was started for
  faults,       \* crashes and failed calls so far
  manual        \* attendance edits made by others so far

odoo == <<cursor, event, attendance, lastClose, lastReconcile>>
local == <<todo, cur, seen, cfgClose, held, closing, runDate>>
environment == <<now, rows, faults, manual>>
vars == <<now, rows, cursor, event, attendance, lastClose, lastReconcile, pc,
          todo, cur, seen, cfgClose, held, closing, runDate, faults, manual>>

(***************************************************************************)
(* Queries                                                                 *)
(***************************************************************************)
Committed == {id \in Ids : rows[id] # NoRow}

(* SELECT ... WHERE id > cursor ORDER BY id LIMIT BatchSize                *)
NextRows ==
  {id \in Committed :
     /\ id > cursor
     /\ Cardinality({o \in Committed : cursor < o /\ o < id}) < BatchSize}

(* Fault: ORDER BY id DESC.                                                *)
NewestFirst(id, batch) == id \in batch /\ \A other \in batch : id >= other

(* for row in rows: the batch is worked through in the order of its ids.   *)
OldestFirst(id, batch) == id \in batch /\ \A other \in batch : id <= other

AcceptedOf(e) == {id \in Ids : event[id].status \in Accepted /\ rows[id].emp = e}

(* order="event_occurred_at_utc desc,id desc", limit=1                     *)
IsLatestAccepted(id, e) ==
  \A o \in AcceptedOf(e) :
    \/ rows[o].at < rows[id].at
    \/ rows[o].at = rows[id].at /\ o <= id

(* Fault: the search forgets the check_out = False condition.              *)
AnyAttendanceOf(e) == {i \in DOMAIN attendance : attendance[i].emp = e}

OpenOf(e) ==
  {i \in DOMAIN attendance : attendance[i].emp = e /\ attendance[i].out = Open}

Earlier(i, j) ==
  \/ attendance[i].in < attendance[j].in
  \/ attendance[i].in = attendance[j].in /\ i < j

(* order="check_in desc,id desc", limit=1                                  *)
IsLatestOpen(i, e) == \A j \in OpenOf(e) \ {i} : Earlier(j, i)

(* The open biometric attendances, oldest first, at most CloseLimit.       *)
DueForClose ==
  LET due == {i \in DOMAIN attendance :
                attendance[i].out = Open /\ attendance[i].src = "biometric"}
  IN  {i \in due : Cardinality({j \in due : Earlier(j, i)}) < CloseLimit}

(* The rule Odoo's hr.attendance checks on every create and write of a     *)
(* check-in or a check-out: record i of table t is not negative, overlaps  *)
(* no other attendance of its employee, and is the only open one.          *)
OdooAccepts(t, i) ==
  LET others == {j \in DOMAIN t \ {i} : t[j].emp = t[i].emp}
  IN  /\ \A j \in others : t[j].in <= t[i].in => t[j].out <= t[i].in
      /\ t[i].out = Open => \A j \in others : t[j].out # Open
      /\ t[i].out # Open =>
           /\ t[i].in <= t[i].out
           /\ \A j \in others : ~(t[i].in < t[j].in /\ t[j].in < t[i].out)

(***************************************************************************)
(* Initial state: the module is installed, nothing is synchronised yet.    *)
(***************************************************************************)
Unstaged == [status |-> "none", att |-> NoAttendance, flagged |-> FALSE]

Init ==
  /\ now = 0
  /\ rows = [id \in Ids |-> NoRow]
  /\ cursor = 0
  /\ event = [id \in Ids |-> Unstaged]
  /\ attendance = <<>>
  /\ lastClose = NoDate /\ lastReconcile = NoDate
  /\ pc = "idle" /\ todo = {} /\ cur = 0 /\ seen = [id \in Ids |-> "none"]
  /\ cfgClose = NoDate /\ held = NoAttendance /\ closing = {} /\ runDate = NoDate
  /\ faults = 0 /\ manual = 0

(***************************************************************************)
(* The environment                                                         *)
(***************************************************************************)
Tick ==
  /\ now < MaxTime
  /\ now' = now + 1
  /\ UNCHANGED <<rows, faults, manual, odoo, local, pc>>

(* The router commits a normalized row.  Alone, it commits in id order; a  *)
(* second inserter (reprocess_quarantine) may commit a higher id first.    *)
CommitRow(id, p) ==
  /\ rows[id] = NoRow
  /\ p.at <= now
  /\ \A lower \in 1 .. id - 1 : TwoWriters \/ rows[lower] # NoRow
  /\ rows' = [rows EXCEPT ![id] = p]
  /\ UNCHANGED <<now, faults, manual, odoo, local, pc>>

(* Human resources, or the authentication bridge, checks an employee in    *)
(* or out directly in Odoo.                                                *)
OdooEdit(table) ==
  /\ manual < MaxManual
  /\ manual' = manual + 1
  /\ attendance' = table
  /\ UNCHANGED <<now, rows, faults, cursor, event, lastClose, lastReconcile, local, pc>>

OtherCheckIn(e) ==
  LET table == Append(attendance,
                 [emp |-> e, in |-> now, out |-> Open, inEv |-> NoEvent,
                  outEv |-> NoEvent, src |-> "other", auto |-> "no"])
  IN  OdooAccepts(table, Len(table)) /\ OdooEdit(table)

OtherCheckOut(i) ==
  LET table == [attendance EXCEPT ![i].out = now]
  IN  attendance[i].out = Open /\ OdooAccepts(table, i) /\ OdooEdit(table)

(***************************************************************************)
(* The worker.  A cycle that ends early forgets everything it had read.    *)
(***************************************************************************)
Forget ==
  /\ pc' = "idle" /\ todo' = {} /\ cur' = 0 /\ seen' = [id \in Ids |-> "none"]
  /\ cfgClose' = NoDate /\ held' = NoAttendance /\ closing' = {} /\ runDate' = NoDate

(* The next row of the batch, or the end of the loop.                      *)
NextRow ==
  \/ todo' = {} /\ cur' = 0 /\ pc' = "close"
  \/ \E id \in todo' : OldestFirst(id, todo') /\ cur' = id /\ pc' = "row"

(* run_cycle: the configuration, the cursor, the batch and the statuses    *)
(* already staged are read before anything is written.                     *)
StartCycle ==
  /\ pc = "idle"
  /\ todo' = NextRows
  /\ seen' = [id \in Ids |-> IF id \in NextRows THEN event[id].status ELSE "none"]
  /\ cfgClose' = lastClose
  /\ NextRow
  /\ UNCHANGED <<odoo, environment, held, closing, runDate>>

(* Fault: a staged row is skipped without moving the cursor over it.       *)
SkipStagedLeavesCursor ==
  /\ pc = "row"
  /\ seen[cur] \in Settled
  /\ pc' = "close" /\ todo' = {} /\ cur' = 0
  /\ UNCHANGED <<odoo, environment, seen, cfgClose, held, closing, runDate>>

(* A row staged by an earlier cycle that did not get to move the cursor.   *)
SkipStaged ==
  /\ pc = "row"
  /\ seen[cur] \in Settled
  /\ pc' = "advance"
  /\ UNCHANGED <<odoo, environment, local>>

(* _upsert_event_record writes every field, the auto-close mark included.  *)
Upsert(id, st, a) ==
  /\ event' = [event EXCEPT ![id] = [status |-> st, att |-> a, flagged |-> FALSE]]
  /\ UNCHANGED <<cursor, attendance, lastClose, lastReconcile>>

(* The last call of a row: its reply may be lost after it took effect.     *)
RowDone ==
  /\ \/ pc' = "advance" /\ UNCHANGED faults
     \/ pc' = "fault" /\ faults < MaxFaults /\ faults' = faults + 1
  /\ held' = NoAttendance
  /\ UNCHANGED <<now, rows, manual, todo, cur, seen, cfgClose, closing, runDate>>

(* Fault: the day of the close run itself is not counted as closed.        *)
AfterCloseStrictly(r) ==
  cfgClose # NoDate /\ Day(r.at) < cfgClose /\ Day(r.at) < Day(now)

AfterClose(r) ==
  /\ cfgClose # NoDate
  /\ Day(r.at) <= cfgClose
  /\ Day(r.at) < Day(now)

(* Fault: the granted test is missing.                                     *)
RefusedIfUnknown(r) == r.emp = NoEmployee \/ AfterClose(r)

(* The outcomes that need no query: no employee, refused by the device, or *)
(* late for a day that has been closed.                                    *)
Refused(r) == r.emp = NoEmployee \/ ~r.granted \/ AfterClose(r)

StageRefused ==
  LET r == rows[cur]
      st == IF r.emp = NoEmployee THEN "employee_not_found"
            ELSE IF ~r.granted THEN "denied_ignored" ELSE "after_close_review"
  IN  /\ pc = "row" /\ seen[cur] \notin Settled
      /\ Refused(r)
      /\ Upsert(cur, st, NoAttendance)
      /\ RowDone

(* Fault: a gap equal to the debounce window is let through.               *)
IsDuplicateStrictly(r) ==
  \E id \in AcceptedOf(r.emp) : r.at - rows[id].at < Debounce

(* The gap to the latest accepted punch, the smallest of them all, is      *)
(* within the window; it is negative when this punch is the older one.     *)
IsDuplicate(r) ==
  \E id \in AcceptedOf(r.emp) : r.at - rows[id].at <= Debounce

StageDuplicate ==
  LET r == rows[cur]
  IN  /\ pc = "row" /\ seen[cur] \notin Settled
      /\ ~Refused(r) /\ IsDuplicate(r)
      /\ \E id \in AcceptedOf(r.emp) :
           IsLatestAccepted(id, r.emp) /\ Upsert(cur, "duplicate_ignored", event[id].att)
      /\ RowDone

StagePending ==
  LET r == rows[cur]
  IN  /\ pc = "row" /\ seen[cur] \notin Settled
      /\ ~Refused(r) /\ ~IsDuplicate(r)
      /\ Upsert(cur, "pending", NoAttendance)
      /\ pc' = "toggle"
      /\ UNCHANGED <<environment, local>>

(* _find_open_attendance, and what to do with what it found.               *)
FindOpen ==
  LET open == OpenOf(rows[cur].emp)
  IN  /\ pc = "toggle"
      /\ \/ open = {} /\ held' = NoAttendance /\ pc' = "checkIn"
         \/ \E a \in open :
              /\ IsLatestOpen(a, rows[cur].emp)
              /\ held' = a
              /\ pc' = IF Day(attendance[a].in) < Day(rows[cur].at)
                       THEN "newDay" ELSE "checkOut"
      /\ UNCHANGED <<odoo, environment, todo, cur, seen, cfgClose, closing, runDate>>

(* A write of hr.attendance inside a row: Odoo may refuse it, and a refusal*)
(* is the exception the row's handler catches.                             *)
WriteAttendance(table, i, next, nextHeld) ==
  /\ IF OdooAccepts(table, i)
     THEN attendance' = table /\ pc' = next /\ held' = nextHeld
     ELSE UNCHANGED attendance /\ pc' = "fault" /\ held' = NoAttendance
  /\ UNCHANGED <<environment, cursor, event, lastClose, lastReconcile,
                 todo, cur, seen, cfgClose, closing, runDate>>

AutoClosed(i, reason) ==
  [attendance EXCEPT ![i] = [@ EXCEPT !.out = EndOfDay(Day(attendance[i].in)), !.auto = reason]]

(* An attendance left open on an earlier day is closed at the end of it.   *)
CloseBeforeNewDay ==
  /\ pc = "newDay"
  /\ WriteAttendance(AutoClosed(held, "new_day"), held, "newDayFlag", held)

(* Fault: the mark goes to the next event instead of the check-in's.       *)
FlagOtherEvent(i) ==
  /\ event' = IF attendance[i].inEv + 1 \in Ids
              THEN [event EXCEPT ![attendance[i].inEv + 1].flagged = TRUE] ELSE event
  /\ UNCHANGED <<cursor, attendance, lastClose, lastReconcile>>

FlagCheckIn(i) ==
  /\ event' = IF attendance[i].inEv = NoEvent THEN event
              ELSE [event EXCEPT ![attendance[i].inEv].flagged = TRUE]
  /\ UNCHANGED <<cursor, attendance, lastClose, lastReconcile>>

FlagNewDay ==
  /\ pc = "newDayFlag"
  /\ FlagCheckIn(held)
  /\ pc' = "checkIn" /\ held' = NoAttendance
  /\ UNCHANGED <<environment, todo, cur, seen, cfgClose, closing, runDate>>

CheckedOut(i) ==
  [attendance EXCEPT ![i] = [@ EXCEPT !.out = rows[cur].at, !.outEv = cur,
                                      !.src = "biometric"]]

WriteCheckOut ==
  /\ pc = "checkOut"
  /\ WriteAttendance(CheckedOut(held), held, "markOut", held)

CreateCheckIn ==
  LET table == Append(attendance,
                 [emp |-> rows[cur].emp, in |-> rows[cur].at, out |-> Open,
                  inEv |-> cur, outEv |-> NoEvent, src |-> "biometric", auto |-> "no"])
  IN  /\ pc = "checkIn"
      /\ WriteAttendance(table, Len(table), "markIn", Len(table))

(* Only now does the staged event say what was done with the punch.        *)
MarkEvent(at, st) ==
  /\ pc = at
  /\ event' = [event EXCEPT ![cur].status = st, ![cur].att = held]
  /\ UNCHANGED <<cursor, attendance, lastClose, lastReconcile>>
  /\ RowDone

MarkCheckOut == MarkEvent("markOut", "check_out_written")
MarkCheckIn == MarkEvent("markIn", "check_in_created")

(* Fault: the handler logs the exception and stages nothing.               *)
StageErrorOnlyLogs ==
  /\ pc = "fault"
  /\ pc' = "advance" /\ UNCHANGED <<odoo, environment, local>>

(* The handler of a failed row stages "error", creating the record when the*)
(* prefetched map had none: if the row's own attempt created one meanwhile,*)
(* normalized_event_id is not unique and the whole cycle fails.            *)
StageError ==
  /\ pc = "fault"
  /\ ~(seen[cur] = "none" /\ event[cur].status # "none")
  /\ Upsert(cur, "error", NoAttendance)
  /\ pc' = "advance" /\ UNCHANGED <<environment, local>>

ErrorNotUnique ==
  /\ pc = "fault"
  /\ seen[cur] = "none" /\ event[cur].status # "none"
  /\ Forget /\ UNCHANGED <<odoo, environment>>

(* Fault: the loop does not notice the end of the batch.                   *)
AdvancePastEnd ==
  /\ pc = "advance"
  /\ cursor' = cur /\ todo' = todo \ {cur} /\ pc' = "row"
  /\ \/ cur' \in todo'
     \/ todo' = {} /\ cur' = cur
  /\ UNCHANGED <<environment, event, attendance, lastClose, lastReconcile,
                 seen, cfgClose, held, closing, runDate>>

AdvanceCursor ==
  /\ pc = "advance"
  /\ cursor' = cur
  /\ todo' = todo \ {cur}
  /\ NextRow
  /\ UNCHANGED <<environment, event, attendance, lastClose, lastReconcile,
                 seen, cfgClose, held, closing, runDate>>

(* _run_close_if_due: once a day, from close_time_local on.                *)
CloseIsDue ==
  AutoCloseEnabled /\ cfgClose # Day(now) /\ now % DayLen >= CloseTick

StartClose ==
  /\ pc = "close" /\ CloseIsDue
  /\ closing' = DueForClose
  /\ runDate' = Day(now)
  /\ pc' = "closing"
  /\ UNCHANGED <<odoo, environment, todo, cur, seen, cfgClose, held>>

SkipClose ==
  /\ pc = "close" /\ ~CloseIsDue
  /\ pc' = "reconcile"
  /\ UNCHANGED <<odoo, environment, local>>

(* A write that Odoo refuses ends the run, and the cycle with it.          *)
CloseOne ==
  \E i \in closing :
    LET table == AutoClosed(i, "eod")
    IN  /\ pc = "closing"
        /\ \A j \in closing \ {i} : Earlier(i, j)
        /\ IF OdooAccepts(table, i)
           THEN /\ attendance' = table /\ held' = i /\ pc' = "closingFlag"
                /\ UNCHANGED <<todo, cur, seen, cfgClose, closing, runDate>>
           ELSE Forget /\ UNCHANGED attendance
        /\ UNCHANGED <<environment, cursor, event, lastClose, lastReconcile>>

(* Fault: the close run stops after its first attendance.                  *)
FlagClosedAndStop ==
  /\ pc = "closingFlag"
  /\ FlagCheckIn(held)
  /\ closing' = {} /\ held' = NoAttendance /\ pc' = "closing"
  /\ UNCHANGED <<environment, todo, cur, seen, cfgClose, runDate>>

FlagClosed ==
  /\ pc = "closingFlag"
  /\ FlagCheckIn(held)
  /\ closing' = closing \ {held} /\ held' = NoAttendance /\ pc' = "closing"
  /\ UNCHANGED <<environment, todo, cur, seen, cfgClose, runDate>>

RecordClose ==
  /\ pc = "closing" /\ closing = {}
  /\ lastClose' = runDate
  /\ pc' = "reconcile"
  /\ UNCHANGED <<environment, cursor, event, attendance, lastReconcile, local>>

(* _run_reconcile_if_due counts the late events of yesterday into its run. *)
(* It closes the cycle, which then sleeps.                                 *)
Reconcile ==
  /\ pc = "reconcile"
  /\ lastReconcile' = IF ReconcileEnabled /\ now % DayLen >= ReconcileTick
                      THEN Day(now) ELSE lastReconcile
  /\ Forget
  /\ UNCHANGED <<environment, cursor, event, attendance, lastClose>>

(* A call inside a row fails without effect, or after an effect that the   *)
(* next call's failure would also leave behind.                            *)
CallFails ==
  /\ pc \in {"row", "toggle", "newDay", "newDayFlag", "checkIn", "checkOut",
             "markIn", "markOut"}
  /\ pc = "row" => seen[cur] \notin Settled
  /\ faults < MaxFaults /\ faults' = faults + 1
  /\ pc' = "fault" /\ held' = NoAttendance
  /\ UNCHANGED <<odoo, now, rows, manual, todo, cur, seen, cfgClose, closing, runDate>>

(* The process dies, or a call outside a row fails: the cycle is over.     *)
CycleLost ==
  /\ pc # "idle"
  /\ faults < MaxFaults /\ faults' = faults + 1
  /\ Forget
  /\ UNCHANGED <<odoo, now, rows, manual>>

WorkerStep ==
  \/ StartCycle \/ SkipStaged \/ StageRefused \/ StageDuplicate \/ StagePending
  \/ FindOpen \/ CloseBeforeNewDay \/ FlagNewDay \/ WriteCheckOut \/ CreateCheckIn
  \/ MarkCheckOut \/ MarkCheckIn \/ StageError \/ ErrorNotUnique \/ AdvanceCursor
  \/ StartClose \/ SkipClose \/ CloseOne \/ FlagClosed \/ RecordClose \/ Reconcile

Next ==
  \/ WorkerStep
  \/ CallFails \/ CycleLost
  \/ Tick
  \/ \E id \in Ids, p \in Punches : CommitRow(id, p)
  \/ \E e \in Employees : OtherCheckIn(e)
  \/ \E i \in DOMAIN attendance : OtherCheckOut(i)

Spec == Init /\ [][Next]_vars

(* run_forever never stops: as long as the worker can take a step it does. *)
FairSpec == Spec /\ WF_vars(WorkerStep)
(***************************************************************************)
(* Types, and what the worker's program counter implies about its locals.  *)
(***************************************************************************)
AttendanceRecord ==
  [emp : Employees, in : Nat, out : Nat \cup {Open}, inEv : Ids \cup {NoEvent},
   outEv : Ids \cup {NoEvent}, src : {"biometric", "other"},
   auto : {"no", "new_day", "eod"}]

ToggleStates == {"toggle", "newDay", "newDayFlag", "checkOut", "checkIn",
                 "markOut", "markIn"}
RowStates == ToggleStates \cup {"row", "fault", "advance"}
HoldingStates == {"newDay", "newDayFlag", "checkOut", "markOut", "markIn", "closingFlag"}
CloseStates == {"closing", "closingFlag"}

(* Every variable has its type; a row is being processed exactly while the *)
(* batch is not empty, only an employee's row reaches the toggle, and an   *)
(* attendance is held exactly in the states that act on it.                *)
TypeOK ==
  /\ now \in Nat
  /\ rows \in [Ids -> Punches \cup {NoRow}]
  /\ cursor \in Ids \cup {0}
  /\ event \in [Ids -> [status : Status, att : Nat, flagged : BOOLEAN]]
  /\ attendance \in Seq(AttendanceRecord)
  /\ lastClose \in Nat \cup {NoDate} /\ lastReconcile \in Nat \cup {NoDate}
  /\ cfgClose \in Nat \cup {NoDate} /\ runDate \in Nat \cup {NoDate}
  /\ seen \in [Ids -> Status]
  /\ pc \in {"idle", "close", "reconcile"} \cup RowStates \cup CloseStates
  /\ todo \subseteq Committed
  /\ IF pc \in RowStates THEN cur \in todo ELSE todo = {} /\ cur = 0
  /\ pc \in ToggleStates => rows[cur].emp \in Employees
  /\ held \in DOMAIN attendance \cup {NoAttendance}
  /\ pc \in HoldingStates <=> held # NoAttendance
  /\ closing \subseteq DOMAIN attendance
  /\ closing # {} => pc \in CloseStates
  /\ pc = "closingFlag" => held \in closing
  /\ faults \in Nat /\ manual \in Nat

(***************************************************************************)
(* Safety                                                                  *)
(***************************************************************************)

(* "Cada evento debe dejar ... sync_status": whatever crashes and failed   *)
(* calls come between staging and the cursor, a committed row the cursor   *)
(* has passed is staged with a final outcome.  (run_cycle)                 *)
PassedIsStaged ==
  \A id \in Committed : id <= cursor => event[id].status \in Final

(* Two accepted punches of an employee are more than the debounce window   *)
(* apart and in the order of their ids, also when rows arrive late or are  *)
(* processed again.  (the debounce test of _process_event)                 *)
AcceptedAreApart ==
  \A i, j \in Ids :
    /\ i < j
    /\ event[i].status \in Accepted /\ event[j].status \in Accepted
    /\ rows[i].emp = rows[j].emp
    => rows[j].at - rows[i].at > Debounce

(* "no crea ni modifica hr.attendance": an attendance refers only to       *)
(* granted punches of its own employee, never to one that was refused or   *)
(* ignored as a duplicate, however often the row was retried.              *)
OnlyGrantedPunchesAttend ==
  \A i \in DOMAIN attendance :
    \A id \in {attendance[i].inEv, attendance[i].outEv} \ {NoEvent} :
      /\ rows[id].granted /\ rows[id].emp = attendance[i].emp
      /\ event[id].status \notin {"employee_not_found", "denied_ignored",
                                  "duplicate_ignored"}

(* An accepted event names the attendance that carries its check-in or     *)
(* check-out, at its own time.  (the attendance_id written last)           *)
OutcomeMatchesAttendance ==
  \A id \in Ids :
    LET a == event[id].att
    IN  /\ event[id].status = "check_in_created" =>
             /\ a \in DOMAIN attendance
             /\ attendance[a].inEv = id /\ attendance[a].in = rows[id].at
        /\ event[id].status = "check_out_written" =>
             /\ a \in DOMAIN attendance
             /\ attendance[a].outEv = id /\ attendance[a].out = rows[id].at

(* An event is marked attendance_auto_closed only when an attendance it    *)
(* opened was closed by the worker.  (two calls, the attendance first)     *)
FlaggedIsAutoClosed ==
  \A id \in Ids : event[id].flagged =>
    \E i \in DOMAIN attendance :
      attendance[i].inEv = id /\ attendance[i].auto # "no"

(***************************************************************************)
(* Action properties                                                       *)
(***************************************************************************)

(* A check-out written by a punch or by a close run is never overwritten,  *)
(* by a retry of the same row or by a later punch.                         *)
WorkerCheckOutIsFinal ==
  [][\A i \in DOMAIN attendance :
       /\ attendance[i].out # Open
       /\ attendance[i].outEv # NoEvent \/ attendance[i].auto # "no"
       => attendance'[i] = attendance[i]]_vars

(* A punch of a past day that has been closed never reaches the toggle,    *)
(* although the worker read last_close_run_date when its cycle began.      *)
LatePunchNotToggled ==
  [][\A id \in Ids :
       /\ event'[id].status = "pending" /\ event[id].status # "pending"
       => ~(Day(rows[id].at) <= lastClose /\ Day(rows[id].at) < Day(now))]_vars

(* When a close run is recorded no biometric attendance is left open.      *)
(* It holds as long as CloseLimit is not below the number of them.         *)
CloseRunIsComplete ==
  [][lastClose' # lastClose =>
       \A i \in DOMAIN attendance :
         attendance[i].src = "biometric" => attendance[i].out # Open]_vars

(***************************************************************************)
(* The ledger implemented by the cursor and the staging table              *)
(***************************************************************************)
Ledger == INSTANCE PunchLedger WITH
  MaxId <- MaxId, Outcomes <- Final, Undecided <- "none",
  punches <- Committed, passed <- cursor,
  outcome <- [id \in Ids |-> IF id <= cursor THEN event[id].status ELSE "none"]

(* With a single writer of normalized_event the worker passes the rows in  *)
(* id order, skips none, and never revises the outcome of one it passed.   *)
ImplementsLedger == Ledger!Spec

(***************************************************************************)
(* Liveness                                                                *)
(***************************************************************************)

(* No row blocks the cursor for ever: one that Odoo keeps refusing ends as *)
(* "error" in the cycle after its pending record was created.              *)
EveryPunchIsPassed ==
  \A id \in Ids : (rows[id] # NoRow) ~> (cursor >= id)

(***************************************************************************)
(* What the documents say and the code does not do                         *)
(***************************************************************************)

(* "duplicados dentro de 90 segundos no alteran asistencias": a check-out  *)
(* written by a punch is more than the debounce window after the check-in  *)
(* of a punch.                                                             *)
CheckOutBeyondDebounce ==
  \A i \in DOMAIN attendance :
    attendance[i].inEv # NoEvent /\ attendance[i].outEv # NoEvent
    => attendance[i].out - attendance[i].in > Debounce

(* "toda asistencia abierta ... se cierra a 23:59:59 local del dia de su   *)
(* check_in": once a day whose close run is recorded is over, none of its  *)
(* biometric attendances is open.                                          *)
ClosedDayStaysClosed ==
  \A i \in DOMAIN attendance :
    LET d == Day(attendance[i].in)
    IN  /\ attendance[i].src = "biometric" /\ lastClose = d /\ d < Day(now)
        => attendance[i].out # Open
=============================================================================
