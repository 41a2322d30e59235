------------------------------ MODULE Backfill ------------------------------
(***************************************************************************)
(* dahua_interface/attendance_sync_backfill.py: the bounded run that fills *)
(* a gap the cursor of the worker has already passed.  It works from what  *)
(* it read before its first write: the rows of the range, the events that  *)
(* exist, the days that have attendances, the open attendances.  A check-  *)
(* in is kept in memory; its attendance is created only with its check-out *)
(* or with the end of its day.  Every write is a call of its own and any   *)
(* failure ends the run where it is.                                       *)
(*                                                                         *)
(* The wrapper run_devlyn_attendance_backfill.sh stops the worker for the  *)
(* time of an apply and starts it again however the apply ends.            *)
(***************************************************************************)
EXTENDS AttendanceSync

CONSTANTS
  Gap,               \* ids 1..Gap are behind the cursor and were not staged
  Started,           \* the clock when the gap is found
  MaxApplies         \* bound on the runs of the backfill

ASSUME BackfillAssumption ==
  Gap \in 0 .. MaxId /\ Started \in Nat /\ MaxApplies \in Nat

VARIABLES
  stage,     \* where the apply is, "off" when none runs
  range,     \* the ids of the range it has still to process
  existing,  \* existing_event_map: the statuses read at the beginning
  conflicts, \* preexisting_conflicts: the <<employee, day>> with attendances
  accepted,  \* last_accepted: the latest accepted punch of an employee
  pending,   \* open_attendance: the check-in of an employee that is open
  made,      \* the attendance whose events have still to be marked
  snapshot,  \* cursor_snapshot
  applied,   \* apply_rows: what the run reports of each row
  run,       \* hr.biometric.sync.run.status of the latest apply
  applies,   \* applies so far
  predicted, \* history: what a dry run over the same data reports
  base       \* history: the number of attendances when the apply began

plan == <<existing, conflicts, snapshot, predicted, base, applies>>
memory == <<range, accepted, pending, made, applied>>
backfill == <<stage, plan, memory, run>>
bvars == <<vars, backfill>>
worker == <<pc, local>>

NoPunch == [at |-> -1, att |-> NoAttendance]
NotOpen == [in |-> -1, att |-> NoAttendance, ev |-> NoEvent, row |-> FALSE]
Blank == [id \in Ids |-> "none"]

(***************************************************************************)
(* The rules of a row, over what the run holds in memory                   *)
(***************************************************************************)
AlreadySynced(st) == st \notin {"none", "pending", "error"}

(* The outcome of a row that needs no look at the toggle, "toggle" for the *)
(* others; lastAt is when the latest accepted punch was, -1 without one.   *)
Sorted(r, st, busy, lastAt) ==
  CASE AlreadySynced(st)                   -> "already_synced"
    [] r.emp = NoEmployee                  -> "employee_not_found"
    [] ~r.granted                          -> "denied_ignored"
    [] <<r.emp, Day(r.at)>> \in busy       -> "conflict_preserved"
    [] lastAt # -1 /\ r.at - lastAt <= Debounce -> "duplicate_ignored"
    [] OTHER                               -> "toggle"

(* Fault: the days are those of the last row only.                         *)
BusyDaysOfLast(ids) ==
  {<<attendance[i].emp, Day(attendance[i].in)>> :
     i \in {j \in DOMAIN attendance : \E id \in ids :
              /\ Day(attendance[j].in) = Day(rows[id].at)
              /\ \A o \in ids : o <= id}}

(* Fault: only an attendance that is still open makes its day busy.        *)
OpenDays(ids) ==
  {<<attendance[i].emp, Day(attendance[i].in)>> :
     i \in {j \in DOMAIN attendance : attendance[j].out = Open /\ ids # {}}}

(* preexisting_conflicts: the attendances whose check-in is in the days of *)
(* the range, by employee and day.                                         *)
BusyDays(ids) ==
  {<<attendance[i].emp, Day(attendance[i].in)>> :
     i \in {j \in DOMAIN attendance :
              /\ \E id \in ids : rows[id].emp = attendance[j].emp
              /\ \E id \in ids : Day(rows[id].at) <= Day(attendance[j].in)
              /\ \E id \in ids : Day(rows[id].at) >= Day(attendance[j].in)}}

Before(ids, t) == \A id \in ids : t < rows[id].at

AcceptedBefore(ids, e) == {id \in AcceptedOf(e) : Before(ids, rows[id].at)}

LatestAcceptedBefore(ids, e) ==
  LET earlier == AcceptedBefore(ids, e)
  IN  IF ids = {} \/ earlier = {} THEN NoPunch
      ELSE LET id == CHOOSE i \in earlier :
                       \A o \in earlier : \/ rows[o].at < rows[i].at
                                          \/ rows[o].at = rows[i].at /\ o <= i
           IN  [at |-> rows[id].at, att |-> event[id].att]

OpenBefore(ids, e) ==
  LET open == {i \in OpenOf(e) : Before(ids, attendance[i].in)}
  IN  IF ids = {} \/ open = {} \/ ~\E id \in ids : rows[id].emp = e THEN NotOpen
      ELSE LET i == CHOOSE i \in open : \A j \in open \ {i} : Earlier(j, i)
           IN  [in |-> attendance[i].in, att |-> i, ev |-> attendance[i].inEv, row |-> FALSE]

(* _simulate_rows: the report of a dry run, which writes nothing; what it  *)
(* holds after the rows up to each id.                                     *)
SimStart(ids) ==
  [res |-> Blank,
   acc |-> [e \in Employees |-> LatestAcceptedBefore(ids, e).at],
   opn |-> [e \in Employees |-> OpenBefore(ids, e).in]]

SimRow(s, id, r, st, busy) ==
  LET known == r.emp \in Employees
      what == Sorted(r, st, busy, IF known THEN s.acc[r.emp] ELSE -1)
      out == known /\ s.opn[r.emp] # -1 /\ Day(s.opn[r.emp]) >= Day(r.at)
  IN  IF what # "toggle"
      THEN [res |-> [s.res EXCEPT ![id] = what], acc |-> s.acc, opn |-> s.opn]
      ELSE [res |-> [s.res EXCEPT ![id] = IF out THEN "check_out_written" ELSE "check_in_created"],
            acc |-> [s.acc EXCEPT ![r.emp] = r.at],
            opn |-> [s.opn EXCEPT ![r.emp] = IF out THEN -1 ELSE r.at]]

Simulation(ids) ==
  LET busy == BusyDays(ids)
      sim[n \in 0 .. MaxId] ==
        IF n = 0 THEN SimStart(ids)
        ELSE IF n \in ids THEN SimRow(sim[n - 1], n, rows[n], event[n].status, busy)
        ELSE sim[n - 1]
  IN  sim

Simulate(ids) == Simulation(ids)[MaxId].res

(***************************************************************************)
(* Initial states: the rows are there, the cursor stands behind the gap.   *)
(***************************************************************************)
BackfillInit ==
  /\ now = Started
  /\ rows \in [Ids -> {p \in Punches : p.at <= now}]
  /\ cursor = Gap
  /\ event = [id \in Ids |-> Unstaged] /\ attendance = <<>>
  /\ lastClose = NoDate /\ lastReconcile = NoDate
  /\ pc = "idle" /\ todo = {} /\ cur = 0 /\ seen = Blank /\ cfgClose = NoDate
  /\ held = NoAttendance /\ closing = {} /\ runDate = NoDate
  /\ faults = 0 /\ manual = 0
  /\ stage = "off" /\ range = {} /\ existing = Blank /\ conflicts = {}
  /\ accepted = [e \in Employees |-> NoPunch]
  /\ pending = [e \in Employees |-> NotOpen]
  /\ made = NoAttendance /\ snapshot = 0 /\ applied = Blank /\ run = "none"
  /\ applies = 0 /\ predicted = Blank /\ base = 0

(***************************************************************************)
(* Reading: the cursor, the rows, the events and the busy days; then, when *)
(* the run record is made, the accepted punches and the open attendances.  *)
(***************************************************************************)
StartApply(ids) ==
  /\ pc = "idle" /\ stage = "off"
  /\ applies < MaxApplies /\ applies' = applies + 1
  /\ snapshot' = cursor /\ base' = Len(attendance)
  /\ existing' = [id \in Ids |-> IF id \in ids THEN event[id].status ELSE "none"]
  /\ conflicts' = BusyDays(ids)
  /\ predicted' = Simulate(ids)
  /\ range' = ids /\ applied' = Blank /\ run' = "running" /\ stage' = "read"
  /\ UNCHANGED <<accepted, pending, made, vars>>

ReadOpen ==
  /\ stage = "read" /\ stage' = "row"
  /\ accepted' = [e \in Employees |-> LatestAcceptedBefore(range, e)]
  /\ pending' = [e \in Employees |-> OpenBefore(range, e)]
  /\ UNCHANGED <<vars, plan, range, made, applied, run>>

(* The apply is over; what it remembered goes with the process.            *)
Stop(status) ==
  /\ stage' = "off" /\ run' = status
  /\ range' = {} /\ made' = NoAttendance
  /\ accepted' = [e \in Employees |-> NoPunch]
  /\ pending' = [e \in Employees |-> NotOpen]
  /\ UNCHANGED <<plan, applied>>

(***************************************************************************)
(* One row                                                                 *)
(***************************************************************************)
FirstOf(id) == id \in range /\ \A o \in range : id <= o

SortedNow(id) ==
  Sorted(rows[id], existing[id], conflicts,
         IF rows[id].emp \in Employees THEN accepted[rows[id].emp].at ELSE -1)

ReportRow(id, outcome) ==
  /\ applied' = [applied EXCEPT ![id] = outcome]
  /\ range' = range \ {id} /\ stage' = "row"

(* A row that is done already, or of a day somebody has filled in.         *)
PassRow(id) ==
  /\ stage = "row" /\ FirstOf(id)
  /\ SortedNow(id) \in {"already_synced", "conflict_preserved"}
  /\ ReportRow(id, SortedNow(id))
  /\ UNCHANGED <<vars, plan, accepted, pending, made, run>>

Staged(id, st, a) == Upsert(id, st, a) /\ UNCHANGED <<environment, worker>>

(* An outcome that leaves the attendances alone, staged in one call.       *)
SetAside(id) ==
  LET what == SortedNow(id)
  IN  /\ stage = "row" /\ FirstOf(id)
      /\ what \in {"employee_not_found", "denied_ignored", "duplicate_ignored"}
      /\ Staged(id, what, IF what = "duplicate_ignored"
                          THEN accepted[rows[id].emp].att ELSE NoAttendance)
      /\ ReportRow(id, what)
      /\ UNCHANGED <<plan, accepted, pending, made, run>>

IsOpen(e) == pending[e].in # -1
OpenEarlierDay(e, id) == IsOpen(e) /\ Day(pending[e].in) < Day(rows[id].at)

(* Fault: the check-in is remembered at the time of the run.               *)
OpenedNow(id) == [in |-> now, att |-> NoAttendance, ev |-> id, row |-> TRUE]

OpenedBy(id) == [in |-> rows[id].at, att |-> NoAttendance, ev |-> id, row |-> TRUE]

(* Fault: the punch is not remembered, as if it came from another range.   *)
NotRemembered(id, a) == UNCHANGED accepted

Remember(id, a) ==
  accepted' = [accepted EXCEPT ![rows[id].emp] = [at |-> rows[id].at, att |-> a]]

(* The check-in is staged and remembered; no attendance yet.               *)
TakeCheckIn(id) ==
  LET e == rows[id].emp
  IN  /\ stage = "row" /\ FirstOf(id) /\ SortedNow(id) = "toggle"
      /\ ~IsOpen(e)
      /\ Staged(id, "pending", NoAttendance)
      /\ pending' = [pending EXCEPT ![e] = OpenedBy(id)]
      /\ Remember(id, NoAttendance)
      /\ ReportRow(id, "check_in_created")
      /\ UNCHANGED <<plan, made, run>>

(* A write of hr.attendance: the open one, or one that is created whole.   *)
Filled(e, out, outEv, reason) ==
  LET p == pending[e]
      b == [emp |-> e, in |-> p.in, out |-> out, inEv |-> p.ev, outEv |-> outEv,
            src |-> "biometric", auto |-> reason]
  IN  IF p.att = NoAttendance THEN Append(attendance, b)
      ELSE IF reason = "no"
      THEN [attendance EXCEPT ![p.att] = [@ EXCEPT !.out = out, !.outEv = outEv, !.src = "biometric"]]
      ELSE [attendance EXCEPT ![p.att] = [@ EXCEPT !.out = out, !.auto = reason]]

Materialize(e, out, outEv, reason, next) ==
  LET table == Filled(e, out, outEv, reason)
      i == IF pending[e].att = NoAttendance THEN Len(table) ELSE pending[e].att
  IN  /\ IF OdooAccepts(table, i)
         THEN attendance' = table /\ made' = i /\ stage' = next
              /\ UNCHANGED <<plan, range, accepted, pending, applied, run>>
         ELSE UNCHANGED attendance /\ Stop("failed")
      /\ UNCHANGED <<environment, worker, cursor, event, lastClose, lastReconcile>>

(* _materialize_auto_close, before the first punch of a later day or, when *)
(* the rows are through, for the check-ins of this run of a past day.      *)
CloseEarlierDay(id) ==
  LET e == rows[id].emp
  IN  /\ stage = "row" /\ FirstOf(id) /\ SortedNow(id) = "toggle"
      /\ OpenEarlierDay(e, id)
      /\ Materialize(e, EndOfDay(Day(pending[e].in)), NoEvent, "new_day", "markClosed")

CloseAtEnd(e) ==
  /\ stage = "end" /\ IsOpen(e)
  /\ Materialize(e, EndOfDay(Day(pending[e].in)), NoEvent, "eod", "markClosed")

(* The event of the check-in, when it is known, is marked last.            *)
MarkClosed(e) ==
  /\ stage = "markClosed" /\ attendance[made].emp = e
  /\ event' = IF pending[e].ev = NoEvent THEN event
              ELSE [event EXCEPT ![pending[e].ev] =
                      [status |-> "check_in_created", att |-> made, flagged |-> TRUE]]
  /\ pending' = [pending EXCEPT ![e] = NotOpen]
  /\ accepted' = [accepted EXCEPT ![e].att = IF @ = NoAttendance THEN made ELSE @]
  /\ made' = NoAttendance
  /\ stage' = IF range = {} THEN "end" ELSE "row"
  /\ UNCHANGED <<environment, worker, cursor, attendance, lastClose, lastReconcile,
                 plan, range, applied, run>>

(* _materialize_checkout: the punch is staged, the attendance written, the *)
(* check-in's event marked if it waited for it, then the check-out's.      *)
StageCheckOut(id) ==
  LET e == rows[id].emp
  IN  /\ stage = "row" /\ FirstOf(id) /\ SortedNow(id) = "toggle"
      /\ IsOpen(e) /\ ~OpenEarlierDay(e, id)
      /\ Staged(id, "pending", NoAttendance)
      /\ stage' = "checkOut"
      /\ UNCHANGED <<plan, memory, run>>

WriteOut(id) ==
  /\ stage = "checkOut" /\ FirstOf(id)
  /\ Materialize(rows[id].emp, rows[id].at, id, "no",
                 IF pending[rows[id].emp].att = NoAttendance THEN "markIn" ELSE "markOut")

MarkIn(id) ==
  /\ stage = "markIn" /\ FirstOf(id) /\ stage' = "markOut"
  /\ event' = [event EXCEPT ![pending[rows[id].emp].ev].status = "check_in_created",
                            ![pending[rows[id].emp].ev].att = made]
  /\ UNCHANGED <<environment, worker, cursor, attendance, lastClose, lastReconcile,
                 plan, memory, run>>

MarkOut(id) ==
  /\ stage = "markOut" /\ FirstOf(id)
  /\ event' = [event EXCEPT ![id].status = "check_out_written", ![id].att = made]
  /\ Remember(id, made)
  /\ pending' = [pending EXCEPT ![rows[id].emp] = NotOpen]
  /\ made' = NoAttendance
  /\ ReportRow(id, "check_out_written")
  /\ UNCHANGED <<environment, worker, cursor, attendance, lastClose, lastReconcile,
                 plan, run>>

(***************************************************************************)
(* The end                                                                 *)
(***************************************************************************)
(* Fault: the rule of the end of the day is left to the worker's close run.*)
EndRowsOnly ==
  /\ stage = "row" /\ range = {} /\ stage' = "end"
  /\ pending' = [e \in Employees |-> NotOpen]
  /\ UNCHANGED <<vars, plan, range, accepted, made, applied, run>>

(* Check-ins of the day of the run, and attendances that were open before, *)
(* are left as they are.                                                   *)
EndRows ==
  /\ stage = "row" /\ range = {} /\ stage' = "end"
  /\ pending' = [e \in Employees |->
       IF pending[e].row /\ Day(pending[e].in) < Day(now) THEN pending[e] ELSE NotOpen]
  /\ UNCHANGED <<vars, plan, range, accepted, made, applied, run>>

Finish ==
  /\ stage = "end" /\ \A e \in Employees : ~IsOpen(e)
  /\ Stop(IF cursor = snapshot THEN "success" ELSE "failed")
  /\ UNCHANGED vars

(* A call fails, with or without its effect, or the process dies.          *)
ApplyFails ==
  /\ stage # "off" /\ faults < MaxFaults /\ faults' = faults + 1
  /\ Stop("failed")
  /\ UNCHANGED <<now, rows, manual, odoo, worker>>

ApplyRow(id) ==
  \/ PassRow(id) \/ SetAside(id) \/ TakeCheckIn(id)
  \/ CloseEarlierDay(id) \/ StageCheckOut(id) \/ WriteOut(id) \/ MarkIn(id) \/ MarkOut(id)

BackfillStep ==
  \/ ReadOpen \/ EndRows \/ Finish
  \/ \E id \in range : ApplyRow(id)
  \/ \E e \in Employees : CloseAtEnd(e) \/ MarkClosed(e)

(* Anything else that happens around it.  The worker's own failures, and   *)
(* what they do to its rows, are AttendanceSync's.                         *)
Around ==
  \/ stage = "off" /\ WorkerStep
  \/ Tick
  \/ \E e \in Employees : OtherCheckIn(e)
  \/ \E i \in DOMAIN attendance : OtherCheckOut(i)

BackfillNext ==
  \/ BackfillStep \/ ApplyFails
  \/ \E lo \in Ids : \E hi \in lo .. MaxId :
       StartApply({id \in Committed : lo <= id /\ id <= hi})
  \/ Around /\ UNCHANGED backfill

BackfillSpec == BackfillInit /\ [][BackfillNext]_bvars

(***************************************************************************)
(* Properties                                                              *)
(***************************************************************************)
Stages == {"off", "read", "row", "markClosed", "checkOut", "markIn", "markOut", "end"}

(* The types of what the run holds, and that it holds an attendance only   *)
(* while its events are to be marked.                                      *)
BackfillTypeOK ==
  /\ stage \in Stages /\ range \subseteq Committed
  /\ existing \in [Ids -> Status]
  /\ conflicts \subseteq Employees \X Nat
  /\ \A e \in Employees :
       /\ accepted[e].att \in DOMAIN attendance \cup {NoAttendance}
       /\ pending[e].att \in DOMAIN attendance \cup {NoAttendance}
       /\ pending[e].row => pending[e].ev \in Ids /\ pending[e].in = rows[pending[e].ev].at
  /\ made # NoAttendance <=> stage \in {"markClosed", "markIn", "markOut"}
  /\ stage \in {"checkOut", "markIn", "markOut"} => range # {}
  /\ run \in {"none", "running", "success", "failed"}

(* "el backfill historico es rerunnable sin duplicados": whatever failures *)
(* and runs over whichever ranges, no punch of the gap is in two           *)
(* attendances.  A punch past the gap may be: a failed run can leave it    *)
(* pending, with its attendance made, and the worker then takes it too.    *)
PunchUsedOnce ==
  \A i, j \in DOMAIN attendance :
    i # j => {attendance[i].inEv, attendance[i].outEv}
             \cap {attendance[j].inEv, attendance[j].outEv} \cap 1 .. Gap = {}

(* A run that ended well has settled every row it reported, but for the    *)
(* days it left alone and check-ins of a day that is not over.             *)
SuccessSettlesRange ==
  run = "success" /\ stage = "off" =>
    \A id \in Ids :
      applied[id] \in Final =>
        \/ event[id].status \in Final
        \/ /\ event[id].status = "pending" /\ applied[id] = "check_in_created"
           /\ Day(rows[id].at) >= Day(Started)

(* A dry run reports what the apply then does: when nothing failed, every  *)
(* row got the outcome _simulate_rows gives it.                            *)
DryRunPredicts == run = "success" => applied = predicted

(* conflict_preserved: the run adds no attendance to a day on which the    *)
(* employee had one when it began.                                         *)
BusyDaysUntouched ==
  [][made' \in DOMAIN attendance' \ DOMAIN attendance =>
       \A j \in 1 .. base :
         attendance[j].emp = attendance'[made'].emp
         => Day(attendance[j].in) # Day(attendance'[made'].in)]_bvars
=============================================================================
