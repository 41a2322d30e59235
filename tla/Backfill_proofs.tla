--------------------------- MODULE Backfill_proofs ---------------------------
(***************************************************************************)
(* Proofs about the backfill, for every gap, every choice of punches and   *)
(* ranges, every number of runs, failures and edits made by others.        *)
(***************************************************************************)
EXTENDS Backfill, AttendanceRecords_proofs, NaturalsInduction, WellFoundedInduction

(***************************************************************************)
(* Numbers                                                                 *)
(***************************************************************************)
LEMMA LeastNat ==
  ASSUME NEW T, T \subseteq Nat, T # {}
  PROVE  \E n \in T : \A m \in T : n <= m
<1>1. PICK x \in T : \A y \in T : ~ (<<y, x>> \in OpToRel(<, Nat))
  BY WFMin, NatLessThanWellFounded
<1>2. \A y \in T : ~(y < x)
  BY <1>1 DEF OpToRel
<1>3. \A y \in T : y \in Nat
  OBVIOUS
<1>4. \A y \in T : x <= y
  BY <1>2, <1>3
<1> QED
  BY <1>4

LEMMA SetInduction ==
  ASSUME NEW P, 0 \in P, \A n \in Nat : n \in P => n + 1 \in P
  PROVE  Nat \subseteq P
<1>1. SUFFICES ASSUME Nat \ P # {} PROVE FALSE
  OBVIOUS
<1>2. PICK n \in Nat \ P : \A m \in Nat \ P : n <= m
  BY <1>1, LeastNat
<1>3. n # 0 /\ n - 1 \in Nat /\ n - 1 \in P
  BY <1>2
<1>4. n - 1 + 1 \in P
  BY <1>3
<1> QED
  BY <1>2, <1>4

(* Of several rows, or attendances, one is the latest: the order is by     *)
(* time and, at one time, by identifier.                                   *)
LEMMA LatestExists ==
  ASSUME NEW len \in Nat, NEW bound \in Nat, NEW at, NEW T, T \subseteq 1 .. len, T # {},
         \A i \in T : at[i] \in Nat /\ at[i] <= bound
  PROVE  \E i \in T : \A o \in T : at[o] < at[i] \/ (at[o] = at[i] /\ o <= i)
<1> DEFINE gaps == {bound - at[i] : i \in T}
<1>1. PICK g \in gaps : \A h \in gaps : g <= h
  <2>1. \A i \in T : bound - at[i] \in Nat
    OBVIOUS
  <2>2. gaps \subseteq Nat /\ gaps # {}
    BY <2>1
  <2> HIDE DEF gaps
  <2> QED
    BY <2>2, LeastNat
<1>2. PICK k \in T : g = bound - at[k]
  OBVIOUS
<1>3. \A o \in T : at[o] <= at[k]
  <2>1. SUFFICES ASSUME NEW o \in T PROVE at[o] <= at[k]
    OBVIOUS
  <2>2. bound - at[k] <= bound - at[o]
    BY <1>1, <1>2
  <2>3. at[o] \in Nat /\ at[k] \in Nat
    OBVIOUS
  <2> QED
    BY <2>2, <2>3
<1> DEFINE same == {i \in T : at[i] = at[k]}
           lows == {len - i : i \in same}
<1>4. PICK l \in lows : \A h \in lows : l <= h
  <2>1. \A i \in same : len - i \in Nat
    OBVIOUS
  <2>2. lows \subseteq Nat /\ lows # {}
    BY <1>2, <2>1
  <2> HIDE DEF lows
  <2> QED
    BY <2>2, LeastNat
<1>5. PICK i \in same : l = len - i
  OBVIOUS
<1>6. \A o \in same : o <= i
  <2>1. SUFFICES ASSUME NEW o \in same PROVE o <= i
    OBVIOUS
  <2>2. len - i <= len - o
    BY <1>4, <1>5
  <2>3. o \in Nat /\ i \in Nat
    OBVIOUS
  <2> QED
    BY <2>2, <2>3
<1>7. \A o \in T : at[o] < at[i] \/ (at[o] = at[i] /\ o <= i)
  BY <1>3, <1>5, <1>6
<1> QED
  BY <1>5, <1>7

(* Days follow each other in the order of their ticks.                     *)
LEMMA DayOrder ==
  ASSUME NEW s \in Nat, NEW t \in Nat, s <= t
  PROVE  Day(s) <= Day(t)
BY SyncAssumption DEF Day

(***************************************************************************)
(* The invariant: what is true of the rows and of what a run remembers     *)
(***************************************************************************)
Reports == {"none", "already_synced", "conflict_preserved", "employee_not_found",
            "denied_ignored", "duplicate_ignored", "check_in_created", "check_out_written"}
PunchMemory == [at : Nat \cup {-1}, att : Nat]
OpenMemory == [in : Nat \cup {-1}, att : Nat, ev : Ids \cup {NoEvent}, row : BOOLEAN]

(* The rows are there when the gap is found, and the worker is beyond it.  *)
GapInv ==
  /\ now >= Started
  /\ \A id \in Ids : rows[id] \in Row /\ rows[id].at <= Started
  /\ cursor >= Gap /\ \A id \in todo : id > Gap

MemoryInv ==
  /\ accepted \in [Employees -> PunchMemory]
  /\ pending \in [Employees -> OpenMemory]
  /\ applied \in [Ids -> Reports]
  /\ base \in Nat /\ base <= Len(attendance)
  /\ \A id \in Ids : event[id].att \in DOMAIN attendance \cup {NoAttendance}

(* A check-in that is remembered comes from a row that is done with and    *)
(* has no attendance yet, or from an attendance that is in Odoo.           *)
PendInv ==
  \A e \in Employees :
    /\ pending[e].row =>
         /\ pending[e].ev \in Ids \ range /\ rows[pending[e].ev].emp = e
         /\ pending[e].in = rows[pending[e].ev].at /\ pending[e].att = NoAttendance
    /\ ~pending[e].row /\ IsOpen(e) => pending[e].att # NoAttendance
    /\ pending[e].att # NoAttendance =>
         /\ pending[e].att \in DOMAIN attendance /\ attendance[pending[e].att].emp = e
         /\ attendance[pending[e].att].in = pending[e].in

OutStages == {"checkOut", "markIn", "markOut"}
MarkStages == {"markClosed", "markIn", "markOut"}

(* Between two calls for one row, the row still is what was decided.       *)
ApplyInv ==
  /\ stage # "off" => pc = "idle"
  /\ stage = "off" => range = {}
  /\ stage \in {"off", "read"} => \A e \in Employees : pending[e] = NotOpen
  /\ stage = "end" => range = {}
  /\ \A id \in range : FirstOf(id) =>
       /\ stage \in OutStages =>
            /\ SortedNow(id) = "toggle" /\ IsOpen(rows[id].emp)
            /\ ~OpenEarlierDay(rows[id].emp, id)
       /\ stage \in {"markIn", "markOut"} => attendance[made].emp = rows[id].emp
       /\ stage = "markIn" => pending[rows[id].emp].row
       /\ stage = "markClosed" =>
            /\ SortedNow(id) = "toggle" /\ attendance[made].emp = rows[id].emp
            /\ OpenEarlierDay(rows[id].emp, id)
  /\ stage \in MarkStages => made \in DOMAIN attendance /\ IsOpen(attendance[made].emp)

RunInv == TypeOK /\ GapInv /\ MemoryInv /\ PendInv /\ ApplyInv /\ BackfillTypeOK

LEMMA RowTypes ==
  ASSUME GapInv
  PROVE  /\ Committed = Ids
         /\ \A id \in Ids :
              /\ rows[id].at \in Nat /\ rows[id].at <= Started
              /\ rows[id].emp \in Employees \cup {NoEmployee} /\ rows[id].granted \in BOOLEAN
              /\ Day(rows[id].at) \in Nat
<1>1. \A r \in Row : /\ r.at \in Nat /\ r.emp \in Employees \cup {NoEmployee}
                     /\ r.granted \in BOOLEAN
  BY DEF Row
<1>2. \A id \in Ids : rows[id] \in Row /\ rows[id].at <= Started
  BY DEF GapInv
<1>3. \A id \in Ids : rows[id] # NoRow
  BY <1>1, <1>2 DEF NoRow
<1>4. \A id \in Ids : Day(rows[id].at) \in Nat
  BY <1>1, <1>2, DayType
<1> QED
  BY <1>1, <1>2, <1>3, <1>4 DEF Committed

LEMMA MemoryTypes ==
  ASSUME MemoryInv, NEW e \in Employees
  PROVE  /\ pending[e] \in OpenMemory /\ accepted[e] \in PunchMemory
         /\ pending[e].in \in Nat \cup {-1} /\ pending[e].att \in Nat
         /\ pending[e].ev \in Ids \cup {NoEvent} /\ pending[e].row \in BOOLEAN
         /\ accepted[e].at \in Nat \cup {-1} /\ accepted[e].att \in Nat
<1>1. pending[e] \in OpenMemory /\ accepted[e] \in PunchMemory
  BY DEF MemoryInv
<1> QED
  BY <1>1 DEF OpenMemory, PunchMemory

(* What a write for the check-in of e leaves in the table t, as record i.  *)
Written(t, i, e, out, outEv) ==
  /\ t \in Seq(AttendanceRecord) /\ Len(t) >= Len(attendance)
  /\ DOMAIN attendance \subseteq DOMAIN t /\ i \in DOMAIN t
  /\ \A j \in DOMAIN t \ {i} : j \in DOMAIN attendance /\ t[j] = attendance[j]
  /\ t[i].emp = e /\ t[i].in = pending[e].in /\ t[i].out = out
  /\ i \in DOMAIN attendance =>
       /\ attendance[i].emp = e /\ attendance[i].in = pending[e].in
       /\ pending[e].att = i /\ ~pending[e].row
       /\ t[i].inEv = attendance[i].inEv /\ t[i].outEv \in {attendance[i].outEv, outEv}
  /\ i \notin DOMAIN attendance =>
       /\ pending[e].att = NoAttendance /\ pending[e].row
       /\ t[i].inEv = pending[e].ev /\ t[i].outEv = outEv

LEMMA FilledFields ==
  ASSUME TypeOK, MemoryInv, PendInv, NEW e \in Employees, IsOpen(e), NEW out \in Nat,
         NEW outEv \in Ids \cup {NoEvent}, NEW reason \in {"no", "new_day", "eod"}
  PROVE  LET t == Filled(e, out, outEv, reason)
         IN  Written(t, IF pending[e].att = NoAttendance THEN Len(t) ELSE pending[e].att,
                     e, out, outEv)
<1> DEFINE t == Filled(e, out, outEv, reason)
<1>seq. /\ attendance \in Seq(AttendanceRecord) /\ Len(attendance) \in Nat
        /\ DOMAIN attendance = 1 .. Len(attendance)
  BY DEF TypeOK
<1>in. pending[e].in \in Nat
  BY MemoryTypes DEF IsOpen
<1>1. CASE pending[e].att = NoAttendance
  <2> DEFINE b == [emp |-> e, in |-> pending[e].in, out |-> out, inEv |-> pending[e].ev,
                   outEv |-> outEv, src |-> "biometric", auto |-> reason]
  <2>1. t = Append(attendance, b)
    BY <1>1 DEF Filled
  <2>2. b \in AttendanceRecord
    BY <1>in, MemoryTypes DEF AttendanceRecord
  <2>3. /\ b.emp = e /\ b.in = pending[e].in /\ b.out = out /\ b.inEv = pending[e].ev
        /\ b.outEv = outEv
    OBVIOUS
  <2>4. pending[e].row
    BY <1>1 DEF PendInv
  <2> HIDE DEF b, t
  <2>5. /\ t \in Seq(AttendanceRecord) /\ Len(t) = Len(attendance) + 1
        /\ DOMAIN t = 1 .. Len(attendance) + 1
        /\ \A j \in DOMAIN attendance : t[j] = attendance[j]
        /\ t[Len(attendance) + 1] = b
    BY <2>1, <2>2, <1>seq
  <2>6. Written(t, Len(t), e, out, outEv)
    BY <2>3, <2>4, <2>5, <1>1, <1>seq DEF Written
  <2> QED
    BY <2>6, <1>1 DEF t
<1>2. CASE pending[e].att # NoAttendance
  <2> DEFINE i == pending[e].att
             a == attendance[i]
  <2>1. i \in DOMAIN attendance /\ a.emp = e /\ a.in = pending[e].in /\ ~pending[e].row
    BY <1>2 DEF PendInv
  <2>2. a \in AttendanceRecord
    BY <1>seq, <2>1
  <2>3. PICK r : /\ t = [attendance EXCEPT ![i] = r] /\ r \in AttendanceRecord
                 /\ r.emp = a.emp /\ r.in = a.in /\ r.out = out /\ r.inEv = a.inEv
                 /\ r.outEv \in {a.outEv, outEv}
    <3>1. CASE reason = "no"
      <4> DEFINE r == [a EXCEPT !.out = out, !.outEv = outEv, !.src = "biometric"]
      <4>1. /\ r \in AttendanceRecord /\ r.emp = a.emp /\ r.in = a.in /\ r.out = out
            /\ r.inEv = a.inEv /\ r.outEv = outEv
        BY <2>2 DEF AttendanceRecord
      <4>2. t = [attendance EXCEPT ![i] = r]
        BY <1>2, <3>1 DEF Filled
      <4> HIDE DEF r, t, i, a
      <4> QED
        BY <4>1, <4>2
    <3>2. CASE reason # "no"
      <4> DEFINE r == [a EXCEPT !.out = out, !.auto = reason]
      <4>1. /\ r \in AttendanceRecord /\ r.emp = a.emp /\ r.in = a.in /\ r.out = out
            /\ r.inEv = a.inEv /\ r.outEv = a.outEv
        BY <2>2 DEF AttendanceRecord
      <4>2. t = [attendance EXCEPT ![i] = r]
        BY <1>2, <3>2 DEF Filled
      <4> HIDE DEF r, t, i, a
      <4> QED
        BY <4>1, <4>2
    <3> QED
      BY <3>1, <3>2
  <2> HIDE DEF t
  <2>4. /\ t \in Seq(AttendanceRecord) /\ Len(t) = Len(attendance)
        /\ DOMAIN t = DOMAIN attendance /\ t[i] = r
        /\ \A j \in DOMAIN attendance \ {i} : t[j] = attendance[j]
    BY <2>1, <2>3, <1>seq, ExceptSeq
  <2>5. Written(t, i, e, out, outEv)
    BY <2>1, <2>3, <2>4, <1>seq DEF Written
  <2> QED
    BY <2>5, <1>2 DEF t
<1> QED
  BY <1>1, <1>2

(* Such a write is refused, and the run over, or it is made.               *)
LEMMA MaterializeShape ==
  ASSUME TypeOK, MemoryInv, PendInv, NEW e \in Employees, IsOpen(e), NEW out \in Nat,
         NEW outEv \in Ids \cup {NoEvent}, NEW reason \in {"no", "new_day", "eod"}, NEW next,
         Materialize(e, out, outEv, reason, next)
  PROVE  \/ UNCHANGED vars /\ Stop("failed")
         \/ /\ Written(attendance', made', e, out, outEv) /\ pending[e].in <= out
            /\ stage' = next
            /\ UNCHANGED <<environment, worker, cursor, event, lastClose, lastReconcile,
                           plan, range, accepted, pending, applied, run>>
<1> DEFINE t == Filled(e, out, outEv, reason)
           i == IF pending[e].att = NoAttendance THEN Len(t) ELSE pending[e].att
<1>1. Written(t, i, e, out, outEv)
  BY FilledFields
<1>2. \/ /\ ~OdooAccepts(t, i) /\ UNCHANGED attendance /\ Stop("failed")
         /\ UNCHANGED <<environment, worker, cursor, event, lastClose, lastReconcile>>
      \/ /\ OdooAccepts(t, i) /\ attendance' = t /\ made' = i /\ stage' = next
         /\ UNCHANGED <<environment, worker, cursor, event, lastClose, lastReconcile,
                        plan, range, accepted, pending, applied, run>>
  BY DEF Materialize
<1> HIDE DEF t, i
<1>3. CASE /\ UNCHANGED attendance /\ Stop("failed")
           /\ UNCHANGED <<environment, worker, cursor, event, lastClose, lastReconcile>>
  BY <1>3 DEF vars, environment, worker, local
<1>4. CASE OdooAccepts(t, i)
  <2>1. t[i].in = pending[e].in /\ t[i].out = out /\ out # Open
    BY <1>1 DEF Written, Open
  <2>2. pending[e].in <= out
    BY <2>1, <1>4 DEF OdooAccepts
  <2> QED
    BY <1>1, <1>2, <1>4, <2>2
<1> QED
  BY <1>2, <1>3, <1>4

LEMMA CloseEarlierShape ==
  ASSUME TypeOK, MemoryInv, PendInv, NEW id \in Ids, rows[id].emp \in Employees,
         CloseEarlierDay(id)
  PROVE  LET e == rows[id].emp
             out == EndOfDay(Day(pending[e].in))
         IN  \/ UNCHANGED vars /\ Stop("failed")
             \/ /\ Written(attendance', made', e, out, NoEvent) /\ stage' = "markClosed"
                /\ UNCHANGED <<environment, worker, cursor, event, lastClose, lastReconcile,
                               plan, range, accepted, pending, applied, run>>
<1> DEFINE e == rows[id].emp
           out == EndOfDay(Day(pending[e].in))
<1>1. IsOpen(e) /\ Materialize(e, out, NoEvent, "new_day", "markClosed")
  BY DEF CloseEarlierDay, OpenEarlierDay
<1>2. out \in Nat
  <2>1. pending[e].in \in Nat
    BY <1>1, MemoryTypes DEF IsOpen
  <2> QED
    BY <2>1, DayType
<1> HIDE DEF e, out
<1>3. e \in Employees
  BY DEF e
<1> QED
  BY <1>1, <1>2, <1>3, MaterializeShape DEF e, out

LEMMA CloseAtEndShape ==
  ASSUME TypeOK, MemoryInv, PendInv, NEW e \in Employees, CloseAtEnd(e)
  PROVE  LET out == EndOfDay(Day(pending[e].in))
         IN  \/ UNCHANGED vars /\ Stop("failed")
             \/ /\ Written(attendance', made', e, out, NoEvent) /\ stage' = "markClosed"
                /\ UNCHANGED <<environment, worker, cursor, event, lastClose, lastReconcile,
                               plan, range, accepted, pending, applied, run>>
<1> DEFINE out == EndOfDay(Day(pending[e].in))
<1>1. IsOpen(e) /\ Materialize(e, out, NoEvent, "eod", "markClosed")
  BY DEF CloseAtEnd
<1>2. out \in Nat
  <2>1. pending[e].in \in Nat
    BY <1>1, MemoryTypes DEF IsOpen
  <2> QED
    BY <2>1, DayType
<1> HIDE DEF out
<1> QED
  BY <1>1, <1>2, MaterializeShape DEF out

LEMMA WriteOutShape ==
  ASSUME TypeOK, GapInv, MemoryInv, PendInv, NEW id \in Ids, rows[id].emp \in Employees,
         IsOpen(rows[id].emp), WriteOut(id)
  PROVE  LET e == rows[id].emp
         IN  \/ UNCHANGED vars /\ Stop("failed")
             \/ /\ Written(attendance', made', e, rows[id].at, id)
                /\ pending[e].in <= rows[id].at
                /\ stage' = IF pending[e].att = NoAttendance THEN "markIn" ELSE "markOut"
                /\ UNCHANGED <<environment, worker, cursor, event, lastClose, lastReconcile,
                               plan, range, accepted, pending, applied, run>>
<1> DEFINE e == rows[id].emp
           next == IF pending[e].att = NoAttendance THEN "markIn" ELSE "markOut"
<1>1. Materialize(e, rows[id].at, id, "no", next)
  BY DEF WriteOut
<1>2. rows[id].at \in Nat
  BY RowTypes
<1> HIDE DEF next
<1>3. \/ UNCHANGED vars /\ Stop("failed")
      \/ /\ Written(attendance', made', e, rows[id].at, id)
         /\ pending[e].in <= rows[id].at
         /\ stage' = next
         /\ UNCHANGED <<environment, worker, cursor, event, lastClose, lastReconcile,
                        plan, range, accepted, pending, applied, run>>
  BY <1>1, <1>2, MaterializeShape
<1> QED
  BY <1>3 DEF next

(***************************************************************************)
(* Types, and what is remembered                                           *)
(***************************************************************************)
(* A run of the backfill leaves the worker, its dates and the rows alone.  *)
LEMMA Frame ==
  ASSUME BackfillStep \/ ApplyFails
  PROVE  /\ UNCHANGED <<now, rows, cursor, lastClose, lastReconcile, worker, manual>>
         /\ UNCHANGED <<pc, todo, cur, seen, cfgClose, held, closing, runDate>>
         /\ faults' \in {faults, faults + 1}
<1>1. CASE ReadOpen \/ EndRows \/ Finish \/ ApplyFails
  BY <1>1 DEF ReadOpen, EndRows, Finish, ApplyFails, vars, odoo, worker, local
<1>2. ASSUME NEW e \in Employees, CloseAtEnd(e) \/ MarkClosed(e)
      PROVE  /\ UNCHANGED <<now, rows, cursor, lastClose, lastReconcile, worker, manual>>
             /\ faults' = faults
  BY <1>2 DEF CloseAtEnd, MarkClosed, Materialize, environment
<1>3. ASSUME NEW id \in range, ApplyRow(id)
      PROVE  /\ UNCHANGED <<now, rows, cursor, lastClose, lastReconcile, worker, manual>>
             /\ faults' = faults
  BY <1>3 DEF ApplyRow, PassRow, SetAside, TakeCheckIn, CloseEarlierDay, StageCheckOut,
     WriteOut, MarkIn, MarkOut, Materialize, Staged, Upsert, environment, vars, worker, local
<1> QED
  BY <1>1, <1>2, <1>3 DEF BackfillStep, worker, local

(* The types of the worker's module, when a run writes events and          *)
(* attendances of their type.                                              *)
LEMMA WorldType ==
  ASSUME TypeOK, pc = "idle",
         UNCHANGED <<now, rows, cursor, lastClose, lastReconcile, manual>>,
         UNCHANGED <<pc, todo, cur, seen, cfgClose, held, closing, runDate>>,
         faults' \in {faults, faults + 1},
         event' \in [Ids -> [status : Status, att : Nat, flagged : BOOLEAN]],
         attendance' \in Seq(AttendanceRecord)
  PROVE  TypeOK'
BY DEF TypeOK, NoAttendance, RowStates, ToggleStates, HoldingStates, CloseStates, Committed

LEMMA SortedIs ==
  ASSUME NEW id \in Ids
  PROVE  SortedNow(id) \in {"already_synced", "conflict_preserved", "employee_not_found",
                            "denied_ignored", "duplicate_ignored", "toggle"}
BY DEF SortedNow, Sorted

(* A row that toggles is an employee's, granted, and its day is not taken. *)
LEMMA ToggleRow ==
  ASSUME GapInv, NEW id \in Ids, SortedNow(id) = "toggle"
  PROVE  /\ rows[id].emp \in Employees /\ rows[id].granted
         /\ <<rows[id].emp, Day(rows[id].at)>> \notin conflicts
BY RowTypes DEF SortedNow, Sorted

LEMMA SortedSame ==
  ASSUME UNCHANGED <<rows, existing, conflicts>>,
         \A e \in Employees : accepted'[e].at = accepted[e].at, NEW id \in Ids
  PROVE  SortedNow(id)' = SortedNow(id)
<1>1. CASE rows[id].emp \in Employees
  BY <1>1 DEF SortedNow
<1>2. CASE rows[id].emp \notin Employees
  BY <1>2 DEF SortedNow
<1> QED
  BY <1>1, <1>2

LEMMA StagedShape ==
  ASSUME TypeOK, NEW id \in Ids, NEW st \in Status, NEW a \in Nat, Staged(id, st, a)
  PROVE  /\ event' \in [Ids -> [status : Status, att : Nat, flagged : BOOLEAN]]
         /\ event'[id].status = st /\ event'[id].att = a
         /\ \A o \in Ids \ {id} : event'[o] = event[o]
         /\ UNCHANGED <<now, rows, faults, manual, pc, todo, cur, seen, cfgClose, held,
                        closing, runDate, cursor, attendance, lastClose, lastReconcile>>
<1>1. Upsert(id, st, a) /\ UNCHANGED <<environment, worker>>
  BY DEF Staged
<1>2. event'[id].att = a
  BY <1>1 DEF Upsert, TypeOK
<1> QED
  BY <1>1, <1>2, UpsertType DEF Upsert, environment, worker, local

(* However a run ends, nothing of what it remembered is left.              *)
LEMMA StopRun ==
  ASSUME RunInv, NEW st \in {"failed", "success"}, Stop(st), stage # "off",
         UNCHANGED <<now, rows, cursor, event, attendance, lastClose, lastReconcile, manual>>,
         UNCHANGED <<pc, todo, cur, seen, cfgClose, held, closing, runDate>>,
         faults' \in {faults, faults + 1}
  PROVE  RunInv'
<1>1. /\ stage' = "off" /\ range' = {} /\ made' = NoAttendance /\ run' = st
      /\ accepted' = [e \in Employees |-> NoPunch]
      /\ pending' = [e \in Employees |-> NotOpen]
      /\ UNCHANGED <<existing, conflicts, base, applied>>
  BY DEF Stop, plan
<1>2. TypeOK'
  BY WorldType DEF RunInv, ApplyInv, TypeOK
<1>3. GapInv'
  BY DEF RunInv, GapInv
<1>4. MemoryInv'
  BY <1>1 DEF RunInv, MemoryInv, PunchMemory, OpenMemory, NoPunch, NotOpen, NoAttendance, NoEvent
<1>5. PendInv'
  BY <1>1 DEF PendInv, IsOpen, NotOpen, NoAttendance
<1>6. ApplyInv'
  BY <1>1 DEF ApplyInv, OutStages, MarkStages
<1>7. BackfillTypeOK'
  BY <1>1 DEF RunInv, BackfillTypeOK, Stages, NoPunch, NotOpen
<1> QED
  BY <1>2, <1>3, <1>4, <1>5, <1>6, <1>7 DEF RunInv

LEMMA BusyDaysType ==
  ASSUME TypeOK, NEW ids PROVE BusyDays(ids) \subseteq Employees \X Nat
<1>1. \A i \in DOMAIN attendance :
        attendance[i].emp \in Employees /\ Day(attendance[i].in) \in Nat
  BY RecordTypes, DayType
<1> QED
  BY <1>1 DEF BusyDays

LEMMA StartRun ==
  ASSUME RunInv, NEW ids \in SUBSET Committed, StartApply(ids) PROVE RunInv'
<1>1. /\ stage = "off" /\ pc = "idle" /\ stage' = "read" /\ range' = ids /\ run' = "running"
      /\ base' = Len(attendance) /\ conflicts' = BusyDays(ids) /\ applied' = Blank
      /\ existing' = [id \in Ids |-> IF id \in ids THEN event[id].status ELSE "none"]
      /\ UNCHANGED <<accepted, pending, made>> /\ UNCHANGED vars
  BY DEF StartApply
<1>2. TypeOK'
  BY <1>1, TypeStep DEF RunInv
<1>3. GapInv'
  BY <1>1 DEF RunInv, GapInv, vars
<1>4. Len(attendance) \in Nat /\ Blank \in [Ids -> Reports]
  BY RecordTypes DEF RunInv, Blank, Reports
<1>5. MemoryInv'
  BY <1>1, <1>4 DEF RunInv, MemoryInv, vars
<1>p. \A e \in Employees : pending'[e] = NotOpen
  BY <1>1 DEF RunInv, ApplyInv
<1>6. PendInv'
  BY <1>p DEF PendInv, IsOpen, NotOpen, NoAttendance
<1>7. ApplyInv'
  BY <1>1, <1>p DEF ApplyInv, OutStages, MarkStages, vars
<1>8. BackfillTypeOK'
  <2>1. existing' \in [Ids -> Status]
    BY <1>1 DEF RunInv, TypeOK, Status
  <2>2. conflicts' \subseteq Employees \X Nat
    BY <1>1, BusyDaysType DEF RunInv
  <2>3. range' \subseteq Committed'
    BY <1>1 DEF vars, Committed
  <2> QED
    BY <1>1, <1>p, <2>1, <2>2, <2>3
    DEF RunInv, BackfillTypeOK, Stages, vars, NotOpen, NoAttendance
<1> QED
  BY <1>2, <1>3, <1>5, <1>6, <1>7, <1>8 DEF RunInv

(* What a run reads of an employee: the latest punch accepted before its   *)
(* range, and an attendance that was open before it.                       *)
LEMMA LatestShape ==
  ASSUME GapInv, NEW ids, NEW e,
         LatestAcceptedBefore(ids, e) # NoPunch
  PROVE  \E id \in Ids :
           LatestAcceptedBefore(ids, e) = [at |-> rows[id].at, att |-> event[id].att]
<1> DEFINE earlier == AcceptedBefore(ids, e)
           Last(i) == \A o \in earlier : \/ rows[o].at < rows[i].at
                                         \/ rows[o].at = rows[i].at /\ o <= i
           id == CHOOSE i \in earlier : Last(i)
<1>1. earlier # {} /\ LatestAcceptedBefore(ids, e) = [at |-> rows[id].at, att |-> event[id].att]
  BY DEF LatestAcceptedBefore
<1>2. earlier \subseteq Ids
  BY DEF AcceptedBefore, AcceptedOf
<1>3. \E i \in earlier : Last(i)
  <2> DEFINE at == [i \in Ids |-> rows[i].at]
  <2>1. /\ MaxId \in Nat /\ Started \in Nat /\ earlier \subseteq 1 .. MaxId
        /\ \A i \in earlier : at[i] \in Nat /\ at[i] <= Started
    BY <1>2, SyncAssumption, BackfillAssumption, RowTypes DEF Ids
  <2>2. \A i \in earlier : at[i] = rows[i].at
    BY <1>2
  <2>3. earlier # {}
    BY <1>1
  <2> HIDE DEF at, earlier
  <2>4. \E i \in earlier : \A o \in earlier : at[o] < at[i] \/ (at[o] = at[i] /\ o <= i)
    BY ONLY <2>1, <2>3, LatestExists
  <2> QED
    BY <2>2, <2>4
<1>4. id \in earlier
  BY <1>3
<1> QED
  BY <1>1, <1>2, <1>4

LEMMA OpenShape ==
  ASSUME TypeOK, GapInv, NEW ids \in SUBSET Ids, NEW e, OpenBefore(ids, e) # NotOpen
  PROVE  \E i \in DOMAIN attendance :
           /\ OpenBefore(ids, e) = [in |-> attendance[i].in, att |-> i,
                                    ev |-> attendance[i].inEv, row |-> FALSE]
           /\ attendance[i].emp = e /\ Before(ids, attendance[i].in)
<1> DEFINE open == {i \in OpenOf(e) : Before(ids, attendance[i].in)}
           Last(i) == \A j \in open \ {i} : Earlier(j, i)
           k == CHOOSE i \in open : Last(i)
<1>1. /\ open # {} /\ (\E id \in ids : rows[id].emp = e)
      /\ OpenBefore(ids, e) = [in |-> attendance[k].in, att |-> k,
                               ev |-> attendance[k].inEv, row |-> FALSE]
  BY DEF OpenBefore
<1>2. open \subseteq DOMAIN attendance
  BY DEF OpenOf
<1>3. \E i \in open : Last(i)
  <2> DEFINE at == [i \in DOMAIN attendance |-> attendance[i].in]
  <2>1. PICK id \in ids : TRUE
    BY <1>1
  <2>2. /\ Len(attendance) \in Nat /\ Started \in Nat
        /\ open \subseteq 1 .. Len(attendance)
    BY <1>2, RecordTypes, BackfillAssumption
  <2>3. \A i \in open : at[i] = attendance[i].in /\ at[i] \in Nat
    BY <1>2, RecordTypes
  <2>4. ASSUME NEW i \in open PROVE at[i] <= Started
    <3>1. attendance[i].in < rows[id].at
      BY <2>1 DEF Before
    <3>2. rows[id].at \in Nat /\ rows[id].at <= Started /\ attendance[i].in \in Nat
      BY <2>1, <2>3, RowTypes
    <3> QED
      BY <3>1, <3>2, <2>2, <2>3
  <2>e. open # {}
    BY <1>1
  <2> DEFINE n == Len(attendance)
  <2>5. /\ n \in Nat /\ Started \in Nat /\ open \subseteq 1 .. n
        /\ \A i \in open : at[i] \in Nat /\ at[i] <= Started
    BY <2>2, <2>3, <2>4
  <2> HIDE DEF at, open, n
  <2>6. PICK i \in open : \A o \in open : at[o] < at[i] \/ (at[o] = at[i] /\ o <= i)
    BY ONLY <2>e, <2>5, LatestExists
  <2>7. \A o \in open : o \in Nat
    BY <2>2
  <2>8. Last(i)
    BY <2>3, <2>6, <2>7 DEF Earlier
  <2> QED
    BY <2>8
<1>4. k \in open
  BY <1>3
<1>5. attendance[k].emp = e /\ Before(ids, attendance[k].in)
  BY <1>4 DEF OpenOf
<1> QED
  BY <1>1, <1>2, <1>4, <1>5

LEMMA ReadRun == ASSUME RunInv, ReadOpen PROVE RunInv'
<1>1. /\ stage = "read" /\ stage' = "row"
      /\ accepted' = [e \in Employees |-> LatestAcceptedBefore(range, e)]
      /\ pending' = [e \in Employees |-> OpenBefore(range, e)]
      /\ UNCHANGED <<range, made, applied, run, existing, conflicts, base>>
      /\ UNCHANGED vars
  BY DEF ReadOpen, plan
<1>w. UNCHANGED <<now, rows, cursor, event, attendance, pc, todo>>
  BY <1>1 DEF vars
<1>ids. range \subseteq Ids
  BY DEF RunInv, BackfillTypeOK, Committed
<1>2. TypeOK'
  BY <1>1, TypeStep DEF RunInv
<1>3. GapInv'
  BY <1>w DEF RunInv, GapInv
<1>4. ASSUME NEW e \in Employees
      PROVE  /\ accepted'[e] \in PunchMemory
             /\ accepted'[e].att \in DOMAIN attendance \cup {NoAttendance}
  <2>1. accepted'[e] = LatestAcceptedBefore(range, e)
    BY <1>1
  <2>2. CASE LatestAcceptedBefore(range, e) = NoPunch
    BY <2>1, <2>2 DEF NoPunch, PunchMemory, NoAttendance
  <2>3. CASE LatestAcceptedBefore(range, e) # NoPunch
    <3>1. PICK id \in Ids :
            LatestAcceptedBefore(range, e) = [at |-> rows[id].at, att |-> event[id].att]
      BY <2>3, LatestShape DEF RunInv
    <3>2. /\ rows[id].at \in Nat /\ event[id].att \in Nat
          /\ event[id].att \in DOMAIN attendance \cup {NoAttendance}
      BY RowTypes DEF RunInv, MemoryInv, TypeOK
    <3> QED
      BY <2>1, <3>1, <3>2 DEF PunchMemory
  <2> QED
    BY <2>2, <2>3
<1>5. ASSUME NEW e \in Employees
      PROVE  /\ pending'[e] \in OpenMemory /\ ~pending'[e].row
             /\ pending'[e].in # -1 => pending'[e].att # NoAttendance
             /\ pending'[e].att # NoAttendance =>
                  /\ pending'[e].att \in DOMAIN attendance
                  /\ attendance[pending'[e].att].emp = e
                  /\ attendance[pending'[e].att].in = pending'[e].in
  <2>1. pending'[e] = OpenBefore(range, e)
    BY <1>1
  <2>2. CASE OpenBefore(range, e) = NotOpen
    BY <2>1, <2>2 DEF NotOpen, OpenMemory, NoAttendance, NoEvent
  <2>3. CASE OpenBefore(range, e) # NotOpen
    <3>1. PICK i \in DOMAIN attendance :
            /\ OpenBefore(range, e) = [in |-> attendance[i].in, att |-> i,
                                       ev |-> attendance[i].inEv, row |-> FALSE]
            /\ attendance[i].emp = e
      BY <1>ids, <2>3, OpenShape DEF RunInv
    <3>2. /\ attendance[i].in \in Nat /\ attendance[i].inEv \in Ids \cup {NoEvent}
          /\ i \in Nat /\ i # 0
      BY RecordTypes DEF RunInv, AttendanceRecord
    <3> QED
      BY <2>1, <3>1, <3>2 DEF OpenMemory, NoAttendance
  <2> QED
    BY <2>2, <2>3
<1>6. MemoryInv'
  <2>1. accepted' \in [Employees -> PunchMemory] /\ pending' \in [Employees -> OpenMemory]
    BY <1>1, <1>4, <1>5
  <2> QED
    BY <1>1, <1>w, <2>1 DEF RunInv, MemoryInv
<1>7. PendInv'
  BY <1>5, <1>w DEF PendInv, IsOpen
<1>8. ApplyInv'
  BY <1>1, <1>w DEF RunInv, ApplyInv, OutStages, MarkStages
<1>9. BackfillTypeOK'
  <2>1. range' \subseteq Committed'
    BY <1>1, <1>w DEF RunInv, BackfillTypeOK, Committed
  <2>2. \A e \in Employees : pending'[e].att \in DOMAIN attendance \cup {NoAttendance}
    BY <1>5
  <2> QED
    BY <1>1, <1>w, <1>4, <1>5, <2>1, <2>2 DEF RunInv, BackfillTypeOK, Stages
<1> QED
  BY <1>2, <1>3, <1>6, <1>7, <1>8, <1>9 DEF RunInv

LEMMA FirstIsOne ==
  ASSUME BackfillTypeOK, NEW id \in range, NEW o \in range, FirstOf(id), FirstOf(o)
  PROVE  id = o
<1>1. id \in Nat /\ o \in Nat
  BY DEF BackfillTypeOK, Committed, Ids
<1>2. id <= o /\ o <= id
  BY DEF FirstOf
<1> QED
  BY <1>1, <1>2

LEMMA WrittenKeeps ==
  ASSUME NEW t, NEW k, NEW e, NEW out, NEW outEv, Written(t, k, e, out, outEv),
         NEW j \in DOMAIN attendance
  PROVE  /\ j \in DOMAIN t /\ t[j].emp = attendance[j].emp /\ t[j].in = attendance[j].in
         /\ t[j].inEv = attendance[j].inEv
BY DEF Written

(* A row that is set aside, or found done: only its event can change.      *)
LEMMA PassedRun ==
  ASSUME RunInv, NEW id \in range, PassRow(id) \/ SetAside(id) PROVE RunInv'
<1>id. id \in Ids /\ range \subseteq Ids
  BY DEF RunInv, BackfillTypeOK, Committed
<1>1. /\ stage = "row" /\ stage' = "row" /\ range' = range \ {id}
      /\ applied' = [applied EXCEPT ![id] = SortedNow(id)] /\ SortedNow(id) # "toggle"
      /\ UNCHANGED <<accepted, pending, made, run, existing, conflicts, base>>
  BY DEF PassRow, SetAside, ReportRow, plan
<1>2. /\ UNCHANGED <<now, rows, cursor, attendance, lastClose, lastReconcile, manual>>
      /\ UNCHANGED <<pc, todo, cur, seen, cfgClose, held, closing, runDate, faults>>
      /\ event' \in [Ids -> [status : Status, att : Nat, flagged : BOOLEAN]]
      /\ \A o \in Ids : event'[o].att \in DOMAIN attendance \cup {NoAttendance}
  <2>1. CASE PassRow(id)
    <3>1. UNCHANGED vars
      BY <2>1 DEF PassRow
    <3> QED
      BY <3>1 DEF vars, RunInv, TypeOK, MemoryInv
  <2>2. CASE SetAside(id)
    <3> DEFINE st == SortedNow(id)
               a == IF st = "duplicate_ignored" THEN accepted[rows[id].emp].att ELSE NoAttendance
    <3>1. /\ st \in {"employee_not_found", "denied_ignored", "duplicate_ignored"}
          /\ Staged(id, st, a)
      BY <2>2 DEF SetAside
    <3>2. st = "duplicate_ignored" => rows[id].emp \in Employees
      BY <1>id, RowTypes DEF RunInv, SortedNow, Sorted
    <3> HIDE DEF st
    <3>3. a \in DOMAIN attendance \cup {NoAttendance}
      BY <3>2 DEF RunInv, BackfillTypeOK
    <3>4. a \in Nat
      BY <3>3, RecordTypes DEF RunInv, NoAttendance
    <3>5. st \in Status
      BY <3>1 DEF Status, Final, Settled
    <3> HIDE DEF a
    <3>6. /\ event' \in [Ids -> [status : Status, att : Nat, flagged : BOOLEAN]]
          /\ event'[id].att = a /\ \A o \in Ids \ {id} : event'[o] = event[o]
          /\ UNCHANGED <<now, rows, faults, manual, pc, todo, cur, seen, cfgClose, held,
                         closing, runDate, cursor, attendance, lastClose, lastReconcile>>
      BY <1>id, <3>1, <3>4, <3>5, StagedShape DEF RunInv
    <3> QED
      BY <3>3, <3>6 DEF RunInv, MemoryInv
  <2> QED
    BY <2>1, <2>2
<1>3. TypeOK'
  BY <1>1, <1>2, WorldType DEF RunInv, ApplyInv, TypeOK
<1>4. GapInv'
  BY <1>2 DEF RunInv, GapInv
<1>5. MemoryInv'
  <2>1. SortedNow(id) \in Reports
    BY <1>id, <1>1, SortedIs DEF Reports
  <2>2. applied' \in [Ids -> Reports]
    BY <1>1, <2>1 DEF RunInv, MemoryInv
  <2> QED
    BY <1>1, <1>2, <2>2 DEF RunInv, MemoryInv
<1>6. PendInv'
  BY <1>1, <1>2 DEF RunInv, PendInv, IsOpen
<1>7. ApplyInv'
  BY <1>1, <1>2 DEF RunInv, ApplyInv, OutStages, MarkStages
<1>8. BackfillTypeOK'
  BY <1>1, <1>2 DEF RunInv, BackfillTypeOK, Stages, Committed
<1> QED
  BY <1>3, <1>4, <1>5, <1>6, <1>7, <1>8 DEF RunInv

(* A check-in that is remembered before it has an attendance.              *)
LEMMA TakeRun ==
  ASSUME RunInv, NEW id \in range, TakeCheckIn(id) PROVE RunInv'
<1>id. id \in Ids /\ range \subseteq Ids
  BY DEF RunInv, BackfillTypeOK, Committed
<1> DEFINE e == rows[id].emp
<1>1. /\ stage = "row" /\ stage' = "row" /\ range' = range \ {id} /\ ~IsOpen(e)
      /\ applied' = [applied EXCEPT ![id] = "check_in_created"]
      /\ SortedNow(id) = "toggle" /\ Staged(id, "pending", NoAttendance)
      /\ pending' = [pending EXCEPT ![e] = OpenedBy(id)]
      /\ accepted' = [accepted EXCEPT ![e] = [at |-> rows[id].at, att |-> NoAttendance]]
      /\ UNCHANGED <<made, run, existing, conflicts, base>>
  BY DEF TakeCheckIn, ReportRow, Remember, plan
<1>e. e \in Employees /\ rows[id].at \in Nat
  BY <1>id, <1>1, ToggleRow, RowTypes DEF RunInv
<1> HIDE DEF e
<1>2. /\ event' \in [Ids -> [status : Status, att : Nat, flagged : BOOLEAN]]
      /\ event'[id].att = NoAttendance /\ \A o \in Ids \ {id} : event'[o] = event[o]
      /\ UNCHANGED <<now, rows, faults, manual, pc, todo, cur, seen, cfgClose, held,
                     closing, runDate, cursor, attendance, lastClose, lastReconcile>>
  BY <1>id, <1>1, StagedShape DEF RunInv, Status, NoAttendance
<1>3. TypeOK'
  BY <1>1, <1>2, WorldType DEF RunInv, ApplyInv, TypeOK
<1>4. GapInv'
  BY <1>2 DEF RunInv, GapInv
<1>p. /\ pending' \in [Employees -> OpenMemory] /\ accepted' \in [Employees -> PunchMemory]
      /\ pending'[e] = OpenedBy(id) /\ accepted'[e].att = NoAttendance
      /\ \A o \in Employees \ {e} : pending'[o] = pending[o] /\ accepted'[o] = accepted[o]
  <2>1. /\ OpenedBy(id) \in OpenMemory
        /\ [at |-> rows[id].at, att |-> NoAttendance] \in PunchMemory
    BY <1>id, <1>e DEF OpenedBy, OpenMemory, PunchMemory, NoAttendance
  <2> QED
    BY <1>1, <1>e, <2>1 DEF RunInv, MemoryInv
<1>o. /\ OpenedBy(id).row /\ OpenedBy(id).ev = id /\ OpenedBy(id).in = rows[id].at
      /\ OpenedBy(id).att = NoAttendance
  BY DEF OpenedBy
<1>5. MemoryInv'
  <2>1. applied' \in [Ids -> Reports]
    BY <1>1 DEF RunInv, MemoryInv, Reports
  <2> QED
    BY <1>1, <1>2, <1>p, <2>1 DEF RunInv, MemoryInv
<1>6. PendInv'
  BY <1>id, <1>1, <1>2, <1>p, <1>o DEF RunInv, PendInv, IsOpen, e
<1>7. ApplyInv'
  BY <1>1, <1>2 DEF RunInv, ApplyInv, OutStages, MarkStages
<1>8. BackfillTypeOK'
  <2>1. ASSUME NEW o \in Employees
        PROVE  /\ accepted'[o].att \in DOMAIN attendance' \cup {NoAttendance}
               /\ pending'[o].att \in DOMAIN attendance' \cup {NoAttendance}
               /\ pending'[o].row =>
                    pending'[o].ev \in Ids /\ pending'[o].in = rows'[pending'[o].ev].at
    BY <1>id, <1>2, <1>p, <1>o DEF RunInv, BackfillTypeOK
  <2> QED
    BY <1>1, <1>2, <2>1 DEF RunInv, BackfillTypeOK, Stages, Committed
<1> QED
  BY <1>3, <1>4, <1>5, <1>6, <1>7, <1>8 DEF RunInv

(* An attendance is written for a check-in; its events are next.           *)
LEMMA WrittenRun ==
  ASSUME RunInv, NEW e \in Employees, NEW out, NEW outEv,
         Written(attendance', made', e, out, outEv), IsOpen(e), stage # "off",
         stage' \in MarkStages,
         \A id \in range : FirstOf(id) =>
           /\ SortedNow(id) = "toggle" /\ rows[id].emp = e
           /\ stage' \in {"markIn", "markOut"} => ~OpenEarlierDay(e, id)
           /\ stage' = "markIn" => pending[e].row
           /\ stage' = "markClosed" => OpenEarlierDay(e, id),
         stage' # "markClosed" => range # {},
         UNCHANGED <<environment, worker, cursor, event, lastClose, lastReconcile,
                     plan, range, accepted, pending, applied, run>>
  PROVE  RunInv'
<1>1. /\ UNCHANGED <<now, rows, cursor, event, lastClose, lastReconcile, manual, faults>>
      /\ UNCHANGED <<pc, todo, cur, seen, cfgClose, held, closing, runDate>>
      /\ UNCHANGED <<range, accepted, pending, applied, run, existing, conflicts, base>>
  BY DEF environment, worker, local, plan
<1>2. /\ attendance' \in Seq(AttendanceRecord) /\ Len(attendance') >= Len(attendance)
      /\ DOMAIN attendance \subseteq DOMAIN attendance'
      /\ made' \in DOMAIN attendance' /\ attendance'[made'].emp = e
  BY DEF Written
<1>3. \A j \in DOMAIN attendance :
        attendance'[j].emp = attendance[j].emp /\ attendance'[j].in = attendance[j].in
  BY WrittenKeeps
<1>m. made' # NoAttendance /\ Len(attendance') \in Nat /\ Len(attendance) \in Nat
  <2>1. DOMAIN attendance' = 1 .. Len(attendance') /\ Len(attendance') \in Nat
    BY <1>2
  <2> QED
    BY <1>2, <2>1, RecordTypes DEF NoAttendance, RunInv
<1>4. TypeOK'
  <2>1. event \in [Ids -> [status : Status, att : Nat, flagged : BOOLEAN]] /\ faults \in Nat
    BY DEF RunInv, TypeOK
  <2> QED
    BY <1>1, <1>2, <2>1, WorldType DEF RunInv, ApplyInv
<1>5. GapInv'
  BY <1>1 DEF RunInv, GapInv
<1>6. MemoryInv'
  BY <1>1, <1>2, <1>m DEF RunInv, MemoryInv
<1>7. PendInv'
  BY <1>1, <1>2, <1>3 DEF RunInv, PendInv, IsOpen
<1>s. \A id \in range : SortedNow(id)' = SortedNow(id)
  BY <1>1, SortedSame DEF RunInv, BackfillTypeOK, Committed
<1>8. ApplyInv'
  <2>1. ASSUME NEW id \in range', FirstOf(id)'
        PROVE  /\ stage' \in OutStages =>
                    /\ SortedNow(id)' = "toggle" /\ IsOpen(rows[id].emp)'
                    /\ ~OpenEarlierDay(rows[id].emp, id)'
               /\ stage' \in {"markIn", "markOut"} => attendance'[made'].emp = rows'[id].emp
               /\ stage' = "markIn" => pending'[rows'[id].emp].row
               /\ stage' = "markClosed" =>
                    /\ SortedNow(id)' = "toggle" /\ attendance'[made'].emp = rows'[id].emp
                    /\ OpenEarlierDay(rows[id].emp, id)'
    <3>1. id \in range /\ FirstOf(id)
      BY <1>1, <2>1 DEF FirstOf
    <3>2. stage' # "checkOut" /\ rows' = rows /\ pending' = pending
      BY <1>1 DEF MarkStages
    <3>3. /\ SortedNow(id) = "toggle" /\ rows[id].emp = e
          /\ stage' \in {"markIn", "markOut"} => ~OpenEarlierDay(e, id)
          /\ stage' = "markIn" => pending[e].row
          /\ stage' = "markClosed" => OpenEarlierDay(e, id)
      BY <3>1
    <3> QED
      BY <1>2, <1>s, <3>1, <3>2, <3>3 DEF OutStages, IsOpen, OpenEarlierDay
  <2>2. stage' \notin {"off", "read", "end"} /\ pc' = "idle"
    BY <1>1 DEF MarkStages, RunInv, ApplyInv
  <2>3. made' \in DOMAIN attendance' /\ IsOpen(attendance[made].emp)'
    BY <1>1, <1>2 DEF IsOpen
  <2> QED
    BY <2>1, <2>2, <2>3 DEF ApplyInv
<1>9. BackfillTypeOK'
  <2>1. stage' \in Stages /\ stage' \in {"markClosed", "markIn", "markOut"}
    BY DEF MarkStages, Stages
  <2>2. range' \subseteq Committed'
    BY <1>1 DEF RunInv, BackfillTypeOK, Committed
  <2>3. stage' \in {"checkOut", "markIn", "markOut"} => range' # {}
    BY <1>1 DEF MarkStages
  <2> QED
    BY <1>1, <1>2, <1>m, <2>1, <2>2, <2>3 DEF RunInv, BackfillTypeOK
<1> QED
  BY <1>4, <1>5, <1>6, <1>7, <1>8, <1>9 DEF RunInv

LEMMA CloseEarlierRun ==
  ASSUME RunInv, NEW id \in range, CloseEarlierDay(id) PROVE RunInv'
<1>1. /\ id \in Ids /\ stage = "row" /\ FirstOf(id) /\ SortedNow(id) = "toggle"
      /\ OpenEarlierDay(rows[id].emp, id)
  BY DEF CloseEarlierDay, RunInv, BackfillTypeOK, Committed
<1>2. rows[id].emp \in Employees
  BY <1>1, ToggleRow DEF RunInv
<1> DEFINE e == rows[id].emp
           out == EndOfDay(Day(pending[e].in))
<1>3. \/ UNCHANGED vars /\ Stop("failed")
      \/ /\ Written(attendance', made', e, out, NoEvent) /\ stage' = "markClosed"
         /\ UNCHANGED <<environment, worker, cursor, event, lastClose, lastReconcile,
                        plan, range, accepted, pending, applied, run>>
  BY <1>1, <1>2, CloseEarlierShape DEF RunInv
<1> HIDE DEF out
<1>4. CASE UNCHANGED vars /\ Stop("failed")
  BY <1>1, <1>4, StopRun DEF vars
<1>5. CASE /\ Written(attendance', made', e, out, NoEvent) /\ stage' = "markClosed"
           /\ UNCHANGED <<environment, worker, cursor, event, lastClose, lastReconcile,
                          plan, range, accepted, pending, applied, run>>
  <2>1. \A o \in range : FirstOf(o) => o = id
    BY <1>1, FirstIsOne DEF RunInv
  <2>2. /\ IsOpen(e) /\ stage # "off" /\ stage' \in MarkStages
        /\ stage' \notin {"markIn", "markOut"}
    BY <1>1, <1>5 DEF OpenEarlierDay, MarkStages
  <2> QED
    BY <1>1, <1>2, <1>5, <2>1, <2>2, WrittenRun
<1> QED
  BY <1>3, <1>4, <1>5

LEMMA CloseAtEndRun ==
  ASSUME RunInv, NEW e \in Employees, CloseAtEnd(e) PROVE RunInv'
<1>1. stage = "end" /\ IsOpen(e) /\ range = {}
  BY DEF CloseAtEnd, RunInv, ApplyInv
<1> DEFINE out == EndOfDay(Day(pending[e].in))
<1>3. \/ UNCHANGED vars /\ Stop("failed")
      \/ /\ Written(attendance', made', e, out, NoEvent) /\ stage' = "markClosed"
         /\ UNCHANGED <<environment, worker, cursor, event, lastClose, lastReconcile,
                        plan, range, accepted, pending, applied, run>>
  BY <1>1, CloseAtEndShape DEF RunInv
<1> HIDE DEF out
<1>4. CASE UNCHANGED vars /\ Stop("failed")
  BY <1>1, <1>4, StopRun DEF vars
<1>5. CASE /\ Written(attendance', made', e, out, NoEvent) /\ stage' = "markClosed"
           /\ UNCHANGED <<environment, worker, cursor, event, lastClose, lastReconcile,
                          plan, range, accepted, pending, applied, run>>
  <2>1. stage # "off" /\ stage' \in MarkStages
    BY <1>1, <1>5 DEF MarkStages
  <2> QED
    BY <1>1, <1>5, <2>1, WrittenRun
<1> QED
  BY <1>3, <1>4, <1>5

(* While a check-out is made, what ApplyInv says of its row.               *)
LEMMA OutRow ==
  ASSUME RunInv, NEW id \in range, FirstOf(id), stage \in OutStages
  PROVE  /\ id \in Ids /\ SortedNow(id) = "toggle" /\ IsOpen(rows[id].emp)
         /\ rows[id].emp \in Employees /\ ~OpenEarlierDay(rows[id].emp, id)
         /\ stage \in {"markIn", "markOut"} =>
              made \in DOMAIN attendance /\ attendance[made].emp = rows[id].emp
         /\ stage = "markIn" => pending[rows[id].emp].row
<1>1. id \in Ids
  BY DEF RunInv, BackfillTypeOK, Committed
<1>2. /\ SortedNow(id) = "toggle" /\ IsOpen(rows[id].emp)
      /\ ~OpenEarlierDay(rows[id].emp, id)
      /\ stage \in {"markIn", "markOut"} =>
           made \in DOMAIN attendance /\ attendance[made].emp = rows[id].emp
      /\ stage = "markIn" => pending[rows[id].emp].row
  BY DEF RunInv, ApplyInv, MarkStages
<1> QED
  BY <1>1, <1>2, ToggleRow DEF RunInv

LEMMA WriteOutRun ==
  ASSUME RunInv, NEW id \in range, WriteOut(id) PROVE RunInv'
<1>1. stage = "checkOut" /\ FirstOf(id)
  BY DEF WriteOut
<1>2. /\ id \in Ids /\ SortedNow(id) = "toggle" /\ IsOpen(rows[id].emp)
      /\ rows[id].emp \in Employees /\ ~OpenEarlierDay(rows[id].emp, id)
  BY <1>1, OutRow DEF OutStages
<1> DEFINE e == rows[id].emp
<1>3. \/ UNCHANGED vars /\ Stop("failed")
      \/ /\ Written(attendance', made', e, rows[id].at, id)
         /\ stage' = IF pending[e].att = NoAttendance THEN "markIn" ELSE "markOut"
         /\ UNCHANGED <<environment, worker, cursor, event, lastClose, lastReconcile,
                        plan, range, accepted, pending, applied, run>>
  BY <1>2, WriteOutShape DEF RunInv
<1>4. CASE UNCHANGED vars /\ Stop("failed")
  BY <1>1, <1>4, StopRun DEF vars
<1>5. CASE /\ Written(attendance', made', e, rows[id].at, id)
           /\ stage' = IF pending[e].att = NoAttendance THEN "markIn" ELSE "markOut"
           /\ UNCHANGED <<environment, worker, cursor, event, lastClose, lastReconcile,
                          plan, range, accepted, pending, applied, run>>
  <2>1. \A o \in range : FirstOf(o) => o = id
    BY <1>1, FirstIsOne DEF RunInv
  <2>2. /\ stage # "off" /\ stage' \in MarkStages /\ stage' # "markClosed"
        /\ stage' = "markIn" => pending[e].row
    BY <1>1, <1>2, <1>5 DEF MarkStages, RunInv, PendInv
  <2> QED
    BY <1>2, <1>5, <2>1, <2>2, WrittenRun
<1> QED
  BY <1>3, <1>4, <1>5

LEMMA StageOutRun ==
  ASSUME RunInv, NEW id \in range, StageCheckOut(id) PROVE RunInv'
<1>id. id \in Ids /\ range \subseteq Ids
  BY DEF RunInv, BackfillTypeOK, Committed
<1>1. /\ stage = "row" /\ stage' = "checkOut" /\ FirstOf(id) /\ SortedNow(id) = "toggle"
      /\ IsOpen(rows[id].emp) /\ ~OpenEarlierDay(rows[id].emp, id)
      /\ Staged(id, "pending", NoAttendance)
      /\ UNCHANGED <<range, accepted, pending, made, applied, run, existing, conflicts, base>>
  BY DEF StageCheckOut, plan, memory
<1>2. /\ event' \in [Ids -> [status : Status, att : Nat, flagged : BOOLEAN]]
      /\ event'[id].att = NoAttendance /\ \A o \in Ids \ {id} : event'[o] = event[o]
      /\ UNCHANGED <<now, rows, faults, manual, pc, todo, cur, seen, cfgClose, held,
                     closing, runDate, cursor, attendance, lastClose, lastReconcile>>
  BY <1>id, <1>1, StagedShape DEF RunInv, Status, NoAttendance
<1>3. TypeOK'
  BY <1>1, <1>2, WorldType DEF RunInv, ApplyInv, TypeOK
<1>4. GapInv'
  BY <1>2 DEF RunInv, GapInv
<1>5. MemoryInv'
  BY <1>1, <1>2 DEF RunInv, MemoryInv
<1>6. PendInv'
  BY <1>1, <1>2 DEF RunInv, PendInv, IsOpen
<1>7. ApplyInv'
  <2>1. \A o \in range : FirstOf(o) => o = id
    BY <1>1, FirstIsOne DEF RunInv
  <2>2. SortedNow(id)' = "toggle"
    BY <1>id, <1>1, <1>2, SortedSame
  <2>3. /\ IsOpen(rows[id].emp)' /\ ~OpenEarlierDay(rows[id].emp, id)'
    BY <1>1, <1>2 DEF IsOpen, OpenEarlierDay
  <2>4. \A o \in range' : FirstOf(o)' => o = id
    BY <1>1, <2>1 DEF FirstOf
  <2>5. pc' = "idle"
    BY <1>1, <1>2 DEF RunInv, ApplyInv
  <2> QED
    BY <1>1, <2>2, <2>3, <2>4, <2>5 DEF ApplyInv, OutStages, MarkStages
<1>8. BackfillTypeOK'
  BY <1>1, <1>2 DEF RunInv, BackfillTypeOK, Stages, Committed
<1> QED
  BY <1>3, <1>4, <1>5, <1>6, <1>7, <1>8 DEF RunInv

(* The steps that mark an event with the attendance that was made.         *)
LEMMA MarkedEvents ==
  ASSUME RunInv, NEW id \in Ids, NEW r, stage \in MarkStages,
         r.status \in Accepted /\ r.att = made /\ r.flagged \in BOOLEAN,
         r = [status |-> r.status, att |-> r.att, flagged |-> r.flagged],
         event' = [event EXCEPT ![id] = r]
  PROVE  /\ event' \in [Ids -> [status : Status, att : Nat, flagged : BOOLEAN]]
         /\ event'[id] = r /\ \A o \in Ids \ {id} : event'[o] = event[o]
         /\ \A o \in Ids : event'[o].att \in DOMAIN attendance \cup {NoAttendance}
<1>1. event \in [Ids -> [status : Status, att : Nat, flagged : BOOLEAN]]
  BY DEF RunInv, TypeOK
<1>2. made \in DOMAIN attendance /\ made \in Nat
  BY RecordTypes DEF RunInv, ApplyInv
<1>3. r.status \in Status
  BY DEF Status, Final, Settled
<1>4. r \in [status : Status, att : Nat, flagged : BOOLEAN]
  BY <1>2, <1>3
<1>5. /\ event' \in [Ids -> [status : Status, att : Nat, flagged : BOOLEAN]]
      /\ event'[id] = r /\ \A o \in Ids \ {id} : event'[o] = event[o]
  BY <1>1, <1>4
<1> QED
  BY <1>2, <1>5 DEF RunInv, MemoryInv

(* The event of the check-in of an attendance that was closed.             *)
LEMMA MarkClosedShape ==
  ASSUME RunInv, NEW e \in Employees, MarkClosed(e)
  PROVE  /\ event' \in [Ids -> [status : Status, att : Nat, flagged : BOOLEAN]]
         /\ \A o \in Ids : event'[o].att \in DOMAIN attendance \cup {NoAttendance}
         /\ \A o \in Ids : IF o = pending[e].ev THEN event'[o].status = "check_in_created"
                           ELSE event'[o] = event[o]
         /\ stage = "markClosed" /\ attendance[made].emp = e /\ IsOpen(e)
         /\ made \in DOMAIN attendance
         /\ pending' \in [Employees -> OpenMemory] /\ pending'[e] = NotOpen
         /\ accepted' \in [Employees -> PunchMemory] /\ accepted'[e].at = accepted[e].at
         /\ accepted'[e].att \in {accepted[e].att, made}
         /\ \A o \in Employees \ {e} : pending'[o] = pending[o] /\ accepted'[o] = accepted[o]
         /\ stage' = IF range = {} THEN "end" ELSE "row"
         /\ made' = NoAttendance
         /\ UNCHANGED <<now, rows, faults, manual, pc, todo, cur, seen, cfgClose, held,
                        closing, runDate, cursor, attendance, lastClose, lastReconcile>>
         /\ UNCHANGED <<range, applied, run, existing, conflicts, snapshot, predicted, base>>
<1>1. /\ stage = "markClosed" /\ attendance[made].emp = e
      /\ pending' = [pending EXCEPT ![e] = NotOpen]
      /\ accepted' = [accepted EXCEPT ![e].att = IF @ = NoAttendance THEN made ELSE @]
      /\ stage' = (IF range = {} THEN "end" ELSE "row") /\ made' = NoAttendance
      /\ UNCHANGED <<now, rows, faults, manual, pc, todo, cur, seen, cfgClose, held,
                     closing, runDate, cursor, attendance, lastClose, lastReconcile>>
      /\ UNCHANGED <<range, applied, run, existing, conflicts, snapshot, predicted, base>>
  BY DEF MarkClosed, environment, worker, local, plan
<1>2. made \in DOMAIN attendance /\ made \in Nat /\ IsOpen(e)
  BY <1>1, RecordTypes DEF RunInv, ApplyInv, MarkStages
<1>3. /\ event' \in [Ids -> [status : Status, att : Nat, flagged : BOOLEAN]]
      /\ \A o \in Ids : event'[o].att \in DOMAIN attendance \cup {NoAttendance}
      /\ \A o \in Ids : IF o = pending[e].ev THEN event'[o].status = "check_in_created"
                        ELSE event'[o] = event[o]
  <2>1. CASE pending[e].ev = NoEvent
    <3>1. event' = event /\ pending[e].ev \notin Ids
      BY <2>1 DEF MarkClosed, NoEvent, Ids
    <3> QED
      BY <3>1 DEF RunInv, TypeOK, MemoryInv
  <2>2. CASE pending[e].ev # NoEvent
    <3> DEFINE r == [status |-> "check_in_created", att |-> made, flagged |-> TRUE]
    <3>1. pending[e].ev \in Ids
      BY <2>2, MemoryTypes DEF RunInv
    <3>2. event' = [event EXCEPT ![pending[e].ev] = r]
      BY <2>2 DEF MarkClosed
    <3>3. /\ r.status \in Accepted /\ r.att = made /\ r.flagged \in BOOLEAN
          /\ r = [status |-> r.status, att |-> r.att, flagged |-> r.flagged]
          /\ r.status = "check_in_created" /\ stage \in MarkStages
      BY <1>1 DEF Accepted, MarkStages
    <3> HIDE DEF r
    <3> QED
      BY <3>1, <3>2, <3>3, MarkedEvents
  <2> QED
    BY <2>1, <2>2
<1>4. /\ pending' \in [Employees -> OpenMemory] /\ pending'[e] = NotOpen
      /\ \A o \in Employees \ {e} : pending'[o] = pending[o]
  BY <1>1 DEF RunInv, MemoryInv, NotOpen, OpenMemory, NoAttendance, NoEvent
<1>5. /\ accepted' \in [Employees -> PunchMemory] /\ accepted'[e].at = accepted[e].at
      /\ accepted'[e].att \in {accepted[e].att, made}
      /\ \A o \in Employees \ {e} : accepted'[o] = accepted[o]
  BY <1>1, <1>2 DEF RunInv, MemoryInv, PunchMemory
<1> QED
  BY <1>1, <1>2, <1>3, <1>4, <1>5

LEMMA MarkClosedRun ==
  ASSUME RunInv, NEW e \in Employees, MarkClosed(e) PROVE RunInv'
<1>1. /\ event' \in [Ids -> [status : Status, att : Nat, flagged : BOOLEAN]]
      /\ \A o \in Ids : event'[o].att \in DOMAIN attendance \cup {NoAttendance}
      /\ stage = "markClosed" /\ made \in DOMAIN attendance
      /\ pending' \in [Employees -> OpenMemory] /\ pending'[e] = NotOpen
      /\ accepted' \in [Employees -> PunchMemory] /\ accepted'[e].at = accepted[e].at
      /\ accepted'[e].att \in {accepted[e].att, made}
      /\ \A o \in Employees \ {e} : pending'[o] = pending[o] /\ accepted'[o] = accepted[o]
      /\ stage' = IF range = {} THEN "end" ELSE "row"
      /\ made' = NoAttendance
      /\ UNCHANGED <<now, rows, faults, manual, pc, todo, cur, seen, cfgClose, held,
                     closing, runDate, cursor, attendance, lastClose, lastReconcile>>
      /\ UNCHANGED <<range, applied, run, existing, conflicts, snapshot, predicted, base>>
  BY MarkClosedShape
<1>n. ~NotOpen.row /\ NotOpen.att = NoAttendance /\ NotOpen.in = -1
  BY DEF NotOpen
<1>3. TypeOK'
  BY <1>1, WorldType DEF RunInv, ApplyInv, TypeOK
<1>4. GapInv'
  BY <1>1 DEF RunInv, GapInv
<1>5. MemoryInv'
  BY <1>1 DEF RunInv, MemoryInv
<1>6. PendInv'
  BY <1>1, <1>n DEF RunInv, PendInv, IsOpen
<1>7. ApplyInv'
  BY <1>1 DEF RunInv, ApplyInv, OutStages, MarkStages
<1>8. BackfillTypeOK'
  <2>1. ASSUME NEW o \in Employees
        PROVE  /\ accepted'[o].att \in DOMAIN attendance' \cup {NoAttendance}
               /\ pending'[o].att \in DOMAIN attendance' \cup {NoAttendance}
               /\ pending'[o].row =>
                    pending'[o].ev \in Ids /\ pending'[o].in = rows'[pending'[o].ev].at
    BY <1>1, <1>n DEF RunInv, BackfillTypeOK
  <2> QED
    BY <1>1, <2>1 DEF RunInv, BackfillTypeOK, Stages, Committed
<1> QED
  BY <1>3, <1>4, <1>5, <1>6, <1>7, <1>8 DEF RunInv

(* The two marks of a check-out.                                           *)
LEMMA MarkInShape ==
  ASSUME RunInv, NEW id \in range, MarkIn(id)
  PROVE  LET ev == pending[rows[id].emp].ev
         IN  /\ event' \in [Ids -> [status : Status, att : Nat, flagged : BOOLEAN]]
             /\ \A o \in Ids : event'[o].att \in DOMAIN attendance \cup {NoAttendance}
             /\ ev \in Ids /\ event'[ev].status = "check_in_created"
             /\ \A o \in Ids \ {ev} : event'[o] = event[o]
             /\ stage = "markIn" /\ stage' = "markOut" /\ FirstOf(id)
             /\ UNCHANGED <<now, rows, faults, manual, pc, todo, cur, seen, cfgClose, held,
                            closing, runDate, cursor, attendance, lastClose, lastReconcile>>
             /\ UNCHANGED <<range, accepted, pending, made, applied, run, existing, conflicts,
                            snapshot, predicted, base>>
<1> DEFINE ev == pending[rows[id].emp].ev
<1>1. /\ stage = "markIn" /\ stage' = "markOut" /\ FirstOf(id)
      /\ event' = [event EXCEPT ![ev].status = "check_in_created", ![ev].att = made]
      /\ UNCHANGED <<now, rows, faults, manual, pc, todo, cur, seen, cfgClose, held,
                     closing, runDate, cursor, attendance, lastClose, lastReconcile>>
      /\ UNCHANGED <<range, accepted, pending, made, applied, run, existing, conflicts,
                     snapshot, predicted, base>>
  BY DEF MarkIn, environment, worker, local, plan, memory
<1>2. rows[id].emp \in Employees /\ pending[rows[id].emp].row
  BY <1>1, OutRow DEF OutStages
<1>3. ev \in Ids
  BY <1>2 DEF RunInv, PendInv
<1> HIDE DEF ev
<1>4. /\ event \in [Ids -> [status : Status, att : Nat, flagged : BOOLEAN]]
      /\ made \in DOMAIN attendance /\ made \in Nat /\ "check_in_created" \in Status
  BY <1>1, RecordTypes DEF RunInv, TypeOK, ApplyInv, MarkStages, Status, Final, Settled, Accepted
<1>5. /\ event' \in [Ids -> [status : Status, att : Nat, flagged : BOOLEAN]]
      /\ event'[ev].status = "check_in_created" /\ event'[ev].att = made
      /\ \A o \in Ids \ {ev} : event'[o] = event[o]
  BY <1>1, <1>3, <1>4
<1>6. \A o \in Ids : event'[o].att \in DOMAIN attendance \cup {NoAttendance}
  BY <1>4, <1>5 DEF RunInv, MemoryInv
<1> QED
  BY <1>1, <1>3, <1>5, <1>6 DEF ev

LEMMA MarkInRun ==
  ASSUME RunInv, NEW id \in range, MarkIn(id) PROVE RunInv'
<1>1. /\ event' \in [Ids -> [status : Status, att : Nat, flagged : BOOLEAN]]
      /\ \A o \in Ids : event'[o].att \in DOMAIN attendance \cup {NoAttendance}
      /\ stage = "markIn" /\ stage' = "markOut" /\ FirstOf(id)
      /\ UNCHANGED <<now, rows, faults, manual, pc, todo, cur, seen, cfgClose, held,
                     closing, runDate, cursor, attendance, lastClose, lastReconcile>>
      /\ UNCHANGED <<range, accepted, pending, made, applied, run, existing, conflicts, base>>
  BY MarkInShape
<1>3. TypeOK'
  BY <1>1, WorldType DEF RunInv, ApplyInv, TypeOK
<1>4. GapInv'
  BY <1>1 DEF RunInv, GapInv
<1>5. MemoryInv'
  BY <1>1 DEF RunInv, MemoryInv
<1>6. PendInv'
  BY <1>1 DEF RunInv, PendInv, IsOpen
<1>7. ApplyInv'
  <2>1. \A o \in range : SortedNow(o)' = SortedNow(o)
    BY <1>1, SortedSame DEF RunInv, BackfillTypeOK, Committed
  <2>2. \A o \in range : FirstOf(o)' <=> FirstOf(o)
    BY <1>1 DEF FirstOf
  <2>3. \A o \in range : /\ IsOpen(rows[o].emp)' <=> IsOpen(rows[o].emp)
                         /\ OpenEarlierDay(rows[o].emp, o)' <=> OpenEarlierDay(rows[o].emp, o)
    BY <1>1 DEF IsOpen, OpenEarlierDay
  <2>4. IsOpen(attendance[made].emp)' /\ made' \in DOMAIN attendance'
    BY <1>1 DEF IsOpen, RunInv, ApplyInv, MarkStages
  <2> QED
    BY <1>1, <2>1, <2>2, <2>3, <2>4 DEF RunInv, ApplyInv, OutStages, MarkStages
<1>8. BackfillTypeOK'
  BY <1>1 DEF RunInv, BackfillTypeOK, Stages, Committed
<1> QED
  BY <1>3, <1>4, <1>5, <1>6, <1>7, <1>8 DEF RunInv

LEMMA MarkOutShape ==
  ASSUME RunInv, NEW id \in range, MarkOut(id)
  PROVE  LET e == rows[id].emp
         IN  /\ event' \in [Ids -> [status : Status, att : Nat, flagged : BOOLEAN]]
             /\ \A o \in Ids : event'[o].att \in DOMAIN attendance \cup {NoAttendance}
             /\ event'[id].status = "check_out_written"
             /\ \A o \in Ids \ {id} : event'[o] = event[o]
             /\ stage = "markOut" /\ stage' = "row" /\ FirstOf(id)
             /\ e \in Employees /\ made \in DOMAIN attendance /\ made' = NoAttendance
             /\ pending' \in [Employees -> OpenMemory] /\ pending'[e] = NotOpen
             /\ accepted' \in [Employees -> PunchMemory]
             /\ accepted' = [accepted EXCEPT ![e] = [at |-> rows[id].at, att |-> made]]
             /\ \A o \in Employees \ {e} : pending'[o] = pending[o] /\ accepted'[o] = accepted[o]
             /\ range' = range \ {id}
             /\ applied' = [applied EXCEPT ![id] = "check_out_written"]
             /\ UNCHANGED <<now, rows, faults, manual, pc, todo, cur, seen, cfgClose, held,
                            closing, runDate, cursor, attendance, lastClose, lastReconcile>>
             /\ UNCHANGED <<run, existing, conflicts, snapshot, predicted, base>>
<1> DEFINE e == rows[id].emp
<1>1. /\ stage = "markOut" /\ stage' = "row" /\ FirstOf(id) /\ made' = NoAttendance
      /\ event' = [event EXCEPT ![id].status = "check_out_written", ![id].att = made]
      /\ accepted' = [accepted EXCEPT ![e] = [at |-> rows[id].at, att |-> made]]
      /\ pending' = [pending EXCEPT ![e] = NotOpen]
      /\ range' = range \ {id}
      /\ applied' = [applied EXCEPT ![id] = "check_out_written"]
      /\ UNCHANGED <<now, rows, faults, manual, pc, todo, cur, seen, cfgClose, held,
                     closing, runDate, cursor, attendance, lastClose, lastReconcile>>
      /\ UNCHANGED <<run, existing, conflicts, snapshot, predicted, base>>
  BY DEF MarkOut, ReportRow, Remember, environment, worker, local, plan
<1>2. e \in Employees /\ id \in Ids /\ made \in DOMAIN attendance
  BY <1>1, OutRow DEF OutStages
<1>4. /\ event \in [Ids -> [status : Status, att : Nat, flagged : BOOLEAN]]
      /\ made \in Nat /\ "check_out_written" \in Status
  BY <1>2, RecordTypes DEF RunInv, TypeOK, Status, Final, Settled, Accepted
<1>5. /\ event' \in [Ids -> [status : Status, att : Nat, flagged : BOOLEAN]]
      /\ event'[id].status = "check_out_written" /\ event'[id].att = made
      /\ \A o \in Ids \ {id} : event'[o] = event[o]
  BY <1>1, <1>2, <1>4
<1>6. \A o \in Ids : event'[o].att \in DOMAIN attendance \cup {NoAttendance}
  BY <1>2, <1>5 DEF RunInv, MemoryInv
<1>7. /\ pending' \in [Employees -> OpenMemory] /\ pending'[e] = NotOpen
      /\ \A o \in Employees \ {e} : pending'[o] = pending[o]
  BY <1>1, <1>2 DEF RunInv, MemoryInv, NotOpen, OpenMemory, NoAttendance, NoEvent
<1>8. /\ accepted' \in [Employees -> PunchMemory]
      /\ \A o \in Employees \ {e} : accepted'[o] = accepted[o]
  <2>1. [at |-> rows[id].at, att |-> made] \in PunchMemory
    BY <1>2, RowTypes, RecordTypes DEF PunchMemory, RunInv
  <2> QED
    BY <1>1, <1>2, <2>1 DEF RunInv, MemoryInv
<1> QED
  BY <1>1, <1>2, <1>5, <1>6, <1>7, <1>8

LEMMA MarkOutRun ==
  ASSUME RunInv, NEW id \in range, MarkOut(id) PROVE RunInv'
<1> DEFINE e == rows[id].emp
<1>1. /\ event' \in [Ids -> [status : Status, att : Nat, flagged : BOOLEAN]]
      /\ \A o \in Ids : event'[o].att \in DOMAIN attendance \cup {NoAttendance}
      /\ stage = "markOut" /\ stage' = "row" /\ FirstOf(id)
      /\ e \in Employees /\ made \in DOMAIN attendance /\ made' = NoAttendance
      /\ pending' \in [Employees -> OpenMemory] /\ pending'[e] = NotOpen
      /\ accepted' \in [Employees -> PunchMemory]
      /\ accepted' = [accepted EXCEPT ![e] = [at |-> rows[id].at, att |-> made]]
      /\ \A o \in Employees \ {e} : pending'[o] = pending[o] /\ accepted'[o] = accepted[o]
      /\ range' = range \ {id}
      /\ applied' = [applied EXCEPT ![id] = "check_out_written"]
      /\ UNCHANGED <<now, rows, faults, manual, pc, todo, cur, seen, cfgClose, held,
                     closing, runDate, cursor, attendance, lastClose, lastReconcile>>
      /\ UNCHANGED <<run, existing, conflicts, snapshot, predicted, base>>
  BY MarkOutShape
<1>a. accepted'[e].att = made
  BY <1>1 DEF RunInv, MemoryInv
<1> HIDE DEF e
<1>n. ~NotOpen.row /\ NotOpen.att = NoAttendance /\ NotOpen.in = -1
  BY DEF NotOpen
<1>3. TypeOK'
  BY <1>1, WorldType DEF RunInv, ApplyInv, TypeOK
<1>4. GapInv'
  BY <1>1 DEF RunInv, GapInv
<1>5. MemoryInv'
  <2>1. applied' \in [Ids -> Reports]
    BY <1>1 DEF RunInv, MemoryInv, Reports
  <2> QED
    BY <1>1, <2>1 DEF RunInv, MemoryInv
<1>6. PendInv'
  BY <1>1, <1>n DEF RunInv, PendInv, IsOpen
<1>7. ApplyInv'
  BY <1>1 DEF RunInv, ApplyInv, OutStages, MarkStages
<1>8. BackfillTypeOK'
  <2>1. ASSUME NEW o \in Employees
        PROVE  /\ accepted'[o].att \in DOMAIN attendance' \cup {NoAttendance}
               /\ pending'[o].att \in DOMAIN attendance' \cup {NoAttendance}
               /\ pending'[o].row =>
                    pending'[o].ev \in Ids /\ pending'[o].in = rows'[pending'[o].ev].at
    BY <1>1, <1>n, <1>a DEF RunInv, BackfillTypeOK
  <2> QED
    BY <1>1, <2>1 DEF RunInv, BackfillTypeOK, Stages, Committed
<1> QED
  BY <1>3, <1>4, <1>5, <1>6, <1>7, <1>8 DEF RunInv

(* When the rows are through, some of the check-ins are let go.            *)
LEMMA EndRun == ASSUME RunInv, EndRows PROVE RunInv'
<1>1. /\ stage = "row" /\ range = {} /\ stage' = "end"
      /\ UNCHANGED <<range, accepted, made, applied, run, existing, conflicts, base>>
      /\ UNCHANGED vars
  BY DEF EndRows, plan
<1>2. \A e \in Employees : pending'[e] = pending[e] \/ pending'[e] = NotOpen
  BY DEF EndRows
<1>3. pending' \in [Employees -> OpenMemory]
  <2>1. NotOpen \in OpenMemory
    BY DEF NotOpen, OpenMemory, NoAttendance, NoEvent
  <2>2. \E f : pending' = [e \in Employees |-> f[e]]
    <3>1. pending' = [e \in Employees |-> pending'[e]]
      BY DEF EndRows
    <3> QED
      BY <3>1
  <2> QED
    BY <1>2, <2>1, <2>2 DEF RunInv, MemoryInv
<1>w. UNCHANGED <<now, rows, cursor, event, attendance, pc, todo>>
  BY <1>1 DEF vars
<1>n. ~NotOpen.row /\ NotOpen.att = NoAttendance /\ NotOpen.in = -1
  BY DEF NotOpen
<1>4. TypeOK'
  BY <1>1, TypeStep DEF RunInv
<1>5. GapInv'
  BY <1>w DEF RunInv, GapInv
<1>6. MemoryInv'
  BY <1>1, <1>w, <1>3 DEF RunInv, MemoryInv
<1>7. PendInv'
  BY <1>1, <1>w, <1>2, <1>n DEF RunInv, PendInv, IsOpen
<1>8. ApplyInv'
  BY <1>1, <1>w DEF RunInv, ApplyInv, OutStages, MarkStages
<1>9. BackfillTypeOK'
  <2>1. ASSUME NEW o \in Employees
        PROVE  /\ accepted'[o].att \in DOMAIN attendance' \cup {NoAttendance}
               /\ pending'[o].att \in DOMAIN attendance' \cup {NoAttendance}
               /\ pending'[o].row =>
                    pending'[o].ev \in Ids /\ pending'[o].in = rows'[pending'[o].ev].at
    BY <1>1, <1>w, <1>2, <1>n DEF RunInv, BackfillTypeOK
  <2> QED
    BY <1>1, <1>w, <2>1 DEF RunInv, BackfillTypeOK, Stages, Committed
<1> QED
  BY <1>4, <1>5, <1>6, <1>7, <1>8, <1>9 DEF RunInv

(***************************************************************************)
(* What happens around a run                                               *)
(***************************************************************************)
LEMMA AroundFrame ==
  ASSUME Around
  PROVE  /\ Next /\ rows' = rows /\ now' \in {now, now + 1}
         /\ stage # "off" => UNCHANGED <<event, cursor, pc, todo, cur, seen>>
<1>1. CASE stage = "off" /\ WorkerStep
  BY <1>1 DEF Next, WorkerStep, StartCycle, SkipStaged, StageRefused,
     StageDuplicate, StagePending, FindOpen, CloseBeforeNewDay, FlagNewDay, WriteCheckOut,
     CreateCheckIn, WriteAttendance, MarkCheckOut, MarkCheckIn, MarkEvent, RowDone,
     StageError, ErrorNotUnique, AdvanceCursor, StartClose, SkipClose, CloseOne, FlagClosed,
     RecordClose, Reconcile, environment
<1>2. CASE Tick
  BY <1>2 DEF Tick, Next, odoo, local
<1>3. ASSUME NEW e \in Employees, OtherCheckIn(e)
      PROVE  /\ Next /\ rows' = rows /\ now' = now
             /\ UNCHANGED <<event, cursor, pc, todo, cur, seen>>
  BY <1>3 DEF Next, OtherCheckIn, OdooEdit, local
<1>4. ASSUME NEW i \in DOMAIN attendance, OtherCheckOut(i)
      PROVE  /\ Next /\ rows' = rows /\ now' = now
             /\ UNCHANGED <<event, cursor, pc, todo, cur, seen>>
  BY <1>4 DEF Next, OtherCheckOut, OdooEdit, local
<1> QED
  BY <1>1, <1>2, <1>3, <1>4 DEF Around

(* The cursor moves to the row in hand, and a batch is of rows ahead of it.*)
LEMMA CursorShape ==
  ASSUME TypeOK, [Next]_vars
  PROVE  /\ cursor' = cursor \/ (pc \in RowStates /\ cursor' = cur)
         /\ todo' \subseteq todo \/ todo' = NextRows
<1>1. CASE WorkerStep
  BY <1>1 DEF WorkerStep, StartCycle, SkipStaged, StageRefused, odoo, local,
     StageDuplicate, StagePending, FindOpen, CloseBeforeNewDay, FlagNewDay, FlagCheckIn,
     WriteCheckOut, CreateCheckIn, WriteAttendance, MarkCheckOut, MarkCheckIn, MarkEvent,
     RowDone, Upsert, StageError, ErrorNotUnique, AdvanceCursor, StartClose, SkipClose,
     CloseOne, FlagClosed, RecordClose, Reconcile, Forget, RowStates
<1>2. CASE CallFails \/ CycleLost \/ Tick \/ UNCHANGED vars
  BY <1>2 DEF CallFails, CycleLost, Forget, Tick, odoo, local, vars
<1>3. ASSUME NEW id \in Ids, NEW q \in Punches, CommitRow(id, q)
      PROVE  UNCHANGED <<cursor, todo>>
  BY <1>3 DEF CommitRow, odoo, local
<1>4. ASSUME NEW e \in Employees, OtherCheckIn(e) PROVE UNCHANGED <<cursor, todo>>
  BY <1>4 DEF OtherCheckIn, OdooEdit, local
<1>5. ASSUME NEW i \in DOMAIN attendance, OtherCheckOut(i) PROVE UNCHANGED <<cursor, todo>>
  BY <1>5 DEF OtherCheckOut, OdooEdit, local
<1> QED
  BY <1>1, <1>2, <1>3, <1>4, <1>5 DEF Next

(* What the worker and the others do to the attendances, one by one.       *)
LEMMA TableKeeps ==
  ASSUME TypeOK, [Next]_vars
  PROVE  /\ Len(attendance') >= Len(attendance) /\ DOMAIN attendance \subseteq DOMAIN attendance'
         /\ \A j \in DOMAIN attendance :
              /\ attendance'[j].emp = attendance[j].emp /\ attendance'[j].in = attendance[j].in
              /\ attendance'[j].inEv = attendance[j].inEv
              /\ \/ attendance'[j].outEv = attendance[j].outEv
                 \/ pc \in RowStates /\ attendance'[j].outEv = cur
         /\ \A j \in DOMAIN attendance' \ DOMAIN attendance :
              /\ attendance'[j].outEv = NoEvent
              /\ \/ pc \in RowStates /\ attendance'[j].inEv = cur
                 \/ attendance'[j].inEv = NoEvent /\ attendance'[j].in = now
<1> DEFINE Kept(j) ==
      /\ attendance'[j].emp = attendance[j].emp /\ attendance'[j].in = attendance[j].in
      /\ attendance'[j].inEv = attendance[j].inEv
      /\ \/ attendance'[j].outEv = attendance[j].outEv
         \/ pc \in RowStates /\ attendance'[j].outEv = cur
<1>len. /\ Len(attendance) \in Nat /\ DOMAIN attendance = 1 .. Len(attendance)
        /\ Len(attendance') \in Nat /\ DOMAIN attendance' = 1 .. Len(attendance')
  <2>1. TypeOK'
    BY TypeStep
  <2> QED
    BY <2>1, RecordTypes DEF TypeOK
<1>1. ASSUME NEW i \in DOMAIN attendance, CloseWrite(i)
      PROVE  DOMAIN attendance' = DOMAIN attendance /\ \A j \in DOMAIN attendance : Kept(j)
  <2>1. PICK reason \in {"new_day", "eod"} : attendance' = AutoClosed(i, reason)
    BY <1>1 DEF CloseWrite
  <2>2. /\ DOMAIN attendance' = DOMAIN attendance
        /\ \A j \in DOMAIN attendance \ {i} : attendance'[j] = attendance[j]
        /\ attendance'[i].emp = attendance[i].emp /\ attendance'[i].in = attendance[i].in
        /\ attendance'[i].inEv = attendance[i].inEv
        /\ attendance'[i].outEv = attendance[i].outEv
    BY <2>1, AutoClosedFields
  <2> QED
    BY <2>2
<1>2. ASSUME held \in DOMAIN attendance, CheckOutWrite
      PROVE  DOMAIN attendance' = DOMAIN attendance /\ \A j \in DOMAIN attendance : Kept(j)
  <2>1. pc \in RowStates /\ attendance' = CheckedOut(held)
    BY <1>2 DEF CheckOutWrite, RowStates, ToggleStates
  <2>2. /\ DOMAIN attendance' = DOMAIN attendance
        /\ \A j \in DOMAIN attendance \ {held} : attendance'[j] = attendance[j]
        /\ attendance'[held].emp = attendance[held].emp
        /\ attendance'[held].in = attendance[held].in
        /\ attendance'[held].inEv = attendance[held].inEv
        /\ attendance'[held].outEv = cur
    BY <1>2, <2>1, CheckedOutFields
  <2> QED
    BY <2>1, <2>2
<1>3. ASSUME NEW i \in DOMAIN attendance, OtherCheckOut(i)
      PROVE  DOMAIN attendance' = DOMAIN attendance /\ \A j \in DOMAIN attendance : Kept(j)
  <2>1. attendance' = [attendance EXCEPT ![i].out = now]
    BY <1>3 DEF OtherCheckOut, OdooEdit
  <2>2. /\ DOMAIN attendance' = DOMAIN attendance
        /\ \A j \in DOMAIN attendance \ {i} : attendance'[j] = attendance[j]
        /\ attendance'[i].emp = attendance[i].emp /\ attendance'[i].in = attendance[i].in
        /\ attendance'[i].inEv = attendance[i].inEv
        /\ attendance'[i].outEv = attendance[i].outEv
    BY <2>1, RecordTypes DEF AttendanceRecord
  <2> QED
    BY <2>2
<1>4. ASSUME NEW r, attendance' = Append(attendance, r), r.outEv = NoEvent,
             \/ pc \in RowStates /\ r.inEv = cur
             \/ r.inEv = NoEvent /\ r.in = now
      PROVE  /\ DOMAIN attendance \subseteq DOMAIN attendance'
             /\ \A j \in DOMAIN attendance : Kept(j)
             /\ \A j \in DOMAIN attendance' \ DOMAIN attendance :
                  /\ attendance'[j].outEv = NoEvent
                  /\ \/ pc \in RowStates /\ attendance'[j].inEv = cur
                     \/ attendance'[j].inEv = NoEvent /\ attendance'[j].in = now
  BY <1>4, AppendedFields
<1>5. CheckInWrite => pc \in RowStates
  BY DEF CheckInWrite, RowStates, ToggleStates
<1>6. /\ DOMAIN attendance \subseteq DOMAIN attendance'
      /\ \A j \in DOMAIN attendance : Kept(j)
      /\ \A j \in DOMAIN attendance' \ DOMAIN attendance :
           /\ attendance'[j].outEv = NoEvent
           /\ \/ pc \in RowStates /\ attendance'[j].inEv = cur
              \/ attendance'[j].inEv = NoEvent /\ attendance'[j].in = now
  <2> HIDE DEF Kept
  <2>1. CASE attendance' = attendance
    BY <2>1 DEF Kept
  <2>2. CASE CheckInWrite
    BY <2>2, <1>4, <1>5 DEF CheckInWrite, NewCheckIn
  <2>3. ASSUME NEW e \in Employees, attendance' = OtherNewCheckIn(e)
        PROVE  /\ DOMAIN attendance \subseteq DOMAIN attendance'
               /\ \A j \in DOMAIN attendance : Kept(j)
               /\ \A j \in DOMAIN attendance' \ DOMAIN attendance :
                    /\ attendance'[j].outEv = NoEvent
                    /\ \/ pc \in RowStates /\ attendance'[j].inEv = cur
                       \/ attendance'[j].inEv = NoEvent /\ attendance'[j].in = now
    BY <2>3, <1>4 DEF OtherNewCheckIn
  <2> QED
    BY <1>1, <1>2, <1>3, <2>1, <2>2, <2>3, TableShapes
<1>7. Len(attendance') >= Len(attendance)
  BY <1>len, <1>6
<1> QED
  BY <1>6, <1>7

(* An event names an attendance that is there, whoever wrote it.           *)
LEMMA EventNames ==
  ASSUME TypeOK, [Next]_vars,
         \A id \in Ids : event[id].att \in DOMAIN attendance \cup {NoAttendance}
  PROVE  \A id \in Ids : event'[id].att \in DOMAIN attendance' \cup {NoAttendance}
<1>dom. DOMAIN attendance \subseteq DOMAIN attendance'
  BY TableKeeps
<1>ev. event \in [Ids -> [status : Status, att : Nat, flagged : BOOLEAN]]
  BY DEF TypeOK
<1> DEFINE Named == \A id \in Ids : event'[id].att \in DOMAIN attendance \cup {NoAttendance}
<1>1. CASE event' = event
  BY <1>1, <1>dom
<1>2. CASE Flagging
  <2>1. \A id \in Ids : event'[id].att = event[id].att
    BY <1>2, <1>ev DEF Flagging, FlagCheckIn
  <2> QED
    BY <2>1, <1>dom
<1>3. ASSUME NEW st, Marking("markIn", st) \/ Marking("markOut", st) PROVE Named
  BY <1>3 DEF Marking
<1>4. ASSUME NEW st, NEW a \in DOMAIN attendance \cup {NoAttendance}, Upsert(cur, st, a)
      PROVE  Named
  <2>1. \A id \in Ids : event'[id] \in {event[id], [status |-> st, att |-> a, flagged |-> FALSE]}
    BY <1>4, <1>ev DEF Upsert
  <2>2. \A id \in Ids : event'[id].att \in {event[id].att, a}
    BY <2>1
  <2> QED
    BY <2>2
<1>5. ASSUME pc \in RowStates, \E st \in Status : Staging(st) PROVE Named
  <2>1. CASE event' = event
    BY <2>1
  <2>2. CASE StageRefused \/ StagePending \/ StageError
    BY <2>2, <1>4 DEF StageRefused, StagePending, StageError
  <2>3. CASE StageDuplicate
    BY <2>3, <1>4 DEF StageDuplicate, AcceptedOf
  <2>4. CASE FlagNewDay \/ FlagClosed
    <3>1. held \in DOMAIN attendance /\ FlagCheckIn(held)
      BY <2>4 DEF FlagNewDay, FlagClosed, TypeOK, HoldingStates, NoAttendance
    <3>2. \A id \in Ids : event'[id].att = event[id].att
      BY <3>1, <1>ev DEF FlagCheckIn
    <3> QED
      BY <3>2
  <2>5. CASE MarkCheckOut \/ MarkCheckIn
    <3>1. held \in DOMAIN attendance
      BY <2>5 DEF MarkCheckOut, MarkCheckIn, MarkEvent, TypeOK, HoldingStates, NoAttendance
    <3>2. \A id \in Ids : event'[id].att \in {event[id].att, held}
      BY <2>5, <1>ev DEF MarkCheckOut, MarkCheckIn, MarkEvent
    <3> QED
      BY <3>1, <3>2
  <2>6. \/ event' = event
        \/ StageRefused \/ StagePending \/ StageError \/ StageDuplicate
        \/ FlagNewDay \/ FlagClosed \/ MarkCheckOut \/ MarkCheckIn
    BY DEF Next, WorkerStep, StartCycle, SkipStaged, FindOpen, CloseBeforeNewDay,
       WriteCheckOut, CreateCheckIn, WriteAttendance, ErrorNotUnique, AdvanceCursor,
       StartClose, SkipClose, CloseOne, RecordClose, Reconcile, CallFails, CycleLost, Tick,
       CommitRow, OtherCheckIn, OtherCheckOut, OdooEdit, odoo, vars
  <2> QED
    BY <2>1, <2>2, <2>3, <2>4, <2>5, <2>6
<1>6. Named
  BY <1>1, <1>2, <1>3, <1>5, EventShapes
<1> QED
  BY <1>6, <1>dom

LEMMA AroundRun ==
  ASSUME RunInv, Around, UNCHANGED backfill PROVE RunInv'
<1>1. /\ Next /\ rows' = rows /\ now' \in {now, now + 1}
      /\ stage # "off" => UNCHANGED <<event, cursor, pc, todo, cur, seen>>
  BY AroundFrame
<1>2. UNCHANGED <<stage, range, accepted, pending, made, applied, run, existing, conflicts, base>>
  BY DEF backfill, plan, memory
<1>3. TypeOK'
  BY <1>1, TypeStep DEF RunInv
<1>t. /\ Len(attendance') >= Len(attendance) /\ DOMAIN attendance \subseteq DOMAIN attendance'
      /\ \A j \in DOMAIN attendance :
           attendance'[j].emp = attendance[j].emp /\ attendance'[j].in = attendance[j].in
  BY <1>1, TableKeeps DEF RunInv
<1>4. GapInv'
  <2>1. now' >= Started
    BY <1>1, BackfillAssumption DEF RunInv, GapInv, TypeOK
  <2>2. \A id \in todo \cup NextRows : id > Gap
    <3>1. \A id \in NextRows : id > cursor /\ id \in Nat
      BY DEF NextRows, Committed, Ids
    <3>2. cursor \in Nat /\ Gap \in Nat
      BY BackfillAssumption, SyncAssumption DEF RunInv, TypeOK, Ids
    <3> QED
      BY <3>1, <3>2 DEF RunInv, GapInv
  <2>3. /\ cursor' = cursor \/ (pc \in RowStates /\ cursor' = cur)
        /\ todo' \subseteq todo \/ todo' = NextRows
    BY <1>1, CursorShape DEF RunInv
  <2>4. cursor' >= Gap
    <3>1. CASE cursor' = cursor
      BY <3>1 DEF RunInv, GapInv
    <3>2. CASE pc \in RowStates /\ cursor' = cur
      <4>1. cur \in todo /\ cur \in Nat
        BY <3>2, CurrentRow DEF RunInv, Ids
      <4> QED
        BY <3>2, <4>1, <2>2, BackfillAssumption
    <3> QED
      BY <2>3, <3>1, <3>2
  <2> QED
    BY <1>1, <2>1, <2>2, <2>3, <2>4 DEF RunInv, GapInv
<1>5. MemoryInv'
  <2>1. \A id \in Ids : event'[id].att \in DOMAIN attendance' \cup {NoAttendance}
    BY <1>1, EventNames DEF RunInv, MemoryInv
  <2>2. Len(attendance') \in Nat /\ Len(attendance) \in Nat
    BY <1>3 DEF RunInv, TypeOK
  <2> QED
    BY <1>2, <1>t, <2>1, <2>2 DEF RunInv, MemoryInv
<1>6. PendInv'
  BY <1>1, <1>2, <1>t DEF RunInv, PendInv, IsOpen
<1>7. ApplyInv'
  <2>1. \A o \in range : SortedNow(o)' = SortedNow(o)
    BY <1>1, <1>2, SortedSame DEF RunInv, BackfillTypeOK, Committed
  <2>2. \A o \in range : FirstOf(o)' <=> FirstOf(o)
    BY <1>2 DEF FirstOf
  <2>3. \A o \in range : /\ IsOpen(rows[o].emp)' <=> IsOpen(rows[o].emp)
                         /\ OpenEarlierDay(rows[o].emp, o)' <=> OpenEarlierDay(rows[o].emp, o)
    BY <1>1, <1>2 DEF IsOpen, OpenEarlierDay
  <2>4. stage \in MarkStages =>
          /\ made' \in DOMAIN attendance' /\ attendance'[made'].emp = attendance[made].emp
          /\ IsOpen(attendance[made].emp)'
    BY <1>2, <1>t DEF IsOpen, RunInv, ApplyInv
  <2>5. stage' # "off" => pc' = "idle"
    BY <1>1, <1>2 DEF RunInv, ApplyInv
  <2> QED
    BY <1>1, <1>2, <2>1, <2>2, <2>3, <2>4, <2>5 DEF RunInv, ApplyInv, MarkStages
<1>8. BackfillTypeOK'
  BY <1>1, <1>2, <1>t DEF RunInv, BackfillTypeOK, Committed
<1> QED
  BY <1>3, <1>4, <1>5, <1>6, <1>7, <1>8 DEF RunInv

LEMMA RunInit == BackfillInit => RunInv
<1> SUFFICES ASSUME BackfillInit PROVE RunInv
  OBVIOUS
<1> USE DEF BackfillInit
<1>p. \A id \in Ids : rows[id] \in Punches /\ rows[id] \in Row /\ rows[id].at <= Started
  BY SyncAssumption
<1>a. DOMAIN attendance = {} /\ Len(attendance) = 0
  OBVIOUS
<1>1. TypeOK
  <2>1. rows \in [Ids -> Punches \cup {NoRow}]
    BY SyncAssumption
  <2>2. event \in [Ids -> [status : Status, att : Nat, flagged : BOOLEAN]]
    BY DEF Unstaged, Status, NoAttendance
  <2>3. cursor \in Ids \cup {0} /\ now \in Nat
    BY BackfillAssumption DEF Ids
  <2>4. seen \in [Ids -> Status] /\ attendance \in Seq(AttendanceRecord)
    BY DEF Blank, Status
  <2> QED
    BY <2>1, <2>2, <2>3, <2>4
    DEF TypeOK, NoDate, NoAttendance, RowStates, ToggleStates, HoldingStates, CloseStates
<1>2. GapInv
  BY <1>p, BackfillAssumption DEF GapInv
<1>3. MemoryInv
  BY <1>a DEF MemoryInv, NoPunch, NotOpen, PunchMemory, OpenMemory, NoAttendance, NoEvent,
     Blank, Reports, Unstaged
<1>4. PendInv
  BY DEF PendInv, NotOpen, IsOpen, NoAttendance
<1>5. ApplyInv
  BY DEF ApplyInv, OutStages, MarkStages
<1>6. BackfillTypeOK
  BY DEF BackfillTypeOK, Stages, Blank, Status, NoPunch, NotOpen, NoAttendance
<1> QED
  BY <1>1, <1>2, <1>3, <1>4, <1>5, <1>6 DEF RunInv

LEMMA RunStep == RunInv /\ [BackfillNext]_bvars => RunInv'
<1> SUFFICES ASSUME RunInv, [BackfillNext]_bvars PROVE RunInv'
  OBVIOUS
<1>1. CASE ReadOpen \/ EndRows
  BY <1>1, ReadRun, EndRun
<1>2. CASE Finish
  <2>1. PICK st \in {"failed", "success"} : Stop(st)
    BY <1>2 DEF Finish
  <2>2. stage # "off" /\ UNCHANGED vars
    BY <1>2 DEF Finish
  <2> QED
    BY <2>1, <2>2, StopRun DEF vars
<1>3. CASE ApplyFails
  <2>1. Stop("failed") /\ stage # "off" /\ UNCHANGED <<event, attendance>>
    BY <1>3 DEF ApplyFails, odoo
  <2> QED
    BY <1>3, <2>1, StopRun, Frame
<1>4. ASSUME NEW id \in range, ApplyRow(id) PROVE RunInv'
  BY <1>4, PassedRun, TakeRun, CloseEarlierRun, StageOutRun, WriteOutRun, MarkInRun, MarkOutRun
  DEF ApplyRow
<1>5. ASSUME NEW e \in Employees, CloseAtEnd(e) \/ MarkClosed(e) PROVE RunInv'
  BY <1>5, CloseAtEndRun, MarkClosedRun
<1>6. ASSUME NEW lo \in Ids, NEW hi \in lo .. MaxId,
             StartApply({id \in Committed : lo <= id /\ id <= hi})
      PROVE  RunInv'
  BY <1>6, StartRun
<1>7. CASE Around /\ UNCHANGED backfill
  BY <1>7, AroundRun
<1>8. CASE UNCHANGED bvars
  <2>1. UNCHANGED vars /\ UNCHANGED <<stage, range, accepted, pending, made, applied, run,
                                      existing, conflicts, base>>
    BY <1>8 DEF bvars, backfill, plan, memory
  <2> QED
    BY <2>1 DEF vars, RunInv, TypeOK, GapInv, MemoryInv, PendInv, ApplyInv, BackfillTypeOK,
       Committed, IsOpen, FirstOf, SortedNow, OpenEarlierDay
<1> QED
  BY <1>1, <1>2, <1>3, <1>4, <1>5, <1>6, <1>7, <1>8 DEF BackfillNext, BackfillStep

LEMMA RunInvariant == BackfillSpec => []RunInv
BY RunInit, RunStep, PTL DEF BackfillSpec

(* The run's variables have their types whatever fails and whatever others *)
(* do, and an attendance is held exactly while its events are marked.      *)
THEOREM BackfillTyped == BackfillSpec => []BackfillTypeOK
<1>1. RunInv => BackfillTypeOK
  BY DEF RunInv
<1> QED
  BY <1>1, RunInvariant, PTL

(***************************************************************************)
(* What a step of a run does to the attendances                            *)
(***************************************************************************)
(* An attendance is written for the check-in of e, with its check-out by   *)
(* the first row of the range when outEv names one.                        *)
Adds(e, outEv) ==
  /\ IsOpen(e) /\ stage \notin MarkStages /\ stage' \in MarkStages
  /\ \E out \in Nat : Written(attendance', made', e, out, outEv)
  /\ UNCHANGED <<rows, event, range, accepted, pending, applied, run, conflicts, base>>
  /\ outEv = NoEvent => stage' = "markClosed"
  /\ outEv # NoEvent =>
       /\ stage' \in {"markIn", "markOut"} /\ FirstOf(outEv)
       /\ SortedNow(outEv) = "toggle" /\ rows[outEv].emp = e
       /\ Day(rows[outEv].at) = Day(pending[e].in)

LEMMA OutDay ==
  ASSUME GapInv, MemoryInv, NEW id \in Ids, NEW e \in Employees, IsOpen(e),
         pending[e].in <= rows[id].at, ~OpenEarlierDay(e, id)
  PROVE  Day(rows[id].at) = Day(pending[e].in)
<1>1. pending[e].in \in Nat /\ rows[id].at \in Nat
  BY MemoryTypes, RowTypes DEF IsOpen
<1>2. Day(pending[e].in) <= Day(rows[id].at)
  BY <1>1, DayOrder
<1>3. ~(Day(pending[e].in) < Day(rows[id].at))
  BY DEF OpenEarlierDay
<1>4. Day(pending[e].in) \in Nat /\ Day(rows[id].at) \in Nat
  BY <1>1, DayType
<1> QED
  BY <1>2, <1>3, <1>4

(* A run changes the attendances in these ways only.                       *)
LEMMA TableChange ==
  ASSUME RunInv, BackfillStep \/ ApplyFails
  PROVE  \/ attendance' = attendance
         \/ \E e \in Employees, outEv \in range \cup {NoEvent} : Adds(e, outEv)
<1>ids. range \subseteq Ids /\ NoEvent \notin Ids
  BY DEF RunInv, BackfillTypeOK, Committed, NoEvent, Ids
<1>1. CASE ReadOpen \/ EndRows \/ Finish \/ ApplyFails
  BY <1>1 DEF ReadOpen, EndRows, Finish, ApplyFails, vars, odoo
<1>2. ASSUME NEW e \in Employees, MarkClosed(e) PROVE attendance' = attendance
  BY <1>2 DEF MarkClosed
<1>3. ASSUME NEW id \in range,
             PassRow(id) \/ SetAside(id) \/ TakeCheckIn(id) \/ StageCheckOut(id)
             \/ MarkIn(id) \/ MarkOut(id)
      PROVE  attendance' = attendance
  <2>1. CASE PassRow(id) \/ MarkIn(id) \/ MarkOut(id)
    BY <2>1 DEF PassRow, MarkIn, MarkOut, vars
  <2>2. CASE SetAside(id) \/ TakeCheckIn(id) \/ StageCheckOut(id)
    <3>1. \E st, a : Staged(id, st, a)
      BY <2>2 DEF SetAside, TakeCheckIn, StageCheckOut
    <3> QED
      BY <3>1 DEF Staged, Upsert
  <2> QED
    BY <1>3, <2>1, <2>2
<1>end. ASSUME NEW d, d \in Nat PROVE EndOfDay(d) \in Nat
  BY <1>end, SyncAssumption DEF EndOfDay
<1>4. ASSUME NEW e \in Employees, CloseAtEnd(e)
      PROVE  attendance' = attendance \/ Adds(e, NoEvent)
  <2> DEFINE out == EndOfDay(Day(pending[e].in))
  <2>1. stage = "end" /\ IsOpen(e)
    BY <1>4 DEF CloseAtEnd
  <2>2. out \in Nat
    <3>1. pending[e].in \in Nat
      BY <2>1, MemoryTypes DEF RunInv, IsOpen
    <3> QED
      BY <3>1, DayType
  <2>3. \/ UNCHANGED vars
        \/ /\ Written(attendance', made', e, out, NoEvent) /\ stage' = "markClosed"
           /\ UNCHANGED <<environment, worker, cursor, event, lastClose, lastReconcile,
                          plan, range, accepted, pending, applied, run>>
    BY <1>4, CloseAtEndShape DEF RunInv
  <2> HIDE DEF out
  <2> QED
    BY <2>1, <2>2, <2>3 DEF vars, Adds, MarkStages, environment, plan
<1>5. ASSUME NEW id \in range, CloseEarlierDay(id)
      PROVE  \/ attendance' = attendance
             \/ rows[id].emp \in Employees /\ Adds(rows[id].emp, NoEvent)
  <2> DEFINE e == rows[id].emp
             out == EndOfDay(Day(pending[e].in))
  <2>1. stage = "row" /\ IsOpen(e) /\ SortedNow(id) = "toggle" /\ id \in Ids
    BY <1>5, <1>ids DEF CloseEarlierDay, OpenEarlierDay
  <2>e. e \in Employees
    BY <2>1, ToggleRow DEF RunInv
  <2>2. out \in Nat
    <3>1. pending[e].in \in Nat
      BY <2>1, <2>e, MemoryTypes DEF RunInv, IsOpen
    <3> QED
      BY <3>1, DayType
  <2>3. \/ UNCHANGED vars
        \/ /\ Written(attendance', made', e, out, NoEvent) /\ stage' = "markClosed"
           /\ UNCHANGED <<environment, worker, cursor, event, lastClose, lastReconcile,
                          plan, range, accepted, pending, applied, run>>
    BY <1>5, <2>1, <2>e, CloseEarlierShape DEF RunInv
  <2> HIDE DEF out, e
  <2>4. UNCHANGED vars \/ Adds(e, NoEvent)
    BY <2>1, <2>2, <2>3 DEF Adds, MarkStages, environment, plan
  <2> QED
    BY <2>e, <2>4 DEF vars, e
<1>6. ASSUME NEW id \in range, WriteOut(id)
      PROVE  \/ attendance' = attendance
             \/ rows[id].emp \in Employees /\ Adds(rows[id].emp, id)
  <2> DEFINE e == rows[id].emp
  <2>1. stage = "checkOut" /\ FirstOf(id) /\ id \in Ids /\ id # NoEvent
    BY <1>6, <1>ids DEF WriteOut
  <2>2. /\ SortedNow(id) = "toggle" /\ IsOpen(e) /\ e \in Employees /\ ~OpenEarlierDay(e, id)
    BY <2>1, OutRow DEF OutStages
  <2>3. \/ UNCHANGED vars
        \/ /\ Written(attendance', made', e, rows[id].at, id) /\ pending[e].in <= rows[id].at
           /\ stage' = IF pending[e].att = NoAttendance THEN "markIn" ELSE "markOut"
           /\ UNCHANGED <<environment, worker, cursor, event, lastClose, lastReconcile,
                          plan, range, accepted, pending, applied, run>>
    BY <1>6, <2>1, <2>2, WriteOutShape DEF RunInv
  <2>4. rows[id].at \in Nat
    BY <2>1, RowTypes DEF RunInv
  <2>5. pending[e].in <= rows[id].at => Day(rows[id].at) = Day(pending[e].in)
    BY <2>1, <2>2, OutDay DEF RunInv
  <2>6. UNCHANGED vars \/ Adds(e, id)
    <3>1. CASE /\ Written(attendance', made', e, rows[id].at, id) /\ pending[e].in <= rows[id].at
               /\ stage' = IF pending[e].att = NoAttendance THEN "markIn" ELSE "markOut"
               /\ UNCHANGED <<environment, worker, cursor, event, lastClose, lastReconcile,
                              plan, range, accepted, pending, applied, run>>
      BY <2>1, <2>2, <2>4, <2>5, <3>1 DEF Adds, MarkStages, environment, plan
    <3> QED
      BY <2>3, <3>1
  <2> QED
    BY <2>2, <2>6 DEF vars
<1> QED
  BY <1>1, <1>2, <1>3, <1>4, <1>5, <1>6 DEF BackfillStep, ApplyRow

(* What every step keeps of the attendances.                               *)
LEMMA TableStays ==
  ASSUME RunInv, [BackfillNext]_bvars, NEW j \in DOMAIN attendance
  PROVE  /\ j \in DOMAIN attendance'
         /\ attendance'[j].emp = attendance[j].emp /\ attendance'[j].in = attendance[j].in
<1>1. CASE attendance' = attendance
  BY <1>1
<1>2. CASE BackfillStep \/ ApplyFails
  BY <1>2, <1>1, TableChange, WrittenKeeps DEF Adds
<1>3. CASE Around
  BY <1>3, AroundFrame, TableKeeps DEF RunInv
<1>4. ASSUME NEW ids, StartApply(ids) PROVE attendance' = attendance
  BY <1>4 DEF StartApply, vars
<1>5. UNCHANGED bvars => attendance' = attendance
  BY DEF bvars, vars
<1> QED
  BY <1>1, <1>2, <1>3, <1>4, <1>5 DEF BackfillNext

(* What a run plans is fixed when it starts; a check-in it remembers from  *)
(* a row was the next row, and its day was free.                           *)
Taken(id, e) ==
  /\ stage = "row" /\ SortedNow(id) = "toggle" /\ rows[id].emp = e
  /\ pending'[e] = OpenedBy(id)

LEMMA PlanShape ==
  ASSUME RunInv, BackfillStep \/ ApplyFails
  PROVE  /\ range' \subseteq range /\ UNCHANGED <<existing, conflicts, snapshot, predicted, base>>
         /\ \A e \in Employees : \/ pending'[e] = pending[e] \/ ~pending'[e].row
                                 \/ \E id \in range : Taken(id, e)
<1>n. ~NotOpen.row
  BY DEF NotOpen
<1>1. CASE ReadOpen
  <2>1. \A e \in Employees : ~OpenBefore(range, e).row
    BY <1>n DEF OpenBefore
  <2> QED
    BY <1>1, <2>1 DEF ReadOpen, plan
<1>2. CASE EndRows
  BY <1>2, <1>n DEF EndRows, plan
<1>3. CASE Finish \/ ApplyFails
  <2>1. PICK st : Stop(st)
    BY <1>3 DEF Finish, ApplyFails
  <2> QED
    BY <2>1, <1>n DEF Stop, plan
<1>4. ASSUME NEW e \in Employees, CloseAtEnd(e) \/ MarkClosed(e)
      PROVE  /\ range' \subseteq range
             /\ UNCHANGED <<existing, conflicts, snapshot, predicted, base>>
             /\ \A o \in Employees : pending'[o] = pending[o] \/ ~pending'[o].row
  <2>1. CASE MarkClosed(e)
    BY <2>1, <1>n, MarkClosedShape
  <2>2. CASE CloseAtEnd(e)
    BY <2>2, <1>n DEF CloseAtEnd, Materialize, Stop, plan
  <2> QED
    BY <1>4, <2>1, <2>2
<1>5. ASSUME NEW id \in range, ApplyRow(id)
      PROVE  /\ range' \subseteq range
             /\ UNCHANGED <<existing, conflicts, snapshot, predicted, base>>
             /\ \A e \in Employees : \/ pending'[e] = pending[e] \/ ~pending'[e].row
                                     \/ Taken(id, e)
  <2>1. CASE PassRow(id) \/ SetAside(id)
    BY <2>1 DEF PassRow, SetAside, ReportRow, plan
  <2>2. CASE TakeCheckIn(id)
    <3>1. /\ stage = "row" /\ SortedNow(id) = "toggle" /\ range' = range \ {id}
          /\ pending' = [pending EXCEPT ![rows[id].emp] = OpenedBy(id)]
          /\ UNCHANGED <<existing, conflicts, snapshot, predicted, base>>
      BY <2>2 DEF TakeCheckIn, ReportRow, plan
    <3>2. pending \in [Employees -> OpenMemory]
      BY DEF RunInv, MemoryInv
    <3> QED
      BY <3>1, <3>2 DEF Taken
  <2>3. CASE CloseEarlierDay(id) \/ WriteOut(id)
    <3>1. \E e, out, outEv, reason, next : Materialize(e, out, outEv, reason, next)
      BY <2>3 DEF CloseEarlierDay, WriteOut
    <3> QED
      BY <3>1, <1>n DEF Materialize, Stop, plan
  <2>4. CASE StageCheckOut(id) \/ MarkIn(id)
    <3>1. UNCHANGED <<plan, memory>>
      BY <2>4 DEF StageCheckOut, MarkIn
    <3>2. UNCHANGED <<range, pending, existing, conflicts, snapshot, predicted, base>>
      BY <3>1 DEF plan, memory
    <3> QED
      BY <3>2
  <2>5. CASE MarkOut(id)
    BY <2>5, <1>n, MarkOutShape
  <2> QED
    BY <1>5, <2>1, <2>2, <2>3, <2>4, <2>5 DEF ApplyRow
<1> QED
  BY <1>1, <1>2, <1>3, <1>4, <1>5 DEF BackfillStep

(***************************************************************************)
(* Days that were filled in before                                         *)
(***************************************************************************)
(* A row of the range, or a check-in that is remembered, is not of a day   *)
(* that had an attendance of its employee when the run began.              *)
BusyInv ==
  \A j \in 1 .. base :
    /\ \A id \in range :
         attendance[j].emp = rows[id].emp /\ Day(attendance[j].in) = Day(rows[id].at)
         => <<rows[id].emp, Day(rows[id].at)>> \in conflicts
    /\ \A e \in Employees :
         pending[e].row /\ attendance[j].emp = e
         => Day(attendance[j].in) # Day(pending[e].in)

(* The attendances on the day of a row of the range make the day busy.     *)
LEMMA BusyDay ==
  ASSUME RunInv, NEW ids \in SUBSET Ids, NEW id \in ids, NEW j \in DOMAIN attendance,
         attendance[j].emp = rows[id].emp, Day(attendance[j].in) = Day(rows[id].at)
  PROVE  <<rows[id].emp, Day(rows[id].at)>> \in BusyDays(ids)
<1>1. Day(rows[id].at) \in Nat
  BY RowTypes DEF RunInv
<1> QED
  BY <1>1 DEF BusyDays

LEMMA BusyStep == ASSUME RunInv, BusyInv, [BackfillNext]_bvars PROVE BusyInv'
<1>base. 1 .. base \subseteq DOMAIN attendance
  BY RecordTypes DEF RunInv, MemoryInv
<1>1. CASE BackfillStep \/ ApplyFails
  <2> SUFFICES ASSUME NEW j \in 1 .. base'
               PROVE  /\ \A id \in range' :
                           attendance'[j].emp = rows'[id].emp
                           /\ Day(attendance'[j].in) = Day(rows'[id].at)
                           => <<rows'[id].emp, Day(rows'[id].at)>> \in conflicts'
                      /\ \A e \in Employees :
                           pending'[e].row /\ attendance'[j].emp = e
                           => Day(attendance'[j].in) # Day(pending'[e].in)
    BY DEF BusyInv
  <2>1. /\ range' \subseteq range /\ UNCHANGED <<rows, conflicts, base>>
        /\ \A e \in Employees : \/ pending'[e] = pending[e] \/ ~pending'[e].row
                                \/ \E id \in range : Taken(id, e)
    BY <1>1, PlanShape, Frame
  <2>2. attendance'[j].emp = attendance[j].emp /\ attendance'[j].in = attendance[j].in
    BY <1>1, <1>base, <2>1, TableStays DEF BackfillNext
  <2>3. ASSUME NEW e \in Employees, NEW id \in range, Taken(id, e), attendance'[j].emp = e
        PROVE  Day(attendance'[j].in) # Day(pending'[e].in)
    <3>1. /\ rows[id].emp = e /\ pending'[e].in = rows[id].at
          /\ <<rows[id].emp, Day(rows[id].at)>> \notin conflicts
      BY <2>3, ToggleRow DEF Taken, OpenedBy, RunInv, BackfillTypeOK, Committed
    <3> QED
      BY <3>1, <2>1, <2>2, <2>3 DEF BusyInv
  <2> QED
    BY <2>1, <2>2, <2>3 DEF BusyInv
<1>2. ASSUME NEW ids \in SUBSET Ids, StartApply(ids) PROVE BusyInv'
  <2>1. /\ base' = Len(attendance) /\ range' = ids /\ conflicts' = BusyDays(ids)
        /\ UNCHANGED <<rows, attendance, pending>> /\ stage = "off"
    BY <1>2 DEF StartApply, vars
  <2>2. \A e \in Employees : ~pending[e].row
    BY <2>1 DEF RunInv, ApplyInv, NotOpen
  <2>3. 1 .. base' = DOMAIN attendance
    BY <2>1, RecordTypes DEF RunInv
  <2> QED
    BY <2>1, <2>2, <2>3, BusyDay DEF BusyInv
<1>3. CASE (Around /\ UNCHANGED backfill) \/ UNCHANGED bvars
  <2>1. UNCHANGED <<rows, range, pending, conflicts, base>>
    BY <1>3, AroundFrame DEF bvars, vars, backfill, plan, memory
  <2>2. \A j \in 1 .. base : /\ attendance'[j].emp = attendance[j].emp
                             /\ attendance'[j].in = attendance[j].in
    BY <1>3, <1>base, TableStays DEF BackfillNext
  <2> QED
    BY <2>1, <2>2 DEF BusyInv
<1> QED
  BY <1>1, <1>2, <1>3 DEF BackfillNext, Committed

LEMMA BusyInvariant == BackfillSpec => [](RunInv /\ BusyInv)
<1>1. BackfillInit => RunInv /\ BusyInv
  BY RunInit DEF BackfillInit, BusyInv
<1>2. RunInv /\ BusyInv /\ [BackfillNext]_bvars => (RunInv /\ BusyInv)'
  BY RunStep, BusyStep
<1> QED
  BY <1>1, <1>2, PTL DEF BackfillSpec

(* A run adds no attendance to a day on which the employee had one when    *)
(* it began: also not after a failure, or when others edit meanwhile.      *)
THEOREM FilledDaysAreLeft == BackfillSpec => BusyDaysUntouched
<1> DEFINE Step ==
      made' \in DOMAIN attendance' \ DOMAIN attendance =>
        \A j \in 1 .. base :
          attendance[j].emp = attendance'[made'].emp
          => Day(attendance[j].in) # Day(attendance'[made'].in)
<1>1. ASSUME RunInv, BusyInv, [BackfillNext]_bvars PROVE Step
  <2> SUFFICES ASSUME made' \in DOMAIN attendance' \ DOMAIN attendance,
                      NEW j \in 1 .. base, attendance[j].emp = attendance'[made'].emp
               PROVE  Day(attendance[j].in) # Day(attendance'[made'].in)
    OBVIOUS
  <2>m. attendance' # attendance
    OBVIOUS
  <2>0. 0 \notin DOMAIN attendance'
    <3>1. TypeOK'
      BY <1>1, RunStep DEF RunInv
    <3> QED
      BY <3>1 DEF TypeOK
  <2>1. CASE BackfillStep \/ ApplyFails
    <3>1. PICK e \in Employees, outEv \in range \cup {NoEvent} : Adds(e, outEv)
      BY <1>1, <2>m, <2>1, TableChange
    <3>2. /\ attendance'[made'].emp = e /\ attendance'[made'].in = pending[e].in
          /\ pending[e].row
      BY <3>1 DEF Adds, Written
    <3> QED
      BY <1>1, <3>2 DEF BusyInv
  <2>2. CASE UNCHANGED made
    <3>1. made \in DOMAIN attendance \/ made = 0
      BY <1>1 DEF RunInv, BackfillTypeOK, ApplyInv, MarkStages, NoAttendance
    <3> QED
      BY <2>2, <2>0, <3>1
  <2>3. ASSUME NEW ids, StartApply(ids) PROVE attendance' = attendance
    BY <2>3 DEF StartApply, vars
  <2> QED
    BY <1>1, <2>1, <2>2, <2>3, <2>m DEF BackfillNext, bvars, backfill, memory
<1>2. RunInv /\ BusyInv /\ [BackfillNext]_bvars => [Step]_bvars
  BY <1>1
<1> QED
  BY <1>2, BusyInvariant, PTL DEF BackfillSpec, BusyDaysUntouched

(***************************************************************************)
(* Every punch in one attendance                                           *)
(***************************************************************************)
GapIds == 1 .. Gap
UsedIds == {id \in GapIds : \E j \in DOMAIN attendance : RefersTo(j, id)}

(* A punch of the gap stands in an attendance of its employee and its day. *)
PlacedInv ==
  \A j \in DOMAIN attendance, id \in GapIds : RefersTo(j, id) =>
    /\ rows[id].emp = attendance[j].emp /\ Day(attendance[j].in) = Day(rows[id].at)

(* A row of the range whose day was free is in no attendance until its own *)
(* check-out is written; a check-in that is remembered is in none until    *)
(* its attendance is.                                                      *)
FreeInv ==
  /\ \A id \in range :
       /\ <<rows[id].emp, Day(rows[id].at)>> \notin conflicts
       /\ ~(FirstOf(id) /\ stage \in {"markIn", "markOut"})
       => id \notin UsedIds
  /\ \A e \in Employees :
       /\ pending[e].row
       /\ stage \in MarkStages => attendance[made].emp # e
       => pending[e].ev \notin UsedIds

UsedInv ==
  \A i, j \in DOMAIN attendance, id \in GapIds :
    RefersTo(i, id) /\ RefersTo(j, id) => i = j

LEMMA GapTypes == GapIds \subseteq Ids /\ NoEvent \notin Ids /\ NoEvent \notin GapIds
BY BackfillAssumption, SyncAssumption DEF GapIds, Ids, NoEvent

(* An attendance that is written refers to punches that no other does.     *)
LEMMA AddsRefs ==
  ASSUME RunInv, FreeInv, NEW e \in Employees, NEW outEv \in range \cup {NoEvent},
         Adds(e, outEv), NEW j \in DOMAIN attendance', NEW id \in GapIds, RefersTo(j, id)'
  PROVE  \/ j \in DOMAIN attendance /\ RefersTo(j, id)
         \/ /\ j = made' /\ id \notin UsedIds
            /\ rows[id].emp = attendance'[j].emp
            /\ Day(attendance'[j].in) = Day(rows[id].at)
            /\ \/ id = outEv
               \/ pending[e].row /\ id = pending[e].ev
<1>g. id \in Ids /\ id # NoEvent
  BY GapTypes
<1>1. PICK out \in Nat : Written(attendance', made', e, out, outEv)
  BY DEF Adds
<1>2. CASE j # made'
  BY <1>1, <1>2 DEF Written, RefersTo
<1>3. CASE j = made' /\ id = outEv
  <2>1. /\ stage \notin MarkStages /\ id \in range /\ rows[id].emp = e
        /\ SortedNow(id) = "toggle" /\ Day(rows[id].at) = Day(pending[e].in)
    BY <1>3, <1>g DEF Adds
  <2>2. <<rows[id].emp, Day(rows[id].at)>> \notin conflicts
    BY <1>g, <2>1, ToggleRow DEF RunInv
  <2>3. id \notin UsedIds
    BY <2>1, <2>2 DEF FreeInv, MarkStages
  <2>4. attendance'[j].emp = e /\ attendance'[j].in = pending[e].in
    BY <1>1, <1>3 DEF Written
  <2> QED
    BY <1>3, <2>1, <2>3, <2>4
<1>4. CASE j = made' /\ id # outEv /\ j \in DOMAIN attendance
  <2>1. /\ attendance'[j].inEv = attendance[j].inEv
        /\ attendance'[j].outEv \in {attendance[j].outEv, outEv}
    BY <1>1, <1>4 DEF Written
  <2> QED
    BY <1>4, <2>1 DEF RefersTo
<1>5. CASE j = made' /\ id # outEv /\ j \notin DOMAIN attendance
  <2>1. /\ pending[e].row /\ id = pending[e].ev
        /\ attendance'[j].emp = e /\ attendance'[j].in = pending[e].in
    BY <1>1, <1>5 DEF Written, RefersTo
  <2>2. id \notin UsedIds
    BY <2>1 DEF FreeInv, Adds
  <2>3. rows[id].emp = e /\ pending[e].in = rows[id].at
    BY <2>1 DEF RunInv, PendInv
  <2> QED
    BY <1>5, <2>1, <2>2, <2>3
<1> QED
  BY <1>2, <1>3, <1>4, <1>5

(* What happens around a run adds no reference to a punch of the gap.      *)
LEMMA AroundRefs ==
  ASSUME RunInv, Around, NEW j \in DOMAIN attendance', NEW id \in GapIds, RefersTo(j, id)'
  PROVE  j \in DOMAIN attendance /\ RefersTo(j, id)
<1>g. id \in Ids /\ id # NoEvent /\ id <= Gap /\ Gap \in Nat
  BY GapTypes, BackfillAssumption DEF GapIds
<1>1. pc \in RowStates => id # cur
  <2>1. pc \in RowStates => cur \in todo /\ cur \in Nat
    BY CurrentRow DEF RunInv, Ids
  <2> QED
    BY <1>g, <2>1 DEF RunInv, GapInv, Ids
<1>2. Next
  BY AroundFrame
<1> QED
  BY <1>1, <1>2, <1>g, TableKeeps DEF RunInv, RefersTo

LEMMA AddsUsed ==
  ASSUME RunInv, PlacedInv, FreeInv, UsedInv, NEW e \in Employees,
         NEW outEv \in range \cup {NoEvent}, Adds(e, outEv)
  PROVE  PlacedInv' /\ FreeInv' /\ UsedInv'
<1>ids. range \subseteq Ids
  BY DEF RunInv, BackfillTypeOK, Committed
<1>1. UNCHANGED <<rows, range, pending, conflicts>> /\ stage \notin MarkStages /\ stage' \in MarkStages
  BY DEF Adds
<1>2. \A j \in DOMAIN attendance :
        attendance'[j].emp = attendance[j].emp /\ attendance'[j].in = attendance[j].in
  BY WrittenKeeps DEF Adds
<1>g. GapIds' = GapIds
  BY DEF GapIds
<1>3. PlacedInv'
  BY <1>1, <1>2, <1>g, AddsRefs DEF PlacedInv
<1>4. UsedInv'
  <2> SUFFICES ASSUME NEW i \in DOMAIN attendance', NEW j \in DOMAIN attendance',
                      NEW id \in GapIds, RefersTo(i, id)', RefersTo(j, id)'
               PROVE  i = j
    BY <1>g DEF UsedInv
  <2>1. (i \in DOMAIN attendance /\ RefersTo(i, id)) \/ (i = made' /\ id \notin UsedIds)
    BY AddsRefs
  <2>2. (j \in DOMAIN attendance /\ RefersTo(j, id)) \/ (j = made' /\ id \notin UsedIds)
    BY AddsRefs
  <2> QED
    BY <2>1, <2>2 DEF UsedInv, UsedIds
<1>5. attendance'[made'].emp = e
  BY DEF Adds, Written
<1>6. \A id \in UsedIds' : id \in UsedIds \/ id = outEv \/ (pending[e].row /\ id = pending[e].ev)
  <2> SUFFICES ASSUME NEW id \in UsedIds'
               PROVE  id \in UsedIds \/ id = outEv \/ (pending[e].row /\ id = pending[e].ev)
    OBVIOUS
  <2>1. PICK j \in DOMAIN attendance' : id \in GapIds /\ RefersTo(j, id)'
    BY <1>g DEF UsedIds
  <2> QED
    BY <2>1, AddsRefs DEF UsedIds
<1>7. ASSUME NEW id \in range, <<rows[id].emp, Day(rows[id].at)>> \notin conflicts,
             ~(FirstOf(id)' /\ stage' \in {"markIn", "markOut"})
      PROVE  id \notin UsedIds'
  <2>1. id \notin UsedIds
    BY <1>1, <1>7 DEF FreeInv, MarkStages
  <2>2. id # outEv
    BY <1>1, <1>7, <1>ids, GapTypes DEF Adds, FirstOf
  <2>3. ~(pending[e].row /\ id = pending[e].ev)
    BY DEF RunInv, PendInv
  <2> QED
    BY <1>6, <2>1, <2>2, <2>3
<1>8. ASSUME NEW o \in Employees, pending[o].row, o # e
      PROVE  pending[o].ev \notin UsedIds'
  <2>1. /\ pending[o].ev \in Ids \ range /\ rows[pending[o].ev].emp = o
        /\ pending[e].row => rows[pending[e].ev].emp = e
    BY <1>8 DEF RunInv, PendInv
  <2>2. pending[o].ev \notin UsedIds
    BY <1>1, <1>8 DEF FreeInv
  <2>3. pending[o].ev # outEv
    BY <2>1, GapTypes
  <2>4. ~(pending[e].row /\ pending[o].ev = pending[e].ev)
    BY <1>8, <2>1
  <2> QED
    BY <1>6, <2>2, <2>3, <2>4
<1>9. FreeInv'
  <2>1. \A id \in range' :
          /\ <<rows'[id].emp, Day(rows'[id].at)>> \notin conflicts'
          /\ ~(FirstOf(id)' /\ stage' \in {"markIn", "markOut"})
          => id \notin UsedIds'
    BY <1>1, <1>7
  <2>2. \A o \in Employees :
          /\ pending'[o].row
          /\ stage' \in MarkStages => attendance'[made'].emp # o
          => pending'[o].ev \notin UsedIds'
    BY <1>1, <1>5, <1>8
  <2> QED
    BY <2>1, <2>2 DEF FreeInv, MarkStages
<1> QED
  BY <1>3, <1>4, <1>9

(* The steps of a run that write no attendance.                            *)
LEMMA StillFree ==
  ASSUME RunInv, FreeInv, BackfillStep \/ ApplyFails, attendance' = attendance
  PROVE  FreeInv'
<1>n. ~NotOpen.row
  BY DEF NotOpen
<1>u. UsedIds' = UsedIds /\ rows' = rows /\ conflicts' = conflicts
  BY Frame, PlanShape DEF UsedIds, GapIds, RefersTo
<1>ids. range \subseteq Ids
  BY DEF RunInv, BackfillTypeOK, Committed
<1>stop. ASSUME NEW st, Stop(st) PROVE FreeInv'
  <2>1. range' = {} /\ \A e \in Employees : ~pending'[e].row
    BY <1>stop, <1>n DEF Stop
  <2> QED
    BY <2>1 DEF FreeInv
<1>1. CASE ReadOpen \/ EndRows
  <2>1. /\ stage' \notin {"markIn", "markOut"} /\ stage' \notin MarkStages /\ range' = range
        /\ stage \notin MarkStages
    BY <1>1 DEF ReadOpen, EndRows, MarkStages
  <2>2. \A e \in Employees : pending'[e] = pending[e] \/ ~pending'[e].row
    BY <1>1, <1>n DEF ReadOpen, EndRows, OpenBefore
  <2> QED
    BY <1>u, <2>1, <2>2 DEF FreeInv, MarkStages
<1>2. CASE Finish \/ ApplyFails
  BY <1>2, <1>stop DEF Finish, ApplyFails
<1>3. ASSUME NEW e \in Employees, MarkClosed(e) PROVE FreeInv'
  <2>1. /\ stage = "markClosed" /\ attendance[made].emp = e /\ range' = range
        /\ pending'[e] = NotOpen /\ stage' \in {"end", "row"}
        /\ \A o \in Employees \ {e} : pending'[o] = pending[o]
    BY <1>3, MarkClosedShape
  <2> QED
    BY <1>n, <1>u, <2>1 DEF FreeInv
<1>4. ASSUME NEW id \in range, MarkOut(id) PROVE FreeInv'
  <2> DEFINE e == rows[id].emp
  <2>1. /\ stage = "markOut" /\ stage' = "row" /\ FirstOf(id) /\ range' = range \ {id}
        /\ e \in Employees /\ pending'[e] = NotOpen
        /\ \A o \in Employees \ {e} : pending'[o] = pending[o]
    BY <1>4, MarkOutShape
  <2>2. attendance[made].emp = e
    BY <2>1, OutRow DEF OutStages
  <2>3. \A o \in range \ {id} : ~FirstOf(o)
    BY <2>1, FirstIsOne DEF RunInv
  <2> QED
    BY <1>n, <1>u, <2>1, <2>2, <2>3 DEF FreeInv, MarkStages
<1>5. ASSUME NEW id \in range, PassRow(id) \/ SetAside(id) PROVE FreeInv'
  <2>1. stage = "row" /\ stage' = "row" /\ range' = range \ {id} /\ pending' = pending
    BY <1>5 DEF PassRow, SetAside, ReportRow
  <2> QED
    BY <1>u, <2>1 DEF FreeInv, MarkStages
<1>6. ASSUME NEW id \in range, TakeCheckIn(id) PROVE FreeInv'
  <2>1. /\ stage = "row" /\ stage' = "row" /\ range' = range \ {id} /\ SortedNow(id) = "toggle"
        /\ pending' = [pending EXCEPT ![rows[id].emp] = OpenedBy(id)]
    BY <1>6 DEF TakeCheckIn, ReportRow
  <2>2. <<rows[id].emp, Day(rows[id].at)>> \notin conflicts
    BY <1>ids, <2>1, ToggleRow DEF RunInv
  <2>3. id \notin UsedIds
    BY <2>1, <2>2 DEF FreeInv
  <2>4. \A e \in Employees : pending'[e] = pending[e] \/ pending'[e] = OpenedBy(id)
    BY <2>1 DEF RunInv, MemoryInv
  <2>5. OpenedBy(id).ev = id
    BY DEF OpenedBy
  <2> QED
    BY <1>u, <2>1, <2>3, <2>4, <2>5 DEF FreeInv, MarkStages
<1>7. ASSUME NEW id \in range, StageCheckOut(id) PROVE FreeInv'
  <2>1. stage = "row" /\ stage' = "checkOut" /\ UNCHANGED <<range, pending>>
    BY <1>7 DEF StageCheckOut, memory
  <2> QED
    BY <1>u, <2>1 DEF FreeInv, MarkStages
<1>8. ASSUME NEW id \in range, MarkIn(id) PROVE FreeInv'
  <2>1. stage = "markIn" /\ stage' = "markOut" /\ UNCHANGED <<range, pending, made>>
    BY <1>8, MarkInShape
  <2>2. \A o \in range : FirstOf(o)' <=> FirstOf(o)
    BY <2>1 DEF FirstOf
  <2> QED
    BY <1>u, <2>1, <2>2 DEF FreeInv, MarkStages
<1>9. ASSUME NEW e, NEW out, NEW outEv, NEW reason, NEW next,
             Materialize(e, out, outEv, reason, next), stage \notin MarkStages,
             next \in MarkStages
      PROVE  FreeInv'
  <2>1. CASE \E st : Stop(st)
    BY <2>1, <1>stop
  <2>2. CASE stage' = next /\ UNCHANGED <<range, pending>>
    BY <1>9, <1>u, <2>2 DEF FreeInv, MarkStages
  <2> QED
    BY <1>9, <2>1, <2>2 DEF Materialize
<1>10. ASSUME NEW id \in range, CloseEarlierDay(id) \/ WriteOut(id) PROVE FreeInv'
  BY <1>9, <1>10 DEF CloseEarlierDay, WriteOut, MarkStages
<1>11. ASSUME NEW e \in Employees, CloseAtEnd(e) PROVE FreeInv'
  BY <1>9, <1>11 DEF CloseAtEnd, MarkStages
<1> QED
  BY <1>1, <1>2, <1>3, <1>4, <1>5, <1>6, <1>7, <1>8, <1>10, <1>11 DEF BackfillStep, ApplyRow

LEMMA UsedStep ==
  ASSUME RunInv, PlacedInv, FreeInv, UsedInv, [BackfillNext]_bvars
  PROVE  PlacedInv' /\ FreeInv' /\ UsedInv'
<1>g. GapIds' = GapIds
  BY DEF GapIds
<1>still. ASSUME UNCHANGED <<attendance, rows>> PROVE PlacedInv' /\ UsedInv' /\ UsedIds' = UsedIds
  BY <1>still, <1>g DEF PlacedInv, UsedInv, UsedIds, RefersTo
<1>1. CASE BackfillStep \/ ApplyFails
  <2>1. CASE attendance' = attendance
    BY <1>1, <1>still, <2>1, StillFree, Frame
  <2>2. CASE attendance' # attendance
    BY <1>1, <2>2, TableChange, AddsUsed
  <2> QED
    BY <2>1, <2>2
<1>2. ASSUME NEW ids \in SUBSET Ids, StartApply(ids) PROVE PlacedInv' /\ FreeInv' /\ UsedInv'
  <2>1. /\ stage = "off" /\ stage' = "read" /\ range' = ids /\ conflicts' = BusyDays(ids)
        /\ UNCHANGED <<rows, attendance, pending>>
    BY <1>2 DEF StartApply, vars
  <2>2. \A e \in Employees : ~pending[e].row
    BY <2>1 DEF RunInv, ApplyInv, NotOpen
  <2>3. ASSUME NEW id \in ids, id \in UsedIds
        PROVE  <<rows[id].emp, Day(rows[id].at)>> \in BusyDays(ids)
    <3>1. PICK j \in DOMAIN attendance : RefersTo(j, id) /\ id \in GapIds
      BY <2>3 DEF UsedIds
    <3>2. attendance[j].emp = rows[id].emp /\ Day(attendance[j].in) = Day(rows[id].at)
      BY <3>1 DEF PlacedInv
    <3> QED
      BY <3>2, BusyDay
  <2>4. FreeInv'
    BY <1>still, <2>1, <2>2, <2>3 DEF FreeInv
  <2> QED
    BY <1>still, <2>1, <2>4
<1>3. CASE Around /\ UNCHANGED backfill
  <2>1. UNCHANGED <<rows, stage, range, pending, made, conflicts>>
    BY <1>3, AroundFrame DEF backfill, plan, memory
  <2>2. \A j \in DOMAIN attendance :
          /\ j \in DOMAIN attendance' /\ attendance'[j].emp = attendance[j].emp
          /\ attendance'[j].in = attendance[j].in
    BY <1>3, TableStays DEF BackfillNext
  <2>3. \A j \in DOMAIN attendance', id \in GapIds :
          RefersTo(j, id)' => j \in DOMAIN attendance /\ RefersTo(j, id)
    BY <1>3, AroundRefs
  <2>4. PlacedInv'
    BY <1>g, <2>1, <2>2, <2>3 DEF PlacedInv
  <2>5. UsedInv'
    BY <1>g, <2>3 DEF UsedInv
  <2>6. UsedIds' \subseteq UsedIds
    BY <1>g, <2>3 DEF UsedIds
  <2>7. stage \in MarkStages => attendance'[made].emp = attendance[made].emp
    BY <2>2 DEF RunInv, ApplyInv
  <2>8. \A id : FirstOf(id)' <=> FirstOf(id)
    BY <2>1 DEF FirstOf
  <2>9. FreeInv'
    BY <2>1, <2>6, <2>7, <2>8 DEF FreeInv, MarkStages
  <2> QED
    BY <2>4, <2>5, <2>9
<1>4. CASE UNCHANGED bvars
  <2>1. UNCHANGED <<rows, attendance, stage, range, pending, made, conflicts>>
    BY <1>4 DEF bvars, vars, backfill, plan, memory
  <2>2. \A id : FirstOf(id)' <=> FirstOf(id)
    BY <2>1 DEF FirstOf
  <2>3. FreeInv'
    BY <1>still, <2>1, <2>2 DEF FreeInv, MarkStages
  <2> QED
    BY <1>still, <2>1, <2>3
<1> QED
  BY <1>1, <1>2, <1>3, <1>4 DEF BackfillNext, Committed

LEMMA UsedInvariant == BackfillSpec => [](RunInv /\ PlacedInv /\ FreeInv /\ UsedInv)
<1>1. BackfillInit => RunInv /\ PlacedInv /\ FreeInv /\ UsedInv
  <2> SUFFICES ASSUME BackfillInit PROVE PlacedInv /\ FreeInv /\ UsedInv
    BY RunInit
  <2>1. DOMAIN attendance = {} /\ range = {} /\ \A e \in Employees : ~pending[e].row
    BY DEF BackfillInit, NotOpen
  <2> QED
    BY <2>1 DEF PlacedInv, FreeInv, UsedInv
<1>2. RunInv /\ PlacedInv /\ FreeInv /\ UsedInv /\ [BackfillNext]_bvars
      => (RunInv /\ PlacedInv /\ FreeInv /\ UsedInv)'
  BY RunStep, UsedStep
<1> QED
  BY <1>1, <1>2, PTL DEF BackfillSpec

(* The backfill can be repeated, over any ranges and after any failure:    *)
(* no punch of the gap comes to stand in two attendances.                  *)
THEOREM GapPunchesUsedOnce == BackfillSpec => []PunchUsedOnce
<1>1. UsedInv => PunchUsedOnce
  <2> SUFFICES ASSUME UsedInv, NEW i \in DOMAIN attendance, NEW j \in DOMAIN attendance, i # j,
                      NEW id \in GapIds,
                      id \in {attendance[i].inEv, attendance[i].outEv},
                      id \in {attendance[j].inEv, attendance[j].outEv}
               PROVE  FALSE
    BY DEF PunchUsedOnce, GapIds
  <2> QED
    BY GapTypes DEF UsedInv, RefersTo
<1> QED
  BY <1>1, UsedInvariant, PTL

(***************************************************************************)
(* A run that ended well                                                   *)
(***************************************************************************)
Done(id) == event[id].status \in Settled
CheckedInAs(id) == event[id].status = "pending" /\ applied[id] = "check_in_created"
Remembered(id) == \E e \in Employees : pending[e].row /\ pending[e].ev = id
NotOverThen(id) == Day(rows[id].at) >= Day(Started)

(* What a running apply has reported is done, or is a check-in that it     *)
(* remembers or that is of a day which is not over.                        *)
ReportInv ==
  /\ \A id \in range : applied[id] = "none"
  /\ run = "success" => stage = "off"
  /\ stage # "off" => \A id \in Ids : applied[id] \in Final =>
       Done(id) \/ (CheckedInAs(id) /\ (Remembered(id) \/ NotOverThen(id)))
  /\ stage = "markOut" => \A id \in range : FirstOf(id) /\ pending[rows[id].emp].row =>
       Done(pending[rows[id].emp].ev)

(* After it ended well the worker does not undo this: it takes up again    *)
(* only a check-in that was left pending.                                  *)
SettledInv ==
  /\ stage = "off" /\ run = "success" => \A id \in Ids : applied[id] \in Final =>
       \/ Done(id) /\ (id \in todo => seen[id] \in Settled)
       \/ event[id].status # "none" /\ applied[id] = "check_in_created" /\ NotOverThen(id)
  /\ pc \in RowStates \ {"row", "advance"} => seen[cur] \notin Settled

LEMMA StatusNames ==
  /\ Settled \subseteq Final /\ "none" \notin Final /\ "pending" \notin Final
  /\ "already_synced" \notin Final /\ "conflict_preserved" \notin Final
  /\ "none" \notin Settled /\ "pending" \notin Settled
  /\ {"employee_not_found", "denied_ignored", "duplicate_ignored", "check_in_created",
      "check_out_written"} \subseteq Settled
  /\ Status = Final \cup {"none", "pending"}
BY DEF Settled, Final, Accepted, Status

(* A row that gets to be worked on was not staged when its batch was read. *)
LEMMA RowShape ==
  ASSUME TypeOK, [Next]_vars, pc' \in RowStates \ {"row", "advance"}
  PROVE  /\ seen' = seen /\ cur' = cur /\ pc \in RowStates /\ pc # "advance"
         /\ pc = "row" => seen[cur] \notin Settled
<1>pcs. RowStates = {"row", "toggle", "newDay", "newDayFlag", "checkOut",
                     "checkIn", "markOut", "markIn", "fault", "advance"}
  BY DEF RowStates, ToggleStates
<1>1. CASE StartCycle \/ SkipStaged \/ AdvanceCursor \/ StartClose \/ SkipClose \/ CloseOne
           \/ FlagClosed \/ RecordClose \/ Reconcile \/ ErrorNotUnique \/ StageError \/ CycleLost
  <2>1. pc' \notin RowStates \ {"row", "advance"}
    BY <1>1, <1>pcs DEF StartCycle, SkipStaged, AdvanceCursor, NextRow, StartClose, SkipClose,
       CloseOne, FlagClosed, RecordClose, Reconcile, ErrorNotUnique, StageError, CycleLost, Forget
  <2> QED
    BY <2>1
<1>2. CASE StageRefused \/ StageDuplicate
  BY <1>2, <1>pcs DEF StageRefused, StageDuplicate, RowDone
<1>3. CASE StagePending \/ FindOpen \/ CallFails
  BY <1>3, <1>pcs DEF StagePending, FindOpen, CallFails, local
<1>4. CASE CloseBeforeNewDay \/ FlagNewDay \/ WriteCheckOut \/ CreateCheckIn
  BY <1>4, <1>pcs DEF CloseBeforeNewDay, FlagNewDay, WriteCheckOut, CreateCheckIn, WriteAttendance
<1>5. CASE MarkCheckOut \/ MarkCheckIn
  BY <1>5, <1>pcs DEF MarkCheckOut, MarkCheckIn, MarkEvent, RowDone
<1>6. CASE UNCHANGED <<seen, cur, pc>>
  <2>1. CASE pc = "row"
    BY <1>6, <2>1
  <2>2. CASE pc # "row"
    BY <1>6, <2>2
  <2> QED
    BY <2>1, <2>2
<1>7. Tick \/ UNCHANGED vars => UNCHANGED <<seen, cur, pc>>
  BY DEF Tick, local, vars
<1>8. ASSUME NEW id \in Ids, NEW q \in Punches, CommitRow(id, q) PROVE UNCHANGED <<seen, cur, pc>>
  BY <1>8 DEF CommitRow, local
<1>9. ASSUME NEW e \in Employees, OtherCheckIn(e) PROVE UNCHANGED <<seen, cur, pc>>
  BY <1>9 DEF OtherCheckIn, OdooEdit, local
<1>10. ASSUME NEW i \in DOMAIN attendance, OtherCheckOut(i) PROVE UNCHANGED <<seen, cur, pc>>
  BY <1>10 DEF OtherCheckOut, OdooEdit, local
<1> QED
  BY <1>1, <1>2, <1>3, <1>4, <1>5, <1>6, <1>7, <1>8, <1>9, <1>10 DEF Next, WorkerStep

(* The statuses of a batch are those the events had when it was read.      *)
LEMMA SeenShape ==
  ASSUME TypeOK, [Next]_vars, NEW id \in todo'
  PROVE  (id \in todo /\ seen'[id] = seen[id]) \/ (seen'[id] = event[id].status /\ event' = event)
<1>1. CASE StartCycle
  <2>1. /\ todo' = NextRows /\ event' = event
        /\ seen' = [o \in Ids |-> IF o \in NextRows THEN event[o].status ELSE "none"]
    BY <1>1 DEF StartCycle, odoo
  <2>2. NextRows \subseteq Ids
    BY DEF NextRows, Committed
  <2> QED
    BY <2>1, <2>2
<1>2. CASE seen' = seen /\ todo' \subseteq todo
  BY <1>2
<1>3. CASE todo' = {}
  BY <1>3
<1>4. WorkerStep /\ ~StartCycle => (seen' = seen /\ todo' \subseteq todo) \/ todo' = {}
  BY DEF WorkerStep, SkipStaged, StageRefused, local,
     StageDuplicate, StagePending, FindOpen, CloseBeforeNewDay, FlagNewDay,
     WriteCheckOut, CreateCheckIn, WriteAttendance, MarkCheckOut, MarkCheckIn, MarkEvent,
     RowDone, StageError, ErrorNotUnique, AdvanceCursor, StartClose, SkipClose,
     CloseOne, FlagClosed, RecordClose, Reconcile, Forget
<1>5. CallFails \/ CycleLost \/ Tick \/ UNCHANGED vars => (seen' = seen /\ todo' = todo) \/ todo' = {}
  BY DEF CallFails, CycleLost, Forget, Tick, local, vars
<1>6. ASSUME NEW o \in Ids, NEW q \in Punches, CommitRow(o, q) PROVE seen' = seen /\ todo' = todo
  BY <1>6 DEF CommitRow, local
<1>7. ASSUME NEW e \in Employees, OtherCheckIn(e) PROVE seen' = seen /\ todo' = todo
  BY <1>7 DEF OtherCheckIn, OdooEdit, local
<1>8. ASSUME NEW i \in DOMAIN attendance, OtherCheckOut(i) PROVE seen' = seen /\ todo' = todo
  BY <1>8 DEF OtherCheckOut, OdooEdit, local
<1> QED
  BY <1>1, <1>2, <1>3, <1>4, <1>5, <1>6, <1>7, <1>8 DEF Next

(* The worker beside a run that ended well.                                *)
LEMMA SettledAround ==
  ASSUME RunInv, SettledInv, Around, UNCHANGED backfill PROVE SettledInv'
<1>1. Next /\ TypeOK /\ rows' = rows /\ UNCHANGED <<stage, run, applied>>
  BY AroundFrame DEF RunInv, backfill, memory
<1>f. pc' \in RowStates \ {"row", "advance"} => seen'[cur'] \notin Settled
  BY <1>1, RowShape DEF SettledInv
<1>2. ASSUME stage = "off", run = "success", NEW id \in Ids, applied[id] \in Final
      PROVE  \/ Done(id)' /\ (id \in todo' => seen'[id] \in Settled)
             \/ /\ event'[id].status # "none" /\ applied'[id] = "check_in_created"
                /\ NotOverThen(id)'
  <2>1. \/ Done(id) /\ (id \in todo => seen[id] \in Settled)
        \/ event[id].status # "none" /\ applied[id] = "check_in_created" /\ NotOverThen(id)
    BY <1>2 DEF SettledInv
  <2>n. NotOverThen(id)' <=> NotOverThen(id)
    BY <1>1 DEF NotOverThen
  <2>2. CASE event'[id].status = event[id].status
    <3>1. id \in todo' => \/ id \in todo /\ seen'[id] = seen[id]
                          \/ seen'[id] = event[id].status
      BY <1>1, SeenShape
    <3> QED
      BY <1>1, <2>1, <2>2, <2>n, <3>1 DEF Done
  <2>3. CASE event'[id].status # event[id].status
    <3>1. event' # event /\ ~Flagging
      <4>1. Flagging => event'[id].status = event[id].status
        BY <1>1, FlagType DEF Flagging
      <4> QED
        BY <2>3, <4>1
    <3>2. /\ pc \in RowStates /\ cur \in Ids
          /\ \/ Marking("markIn", "check_in_created")
             \/ Marking("markOut", "check_out_written")
             \/ \E st \in Status : Staging(st)
      BY <1>1, <3>1, EventShapes
    <3>3. id = cur
      BY <2>3, <3>2 DEF Marking, Staging
    <3>4. seen[cur] \notin Settled
      BY <3>2 DEF Marking, Staging, SettledInv, RowStates, ToggleStates
    <3>5. cur \in todo
      BY <1>1, <3>2, CurrentRow
    <3>6. event'[cur].status # "none"
      BY <3>2, StatusNames DEF Marking, Staging
    <3> QED
      BY <1>1, <2>1, <2>n, <3>3, <3>4, <3>5, <3>6
  <2> QED
    BY <2>2, <2>3
<1> QED
  BY <1>1, <1>2, <1>f DEF SettledInv

(* While a run goes on, the worker is idle and only the run can settle.    *)
LEMMA SettledOn ==
  ASSUME RunInv, ReportInv', pc' = "idle", stage' # "off" PROVE SettledInv'
BY DEF SettledInv, RowStates, ToggleStates

(* Steps that touch neither the events nor what is reported of the rows.   *)
LEMMA ReportSame ==
  ASSUME RunInv, ReportInv, UNCHANGED <<event, applied, rows, range, run>>,
         stage # "off", stage' # "off",
         \A e \in Employees : pending[e].row =>
           pending'[e] = pending[e] \/ NotOverThen(pending[e].ev),
         stage' = "markOut" => \A id \in range : FirstOf(id) => ~pending'[rows[id].emp].row
  PROVE  ReportInv'
<1>1. ASSUME NEW id \in Ids, applied[id] \in Final
      PROVE  Done(id)' \/ (CheckedInAs(id)' /\ (Remembered(id)' \/ NotOverThen(id)'))
  <2>1. Done(id) \/ (CheckedInAs(id) /\ (Remembered(id) \/ NotOverThen(id)))
    BY <1>1 DEF ReportInv
  <2>2. NotOverThen(id) => NotOverThen(id)'
    BY DEF NotOverThen
  <2>3. Remembered(id) => Remembered(id)' \/ NotOverThen(id)
    BY DEF Remembered
  <2>4. (Done(id) => Done(id)') /\ (CheckedInAs(id) => CheckedInAs(id)')
    BY DEF Done, CheckedInAs
  <2> QED
    BY <2>1, <2>2, <2>3, <2>4
<1>2. \A id \in range : FirstOf(id)' <=> FirstOf(id)
  BY DEF FirstOf
<1> QED
  BY <1>1, <1>2 DEF ReportInv

(* Steps that stage or mark events and drop what they have marked.         *)
LEMMA ReportMarked ==
  ASSUME RunInv, ReportInv, UNCHANGED <<rows, run>>, stage # "off", stage' # "off",
         NEW T, range' = range \ T, T \subseteq Ids,
         \A o \in Ids \ T : applied'[o] = applied[o],
         \A o \in Ids : event'[o] = event[o] \/ Done(o)' \/ o \in T,
         \A o \in T : applied'[o] \in Final =>
           Done(o)' \/ (CheckedInAs(o)' /\ Remembered(o)'),
         \A e \in Employees : pending[e].row =>
           pending'[e] = pending[e] \/ event'[pending[e].ev].status \in Settled,
         stage' = "markOut" => \A id \in range' :
           FirstOf(id)' => event'[pending'[rows[id].emp].ev].status \in Settled
  PROVE  ReportInv'
<1>ids. range \subseteq Ids
  BY DEF RunInv, BackfillTypeOK, Committed
<1>1. ASSUME NEW id \in Ids, applied'[id] \in Final
      PROVE  Done(id)' \/ (CheckedInAs(id)' /\ (Remembered(id)' \/ NotOverThen(id)'))
  <2>1. CASE id \in T
    BY <1>1, <2>1
  <2>2. CASE id \notin T /\ ~Done(id)'
    <3>1. Done(id) \/ (CheckedInAs(id) /\ (Remembered(id) \/ NotOverThen(id)))
      BY <1>1, <2>2 DEF ReportInv
    <3>2. event'[id] = event[id] /\ applied'[id] = applied[id]
      BY <2>2
    <3>3. (Done(id) => Done(id)') /\ (CheckedInAs(id) => CheckedInAs(id)')
      BY <3>2 DEF Done, CheckedInAs
    <3>4. NotOverThen(id) => NotOverThen(id)'
      BY DEF NotOverThen
    <3>5. Remembered(id) => Remembered(id)' \/ Done(id)'
      BY DEF Remembered, Done
    <3> QED
      BY <3>1, <3>3, <3>4, <3>5
  <2> QED
    BY <2>1, <2>2
<1>2. \A id \in range' : applied'[id] = "none"
  BY <1>ids DEF ReportInv
<1> QED
  BY <1>1, <1>2 DEF ReportInv, Done

(* The staging and the report of one row.                                  *)
LEMMA StagedDone ==
  ASSUME RunInv, NEW id \in Ids, NEW st \in Status, NEW a \in Nat, Staged(id, st, a)
  PROVE  /\ event'[id].status = st /\ \A o \in Ids \ {id} : event'[o] = event[o]
         /\ UNCHANGED <<rows, attendance>>
BY StagedShape DEF RunInv

LEMMA RowReport ==
  ASSUME RunInv, ReportInv, NEW id \in range, PassRow(id) \/ SetAside(id) \/ TakeCheckIn(id)
  PROVE  ReportInv'
<1>id. id \in Ids
  BY DEF RunInv, BackfillTypeOK, Committed
<1>app. applied \in [Ids -> Reports]
  BY DEF RunInv, MemoryInv
<1> DEFINE T == {id}
           Rest == /\ UNCHANGED <<rows, run>> /\ stage # "off" /\ stage' # "off"
                   /\ range' = range \ T /\ T \subseteq Ids
                   /\ \A o \in Ids \ T : applied'[o] = applied[o]
                   /\ \A o \in Ids : event'[o] = event[o] \/ Done(o)' \/ o \in T
                   /\ \A e \in Employees : pending[e].row =>
                        pending'[e] = pending[e] \/ event'[pending[e].ev].status \in Settled
                   /\ stage' = "markOut" => \A o \in range' :
                        FirstOf(o)' => event'[pending'[rows[o].emp].ev].status \in Settled
<1>rule. ASSUME Rest, applied'[id] \in Final => Done(id)' \/ (CheckedInAs(id)' /\ Remembered(id)')
         PROVE  ReportInv'
  <2>1. \A o \in T : applied'[o] \in Final => Done(o)' \/ (CheckedInAs(o)' /\ Remembered(o)')
    BY <1>rule
  <2> HIDE DEF T
  <2> QED
    BY <1>rule, <2>1, ReportMarked
<1>1. CASE PassRow(id)
  <2>1. /\ stage = "row" /\ stage' = "row" /\ range' = range \ {id} /\ UNCHANGED <<run, pending>>
        /\ applied' = [applied EXCEPT ![id] = SortedNow(id)] /\ UNCHANGED vars
        /\ SortedNow(id) \in {"already_synced", "conflict_preserved"}
    BY <1>1 DEF PassRow, ReportRow
  <2>2. applied'[id] \notin Final /\ \A o \in Ids \ {id} : applied'[o] = applied[o]
    BY <1>id, <1>app, <2>1, StatusNames
  <2>3. UNCHANGED <<rows, event>>
    BY <2>1 DEF vars
  <2> QED
    BY <1>id, <1>rule, <2>1, <2>2, <2>3
<1>2. CASE SetAside(id)
  <2> DEFINE st == SortedNow(id)
             a == IF st = "duplicate_ignored" THEN accepted[rows[id].emp].att ELSE NoAttendance
  <2>1. /\ stage = "row" /\ stage' = "row" /\ range' = range \ {id} /\ UNCHANGED <<run, pending>>
        /\ applied' = [applied EXCEPT ![id] = st]
        /\ st \in {"employee_not_found", "denied_ignored", "duplicate_ignored"}
        /\ Staged(id, st, a)
    BY <1>2 DEF SetAside, ReportRow
  <2>2. a \in Nat
    <3>1. st = "duplicate_ignored" => rows[id].emp \in Employees
      BY <1>id, RowTypes DEF RunInv, SortedNow, Sorted
    <3> HIDE DEF st
    <3> QED
      BY <3>1, MemoryTypes DEF RunInv, NoAttendance
  <2> HIDE DEF st, a
  <2>3. st \in Status /\ st \in Settled
    BY <2>1, StatusNames
  <2>4. /\ event'[id].status = st /\ \A o \in Ids \ {id} : event'[o] = event[o]
        /\ UNCHANGED <<rows, attendance>>
    BY <1>id, <2>1, <2>2, <2>3, StagedDone
  <2>5. Done(id)'
    BY <2>3, <2>4 DEF Done
  <2>6. \A o \in Ids \ {id} : applied'[o] = applied[o]
    BY <1>id, <1>app, <2>1
  <2> QED
    BY <1>id, <1>rule, <2>1, <2>4, <2>5, <2>6
<1>3. CASE TakeCheckIn(id)
  <2> DEFINE e == rows[id].emp
  <2>1. /\ stage = "row" /\ stage' = "row" /\ range' = range \ {id} /\ run' = run
        /\ applied' = [applied EXCEPT ![id] = "check_in_created"]
        /\ pending' = [pending EXCEPT ![e] = OpenedBy(id)]
        /\ SortedNow(id) = "toggle" /\ ~IsOpen(e) /\ Staged(id, "pending", NoAttendance)
    BY <1>3 DEF TakeCheckIn, ReportRow
  <2>e. e \in Employees
    BY <1>id, <2>1, ToggleRow DEF RunInv
  <2>2. /\ event'[id].status = "pending" /\ \A o \in Ids \ {id} : event'[o] = event[o]
        /\ UNCHANGED <<rows, attendance>>
    BY <1>id, <2>1, StagedDone, StatusNames DEF NoAttendance
  <2> HIDE DEF e
  <2>3. /\ pending'[e] = OpenedBy(id) /\ \A o \in Employees \ {e} : pending'[o] = pending[o]
        /\ applied'[id] = "check_in_created" /\ \A o \in Ids \ {id} : applied'[o] = applied[o]
    BY <1>id, <1>app, <2>1, <2>e DEF RunInv, MemoryInv
  <2>4. CheckedInAs(id)'
    BY <2>2, <2>3 DEF CheckedInAs
  <2>5. Remembered(id)'
    BY <2>e, <2>3 DEF Remembered, OpenedBy
  <2>6. ~pending[e].row
    <3>1. pending[e].row => pending[e].in = rows[pending[e].ev].at /\ pending[e].ev \in Ids
      BY <2>e DEF RunInv, PendInv
    <3> QED
      BY <3>1, <2>1, RowTypes DEF RunInv, IsOpen
  <2> QED
    BY <1>id, <1>rule, <2>1, <2>2, <2>3, <2>4, <2>5, <2>6
<1> QED
  BY <1>1, <1>2, <1>3

(* The check-out of a row is staged, and its marks are set.                *)
LEMMA OutReport ==
  ASSUME RunInv, ReportInv, NEW id \in range, StageCheckOut(id) \/ MarkIn(id) \/ MarkOut(id)
  PROVE  ReportInv'
<1>id. id \in Ids /\ range \subseteq Ids
  BY DEF RunInv, BackfillTypeOK, Committed
<1>1. CASE StageCheckOut(id)
  <2>1. /\ stage = "row" /\ stage' = "checkOut" /\ UNCHANGED <<range, pending, applied, run>>
        /\ Staged(id, "pending", NoAttendance)
    BY <1>1 DEF StageCheckOut, memory
  <2>2. /\ \A o \in Ids \ {id} : event'[o] = event[o] /\ rows' = rows
    BY <1>id, <2>1, StagedDone, StatusNames DEF NoAttendance
  <2>3. ASSUME NEW o \in Ids, applied'[o] \in Final
        PROVE  Done(o)' \/ (CheckedInAs(o)' /\ (Remembered(o)' \/ NotOverThen(o)'))
    <3>1. applied[o] \in Final /\ o # id
      BY <2>1, <2>3, StatusNames DEF ReportInv
    <3>2. Done(o) \/ (CheckedInAs(o) /\ (Remembered(o) \/ NotOverThen(o)))
      BY <2>1, <3>1 DEF ReportInv
    <3>3. event'[o] = event[o] /\ rows' = rows /\ pending' = pending /\ applied' = applied
      BY <2>1, <2>2, <3>1
    <3> QED
      BY <3>2, <3>3 DEF Done, CheckedInAs, Remembered, NotOverThen
  <2> QED
    BY <2>1, <2>3 DEF ReportInv
<1>2. CASE MarkIn(id)
  <2> DEFINE ev == pending[rows[id].emp].ev
             T == {}
  <2>1. /\ ev \in Ids /\ event'[ev].status = "check_in_created"
        /\ \A o \in Ids \ {ev} : event'[o] = event[o]
        /\ stage = "markIn" /\ stage' = "markOut" /\ FirstOf(id)
        /\ UNCHANGED <<rows, range, pending, applied, run>>
    BY <1>2, MarkInShape
  <2>2. \A o \in range' : FirstOf(o)' => o = id
    BY <2>1, FirstIsOne DEF RunInv, FirstOf
  <2>3. /\ UNCHANGED <<rows, run>> /\ stage # "off" /\ stage' # "off"
        /\ range' = range \ T /\ T \subseteq Ids
        /\ \A o \in Ids \ T : applied'[o] = applied[o]
        /\ \A o \in Ids : event'[o] = event[o] \/ Done(o)' \/ o \in T
        /\ \A o \in T : applied'[o] \in Final =>
             Done(o)' \/ (CheckedInAs(o)' /\ Remembered(o)')
        /\ \A e \in Employees : pending[e].row =>
             pending'[e] = pending[e] \/ event'[pending[e].ev].status \in Settled
        /\ stage' = "markOut" => \A o \in range' :
             FirstOf(o)' => event'[pending'[rows[o].emp].ev].status \in Settled
    BY <2>1, <2>2, StatusNames DEF Done
  <2> HIDE DEF T
  <2> QED
    BY <2>3, ReportMarked
<1>3. CASE MarkOut(id)
  <2> DEFINE e == rows[id].emp
             T == {id}
  <2>1. /\ event'[id].status = "check_out_written"
        /\ \A o \in Ids \ {id} : event'[o] = event[o]
        /\ stage = "markOut" /\ stage' = "row" /\ FirstOf(id)
        /\ e \in Employees /\ \A o \in Employees \ {e} : pending'[o] = pending[o]
        /\ range' = range \ {id} /\ UNCHANGED <<rows, run>>
        /\ applied' = [applied EXCEPT ![id] = "check_out_written"]
    BY <1>3, MarkOutShape
  <2>2. \A o \in Ids \ {id} : applied'[o] = applied[o]
    BY <1>id, <2>1 DEF RunInv, MemoryInv
  <2>3. pending[e].row => pending[e].ev \in Ids \ {id} /\ event[pending[e].ev].status \in Settled
    BY <1>id, <2>1 DEF RunInv, PendInv, ReportInv, Done
  <2>4. Done(id)'
    BY <2>1, StatusNames DEF Done
  <2>5. /\ UNCHANGED <<rows, run>> /\ stage # "off" /\ stage' # "off"
        /\ range' = range \ T /\ T \subseteq Ids
        /\ \A o \in Ids \ T : applied'[o] = applied[o]
        /\ \A o \in Ids : event'[o] = event[o] \/ Done(o)' \/ o \in T
        /\ \A o \in T : applied'[o] \in Final =>
             Done(o)' \/ (CheckedInAs(o)' /\ Remembered(o)')
        /\ \A o \in Employees : pending[o].row =>
             pending'[o] = pending[o] \/ event'[pending[o].ev].status \in Settled
        /\ stage' # "markOut"
    BY <1>id, <2>1, <2>2, <2>3, <2>4
  <2> HIDE DEF T, e
  <2> QED
    BY <2>5, ReportMarked
<1> QED
  BY <1>1, <1>2, <1>3

LEMMA ClosedReport ==
  ASSUME RunInv, ReportInv, NEW e \in Employees, MarkClosed(e) PROVE ReportInv'
<1> DEFINE T == {}
<1>1. /\ \A o \in Ids : IF o = pending[e].ev THEN event'[o].status = "check_in_created"
                        ELSE event'[o] = event[o]
      /\ stage = "markClosed" /\ stage' \in {"end", "row"}
      /\ \A o \in Employees \ {e} : pending'[o] = pending[o]
      /\ UNCHANGED <<rows, range, applied, run>>
  BY MarkClosedShape
<1>2. pending[e].row => pending[e].ev \in Ids
  BY DEF RunInv, PendInv
<1>3. /\ UNCHANGED <<rows, run>> /\ stage # "off" /\ stage' # "off"
      /\ range' = range \ T /\ T \subseteq Ids
      /\ \A o \in Ids \ T : applied'[o] = applied[o]
      /\ \A o \in Ids : event'[o] = event[o] \/ Done(o)' \/ o \in T
      /\ \A o \in T : applied'[o] \in Final =>
           Done(o)' \/ (CheckedInAs(o)' /\ Remembered(o)')
      /\ \A o \in Employees : pending[o].row =>
           pending'[o] = pending[o] \/ event'[pending[o].ev].status \in Settled
      /\ stage' # "markOut"
  BY <1>1, <1>2, StatusNames DEF Done
<1> HIDE DEF T
<1> QED
  BY <1>3, ReportMarked

(* The check-ins that are let go at the end are of a day that is not over. *)
LEMMA EndReport ==
  ASSUME RunInv, ReportInv, EndRows PROVE ReportInv'
<1>1. /\ stage = "row" /\ stage' = "end" /\ UNCHANGED <<event, applied, rows, range, run>>
      /\ \A e \in Employees :
           pending[e].row /\ Day(pending[e].in) < Day(now) => pending'[e] = pending[e]
  BY DEF EndRows, vars
<1>2. ASSUME NEW e \in Employees, pending[e].row, ~(Day(pending[e].in) < Day(now))
      PROVE  NotOverThen(pending[e].ev)
  <2>1. pending[e].ev \in Ids /\ pending[e].in = rows[pending[e].ev].at
    BY <1>2 DEF RunInv, PendInv
  <2>2. /\ now \in Nat /\ Started \in Nat /\ Started <= now /\ pending[e].in \in Nat
    BY <2>1, RowTypes, BackfillAssumption DEF RunInv, GapInv, TypeOK
  <2>3. /\ Day(Started) <= Day(now) /\ Day(Started) \in Nat /\ Day(now) \in Nat
        /\ Day(pending[e].in) \in Nat
    BY <2>2, DayOrder, DayType
  <2>4. Day(pending[e].in) >= Day(Started)
    BY <1>2, <2>3
  <2> QED
    BY <2>1, <2>4 DEF NotOverThen
<1> QED
  BY <1>1, <1>2, ReportSame

(* An attendance is written.                                               *)
LEMMA WrittenReport ==
  ASSUME RunInv, ReportInv, stage # "off",
         \/ \E e \in Employees : CloseAtEnd(e)
         \/ \E id \in range : CloseEarlierDay(id) \/ WriteOut(id),
         stage' # "off"
  PROVE  ReportInv'
<1>1. ASSUME NEW e, NEW out, NEW outEv, NEW reason, NEW next,
             Materialize(e, out, outEv, reason, next)
      PROVE  /\ UNCHANGED <<event, applied, rows, range, run, pending>> /\ stage' = next
  BY <1>1 DEF Materialize, Stop, environment
<1>2. CASE \/ \E e \in Employees : CloseAtEnd(e)
           \/ \E id \in range : CloseEarlierDay(id)
  <2>1. UNCHANGED <<event, applied, rows, range, run, pending>> /\ stage' = "markClosed"
    BY <1>1, <1>2 DEF CloseAtEnd, CloseEarlierDay
  <2> QED
    BY <2>1, ReportSame
<1>3. ASSUME NEW id \in range, WriteOut(id) PROVE ReportInv'
  <2> DEFINE e == rows[id].emp
  <2>1. FirstOf(id) /\ stage = "checkOut"
    BY <1>3 DEF WriteOut
  <2>2. /\ UNCHANGED <<event, applied, rows, range, run, pending>>
        /\ stage' = IF pending[e].att = NoAttendance THEN "markIn" ELSE "markOut"
    BY <1>1, <1>3 DEF WriteOut
  <2>3. e \in Employees
    BY <2>1, OutRow DEF OutStages
  <2>4. stage' = "markOut" => ~pending[e].row
    BY <2>2, <2>3 DEF RunInv, PendInv
  <2>5. \A o \in range : FirstOf(o) => o = id
    BY <2>1, FirstIsOne DEF RunInv
  <2> HIDE DEF e
  <2>6. stage' = "markOut" => \A o \in range : FirstOf(o) => ~pending'[rows[o].emp].row
    BY <2>2, <2>4, <2>5 DEF e
  <2> QED
    BY <2>2, <2>6, ReportSame
<1> QED
  BY <1>2, <1>3

(* A step of a run is taken while it goes on; one that ends it fails, or   *)
(* is the last.                                                            *)
LEMMA RunGoesOn ==
  ASSUME BackfillStep \/ ApplyFails
  PROVE  /\ stage # "off"
         /\ stage' = "off" => run' = "failed" \/ Finish
<1>1. ASSUME NEW e, NEW out, NEW outEv, NEW reason, NEW next,
             Materialize(e, out, outEv, reason, next), next # "off", stage' = "off"
      PROVE  run' = "failed"
  BY <1>1 DEF Materialize, Stop
<1>2. ASSUME NEW id \in range, ApplyRow(id)
      PROVE  stage # "off" /\ (stage' = "off" => run' = "failed")
  <2>1. CASE PassRow(id) \/ SetAside(id) \/ TakeCheckIn(id) \/ MarkOut(id)
    BY <2>1 DEF PassRow, SetAside, TakeCheckIn, MarkOut, ReportRow
  <2>2. CASE StageCheckOut(id) \/ MarkIn(id)
    BY <2>2 DEF StageCheckOut, MarkIn
  <2>3. CASE CloseEarlierDay(id)
    BY <1>1, <2>3 DEF CloseEarlierDay
  <2>4. CASE WriteOut(id)
    <3> DEFINE next == IF pending[rows[id].emp].att = NoAttendance THEN "markIn" ELSE "markOut"
    <3>1. stage = "checkOut" /\ Materialize(rows[id].emp, rows[id].at, id, "no", next)
      BY <2>4 DEF WriteOut
    <3>2. next # "off"
      OBVIOUS
    <3> HIDE DEF next
    <3> QED
      BY <1>1, <3>1, <3>2
  <2> QED
    BY <1>2, <2>1, <2>2, <2>3, <2>4 DEF ApplyRow
<1>3. ASSUME NEW e \in Employees, CloseAtEnd(e) \/ MarkClosed(e)
      PROVE  stage # "off" /\ (stage' = "off" => run' = "failed")
  <2>1. CASE CloseAtEnd(e)
    BY <1>1, <2>1 DEF CloseAtEnd
  <2>2. CASE MarkClosed(e)
    BY <2>2 DEF MarkClosed
  <2> QED
    BY <1>3, <2>1, <2>2
<1>4. CASE ReadOpen \/ EndRows
  BY <1>4 DEF ReadOpen, EndRows
<1>5. CASE Finish
  BY <1>5 DEF Finish
<1>6. CASE ApplyFails
  BY <1>6 DEF ApplyFails, Stop
<1> QED
  BY <1>2, <1>3, <1>4, <1>5, <1>6 DEF BackfillStep

LEMMA ReportStep ==
  ASSUME RunInv, ReportInv, [BackfillNext]_bvars PROVE ReportInv'
<1>off. CASE stage' = "off"
  <2>1. range' = {}
    BY <1>off, RunStep DEF RunInv, ApplyInv
  <2> QED
    BY <1>off, <2>1 DEF ReportInv
<1>1. CASE (BackfillStep \/ ApplyFails) /\ stage' # "off"
  <2>on. stage # "off"
    BY <1>1, RunGoesOn
  <2>1. CASE ReadOpen
    <3>1. /\ stage = "read" /\ stage' = "row" /\ UNCHANGED <<event, applied, rows, range, run>>
      BY <2>1 DEF ReadOpen, vars
    <3>2. \A e \in Employees : ~pending[e].row
      BY <3>1 DEF RunInv, ApplyInv, NotOpen
    <3> QED
      BY <3>1, <3>2, ReportSame
  <2>2. CASE EndRows
    BY <2>2, EndReport
  <2>3. CASE Finish \/ ApplyFails
    BY <1>1, <2>3 DEF Finish, ApplyFails, Stop
  <2>4. ASSUME NEW id \in range, ApplyRow(id) PROVE ReportInv'
    BY <1>1, <2>on, <2>4, RowReport, OutReport, WrittenReport DEF ApplyRow
  <2>5. ASSUME NEW e \in Employees, CloseAtEnd(e) \/ MarkClosed(e) PROVE ReportInv'
    BY <1>1, <2>on, <2>5, ClosedReport, WrittenReport
  <2> QED
    BY <1>1, <2>1, <2>2, <2>3, <2>4, <2>5 DEF BackfillStep
<1>2. ASSUME NEW ids, StartApply(ids) PROVE ReportInv'
  <2>1. stage' = "read" /\ run' = "running" /\ applied' = Blank /\ range' = ids
    BY <1>2 DEF StartApply
  <2>2. range' \subseteq Ids
    BY RunStep DEF RunInv, BackfillTypeOK, Committed
  <2> QED
    BY <2>1, <2>2, StatusNames DEF ReportInv, Blank
<1>3. CASE ((Around /\ UNCHANGED backfill) \/ UNCHANGED bvars) /\ stage' # "off"
  <2>1. UNCHANGED <<rows, event, stage, range, pending, applied, run>>
    <3>1. UNCHANGED <<stage, range, pending, applied, run>>
      BY <1>3 DEF bvars, backfill, memory
    <3>2. UNCHANGED <<rows, event>>
      BY <1>3, <3>1, AroundFrame DEF bvars, vars
    <3> QED
      BY <3>1, <3>2
  <2>2. \A id : FirstOf(id)' <=> FirstOf(id)
    BY <2>1 DEF FirstOf
  <2> QED
    BY <2>1, <2>2 DEF ReportInv, Done, CheckedInAs, Remembered, NotOverThen
<1> QED
  BY <1>off, <1>1, <1>2, <1>3 DEF BackfillNext

LEMMA SettledStep ==
  ASSUME RunInv, ReportInv, SettledInv, [BackfillNext]_bvars PROVE SettledInv'
<1>1. CASE BackfillStep \/ ApplyFails
  <2>1. /\ stage # "off" /\ pc = "idle" /\ todo = {}
        /\ UNCHANGED <<rows, pc, todo, seen>>
    BY <1>1, RunGoesOn, Frame DEF RunInv, ApplyInv, TypeOK, RowStates, ToggleStates
  <2>2. CASE stage' # "off"
    BY <2>1, <2>2, SettledOn, ReportStep
  <2>3. CASE run' # "success"
    BY <2>1, <2>3 DEF SettledInv, RowStates, ToggleStates
  <2>4. CASE Finish
    <3>1. /\ stage = "end" /\ \A e \in Employees : ~IsOpen(e)
          /\ UNCHANGED <<event, rows, applied>>
      BY <2>4 DEF Finish, Stop, vars
    <3>2. \A id \in Ids : ~Remembered(id)
      <4>1. \A e \in Employees : pending[e].row =>
              pending[e].ev \in Ids /\ pending[e].in = rows[pending[e].ev].at
        BY DEF RunInv, PendInv
      <4> QED
        BY <3>1, <4>1, RowTypes DEF Remembered, IsOpen, RunInv
    <3>3. ASSUME NEW id \in Ids, applied[id] \in Final
          PROVE  \/ Done(id)
                 \/ /\ event[id].status = "pending" /\ applied[id] = "check_in_created"
                    /\ NotOverThen(id)
      BY <3>1, <3>2, <3>3 DEF ReportInv, CheckedInAs
    <3>4. \A id \in Ids : (Done(id)' <=> Done(id)) /\ (NotOverThen(id)' <=> NotOverThen(id))
      BY <3>1 DEF Done, NotOverThen
    <3> QED
      BY <2>1, <3>1, <3>3, <3>4 DEF SettledInv, RowStates, ToggleStates
  <2> QED
    BY <1>1, <2>2, <2>3, <2>4, RunGoesOn
<1>2. ASSUME NEW ids, StartApply(ids) PROVE SettledInv'
  BY <1>2 DEF StartApply, vars, SettledInv, RowStates, ToggleStates
<1>3. CASE Around /\ UNCHANGED backfill
  BY <1>3, SettledAround
<1>4. CASE UNCHANGED bvars
  BY <1>4 DEF bvars, vars, backfill, memory, SettledInv, Done, NotOverThen
<1> QED
  BY <1>1, <1>2, <1>3, <1>4 DEF BackfillNext

LEMMA SettledInvariant == BackfillSpec => [](RunInv /\ ReportInv /\ SettledInv)
<1>1. BackfillInit => RunInv /\ ReportInv /\ SettledInv
  BY RunInit DEF BackfillInit, ReportInv, SettledInv, RowStates, ToggleStates
<1>2. RunInv /\ ReportInv /\ SettledInv /\ [BackfillNext]_bvars
      => (RunInv /\ ReportInv /\ SettledInv)'
  BY RunStep, ReportStep, SettledStep
<1> QED
  BY <1>1, <1>2, PTL DEF BackfillSpec

(* A run that ended well has settled what it reports, but for check-ins of *)
(* a day that is not over, and the worker takes none of it back.           *)
THEOREM SuccessfulRunsSettle == BackfillSpec => []SuccessSettlesRange
<1>1. RunInv /\ SettledInv => SuccessSettlesRange
  <2> SUFFICES ASSUME RunInv, SettledInv, run = "success", stage = "off",
                      NEW id \in Ids, applied[id] \in Final
               PROVE  \/ event[id].status \in Final
                      \/ /\ event[id].status = "pending" /\ applied[id] = "check_in_created"
                         /\ Day(rows[id].at) >= Day(Started)
    BY DEF SuccessSettlesRange
  <2>1. \/ Done(id)
        \/ event[id].status # "none" /\ applied[id] = "check_in_created" /\ NotOverThen(id)
    BY DEF SettledInv
  <2>2. event[id].status \in Status
    BY DEF RunInv, TypeOK
  <2> QED
    BY <2>1, <2>2, StatusNames DEF Done, NotOverThen
<1> QED
  BY <1>1, SettledInvariant, PTL

(***************************************************************************)
(* The dry run                                                             *)
(***************************************************************************)
(* What it still has to go through, from what the run holds: opn are the   *)
(* check-ins that it has open, which may be others than those the run has, *)
(* since it forgets one of an earlier day only when the next comes.        *)
OpenOn(in, id) == in # -1 /\ Day(in) >= Day(rows[id].at)
DayFree(e, id) == rows[id].emp = e /\ <<e, Day(rows[id].at)>> \notin conflicts

AcceptedAt ==
  [e \in Employees |-> IF stage = "read" THEN LatestAcceptedBefore(range, e).at ELSE accepted[e].at]
Held(opn) == [res |-> applied, acc |-> AcceptedAt, opn |-> opn]
SimNext(s, n) ==
  IF n \in range THEN SimRow(s, n, rows[n], existing[n], conflicts) ELSE s

Foretold(opn) ==
  \E f : /\ f[0] = Held(opn) /\ f[MaxId].res = predicted
         /\ \A n \in 1 .. MaxId : f[n] = SimNext(f[n - 1], n)

(* The check-ins the two have open are alike for every row of a free day,  *)
(* except that the run has just closed one before the row in hand.         *)
SameOpen(opn, e) ==
  \A id \in range : DayFree(e, id) => (OpenOn(pending[e].in, id) <=> OpenOn(opn[e], id))
JustClosed(opn, e) ==
  /\ ~IsOpen(e)
  /\ \E id \in range : /\ FirstOf(id) /\ rows[id].emp = e /\ SortedNow(id) = "toggle"
                       /\ ~OpenOn(opn[e], id)

Tracks(opn) ==
  /\ opn \in [Employees -> Int] /\ Foretold(opn)
  /\ \A e \in Employees :
       IF stage = "read" THEN \A id \in range : DayFree(e, id) => ~OpenOn(opn[e], id)
       ELSE SameOpen(opn, e) \/ JustClosed(opn, e)

(* Until the open attendances are read the others add none that is early.  *)
SimInv ==
  /\ run = "success" => applied = predicted
  /\ stage # "off" => \E opn : Tracks(opn)
  /\ stage = "read" => \A j \in DOMAIN attendance : j > base => attendance[j].in >= Started

(* The list of a dry run, row by row.                                      *)
LEMMA SimulationIs ==
  ASSUME NEW ids
  PROVE  /\ Simulation(ids)[0] = SimStart(ids)
         /\ \A n \in 1 .. MaxId : Simulation(ids)[n] =
              IF n \in ids
              THEN SimRow(Simulation(ids)[n - 1], n, rows[n], event[n].status, BusyDays(ids))
              ELSE Simulation(ids)[n - 1]
<1> DEFINE Nxt(s, n) == IF n \in ids THEN SimRow(s, n, rows[n], event[n].status, BusyDays(ids))
                        ELSE s
           start == SimStart(ids)
           Good(g, n) == /\ g[0] = start /\ \A i \in 1 .. n : g[i] = Nxt(g[i - 1], i)
           P == {n \in Nat : \E g : Good(g, n)}
<1>0. Simulation(ids) =
        CHOOSE s : s = [n \in 0 .. MaxId |-> IF n = 0 THEN start ELSE Nxt(s[n - 1], n)]
  BY DEF Simulation
<1>max. MaxId \in Nat
  BY SyncAssumption
<1> HIDE DEF Nxt, start
<1>1. 0 \in P
  <2>1. Good([n \in {0} |-> start], 0)
    OBVIOUS
  <2> HIDE DEF Good
  <2> QED
    BY <2>1
<1>2. ASSUME NEW n \in Nat, n \in P PROVE n + 1 \in P
  <2>1. PICK g : Good(g, n)
    BY <1>2
  <2> DEFINE h == [i \in 0 .. n + 1 |-> IF i <= n THEN g[i] ELSE Nxt(g[n], n + 1)]
  <2>2. h[0] = start
    BY <2>1
  <2>3. ASSUME NEW i \in 1 .. n + 1 PROVE h[i] = Nxt(h[i - 1], i)
    <3>1. CASE i <= n
      <4>1. i \in 1 .. n /\ i - 1 \in 0 .. n + 1 /\ i - 1 <= n
        BY <3>1
      <4>2. h[i] = g[i] /\ h[i - 1] = g[i - 1]
        BY <3>1, <4>1
      <4> QED
        BY <2>1, <4>1, <4>2
    <3>2. CASE i = n + 1
      <4>1. i - 1 = n /\ ~(i <= n) /\ i \in 0 .. n + 1 /\ n \in 0 .. n + 1
        BY <3>2
      <4>2. h[i] = Nxt(g[n], n + 1) /\ h[n] = g[n]
        BY <4>1
      <4> QED
        BY <3>2, <4>1, <4>2
    <3> QED
      BY <3>1, <3>2
  <2> HIDE DEF h
  <2>4. Good(h, n + 1)
    BY <2>2, <2>3
  <2> HIDE DEF Good
  <2> QED
    BY <2>4
<1> HIDE DEF P
<1>3. MaxId \in P
  BY <1>1, <1>2, <1>max, SetInduction
<1>4. PICK g : Good(g, MaxId)
  BY <1>3 DEF P
<1> DEFINE h == [n \in 0 .. MaxId |-> g[n]]
<1>5. h = [n \in 0 .. MaxId |-> IF n = 0 THEN start ELSE Nxt(h[n - 1], n)]
  <2>1. ASSUME NEW n \in 0 .. MaxId PROVE h[n] = IF n = 0 THEN start ELSE Nxt(h[n - 1], n)
    <3>1. CASE n = 0
      BY <1>4, <3>1
    <3>2. CASE n # 0
      <4>1. n \in 1 .. MaxId /\ n - 1 \in 0 .. MaxId
        BY <1>max, <3>2
      <4> QED
        BY <1>4, <3>2, <4>1
    <3> QED
      BY <3>1, <3>2
  <2>2. h = [n \in 0 .. MaxId |-> h[n]]
    OBVIOUS
  <2> HIDE DEF h
  <2> QED
    BY <2>1, <2>2
<1> HIDE DEF h
<1>6. Simulation(ids) = [n \in 0 .. MaxId |->
                           IF n = 0 THEN start ELSE Nxt(Simulation(ids)[n - 1], n)]
  BY <1>0, <1>5
<1>7. Simulation(ids)[0] = start
  BY <1>6, <1>max
<1>8. \A n \in 1 .. MaxId : Simulation(ids)[n] = Nxt(Simulation(ids)[n - 1], n)
  BY <1>6, <1>max
<1> QED
  BY <1>7, <1>8 DEF Nxt, start

LEMMA ForetoldStart ==
  ASSUME RunInv, NEW ids \in SUBSET Ids, StartApply(ids)
  PROVE  \E opn : /\ opn = [e \in Employees |-> OpenBefore(ids, e).in]
                  /\ Foretold(opn)'
<1>0. PICK opn, f : opn = [e \in Employees |-> OpenBefore(ids, e).in] /\ f = Simulation(ids)
  OBVIOUS
<1>1. /\ predicted' = f[MaxId].res /\ conflicts' = BusyDays(ids) /\ range' = ids
      /\ applied' = Blank /\ stage' = "read"
      /\ existing' = [id \in Ids |-> IF id \in ids THEN event[id].status ELSE "none"]
      /\ UNCHANGED vars
  BY <1>0 DEF StartApply, Simulate
<1>2. UNCHANGED <<rows, event, attendance>>
  BY <1>1 DEF vars
<1>3. /\ f[0] = SimStart(ids)
      /\ \A n \in 1 .. MaxId : f[n] =
           IF n \in ids THEN SimRow(f[n - 1], n, rows[n], event[n].status, BusyDays(ids))
           ELSE f[n - 1]
  BY <1>0, SimulationIs
<1>4. \A e : LatestAcceptedBefore(ids, e)' = LatestAcceptedBefore(ids, e)
  BY <1>2 DEF LatestAcceptedBefore, AcceptedBefore, AcceptedOf, Committed, Before
<1>5. f[0] = [res |-> applied', acc |-> AcceptedAt', opn |-> opn]
  BY <1>0, <1>1, <1>3, <1>4 DEF SimStart, AcceptedAt
<1>6. \A n \in 1 .. MaxId : f[n] = SimNext(f[n - 1], n)'
  <2>1. \A n \in 1 .. MaxId : n \in ids => existing'[n] = event[n].status
    BY <1>1 DEF Ids
  <2> QED
    BY <1>1, <1>2, <1>3, <2>1 DEF SimNext
<1>7. Foretold(opn)'
  BY <1>1, <1>5, <1>6 DEF Foretold, Held
<1> QED
  BY <1>0, <1>7

LEMMA ForetoldSame ==
  ASSUME NEW opn, Foretold(opn), AcceptedAt' = AcceptedAt,
         UNCHANGED <<rows, existing, conflicts, predicted, range, applied>>
  PROVE  Foretold(opn)'
<1>1. PICK f : /\ f[0] = Held(opn) /\ f[MaxId].res = predicted
               /\ \A n \in 1 .. MaxId : f[n] = SimNext(f[n - 1], n)
  BY DEF Foretold
<1>2. \A n : SimNext(f[n - 1], n)' = SimNext(f[n - 1], n)
  BY DEF SimNext
<1>3. Held(opn)' = Held(opn)
  BY DEF Held
<1> QED
  BY <1>1, <1>2, <1>3 DEF Foretold

(* Rows outside the range change nothing.                                  *)
LEMMA ForetoldIdle ==
  ASSUME NEW f, NEW k \in 0 .. MaxId, \A n \in 1 .. MaxId : f[n] = SimNext(f[n - 1], n),
         \A n \in 1 .. k : n \notin range
  PROVE  f[k] = f[0]
<1> DEFINE P == {n \in Nat : n <= k => f[n] = f[0]}
<1>max. MaxId \in Nat /\ k \in Nat /\ k <= MaxId
  BY SyncAssumption
<1>1. 0 \in P
  OBVIOUS
<1>2. ASSUME NEW n \in Nat, n \in P PROVE n + 1 \in P
  <2>1. SUFFICES ASSUME n + 1 <= k PROVE f[n + 1] = f[0]
    OBVIOUS
  <2>2. n + 1 \in 1 .. k /\ n + 1 \in 1 .. MaxId /\ n + 1 - 1 = n /\ f[n] = f[0]
    BY <1>2, <2>1, <1>max
  <2>3. f[n + 1] = SimNext(f[n], n + 1)
    BY <2>2
  <2> QED
    BY <2>2, <2>3 DEF SimNext
<1> HIDE DEF P
<1>3. k \in P
  BY <1>1, <1>2, <1>max, SetInduction
<1> QED
  BY <1>3, <1>max DEF P

(* The first row of the range is the next it goes through.                 *)
LEMMA ForetoldRow ==
  ASSUME RunInv, NEW opn, Foretold(opn), NEW id \in range, FirstOf(id), NEW next,
         [res |-> applied', acc |-> AcceptedAt', opn |-> next] =
           SimRow(Held(opn), id, rows[id], existing[id], conflicts),
         range' = range \ {id}, UNCHANGED <<rows, existing, conflicts, predicted>>
  PROVE  Foretold(next)'
<1>1. PICK f : /\ f[0] = Held(opn) /\ f[MaxId].res = predicted
               /\ \A n \in 1 .. MaxId : f[n] = SimNext(f[n - 1], n)
  BY DEF Foretold
<1>2. MaxId \in Nat /\ id \in 1 .. MaxId /\ id - 1 \in 0 .. MaxId
  BY SyncAssumption DEF RunInv, BackfillTypeOK, Committed, Ids
<1>3. \A n \in 1 .. id - 1 : n \notin range
  BY <1>2 DEF FirstOf
<1>4. f[id - 1] = f[0]
  BY <1>1, <1>2, <1>3, ForetoldIdle
<1>5. f[id] = [res |-> applied', acc |-> AcceptedAt', opn |-> next]
  BY <1>1, <1>2, <1>4 DEF SimNext
<1> DEFINE g == [n \in 0 .. MaxId |-> IF n <= id THEN f[id] ELSE f[n]]
<1>6. g[0] = f[id] /\ g[MaxId] = f[MaxId]
  <2>1. 0 \in 0 .. MaxId /\ MaxId \in 0 .. MaxId /\ 0 <= id
    BY <1>2
  <2>2. MaxId <= id => f[id] = f[MaxId]
    BY <1>2
  <2> QED
    BY <2>1, <2>2
<1>7. ASSUME NEW n \in 1 .. MaxId PROVE g[n] = SimNext(g[n - 1], n)'
  <2>n. n \in 0 .. MaxId /\ n - 1 \in 0 .. MaxId
    BY <1>2
  <2>1. CASE n <= id
    <3>1. g[n] = f[id] /\ g[n - 1] = f[id]
      BY <1>2, <2>n, <2>1
    <3>2. n \notin range'
      BY <1>2, <1>3, <2>1
    <3> QED
      BY <3>1, <3>2 DEF SimNext
  <2>2. CASE ~(n <= id)
    <3>1. g[n] = f[n] /\ g[n - 1] = f[n - 1]
      BY <1>2, <2>n, <2>2
    <3>2. n \in range' <=> n \in range
      BY <1>2, <2>2
    <3>3. f[n] = SimNext(f[n - 1], n)
      BY <1>1
    <3> HIDE DEF g
    <3> QED
      BY <3>1, <3>2, <3>3 DEF SimNext
  <2> QED
    BY <2>1, <2>2
<1> HIDE DEF g
<1>8. g[0] = Held(next)' /\ g[MaxId].res = predicted'
  BY <1>1, <1>5, <1>6 DEF Held
<1> QED
  BY <1>7, <1>8 DEF Foretold

(* One row, by what the run finds of it.                                   *)
LEMMA SimSorted ==
  ASSUME NEW opn, NEW id \in Ids, stage # "read"
  PROVE  SortedNow(id) =
           Sorted(rows[id], existing[id], conflicts,
                  IF rows[id].emp \in Employees THEN Held(opn).acc[rows[id].emp] ELSE -1)
BY DEF SortedNow, Held, AcceptedAt

LEMMA SimPassed ==
  ASSUME NEW opn, NEW id \in Ids, stage # "read", SortedNow(id) # "toggle"
  PROVE  SimRow(Held(opn), id, rows[id], existing[id], conflicts) =
           [res |-> [applied EXCEPT ![id] = SortedNow(id)], acc |-> AcceptedAt, opn |-> opn]
<1>1. SimRow(Held(opn), id, rows[id], existing[id], conflicts) =
        [res |-> [Held(opn).res EXCEPT ![id] = SortedNow(id)], acc |-> Held(opn).acc,
         opn |-> Held(opn).opn]
  BY SimSorted DEF SimRow
<1> QED
  BY <1>1 DEF Held

LEMMA SimToggled ==
  ASSUME NEW opn, NEW id \in Ids, stage # "read", SortedNow(id) = "toggle",
         rows[id].emp \in Employees
  PROVE  LET e == rows[id].emp
             out == OpenOn(opn[e], id)
         IN  SimRow(Held(opn), id, rows[id], existing[id], conflicts) =
               [res |-> [applied EXCEPT ![id] = IF out THEN "check_out_written"
                                                ELSE "check_in_created"],
                acc |-> [AcceptedAt EXCEPT ![e] = rows[id].at],
                opn |-> [opn EXCEPT ![e] = IF out THEN -1 ELSE rows[id].at]]
<1>1. /\ Held(opn).res = applied /\ Held(opn).acc = AcceptedAt /\ Held(opn).opn = opn
  BY DEF Held
<1>2. Sorted(rows[id], existing[id], conflicts,
             IF rows[id].emp \in Employees THEN Held(opn).acc[rows[id].emp] ELSE -1) = "toggle"
  BY SimSorted
<1> QED
  BY <1>1, <1>2 DEF SimRow, OpenOn

(* A check-in that was open before the range, and is open on a day of it,  *)
(* makes that day busy.                                                    *)
LEMMA EarlyOpen ==
  ASSUME RunInv, NEW ids \in SUBSET Ids, NEW e \in Employees, NEW id \in ids,
         OpenOn(OpenBefore(ids, e).in, id)
  PROVE  \E j \in DOMAIN attendance :
           /\ attendance[j].emp = e /\ attendance[j].in < rows[id].at
           /\ Day(attendance[j].in) = Day(rows[id].at)
<1>1. OpenBefore(ids, e) # NotOpen
  BY DEF OpenOn, NotOpen
<1>2. PICK j \in DOMAIN attendance :
        /\ OpenBefore(ids, e) = [in |-> attendance[j].in, att |-> j,
                                 ev |-> attendance[j].inEv, row |-> FALSE]
        /\ attendance[j].emp = e /\ Before(ids, attendance[j].in)
  BY <1>1, OpenShape DEF RunInv
<1>3. /\ attendance[j].in \in Nat /\ rows[id].at \in Nat /\ attendance[j].in < rows[id].at
  BY <1>2, RecordTypes, RowTypes DEF RunInv, Before
<1>4. /\ Day(attendance[j].in) <= Day(rows[id].at)
      /\ Day(attendance[j].in) \in Nat /\ Day(rows[id].at) \in Nat
  BY <1>3, DayOrder, DayType
<1>5. Day(attendance[j].in) >= Day(rows[id].at)
  BY <1>2 DEF OpenOn
<1> QED
  BY <1>2, <1>3, <1>4, <1>5

LEMMA TracksStart ==
  ASSUME RunInv, NEW ids \in SUBSET Ids, StartApply(ids) PROVE \E opn : Tracks(opn)'
<1>1. PICK opn : opn = [e \in Employees |-> OpenBefore(ids, e).in] /\ Foretold(opn)'
  BY ForetoldStart
<1>2. /\ conflicts' = BusyDays(ids) /\ range' = ids /\ stage' = "read"
      /\ UNCHANGED <<rows, attendance>>
  BY DEF StartApply, vars
<1>3. ASSUME NEW e \in Employees PROVE opn[e] \in Int
  <2>1. CASE OpenBefore(ids, e) = NotOpen
    BY <1>1, <2>1 DEF NotOpen
  <2>2. CASE OpenBefore(ids, e) # NotOpen
    BY <1>1, <2>2, OpenShape, RecordTypes DEF RunInv
  <2> QED
    BY <2>1, <2>2
<1>4. opn \in [Employees -> Int]
  BY <1>1, <1>3
<1>5. ASSUME NEW e \in Employees, NEW id \in ids, DayFree(e, id)' PROVE ~OpenOn(opn[e], id)'
  <2>1. SUFFICES ASSUME OpenOn(OpenBefore(ids, e).in, id) PROVE FALSE
    BY <1>1, <1>2 DEF OpenOn
  <2>2. PICK j \in DOMAIN attendance :
          attendance[j].emp = e /\ Day(attendance[j].in) = Day(rows[id].at)
    BY <2>1, EarlyOpen
  <2>3. rows[id].emp = e /\ <<e, Day(rows[id].at)>> \notin BusyDays(ids)
    BY <1>2, <1>5 DEF DayFree
  <2> QED
    BY <2>2, <2>3, BusyDay
<1> QED
  BY <1>1, <1>2, <1>4, <1>5 DEF Tracks

LEMMA TracksRead ==
  ASSUME RunInv, BusyInv, SimInv, NEW opn, Tracks(opn), ReadOpen PROVE Tracks(opn)'
<1>1. /\ stage = "read" /\ stage' = "row"
      /\ accepted' = [e \in Employees |-> LatestAcceptedBefore(range, e)]
      /\ pending' = [e \in Employees |-> OpenBefore(range, e)]
      /\ UNCHANGED <<rows, range, applied, existing, conflicts, predicted>>
  BY DEF ReadOpen, plan, vars
<1>2. AcceptedAt' = AcceptedAt
  BY <1>1 DEF AcceptedAt
<1>3. Foretold(opn)' /\ opn \in [Employees -> Int]
  BY <1>1, <1>2, ForetoldSame DEF Tracks
<1>4. ASSUME NEW e \in Employees, NEW id \in range, DayFree(e, id)
      PROVE  ~OpenOn(opn[e], id) /\ ~OpenOn(pending'[e].in, id)
  <2>1. ~OpenOn(opn[e], id)
    BY <1>1, <1>4 DEF Tracks
  <2>2. SUFFICES ASSUME OpenOn(OpenBefore(range, e).in, id) PROVE FALSE
    BY <1>1, <2>1
  <2>ids. range \subseteq Ids
    BY DEF RunInv, BackfillTypeOK, Committed
  <2>3. PICK j \in DOMAIN attendance :
          /\ attendance[j].emp = e /\ attendance[j].in < rows[id].at
          /\ Day(attendance[j].in) = Day(rows[id].at)
    BY <2>2, <2>ids, EarlyOpen
  <2>4. /\ rows[id].at <= Started /\ rows[id].at \in Nat /\ attendance[j].in \in Nat
        /\ Started \in Nat /\ j \in Nat /\ j >= 1 /\ base \in Nat
    BY <2>ids, RowTypes, RecordTypes, BackfillAssumption DEF RunInv, MemoryInv
  <2>5. ~(j > base)
    <3>1. j > base => attendance[j].in >= Started
      BY <1>1 DEF SimInv
    <3> QED
      BY <3>1, <2>3, <2>4
  <2>6. j \in 1 .. base
    BY <2>4, <2>5
  <2> QED
    BY <1>4, <2>3, <2>6 DEF BusyInv, DayFree
<1>5. \A e \in Employees : SameOpen(opn, e)'
  BY <1>1, <1>4 DEF SameOpen, DayFree, OpenOn
<1> QED
  BY <1>1, <1>3, <1>5 DEF Tracks

(* Calls that decide nothing: what is open and accepted stays, or the rows *)
(* are through.                                                            *)
LEMMA TracksSame ==
  ASSUME RunInv, NEW opn, Tracks(opn), stage # "read", stage' # "read",
         UNCHANGED <<rows, existing, conflicts, predicted, range, applied>>,
         \A e \in Employees : accepted'[e].at = accepted[e].at,
         range # {} => \A e \in Employees :
           \/ pending'[e].in = pending[e].in
           \/ pending'[e].in = -1 /\ JustClosed(opn, e)'
  PROVE  Tracks(opn)'
<1>1. AcceptedAt' = AcceptedAt
  BY DEF AcceptedAt
<1>2. Foretold(opn)' /\ opn \in [Employees -> Int]
  BY <1>1, ForetoldSame DEF Tracks
<1>ids. range \subseteq Ids
  BY DEF RunInv, BackfillTypeOK, Committed
<1>3. ASSUME NEW e \in Employees PROVE SameOpen(opn, e)' \/ JustClosed(opn, e)'
  <2>1. CASE range = {}
    BY <2>1 DEF SameOpen
  <2>2. CASE pending'[e].in = pending[e].in
    <3>1. SameOpen(opn, e) \/ JustClosed(opn, e)
      BY DEF Tracks
    <3>2. SameOpen(opn, e) => SameOpen(opn, e)'
      BY <2>2 DEF SameOpen, DayFree, OpenOn
    <3>3. \A id \in range : /\ SortedNow(id)' = SortedNow(id) /\ (FirstOf(id)' <=> FirstOf(id))
                            /\ (OpenOn(opn[e], id)' <=> OpenOn(opn[e], id))
      BY <1>ids, SortedSame DEF FirstOf, OpenOn
    <3>4. JustClosed(opn, e) => JustClosed(opn, e)'
      BY <2>2, <3>3 DEF JustClosed, IsOpen
    <3> QED
      BY <3>1, <3>2, <3>4
  <2> QED
    BY <2>1, <2>2
<1> QED
  BY <1>2, <1>3 DEF Tracks

LEMMA FirstAlike ==
  ASSUME RunInv, NEW opn, Tracks(opn), stage # "read", NEW id \in range, FirstOf(id),
         NEW e \in Employees
  PROVE  /\ SortedNow(id) = "toggle" /\ rows[id].emp = e =>
              (OpenOn(pending[e].in, id) <=> OpenOn(opn[e], id))
         /\ SortedNow(id) # "toggle" \/ rows[id].emp # e => SameOpen(opn, e)
<1>1. SameOpen(opn, e) \/ JustClosed(opn, e)
  BY DEF Tracks
<1>2. JustClosed(opn, e) =>
        /\ SortedNow(id) = "toggle" /\ rows[id].emp = e
        /\ ~OpenOn(pending[e].in, id) /\ ~OpenOn(opn[e], id)
  <2>1. \A o \in range : FirstOf(o) => o = id
    BY FirstIsOne DEF RunInv
  <2> QED
    BY <2>1 DEF JustClosed, IsOpen, OpenOn
<1>3. SortedNow(id) = "toggle" /\ rows[id].emp = e => DayFree(e, id)
  BY ToggleRow DEF DayFree, RunInv, BackfillTypeOK, Committed
<1>4. SameOpen(opn, e) /\ DayFree(e, id) =>
        (OpenOn(pending[e].in, id) <=> OpenOn(opn[e], id))
  BY DEF SameOpen
<1> QED
  BY <1>1, <1>2, <1>3, <1>4

LEMMA SameLeft ==
  ASSUME NEW opn, NEW next, NEW e, SameOpen(opn, e), pending'[e].in = pending[e].in,
         next[e] = opn[e], range' \subseteq range, UNCHANGED <<rows, conflicts>>
  PROVE  SameOpen(next, e)'
BY DEF SameOpen, DayFree, OpenOn

(* A row that does not toggle.                                             *)
LEMMA TracksPassed ==
  ASSUME RunInv, NEW opn, Tracks(opn), NEW id \in range, PassRow(id) \/ SetAside(id)
  PROVE  Tracks(opn)'
<1>1. /\ stage = "row" /\ stage' = "row" /\ range' = range \ {id} /\ FirstOf(id)
      /\ applied' = [applied EXCEPT ![id] = SortedNow(id)] /\ SortedNow(id) # "toggle"
      /\ UNCHANGED <<accepted, pending, existing, conflicts, predicted>>
  BY DEF PassRow, SetAside, ReportRow, plan
<1>2. rows' = rows /\ id \in Ids
  BY Frame DEF BackfillStep, ApplyRow, RunInv, BackfillTypeOK, Committed
<1>3. AcceptedAt' = AcceptedAt
  BY <1>1 DEF AcceptedAt
<1>4. [res |-> applied', acc |-> AcceptedAt', opn |-> opn] =
        SimRow(Held(opn), id, rows[id], existing[id], conflicts)
  BY <1>1, <1>2, <1>3, SimPassed
<1>5. Foretold(opn)' /\ opn \in [Employees -> Int]
  BY <1>1, <1>2, <1>4, ForetoldRow DEF Tracks
<1>6. \A e \in Employees : SameOpen(opn, e)'
  BY <1>1, <1>2, FirstAlike, SameLeft
<1> QED
  BY <1>1, <1>5, <1>6 DEF Tracks

(* A row that toggles: the run and the dry run agree on what it is.        *)
LEMMA TracksToggled ==
  ASSUME RunInv, NEW opn, Tracks(opn), NEW id \in range, FirstOf(id), stage # "read",
         stage' = "row", SortedNow(id) = "toggle", range' = range \ {id},
         UNCHANGED <<rows, existing, conflicts, predicted>>,
         NEW e, e = rows[id].emp, NEW out \in BOOLEAN, out <=> OpenOn(pending[e].in, id),
         applied' = [applied EXCEPT ![id] = IF out THEN "check_out_written"
                                            ELSE "check_in_created"],
         accepted'[e].at = rows[id].at,
         pending'[e].in = IF out THEN -1 ELSE rows[id].at,
         \A o \in Employees \ {e} : pending'[o] = pending[o] /\ accepted'[o] = accepted[o]
  PROVE  \E next : Tracks(next)'
<1>id. id \in Ids
  BY DEF RunInv, BackfillTypeOK, Committed
<1>e. e \in Employees /\ rows[id].at \in Nat
  BY <1>id, ToggleRow, RowTypes DEF RunInv
<1>1. out <=> OpenOn(opn[e], id)
  BY <1>e, FirstAlike
<1>2. PICK next : next = [opn EXCEPT ![e] = IF out THEN -1 ELSE rows[id].at]
  OBVIOUS
<1>3. /\ next \in [Employees -> Int] /\ next[e] = pending'[e].in
      /\ \A o \in Employees \ {e} : next[o] = opn[o]
  BY <1>2, <1>e DEF Tracks
<1>4. AcceptedAt' = [AcceptedAt EXCEPT ![e] = rows[id].at]
  <2>1. \A o \in Employees : AcceptedAt[o] = accepted[o].at
    BY DEF AcceptedAt
  <2>2. AcceptedAt' = [o \in Employees |-> accepted'[o].at]
    BY DEF AcceptedAt
  <2>3. AcceptedAt = [o \in Employees |-> AcceptedAt[o]]
    BY DEF AcceptedAt
  <2> QED
    BY <1>e, <2>1, <2>2, <2>3
<1>5. [res |-> applied', acc |-> AcceptedAt', opn |-> next] =
        SimRow(Held(opn), id, rows[id], existing[id], conflicts)
  BY <1>id, <1>e, <1>1, <1>2, <1>4, SimToggled
<1>6. Foretold(next)'
  BY <1>5, ForetoldRow DEF Tracks
<1>7. ASSUME NEW o \in Employees PROVE SameOpen(next, o)'
  <2>1. CASE o = e
    BY <1>3, <2>1 DEF SameOpen
  <2>2. CASE o # e
    <3>1. SameOpen(opn, o)
      BY <2>2, FirstAlike
    <3>2. pending'[o].in = pending[o].in /\ next[o] = opn[o] /\ range' \subseteq range
      BY <1>3, <2>2
    <3> QED
      BY <3>1, <3>2 DEF SameOpen, DayFree, OpenOn
  <2> QED
    BY <2>1, <2>2
<1> QED
  BY <1>3, <1>6, <1>7 DEF Tracks

LEMMA TracksTaken ==
  ASSUME RunInv, NEW opn, Tracks(opn), NEW id \in range, TakeCheckIn(id)
  PROVE  \E next : Tracks(next)'
<1> DEFINE e == rows[id].emp
<1>id. id \in Ids
  BY DEF RunInv, BackfillTypeOK, Committed
<1>1. /\ stage = "row" /\ stage' = "row" /\ FirstOf(id) /\ SortedNow(id) = "toggle"
      /\ ~IsOpen(e) /\ range' = range \ {id}
      /\ applied' = [applied EXCEPT ![id] = "check_in_created"]
      /\ pending' = [pending EXCEPT ![e] = OpenedBy(id)]
      /\ accepted' = [accepted EXCEPT ![e] = [at |-> rows[id].at, att |-> NoAttendance]]
      /\ UNCHANGED <<existing, conflicts, predicted>>
  BY DEF TakeCheckIn, ReportRow, Remember, plan
<1>2. rows' = rows /\ e \in Employees
  BY <1>id, <1>1, Frame, ToggleRow DEF BackfillStep, ApplyRow, RunInv
<1>3. e = rows[id].emp
  OBVIOUS
<1> HIDE DEF e
<1>4. /\ pending'[e].in = rows[id].at /\ accepted'[e].at = rows[id].at
      /\ \A o \in Employees \ {e} : pending'[o] = pending[o] /\ accepted'[o] = accepted[o]
  BY <1>1, <1>2 DEF RunInv, MemoryInv, OpenedBy
<1>5. ~OpenOn(pending[e].in, id)
  BY <1>1 DEF IsOpen, OpenOn
<1> DEFINE out == FALSE
<1>6. /\ out \in BOOLEAN /\ (out <=> OpenOn(pending[e].in, id))
      /\ applied' = [applied EXCEPT ![id] = IF out THEN "check_out_written"
                                            ELSE "check_in_created"]
      /\ pending'[e].in = IF out THEN -1 ELSE rows[id].at
  BY <1>1, <1>4, <1>5
<1> HIDE DEF out
<1> QED
  BY <1>1, <1>2, <1>3, <1>4, <1>6, TracksToggled

LEMMA TracksOut ==
  ASSUME RunInv, NEW opn, Tracks(opn), NEW id \in range, MarkOut(id)
  PROVE  \E next : Tracks(next)'
<1> DEFINE e == rows[id].emp
<1>1. /\ stage = "markOut" /\ stage' = "row" /\ FirstOf(id) /\ e \in Employees
      /\ pending'[e] = NotOpen /\ range' = range \ {id}
      /\ accepted' = [accepted EXCEPT ![e] = [at |-> rows[id].at, att |-> made]]
      /\ \A o \in Employees \ {e} : pending'[o] = pending[o] /\ accepted'[o] = accepted[o]
      /\ applied' = [applied EXCEPT ![id] = "check_out_written"]
      /\ UNCHANGED <<rows, existing, conflicts, predicted>>
  BY MarkOutShape
<1>2. id \in Ids /\ SortedNow(id) = "toggle" /\ IsOpen(e) /\ ~OpenEarlierDay(e, id)
  BY <1>1, OutRow DEF OutStages
<1>3. e = rows[id].emp
  OBVIOUS
<1> HIDE DEF e
<1>4. accepted'[e].at = rows[id].at /\ pending'[e].in = -1
  BY <1>1 DEF RunInv, MemoryInv, NotOpen
<1>5. OpenOn(pending[e].in, id)
  <2>1. pending[e].in \in Nat /\ Day(rows[id].at) \in Nat
    BY <1>1, <1>2, MemoryTypes, RowTypes DEF RunInv, IsOpen
  <2>2. Day(pending[e].in) \in Nat
    BY <2>1, DayType
  <2> QED
    BY <1>2, <1>3, <2>1, <2>2 DEF OpenEarlierDay, IsOpen, OpenOn
<1> DEFINE out == TRUE
<1>6. /\ out \in BOOLEAN /\ (out <=> OpenOn(pending[e].in, id))
      /\ applied' = [applied EXCEPT ![id] = IF out THEN "check_out_written"
                                            ELSE "check_in_created"]
      /\ pending'[e].in = IF out THEN -1 ELSE rows[id].at
  BY <1>1, <1>4, <1>5
<1> HIDE DEF out
<1> QED
  BY <1>1, <1>2, <1>3, <1>4, <1>6, TracksToggled

(* The check-in that is closed is of an earlier day than the row in hand,  *)
(* so it was open for it neither here nor there.                           *)
LEMMA TracksClosed ==
  ASSUME RunInv, NEW opn, Tracks(opn), NEW e \in Employees, MarkClosed(e)
  PROVE  Tracks(opn)'
<1>ids. range \subseteq Ids /\ Ids \subseteq Nat
  BY DEF RunInv, BackfillTypeOK, Committed, Ids
<1>1. /\ stage = "markClosed" /\ attendance[made].emp = e /\ pending'[e] = NotOpen
      /\ accepted'[e].at = accepted[e].at
      /\ \A o \in Employees \ {e} : pending'[o] = pending[o] /\ accepted'[o] = accepted[o]
      /\ stage' = IF range = {} THEN "end" ELSE "row"
      /\ UNCHANGED <<rows, range, applied, existing, conflicts, predicted>>
  BY MarkClosedShape
<1>2. /\ stage # "read" /\ stage' # "read"
      /\ \A o \in Employees : accepted'[o].at = accepted[o].at
  BY <1>1
<1>3. ASSUME range # {} PROVE pending'[e].in = -1 /\ JustClosed(opn, e)'
  <2>1. PICK id \in range : FirstOf(id)
    <3>1. PICK n \in range : \A m \in range : n <= m
      BY <1>ids, <1>3, LeastNat
    <3> QED
      BY <3>1 DEF FirstOf
  <2>2. SortedNow(id) = "toggle" /\ rows[id].emp = e /\ OpenEarlierDay(e, id)
    BY <1>1, <2>1 DEF RunInv, ApplyInv
  <2>3. ~OpenOn(pending[e].in, id)
    <3>1. pending[e].in \in Nat /\ Day(rows[id].at) \in Nat
      BY <1>ids, <2>2, MemoryTypes, RowTypes DEF RunInv, OpenEarlierDay, IsOpen
    <3>2. Day(pending[e].in) \in Nat
      BY <3>1, DayType
    <3> QED
      BY <2>2, <3>1, <3>2 DEF OpenEarlierDay, OpenOn
  <2>4. ~OpenOn(opn[e], id)
    BY <1>2, <2>1, <2>2, <2>3, FirstAlike
  <2>5. SortedNow(id)' = "toggle" /\ FirstOf(id)' /\ ~OpenOn(opn[e], id)'
    BY <1>ids, <1>1, <1>2, <2>1, <2>2, <2>4, SortedSame DEF FirstOf, OpenOn
  <2>6. pending'[e].in = -1
    BY <1>1 DEF NotOpen
  <2> QED
    BY <1>1, <2>1, <2>2, <2>5, <2>6 DEF JustClosed, IsOpen
<1>4. range # {} => \A o \in Employees :
        \/ pending'[o].in = pending[o].in
        \/ pending'[o].in = -1 /\ JustClosed(opn, o)'
  BY <1>1, <1>3
<1> QED
  BY <1>1, <1>2, <1>4, TracksSame

(* The calls of a run.                                                     *)
LEMMA TracksStep ==
  ASSUME RunInv, BusyInv, SimInv, BackfillStep \/ ApplyFails, stage' # "off"
  PROVE  \E opn : Tracks(opn)'
<1>1. PICK opn : Tracks(opn)
  BY RunGoesOn DEF SimInv
<1>2. rows' = rows
  BY Frame
<1>same. ASSUME stage # "read", stage' # "read", UNCHANGED <<accepted, pending>>,
                UNCHANGED <<range, applied, existing, conflicts, predicted>>
         PROVE  Tracks(opn)'
  BY <1>1, <1>2, <1>same, TracksSame
<1>write. ASSUME NEW e, NEW out, NEW outEv, NEW reason, NEW next, next # "read",
                 Materialize(e, out, outEv, reason, next), stage # "read"
          PROVE  Tracks(opn)'
  <2>1. /\ UNCHANGED <<accepted, pending>> /\ stage' = next
        /\ UNCHANGED <<range, applied, existing, conflicts, predicted>>
    BY <1>write DEF Materialize, Stop, plan
  <2> QED
    BY <1>same, <1>write, <2>1
<1>3. CASE ReadOpen
  BY <1>1, <1>3, TracksRead
<1>4. CASE EndRows
  <2>1. /\ stage = "row" /\ stage' = "end" /\ range = {}
        /\ UNCHANGED <<existing, conflicts, predicted, range, applied, accepted>>
    BY <1>4 DEF EndRows, plan
  <2> QED
    BY <1>1, <1>2, <2>1, TracksSame
<1>5. CASE Finish \/ ApplyFails
  BY <1>5 DEF Finish, ApplyFails, Stop
<1>6. ASSUME NEW id \in range, ApplyRow(id) PROVE \E next : Tracks(next)'
  <2>1. CASE PassRow(id) \/ SetAside(id)
    BY <1>1, <2>1, TracksPassed
  <2>2. CASE TakeCheckIn(id)
    BY <1>1, <2>2, TracksTaken
  <2>3. CASE MarkOut(id)
    BY <1>1, <2>3, TracksOut
  <2>4. CASE StageCheckOut(id) \/ MarkIn(id)
    <3>1. stage # "read" /\ stage' # "read" /\ UNCHANGED <<plan, memory>>
      BY <2>4 DEF StageCheckOut, MarkIn
    <3> QED
      BY <1>same, <3>1 DEF plan, memory
  <2>5. CASE CloseEarlierDay(id)
    BY <1>write, <2>5 DEF CloseEarlierDay
  <2>6. CASE WriteOut(id)
    <3> DEFINE next == IF pending[rows[id].emp].att = NoAttendance THEN "markIn" ELSE "markOut"
    <3>1. stage = "checkOut" /\ Materialize(rows[id].emp, rows[id].at, id, "no", next)
      BY <2>6 DEF WriteOut
    <3>2. next # "read" /\ stage # "read"
      BY <3>1
    <3> HIDE DEF next
    <3> QED
      BY <1>write, <3>1, <3>2
  <2> QED
    BY <1>6, <2>1, <2>2, <2>3, <2>4, <2>5, <2>6 DEF ApplyRow
<1>7. ASSUME NEW e \in Employees, CloseAtEnd(e) \/ MarkClosed(e) PROVE \E next : Tracks(next)'
  <2>1. CASE MarkClosed(e)
    BY <1>1, <2>1, TracksClosed
  <2>2. CASE CloseAtEnd(e)
    BY <1>write, <2>2 DEF CloseAtEnd
  <2> QED
    BY <1>7, <2>1, <2>2
<1> QED
  BY <1>3, <1>4, <1>5, <1>6, <1>7 DEF BackfillStep

(* What happens around a run.                                              *)
LEMMA TracksAround ==
  ASSUME RunInv, NEW opn, Tracks(opn), stage # "off",
         (Around /\ UNCHANGED backfill) \/ UNCHANGED bvars
  PROVE  Tracks(opn)'
<1>1. UNCHANGED <<stage, range, accepted, pending, applied, existing, conflicts, predicted>>
  BY DEF bvars, backfill, plan, memory
<1>2. UNCHANGED <<rows, event>>
  BY AroundFrame DEF bvars, vars
<1>ids. range \subseteq Ids
  BY DEF RunInv, BackfillTypeOK, Committed
<1>3. \A e : LatestAcceptedBefore(range, e)' = LatestAcceptedBefore(range, e)
  BY <1>1, <1>2 DEF LatestAcceptedBefore, AcceptedBefore, AcceptedOf, Committed, Before
<1>4. AcceptedAt' = AcceptedAt
  BY <1>1, <1>3 DEF AcceptedAt
<1>5. Foretold(opn)' /\ opn \in [Employees -> Int]
  BY <1>1, <1>2, <1>4, ForetoldSame DEF Tracks
<1>6. ASSUME NEW e, NEW id
      PROVE  /\ DayFree(e, id)' <=> DayFree(e, id)
             /\ OpenOn(pending[e].in, id)' <=> OpenOn(pending[e].in, id)
             /\ OpenOn(opn[e], id)' <=> OpenOn(opn[e], id)
  BY <1>1, <1>2 DEF DayFree, OpenOn
<1>7. \A id \in range : SortedNow(id)' = SortedNow(id) /\ (FirstOf(id)' <=> FirstOf(id))
  BY <1>ids, <1>1, <1>2, SortedSame DEF FirstOf
<1>8. \A e \in Employees : /\ SameOpen(opn, e) => SameOpen(opn, e)'
                           /\ JustClosed(opn, e) => JustClosed(opn, e)'
  BY <1>1, <1>2, <1>6, <1>7 DEF SameOpen, JustClosed, IsOpen
<1> QED
  BY <1>1, <1>5, <1>6, <1>8 DEF Tracks

LEMMA SimStep ==
  ASSUME RunInv, BusyInv, ReportInv, SimInv, [BackfillNext]_bvars PROVE SimInv'
<1>report. ReportInv'
  BY ReportStep
<1>1. CASE BackfillStep \/ ApplyFails
  <2>1. stage # "off" /\ run # "success" /\ stage' # "read"
    <3>1. stage # "off"
      BY <1>1, RunGoesOn
    <3>2. stage' # "read"
      <4>1. ASSUME NEW e, NEW out, NEW outEv, NEW reason, NEW next,
                   Materialize(e, out, outEv, reason, next), next # "read"
            PROVE  stage' # "read"
        BY <4>1 DEF Materialize, Stop
      <4>2. ASSUME NEW id \in range, ApplyRow(id) PROVE stage' # "read"
        <5>1. CASE WriteOut(id)
          <6> DEFINE next == IF pending[rows[id].emp].att = NoAttendance THEN "markIn"
                             ELSE "markOut"
          <6>1. next # "read" /\ Materialize(rows[id].emp, rows[id].at, id, "no", next)
            BY <5>1 DEF WriteOut
          <6> HIDE DEF next
          <6> QED
            BY <4>1, <6>1
        <5>2. CASE CloseEarlierDay(id)
          BY <4>1, <5>2 DEF CloseEarlierDay
        <5>3. PassRow(id) \/ SetAside(id) \/ TakeCheckIn(id) \/ MarkOut(id) => stage' = "row"
          BY DEF PassRow, SetAside, TakeCheckIn, MarkOut, ReportRow
        <5>4. /\ StageCheckOut(id) => stage' = "checkOut"
              /\ MarkIn(id) => stage' = "markOut"
          BY DEF StageCheckOut, MarkIn
        <5> QED
          BY <4>2, <5>1, <5>2, <5>3, <5>4 DEF ApplyRow
      <4>3. ASSUME NEW e \in Employees, CloseAtEnd(e) \/ MarkClosed(e) PROVE stage' # "read"
        <5>1. CASE CloseAtEnd(e)
          BY <4>1, <5>1 DEF CloseAtEnd
        <5>2. CASE MarkClosed(e)
          BY <5>2 DEF MarkClosed
        <5> QED
          BY <4>3, <5>1, <5>2
      <4>4. ReadOpen \/ EndRows \/ Finish \/ ApplyFails => stage' # "read"
        BY DEF ReadOpen, EndRows, Finish, ApplyFails, Stop
      <4> QED
        BY <1>1, <4>2, <4>3, <4>4 DEF BackfillStep
    <3> QED
      BY <3>1, <3>2 DEF ReportInv
  <2>2. stage' # "off" => \E opn : Tracks(opn)'
    BY <1>1, TracksStep
  <2>3. ASSUME run' = "success" PROVE applied' = predicted'
    <3>1. stage' = "off"
      BY <1>report, <2>3 DEF ReportInv
    <3>2. Finish
      BY <1>1, <2>3, <3>1, RunGoesOn
    <3>3. stage = "end" /\ range = {} /\ UNCHANGED <<applied, predicted>>
      BY <3>2 DEF Finish, Stop, plan, RunInv, ApplyInv
    <3>4. PICK opn : Foretold(opn)
      BY <2>1 DEF SimInv, Tracks
    <3>5. PICK f : /\ f[0] = Held(opn) /\ f[MaxId].res = predicted
                   /\ \A n \in 1 .. MaxId : f[n] = SimNext(f[n - 1], n)
      BY <3>4 DEF Foretold
    <3>6. f[MaxId] = f[0]
      <4>1. MaxId \in 0 .. MaxId
        BY SyncAssumption
      <4> QED
        BY <3>3, <3>5, <4>1, ForetoldIdle
    <3>7. Held(opn).res = applied
      BY DEF Held
    <3> QED
      BY <3>3, <3>5, <3>6, <3>7
  <2> QED
    BY <2>1, <2>2, <2>3 DEF SimInv
<1>2. ASSUME NEW ids \in SUBSET Ids, StartApply(ids) PROVE SimInv'
  <2>1. /\ stage' = "read" /\ run' = "running" /\ base' = Len(attendance)
        /\ attendance' = attendance
    BY <1>2 DEF StartApply, vars
  <2>2. \A j \in DOMAIN attendance : ~(j > Len(attendance))
    BY RecordTypes DEF RunInv
  <2> QED
    BY <1>2, <2>1, <2>2, TracksStart DEF SimInv
<1>3. CASE (Around /\ UNCHANGED backfill) \/ UNCHANGED bvars
  <2>1. UNCHANGED <<stage, run, applied, predicted, base>>
    BY <1>3 DEF bvars, backfill, plan, memory
  <2>2. stage # "off" => \E opn : Tracks(opn)'
    BY <1>3, TracksAround DEF SimInv
  <2>3. ASSUME stage = "read", NEW j \in DOMAIN attendance', j > base
        PROVE  attendance'[j].in >= Started
    <3>1. CASE j \in DOMAIN attendance
      BY <2>3, <3>1, TableStays DEF SimInv
    <3>2. CASE j \notin DOMAIN attendance
      <4>1. Around
        BY <1>3, <3>2 DEF bvars, vars
      <4>2. attendance'[j].in = now
        BY <2>3, <3>2, <4>1, AroundFrame, TableKeeps
        DEF RunInv, ApplyInv, RowStates, ToggleStates
      <4> QED
        BY <4>2 DEF RunInv, GapInv
    <3> QED
      BY <3>1, <3>2
  <2> QED
    BY <2>1, <2>2, <2>3 DEF SimInv
<1> QED
  BY <1>1, <1>2, <1>3 DEF BackfillNext, Committed

(* When nothing failed, an apply gave every row of its range the outcome   *)
(* _simulate_rows gives it, whatever others did to the attendances         *)
(* between its reads and its writes.                                       *)
THEOREM DryRunsForetell == BackfillSpec => []DryRunPredicts
<1>1. BackfillInit => SimInv
  BY DEF BackfillInit, SimInv
<1>2. RunInv /\ BusyInv /\ ReportInv /\ SimInv /\ [BackfillNext]_bvars => SimInv'
  BY SimStep
<1>3. SimInv => DryRunPredicts
  BY DEF SimInv, DryRunPredicts
<1> QED
  BY <1>1, <1>2, <1>3, BusyInvariant, SettledInvariant, PTL DEF BackfillSpec
=============================================================================
