------------------------ MODULE AttendanceRecords_proofs ------------------------
(***************************************************************************)
(* What AttendanceSync does to hr.attendance and to the marks on its       *)
(* events, proved for every value of the constants; the order of the rows  *)
(* and the types come from AttendanceSync_proofs.                          *)
(***************************************************************************)
EXTENDS AttendanceSync_proofs

(* No punch and no close run has ended attendance i.                       *)
Unended(i) == attendance[i].outEv = NoEvent /\ attendance[i].auto = "no"

(* An attendance that is open, or that the worker is about to end, has not *)
(* been ended by it, also when others have checked it out meanwhile; the   *)
(* one that is to be flagged has been closed by the worker; the one whose  *)
(* event is to be marked carries the punch.                                *)
HoldInv ==
  /\ \A i \in DOMAIN attendance : attendance[i].out = Open => Unended(i)
  /\ pc \in {"newDay", "checkOut"} => Unended(held)
  /\ \A i \in closing : Unended(i) \/ (pc = "closingFlag" /\ i = held)
  /\ pc \in {"newDayFlag", "closingFlag"} => attendance[held].auto # "no"
  /\ pc = "markIn" => /\ attendance[held].inEv = cur
                      /\ attendance[held].in = rows[cur].at
  /\ pc = "markOut" => /\ attendance[held].outEv = cur
                       /\ attendance[held].out = rows[cur].at

(* A row reaches the toggle only if it is granted; the attendance it finds *)
(* there is its employee's.                                                *)
ToggleInv ==
  pc \in ToggleStates =>
    /\ rows[cur].granted
    /\ held # NoAttendance => attendance[held].emp = rows[cur].emp

(* The worker sees the date of the last close run for as long as it works  *)
(* on rows: nobody else records one.                                       *)
DateInv == pc \in RowStates => cfgClose = lastClose

(* An attendance refers to a staged punch; one that is still to be passed, *)
(* because its row was interrupted, is beyond the debounce window of the   *)
(* other accepted punches of its employee, so that its retry is none.      *)
RefersTo(i, id) == id # NoEvent /\ id \in {attendance[i].inEv, attendance[i].outEv}

RefInv ==
  \A i \in DOMAIN attendance, id \in Ids : RefersTo(i, id) =>
    /\ id \in Committed /\ rows[id].granted /\ rows[id].emp = attendance[i].emp
    /\ event[id].status \notin {"none", "employee_not_found", "denied_ignored",
                                "duplicate_ignored"}
    /\ id > cursor => \A a \in AcceptedOf(rows[id].emp) \ {id} :
                        rows[id].at - rows[a].at > Debounce

(* Odoo keeps at most one attendance of an employee open; during a close   *)
(* run every open biometric attendance is still in its list.               *)
OpenInv ==
  /\ \A i, j \in DOMAIN attendance :
       /\ attendance[i].out = Open /\ attendance[j].out = Open
       /\ attendance[i].emp = attendance[j].emp
       => i = j
  /\ pc \in CloseStates =>
       \A i \in DOMAIN attendance :
         attendance[i].out = Open /\ attendance[i].src = "biometric"
         => i \in closing /\ (pc = "closingFlag" => i # held)

SpecialStates == {"newDay", "newDayFlag", "checkOut", "markIn", "markOut", "closingFlag"}

(* The records of the attendances, one by one.                             *)
LEMMA RecordTypes ==
  ASSUME TypeOK
  PROVE  /\ Len(attendance) \in Nat /\ DOMAIN attendance = 1 .. Len(attendance)
         /\ \A i \in DOMAIN attendance :
              /\ attendance[i] \in AttendanceRecord
              /\ attendance[i].emp \in Employees /\ attendance[i].in \in Nat
              /\ attendance[i].out \in Nat \cup {Open}
              /\ attendance[i].inEv \in Nat /\ attendance[i].outEv \in Nat
<1>1. attendance \in Seq(AttendanceRecord)
  BY DEF TypeOK
<1>2. /\ Len(attendance) \in Nat /\ DOMAIN attendance = 1 .. Len(attendance)
      /\ \A i \in DOMAIN attendance : attendance[i] \in AttendanceRecord
  BY <1>1
<1>3. Ids \cup {NoEvent} \subseteq Nat
  BY DEF Ids, NoEvent
<1>4. \A r \in AttendanceRecord :
        /\ r.emp \in Employees /\ r.in \in Nat /\ r.out \in Nat \cup {Open}
        /\ r.inEv \in Nat /\ r.outEv \in Nat
  BY <1>3 DEF AttendanceRecord
<1> QED
  BY <1>2, <1>4

(* What closing an attendance and writing its check-out leave in it.       *)
LEMMA AutoClosedFields ==
  ASSUME TypeOK, NEW i \in DOMAIN attendance, NEW reason \in {"new_day", "eod"}
  PROVE  LET t == AutoClosed(i, reason)
         IN  /\ DOMAIN t = DOMAIN attendance
             /\ \A j \in DOMAIN attendance \ {i} : t[j] = attendance[j]
             /\ t[i].emp = attendance[i].emp /\ t[i].in = attendance[i].in
             /\ t[i].inEv = attendance[i].inEv /\ t[i].outEv = attendance[i].outEv
             /\ t[i].src = attendance[i].src
             /\ t[i].auto = reason /\ t[i].out \in Nat /\ t[i].out # Open
<1>1. EndOfDay(Day(attendance[i].in)) \in Nat
  BY DayType, RecordTypes
<1> DEFINE a == attendance[i]
           r == [a EXCEPT !.out = EndOfDay(Day(a.in)), !.auto = reason]
<1>2. /\ r.emp = a.emp /\ r.in = a.in /\ r.inEv = a.inEv /\ r.outEv = a.outEv
      /\ r.src = a.src /\ r.auto = reason /\ r.out = EndOfDay(Day(a.in))
  BY RecordTypes DEF AttendanceRecord
<1>3. AutoClosed(i, reason) = [attendance EXCEPT ![i] = r]
  BY DEF AutoClosed
<1> HIDE DEF r
<1> QED
  BY <1>1, <1>2, <1>3, RecordTypes DEF Open

LEMMA CheckedOutFields ==
  ASSUME TypeOK, pc \in RowStates, NEW i \in DOMAIN attendance
  PROVE  LET t == CheckedOut(i)
         IN  /\ DOMAIN t = DOMAIN attendance
             /\ \A j \in DOMAIN attendance \ {i} : t[j] = attendance[j]
             /\ t[i].emp = attendance[i].emp /\ t[i].in = attendance[i].in
             /\ t[i].inEv = attendance[i].inEv /\ t[i].outEv = cur
             /\ t[i].auto = attendance[i].auto
             /\ t[i].out = rows[cur].at /\ t[i].out # Open
<1> DEFINE a == attendance[i]
           r == [a EXCEPT !.out = rows[cur].at, !.outEv = cur, !.src = "biometric"]
<1>1. /\ r.emp = a.emp /\ r.in = a.in /\ r.inEv = a.inEv /\ r.outEv = cur
      /\ r.auto = a.auto /\ r.out = rows[cur].at
  BY RecordTypes DEF AttendanceRecord
<1>2. CheckedOut(i) = [attendance EXCEPT ![i] = r]
  BY DEF CheckedOut
<1> HIDE DEF r
<1> QED
  BY <1>1, <1>2, RecordTypes, CurrentRow DEF Open

LEMMA AppendedFields ==
  ASSUME TypeOK, NEW r
  PROVE  LET t == Append(attendance, r)
         IN  /\ Len(t) = Len(attendance) + 1
             /\ DOMAIN t = DOMAIN attendance \cup {Len(attendance) + 1}
             /\ Len(attendance) + 1 \notin DOMAIN attendance
             /\ \A j \in DOMAIN attendance : t[j] = attendance[j]
             /\ t[Len(attendance) + 1] = r
BY DEF TypeOK

(* The attendance the worker holds is in the table.                        *)
LEMMA HeldIsThere ==
  ASSUME TypeOK, pc \in HoldingStates PROVE held \in DOMAIN attendance
BY DEF TypeOK, NoAttendance

(* Steps that leave the table and do not lead to a state that acts on it.  *)
LEMMA CalmHold ==
  ASSUME HoldInv, TypeOK', attendance' = attendance,
         pc' \notin SpecialStates \cup CloseStates
  PROVE  HoldInv'
BY DEF HoldInv, TypeOK, SpecialStates, CloseStates, Unended

(* What the worker holds, ends and flags stays as HoldInv says in every    *)
(* step, whatever others do to the attendance between two of its calls.    *)
LEMMA HoldStep == ASSUME TypeOK, HoldInv, [Next]_vars PROVE HoldInv'
<1> USE DEF NoAttendance
<1>typ. TypeOK'
  BY TypeStep
<1>rec. /\ Len(attendance) \in Nat /\ DOMAIN attendance = 1 .. Len(attendance)
        /\ closing \subseteq DOMAIN attendance
        /\ pc \in SpecialStates => held \in DOMAIN attendance
  BY RecordTypes DEF TypeOK, SpecialStates, HoldingStates
<1>pcs. /\ RowStates = {"row", "toggle", "newDay", "newDayFlag", "checkOut",
                        "checkIn", "markOut", "markIn", "fault", "advance"}
        /\ CloseStates = {"closing", "closingFlag"}
        /\ SpecialStates = {"newDay", "newDayFlag", "checkOut", "markIn", "markOut",
                            "closingFlag"}
  BY DEF RowStates, ToggleStates, CloseStates, SpecialStates
<1>1. CASE StartCycle \/ SkipStaged \/ StagePending \/ FlagNewDay \/ StageError
           \/ ErrorNotUnique \/ AdvanceCursor \/ SkipClose \/ RecordClose \/ Reconcile
           \/ CallFails \/ CycleLost
  <2>1. attendance' = attendance /\ pc' \notin SpecialStates \cup CloseStates
    BY <1>1, <1>pcs
    DEF StartCycle, SkipStaged, StagePending, FlagNewDay, FlagCheckIn, StageError, Upsert,
        ErrorNotUnique, AdvanceCursor, NextRow, SkipClose, RecordClose, Reconcile, CallFails,
        CycleLost, Forget, odoo
  <2> QED
    BY <2>1, <1>typ, CalmHold
<1>2. CASE StageRefused \/ StageDuplicate \/ MarkCheckOut \/ MarkCheckIn
  <2>1. attendance' = attendance /\ pc' \notin SpecialStates \cup CloseStates
    BY <1>2, <1>pcs DEF StageRefused, StageDuplicate, MarkCheckOut, MarkCheckIn, MarkEvent,
       Upsert, RowDone
  <2> QED
    BY <2>1, <1>typ, CalmHold
<1>3. CASE FindOpen
  <2>1. attendance' = attendance /\ closing' = closing /\ pc = "toggle"
    BY <1>3 DEF FindOpen, odoo
  <2>2. \/ pc' = "checkIn"
        \/ pc' \in {"newDay", "checkOut"} /\ held' \in OpenOf(rows[cur].emp)
    BY <1>3 DEF FindOpen
  <2>3. \A a \in OpenOf(rows[cur].emp) : Unended(a)
    BY DEF OpenOf, HoldInv
  <2>4. closing = {}
    BY <2>1, <1>pcs DEF TypeOK
  <2> QED
    BY <2>1, <2>2, <2>3, <2>4 DEF HoldInv, Unended
<1>4. CASE CloseBeforeNewDay
  <2>1. pc = "newDay" /\ held \in DOMAIN attendance
    BY <1>4, <1>rec, <1>pcs DEF CloseBeforeNewDay
  <2>2. closing = {} /\ closing' = closing
    BY <2>1, <1>4, <1>pcs DEF TypeOK, CloseBeforeNewDay, WriteAttendance
  <2>3. CASE attendance' = attendance /\ pc' = "fault"
    BY <2>3, <1>pcs, <1>typ, CalmHold
  <2>4. CASE /\ attendance' = AutoClosed(held, "new_day")
             /\ pc' = "newDayFlag" /\ held' = held
    <3>1. \A i \in DOMAIN attendance' : attendance'[i].out = Open => Unended(i)'
      BY <2>1, <2>4, AutoClosedFields DEF HoldInv, Unended
    <3>2. attendance'[held'].auto # "no"
      BY <2>1, <2>4, AutoClosedFields
    <3> QED
      BY <2>2, <2>4, <3>1, <3>2 DEF HoldInv
  <2> QED
    BY <1>4, <2>3, <2>4 DEF CloseBeforeNewDay, WriteAttendance
<1>5. CASE WriteCheckOut
  <2>1. pc = "checkOut" /\ held \in DOMAIN attendance /\ pc \in RowStates
    BY <1>5, <1>rec, <1>pcs DEF WriteCheckOut
  <2>2. closing = {} /\ closing' = closing /\ rows' = rows /\ cur' = cur
    BY <2>1, <1>5, <1>pcs DEF TypeOK, WriteCheckOut, WriteAttendance, environment
  <2>3. CASE attendance' = attendance /\ pc' = "fault"
    BY <2>3, <1>pcs, <1>typ, CalmHold
  <2>4. CASE /\ attendance' = CheckedOut(held)
             /\ pc' = "markOut" /\ held' = held
    <3>1. \A i \in DOMAIN attendance' : attendance'[i].out = Open => Unended(i)'
      BY <2>1, <2>4, CheckedOutFields DEF HoldInv, Unended
    <3>2. attendance'[held'].outEv = cur' /\ attendance'[held'].out = rows'[cur'].at
      BY <2>1, <2>2, <2>4, CheckedOutFields
    <3> QED
      BY <2>2, <2>4, <3>1, <3>2 DEF HoldInv
  <2> QED
    BY <1>5, <2>3, <2>4 DEF WriteCheckOut, WriteAttendance
<1>6. CASE CreateCheckIn
  <2> DEFINE r == [emp |-> rows[cur].emp, in |-> rows[cur].at, out |-> Open,
                   inEv |-> cur, outEv |-> NoEvent, src |-> "biometric", auto |-> "no"]
             table == Append(attendance, r)
  <2>1. pc = "checkIn" /\ WriteAttendance(table, Len(table), "markIn", Len(table))
    BY <1>6 DEF CreateCheckIn
  <2>2. closing = {} /\ closing' = closing /\ rows' = rows /\ cur' = cur
    BY <2>1, <1>pcs DEF TypeOK, WriteAttendance, environment
  <2>3. CASE attendance' = attendance /\ pc' = "fault"
    BY <2>3, <1>pcs, <1>typ, CalmHold
  <2>4. CASE attendance' = table /\ pc' = "markIn" /\ held' = Len(table)
    <3>1. \A i \in DOMAIN attendance' : attendance'[i].out = Open => Unended(i)'
      BY <2>4, AppendedFields DEF HoldInv, Unended
    <3>2. attendance'[held'].inEv = cur' /\ attendance'[held'].in = rows'[cur'].at
      BY <2>2, <2>4, AppendedFields
    <3> HIDE DEF table
    <3> QED
      BY <2>2, <2>4, <3>1, <3>2 DEF HoldInv
  <2> HIDE DEF table
  <2> QED
    BY <2>1, <2>3, <2>4 DEF WriteAttendance
<1>7. CASE StartClose
  <2>1. attendance' = attendance /\ pc' = "closing" /\ closing' = DueForClose
    BY <1>7 DEF StartClose, odoo
  <2>2. \A i \in DueForClose : Unended(i)
    BY DEF DueForClose, HoldInv
  <2> QED
    BY <2>1, <2>2 DEF HoldInv, Unended
<1>8. CASE CloseOne
  <2>1. PICK i \in closing :
          \/ /\ attendance' = AutoClosed(i, "eod") /\ held' = i /\ pc' = "closingFlag"
             /\ closing' = closing
          \/ Forget /\ attendance' = attendance
    BY <1>8 DEF CloseOne
  <2>2. pc = "closing" /\ i \in DOMAIN attendance
    BY <1>8, <1>rec DEF CloseOne
  <2>3. CASE Forget /\ attendance' = attendance
    BY <2>3, <1>pcs, <1>typ, CalmHold DEF Forget
  <2>4. CASE /\ attendance' = AutoClosed(i, "eod") /\ held' = i /\ pc' = "closingFlag"
             /\ closing' = closing
    <3>1. \A j \in DOMAIN attendance' : attendance'[j].out = Open => Unended(j)'
      BY <2>2, <2>4, AutoClosedFields DEF HoldInv, Unended
    <3>2. \A j \in closing : j # i => Unended(j)'
      BY <2>2, <2>4, <1>rec, AutoClosedFields DEF HoldInv, Unended
    <3>3. attendance'[held'].auto # "no"
      BY <2>2, <2>4, AutoClosedFields
    <3> QED
      BY <2>4, <3>1, <3>2, <3>3 DEF HoldInv
  <2> QED
    BY <2>1, <2>3, <2>4
<1>9. CASE FlagClosed
  <2>1. /\ attendance' = attendance /\ closing' = closing \ {held} /\ pc' = "closing"
    BY <1>9 DEF FlagClosed, FlagCheckIn
  <2> QED
    BY <2>1 DEF HoldInv, Unended
<1>10. CASE Tick \/ UNCHANGED vars
  <2>1. UNCHANGED <<attendance, closing, pc, held, cur, rows>>
    BY <1>10 DEF Tick, odoo, local, vars
  <2> QED
    BY <2>1 DEF HoldInv, Unended
<1>11. ASSUME NEW id \in Ids, NEW q \in Punches, CommitRow(id, q) PROVE HoldInv'
  <2>1. UNCHANGED <<attendance, closing, pc, held, cur>>
    BY <1>11 DEF CommitRow, odoo, local
  <2>2. pc \in {"markIn", "markOut"} => rows'[cur] = rows[cur]
    BY <1>11, <1>pcs DEF CommitRow, TypeOK, Committed
  <2> QED
    BY <2>1, <2>2 DEF HoldInv, Unended
<1>12. ASSUME NEW e \in Employees, OtherCheckIn(e) PROVE HoldInv'
  <2> DEFINE r == [emp |-> e, in |-> now, out |-> Open, inEv |-> NoEvent,
                   outEv |-> NoEvent, src |-> "other", auto |-> "no"]
  <2>1. /\ attendance' = Append(attendance, r)
        /\ UNCHANGED <<closing, pc, held, cur, rows>>
    BY <1>12 DEF OtherCheckIn, OdooEdit, local
  <2>2. \A i \in DOMAIN attendance' : attendance'[i].out = Open => Unended(i)'
    BY <2>1, AppendedFields DEF HoldInv, Unended
  <2>3. \A i \in DOMAIN attendance : attendance'[i] = attendance[i]
    BY <2>1, AppendedFields
  <2> HIDE DEF r
  <2> QED
    BY <2>1, <2>2, <2>3, <1>rec, <1>pcs DEF HoldInv, Unended
<1>13. ASSUME NEW i \in DOMAIN attendance, OtherCheckOut(i) PROVE HoldInv'
  <2>1. /\ attendance' = [attendance EXCEPT ![i].out = now] /\ attendance[i].out = Open
        /\ UNCHANGED <<closing, pc, held, cur, rows>>
    BY <1>13 DEF OtherCheckOut, OdooEdit, local
  <2>2. /\ DOMAIN attendance' = DOMAIN attendance
        /\ \A j \in DOMAIN attendance \ {i} : attendance'[j] = attendance[j]
        /\ attendance'[i].inEv = attendance[i].inEv /\ attendance'[i].in = attendance[i].in
        /\ attendance'[i].outEv = attendance[i].outEv
        /\ attendance'[i].auto = attendance[i].auto
    BY <2>1, RecordTypes DEF AttendanceRecord
  <2>3. pc = "markOut" => held # i
    BY <2>1, <1>pcs, CurrentRow DEF HoldInv, Open
  <2>4. Unended(i)'
    BY <2>1, <2>2 DEF HoldInv, Unended
  <2> QED
    BY <2>1, <2>2, <2>3, <2>4, <1>rec, <1>pcs DEF HoldInv, Unended
<1> QED
  BY <1>1, <1>2, <1>3, <1>4, <1>5, <1>6, <1>7, <1>8, <1>9, <1>10, <1>11, <1>12, <1>13
  DEF Next, WorkerStep

LEMMA HoldInit == ASSUME Init PROVE HoldInv
<1>1. attendance = <<>> /\ pc = "idle" /\ closing = {}
  BY DEF Init
<1>2. DOMAIN attendance = {}
  BY <1>1
<1> QED
  BY <1>1, <1>2 DEF HoldInv

(***************************************************************************)
(* What the steps do to the table of the attendances and to the events.    *)
(***************************************************************************)
NewCheckIn == Append(attendance,
  [emp |-> rows[cur].emp, in |-> rows[cur].at, out |-> Open, inEv |-> cur,
   outEv |-> NoEvent, src |-> "biometric", auto |-> "no"])

OtherNewCheckIn(e) == Append(attendance,
  [emp |-> e, in |-> now, out |-> Open, inEv |-> NoEvent, outEv |-> NoEvent,
   src |-> "other", auto |-> "no"])

(* The worker closes, checks out or creates an attendance.                 *)
CloseWrite(i) ==
  /\ (pc = "newDay" /\ i = held) \/ (pc = "closing" /\ i \in closing)
  /\ \E reason \in {"new_day", "eod"} : attendance' = AutoClosed(i, reason)
  /\ OdooAccepts(attendance', i)
  /\ pc' \in {"newDayFlag", "closingFlag"} /\ held' = i
CheckOutWrite ==
  /\ pc = "checkOut" /\ pc' = "markOut" /\ held' = held
  /\ attendance' = CheckedOut(held) /\ OdooAccepts(attendance', held)
CheckInWrite ==
  /\ pc = "checkIn" /\ pc' = "markIn" /\ held' = Len(attendance) + 1
  /\ attendance' = NewCheckIn /\ OdooAccepts(attendance', Len(attendance) + 1)

(* The table changes only by these, and no event changes with it.          *)
LEMMA TableShapes ==
  ASSUME TypeOK, [Next]_vars
  PROVE  \/ attendance' = attendance
         \/ /\ UNCHANGED <<rows, event, cursor, todo, cur, lastClose, closing>>
            /\ \/ \E i \in DOMAIN attendance : CloseWrite(i)
               \/ held \in DOMAIN attendance /\ CheckOutWrite
               \/ CheckInWrite
         \/ /\ UNCHANGED <<rows, event, cursor, todo, cur, lastClose, closing, pc, held>>
            /\ \/ \E e \in Employees :
                    /\ attendance' = OtherNewCheckIn(e)
                    /\ OdooAccepts(attendance', Len(attendance) + 1)
               \/ \E i \in DOMAIN attendance : OtherCheckOut(i)
<1> USE DEF NoAttendance
<1>typ. /\ closing \subseteq DOMAIN attendance
        /\ pc \in {"newDay", "checkOut"} => held \in DOMAIN attendance
  BY DEF TypeOK, HoldingStates
<1>len. \A r : Len(Append(attendance, r)) = Len(attendance) + 1
  BY DEF TypeOK
<1>1. CASE StartCycle \/ SkipStaged \/ StagePending \/ FlagNewDay \/ StageError
           \/ ErrorNotUnique \/ AdvanceCursor \/ SkipClose \/ RecordClose \/ Reconcile
           \/ CallFails \/ CycleLost \/ FindOpen \/ StartClose
  BY <1>1 DEF StartCycle, SkipStaged, StagePending, FlagNewDay, FlagCheckIn, StageError,
     Upsert, ErrorNotUnique, AdvanceCursor, SkipClose, RecordClose, Reconcile, CallFails,
     CycleLost, FindOpen, StartClose, odoo
<1>2. CASE StageRefused \/ StageDuplicate \/ MarkCheckOut \/ MarkCheckIn \/ FlagClosed \/ Tick
           \/ UNCHANGED vars
  BY <1>2 DEF StageRefused, StageDuplicate, MarkCheckOut, MarkCheckIn, MarkEvent, Upsert,
     FlagClosed, FlagCheckIn, Tick, odoo, vars
<1>3. CASE CloseBeforeNewDay
  BY <1>3, <1>typ DEF CloseBeforeNewDay, WriteAttendance, environment, CloseWrite
<1>4. CASE WriteCheckOut
  BY <1>4, <1>typ DEF WriteCheckOut, WriteAttendance, environment, CheckOutWrite
<1>5. CASE CreateCheckIn
  BY <1>5, <1>len DEF CreateCheckIn, WriteAttendance, environment, CheckInWrite, NewCheckIn
<1>6. CASE CloseOne
  <2>1. PICK i \in closing :
          \/ /\ attendance' = AutoClosed(i, "eod") /\ held' = i /\ pc' = "closingFlag"
             /\ UNCHANGED <<todo, cur, closing>> /\ OdooAccepts(AutoClosed(i, "eod"), i)
          \/ attendance' = attendance
    BY <1>6 DEF CloseOne
  <2>2. pc = "closing" /\ UNCHANGED <<rows, cursor, event, lastClose>>
    BY <1>6 DEF CloseOne, environment
  <2> QED
    BY <2>1, <2>2, <1>typ DEF CloseWrite
<1>7. ASSUME NEW id \in Ids, NEW q \in Punches, CommitRow(id, q) PROVE attendance' = attendance
  BY <1>7 DEF CommitRow, odoo
<1>8. ASSUME NEW e \in Employees, OtherCheckIn(e)
      PROVE  /\ UNCHANGED <<rows, event, cursor, todo, cur, lastClose, closing, pc, held>>
             /\ attendance' = OtherNewCheckIn(e)
             /\ OdooAccepts(attendance', Len(attendance) + 1)
  BY <1>8, <1>len DEF OtherCheckIn, OdooEdit, OtherNewCheckIn, local
<1>9. ASSUME NEW i \in DOMAIN attendance, OtherCheckOut(i)
      PROVE  UNCHANGED <<rows, event, cursor, todo, cur, lastClose, closing, pc, held>>
  BY <1>9 DEF OtherCheckOut, OdooEdit, local
<1> QED
  BY <1>1, <1>2, <1>3, <1>4, <1>5, <1>6, <1>7, <1>8, <1>9 DEF Next, WorkerStep

(* No step removes an attendance, gives it to someone else or moves its    *)
(* check-in; one that a punch or a close run has ended never changes.      *)
LEMMA RecordStays ==
  ASSUME TypeOK, HoldInv, [Next]_vars, NEW i \in DOMAIN attendance
  PROVE  /\ i \in DOMAIN attendance'
         /\ attendance'[i].emp = attendance[i].emp /\ attendance'[i].in = attendance[i].in
         /\ attendance'[i].inEv = attendance[i].inEv
         /\ \/ attendance'[i].outEv = attendance[i].outEv
            \/ Unended(i) /\ pc = "checkOut" /\ i = held /\ attendance'[i].outEv = cur
         /\ ~Unended(i) => attendance'[i] = attendance[i]
<1>1. CASE attendance' = attendance
  BY <1>1
<1>2. ASSUME NEW k \in DOMAIN attendance, CloseWrite(k)
      PROVE  /\ Unended(k) /\ DOMAIN attendance' = DOMAIN attendance
             /\ \A j \in DOMAIN attendance \ {k} : attendance'[j] = attendance[j]
             /\ attendance'[k].emp = attendance[k].emp /\ attendance'[k].in = attendance[k].in
             /\ attendance'[k].inEv = attendance[k].inEv
             /\ attendance'[k].outEv = attendance[k].outEv
  BY <1>2, AutoClosedFields DEF CloseWrite, HoldInv
<1>3. ASSUME held \in DOMAIN attendance, CheckOutWrite
      PROVE  /\ Unended(held) /\ DOMAIN attendance' = DOMAIN attendance
             /\ \A j \in DOMAIN attendance \ {held} : attendance'[j] = attendance[j]
             /\ attendance'[held].emp = attendance[held].emp
             /\ attendance'[held].in = attendance[held].in
             /\ attendance'[held].inEv = attendance[held].inEv
             /\ attendance'[held].outEv = cur
  BY <1>3, CheckedOutFields DEF CheckOutWrite, HoldInv, RowStates, ToggleStates
<1>4. ASSUME NEW r, attendance' = Append(attendance, r)
      PROVE  i \in DOMAIN attendance' /\ attendance'[i] = attendance[i]
  BY <1>4, AppendedFields
<1>5. ASSUME NEW k \in DOMAIN attendance, OtherCheckOut(k)
      PROVE  /\ Unended(k) /\ DOMAIN attendance' = DOMAIN attendance
             /\ \A j \in DOMAIN attendance \ {k} : attendance'[j] = attendance[j]
             /\ attendance'[k].emp = attendance[k].emp /\ attendance'[k].in = attendance[k].in
             /\ attendance'[k].inEv = attendance[k].inEv
             /\ attendance'[k].outEv = attendance[k].outEv
  BY <1>5, RecordTypes DEF OtherCheckOut, OdooEdit, HoldInv, AttendanceRecord
<1> QED
  BY <1>1, <1>2, <1>3, <1>4, <1>5, TableShapes
  DEF CheckOutWrite, CheckInWrite, NewCheckIn, OtherNewCheckIn

(* A mark on the event of the check-in of the attendance in hand.          *)
Flagging ==
  /\ pc \in {"newDayFlag", "closingFlag"} /\ held \in DOMAIN attendance
  /\ FlagCheckIn(held)

(* The outcome of the row in hand, once the attendance is written.         *)
Marking(at, st) ==
  /\ pc = at /\ pc' \in {"advance", "fault"} /\ held \in DOMAIN attendance
  /\ event'[cur].status = st /\ event'[cur].att = held
  /\ event'[cur].flagged = event[cur].flagged
  /\ \A o \in Ids \ {cur} : event'[o] = event[o]

(* The row in hand is staged without a toggle.                             *)
Staging(st) ==
  /\ event'[cur].status = st /\ ~event'[cur].flagged
  /\ \A o \in Ids \ {cur} : event'[o] = event[o]
  /\ pc = "row" => seen[cur] \notin Settled
  /\ \/ pc = "row" /\ st \in {"employee_not_found", "denied_ignored", "after_close_review"}
        /\ pc' \in {"advance", "fault"}
        /\ st = IF rows[cur].emp = NoEmployee THEN "employee_not_found"
                ELSE IF ~rows[cur].granted THEN "denied_ignored" ELSE "after_close_review"
     \/ pc = "row" /\ st = "duplicate_ignored" /\ pc' \in {"advance", "fault"}
        /\ ~Refused(rows[cur]) /\ IsDuplicate(rows[cur])
     \/ pc = "row" /\ st = "pending" /\ pc' = "toggle"
        /\ ~Refused(rows[cur]) /\ ~IsDuplicate(rows[cur])
     \/ pc = "fault" /\ st = "error" /\ pc' = "advance"

(* Events change only by these, and no attendance changes with one.        *)
LEMMA EventShapes ==
  ASSUME TypeOK, [Next]_vars
  PROVE  \/ event' = event
         \/ /\ UNCHANGED <<attendance, rows, cursor, lastClose, now, cfgClose>>
            /\ \/ Flagging
               \/ /\ pc \in RowStates /\ cur \in Ids /\ cur' = cur
                  /\ \/ Marking("markIn", "check_in_created")
                     \/ Marking("markOut", "check_out_written")
                     \/ \E st \in Status : Staging(st)
<1> USE DEF NoAttendance
<1>typ. /\ event \in [Ids -> [status : Status, att : Nat, flagged : BOOLEAN]]
        /\ pc \in {"newDayFlag", "closingFlag", "markIn", "markOut"}
           => held \in DOMAIN attendance
        /\ pc \in {"row", "fault", "markIn", "markOut"} => pc \in RowStates /\ cur \in Ids
  BY CurrentRow DEF TypeOK, HoldingStates, RowStates, ToggleStates
<1>1. CASE StartCycle \/ SkipStaged \/ ErrorNotUnique \/ AdvanceCursor \/ SkipClose
           \/ RecordClose \/ Reconcile \/ CallFails \/ CycleLost \/ FindOpen \/ StartClose
           \/ CloseBeforeNewDay \/ WriteCheckOut \/ CreateCheckIn \/ CloseOne \/ Tick
           \/ UNCHANGED vars
  BY <1>1 DEF StartCycle, SkipStaged, ErrorNotUnique, AdvanceCursor, SkipClose, RecordClose,
     Reconcile, CallFails, CycleLost, FindOpen, StartClose, CloseBeforeNewDay,
     WriteCheckOut, CreateCheckIn, WriteAttendance, CloseOne, Tick, odoo, vars
<1>2. CASE FlagNewDay \/ FlagClosed
  BY <1>2, <1>typ DEF FlagNewDay, FlagClosed, FlagCheckIn, Flagging, environment
<1>3. CASE MarkCheckOut
  <2>1. /\ pc = "markOut" /\ RowDone
        /\ event' = [event EXCEPT ![cur].status = "check_out_written", ![cur].att = held]
        /\ UNCHANGED <<cursor, attendance, lastClose>>
    BY <1>3 DEF MarkCheckOut, MarkEvent
  <2>2. UNCHANGED <<rows, now, cur, cfgClose>> /\ pc' \in {"advance", "fault"}
    BY <2>1 DEF RowDone
  <2>3. Marking("markOut", "check_out_written")
    BY <2>1, <2>2, <1>typ DEF Marking
  <2> QED
    BY <2>1, <2>2, <2>3, <1>typ
<1>4. CASE MarkCheckIn
  <2>1. /\ pc = "markIn" /\ RowDone
        /\ event' = [event EXCEPT ![cur].status = "check_in_created", ![cur].att = held]
        /\ UNCHANGED <<cursor, attendance, lastClose>>
    BY <1>4 DEF MarkCheckIn, MarkEvent
  <2>2. UNCHANGED <<rows, now, cur, cfgClose>> /\ pc' \in {"advance", "fault"}
    BY <2>1 DEF RowDone
  <2>3. Marking("markIn", "check_in_created")
    BY <2>1, <2>2, <1>typ DEF Marking
  <2> QED
    BY <2>1, <2>2, <2>3, <1>typ
<1>up. ASSUME NEW st, NEW a, Upsert(cur, st, a), cur \in Ids
       PROVE  /\ event'[cur].status = st /\ ~event'[cur].flagged
              /\ \A o \in Ids \ {cur} : event'[o] = event[o]
              /\ UNCHANGED <<cursor, attendance, lastClose>>
  BY <1>up, <1>typ DEF Upsert
<1>st. /\ "employee_not_found" \in Status /\ "denied_ignored" \in Status
       /\ "after_close_review" \in Status /\ "duplicate_ignored" \in Status
       /\ "pending" \in Status /\ "error" \in Status
  BY DEF Status, Final, Settled
<1>5. CASE StageRefused
  <2> DEFINE st == IF rows[cur].emp = NoEmployee THEN "employee_not_found"
                   ELSE IF ~rows[cur].granted THEN "denied_ignored" ELSE "after_close_review"
  <2>1. pc = "row" /\ seen[cur] \notin Settled /\ Upsert(cur, st, NoAttendance) /\ RowDone
    BY <1>5 DEF StageRefused
  <2>2. UNCHANGED <<rows, now, cur, cfgClose>> /\ pc' \in {"advance", "fault"}
    BY <2>1 DEF RowDone
  <2>3. st \in {"employee_not_found", "denied_ignored", "after_close_review"}
    OBVIOUS
  <2>4. st \in Status
    BY <2>3, <1>st
  <2>5. /\ event'[cur].status = st /\ ~event'[cur].flagged
        /\ \A o \in Ids \ {cur} : event'[o] = event[o]
        /\ UNCHANGED <<cursor, attendance, lastClose>>
    <3> HIDE DEF st
    <3> QED
      BY <2>1, <1>up, <1>typ
  <2>6. Staging(st)
    BY <2>1, <2>2, <2>3, <2>5 DEF Staging
  <2> HIDE DEF st
  <2> QED
    BY <2>1, <2>2, <2>4, <2>5, <2>6, <1>typ
<1>6. CASE StageDuplicate
  <2>1. PICK a : /\ pc = "row" /\ Upsert(cur, "duplicate_ignored", a) /\ RowDone
                 /\ ~Refused(rows[cur]) /\ IsDuplicate(rows[cur]) /\ seen[cur] \notin Settled
    BY <1>6 DEF StageDuplicate
  <2>2. UNCHANGED <<rows, now, cur, cfgClose>> /\ pc' \in {"advance", "fault"}
    BY <2>1 DEF RowDone
  <2>3. Staging("duplicate_ignored") /\ UNCHANGED <<cursor, attendance, lastClose>>
    BY <2>1, <2>2, <1>up, <1>typ DEF Staging
  <2> QED
    BY <2>1, <2>2, <2>3, <1>typ, <1>st
<1>7. CASE StagePending
  <2>1. /\ pc = "row" /\ pc' = "toggle" /\ Upsert(cur, "pending", NoAttendance)
        /\ ~Refused(rows[cur]) /\ ~IsDuplicate(rows[cur]) /\ seen[cur] \notin Settled
        /\ UNCHANGED <<rows, now, cur, cfgClose>>
    BY <1>7 DEF StagePending, environment, local
  <2>2. Staging("pending") /\ UNCHANGED <<cursor, attendance, lastClose>>
    BY <2>1, <1>up, <1>typ DEF Staging
  <2> QED
    BY <2>1, <2>2, <1>typ, <1>st
<1>8. CASE StageError
  <2>1. /\ pc = "fault" /\ pc' = "advance" /\ Upsert(cur, "error", NoAttendance)
        /\ UNCHANGED <<rows, now, cur, cfgClose>>
    BY <1>8 DEF StageError, environment, local
  <2>2. Staging("error") /\ UNCHANGED <<cursor, attendance, lastClose>>
    BY <2>1, <1>up, <1>typ DEF Staging
  <2> QED
    BY <2>1, <2>2, <1>typ, <1>st
<1>9. ASSUME NEW id \in Ids, NEW q \in Punches, CommitRow(id, q) PROVE event' = event
  BY <1>9 DEF CommitRow, odoo
<1>10. ASSUME NEW e \in Employees, OtherCheckIn(e) PROVE event' = event
  BY <1>10 DEF OtherCheckIn, OdooEdit
<1>11. ASSUME NEW i \in DOMAIN attendance, OtherCheckOut(i) PROVE event' = event
  BY <1>11 DEF OtherCheckOut, OdooEdit
<1> QED
  BY <1>1, <1>2, <1>3, <1>4, <1>5, <1>6, <1>7, <1>8, <1>9, <1>10, <1>11 DEF Next, WorkerStep

LEMMA HoldInvariant == Spec => [](TypeOK /\ HoldInv)
<1> DEFINE Inv == TypeOK /\ HoldInv
<1>1. Init => Inv
  BY TypeInit, HoldInit
<1>2. Inv /\ [Next]_vars => Inv'
  BY TypeStep, HoldStep
<1> QED
  BY <1>1, <1>2, PTL DEF Spec

(* A check-out that a punch or a close run wrote is never overwritten, by  *)
(* a retry of the row, by a later punch or by an edit in Odoo, wherever a  *)
(* crash or a failed call separates finding the attendance from writing it.*)
THEOREM CheckOutsAreFinal == Spec => WorkerCheckOutIsFinal
<1>1. ASSUME TypeOK, HoldInv, [Next]_vars, NEW i \in DOMAIN attendance,
             attendance[i].out # Open, attendance[i].outEv # NoEvent \/ attendance[i].auto # "no"
      PROVE  attendance'[i] = attendance[i]
  BY <1>1, RecordStays DEF Unended
<1>2. TypeOK /\ HoldInv /\ [Next]_vars =>
        [\A i \in DOMAIN attendance :
           /\ attendance[i].out # Open
           /\ attendance[i].outEv # NoEvent \/ attendance[i].auto # "no"
           => attendance'[i] = attendance[i]]_vars
  BY <1>1
<1> QED
  BY <1>2, HoldInvariant, PTL DEF Spec, WorkerCheckOutIsFinal

LEMMA DateStep == ASSUME TypeOK, DateInv, [Next]_vars PROVE DateInv'
<1>pcs. RowStates = {"row", "toggle", "newDay", "newDayFlag", "checkOut",
                     "checkIn", "markOut", "markIn", "fault", "advance"}
  BY DEF RowStates, ToggleStates
<1>1. CASE StartCycle \/ RecordClose \/ Reconcile \/ ErrorNotUnique \/ CycleLost \/ CloseOne
           \/ StartClose \/ SkipClose \/ FlagClosed
  BY <1>1, <1>pcs DEF StartCycle, NextRow, RecordClose, Reconcile, ErrorNotUnique, CycleLost,
     CloseOne, StartClose, SkipClose, FlagClosed, Forget, odoo, DateInv
<1>2. CASE SkipStaged \/ StageRefused \/ StageDuplicate \/ StagePending \/ FindOpen
           \/ CloseBeforeNewDay \/ FlagNewDay \/ WriteCheckOut \/ CreateCheckIn
           \/ MarkCheckOut \/ MarkCheckIn \/ StageError \/ AdvanceCursor \/ CallFails
  <2>1. pc \in RowStates /\ UNCHANGED <<cfgClose, lastClose>>
    BY <1>2, <1>pcs DEF SkipStaged, StageRefused, StageDuplicate, StagePending, FindOpen,
       CloseBeforeNewDay, FlagNewDay, FlagCheckIn, WriteCheckOut, CreateCheckIn,
       WriteAttendance, MarkCheckOut, MarkCheckIn, MarkEvent, StageError, AdvanceCursor,
       CallFails, Upsert, RowDone, odoo, local
  <2> QED
    BY <2>1 DEF DateInv
<1>3. CASE Tick \/ UNCHANGED vars
  BY <1>3 DEF Tick, odoo, local, vars, DateInv
<1>4. ASSUME NEW id \in Ids, NEW q \in Punches, CommitRow(id, q) PROVE DateInv'
  BY <1>4 DEF CommitRow, odoo, local, DateInv
<1>5. ASSUME NEW e \in Employees, OtherCheckIn(e) PROVE DateInv'
  BY <1>5 DEF OtherCheckIn, OdooEdit, local, DateInv
<1>6. ASSUME NEW i \in DOMAIN attendance, OtherCheckOut(i) PROVE DateInv'
  BY <1>6 DEF OtherCheckOut, OdooEdit, local, DateInv
<1> QED
  BY <1>1, <1>2, <1>3, <1>4, <1>5, <1>6 DEF Next, WorkerStep

LEMMA DateInvariant == Spec => [](TypeOK /\ DateInv)
<1> DEFINE Inv == TypeOK /\ DateInv
<1>1. Init => Inv
  BY TypeInit DEF Init, DateInv, RowStates, ToggleStates
<1>2. Inv /\ [Next]_vars => Inv'
  BY TypeStep, DateStep
<1> QED
  BY <1>1, <1>2, PTL DEF Spec

(* A punch of a past day that has been closed is not let through to the    *)
(* toggle, although the worker read the date of the last close run when    *)
(* its cycle began.                                                        *)
THEOREM LatePunchesHeldBack == Spec => LatePunchNotToggled
<1>1. ASSUME TypeOK, DateInv, [Next]_vars, NEW id \in Ids,
             event'[id].status = "pending", event[id].status # "pending"
      PROVE  ~(Day(rows[id].at) <= lastClose /\ Day(rows[id].at) < Day(now))
  <2>1. /\ id = cur /\ pc \in RowStates /\ ~Refused(rows[cur])
    <3>1. event' # event
      BY <1>1
    <3>2. ~Flagging
      BY <1>1, FlagType DEF Flagging
    <3> QED
      BY <1>1, <3>1, <3>2, EventShapes DEF Marking, Staging
  <2>2. cfgClose = lastClose /\ ~AfterClose(rows[cur])
    BY <1>1, <2>1 DEF DateInv, Refused
  <2>3. Day(rows[cur].at) \in Nat
    BY <1>1, <2>1, CurrentRow, DayType
  <2> QED
    BY <2>1, <2>2, <2>3 DEF AfterClose, NoDate
<1>2. TypeOK /\ DateInv /\ [Next]_vars =>
        [\A id \in Ids :
           /\ event'[id].status = "pending" /\ event[id].status # "pending"
           => ~(Day(rows[id].at) <= lastClose /\ Day(rows[id].at) < Day(now))]_vars
  BY <1>1
<1> QED
  BY <1>2, DateInvariant, PTL DEF Spec, LatePunchNotToggled

(* Only a committed row is staged.                                         *)
StagedInv == \A id \in Ids : event[id].status # "none" => id \in Committed

(* A committed row never changes.                                          *)
LEMMA RowsStay ==
  ASSUME TypeOK, [Next]_vars, NEW id \in Committed
  PROVE  id \in Committed' /\ rows'[id] = rows[id]
<1>1. CASE rows' = rows
  BY <1>1 DEF Committed
<1>2. CASE CommitStep
  BY <1>2 DEF CommitStep, CommitRow, Committed, TypeOK
<1> QED
  BY <1>1, <1>2, StepShapes DEF QuietStep, OutcomeStep, PendingStep, EndStep, StartCycle,
     AdvanceCursor, environment

LEMMA StagedStep == ASSUME TypeOK, StagedInv, [Next]_vars PROVE StagedInv'
<1> SUFFICES ASSUME NEW id \in Ids, event'[id].status # "none" PROVE id \in Committed'
  BY DEF StagedInv
<1>1. CASE event[id].status # "none"
  BY <1>1, RowsStay DEF StagedInv
<1>2. CASE event[id].status = "none"
  <2>1. ~Flagging
    BY <1>2, FlagType DEF Flagging
  <2>2. pc \in RowStates /\ id = cur
    BY <1>2, <2>1, EventShapes DEF Marking, Staging
  <2> QED
    BY <2>2, RowsStay DEF TypeOK
<1> QED
  BY <1>1, <1>2

LEMMA MatchStep ==
  ASSUME TypeOK, HoldInv, StagedInv, OutcomeMatchesAttendance, [Next]_vars
  PROVE  OutcomeMatchesAttendance'
<1> SUFFICES ASSUME NEW id \in Ids, event'[id].status \in Accepted
             PROVE  LET a == event'[id].att
                    IN  /\ a \in DOMAIN attendance'
                        /\ event'[id].status = "check_in_created" =>
                             attendance'[a].inEv = id /\ attendance'[a].in = rows'[id].at
                        /\ event'[id].status = "check_out_written" =>
                             attendance'[a].outEv = id /\ attendance'[a].out = rows'[id].at
  BY DEF OutcomeMatchesAttendance, Accepted
<1>1. CASE event'[id].status = event[id].status /\ event'[id].att = event[id].att
  <2> DEFINE a == event[id].att
  <2>1. id \in Committed /\ rows'[id] = rows[id]
    BY <1>1, RowsStay DEF StagedInv, Accepted
  <2>2. /\ a \in DOMAIN attendance
        /\ event[id].status = "check_in_created" =>
             attendance[a].inEv = id /\ attendance[a].in = rows[id].at
        /\ event[id].status = "check_out_written" =>
             attendance[a].outEv = id /\ attendance[a].out = rows[id].at
    BY <1>1 DEF OutcomeMatchesAttendance, Accepted
  <2>3. event[id].status = "check_out_written" => ~Unended(a)
    BY <2>2 DEF Unended, NoEvent, Ids
  <2> QED
    BY <1>1, <2>1, <2>2, <2>3, RecordStays
<1>2. CASE ~(event'[id].status = event[id].status /\ event'[id].att = event[id].att)
  <2>1. ~Flagging
    <3>1. Flagging => event'[id].status = event[id].status /\ event'[id].att = event[id].att
      BY DEF Flagging, FlagCheckIn, TypeOK
    <3> QED
      BY <1>2, <3>1
  <2>2. /\ id = cur /\ UNCHANGED <<attendance, rows>>
        /\ Marking("markIn", "check_in_created") \/ Marking("markOut", "check_out_written")
    BY <1>2, <2>1, EventShapes DEF Marking, Staging, Accepted
  <2> QED
    BY <2>2 DEF Marking, HoldInv
<1> QED
  BY <1>1, <1>2

LEMMA FlaggedStep ==
  ASSUME TypeOK, HoldInv, FlaggedIsAutoClosed, [Next]_vars PROVE FlaggedIsAutoClosed'
<1> SUFFICES ASSUME NEW id \in Ids, event'[id].flagged
             PROVE  \E i \in DOMAIN attendance' :
                      attendance'[i].inEv = id /\ attendance'[i].auto # "no"
  BY DEF FlaggedIsAutoClosed
<1>1. CASE event[id].flagged
  <2>1. PICK i \in DOMAIN attendance : attendance[i].inEv = id /\ attendance[i].auto # "no"
    BY <1>1 DEF FlaggedIsAutoClosed
  <2>2. i \in DOMAIN attendance' /\ attendance'[i] = attendance[i]
    BY <2>1, RecordStays DEF Unended
  <2> QED
    BY <2>1, <2>2
<1>2. CASE ~event[id].flagged
  <2>1. Flagging /\ attendance' = attendance
    BY <1>2, EventShapes DEF Marking, Staging
  <2>2. attendance[held].inEv = id
    BY <1>2, <2>1 DEF Flagging, FlagCheckIn, TypeOK
  <2> QED
    BY <2>1, <2>2 DEF Flagging, HoldInv
<1> QED
  BY <1>1, <1>2

LEMMA OutcomeInvariant ==
  Spec => [](TypeOK /\ HoldInv /\ StagedInv /\ OutcomeMatchesAttendance /\ FlaggedIsAutoClosed)
<1> DEFINE Inv == TypeOK /\ HoldInv /\ StagedInv /\ OutcomeMatchesAttendance
                  /\ FlaggedIsAutoClosed
<1>1. Init => Inv
  <2>1. ASSUME Init PROVE StagedInv /\ OutcomeMatchesAttendance /\ FlaggedIsAutoClosed
    BY <2>1 DEF Init, Unstaged, StagedInv, OutcomeMatchesAttendance, FlaggedIsAutoClosed
  <2> QED
    BY <2>1, TypeInit, HoldInit
<1>2. Inv /\ [Next]_vars => Inv'
  BY TypeStep, HoldStep, StagedStep, MatchStep, FlaggedStep
<1> QED
  BY <1>1, <1>2, PTL DEF Spec

(* An accepted event names the attendance that carries its punch, at the   *)
(* punch's own time, for ever: attendance_id is written after it, and no   *)
(* retry, later punch, close run or edit takes the punch away again.       *)
THEOREM AcceptedCarryTheirPunch == Spec => []OutcomeMatchesAttendance
BY OutcomeInvariant, PTL

(* An event marked attendance_auto_closed opened an attendance that the    *)
(* worker closed: the mark is a second call, made after the attendance.    *)
THEOREM FlaggedWereClosed == Spec => []FlaggedIsAutoClosed
BY OutcomeInvariant, PTL

LEMMA ToggleStep == ASSUME TypeOK, ToggleInv, [Next]_vars PROVE ToggleInv'
<1> USE DEF NoAttendance
<1>typ. TypeOK'
  BY TypeStep
<1>pcs. /\ RowStates = ToggleStates \cup {"row", "fault", "advance"}
        /\ ToggleStates = {"toggle", "newDay", "newDayFlag", "checkOut", "checkIn",
                           "markOut", "markIn"}
        /\ HoldingStates = {"newDay", "newDayFlag", "checkOut", "markOut", "markIn",
                            "closingFlag"}
  BY DEF RowStates, ToggleStates, HoldingStates
<1>row. pc \in ToggleStates => cur \in Committed /\ rows'[cur] = rows[cur]
  BY RowsStay, <1>pcs DEF TypeOK
<1>1. CASE pc' \notin ToggleStates
  BY <1>1 DEF ToggleInv
<1>2. CASE StagePending
  <2>1. pc = "row" /\ pc' = "toggle" /\ UNCHANGED <<rows, cur>> /\ rows[cur].granted
    BY <1>2 DEF StagePending, Refused, environment, local
  <2>2. held' = 0
    BY <2>1, <1>typ, <1>pcs DEF TypeOK
  <2> QED
    BY <2>1, <2>2 DEF ToggleInv
<1>3. CASE FindOpen
  <2>1. pc = "toggle" /\ UNCHANGED <<rows, cur, attendance>>
    BY <1>3 DEF FindOpen, odoo, environment
  <2>2. held' # 0 => attendance[held'].emp = rows[cur].emp
    BY <1>3 DEF FindOpen, OpenOf
  <2> QED
    BY <2>1, <2>2, <1>pcs DEF ToggleInv
<1>4. CASE CloseBeforeNewDay
  <2>1. pc = "newDay" /\ held \in DOMAIN attendance /\ UNCHANGED <<rows, cur>>
    BY <1>4, <1>pcs DEF CloseBeforeNewDay, WriteAttendance, environment, TypeOK
  <2>2. \/ pc' = "fault"
        \/ attendance' = AutoClosed(held, "new_day") /\ held' = held
    BY <1>4 DEF CloseBeforeNewDay, WriteAttendance
  <2> QED
    BY <2>1, <2>2, <1>pcs, AutoClosedFields DEF ToggleInv
<1>5. CASE WriteCheckOut
  <2>1. pc = "checkOut" /\ held \in DOMAIN attendance /\ UNCHANGED <<rows, cur>>
    BY <1>5, <1>pcs DEF WriteCheckOut, WriteAttendance, environment, TypeOK
  <2>2. \/ pc' = "fault"
        \/ attendance' = CheckedOut(held) /\ held' = held
    BY <1>5 DEF WriteCheckOut, WriteAttendance
  <2> QED
    BY <2>1, <2>2, <1>pcs, CheckedOutFields DEF ToggleInv
<1>6. CASE CreateCheckIn
  <2>1. pc = "checkIn" /\ UNCHANGED <<rows, cur>>
    BY <1>6 DEF CreateCheckIn, WriteAttendance, environment
  <2>2. Len(NewCheckIn) = Len(attendance) + 1
    BY DEF TypeOK, NewCheckIn
  <2>3. \/ pc' = "fault"
        \/ attendance' = NewCheckIn /\ held' = Len(attendance) + 1
    BY <1>6, <2>2 DEF CreateCheckIn, WriteAttendance, NewCheckIn
  <2>4. NewCheckIn[Len(attendance) + 1].emp = rows[cur].emp
    BY AppendedFields DEF NewCheckIn
  <2> QED
    BY <2>1, <2>3, <2>4, <1>pcs DEF ToggleInv
<1>7. CASE FlagNewDay
  <2>1. pc = "newDayFlag" /\ held' = 0 /\ UNCHANGED <<rows, cur>>
    BY <1>7 DEF FlagNewDay, environment
  <2> QED
    BY <2>1, <1>pcs DEF ToggleInv
<1>8. CASE Tick \/ UNCHANGED vars
  BY <1>8 DEF Tick, odoo, local, vars, ToggleInv
<1>9. ASSUME NEW id \in Ids, NEW q \in Punches, CommitRow(id, q) PROVE ToggleInv'
  <2>1. UNCHANGED <<attendance, pc, cur, held>>
    BY <1>9 DEF CommitRow, odoo, local
  <2> QED
    BY <2>1, <1>row DEF ToggleInv
<1>10. ASSUME UNCHANGED <<rows, pc, cur, held>>,
              \A i \in DOMAIN attendance : attendance'[i].emp = attendance[i].emp
       PROVE  ToggleInv'
  <2>1. held # 0 => held \in DOMAIN attendance
    BY DEF TypeOK
  <2> QED
    BY <1>10, <2>1 DEF ToggleInv
<1>11. ASSUME NEW e \in Employees, OtherCheckIn(e) PROVE ToggleInv'
  <2>1. UNCHANGED <<rows, pc, cur, held>> /\ attendance' = OtherNewCheckIn(e)
    BY <1>11 DEF OtherCheckIn, OdooEdit, OtherNewCheckIn, local
  <2> QED
    BY <2>1, <1>10, AppendedFields DEF OtherNewCheckIn
<1>12. ASSUME NEW i \in DOMAIN attendance, OtherCheckOut(i) PROVE ToggleInv'
  <2>1. UNCHANGED <<rows, pc, cur, held>> /\ attendance' = [attendance EXCEPT ![i].out = now]
    BY <1>12 DEF OtherCheckOut, OdooEdit, local
  <2>2. \A j \in DOMAIN attendance : attendance'[j].emp = attendance[j].emp
    BY <2>1, RecordTypes DEF AttendanceRecord
  <2> QED
    BY <2>1, <2>2, <1>10
<1>13. CASE StartCycle \/ SkipStaged \/ StageRefused \/ StageDuplicate \/ MarkCheckOut
            \/ MarkCheckIn \/ StageError \/ ErrorNotUnique \/ AdvanceCursor \/ StartClose
            \/ SkipClose \/ CloseOne \/ FlagClosed \/ RecordClose \/ Reconcile \/ CallFails
            \/ CycleLost
  <2>1. pc' \notin ToggleStates
    BY <1>13, <1>pcs DEF StartCycle, NextRow, SkipStaged, StageRefused, StageDuplicate,
       MarkCheckOut, MarkCheckIn, MarkEvent, RowDone, StageError, ErrorNotUnique,
       AdvanceCursor, StartClose, SkipClose, CloseOne, FlagClosed, RecordClose, Reconcile,
       CallFails, CycleLost, Forget
  <2> QED
    BY <2>1, <1>1
<1> QED
  BY <1>2, <1>3, <1>4, <1>5, <1>6, <1>7, <1>8, <1>9, <1>11, <1>12, <1>13
  DEF Next, WorkerStep

(* A row that waits behind the cursor and is staged already is the one the *)
(* worker is at, whenever it is at one.                                    *)
LEMMA StagedAhead ==
  ASSUME TypeOK, BatchInv, StageInv, pc \in RowStates,
         NEW id \in Committed, id > cursor, event[id].status # "none"
  PROVE  id = cur
<1>1. cur \in todo /\ cur \in Committed /\ cursor < cur /\ id \in Ids /\ Ids \subseteq Nat
  BY CurrentRow DEF BatchInv, TypeOK, Committed, Ids
<1>2. id <= cur
  BY <1>1 DEF StageInv, TypeOK
<1>3. ~(id < cur)
  <2>1. ASSUME id < cur PROVE FALSE
    <3>1. id \in todo
      BY <2>1, <1>1 DEF BatchInv
    <3> QED
      BY <3>1, <2>1, <1>1 DEF BatchInv
  <2> QED
    BY <2>1
<1> QED
  BY <1>1, <1>2, <1>3

(* The references of a record in the table after a step are those it had,  *)
(* and in two of the steps one to the row the worker is at.                *)
LEMMA NewReferences ==
  ASSUME TypeOK, HoldInv, ToggleInv, [Next]_vars,
         NEW i \in DOMAIN attendance', NEW id \in Ids, RefersTo(i, id)'
  PROVE  \/ /\ i \in DOMAIN attendance /\ RefersTo(i, id)
            /\ attendance'[i].emp = attendance[i].emp
         \/ /\ pc \in {"checkOut", "checkIn"} /\ id = cur /\ rows[cur].granted
            /\ attendance'[i].emp = rows[cur].emp
            /\ UNCHANGED <<rows, event, cursor>>
<1>1. CASE i \in DOMAIN attendance
  <2>1. CASE attendance'[i].outEv = attendance[i].outEv
    BY <1>1, <2>1, RecordStays DEF RefersTo
  <2>2. CASE attendance'[i].outEv # attendance[i].outEv
    <3>1. /\ pc = "checkOut" /\ i = held /\ attendance'[i].outEv = cur
          /\ attendance'[i].emp = attendance[i].emp /\ attendance'[i].inEv = attendance[i].inEv
      BY <1>1, <2>2, RecordStays
    <3>2. held # NoAttendance /\ rows[cur].granted /\ attendance[held].emp = rows[cur].emp
      BY <3>1 DEF ToggleInv, ToggleStates, TypeOK, HoldingStates
    <3>3. UNCHANGED <<rows, event, cursor>>
      BY <1>1, <2>2, <3>1, TableShapes DEF OtherNewCheckIn, OtherCheckOut
    <3> QED
      BY <1>1, <3>1, <3>2, <3>3 DEF RefersTo
  <2> QED
    BY <2>1, <2>2
<1>2. CASE i \notin DOMAIN attendance
  <2>1. ASSUME NEW k \in DOMAIN attendance, CloseWrite(k) PROVE FALSE
    BY <2>1, <1>2, AutoClosedFields DEF CloseWrite
  <2>2. ASSUME held \in DOMAIN attendance, CheckOutWrite PROVE FALSE
    BY <2>2, <1>2, CheckedOutFields DEF CheckOutWrite, RowStates, ToggleStates
  <2>3. ASSUME NEW k \in DOMAIN attendance, OtherCheckOut(k) PROVE FALSE
    BY <2>3, <1>2 DEF OtherCheckOut, OdooEdit
  <2>4. ASSUME NEW e \in Employees, attendance' = OtherNewCheckIn(e) PROVE FALSE
    <3>1. i = Len(attendance) + 1 /\ attendance'[i].inEv = NoEvent /\ attendance'[i].outEv = NoEvent
      BY <2>4, <1>2, AppendedFields DEF OtherNewCheckIn
    <3> QED
      BY <3>1 DEF RefersTo
  <2>5. CheckInWrite /\ UNCHANGED <<rows, event, cursor>>
    BY <1>2, <2>1, <2>2, <2>3, <2>4, TableShapes
  <2>6. /\ i = Len(attendance) + 1 /\ attendance'[i].inEv = cur
        /\ attendance'[i].outEv = NoEvent /\ attendance'[i].emp = rows[cur].emp
    BY <2>5, <1>2, AppendedFields DEF CheckInWrite, NewCheckIn
  <2> QED
    BY <2>5, <2>6 DEF RefersTo, CheckInWrite, ToggleInv, ToggleStates
<1> QED
  BY <1>1, <1>2

LEMMA RefStep ==
  ASSUME ~TwoWriters, TypeOK, BatchInv, StageInv, ApartInv, HoldInv, ToggleInv, RefInv,
         [Next]_vars
  PROVE  RefInv'
<1> SUFFICES ASSUME NEW i \in DOMAIN attendance', NEW id \in Ids, RefersTo(i, id)'
             PROVE  /\ id \in Committed' /\ rows'[id].granted
                    /\ rows'[id].emp = attendance'[i].emp
                    /\ event'[id].status \notin {"none", "employee_not_found",
                                                 "denied_ignored", "duplicate_ignored"}
                    /\ id > cursor' => \A a \in AcceptedOf(rows[id].emp)' \ {id} :
                                         rows'[id].at - rows'[a].at > Debounce
  BY DEF RefInv
<1>acc. AcceptedOf(rows[id].emp)' =
          {a \in Ids : event'[a].status \in Accepted /\ rows'[a].emp = rows'[id].emp}
  BY DEF AcceptedOf
<1>typ. Ids \subseteq Nat /\ cursor \in Nat /\ cursor' \in Nat /\ cursor' >= cursor
  <2>1. pc = "advance" => cur \in Nat /\ cursor < cur
    BY CurrentRow DEF BatchInv, RowStates, Ids
  <2> QED
    BY <2>1, StepShapes DEF Ids, TypeOK, QuietStep, OutcomeStep, PendingStep, EndStep,
       CommitStep, StartCycle, AdvanceCursor, odoo
<1>1. CASE /\ pc \in {"checkOut", "checkIn"} /\ id = cur /\ rows[cur].granted
           /\ attendance'[i].emp = rows[cur].emp /\ UNCHANGED <<rows, event, cursor>>
  <2>1. pc \in ToggleStates /\ cur \in Committed
    BY <1>1 DEF ToggleStates, RowStates, TypeOK
  <2> QED
    BY <1>1, <2>1, <1>acc DEF ApartInv, AcceptedOf, Committed
<1>2. CASE /\ i \in DOMAIN attendance /\ RefersTo(i, id)
           /\ attendance'[i].emp = attendance[i].emp
  <2>1. /\ id \in Committed /\ rows[id].granted /\ rows[id].emp = attendance[i].emp
        /\ event[id].status \notin {"none", "employee_not_found", "denied_ignored",
                                    "duplicate_ignored"}
        /\ id > cursor => \A a \in AcceptedOf(rows[id].emp) \ {id} :
                            rows[id].at - rows[a].at > Debounce
    BY <1>2 DEF RefInv
  <2>2. id \in Committed' /\ rows'[id] = rows[id]
    BY <2>1, RowsStay
  <2>3. /\ event'[id].status \notin {"none", "employee_not_found", "denied_ignored",
                                     "duplicate_ignored"}
        /\ id > cursor' => \A a \in Ids \ {id} :
             event'[a].status \in Accepted => event[a].status \in Accepted
    <3>1. CASE SameStatuses
      BY <3>1, <2>1 DEF SameStatuses
    <3>2. CASE pc \in RowStates /\ cur \in Ids /\ UNCHANGED <<rows, cursor>>
               /\ (\/ Marking("markIn", "check_in_created")
                   \/ Marking("markOut", "check_out_written"))
      <4>1. id > cursor => id = cur
        BY <3>2, <2>1, StagedAhead
      <4> QED
        BY <3>2, <4>1, <2>1 DEF Marking
    <3>3. ASSUME pc \in RowStates, cur \in Ids, UNCHANGED <<rows, cursor>>,
                 NEW st \in Status, Staging(st)
          PROVE  /\ event'[id].status \notin {"none", "employee_not_found",
                                              "denied_ignored", "duplicate_ignored"}
                 /\ \A a \in Ids \ {id} :
                      event'[a].status \in Accepted => event[a].status \in Accepted
      <4>1. st \notin Accepted /\ st # "none"
        BY <3>3 DEF Staging, Accepted
      <4>2. \A a \in Ids : event'[a].status \in Accepted => event[a].status \in Accepted
        BY <3>3, <4>1 DEF Staging
      <4>3. CASE id # cur
        BY <4>2, <4>3, <3>3, <2>1 DEF Staging
      <4>4. CASE id = cur
        <5>1. rows[cur].emp # NoEmployee /\ rows[cur].granted /\ cursor < cur
          BY <4>4, <2>1, <1>2, <3>3, RecordTypes, SyncAssumption, CurrentRow DEF BatchInv
        <5>2. ~(pc = "row" /\ seen[cur] \notin Settled /\ IsDuplicate(rows[cur]))
          <6>1. ASSUME pc = "row", seen[cur] \notin Settled, IsDuplicate(rows[cur])
                PROVE  FALSE
            <7>1. PICK a \in AcceptedOf(rows[cur].emp) : rows[cur].at - rows[a].at <= Debounce
              BY <6>1 DEF IsDuplicate
            <7>2. event[cur].status \notin Accepted
              BY <6>1, <3>3, CurrentRow DEF StageInv, Settled
            <7>3. a \in Ids /\ a # cur
              BY <7>1, <7>2 DEF AcceptedOf
            <7>4. rows[cur].at - rows[a].at > Debounce
              BY <7>1, <7>3, <4>4, <5>1, <2>1, <1>typ
            <7>5. rows[cur].at \in Int /\ rows[a].at \in Int /\ Debounce \in Int
              <8>1. rows[a] \in Row \/ rows[a] = NoRow
                BY <7>3, SyncAssumption DEF TypeOK
              <8> QED
                BY <8>1, <3>3, CurrentRow, SyncAssumption DEF Row, NoRow
            <7> QED
              BY <7>1, <7>4, <7>5
          <6> QED
            BY <6>1
        <5>3. st \in {"after_close_review", "pending", "error"}
          BY <3>3, <5>1, <5>2 DEF Staging
        <5> QED
          BY <5>3, <4>2, <4>4, <3>3 DEF Staging
      <4> QED
        BY <4>3, <4>4, <4>2
    <3>4. CASE Flagging
      BY <3>1, <3>4, FlagType DEF Flagging, SameStatuses
    <3> QED
      BY <3>1, <3>2, <3>3, <3>4, EventShapes DEF SameStatuses
  <2>4. ASSUME id > cursor', NEW a \in Ids, a # id, event'[a].status \in Accepted,
               rows'[a].emp = rows'[id].emp
        PROVE  rows'[id].at - rows'[a].at > Debounce
    <3>1. event[a].status \in Accepted
      BY <2>3, <2>4
    <3>2. a \in Committed /\ rows'[a] = rows[a]
      BY <3>1, RowsStay DEF StageInv, Accepted
    <3>3. id > cursor
      BY <2>4, <1>typ
    <3> QED
      BY <2>1, <2>2, <2>4, <3>1, <3>2, <3>3 DEF AcceptedOf
  <2> QED
    BY <2>1, <2>2, <2>3, <2>4, <1>2, <1>acc
<1> QED
  BY <1>1, <1>2, NewReferences

LEMMA RefInvariant ==
  ASSUME ~TwoWriters PROVE Spec => [](TypeOK /\ HoldInv /\ ToggleInv /\ RefInv)
<1> DEFINE Order == TypeOK /\ BatchInv /\ StageInv /\ ApartInv
           Inv == HoldInv /\ ToggleInv /\ RefInv
<1>1. Init => Inv
  <2>1. ASSUME Init PROVE ToggleInv /\ RefInv
    BY <2>1 DEF Init, ToggleInv, RefInv, ToggleStates
  <2> QED
    BY <2>1, HoldInit
<1>2. Order /\ Inv /\ [Next]_vars => Inv'
  BY HoldStep, ToggleStep, RefStep
<1>3. Order /\ Inv => TypeOK /\ HoldInv /\ ToggleInv /\ RefInv
  OBVIOUS
<1>4. Spec => []Order
  BY OrderInvariant
<1> HIDE DEF Order, Inv
<1> QED
  BY <1>1, <1>2, <1>3, <1>4, PTL DEF Spec

(* An attendance refers only to granted punches of its own employee, and   *)
(* never to one that ended as refused or as a duplicate: not even when the *)
(* row that wrote it was interrupted and is retried in a later cycle.      *)
THEOREM GrantedPunchesAttend ==
  ASSUME ~TwoWriters PROVE Spec => []OnlyGrantedPunchesAttend
<1>1. TypeOK /\ RefInv => OnlyGrantedPunchesAttend
  <2>1. ASSUME TypeOK, RefInv, NEW i \in DOMAIN attendance,
               NEW id \in {attendance[i].inEv, attendance[i].outEv} \ {NoEvent}
        PROVE  /\ rows[id].granted /\ rows[id].emp = attendance[i].emp
               /\ event[id].status \notin {"employee_not_found", "denied_ignored",
                                           "duplicate_ignored"}
    <3>1. RefersTo(i, id) /\ id \in Ids
      BY <2>1, RecordTypes DEF RefersTo, AttendanceRecord
    <3> QED
      BY <2>1, <3>1 DEF RefInv
  <2> QED
    BY <2>1 DEF OnlyGrantedPunchesAttend
<1> QED
  BY <1>1, RefInvariant, PTL

(* With one open attendance per employee the close run's query is not cut  *)
(* off by its limit, when it is not below the number of employees.         *)
LEMMA EveryOpenIsDue ==
  ASSUME TypeOK, OpenInv, IsFiniteSet(Employees), Cardinality(Employees) <= CloseLimit,
         NEW i \in DOMAIN attendance, attendance[i].out = Open,
         attendance[i].src = "biometric"
  PROVE  i \in DueForClose
<1> DEFINE due == {k \in DOMAIN attendance :
                     attendance[k].out = Open /\ attendance[k].src = "biometric"}
           before == {j \in due : Earlier(j, i)}
           emp == [k \in due |-> attendance[k].emp]
<1>1. IsFiniteSet(due)
  <2>1. due \in SUBSET (1 .. Len(attendance))
    BY RecordTypes
  <2>2. IsFiniteSet(1 .. Len(attendance))
    BY RecordTypes, FS_Interval
  <2> HIDE DEF due
  <2> QED
    BY <2>1, <2>2, FS_Subset
<1>2. emp \in [due -> Employees]
  BY RecordTypes
<1>3. \A x, y \in due : emp[x] = emp[y] => x = y
  BY DEF OpenInv
<1>4. i \in due /\ before \in SUBSET (due \ {i})
  BY RecordTypes DEF Earlier
<1>5. DueForClose = {k \in due : Cardinality({j \in due : Earlier(j, k)}) < CloseLimit}
  BY DEF DueForClose
<1> HIDE DEF due, emp
<1>6. Cardinality(due) \in Nat /\ Cardinality(Employees) \in Nat
  BY <1>1, FS_CardinalityType
<1>7. ~(Cardinality(Employees) < Cardinality(due))
  BY <1>1, <1>2, <1>3, FS_PigeonHole
<1>8. IsFiniteSet(due \ {i}) /\ Cardinality(due \ {i}) = Cardinality(due) - 1
  BY <1>1, <1>4, FS_RemoveElement
<1>9. Cardinality(before) <= Cardinality(due \ {i}) /\ Cardinality(before) \in Nat
  BY <1>4, <1>8, FS_Subset, FS_CardinalityType
<1> HIDE DEF before
<1>10. Cardinality(before) < CloseLimit
  BY <1>6, <1>7, <1>8, <1>9, SyncAssumption
<1> QED
  BY <1>4, <1>5, <1>10 DEF before

(* What a step does to the open attendances: none is opened beside another *)
(* of its employee, and the worker opens none during a close run.          *)
LEMMA OpenTable ==
  ASSUME TypeOK, HoldInv, [Next]_vars
  PROVE  /\ \A i \in DOMAIN attendance' :
              attendance'[i].out = Open =>
                \/ i \in DOMAIN attendance /\ attendance'[i] = attendance[i]
                \/ /\ i = Len(attendance) + 1
                   /\ \A j \in DOMAIN attendance' \ {i} :
                        attendance'[j].emp = attendance'[i].emp => attendance'[j].out # Open
                   /\ attendance'[i].src = "biometric" => pc = "checkIn"
<1> SUFFICES ASSUME NEW i \in DOMAIN attendance', attendance'[i].out = Open
             PROVE  \/ i \in DOMAIN attendance /\ attendance'[i] = attendance[i]
                    \/ /\ i = Len(attendance) + 1
                       /\ \A j \in DOMAIN attendance' \ {i} :
                            attendance'[j].emp = attendance'[i].emp
                            => attendance'[j].out # Open
                       /\ attendance'[i].src = "biometric" => pc = "checkIn"
  OBVIOUS
<1>1. ASSUME NEW k \in DOMAIN attendance, CloseWrite(k)
      PROVE  i \in DOMAIN attendance /\ attendance'[i] = attendance[i]
  BY <1>1, AutoClosedFields DEF CloseWrite
<1>2. ASSUME held \in DOMAIN attendance, CheckOutWrite
      PROVE  i \in DOMAIN attendance /\ attendance'[i] = attendance[i]
  BY <1>2, CheckedOutFields DEF CheckOutWrite, RowStates, ToggleStates
<1>3. ASSUME NEW k \in DOMAIN attendance, OtherCheckOut(k)
      PROVE  i \in DOMAIN attendance /\ attendance'[i] = attendance[i]
  <2>1. /\ attendance' = [attendance EXCEPT ![k].out = now] /\ now \in Nat
    BY <1>3 DEF OtherCheckOut, OdooEdit, TypeOK
  <2>2. attendance'[k].out = now
    BY <2>1, RecordTypes DEF AttendanceRecord
  <2> QED
    BY <2>1, <2>2 DEF Open
<1>4. ASSUME NEW r, attendance' = Append(attendance, r),
             OdooAccepts(attendance', Len(attendance) + 1),
             r.src = "biometric" => pc = "checkIn"
      PROVE  \/ i \in DOMAIN attendance /\ attendance'[i] = attendance[i]
             \/ /\ i = Len(attendance) + 1
                /\ \A j \in DOMAIN attendance' \ {i} :
                     attendance'[j].emp = attendance'[i].emp => attendance'[j].out # Open
                /\ attendance'[i].src = "biometric" => pc = "checkIn"
  BY <1>4, AppendedFields DEF OdooAccepts
<1>5. CASE attendance' = attendance
  BY <1>5
<1> QED
  BY <1>1, <1>2, <1>3, <1>4, <1>5, TableShapes DEF CheckInWrite, NewCheckIn, OtherNewCheckIn

LEMMA OpenStep ==
  ASSUME TypeOK, HoldInv, OpenInv, [Next]_vars,
         IsFiniteSet(Employees), Cardinality(Employees) <= CloseLimit
  PROVE  OpenInv'
<1>1. ASSUME NEW i \in DOMAIN attendance', NEW j \in DOMAIN attendance',
             attendance'[i].out = Open, attendance'[j].out = Open,
             attendance'[i].emp = attendance'[j].emp
      PROVE  i = j
  BY <1>1, OpenTable DEF OpenInv
<1>2. ASSUME pc' \in CloseStates, NEW i \in DOMAIN attendance', attendance'[i].out = Open,
             attendance'[i].src = "biometric"
      PROVE  i \in closing' /\ (pc' = "closingFlag" => i # held')
  <2>1. CASE pc \notin CloseStates
    <3>1. StartClose
      BY <1>2, <2>1 DEF Next, WorkerStep, StartCycle, NextRow, SkipStaged, StageRefused,
         StageDuplicate, StagePending, FindOpen, CloseBeforeNewDay, FlagNewDay, WriteCheckOut,
         CreateCheckIn, WriteAttendance, MarkCheckOut, MarkCheckIn, MarkEvent, RowDone,
         StageError, ErrorNotUnique, AdvanceCursor, SkipClose, CloseOne, FlagClosed,
         RecordClose, Reconcile, CallFails, CycleLost, Forget, Tick, CommitRow, OtherCheckIn,
         OtherCheckOut, OdooEdit, CloseStates, vars
    <3>2. attendance' = attendance /\ closing' = DueForClose /\ pc' = "closing"
      BY <3>1 DEF StartClose, odoo
    <3> QED
      BY <3>2, <1>2, EveryOpenIsDue
  <2>2. CASE pc \in CloseStates
    <3>1. /\ i \in DOMAIN attendance /\ attendance'[i] = attendance[i]
      BY <1>2, <2>2, OpenTable DEF CloseStates
    <3>2. i \in closing /\ (pc = "closingFlag" => i # held)
      BY <1>2, <2>2, <3>1 DEF OpenInv
    <3>3. CASE FlagClosed
      BY <1>2, <3>2, <3>3 DEF FlagClosed
    <3>4. CASE CloseOne
      <4>1. PICK k \in closing :
              \/ attendance' = AutoClosed(k, "eod") /\ held' = k /\ closing' = closing
              \/ Forget
        BY <3>4 DEF CloseOne
      <4>2. ~Forget
        BY <1>2 DEF Forget, CloseStates
      <4>3. k \in DOMAIN attendance
        BY DEF TypeOK
      <4>4. attendance'[k].out # Open
        BY <4>1, <4>2, <4>3, AutoClosedFields
      <4> QED
        BY <1>2, <3>2, <4>1, <4>2, <4>4
    <3>5. CASE UNCHANGED <<pc, held, closing>>
      BY <3>2, <3>5
    <3>6. FlagClosed \/ CloseOne \/ UNCHANGED <<pc, held, closing>>
      BY <1>2, <2>2 DEF Next, WorkerStep, StartCycle, NextRow, SkipStaged, StageRefused,
         StageDuplicate, StagePending, FindOpen, CloseBeforeNewDay, FlagNewDay, WriteCheckOut,
         CreateCheckIn, WriteAttendance, MarkCheckOut, MarkCheckIn, MarkEvent, RowDone,
         StageError, ErrorNotUnique, AdvanceCursor, StartClose, SkipClose,
         RecordClose, Reconcile, CallFails, CycleLost, Forget, Tick, CommitRow, OtherCheckIn,
         OtherCheckOut, OdooEdit, CloseStates, local, vars
    <3> QED
      BY <3>3, <3>4, <3>5, <3>6
  <2> QED
    BY <2>1, <2>2
<1> QED
  BY <1>1, <1>2 DEF OpenInv

LEMMA OpenInvariant ==
  ASSUME IsFiniteSet(Employees), Cardinality(Employees) <= CloseLimit
  PROVE  Spec => [](TypeOK /\ HoldInv /\ OpenInv)
<1> DEFINE Inv == TypeOK /\ HoldInv /\ OpenInv
<1>1. Init => Inv
  <2>1. ASSUME Init PROVE OpenInv
    BY <2>1 DEF Init, OpenInv, CloseStates
  <2> QED
    BY <2>1, TypeInit, HoldInit
<1>2. Inv /\ [Next]_vars => Inv'
  BY TypeStep, HoldStep, OpenStep
<1> QED
  BY <1>1, <1>2, PTL DEF Spec

(* When a close run is recorded no biometric attendance is left open,      *)
(* provided that the limit of its query is not below the number of the     *)
(* employees: Odoo keeps at most one attendance of each of them open.      *)
THEOREM CloseRunLeavesNoneOpen ==
  ASSUME IsFiniteSet(Employees), Cardinality(Employees) <= CloseLimit
  PROVE  Spec => CloseRunIsComplete
<1>1. ASSUME TypeOK, OpenInv, [Next]_vars, lastClose' # lastClose,
             NEW i \in DOMAIN attendance, attendance[i].src = "biometric"
      PROVE  attendance[i].out # Open
  <2>1. RecordClose
    BY <1>1 DEF Next, WorkerStep, StartCycle, SkipStaged, StageRefused,
       StageDuplicate, StagePending, FindOpen, CloseBeforeNewDay, FlagNewDay, FlagCheckIn,
       WriteCheckOut, CreateCheckIn, WriteAttendance, MarkCheckOut, MarkCheckIn, MarkEvent,
       Upsert, StageError, ErrorNotUnique, AdvanceCursor, StartClose, SkipClose, CloseOne,
       FlagClosed, Reconcile, CallFails, CycleLost, Tick, CommitRow, OtherCheckIn,
       OtherCheckOut, OdooEdit, odoo, vars
  <2>2. pc = "closing" /\ closing = {}
    BY <2>1 DEF RecordClose
  <2> QED
    BY <1>1, <2>2 DEF OpenInv, CloseStates
<1>2. TypeOK /\ HoldInv /\ OpenInv /\ [Next]_vars =>
        [lastClose' # lastClose =>
           \A i \in DOMAIN attendance :
             attendance[i].src = "biometric" => attendance[i].out # Open]_vars
  BY <1>1
<1> QED
  BY <1>2, OpenInvariant, PTL DEF Spec, CloseRunIsComplete

(***************************************************************************)
(* The ledger.  Its punches are the committed rows, what it has passed is  *)
(* the cursor, and the outcome of a passed punch the status of its event.  *)
(***************************************************************************)
Recorded == [id \in Ids |-> IF id <= cursor THEN event[id].status ELSE "none"]

(* Every step of the worker, the router and the others is a step of the    *)
(* ledger or leaves it alone.                                              *)
LEMMA LedgerStep ==
  ASSUME ~TwoWriters, TypeOK, BatchInv, StageInv, [Next]_vars
  PROVE  [Ledger!Next]_(Ledger!ledgerVars)
<1>typ. /\ Ids \subseteq Nat /\ cursor \in Nat /\ Ids = Ledger!LedgerIds
        /\ pc \in RowStates => cur \in Committed /\ cur \in todo /\ cursor < cur
  BY CurrentRow DEF Ids, TypeOK, Ledger!LedgerIds, BatchInv
<1>same. ASSUME UNCHANGED <<rows, cursor>>,
                \A id \in Ids : id <= cursor => event'[id].status = event[id].status
         PROVE  UNCHANGED <<Committed, cursor, Recorded>>
  BY <1>same DEF Committed, Recorded
<1>var. UNCHANGED <<Committed, cursor, Recorded>> => UNCHANGED Ledger!ledgerVars
  BY DEF Ledger!ledgerVars, Recorded
<1>1. CASE QuietStep \/ EndStep
  BY <1>1, <1>same, <1>var DEF QuietStep, EndStep, SameStatuses
<1>2. CASE OutcomeStep \/ PendingStep
  <2>1. UNCHANGED <<rows, cursor>> /\ pc \in RowStates /\ \E st : OnlyCurStaged(st)
    BY <1>2 DEF OutcomeStep, PendingStep, RowStates
  <2>2. \A id \in Ids : id <= cursor => event'[id].status = event[id].status
    BY <2>1, <1>typ DEF OnlyCurStaged
  <2> QED
    BY <2>1, <2>2, <1>same, <1>var
<1>3. CASE StartCycle
  BY <1>3, <1>same, <1>var DEF StartCycle, odoo, environment
<1>4. CASE CommitStep
  <2>1. PICK id \in Ids, q \in Punches : CommitRow(id, q)
    BY <1>4 DEF CommitStep
  <2>2. Committed' = Committed \cup {id} /\ \A o \in Committed : o < id
    BY <2>1, CommitIsLast
  <2>3. id \notin Committed /\ cursor < id
    BY <2>1, <2>2, <1>typ DEF BatchInv, Ids
  <2>4. cursor' = cursor /\ Recorded' = Recorded
    BY <1>4 DEF CommitStep, SameStatuses, Recorded
  <2>5. Ledger!Arrive(id)
    BY <2>2, <2>3, <2>4 DEF Ledger!Arrive, Recorded
  <2> QED
    BY <2>5, <1>typ DEF Ledger!Next
<1>5. CASE AdvanceCursor
  <2>1. pc = "advance" /\ cursor' = cur /\ UNCHANGED <<rows, event>>
    BY <1>5 DEF AdvanceCursor, environment
  <2>2. /\ cur \in Committed /\ cur \in Ids /\ cursor < cur
        /\ event[cur].status \in Final /\ Committed' = Committed
    BY <2>1, <1>typ DEF RowStates, StageInv, Committed
  <2>3. \A other \in Committed : other > cursor => cur <= other
    <3>1. ASSUME NEW other \in Committed, other > cursor, other < cur PROVE FALSE
      BY <3>1, <2>1, <2>2, <1>typ DEF BatchInv, RowStates
    <3>2. \A other \in Committed : other \in Nat
      BY <1>typ DEF Committed
    <3> QED
      BY <3>1, <3>2, <2>2, <1>typ
  <2>4. Recorded' = [Recorded EXCEPT ![cur] = event[cur].status]
    <3>1. ASSUME NEW id \in Ids
          PROVE  Recorded'[id] = [Recorded EXCEPT ![cur] = event[cur].status][id]
      <4>1. cursor < id /\ id < cur => id \notin Committed /\ event[id].status = "none"
        BY <2>3, <2>2, <1>typ DEF StageInv
      <4> QED
        BY <4>1, <2>1, <2>2, <1>typ DEF Recorded
    <3> QED
      BY <3>1 DEF Recorded
  <2>5. PICK id \in Ledger!LedgerIds : id = cur
    BY <2>2, <1>typ
  <2>6. Ledger!Pass(id)
    BY <2>1, <2>2, <2>3, <2>4, <2>5 DEF Ledger!Pass, Recorded
  <2> QED
    BY <2>6 DEF Ledger!Next
<1> QED
  BY <1>1, <1>2, <1>3, <1>4, <1>5, StepShapes

(* With a single writer of normalized_event the worker implements the      *)
(* ledger: rows are passed in id order, none is skipped, and the outcome   *)
(* of a passed row is never revised.                                       *)
THEOREM WorkerImplementsLedger == ASSUME ~TwoWriters PROVE Spec => ImplementsLedger
<1>1. Init => Ledger!Init
  <2>1. ASSUME Init PROVE Committed = {} /\ cursor = 0 /\ \A id \in Ids : ~(id <= 0)
    BY <2>1 DEF Init, Committed, Ids
  <2> QED
    BY <2>1 DEF Ledger!Init, Ledger!LedgerIds, Ids
<1>2. TypeOK /\ BatchInv /\ StageInv /\ ApartInv /\ [Next]_vars
      => [Ledger!Next]_(Ledger!ledgerVars)
  BY LedgerStep
<1> QED
  BY <1>1, <1>2, OrderInvariant, PTL DEF Spec, ImplementsLedger, Ledger!Spec
=============================================================================
