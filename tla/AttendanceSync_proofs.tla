------------------------ MODULE AttendanceSync_proofs ------------------------
(***************************************************************************)
(* Proofs about the attendance synchronisation worker, for every number    *)
(* of employees and rows, every punch, batch size, day length and bound.   *)
(***************************************************************************)
EXTENDS AttendanceSync, FiniteSetTheorems, SequenceTheorems, TLAPS

(* The end of a day is a tick; day and end of day never leave Nat.         *)
LEMMA DayType ==
  ASSUME NEW t \in Nat
  PROVE  Day(t) \in Nat /\ EndOfDay(Day(t)) \in Nat
<1> DEFINE d == Day(t)
<1>1. d \in Nat
  BY SyncAssumption DEF Day
<1>2. ASSUME NEW x \in Nat PROVE x * DayLen \in Nat
  BY SyncAssumption
<1>3. d * DayLen \in Nat
  BY <1>1, <1>2
<1> HIDE DEF d
<1>4. d * DayLen + (DayLen - 1) \in Nat
  BY <1>3, SyncAssumption
<1> QED
  BY <1>1, <1>4 DEF d, EndOfDay

(* Closing an attendance at the end of its day keeps the table well typed. *)
LEMMA AutoClosedType ==
  ASSUME TypeOK, NEW i \in DOMAIN attendance, NEW reason \in {"new_day", "eod"}
  PROVE  /\ AutoClosed(i, reason) \in Seq(AttendanceRecord)
         /\ DOMAIN AutoClosed(i, reason) = DOMAIN attendance
<1>1. attendance \in Seq(AttendanceRecord) /\ attendance[i] \in AttendanceRecord
  BY DEF TypeOK
<1>2. attendance[i].in \in Nat
  BY <1>1 DEF AttendanceRecord
<1>3. EndOfDay(Day(attendance[i].in)) \in Nat
  BY <1>2, DayType
<1> DEFINE r == [attendance[i] EXCEPT !.out = EndOfDay(Day(attendance[i].in)),
                                        !.auto = reason]
<1>4. r \in AttendanceRecord
  BY <1>1, <1>3 DEF AttendanceRecord
<1>5. AutoClosed(i, reason) = [attendance EXCEPT ![i] = r]
  BY DEF AutoClosed
<1> HIDE DEF r
<1> QED
  BY <1>1, <1>4, <1>5, ExceptSeq

(* Marking the check-in event of an attendance keeps the staging table     *)
(* well typed and touches no status.                                       *)
LEMMA FlagType ==
  ASSUME TypeOK, NEW i \in DOMAIN attendance, FlagCheckIn(i)
  PROVE  /\ event' \in [Ids -> [status : Status, att : Nat, flagged : BOOLEAN]]
         /\ \A id \in Ids : event'[id].status = event[id].status
BY DEF TypeOK, FlagCheckIn, AttendanceRecord, NoEvent

(* Staging a row keeps the staging table well typed and touches no other.  *)
LEMMA UpsertType ==
  ASSUME TypeOK, NEW id \in Ids, NEW st \in Status, NEW a \in Nat, Upsert(id, st, a)
  PROVE  /\ event' \in [Ids -> [status : Status, att : Nat, flagged : BOOLEAN]]
         /\ event'[id].status = st
         /\ \A o \in Ids \ {id} : event'[o] = event[o]
BY DEF TypeOK, Upsert

(* The type invariant holds initially.                                     *)
LEMMA TypeInit == Init => TypeOK
BY SyncAssumption DEF Init, TypeOK, Ids, NoRow, Row, Unstaged, Status, Final, Settled,
   Accepted, NoDate, NoAttendance, RowStates, ToggleStates, HoldingStates, CloseStates

(* What TypeOK says of the variables a cycle forgets when it ends.         *)
LEMMA ForgetType ==
  ASSUME TypeOK, Forget, UNCHANGED <<now, rows, cursor, event, lastClose>>,
         attendance' \in Seq(AttendanceRecord),
         lastReconcile' \in Nat \cup {NoDate}, faults' \in Nat, manual' = manual
  PROVE  TypeOK'
BY DEF TypeOK, Forget, NoDate, NoAttendance, RowStates, ToggleStates, HoldingStates, CloseStates,
   Status, Committed

(* A step of a row that changes Odoo's tables only, keeping them typed.    *)
LEMMA TableStepType ==
  ASSUME TypeOK, NEW h,
         event' \in [Ids -> [status : Status, att : Nat, flagged : BOOLEAN]],
         attendance' \in Seq(AttendanceRecord), Len(attendance') >= Len(attendance),
         h \in DOMAIN attendance' \cup {NoAttendance},
         held' = h, pc \in RowStates, pc' \in RowStates,
         pc' \in HoldingStates <=> h # NoAttendance, faults' \in Nat,
         pc' \in ToggleStates => rows[cur].emp \in Employees,
         UNCHANGED <<now, rows, cursor, lastClose, lastReconcile, todo, cur, seen,
                     cfgClose, closing, runDate, manual>>
  PROVE  TypeOK'
BY DEF TypeOK, NoAttendance, RowStates, ToggleStates, HoldingStates, CloseStates, Committed

(* A write of hr.attendance inside a row keeps the types.                  *)
LEMMA WriteAttendanceType ==
  ASSUME TypeOK, NEW table \in Seq(AttendanceRecord), NEW i, NEW next, NEW h,
         WriteAttendance(table, i, next, h), pc \in RowStates, next \in RowStates,
         pc \in ToggleStates, Len(table) >= Len(attendance), h \in DOMAIN table \cup {NoAttendance},
         next \in HoldingStates <=> h # NoAttendance
  PROVE  TypeOK'
<1>1. CASE OdooAccepts(table, i)
  <2>1. attendance' = table /\ pc' = next /\ held' = h
    BY <1>1 DEF WriteAttendance
  <2>e. rows[cur].emp \in Employees
    BY DEF TypeOK
  <2>2. /\ UNCHANGED <<now, rows, cursor, event, lastClose, lastReconcile, todo, cur,
                       seen, cfgClose, closing, runDate, faults, manual>>
    BY DEF WriteAttendance, environment
  <2> QED
    BY <2>1, <2>2, <2>e, TableStepType DEF TypeOK
<1>2. CASE ~OdooAccepts(table, i)
  <2>1. attendance' = attendance /\ pc' = "fault" /\ held' = NoAttendance
    BY <1>2 DEF WriteAttendance
  <2>2. /\ UNCHANGED <<now, rows, cursor, event, lastClose, lastReconcile, todo, cur,
                       seen, cfgClose, closing, runDate, faults, manual>>
    BY DEF WriteAttendance, environment
  <2>3. pc' \in RowStates /\ pc' \notin HoldingStates
    BY <2>1 DEF RowStates, ToggleStates, HoldingStates
  <2>4. attendance \in Seq(AttendanceRecord) /\ Len(attendance) \in Nat
    BY DEF TypeOK
  <2> QED
    BY <2>1, <2>2, <2>3, <2>4, TableStepType DEF TypeOK
<1> QED
  BY <1>1, <1>2

(* The last call of a row keeps the types, whether its reply arrives.      *)
LEMMA RowDoneType ==
  ASSUME TypeOK, RowDone, pc \in RowStates,
         event' \in [Ids -> [status : Status, att : Nat, flagged : BOOLEAN]],
         UNCHANGED <<cursor, attendance, lastClose, lastReconcile>>
  PROVE  TypeOK'
<1>1. pc' \in RowStates /\ pc' \notin HoldingStates /\ pc' \notin ToggleStates
  BY DEF RowDone, RowStates, ToggleStates, HoldingStates
<1>2. faults' \in Nat /\ held' = NoAttendance
  BY DEF RowDone, TypeOK
<1>3. UNCHANGED <<now, rows, manual, todo, cur, seen, cfgClose, closing, runDate>>
  BY DEF RowDone
<1>4. attendance \in Seq(AttendanceRecord) /\ Len(attendance) \in Nat
  BY DEF TypeOK
<1> QED
  BY <1>1, <1>2, <1>3, <1>4, TableStepType

(* Inside a row the row is one of the committed punches.                   *)
LEMMA CurrentRow ==
  ASSUME TypeOK, pc \in RowStates
  PROVE  /\ cur \in Ids /\ cur \in todo /\ cur # 0
         /\ rows[cur] \in Punches /\ rows[cur] \in Row /\ rows[cur].at \in Nat
<1>1. cur \in todo /\ todo \subseteq Committed
  BY DEF TypeOK
<1>2. cur \in Ids /\ rows[cur] # NoRow /\ rows[cur] \in Punches \cup {NoRow}
  BY <1>1 DEF Committed, TypeOK
<1>3. rows[cur] \in Row
  BY <1>2, SyncAssumption
<1> QED
  BY <1>1, <1>2, <1>3 DEF Ids, Row

(* So does writing the check-out of the current punch.                     *)
LEMMA CheckedOutType ==
  ASSUME TypeOK, pc \in RowStates, NEW i \in DOMAIN attendance
  PROVE  /\ CheckedOut(i) \in Seq(AttendanceRecord)
         /\ Len(CheckedOut(i)) = Len(attendance)
<1> DEFINE r == [attendance[i] EXCEPT !.out = rows[cur].at, !.outEv = cur,
                                      !.src = "biometric"]
<1>1. attendance \in Seq(AttendanceRecord) /\ attendance[i] \in AttendanceRecord
  BY DEF TypeOK
<1>2. r \in AttendanceRecord
  BY <1>1, CurrentRow DEF AttendanceRecord
<1>3. CheckedOut(i) = [attendance EXCEPT ![i] = r]
  BY DEF CheckedOut
<1> HIDE DEF r
<1> QED
  BY <1>1, <1>2, <1>3, ExceptSeq

(* Every step keeps the types.                                             *)
LEMMA TypeStep == TypeOK /\ [Next]_vars => TypeOK'
<1> SUFFICES ASSUME TypeOK, [Next]_vars PROVE TypeOK'
  OBVIOUS
<1> USE DEF NoAttendance
<1>seq. /\ attendance \in Seq(AttendanceRecord) /\ Len(attendance) \in Nat
        /\ DOMAIN attendance = 1 .. Len(attendance)
        /\ event \in [Ids -> [status : Status, att : Nat, flagged : BOOLEAN]]
  BY DEF TypeOK
<1>states. {"row", "toggle", "newDay", "newDayFlag", "checkOut", "checkIn",
            "markOut", "markIn", "fault", "advance"} = RowStates
  BY DEF RowStates, ToggleStates
<1>holding. pc \in HoldingStates => held \in DOMAIN attendance
  BY DEF TypeOK, HoldingStates
<1>1. CASE StartCycle
  <2>1. UNCHANGED <<now, rows, cursor, event, attendance, lastClose, lastReconcile,
                    faults, manual, held, closing, runDate>>
    BY <1>1 DEF StartCycle, odoo, environment
  <2>2. todo' \subseteq Committed /\ cfgClose' = lastClose
    BY <1>1 DEF StartCycle, NextRows
  <2>3. seen' \in [Ids -> Status]
    BY <1>1, <1>seq DEF StartCycle, Status
  <2>4. IF pc' \in RowStates THEN cur' \in todo' ELSE todo' = {} /\ cur' = 0
    BY <1>1 DEF StartCycle, NextRow, OldestFirst, RowStates, ToggleStates
  <2>5. pc' \in {"close", "row"} /\ pc = "idle"
    BY <1>1 DEF StartCycle, NextRow
  <2> QED
    BY <2>1, <2>2, <2>3, <2>4, <2>5
    DEF TypeOK, RowStates, ToggleStates, HoldingStates, CloseStates, Committed
<1>2. CASE SkipStaged
  <2>1. UNCHANGED <<now, rows, cursor, event, attendance, lastClose, lastReconcile,
                    faults, manual, todo, cur, seen, cfgClose, held, closing, runDate>>
    BY <1>2 DEF SkipStaged, odoo, environment, local
  <2>2. pc = "row" /\ pc' = "advance"
    BY <1>2 DEF SkipStaged
  <2> QED
    BY <2>1, <2>2 DEF TypeOK, RowStates, ToggleStates, HoldingStates, CloseStates, Committed
<1>3. CASE StageRefused
  <2>1. PICK st \in Status : Upsert(cur, st, NoAttendance)
    BY <1>3 DEF StageRefused, Status, Final, Settled
  <2>2. pc \in RowStates /\ RowDone
    BY <1>3, <1>states DEF StageRefused
  <2> QED
    BY <2>1, <2>2, CurrentRow, UpsertType, RowDoneType DEF Upsert
<1>4. CASE StageDuplicate
  <2>1. PICK a \in Nat : Upsert(cur, "duplicate_ignored", a)
    BY <1>4, <1>seq DEF StageDuplicate, AcceptedOf
  <2>2. pc \in RowStates /\ RowDone
    BY <1>4, <1>states DEF StageDuplicate
  <2> QED
    BY <2>1, <2>2, CurrentRow, UpsertType, RowDoneType
    DEF Upsert, Status, Final, Settled
<1>5. CASE StagePending
  <2>1. pc = "row" /\ pc' = "toggle" /\ Upsert(cur, "pending", NoAttendance)
    BY <1>5 DEF StagePending
  <2>2. pc \in RowStates /\ pc' \in RowStates /\ pc' \notin HoldingStates /\ held' = NoAttendance
    BY <1>5, <2>1 DEF StagePending, local, RowStates, ToggleStates, HoldingStates, TypeOK
  <2>3. UNCHANGED <<now, rows, cursor, attendance, lastClose, lastReconcile, todo, cur,
                    seen, cfgClose, closing, runDate, faults, manual>>
    BY <1>5 DEF StagePending, Upsert, environment, local
  <2>4. event' \in [Ids -> [status : Status, att : Nat, flagged : BOOLEAN]]
    BY <2>1, <2>2, CurrentRow, UpsertType DEF Status
  <2>5. faults' \in Nat
    BY <2>3 DEF TypeOK
  <2>6. rows[cur].emp \in Employees
    <3>1. rows[cur].emp # NoEmployee
      BY <1>5 DEF StagePending, Refused
    <3> QED
      BY <2>2, <3>1, CurrentRow DEF Row
  <2> QED
    BY <2>2, <2>3, <2>4, <2>5, <2>6, <1>seq, TableStepType
<1>6. CASE FindOpen
  <2>1. UNCHANGED <<now, rows, cursor, event, attendance, lastClose, lastReconcile,
                    faults, manual, todo, cur, seen, cfgClose, closing, runDate>>
    BY <1>6 DEF FindOpen, odoo, environment
  <2>2. pc \in RowStates /\ pc' \in RowStates
    BY <1>6 DEF FindOpen, RowStates, ToggleStates
  <2>3. /\ held' \in DOMAIN attendance \cup {NoAttendance}
        /\ pc' \in HoldingStates <=> held' # NoAttendance
    BY <1>6, <1>seq DEF FindOpen, OpenOf, HoldingStates
  <2>4. faults' \in Nat
    BY <2>1 DEF TypeOK
  <2>5. rows[cur].emp \in Employees
    BY <1>6 DEF FindOpen, TypeOK, ToggleStates
  <2> QED
    BY <2>1, <2>2, <2>3, <2>4, <2>5, <1>seq, TableStepType
<1>7. CASE CloseBeforeNewDay
  <2>1. pc \in HoldingStates /\ pc \in RowStates
    BY <1>7 DEF CloseBeforeNewDay, HoldingStates, RowStates, ToggleStates
  <2>2. held \in DOMAIN attendance /\ held # NoAttendance
    BY <2>1, <1>holding, <1>seq
  <2>3. /\ AutoClosed(held, "new_day") \in Seq(AttendanceRecord)
        /\ DOMAIN AutoClosed(held, "new_day") = DOMAIN attendance
    BY <2>2, AutoClosedType
  <2>4. Len(AutoClosed(held, "new_day")) = Len(attendance)
    BY <2>3, <1>seq DEF AutoClosed
  <2> QED
    BY <1>7, <2>1, <2>2, <2>3, <2>4, <1>seq, WriteAttendanceType
    DEF CloseBeforeNewDay, HoldingStates, RowStates, ToggleStates
<1>8. CASE FlagNewDay
  <2>1. pc \in HoldingStates /\ pc \in RowStates /\ FlagCheckIn(held)
    BY <1>8 DEF FlagNewDay, HoldingStates, RowStates, ToggleStates
  <2>2. event' \in [Ids -> [status : Status, att : Nat, flagged : BOOLEAN]]
    BY <2>1, <1>holding, FlagType
  <2>3. pc' \in RowStates /\ pc' \notin HoldingStates /\ held' = NoAttendance
    BY <1>8 DEF FlagNewDay, HoldingStates, RowStates, ToggleStates
  <2>4. UNCHANGED <<now, rows, cursor, attendance, lastClose, lastReconcile, todo, cur,
                    seen, cfgClose, closing, runDate, faults, manual>>
    BY <1>8 DEF FlagNewDay, FlagCheckIn, environment
  <2>5. faults' \in Nat /\ rows[cur].emp \in Employees
    BY <2>4, <1>8 DEF TypeOK, FlagNewDay, ToggleStates
  <2> QED
    BY <2>1, <2>2, <2>3, <2>4, <2>5, <1>seq, TableStepType
<1>9. CASE WriteCheckOut
  <2>1. pc \in HoldingStates /\ pc \in RowStates
    BY <1>9 DEF WriteCheckOut, HoldingStates, RowStates, ToggleStates
  <2>2. held \in DOMAIN attendance /\ held # NoAttendance
    BY <2>1, <1>holding, <1>seq
  <2>3. WriteAttendance(CheckedOut(held), held, "markOut", held)
    BY <1>9 DEF WriteCheckOut
  <2>4. pc \in ToggleStates
    BY <1>9 DEF WriteCheckOut, ToggleStates
  <2>5. "markOut" \in RowStates /\ "markOut" \in HoldingStates
    BY DEF RowStates, ToggleStates, HoldingStates
  <2> QED
    BY <2>1, <2>2, <2>3, <2>4, <2>5, <1>seq, CheckedOutType, WriteAttendanceType
<1>10. CASE CreateCheckIn
  <2> DEFINE r == [emp |-> rows[cur].emp, in |-> rows[cur].at, out |-> Open,
                   inEv |-> cur, outEv |-> NoEvent, src |-> "biometric", auto |-> "no"]
             table == Append(attendance, r)
  <2>1. pc = "checkIn" /\ WriteAttendance(table, Len(table), "markIn", Len(table))
    BY <1>10 DEF CreateCheckIn
  <2>2. pc \in RowStates
    BY <2>1 DEF RowStates, ToggleStates
  <2>3. rows[cur].emp \in Employees
    <3>1. rows[cur].emp \in Employees \cup {NoEmployee}
      BY <2>2, CurrentRow DEF Row
    <3> QED
      BY <2>1, <3>1 DEF TypeOK, ToggleStates
  <2>4. r \in AttendanceRecord
    BY <2>2, <2>3, CurrentRow DEF AttendanceRecord
  <2> HIDE DEF r
  <2>5. table \in Seq(AttendanceRecord) /\ Len(table) = Len(attendance) + 1
    BY <2>4, <1>seq
  <2>6. Len(table) \in DOMAIN table /\ Len(table) # NoAttendance
    BY <2>5, <1>seq
  <2> HIDE DEF table
  <2> QED
    BY <2>1, <2>2, <2>5, <2>6, <1>seq, WriteAttendanceType DEF HoldingStates, RowStates, ToggleStates
<1>11. CASE MarkCheckOut \/ MarkCheckIn
  <2>1. /\ pc \in RowStates /\ RowDone
        /\ UNCHANGED <<cursor, attendance, lastClose, lastReconcile>>
        /\ held \in Nat
    BY <1>11, <1>seq DEF MarkCheckOut, MarkCheckIn, MarkEvent, RowStates, ToggleStates, TypeOK
  <2>2. PICK st \in Accepted : event' = [event EXCEPT ![cur].status = st, ![cur].att = held]
    BY <1>11 DEF MarkCheckOut, MarkCheckIn, MarkEvent, Accepted
  <2>3. st \in Status
    BY DEF Status, Final, Settled
  <2>4. event' \in [Ids -> [status : Status, att : Nat, flagged : BOOLEAN]]
    BY <2>1, <2>2, <2>3, <1>seq, CurrentRow
  <2> QED
    BY <2>1, <2>4, RowDoneType
<1>12. CASE StageError
  <2>1. pc = "fault" /\ pc' = "advance" /\ Upsert(cur, "error", NoAttendance)
    BY <1>12 DEF StageError
  <2>2. pc \in RowStates /\ pc' \in RowStates /\ pc' \notin HoldingStates
        /\ pc' \notin ToggleStates /\ held' = NoAttendance
    BY <1>12, <2>1 DEF StageError, local, RowStates, ToggleStates, HoldingStates, TypeOK
  <2>3. UNCHANGED <<now, rows, cursor, attendance, lastClose, lastReconcile, todo, cur,
                    seen, cfgClose, closing, runDate, faults, manual>>
    BY <1>12 DEF StageError, Upsert, environment, local
  <2>4. event' \in [Ids -> [status : Status, att : Nat, flagged : BOOLEAN]]
    BY <2>1, <2>2, CurrentRow, UpsertType DEF Status, Final
  <2>5. faults' \in Nat
    BY <2>3 DEF TypeOK
  <2> QED
    BY <2>2, <2>3, <2>4, <2>5, <1>seq, TableStepType
<1>13. CASE ErrorNotUnique \/ CycleLost
  <2>1. Forget /\ UNCHANGED <<now, rows, cursor, event, attendance, lastClose,
                              lastReconcile, manual>>
    BY <1>13 DEF ErrorNotUnique, CycleLost, odoo, environment
  <2>2. faults' \in Nat
    BY <1>13 DEF ErrorNotUnique, CycleLost, environment, TypeOK
  <2> QED
    BY <2>1, <2>2, <1>seq, ForgetType DEF TypeOK
<1>14. CASE AdvanceCursor
  <2>1. UNCHANGED <<now, rows, faults, manual, event, attendance, lastClose,
                    lastReconcile, seen, cfgClose, held, closing, runDate>>
    BY <1>14 DEF AdvanceCursor, environment
  <2>2. pc = "advance" /\ cursor' = cur /\ todo' \subseteq todo
    BY <1>14 DEF AdvanceCursor
  <2>3. cur \in Ids
    BY <2>2, <1>states, CurrentRow
  <2>4. /\ IF pc' \in RowStates THEN cur' \in todo' ELSE todo' = {} /\ cur' = 0
        /\ pc' \in {"close", "row"}
    BY <1>14 DEF AdvanceCursor, NextRow, OldestFirst, RowStates, ToggleStates
  <2> QED
    BY <2>1, <2>2, <2>3, <2>4
    DEF TypeOK, RowStates, ToggleStates, HoldingStates, CloseStates, Committed
<1>15. CASE StartClose
  <2>1. UNCHANGED <<now, rows, faults, manual, cursor, event, attendance, lastClose,
                    lastReconcile, todo, cur, seen, cfgClose, held>>
    BY <1>15 DEF StartClose, odoo, environment
  <2>2. closing' \subseteq DOMAIN attendance /\ pc = "close" /\ pc' = "closing"
    BY <1>15 DEF StartClose, DueForClose
  <2>3. runDate' \in Nat
    BY <1>15, DayType DEF StartClose, TypeOK
  <2> QED
    BY <2>1, <2>2, <2>3
    DEF TypeOK, RowStates, ToggleStates, HoldingStates, CloseStates, Committed
<1>16. CASE SkipClose
  <2>1. UNCHANGED <<now, rows, cursor, event, attendance, lastClose, lastReconcile,
                    faults, manual, todo, cur, seen, cfgClose, held, closing, runDate>>
    BY <1>16 DEF SkipClose, odoo, environment, local
  <2>2. pc = "close" /\ pc' = "reconcile"
    BY <1>16 DEF SkipClose
  <2> QED
    BY <2>1, <2>2 DEF TypeOK, RowStates, ToggleStates, HoldingStates, CloseStates, Committed
<1>17. CASE CloseOne
  <2>1. PICK i \in closing :
          /\ pc = "closing"
          /\ IF OdooAccepts(AutoClosed(i, "eod"), i)
             THEN /\ attendance' = AutoClosed(i, "eod") /\ held' = i /\ pc' = "closingFlag"
                  /\ UNCHANGED <<todo, cur, seen, cfgClose, closing, runDate>>
             ELSE Forget /\ UNCHANGED attendance
    BY <1>17 DEF CloseOne
  <2>2. UNCHANGED <<now, rows, faults, manual, cursor, event, lastClose, lastReconcile>>
    BY <1>17 DEF CloseOne, environment
  <2>3. i \in DOMAIN attendance
    BY DEF TypeOK
  <2>4. CASE OdooAccepts(AutoClosed(i, "eod"), i)
    <3>1. /\ attendance' \in Seq(AttendanceRecord) /\ DOMAIN attendance' = DOMAIN attendance
          /\ pc' = "closingFlag" /\ held' = i
          /\ UNCHANGED <<todo, cur, seen, cfgClose, closing, runDate>>
      BY <2>1, <2>3, <2>4, AutoClosedType
    <3> QED
      BY <3>1, <2>1, <2>2, <2>3, <1>seq
      DEF TypeOK, RowStates, ToggleStates, HoldingStates, CloseStates, Committed
  <2>5. CASE ~OdooAccepts(AutoClosed(i, "eod"), i)
    <3>1. Forget /\ UNCHANGED attendance
      BY <2>1, <2>5
    <3> QED
      BY <3>1, <2>2, <1>seq, ForgetType DEF TypeOK
  <2> QED
    BY <2>4, <2>5
<1>18. CASE FlagClosed
  <2>1. pc = "closingFlag" /\ FlagCheckIn(held) /\ pc' = "closing" /\ held' = NoAttendance
        /\ closing' \subseteq closing
    BY <1>18 DEF FlagClosed
  <2>2. held \in DOMAIN attendance
    BY <2>1, <1>holding DEF HoldingStates
  <2>3. event' \in [Ids -> [status : Status, att : Nat, flagged : BOOLEAN]]
    BY <2>1, <2>2, FlagType
  <2>4. UNCHANGED <<now, rows, faults, manual, cursor, attendance, lastClose,
                    lastReconcile, todo, cur, seen, cfgClose, runDate>>
    BY <1>18 DEF FlagClosed, FlagCheckIn, environment
  <2> QED
    BY <2>1, <2>3, <2>4
    DEF TypeOK, RowStates, ToggleStates, HoldingStates, CloseStates, Committed
<1>19. CASE RecordClose
  <2>1. UNCHANGED <<now, rows, faults, manual, cursor, event, attendance, lastReconcile,
                    todo, cur, seen, cfgClose, held, closing, runDate>>
    BY <1>19 DEF RecordClose, environment, local
  <2>2. pc = "closing" /\ closing = {} /\ pc' = "reconcile" /\ lastClose' = runDate
    BY <1>19 DEF RecordClose
  <2> QED
    BY <2>1, <2>2
    DEF TypeOK, RowStates, ToggleStates, HoldingStates, CloseStates, Committed
<1>20. CASE Reconcile
  <2>1. Forget /\ UNCHANGED <<now, rows, faults, manual, cursor, event, attendance, lastClose>>
    BY <1>20 DEF Reconcile, environment
  <2>2. lastReconcile' \in Nat \cup {NoDate}
    BY <1>20, DayType DEF Reconcile, TypeOK
  <2> QED
    BY <2>1, <2>2, <1>seq, ForgetType DEF TypeOK
<1>21. CASE CallFails
  <2>1. pc \in RowStates /\ pc' = "fault" /\ held' = NoAttendance /\ faults' = faults + 1
    BY <1>21 DEF CallFails, RowStates, ToggleStates
  <2>2. UNCHANGED <<now, rows, manual, cursor, event, attendance, lastClose,
                    lastReconcile, todo, cur, seen, cfgClose, closing, runDate>>
    BY <1>21 DEF CallFails, odoo
  <2>3. pc' \in RowStates /\ pc' \notin HoldingStates /\ pc' \notin ToggleStates
        /\ faults' \in Nat
    BY <2>1 DEF RowStates, ToggleStates, HoldingStates, TypeOK
  <2> QED
    BY <2>1, <2>2, <2>3, <1>seq, TableStepType
<1>22. CASE Tick
  <2>1. UNCHANGED <<rows, cursor, event, attendance, lastClose, lastReconcile, pc,
                    faults, manual, todo, cur, seen, cfgClose, held, closing, runDate>>
    BY <1>22 DEF Tick, odoo, local
  <2>2. now' \in Nat
    BY <1>22 DEF Tick, TypeOK
  <2> QED
    BY <2>1, <2>2 DEF TypeOK, Committed
<1>23. ASSUME NEW id \in Ids, NEW q \in Punches, CommitRow(id, q) PROVE TypeOK'
  <2>1. UNCHANGED <<now, cursor, event, attendance, lastClose, lastReconcile, pc,
                    faults, manual, todo, cur, seen, cfgClose, held, closing, runDate>>
    BY <1>23 DEF CommitRow, odoo, local
  <2>2. rows' \in [Ids -> Punches \cup {NoRow}] /\ rows[id] = NoRow /\ q # NoRow
    BY <1>23, SyncAssumption DEF CommitRow, TypeOK, Row, NoRow
  <2>3. \A o \in Committed : rows'[o] = rows[o] /\ o \in Committed'
    BY <1>23, <2>2 DEF CommitRow, Committed, TypeOK
  <2>4. pc \in ToggleStates => cur \in Committed
    BY DEF TypeOK, RowStates
  <2>5. pc \in ToggleStates => rows'[cur].emp \in Employees
    BY <2>3, <2>4 DEF TypeOK
  <2> QED
    BY <2>1, <2>2, <2>3, <2>5 DEF TypeOK
<1>24. ASSUME NEW e \in Employees, OtherCheckIn(e) PROVE TypeOK'
  <2> DEFINE r == [emp |-> e, in |-> now, out |-> Open, inEv |-> NoEvent,
                   outEv |-> NoEvent, src |-> "other", auto |-> "no"]
             table == Append(attendance, r)
  <2>1. OdooEdit(table)
    BY <1>24 DEF OtherCheckIn
  <2>2. r \in AttendanceRecord
    BY DEF AttendanceRecord, TypeOK
  <2> HIDE DEF r
  <2>3. table \in Seq(AttendanceRecord) /\ Len(table) = Len(attendance) + 1
    BY <2>2, <1>seq
  <2>4. UNCHANGED <<now, rows, faults, cursor, event, lastClose, lastReconcile, pc,
                    todo, cur, seen, cfgClose, held, closing, runDate>>
        /\ attendance' = table /\ manual' = manual + 1
    BY <2>1 DEF OdooEdit, local
  <2> HIDE DEF table
  <2> QED
    BY <2>3, <2>4, <1>seq DEF TypeOK, Committed
<1>25. ASSUME NEW i \in DOMAIN attendance, OtherCheckOut(i) PROVE TypeOK'
  <2> DEFINE table == [attendance EXCEPT ![i].out = now]
  <2>1. OdooEdit(table)
    BY <1>25 DEF OtherCheckOut
  <2>2. now \in Nat /\ attendance[i] \in AttendanceRecord
    BY <1>seq DEF TypeOK
  <2>3. [attendance[i] EXCEPT !.out = now] \in AttendanceRecord
    BY <2>2 DEF AttendanceRecord
  <2>4. table \in Seq(AttendanceRecord) /\ Len(table) = Len(attendance)
    BY <2>3, <1>seq, ExceptSeq
  <2>5. UNCHANGED <<now, rows, faults, cursor, event, lastClose, lastReconcile, pc,
                    todo, cur, seen, cfgClose, held, closing, runDate>>
        /\ attendance' = table /\ manual' = manual + 1
    BY <2>1 DEF OdooEdit, local
  <2> HIDE DEF table
  <2> QED
    BY <2>4, <2>5, <1>seq DEF TypeOK, Committed
<1>26. CASE UNCHANGED vars
  BY <1>26 DEF vars, TypeOK, Committed
<1> QED
  BY <1>1, <1>2, <1>3, <1>4, <1>5, <1>6, <1>7, <1>8, <1>9, <1>10, <1>11, <1>12, <1>13,
     <1>14, <1>15, <1>16, <1>17, <1>18, <1>19, <1>20, <1>21, <1>22, <1>23, <1>24, <1>25,
     <1>26 DEF Next, WorkerStep

(* Every variable keeps its type, the batch its rows and the worker's      *)
(* program counter its meaning, through every crash and failed call.       *)
THEOREM TypeCorrect == Spec => []TypeOK
<1>1. Init => TypeOK
  BY TypeInit
<1>2. TypeOK /\ [Next]_vars => TypeOK'
  BY TypeStep
<1> QED
  BY <1>1, <1>2, PTL DEF Spec

(***************************************************************************)
(* The order of the rows.  What follows assumes that the router is the     *)
(* only writer of normalized_event: with a second one a row may be         *)
(* committed below the cursor.                                             *)
(***************************************************************************)

(* Ids are committed without gaps; the batch is what is committed between  *)
(* the cursor and its last row, and cur is its first.                      *)
BatchInv ==
  /\ cursor = 0 \/ cursor \in Committed
  /\ \A id \in Committed : \A lower \in 1 .. id - 1 : lower \in Committed
  /\ \A t \in todo : cursor < t /\ cur <= t
  /\ \A t \in todo, o \in Committed : cursor < o /\ o < t => o \in todo

(* Besides the rows the cursor has passed only the next one can be staged; *)
(* the prefetched statuses of the rows still to come are the actual ones.  *)
StageInv ==
  /\ \A id \in Ids : event[id].status # "none" =>
       /\ id \in Committed
       /\ id <= cursor \/ \A o \in Committed : cursor < o => id <= o
  /\ \A t \in todo : t # cur \/ pc = "row" => seen[t] = event[t].status
  /\ pc = "advance" => event[cur].status \in Final
  /\ PassedIsStaged

(* A row that reached the toggle is beyond the debounce window of every    *)
(* accepted punch of its employee.                                         *)
ApartInv ==
  /\ pc \in ToggleStates => event[cur].status = "pending"
  /\ pc \in ToggleStates => \A a \in AcceptedOf(rows[cur].emp) :
                              rows[cur].at - rows[a].at > Debounce
  /\ AcceptedAreApart

(***************************************************************************)
(* What the steps do to the rows, the statuses, the cursor and the batch.  *)
(***************************************************************************)
SameStatuses == \A id \in Ids : event'[id].status = event[id].status

OnlyCurStaged(st) ==
  /\ event'[cur].status = st
  /\ \A id \in Ids \ {cur} : event'[id].status = event[id].status

(* Neither a row, a status, the cursor nor the batch changes.              *)
QuietStep ==
  /\ SameStatuses /\ UNCHANGED <<rows, cursor, todo, cur, seen>>
  /\ \/ pc' = pc
     \/ pc \in ToggleStates /\ pc' \in ToggleStates
     \/ pc' = "fault"
     \/ pc' \notin RowStates
     \/ pc = "row" /\ pc' = "advance" /\ seen[cur] \in Settled

(* The row is staged with a final outcome.                                 *)
OutcomeStep ==
  /\ UNCHANGED <<rows, cursor, todo, cur, seen>>
  /\ pc \in RowStates
  /\ \E st \in Final : OnlyCurStaged(st) /\ (st \in Accepted => pc \in ToggleStates)
  /\ pc' \in {"advance", "fault"}

(* The row is let through to the toggle.                                   *)
PendingStep ==
  /\ UNCHANGED <<rows, cursor, todo, cur, seen>>
  /\ pc = "row" /\ pc' = "toggle"
  /\ OnlyCurStaged("pending") /\ ~IsDuplicate(rows[cur])

(* The cycle ends.                                                         *)
EndStep ==
  /\ SameStatuses /\ UNCHANGED <<rows, cursor>>
  /\ todo' = {} /\ cur' = 0 /\ pc' \notin RowStates

CommitStep ==
  /\ SameStatuses /\ UNCHANGED <<cursor, todo, cur, seen, pc>>
  /\ \E id \in Ids, q \in Punches : CommitRow(id, q)

(* Every step of the worker and of its environment is one of these.        *)
LEMMA StepShapes ==
  ASSUME TypeOK, [Next]_vars
  PROVE  \/ QuietStep \/ OutcomeStep \/ PendingStep \/ EndStep \/ CommitStep
         \/ StartCycle \/ AdvanceCursor
<1> USE DEF NoAttendance
<1>typ. /\ event \in [Ids -> [status : Status, att : Nat, flagged : BOOLEAN]]
        /\ pc \in HoldingStates => held \in DOMAIN attendance
  BY DEF TypeOK, HoldingStates
<1>pcs. /\ RowStates = {"row", "toggle", "newDay", "newDayFlag", "checkOut",
                        "checkIn", "markOut", "markIn", "fault", "advance"}
        /\ ToggleStates = {"toggle", "newDay", "newDayFlag", "checkOut", "checkIn",
                           "markOut", "markIn"}
        /\ HoldingStates = {"newDay", "newDayFlag", "checkOut", "markOut", "markIn",
                            "closingFlag"}
  BY DEF RowStates, ToggleStates, HoldingStates
<1>1. CASE SkipStaged \/ FindOpen \/ StartClose \/ SkipClose \/ CallFails \/ Tick
  BY <1>1, <1>pcs
  DEF QuietStep, SameStatuses, SkipStaged, FindOpen, StartClose, SkipClose, CallFails,
      Tick, odoo, environment, local
<1>2. CASE CloseBeforeNewDay \/ WriteCheckOut \/ CreateCheckIn
  <2>1. /\ UNCHANGED <<rows, cursor, event, todo, cur, seen>>
        /\ pc \in ToggleStates /\ pc' \in ToggleStates \cup {"fault"}
    BY <1>2, <1>pcs DEF CloseBeforeNewDay, WriteCheckOut, CreateCheckIn, WriteAttendance,
       environment
  <2> QED
    BY <2>1 DEF QuietStep, SameStatuses
<1>3. CASE FlagNewDay \/ FlagClosed
  <2>1. /\ UNCHANGED <<rows, cursor, todo, cur, seen>> /\ FlagCheckIn(held)
        /\ pc \in HoldingStates
        /\ (pc \in ToggleStates /\ pc' \in ToggleStates) \/ pc' \notin RowStates
    BY <1>3, <1>pcs DEF FlagNewDay, FlagClosed, FlagCheckIn, environment
  <2>2. SameStatuses
    BY <2>1, <1>typ, FlagType DEF SameStatuses
  <2> QED
    BY <2>1, <2>2 DEF QuietStep
<1>4. CASE RecordClose
  BY <1>4, <1>pcs DEF QuietStep, SameStatuses, RecordClose, environment, local
<1>5. CASE StageRefused \/ StageDuplicate
  <2>1. /\ RowDone /\ pc = "row" /\ cursor' = cursor
        /\ \E st \in Final \ Accepted, a \in Nat : Upsert(cur, st, a)
    BY <1>5, <1>typ DEF StageRefused, StageDuplicate, Upsert, AcceptedOf, Final, Settled,
       Accepted
  <2>2. pc \in RowStates /\ cur \in Ids
    BY <2>1, <1>pcs, CurrentRow
  <2>3. \E st \in Final \ Accepted : OnlyCurStaged(st)
    BY <2>1, <2>2, UpsertType DEF OnlyCurStaged, Status
  <2> QED
    BY <2>1, <2>2, <2>3 DEF OutcomeStep, RowDone
<1>6. CASE StagePending
  <2>1. /\ pc = "row" /\ pc' = "toggle" /\ Upsert(cur, "pending", NoAttendance)
        /\ ~IsDuplicate(rows[cur])
        /\ UNCHANGED <<rows, cursor, todo, cur, seen>>
    BY <1>6 DEF StagePending, Upsert, environment, local
  <2>2. cur \in Ids
    BY <2>1, <1>pcs, CurrentRow
  <2>3. OnlyCurStaged("pending")
    BY <2>1, <2>2, UpsertType DEF OnlyCurStaged, Status
  <2> QED
    BY <2>1, <2>3 DEF PendingStep
<1>7. CASE MarkCheckOut \/ MarkCheckIn
  <2>1. /\ RowDone /\ pc \in ToggleStates /\ cursor' = cursor
        /\ \E st \in Accepted : event' = [event EXCEPT ![cur].status = st, ![cur].att = held]
    BY <1>7, <1>pcs DEF MarkCheckOut, MarkCheckIn, MarkEvent, Accepted
  <2>2. pc \in RowStates /\ cur \in Ids
    BY <2>1, <1>pcs, CurrentRow
  <2>3. \E st \in Accepted : OnlyCurStaged(st)
    BY <2>1, <2>2, <1>typ DEF OnlyCurStaged
  <2> QED
    BY <2>1, <2>2, <2>3 DEF OutcomeStep, RowDone, Final, Settled
<1>8. CASE StageError
  <2>1. /\ pc = "fault" /\ pc' = "advance" /\ Upsert(cur, "error", NoAttendance)
        /\ UNCHANGED <<rows, cursor, todo, cur, seen>>
    BY <1>8 DEF StageError, Upsert, environment, local
  <2>2. pc \in RowStates /\ cur \in Ids
    BY <2>1, <1>pcs, CurrentRow
  <2>3. OnlyCurStaged("error") /\ "error" \in Final /\ "error" \notin Accepted
    BY <2>1, <2>2, UpsertType DEF OnlyCurStaged, Status, Final, Settled, Accepted
  <2> QED
    BY <2>1, <2>2, <2>3 DEF OutcomeStep
<1>9. CASE ErrorNotUnique \/ CycleLost \/ Reconcile
  BY <1>9, <1>pcs DEF EndStep, SameStatuses, ErrorNotUnique, CycleLost, Reconcile, Forget,
     odoo, environment
<1>10. CASE CloseOne
  <2>1. PICK i \in closing :
          /\ pc = "closing"
          /\ IF OdooAccepts(AutoClosed(i, "eod"), i)
             THEN pc' = "closingFlag" /\ UNCHANGED <<todo, cur, seen>>
             ELSE Forget
    BY <1>10 DEF CloseOne
  <2>2. UNCHANGED <<rows, cursor, event>>
    BY <1>10 DEF CloseOne, environment
  <2> QED
    BY <2>1, <2>2, <1>pcs DEF QuietStep, EndStep, SameStatuses, Forget
<1>11. ASSUME NEW id \in Ids, NEW q \in Punches, CommitRow(id, q) PROVE CommitStep
  BY <1>11 DEF CommitStep, CommitRow, SameStatuses, odoo, local
<1>12. ASSUME NEW e \in Employees, OtherCheckIn(e) PROVE QuietStep
  BY <1>12 DEF OtherCheckIn, OdooEdit, QuietStep, SameStatuses, local
<1>13. ASSUME NEW i \in DOMAIN attendance, OtherCheckOut(i) PROVE QuietStep
  BY <1>13 DEF OtherCheckOut, OdooEdit, QuietStep, SameStatuses, local
<1>14. CASE UNCHANGED vars
  BY <1>14 DEF vars, QuietStep, SameStatuses
<1> QED
  BY <1>1, <1>2, <1>3, <1>4, <1>5, <1>6, <1>7, <1>8, <1>9, <1>10, <1>11, <1>12, <1>13,
     <1>14 DEF Next, WorkerStep

(* The LIMIT of the query cuts the batch off at the end only: a row that   *)
(* waits before a row of the batch is in the batch.                        *)
LEMMA NextRowsPrefix ==
  ASSUME TypeOK, NEW t \in NextRows, NEW o \in Committed, cursor < o, o < t
  PROVE  o \in NextRows
<1> DEFINE before(x) == {r \in Committed : cursor < r /\ r < x}
<1>1. MaxId \in Nat /\ BatchSize \in Nat /\ t \in Ids /\ o \in Ids /\ cursor \in Int
  BY SyncAssumption DEF NextRows, Committed, TypeOK, Ids
<1>2. IsFiniteSet(Ids)
  BY <1>1, FS_Interval DEF Ids
<1>3. before(t) \subseteq Ids /\ before(o) \subseteq before(t)
  BY <1>1 DEF Committed, Ids
<1>4. IsFiniteSet(before(t))
  BY <1>2, <1>3, FS_Subset
<1>5. IsFiniteSet(before(o)) /\ Cardinality(before(o)) <= Cardinality(before(t))
  BY <1>3, <1>4, FS_Subset
<1>6. Cardinality(before(t)) \in Nat /\ Cardinality(before(o)) \in Nat
  BY <1>4, <1>5, FS_CardinalityType
<1>7. Cardinality(before(t)) < BatchSize
  BY DEF NextRows
<1>8. Cardinality(before(o)) < BatchSize
  BY <1>1, <1>5, <1>6, <1>7
<1> QED
  BY <1>8 DEF NextRows

(* Committing a row keeps every row that was there, and comes after it.    *)
LEMMA CommitIsLast ==
  ASSUME ~TwoWriters, TypeOK, BatchInv, NEW id \in Ids, NEW q \in Punches, CommitRow(id, q)
  PROVE  /\ Committed' = Committed \cup {id}
         /\ \A o \in Committed : o < id /\ rows'[o] = rows[o]
<1>1. /\ rows \in [Ids -> Punches \cup {NoRow}] /\ rows' = [rows EXCEPT ![id] = q]
      /\ rows[id] = NoRow /\ \A lower \in 1 .. id - 1 : rows[lower] # NoRow
  BY DEF CommitRow, TypeOK
<1>2. q # NoRow
  BY SyncAssumption DEF Row, NoRow
<1>3. Committed' = Committed \cup {id}
  BY <1>1, <1>2 DEF Committed
<1>4. ASSUME NEW o \in Committed PROVE o < id /\ rows'[o] = rows[o]
  <2>1. o # id /\ o \in Ids /\ Ids \subseteq Nat
    BY <1>1 DEF Committed, Ids
  <2>2. id < o => id \in 1 .. o - 1
    BY <2>1 DEF Ids
  <2>3. ~(id < o)
    BY <2>2, <1>1 DEF BatchInv, Committed
  <2> QED
    BY <1>1, <2>1, <2>3
<1> QED
  BY <1>3, <1>4

(* The batch keeps its shape in every step.                                *)
LEMMA BatchStep ==
  ASSUME ~TwoWriters, TypeOK, BatchInv, [Next]_vars PROVE BatchInv'
<1>typ. /\ Ids \subseteq Nat /\ Committed \subseteq Ids /\ cursor \in Nat
        /\ todo \subseteq Committed
  BY DEF Ids, Committed, TypeOK
<1>1. CASE QuietStep \/ OutcomeStep \/ PendingStep
  <2>1. UNCHANGED <<rows, cursor, todo, cur>>
    BY <1>1 DEF QuietStep, OutcomeStep, PendingStep
  <2> QED
    BY <2>1 DEF BatchInv, Committed
<1>2. CASE EndStep
  BY <1>2 DEF EndStep, BatchInv, Committed
<1>3. CASE CommitStep
  <2>1. PICK id \in Ids, q \in Punches : CommitRow(id, q)
    BY <1>3 DEF CommitStep
  <2>2. /\ Committed' = Committed \cup {id}
        /\ \A o \in Committed : o < id
    BY <2>1, CommitIsLast
  <2>3. \A lower \in 1 .. id - 1 : lower \in Committed'
    <3>1. \A lower \in 1 .. id - 1 : rows[lower] # NoRow
      BY <2>1 DEF CommitRow
    <3>2. \A lower \in 1 .. id - 1 : lower \in Ids
      BY SyncAssumption DEF Ids
    <3> QED
      BY <3>1, <3>2, <2>2 DEF Committed
  <2>4. UNCHANGED <<cursor, todo, cur>>
    BY <1>3 DEF CommitStep
  <2> QED
    BY <2>2, <2>3, <2>4, <1>typ DEF BatchInv
<1>4. CASE StartCycle
  <2>1. UNCHANGED <<rows, cursor>> /\ todo' = NextRows /\ NextRow
    BY <1>4 DEF StartCycle, odoo, environment
  <2>2. Committed' = Committed /\ NextRows \subseteq Committed
    BY <2>1 DEF Committed, NextRows
  <2>3. \A t \in NextRows : cursor < t
    BY DEF NextRows
  <2>4. \A t \in todo' : cur' <= t
    BY <2>1 DEF NextRow, OldestFirst
  <2>5. \A t \in NextRows, o \in Committed : cursor < o /\ o < t => o \in NextRows
    BY NextRowsPrefix
  <2> QED
    BY <2>1, <2>2, <2>3, <2>4, <2>5 DEF BatchInv
<1>5. CASE AdvanceCursor
  <2>1. /\ pc = "advance" /\ rows' = rows /\ cursor' = cur /\ todo' = todo \ {cur}
        /\ \A t \in todo' : cur' <= t
    BY <1>5 DEF AdvanceCursor, NextRow, OldestFirst, environment
  <2>2. cur \in todo /\ cursor < cur
    BY <2>1, CurrentRow DEF RowStates, BatchInv
  <2>3. Committed' = Committed
    BY <2>1 DEF Committed
  <2> QED
    BY <2>1, <2>2, <2>3, <1>typ DEF BatchInv
<1> QED
  BY <1>1, <1>2, <1>3, <1>4, <1>5, StepShapes

(* Staging stays one row ahead of the cursor, and never behind it.         *)
LEMMA StageStep ==
  ASSUME ~TwoWriters, TypeOK, BatchInv, StageInv, [Next]_vars PROVE StageInv'
<1>typ. /\ Ids \subseteq Nat /\ Committed \subseteq Ids /\ cursor \in Nat
        /\ todo \subseteq Committed
        /\ event \in [Ids -> [status : Status, att : Nat, flagged : BOOLEAN]]
  BY DEF Ids, Committed, TypeOK
<1>row. pc \in RowStates => cur \in todo /\ cur \in Committed /\ cursor < cur
  BY CurrentRow, <1>typ DEF BatchInv
<1>sta. "none" \notin Final /\ Settled \subseteq Final /\ "pending" \notin Final
  BY DEF Final, Settled, Accepted
<1>1. CASE QuietStep
  <2>1. SameStatuses /\ UNCHANGED <<rows, cursor, todo, cur, seen>>
    BY <1>1 DEF QuietStep
  <2>2. Committed' = Committed
    BY <2>1 DEF Committed
  <2>3. pc' = "row" => pc = "row"
    BY <1>1 DEF QuietStep, ToggleStates, RowStates
  <2>4. pc' = "advance" => event'[cur].status \in Final
    <3>1. ASSUME pc' = "advance" PROVE pc = "advance" \/ (pc = "row" /\ seen[cur] \in Settled)
      BY <1>1, <3>1 DEF QuietStep, ToggleStates, RowStates
    <3>2. pc = "row" => cur \in todo /\ seen[cur] = event[cur].status
      BY <1>row DEF StageInv, RowStates
    <3>3. pc = "advance" => cur \in Ids /\ event[cur].status \in Final
      BY <1>row, <1>typ DEF StageInv, RowStates
    <3> QED
      BY <3>1, <3>2, <3>3, <2>1, <1>typ, <1>sta DEF SameStatuses
  <2>5. PassedIsStaged'
    BY <2>1, <2>2, <1>typ DEF SameStatuses, StageInv, PassedIsStaged
  <2>6. \A t \in todo' : t # cur' \/ pc' = "row" => seen'[t] = event'[t].status
    BY <2>1, <2>3, <1>typ DEF SameStatuses, StageInv
  <2>7. \A id \in Ids : event'[id].status # "none" =>
           id \in Committed' /\ (id <= cursor' \/ \A o \in Committed' : cursor' < o => id <= o)
    BY <2>1, <2>2 DEF SameStatuses, StageInv
  <2> QED
    BY <2>1, <2>4, <2>5, <2>6, <2>7 DEF StageInv
<1>2. CASE OutcomeStep \/ PendingStep
  <2>1. /\ UNCHANGED <<rows, cursor, todo, cur, seen>> /\ pc \in RowStates /\ pc' # "row"
    BY <1>2 DEF OutcomeStep, PendingStep, RowStates
  <2>2. PICK st : OnlyCurStaged(st) /\ (pc' = "advance" => st \in Final)
    BY <1>2 DEF OutcomeStep, PendingStep
  <2>3. Committed' = Committed /\ cur \in Committed /\ cur \in todo /\ cursor < cur
    BY <2>1, <1>row DEF Committed
  <2>4. \A o \in Committed : cursor < o => cur <= o
    <3>1. ASSUME NEW o \in Committed, cursor < o, o < cur PROVE FALSE
      BY <3>1, <2>3 , <1>typ DEF BatchInv
    <3> QED
      BY <3>1, <2>3, <1>typ
  <2>5. PassedIsStaged'
    BY <2>1, <2>2, <2>3, <1>typ DEF OnlyCurStaged, StageInv, PassedIsStaged
  <2>6. \A t \in todo' : t # cur' \/ pc' = "row" => seen'[t] = event'[t].status
    BY <2>1, <2>2, <1>typ DEF OnlyCurStaged, StageInv
  <2>7. \A id \in Ids : event'[id].status # "none" =>
           id \in Committed' /\ (id <= cursor' \/ \A o \in Committed' : cursor' < o => id <= o)
    BY <2>1, <2>2, <2>3, <2>4, <1>typ DEF OnlyCurStaged, StageInv
  <2>8. pc' = "advance" => event'[cur'].status \in Final
    BY <2>1, <2>2 DEF OnlyCurStaged
  <2> QED
    BY <2>5, <2>6, <2>7, <2>8 DEF StageInv
<1>3. CASE EndStep
  <2>1. /\ SameStatuses /\ UNCHANGED <<rows, cursor>> /\ todo' = {} /\ pc' # "advance"
        /\ Committed' = Committed
    BY <1>3 DEF EndStep, RowStates, Committed
  <2> QED
    BY <2>1, <1>typ DEF SameStatuses, StageInv, PassedIsStaged
<1>4. CASE CommitStep
  <2>1. PICK id \in Ids, q \in Punches : CommitRow(id, q)
    BY <1>4 DEF CommitStep
  <2>2. /\ Committed' = Committed \cup {id}
        /\ \A o \in Committed : o < id
    BY <2>1, CommitIsLast
  <2>3. SameStatuses /\ UNCHANGED <<cursor, todo, cur, seen, pc>>
    BY <1>4 DEF CommitStep
  <2>4. cursor < id
    BY <2>2, <1>typ DEF BatchInv, Ids
  <2>5. PassedIsStaged'
    <3>1. ASSUME NEW x \in Committed', x <= cursor PROVE event'[x].status \in Final
      <4>1. x \in Committed
        BY <3>1, <2>2, <2>4, <1>typ
      <4> QED
        BY <3>1, <4>1, <2>3, <1>typ DEF SameStatuses, StageInv, PassedIsStaged
    <3> QED
      BY <3>1, <2>3 DEF PassedIsStaged
  <2>6. \A t \in todo' : t # cur' \/ pc' = "row" => seen'[t] = event'[t].status
    BY <2>3, <1>typ DEF SameStatuses, StageInv
  <2>7. \A x \in Ids : event'[x].status # "none" =>
           x \in Committed' /\ (x <= cursor' \/ \A o \in Committed' : cursor' < o => x <= o)
    BY <2>2, <2>3, <1>typ DEF SameStatuses, StageInv
  <2>8. pc' = "advance" => event'[cur'].status \in Final
    BY <2>3, <1>row, <1>typ DEF SameStatuses, StageInv, RowStates
  <2> QED
    BY <2>5, <2>6, <2>7, <2>8 DEF StageInv
<1>5. CASE StartCycle
  <2>1. /\ UNCHANGED <<rows, cursor, event>> /\ todo' = NextRows /\ pc' # "advance"
        /\ seen' = [id \in Ids |-> IF id \in NextRows THEN event[id].status ELSE "none"]
    BY <1>5 DEF StartCycle, NextRow, odoo, environment
  <2>2. Committed' = Committed /\ NextRows \subseteq Ids
    BY <2>1 DEF Committed, NextRows
  <2> QED
    BY <2>1, <2>2 DEF StageInv, PassedIsStaged
<1>6. CASE AdvanceCursor
  <2>1. /\ pc = "advance" /\ rows' = rows /\ cursor' = cur /\ todo' = todo \ {cur}
        /\ seen' = seen /\ event' = event /\ pc' # "advance"
    BY <1>6 DEF AdvanceCursor, NextRow, environment
  <2>2. cur \in todo /\ cursor < cur /\ event[cur].status \in Final
    BY <2>1, <1>row DEF RowStates, StageInv
  <2>3. Committed' = Committed
    BY <2>1 DEF Committed
  <2>4. PassedIsStaged'
    <3>1. ASSUME NEW id \in Committed, id <= cur PROVE event[id].status \in Final
      <4>1. CASE id <= cursor
        BY <4>1 DEF StageInv, PassedIsStaged
      <4>2. CASE cursor < id /\ id < cur
        BY <4>2, <2>2, <1>typ DEF BatchInv
      <4>3. CASE id = cur
        BY <4>3, <2>2
      <4> QED
        BY <3>1, <4>1, <4>2, <4>3, <1>typ, <2>2
    <3> QED
      BY <3>1, <2>1, <2>3 DEF PassedIsStaged
  <2>5. \A id \in Ids : event'[id].status # "none" =>
           id \in Committed' /\ (id <= cursor' \/ \A o \in Committed' : cursor' < o => id <= o)
    BY <2>1, <2>2, <2>3, <1>typ DEF StageInv
  <2> QED
    BY <2>1, <2>4, <2>5 DEF StageInv
<1> QED
  BY <1>1, <1>2, <1>3, <1>4, <1>5, <1>6, StepShapes

(* The accepted punches stay apart: the debounce query saw every one of    *)
(* them, since none of a later row can have been accepted yet.             *)
LEMMA ApartStep ==
  ASSUME ~TwoWriters, TypeOK, BatchInv, StageInv, ApartInv, [Next]_vars PROVE ApartInv'
<1>typ. /\ Ids \subseteq Nat /\ Committed \subseteq Ids /\ cursor \in Nat
        /\ Debounce \in Nat /\ todo \subseteq Committed
  BY SyncAssumption DEF Ids, Committed, TypeOK
<1>at. \A id \in Ids : rows[id].at \in Int
  <2>1. \A id \in Ids : rows[id] \in Row \/ rows[id] = NoRow
    BY SyncAssumption DEF TypeOK
  <2> QED
    BY <2>1 DEF Row, NoRow
<1>pcs. /\ ToggleStates \subseteq RowStates
        /\ {"row", "fault", "advance", "close"} \cap ToggleStates = {}
  BY DEF RowStates, ToggleStates
<1>row. pc \in RowStates => cur \in todo /\ cur \in Committed /\ cur \in Ids /\ cursor < cur
  BY CurrentRow, <1>typ DEF BatchInv
<1>acc. "none" \notin Accepted /\ "pending" \notin Accepted
  BY DEF Accepted
<1>1. CASE QuietStep
  <2>1. SameStatuses /\ UNCHANGED <<rows, cur>>
    BY <1>1 DEF QuietStep
  <2>2. pc' \in ToggleStates => pc \in ToggleStates
    BY <1>1, <1>pcs DEF QuietStep
  <2>3. \A e : AcceptedOf(e)' = AcceptedOf(e)
    BY <2>1 DEF SameStatuses, AcceptedOf
  <2>4. AcceptedAreApart'
    BY <2>1 DEF SameStatuses, ApartInv, AcceptedAreApart
  <2> QED
    BY <2>1, <2>2, <2>3, <2>4, <1>row, <1>pcs DEF ApartInv, SameStatuses
<1>2. CASE OutcomeStep
  <2>1. rows' = rows /\ pc \in RowStates /\ pc' \notin ToggleStates
    BY <1>2, <1>pcs DEF OutcomeStep
  <2>2. PICK st : OnlyCurStaged(st) /\ (st \in Accepted => pc \in ToggleStates)
    BY <1>2 DEF OutcomeStep
  <2>3. ASSUME NEW i \in Ids, NEW j \in Ids, i < j, rows[i].emp = rows[j].emp,
               event'[i].status \in Accepted, event'[j].status \in Accepted
        PROVE  rows[j].at - rows[i].at > Debounce
    <3>1. CASE i # cur /\ j # cur
      BY <3>1, <2>2, <2>3 DEF OnlyCurStaged, ApartInv, AcceptedAreApart
    <3>2. CASE j = cur
      <4>1. i # cur /\ event[i].status \in Accepted
        BY <3>2, <2>2, <2>3, <1>typ DEF OnlyCurStaged
      <4>2. i \in AcceptedOf(rows[cur].emp)
        BY <4>1, <3>2, <2>3 DEF AcceptedOf
      <4> QED
        BY <4>2, <3>2, <2>2, <2>3 DEF ApartInv, OnlyCurStaged
    <3>3. CASE i = cur
      <4>1. j # cur /\ event[j].status \in Accepted
        BY <3>3, <2>2, <2>3, <1>typ DEF OnlyCurStaged
      <4>2. j <= cursor \/ j <= cur
        BY <4>1, <2>1, <1>row, <1>acc DEF StageInv
      <4> QED
        BY <4>2, <3>3, <2>1, <2>3, <1>row, <1>typ
    <3> QED
      BY <3>1, <3>2, <3>3
  <2>4. AcceptedAreApart'
    BY <2>1, <2>3 DEF AcceptedAreApart
  <2> QED
    BY <2>1, <2>4 DEF ApartInv
<1>3. CASE PendingStep
  <2>1. /\ UNCHANGED <<rows, cur>> /\ pc = "row" /\ OnlyCurStaged("pending")
        /\ ~IsDuplicate(rows[cur])
    BY <1>3 DEF PendingStep
  <2>2. cur \in Ids
    BY <2>1, <1>row DEF RowStates
  <2>3. AcceptedOf(rows[cur].emp)' \subseteq AcceptedOf(rows[cur].emp)
    BY <2>1, <1>acc DEF AcceptedOf, OnlyCurStaged
  <2>4. \A a \in AcceptedOf(rows[cur].emp) : rows[cur].at - rows[a].at > Debounce
    <3>1. ASSUME NEW a \in AcceptedOf(rows[cur].emp)
          PROVE  rows[cur].at - rows[a].at > Debounce
      <4>1. ~(rows[cur].at - rows[a].at <= Debounce)
        BY <2>1 DEF IsDuplicate
      <4>2. rows[cur].at \in Int /\ rows[a].at \in Int /\ Debounce \in Int
        BY <2>2, <1>at, <1>typ DEF AcceptedOf
      <4> QED
        BY <4>1, <4>2
    <3> QED
      BY <3>1
  <2>5. AcceptedAreApart'
    BY <2>1, <1>acc DEF OnlyCurStaged, ApartInv, AcceptedAreApart
  <2> QED
    BY <2>1, <2>3, <2>4, <2>5 DEF ApartInv, OnlyCurStaged
<1>4. CASE EndStep
  <2>1. SameStatuses /\ rows' = rows /\ pc' \notin ToggleStates
    BY <1>4, <1>pcs DEF EndStep
  <2> QED
    BY <2>1 DEF SameStatuses, ApartInv, AcceptedAreApart
<1>5. CASE CommitStep
  <2>1. PICK id \in Ids, q \in Punches : CommitRow(id, q)
    BY <1>5 DEF CommitStep
  <2>2. \A o \in Committed : rows'[o] = rows[o]
    BY <2>1, CommitIsLast
  <2>3. SameStatuses /\ UNCHANGED <<cur, pc>>
    BY <1>5 DEF CommitStep
  <2>4. \A o \in Ids : event'[o].status \in Accepted => o \in Committed
    BY <2>3, <1>acc DEF SameStatuses, StageInv
  <2>5. AcceptedAreApart'
    BY <2>2, <2>3, <2>4 DEF SameStatuses, ApartInv, AcceptedAreApart
  <2>6. \A e : AcceptedOf(e)' = AcceptedOf(e)
    BY <2>2, <2>3, <2>4 DEF AcceptedOf, SameStatuses
  <2>7. ASSUME pc \in ToggleStates, NEW a \in AcceptedOf(rows[cur].emp)
        PROVE  rows'[cur].at - rows'[a].at > Debounce
    <3>1. a \in Committed /\ cur \in Committed
      BY <2>3, <2>4, <2>7, <1>row, <1>pcs DEF AcceptedOf, SameStatuses
    <3> QED
      BY <3>1, <2>2, <2>7 DEF ApartInv
  <2>8. pc' \in ToggleStates =>
          /\ event'[cur'].status = "pending" /\ rows'[cur'].emp = rows[cur].emp
    BY <2>2, <2>3, <1>row, <1>pcs DEF ApartInv, SameStatuses
  <2> QED
    BY <2>3, <2>5, <2>6, <2>7, <2>8 DEF ApartInv
<1>6. CASE StartCycle \/ AdvanceCursor
  <2>1. UNCHANGED <<rows, event>> /\ pc' \notin ToggleStates
    BY <1>6, <1>pcs DEF StartCycle, AdvanceCursor, NextRow, odoo, environment
  <2> QED
    BY <2>1 DEF ApartInv, AcceptedAreApart
<1> QED
  BY <1>1, <1>2, <1>3, <1>4, <1>5, <1>6, StepShapes

LEMMA OrderInit == ASSUME Init PROVE BatchInv /\ StageInv /\ ApartInv
<1>1. /\ Committed = {} /\ cursor = 0 /\ todo = {} /\ pc = "idle"
      /\ \A id \in Ids : event[id].status = "none"
  BY DEF Init, Committed, Unstaged
<1>2. "none" \notin Accepted /\ "idle" \notin ToggleStates
  BY DEF Accepted, ToggleStates
<1> QED
  BY <1>1, <1>2 DEF BatchInv, StageInv, ApartInv, PassedIsStaged, AcceptedAreApart

LEMMA OrderInvariant ==
  ASSUME ~TwoWriters PROVE Spec => [](TypeOK /\ BatchInv /\ StageInv /\ ApartInv)
<1> DEFINE Inv == TypeOK /\ BatchInv /\ StageInv /\ ApartInv
<1>1. Init => Inv
  BY TypeInit, OrderInit
<1>2. Inv /\ [Next]_vars => Inv'
  BY TypeStep, BatchStep, StageStep, ApartStep
<1> QED
  BY <1>1, <1>2, PTL DEF Spec

(* While the router is the only writer of normalized_event, every row the  *)
(* cursor of run_cycle has passed is staged with a final outcome, whatever *)
(* the number of employees, rows, crashes, failed calls and Odoo edits.    *)
THEOREM StagedBehindCursor == ASSUME ~TwoWriters PROVE Spec => []PassedIsStaged
<1>1. TypeOK /\ BatchInv /\ StageInv /\ ApartInv => PassedIsStaged
  BY DEF StageInv
<1> QED
  BY <1>1, OrderInvariant, PTL

(* Two accepted punches of an employee are more than the debounce window   *)
(* apart, in the order of their ids, in every reachable state.             *)
THEOREM AcceptedPunchesApart == ASSUME ~TwoWriters PROVE Spec => []AcceptedAreApart
<1>1. TypeOK /\ BatchInv /\ StageInv /\ ApartInv => AcceptedAreApart
  BY DEF ApartInv
<1> QED
  BY <1>1, OrderInvariant, PTL
=============================================================================
