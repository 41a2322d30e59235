------------------------------ MODULE Journeys ------------------------------
(***************************************************************************)
(* devlyn_dahua_attendance_reporting: the journey of an employee and a     *)
(* local day (devlyn.attendance.journey and its segments), a table derived *)
(* from hr.attendance.  The hooks of hr.attendance rebuild the journeys an *)
(* edit concerns in the transaction of the edit; run_batch rebuilds a      *)
(* range of days and commits after every BatchSize of them; the backfill   *)
(* edits with skip_devlyn_journey_rebuild and rebuilds nothing.            *)
(*                                                                         *)
(* Every Odoo transaction works on the snapshot it began with (REPEATABLE  *)
(* READ): its own copy of the tables, and what others commit meanwhile,    *)
(* against which its own writes conflict.                                  *)
(***************************************************************************)
EXTENDS Integers, FiniteSets, FiniteSetsExt, Sequences

CONSTANTS
  Clients,         \* transactions of the worker, the bridge, HR, the backfill
  Batch,           \* the transaction of run_batch
  Employees,       \* employee ids
  Days,            \* the local days considered
  DayLen,          \* ticks in a local day
  AttendanceIds,   \* bound: the ids of hr.attendance
  Shifts,          \* the values Odoo lets an hr.attendance be given
  BatchSize,       \* keys run_batch rebuilds between two commits
  MaxEdits,        \* bound on the edits of hr.attendance
  MaxOpen,         \* bound on the transactions open at once
  LateKeys,        \* the keys a punch may come late for
  NoTxn, NoShift, NoJourney

Open == -1         \* the check_out of an open attendance
Keys == Employees \X Days

Shift == [emp : Employees, in : Nat, out : Nat \cup {Open},
          biometric : BOOLEAN, auto : BOOLEAN]
Table == [AttendanceIds -> Shifts \cup {NoShift}]

(* A segment, and a row of devlyn.attendance.journey with its segments.    *)
DayStates == {"open", "closed", "closed_auto"}
Segment == [id : AttendanceIds, in : Nat, out : Nat \cup {Open}, gap : Nat, state : DayStates]
JourneyRow ==
  [segments : Seq(Segment) \ {<<>>}, gap : Nat, state : DayStates, review : BOOLEAN]
JourneyTable == [Keys -> JourneyRow \cup {NoJourney}]

(* What a transaction did: attendances written, deleted and referred to by *)
(* segments, journey rows written, keys edited without a rebuild.          *)
Effects == [wrote : SUBSET AttendanceIds, gone : SUBSET AttendanceIds,
            refs : SUBSET AttendanceIds, built : SUBSET Keys, bypassed : SUBSET Keys]

(* Its tables, what it did, and what others committed since it began.      *)
TxnView == [att : Table, jour : JourneyTable, review : SUBSET LateKeys,
            mine : Effects, others : Effects]

ASSUME JourneyAssumption ==
  /\ Employees \subseteq Nat /\ Days \subseteq Nat /\ LateKeys \subseteq Keys
  /\ AttendanceIds \subseteq Nat /\ IsFiniteSet(AttendanceIds)
  /\ IsFiniteSet(Employees) /\ IsFiniteSet(Days)
  /\ DayLen \in Nat \ {0} /\ BatchSize \in Nat \ {0} /\ MaxEdits \in Nat /\ MaxOpen \in Nat
  /\ Shifts \subseteq Shift /\ NoShift \notin Shifts
  /\ \A s \in Shifts : s.in \div DayLen \in Days /\ (s.out = Open \/ s.in <= s.out)
  /\ Batch \notin Clients /\ NoTxn \notin TxnView /\ NoJourney \notin JourneyRow

VARIABLES
  att,      \* hr.attendance as committed: id -> shift, or NoShift
  jour,     \* devlyn.attendance.journey as committed: key -> row, or NoJourney
  review,   \* keys with a committed after_close_review event
  txn,      \* the open transactions: session -> its view, or NoTxn
  todo,     \* run_batch: the keys still to rebuild
  chunk,    \* run_batch: keys rebuilt since its last commit
  edits,    \* edits made so far
  skipped,  \* history: keys edited without a rebuild, and not rebuilt since
  owed      \* history: keys of the run not edited so since it began

vars == <<att, jour, review, txn, todo, chunk, edits, skipped, owed>>
Sessions == Clients \cup {Batch}

(***************************************************************************)
(* What a journey is.                                                      *)
(***************************************************************************)
(* _devlyn_journey_key_pairs of one attendance: the key it counts for.     *)
KeyPairs(shift) ==
  IF shift # NoShift /\ shift.biometric
  THEN {<<shift.emp, shift.in \div DayLen>>} ELSE {}

Attended(a, key) == {i \in AttendanceIds : key \in KeyPairs(a[i])}

(* Fault: segments in the order the attendances were created.              *)
SegmentByIdOnly(a, i, j) == i <= j

(* The order of segments: check_in, then id.                               *)
SegmentBefore(a, i, j) == a[i].in < a[j].in \/ (a[i].in = a[j].in /\ i <= j)

SegmentState(shift) ==
  IF shift.out = Open THEN "open" ELSE IF shift.auto THEN "closed_auto" ELSE "closed"

(* The gap before a segment; an open one leaves no gap behind it.          *)
GapBefore(previous, shift) ==
  IF previous.out = Open \/ shift.in < previous.out THEN 0 ELSE shift.in - previous.out

(* The one list of a set, an element of lists.                             *)
ListOf(lists) == CHOOSE f \in lists : TRUE

InOrder(a, ids) ==
  {f \in [1 .. Cardinality(ids) -> ids] :
     \A m, n \in 1 .. Cardinality(ids) : m < n => f[m] # f[n] /\ SegmentBefore(a, f[m], f[n])}

(* build_segment_payloads: the segments of the attendances ids of table a. *)
BuildSegments(a, ids) ==
  LET ordered == ListOf(InOrder(a, ids))
  IN  [n \in 1 .. Cardinality(ids) |->
         [id |-> ordered[n], in |-> a[ordered[n]].in, out |-> a[ordered[n]].out,
          state |-> SegmentState(a[ordered[n]]),
          gap |-> IF n = 1 THEN 0
                  ELSE GapBefore(a[ordered[n - 1]], a[ordered[n]])]]

PartialSums(f) ==
  LET s[n \in 0 .. Len(f)] == IF n = 0 THEN 0 ELSE s[n - 1] + f[n] IN s

Total(f) == PartialSums(f)[Len(f)]

TotalGap(segments) == Total([n \in DOMAIN segments |-> segments[n].gap])

DayState(segments) ==
  LET states == {segments[n].state : n \in DOMAIN segments}
  IN  IF "open" \in states THEN "open"
      ELSE IF "closed_auto" \in states THEN "closed_auto" ELSE "closed"

(* preview_journey: the row rebuild_journey leaves for a key.              *)
JourneyOf(a, reviews, key) ==
  LET segments == BuildSegments(a, Attended(a, key))
  IN  IF Attended(a, key) = {} THEN NoJourney
      ELSE [segments |-> segments, gap |-> TotalGap(segments),
            state |-> DayState(segments), review |-> key \in reviews]

SegmentIds(j) == IF j = NoJourney THEN {} ELSE {j.segments[n].id : n \in DOMAIN j.segments}

(***************************************************************************)
(* Transactions.                                                           *)
(***************************************************************************)
NoEffects == [wrote |-> {}, gone |-> {}, refs |-> {}, built |-> {}, bypassed |-> {}]
Both(x, y) == [f \in DOMAIN x |-> x[f] \cup y[f]]

Snapshot(a, j, r) == [att |-> a, jour |-> j, review |-> r,
                      mine |-> NoEffects, others |-> NoEffects]

(* PostgreSQL refuses to write a row somebody else wrote since the         *)
(* snapshot, a second journey of a key (UNIQUE), a segment of an           *)
(* attendance deleted meanwhile, and the deletion of one that was given a  *)
(* segment meanwhile.                                                      *)
Conflict(v) ==
  \/ v.mine.wrote \cap v.others.wrote # {}
  \/ v.mine.built \cap v.others.built # {}
  \/ v.mine.refs \cap v.others.gone # {}
  \/ v.mine.gone \cap v.others.refs # {}

(* rebuild_key_pairs in view v.  A key with no attendance and no journey   *)
(* is a noop and writes nothing.                                           *)
Rebuild(v, keys) ==
  LET new == [k \in keys |-> JourneyOf(v.att, v.review, k)]
      built == {k \in keys : v.jour[k] # NoJourney \/ new[k] # NoJourney}
      refs == UNION {SegmentIds(new[k]) : k \in keys}
  IN  [v EXCEPT !.jour = [k \in Keys |-> IF k \in keys THEN new[k] ELSE @[k]],
                !.mine.built = @ \cup built,
                !.mine.refs = @ \cup refs,
                !.mine.bypassed = @ \ keys]

(* Fault: the hook computes the keys after the write only.                 *)
KeysAfterOnly(old, new) == KeyPairs(new)

(* before_pairs | after_pairs of the hooks.                                *)
EditedKeys(old, new) == KeyPairs(old) \cup KeyPairs(new)

(* create, write and unlink of hr.attendance, the hook included.  A key    *)
(* the hook wrote nothing for counts as bypassed: no row of its own        *)
(* guards it against what others do at the same time.                      *)
Save(v, id, shift, skip) ==
  LET keys == EditedKeys(v.att[id], shift)
      gone == IF shift = NoShift THEN {id} ELSE {}
      edited == [v EXCEPT !.att[id] = shift, !.mine.wrote = @ \cup {id},
                          !.mine.gone = @ \cup gone]
      after == IF skip THEN edited ELSE Rebuild(edited, keys)
  IN  [after EXCEPT !.mine.bypassed =
         @ \cup (IF skip THEN keys ELSE keys \ after.mine.built)]

(* Odoo's own check on a create or a write: no overlap with another        *)
(* attendance of the employee, and one open attendance at a time.          *)
OdooAccepts(a, id) ==
  LET x == a[id]
      others == {a[i] : i \in {i \in AttendanceIds \ {id} : a[i] # NoShift /\ a[i].emp = x.emp}}
  IN  \A y \in others :
        /\ ~(x.out = Open /\ y.out = Open)
        /\ y.in <= x.in => y.out <= x.in
        /\ x.in <= y.in /\ x.out # Open => x.out <= y.in

Init ==
  /\ att = [i \in AttendanceIds |-> NoShift]
  /\ jour = [k \in Keys |-> NoJourney]
  /\ review = {}
  /\ txn = [s \in Sessions |-> NoTxn]
  /\ todo = <<>> /\ chunk = 0 /\ edits = 0
  /\ skipped = {} /\ owed = {}

IsOpen(s) == txn[s] # NoTxn
MayOpen(s) == IsOpen(s) \/ Cardinality({o \in Sessions : IsOpen(o)}) < MaxOpen

(* The keys a commit may leave stale: those it bypassed, and those it      *)
(* rebuilt from a snapshot that a bypassing edit has overtaken.            *)
MayBeStale(v) == v.mine.bypassed \cup (v.mine.built \cap v.others.bypassed)

(* Built from a snapshot that a late punch has overtaken.                  *)
FlagMayBeStale(v) == v.mine.built \cap (review \ v.review)

(* A commit of session s, which then holds next: the tables take its       *)
(* writes, the other transactions learn what they now conflict with.       *)
CommitTxn(s, next) ==
  LET v == txn[s]
  IN  /\ ~Conflict(v)
      /\ att' = [i \in AttendanceIds |-> IF i \in v.mine.wrote THEN v.att[i] ELSE att[i]]
      /\ jour' = [k \in Keys |-> IF k \in v.mine.built THEN v.jour[k] ELSE jour[k]]
      /\ txn' = [o \in Sessions |->
                   IF o = s THEN next
                   ELSE IF txn[o] = NoTxn THEN NoTxn
                   ELSE [txn[o] EXCEPT !.others = Both(@, v.mine)]]
      /\ skipped' = (skipped \ v.mine.built) \cup MayBeStale(v)
      /\ UNCHANGED review

(***************************************************************************)
(* Clients: one XML-RPC call or one request is one transaction.            *)
(***************************************************************************)
(* An edit works on the view of its transaction, which begins with it or  *)
(* has begun with an earlier edit.                                         *)
View(s) == IF IsOpen(s) THEN txn[s] ELSE Snapshot(att, jour, review)

Edit(s, id, shift, skip) ==
  LET after == Save(View(s), id, shift, skip)
  IN  /\ MayOpen(s) /\ edits < MaxEdits
      /\ shift # NoShift => OdooAccepts(after.att, id)
      /\ txn' = [txn EXCEPT ![s] = after]
      /\ edits' = edits + 1
      /\ UNCHANGED <<att, jour, review, todo, chunk, skipped, owed>>

(* A new id is one no transaction has seen.  The backfill, which skips the *)
(* rebuild, creates closed attendances only.                               *)
Create(s, id, shift, skip) ==
  /\ skip => shift.out # Open
  /\ att[id] = NoShift
  /\ \A o \in Sessions : IsOpen(o) => txn[o].att[id] = NoShift
  /\ Edit(s, id, shift, skip)

(* The backfill only ever adds a check-out to an open attendance.          *)
AddsCheckOut(old, shift) ==
  /\ old.out = Open /\ shift.out # Open
  /\ old.emp = shift.emp /\ old.in = shift.in

Write(s, id, shift, skip) ==
  LET old == View(s).att[id]
  IN  /\ old \notin {NoShift, shift}
      /\ skip => AddsCheckOut(old, shift)
      /\ Edit(s, id, shift, skip)

Unlink(s, id) ==
  /\ View(s).att[id] # NoShift
  /\ Edit(s, id, NoShift, FALSE)

Commit(s) ==
  /\ IsOpen(s)
  /\ CommitTxn(s, NoTxn)
  /\ owed' = owed \ (MayBeStale(txn[s]) \cup FlagMayBeStale(txn[s]))
  /\ UNCHANGED <<todo, chunk, edits>>

(* A conflict, an error or a dropped connection.                           *)
Rollback(s) ==
  /\ IsOpen(s)
  /\ txn' = [txn EXCEPT ![s] = NoTxn]
  /\ UNCHANGED <<att, jour, review, todo, chunk, edits, skipped, owed>>

(* The attendance worker stages a late punch: hr.biometric.event alone, so *)
(* no journey is rebuilt.                                                  *)
StageReview(key) ==
  /\ key \notin review
  /\ review' = review \cup {key}
  /\ owed' = owed \ {key}
  /\ UNCHANGED <<att, jour, txn, todo, chunk, edits, skipped>>

(***************************************************************************)
(* run_batch with mode apply.                                              *)
(***************************************************************************)
(* Fault: only the days that already have a journey are rebuilt.           *)
KeysOfJourneysOnly(a, j, range) == {k \in range : j[k] # NoJourney}

(* _collect_range_keys: what attendances or journeys of the range name.    *)
CollectRangeKeys(a, j, range) ==
  {k \in range : Attended(a, k) # {} \/ j[k] # NoJourney}

KeyBefore(x, y) == x[2] < y[2] \/ (x[2] = y[2] /\ x[1] <= y[1])

KeysInOrder(keys) ==
  {f \in [1 .. Cardinality(keys) -> keys] :
     \A m, n \in 1 .. Cardinality(keys) : m < n => f[m] # f[n] /\ KeyBefore(f[m], f[n])}

(* The run record is committed first; the keys are read in the next        *)
(* transaction.  The range is one of days, of some employees or of all.    *)
StartRun(from, to, who) ==
  LET range == who \X (from .. to \cap Days)
  IN  /\ from <= to /\ ~IsOpen(Batch) /\ MayOpen(Batch)
      /\ todo' = ListOf(KeysInOrder(CollectRangeKeys(att, jour, range)))
      /\ owed' = range
      /\ chunk' = 0
      /\ txn' = [txn EXCEPT ![Batch] = Snapshot(att, jour, review)]
      /\ UNCHANGED <<att, jour, review, edits, skipped>>

(* Fault: the commit of a full chunk is forgotten.                         *)
RebuildPastChunk ==
  /\ IsOpen(Batch) /\ todo # <<>>
  /\ txn' = [txn EXCEPT ![Batch] = Rebuild(@, {Head(todo)})]
  /\ todo' = Tail(todo)
  /\ chunk' = chunk + 1
  /\ UNCHANGED <<att, jour, review, edits, skipped, owed>>

RebuildNext ==
  /\ IsOpen(Batch) /\ todo # <<>> /\ chunk < BatchSize
  /\ txn' = [txn EXCEPT ![Batch] = Rebuild(@, {Head(todo)})]
  /\ todo' = Tail(todo)
  /\ chunk' = chunk + 1
  /\ UNCHANGED <<att, jour, review, edits, skipped, owed>>

(* index % batch_size = 0: commit, and go on in a new snapshot.            *)
CommitChunk ==
  /\ IsOpen(Batch) /\ chunk = BatchSize
  /\ CommitTxn(Batch, Snapshot(att', jour', review))
  /\ chunk' = 0
  /\ UNCHANGED <<todo, edits, owed>>

(* The end of run_batch.  The except branch commits what the chunk has     *)
(* done so far, just as success does.                                      *)
EndRun ==
  /\ IsOpen(Batch) /\ chunk < BatchSize
  /\ CommitTxn(Batch, NoTxn)
  /\ todo' = <<>> /\ chunk' = 0 /\ owed' = {}
  /\ UNCHANGED edits

FinishRun == todo = <<>> /\ EndRun
RunRaises == todo # <<>> /\ EndRun

(* A conflict or a kill: nothing more can be written in the transaction,   *)
(* so the except branch fails too.                                         *)
RunAborted ==
  /\ IsOpen(Batch)
  /\ txn' = [txn EXCEPT ![Batch] = NoTxn]
  /\ todo' = <<>> /\ chunk' = 0 /\ owed' = {}
  /\ UNCHANGED <<att, jour, review, edits, skipped>>

ClientStep(s) ==
  \/ \E id \in AttendanceIds, shift \in Shifts, skip \in BOOLEAN :
       Create(s, id, shift, skip) \/ Write(s, id, shift, skip)
  \/ \E id \in AttendanceIds : Unlink(s, id)
  \/ Commit(s)
  \/ Rollback(s)

BatchStep ==
  \/ \E from, to \in Days, who \in SUBSET Employees \ {{}} : StartRun(from, to, who)
  \/ RebuildNext \/ CommitChunk \/ FinishRun \/ RunRaises \/ RunAborted

Next ==
  \/ \E s \in Clients : ClientStep(s)
  \/ \E key \in LateKeys : StageReview(key)
  \/ BatchStep

Spec == Init /\ [][Next]_vars

(***************************************************************************)
(* Properties.                                                             *)
(***************************************************************************)
(* Types, and no more keys in an open chunk than a commit covers.          *)
TypeOK ==
  /\ att \in Table /\ jour \in JourneyTable /\ review \subseteq LateKeys
  /\ txn \in [Sessions -> TxnView \cup {NoTxn}]
  /\ chunk \in 0 .. BatchSize /\ edits \in 0 .. MaxEdits
  /\ todo \in Seq(Keys)
  /\ skipped \subseteq Keys /\ owed \subseteq Keys

Shown(j) == IF j = NoJourney THEN <<>> ELSE <<j.segments, j.gap, j.state>>
Matches(a, j, key) == Shown(j[key]) = Shown(JourneyOf(a, {}, key))

(* The journey of a day shows the attendances of that day as committed,    *)
(* whichever transactions ran at the same time, except where an edit       *)
(* bypassed the hook: the edit hooks rebuild the days before and after,    *)
(* and the UNIQUE key makes two rebuilds of one day conflict.              *)
JourneyMatches == \A k \in Keys \ skipped : Matches(att, jour, k)

(* In a day of closed segments that do not overlap (as Odoo checks it:     *)
(* what does not begin later has ended by then), the time worked and the   *)
(* gaps add up to the span from the first check-in to the last check-out:  *)
(* total_gap_minutes loses and repeats nothing.                            *)
SpanIsAccounted ==
  \A k \in {k \in Keys : jour[k] # NoJourney} :
    LET s == jour[k].segments
        apart == \A m, n \in DOMAIN s :
                   m # n /\ s[m].in <= s[n].in => s[m].out <= s[n].in
    IN  (\A n \in DOMAIN s : s[n].out # Open) /\ apart =>
          Total([n \in DOMAIN s |-> s[n].out - s[n].in]) + jour[k].gap
            = Max({s[n].out : n \in DOMAIN s}) - Min({s[n].in : n \in DOMAIN s})

(* A run of run_batch that ends in success has repaired every day of its   *)
(* range: days the backfill had written without a rebuild, and days built  *)
(* before a late punch was staged for review, whose flag was stale.  Only  *)
(* days that an edit bypassed, or a late punch came for, while the run or  *)
(* an edit of the day was open may still be stale.                         *)
BatchRepairs ==
  [][FinishRun => \A k \in owed : jour'[k] = JourneyOf(att', review', k)]_vars
=============================================================================
