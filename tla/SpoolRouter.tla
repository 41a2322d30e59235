----------------------------- MODULE SpoolRouter -----------------------------
(***************************************************************************)
(* The way of a request from the device to the biometric database:         *)
(* biometric_ingest.py appends it to the spool file of the day and answers *)
(* 200, biometric_router_worker.py reads the spool line by line, gives     *)
(* each line to BiometricDb in one transaction and then saves its position *)
(* in router_state.json, which it first truncates and then writes.         *)
(*                                                                         *)
(* A spool file is a sequence of chunks: what one write leaves in it.  An  *)
(* append is one chunk, or a head without a newline and, unless the write  *)
(* failed, its tail.  A position counts chunks.                            *)
(***************************************************************************)
EXTENDS BiometricDb

CONSTANTS
  DbRejects,   \* requests with a value the database does not take
  Raises,      \* requests whose processing raises another exception
  MaxDays,     \* bound on the spool files
  MaxCrashes,  \* bound on crashes and failed saves of the router
  MaxDbFails,  \* bound on failed transactions
  MaxTears     \* bound on appends that are not one write

ASSUME RouterAssumption ==
  /\ DbRejects \subseteq Requests /\ Raises \subseteq Requests
  /\ DbRejects \cap Raises = {}
  /\ MaxDays \in Nat \ {0} /\ MaxCrashes \in Nat /\ MaxDbFails \in Nat /\ MaxTears \in Nat

VARIABLES
  spool,    \* the file of each day
  day,      \* the day whose file is appended to
  writing,  \* the append in progress, or Idle
  acked,    \* requests answered 200
  pc,       \* where the router is in its loop
  listed,   \* the days spool_files() found a file of
  reading,  \* the day of the open file
  offset,   \* the position of its handle
  pos,      \* the WorkerState in memory
  saved,    \* router_state.json, or Torn
  bad,      \* chunks copied to bad_spool_lines.log
  errors,   \* requests with a processing_error row
  rewound,  \* history: the position was lost and the router began again
  crashes, dbFails, tears

Days == 1 .. MaxDays
Idle == [req |-> "none", file |-> 0]
Torn == [file |-> -1, off |-> -1]
Beginning == [file |-> 0, off |-> 0]

ingest == <<spool, day, writing, acked, tears>>
routerVars ==
  <<pc, listed, reading, offset, pos, saved, bad, errors, rewound, crashes, dbFails>>
allVars == <<dbVars, ingest, routerVars>>

RouterInit ==
  /\ Init
  /\ spool = [d \in Days |-> <<>>] /\ day = 1 /\ writing = Idle /\ acked = {}
  /\ pc = "boot" /\ listed = {} /\ reading = 0 /\ offset = 0
  /\ pos = Beginning /\ saved = Beginning /\ bad = {} /\ errors = {}
  /\ rewound = FALSE /\ crashes = 0 /\ dbFails = 0 /\ tears = 0

(***************************************************************************)
(* biometric_ingest.py: one event loop, which does not yield between the   *)
(* append and the answer                                                   *)
(***************************************************************************)
Spooled == {c.req : c \in UNION {RowsOf(spool[d]) : d \in Days}}

Put(d, r, part) ==
  spool' = [spool EXCEPT ![d] = Append(@, [req |-> r, part |-> part])]

Receive(r) ==
  /\ writing = Idle
  /\ r \notin Spooled \cup Legacy
  /\ Payload[r].at <= now
  /\ \/ Put(day, r, "whole") /\ UNCHANGED tears
     \/ Put(day, r, "head") /\ tears < MaxTears /\ tears' = tears + 1
  /\ writing' = [req |-> r, file |-> day]
  /\ UNCHANGED <<dbVars, routerVars, day, acked>>

(* The rest of the line is written, or all of it was.                      *)
Answer ==
  LET last == spool[writing.file][Len(spool[writing.file])]
  IN  /\ writing # Idle
      /\ IF last.part = "head" THEN Put(writing.file, last.req, "tail")
         ELSE UNCHANGED spool
      /\ acked' = acked \cup {writing.req}
      /\ writing' = Idle
      /\ UNCHANGED <<dbVars, routerVars, day, tears>>

(* The write failed and the answer is 503, or the ingest service died.     *)
NoAnswer ==
  /\ writing # Idle /\ tears < MaxTears
  /\ tears' = tears + 1
  /\ writing' = Idle
  /\ UNCHANGED <<dbVars, routerVars, spool, day, acked>>

NextDay ==
  /\ day < MaxDays /\ writing = Idle
  /\ day' = day + 1
  /\ UNCHANGED <<dbVars, routerVars, spool, writing, acked, tears>>

Clock == Tick /\ UNCHANGED <<ingest, routerVars>>

(***************************************************************************)
(* biometric_router_worker.py                                              *)
(***************************************************************************)

(* load_state: a file that is not valid JSON means starting all over.      *)
Boot ==
  /\ pc = "boot"
  /\ pos' = IF saved = Torn THEN Beginning ELSE saved
  /\ rewound' = (rewound \/ saved = Torn)
  /\ pc' = "scan"
  /\ UNCHANGED <<dbVars, ingest, listed, reading, offset, saved, bad, errors,
                  crashes, dbFails>>

(* Fault: the files are taken as the directory lists them.                 *)
OpenUnsorted(days, at) ==
  \/ \E f \in days :
       /\ reading' = f /\ pc' = "read"
       /\ offset' = IF f = at.file THEN at.off ELSE 0
  \/ days = {} /\ pc' = "refresh" /\ reading' = 0 /\ offset' = 0

(* Fault: the offset is taken over into whatever file is opened.           *)
OpenAtOffset(days, at) ==
  \/ \E f \in days :
       /\ \A g \in days : f <= g
       /\ reading' = f /\ pc' = "read" /\ offset' = at.off
  \/ days = {} /\ pc' = "refresh" /\ reading' = 0 /\ offset' = 0

(* The next file of the listing, at the position if that is in it, from    *)
(* its first line otherwise; statuses are refreshed after the last file.   *)
OpenFirst(days, at) ==
  \/ \E f \in days :
       /\ \A g \in days : f <= g
       /\ reading' = f /\ pc' = "read"
       /\ offset' = IF f = at.file THEN at.off ELSE 0
  \/ days = {} /\ pc' = "refresh" /\ reading' = 0 /\ offset' = 0

(* Fault: the file of the position is skipped with the ones before it.     *)
UnreadAfter(days) == {d \in days : d > pos.file}

(* file_is_before: the files before the one of the position are skipped.   *)
Unread(days) == {d \in days : d >= pos.file}

Scan ==
  /\ pc = "scan"
  /\ listed' = {d \in Days : spool[d] # <<>>}
  /\ OpenFirst(Unread(listed'), pos)
  /\ UNCHANGED <<dbVars, ingest, pos, saved, bad, errors, rewound, crashes, dbFails>>

(* readline: up to the first newline, or to the end of the file.           *)
LineEnd ==
  CHOOSE k \in offset + 1 .. Len(spool[reading]) :
    /\ spool[reading][k].part # "head" \/ k = Len(spool[reading])
    /\ \A j \in offset + 1 .. k - 1 : spool[reading][j].part = "head"

Line == SubSeq(spool[reading], offset + 1, LineEnd)

(* json.loads takes exactly one object: a request in one piece.            *)
IsRequest(line, r) ==
  \/ line = <<[req |-> r, part |-> "whole"]>>
  \/ line = <<[req |-> r, part |-> "head"], [req |-> r, part |-> "tail"]>>

AtLine == pc = "read" /\ offset < Len(spool[reading])

(* The line is done with: the position in memory moves, and is to be saved.*)
LineDone ==
  /\ pos' = [file |-> reading, off |-> LineEnd]
  /\ offset' = LineEnd
  /\ pc' = "save"

EndOfFile ==
  /\ pc = "read" /\ offset = Len(spool[reading])
  /\ pos' = [file |-> reading, off |-> offset]
  /\ pc' = "saveEnd"
  /\ UNCHANGED <<dbVars, ingest, listed, reading, offset, saved, bad, errors,
                  rewound, crashes, dbFails>>

BadLine ==
  /\ AtLine
  /\ \A r \in Requests : ~IsRequest(Line, r)
  /\ bad' = bad \cup {<<reading, k>> : k \in offset + 1 .. LineEnd}
  /\ LineDone
  /\ UNCHANGED <<dbVars, ingest, listed, reading, saved, errors, rewound,
                  crashes, dbFails>>

ProcessLine(r) ==
  /\ AtLine /\ IsRequest(Line, r)
  /\ r \notin DbRejects \cup Raises
  /\ ProcessSpooledEvent(r)
  /\ LineDone
  /\ UNCHANGED <<now, ingest, listed, reading, saved, bad, errors, rewound,
                  crashes, dbFails>>

(* Fault: a failed transaction does not keep the router from going on.     *)
ReconnectPastLine(r) ==
  /\ AtLine /\ IsRequest(Line, r)
  /\ \/ r \in DbRejects /\ UNCHANGED dbFails
     \/ dbFails < MaxDbFails /\ dbFails' = dbFails + 1
  /\ LineDone
  /\ UNCHANGED <<dbVars, ingest, listed, reading, saved, bad, errors, rewound, crashes>>

(* psycopg.Error: the line stays where it is and the router reconnects.    *)
Reconnect(r) ==
  /\ AtLine /\ IsRequest(Line, r)
  /\ \/ r \in DbRejects /\ UNCHANGED dbFails
     \/ dbFails < MaxDbFails /\ dbFails' = dbFails + 1
  /\ pc' = "scan" /\ reading' = 0 /\ offset' = 0
  /\ UNCHANGED <<dbVars, ingest, listed, pos, saved, bad, errors, rewound, crashes>>

(* Any other exception: a processing_error row is attempted, and the line  *)
(* is passed whether or not it could be written.                           *)
GiveUp(r) ==
  /\ AtLine /\ IsRequest(Line, r)
  /\ r \in Raises
  /\ \/ errors' = errors \cup {r} /\ UNCHANGED dbFails
     \/ UNCHANGED errors /\ dbFails < MaxDbFails /\ dbFails' = dbFails + 1
  /\ LineDone
  /\ UNCHANGED <<dbVars, ingest, listed, reading, saved, bad, rewound, crashes>>

(* save_state, in two writes.                                              *)
Truncate ==
  /\ pc \in {"save", "saveEnd"}
  /\ saved' = Torn
  /\ pc' = IF pc = "save" THEN "write" ELSE "writeEnd"
  /\ UNCHANGED <<dbVars, ingest, listed, reading, offset, pos, bad, errors,
                  rewound, crashes, dbFails>>

Write ==
  /\ pc = "write"
  /\ saved' = pos /\ pc' = "read"
  /\ UNCHANGED <<dbVars, ingest, listed, reading, offset, pos, bad, errors,
                  rewound, crashes, dbFails>>

(* At the end of a file the next one of the listing follows.               *)
WriteEnd ==
  /\ pc = "writeEnd"
  /\ saved' = pos
  /\ OpenFirst({d \in listed : d > reading}, pos)
  /\ UNCHANGED <<dbVars, ingest, listed, pos, bad, errors, rewound, crashes, dbFails>>

Refresh ==
  /\ pc = "refresh"
  /\ \/ RefreshDeviceStatuses /\ UNCHANGED dbFails
     \/ UNCHANGED tables /\ dbFails < MaxDbFails /\ dbFails' = dbFails + 1
  /\ pc' = "scan"
  /\ UNCHANGED <<now, ingest, listed, reading, offset, pos, saved, bad, errors,
                  rewound, crashes>>

(* The disk takes no more of the state file; the position in memory stays. *)
SaveFails ==
  /\ pc \in {"write", "writeEnd"}
  /\ crashes < MaxCrashes /\ crashes' = crashes + 1
  /\ pc' = "scan" /\ reading' = 0 /\ offset' = 0
  /\ UNCHANGED <<dbVars, ingest, listed, pos, saved, bad, errors, rewound, dbFails>>

Crash ==
  /\ pc # "boot"
  /\ crashes < MaxCrashes /\ crashes' = crashes + 1
  /\ pc' = "boot" /\ listed' = {} /\ reading' = 0 /\ offset' = 0 /\ pos' = Beginning
  /\ UNCHANGED <<dbVars, ingest, saved, bad, errors, rewound, dbFails>>

RouterStep ==
  \/ Boot \/ Scan \/ EndOfFile \/ BadLine \/ Truncate \/ Write \/ WriteEnd \/ Refresh
  \/ \E r \in Requests : ProcessLine(r) \/ GiveUp(r) \/ Reconnect(r)

RouterNext ==
  \/ RouterStep \/ SaveFails \/ Crash
  \/ (\E r \in Requests : Receive(r)) \/ Answer \/ NoAnswer \/ NextDay \/ Clock

RouterSpec == RouterInit /\ [][RouterNext]_allVars

(* systemd restarts both services and neither loop ends.                   *)
FairRouterSpec == RouterSpec /\ WF_allVars(RouterStep) /\ WF_allVars(Answer)

(***************************************************************************)
(* Properties                                                              *)
(***************************************************************************)
Position == [file : 0 .. MaxDays, off : Nat]

RouterTypeOK ==
  /\ spool \in [Days -> Seq([req : Requests, part : {"whole", "head", "tail"}])]
  /\ day \in Days /\ acked \subseteq Requests
  /\ writing = Idle \/ writing \in [req : Requests, file : Days]
  /\ pc \in {"boot", "scan", "read", "save", "saveEnd", "write", "writeEnd", "refresh"}
  /\ listed \subseteq Days /\ reading \in 0 .. MaxDays
  /\ pos \in Position /\ saved \in Position \cup {Torn}
  /\ offset \in Nat
  /\ reading # 0 => offset <= Len(spool[reading])
  /\ pc \in {"read", "save", "saveEnd", "write", "writeEnd"} <=> reading # 0
  /\ bad \subseteq Days \X Nat /\ errors \subseteq Requests
  /\ rewound \in BOOLEAN /\ {crashes, dbFails, tears} \subseteq Nat

Chunks == {c \in Days \X (1 .. 2 * Cardinality(Requests)) : c[2] \in DOMAIN spool[c[1]]}
ChunkAt(c) == spool[c[1]][c[2]]
Before(b, c) == b[1] < c[1] \/ (b[1] = c[1] /\ b[2] < c[2])
Passed(p, c) == c[1] < p.file \/ (c[1] = p.file /\ c[2] <= p.off)

(* A request that left a trace in the database, or would have if the       *)
(* database had not failed just then.                                      *)
Recorded(r) == r \in RowsOf(raw) \/ r \in errors \/ (r \in Raises /\ dbFails > 0)

(* What the position has passed, in memory or on disk, is in raw_request,  *)
(* in processing_error or in the log of bad lines: no crash, failed        *)
(* transaction, torn append or lost state file makes a request vanish.     *)
PassedIsAccounted ==
  \A p \in {pos, saved} \ {Torn}, c \in Chunks :
    Passed(p, c) => c \in bad \/ Recorded(ChunkAt(c).req)

(* Requests appended in one write get raw ids in the order of the spool,   *)
(* across files, crashes and re-readings: ids follow arrival.              *)
RawInSpoolOrder ==
  \A b, c \in Chunks :
    LET r == ChunkAt(b).req
        s == ChunkAt(c).req
    IN  /\ Before(b, c) /\ ChunkAt(b).part = "whole" /\ ChunkAt(c).part = "whole"
        /\ {r, s} \subseteq RowsOf(raw)
        => \E i, j \in DOMAIN raw : i < j /\ raw[i] = r /\ raw[j] = s

(* A line processed again after a crash is attributed as the first time,   *)
(* and so finds its normalized row.  It does not hold once the state file  *)
(* was lost and events are read again after later heartbeats.              *)
NormalizedOnce ==
  ~rewound => \A i, j \in DOMAIN normalized :
                i # j => normalized[i].req # normalized[j].req

(* Every request answered 200 is dealt with in the end: stored, recorded   *)
(* as an error or copied to the log of bad lines.                          *)
EveryAnswerIsKept ==
  \A r \in Requests :
    (r \in acked) ~> (Recorded(r) \/ \A c \in Chunks : ChunkAt(c).req = r => c \in bad)

(* "que todo request recibido quede guardado en raw_request": a request    *)
(* the database would take is stored in the end, whatever came before it.  *)
EveryRequestIsStored ==
  \A r \in Requests \ (DbRejects \cup Raises) : (r \in acked) ~> (r \in RowsOf(raw))
=============================================================================
