----------------------------- MODULE BiometricDb -----------------------------
(***************************************************************************)
(* dahua_interface/biometric_db.py: what the transactions of the router    *)
(* do to the biometric database.  A spooled request becomes a raw row and  *)
(* then a normalized row or a quarantine row; a heartbeat also updates the *)
(* device, and an attributed door event is also put in the outbox.  A      *)
(* transaction is one action: it commits as a whole or leaves no trace.    *)
(*                                                                         *)
(* Tables are sequences in the order of their serial ids.  device_registry *)
(* and device_status are written together and kept as one record.          *)
(***************************************************************************)
EXTENDS Integers, Sequences, FiniteSets

CONSTANTS
  Requests,      \* ingest_ids: one for each POST the ingest service received
  Payload,       \* what each of them says
  Devices,
  NoDevice,
  Addresses,     \* the (source_ip, listener_port) pairs devices are seen at
  NoUser,        \* an access_control without a usable UserID
  NoBlock,       \* an event without a BlockId
  Legacy,        \* requests an earlier release left in quarantine
  Window,        \* heartbeat_window_seconds, in ticks
  StaleAfter,    \* stale_after_seconds, in ticks
  OfflineAfter,  \* offline_after_seconds, in ticks
  MaxTime,       \* bound on the clock
  MaxRows        \* bound on the rows of a table without a unique key

Kinds == {"heartbeat_connect", "access_control", "door_status", "unknown"}
NoTime == -1     \* a NULL timestamp

ASSUME DbAssumption ==
  /\ Window \in Nat /\ StaleAfter \in Nat \ {0} /\ MaxTime \in Nat /\ MaxRows \in Nat
  /\ OfflineAfter \in Nat /\ StaleAfter <= OfflineAfter
  /\ NoDevice \notin Devices /\ IsFiniteSet(Devices)
  /\ Legacy \subseteq Requests /\ IsFiniteSet(Legacy)
  /\ \A r \in Requests :
       /\ Payload[r].kind \in Kinds /\ Payload[r].hint \in Devices \cup {NoDevice}
       /\ Payload[r].addr \in Addresses /\ Payload[r].at \in Nat

VARIABLES
  now,         \* the clock
  raw,         \* raw_request, found by ingest_id in raw_request_registry
  normalized,  \* normalized_event, found by key in normalized_event_registry
  quarantine,  \* event_quarantine
  outbox,      \* outbox_sync
  device       \* device_registry and device_status

tables == <<raw, normalized, quarantine, outbox, device>>
dbVars == <<now, tables>>

RowsOf(table) == {table[i] : i \in DOMAIN table}

(***************************************************************************)
(* The device behind an event                                              *)
(***************************************************************************)

(* Fault: the window ends when the event is processed, not when it occurred*)
RecentlySeenNow(p) ==
  {d \in Devices : device[d].addr = p.addr /\ device[d].hb # NoTime
                   /\ device[d].hb >= now - Window}

(* device_registry rows last seen at the address of the event whose last   *)
(* heartbeat is not older than the window before the event.                *)
RecentlySeen(p) ==
  {d \in Devices : device[d].addr = p.addr /\ device[d].hb # NoTime
                   /\ device[d].hb >= p.at - Window}

(* Fault: the most recent heartbeat wins, however many devices there are.  *)
FirstOfSeveral(p, d) ==
  IF p.kind = "heartbeat_connect" \/ p.hint # NoDevice THEN d = p.hint
  ELSE \/ d = NoDevice /\ RecentlySeen(p) = {}
       \/ d \in RecentlySeen(p)
          /\ \A o \in RecentlySeen(p) : device[o].hb <= device[d].hb

(* _resolve_device_id: the event names its device, or exactly one device   *)
(* was heard of at its address.                                            *)
ResolvesTo(p, d) ==
  IF p.kind = "heartbeat_connect" \/ p.hint # NoDevice THEN d = p.hint
  ELSE IF Cardinality(RecentlySeen(p)) = 1 THEN d \in RecentlySeen(p) ELSE d = NoDevice

(***************************************************************************)
(* Rows                                                                    *)
(***************************************************************************)

(* compute_dedup_key: the block number if the device sent one, otherwise   *)
(* when the event occurred and whose it is.                                *)
DedupKey(p, d) ==
  [dev |-> d, kind |-> p.kind, block |-> p.block,
   at |-> IF p.block = NoBlock THEN p.at ELSE NoTime,
   user |-> IF p.block = NoBlock THEN p.user ELSE NoUser]

KeyOf(row) == DedupKey(Payload[row.req], row.dev)

(* _insert_raw_request: at most one row of each ingest_id.                 *)
WithRaw(r) == IF r \in RowsOf(raw) THEN raw ELSE Append(raw, r)

(* _insert_normalized_event: at most one row of each dedup_key.            *)
WithNormalized(rows, r, d) ==
  IF \E i \in DOMAIN rows : KeyOf(rows[i]) = DedupKey(Payload[r], d)
  THEN rows ELSE Append(rows, [req |-> r, dev |-> d])

(* The id it returns, of the row it added or of the one that was there.    *)
IdOf(rows, r, d) ==
  CHOOSE i \in DOMAIN rows : KeyOf(rows[i]) = DedupKey(Payload[r], d)

Punch(r) == Payload[r].kind = "access_control" /\ Payload[r].user # NoUser

(* Fault: the rule of the earlier release, every event needs a device.     *)
NeedsDevice(r, d) ==
  d = NoDevice \/ (Payload[r].kind = "access_control" /\ Payload[r].user = NoUser)

(* An access_control needs a UserID, any other event needs a device.       *)
ToQuarantine(r, d) ==
  IF Payload[r].kind = "access_control" THEN Payload[r].user = NoUser ELSE d = NoDevice

(***************************************************************************)
(* Transactions                                                            *)
(***************************************************************************)
NoContact ==
  [hb |-> NoTime, addr |-> NoDevice, status |-> "learning",
   stale |-> NoTime, offline |-> NoTime]

Init ==
  /\ now = 0
  /\ quarantine \in {q \in [1 .. Cardinality(Legacy) -> Legacy] : RowsOf(q) = Legacy}
  /\ raw = quarantine
  /\ normalized = <<>> /\ outbox = <<>>
  /\ device = [d \in Devices |-> NoContact]

Quarantine(r, d) ==
  /\ ToQuarantine(r, d)
  /\ quarantine' = Append(quarantine, r)
  /\ UNCHANGED <<normalized, outbox, device>>

(* _upsert_device_on_heartbeat takes the time of the heartbeat as it is,   *)
(* even when it is older than the one recorded.                            *)
Heartbeat(r, d) ==
  LET p == Payload[r]
  IN  /\ ~ToQuarantine(r, d) /\ p.kind = "heartbeat_connect"
      /\ normalized' = WithNormalized(normalized, r, d)
      /\ device' = [device EXCEPT ![d] =
                      [hb |-> p.at, addr |-> p.addr, status |-> "online",
                       stale |-> NoTime, offline |-> NoTime]]
      /\ UNCHANGED <<quarantine, outbox>>

(* _touch_device_for_business_event finds no row to update before the      *)
(* first heartbeat of the device.                                          *)
Touched(d, p) ==
  IF d \in Devices /\ device[d].hb # NoTime
  THEN [device EXCEPT ![d].addr = p.addr] ELSE device

(* Fault: an event without a device is put in the outbox too.              *)
EnqueuedUnattributed(rows, r, d) ==
  IF Payload[r].kind \in {"access_control", "door_status"}
  THEN Append(outbox, IdOf(rows, r, d)) ELSE outbox

Enqueued(rows, r, d) ==
  IF d # NoDevice /\ Payload[r].kind \in {"access_control", "door_status"}
  THEN Append(outbox, IdOf(rows, r, d)) ELSE outbox

BusinessEvent(r, d) ==
  LET rows == WithNormalized(normalized, r, d)
  IN  /\ ~ToQuarantine(r, d) /\ Payload[r].kind # "heartbeat_connect"
      /\ normalized' = rows
      /\ device' = Touched(d, Payload[r])
      /\ outbox' = Enqueued(rows, r, d)
      /\ UNCHANGED quarantine

ProcessSpooledEvent(r) ==
  /\ raw' = WithRaw(r)
  /\ \E d \in Devices \cup {NoDevice} :
       /\ ResolvesTo(Payload[r], d)
       /\ Quarantine(r, d) \/ Heartbeat(r, d) \/ BusinessEvent(r, d)

(* Fault: offline_since is the time of the refresh.                        *)
RefreshedFromNow(c) ==
  LET age == now - c.hb
  IN  IF c.hb = NoTime THEN c
      ELSE [c EXCEPT
        !.status = IF age >= OfflineAfter THEN "offline"
                   ELSE IF age >= StaleAfter THEN "stale" ELSE "online",
        !.stale = IF age < StaleAfter THEN NoTime
                  ELSE IF @ # NoTime THEN @ ELSE c.hb + StaleAfter,
        !.offline = IF age < OfflineAfter THEN NoTime
                    ELSE IF @ # NoTime THEN @ ELSE now]

(* Fault: a device that never sent a heartbeat is refreshed like any other.*)
RefreshedNull(c) ==
  LET age == now - c.hb
  IN  [c EXCEPT !.status = IF age >= OfflineAfter THEN "offline"
                           ELSE IF age >= StaleAfter THEN "stale" ELSE "online"]

(* The age of the last heartbeat gives the status; the times since when it *)
(* is stale and offline stay as they were first set.                       *)
Refreshed(c) ==
  LET age == now - c.hb
  IN  IF c.hb = NoTime THEN c
      ELSE [c EXCEPT
        !.status = IF age >= OfflineAfter THEN "offline"
                   ELSE IF age >= StaleAfter THEN "stale" ELSE "online",
        !.stale = IF age < StaleAfter THEN NoTime
                  ELSE IF @ # NoTime THEN @ ELSE c.hb + StaleAfter,
        !.offline = IF age < OfflineAfter THEN NoTime
                    ELSE IF @ # NoTime THEN @ ELSE c.hb + OfflineAfter]

RefreshDeviceStatuses ==
  /\ device' = [d \in Devices |-> Refreshed(device[d])]
  /\ UNCHANGED <<raw, normalized, quarantine, outbox>>

(* What reprocess_quarantine leaves of the first n rows of the quarantine: *)
(* a punch is normalized, attributed to no device, and not kept.           *)
Reprocessed[n \in 0 .. Len(quarantine)] ==
  IF n = 0 THEN [rows |-> normalized, kept |-> <<>>]
  ELSE LET r == quarantine[n]
           before == Reprocessed[n - 1]
       IN  IF Punch(r)
           THEN [before EXCEPT !.rows = WithNormalized(@, r, NoDevice)]
           ELSE [before EXCEPT !.kept = Append(@, r)]

(* All of the quarantine, in its order and in one transaction.             *)
ReprocessQuarantine ==
  /\ \E r \in RowsOf(quarantine) : Punch(r)
  /\ normalized' = Reprocessed[Len(quarantine)].rows
  /\ quarantine' = Reprocessed[Len(quarantine)].kept
  /\ UNCHANGED <<raw, outbox, device>>

(***************************************************************************)
(* The database on its own: any request, in any order, any number of times *)
(***************************************************************************)
Tick == now < MaxTime /\ now' = now + 1 /\ UNCHANGED tables

Deliver(r) ==
  /\ Payload[r].at <= now
  /\ Len(quarantine) < MaxRows /\ Len(outbox) < MaxRows
  /\ ProcessSpooledEvent(r) /\ UNCHANGED now

Next ==
  \/ \E r \in Requests : Deliver(r)
  \/ RefreshDeviceStatuses /\ UNCHANGED now
  \/ ReprocessQuarantine /\ UNCHANGED now
  \/ Tick

DbSpec == Init /\ [][Next]_dbVars

(***************************************************************************)
(* Properties                                                              *)
(***************************************************************************)

(* Every table has rows of its type; a device row exists from its first    *)
(* heartbeat on, and only then has a status other than learning.           *)
DbTypeOK ==
  /\ now \in Nat
  /\ raw \in Seq(Requests) /\ quarantine \in Seq(Requests)
  /\ normalized \in Seq([req : Requests, dev : Devices \cup {NoDevice}])
  /\ outbox \in Seq(DOMAIN normalized)
  /\ device \in [Devices ->
       [hb : Nat \cup {NoTime}, addr : Addresses \cup {NoDevice},
        status : {"learning", "online", "stale", "offline"},
        stale : Nat \cup {NoTime}, offline : Nat \cup {NoTime}]]
  /\ \A d \in Devices : device[d].hb = NoTime <=> device[d].status = "learning"

(* The times a device is said to be silent since follow from its last      *)
(* heartbeat, and agree with its status, whatever the order of heartbeats  *)
(* and refreshes.  (fourteen positional parameters of one UPDATE)          *)
SilenceFollowsHeartbeat ==
  \A d \in Devices :
    LET c == device[d]
    IN  /\ c.stale # NoTime => c.stale = c.hb + StaleAfter
        /\ c.offline # NoTime => c.offline = c.hb + OfflineAfter
        /\ c.status \in {"stale", "offline"} <=> c.stale # NoTime
        /\ c.status = "offline" <=> c.offline # NoTime

(* An event that does not name its device is attributed to none while more *)
(* than one device was heard of at its address within the window.          *)
AmbiguousIsUnattributed ==
  [][\A i \in DOMAIN normalized' \ DOMAIN normalized :
       LET p == Payload[normalized'[i].req]
       IN  p.hint = NoDevice /\ Cardinality(RecentlySeen(p)) > 1
           => normalized'[i].dev = NoDevice]_dbVars

(* A door event is in the outbox exactly when it is attributed to a device,*)
(* however often it is delivered or moved out of quarantine.               *)
OutboxIsAttributed ==
  \A i \in DOMAIN normalized :
    i \in RowsOf(outbox)
    <=> /\ normalized[i].dev # NoDevice
        /\ Payload[normalized[i].req].kind \in {"access_control", "door_status"}

(* Nothing the current release quarantines is a punch: what reprocessing   *)
(* moves out was put there before.                                         *)
PunchesLeaveQuarantine ==
  [][\A r \in RowsOf(quarantine') : Punch(r) => r \in RowsOf(quarantine)]_dbVars

(* "se normalizan aunque no se resuelva el device_id y aunque el payload   *)
(* no incluya DeviceID, siempre que el payload si traiga UserID": every    *)
(* stored punch that is not waiting in quarantine has a normalized row of  *)
(* its user and time.                                                      *)
PunchIsNormalized ==
  \A r \in RowsOf(raw) \ RowsOf(quarantine) :
    Punch(r) => \E i \in DOMAIN normalized :
                  /\ Payload[normalized[i].req].user = Payload[r].user
                  /\ Payload[normalized[i].req].at = Payload[r].at
=============================================================================
