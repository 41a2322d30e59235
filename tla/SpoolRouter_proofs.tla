------------------------- MODULE SpoolRouter_proofs -------------------------
(***************************************************************************)
(* Proofs about the way of a request from the spool to the database, for   *)
(* every number of requests, days, crashes, lost state files, failed       *)
(* transactions and appends that are not one write.                        *)
(***************************************************************************)
EXTENDS SpoolRouter, BiometricDb_proofs

(***************************************************************************)
(* The chunks in the spool, day by day                                     *)
(***************************************************************************)
Chunk == [req : Requests, part : {"whole", "head", "tail"}]
Ks(d) == 1 .. Len(spool[d])
Req(d, k) == spool[d][k].req
Part(d, k) == spool[d][k].part

(* Chunk k of day d is at or before the position.                          *)
Behind(d, k, p) == d < p.file \/ (d = p.file /\ k <= p.off)
Done(d, k) == <<d, k>> \in bad \/ Recorded(Req(d, k))
Handle == [file |-> reading, off |-> offset]
Earlier(d, k, e, j) == d < e \/ (d = e /\ k < j)

(***************************************************************************)
(* The inductive invariant, part by part                                   *)
(***************************************************************************)

(* Only the file of the day grows, and no position is beyond the end of    *)
(* its file or in a file of a later day.                                   *)
Within(p) == p.file # 0 => p.file <= day /\ p.off <= Len(spool[p.file])

PlaceInv ==
  /\ \A d \in Days : spool[d] # <<>> => d <= day
  /\ writing # Idle => writing.file = day /\ spool[day] # <<>>
  /\ \A d \in listed : d <= day
  /\ Within(pos) /\ Within(Handle) /\ (saved # Torn => Within(saved))

TypeInv == RouterTypeOK /\ DbInv /\ PlaceInv

(* What the handle has behind it, the position in memory has; the days     *)
(* between listed ones are empty; a file left for a later one is at its    *)
(* end.                                                                    *)
ReadInv ==
  /\ reading # 0 =>
       \A d \in Days : \A k \in Ks(d) : Behind(d, k, Handle) => Behind(d, k, pos)
  /\ \A d \in Days, e \in listed : d < e /\ d \notin listed => spool[d] = <<>>
  /\ pc \in {"saveEnd", "writeEnd"} =>
       \A e \in listed : reading < e => offset = Len(spool[reading])

(* What a position has behind it is done with.                             *)
DoneBehind(p) == \A d \in Days : \A k \in Ks(d) : Behind(d, k, p) => Done(d, k)
DoneInv == DoneBehind(pos) /\ (saved # Torn => DoneBehind(saved))

(* The chunks of one request are one piece, or a head and then its tail.   *)
HeadAndTail(d, k, e, j) == d = e /\ j = k + 1 /\ Part(d, k) = "head" /\ Part(e, j) = "tail"

ShapeInv ==
  /\ \A d, e \in Days : \A k \in Ks(d), j \in Ks(e) :
       Req(d, k) = Req(e, j) /\ Earlier(d, k, e, j) => HeadAndTail(d, k, e, j)
  /\ \A d \in Days : \A k \in Ks(d) : Req(d, k) \notin Legacy
  /\ errors \subseteq Raises

(* A stored request was spooled, or is of an earlier release.              *)
SpooledInv ==
  \A r \in RowsOf(raw) : r \in Legacy \/ \E d \in Days : \E k \in Ks(d) : Req(d, k) = r

(* Positions never overtake one another.                                   *)
UpTo(p, q) == p.file < q.file \/ (p.file = q.file /\ p.off <= q.off)

OrderInv ==
  pc # "boot" =>
    /\ saved # Torn => UpTo(saved, pos)
    /\ reading # 0 => UpTo(pos, Handle)

(* A whole chunk in the log of bad lines was read behind a head, and is    *)
(* not read from its own beginning any more.                               *)
At(p, d, k) == p.file = d /\ p.off = k

BadInv ==
  /\ \A c \in bad : c[1] \in Days /\ c[2] \in Ks(c[1])
  /\ \A d \in Days : \A k \in Ks(d) :
       <<d, k>> \in bad /\ Part(d, k) = "whole" =>
         /\ k > 1 /\ Part(d, k - 1) = "head"
         /\ ~At(pos, d, k - 1) /\ ~At(saved, d, k - 1) /\ ~At(Handle, d, k - 1)

(* What was spooled before a stored request is done with.                  *)
StoredInv ==
  \A d, e \in Days : \A k \in Ks(d), j \in Ks(e) :
    Earlier(d, k, e, j) /\ Part(e, j) = "whole" /\ Req(e, j) \in RowsOf(raw)
    => Done(d, k)

(* A normalized request that a position has ahead of it is in the very     *)
(* next line, and resolves to the device it was attributed to.             *)
NextLine(r, p, e, j) ==
  \A d \in Days : \A k \in Ks(d) : ~Behind(d, k, p) /\ Earlier(d, k, e, j) => Req(d, k) = r

Again(p) ==
  \A i \in DOMAIN normalized : \A e \in Days : \A j \in Ks(e) :
    LET row == normalized[i]
    IN  Req(e, j) = row.req /\ ~Behind(e, j, p)
        => ResolvesTo(Payload[row.req], row.dev) /\ NextLine(row.req, p, e, j)

OnceInv ==
  /\ pc \in {"scan", "read", "refresh"} => saved \in {pos, Torn}
  /\ pc \in {"write", "writeEnd"} => saved = Torn
  /\ \A i \in DOMAIN normalized :
       \E d \in Days : \E k \in Ks(d) : Req(d, k) = normalized[i].req
  /\ \A i \in DOMAIN normalized : \A d \in Days : \A k \in Ks(d) :
       Req(d, k) = normalized[i].req /\ Part(d, k) = "head" => k < Len(spool[d])
  /\ ~rewound =>
       /\ pc # "boot" => Again(pos)
       /\ saved # Torn => Again(saved)
       /\ NormalizedOnce

(***************************************************************************)
(* Reading a line, and appending to the file of the day                    *)
(***************************************************************************)
LEMMA LineEnds ==
  ASSUME RouterTypeOK, AtLine
  PROVE  /\ reading \in Days /\ LineEnd \in Ks(reading) /\ offset < LineEnd
         /\ Part(reading, LineEnd) # "head" \/ LineEnd = Len(spool[reading])
         /\ \A j \in offset + 1 .. LineEnd - 1 : Part(reading, j) = "head"
<1> DEFINE file == spool[reading]
           T == {k \in Nat : k \in offset + 1 .. Len(file)
                             /\ (file[k].part # "head" \/ k = Len(file))}
<1>1. reading \in Days /\ offset \in Nat /\ Len(file) \in Nat /\ offset < Len(file)
  <2>1. reading # 0 /\ reading \in 0 .. MaxDays /\ offset \in Nat /\ offset < Len(file)
    <3>1. pc = "read" /\ offset < Len(file)
      BY DEF AtLine
    <3> HIDE DEF file
    <3>2. (pc \in {"read", "save", "saveEnd", "write", "writeEnd"}) <=> reading # 0
      BY DEF RouterTypeOK
    <3>3. reading # 0
      BY <3>1, <3>2
    <3>4. reading \in 0 .. MaxDays /\ offset \in Nat
      BY DEF RouterTypeOK
    <3> QED
      BY <3>1, <3>3, <3>4
  <2>2. reading \in Days
    BY <2>1, RouterAssumption DEF Days
  <2>3. spool[reading] \in Seq(Chunk)
    BY <2>2 DEF RouterTypeOK, Chunk
  <2> QED
    BY <2>1, <2>2, <2>3
<1> HIDE DEF file
<1>2. Len(file) \in T
  BY <1>1
<1>3. PICK k \in T : \A m \in T : k <= m
  BY <1>2, LeastNat
<1>4. k \in offset + 1 .. Len(file) /\ (file[k].part # "head" \/ k = Len(file))
  BY <1>3
<1>5. \A j \in offset + 1 .. k - 1 : file[j].part = "head"
  <2>1. SUFFICES ASSUME NEW j \in offset + 1 .. k - 1, file[j].part # "head" PROVE FALSE
    OBVIOUS
  <2>2. j \in T /\ j < k
    BY <1>1, <1>4, <2>1
  <2> QED
    BY <1>1, <1>3, <2>2
<1>6. /\ LineEnd \in offset + 1 .. Len(file)
      /\ file[LineEnd].part # "head" \/ LineEnd = Len(file)
      /\ \A j \in offset + 1 .. LineEnd - 1 : file[j].part = "head"
  BY <1>4, <1>5 DEF LineEnd, file
<1> QED
  BY <1>1, <1>6 DEF Ks, Part, file

LEMMA Puts ==
  ASSUME RouterTypeOK, NEW r \in Requests, NEW part \in {"whole", "head", "tail"},
         Put(day, r, part), day' = day
  PROVE  /\ spool' \in [Days -> Seq(Chunk)] /\ day \in Days
         /\ Len(spool[day]) \in Nat
         /\ Len(spool'[day]) = Len(spool[day]) + 1
         /\ \A d \in Days : d # day => spool'[d] = spool[d]
         /\ \A d \in Days : \A k \in Ks(d) : k \in Ks(d)' /\ spool'[d][k] = spool[d][k]
         /\ \A d \in Days : \A k \in Ks(d)' :
              k \in Ks(d) \/ (d = day /\ k = Len(spool[day]) + 1)
         /\ Len(spool[day]) + 1 \in Ks(day)'
         /\ spool'[day][Len(spool[day]) + 1] = [req |-> r, part |-> part]
         /\ \A d \in Days : Len(spool[d]) \in Nat /\ Len(spool'[d]) >= Len(spool[d])
<1> DEFINE c == [req |-> r, part |-> part]
           s == spool[day]
<1>1. c \in Chunk /\ day \in Days /\ s \in Seq(Chunk) /\ spool \in [Days -> Seq(Chunk)]
  BY DEF RouterTypeOK, Chunk
<1>2. spool' = [spool EXCEPT ![day] = Append(s, c)]
  BY DEF Put
<1> HIDE DEF c
<1>3. /\ Append(s, c) \in Seq(Chunk) /\ Len(Append(s, c)) = Len(s) + 1 /\ Len(s) \in Nat
      /\ \A k \in 1 .. Len(s) : Append(s, c)[k] = s[k]
      /\ Append(s, c)[Len(s) + 1] = c
  BY <1>1
<1>4. spool' \in [Days -> Seq(Chunk)] /\ spool'[day] = Append(s, c)
  BY <1>1, <1>2, <1>3
<1>5. \A d \in Days : d # day => spool'[d] = spool[d]
  BY <1>1, <1>2
<1>6. \A d \in Days : Len(spool[d]) \in Nat
  BY <1>1
<1> HIDE DEF s
<1>7. /\ \A d \in Days : \A k \in Ks(d) : k \in Ks(d)' /\ spool'[d][k] = spool[d][k]
      /\ \A d \in Days : \A k \in Ks(d)' : k \in Ks(d) \/ (d = day /\ k = Len(s) + 1)
      /\ Len(s) + 1 \in Ks(day)'
  <2>1. ASSUME NEW d \in Days
        PROVE  /\ \A k \in Ks(d) : k \in Ks(d)' /\ spool'[d][k] = spool[d][k]
               /\ \A k \in Ks(d)' : k \in Ks(d) \/ (d = day /\ k = Len(s) + 1)
    <3>1. CASE d = day
      <4>1. spool'[d] = Append(s, c) /\ spool[d] = s
        BY <1>4, <3>1 DEF s
      <4> QED
        BY <1>3, <3>1, <4>1 DEF Ks
    <3>2. CASE d # day
      BY <1>5, <3>2 DEF Ks
    <3> QED
      BY <3>1, <3>2
  <2>2. Len(s) + 1 \in Ks(day)'
    BY <1>3, <1>4 DEF Ks, s
  <2> QED
    BY <2>1, <2>2
<1>8. \A d \in Days : Len(spool'[d]) >= Len(spool[d])
  BY <1>3, <1>4, <1>5, <1>6 DEF s
<1> QED
  BY <1>1, <1>3, <1>4, <1>5, <1>6, <1>7, <1>8 DEF c, s

(***************************************************************************)
(* The steps that are not the router's                                     *)
(***************************************************************************)

(* A chunk of r is added, of a new request or to the head before it.       *)
Appends(r, part) ==
  /\ Put(day, r, part) /\ day' = day
  /\ \/ part \in {"whole", "head"} /\ r \notin Spooled \cup Legacy
     \/ /\ part = "tail" /\ Len(spool[day]) \in Ks(day)
        /\ spool[day][Len(spool[day])] = [req |-> r, part |-> "head"]

Spooling ==
  /\ UNCHANGED <<tables, routerVars>>
  /\ now' \in Nat /\ acked' \subseteq Requests /\ tears' \in Nat
  /\ \/ writing' = Idle
     \/ /\ writing' \in [req : Requests, file : Days]
        /\ writing'.file = day' /\ spool'[day'] # <<>>
  /\ \/ spool' = spool /\ day' \in Days /\ day' >= day
     \/ \E r \in Requests, part \in {"whole", "head", "tail"} : Appends(r, part)

Routing == UNCHANGED ingest /\ (RouterStep \/ SaveFails \/ Crash)

LEMMA StepKinds ==
  ASSUME TypeInv, [RouterNext]_allVars PROVE Spooling \/ Routing
<1>0. /\ day \in Days /\ Days = 1 .. MaxDays /\ MaxDays \in Nat /\ spool[day] \in Seq(Chunk)
      /\ now \in Nat /\ acked \subseteq Requests /\ tears \in Nat /\ tears + 1 \in Nat
      /\ writing = Idle \/ writing \in [req : Requests, file : Days]
      /\ writing # Idle => writing.file = day /\ spool[day] # <<>>
  <2>1. RouterTypeOK /\ now \in Nat /\ MaxDays \in Nat
    BY RouterAssumption DEF TypeInv, DbInv, DbTypeOK
  <2>2. tears \in Nat /\ tears + 1 \in Nat
    BY <2>1 DEF RouterTypeOK
  <2>3. writing # Idle => writing.file = day /\ spool[day] # <<>>
    BY DEF TypeInv, PlaceInv
  <2>4. /\ day \in Days /\ spool[day] \in Seq(Chunk) /\ acked \subseteq Requests
        /\ writing = Idle \/ writing \in [req : Requests, file : Days]
    BY <2>1 DEF RouterTypeOK, Chunk
  <2> QED
    BY <2>1, <2>2, <2>3, <2>4 DEF Days
<1>1. ASSUME NEW r \in Requests, Receive(r) PROVE Spooling
  <2>1. /\ UNCHANGED <<tables, routerVars, now, acked, day>>
        /\ r \notin Spooled \cup Legacy
        /\ writing' = [req |-> r, file |-> day] /\ tears' \in {tears, tears + 1}
    BY <1>1 DEF Receive, dbVars
  <2>2. PICK part \in {"whole", "head"} : Put(day, r, part)
    BY <1>1 DEF Receive
  <2>3. spool'[day] # <<>>
    <3>1. Len(spool'[day]) = Len(spool[day]) + 1 /\ Len(spool[day]) \in Nat
      BY <2>1, <2>2, Puts DEF TypeInv
    <3> QED
      BY <3>1
  <2>4. Appends(r, part)
    BY <2>1, <2>2 DEF Appends
  <2> QED
    BY <1>0, <2>1, <2>3, <2>4 DEF Spooling
<1>2. ASSUME Answer PROVE Spooling
  <2> DEFINE last == spool[day][Len(spool[day])]
  <2>1. writing # Idle /\ writing.file = day /\ spool[day] # <<>> /\ writing.req \in Requests
    BY <1>0, <1>2 DEF Answer
  <2>2. Len(spool[day]) \in Ks(day) /\ last \in Chunk
    BY <1>0, <2>1 DEF Ks
  <2>3. UNCHANGED <<tables, routerVars, now, day, tears>> /\ writing' = Idle
    BY <1>2 DEF Answer, dbVars
  <2>4. acked' \subseteq Requests
    BY <1>0, <1>2, <2>1 DEF Answer
  <2>5. CASE last.part = "head"
    <3>1. Put(day, last.req, "tail")
      BY <1>2, <2>1, <2>5 DEF Answer
    <3>2. last = [req |-> last.req, part |-> "head"] /\ last.req \in Requests
      BY <2>2, <2>5 DEF Chunk
    <3>3. Appends(last.req, "tail")
      BY <2>2, <2>3, <3>1, <3>2 DEF Appends
    <3> QED
      BY <1>0, <2>3, <2>4, <3>2, <3>3 DEF Spooling
  <2>6. CASE last.part # "head"
    <3>1. spool' = spool
      BY <1>2, <2>1, <2>6 DEF Answer
    <3> QED
      BY <1>0, <2>3, <2>4, <3>1 DEF Spooling
  <2> QED
    BY <2>5, <2>6
<1>3. ASSUME NoAnswer \/ Clock \/ UNCHANGED allVars PROVE Spooling
  <2>1. /\ UNCHANGED <<tables, routerVars, acked, day, spool>> /\ now' \in Nat
        /\ writing' \in {Idle, writing} /\ tears' \in {tears, tears + 1}
    BY <1>0, <1>3 DEF NoAnswer, Clock, Tick, dbVars, allVars, ingest
  <2> QED
    BY <1>0, <2>1 DEF Spooling
<1>4. ASSUME NextDay PROVE Spooling
  <2>1. /\ UNCHANGED <<tables, routerVars, now, acked, spool, tears>> /\ writing' = Idle
        /\ day' = day + 1 /\ day < MaxDays
    BY <1>4 DEF NextDay, dbVars
  <2> QED
    BY <1>0, <2>1 DEF Spooling
<1>5. ASSUME RouterStep \/ SaveFails \/ Crash PROVE Routing
  BY <1>5 DEF Routing, RouterStep, Boot, Scan, EndOfFile, BadLine, Truncate, Write, WriteEnd,
     Refresh, ProcessLine, GiveUp, Reconnect, SaveFails, Crash
<1> QED
  BY <1>1, <1>2, <1>3, <1>4, <1>5 DEF RouterNext

(* What they leave of the spool: only the file of the day grows, at its    *)
(* end.                                                                    *)
Grown ==
  /\ spool' \in [Days -> Seq(Chunk)] /\ day' \in Days /\ day' >= day
  /\ \A d \in Days : /\ Len(spool[d]) \in Nat /\ Len(spool'[d]) \in Nat
                     /\ Len(spool'[d]) >= Len(spool[d])
                     /\ d # day => spool'[d] = spool[d]
                     /\ \A k \in Ks(d) : k \in Ks(d)' /\ spool'[d][k] = spool[d][k]
                     /\ \A k \in Ks(d)' : k \in Ks(d) \/ (d = day /\ k = Len(spool[day]) + 1)

LEMMA SpoolGrows == ASSUME TypeInv, Spooling PROVE Grown
<1>1. RouterTypeOK /\ day \in Days /\ spool \in [Days -> Seq(Chunk)]
      /\ Days = 1 .. MaxDays /\ MaxDays \in Nat
  BY RouterAssumption DEF TypeInv, RouterTypeOK, Chunk, Days
<1>2. CASE spool' = spool /\ day' \in Days /\ day' >= day
  BY <1>1, <1>2 DEF Grown, Ks
<1>3. ASSUME NEW r \in Requests, NEW part \in {"whole", "head", "tail"}, Appends(r, part)
      PROVE  Grown
  <2>1. Put(day, r, part) /\ day' = day
    BY <1>3 DEF Appends
  <2>2. /\ spool' \in [Days -> Seq(Chunk)]
        /\ \A d \in Days : d # day => spool'[d] = spool[d]
        /\ \A d \in Days : Len(spool[d]) \in Nat /\ Len(spool'[d]) >= Len(spool[d])
        /\ \A d \in Days : \A k \in Ks(d) : k \in Ks(d)' /\ spool'[d][k] = spool[d][k]
        /\ \A d \in Days : \A k \in Ks(d)' :
             k \in Ks(d) \/ (d = day /\ k = Len(spool[day]) + 1)
    BY <1>1, <2>1, Puts
  <2>3. \A d \in Days : Len(spool'[d]) \in Nat
    BY <2>2
  <2> QED
    BY <1>1, <2>1, <2>2, <2>3 DEF Grown
<1> QED
  BY <1>2, <1>3 DEF Spooling

(***************************************************************************)
(* Types, and the places of the positions                                  *)
(***************************************************************************)
LEMMA SpoolingKeepsType == ASSUME TypeInv, Spooling PROVE TypeInv'
<1>1. RouterTypeOK /\ DbInv /\ PlaceInv /\ Grown
  BY SpoolGrows DEF TypeInv
<1>2. /\ UNCHANGED <<raw, normalized, quarantine, outbox, device>> /\ now' \in Nat
      /\ UNCHANGED <<pc, listed, reading, offset, pos, saved, bad, errors>>
      /\ UNCHANGED <<rewound, crashes, dbFails>>
  BY DEF Spooling, tables, routerVars
<1>3. DbInv'
  BY <1>1, <1>2 DEF DbInv, DbTypeOK, SilenceFollowsHeartbeat, OutboxIsAttributed, RowsOf
<1>4. /\ spool' \in [Days -> Seq(Chunk)] /\ day' \in Days /\ day' >= day /\ day \in Days
      /\ \A d \in Days : Len(spool[d]) \in Nat /\ Len(spool'[d]) \in Nat
      /\ \A d \in Days : Len(spool'[d]) >= Len(spool[d]) /\ (d # day => spool'[d] = spool[d])
      /\ Days = 1 .. MaxDays /\ MaxDays \in Nat
  BY <1>1, RouterAssumption DEF Grown, RouterTypeOK, Days
<1>5. \A p \in Position : Within(p) /\ p.file # 0 => p.file <= day' /\ p.off <= Len(spool'[p.file])
  BY <1>4 DEF Position, Within
<1>6. pos \in Position /\ saved \in Position \cup {Torn} /\ Handle \in Position
  BY <1>1 DEF RouterTypeOK, Handle, Position
<1>7. Within(pos)' /\ Within(Handle)' /\ (saved' # Torn => Within(saved)')
  <2>1. Handle' = Handle
    BY <1>2 DEF Handle
  <2> QED
    BY <1>1, <1>2, <1>5, <1>6, <2>1 DEF Within, PlaceInv
<1>8. PlaceInv'
  <2>1. \A d \in Days : spool'[d] # <<>> => d <= day'
    <3>1. SUFFICES ASSUME NEW d \in Days, spool'[d] # <<>> PROVE d <= day'
      OBVIOUS
    <3>2. d # day => spool[d] # <<>>
      BY <1>4, <3>1
    <3>3. d <= day
      BY <1>1, <1>4, <3>2 DEF PlaceInv
    <3> QED
      BY <1>4, <3>3
  <2>2. writing' # Idle => writing'.file = day' /\ spool'[day'] # <<>>
    BY DEF Spooling
  <2>3. \A d \in listed' : d <= day'
    BY <1>1, <1>2, <1>4 DEF PlaceInv, RouterTypeOK
  <2> QED
    BY <1>7, <2>1, <2>2, <2>3 DEF PlaceInv
<1>9. RouterTypeOK'
  <2>1. reading # 0 => offset <= Len(spool'[reading])
    <3>1. SUFFICES ASSUME reading # 0 PROVE offset <= Len(spool'[reading])
      OBVIOUS
    <3>2. reading \in Days /\ offset \in Nat /\ offset <= Len(spool[reading])
      BY <1>1, <1>4, <3>1 DEF RouterTypeOK
    <3> QED
      BY <1>4, <3>2
  <2>2. writing' = Idle \/ writing' \in [req : Requests, file : Days]
    BY DEF Spooling
  <2>3. acked' \subseteq Requests /\ tears' \in Nat
    BY DEF Spooling
  <2> QED
    BY <1>1, <1>2, <1>4, <2>1, <2>2, <2>3 DEF RouterTypeOK, Chunk
<1> QED
  BY <1>3, <1>8, <1>9 DEF TypeInv

(* Where a position may stand.                                             *)
Place == {p \in Position : Within(p)}

LEMMA Places ==
  /\ TypeInv => /\ pos \in Place /\ Handle \in Place /\ saved \in Place \cup {Torn}
                /\ Beginning \in Place
                /\ \A d \in Days : Len(spool[d]) \in Nat
                /\ day \in Nat /\ \A d \in Days : d \in Nat
  /\ UNCHANGED ingest => Place' = Place
<1>1. ASSUME TypeInv
      PROVE  /\ pos \in Place /\ Handle \in Place /\ saved \in Place \cup {Torn}
             /\ Beginning \in Place
             /\ \A d \in Days : Len(spool[d]) \in Nat
             /\ day \in Nat /\ \A d \in Days : d \in Nat
  <2>1. RouterTypeOK /\ PlaceInv /\ MaxDays \in Nat
    BY <1>1, RouterAssumption DEF TypeInv
  <2>2. Handle \in Position /\ Beginning \in Position /\ Within(Beginning)
    BY <2>1 DEF RouterTypeOK, Handle, Position, Beginning, Within
  <2>3. pos \in Position /\ saved \in Position \cup {Torn}
    BY <2>1 DEF RouterTypeOK
  <2>4. \A d \in Days : spool[d] \in Seq(Chunk)
    BY <2>1 DEF RouterTypeOK, Chunk
  <2>5. day \in Nat /\ \A d \in Days : d \in Nat
    BY <2>1 DEF RouterTypeOK, Days
  <2> QED
    BY <2>1, <2>2, <2>3, <2>4, <2>5 DEF Place, PlaceInv
<1>2. UNCHANGED ingest => Place' = Place
  BY DEF Place, Within, ingest
<1> QED
  BY <1>1, <1>2

LEMMA RoutingCounters ==
  ASSUME RouterTypeOK, Routing
  PROVE  /\ rewound' \in BOOLEAN /\ {crashes, dbFails, tears}' \subseteq Nat
         /\ dbFails' >= dbFails /\ dbFails \in Nat
<1>1. rewound \in BOOLEAN /\ crashes \in Nat /\ dbFails \in Nat /\ tears \in Nat
  BY DEF RouterTypeOK
<1>2. /\ rewound' = rewound \/ rewound' = (rewound \/ saved = Torn)
      /\ crashes' \in {crashes, crashes + 1} /\ dbFails' \in {dbFails, dbFails + 1}
      /\ tears' = tears
  BY DEF Routing, ingest, RouterStep, Boot, Scan, EndOfFile, BadLine, Truncate, Write, WriteEnd,
     Refresh, ProcessLine, GiveUp, Reconnect, SaveFails, Crash
<1>3. rewound' \in BOOLEAN
  BY <1>1, <1>2
<1>4. crashes' \in Nat /\ dbFails' \in Nat /\ tears' \in Nat /\ dbFails' >= dbFails
  BY <1>1, <1>2
<1> QED
  BY <1>1, <1>3, <1>4

LEMMA TypeFromParts ==
  ASSUME TypeInv, Routing, DbInv',
         listed' \subseteq {d \in Days : d <= day},
         pos' \in Place, Handle' \in Place, saved' \in Place \cup {Torn},
         pc' \in {"boot", "scan", "read", "save", "saveEnd", "write", "writeEnd", "refresh"},
         pc' \in {"read", "save", "saveEnd", "write", "writeEnd"} <=> reading' # 0,
         bad' \subseteq Days \X Nat, errors' \subseteq Requests
  PROVE  TypeInv'
<1>1. /\ RouterTypeOK /\ PlaceInv /\ UNCHANGED <<spool, day, writing, acked>>
      /\ UNCHANGED ingest
  BY DEF TypeInv, Routing, ingest
<1>0. rewound' \in BOOLEAN /\ {crashes, dbFails, tears}' \subseteq Nat
  BY <1>1, RoutingCounters
<1>2. Handle' \in Position /\ Within(Handle)' /\ Within(pos)' /\ pos' \in Position
  BY <1>1, Places DEF Place
<1>3. saved' = Torn \/ (saved' \in Position /\ Within(saved)')
  BY <1>1, Places DEF Place
<1>4. reading' \in 0 .. MaxDays /\ offset' \in Nat
  BY <1>2 DEF Handle, Position
<1>5. reading' # 0 => offset' <= Len(spool'[reading'])
  BY <1>2 DEF Handle, Within
<1>6. PlaceInv'
  BY <1>1, <1>2, <1>3 DEF PlaceInv
<1>7. RouterTypeOK'
  BY <1>0, <1>1, <1>2, <1>3, <1>4, <1>5 DEF RouterTypeOK
<1> QED
  BY <1>6, <1>7 DEF TypeInv

(* A line that is done with takes the position to its end.                 *)
LineStep ==
  /\ AtLine /\ LineDone
  /\ BadLine \/ \E r \in Requests : ProcessLine(r) \/ GiveUp(r)

LEMMA LinePlaces ==
  ASSUME TypeInv, LineStep
  PROVE  /\ pos' = [file |-> reading, off |-> LineEnd] /\ pos' \in Place
         /\ Handle' = pos' /\ reading' = reading /\ offset' = LineEnd
         /\ pc = "read" /\ pc' = "save" /\ reading # 0
         /\ reading \in Days /\ LineEnd \in Ks(reading) /\ offset < LineEnd
         /\ UNCHANGED <<listed, saved, rewound, now>>
<1>1. reading \in Days /\ LineEnd \in Ks(reading) /\ offset < LineEnd
  BY LineEnds DEF LineStep, TypeInv
<1>2. /\ pos' = [file |-> reading, off |-> LineEnd] /\ offset' = LineEnd
      /\ pc = "read" /\ pc' = "save" /\ UNCHANGED <<reading, listed, saved, rewound, now>>
  BY DEF LineStep, LineDone, AtLine, BadLine, ProcessLine, GiveUp, dbVars
<1>3. Handle \in Place /\ \A d \in Days : Len(spool[d]) \in Nat
  BY Places
<1>4. reading # 0 /\ reading <= day /\ reading \in 0 .. MaxDays
  BY <1>1, <1>3, RouterAssumption DEF Place, Within, Handle, Position, Days
<1>5. LineEnd \in Nat /\ LineEnd <= Len(spool[reading])
  BY <1>1, <1>3 DEF Ks
<1>6. pos' \in Place
  BY <1>2, <1>4, <1>5 DEF Place, Position, Within
<1> QED
  BY <1>1, <1>2, <1>4, <1>6 DEF Handle

(* The file that is opened next is the first, and is opened at the         *)
(* position if the position is in it.                                      *)
LEMMA Opens ==
  ASSUME TypeInv, NEW days, days \subseteq Days, OpenFirst(days, pos),
         \A d \in days : d <= day
  PROVE  /\ Handle' \in Place
         /\ \/ /\ reading' \in days /\ pc' = "read" /\ \A g \in days : reading' <= g
               /\ offset' = IF reading' = pos.file THEN pos.off ELSE 0
            \/ days = {} /\ pc' = "refresh" /\ reading' = 0 /\ offset' = 0
<1>1. pos \in Place /\ \A d \in Days : Len(spool[d]) \in Nat
  BY Places
<1>2. \/ /\ reading' \in days /\ pc' = "read" /\ \A g \in days : reading' <= g
         /\ offset' = IF reading' = pos.file THEN pos.off ELSE 0
      \/ days = {} /\ pc' = "refresh" /\ reading' = 0 /\ offset' = 0
  BY DEF OpenFirst
<1>3. reading' # 0 => reading' \in Days /\ reading' <= day
  BY <1>2
<1>4. Days \subseteq 0 .. MaxDays /\ 0 \in 0 .. MaxDays /\ 0 \notin Days
  BY RouterAssumption DEF Days
<1>5. Handle' \in Place
  <2>1. Handle' = [file |-> reading', off |-> offset']
    BY DEF Handle
  <2>2. pos.file \in 0 .. MaxDays /\ pos.off \in Nat
        /\ (pos.file # 0 => pos.file <= day /\ pos.off <= Len(spool[pos.file]))
    BY <1>1 DEF Place, Position, Within
  <2>3. CASE reading' = 0
    BY <1>2, <1>4, <2>1, <2>2, <2>3 DEF Place, Position, Within
  <2>4. CASE reading' # 0 /\ reading' = pos.file
    <3>1. offset' = pos.off
      BY <1>2, <2>4
    <3> QED
      BY <2>1, <2>2, <2>4, <3>1 DEF Place, Position, Within
  <2>5. CASE reading' # 0 /\ reading' # pos.file
    <3>1. offset' = 0
      BY <1>2, <2>5
    <3>2. /\ reading' \in 0 .. MaxDays /\ reading' <= day
          /\ Len(spool[reading']) \in Nat /\ 0 <= Len(spool[reading'])
      <4>1. reading' \in Days /\ reading' <= day
        BY <1>3, <2>5
      <4>2. Len(spool[reading']) \in Nat
        BY <1>1, <4>1
      <4>3. \A n \in Nat : 0 <= n
        OBVIOUS
      <4> QED
        BY <1>4, <4>1, <4>2, <4>3
    <3>3. Handle' = [file |-> reading', off |-> 0]
      BY <2>1, <3>1
    <3> HIDE DEF Handle
    <3>4. Handle' \in Position
      BY <3>2, <3>3 DEF Position
    <3>5. Handle'.file = reading' /\ Handle'.off = 0
      BY <3>3
    <3> QED
      BY <3>2, <3>4, <3>5 DEF Place, Within
  <2> QED
    BY <2>3, <2>4, <2>5
<1> QED
  BY <1>2, <1>5

(* Routing, with the three ways a line is done with taken together.        *)
LEMMA RoutingKinds ==
  ASSUME TypeInv, Routing
  PROVE  \/ Boot \/ Scan \/ EndOfFile \/ LineStep \/ Truncate \/ Write \/ WriteEnd \/ Refresh
         \/ (\E r \in Requests : Reconnect(r)) \/ SaveFails \/ Crash
  BY DEF Routing, RouterStep, LineStep, BadLine, ProcessLine, GiveUp

LEMMA RoutingKeepsType == ASSUME TypeInv, Routing PROVE TypeInv'
<1>1. RouterTypeOK /\ PlaceInv /\ DbInv /\ UNCHANGED ingest
  BY DEF TypeInv, Routing
<1>2. /\ pos \in Place /\ Handle \in Place /\ saved \in Place \cup {Torn} /\ Beginning \in Place
      /\ listed \subseteq {d \in Days : d <= day}
      /\ bad \subseteq Days \X Nat /\ errors \subseteq Requests
  BY <1>1, Places DEF RouterTypeOK, PlaceInv
<1>3. /\ pc \in {"boot", "scan", "read", "save", "saveEnd", "write", "writeEnd", "refresh"}
      /\ (pc \in {"read", "save", "saveEnd", "write", "writeEnd"}) <=> reading # 0
  BY <1>1 DEF RouterTypeOK
<1>4. UNCHANGED dbVars => DbInv'
  BY <1>1 DEF dbVars, tables, DbInv, DbTypeOK, SilenceFollowsHeartbeat, OutboxIsAttributed, RowsOf
<1>5. CASE Boot
  <2>1. /\ UNCHANGED <<dbVars, listed, reading, offset, saved, bad, errors>>
        /\ pos' \in {Beginning, saved} \ {Torn} /\ pc = "boot" /\ pc' = "scan"
    BY <1>5 DEF Boot, Torn, Beginning
  <2>2. Handle' = Handle /\ pos' \in Place
    BY <1>2, <2>1 DEF Handle
  <2> QED
    BY <1>1, <1>2, <1>3, <1>4, <2>1, <2>2, TypeFromParts
<1>6. CASE Scan
  <2>1. /\ UNCHANGED <<dbVars, pos, saved, bad, errors>>
        /\ listed' = {d \in Days : spool[d] # <<>>}
        /\ OpenFirst(Unread(listed'), pos)
    BY <1>6 DEF Scan
  <2>2. listed' \subseteq {d \in Days : d <= day}
    BY <1>1, <2>1 DEF PlaceInv
  <2> DEFINE days == Unread(listed')
  <2>3. days \subseteq Days /\ \A d \in days : d <= day
    BY <2>2 DEF Unread
  <2>4. Handle' \in Place /\ pc' \in {"read", "refresh"} /\ (pc' = "read" <=> reading' # 0)
    <3>1. 0 \notin Days
      BY DEF Days
    <3> HIDE DEF days
    <3>2. OpenFirst(days, pos)
      BY <2>1 DEF days
    <3> QED
      BY <2>3, <3>1, <3>2, Opens
  <2> QED
    BY <1>1, <1>2, <1>4, <2>1, <2>2, <2>4, TypeFromParts
<1>7. CASE EndOfFile
  <2>1. /\ UNCHANGED <<dbVars, listed, reading, offset, saved, bad, errors>>
        /\ pos' = Handle /\ pc = "read" /\ pc' = "saveEnd"
    BY <1>7 DEF EndOfFile, Handle
  <2>2. Handle' = Handle
    BY <2>1 DEF Handle
  <2> QED
    BY <1>1, <1>2, <1>3, <1>4, <2>1, <2>2, TypeFromParts
<1>8. CASE LineStep
  <2>1. /\ pos' \in Place /\ Handle' \in Place /\ reading' = reading
        /\ pc = "read" /\ pc' = "save" /\ reading # 0
        /\ reading \in Days /\ LineEnd \in Ks(reading) /\ offset < LineEnd
        /\ UNCHANGED <<listed, saved, now>>
    BY <1>8, LinePlaces
  <2>2. DbInv'
    <3>1. ASSUME NEW r \in Requests, ProcessLine(r) PROVE DbInv'
      BY <1>1, <2>1, <3>1, ProcessKeeps DEF ProcessLine
    <3>2. ASSUME BadLine \/ \E r \in Requests : GiveUp(r) PROVE DbInv'
      BY <1>4, <3>2 DEF BadLine, GiveUp
    <3> QED
      BY <1>8, <3>1, <3>2 DEF LineStep
  <2>3. errors' \subseteq Requests
    BY <1>2, <1>8 DEF LineStep, BadLine, ProcessLine, GiveUp
  <2>4. bad' \subseteq Days \X Nat
    <3>1. LineEnd \in Nat /\ offset \in Nat
      BY <1>1, <2>1, Places DEF Ks, RouterTypeOK
    <3>2. {<<reading, k>> : k \in offset + 1 .. LineEnd} \subseteq Days \X Nat
      BY <2>1, <3>1
    <3> QED
      BY <1>2, <1>8, <3>2 DEF LineStep, BadLine, ProcessLine, GiveUp
  <2> QED
    BY <1>1, <1>2, <1>3, <2>1, <2>2, <2>3, <2>4, TypeFromParts
<1>9. CASE Truncate \/ Write
  <2>1. /\ UNCHANGED <<dbVars, listed, reading, offset, pos, bad, errors>>
        /\ saved' \in {pos, Torn}
        /\ pc \in {"save", "saveEnd", "write"} /\ pc' \in {"write", "writeEnd", "read"}
    BY <1>9 DEF Truncate, Write
  <2>2. Handle' = Handle
    BY <2>1 DEF Handle
  <2> QED
    BY <1>1, <1>2, <1>3, <1>4, <2>1, <2>2, TypeFromParts
<1>10. CASE WriteEnd
  <2> DEFINE days == {d \in listed : d > reading}
  <2>1. /\ UNCHANGED <<dbVars, listed, pos, bad, errors>> /\ saved' = pos
        /\ OpenFirst(days, pos)
    BY <1>10 DEF WriteEnd
  <2>2. days \subseteq Days /\ \A d \in days : d <= day
    BY <1>2
  <2> HIDE DEF days
  <2>3. Handle' \in Place /\ pc' \in {"read", "refresh"} /\ (pc' = "read" <=> reading' # 0)
    <3>1. 0 \notin Days
      BY DEF Days
    <3> QED
      BY <2>1, <2>2, <3>1, Opens
  <2> QED
    BY <1>1, <1>2, <1>4, <2>1, <2>3, TypeFromParts
<1>11. CASE Refresh
  <2>1. /\ UNCHANGED <<now, listed, reading, offset, pos, saved, bad, errors>>
        /\ pc = "refresh" /\ pc' = "scan"
        /\ RefreshDeviceStatuses \/ UNCHANGED tables
    BY <1>11 DEF Refresh
  <2>2. DbInv'
    BY <1>1, <1>4, <2>1, RefreshKeeps DEF dbVars
  <2>3. Handle' = Handle
    BY <2>1 DEF Handle
  <2> QED
    BY <1>1, <1>2, <1>3, <2>1, <2>2, <2>3, TypeFromParts
<1>12. CASE (\E r \in Requests : Reconnect(r)) \/ SaveFails \/ Crash
  <2>1. /\ UNCHANGED <<dbVars, saved, bad, errors>> /\ pos' \in {pos, Beginning}
        /\ listed' \in {listed, {}} /\ reading' = 0 /\ offset' = 0 /\ pc' \in {"scan", "boot"}
    BY <1>12 DEF Reconnect, SaveFails, Crash
  <2>2. Handle' \in Place
    BY <1>2, <2>1 DEF Handle, Beginning
  <2> QED
    BY <1>1, <1>2, <1>4, <2>1, <2>2, TypeFromParts
<1> QED
  BY <1>5, <1>6, <1>7, <1>8, <1>9, <1>10, <1>11, <1>12, RoutingKinds

LEMMA TypeInitial == RouterInit => TypeInv
<1> SUFFICES ASSUME RouterInit PROVE TypeInv
  OBVIOUS
<1>1. DbInv
  BY DbInitial DEF RouterInit
<1>2. Days = 1 .. MaxDays /\ 1 \in Days /\ 0 \in 0 .. MaxDays
  BY RouterAssumption DEF Days
<1>3. RouterTypeOK
  <2>1. spool \in [Days -> Seq(Chunk)] /\ Beginning \in Position
    BY <1>2 DEF RouterInit, Beginning, Position
  <2>2. {crashes, dbFails, tears} \subseteq Nat
    BY DEF RouterInit
  <2> QED
    BY <1>2, <2>1, <2>2 DEF RouterInit, RouterTypeOK, Chunk
<1>4. PlaceInv
  BY <1>2 DEF RouterInit, PlaceInv, Within, Handle, Beginning
<1> QED
  BY <1>1, <1>3, <1>4 DEF TypeInv

LEMMA TypeStep == TypeInv /\ [RouterNext]_allVars => TypeInv'
  BY StepKinds, SpoolingKeepsType, RoutingKeepsType

LEMMA TypeInvariant == RouterSpec => []TypeInv
  BY TypeInitial, TypeStep, PTL DEF RouterSpec

(* The positions of the worker are within files that exist, and a file is  *)
(* open exactly while the worker is at or between its lines, through every *)
(* crash and every state file that was lost.                               *)
THEOREM RouterTyped == RouterSpec => []RouterTypeOK
<1>1. TypeInv => RouterTypeOK
  BY DEF TypeInv
<1> QED
  BY <1>1, TypeInvariant, PTL

(***************************************************************************)
(* What a position has behind it is done with                              *)
(***************************************************************************)
LEMMA DoneStays ==
  ASSUME TypeInv, Routing, NEW d, NEW k, Done(d, k) PROVE Done(d, k)'
<1>1. spool' = spool /\ RouterTypeOK /\ raw \in Seq(Requests)
  BY DbInvParts DEF Routing, ingest, TypeInv, RowsInv
<1>2. bad \subseteq bad' /\ errors \subseteq errors' /\ RowsOf(raw) \subseteq RowsOf(raw')
  <2>1. bad \subseteq bad' /\ errors \subseteq errors'
    BY DEF Routing, RouterStep, Boot, Scan, EndOfFile, BadLine, Truncate, Write, WriteEnd,
       Refresh, ProcessLine, GiveUp, Reconnect, SaveFails, Crash
  <2>2. raw' = raw \/ \E r \in Requests : raw' = WithRaw(r)
    BY DEF Routing, RouterStep, Boot, Scan, EndOfFile, BadLine, Truncate, Write, WriteEnd,
       Refresh, RefreshDeviceStatuses, ProcessLine, ProcessSpooledEvent, GiveUp, Reconnect,
       SaveFails, Crash, dbVars, tables
  <2>3. ASSUME NEW r \in Requests PROVE RowsOf(raw) \subseteq RowsOf(WithRaw(r))
    <3>1. RowsOf(Append(raw, r)) = RowsOf(raw) \cup {r}
      BY <1>1, AppendRow
    <3> QED
      BY <3>1 DEF WithRaw
  <2>4. CASE raw' = raw
    BY <2>1, <2>4 DEF RowsOf
  <2>5. CASE \E r \in Requests : raw' = WithRaw(r)
    <3>1. PICK r \in Requests : raw' = WithRaw(r)
      BY <2>5
    <3>2. RowsOf(raw') = RowsOf(WithRaw(r))
      BY <3>1 DEF RowsOf
    <3> QED
      BY <2>1, <2>3, <3>2
  <2> QED
    BY <2>2, <2>4, <2>5
<1>3. dbFails' >= dbFails /\ dbFails \in Nat /\ dbFails' \in Nat
  BY <1>1, RoutingCounters
<1>4. dbFails > 0 => dbFails' > 0
  BY <1>3
<1> QED
  BY <1>1, <1>2, <1>4 DEF Done, Recorded, Req, RowsOf

(* A line that is a request is a whole chunk of it, or its head and tail.  *)
LEMMA LineOfRequest ==
  ASSUME TypeInv, AtLine, NEW r \in Requests, IsRequest(Line, r)
  PROVE  /\ \A k \in offset + 1 .. LineEnd : k \in Ks(reading) /\ Req(reading, k) = r
         /\ offset + 1 \in offset + 1 .. LineEnd
         /\ \/ LineEnd = offset + 1 /\ Part(reading, offset + 1) = "whole"
            \/ /\ LineEnd = offset + 2 /\ Part(reading, offset + 1) = "head"
               /\ Part(reading, offset + 2) = "tail"
<1> DEFINE s == spool[reading]
           last == LineEnd
<1>1. /\ reading \in Days /\ last \in Ks(reading) /\ offset < last
      /\ offset \in Nat /\ s \in Seq(Chunk) /\ Len(s) \in Nat
  BY LineEnds, Places DEF TypeInv, RouterTypeOK, Chunk
<1>2. last \in Nat /\ last <= Len(s)
  BY <1>1 DEF Ks
<1>3. Line = SubSeq(s, offset + 1, last)
  BY DEF Line
<1> HIDE DEF s, last
<1>4. /\ Len(Line) = last - offset
      /\ \A i \in 1 .. last - offset : Line[i] = s[i + offset]
  <2>1. offset + 1 \in 1 .. Len(s) + 1 /\ last \in offset .. Len(s)
    BY <1>1, <1>2
  <2>2. /\ Len(SubSeq(s, offset + 1, last)) = last - offset
        /\ \A i \in 1 .. last - offset : SubSeq(s, offset + 1, last)[i] = s[i + offset]
    BY <1>1, <1>2, <2>1
  <2> QED
    BY <1>3, <2>2
<1>5. \A i \in 1 .. Len(Line) : Line[i].req = r
  BY DEF IsRequest
<1>6. ASSUME NEW k \in offset + 1 .. last
      PROVE  k \in Ks(reading) /\ Req(reading, k) = r
  <2>1. k - offset \in 1 .. last - offset /\ (k - offset) + offset = k /\ k \in Ks(reading)
    BY <1>1, <1>2 DEF Ks, s
  <2>2. Line[k - offset] = s[k]
    BY <1>4, <2>1
  <2> QED
    BY <1>4, <1>5, <2>1, <2>2 DEF Req, s
<1>7. CASE Line = <<[req |-> r, part |-> "whole"]>>
  <2>1. last - offset = 1 /\ Line[1].part = "whole"
    BY <1>4, <1>7
  <2>2. last = offset + 1 /\ Line[1] = s[offset + 1]
    BY <1>1, <1>2, <1>4, <2>1
  <2> QED
    BY <1>1, <1>6, <2>1, <2>2 DEF Part, s, last
<1>8. CASE Line = <<[req |-> r, part |-> "head"], [req |-> r, part |-> "tail"]>>
  <2>1. last - offset = 2 /\ Line[1].part = "head" /\ Line[2].part = "tail"
    BY <1>4, <1>8
  <2>2. last = offset + 2 /\ Line[1] = s[offset + 1] /\ Line[2] = s[offset + 2]
    BY <1>1, <1>2, <1>4, <2>1
  <2>3. offset + 1 \in offset + 1 .. last
    BY <1>1, <2>2
  <2> QED
    BY <1>6, <2>1, <2>2, <2>3 DEF Part, s, last
<1> QED
  BY <1>7, <1>8 DEF IsRequest

(* A line that is done with is done with chunk by chunk.                   *)
LEMMA LineIsDone ==
  ASSUME TypeInv, LineStep, Routing, NEW k \in offset + 1 .. LineEnd
  PROVE  Done(reading, k)'
<1>1. /\ reading \in Days /\ LineEnd \in Ks(reading) /\ offset < LineEnd
      /\ RouterTypeOK /\ offset \in Nat /\ reading' = reading /\ spool' = spool
  BY LinePlaces DEF TypeInv, RouterTypeOK, Routing, ingest
<1>2. LineEnd \in Nat /\ LineEnd <= Len(spool[reading]) /\ Len(spool[reading]) \in Nat
  BY <1>1, Places DEF Ks
<1>3. CASE BadLine
  BY <1>1, <1>3 DEF BadLine, Done
<1>4. ASSUME NEW r \in Requests, IsRequest(Line, r) PROVE Req(reading, k) = r
  BY <1>4, LineOfRequest DEF LineStep
<1>5. ASSUME NEW r \in Requests, ProcessLine(r) PROVE Done(reading, k)'
  <2>1. Req(reading, k) = r
    BY <1>4, <1>5 DEF ProcessLine
  <2>2. r \in RowsOf(raw')
    <3>1. raw \in Seq(Requests) /\ raw' = WithRaw(r)
      BY <1>5, DbInvParts DEF TypeInv, RowsInv, ProcessLine, ProcessSpooledEvent
    <3>2. r \in RowsOf(WithRaw(r))
      BY <3>1, AppendRow DEF WithRaw
    <3> QED
      BY <3>1, <3>2
  <2> QED
    BY <1>1, <2>1, <2>2 DEF Done, Recorded, Req, RowsOf
<1>6. ASSUME NEW r \in Requests, GiveUp(r) PROVE Done(reading, k)'
  <2>1. Req(reading, k) = r /\ r \in Raises
    BY <1>4, <1>6 DEF GiveUp
  <2>2. r \in errors' \/ dbFails' > 0
    <3>1. dbFails \in Nat
      BY <1>1 DEF RouterTypeOK
    <3>2. r \in errors' \/ dbFails' = dbFails + 1
      BY <1>6 DEF GiveUp
    <3> QED
      BY <3>1, <3>2
  <2> QED
    BY <1>1, <2>1, <2>2 DEF Done, Recorded, Req
<1> QED
  BY <1>3, <1>5, <1>6 DEF LineStep

PassInv == ReadInv /\ DoneInv

LEMMA PassInitial == RouterInit => PassInv
  BY DEF RouterInit, PassInv, ReadInv, DoneInv, DoneBehind, Behind, Beginning, Ks

(* What a step adds to the spool is behind no position.                    *)
LEMMA NewIsAhead ==
  ASSUME TypeInv, Spooling, NEW p \in Place, NEW d \in Days, NEW k \in Ks(d)', Behind(d, k, p)
  PROVE  k \in Ks(d)
<1>1. Grown /\ day \in Nat /\ \A e \in Days : e \in Nat /\ Len(spool[e]) \in Nat
  BY SpoolGrows, Places
<1>2. SUFFICES ASSUME k \notin Ks(d) PROVE FALSE
  OBVIOUS
<1>3. d = day /\ k = Len(spool[day]) + 1
  BY <1>1, <1>2 DEF Grown
<1>4. p.file \in Nat /\ p.off \in Nat /\ (p.file # 0 => p.file <= day /\ p.off <= Len(spool[p.file]))
  BY RouterAssumption DEF Place, Position, Within
<1>5. d < p.file => FALSE
  BY <1>1, <1>3, <1>4
<1>6. d = p.file => p.off <= Len(spool[day])
  BY <1>1, <1>3, <1>4 DEF Days
<1> QED
  BY <1>1, <1>3, <1>4, <1>5, <1>6 DEF Behind

LEMMA SpoolingKeepsPass == ASSUME TypeInv, PassInv, Spooling PROVE PassInv'
<1>1. /\ Grown /\ pos \in Place /\ Handle \in Place /\ saved \in Place \cup {Torn}
      /\ day \in Nat /\ \A d \in Days : d \in Nat
  BY SpoolGrows, Places
<1>2. /\ UNCHANGED <<pc, listed, reading, offset, pos, saved, bad, raw, errors, dbFails>>
      /\ UNCHANGED Handle
  BY DEF Spooling, tables, routerVars, Handle
<1>3. \A d \in Days : \A k \in Ks(d) : k \in Ks(d)' /\ spool'[d][k] = spool[d][k]
  BY <1>1 DEF Grown
<1>4. ReadInv'
  <2>1. reading # 0 =>
          \A d \in Days : \A k \in Ks(d)' : Behind(d, k, Handle) => Behind(d, k, pos)
    BY <1>1, <1>3, NewIsAhead DEF PassInv, ReadInv
  <2>2. ASSUME NEW d \in Days, NEW e \in listed, d < e PROVE d # day /\ spool'[d] = spool[d]
    <3>1. e <= day /\ e \in Nat /\ d \in Nat
      BY <1>1 DEF TypeInv, PlaceInv, RouterTypeOK
    <3> QED
      BY <1>1, <2>2, <3>1 DEF Grown
  <2>3. \A d \in Days, e \in listed : d < e /\ d \notin listed => spool'[d] = <<>>
    BY <2>2 DEF PassInv, ReadInv
  <2>4. pc \in {"saveEnd", "writeEnd"} =>
          \A e \in listed : reading < e => offset = Len(spool'[reading])
    <3>1. pc \in {"saveEnd", "writeEnd"} => reading \in Days
      BY RouterAssumption DEF TypeInv, RouterTypeOK, Days
    <3> QED
      BY <2>2, <3>1 DEF PassInv, ReadInv
  <2> QED
    BY <1>2, <2>1, <2>3, <2>4 DEF ReadInv, Behind
<1>5. \A d \in Days : \A k \in Ks(d) : Done(d, k) => Done(d, k)'
  BY <1>2, <1>3 DEF Done, Recorded, Req, RowsOf
<1>6. ASSUME NEW p \in Place, DoneBehind(p)
      PROVE  \A d \in Days : \A k \in Ks(d)' : Behind(d, k, p) => Done(d, k)'
  BY <1>5, <1>6, NewIsAhead DEF DoneBehind
<1>7. DoneInv'
  BY <1>1, <1>2, <1>6 DEF PassInv, DoneInv, DoneBehind, Behind
<1> QED
  BY <1>4, <1>7 DEF PassInv

(* Between a position and the file opened next there is nothing.           *)
LEMMA ScanSkipsNothing ==
  ASSUME TypeInv, ReadInv, Scan \/ WriteEnd, reading' # 0, UNCHANGED ingest
  PROVE  \A d \in Days : \A k \in Ks(d) : Behind(d, k, Handle)' => Behind(d, k, pos)
<1>1. /\ pos \in Place /\ pos' = pos
      /\ \A d \in Days : d \in Nat /\ Len(spool[d]) \in Nat
      /\ \A d \in Days : d # 0
  BY Places DEF Scan, WriteEnd, Days
<1>2. /\ pos.file \in Nat /\ pos.off \in Nat
      /\ spool \in [Days -> Seq(Chunk)] /\ listed \subseteq Days
      /\ \A d \in listed : d <= day
  <2>1. pos.file \in Nat /\ pos.off \in Nat
    BY <1>1, RouterAssumption DEF Place, Position
  <2>2. RouterTypeOK /\ PlaceInv
    BY DEF TypeInv
  <2>3. spool \in [Days -> Seq(Chunk)] /\ listed \subseteq Days
    BY <2>2 DEF RouterTypeOK, Chunk
  <2>4. \A d \in listed : d <= day
    BY <2>2 DEF PlaceInv
  <2> QED
    BY <2>1, <2>3, <2>4
<1>3. SUFFICES ASSUME NEW d \in Days, NEW k \in Ks(d), Behind(d, k, Handle)', ~Behind(d, k, pos)
               PROVE  FALSE
  OBVIOUS
<1>4. k \in Nat /\ 1 <= k /\ k <= Len(spool[d]) /\ spool[d] # <<>>
  BY <1>1, <1>2 DEF Ks
<1>5. d < reading' \/ (d = reading' /\ k <= offset')
  BY <1>3 DEF Behind, Handle
<1>6. d > pos.file \/ (d = pos.file /\ k > pos.off)
  BY <1>1, <1>2, <1>3, <1>4 DEF Behind
<1>7. CASE Scan
  <2> DEFINE days == Unread(listed')
  <2>1. /\ OpenFirst(days, pos) /\ listed' = {e \in Days : spool[e] # <<>>}
        /\ \A e \in Days : spool[e] # <<>> => e <= day
    BY <1>7 DEF Scan, TypeInv, PlaceInv
  <2>2. days \subseteq Days /\ (\A e \in days : e <= day) /\ d \in days
    BY <1>1, <1>2, <1>4, <1>6, <2>1 DEF Unread
  <2> HIDE DEF days
  <2>3. /\ reading' \in days /\ \A g \in days : reading' <= g
        /\ offset' = IF reading' = pos.file THEN pos.off ELSE 0
    BY <2>1, <2>2, Opens
  <2>4. d = reading' /\ k <= offset'
    BY <1>1, <1>5, <2>2, <2>3
  <2> QED
    BY <1>1, <1>2, <1>4, <1>6, <2>3, <2>4
<1>8. CASE WriteEnd
  <2> DEFINE days == {e \in listed : e > reading}
  <2>1. OpenFirst(days, pos) /\ pc = "writeEnd"
    BY <1>8 DEF WriteEnd
  <2>2. days \subseteq Days /\ \A e \in days : e <= day /\ e > reading /\ e \in listed
    BY <1>2
  <2>3. \A e \in listed : e > reading => e \in days
    OBVIOUS
  <2> HIDE DEF days
  <2>4. /\ reading' \in days /\ \A g \in days : reading' <= g
        /\ offset' = IF reading' = pos.file THEN pos.off ELSE 0
    BY <2>1, <2>2, Opens
  <2>5. /\ reading # 0 /\ reading \in Days /\ offset = Len(spool[reading])
        /\ \A e \in Days : \A j \in Ks(e) : Behind(e, j, Handle) => Behind(e, j, pos)
    <3>1. reading # 0 /\ reading \in Days
      BY <2>1, RouterAssumption DEF TypeInv, RouterTypeOK, Days
    <3>2. reading < reading' /\ reading' \in listed
      BY <1>1, <1>2, <2>2, <2>4, <3>1
    <3> QED
      BY <2>1, <3>1, <3>2 DEF ReadInv
  <2>6. CASE d < reading'
    <3>1. d \in listed
      BY <1>4, <2>2, <2>4, <2>6 DEF ReadInv
    <3>2. ~(d > reading)
      BY <1>1, <1>2, <2>2, <2>3, <2>4, <2>6, <3>1
    <3>3. Behind(d, k, Handle)
      BY <1>1, <1>4, <2>5, <3>2 DEF Behind, Handle
    <3> QED
      BY <1>3, <2>5, <3>3
  <2>7. CASE d = reading' /\ k <= offset'
    BY <1>1, <1>2, <1>4, <1>6, <2>4, <2>7
  <2> QED
    BY <1>5, <2>6, <2>7
<1> QED
  BY <1>7, <1>8

LEMMA RoutingKeepsPass == ASSUME TypeInv, PassInv, Routing PROVE PassInv'
<1>1. /\ RouterTypeOK /\ UNCHANGED ingest /\ spool' = spool /\ TypeInv'
      /\ ReadInv /\ DoneBehind(pos) /\ (saved # Torn => DoneBehind(saved))
  BY RoutingKeepsType DEF TypeInv, Routing, ingest, PassInv, DoneInv
<1>2. /\ (pc \in {"read", "save", "saveEnd", "write", "writeEnd"}) <=> reading # 0
      /\ \A d \in Days : d \in Nat /\ d # 0 /\ Len(spool[d]) \in Nat
      /\ Days \subseteq Nat
  BY <1>1, Places DEF RouterTypeOK, Days
<1>3. \A d, k : Done(d, k) => Done(d, k)'
  BY DoneStays
<1>4. /\ \A d \in Days : \A k \in Ks(d) : ~Behind(d, k, Beginning)
      /\ Torn # Beginning
  BY <1>2 DEF Behind, Beginning, Torn
<1>5. (pos' = pos => DoneBehind(pos)') /\ (saved' # Torn /\ saved' = saved => DoneBehind(saved)')
  BY <1>1, <1>3 DEF DoneBehind, Behind, Ks
<1>6. (pos' = saved /\ saved # Torn => DoneBehind(pos)') /\ (saved' = pos => DoneBehind(saved)')
  BY <1>1, <1>3 DEF DoneBehind, Behind, Ks
<1>7. pos' = Beginning => DoneBehind(pos)'
  BY <1>1, <1>4 DEF DoneBehind, Behind, Ks
<1>8. listed' \in {listed, {}} =>
        \A d \in Days, e \in listed' : d < e /\ d \notin listed' => spool'[d] = <<>>
  BY <1>1 DEF ReadInv
<1>9. pos' = pos /\ Handle' = Handle =>
        (reading' # 0 =>
          \A d \in Days : \A k \in Ks(d)' : Behind(d, k, Handle)' => Behind(d, k, pos)')
  <2>1. SUFFICES ASSUME pos' = pos, Handle' = Handle, reading' # 0,
                        NEW d \in Days, NEW k \in Ks(d)', Behind(d, k, Handle)'
                 PROVE  Behind(d, k, pos)'
    OBVIOUS
  <2>2. reading # 0 /\ k \in Ks(d)
    BY <1>1, <2>1 DEF Handle, Ks
  <2>3. Behind(d, k, Handle)
    BY <2>1 DEF Behind
  <2> QED
    BY <1>1, <2>1, <2>2, <2>3 DEF ReadInv, Behind
<1>10. CASE Boot \/ Refresh \/ (\E r \in Requests : Reconnect(r)) \/ SaveFails \/ Crash
  <2>1. /\ reading' = 0 /\ listed' \in {listed, {}} /\ pc' \in {"boot", "scan"}
        /\ saved' = saved
        /\ pos' = pos \/ pos' = Beginning \/ (pos' = saved /\ saved # Torn)
    BY <1>2, <1>10 DEF Boot, Refresh, Reconnect, SaveFails, Crash
  <2>2. ReadInv'
    BY <1>8, <2>1 DEF ReadInv
  <2>3. DoneInv'
    BY <1>5, <1>6, <1>7, <2>1 DEF DoneInv
  <2> QED
    BY <2>2, <2>3 DEF PassInv
<1>11. CASE Scan
  <2>1. /\ pos' = pos /\ saved' = saved /\ pc' \in {"read", "refresh"}
        /\ listed' = {d \in Days : spool[d] # <<>>}
    BY <1>11 DEF Scan, OpenFirst
  <2>2. reading' # 0 =>
          \A d \in Days : \A k \in Ks(d)' : Behind(d, k, Handle)' => Behind(d, k, pos)'
    BY <1>1, <1>11, <2>1, ScanSkipsNothing DEF Behind, Ks
  <2>3. ReadInv'
    BY <1>1, <2>1, <2>2 DEF ReadInv
  <2>4. DoneInv'
    BY <1>5, <2>1 DEF DoneInv
  <2> QED
    BY <2>3, <2>4 DEF PassInv
<1>12. CASE WriteEnd
  <2>1. pos' = pos /\ saved' = pos /\ pc' \in {"read", "refresh"} /\ listed' = listed
    BY <1>12 DEF WriteEnd, OpenFirst
  <2>2. reading' # 0 =>
          \A d \in Days : \A k \in Ks(d)' : Behind(d, k, Handle)' => Behind(d, k, pos)'
    BY <1>1, <1>12, <2>1, ScanSkipsNothing DEF Behind, Ks
  <2>3. ReadInv'
    BY <1>8, <2>1, <2>2 DEF ReadInv
  <2>4. DoneInv'
    BY <1>5, <1>6, <2>1 DEF DoneInv
  <2> QED
    BY <2>3, <2>4 DEF PassInv
<1>13. CASE EndOfFile
  <2>1. /\ pos' = Handle /\ Handle' = Handle /\ saved' = saved /\ listed' = listed
        /\ reading # 0 /\ reading' = reading /\ offset' = offset /\ offset = Len(spool[reading])
    BY <1>2, <1>13 DEF EndOfFile, Handle
  <2>2. ReadInv'
    BY <1>1, <1>8, <2>1 DEF ReadInv
  <2>3. DoneBehind(pos)'
    BY <1>1, <1>3, <2>1 DEF DoneBehind, ReadInv, Behind, Ks
  <2> QED
    BY <1>5, <2>1, <2>2, <2>3 DEF PassInv, DoneInv
<1>14. CASE Truncate \/ Write
  <2>1. /\ pos' = pos /\ listed' = listed /\ reading' = reading /\ offset' = offset
        /\ saved' = Torn \/ saved' = pos
        /\ pc' = "writeEnd" => pc \in {"save", "saveEnd"} /\ pc # "save"
        /\ pc' # "saveEnd"
    BY <1>14 DEF Truncate, Write
  <2>2. Handle' = Handle
    BY <2>1 DEF Handle
  <2>3. pc' \in {"saveEnd", "writeEnd"} =>
          \A e \in listed' : reading' < e => offset' = Len(spool'[reading'])
    BY <1>1, <2>1 DEF ReadInv
  <2>4. ReadInv'
    BY <1>8, <1>9, <2>1, <2>2, <2>3 DEF ReadInv
  <2>5. DoneInv'
    BY <1>5, <1>6, <2>1 DEF DoneInv
  <2> QED
    BY <2>4, <2>5 DEF PassInv
<1>15. CASE LineStep
  <2>1. /\ pos' = [file |-> reading, off |-> LineEnd] /\ Handle' = pos' /\ reading # 0
        /\ reading \in Days /\ LineEnd \in Ks(reading) /\ offset < LineEnd /\ pc' = "save"
        /\ listed' = listed /\ saved' = saved /\ reading' = reading
    BY <1>15, LinePlaces
  <2>2. ReadInv'
    BY <1>8, <2>1 DEF ReadInv
  <2>3. ASSUME NEW d \in Days, NEW k \in Ks(d), Behind(d, k, pos') PROVE Done(d, k)'
    <3>1. d < reading \/ (d = reading /\ k <= LineEnd)
      BY <2>1, <2>3 DEF Behind
    <3>2. k \in Nat /\ offset \in Nat /\ LineEnd \in Nat
      BY <1>1, <1>2, <2>1 DEF Ks, RouterTypeOK
    <3>3. CASE d = reading /\ k \in offset + 1 .. LineEnd
      BY <1>15, <2>1, <3>3, LineIsDone
    <3>4. CASE ~(d = reading /\ k \in offset + 1 .. LineEnd)
      <4>1. Behind(d, k, Handle)
        BY <3>1, <3>2, <3>4 DEF Behind, Handle
      <4>2. Behind(d, k, pos)
        BY <1>1, <2>1, <4>1 DEF ReadInv
      <4>3. Done(d, k)
        BY <1>1, <4>2 DEF DoneBehind
      <4> QED
        BY <1>3, <4>3
    <3> QED
      BY <3>3, <3>4
  <2>4. DoneBehind(pos)'
    BY <1>1, <2>3 DEF DoneBehind, Behind, Ks
  <2> QED
    BY <1>5, <2>1, <2>2, <2>4 DEF PassInv, DoneInv
<1> QED
  BY <1>10, <1>11, <1>12, <1>13, <1>14, <1>15, RoutingKinds

LEMMA PassInvariant == RouterSpec => []PassInv
<1>1. TypeInv /\ PassInv /\ [RouterNext]_allVars => PassInv'
  BY StepKinds, SpoolingKeepsPass, RoutingKeepsPass
<1> QED
  BY <1>1, PassInitial, TypeInvariant, PTL DEF RouterSpec

(* No chunk vanishes: what the position has passed, in memory or on disk,  *)
(* is in raw_request, in processing_error or in the log of bad lines,      *)
(* whatever crashes, fails or is torn.                                     *)
THEOREM PassedAreAccounted == RouterSpec => []PassedIsAccounted
<1>1. TypeInv /\ PassInv => PassedIsAccounted
  <2>1. SUFFICES ASSUME TypeInv, PassInv, NEW p \in {pos, saved} \ {Torn}, NEW c \in Chunks,
                        Passed(p, c)
                 PROVE  c \in bad \/ Recorded(ChunkAt(c).req)
    BY DEF PassedIsAccounted
  <2>2. c[1] \in Days /\ c[2] \in DOMAIN spool[c[1]] /\ c = <<c[1], c[2]>>
    BY DEF Chunks
  <2>3. c[2] \in Ks(c[1])
    <3>1. spool[c[1]] \in Seq(Chunk)
      BY <2>1, <2>2 DEF TypeInv, RouterTypeOK, Chunk
    <3> QED
      BY <2>2, <3>1 DEF Ks
  <2>4. DoneBehind(p)
    BY <2>1 DEF PassInv, DoneInv
  <2>5. Done(c[1], c[2])
    BY <2>1, <2>2, <2>3, <2>4 DEF DoneBehind, Passed, Behind
  <2> QED
    BY <2>2, <2>5 DEF Done, Req, ChunkAt
<1> QED
  BY <1>1, TypeInvariant, PassInvariant, PTL

(***************************************************************************)
(* Raw ids follow the spool                                                *)
(***************************************************************************)
Precedes(t, r, s) == \E i, j \in DOMAIN t : i < j /\ t[i] = r /\ t[j] = s

(* RawInSpoolOrder, day by day.                                            *)
RawOrder ==
  \A d, e \in Days : \A k \in Ks(d), j \in Ks(e) :
    /\ Earlier(d, k, e, j) /\ Part(d, k) = "whole" /\ Part(e, j) = "whole"
    /\ Req(d, k) \in RowsOf(raw) /\ Req(e, j) \in RowsOf(raw)
    => Precedes(raw, Req(d, k), Req(e, j))

StoreInv == ShapeInv /\ SpooledInv /\ OrderInv /\ BadInv /\ StoredInv /\ RawOrder

LEMMA StoreInitial == RouterInit => StoreInv
<1> SUFFICES ASSUME RouterInit PROVE StoreInv
  OBVIOUS
<1>1. (\A d \in Days : spool[d] = <<>> /\ Ks(d) = {}) /\ errors = {} /\ bad = {} /\ pc = "boot"
  BY DEF RouterInit, Ks
<1>2. RowsOf(raw) = Legacy
  BY DEF RouterInit, Init
<1>3. SpooledInv
  BY <1>2 DEF SpooledInv
<1> QED
  BY <1>1, <1>3 DEF StoreInv, ShapeInv, OrderInv, BadInv, StoredInv, RawOrder

(* What is read of a file that a request has left is not in it.            *)
LEMMA NotSpooled ==
  ASSUME TypeInv, NEW r, r \notin Spooled, NEW d \in Days, NEW k \in Ks(d)
  PROVE  Req(d, k) # r
<1>1. spool[d] \in Seq(Chunk)
  BY DEF TypeInv, RouterTypeOK, Chunk
<1>2. spool[d][k] \in RowsOf(spool[d])
  BY <1>1 DEF RowsOf, Ks
<1>3. spool[d][k] \in UNION {RowsOf(spool[e]) : e \in Days}
  BY <1>2
<1>4. spool[d][k].req \in Spooled
  BY <1>3 DEF Spooled
<1> QED
  BY <1>4 DEF Req

(* A chunk that is added: the tail of the last one, or of a new request.   *)
LEMMA NewChunk ==
  ASSUME TypeInv, ShapeInv, SpooledInv, Spooling,
         NEW d \in Days, NEW k \in Ks(d)', k \notin Ks(d)
  PROVE  /\ d = day /\ k = Len(spool[day]) + 1
         /\ \A e \in Days : \A j \in Ks(e) : ~Earlier(d, k, e, j)
         /\ Req(d, k)' \notin Legacy
         /\ Part(d, k)' = "whole" => Req(d, k)' \notin RowsOf(raw)
         /\ \A e \in Days : \A j \in Ks(e) : Req(e, j) = Req(d, k)' =>
              e = d /\ k = j + 1 /\ Part(e, j) = "head" /\ Part(d, k)' = "tail"
<1>1. Grown /\ day \in Nat /\ \A e \in Days : e \in Nat /\ Len(spool[e]) \in Nat
  BY SpoolGrows, Places
<1>2. d = day /\ k = Len(spool[day]) + 1
  BY <1>1 DEF Grown
<1>3. \A e \in Days : \A j \in Ks(e) :
        e <= day /\ (e = day => j <= Len(spool[day])) /\ j \in Nat /\ j >= 1
  <2>1. SUFFICES ASSUME NEW e \in Days, NEW j \in Ks(e)
                 PROVE  e <= day /\ (e = day => j <= Len(spool[day])) /\ j \in Nat /\ j >= 1
    OBVIOUS
  <2>2. j \in Nat /\ 1 <= j /\ j <= Len(spool[e])
    BY <1>1 DEF Ks
  <2>3. spool[e] # <<>>
    BY <1>1, <2>2
  <2> QED
    BY <1>1, <2>2, <2>3 DEF TypeInv, PlaceInv
<1>4. \A e \in Days : \A j \in Ks(e) : ~Earlier(d, k, e, j)
  <2>1. SUFFICES ASSUME NEW e \in Days, NEW j \in Ks(e), Earlier(d, k, e, j) PROVE FALSE
    OBVIOUS
  <2>2. e <= day /\ (e = day => j <= Len(spool[day])) /\ j \in Nat
    BY <1>3
  <2>3. d < e \/ (d = e /\ k < j)
    BY <2>1 DEF Earlier
  <2> QED
    BY <1>1, <1>2, <2>2, <2>3
<1>5. PICK r \in Requests, part \in {"whole", "head", "tail"} : Appends(r, part)
  <2>1. spool' # spool
    BY DEF Ks
  <2> QED
    BY <2>1 DEF Spooling
<1>6. Req(d, k)' = r /\ Part(d, k)' = part
  <2>1. spool'[day][Len(spool[day]) + 1] = [req |-> r, part |-> part]
    BY <1>5, Puts DEF Appends, TypeInv
  <2> QED
    BY <1>2, <2>1 DEF Req, Part
<1>7. CASE part \in {"whole", "head"} /\ r \notin Spooled \cup Legacy
  <2>1. \A e \in Days : \A j \in Ks(e) : Req(e, j) # r
    BY <1>7, NotSpooled
  <2>2. r \notin RowsOf(raw)
    BY <1>7, <2>1 DEF SpooledInv
  <2> QED
    BY <1>2, <1>4, <1>6, <1>7, <2>1, <2>2
<1>8. CASE /\ part = "tail" /\ Len(spool[day]) \in Ks(day)
           /\ spool[day][Len(spool[day])] = [req |-> r, part |-> "head"]
  <2> DEFINE l == Len(spool[day])
  <2>1. Req(day, l) = r /\ Part(day, l) = "head" /\ day \in Days /\ l \in Ks(day)
    BY <1>2, <1>8 DEF Req, Part
  <2> HIDE DEF l
  <2>2. r \notin Legacy
    BY <2>1 DEF ShapeInv
  <2>3. ASSUME NEW e \in Days, NEW j \in Ks(e), Req(e, j) = r PROVE e = day /\ j = l
    <3>1. ~Earlier(e, j, day, l)
      BY <2>1, <2>3 DEF ShapeInv, HeadAndTail
    <3>2. e <= day /\ (e = day => j <= l) /\ j \in Nat /\ e \in Nat /\ l \in Nat
      BY <1>1, <1>3 DEF l
    <3>3. ~(e < day) /\ ~(e = day /\ j < l)
      BY <3>1 DEF Earlier
    <3> QED
      BY <1>1, <3>2, <3>3
  <2>4. k = l + 1
    BY <1>2 DEF l
  <2>5. \A e \in Days : \A j \in Ks(e) : Req(e, j) = Req(d, k)' =>
              e = d /\ k = j + 1 /\ Part(e, j) = "head" /\ Part(d, k)' = "tail"
    BY <1>2, <1>6, <1>8, <2>1, <2>3, <2>4
  <2>6. Req(d, k)' \notin Legacy /\ Part(d, k)' = "tail"
    BY <1>6, <1>8, <2>2
  <2> QED
    BY <1>2, <1>4, <2>5, <2>6
<1> QED
  BY <1>5, <1>7, <1>8 DEF Appends

LEMMA SpoolingKeepsStore ==
  ASSUME TypeInv, StoreInv, Spooling PROVE StoreInv'
<1>1. /\ ShapeInv /\ SpooledInv /\ OrderInv /\ BadInv /\ StoredInv /\ RawOrder /\ Grown
      /\ UNCHANGED <<raw, errors, bad, dbFails, pc, pos, saved, reading>> /\ UNCHANGED Handle
  BY SpoolGrows DEF StoreInv, Spooling, tables, routerVars, Handle
<1>2. \A d \in Days : \A k \in Ks(d) :
        k \in Ks(d)' /\ Req(d, k)' = Req(d, k) /\ Part(d, k)' = Part(d, k)
  BY <1>1 DEF Grown, Req, Part
<1>3. \A d \in Days : \A k \in Ks(d) : Done(d, k) => Done(d, k)'
  BY <1>1, <1>2 DEF Done, Recorded, RowsOf
<1>4. ASSUME NEW d \in Days, NEW k \in Ks(d)', k \notin Ks(d)
      PROVE  /\ \A e \in Days : \A j \in Ks(e) : ~Earlier(d, k, e, j)
             /\ \A j \in Ks(d)' : j \notin Ks(d) => j = k
             /\ \A e \in Days : \A j \in Ks(e)' : j \notin Ks(e) => e = d
             /\ Req(d, k)' \notin Legacy
             /\ Part(d, k)' = "whole" => Req(d, k)' \notin RowsOf(raw)
             /\ \A e \in Days : \A j \in Ks(e) : Req(e, j) = Req(d, k)' =>
                  e = d /\ k = j + 1 /\ Part(e, j) = "head" /\ Part(d, k)' = "tail"
  BY <1>1, <1>4, NewChunk
<1>5. ShapeInv'
  <2>1. ASSUME NEW d \in Days, NEW e \in Days, NEW k \in Ks(d)', NEW j \in Ks(e)',
               Req(d, k)' = Req(e, j)', Earlier(d, k, e, j)
        PROVE  HeadAndTail(d, k, e, j)'
    <3>1. CASE k \in Ks(d) /\ j \in Ks(e)
      BY <1>1, <1>2, <2>1, <3>1 DEF ShapeInv, HeadAndTail
    <3>2. CASE k \in Ks(d) /\ j \notin Ks(e)
      BY <1>2, <1>4, <2>1, <3>2 DEF HeadAndTail
    <3>3. CASE k \notin Ks(d) /\ j \in Ks(e)
      BY <1>4, <2>1, <3>3
    <3>4. CASE k \notin Ks(d) /\ j \notin Ks(e)
      <4>1. d = e /\ k = j
        BY <1>4, <3>4
      <4>2. k \in Nat /\ d \in Nat
        BY <1>1 DEF Ks, Grown, Days
      <4> QED
        BY <2>1, <4>1, <4>2 DEF Earlier
    <3> QED
      BY <3>1, <3>2, <3>3, <3>4
  <2>2. \A d \in Days : \A k \in Ks(d)' : Req(d, k)' \notin Legacy
    BY <1>1, <1>2, <1>4 DEF ShapeInv
  <2>3. errors' \subseteq Raises
    BY <1>1 DEF ShapeInv
  <2> QED
    BY <2>1, <2>2, <2>3 DEF ShapeInv, Earlier
<1>6. SpooledInv'
  BY <1>1, <1>2 DEF SpooledInv, RowsOf
<1>7. OrderInv'
  BY <1>1 DEF OrderInv, UpTo
<1>8. BadInv'
  <2>1. \A c \in bad : c[1] \in Days /\ c[2] \in Ks(c[1])'
    BY <1>1, <1>2 DEF BadInv, Grown, Ks
  <2>2. ASSUME NEW d \in Days, NEW k \in Ks(d)', <<d, k>> \in bad, Part(d, k)' = "whole"
        PROVE  /\ k > 1 /\ Part(d, k - 1)' = "head"
               /\ ~At(pos, d, k - 1) /\ ~At(saved, d, k - 1) /\ ~At(Handle, d, k - 1)
    <3>1. k \in Ks(d) /\ Part(d, k) = "whole"
      BY <1>1, <1>2, <2>2 DEF BadInv
    <3>2. /\ k > 1 /\ Part(d, k - 1) = "head"
          /\ ~At(pos, d, k - 1) /\ ~At(saved, d, k - 1) /\ ~At(Handle, d, k - 1)
      BY <1>1, <2>2, <3>1 DEF BadInv
    <3>3. k - 1 \in Ks(d)
      BY <1>1, <3>1, <3>2 DEF Ks, Grown
    <3> QED
      BY <1>2, <3>2, <3>3
  <2> QED
    BY <1>1, <2>1, <2>2 DEF BadInv, At
<1>9. StoredInv'
  <2>1. ASSUME NEW d \in Days, NEW e \in Days, NEW k \in Ks(d)', NEW j \in Ks(e)',
               Earlier(d, k, e, j), Part(e, j)' = "whole", Req(e, j)' \in RowsOf(raw)
        PROVE  Done(d, k)'
    <3>1. j \in Ks(e)
      BY <1>4, <2>1
    <3>2. k \in Ks(d)
      BY <1>4, <2>1, <3>1
    <3>3. Done(d, k)
      BY <1>1, <1>2, <2>1, <3>1, <3>2 DEF StoredInv
    <3> QED
      BY <1>3, <3>2, <3>3
  <2> QED
    BY <1>1, <2>1 DEF StoredInv, Earlier, RowsOf
<1>10. RawOrder'
  <2>1. ASSUME NEW d \in Days, NEW e \in Days, NEW k \in Ks(d)', NEW j \in Ks(e)',
               Earlier(d, k, e, j), Part(d, k)' = "whole", Part(e, j)' = "whole",
               Req(d, k)' \in RowsOf(raw), Req(e, j)' \in RowsOf(raw)
        PROVE  Precedes(raw, Req(d, k)', Req(e, j)')
    <3>1. j \in Ks(e) /\ k \in Ks(d)
      BY <1>4, <2>1
    <3>2. Precedes(raw, Req(d, k), Req(e, j))
      BY <1>1, <1>2, <2>1, <3>1 DEF RawOrder
    <3> QED
      BY <1>2, <3>1, <3>2
  <2> QED
    BY <1>1, <2>1 DEF RawOrder, Earlier, RowsOf, Precedes
<1> QED
  BY <1>5, <1>6, <1>7, <1>8, <1>9, <1>10 DEF StoreInv

(* Where the router's positions may come from.                             *)
LEMMA NewPositions ==
  ASSUME TypeInv, OrderInv, Routing
  PROVE  /\ pos' \in {pos, Beginning, saved, Handle} \/ (LineStep /\ pos' = Handle')
         /\ saved' \in {saved, pos, Torn}
         /\ \/ Handle' = Handle \/ reading' = 0 \/ LineStep
            \/ reading' \in Days /\ offset' = 0
            \/ reading' \in Days /\ Handle' = pos
         /\ OrderInv'
<1>1. /\ (pc \in {"read", "save", "saveEnd", "write", "writeEnd"}) <=> reading # 0
      /\ reading \in Nat /\ offset \in Nat /\ pos.file \in Nat /\ pos.off \in Nat
      /\ saved # Torn => saved.file \in Nat /\ saved.off \in Nat
      /\ pos \in Position /\ Days \subseteq Nat /\ \A d \in Days : d # 0
  <2>1. RouterTypeOK
    BY DEF TypeInv
  <2>2. pos.file \in Nat /\ pos.off \in Nat /\ pos \in Position
    BY <2>1, RouterAssumption DEF RouterTypeOK, Position
  <2>3. saved # Torn => saved.file \in Nat /\ saved.off \in Nat
    BY <2>1, RouterAssumption DEF RouterTypeOK, Position
  <2>4. reading \in Nat /\ offset \in Nat
    BY <2>1, RouterAssumption DEF RouterTypeOK
  <2> QED
    BY <2>1, <2>2, <2>3, <2>4 DEF RouterTypeOK, Days
<1>2. /\ pc # "boot" /\ saved # Torn => UpTo(saved, pos)
      /\ reading # 0 => UpTo(pos, Handle)
  BY <1>1 DEF OrderInv
<1>3. CASE Boot
  <2>1. pos' = (IF saved = Torn THEN Beginning ELSE saved) /\ saved' = saved /\ reading' = 0
    BY <1>1, <1>3 DEF Boot
  <2>2. OrderInv'
    BY <1>1, <2>1 DEF OrderInv, UpTo
  <2> QED
    BY <2>1, <2>2
<1>4. CASE Refresh \/ (\E r \in Requests : Reconnect(r)) \/ SaveFails \/ Crash
  <2>1. /\ reading' = 0 /\ saved' = saved /\ pc # "boot"
        /\ \/ pos' = pos
           \/ pc' = "boot" /\ pos' = Beginning
    BY <1>1, <1>4 DEF Refresh, Reconnect, AtLine, SaveFails, Crash
  <2>2. OrderInv'
    BY <1>1, <1>2, <2>1 DEF OrderInv, UpTo
  <2> QED
    BY <2>1, <2>2
<1>5. CASE Scan \/ WriteEnd
  <2> DEFINE days == IF pc = "scan" THEN Unread(listed') ELSE {d \in listed : d > reading}
  <2>1. /\ OpenFirst(days, pos) /\ pos' = pos /\ pc # "boot"
        /\ saved' = (IF pc = "scan" THEN saved ELSE pos)
        /\ pc = "scan" \/ reading # 0
    BY <1>1, <1>5 DEF Scan, WriteEnd
  <2>2. days \subseteq Days /\ \A d \in days : d <= day
    BY <1>5 DEF Scan, WriteEnd, Unread, TypeInv, PlaceInv, RouterTypeOK
  <2>3. \A d \in days : d >= pos.file
    <3>1. pc = "scan" => \A d \in days : d >= pos.file
      BY DEF Unread
    <3>2. reading # 0 => pos.file <= reading
      BY <1>1, <1>2 DEF UpTo, Handle
    <3>3. pc # "scan" => \A d \in days : d > reading /\ d \in Days
      BY <2>2
    <3> HIDE DEF days
    <3>4. \A m, n, d \in Nat : m <= n /\ d > n => d >= m
      OBVIOUS
    <3>5. reading # 0 /\ pc # "scan" => \A d \in days : d >= pos.file
      BY <1>1, <3>2, <3>3, <3>4
    <3> QED
      BY <2>1, <3>1, <3>5
  <2> HIDE DEF days
  <2>4. \/ /\ reading' \in days /\ reading' \in Days
           /\ offset' = IF reading' = pos.file THEN pos.off ELSE 0
        \/ reading' = 0
    BY <2>1, <2>2, Opens
  <2>5. Handle' = [file |-> reading', off |-> offset']
    BY DEF Handle
  <2>6. \/ reading' = 0
        \/ reading' \in Days /\ offset' = 0 /\ reading' > pos.file
        \/ reading' \in Days /\ Handle' = pos
    <3>1. CASE reading' = pos.file /\ reading' \in Days
      <4>1. Handle' = [file |-> pos.file, off |-> pos.off]
        BY <1>1, <2>4, <2>5, <3>1
      <4>2. pos = [file |-> pos.file, off |-> pos.off]
        BY <1>1 DEF Position
      <4> QED
        BY <3>1, <4>1, <4>2
    <3>2. CASE reading' # pos.file /\ reading' \in days
      BY <1>1, <2>2, <2>3, <2>4, <3>2
    <3> QED
      BY <2>4, <3>1, <3>2
  <2>7. OrderInv'
    <3>1. saved' # Torn => UpTo(saved', pos)
      BY <1>1, <1>2, <2>1 DEF UpTo
    <3>2. reading' # 0 => UpTo(pos, Handle')
      BY <1>1, <2>5, <2>6 DEF UpTo
    <3> QED
      BY <2>1, <3>1, <3>2 DEF OrderInv, UpTo
  <2> QED
    BY <2>1, <2>6, <2>7
<1>6. CASE EndOfFile
  <2>1. /\ pos' = Handle /\ Handle' = Handle /\ saved' = saved /\ pc = "read"
    BY <1>6 DEF EndOfFile, Handle
  <2>2. OrderInv'
    <3>1. saved # Torn => UpTo(saved, Handle)
      BY <1>1, <1>2, <2>1 DEF UpTo, Handle
    <3>2. UpTo(Handle, Handle)
      BY <1>1 DEF UpTo, Handle
    <3> QED
      BY <2>1, <3>1, <3>2 DEF OrderInv, UpTo
  <2> QED
    BY <2>1, <2>2
<1>7. CASE Truncate \/ Write
  <2>1. Handle' = Handle /\ pos' = pos /\ saved' \in {Torn, pos} /\ pc # "boot" /\ reading' = reading
    BY <1>7 DEF Truncate, Write, Handle
  <2>2. OrderInv'
    <3>1. UpTo(pos, pos)
      BY <1>1 DEF UpTo
    <3> QED
      BY <1>2, <2>1, <3>1 DEF OrderInv, UpTo
  <2> QED
    BY <2>1, <2>2
<1>8. CASE LineStep
  <2>1. /\ pos' = [file |-> reading, off |-> LineEnd] /\ Handle' = pos' /\ pc = "read"
        /\ LineEnd \in Ks(reading) /\ offset < LineEnd /\ reading \in Days /\ saved' = saved
    BY <1>8, LinePlaces
  <2>2. OrderInv'
    <3>1. LineEnd \in Nat
      BY <2>1, Places DEF Ks
    <3>2. saved # Torn => UpTo(saved, pos')
      BY <1>1, <1>2, <2>1, <3>1 DEF UpTo, Handle
    <3>3. UpTo(pos', Handle')
      BY <1>1, <2>1, <3>1 DEF UpTo
    <3> QED
      BY <2>1, <3>2, <3>3 DEF OrderInv, UpTo
  <2> QED
    BY <1>8, <2>1, <2>2
<1> QED
  BY <1>3, <1>4, <1>5, <1>6, <1>7, <1>8, RoutingKinds

LEMMA RoutingKeepsBad ==
  ASSUME TypeInv, OrderInv, BadInv, Routing PROVE BadInv'
<1>1. /\ RouterTypeOK /\ spool' = spool /\ \A d \in Days : Ks(d)' = Ks(d) /\ d \in Nat /\ d # 0
      /\ \A d \in Days : \A k \in Ks(d) : k \in Nat /\ k <= Len(spool[d])
      /\ \A d, k : Part(d, k)' = Part(d, k)
      /\ \A d \in Days : Len(spool[d]) \in Nat /\ spool[d] \in Seq(Chunk)
  <2>1. RouterTypeOK /\ spool' = spool
    BY DEF TypeInv, Routing, ingest
  <2>2. \A d \in Days : /\ Len(spool[d]) \in Nat /\ spool[d] \in Seq(Chunk)
                        /\ d \in Nat /\ d # 0
    <3>1. \A d \in Days : d # 0
      BY DEF Days
    <3>2. \A d \in Days : Len(spool[d]) \in Nat /\ d \in Nat
      BY Places
    <3>3. spool \in [Days -> Seq(Chunk)]
      BY <2>1 DEF RouterTypeOK, Chunk
    <3> QED
      BY <3>1, <3>2, <3>3
  <2>3. \A d \in Days : Ks(d)' = Ks(d) /\ \A k \in Ks(d) : k \in Nat /\ k <= Len(spool[d])
    BY <2>1, <2>2 DEF Ks
  <2>4. \A d, k : Part(d, k)' = Part(d, k)
    BY <2>1 DEF Part
  <2> QED
    BY <2>1, <2>2, <2>3, <2>4
<1>2. /\ pos' \in {pos, Beginning, saved, Handle} \/ (LineStep /\ pos' = Handle')
      /\ saved' \in {saved, pos, Torn}
      /\ \/ Handle' = Handle \/ reading' = 0 \/ LineStep
         \/ reading' \in Days /\ offset' = 0
         \/ reading' \in Days /\ Handle' = pos
      /\ Handle' = [file |-> reading', off |-> offset']
  BY NewPositions DEF Handle
<1>3. LineStep =>
        /\ Handle' = [file |-> reading, off |-> LineEnd] /\ reading \in Days
        /\ LineEnd \in Ks(reading) /\ offset < LineEnd /\ pc = "read" /\ reading # 0
        /\ Part(reading, LineEnd) # "head" \/ LineEnd = Len(spool[reading])
        /\ \A j \in offset + 1 .. LineEnd - 1 : Part(reading, j) = "head"
  BY <1>1, LinePlaces, LineEnds DEF LineStep
<1>4. ASSUME NEW d \in Days, NEW k \in Ks(d), k > 1, Part(d, k - 1) = "head",
             ~At(pos, d, k - 1), ~At(saved, d, k - 1), ~At(Handle, d, k - 1)
      PROVE  ~At(pos', d, k - 1) /\ ~At(saved', d, k - 1) /\ ~At(Handle', d, k - 1)
  <2>1. ~At(Beginning, d, k - 1) /\ ~At(Torn, d, k - 1)
    BY <1>1, <1>4 DEF At, Beginning, Torn
  <2>2. LineStep => ~At(Handle', d, k - 1)
    <3>1. SUFFICES ASSUME LineStep, d = reading, k - 1 = LineEnd PROVE FALSE
      BY <1>3 DEF At
    <3>2. LineEnd = Len(spool[reading])
      BY <1>3, <1>4, <3>1
    <3> QED
      BY <1>1, <1>3, <3>1, <3>2
  <2>3. reading' = 0 \/ (reading' \in Days /\ offset' = 0) => ~At(Handle', d, k - 1)
    BY <1>1, <1>2, <1>4 DEF At
  <2>4. ~At(Handle', d, k - 1)
    BY <1>2, <1>4, <2>2, <2>3
  <2>5. ~At(pos', d, k - 1)
    BY <1>2, <1>4, <2>1, <2>4
  <2>6. ~At(saved', d, k - 1)
    BY <1>2, <1>4, <2>1
  <2> QED
    BY <2>4, <2>5, <2>6
<1>5. CASE ~BadLine
  <2>1. bad' = bad
    BY <1>5 DEF Routing, RouterStep, Boot, Scan, EndOfFile, Truncate, Write, WriteEnd,
       Refresh, ProcessLine, GiveUp, Reconnect, SaveFails, Crash
  <2>2. ASSUME NEW d \in Days, NEW k \in Ks(d), <<d, k>> \in bad', Part(d, k)' = "whole"
        PROVE  /\ k > 1 /\ Part(d, k - 1)' = "head"
               /\ ~At(pos', d, k - 1) /\ ~At(saved', d, k - 1) /\ ~At(Handle', d, k - 1)
    BY <1>1, <1>4, <2>1, <2>2 DEF BadInv
  <2>3. \A c \in bad' : c[1] \in Days /\ c[2] \in Ks(c[1])'
    BY <1>1, <2>1 DEF BadInv
  <2> QED
    BY <1>1, <2>2, <2>3 DEF BadInv, At
<1>6. CASE BadLine
  <2>1. LineStep /\ AtLine /\ (\A r \in Requests : ~IsRequest(Line, r))
        /\ bad' = bad \cup {<<reading, k>> : k \in offset + 1 .. LineEnd}
    BY <1>6 DEF BadLine, LineStep
  <2>2. /\ offset \in Nat /\ reading \in Days /\ LineEnd \in Nat /\ LineEnd <= Len(spool[reading])
        /\ \A k \in offset + 1 .. LineEnd : k \in Ks(reading)
    BY <1>1, <1>3, <2>1 DEF RouterTypeOK, Ks
  <2>3. \A c \in bad' : c[1] \in Days /\ c[2] \in Ks(c[1])'
    BY <1>1, <2>1, <2>2 DEF BadInv
  <2>4. ASSUME NEW k \in offset + 1 .. LineEnd, Part(reading, k) = "whole"
        PROVE  /\ k > 1 /\ Part(reading, k - 1) = "head"
               /\ ~At(pos', reading, k - 1) /\ ~At(saved', reading, k - 1)
               /\ ~At(Handle', reading, k - 1)
    <3>1. k = LineEnd /\ k \in Nat
      BY <1>3, <2>1, <2>2, <2>4
    <3>2. k # offset + 1
      <4>1. SUFFICES ASSUME k = offset + 1 PROVE FALSE
        OBVIOUS
      <4> DEFINE s == spool[reading]
                 r == Req(reading, k)
      <4>2. s \in Seq(Chunk) /\ k \in 1 .. Len(s) /\ s[k] \in Chunk
        BY <1>1, <2>2, <3>1 DEF Ks
      <4>3. s[k] = [req |-> r, part |-> "whole"] /\ r \in Requests
        BY <2>4, <4>2 DEF Chunk, Req, Part
      <4>4. Line = SubSeq(s, k, k)
        BY <3>1, <4>1 DEF Line
      <4> HIDE DEF s, r
      <4>5. SubSeq(s, k, k) = <<s[k]>>
        <5>1. k \in Int /\ \A i \in k .. k : s[i] \in Chunk
          BY <4>2
        <5>2. /\ SubSeq(s, k, k) \in Seq(Chunk) /\ Len(SubSeq(s, k, k)) = k - k + 1
              /\ \A i \in 1 .. k - k + 1 : SubSeq(s, k, k)[i] = s[k + i - 1]
          BY <5>1, SubSeqProperties
        <5>3. Len(SubSeq(s, k, k)) = 1 /\ SubSeq(s, k, k)[1] = s[k]
          BY <5>1, <5>2
        <5>4. <<s[k]>> \in Seq(Chunk) /\ Len(<<s[k]>>) = 1 /\ <<s[k]>>[1] = s[k]
          BY <4>2
        <5> DEFINE t == SubSeq(s, k, k)
                   u == <<s[k]>>
        <5>5. t \in Seq(Chunk) /\ u \in Seq(Chunk) /\ Len(t) = 1 /\ Len(u) = 1 /\ t[1] = u[1]
          BY <5>2, <5>3, <5>4
        <5> HIDE DEF t, u
        <5>6. t = u
          BY <5>5, SeqEqual
        <5> QED
          BY <5>6 DEF t, u
      <4>6. IsRequest(Line, r)
        BY <4>3, <4>4, <4>5 DEF IsRequest
      <4> QED
        BY <2>1, <4>3, <4>6
    <3>3. k - 1 \in offset + 1 .. LineEnd - 1 /\ k > 1
      BY <2>2, <3>1, <3>2
    <3>4. Part(reading, k - 1) = "head"
      BY <1>3, <2>1, <3>3
    <3>5. /\ pos' = [file |-> reading, off |-> k] /\ Handle' = pos' /\ saved' = saved
      BY <2>1, <3>1, LinePlaces
    <3>6. ~At(pos', reading, k - 1) /\ ~At(Handle', reading, k - 1)
      BY <3>1, <3>5 DEF At
    <3>7. ~At(saved, reading, k - 1)
      <4>1. pc # "boot" /\ reading # 0
        BY <1>3, <2>1
      <4>2. saved # Torn => UpTo(saved, pos) /\ UpTo(pos, Handle)
        BY <4>1 DEF OrderInv
      <4>3. /\ pos.file \in Nat /\ pos.off \in Nat
            /\ saved # Torn => saved.file \in Nat /\ saved.off \in Nat
        <5>1. pos \in Position /\ (saved # Torn => saved \in Position)
          BY <1>1 DEF RouterTypeOK
        <5> QED
          BY <5>1, RouterAssumption DEF Position
      <4>4. CASE saved = Torn
        BY <2>2, <1>1, <4>4 DEF At, Torn
      <4>5. CASE saved # Torn
        <5>1. saved.file < reading \/ (saved.file = reading /\ saved.off <= offset)
          BY <1>1, <2>2, <4>2, <4>3, <4>5 DEF UpTo, Handle
        <5> QED
          BY <1>1, <2>2, <3>3, <4>3, <4>5, <5>1 DEF At
      <4> QED
        BY <4>4, <4>5
    <3> QED
      BY <3>3, <3>4, <3>5, <3>6, <3>7
  <2>5. ASSUME NEW d \in Days, NEW k \in Ks(d), <<d, k>> \in bad', Part(d, k) = "whole"
        PROVE  /\ k > 1 /\ Part(d, k - 1) = "head"
               /\ ~At(pos', d, k - 1) /\ ~At(saved', d, k - 1) /\ ~At(Handle', d, k - 1)
    <3>1. CASE <<d, k>> \in bad
      BY <1>1, <1>4, <2>5, <3>1 DEF BadInv
    <3>2. CASE d = reading /\ k \in offset + 1 .. LineEnd
      BY <2>4, <2>5, <3>2
    <3> QED
      BY <2>1, <2>5, <3>1, <3>2
  <2> QED
    BY <1>1, <2>3, <2>5 DEF BadInv, At
<1> QED
  BY <1>5, <1>6

(* A request processed for the first time: what was spooled before its     *)
(* whole chunk is done with, and a whole chunk of it is where the handle   *)
(* stands.                                                                 *)
LEMMA FirstOfRequest ==
  ASSUME TypeInv, ReadInv, DoneBehind(pos), ShapeInv, NEW r \in Requests, AtLine, IsRequest(Line, r)
  PROVE  /\ reading \in Days /\ offset \in Nat /\ offset + 1 \in Ks(reading)
         /\ Req(reading, offset + 1) = r
         /\ \A e \in Days : \A j \in Ks(e) :
              Req(e, j) = r /\ Part(e, j) = "whole" =>
                /\ e = reading /\ j = offset + 1
                /\ \A d \in Days : \A k \in Ks(d) : Earlier(d, k, e, j) => Done(d, k)
<1>1. /\ reading \in Days /\ offset \in Nat /\ offset + 1 \in Ks(reading)
      /\ Req(reading, offset + 1) = r /\ reading # 0
      /\ \A d \in Days : d \in Nat /\ Len(spool[d]) \in Nat
  <2>1. reading \in Days /\ offset \in Nat /\ reading # 0
    <3>1. RouterTypeOK
      BY DEF TypeInv
    <3>2. reading \in Days
      BY <3>1, LineEnds
    <3>3. \A d \in Days : d # 0
      BY DEF Days
    <3>4. offset \in Nat
      BY <3>1 DEF RouterTypeOK
    <3> QED
      BY <3>2, <3>3, <3>4
  <2> QED
    BY <2>1, LineOfRequest, Places
<1>2. ASSUME NEW e \in Days, NEW j \in Ks(e), Req(e, j) = r, Part(e, j) = "whole"
      PROVE  /\ e = reading /\ j = offset + 1
             /\ \A d \in Days : \A k \in Ks(d) : Earlier(d, k, e, j) => Done(d, k)
  <2>1. ~Earlier(e, j, reading, offset + 1) /\ ~Earlier(reading, offset + 1, e, j)
    BY <1>1, <1>2 DEF ShapeInv, HeadAndTail
  <2>2. j \in Nat
    BY <1>1 DEF Ks
  <2>3. e = reading /\ j = offset + 1
    BY <1>1, <2>1, <2>2 DEF Earlier
  <2>4. ASSUME NEW d \in Days, NEW k \in Ks(d), Earlier(d, k, e, j) PROVE Done(d, k)
    <3>1. k \in Nat
      BY <1>1 DEF Ks
    <3>2. Behind(d, k, Handle)
      BY <1>1, <2>3, <2>4, <3>1 DEF Behind, Handle, Earlier
    <3>3. Behind(d, k, pos)
      BY <1>1, <3>2 DEF ReadInv
    <3> QED
      BY <3>3 DEF DoneBehind
  <2> QED
    BY <2>3, <2>4
<1> QED
  BY <1>1, <1>2

LEMMA RoutingKeepsStore ==
  ASSUME TypeInv, PassInv, StoreInv, Routing PROVE StoreInv'
<1>1. /\ ShapeInv /\ SpooledInv /\ OrderInv /\ BadInv /\ StoredInv /\ RawOrder
      /\ ReadInv /\ DoneBehind(pos)
      /\ RouterTypeOK /\ spool' = spool /\ \A d \in Days : Ks(d)' = Ks(d)
      /\ raw \in Seq(Requests)
      /\ \A d, k : Part(d, k)' = Part(d, k) /\ Req(d, k)' = Req(d, k)
  BY DbInvParts DEF StoreInv, PassInv, DoneInv, TypeInv, RowsInv, Routing, ingest, Ks, Part, Req
<1>2. \A d, k : Done(d, k) => Done(d, k)'
  BY DoneStays
<1>3. OrderInv' /\ BadInv'
  BY <1>1, NewPositions, RoutingKeepsBad
<1>4. ShapeInv'
  <2>1. errors' = errors \/ \E r \in Raises : errors' = errors \cup {r}
    BY DEF Routing, RouterStep, Boot, Scan, EndOfFile, BadLine, Truncate, Write, WriteEnd,
       Refresh, ProcessLine, GiveUp, Reconnect, SaveFails, Crash
  <2>2. errors' \subseteq Raises
    BY <1>1, <2>1 DEF ShapeInv
  <2>3. /\ \A d, e \in Days : \A k \in Ks(d)', j \in Ks(e)' :
             Req(d, k)' = Req(e, j)' /\ Earlier(d, k, e, j) => HeadAndTail(d, k, e, j)'
        /\ \A d \in Days : \A k \in Ks(d)' : Req(d, k)' \notin Legacy
    BY <1>1 DEF ShapeInv, HeadAndTail
  <2> QED
    BY <2>2, <2>3 DEF ShapeInv, Earlier
<1>5. ASSUME raw' = raw PROVE SpooledInv' /\ StoredInv' /\ RawOrder'
  <2>1. RowsOf(raw') = RowsOf(raw)
    BY <1>5
  <2>2. SpooledInv'
    BY <1>1, <2>1 DEF SpooledInv, RowsOf
  <2>3. StoredInv'
    <3>1. ASSUME NEW d \in Days, NEW e \in Days, NEW k \in Ks(d), NEW j \in Ks(e),
                 Earlier(d, k, e, j), Part(e, j) = "whole", Req(e, j) \in RowsOf(raw)
          PROVE  Done(d, k)'
      BY <1>1, <1>2, <3>1 DEF StoredInv
    <3> QED
      BY <1>1, <2>1, <3>1 DEF StoredInv, Earlier, RowsOf
  <2>4. RawOrder'
    BY <1>1, <1>5 DEF RawOrder, Earlier, RowsOf, Precedes
  <2> QED
    BY <2>2, <2>3, <2>4
<1>6. ASSUME NEW r \in Requests, ProcessLine(r), raw' # raw
      PROVE  SpooledInv' /\ StoredInv' /\ RawOrder'
  <2>1. /\ raw' = Append(raw, r) /\ r \notin RowsOf(raw)
        /\ AtLine /\ IsRequest(Line, r) /\ r \notin Raises
    BY <1>6 DEF ProcessLine, ProcessSpooledEvent, WithRaw
  <2>2. /\ raw' \in Seq(Requests) /\ RowsOf(raw') = RowsOf(raw) \cup {r}
        /\ DOMAIN raw' = DOMAIN raw \cup {Len(raw) + 1} /\ Len(raw) \in Nat
        /\ DOMAIN raw = 1 .. Len(raw)
        /\ \A i \in DOMAIN raw : raw'[i] = raw[i]
        /\ raw'[Len(raw) + 1] = r
    BY <1>1, <2>1, AppendRow
  <2>3. /\ reading \in Days /\ offset \in Nat /\ offset + 1 \in Ks(reading)
        /\ Req(reading, offset + 1) = r
        /\ \A e \in Days : \A j \in Ks(e) :
             Req(e, j) = r /\ Part(e, j) = "whole" =>
               /\ e = reading /\ j = offset + 1
               /\ \A d \in Days : \A k \in Ks(d) : Earlier(d, k, e, j) => Done(d, k)
    BY <1>1, <2>1, FirstOfRequest
  <2>4. SpooledInv'
    <3>1. \A s \in RowsOf(raw') : s \in Legacy \/ \E d \in Days : \E k \in Ks(d) : Req(d, k) = s
      BY <1>1, <2>2, <2>3 DEF SpooledInv
    <3> QED
      BY <1>1, <3>1 DEF SpooledInv, RowsOf
  <2>5. StoredInv'
    <3>1. ASSUME NEW d \in Days, NEW e \in Days, NEW k \in Ks(d), NEW j \in Ks(e),
                 Earlier(d, k, e, j), Part(e, j) = "whole", Req(e, j) \in RowsOf(raw')
          PROVE  Done(d, k)'
      BY <1>1, <1>2, <2>2, <2>3, <3>1 DEF StoredInv
    <3> QED
      BY <1>1, <3>1 DEF StoredInv, Earlier, RowsOf
  <2>6. RawOrder'
    <3>1. ASSUME NEW d \in Days, NEW e \in Days, NEW k \in Ks(d), NEW j \in Ks(e),
                 Earlier(d, k, e, j), Part(d, k) = "whole", Part(e, j) = "whole",
                 Req(d, k) \in RowsOf(raw'), Req(e, j) \in RowsOf(raw')
          PROVE  Precedes(raw', Req(d, k), Req(e, j))
      <4>1. CASE Req(d, k) \in RowsOf(raw) /\ Req(e, j) \in RowsOf(raw)
        <5>1. Precedes(raw, Req(d, k), Req(e, j))
          BY <1>1, <3>1, <4>1 DEF RawOrder
        <5> QED
          BY <2>2, <5>1 DEF Precedes
      <4>2. CASE Req(d, k) \in RowsOf(raw) /\ Req(e, j) = r
        <5>1. PICK i \in DOMAIN raw : raw[i] = Req(d, k)
          BY <4>2 DEF RowsOf
        <5>2. i \in DOMAIN raw' /\ Len(raw) + 1 \in DOMAIN raw' /\ i < Len(raw) + 1
          BY <2>2, <5>1
        <5> QED
          BY <2>2, <4>2, <5>1, <5>2 DEF Precedes
      <4>3. CASE Req(d, k) = r
        <5>1. d = reading /\ k = offset + 1
          BY <2>3, <3>1, <4>3
        <5>2. Req(e, j) # r
          BY <1>1, <3>1, <4>3 DEF ShapeInv, HeadAndTail
        <5>3. Req(e, j) \in RowsOf(raw)
          BY <2>2, <3>1, <5>2
        <5>4. Done(d, k)
          BY <1>1, <3>1, <5>3 DEF StoredInv
        <5>5. <<d, k>> \in bad
          BY <1>1, <2>1, <4>3, <5>4 DEF Done, Recorded, ShapeInv
        <5>6. ~At(Handle, d, k - 1)
          BY <1>1, <3>1, <5>5 DEF BadInv
        <5>7. At(Handle, d, k - 1)
          BY <2>3, <5>1 DEF At, Handle
        <5> QED
          BY <5>6, <5>7
      <4> QED
        BY <2>2, <3>1, <4>1, <4>2, <4>3
    <3> QED
      BY <1>1, <3>1 DEF RawOrder, Earlier, RowsOf, Precedes
  <2> QED
    BY <2>4, <2>5, <2>6
<1>7. raw' = raw \/ \E r \in Requests : ProcessLine(r)
  BY DEF Routing, RouterStep, Boot, Scan, EndOfFile, BadLine, Truncate, Write, WriteEnd,
     Refresh, RefreshDeviceStatuses, GiveUp, Reconnect, SaveFails, Crash, dbVars, tables
<1>8. SpooledInv' /\ StoredInv' /\ RawOrder'
  BY <1>5, <1>6, <1>7
<1> QED
  BY <1>3, <1>4, <1>8 DEF StoreInv

LEMMA StoreInvariant == RouterSpec => []StoreInv
<1>1. TypeInv /\ PassInv /\ StoreInv /\ [RouterNext]_allVars => StoreInv'
  BY StepKinds, SpoolingKeepsStore, RoutingKeepsStore
<1> QED
  BY <1>1, StoreInitial, TypeInvariant, PassInvariant, PTL DEF RouterSpec

(* Of two requests that were each appended in one write, the earlier in    *)
(* the spool has the lower raw id, across files, crashes, re-readings and  *)
(* lines that are bad one time and good the next.                          *)
THEOREM RawIdsFollowTheSpool == RouterSpec => []RawInSpoolOrder
<1>1. TypeInv /\ StoreInv => RawInSpoolOrder
  <2>1. SUFFICES ASSUME TypeInv, StoreInv, NEW b \in Chunks, NEW c \in Chunks, Before(b, c),
                        ChunkAt(b).part = "whole", ChunkAt(c).part = "whole",
                        ChunkAt(b).req \in RowsOf(raw), ChunkAt(c).req \in RowsOf(raw)
                 PROVE  Precedes(raw, ChunkAt(b).req, ChunkAt(c).req)
    BY DEF RawInSpoolOrder, Precedes
  <2>2. \A a \in Chunks : a[1] \in Days /\ a[2] \in Ks(a[1])
    <3>1. \A a \in Chunks : a[1] \in Days /\ a[2] \in DOMAIN spool[a[1]]
      BY DEF Chunks
    <3>2. \A d \in Days : spool[d] \in Seq(Chunk)
      BY <2>1 DEF TypeInv, RouterTypeOK, Chunk
    <3> QED
      BY <3>1, <3>2 DEF Ks
  <2>3. Earlier(b[1], b[2], c[1], c[2])
    BY <2>1 DEF Before, Earlier
  <2> QED
    BY <2>1, <2>2, <2>3 DEF StoreInv, RawOrder, ChunkAt, Req, Part
<1> QED
  BY <1>1, TypeInvariant, StoreInvariant, PTL

(***************************************************************************)
(* A line read again is attributed as the first time                       *)
(***************************************************************************)
LEMMA OneDevice ==
  ASSUME NEW p, NEW d, NEW e, ResolvesTo(p, d), ResolvesTo(p, e) PROVE d = e
<1>1. CASE p.kind = "heartbeat_connect" \/ p.hint # NoDevice
  BY <1>1 DEF ResolvesTo
<1>2. CASE ~(p.kind = "heartbeat_connect" \/ p.hint # NoDevice) /\ Cardinality(RecentlySeen(p)) = 1
  <2>1. d \in RecentlySeen(p) /\ e \in RecentlySeen(p)
    BY <1>2 DEF ResolvesTo
  <2>2. RecentlySeen(p) \subseteq Devices /\ IsFiniteSet(Devices)
    BY DbAssumption DEF RecentlySeen
  <2>3. IsFiniteSet(RecentlySeen(p))
    BY <2>2, FS_Subset
  <2>4. PICK x : RecentlySeen(p) = {x}
    BY <1>2, <2>3, FS_Singleton
  <2> QED
    BY <2>1, <2>4
<1>3. CASE ~(p.kind = "heartbeat_connect" \/ p.hint # NoDevice) /\ Cardinality(RecentlySeen(p)) # 1
  BY <1>3 DEF ResolvesTo
<1> QED
  BY <1>1, <1>2, <1>3

LEMMA SameContacts ==
  ASSUME \A d \in Devices : device'[d].hb = device[d].hb /\ device'[d].addr = device[d].addr,
         NEW p, NEW d, ResolvesTo(p, d)
  PROVE  ResolvesTo(p, d)'
<1>1. RecentlySeen(p)' = RecentlySeen(p)
  BY DEF RecentlySeen
<1> QED
  BY <1>1 DEF ResolvesTo

(* Processing an event does not change the device it resolves to.          *)
LEMMA ResolvesAgain ==
  ASSUME DbInv, NEW r \in Requests, NEW d \in Devices \cup {NoDevice},
         ResolvesTo(Payload[r], d),
         Quarantine(r, d) \/ Heartbeat(r, d) \/ BusinessEvent(r, d)
  PROVE  ResolvesTo(Payload[r], d)'
<1>1. CASE Payload[r].kind = "heartbeat_connect" \/ Payload[r].hint # NoDevice
  BY <1>1 DEF ResolvesTo
<1>2. CASE ~(Payload[r].kind = "heartbeat_connect" \/ Payload[r].hint # NoDevice)
  <2>1. Quarantine(r, d) \/ BusinessEvent(r, d)
    BY <1>2 DEF Heartbeat
  <2>2. d \in Devices => device[d].addr = Payload[r].addr
    <3>1. d \in Devices => d \in RecentlySeen(Payload[r])
      BY <1>2, DbAssumption DEF ResolvesTo
    <3> QED
      BY <3>1 DEF RecentlySeen
  <2>3. device \in [Devices -> Contact]
    BY DbInvParts DEF DevicesInv
  <2>4. \A e \in Devices : device'[e].hb = device[e].hb /\ device'[e].addr = device[e].addr
    <3>1. CASE Quarantine(r, d)
      BY <3>1 DEF Quarantine
    <3>2. CASE BusinessEvent(r, d)
      <4>1. device' = Touched(d, Payload[r])
        BY <3>2 DEF BusinessEvent
      <4>2. CASE d \in Devices /\ device[d].hb # NoTime
        <5>1. device' = [device EXCEPT ![d].addr = Payload[r].addr]
          BY <4>1, <4>2 DEF Touched
        <5> QED
          BY <2>2, <2>3, <4>2, <5>1 DEF Contact
      <4>3. CASE ~(d \in Devices /\ device[d].hb # NoTime)
        BY <4>1, <4>3 DEF Touched
      <4> QED
        BY <4>2, <4>3
    <3> QED
      BY <2>1, <3>1, <3>2
  <2> QED
    BY <2>4, SameContacts
<1> QED
  BY <1>1, <1>2

(* A later position has less ahead of it.                                  *)
LEMMA LaterAgain ==
  ASSUME TypeInv, NEW p \in Position, NEW q \in Position, UpTo(p, q), Again(p)
  PROVE  Again(q)
<1>1. /\ \A d \in Days : d \in Nat /\ \A k \in Ks(d) : k \in Nat
      /\ p.file \in Nat /\ p.off \in Nat /\ q.file \in Nat /\ q.off \in Nat
  BY Places, RouterAssumption DEF Ks, Position
<1>2. \A d \in Days : \A k \in Ks(d) : ~Behind(d, k, q) => ~Behind(d, k, p)
  BY <1>1 DEF Behind, UpTo
<1> QED
  BY <1>2 DEF Again, NextLine

LEMMA OnceInitial == RouterInit => OnceInv
<1> SUFFICES ASSUME RouterInit PROVE OnceInv
  OBVIOUS
<1>1. normalized = <<>> /\ pc = "boot"
  BY DEF RouterInit, Init
<1> QED
  BY <1>1 DEF OnceInv, NormalizedOnce, Again

LEMMA SpoolingKeepsOnce ==
  ASSUME TypeInv, StoreInv, OnceInv, Spooling PROVE OnceInv'
<1>1. /\ ShapeInv /\ SpooledInv /\ Grown
      /\ UNCHANGED <<normalized, device, pc, pos, saved, rewound>>
  BY SpoolGrows DEF StoreInv, Spooling, tables, routerVars
<1>2. \A d \in Days : \A k \in Ks(d) :
        k \in Ks(d)' /\ Req(d, k)' = Req(d, k) /\ Part(d, k)' = Part(d, k)
  BY <1>1 DEF Grown, Req, Part
<1>3. ASSUME NEW d \in Days, NEW k \in Ks(d)', k \notin Ks(d)
      PROVE  /\ \A e \in Days : \A j \in Ks(e) : ~Earlier(d, k, e, j)
             /\ \A i \in DOMAIN normalized : Req(d, k)' # normalized[i].req
  <2>1. /\ d = day /\ k = Len(spool[day]) + 1
        /\ \A e \in Days : \A j \in Ks(e) : ~Earlier(d, k, e, j)
        /\ \A e \in Days : \A j \in Ks(e) : Req(e, j) = Req(d, k)' =>
              e = d /\ k = j + 1 /\ Part(e, j) = "head"
    BY <1>1, <1>3, NewChunk
  <2>2. ASSUME NEW i \in DOMAIN normalized, Req(d, k)' = normalized[i].req PROVE FALSE
    <3>1. PICK e \in Days : \E j \in Ks(e) : Req(e, j) = normalized[i].req
      BY DEF OnceInv
    <3>2. PICK j \in Ks(e) : Req(e, j) = normalized[i].req
      BY <3>1
    <3>3. e = d /\ k = j + 1 /\ Part(e, j) = "head"
      BY <2>1, <2>2, <3>2
    <3>4. j < Len(spool[e])
      BY <3>2, <3>3 DEF OnceInv
    <3>5. j \in Nat /\ Len(spool[day]) \in Nat
      BY <1>1, <2>1 DEF Ks, Grown
    <3> QED
      BY <2>1, <3>3, <3>4, <3>5
  <2> QED
    BY <2>1, <2>2
<1>4. ASSUME NEW p, Again(p) PROVE
        \A i \in DOMAIN normalized : \A e \in Days : \A j \in Ks(e)' :
          LET row == normalized[i]
          IN  Req(e, j)' = row.req /\ ~Behind(e, j, p)
              => /\ ResolvesTo(Payload[row.req], row.dev)'
                 /\ \A d \in Days : \A k \in Ks(d)' :
                      ~Behind(d, k, p) /\ Earlier(d, k, e, j) => Req(d, k)' = row.req
  <2>1. SUFFICES ASSUME NEW i \in DOMAIN normalized, NEW e \in Days, NEW j \in Ks(e)',
                        Req(e, j)' = normalized[i].req, ~Behind(e, j, p)
                 PROVE  /\ ResolvesTo(Payload[normalized[i].req], normalized[i].dev)'
                        /\ \A d \in Days : \A k \in Ks(d)' :
                             ~Behind(d, k, p) /\ Earlier(d, k, e, j)
                             => Req(d, k)' = normalized[i].req
    OBVIOUS
  <2>2. j \in Ks(e) /\ Req(e, j) = normalized[i].req
    BY <1>2, <1>3, <2>1
  <2>3. /\ ResolvesTo(Payload[normalized[i].req], normalized[i].dev)
        /\ NextLine(normalized[i].req, p, e, j)
    BY <1>4, <2>1, <2>2 DEF Again
  <2> DEFINE q == Payload[normalized[i].req]
             dev == normalized[i].dev
  <2>4. ResolvesTo(q, dev)'
    <3>1. /\ UNCHANGED device /\ UNCHANGED normalized
      BY <1>1
    <3> QED
      BY <2>3, <3>1 DEF ResolvesTo, RecentlySeen
  <2>5. \A d \in Days : \A k \in Ks(d)' :
          ~Behind(d, k, p) /\ Earlier(d, k, e, j) => Req(d, k)' = normalized[i].req
    BY <1>2, <1>3, <2>2, <2>3 DEF NextLine
  <2> QED
    BY <2>4, <2>5
<1>5. ASSUME NEW p, Again(p) PROVE Again(p)'
  <2>1. UNCHANGED normalized
    BY <1>1
  <2> QED
    BY <1>4, <1>5, <2>1 DEF Again, NextLine, Behind, Earlier
<1>6. /\ \A i \in DOMAIN normalized : \E d \in Days : \E k \in Ks(d) : Req(d, k) = normalized[i].req
      /\ \A i \in DOMAIN normalized : \A d \in Days : \A k \in Ks(d) :
           Req(d, k) = normalized[i].req /\ Part(d, k) = "head" => k < Len(spool[d])
  BY DEF OnceInv
<1>7. \A i \in DOMAIN normalized : \E d \in Days : \E k \in Ks(d)' : Req(d, k)' = normalized[i].req
  BY <1>2, <1>6
<1>8. ASSUME NEW i \in DOMAIN normalized, NEW d \in Days, NEW k \in Ks(d)',
             Req(d, k)' = normalized[i].req, Part(d, k)' = "head"
      PROVE  k < Len(spool'[d])
  <2>1. k \in Ks(d) /\ Req(d, k) = normalized[i].req /\ Part(d, k) = "head"
    BY <1>2, <1>3, <1>8
  <2>2. k < Len(spool[d]) /\ Len(spool[d]) \in Nat /\ Len(spool'[d]) \in Nat /\ k \in Nat
        /\ Len(spool'[d]) >= Len(spool[d])
    BY <1>1, <1>6, <2>1 DEF Grown, Ks
  <2> QED
    BY <2>2
<1>9. ~rewound' =>
        /\ pc' # "boot" => Again(pos)'
        /\ saved' # Torn => Again(saved)'
        /\ NormalizedOnce'
  <2>1. PICK p, q : p = pos /\ q = saved
    OBVIOUS
  <2>2. ~rewound => (pc # "boot" => Again(p)) /\ (saved # Torn => Again(q)) /\ NormalizedOnce
    BY <2>1 DEF OnceInv
  <2>3. ~rewound => (pc # "boot" => Again(p)') /\ (saved # Torn => Again(q)')
    BY <1>5, <2>2
  <2>4. p = pos' /\ q = saved'
    BY <1>1, <2>1
  <2>5. (Again(p)' => Again(pos)') /\ (Again(q)' => Again(saved)')
    BY <2>4 DEF Again, NextLine
  <2>6. ~rewound => NormalizedOnce'
    BY <1>1, <2>2 DEF NormalizedOnce
  <2> QED
    BY <1>1, <2>3, <2>5, <2>6
<1> QED
  BY <1>1, <1>7, <1>8, <1>9 DEF OnceInv

(* Which state file there is, and what the router knows of it.             *)
LEMMA RoutingSaved ==
  ASSUME TypeInv, OnceInv, Routing
  PROVE  /\ pc' \in {"scan", "read", "refresh"} => saved' \in {pos', Torn}
         /\ pc' \in {"write", "writeEnd"} => saved' = Torn
         /\ saved' = saved \/ saved' = Torn \/ (saved' = pos /\ pc # "boot")
         /\ pc' # "boot" =>
              \/ pos' = pos /\ pc # "boot"
              \/ pc = "boot" /\ pos' = saved /\ saved # Torn
              \/ pc = "boot" /\ rewound'
              \/ pos' = Handle /\ reading # 0 /\ pc # "boot"
              \/ LineStep
         /\ rewound => rewound'
<1>1. /\ pc \in {"scan", "read", "refresh"} => saved \in {pos, Torn}
      /\ pc \in {"write", "writeEnd"} => saved = Torn
      /\ (pc \in {"read", "save", "saveEnd", "write", "writeEnd"}) <=> reading # 0
      /\ rewound \in BOOLEAN
  BY DEF OnceInv, TypeInv, RouterTypeOK
<1>2. CASE Boot
  BY <1>1, <1>2 DEF Boot
<1>3. CASE Scan \/ WriteEnd
  BY <1>1, <1>3 DEF Scan, WriteEnd, OpenFirst
<1>4. CASE EndOfFile
  BY <1>1, <1>4 DEF EndOfFile, Handle
<1>5. CASE LineStep
  <2>1. pc = "read" /\ pc' = "save" /\ UNCHANGED <<saved, rewound>>
    BY <1>5, LinePlaces
  <2> QED
    BY <1>5, <2>1
<1>6. CASE Truncate \/ Write
  BY <1>1, <1>6 DEF Truncate, Write
<1>7. CASE Refresh \/ SaveFails \/ Crash \/ \E r \in Requests : Reconnect(r)
  BY <1>1, <1>7 DEF Refresh, SaveFails, Crash, Reconnect, AtLine
<1> QED
  BY <1>2, <1>3, <1>4, <1>5, <1>6, <1>7, RoutingKinds

(* The line that is read is the only one that may have been processed.     *)
LEMMA OnlyThisLine ==
  ASSUME TypeInv, ReadInv, OrderInv, Again(pos), NEW r \in Requests, AtLine, IsRequest(Line, r)
  PROVE  /\ \A i \in DOMAIN normalized : \A e \in Days : \A j \in Ks(e) :
              Req(e, j) = normalized[i].req /\ ~Behind(e, j, pos) => normalized[i].req = r
         /\ \A i \in DOMAIN normalized :
              normalized[i].req = r => ResolvesTo(Payload[r], normalized[i].dev)
<1>1. /\ reading \in Days /\ offset \in Nat /\ offset + 1 \in Ks(reading)
      /\ Req(reading, offset + 1) = r /\ reading # 0 /\ pc # "boot"
      /\ \A d \in Days : d \in Nat /\ \A k \in Ks(d) : k \in Nat
      /\ pos.file \in Nat /\ pos.off \in Nat
  <2>1. RouterTypeOK
    BY DEF TypeInv
  <2>2. reading \in Days /\ pc = "read"
    BY <2>1, LineEnds DEF AtLine
  <2>3. offset \in Nat /\ pos \in Position
    BY <2>1 DEF RouterTypeOK
  <2>4. \A d \in Days : d # 0
    BY DEF Days
  <2>5. offset + 1 \in Ks(reading) /\ Req(reading, offset + 1) = r
    BY LineOfRequest
  <2>6. \A d \in Days : d \in Nat /\ \A k \in Ks(d) : k \in Nat
    BY Places DEF Ks
  <2> QED
    BY <2>2, <2>3, <2>4, <2>5, <2>6, RouterAssumption DEF Position
<1>2. ~Behind(reading, offset + 1, pos)
  <2>1. UpTo(pos, Handle)
    BY <1>1 DEF OrderInv
  <2>2. pos.file < reading \/ (pos.file = reading /\ pos.off <= offset)
    BY <2>1 DEF UpTo, Handle
  <2> QED
    BY <1>1, <2>2 DEF Behind
<1>3. ASSUME NEW i \in DOMAIN normalized, NEW e \in Days, NEW j \in Ks(e),
             Req(e, j) = normalized[i].req, ~Behind(e, j, pos)
      PROVE  normalized[i].req = r
  <2>1. ~Behind(e, j, Handle)
    BY <1>1, <1>3 DEF ReadInv
  <2>2. (e = reading /\ j = offset + 1) \/ Earlier(reading, offset + 1, e, j)
    BY <1>1, <2>1 DEF Behind, Handle, Earlier
  <2>3. NextLine(normalized[i].req, pos, e, j)
    BY <1>3 DEF Again
  <2> QED
    BY <1>1, <1>2, <1>3, <2>2, <2>3 DEF NextLine
<1>4. ASSUME NEW i \in DOMAIN normalized, normalized[i].req = r
      PROVE  ResolvesTo(Payload[r], normalized[i].dev)
  BY <1>1, <1>2, <1>4 DEF Again
<1> QED
  BY <1>3, <1>4

(* All chunks of a request are in the line it is read from.                *)
LEMMA LineIsAll ==
  ASSUME TypeInv, ShapeInv, NEW r \in Requests, AtLine, IsRequest(Line, r),
         NEW e \in Days, NEW j \in Ks(e), Req(e, j) = r
  PROVE  /\ e = reading /\ j \in offset + 1 .. LineEnd
         /\ Part(e, j) = "head" => j < Len(spool[e])
<1>1. /\ reading \in Days /\ offset \in Nat /\ offset + 1 \in Ks(reading)
      /\ \A k \in offset + 1 .. LineEnd : k \in Ks(reading) /\ Req(reading, k) = r
      /\ \/ LineEnd = offset + 1 /\ Part(reading, offset + 1) = "whole"
         \/ /\ LineEnd = offset + 2 /\ Part(reading, offset + 1) = "head"
            /\ Part(reading, offset + 2) = "tail"
      /\ e \in Nat /\ j \in Nat /\ reading \in Nat /\ Len(spool[reading]) \in Nat
  <2>1. RouterTypeOK
    BY DEF TypeInv
  <2>2. reading \in Days
    BY <2>1, LineEnds
  <2>3. offset \in Nat
    BY <2>1 DEF RouterTypeOK
  <2>4. e \in Nat /\ j \in Nat /\ reading \in Nat /\ Len(spool[reading]) \in Nat
    BY <2>2, Places DEF Ks
  <2> QED
    BY <2>2, <2>3, <2>4, LineOfRequest
<1>2. CASE LineEnd = offset + 1 /\ Part(reading, offset + 1) = "whole"
  <2>1. ~Earlier(e, j, reading, offset + 1) /\ ~Earlier(reading, offset + 1, e, j)
    BY <1>1, <1>2 DEF ShapeInv, HeadAndTail
  <2>2. e = reading /\ j = offset + 1
    BY <1>1, <2>1 DEF Earlier
  <2> QED
    BY <1>1, <1>2, <2>2
<1>3. CASE /\ LineEnd = offset + 2 /\ Part(reading, offset + 1) = "head"
           /\ Part(reading, offset + 2) = "tail"
  <2>1. offset + 2 \in Ks(reading) /\ Req(reading, offset + 2) = r
    BY <1>1, <1>3
  <2>2. ~Earlier(e, j, reading, offset + 1)
    BY <1>1, <1>3 DEF ShapeInv, HeadAndTail
  <2>3. ~Earlier(reading, offset + 2, e, j)
    BY <1>1, <1>3, <2>1 DEF ShapeInv, HeadAndTail
  <2>4. e = reading /\ (j = offset + 1 \/ j = offset + 2)
    BY <1>1, <2>2, <2>3 DEF Earlier
  <2>5. offset + 2 <= Len(spool[reading])
    BY <2>1 DEF Ks
  <2> QED
    BY <1>1, <1>3, <2>4, <2>5
<1> QED
  BY <1>1, <1>2, <1>3

(* The positions after a step had nothing more ahead of them before it.    *)
LEMMA MovedAgain ==
  ASSUME TypeInv, OrderInv, OnceInv, Routing, ~rewound', NEW q
  PROVE  /\ q = pos' /\ pc' # "boot" => Again(q)
         /\ q = saved' /\ saved' # Torn => Again(q)
<1>1. /\ pc # "boot" => Again(pos)
      /\ saved # Torn => Again(saved)
      /\ ~rewound
  BY RoutingSaved DEF OnceInv
<1>2. pos \in Position /\ Handle \in Position
  BY Places DEF Place
<1>3. reading # 0 /\ pc # "boot" => Again(Handle)
  <2>1. SUFFICES ASSUME reading # 0, pc # "boot", NEW h, h = Handle PROVE Again(h)
    OBVIOUS
  <2>2. UpTo(pos, h)
    BY <2>1 DEF OrderInv
  <2> QED
    BY <1>1, <1>2, <2>1, <2>2, LaterAgain
<1>4. ASSUME LineStep, q = pos' PROVE Again(q)
  <2>1. /\ pc = "read" /\ reading # 0 /\ offset < LineEnd
        /\ q = [file |-> reading, off |-> LineEnd] /\ q \in Place'
    BY <1>4, LinePlaces, Places DEF Routing
  <2>2. q \in Position /\ LineEnd \in Nat /\ offset \in Nat /\ reading \in Nat
    <3>1. q \in Place
      BY <1>4, LinePlaces
    <3>2. q \in Position
      BY <3>1 DEF Place
    <3> QED
      BY <1>2, <2>1, <3>2, RouterAssumption DEF Position, Handle
  <2>3. UpTo(pos, Handle) /\ pos.file \in Nat /\ pos.off \in Nat
    BY <1>2, <2>1, RouterAssumption DEF OrderInv, Position
  <2>4. UpTo(pos, q)
    BY <2>1, <2>2, <2>3 DEF UpTo, Handle
  <2> QED
    BY <1>1, <1>2, <2>1, <2>2, <2>4, LaterAgain
<1>5. ASSUME q = pos', pc' # "boot" PROVE Again(q)
  BY <1>1, <1>3, <1>4, <1>5, RoutingSaved
<1>6. ASSUME q = saved', saved' # Torn PROVE Again(q)
  BY <1>1, <1>6, RoutingSaved
<1> QED
  BY <1>5, <1>6

(* Every other step leaves the normalized rows and where devices were      *)
(* last heard of.                                                          *)
LEMMA OthersKeepRows ==
  ASSUME TypeInv, Routing
  PROVE  \/ \E r \in Requests : ProcessLine(r)
         \/ /\ UNCHANGED normalized
            /\ \A d \in Devices : device'[d].hb = device[d].hb /\ device'[d].addr = device[d].addr
<1>1. CASE Refresh
  <2>1. CASE UNCHANGED tables
    BY <2>1 DEF tables
  <2>2. CASE RefreshDeviceStatuses
    <3>1. device \in [Devices -> Contact]
      BY DbInvParts DEF TypeInv, DevicesInv
    <3>2. \A c \in Contact : Refreshed(c).hb = c.hb /\ Refreshed(c).addr = c.addr
      BY DEF Refreshed, Contact
    <3>3. \A d \in Devices : device'[d] = Refreshed(device[d]) /\ device[d] \in Contact
      BY <2>2, <3>1 DEF RefreshDeviceStatuses
    <3>4. UNCHANGED normalized
      BY <2>2 DEF RefreshDeviceStatuses
    <3> QED
      BY <3>2, <3>3, <3>4
  <2> QED
    BY <1>1, <2>1, <2>2 DEF Refresh
<1>2. CASE Boot \/ Scan \/ EndOfFile \/ BadLine \/ Truncate \/ Write \/ WriteEnd
  BY <1>2 DEF Boot, Scan, EndOfFile, BadLine, Truncate, Write, WriteEnd, dbVars, tables
<1>3. CASE SaveFails \/ Crash \/ \E r \in Requests : GiveUp(r) \/ Reconnect(r)
  BY <1>3 DEF SaveFails, Crash, GiveUp, Reconnect, dbVars, tables
<1> QED
  BY <1>1, <1>2, <1>3 DEF Routing, RouterStep

LEMMA OthersKeepOnce ==
  ASSUME TypeInv, OrderInv, OnceInv, Routing, UNCHANGED normalized,
         \A d \in Devices : device'[d].hb = device[d].hb /\ device'[d].addr = device[d].addr
  PROVE  OnceInv'
<1>1. UNCHANGED spool /\ (rewound => rewound')
  BY RoutingSaved DEF Routing, ingest
<1>2. ASSUME NEW p, Again(p) PROVE Again(p)'
  <2>1. ASSUME NEW i \in DOMAIN normalized,
               ResolvesTo(Payload[normalized[i].req], normalized[i].dev)
        PROVE  ResolvesTo(Payload[normalized[i].req], normalized[i].dev)'
    <3>1. PICK q, d : q = Payload[normalized[i].req] /\ d = normalized[i].dev
      OBVIOUS
    <3>2. ResolvesTo(q, d)
      BY <2>1, <3>1 DEF ResolvesTo, RecentlySeen
    <3>3. ResolvesTo(q, d)'
      BY <3>2, SameContacts
    <3>4. q = Payload[normalized[i].req]' /\ d = normalized[i].dev'
      BY <3>1
    <3> QED
      BY <3>3, <3>4 DEF ResolvesTo, RecentlySeen
  <2> QED
    BY <1>1, <1>2, <2>1 DEF Again, NextLine, Ks, Req
<1>3. ~rewound' => (pc' # "boot" => Again(pos)') /\ (saved' # Torn => Again(saved)')
  <2>1. SUFFICES ASSUME ~rewound', NEW p, NEW q, p = pos', q = saved'
                 PROVE  (pc' # "boot" => Again(pos)') /\ (saved' # Torn => Again(saved)')
    OBVIOUS
  <2>2. (pc' # "boot" => Again(p)') /\ (saved' # Torn => Again(q)')
    BY <1>2, <2>1, MovedAgain
  <2>3. (Again(p)' => Again(pos)') /\ (Again(q)' => Again(saved)')
    BY <2>1 DEF Again, NextLine
  <2> QED
    BY <2>2, <2>3
<1>4. ~rewound' => NormalizedOnce'
  BY <1>1 DEF OnceInv, NormalizedOnce
<1>5. /\ \A i \in DOMAIN normalized' :
           \E d \in Days : \E k \in Ks(d)' : Req(d, k)' = normalized'[i].req
      /\ \A i \in DOMAIN normalized' : \A d \in Days : \A k \in Ks(d)' :
           Req(d, k)' = normalized'[i].req /\ Part(d, k)' = "head" => k < Len(spool'[d])
  BY <1>1 DEF OnceInv, Ks, Req, Part
<1> QED
  BY <1>3, <1>4, <1>5, RoutingSaved DEF OnceInv

LEMMA ProcessedRows ==
  ASSUME TypeInv, NEW r \in Requests, NEW d \in Devices \cup {NoDevice},
         Quarantine(r, d) \/ Heartbeat(r, d) \/ BusinessEvent(r, d)
  PROVE  /\ \A i \in DOMAIN normalized : i \in DOMAIN normalized' /\ normalized'[i] = normalized[i]
         /\ \A i \in DOMAIN normalized' : i \notin DOMAIN normalized =>
              /\ normalized'[i] = [req |-> r, dev |-> d]
              /\ \A j \in DOMAIN normalized' : j \notin DOMAIN normalized => i = j
              /\ \A j \in DOMAIN normalized :
                   normalized[j].req = r => normalized[j].dev # d
<1>1. normalized \in Seq(NormalizedRow)
  BY DbInvParts DEF TypeInv, RowsInv
<1>2. CASE normalized' = normalized
  BY <1>2
<1>3. CASE normalized' = WithNormalized(normalized, r, d)
  <2>1. /\ \A i \in DOMAIN normalized : i \in DOMAIN normalized' /\ normalized'[i] = normalized[i]
        /\ \A i \in DOMAIN normalized' : i \notin DOMAIN normalized =>
             i = IdOf(normalized', r, d) /\ normalized'[i] = [req |-> r, dev |-> d]
    <3>1. PICK s, t : s = normalized /\ t = normalized'
      OBVIOUS
    <3>2. s \in Seq(NormalizedRow) /\ t = WithNormalized(s, r, d)
      BY <1>1, <1>3, <3>1
    <3>3. /\ DOMAIN s \subseteq DOMAIN t /\ \A i \in DOMAIN s : t[i] = s[i]
          /\ \A i \in DOMAIN t : i \notin DOMAIN s =>
               i = IdOf(t, r, d) /\ t[i] = [req |-> r, dev |-> d]
      BY <3>2, AddedRows
    <3> QED
      BY <3>1, <3>3
  <2>2. ASSUME NEW j \in DOMAIN normalized, normalized[j].req = r, normalized[j].dev = d
        PROVE  normalized' = normalized
    BY <1>3, <2>2 DEF WithNormalized, KeyOf
  <2> QED
    BY <2>1, <2>2
<1> QED
  BY <1>2, <1>3 DEF Quarantine, Heartbeat, BusinessEvent

LEMMA ProcessKeepsOnce ==
  ASSUME TypeInv, ReadInv, ShapeInv, OrderInv, OnceInv, Routing,
         NEW r \in Requests, ProcessLine(r)
  PROVE  OnceInv'
<1>1. /\ AtLine /\ IsRequest(Line, r) /\ ProcessSpooledEvent(r) /\ LineStep
      /\ pc = "read" /\ pc' = "save" /\ UNCHANGED <<spool, saved, rewound>>
      /\ pos' = [file |-> reading, off |-> LineEnd]
  BY LinePlaces DEF ProcessLine, LineStep, AtLine, LineDone, Routing, ingest
<1>2. PICK d \in Devices \cup {NoDevice} :
        /\ ResolvesTo(Payload[r], d)
        /\ Quarantine(r, d) \/ Heartbeat(r, d) \/ BusinessEvent(r, d)
  BY <1>1 DEF ProcessSpooledEvent
<1>3. /\ \A i \in DOMAIN normalized : i \in DOMAIN normalized' /\ normalized'[i] = normalized[i]
      /\ \A i \in DOMAIN normalized' : i \notin DOMAIN normalized =>
           /\ normalized'[i] = [req |-> r, dev |-> d]
           /\ \A j \in DOMAIN normalized' : j \notin DOMAIN normalized => i = j
           /\ \A j \in DOMAIN normalized : normalized[j].req = r => normalized[j].dev # d
  BY <1>2, ProcessedRows
<1>4. /\ offset + 1 \in Ks(reading) /\ Req(reading, offset + 1) = r
      /\ \A k \in offset + 1 .. LineEnd : Req(reading, k) = r
      /\ reading \in Days /\ reading # 0 /\ offset \in Nat /\ LineEnd \in Nat /\ reading \in Nat
      /\ pos.file \in Nat /\ pos.off \in Nat
      /\ \A e \in Days : e \in Nat /\ Len(spool[e]) \in Nat /\ \A j \in Ks(e) : j \in Nat
  <2>1. /\ \A k \in offset + 1 .. LineEnd : k \in Ks(reading) /\ Req(reading, k) = r
        /\ offset + 1 \in offset + 1 .. LineEnd
    BY <1>1, LineOfRequest
  <2>2. reading \in Days /\ reading # 0 /\ LineEnd \in Ks(reading)
    BY <1>1, LinePlaces
  <2>3. pos \in Position /\ Handle \in Position /\ \A e \in Days : e \in Nat /\ Len(spool[e]) \in Nat
    BY Places DEF Place
  <2>4. \A e \in Days : \A j \in Ks(e) : j \in Nat
    BY <2>3 DEF Ks
  <2>5. offset \in Nat /\ pos.file \in Nat /\ pos.off \in Nat
    BY <2>3, RouterAssumption DEF Position, Handle
  <2> QED
    BY <2>1, <2>2, <2>3, <2>4, <2>5
<1>5. \A e \in Days : \A j \in Ks(e) : Req(e, j) = r =>
        /\ e = reading /\ j \in offset + 1 .. LineEnd
        /\ Part(e, j) = "head" => j < Len(spool[e])
  BY <1>1, LineIsAll
(* Only a request of this line is normalized and ahead of the position.    *)
<1>6. ASSUME ~rewound
      PROVE  /\ \A i \in DOMAIN normalized' : \A e \in Days : \A j \in Ks(e) :
                  Req(e, j) = normalized'[i].req /\ ~Behind(e, j, pos)
                  => normalized'[i] = [req |-> r, dev |-> d]
             /\ \A i \in DOMAIN normalized :
                  normalized[i].req = r => normalized[i].dev = d
  <2>1. Again(pos)
    BY <1>1, <1>6 DEF OnceInv
  <2>2. /\ \A i \in DOMAIN normalized : \A e \in Days : \A j \in Ks(e) :
             Req(e, j) = normalized[i].req /\ ~Behind(e, j, pos) => normalized[i].req = r
        /\ \A i \in DOMAIN normalized :
             normalized[i].req = r => ResolvesTo(Payload[r], normalized[i].dev)
    BY <1>1, <2>1, OnlyThisLine
  <2>3. \A i \in DOMAIN normalized : normalized[i].req = r => normalized[i].dev = d
    BY <1>2, <2>2, OneDevice
  <2>4. \A i \in DOMAIN normalized : normalized[i] \in NormalizedRow
    <3>1. normalized \in Seq(NormalizedRow)
      BY DbInvParts DEF TypeInv, RowsInv
    <3> QED
      BY <3>1
  <2>5. \A i \in DOMAIN normalized :
          normalized[i].req = r => normalized[i] = [req |-> r, dev |-> d]
    BY <2>3, <2>4 DEF NormalizedRow
  <2> QED
    BY <1>3, <2>2, <2>3, <2>5
<1>7. ~rewound' => NormalizedOnce'
  <2>1. SUFFICES ASSUME ~rewound, NEW i \in DOMAIN normalized', NEW j \in DOMAIN normalized',
                        normalized'[i].req = normalized'[j].req
                 PROVE  i = j
    BY <1>1 DEF NormalizedOnce
  <2>2. CASE i \in DOMAIN normalized /\ j \in DOMAIN normalized
    <3>1. NormalizedOnce
      BY <2>1 DEF OnceInv
    <3> QED
      BY <1>3, <2>1, <2>2, <3>1 DEF NormalizedOnce
  <2>3. CASE i \notin DOMAIN normalized \/ j \notin DOMAIN normalized
    <3>1. \A k \in DOMAIN normalized' : k \notin DOMAIN normalized =>
            \A l \in DOMAIN normalized : normalized[l].req # r
      BY <1>3, <1>6, <2>1
    <3>2. \A k \in DOMAIN normalized' : k \notin DOMAIN normalized => normalized'[k].req = r
      BY <1>3
    <3> QED
      BY <1>3, <2>1, <2>3, <3>1, <3>2
  <2> QED
    BY <2>2, <2>3
(* Nothing normalized is ahead of the new position.                        *)
<1>8. ~rewound' => Again(pos)'
  <2>1. SUFFICES ASSUME ~rewound, NEW i \in DOMAIN normalized', NEW e \in Days, NEW j \in Ks(e),
                        Req(e, j) = normalized'[i].req, ~Behind(e, j, pos')
                 PROVE  FALSE
    BY <1>1 DEF Again, Ks, Req, Behind
  <2>2. ~Behind(e, j, pos)
    <3>1. UpTo(pos, Handle) /\ offset < LineEnd
      BY <1>1, <1>4, LinePlaces DEF OrderInv
    <3> QED
      BY <1>1, <1>4, <2>1, <3>1 DEF UpTo, Handle, Behind
  <2>3. Req(e, j) = r
    BY <1>6, <2>1, <2>2
  <2>4. e = reading /\ j <= LineEnd
    BY <1>4, <1>5, <2>3
  <2> QED
    BY <1>1, <2>1, <2>4 DEF Behind
(* The state file may still be at the beginning of the line.               *)
<1>9. ~rewound' /\ saved' # Torn => Again(saved)'
  <2>1. SUFFICES ASSUME ~rewound, NEW p, p = pos, NEW i \in DOMAIN normalized',
                        NEW e \in Days, NEW j \in Ks(e),
                        Req(e, j) = normalized'[i].req, ~Behind(e, j, p)
                 PROVE  /\ normalized'[i] = [req |-> r, dev |-> d]
                        /\ \A c \in Days : \A k \in Ks(c) :
                             ~Behind(c, k, p) /\ Earlier(c, k, e, j) => Req(c, k) = r
    <3>1. ASSUME ~rewound', saved' # Torn PROVE Again(saved)'
      <4>1. saved = pos /\ ~rewound
        BY <1>1, <3>1 DEF OnceInv
      <4>2. PICK p : p = pos
        OBVIOUS
      <4>3. \A i \in DOMAIN normalized' : \A e \in Days : \A j \in Ks(e) :
              Req(e, j) = normalized'[i].req /\ ~Behind(e, j, p)
              => /\ normalized'[i] = [req |-> r, dev |-> d]
                 /\ \A c \in Days : \A k \in Ks(c) :
                      ~Behind(c, k, p) /\ Earlier(c, k, e, j) => Req(c, k) = r
        BY <2>1, <4>1, <4>2
      <4>4. PICK q : q = Payload[r]
        OBVIOUS
      <4>5. ResolvesTo(q, d)'
        <5>1. ResolvesTo(Payload[r], d)'
          BY <1>2, ResolvesAgain DEF TypeInv
        <5> QED
          BY <4>4, <5>1
      <4>6. Again(p)'
        <5>1. SUFFICES ASSUME NEW i \in DOMAIN normalized', NEW e \in Days, NEW j \in Ks(e)',
                              Req(e, j)' = normalized'[i].req, ~Behind(e, j, p)
                       PROVE  /\ ResolvesTo(Payload[normalized[i].req], normalized[i].dev)'
                              /\ NextLine(normalized[i].req, p, e, j)'
          BY DEF Again, Behind
        <5>2. j \in Ks(e) /\ Req(e, j) = normalized'[i].req
          BY <1>1, <5>1 DEF Ks, Req
        <5>3. normalized'[i].req = r /\ normalized'[i].dev = d
          BY <4>3, <5>1, <5>2
        <5>4. ResolvesTo(Payload[normalized[i].req], normalized[i].dev)'
          BY <4>4, <4>5, <5>3 DEF ResolvesTo, RecentlySeen
        <5>5. NextLine(normalized[i].req, p, e, j)'
          BY <1>1, <4>3, <5>1, <5>2, <5>3 DEF NextLine, Ks, Req
        <5> QED
          BY <5>4, <5>5
      <4>7. p = saved'
        BY <1>1, <4>1, <4>2
      <4> QED
        BY <4>6, <4>7 DEF Again, NextLine
    <3> QED
      BY <3>1
  <2>2. normalized'[i] = [req |-> r, dev |-> d]
    BY <1>6, <2>1
  <2>3. e = reading /\ j \in offset + 1 .. LineEnd
    BY <1>5, <2>1, <2>2
  <2>4. ASSUME NEW c \in Days, NEW k \in Ks(c), ~Behind(c, k, p), Earlier(c, k, e, j)
        PROVE  Req(c, k) = r
    <3>1. ~Behind(c, k, Handle)
      BY <1>4, <2>1, <2>4 DEF ReadInv
    <3>2. c = reading /\ k \in offset + 1 .. LineEnd
      BY <1>4, <2>3, <2>4, <3>1 DEF Behind, Handle, Earlier
    <3> QED
      BY <1>4, <3>2
  <2> QED
    BY <2>2, <2>4
<1>10. /\ \A i \in DOMAIN normalized' :
            \E e \in Days : \E k \in Ks(e)' : Req(e, k)' = normalized'[i].req
       /\ \A i \in DOMAIN normalized' : \A e \in Days : \A k \in Ks(e)' :
            Req(e, k)' = normalized'[i].req /\ Part(e, k)' = "head" => k < Len(spool'[e])
  <2>1. /\ \A i \in DOMAIN normalized : \E e \in Days : \E k \in Ks(e) : Req(e, k) = normalized[i].req
        /\ \A i \in DOMAIN normalized : \A e \in Days : \A k \in Ks(e) :
             Req(e, k) = normalized[i].req /\ Part(e, k) = "head" => k < Len(spool[e])
    BY DEF OnceInv
  <2>2. \A e \in Days : \A k : /\ k \in Ks(e)' <=> k \in Ks(e)
                               /\ Req(e, k)' = Req(e, k) /\ Part(e, k)' = Part(e, k)
    BY <1>1 DEF Ks, Req, Part
  <2>3. \A i \in DOMAIN normalized' : i \notin DOMAIN normalized => normalized'[i].req = r
    BY <1>3
  <2>4. \A i \in DOMAIN normalized' : \E e \in Days : \E k \in Ks(e) : Req(e, k) = normalized'[i].req
    BY <1>3, <1>4, <2>1, <2>3
  <2>5. \A i \in DOMAIN normalized' : \A e \in Days : \A k \in Ks(e) :
          Req(e, k) = normalized'[i].req /\ Part(e, k) = "head" => k < Len(spool[e])
    BY <1>3, <1>5, <2>1, <2>3
  <2> QED
    BY <1>1, <2>2, <2>4, <2>5
<1> QED
  BY <1>1, <1>7, <1>8, <1>9, <1>10 DEF OnceInv

LEMMA OnceInvariant == RouterSpec => []OnceInv
<1>1. TypeInv /\ PassInv /\ StoreInv /\ OnceInv /\ [RouterNext]_allVars => OnceInv'
  <2>1. SUFFICES ASSUME TypeInv, PassInv, StoreInv, OnceInv, [RouterNext]_allVars PROVE OnceInv'
    OBVIOUS
  <2>2. ReadInv /\ ShapeInv /\ OrderInv
    BY <2>1 DEF PassInv, StoreInv
  <2>3. CASE Spooling
    BY <2>1, <2>3, SpoolingKeepsOnce
  <2>4. CASE Routing
    <3>1. ASSUME NEW r \in Requests, ProcessLine(r) PROVE OnceInv'
      BY <2>1, <2>2, <2>4, <3>1, ProcessKeepsOnce
    <3>2. ASSUME UNCHANGED normalized,
                 \A d \in Devices : device'[d].hb = device[d].hb /\ device'[d].addr = device[d].addr
          PROVE  OnceInv'
      BY <2>1, <2>2, <2>4, <3>2, OthersKeepOnce
    <3> QED
      BY <2>1, <2>4, <3>1, <3>2, OthersKeepRows
  <2> QED
    BY <2>1, <2>3, <2>4, StepKinds
<1> QED
  BY <1>1, OnceInitial, TypeInvariant, PassInvariant, StoreInvariant, PTL DEF RouterSpec

(* As long as the state file was never lost, a request has at most one     *)
(* normalized row, however often crashes make the router read its line     *)
(* again: what is read again is the next line only, and nothing happened   *)
(* in between that could attribute it to another device.                   *)
THEOREM LinesNormalizedOnce == RouterSpec => []NormalizedOnce
<1>1. OnceInv => NormalizedOnce
  BY DEF OnceInv, NormalizedOnce
<1> QED
  BY <1>1, OnceInvariant, PTL
=============================================================================
