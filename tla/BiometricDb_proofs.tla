------------------------- MODULE BiometricDb_proofs -------------------------
(***************************************************************************)
(* Proofs about the transactions of the biometric database, for every set  *)
(* of requests and devices, whatever they say and however often they are   *)
(* delivered.                                                              *)
(***************************************************************************)
EXTENDS BiometricDb, FiniteSetTheorems, SequenceTheorems, WellFoundedInduction, TLAPS

(***************************************************************************)
(* Induction.  A property of the numbers is a set of them, so that it needs*)
(* no operator as a parameter: a set without a least element is empty.     *)
(***************************************************************************)
LEMMA LeastNat ==
  ASSUME NEW T, T \subseteq Nat, T # {}
  PROVE  \E n \in T : \A m \in T : n <= m
<1>1. PICK x \in T : \A y \in T : ~ (<<y, x>> \in OpToRel(<, Nat))
  BY WFMin, NatLessThanWellFounded
<1>2. \A y \in T : ~(y < x)
  BY <1>1 DEF OpToRel
<1>3. \A y \in T : y \in Nat
  OBVIOUS
<1>4. \A y \in T : x <= y
  BY <1>2, <1>3
<1> QED
  BY <1>4

LEMMA SetInduction ==
  ASSUME NEW P, 0 \in P, \A n \in Nat : n \in P => n + 1 \in P
  PROVE  Nat \subseteq P
<1>1. SUFFICES ASSUME Nat \ P # {} PROVE FALSE
  OBVIOUS
<1>2. PICK n \in Nat \ P : \A m \in Nat \ P : n <= m
  BY <1>1, LeastNat
<1>3. n # 0 /\ n - 1 \in Nat /\ n - 1 \in P
  BY <1>2
<1>4. n - 1 + 1 \in P
  BY <1>3
<1> QED
  BY <1>2, <1>4

(***************************************************************************)
(* Tables                                                                  *)
(***************************************************************************)
NormalizedRow == [req : Requests, dev : Devices \cup {NoDevice}]

(* Table t begins with the rows of table s.                                *)
Extends(t, s) == Len(t) >= Len(s) /\ \A i \in DOMAIN s : i \in DOMAIN t /\ t[i] = s[i]

LEMMA AppendRow ==
  ASSUME NEW S, NEW s \in Seq(S), NEW r \in S
  PROVE  LET t == Append(s, r)
         IN  /\ t \in Seq(S) /\ Len(t) = Len(s) + 1 /\ Len(s) \in Nat
             /\ DOMAIN t = DOMAIN s \cup {Len(s) + 1} /\ Len(s) + 1 \notin DOMAIN s
             /\ \A i \in DOMAIN s : t[i] = s[i]
             /\ t[Len(s) + 1] = r
             /\ Extends(t, s) /\ RowsOf(t) = RowsOf(s) \cup {r}
<1> DEFINE t == Append(s, r)
<1>1. /\ t \in Seq(S) /\ Len(t) = Len(s) + 1 /\ Len(s) \in Nat
      /\ DOMAIN t = DOMAIN s \cup {Len(s) + 1} /\ Len(s) + 1 \notin DOMAIN s
      /\ \A i \in DOMAIN s : t[i] = s[i]
      /\ t[Len(s) + 1] = r
  OBVIOUS
<1> HIDE DEF t
<1>2. Extends(t, s) /\ RowsOf(t) = RowsOf(s) \cup {r}
  BY <1>1 DEF Extends, RowsOf
<1> QED
  BY <1>1, <1>2 DEF t

(* A normalized row is added at the end, or one of its key is there.       *)
LEMMA NormalizedAdds ==
  ASSUME NEW s \in Seq(NormalizedRow), NEW r \in Requests, NEW d \in Devices \cup {NoDevice}
  PROVE  LET t == WithNormalized(s, r, d)
         IN  /\ t \in Seq(NormalizedRow) /\ Extends(t, s)
             /\ IdOf(t, r, d) \in DOMAIN t
             /\ KeyOf(t[IdOf(t, r, d)]) = DedupKey(Payload[r], d)
             /\ \/ t = s
                \/ /\ t = Append(s, [req |-> r, dev |-> d])
                   /\ \A i \in DOMAIN s : KeyOf(s[i]) # DedupKey(Payload[r], d)
<1> DEFINE t == WithNormalized(s, r, d)
           row == [req |-> r, dev |-> d]
<1>1. row \in NormalizedRow /\ KeyOf(row) = DedupKey(Payload[r], d)
  BY DEF NormalizedRow, KeyOf
<1> HIDE DEF row
<1>2. /\ t \in Seq(NormalizedRow) /\ Extends(t, s)
      /\ \/ t = s /\ \E i \in DOMAIN s : KeyOf(s[i]) = DedupKey(Payload[r], d)
         \/ /\ t = Append(s, row)
            /\ \A i \in DOMAIN s : KeyOf(s[i]) # DedupKey(Payload[r], d)
  <2>1. CASE \E i \in DOMAIN s : KeyOf(s[i]) = DedupKey(Payload[r], d)
    BY <2>1 DEF WithNormalized, Extends
  <2>2. CASE ~ \E i \in DOMAIN s : KeyOf(s[i]) = DedupKey(Payload[r], d)
    BY <2>2, <1>1, AppendRow DEF WithNormalized, row
  <2> QED
    BY <2>1, <2>2
<1>3. \E i \in DOMAIN t : KeyOf(t[i]) = DedupKey(Payload[r], d)
  <2>1. CASE t = s
    BY <2>1, <1>2, AppendRow, <1>1
  <2>2. CASE t = Append(s, row)
    BY <2>2, <1>1, AppendRow
  <2> QED
    BY <1>2, <2>1, <2>2
<1> HIDE DEF t
<1>4. IdOf(t, r, d) \in DOMAIN t /\ KeyOf(t[IdOf(t, r, d)]) = DedupKey(Payload[r], d)
  BY <1>3 DEF IdOf
<1> QED
  BY <1>2, <1>4 DEF t, row

(***************************************************************************)
(* reprocess_quarantine, row by row                                        *)
(***************************************************************************)
Leftover == [rows : Seq(NormalizedRow), kept : Seq(Requests)]

OneReprocessed(r, before) ==
  IF Punch(r) THEN [before EXCEPT !.rows = WithNormalized(@, r, NoDevice)]
  ELSE [before EXCEPT !.kept = Append(@, r)]

LEMMA OneReprocessedType ==
  ASSUME NEW r \in Requests, NEW b \in Leftover
  PROVE  /\ OneReprocessed(r, b) \in Leftover
         /\ Extends(OneReprocessed(r, b).rows, b.rows)
         /\ \A i \in DOMAIN OneReprocessed(r, b).rows :
              i \notin DOMAIN b.rows => OneReprocessed(r, b).rows[i].dev = NoDevice
         /\ OneReprocessed(r, b).kept = IF Punch(r) THEN b.kept ELSE Append(b.kept, r)
<1>1. b.rows \in Seq(NormalizedRow) /\ b.kept \in Seq(Requests)
  BY DEF Leftover
<1>2. CASE Punch(r)
  <2> DEFINE t == WithNormalized(b.rows, r, NoDevice)
  <2>1. OneReprocessed(r, b) = [b EXCEPT !.rows = t]
    BY <1>2 DEF OneReprocessed
  <2>2. /\ t \in Seq(NormalizedRow) /\ Extends(t, b.rows)
        /\ t = b.rows \/ t = Append(b.rows, [req |-> r, dev |-> NoDevice])
    BY <1>1, NormalizedAdds
  <2>3. \A i \in DOMAIN t : i \notin DOMAIN b.rows => t[i].dev = NoDevice
    <3>1. [req |-> r, dev |-> NoDevice] \in NormalizedRow
      BY DEF NormalizedRow
    <3>2. t = Append(b.rows, [req |-> r, dev |-> NoDevice]) =>
            DOMAIN t = DOMAIN b.rows \cup {Len(b.rows) + 1} /\ t[Len(b.rows) + 1].dev = NoDevice
      BY <1>1, <3>1, AppendRow
    <3> QED
      BY <2>2, <3>2
  <2> HIDE DEF t
  <2> QED
    BY <1>1, <1>2, <2>1, <2>2, <2>3 DEF Leftover
<1>3. CASE ~Punch(r)
  <2>1. OneReprocessed(r, b) = [b EXCEPT !.kept = Append(b.kept, r)]
    BY <1>3 DEF OneReprocessed
  <2>2. Append(b.kept, r) \in Seq(Requests)
    BY <1>1
  <2>3. Extends(b.rows, b.rows)
    BY <1>1 DEF Extends
  <2> QED
    BY <1>1, <1>3, <2>1, <2>2, <2>3 DEF Leftover
<1> QED
  BY <1>2, <1>3

LEMMA ReprocessedStep ==
  ASSUME quarantine \in Seq(Requests), normalized \in Seq(NormalizedRow)
  PROVE  /\ Reprocessed \in [0 .. Len(quarantine) -> Leftover]
         /\ Reprocessed[0] = [rows |-> normalized, kept |-> <<>>]
         /\ \A n \in 1 .. Len(quarantine) :
              Reprocessed[n] = OneReprocessed(quarantine[n], Reprocessed[n - 1])
<1> DEFINE L == Len(quarantine)
           a == [rows |-> normalized, kept |-> <<>>]
           G == [p \in (1 .. L) \X Leftover |-> OneReprocessed(quarantine[p[1]], p[2])]
<1>1. L \in Nat /\ a \in Leftover /\ \A n \in 1 .. L : quarantine[n] \in Requests
  BY DEF Leftover
<1>2. \A n \in 1 .. L, x \in Leftover :
        /\ G[<<n, x>>] = OneReprocessed(quarantine[n], x)
        /\ G[<<n, x>>] \in Leftover
  BY <1>1, OneReprocessedType
<1> HIDE DEF G, a
<1>3. PICK f \in [0 .. L -> Leftover] :
        f[0] = a /\ \A n \in 1 .. L : f[n] = G[<<n, f[n - 1]>>]
  <2>0. /\ L \in Nat /\ a \in Leftover
        /\ \A n \in 1 .. L, x \in Leftover : G[<<n, x>>] \in Leftover
    BY <1>1, <1>2
  <2> HIDE DEF L
  <2> DEFINE Q == {k \in Nat : k <= L => \E f \in [0 .. k -> Leftover] :
                     f = [n \in 0 .. k |-> IF n = 0 THEN a ELSE G[<<n, f[n - 1]>>]]}
  <2>1. 0 \in Q
    <3>1. [n \in 0 .. 0 |-> a] \in [0 .. 0 -> Leftover]
      BY <2>0
    <3>2. [n \in 0 .. 0 |-> a] =
            [n \in 0 .. 0 |-> IF n = 0 THEN a ELSE G[<<n, [m \in 0 .. 0 |-> a][n - 1]>>]]
      OBVIOUS
    <3> QED
      BY <3>1, <3>2
  <2>2. ASSUME NEW k \in Nat, k \in Q PROVE k + 1 \in Q
    <3>1. SUFFICES ASSUME k + 1 <= L
                   PROVE  \E f \in [0 .. k + 1 -> Leftover] :
                            f = [n \in 0 .. k + 1 |-> IF n = 0 THEN a ELSE G[<<n, f[n - 1]>>]]
      OBVIOUS
    <3>2. PICK f \in [0 .. k -> Leftover] :
            f = [n \in 0 .. k |-> IF n = 0 THEN a ELSE G[<<n, f[n - 1]>>]]
      BY <2>0, <2>2, <3>1
    <3> DEFINE g == [n \in 0 .. k + 1 |-> IF n = k + 1 THEN G[<<n, f[k]>>] ELSE f[n]]
    <3>3. g \in [0 .. k + 1 -> Leftover]
      BY <2>0, <3>1, <3>2
    <3>4. g = [n \in 0 .. k + 1 |-> IF n = 0 THEN a ELSE G[<<n, g[n - 1]>>]]
      <4>1. ASSUME NEW n \in 0 .. k + 1 PROVE g[n] = IF n = 0 THEN a ELSE G[<<n, g[n - 1]>>]
        <5>1. CASE n = k + 1
          <6>1. n # 0 /\ n - 1 = k /\ g[n] = G[<<n, f[k]>>] /\ g[k] = f[k]
            BY <5>1
          <6> QED
            BY <6>1
        <5>2. CASE n # k + 1
          <6>1. n \in 0 .. k /\ g[n] = f[n]
            BY <5>2
          <6>2. n # 0 => g[n - 1] = f[n - 1]
            BY <6>1
          <6>3. f[n] = IF n = 0 THEN a ELSE G[<<n, f[n - 1]>>]
            BY <3>2, <6>1
          <6> QED
            BY <6>1, <6>2, <6>3
        <5> QED
          BY <5>1, <5>2
      <4> QED
        BY <4>1
    <3> QED
      BY <3>3, <3>4
  <2>3. Nat \subseteq Q
    <3> HIDE DEF Q
    <3> QED
      BY <2>1, <2>2, SetInduction
  <2>4. PICK f \in [0 .. L -> Leftover] :
          f = [n \in 0 .. L |-> IF n = 0 THEN a ELSE G[<<n, f[n - 1]>>]]
    BY <2>0, <2>3
  <2>5. \A n \in 1 .. L : n \in 0 .. L /\ n # 0
    BY <2>0
  <2>6. f[0] = a /\ \A n \in 1 .. L : f[n] = G[<<n, f[n - 1]>>]
    BY <2>0, <2>4, <2>5
  <2> QED
    BY <2>6
<1>4. \A n \in 1 .. L : n - 1 \in 0 .. L /\ n # 0 /\ n \in 0 .. L
  BY <1>1
<1>5. \A n \in 1 .. L : f[n] = OneReprocessed(quarantine[n], f[n - 1])
  BY <1>2, <1>3, <1>4
<1>6. f[0] = a /\ \A n \in 0 .. L : n # 0 => n \in 1 .. L
  BY <1>1, <1>3
<1>7. f = [n \in 0 .. Len(quarantine) |->
             IF n = 0 THEN [rows |-> normalized, kept |-> <<>>]
             ELSE LET r == quarantine[n]
                      before == f[n - 1]
                  IN  IF Punch(r)
                      THEN [before EXCEPT !.rows = WithNormalized(@, r, NoDevice)]
                      ELSE [before EXCEPT !.kept = Append(@, r)]]
  <2>1. \A n \in 0 .. L :
          f[n] = IF n = 0 THEN [rows |-> normalized, kept |-> <<>>]
                 ELSE LET r == quarantine[n]
                          before == f[n - 1]
                      IN  IF Punch(r)
                          THEN [before EXCEPT !.rows = WithNormalized(@, r, NoDevice)]
                          ELSE [before EXCEPT !.kept = Append(@, r)]
    BY <1>5, <1>6 DEF OneReprocessed, a
  <2> QED
    BY <1>3, <2>1
<1>8. Reprocessed = [n \in 0 .. Len(quarantine) |->
             IF n = 0 THEN [rows |-> normalized, kept |-> <<>>]
             ELSE LET r == quarantine[n]
                      before == Reprocessed[n - 1]
                  IN  IF Punch(r)
                      THEN [before EXCEPT !.rows = WithNormalized(@, r, NoDevice)]
                      ELSE [before EXCEPT !.kept = Append(@, r)]]
  BY <1>7 DEF Reprocessed
<1>9. Reprocessed \in [0 .. L -> Leftover]
  <2> DEFINE P == {k \in Nat : k <= L => Reprocessed[k] \in Leftover}
  <2>1. 0 \in P
    BY <1>1, <1>8 DEF a
  <2>2. ASSUME NEW k \in Nat, k \in P PROVE k + 1 \in P
    <3>1. SUFFICES ASSUME k + 1 <= L PROVE Reprocessed[k + 1] \in Leftover
      BY <2>2
    <3>2. k + 1 \in 0 .. L /\ k + 1 # 0 /\ (k + 1) - 1 = k /\ k + 1 \in 1 .. L
      BY <1>1, <3>1
    <3>3. Reprocessed[k] \in Leftover
      BY <2>2, <3>1, <1>1
    <3>4. Reprocessed[k + 1] = OneReprocessed(quarantine[k + 1], Reprocessed[k])
      BY <1>8, <3>2 DEF OneReprocessed
    <3> QED
      BY <1>1, <3>2, <3>3, <3>4, OneReprocessedType
  <2>3. Nat \subseteq P
    <3> HIDE DEF P
    <3> QED
      BY <2>1, <2>2, SetInduction
  <2>4. \A k \in 0 .. L : Reprocessed[k] \in Leftover
    BY <1>1, <2>3
  <2> QED
    BY <1>8, <2>4
<1>10. \A n \in 1 .. L : Reprocessed[n] = OneReprocessed(quarantine[n], Reprocessed[n - 1])
  BY <1>4, <1>8 DEF OneReprocessed
<1>11. 0 \in 0 .. Len(quarantine) /\ Reprocessed[0] = [rows |-> normalized, kept |-> <<>>]
  BY <1>1, <1>8
<1> QED
  BY <1>9, <1>10, <1>11

(* The rows it adds are attributed to no device, and what it keeps in      *)
(* quarantine was there and is not a punch.                                *)
LEMMA ReprocessedAll ==
  ASSUME quarantine \in Seq(Requests), normalized \in Seq(NormalizedRow)
  PROVE  LET all == Reprocessed[Len(quarantine)]
         IN  /\ all \in Leftover /\ Extends(all.rows, normalized)
             /\ \A i \in DOMAIN all.rows :
                  i \notin DOMAIN normalized => all.rows[i].dev = NoDevice
             /\ \A r \in RowsOf(all.kept) : r \in RowsOf(quarantine) /\ ~Punch(r)
<1> DEFINE L == Len(quarantine)
           Good(b) == /\ Extends(b.rows, normalized)
                      /\ \A i \in DOMAIN b.rows : i \notin DOMAIN normalized => b.rows[i].dev = NoDevice
                      /\ \A r \in RowsOf(b.kept) : r \in RowsOf(quarantine) /\ ~Punch(r)
           P == {k \in Nat : k <= L => Good(Reprocessed[k])}
<1>1. /\ L \in Nat /\ Reprocessed \in [0 .. L -> Leftover]
      /\ Reprocessed[0] = [rows |-> normalized, kept |-> <<>>]
      /\ \A n \in 1 .. L : Reprocessed[n] = OneReprocessed(quarantine[n], Reprocessed[n - 1])
  BY ReprocessedStep
<1>2. 0 \in P
  <2>1. Extends(normalized, normalized)
    BY DEF Extends
  <2>2. RowsOf(<<>>) = {}
    BY DEF RowsOf
  <2> QED
    BY <1>1, <2>1, <2>2
<1>3. ASSUME NEW k \in Nat, k \in P PROVE k + 1 \in P
  <2>1. SUFFICES ASSUME k + 1 <= L PROVE Good(Reprocessed[k + 1])
    OBVIOUS
  <2> DEFINE r == quarantine[k + 1]
             b == Reprocessed[k]
             c == Reprocessed[k + 1]
  <2>2. k + 1 \in 1 .. L /\ (k + 1) - 1 = k /\ k \in 0 .. L /\ k <= L
    BY <1>1, <2>1
  <2>3. c = OneReprocessed(r, b) /\ b \in Leftover /\ r \in Requests /\ r \in RowsOf(quarantine)
    BY <1>1, <2>2 DEF RowsOf
  <2>4. Good(b)
    BY <1>3, <2>2
  <2> HIDE DEF r, b, c, L
  <2>5. /\ c \in Leftover /\ Extends(c.rows, b.rows)
        /\ \A i \in DOMAIN c.rows : i \notin DOMAIN b.rows => c.rows[i].dev = NoDevice
        /\ c.kept = IF Punch(r) THEN b.kept ELSE Append(b.kept, r)
    BY <2>3, OneReprocessedType
  <2>6. b.kept \in Seq(Requests)
    BY <2>3 DEF Leftover
  <2>7. RowsOf(Append(b.kept, r)) = RowsOf(b.kept) \cup {r}
    BY <2>3, <2>6, AppendRow
  <2>8. Extends(c.rows, normalized)
    <3>1. Len(c.rows) \in Nat /\ Len(b.rows) \in Nat /\ Len(normalized) \in Nat
      BY <2>3, <2>5 DEF Leftover
    <3> QED
      BY <2>4, <2>5, <3>1 DEF Extends
  <2>9. \A i \in DOMAIN c.rows : i \notin DOMAIN normalized => c.rows[i].dev = NoDevice
    BY <2>4, <2>5 DEF Extends
  <2>10. \A x \in RowsOf(c.kept) : x \in RowsOf(quarantine) /\ ~Punch(x)
    BY <2>3, <2>4, <2>5, <2>7
  <2> QED
    BY <2>8, <2>9, <2>10 DEF c
<1>4. Nat \subseteq P
  <2> HIDE DEF P
  <2> QED
    BY <1>2, <1>3, SetInduction
<1>5. Good(Reprocessed[L])
  BY <1>1, <1>4
<1>6. Reprocessed[L] \in Leftover
  BY <1>1
<1> QED
  BY <1>5, <1>6

(***************************************************************************)
(* The invariant of the tables, and the transactions                       *)
(***************************************************************************)
Contact ==
  [hb : Nat \cup {NoTime}, addr : Addresses \cup {NoDevice},
   status : {"learning", "online", "stale", "offline"},
   stale : Nat \cup {NoTime}, offline : Nat \cup {NoTime}]

(* What the two invariants say of one device.                              *)
Coherent(c) ==
  /\ c.hb = NoTime <=> c.status = "learning"
  /\ c.stale # NoTime => c.stale = c.hb + StaleAfter
  /\ c.offline # NoTime => c.offline = c.hb + OfflineAfter
  /\ c.status \in {"stale", "offline"} <=> c.stale # NoTime
  /\ c.status = "offline" <=> c.offline # NoTime

DbInv == DbTypeOK /\ SilenceFollowsHeartbeat /\ OutboxIsAttributed

(* The tables apart, as the lemmas below take them.                        *)
RowsInv ==
  /\ now \in Nat /\ raw \in Seq(Requests) /\ quarantine \in Seq(Requests)
  /\ normalized \in Seq(NormalizedRow) /\ outbox \in Seq(DOMAIN normalized)

DevicesInv == device \in [Devices -> Contact] /\ \A d \in Devices : Coherent(device[d])

LEMMA DbInvParts ==
  /\ DbInv <=> RowsInv /\ DevicesInv /\ OutboxIsAttributed
  /\ DbInv' <=> RowsInv' /\ DevicesInv' /\ OutboxIsAttributed'
  BY DEF DbInv, RowsInv, DevicesInv, DbTypeOK, SilenceFollowsHeartbeat, Coherent, Contact,
         NormalizedRow

LEMMA RefreshedCoherent ==
  ASSUME now \in Nat, NEW c \in Contact, Coherent(c)
  PROVE  Refreshed(c) \in Contact /\ Coherent(Refreshed(c))
<1>1. StaleAfter \in Nat /\ OfflineAfter \in Nat /\ StaleAfter <= OfflineAfter /\ NoTime = -1
  BY DbAssumption DEF NoTime
<1>2. CASE c.hb = NoTime
  BY <1>2 DEF Refreshed
<1>3. CASE c.hb # NoTime
  <2> DEFINE age == now - c.hb
             s == IF age >= OfflineAfter THEN "offline"
                  ELSE IF age >= StaleAfter THEN "stale" ELSE "online"
             t == IF age < StaleAfter THEN NoTime
                  ELSE IF c.stale # NoTime THEN c.stale ELSE c.hb + StaleAfter
             o == IF age < OfflineAfter THEN NoTime
                  ELSE IF c.offline # NoTime THEN c.offline ELSE c.hb + OfflineAfter
  <2>1. Refreshed(c) = [c EXCEPT !.status = s, !.stale = t, !.offline = o]
    BY <1>3 DEF Refreshed
  <2>2. c.hb \in Nat /\ age \in Int /\ c.stale \in Nat \cup {NoTime} /\ c.offline \in Nat \cup {NoTime}
    BY <1>3 DEF Contact
  <2>3. s \in {"online", "stale", "offline"} /\ t \in Nat \cup {NoTime} /\ o \in Nat \cup {NoTime}
    BY <1>1, <2>2
  <2>4. (t # NoTime => t = c.hb + StaleAfter) /\ (o # NoTime => o = c.hb + OfflineAfter)
    BY DEF Coherent
  <2>5. (s \in {"stale", "offline"} <=> t # NoTime) /\ (s = "offline" <=> o # NoTime)
    <3>1. (s \in {"stale", "offline"} <=> age >= StaleAfter) /\ (s = "offline" <=> age >= OfflineAfter)
      BY <1>1, <2>2
    <3>2. (t # NoTime <=> age >= StaleAfter) /\ (o # NoTime <=> age >= OfflineAfter)
      BY <1>1, <2>2
    <3> QED
      BY <3>1, <3>2
  <2> HIDE DEF s, t, o
  <2>6. Refreshed(c) \in Contact
    BY <2>1, <2>3 DEF Contact
  <2>7. LET z == Refreshed(c)
        IN  z.hb = c.hb /\ z.status = s /\ z.stale = t /\ z.offline = o
    BY <2>1 DEF Contact
  <2> QED
    BY <1>3, <2>3, <2>4, <2>5, <2>6, <2>7 DEF Coherent
<1> QED
  BY <1>2, <1>3

LEMMA RefreshKeeps ==
  ASSUME DbInv, RefreshDeviceStatuses, now' = now PROVE DbInv'
<1>1. RowsInv /\ DevicesInv /\ OutboxIsAttributed
  BY DbInvParts
<1>2. RowsInv' /\ OutboxIsAttributed'
  BY <1>1 DEF RefreshDeviceStatuses, RowsInv, OutboxIsAttributed, RowsOf
<1>3. DevicesInv'
  <2>1. device' = [d \in Devices |-> Refreshed(device[d])]
    BY DEF RefreshDeviceStatuses
  <2>2. \A d \in Devices : device[d] \in Contact /\ Coherent(device[d])
    BY <1>1 DEF DevicesInv
  <2>3. \A d \in Devices : Refreshed(device[d]) \in Contact /\ Coherent(Refreshed(device[d]))
    BY <1>1, <2>2, RefreshedCoherent DEF RowsInv
  <2>4. device' \in [Devices -> Contact] /\ \A d \in Devices : Coherent(device'[d])
    BY <2>1, <2>3
  <2> QED
    BY <2>4 DEF DevicesInv, Coherent, Contact, NoTime
<1> QED
  BY <1>2, <1>3, DbInvParts

LEMMA TickKeeps == ASSUME DbInv, Tick PROVE DbInv'
  BY DEF DbInv, Tick, tables, DbTypeOK, SilenceFollowsHeartbeat, OutboxIsAttributed, RowsOf

LEMMA WithRawType ==
  ASSUME raw \in Seq(Requests), NEW r \in Requests
  PROVE  WithRaw(r) \in Seq(Requests)
  BY DEF WithRaw

(* The rows an event attributed to d adds, and its entry in the outbox.    *)
LEMMA AddedRows ==
  ASSUME NEW s \in Seq(NormalizedRow), NEW r \in Requests, NEW d \in Devices \cup {NoDevice},
         NEW t, t = WithNormalized(s, r, d)
  PROVE  /\ t \in Seq(NormalizedRow) /\ DOMAIN s \subseteq DOMAIN t
         /\ \A i \in DOMAIN s : t[i] = s[i]
         /\ \A i \in DOMAIN t : i \notin DOMAIN s =>
              i = IdOf(t, r, d) /\ t[i] = [req |-> r, dev |-> d]
         /\ IdOf(t, r, d) \in DOMAIN t
         /\ t[IdOf(t, r, d)].dev = d
         /\ Payload[t[IdOf(t, r, d)].req].kind = Payload[r].kind
<1> DEFINE row == [req |-> r, dev |-> d]
           id == IdOf(t, r, d)
<1>1. row \in NormalizedRow
  BY DEF NormalizedRow
<1>2. /\ t \in Seq(NormalizedRow) /\ Extends(t, s) /\ id \in DOMAIN t
      /\ KeyOf(t[id]) = DedupKey(Payload[r], d)
      /\ \/ t = s
         \/ t = Append(s, row) /\ \A i \in DOMAIN s : KeyOf(s[i]) # DedupKey(Payload[r], d)
  BY NormalizedAdds
<1>3. t[id].dev = d /\ Payload[t[id].req].kind = Payload[r].kind
  BY <1>2 DEF KeyOf, DedupKey
<1>4. ASSUME NEW i \in DOMAIN t, i \notin DOMAIN s PROVE i = id /\ t[i] = row
  <2>1. t = Append(s, row) /\ \A j \in DOMAIN s : KeyOf(s[j]) # DedupKey(Payload[r], d)
    BY <1>2, <1>4
  <2> HIDE DEF row, id
  <2>2. /\ DOMAIN t = DOMAIN s \cup {Len(s) + 1} /\ t[Len(s) + 1] = row
        /\ \A j \in DOMAIN s : t[j] = s[j]
    BY <1>1, <2>1, AppendRow
  <2>3. i = Len(s) + 1
    BY <1>4, <2>2
  <2>4. id \notin DOMAIN s
    BY <1>2, <2>1, <2>2
  <2> QED
    BY <1>2, <2>2, <2>3, <2>4
<1> HIDE DEF id, row
<1> QED
  BY <1>2, <1>3, <1>4 DEF Extends, id, row

LEMMA ProcessKeeps ==
  ASSUME DbInv, NEW r \in Requests, ProcessSpooledEvent(r), now' = now PROVE DbInv'
<1>1. RowsInv /\ DevicesInv /\ OutboxIsAttributed
  BY DbInvParts
<1>2. PICK d \in Devices \cup {NoDevice} :
        /\ ResolvesTo(Payload[r], d)
        /\ Quarantine(r, d) \/ Heartbeat(r, d) \/ BusinessEvent(r, d)
  BY DEF ProcessSpooledEvent
<1>3. raw' \in Seq(Requests) /\ now' \in Nat
  BY <1>1, WithRawType DEF ProcessSpooledEvent, RowsInv
<1>4. /\ normalized \in Seq(NormalizedRow) /\ quarantine \in Seq(Requests)
      /\ outbox \in Seq(DOMAIN normalized)
  BY <1>1 DEF RowsInv
<1>5. /\ Payload[r].kind \in Kinds /\ Payload[r].hint \in Devices \cup {NoDevice}
      /\ Payload[r].addr \in Addresses /\ Payload[r].at \in Nat
  BY DbAssumption
<1>6. CASE Quarantine(r, d)
  <2>1. quarantine' \in Seq(Requests)
    BY <1>4, <1>6 DEF Quarantine
  <2>2. UNCHANGED <<normalized, outbox, device>>
    BY <1>6 DEF Quarantine
  <2> QED
    BY <1>1, <1>3, <2>1, <2>2, DbInvParts
       DEF RowsInv, DevicesInv, OutboxIsAttributed, RowsOf, Coherent, Contact
<1> DEFINE t == WithNormalized(normalized, r, d)
           id == IdOf(t, r, d)
<1>7. /\ t \in Seq(NormalizedRow) /\ DOMAIN normalized \subseteq DOMAIN t
      /\ \A i \in DOMAIN normalized : t[i] = normalized[i]
      /\ \A i \in DOMAIN t : i \notin DOMAIN normalized =>
           i = id /\ t[i] = [req |-> r, dev |-> d]
      /\ id \in DOMAIN t /\ t[id].dev = d /\ Payload[t[id].req].kind = Payload[r].kind
  BY <1>4, AddedRows
<1>8. outbox \in Seq(DOMAIN t) /\ RowsOf(outbox) \subseteq DOMAIN normalized
  BY <1>4, <1>7 DEF RowsOf
<1>9. \A i \in DOMAIN normalized :
        i \in RowsOf(outbox)
        <=> /\ normalized[i].dev # NoDevice
            /\ Payload[normalized[i].req].kind \in {"access_control", "door_status"}
  BY <1>1 DEF OutboxIsAttributed
<1>10. CASE Heartbeat(r, d)
  <2> HIDE DEF t, id
  <2>1. /\ normalized' = t /\ quarantine' = quarantine /\ outbox' = outbox
        /\ Payload[r].kind = "heartbeat_connect" /\ d # NoDevice
    BY <1>10 DEF Heartbeat, ToQuarantine, t
  <2>2. device' = [device EXCEPT ![d] =
                      [hb |-> Payload[r].at, addr |-> Payload[r].addr, status |-> "online",
                       stale |-> NoTime, offline |-> NoTime]]
    BY <1>10 DEF Heartbeat
  <2>3. RowsInv'
    BY <1>3, <1>4, <1>7, <1>8, <2>1 DEF RowsInv
  <2>4. OutboxIsAttributed'
    <3>1. ASSUME NEW i \in DOMAIN t
          PROVE  i \in RowsOf(outbox)
                 <=> /\ t[i].dev # NoDevice
                     /\ Payload[t[i].req].kind \in {"access_control", "door_status"}
      <4>1. CASE i \in DOMAIN normalized
        BY <1>7, <1>9, <4>1
      <4>2. CASE i \notin DOMAIN normalized
        BY <1>7, <1>8, <2>1, <4>2
      <4> QED
        BY <4>1, <4>2
    <3> QED
      BY <2>1, <3>1 DEF OutboxIsAttributed, RowsOf
  <2>5. DevicesInv'
    <3> DEFINE new == [hb |-> Payload[r].at, addr |-> Payload[r].addr, status |-> "online",
                       stale |-> NoTime, offline |-> NoTime]
    <3>1. new \in Contact /\ Coherent(new)
      BY <1>5 DEF Contact, Coherent, NoTime
    <3> HIDE DEF new
    <3>2. device' \in [Devices -> Contact] /\ \A e \in Devices : Coherent(device'[e])
      BY <1>1, <2>1, <2>2, <3>1 DEF DevicesInv, new
    <3> QED
      BY <3>2 DEF DevicesInv, Coherent, Contact
  <2> QED
    BY <2>3, <2>4, <2>5, DbInvParts
<1>11. CASE BusinessEvent(r, d)
  <2> HIDE DEF t, id
  <2>1. /\ normalized' = t /\ quarantine' = quarantine
        /\ device' = Touched(d, Payload[r]) /\ outbox' = Enqueued(t, r, d)
    BY <1>11 DEF BusinessEvent, t
  <2> DEFINE door == d # NoDevice /\ Payload[r].kind \in {"access_control", "door_status"}
  <2>2. /\ outbox' \in Seq(DOMAIN t)
        /\ RowsOf(outbox') = RowsOf(outbox) \cup (IF door THEN {id} ELSE {})
    <3>1. outbox' = IF door THEN Append(outbox, id) ELSE outbox
      BY <2>1 DEF Enqueued, id
    <3>2. RowsOf(Append(outbox, id)) = RowsOf(outbox) \cup {id} /\ Append(outbox, id) \in Seq(DOMAIN t)
      BY <1>7, <1>8, AppendRow
    <3> HIDE DEF door
    <3> QED
      BY <1>8, <3>1, <3>2
  <2>3. RowsInv'
    BY <1>3, <1>4, <1>7, <2>1, <2>2 DEF RowsInv
  <2>4. OutboxIsAttributed'
    <3>1. ASSUME NEW i \in DOMAIN t
          PROVE  i \in RowsOf(outbox')
                 <=> /\ t[i].dev # NoDevice
                     /\ Payload[t[i].req].kind \in {"access_control", "door_status"}
      <4>1. CASE i \in DOMAIN normalized
        BY <1>7, <1>9, <2>2, <4>1
      <4>2. CASE i \notin DOMAIN normalized
        BY <1>7, <1>8, <2>2, <4>2
      <4> QED
        BY <4>1, <4>2
    <3> QED
      BY <2>1, <3>1 DEF OutboxIsAttributed, RowsOf
  <2>5. DevicesInv'
    <3>1. CASE d \in Devices /\ device[d].hb # NoTime
      <4>1. device' = [device EXCEPT ![d].addr = Payload[r].addr]
        BY <2>1, <3>1 DEF Touched
      <4>2. device[d] \in Contact /\ Coherent(device[d])
        BY <1>1, <3>1 DEF DevicesInv
      <4> DEFINE new == [device[d] EXCEPT !.addr = Payload[r].addr]
      <4>3. new \in Contact /\ Coherent(new)
        BY <1>5, <4>2 DEF Contact, Coherent
      <4>4. device' = [device EXCEPT ![d] = new]
        BY <1>1, <4>1 DEF DevicesInv
      <4> HIDE DEF new
      <4>5. device' \in [Devices -> Contact] /\ \A e \in Devices : Coherent(device'[e])
        BY <1>1, <4>3, <4>4 DEF DevicesInv
      <4> QED
        BY <4>5 DEF DevicesInv, Coherent, Contact
    <3>2. CASE ~(d \in Devices /\ device[d].hb # NoTime)
      <4>1. device' = device
        BY <2>1, <3>2 DEF Touched
      <4> QED
        BY <1>1, <4>1 DEF DevicesInv, Coherent, Contact
    <3> QED
      BY <3>1, <3>2
  <2> QED
    BY <2>3, <2>4, <2>5, DbInvParts
<1> QED
  BY <1>2, <1>6, <1>10, <1>11

LEMMA ReprocessKeeps ==
  ASSUME DbInv, ReprocessQuarantine, now' = now PROVE DbInv'
<1>1. RowsInv /\ DevicesInv /\ OutboxIsAttributed
  BY DbInvParts
<1> DEFINE all == Reprocessed[Len(quarantine)]
<1>2. /\ all \in Leftover /\ Extends(all.rows, normalized)
      /\ \A i \in DOMAIN all.rows : i \notin DOMAIN normalized => all.rows[i].dev = NoDevice
  BY <1>1, ReprocessedAll DEF RowsInv
<1>3. /\ normalized' = all.rows /\ quarantine' = all.kept
      /\ UNCHANGED <<raw, outbox, device>>
  BY DEF ReprocessQuarantine
<1> HIDE DEF all
<1>4. /\ normalized' \in Seq(NormalizedRow) /\ quarantine' \in Seq(Requests)
      /\ DOMAIN normalized \subseteq DOMAIN normalized'
      /\ \A i \in DOMAIN normalized : normalized'[i] = normalized[i]
      /\ \A i \in DOMAIN normalized' : i \notin DOMAIN normalized => normalized'[i].dev = NoDevice
  BY <1>2, <1>3 DEF Leftover, Extends
<1>5. outbox \in Seq(DOMAIN normalized) /\ RowsOf(outbox) \subseteq DOMAIN normalized
  BY <1>1 DEF RowsInv, RowsOf
<1>6. RowsInv'
  <2>1. outbox \in Seq(DOMAIN normalized')
    BY <1>4, <1>5
  <2> QED
    BY <1>1, <1>3, <1>4, <2>1 DEF RowsInv
<1>7. OutboxIsAttributed'
  BY <1>1, <1>3, <1>4, <1>5 DEF OutboxIsAttributed, RowsOf
<1>8. DevicesInv'
  BY <1>1, <1>3 DEF DevicesInv, Coherent, Contact
<1> QED
  BY <1>6, <1>7, <1>8, DbInvParts

(* Until the first delivery only the rows of the earlier release exist.    *)
LEMMA DbInitial == Init => DbInv
<1> SUFFICES ASSUME Init PROVE DbInv
  OBVIOUS
<1>1. Cardinality(Legacy) \in Nat /\ Legacy \subseteq Requests
  BY DbAssumption, FS_CardinalityType
<1>2. quarantine \in Seq(Requests) /\ raw = quarantine
  BY <1>1 DEF Init
<1>3. RowsInv
  BY <1>2 DEF Init, RowsInv
<1>4. DevicesInv
  <2>1. NoContact \in Contact /\ Coherent(NoContact)
    BY DEF NoContact, Contact, Coherent
  <2> QED
    BY <2>1 DEF Init, DevicesInv
<1>5. OutboxIsAttributed
  BY DEF Init, OutboxIsAttributed
<1> QED
  BY <1>3, <1>4, <1>5, DbInvParts

LEMMA DbInvStep == DbInv /\ [Next]_dbVars => DbInv'
<1> SUFFICES ASSUME DbInv, [Next]_dbVars PROVE DbInv'
  OBVIOUS
<1>1. CASE \E r \in Requests : Deliver(r)
  BY <1>1, ProcessKeeps DEF Deliver
<1>2. CASE RefreshDeviceStatuses /\ UNCHANGED now
  BY <1>2, RefreshKeeps
<1>3. CASE ReprocessQuarantine /\ UNCHANGED now
  BY <1>3, ReprocessKeeps
<1>4. CASE Tick
  BY <1>4, TickKeeps
<1>5. CASE UNCHANGED dbVars
  BY <1>5 DEF dbVars, tables, DbInv, DbTypeOK, SilenceFollowsHeartbeat, OutboxIsAttributed, RowsOf
<1> QED
  BY <1>1, <1>2, <1>3, <1>4, <1>5 DEF Next

LEMMA DbInvariant == DbSpec => []DbInv
  BY DbInitial, DbInvStep, PTL DEF DbSpec

(* Every table has rows of its type, and the outbox refers to rows that    *)
(* exist, after any sequence of transactions.                              *)
THEOREM DatabaseTyped == DbSpec => []DbTypeOK
<1>1. DbInv => DbTypeOK
  BY DEF DbInv
<1> QED
  BY <1>1, DbInvariant, PTL

(* A device is said to be stale or offline since its last heartbeat plus   *)
(* the limit, exactly while its status says so, in whatever order          *)
(* heartbeats, business events and refreshes come.                         *)
THEOREM SilenceIsSinceHeartbeat == DbSpec => []SilenceFollowsHeartbeat
<1>1. DbInv => SilenceFollowsHeartbeat
  BY DEF DbInv
<1> QED
  BY <1>1, DbInvariant, PTL

(* The outbox holds exactly the door events attributed to a device,        *)
(* however often a request is delivered and whatever leaves quarantine.    *)
THEOREM OutboxHoldsAttributed == DbSpec => []OutboxIsAttributed
<1>1. DbInv => OutboxIsAttributed
  BY DEF DbInv
<1> QED
  BY <1>1, DbInvariant, PTL

(* A row added for an event that does not name its device, while several   *)
(* were heard of at its address, is attributed to none.                    *)
THEOREM SeveralDevicesNoneChosen == DbSpec => AmbiguousIsUnattributed
<1> DEFINE Unattributed ==
      \A i \in DOMAIN normalized' \ DOMAIN normalized :
        LET p == Payload[normalized'[i].req]
        IN  p.hint = NoDevice /\ Cardinality(RecentlySeen(p)) > 1
            => normalized'[i].dev = NoDevice
<1>1. ASSUME DbInv, NEW r \in Requests, ProcessSpooledEvent(r) PROVE Unattributed
  <2>1. PICK d \in Devices \cup {NoDevice} :
          /\ ResolvesTo(Payload[r], d)
          /\ Quarantine(r, d) \/ Heartbeat(r, d) \/ BusinessEvent(r, d)
    BY <1>1 DEF ProcessSpooledEvent
  <2>2. CASE Quarantine(r, d)
    BY <2>2 DEF Quarantine
  <2>3. CASE Heartbeat(r, d) \/ BusinessEvent(r, d)
    <3>1. normalized' = WithNormalized(normalized, r, d)
      BY <2>3 DEF Heartbeat, BusinessEvent
    <3>2. normalized \in Seq(NormalizedRow)
      BY <1>1, DbInvParts DEF RowsInv
    <3>3. \A i \in DOMAIN normalized' : i \notin DOMAIN normalized =>
            normalized'[i] = [req |-> r, dev |-> d]
      BY <3>1, <3>2, AddedRows
    <3>4. Payload[r].hint = NoDevice /\ Cardinality(RecentlySeen(Payload[r])) > 1 => d = NoDevice
      BY <2>1 DEF ResolvesTo
    <3> QED
      BY <3>3, <3>4
  <2> QED
    BY <2>1, <2>2, <2>3
<1>2. ASSUME DbInv, ReprocessQuarantine PROVE Unattributed
  <2>1. normalized' = Reprocessed[Len(quarantine)].rows
    BY <1>2 DEF ReprocessQuarantine
  <2>2. quarantine \in Seq(Requests) /\ normalized \in Seq(NormalizedRow)
    BY <1>2, DbInvParts DEF RowsInv
  <2> QED
    BY <2>1, <2>2, ReprocessedAll
<1>3. ASSUME normalized' = normalized PROVE Unattributed
  BY <1>3
<1>4. DbInv /\ [Next]_dbVars => [Unattributed]_dbVars
  <2> HIDE DEF Unattributed
  <2> QED
    BY <1>1, <1>2, <1>3 DEF Next, Deliver, RefreshDeviceStatuses, Tick, tables
<1> QED
  BY <1>4, DbInvariant, PTL DEF DbSpec, AmbiguousIsUnattributed

(* No punch enters quarantine: a delivery quarantines what is none, and    *)
(* what a reprocessing keeps there is none either.                         *)
THEOREM PunchesOnlyLeaveQuarantine == DbSpec => PunchesLeaveQuarantine
<1> DEFINE NoneEnters == \A r \in RowsOf(quarantine') : Punch(r) => r \in RowsOf(quarantine)
<1>1. ASSUME DbInv, NEW r \in Requests, ProcessSpooledEvent(r) PROVE NoneEnters
  <2>1. PICK d \in Devices \cup {NoDevice} :
          Quarantine(r, d) \/ Heartbeat(r, d) \/ BusinessEvent(r, d)
    BY <1>1 DEF ProcessSpooledEvent
  <2>2. CASE Quarantine(r, d)
    <3>1. quarantine' = Append(quarantine, r) /\ ~Punch(r)
      BY <2>2 DEF Quarantine, ToQuarantine, Punch
    <3>2. RowsOf(Append(quarantine, r)) = RowsOf(quarantine) \cup {r}
      BY <1>1, DbInvParts, AppendRow DEF RowsInv
    <3> QED
      BY <3>1, <3>2
  <2>3. CASE Heartbeat(r, d) \/ BusinessEvent(r, d)
    BY <2>3 DEF Heartbeat, BusinessEvent, RowsOf
  <2> QED
    BY <2>1, <2>2, <2>3
<1>2. ASSUME DbInv, ReprocessQuarantine PROVE NoneEnters
  <2>1. quarantine' = Reprocessed[Len(quarantine)].kept
    BY <1>2 DEF ReprocessQuarantine
  <2>2. quarantine \in Seq(Requests) /\ normalized \in Seq(NormalizedRow)
    BY <1>2, DbInvParts DEF RowsInv
  <2>3. \A r \in RowsOf(Reprocessed[Len(quarantine)].kept) : r \in RowsOf(quarantine) /\ ~Punch(r)
    BY <2>2, ReprocessedAll
  <2> QED
    BY <2>1, <2>3 DEF RowsOf
<1>3. ASSUME quarantine' = quarantine PROVE NoneEnters
  BY <1>3 DEF RowsOf
<1>4. DbInv /\ [Next]_dbVars => [NoneEnters]_dbVars
  <2> HIDE DEF NoneEnters
  <2> QED
    BY <1>1, <1>2, <1>3 DEF Next, Deliver, RefreshDeviceStatuses, Tick, tables
<1> QED
  BY <1>4, DbInvariant, PTL DEF DbSpec, PunchesLeaveQuarantine
=============================================================================
