--------------------------- MODULE LookLinkProofs ---------------------------
(***************************************************************************)
(* Theme links as devices and their tabs use them, for any of both and     *)
(* whatever may happen there.  The tabs are callers like any others        *)
(* (LinkSpec => Spec), so what LookRowsProofs shows of the server holds;   *)
(* and what a device's record says of its link is so.                      *)
(*                                                                         *)
(* The argument: what an answer says stays so while it travels, as a link  *)
(* once gone does not come back, a revision only rises, and a secret or a  *)
(* key once replaced is never in use again.                                *)
(***************************************************************************)
EXTENDS LookLink, LookRowsProofs

\* A tab publishes, acts and reads from callers of their own.
Kind(c, q) ==
  /\ c[2] = 0 => q.op \in {"none", "publish"}
  /\ c[2] = -1 => q.op \in {"none", "create", "transfer", "relink", "revoke"}
  /\ c[2] \in Mints => q.op \in {"none", "read"} /\ q.key \in {0, c[2]}
CallKinds == \A c \in Callers : Kind(c, calls[c])

\* The keys and secrets that requests and tabs name have been given out.
KeysGivenOut ==
  /\ \A c \in Callers : calls[c].secret <= mints /\ calls[c].key <= mints
  /\ \A t \in Tabs : tab[t].pending <= mints

\* What a request and its answer say of its link is so by the rows R and the pointers P.
So(q, R, P) ==
  /\ q.op = "none" => q.out = ""
  /\ q.op = "create" => q.out # "gone"
  /\ q.op = "create" /\ q.stage = "wrote" => q.secret # 0 /\ q.key # 0
  /\ q.op = "relink" /\ q.stage = "wrote" => q.key # 0
  /\ q.op \in {"create", "transfer", "relink"} /\ q.out = "ok" => q.stage = "wrote"
  /\ q.op = "publish" => q.look # 0
  /\ q.op \in {"publish", "transfer"} => q.stage # "read"
  /\ q.op = "publish" /\ q.out = "" /\ R[q.id].there => q.base <= R[q.id].revision
  /\ q.op \in {"publish", "transfer"} /\ q.out \in {"ok", "stale"} /\ R[q.id].there => q.revision <= R[q.id].revision
  /\ q.op = "publish" /\ q.out = "not-publisher" /\ R[q.id].there => R[q.id].secret # q.secret
  /\ q.op = "revoke" /\ q.out = "ok" => ~R[q.id].there
  /\ q.op \notin {"none", "read"} /\ q.out = "gone" /\ R[q.id].there => q.stage = "read" /\ R[q.id].key # q.saw
  /\ q.op = "read" /\ q.stage = "read" => P[q.key] \in {0, q.saw}
  /\ q.op = "read" /\ q.out = "gone" => P[q.key] = 0
AnswersSo == \A c \in Callers : So(calls[c], rows, pointers)

\* A record, with n links and m keys given out and the rows R: it names what has been given out, does
\* not run ahead of its link, and says another device publishes only of a link it has lost.
GoodRecord(r, n, m, R) ==
  /\ r \in Record /\ r.secret <= m /\ r.key <= m
  /\ r = NoRecord \/ r.id \in 1..n
  /\ r # NoRecord /\ R[r.id].there => r.revision <= R[r.id].revision
  /\ r # NoRecord /\ R[r.id].there /\ r.elsewhere => R[r.id].secret # r.secret
RecordsGood == \A d \in Devices : GoodRecord(records[d], links, mints, rows)

LinkInv == RowsInv /\ LinkTypeOK /\ CallKinds /\ KeysGivenOut /\ AnswersSo /\ RecordsGood

-----------------------------------------------------------------------------
(* Types.                                                                  *)

LEMMA Settled ==
  ASSUME setting \in Settings
  PROVE  Home \in [Tabs -> Devices] /\ setting \in Setting
  BY LinkAssumption DEF Home, Setting

LEMMA NoRecordType == NoRecord \in Record
  BY LookAssumption DEF NoRecord, Record, Looks

LEMMA NewTabType == NewTab \in Tab
  BY NoRecordType, LookAssumption, LinkAssumption DEF NewTab, Tab, Told

LEMMA AtMostType == ASSUME NEW n \in Nat, NEW m \in Nat PROVE AtMost(n, m) \in 0..m
  BY DEF AtMost

LEMMA RestingType == ASSUME NEW r PROVE Resting(r) \in Told
  BY DEF Resting, Told

LEMMA KickType == ASSUME NEW p \in Tab PROVE Kick(p) \in Tab /\ Kick(p).pending = p.pending
  BY DEF Kick, Tab

LEMMA RoundType == ASSUME NEW p \in Tab PROVE Round(p) \in Tab /\ Round(p).pending = p.pending
  BY DEF Round, Tab

LEMMA FailedType == ASSUME NEW p \in Tab PROVE Failed(p) \in Tab /\ Failed(p).pending = p.pending
<1> DEFINE n == AtMost(p.failures + 1, Tries)
           told == Waiting(p.channel)
           retry == p.retry \/ p.failures + 1 < Tries
<1>1. n \in 0..Tries
  <2>1. p.failures + 1 \in Nat /\ Tries \in Nat
    BY LinkAssumption DEF Tab
  <2> QED BY <2>1, AtMostType
<1>2. told \in Told
  BY DEF Waiting, Told
<1>3. retry \in BOOLEAN
  BY DEF Tab
<1>4. Failed(p) = [p EXCEPT !.failures = n, !.told = told, !.retry = retry]
  BY DEF Failed, Tab
<1> HIDE DEF n, told, retry
<1>5. [p EXCEPT !.failures = n] \in Tab /\ [p EXCEPT !.failures = n].pending = p.pending
  BY <1>1 DEF Tab
<1>6. ASSUME NEW t \in Tab PROVE [t EXCEPT !.told = told] \in Tab /\ [t EXCEPT !.told = told].pending = t.pending
  BY <1>2 DEF Tab
<1>7. ASSUME NEW t \in Tab PROVE [t EXCEPT !.retry = retry] \in Tab /\ [t EXCEPT !.retry = retry].pending = t.pending
  BY <1>3 DEF Tab
<1>8. Failed(p) = [[[p EXCEPT !.failures = n] EXCEPT !.told = told] EXCEPT !.retry = retry]
  BY <1>4
<1> QED BY <1>5, <1>6, <1>7, <1>8, Zenon

LEMMA AnsweredType ==
  ASSUME NEW p \in Tab, NEW q \in Call, NEW wrote \in BOOLEAN
  PROVE  Answered(p, q, wrote) \in Tab /\ Answered(p, q, wrote).pending = p.pending
<1>1. CASE q.out = "ok"
  <2>0. 0 \in 0..Tries /\ 0 \in 0..StaleRounds
    BY LinkAssumption
  <2> DEFINE s == [p EXCEPT !.failures = 0, !.stales = 0, !.owed = FALSE]
  <2>1. s \in Tab /\ s.pending = p.pending
    BY <2>0 DEF Tab
  <2>2. Answered(p, q, wrote) = IF wrote THEN [s EXCEPT !.told = "following"] ELSE [s EXCEPT !.again = TRUE]
    BY <1>1 DEF Answered
  <2> HIDE DEF s
  <2>3. \A told \in Told : [s EXCEPT !.told = told] \in Tab /\ [s EXCEPT !.told = told].pending = p.pending
    BY <2>1 DEF Tab
  <2>4. [s EXCEPT !.again = TRUE] \in Tab /\ [s EXCEPT !.again = TRUE].pending = p.pending
    BY <2>1 DEF Tab
  <2> QED BY <2>2, <2>3, <2>4 DEF Told
<1>2. CASE q.out = "stale"
  <2> DEFINE n == AtMost(p.stales + 1, StaleRounds)
             s == [p EXCEPT !.stales = n]
  <2>1. n \in 0..StaleRounds
    <3>1. p.stales + 1 \in Nat /\ StaleRounds \in Nat
      BY LinkAssumption DEF Tab
    <3> QED BY <3>1, AtMostType
  <2>2. s \in Tab /\ s.pending = p.pending
    <3> HIDE DEF n
    <3> QED BY <2>1 DEF Tab
  <2>3. /\ [s EXCEPT !.again = TRUE] \in Tab /\ [s EXCEPT !.again = TRUE].pending = p.pending
        /\ Failed(s) \in Tab /\ Failed(s).pending = p.pending
    <3> HIDE DEF s
    <3> QED BY <2>2, FailedType DEF Tab
  <2>4. s = [p EXCEPT !.stales = AtMost(@ + 1, StaleRounds)]
    BY DEF Tab
  <2>5. Answered(p, q, wrote) \in {[s EXCEPT !.again = TRUE], Failed(s)}
    BY <1>2, <2>4 DEF Answered
  <2> QED BY <2>3, <2>5
<1>3. CASE q.out = "not-publisher"
  BY <1>3 DEF Answered, Tab, Told
<1>4. CASE q.out = "gone"
  BY <1>4 DEF Answered, Tab, Told
<1>5. CASE q.out = "limited"
  BY <1>5 DEF Answered, Tab, Told, Waiting
<1>6. CASE q.out \notin {"ok", "stale", "not-publisher", "gone", "limited"}
  BY <1>6, FailedType DEF Answered
<1> QED BY <1>1, <1>2, <1>3, <1>4, <1>5, <1>6

LEMMA ActedOnType ==
  ASSUME NEW p \in Tab, NEW q \in Call, q.op \in {"create", "transfer", "relink", "revoke"}, NEW forgot \in BOOLEAN
  PROVE  ActedOn(p, q, forgot) \in Tab /\ ActedOn(p, q, forgot).pending = p.pending
<1> DEFINE Same(r) == r \in Tab /\ r.pending = p.pending
           made == [p EXCEPT !.checked = q.key, !.owed = TRUE, !.told = "not-published"]
           told == Resting(p.channel)
           moved == [p EXCEPT !.checked = 0, !.owed = TRUE, !.failures = 0, !.stales = 0, !.told = told]
           relinked == [p EXCEPT !.checked = q.key, !.told = told]
           none == [p EXCEPT !.told = "none"]
           gone == [p EXCEPT !.told = "gone"]
<1>1. 0 \in 0..Tries /\ 0 \in 0..StaleRounds /\ 0 \in 0..MaxMints /\ q.key \in 0..MaxMints
  BY LookAssumption, LinkAssumption DEF Call
<1>2. Same(made) /\ Same(none) /\ Same(gone)
  BY <1>1 DEF Tab, Told
<1>3. Same(moved) /\ Same(relinked)
  <2>1. told \in Told
    BY RestingType
  <2> HIDE DEF told
  <2> QED BY <1>1, <2>1 DEF Tab
<1>4. Same(Kick(made)) /\ Same(Kick(moved))
  <2> HIDE DEF made, moved
  <2> QED BY <1>2, <1>3, KickType
<1>5. ActedOn(p, q, forgot) \in {p, none, gone, Kick(made), Kick(moved), relinked}
  BY DEF ActedOn
<1> HIDE DEF made, moved, relinked, none, gone
<1> QED BY <1>2, <1>3, <1>4, <1>5

-----------------------------------------------------------------------------
(* What a step of the server does to a request.                            *)

\* The rows and pointers, as they may change: what is gone, replaced or passed is so for good.
Grown ==
  /\ links <= links' /\ mints <= mints' /\ links' \in Nat /\ mints' \in Nat
  /\ \A i \in 1..links : rows'[i].there =>
       /\ rows[i].there /\ rows[i].revision <= rows'[i].revision
       /\ rows'[i].secret = rows[i].secret \/ rows'[i].secret > mints
       /\ rows'[i].key = rows[i].key \/ rows'[i].key > mints
  /\ \A k \in 1..mints : pointers'[k] \in {0, pointers[k]}

\* A request b has been served: others are as they were.
Served(b, q) ==
  /\ calls' \in [Callers -> Call] /\ calls' = [calls EXCEPT ![b] = q]
  /\ q \in Call /\ q.op = calls[b].op /\ q.op # "none"
  /\ q.op = "read" => q.key = calls[b].key
  /\ q.secret <= mints' /\ q.key <= mints'
  /\ q.op # "create" => q.id = calls[b].id

LEMMA SameGrown == ASSUME RowsInv, UNCHANGED look PROVE Grown
<1>1. rows \in [Links -> Row] /\ links \in 0..MaxLinks /\ mints \in 0..MaxMints /\ 1..links \subseteq Links
  BY LookAssumption DEF RowsInv, TypeOK, Links
<1>2. \A i \in 1..links : rows[i].revision \in Nat
  BY <1>1 DEF Row
<1> QED BY <1>1, <1>2, LookAssumption DEF Grown, look

LEMMA CreateGrown == ASSUME RowsInv, NEW b \in Callers, Create(b), ~UNCHANGED look PROVE Grown
<1>1. rows \in [Links -> Row] /\ links \in 0..MaxLinks /\ mints \in 0..MaxMints /\ 1..links \subseteq Links /\ 1..mints \subseteq Mints
  BY LookAssumption DEF RowsInv, TypeOK, Links, Mints
<1>2. \A i \in 1..links : rows[i].revision \in Nat
  BY <1>1 DEF Row
<1>3. /\ links' = links + 1 /\ mints' = mints + 1
      /\ \A i \in 1..links : rows'[i] = rows[i]
      /\ \A k \in 1..mints : pointers'[k] = pointers[k]
  BY <1>1 DEF Create, RowsInv, TypeOK
<1> QED BY <1>1, <1>2, <1>3, LookAssumption DEF Grown

\* The rows change in one row that was there, and no pointer but one that is emptied and one that is new.
LEMMA RowGrown ==
  ASSUME RowsInv, NEW i \in Links, NEW row \in Row, rows' = [rows EXCEPT ![i] = row], links' = links,
         mints' \in {mints, mints + 1},
         row.there => rows[i].there /\ rows[i].revision <= row.revision
                      /\ row.secret \in {rows[i].secret, mints + 1} /\ row.key \in {rows[i].key, mints + 1},
         \A k \in 1..mints : pointers'[k] \in {0, pointers[k]}
  PROVE  Grown
<1>1. rows \in [Links -> Row] /\ links \in 0..MaxLinks /\ mints \in 0..MaxMints /\ 1..links \subseteq Links
  BY LookAssumption DEF RowsInv, TypeOK, Links
<1>2. \A j \in 1..links : rows[j].revision \in Nat
  BY <1>1 DEF Row
<1>3. \A j \in 1..links : rows'[j] = IF j = i THEN row ELSE rows[j]
  BY <1>1
<1>4. links' \in Nat /\ mints' \in Nat /\ mints <= mints' /\ mints + 1 > mints
  BY <1>1, LookAssumption
<1> QED BY <1>1, <1>2, <1>3, <1>4 DEF Grown

LEMMA TransferGrown == ASSUME RowsInv, NEW b \in Callers, Transfer(b), ~UNCHANGED look PROVE Grown
<1> DEFINE i == calls[b].id
           k == mints + 1
           row == [rows[i] EXCEPT !.secret = k]
<1>1. i \in Links /\ rows[i] \in Row /\ mints \in 0..MaxMints /\ MaxMints \in Nat
  BY Arrived DEF Transfer, Named
<1>2. /\ mints < MaxMints /\ mints' = k /\ links' = links /\ rows[i].there
      /\ rows' = [rows EXCEPT ![i] = row] /\ pointers' = pointers
  BY DEF Transfer, look
<1>3. k \in 0..MaxMints
  BY <1>1, <1>2
<1>4. row \in Row /\ row.revision = rows[i].revision /\ row.secret = k /\ row.key = rows[i].key
  <2> HIDE DEF k
  <2> QED BY <1>1, <1>3 DEF Row
<1>5. rows[i].revision <= rows[i].revision
  BY <1>1 DEF Row
<1> HIDE DEF row, i
<1> QED BY <1>1, <1>2, <1>4, <1>5, RowGrown

LEMMA RelinkGrown == ASSUME RowsInv, NEW b \in Callers, Relink(b), ~UNCHANGED look PROVE Grown
<1> DEFINE i == calls[b].id
           k == mints + 1
           row == [rows[i] EXCEPT !.key = k]
<1>1. i \in Links /\ rows[i] \in Row /\ mints \in 0..MaxMints /\ MaxMints \in Nat
  BY Arrived DEF Relink, Named
<1>2. /\ mints < MaxMints /\ mints' = k /\ links' = links /\ rows[i].there
      /\ rows' = [rows EXCEPT ![i] = row] /\ pointers' = [pointers EXCEPT ![calls[b].saw] = 0, ![k] = i]
  BY DEF Relink, look, StillHolds
<1>3. k \in 0..MaxMints
  BY <1>1, <1>2
<1>4. row \in Row /\ row.revision = rows[i].revision /\ row.secret = rows[i].secret /\ row.key = k
  <2> HIDE DEF k
  <2> QED BY <1>1, <1>3 DEF Row
<1>5. rows[i].revision <= rows[i].revision
  BY <1>1 DEF Row
<1>6. \A m \in 1..mints : pointers'[m] \in {0, pointers[m]}
  <2>1. \A m \in 1..mints : m \in Mints /\ m # k
    BY <1>1 DEF Mints
  <2> HIDE DEF k, row
  <2> QED BY <1>2, <2>1 DEF RowsInv, TypeOK
<1> HIDE DEF row, i
<1> QED BY <1>1, <1>2, <1>4, <1>5, <1>6, RowGrown

LEMMA RevokeGrown == ASSUME RowsInv, NEW b \in Callers, Revoke(b), ~UNCHANGED look PROVE Grown
<1> DEFINE i == calls[b].id
<1>1. i \in Links /\ mints \in 0..MaxMints /\ 1..mints \subseteq Mints
  BY Arrived, LookAssumption DEF Revoke, Named, Mints
<1>2. /\ mints' = mints /\ links' = links /\ rows' = [rows EXCEPT ![i] = NoRow]
      /\ pointers' = [pointers EXCEPT ![calls[b].saw] = 0]
  BY DEF Revoke, look
<1>3. ~NoRow.there /\ NoRow \in Row
  BY EmptyTypes DEF NoRow
<1>4. \A m \in 1..mints : pointers'[m] \in {0, pointers[m]}
  BY <1>1, <1>2 DEF RowsInv, TypeOK
<1> HIDE DEF i
<1> QED BY <1>1, <1>2, <1>3, <1>4, RowGrown

LEMMA PublishGrown == ASSUME RowsInv, NEW b \in Callers, Publish(b), ~UNCHANGED look PROVE Grown
<1> DEFINE q == calls[b]
           i == q.id
           next == q.base + 1
           row == [rows[i] EXCEPT !.revision = next, !.look = q.look]
<1>1. i \in Links /\ rows[i] \in Row /\ q \in Call
  BY Arrived DEF Publish, Named
<1>2. /\ rows[i].there /\ rows[i].revision = q.base /\ rows' = [rows EXCEPT ![i] = row]
      /\ UNCHANGED <<pointers, links, mints>>
  BY DEF Publish, look
<1>3. next \in Nat /\ rows[i].revision <= next /\ q.look \in Looks
  BY <1>1, <1>2 DEF Call
<1>4. row \in Row /\ row.revision = next /\ row.secret = rows[i].secret /\ row.key = rows[i].key
  <2> HIDE DEF next, i, q
  <2> QED BY <1>1, <1>3 DEF Row
<1> HIDE DEF row, i, next
<1> QED BY <1>1, <1>2, <1>3, <1>4, RowGrown

LEMMA ServerGrown == ASSUME RowsInv, NEW b \in Callers, Serve(b) \/ Trouble(b) PROVE Grown
<1>1. CASE UNCHANGED look
  BY <1>1, SameGrown
<1>2. CASE ~UNCHANGED look
  BY <1>2, CreateGrown, TransferGrown, RelinkGrown, RevokeGrown, PublishGrown DEF Serve, CreateRead, TransferRead,
     RelinkRead, ReadBack, ReadKey, PublishWhy, ReadPointer, ReadRow, Trouble, Drop, LoseAnswer, Limit, Faulty
<1> QED BY <1>1, <1>2

-----------------------------------------------------------------------------
(* What an answer says is so, and stays so.                                *)

LEMMA SoStays ==
  ASSUME RowsInv, RowsInv', Grown, NEW q \in Call, Named(q, links, mints), q.secret <= mints, So(q, rows, pointers)
  PROVE  So(q, rows', pointers')
<1>0. \A i \in 1..links : rows'[i].revision \in Nat
  BY LookAssumption DEF RowsInv, TypeOK, Links, Row
<1>1. rows \in [Links -> Row] /\ links \in 0..MaxLinks /\ mints \in 0..MaxMints /\ MaxLinks \in Nat /\ MaxMints \in Nat
  BY LookAssumption DEF RowsInv, TypeOK
<1>2. CASE q.op = "publish"
  <2>1. q.id \in 1..links /\ rows[q.id].revision \in Nat /\ q.base \in Nat /\ q.revision \in Nat /\ q.secret \in Nat
    BY <1>1, <1>2 DEF Named, Call, Row, Links
  <2>2. rows'[q.id].there => /\ rows[q.id].there /\ rows[q.id].revision <= rows'[q.id].revision
                             /\ rows'[q.id].secret = rows[q.id].secret \/ rows'[q.id].secret > mints
    BY <2>1 DEF Grown
  <2>3. rows'[q.id].secret > mints => rows'[q.id].secret # q.secret
    BY <1>1, <2>1
  <2>4. rows'[q.id].revision \in Nat
    BY <1>0, <2>1
  <2> DEFINE asked == q.out = ""
             told == q.out \in {"ok", "stale"}
  <2>0. rows[q.id].there => (asked => q.base <= rows[q.id].revision) /\ (told => q.revision <= rows[q.id].revision)
    BY <1>2 DEF So
  <2>5. rows'[q.id].there /\ asked => q.base <= rows'[q.id].revision
    <3> HIDE DEF asked, told
    <3> QED BY <2>1, <2>2, <2>4, <2>0
  <2>6. rows'[q.id].there /\ told => q.revision <= rows'[q.id].revision
    <3> HIDE DEF asked, told
    <3> QED BY <2>1, <2>2, <2>4, <2>0
  <2> QED BY <1>2, <2>2, <2>3, <2>5, <2>6 DEF So
<1>3. CASE q.op = "transfer"
  <2>1. q.id \in 1..links /\ rows[q.id].revision \in Nat /\ q.revision \in Nat
    BY <1>1, <1>3 DEF Named, Call, Row, Links
  <2>2. rows'[q.id].there => rows[q.id].there /\ rows[q.id].revision <= rows'[q.id].revision
    BY <2>1 DEF Grown
  <2>3. rows'[q.id].revision \in Nat
    BY <1>0, <2>1
  <2>4. rows'[q.id].there => (q.out \in {"ok", "stale"} => q.revision <= rows'[q.id].revision)
    BY <1>3, <2>1, <2>2, <2>3 DEF So
  <2> QED BY <1>3, <2>2, <2>4 DEF So
<1>4. CASE q.op \in {"relink", "revoke"}
  <2>1. q.id \in 1..links /\ (q.stage = "read" => q.saw \in 1..mints)
    BY <1>4 DEF Named
  <2>2. q.stage = "read" /\ rows'[q.id].key > mints => rows'[q.id].key # q.saw
    BY <1>1, <2>1
  <2> QED BY <1>4, <2>1, <2>2 DEF So, Grown
<1>5. CASE q.op = "read"
  <2>1. q.key \in 1..mints
    BY <1>5 DEF Named
  <2> QED BY <1>5, <2>1 DEF So, Grown
<1>6. CASE q.op \in {"none", "create"}
  BY <1>6 DEF So
<1> QED BY <1>2, <1>3, <1>4, <1>5, <1>6 DEF Call, Ops

\* A step of the server at b makes of its request q.
Serves(b, q) == Served(b, q) /\ So(q, rows', pointers')

\* What is known of a request that is served.
Ready(b) ==
  /\ RowsInv /\ RowsInv' /\ Grown /\ So(calls[b], rows, pointers)
  /\ calls[b].secret <= mints /\ calls[b].key <= mints /\ calls[b].op # "none"

LEMMA ReadyTypes ==
  ASSUME NEW b \in Callers, Ready(b)
  PROVE  /\ calls[b] \in Call /\ Named(calls[b], links, mints)
         /\ So(calls[b], rows', pointers')
         /\ links \in 0..MaxLinks /\ mints \in 0..MaxMints /\ MaxLinks \in Nat /\ MaxMints \in Nat
         /\ links' \in Nat /\ mints' \in Nat /\ mints <= mints' /\ calls' \in [Callers -> Call]
         /\ calls[b].secret <= mints' /\ calls[b].key <= mints'
<1>1. /\ calls[b] \in Call /\ Named(calls[b], links, mints) /\ calls' \in [Callers -> Call]
      /\ links \in 0..MaxLinks /\ mints \in 0..MaxMints /\ MaxLinks \in Nat /\ MaxMints \in Nat
  BY LookAssumption DEF Ready, RowsInv, TypeOK, NamesGivenOut
<1>2. So(calls[b], rows', pointers')
  BY <1>1, SoStays DEF Ready
<1>3. calls[b].secret \in Nat /\ calls[b].key \in Nat
  BY <1>1 DEF Call
<1>4. links' \in Nat /\ mints' \in Nat /\ mints <= mints'
  BY DEF Ready, Grown
<1>5. calls[b].secret <= mints /\ calls[b].key <= mints
  BY DEF Ready
<1>6. calls[b].secret <= mints' /\ calls[b].key <= mints'
  BY <1>1, <1>3, <1>4, <1>5
<1> QED BY <1>1, <1>2, <1>4, <1>6

\* A request whose answer alone is changed.
LEMMA AnswerServes ==
  ASSUME NEW b \in Callers, Ready(b), NEW out \in Outs, Answer(b, out),
         So([calls[b] EXCEPT !.out = out], rows', pointers')
  PROVE  \E q \in Call : Serves(b, q)
<1> DEFINE q == [calls[b] EXCEPT !.out = out]
<1>1. calls[b] \in Call /\ mints \in Nat /\ mints' \in Nat /\ mints <= mints' /\ calls' \in [Callers -> Call]
  BY ReadyTypes
<1>2. q \in Call /\ q.op = calls[b].op /\ q.key = calls[b].key /\ q.secret = calls[b].secret /\ q.id = calls[b].id
  BY <1>1 DEF Call
<1>3. calls' = [calls EXCEPT ![b] = q]
  BY DEF Answer, Now
<1>4. So(q, rows', pointers')
  OBVIOUS
<1> HIDE DEF q
<1>6. q.secret <= mints' /\ q.key <= mints'
  BY <1>2, ReadyTypes
<1>7. Served(b, q)
  BY <1>1, <1>2, <1>3, <1>6 DEF Ready, Served
<1> QED BY <1>2, <1>4, <1>7 DEF Serves

LEMMA TroubleServes == ASSUME NEW b \in Callers, Ready(b), Trouble(b) PROVE \E q \in Call : Serves(b, q)
<1>1. So(calls[b], rows', pointers') /\ calls[b] \in Call
  BY ReadyTypes
<1>2. ASSUME NEW out \in {"error", "limited"}, Answer(b, out) PROVE \E q \in Call : Serves(b, q)
  <2> DEFINE q == [calls[b] EXCEPT !.out = out]
  <2>1. /\ q.out = out /\ q.op = calls[b].op /\ q.stage = calls[b].stage /\ q.id = calls[b].id /\ q.saw = calls[b].saw
        /\ q.key = calls[b].key /\ q.secret = calls[b].secret /\ q.look = calls[b].look
    BY <1>1 DEF Call
  <2> HIDE DEF q
  <2>2. So(q, rows', pointers')
    BY <1>1, <2>1 DEF Ready, So
  <2>3. out \in Outs
    BY DEF Outs
  <2> QED BY <1>2, <2>2, <2>3, AnswerServes DEF q
<1> QED BY <1>2 DEF Trouble, Drop, LoseAnswer, Limit, Faulty

LEMMA RevokeServes == ASSUME NEW b \in Callers, Ready(b), Revoke(b) PROVE \E q \in Call : Serves(b, q)
<1> DEFINE q(out) == [calls[b] EXCEPT !.out = out]
<1>1. calls[b] \in Call /\ Named(calls[b], links, mints) /\ calls[b].id \in Links /\ calls[b].op = "revoke" /\ calls[b].stage = "read"
  BY Arrived DEF Revoke, Named, Ready
<1>2. ASSUME NEW out PROVE /\ q(out).out = out /\ q(out).op = "revoke" /\ q(out).stage = "read"
                           /\ q(out).id = calls[b].id /\ q(out).saw = calls[b].saw
  BY <1>1 DEF Call
<1>3. CASE ~StillHolds(b)
  <2>1. Answer(b, "gone") /\ UNCHANGED look
    BY <1>3 DEF Revoke
  <2>2. ~(rows'[calls[b].id].there /\ rows'[calls[b].id].key = calls[b].saw)
    BY <1>3, <2>1 DEF StillHolds, look
  <2>3. So(q("gone"), rows', pointers')
    BY <1>2, <2>2 DEF So
  <2> QED BY <2>1, <2>3, AnswerServes DEF Outs
<1>4. CASE StillHolds(b)
  <2>1. Answer(b, "ok") /\ rows' = [rows EXCEPT ![calls[b].id] = NoRow]
    BY <1>4 DEF Revoke
  <2>2. ~rows'[calls[b].id].there
    BY <1>1, <2>1 DEF Ready, RowsInv, TypeOK, NoRow
  <2>3. So(q("ok"), rows', pointers')
    BY <1>2, <2>2 DEF So
  <2> QED BY <2>1, <2>3, AnswerServes DEF Outs
<1> QED BY <1>3, <1>4

LEMMA NowServes ==
  ASSUME NEW b \in Callers, Ready(b), NEW q \in Call, Now(b, q), q.op = calls[b].op,
         q.secret <= mints', q.key <= mints', q.op = "read" => q.key = calls[b].key,
         q.op # "create" => q.id = calls[b].id, So(q, rows', pointers')
  PROVE  \E p \in Call : Serves(b, p)
<1>1. calls' \in [Callers -> Call]
  BY ReadyTypes
<1> QED BY <1>1 DEF Serves, Served, Now, Ready

LEMMA CreateServes == ASSUME NEW b \in Callers, Ready(b), Create(b) PROVE \E q \in Call : Serves(b, q)
<1>1. CASE live >= Cap /\ Answer(b, "full")
  <2> DEFINE q == [calls[b] EXCEPT !.out = "full"]
  <2>1. calls[b] \in Call /\ calls[b].op = "create" /\ calls[b].stage = "asked"
    BY Arrived DEF Create, Ready
  <2>2. q.op = "create" /\ q.stage = "asked" /\ q.out = "full"
    BY <2>1 DEF Call
  <2> HIDE DEF q
  <2>3. So(q, rows', pointers') /\ "full" \in Outs
    BY <2>2 DEF So, Outs
  <2> QED BY <1>1, <2>3, AnswerServes DEF q
<1>2. CASE ~(live >= Cap /\ Answer(b, "full"))
  <2> DEFINE i == links + 1
             k == mints + 1
             q == [calls[b] EXCEPT !.stage = "wrote", !.id = i, !.key = k, !.secret = k]
  <2>1. calls[b] \in Call /\ calls[b].op = "create" /\ calls[b].stage = "asked" /\ calls[b].out = ""
    BY Arrived DEF Create, Ready, At
  <2>2. Now(b, q) /\ mints' = k /\ links < MaxLinks /\ mints < MaxMints
    BY <1>2 DEF Create
  <2>3. i \in 0..MaxLinks /\ k \in 0..MaxMints /\ k # 0 /\ k <= k /\ "wrote" \in Stages
    BY <2>2, ReadyTypes DEF Stages
  <2> HIDE DEF i, k
  <2>4. /\ q \in Call /\ q.op = "create" /\ q.stage = "wrote" /\ q.out = "" /\ q.key = k /\ q.secret = k
    BY <2>1, <2>3 DEF Call
  <2> HIDE DEF q
  <2>5. So(q, rows', pointers')
    BY <2>3, <2>4 DEF So
  <2> QED BY <2>1, <2>2, <2>3, <2>4, <2>5, NowServes
<1> QED BY <1>1, <1>2

LEMMA ReadBackServes ==
  ASSUME NEW b \in Callers, Ready(b), NEW without \in {"error", "gone"}, ReadBack(b, without),
         NEW op \in {"create", "transfer", "relink"}, At(b, op, "wrote"), op = "create" => without # "gone"
  PROVE  \E q \in Call : Serves(b, q)
<1> DEFINE row == rows[calls[b].id]
           out == IF row.there THEN "ok" ELSE without
           q == [calls[b] EXCEPT !.out = out, !.revision = row.revision]
<1>1. calls[b] \in Call /\ Named(calls[b], links, mints) /\ calls[b].id \in Links /\ row \in Row
  <2>1. calls[b].stage = "wrote"
    BY DEF At
  <2> QED BY <2>1, Arrived DEF Ready, Named
<1>2. Now(b, q) /\ UNCHANGED look
  BY DEF ReadBack
<1>3. row.revision \in Nat /\ out \in Outs /\ row.there \in BOOLEAN
  BY <1>1 DEF Row, Outs
<1>4. row.revision <= row.revision
  BY <1>3
<1>5. rows' = rows /\ pointers' = pointers /\ mints' = mints
  BY <1>2 DEF look
<1>6. out = "ok" \/ (out = without /\ ~row.there)
  OBVIOUS
<1>7. out = "gone" => ~row.there /\ calls[b].op # "create"
  BY <1>6 DEF At
<1> HIDE DEF out, row
<1>8. /\ q \in Call /\ q.op = calls[b].op /\ q.stage = "wrote" /\ q.out = out /\ q.revision = row.revision
      /\ q.id = calls[b].id /\ q.key = calls[b].key /\ q.secret = calls[b].secret
  BY <1>1, <1>3 DEF At, Call
<1> HIDE DEF q
<1>9. So(q, rows', pointers')
  <2>1. q.op = "create" => q.secret # 0 /\ q.key # 0
    BY <1>8 DEF Ready, At, So
  <2>2. q.op = "relink" => q.key # 0
    BY <1>8 DEF Ready, At, So
  <2>3. rows'[q.id] = row
    BY <1>5, <1>8 DEF row
  <2>4. q.op \notin {"publish", "revoke", "read", "none"} /\ q.out # "not-publisher"
    BY <1>6, <1>8 DEF At
  <2> QED BY <1>4, <1>7, <1>8, <2>1, <2>2, <2>3, <2>4 DEF So
<1>10. q.op # "read" /\ q.secret <= mints' /\ q.key <= mints'
  BY <1>8, ReadyTypes DEF At
<1> QED BY <1>2, <1>8, <1>9, <1>10, NowServes

LEMMA TransferServes == ASSUME NEW b \in Callers, Ready(b), Transfer(b) PROVE \E q \in Call : Serves(b, q)
<1>1. /\ calls[b] \in Call /\ calls[b].op = "transfer" /\ calls[b].stage = "asked" /\ calls[b].out = ""
      /\ calls[b].id \in Links
  BY Arrived DEF Transfer, Ready, At, Named
<1>2. CASE ~rows[calls[b].id].there
  <2> DEFINE q == [calls[b] EXCEPT !.out = "gone"]
  <2>1. Answer(b, "gone") /\ UNCHANGED look
    BY <1>2 DEF Transfer
  <2>2. q.op = "transfer" /\ q.stage = "asked" /\ q.out = "gone" /\ q.id = calls[b].id
    BY <1>1 DEF Call
  <2> HIDE DEF q
  <2>3. So(q, rows', pointers') /\ "gone" \in Outs
    BY <1>2, <2>1, <2>2 DEF So, Outs, look
  <2> QED BY <2>1, <2>3, AnswerServes DEF q
<1>3. CASE rows[calls[b].id].there
  <2> DEFINE k == mints + 1
             q == [calls[b] EXCEPT !.stage = "wrote", !.secret = k]
  <2>1. Now(b, q) /\ mints' = k /\ mints < MaxMints
    BY <1>3 DEF Transfer
  <2>2. k \in 0..MaxMints /\ k <= k /\ "wrote" \in Stages /\ mints <= mints' /\ mints \in Nat /\ mints' \in Nat
    BY <2>1, ReadyTypes DEF Stages
  <2> HIDE DEF k
  <2>3. /\ q \in Call /\ q.op = "transfer" /\ q.stage = "wrote" /\ q.out = "" /\ q.key = calls[b].key /\ q.secret = k
        /\ q.id = calls[b].id
    BY <1>1, <2>2 DEF Call
  <2> HIDE DEF q
  <2>4. So(q, rows', pointers')
    BY <2>3 DEF So
  <2>6. q.key <= mints'
    BY <2>3, ReadyTypes
  <2> QED BY <1>1, <2>1, <2>2, <2>3, <2>4, <2>6, NowServes
<1> QED BY <1>2, <1>3

LEMMA ReadKeyServes == ASSUME NEW b \in Callers, Ready(b), ReadKey(b) PROVE \E q \in Call : Serves(b, q)
<1> DEFINE row == rows[calls[b].id]
           q == IF row.there THEN [calls[b] EXCEPT !.stage = "read", !.saw = row.key]
                             ELSE [calls[b] EXCEPT !.out = "gone"]
<1>1. /\ calls[b] \in Call /\ calls[b].op \in {"relink", "revoke"} /\ calls[b].stage = "asked" /\ calls[b].out = ""
      /\ calls[b].id \in Links /\ row \in Row
  BY Arrived DEF ReadKey, Ready, At, Named
<1>2. row.key \in 0..(MaxLinks + MaxMints)
  <2>1. row.key \in 0..MaxMints
    BY <1>1 DEF Row
  <2> HIDE DEF row
  <2> QED BY <2>1, LookAssumption
<1>3. Now(b, q) /\ UNCHANGED look
  BY DEF ReadKey
<1>4. "read" \in Stages /\ "gone" \in Outs
  BY DEF Stages, Outs
<1>5. q \in Call
  <2> HIDE DEF row
  <2> QED BY <1>1, <1>2, <1>4 DEF Call
<1>6. /\ q.op = calls[b].op /\ q.id = calls[b].id /\ q.key = calls[b].key /\ q.secret = calls[b].secret
      /\ q.stage \in {"asked", "read"} /\ q.out = (IF row.there THEN "" ELSE "gone")
  <2> HIDE DEF row
  <2> QED BY <1>1 DEF Call
<1> HIDE DEF q
<1>7. So(q, rows', pointers')
  BY <1>1, <1>3, <1>6 DEF So, look
<1>8. q.secret <= mints' /\ q.key <= mints'
  BY <1>6, ReadyTypes
<1>9. q.op # "read"
  BY <1>1, <1>6
<1> QED BY <1>3, <1>5, <1>6, <1>7, <1>8, <1>9, NowServes

LEMMA RelinkServes == ASSUME NEW b \in Callers, Ready(b), Relink(b) PROVE \E q \in Call : Serves(b, q)
<1>1. /\ calls[b] \in Call /\ calls[b].op = "relink" /\ calls[b].stage = "read" /\ calls[b].out = ""
      /\ calls[b].id \in Links
  BY Arrived DEF Relink, Ready, At, Named
<1>2. CASE ~StillHolds(b)
  <2> DEFINE q == [calls[b] EXCEPT !.out = "gone"]
  <2>1. Answer(b, "gone") /\ UNCHANGED look
    BY <1>2 DEF Relink
  <2>2. q.op = "relink" /\ q.stage = "read" /\ q.out = "gone" /\ q.id = calls[b].id /\ q.saw = calls[b].saw
    BY <1>1 DEF Call
  <2> HIDE DEF q
  <2>3. So(q, rows', pointers') /\ "gone" \in Outs
    BY <1>2, <2>1, <2>2 DEF So, Outs, look, StillHolds
  <2> QED BY <2>1, <2>3, AnswerServes DEF q
<1>3. CASE StillHolds(b)
  <2> DEFINE k == mints + 1
             q == [calls[b] EXCEPT !.stage = "wrote", !.key = k]
  <2>1. Now(b, q) /\ mints' = k /\ mints < MaxMints
    BY <1>3 DEF Relink
  <2>2. k \in 0..MaxMints /\ k # 0 /\ k <= k /\ "wrote" \in Stages
    BY <2>1, ReadyTypes DEF Stages
  <2> HIDE DEF k
  <2>3. /\ q \in Call /\ q.op = "relink" /\ q.stage = "wrote" /\ q.out = "" /\ q.key = k /\ q.secret = calls[b].secret
        /\ q.id = calls[b].id
    BY <1>1, <2>2 DEF Call
  <2> HIDE DEF q
  <2>4. So(q, rows', pointers')
    BY <2>2, <2>3 DEF So
  <2>5. q.secret <= mints'
    BY <2>3, ReadyTypes
  <2> QED BY <1>1, <2>1, <2>2, <2>3, <2>4, <2>5, NowServes
<1> QED BY <1>2, <1>3

LEMMA PublishServes == ASSUME NEW b \in Callers, Ready(b), Publish(b) PROVE \E q \in Call : Serves(b, q)
<1> DEFINE q == calls[b]
           i == q.id
           row == rows[i]
           next == q.base + 1
           yes == [q EXCEPT !.out = "ok", !.revision = next]
           no == [q EXCEPT !.stage = "refused"]
           new == [row EXCEPT !.revision = next, !.look = q.look]
<1>1. /\ q \in Call /\ q.op = "publish" /\ q.stage = "asked" /\ q.out = "" /\ i \in Links /\ row \in Row
      /\ q.look # 0 /\ next \in Nat /\ next <= next
  <2>1. q \in Call /\ q.op = "publish" /\ q.stage = "asked" /\ q.out = "" /\ i \in Links /\ row \in Row
    BY Arrived DEF Publish, Ready, At, Named
  <2>2. q.base \in Nat
    BY <2>1 DEF Call
  <2>3. q.look # 0
    BY <2>1 DEF Ready, So
  <2>4. next \in Nat /\ next <= next
    <3> HIDE DEF q
    <3> QED BY <2>2
  <2> HIDE DEF next
  <2> QED BY <2>1, <2>3, <2>4
<1>2. q.secret <= mints' /\ q.key <= mints'
  BY ReadyTypes
<1>3. CASE rows' = [rows EXCEPT ![i] = new] /\ Now(b, yes)
  <2>1. new.revision = next
    BY <1>1 DEF Row
  <2>2. rows'[i].revision = next
    BY <1>1, <1>3, <2>1 DEF Ready, RowsInv, TypeOK
  <2> HIDE DEF next, i, new
  <2>3. /\ yes \in Call /\ yes.op = "publish" /\ yes.stage = "asked" /\ yes.out = "ok" /\ yes.revision = next
        /\ yes.key = q.key /\ yes.secret = q.secret /\ yes.look = q.look /\ yes.id = q.id
    BY <1>1 DEF Call, Outs
  <2> HIDE DEF yes
  <2>4. So(yes, rows', pointers')
    BY <1>1, <2>2, <2>3 DEF So, i
  <2> HIDE DEF q
  <2> QED BY <1>1, <1>2, <1>3, <2>3, <2>4, NowServes DEF q
<1>4. CASE Now(b, no) /\ UNCHANGED rows
  <2>1. So(q, rows', pointers')
    BY ReadyTypes
  <2>2. /\ no \in Call /\ no.op = "publish" /\ no.stage = "refused" /\ no.out = "" /\ no.base = q.base
        /\ no.key = q.key /\ no.secret = q.secret /\ no.look = q.look /\ no.id = q.id
    BY <1>1 DEF Call, Stages
  <2> HIDE DEF no
  <2>3. So(no, rows', pointers')
    BY <1>1, <2>1, <2>2 DEF So
  <2> QED BY <1>1, <1>2, <1>4, <2>2, <2>3, NowServes
<1> QED BY <1>3, <1>4 DEF Publish

LEMMA PublishWhyServes == ASSUME NEW b \in Callers, Ready(b), PublishWhy(b) PROVE \E q \in Call : Serves(b, q)
<1> DEFINE row == rows[calls[b].id]
           out == IF ~row.there THEN "gone" ELSE IF row.secret # calls[b].secret THEN "not-publisher" ELSE "stale"
           q == [calls[b] EXCEPT !.revision = row.revision, !.out = out]
<1>1. /\ calls[b] \in Call /\ calls[b].op = "publish" /\ calls[b].stage = "refused" /\ row \in Row
      /\ calls[b].look # 0
  <2>1. calls[b] \in Call /\ calls[b].op = "publish" /\ calls[b].stage = "refused" /\ row \in Row
    BY Arrived DEF PublishWhy, Ready, Named
  <2> QED BY <2>1 DEF Ready, So
<1>2. Now(b, q) /\ UNCHANGED look
  BY DEF PublishWhy
<1>3. out \in Outs /\ row.revision \in Nat /\ row.revision <= row.revision
  BY <1>1 DEF Outs, Row
<1>4. /\ out \in {"gone", "not-publisher", "stale"} /\ (out = "gone" => ~row.there)
      /\ (out = "not-publisher" => row.secret # calls[b].secret)
  OBVIOUS
<1> HIDE DEF out, row
<1>5. /\ q \in Call /\ q.op = "publish" /\ q.stage = "refused" /\ q.out = out /\ q.revision = row.revision
      /\ q.key = calls[b].key /\ q.secret = calls[b].secret /\ q.look = calls[b].look /\ q.id = calls[b].id
  BY <1>1, <1>3 DEF Call
<1> HIDE DEF q
<1>6. rows'[q.id] = row
  BY <1>2, <1>5 DEF row, look
<1>7. So(q, rows', pointers')
  BY <1>1, <1>3, <1>4, <1>5, <1>6 DEF So
<1>8. q.secret <= mints' /\ q.key <= mints'
  BY <1>5, ReadyTypes
<1> QED BY <1>1, <1>2, <1>5, <1>7, <1>8, NowServes

LEMMA ReadPointerServes == ASSUME NEW b \in Callers, Ready(b), ReadPointer(b) PROVE \E q \in Call : Serves(b, q)
<1> DEFINE i == pointers[calls[b].key]
           q == IF i = 0 THEN [calls[b] EXCEPT !.out = "gone"] ELSE [calls[b] EXCEPT !.stage = "read", !.saw = i]
<1>1. /\ calls[b] \in Call /\ calls[b].op = "read" /\ calls[b].stage = "asked" /\ calls[b].out = ""
      /\ calls[b].key \in 1..mints
  BY Arrived DEF ReadPointer, Ready, Named, At
<1>2. calls[b].key \in Mints
  <2>1. 1..mints \subseteq Mints
    BY ReadyTypes DEF Mints
  <2> QED BY <1>1, <2>1
<1>3. i \in 0..MaxLinks
  BY <1>2 DEF Ready, RowsInv, TypeOK
<1>4. i \in 0..(MaxLinks + MaxMints) /\ "read" \in Stages /\ "gone" \in Outs
  <2> HIDE DEF i
  <2>1. i \in 0..(MaxLinks + MaxMints)
    BY <1>3, LookAssumption
  <2> QED BY <2>1 DEF Stages, Outs
<1>5. Now(b, q) /\ UNCHANGED look
  BY DEF ReadPointer
<1> HIDE DEF i
<1>6. /\ q \in Call /\ q.op = "read" /\ q.key = calls[b].key /\ q.secret = calls[b].secret /\ q.id = calls[b].id
      /\ q.stage = "read" => q.saw = i
      /\ q.out = "gone" => i = 0
  BY <1>1, <1>4 DEF Call
<1> HIDE DEF q
<1>7. pointers'[q.key] = i
  BY <1>5, <1>6 DEF look, i
<1>8. So(q, rows', pointers')
  BY <1>6, <1>7 DEF So
<1>9. q.secret <= mints' /\ q.key <= mints'
  BY <1>6, ReadyTypes
<1> QED BY <1>1, <1>5, <1>6, <1>8, <1>9, NowServes

LEMMA ReadRowServes == ASSUME NEW b \in Callers, Ready(b), ReadRow(b) PROVE \E q \in Call : Serves(b, q)
<1> DEFINE row == rows[calls[b].saw]
           q == IF ~row.there \/ row.key # calls[b].key THEN [calls[b] EXCEPT !.out = "gone"]
                ELSE [calls[b] EXCEPT !.look = row.look, !.out = IF row.look = 0 THEN "unpublished" ELSE "ok"]
<1>1. /\ calls[b] \in Call /\ calls[b].op = "read" /\ calls[b].stage = "read" /\ calls[b].out = ""
      /\ calls[b].saw \in 1..links /\ calls[b].key \in 1..mints
  BY Arrived DEF ReadRow, Ready, Named, At
<1>2. row \in Row /\ calls[b].key \in Mints /\ calls[b].saw # 0
  <2>1. 1..mints \subseteq Mints /\ 1..links \subseteq Links /\ \A n \in 1..links : n # 0
    BY ReadyTypes DEF Mints, Links
  <2> QED BY <1>1, <2>1 DEF Ready, RowsInv, TypeOK
<1>3. pointers[calls[b].key] \in {0, calls[b].saw}
  BY <1>1 DEF Ready, So
<1>4. pointers[calls[b].key] = calls[b].saw => row.there /\ row.key = calls[b].key
  BY <1>2 DEF Ready, RowsInv, PointersMatch
<1>5. Now(b, q) /\ UNCHANGED look
  BY DEF ReadRow
<1> HIDE DEF row
<1>6. /\ q \in Call /\ q.op = "read" /\ q.key = calls[b].key /\ q.secret = calls[b].secret /\ q.id = calls[b].id
      /\ q.stage = "read" /\ q.saw = calls[b].saw
      /\ q.out = "gone" => ~row.there \/ row.key # calls[b].key
  BY <1>1, <1>2 DEF Call, Outs, Row
<1> HIDE DEF q
<1>7. pointers'[q.key] = pointers[calls[b].key]
  BY <1>5, <1>6 DEF look
<1>8. So(q, rows', pointers')
  BY <1>3, <1>4, <1>6, <1>7 DEF So
<1>9. q.secret <= mints' /\ q.key <= mints'
  BY <1>6, ReadyTypes
<1> QED BY <1>1, <1>5, <1>6, <1>8, <1>9, NowServes

LEMMA ServerServes ==
  ASSUME NEW b \in Callers, Ready(b), Serve(b) \/ Trouble(b)
  PROVE  \E q \in Call : Serves(b, q)
<1>1. CASE CreateRead(b)
  BY <1>1, ReadBackServes DEF CreateRead
<1>2. CASE TransferRead(b)
  BY <1>2, ReadBackServes DEF TransferRead
<1>3. CASE RelinkRead(b)
  BY <1>3, ReadBackServes DEF RelinkRead
<1> QED BY <1>1, <1>2, <1>3, CreateServes, TransferServes, ReadKeyServes, RelinkServes, RevokeServes, PublishServes,
           PublishWhyServes, ReadPointerServes, ReadRowServes, TroubleServes DEF Serve

-----------------------------------------------------------------------------
(* The server's steps, and the callers' own.                               *)

LEMMA RecordStays ==
  ASSUME RowsInv, RowsInv', Grown, NEW r, GoodRecord(r, links, mints, rows)
  PROVE  GoodRecord(r, links', mints', rows')
<1>1. links \in Nat /\ mints \in Nat /\ links' \in Nat /\ mints' \in Nat /\ links <= links' /\ mints <= mints'
  BY LookAssumption DEF RowsInv, TypeOK, Grown
<1>2. r \in Record /\ r.secret \in Nat /\ r.key \in Nat /\ r.secret <= mints /\ r.key <= mints /\ r.revision \in Nat
  BY LookAssumption DEF GoodRecord, Record
<1>3. r.secret <= mints' /\ r.key <= mints'
  BY <1>1, <1>2
<1>4. CASE r = NoRecord
  BY <1>2, <1>3, <1>4 DEF GoodRecord
<1>5. CASE r # NoRecord
  <2>1. r.id \in 1..links
    BY <1>5 DEF GoodRecord
  <2>2. r.id \in 1..links' /\ r.id \in Links
    <3>1. 1..links \subseteq 1..links' /\ 1..links \subseteq Links
      BY <1>1, LookAssumption DEF RowsInv, TypeOK, Links
    <3> QED BY <2>1, <3>1
  <2>3. rows[r.id].revision \in Nat /\ rows'[r.id].revision \in Nat
    BY <2>2 DEF RowsInv, TypeOK, Row
  <2>4. rows'[r.id].there => /\ rows[r.id].there /\ rows[r.id].revision <= rows'[r.id].revision
                             /\ rows'[r.id].secret = rows[r.id].secret \/ rows'[r.id].secret > mints
    BY <2>1 DEF Grown
  <2>5. rows'[r.id].there => r.revision <= rows'[r.id].revision
    BY <1>2, <1>5, <2>3, <2>4 DEF GoodRecord
  <2>6. rows'[r.id].secret > mints => rows'[r.id].secret # r.secret
    BY <1>1, <1>2
  <2>7. rows'[r.id].there /\ r.elsewhere => rows'[r.id].secret # r.secret
    BY <1>5, <2>4, <2>6 DEF GoodRecord
  <2> QED BY <1>2, <1>3, <2>2, <2>5, <2>7 DEF GoodRecord
<1> QED BY <1>4, <1>5

LEMMA IsReady ==
  ASSUME LinkInv, NEW b \in Callers, Serve(b) \/ Trouble(b)
  PROVE  RowsInv' /\ Grown /\ Ready(b)
<1>1. RowsInv' /\ Grown
  BY ServeSteps, TroubleSteps, ServerGrown DEF LinkInv
<1>2. calls[b].op # "none"
  BY DEF LinkInv, AnswersSo, So, Serve, At, Create, CreateRead, Transfer, TransferRead, ReadKey, Relink, RelinkRead,
     Revoke, Publish, PublishWhy, ReadPointer, ReadRow, Trouble, Drop, LoseAnswer, Limit
<1> QED BY <1>1, <1>2 DEF Ready, LinkInv, AnswersSo, KeysGivenOut

LEMMA ServerStep ==
  ASSUME LinkInv, NEW b \in Callers, Serve(b) \/ Trouble(b), UNCHANGED link
  PROVE  LinkInv'
<1>1. RowsInv' /\ Grown /\ Ready(b)
  BY IsReady
<1>2. PICK q \in Call : Serves(b, q)
  BY <1>1, ServerServes
<1>3. \A c \in Callers : calls'[c] = IF c = b THEN q ELSE calls[c]
  BY <1>2 DEF Serves, Served, LinkInv, RowsInv, TypeOK
<1>4. links \in Nat /\ mints \in Nat /\ links' \in Nat /\ mints' \in Nat /\ links <= links' /\ mints <= mints'
  BY <1>1, LookAssumption DEF RowsInv, TypeOK, Grown, LinkInv
<1>5. LinkTypeOK'
  BY <1>1 DEF LinkInv, LinkTypeOK, RowsInv, link
<1>6. CallKinds'
  BY <1>2, <1>3 DEF LinkInv, CallKinds, Kind, Serves, Served
<1>7. KeysGivenOut'
  <2>1. ASSUME NEW n \in Nat, n <= mints PROVE n <= mints'
    BY <1>4, <2>1
  <2>2. ASSUME NEW c \in Callers PROVE calls'[c].secret <= mints' /\ calls'[c].key <= mints'
    <3>1. CASE c = b
      BY <1>2, <1>3, <3>1 DEF Serves, Served
    <3>2. CASE c # b
      <4>1. calls[c].secret \in Nat /\ calls[c].key \in Nat
        BY LookAssumption DEF LinkInv, RowsInv, TypeOK, Call
      <4> QED BY <1>3, <2>1, <3>2, <4>1 DEF LinkInv, KeysGivenOut
    <3> QED BY <3>1, <3>2
  <2>3. ASSUME NEW t \in Tabs PROVE tab'[t].pending <= mints'
    <3>1. tab[t].pending \in Nat
      BY LookAssumption DEF LinkInv, LinkTypeOK, Tab
    <3> QED BY <2>1, <3>1 DEF LinkInv, KeysGivenOut, link
  <2> QED BY <2>2, <2>3 DEF KeysGivenOut
<1>8. AnswersSo'
  <2> SUFFICES ASSUME NEW c \in Callers PROVE So(calls'[c], rows', pointers')
    BY DEF AnswersSo
  <2>1. CASE c = b
    BY <1>2, <1>3, <2>1 DEF Serves
  <2>2. CASE c # b
    BY <1>1, <1>3, <2>2, SoStays DEF LinkInv, AnswersSo, KeysGivenOut, RowsInv, TypeOK, NamesGivenOut
  <2> QED BY <2>1, <2>2
<1>9. RecordsGood'
  BY <1>1, RecordStays DEF LinkInv, RecordsGood, link
<1> QED BY <1>1, <1>5, <1>6, <1>7, <1>8, <1>9 DEF LinkInv

\* What a caller may ask.
FreshAt(c, q) ==
  /\ Begun(q) /\ Kind(c, q) /\ q.secret <= mints /\ q.key <= mints
  /\ q.op = "publish" => q.look # 0 /\ (rows[q.id].there => q.base <= rows[q.id].revision)
Asking(cs) ==
  /\ cs \in [Callers -> Call]
  /\ \A c \in Callers : cs[c] \in {calls[c], NoCall} \/ FreshAt(c, cs[c])
Asks == Asking(calls') /\ UNCHANGED <<look, faults>>

LEMMA AsksStep ==
  ASSUME LinkInv, Asks
  PROVE  /\ Turn /\ RowsInv' /\ CallKinds' /\ AnswersSo'
         /\ \A c \in Callers : calls'[c].secret <= mints' /\ calls'[c].key <= mints'
<1>1. Turn
  BY DEF Asks, Asking, FreshAt, Turn
<1>2. RowsInv'
  BY <1>1, TurnSteps DEF LinkInv
<1>3. ASSUME NEW c \in Callers
      PROVE  /\ Kind(c, calls'[c]) /\ So(calls'[c], rows, pointers)
             /\ calls'[c].secret <= mints /\ calls'[c].key <= mints
  <2>1. CASE calls'[c] = calls[c]
    BY <2>1 DEF LinkInv, CallKinds, AnswersSo, KeysGivenOut
  <2>2. CASE calls'[c] = NoCall
    <3>1. Kind(c, NoCall) /\ So(NoCall, rows, pointers)
      BY DEF NoCall, So, Kind
    <3>2. NoCall.secret <= mints /\ NoCall.key <= mints
      BY LookAssumption DEF LinkInv, RowsInv, TypeOK, NoCall
    <3> QED BY <2>2, <3>1, <3>2
  <2>3. CASE FreshAt(c, calls'[c])
    <3>1. So(calls'[c], rows, pointers)
      BY <2>3 DEF FreshAt, Begun, So
    <3> QED BY <2>3, <3>1 DEF FreshAt
  <2> QED BY <2>1, <2>2, <2>3 DEF Asks, Asking
<1>4. rows' = rows /\ pointers' = pointers /\ mints' = mints
  BY DEF Asks, look
<1> QED BY <1>1, <1>2, <1>3, <1>4 DEF CallKinds, AnswersSo

LEMMA CallersOfTab ==
  ASSUME NEW t \in Tabs, NEW k \in -1..MaxMints
  PROVE  <<t, k>> \in Callers /\ <<t, k>>[2] = k
  BY LinkAssumption

LEMMA ReadsCaller == ASSUME NEW t \in Tabs, NEW k \in Mints 
      PROVE  Reads(t, k) \in Callers /\ Reads(t, k)[2] = k /\ k # 0 /\ k # -1
<1>1. k \in -1..MaxMints /\ k # 0 /\ k # -1
  BY LookAssumption DEF Mints
<1> QED BY <1>1, CallersOfTab DEF Reads

LEMMA OwnCallers ==
  ASSUME NEW t \in Tabs
  PROVE  /\ Publishes(t) \in Callers /\ Publishes(t)[2] = 0
         /\ Action(t) \in Callers /\ Action(t)[2] = -1
         /\ 0 \notin Mints /\ -1 \notin Mints /\ 0 # -1
<1>1. 0 \in -1..MaxMints /\ -1 \in -1..MaxMints
  BY LookAssumption
<1>2. 0 \notin Mints /\ -1 \notin Mints /\ 0 # -1
  BY LookAssumption DEF Mints
<1> QED BY <1>1, <1>2, CallersOfTab DEF Publishes, Action

LEMMA AskingNothing == ASSUME LinkInv PROVE Asking(calls)
  BY DEF LinkInv, RowsInv, TypeOK, Asking

LEMMA AskingMore ==
  ASSUME NEW cs, Asking(cs), NEW c \in Callers, NEW q, q = NoCall \/ FreshAt(c, q)
  PROVE  Asking([cs EXCEPT ![c] = q])
<1>1. q \in Call
  BY EmptyTypes DEF FreshAt, Begun
<1> QED BY <1>1 DEF Asking

LEMMA AskingRead ==
  ASSUME LinkInv, NEW cs, Asking(cs), NEW t \in Tabs, NEW k \in Mints, k <= mints, NEW id \in 0..MaxLinks
  PROVE  Asking([cs EXCEPT ![Reads(t, k)] = Read(k, id)])
<1> DEFINE q == Read(k, id)
<1>0. mints \in Nat /\ k \in 1..mints /\ k \in 0..MaxMints /\ 0 <= mints
  BY LookAssumption DEF LinkInv, RowsInv, TypeOK, Mints
<1>1. /\ q.op = "read" /\ q.id = id /\ q.key = k /\ q.secret = 0 /\ q.stage = "asked" /\ q.out = "" /\ q.saw = 0
  BY DEF Read, Asked, NoCall
<1>2. q \in Call
  BY <1>0, EmptyTypes DEF Read, Asked, Call, Ops
<1> HIDE DEF q
<1>3. Begun(q)
  BY <1>0, <1>1, <1>2 DEF Begun
<1>4. Reads(t, k) \in Callers /\ Reads(t, k)[2] = k /\ k # 0 /\ k # -1
  BY ReadsCaller
<1>5. Kind(Reads(t, k), q)
  BY <1>1, <1>4 DEF Kind
<1>6. FreshAt(Reads(t, k), q)
  BY <1>0, <1>1, <1>3, <1>5 DEF FreshAt
<1> QED BY <1>4, <1>6, AskingMore DEF q

\* A check of a stored key asks no more than a caller may.
LEMMA AskingVerify ==
  ASSUME LinkInv, NEW cs, Asking(cs), NEW t \in Tabs, NEW r, GoodRecord(r, links, mints, rows), NEW forced
  PROVE  Asking(Verifying(t, r, forced, cs))
<1>1. CASE Verifies(t, r, forced)
  <2>1. r.key # 0 /\ r \in Record /\ r.key <= mints
    BY <1>1 DEF Verifies, GoodRecord
  <2>2. r.key \in Mints /\ r.id \in 0..MaxLinks
    BY <2>1, LookAssumption DEF Record, Mints
  <2> QED BY <1>1, <2>1, <2>2, AskingRead DEF Verifying
<1>2. CASE ~Verifies(t, r, forced)
  BY <1>2 DEF Verifying
<1> QED BY <1>1, <1>2

LEMMA AskingReadBack ==
  ASSUME LinkInv, NEW cs, Asking(cs), NEW t \in Tabs, NEW r, GoodRecord(r, links, mints, rows)
  PROVE  Asking(ReadsBack(t, r, cs))
<1>1. CASE t \in setting.readers /\ r.key \notin {0, tab[t].pending} /\ cs[Reads(t, r.key)].op = "none"
  <2>1. r.key # 0 /\ r \in Record /\ r.key <= mints
    BY <1>1 DEF GoodRecord
  <2>2. r.key \in Mints /\ r.id \in 0..MaxLinks
    BY <2>1, LookAssumption DEF Record, Mints
  <2> QED BY <1>1, <2>1, <2>2, AskingRead DEF ReadsBack
<1>2. CASE ~(t \in setting.readers /\ r.key \notin {0, tab[t].pending} /\ cs[Reads(t, r.key)].op = "none")
  BY <1>2 DEF ReadsBack
<1> QED BY <1>1, <1>2

\* A publish from a good record.
LEMMA AskingPublish ==
  ASSUME LinkInv, NEW cs, Asking(cs), NEW t \in Tabs, NEW r, GoodRecord(r, links, mints, rows), r # NoRecord,
         NEW l \in 1..MaxLooks
  PROVE  Asking([cs EXCEPT ![Publishes(t)] =
           [Asked("publish", r.id) EXCEPT !.secret = r.secret, !.base = r.revision, !.look = l]])
<1> DEFINE q == [Asked("publish", r.id) EXCEPT !.secret = r.secret, !.base = r.revision, !.look = l]
<1>0. l \in Looks /\ l # 0 /\ 0 <= mints
  BY LookAssumption DEF Looks, LinkInv, RowsInv, TypeOK
<1>1. r \in Record /\ r.id \in 1..links /\ r.secret <= mints /\ (rows[r.id].there => r.revision <= rows[r.id].revision)
  BY DEF GoodRecord
<1>2. r.id \in 0..MaxLinks /\ r.secret \in 0..MaxMints /\ r.revision \in Nat
  BY <1>1 DEF Record
<1>3. /\ q.op = "publish" /\ q.id = r.id /\ q.key = 0 /\ q.secret = r.secret /\ q.base = r.revision /\ q.look = l
      /\ q.stage = "asked" /\ q.out = "" /\ q.saw = 0
  BY DEF Asked, NoCall
<1>4. q \in Call
  BY <1>0, <1>2, EmptyTypes DEF Asked, Call, Ops
<1> HIDE DEF q
<1>5. Begun(q)
  BY <1>1, <1>3, <1>4 DEF Begun
<1>6. Publishes(t) \in Callers /\ Publishes(t)[2] = 0
  BY OwnCallers
<1>7. Kind(Publishes(t), q)
  BY <1>3, <1>6, OwnCallers DEF Kind
<1>8. FreshAt(Publishes(t), q)
  BY <1>0, <1>1, <1>3, <1>5, <1>7 DEF FreshAt
<1> QED BY <1>6, <1>8, AskingMore DEF q

\* What a player asks of a link.
LEMMA AskingAct ==
  ASSUME LinkInv, NEW cs, Asking(cs), NEW t \in Tabs, NEW op \in {"create", "transfer", "relink", "revoke"},
         NEW id \in 0..links, op # "create" => id \in 1..links
  PROVE  Asking([cs EXCEPT ![Action(t)] = Asked(op, id)])
<1> DEFINE q == Asked(op, id)
<1>0. id \in 0..MaxLinks /\ 0 <= mints
  BY LookAssumption DEF LinkInv, RowsInv, TypeOK
<1>1. q.op = op /\ q.id = id /\ q.key = 0 /\ q.secret = 0 /\ q.stage = "asked" /\ q.out = "" /\ q.saw = 0
  BY DEF Asked, NoCall
<1>2. q \in Call
  BY <1>0, EmptyTypes DEF Asked, Call, Ops
<1> HIDE DEF q
<1>3. Begun(q)
  BY <1>1, <1>2 DEF Begun
<1>4. Action(t) \in Callers /\ Action(t)[2] = -1
  BY OwnCallers
<1>5. Kind(Action(t), q)
  BY <1>1, <1>4, OwnCallers DEF Kind
<1>6. FreshAt(Action(t), q)
  BY <1>0, <1>1, <1>3, <1>5 DEF FreshAt
<1> QED BY <1>4, <1>6, AskingMore DEF q

-----------------------------------------------------------------------------
(* The tabs' steps.                                                        *)

TabGood(p) == p \in Tab /\ p.pending <= mints

LEMMA TabsGood == ASSUME LinkInv, NEW t \in Tabs PROVE TabGood(tab[t])
  BY DEF LinkInv, LinkTypeOK, KeysGivenOut, TabGood

\* A step in which callers ask, and records and tabs become others of their kind.
LEMMA LinkStep ==
  ASSUME LinkInv, Asks, setting' = setting,
         records' \in [Devices -> Record], \A d \in Devices : GoodRecord(records'[d], links, mints, rows),
         tab' \in [Tabs -> Tab], \A t \in Tabs : TabGood(tab'[t]),
         shown' \in [Devices -> 1..MaxLooks], applies' \in Nat, acted' \in Nat, closes' \in Nat
  PROVE  LinkInv' /\ Asks
<1>1. /\ RowsInv' /\ CallKinds' /\ AnswersSo' /\ \A c \in Callers : calls'[c].secret <= mints' /\ calls'[c].key <= mints'
  BY AsksStep
<1>2. links' = links /\ mints' = mints /\ rows' = rows
  BY DEF Asks, look
<1> QED BY <1>1, <1>2 DEF LinkInv, LinkTypeOK, RowsInv, KeysGivenOut, RecordsGood, TabGood

\* One tab's step: what becomes of its own record and its own tab.
LEMMA TabStep ==
  ASSUME LinkInv, Asks, NEW t \in Tabs, NEW r, NEW p, Kept(t, r) \/ UNCHANGED records, tab' = [tab EXCEPT ![t] = p],
         GoodRecord(r, links, mints, rows), TabGood(p), UNCHANGED <<setting, shown, applies, closes>>, acted' \in Nat
  PROVE  LinkInv' /\ Asks
<1>1. \A d \in Devices : records[d] \in Record /\ GoodRecord(records[d], links, mints, rows)
  BY DEF LinkInv, RecordsGood, GoodRecord
<1>2. r \in Record
  BY DEF GoodRecord
<1>3. \A d \in Devices : records'[d] \in {r, records[d]}
  BY DEF Kept, LinkInv, LinkTypeOK
<1>4. records' \in [Devices -> Record] /\ \A d \in Devices : GoodRecord(records'[d], links, mints, rows)
  BY <1>1, <1>2, <1>3 DEF Kept, LinkInv, LinkTypeOK
<1>5. tab' \in [Tabs -> Tab] /\ \A u \in Tabs : TabGood(tab'[u])
  BY TabsGood DEF LinkInv, LinkTypeOK, TabGood
<1> QED BY <1>4, <1>5, LinkStep DEF LinkInv, LinkTypeOK

\* The stored record of a tab's device.
LEMMA StoredGood ==
  ASSUME LinkInv, NEW t \in Tabs
  PROVE  Stored(t) \in Record /\ GoodRecord(Stored(t), links, mints, rows) /\ Home[t] \in Devices
<1>1. Home[t] \in Devices
  BY Settled DEF LinkInv, LinkTypeOK
<1> QED BY <1>1 DEF LinkInv, RecordsGood, Stored, GoodRecord

LEMMA NoRecordGood == ASSUME LinkInv PROVE GoodRecord(NoRecord, links, mints, rows)
<1>1. NoRecord.secret <= mints /\ NoRecord.key <= mints
  BY LookAssumption DEF LinkInv, RowsInv, TypeOK, NoRecord
<1> QED BY <1>1, NoRecordType DEF GoodRecord

\* A tab with another channel, or saying another thing.
LEMMA ChannelGood ==
  ASSUME NEW p, TabGood(p), NEW r \in Record
  PROVE  TabGood([p EXCEPT !.channel = r])
  BY DEF TabGood, Tab

LEMMA OnceStep == ASSUME LinkInv, NEW t \in Tabs, Once(t) PROVE LinkInv' /\ Asks
<1> DEFINE r == Stored(t)
           p == [tab[t] EXCEPT !.channel = r]
           s == IF r.elsewhere THEN [p EXCEPT !.owed = FALSE, !.told = "elsewhere"]
                ELSE IF ~p.leading /\ ~p.owed THEN [p EXCEPT !.told = Resting(r)]
                ELSE [p EXCEPT !.failures = 0, !.owed = FALSE, !.told = "following"]
<1>1. TabGood(p) /\ GoodRecord(r, links, mints, rows) /\ Home[t] \in Devices
  BY TabsGood, StoredGood, ChannelGood
<1>2. UNCHANGED <<look, faults, setting, records, shown, applies, closes>> /\ acted' \in Nat
  BY DEF Once, LinkInv, LinkTypeOK
<1>3. CASE r = NoRecord /\ UNCHANGED calls
  <2> DEFINE told == IF p.told = "gone" THEN "gone" ELSE "none"
             n == Round([p EXCEPT !.owed = FALSE, !.told = told])
  <2>1. told \in Told
    BY DEF Told
  <2>2. TabGood([p EXCEPT !.owed = FALSE, !.told = told])
    <3> HIDE DEF p, told
    <3> QED BY <1>1, <2>1 DEF TabGood, Tab
  <2>3. TabGood(n)
    BY <2>2, RoundType DEF TabGood
  <2>4. tab' = [tab EXCEPT ![t] = n]
    BY <1>3 DEF Once
  <2>5. Asks
    BY <1>2, <1>3, AskingNothing DEF Asks
  <2> HIDE DEF n, r
  <2> QED BY <1>1, <1>2, <2>3, <2>4, <2>5, TabStep
<1>4. CASE r # NoRecord /\ ~OnceSends(t, r)
  <2>1. TabGood(s)
    <3>1. 0 \in 0..Tries /\ Resting(r) \in Told
      BY LinkAssumption, RestingType
    <3> HIDE DEF p, r
    <3> QED BY <1>1, <3>1 DEF TabGood, Tab, Told
  <2>2. TabGood(Round(s))
    BY <2>1, RoundType DEF TabGood
  <2>3. tab' = [tab EXCEPT ![t] = Round(s)] /\ calls' = Verifying(t, r, FALSE, calls)
    BY <1>4 DEF Once
  <2> HIDE DEF s, r
  <2>4. Asks
    BY <1>1, <1>2, <2>3, AskingNothing, AskingVerify DEF Asks
  <2> QED BY <1>1, <1>2, <2>2, <2>3, <2>4, TabStep
<1>5. CASE r # NoRecord /\ OnceSends(t, r)
  <2> DEFINE cs == Sent(Publishes(t), [Asked("publish", r.id) EXCEPT !.secret = r.secret, !.base = r.revision,
                                                                  !.look = shown[Home[t]]])
  <2>1. TabGood([p EXCEPT !.loop = "sent"])
    <3> HIDE DEF p
    <3> QED BY <1>1 DEF TabGood, Tab
  <2>2. tab' = [tab EXCEPT ![t] = [p EXCEPT !.loop = "sent"]] /\ calls' = Verifying(t, r, FALSE, cs)
    BY <1>5 DEF Once
  <2>3. shown[Home[t]] \in 1..MaxLooks
    BY <1>1 DEF LinkInv, LinkTypeOK
  <2> HIDE DEF r
  <2>4. Asking(cs)
    BY <1>1, <1>5, <2>3, AskingNothing, AskingPublish DEF Sent
  <2> HIDE DEF cs
  <2>5. Asks
    BY <1>1, <1>2, <2>2, <2>4, AskingVerify DEF Asks
  <2> QED BY <1>1, <1>2, <2>1, <2>2, <2>5, TabStep
<1> QED BY <1>3, <1>4, <1>5 DEF Once

LEMMA AskingHeard == ASSUME LinkInv, NEW c \in Callers PROVE Asking(Heard(c))
  BY AskingNothing, AskingMore DEF Heard

\* What is known of a request that has its answer.
LEMMA HasCall ==
  ASSUME LinkInv, NEW c \in Callers, Has(c)
  PROVE  /\ calls[c] \in Call /\ calls[c].op # "none" /\ Named(calls[c], links, mints)
         /\ So(calls[c], rows, pointers) /\ Kind(c, calls[c])
         /\ calls[c].secret <= mints /\ calls[c].key <= mints
  BY DEF LinkInv, RowsInv, TypeOK, NamesGivenOut, AnswersSo, CallKinds, KeysGivenOut, Has, So

LEMMA ForgotGood ==
  ASSUME LinkInv, NEW r, GoodRecord(r, links, mints, rows), NEW id
  PROVE  GoodRecord(Forgot(r, id), links, mints, rows)
  BY NoRecordGood DEF Forgot

LEMMA PatchedGood ==
  ASSUME LinkInv, NEW r, GoodRecord(r, links, mints, rows), NEW q \in Call, q.op = "publish", So(q, rows, pointers)
  PROVE  GoodRecord(Patched(r, q), links, mints, rows)
<1>1. CASE ~SameHold(r, q)
  BY <1>1 DEF Patched
<1>2. CASE SameHold(r, q)
  <2> DEFINE ok == [r EXCEPT !.revision = q.revision, !.published = q.look]
             stale == [r EXCEPT !.revision = q.revision]
             lost == [r EXCEPT !.elsewhere = TRUE]
  <2>1. r \in Record /\ r # NoRecord /\ r.id \in 1..links /\ r.id = q.id /\ r.secret = q.secret
    BY <1>2 DEF SameHold, GoodRecord
  <2>2. r.id # 0 /\ NoRecord.id = 0
    BY <2>1 DEF NoRecord, LinkInv, RowsInv, TypeOK
  <2>3. q.revision \in Nat /\ q.look \in Looks
    BY DEF Call
  <2>4. ok \in Record /\ ok.id = r.id /\ ok.secret = r.secret /\ ok.key = r.key /\ ok.revision = q.revision /\ ok.elsewhere = r.elsewhere
    BY <2>1, <2>3 DEF Record
  <2>5. stale \in Record /\ stale.id = r.id /\ stale.secret = r.secret /\ stale.key = r.key /\ stale.revision = q.revision
        /\ stale.elsewhere = r.elsewhere
    BY <2>1, <2>3 DEF Record
  <2>6. lost \in Record /\ lost.id = r.id /\ lost.secret = r.secret /\ lost.key = r.key /\ lost.revision = r.revision
    BY <2>1 DEF Record
  <2> HIDE DEF ok, stale, lost
  <2>9. q.out \in {"ok", "stale"} => GoodRecord(ok, links, mints, rows) /\ GoodRecord(stale, links, mints, rows)
    BY <2>1, <2>2, <2>4, <2>5 DEF GoodRecord, So
  <2>10. q.out = "not-publisher" => GoodRecord(lost, links, mints, rows)
    BY <2>1, <2>2, <2>6 DEF GoodRecord, So
  <2>11. CASE q.out \in {"ok", "stale"}
    BY <1>2, <2>9, <2>11 DEF Patched, ok, stale
  <2>12. CASE q.out = "not-publisher"
    BY <1>2, <2>10, <2>12 DEF Patched, lost
  <2>13. CASE q.out \notin {"ok", "stale", "not-publisher"}
    BY <1>2, <2>13 DEF Patched
  <2> QED BY <2>11, <2>12, <2>13
<1> QED BY <1>1, <1>2

LEMMA PublishedStep == ASSUME LinkInv, NEW t \in Tabs, Published(t) PROVE LinkInv' /\ Asks
<1> DEFINE c == Publishes(t)
           q == calls[c]
           r == Stored(t)
           r2 == IF q.out = "gone" THEN Forgot(r, q.id) ELSE Patched(r, q)
           wrote == SameHold(r, q) /\ (q.out = "not-publisher" \/ r2 # r)
           ch == IF q.out \in {"error", "limited"} THEN tab[t].channel ELSE r2
           p == [tab[t] EXCEPT !.channel = ch]
           p2 == Round(Answered(p, q, wrote))
<1>1. c \in Callers /\ c[2] = 0 /\ Has(c)
  BY OwnCallers DEF Published
<1>2. q \in Call /\ So(q, rows, pointers) /\ q.op = "publish"
  BY <1>1, HasCall DEF Kind
<1>3. r \in Record /\ GoodRecord(r, links, mints, rows)
  BY StoredGood
<1>4. GoodRecord(r2, links, mints, rows) /\ r2 \in Record
  <2>1. GoodRecord(Patched(r, q), links, mints, rows) /\ GoodRecord(Forgot(r, q.id), links, mints, rows)
    <3> HIDE DEF q, r
    <3> QED BY <1>2, <1>3, PatchedGood, ForgotGood
  <2> QED BY <2>1 DEF GoodRecord
<1>5. UNCHANGED <<look, faults, setting, shown, applies, closes>> /\ acted' \in Nat
  BY DEF Published, LinkInv, LinkTypeOK
<1>6. TabGood(tab[t]) /\ tab[t] \in Tab
  BY TabsGood DEF TabGood
<1>7. Asking(Heard(c))
  BY <1>1, AskingHeard
<1>8. CASE ~On(t)
  <2> DEFINE s == [tab[t] EXCEPT !.loop = "idle"]
  <2>1. TabGood(s)
    BY <1>6 DEF TabGood, Tab
  <2>2. tab' = [tab EXCEPT ![t] = s] /\ calls' = Heard(c) /\ UNCHANGED records
    BY <1>8 DEF Published
  <2>3. Asks
    BY <1>5, <1>7, <2>2 DEF Asks
  <2> HIDE DEF s, r
  <2> QED BY <1>3, <1>5, <2>1, <2>2, <2>3, TabStep
<1>9. CASE On(t)
  <2>1. ch \in Record
    <3> HIDE DEF r2
    <3> QED BY <1>4, <1>6 DEF Tab
  <2>2. TabGood(p)
    <3> HIDE DEF ch
    <3> QED BY <1>6, <2>1, ChannelGood
  <2>3. wrote \in BOOLEAN
    OBVIOUS
  <2>4. TabGood(p2)
    <3> HIDE DEF p, q, wrote
    <3> QED BY <1>2, <2>2, <2>3, AnsweredType, RoundType DEF TabGood
  <2>5. Kept(t, r2) /\ tab' = [tab EXCEPT ![t] = p2] /\ calls' \in {Verifying(t, r2, TRUE, Heard(c)), Heard(c)}
    BY <1>9 DEF Published
  <2> HIDE DEF p2, r2, c
  <2>6. Asks
    BY <1>4, <1>5, <1>7, <2>5, AskingVerify DEF Asks
  <2> QED BY <1>4, <1>5, <2>4, <2>5, <2>6, TabStep
<1> QED BY <1>8, <1>9

\* A player's step that asks op of the link id, with the record the tab has then.
LEMMA AskedStep ==
  ASSUME LinkInv, NEW t \in Tabs, NEW op, Begins(t, op), op \in {"create", "transfer", "relink", "revoke"},
         NEW id \in 0..links, op # "create" => id \in 1..links, calls' = Sent(Action(t), Asked(op, id)),
         tab' \in {tab, [tab EXCEPT ![t].channel = Stored(t)]},
         UNCHANGED <<look, faults, setting, records, shown, applies, closes>>
  PROVE  LinkInv' /\ Asks
<1> DEFINE p == [tab[t] EXCEPT !.channel = Stored(t)]
<1>1. Stored(t) \in Record /\ GoodRecord(Stored(t), links, mints, rows)
  BY StoredGood
<1>2. TabGood(p) /\ TabGood(tab[t])
  BY <1>1, TabsGood, ChannelGood
<1>3. Asks
  BY AskingNothing, AskingAct DEF Asks, Sent
<1>4. acted' \in Nat
  BY DEF Begins, LinkInv, LinkTypeOK
<1>5. tab' = [tab EXCEPT ![t] = tab[t]] \/ tab' = [tab EXCEPT ![t] = p]
  BY DEF LinkInv, LinkTypeOK
<1> HIDE DEF p
<1> QED BY <1>1, <1>2, <1>3, <1>4, <1>5, TabStep

LEMMA MakeStep == ASSUME LinkInv, NEW t \in Tabs, Make(t) PROVE LinkInv' /\ Asks
<1> DEFINE r == Stored(t)
           p == [tab[t] EXCEPT !.channel = r]
           s == IF r.elsewhere THEN [p EXCEPT !.told = "elsewhere"] ELSE Kick([p EXCEPT !.told = Resting(r)])
<1>1. UNCHANGED <<look, faults, setting, records, shown, applies, closes>>
  BY DEF Make
<1>2. CASE calls' = Sent(Action(t), Asked("create", 0)) /\ tab' = [tab EXCEPT ![t] = p]
  <2>1. 0 \in 0..links
    BY DEF LinkInv, RowsInv, TypeOK
  <2> QED BY <1>1, <1>2, <2>1, AskedStep DEF Make
<1>3. CASE tab' = [tab EXCEPT ![t] = s] /\ UNCHANGED calls
  <2>1. r \in Record /\ GoodRecord(r, links, mints, rows)
    BY StoredGood
  <2>2. p \in Tab /\ TabGood(p)
    BY <2>1, TabsGood, ChannelGood DEF TabGood
  <2>3. ASSUME NEW told \in Told PROVE TabGood([p EXCEPT !.told = told])
    <3> HIDE DEF p
    <3> QED BY <2>2, <2>3 DEF TabGood, Tab
  <2>4. TabGood([p EXCEPT !.told = "elsewhere"]) /\ TabGood([p EXCEPT !.told = Resting(r)])
    <3> HIDE DEF p
    <3> QED BY <2>3, RestingType DEF Told
  <2>5. TabGood(s)
    BY <2>4, KickType DEF TabGood
  <2>6. Asks /\ acted' \in Nat
    BY <1>1, <1>3, AskingNothing DEF Asks, Make, Begins, LinkInv, LinkTypeOK
  <2> HIDE DEF s, r
  <2> QED BY <1>1, <1>3, <2>1, <2>5, <2>6, TabStep
<1> QED BY <1>2, <1>3 DEF Make

LEMMA AskedSteps == ASSUME LinkInv, NEW t \in Tabs, UseThisDevice(t) \/ NewLink(t) \/ Forget(t) PROVE LinkInv' /\ Asks
<1>1. 1..links \subseteq 0..links
  OBVIOUS
<1>2. CASE UseThisDevice(t)
  BY <1>1, <1>2, AskedStep DEF UseThisDevice
<1>3. CASE NewLink(t)
  <2>1. Stored(t).id \in 1..links
    BY <1>3, StoredGood DEF NewLink, GoodRecord
  <2> QED BY <1>1, <1>3, <2>1, AskedStep DEF NewLink
<1>4. CASE Forget(t)
  BY <1>1, <1>4, AskedStep DEF Forget
<1> QED BY <1>2, <1>3, <1>4

\* What an action leaves names what has been given out, and the link as its answer says it is.
LEMMA LeftGood ==
  ASSUME LinkInv, NEW r, GoodRecord(r, links, mints, rows), NEW q \in Call, So(q, rows, pointers),
         Named(q, links, mints), q.secret <= mints, q.key <= mints, q.op \in {"create", "transfer", "relink", "revoke"}
  PROVE  GoodRecord(Left(r, q), links, mints, rows)
<1> DEFINE made == [NoRecord EXCEPT !.id = q.id, !.secret = q.secret, !.key = q.key]
           key == IF r.id = q.id THEN r.key ELSE 0
           moved == [NoRecord EXCEPT !.id = q.id, !.secret = q.secret, !.revision = q.revision, !.key = key]
           relinked == [r EXCEPT !.key = q.key]
<1>1. /\ r \in Record /\ r.key <= mints /\ links \in Nat /\ mints \in Nat
      /\ \A n \in 1..links : n # 0 /\ rows[n].revision \in Nat
  BY LookAssumption DEF GoodRecord, LinkInv, RowsInv, TypeOK, Links, Row
<1>2. q.id \in 0..MaxLinks /\ q.secret \in 0..MaxMints /\ q.key \in 0..MaxMints /\ q.revision \in Nat
  BY DEF Call
<1>3. key \in 0..MaxMints /\ key <= mints
  BY <1>1, LookAssumption DEF Record
<1>4. /\ made \in Record /\ made.id = q.id /\ made.secret = q.secret /\ made.key = q.key
      /\ made.revision = 0 /\ ~made.elsewhere
  BY <1>2, NoRecordType DEF NoRecord, Record
<1>5. /\ moved \in Record /\ moved.id = q.id /\ moved.secret = q.secret /\ moved.key = key
      /\ moved.revision = q.revision /\ ~moved.elsewhere
  <2> HIDE DEF key
  <2> QED BY <1>2, <1>3, NoRecordType DEF NoRecord, Record
<1>6. /\ relinked \in Record /\ relinked.id = r.id /\ relinked.secret = r.secret /\ relinked.key = q.key
      /\ relinked.revision = r.revision /\ relinked.elsewhere = r.elsewhere
  BY <1>1, <1>2 DEF Record
<1>7. NoRecord.id = 0
  BY DEF NoRecord
<1>8. GoodRecord(Forgot(r, q.id), links, mints, rows)
  BY ForgotGood
<1> HIDE DEF made, moved, relinked, key
<1>9. CASE q.out \notin {"ok", "gone"}
  <2>1. Left(r, q) = r
    BY <1>9 DEF Left
  <2> QED BY <2>1
<1>10. CASE q.out \in {"ok", "gone"} /\ (q.op = "revoke" \/ q.out = "gone")
  <2>1. Left(r, q) = Forgot(r, q.id)
    BY <1>10 DEF Left
  <2> QED BY <1>8, <2>1
<1>11. CASE q.out = "ok" /\ q.op = "create"
  <2>1. Left(r, q) = made
    BY <1>11 DEF Left, made
  <2>2. q.id \in 1..links
    BY <1>11 DEF So, Named
  <2>3. GoodRecord(made, links, mints, rows)
    BY <1>1, <1>4, <2>2 DEF GoodRecord
  <2> QED BY <2>1, <2>3
<1>12. CASE q.out = "ok" /\ q.op = "transfer"
  <2>1. Left(r, q) = moved
    BY <1>12 DEF Left, moved, key
  <2>2. q.id \in 1..links /\ (rows[q.id].there => q.revision <= rows[q.id].revision)
    BY <1>12 DEF So, Named
  <2>3. GoodRecord(moved, links, mints, rows)
    BY <1>3, <1>5, <2>2 DEF GoodRecord
  <2> QED BY <2>1, <2>3
<1>13. CASE q.out = "ok" /\ q.op = "relink"
  <2>1. Left(r, q) \in {r, relinked} /\ (Left(r, q) = relinked => Left(r, q) = r \/ SameLink(r, q))
    BY <1>13 DEF Left, relinked
  <2>2. SameLink(r, q) => GoodRecord(relinked, links, mints, rows)
    BY <1>1, <1>6, <1>7 DEF GoodRecord, SameLink
  <2> QED BY <2>1, <2>2
<1> QED BY <1>9, <1>10, <1>11, <1>12, <1>13

LEMMA ActedStep == ASSUME LinkInv, NEW t \in Tabs, Acted(t) PROVE LinkInv' /\ Asks
<1> DEFINE c == Action(t)
           q == calls[c]
           r2 == Left(Stored(t), q)
           ch == IF q.out \in {"ok", "gone"} THEN r2 ELSE tab[t].channel
           p == [tab[t] EXCEPT !.channel = ch]
           forgot == r2 # Stored(t)
           p2 == IF On(t) THEN ActedOn(p, q, forgot) ELSE tab[t]
<1>1. c \in Callers /\ c[2] = -1 /\ Has(c)
  BY OwnCallers DEF Acted
<1>2. /\ q \in Call /\ So(q, rows, pointers) /\ Named(q, links, mints) /\ q.secret <= mints /\ q.key <= mints
      /\ q.op \in {"create", "transfer", "relink", "revoke"}
  BY <1>1, HasCall DEF Kind
<1>3. Stored(t) \in Record /\ GoodRecord(Stored(t), links, mints, rows)
  BY StoredGood
<1>4. GoodRecord(r2, links, mints, rows) /\ r2 \in Record
  <2>1. GoodRecord(r2, links, mints, rows)
    <3> HIDE DEF q
    <3> QED BY <1>2, <1>3, LeftGood
  <2> QED BY <2>1 DEF GoodRecord
<1>5. UNCHANGED <<look, faults, setting, shown, applies, closes>> /\ acted' \in Nat
  BY DEF Acted, LinkInv, LinkTypeOK
<1>6. TabGood(tab[t]) /\ tab[t] \in Tab
  BY TabsGood DEF TabGood
<1>7. Asking(Heard(c))
  BY <1>1, AskingHeard
<1>8. ch \in Record
  <2> HIDE DEF r2
  <2> QED BY <1>4, <1>6 DEF Tab
<1>9. TabGood(p)
  <2> HIDE DEF ch
  <2> QED BY <1>6, <1>8, ChannelGood
<1>10. forgot \in BOOLEAN
  OBVIOUS
<1>11. TabGood(p2)
  <2> HIDE DEF p, q, forgot
  <2> QED BY <1>2, <1>6, <1>9, <1>10, ActedOnType DEF TabGood
<1>12. Kept(t, r2) /\ tab' = [tab EXCEPT ![t] = p2] /\ calls' \in {ReadsBack(t, r2, Heard(c)), Heard(c)}
  BY DEF Acted
<1> HIDE DEF p2, r2, c
<1>13. Asks
  BY <1>4, <1>5, <1>7, <1>12, AskingReadBack DEF Asks
<1> QED BY <1>4, <1>5, <1>11, <1>12, <1>13, TabStep

LEMMA ClearedGood ==
  ASSUME LinkInv, NEW r, GoodRecord(r, links, mints, rows), NEW q
  PROVE  GoodRecord(Cleared(r, q), links, mints, rows)
<1> DEFINE s == [r EXCEPT !.key = 0]
<1>1. 0 \in 0..MaxMints /\ 0 <= mints /\ 0 \notin 1..links
  BY LookAssumption DEF LinkInv, RowsInv, TypeOK
<1>2. r \in Record /\ NoRecord.id = 0
  BY DEF GoodRecord, NoRecord
<1>3. s \in Record /\ s.id = r.id /\ s.secret = r.secret /\ s.key = 0 /\ s.revision = r.revision /\ s.elsewhere = r.elsewhere
  BY <1>1, <1>2 DEF Record
<1> HIDE DEF s
<1>4. r # NoRecord => GoodRecord(s, links, mints, rows)
  BY <1>1, <1>2, <1>3 DEF GoodRecord
<1> QED BY <1>4 DEF Cleared, SameLink, s

LEMMA VerifiedStep == ASSUME LinkInv, NEW t \in Tabs, NEW k \in Mints, Verified(t, k) PROVE LinkInv' /\ Asks
<1> DEFINE c == Reads(t, k)
           q == calls[c]
           r == Stored(t)
           r2 == Cleared(r, q)
           p == [tab[t] EXCEPT !.verifyFailures = 0, !.pending = 0, !.pendingId = 0]
           n == tab[t].verifyFailures + 1
<1>1. c \in Callers /\ c[2] = k /\ Has(c)
  BY ReadsCaller DEF Verified
<1>2. q \in Call /\ k <= mints /\ mints \in Nat /\ MaxMints \in Nat /\ k \in 0..MaxMints
  <2>1. q \in Call /\ q.op = "read" /\ q.key \in {0, k} /\ Named(q, links, mints)
    BY <1>1, HasCall DEF Kind
  <2>2. q.key \in 1..mints /\ mints \in Nat /\ MaxMints \in Nat /\ k \in 0..MaxMints
    BY <2>1, LookAssumption DEF Named, LinkInv, RowsInv, TypeOK, Mints
  <2> HIDE DEF q
  <2> QED BY <2>1, <2>2
<1>3. r \in Record /\ GoodRecord(r, links, mints, rows)
  BY StoredGood
<1>4. GoodRecord(r2, links, mints, rows) /\ r2 \in Record
  BY <1>3, ClearedGood DEF GoodRecord
<1>5. UNCHANGED <<look, faults, setting, shown, applies, closes>> /\ acted' \in Nat
  BY DEF Verified, LinkInv, LinkTypeOK
<1>6. TabGood(tab[t]) /\ tab[t] \in Tab /\ 0 \in 0..Tries /\ 0 \in 0..MaxMints /\ 0 \in 0..MaxLinks /\ 0 <= mints
  BY <1>2, TabsGood, LookAssumption, LinkAssumption DEF TabGood
<1>7. Asks
  BY <1>1, <1>5, AskingHeard DEF Asks, Verified
<1>8. TabGood(p) /\ p \in Tab
  BY <1>6 DEF TabGood, Tab
<1>9. CASE UNCHANGED <<tab, records>>
  <2>1. tab' = [tab EXCEPT ![t] = tab[t]]
    BY <1>9 DEF LinkInv, LinkTypeOK
  <2> HIDE DEF r
  <2> QED BY <1>3, <1>5, <1>6, <1>7, <1>9, <2>1, TabStep
<1>10. CASE tab' = [tab EXCEPT ![t] = [p EXCEPT !.checked = k]] /\ UNCHANGED records
  <2> HIDE DEF p, r
  <2>1. TabGood([p EXCEPT !.checked = k])
    BY <1>2, <1>8 DEF TabGood, Tab
  <2> QED BY <1>3, <1>5, <1>7, <1>10, <2>1, TabStep
<1>11. CASE Kept(t, r2) /\ tab' = [tab EXCEPT ![t] = [p EXCEPT !.checked = IF @ = k THEN 0 ELSE @, !.channel = r2]]
  <2> DEFINE checked == IF p.checked = k THEN 0 ELSE p.checked
             s == [p EXCEPT !.checked = checked, !.channel = r2]
  <2> HIDE DEF p, r2
  <2>1. checked \in 0..MaxMints
    BY <1>6, <1>8 DEF Tab
  <2>2. TabGood(s)
    <3> HIDE DEF checked
    <3> QED BY <1>4, <1>8, <2>1 DEF TabGood, Tab
  <2>3. tab' = [tab EXCEPT ![t] = s]
    BY <1>8, <1>11 DEF Tab
  <2> HIDE DEF s
  <2> QED BY <1>4, <1>5, <1>7, <1>11, <2>2, <2>3, TabStep
<1>12. CASE /\ UNCHANGED records
            /\ tab' = [tab EXCEPT ![t].verifyFailures = AtMost(n, Tries), ![t].pending = IF n < Tries THEN k ELSE 0,
                                  ![t].pendingId = IF n < Tries THEN q.id ELSE 0]
  <2> DEFINE fails == AtMost(n, Tries)
             pending == IF n < Tries THEN k ELSE 0
             id == IF n < Tries THEN q.id ELSE 0
             s == [tab[t] EXCEPT !.verifyFailures = fails, !.pending = pending, !.pendingId = id]
  <2>1. fails \in 0..Tries
    <3>1. n \in Nat /\ Tries \in Nat
      BY <1>6, LinkAssumption DEF Tab
    <3> QED BY <3>1, AtMostType
  <2>2. pending \in 0..MaxMints /\ pending <= mints /\ id \in 0..MaxLinks
    BY <1>2, <1>6 DEF Call
  <2>3. tab' = [tab EXCEPT ![t] = s]
    BY <1>6, <1>12 DEF LinkInv, LinkTypeOK, Tab
  <2> HIDE DEF fails, pending, id
  <2>4. TabGood(s)
    BY <1>6, <2>1, <2>2 DEF TabGood, Tab
  <2> HIDE DEF s, r
  <2> QED BY <1>3, <1>5, <1>7, <1>12, <2>3, <2>4, TabStep
<1> QED BY <1>9, <1>10, <1>11, <1>12 DEF Verified

LEMMA VerifyAgainStep == ASSUME LinkInv, NEW t \in Tabs, VerifyAgain(t) PROVE LinkInv' /\ Asks
<1> DEFINE k == tab[t].pending
           id == tab[t].pendingId
<1>1. k \in 0..MaxMints /\ k <= mints /\ id \in 0..MaxLinks
  BY TabsGood DEF TabGood, Tab
<1>2. k \in Mints
  BY <1>1, LookAssumption DEF VerifyAgain, Mints
<1>3. UNCHANGED <<look, faults, link>> /\ calls' = [calls EXCEPT ![Reads(t, k)] = Read(k, id)]
  BY DEF VerifyAgain, Sent
<1> HIDE DEF k, id
<1>4. Asks
  BY <1>1, <1>2, <1>3, AskingNothing, AskingRead DEF Asks
<1>5. tab' = [tab EXCEPT ![t] = tab[t]] /\ TabGood(tab[t])
  BY <1>3, TabsGood DEF link, LinkInv, LinkTypeOK
<1>6. GoodRecord(Stored(t), links, mints, rows) /\ acted' \in Nat
  BY <1>3, StoredGood DEF link, LinkInv, LinkTypeOK
<1> QED BY <1>3, <1>4, <1>5, <1>6, TabStep DEF link

-----------------------------------------------------------------------------
(* Looks applied, timers, and tabs that come and go.                       *)

\* A tab that is kicked, with failures and stales perhaps forgotten.
LEMMA KickGood == ASSUME NEW p, TabGood(p) PROVE TabGood(Kick(p))
  BY KickType DEF TabGood

LEMMA FreshGood ==
  ASSUME NEW p, TabGood(p)
  PROVE  /\ TabGood(Kick([p EXCEPT !.retry = FALSE]))
         /\ TabGood(Kick([p EXCEPT !.retry = FALSE, !.failures = 0, !.stales = 0]))
         /\ TabGood(Kick([p EXCEPT !.leading = TRUE, !.failures = 0, !.stales = 0]))
<1>1. 0 \in 0..Tries /\ 0 \in 0..StaleRounds
  BY LinkAssumption
<1>2. /\ TabGood([p EXCEPT !.retry = FALSE])
      /\ TabGood([p EXCEPT !.retry = FALSE, !.failures = 0, !.stales = 0])
      /\ TabGood([p EXCEPT !.leading = TRUE, !.failures = 0, !.stales = 0])
  BY <1>1 DEF TabGood, Tab
<1> QED BY <1>2, KickGood

LEMMA ApplyStep == ASSUME LinkInv, NEW d \in Devices, Apply(d) PROVE LinkInv' /\ Asks
<1>1. PICK l \in 1..MaxLooks : Applied(d, l)
  BY DEF Apply
<1>2. UNCHANGED <<look, calls, faults, setting, records, acted, closes>>
  BY <1>1 DEF Applied
<1>3. Asks
  BY <1>2, AskingNothing DEF Asks
<1>4. tab' \in [Tabs -> Tab] /\ \A t \in Tabs : TabGood(tab'[t])
  <2>1. \A t \in Tabs : tab'[t] \in {tab[t], Kick([tab[t] EXCEPT !.retry = FALSE, !.failures = 0, !.stales = 0])}
    BY <1>1 DEF Applied
  <2>2. \A t \in Tabs : TabGood(tab'[t])
    BY <2>1, TabsGood, FreshGood
  <2>3. tab' = [t \in Tabs |-> tab'[t]]
    BY <1>1 DEF Applied
  <2> QED BY <2>2, <2>3 DEF TabGood
<1>5. shown' \in [Devices -> 1..MaxLooks] /\ applies' \in Nat
  <2>1. shown' = [shown EXCEPT ![d] = l] /\ applies' = applies + 1
    BY <1>1 DEF Applied
  <2> QED BY <2>1 DEF LinkInv, LinkTypeOK
<1>6. \A e \in Devices : GoodRecord(records'[e], links, mints, rows)
  BY <1>2 DEF LinkInv, RecordsGood
<1> QED BY <1>2, <1>3, <1>4, <1>5, <1>6, LinkStep DEF LinkInv, LinkTypeOK

LEMMA KickedStep ==
  ASSUME LinkInv, NEW t \in Tabs, NEW p, TabGood(p), tab' = [tab EXCEPT ![t] = p],
         UNCHANGED <<look, calls, faults, setting, records, shown, applies, acted, closes>>
  PROVE  LinkInv' /\ Asks
<1>1. Asks
  BY AskingNothing DEF Asks
<1> QED BY <1>1, StoredGood, TabStep DEF LinkInv, LinkTypeOK

LEMMA TimerSteps == ASSUME LinkInv, NEW t \in Tabs, Retry(t) \/ Lead(t) PROVE LinkInv' /\ Asks
<1>1. TabGood(tab[t])
  BY TabsGood
<1>2. CASE Retry(t)
  BY <1>1, <1>2, FreshGood, KickedStep DEF Retry
<1>3. CASE Lead(t)
  BY <1>1, <1>3, FreshGood, KickedStep DEF Lead
<1> QED BY <1>2, <1>3

LEMMA NewTabGood == ASSUME LinkInv PROVE TabGood(NewTab)
<1>1. NewTab.pending <= mints
  BY LookAssumption DEF LinkInv, RowsInv, TypeOK, NewTab
<1> QED BY <1>1, NewTabType DEF TabGood

LEMMA StartStep == ASSUME LinkInv, NEW t \in Tabs, Start(t) PROVE LinkInv' /\ Asks
<1> DEFINE r == Stored(t)
           leading == ~Locks
           told == Resting(r)
           p == [NewTab EXCEPT !.on = "on", !.leading = leading, !.channel = r, !.told = told]
           p2 == IF p.leading /\ r # NoRecord /\ ~r.elsewhere THEN Kick(p) ELSE p
<1>1. r \in Record /\ GoodRecord(r, links, mints, rows) /\ told \in Told /\ leading \in BOOLEAN
  BY StoredGood, RestingType
<1>2. TabGood(p)
  <2> HIDE DEF r, told, leading
  <2> QED BY <1>1, NewTabGood DEF TabGood, Tab
<1>3. TabGood(p2)
  BY <1>2, KickGood
<1>4. /\ tab' = [tab EXCEPT ![t] = p2] /\ UNCHANGED <<look, faults, setting, records, shown, applies, acted, closes>>
      /\ calls' = IF t \in setting.readers /\ r.key # 0 THEN [calls EXCEPT ![Reads(t, r.key)] = Read(r.key, r.id)] ELSE calls
  BY DEF Start, Sent
<1>5. Asking(calls')
  <2>1. r.key # 0 => r.key \in Mints /\ r.key <= mints /\ r.id \in 0..MaxLinks
    BY <1>1, LookAssumption DEF GoodRecord, Record, Mints
  <2>2. r.key # 0 => Asking([calls EXCEPT ![Reads(t, r.key)] = Read(r.key, r.id)])
    BY <2>1, AskingNothing, AskingRead
  <2> QED BY <1>4, <2>2, AskingNothing
<1>6. Asks /\ acted' \in Nat
  BY <1>4, <1>5 DEF Asks, LinkInv, LinkTypeOK
<1> HIDE DEF p2, r
<1> QED BY <1>1, <1>3, <1>4, <1>6, TabStep

LEMMA SignOutStep == ASSUME LinkInv, NEW d \in Devices, SignOut(d) PROVE LinkInv' /\ Asks
<1> DEFINE Over(t) == [NewTab EXCEPT !.on = "stopped", !.loop = IF tab[t].loop = "sent" THEN "sent" ELSE "idle"]
<1>1. UNCHANGED <<look, calls, faults, setting, records, shown, applies, acted>>
  BY DEF SignOut
<1>2. Asks
  BY <1>1, AskingNothing DEF Asks
<1>3. \A loop \in {"idle", "sent"} : TabGood([NewTab EXCEPT !.on = "stopped", !.loop = loop])
  BY NewTabGood DEF TabGood, Tab
<1>4. \A t \in Tabs : TabGood(Over(t))
  BY <1>3
<1>5. tab' = [t \in Tabs |-> IF Home[t] # d \/ ~On(t) THEN tab[t] ELSE Over(t)]
  BY DEF SignOut
<1> HIDE DEF Over
<1>6. \A t \in Tabs : TabGood(tab'[t])
  BY <1>4, <1>5, TabsGood
<1>7. tab' \in [Tabs -> Tab]
  BY <1>5, <1>6 DEF TabGood
<1>8. closes' \in Nat /\ \A e \in Devices : GoodRecord(records'[e], links, mints, rows)
  <2>1. closes' = closes + 1
    BY DEF SignOut
  <2> QED BY <1>1, <2>1 DEF LinkInv, LinkTypeOK, RecordsGood
<1> QED BY <1>1, <1>2, <1>6, <1>7, <1>8, LinkStep DEF LinkInv, LinkTypeOK

LEMMA CloseStep == ASSUME LinkInv, NEW t \in Tabs, Close(t) PROVE LinkInv' /\ Asks
<1>1. UNCHANGED <<look, faults, setting, records, shown, applies, acted>>
  BY DEF Close
<1>2. Asks
  <2>1. calls' = [c \in Callers |-> IF c[1] = t THEN NoCall ELSE calls[c]]
    BY DEF Close
  <2> QED BY <1>1, <2>1, EmptyTypes DEF Asks, Asking, LinkInv, RowsInv, TypeOK
<1>3. tab' = [tab EXCEPT ![t] = NewTab] /\ closes' \in Nat
  BY DEF Close, LinkInv, LinkTypeOK
<1>4. tab' \in [Tabs -> Tab] /\ \A u \in Tabs : TabGood(tab'[u])
  BY <1>3, TabsGood, NewTabGood DEF LinkInv, LinkTypeOK, TabGood
<1>5. \A e \in Devices : GoodRecord(records'[e], links, mints, rows)
  BY <1>1 DEF LinkInv, RecordsGood
<1> QED BY <1>1, <1>2, <1>3, <1>4, <1>5, LinkStep DEF LinkInv, LinkTypeOK

-----------------------------------------------------------------------------

LEMMA LinkInit_Inv == LinkInit => LinkInv
<1> SUFFICES ASSUME LinkInit PROVE LinkInv
  OBVIOUS
<1>1. RowsInv /\ setting \in Settings
  BY RowsInit DEF LinkInit
<1> DEFINE p == [NewTab EXCEPT !.on = "on", !.leading = ~Locks]
<1>2. p \in Tab /\ p.pending = 0
  BY NewTabType DEF Tab, NewTab
<1>3. LinkTypeOK
  <2>1. 1 \in 1..MaxLooks
    BY LookAssumption
  <2>2. tab \in [Tabs -> Tab]
    <3> HIDE DEF p
    <3> QED BY <1>2 DEF LinkInit, p
  <2> QED BY <1>1, <2>1, <2>2, NoRecordType DEF LinkInit, LinkTypeOK, RowsInv
<1>4. \A c \in Callers : calls[c] = NoCall
  BY DEF LinkInit, Init
<1>5. 0 <= mints
  BY DEF LinkInit, Init
<1>6. CallKinds /\ AnswersSo
  <2>1. \A c \in Callers : Kind(c, NoCall) /\ So(NoCall, rows, pointers)
    BY DEF NoCall, So, Kind
  <2> QED BY <1>4, <2>1 DEF CallKinds, AnswersSo
<1>7. KeysGivenOut
  <2>1. NoCall.secret = 0 /\ NoCall.key = 0
    BY DEF NoCall
  <2>2. \A t \in Tabs : tab[t].pending = 0
    BY <1>2 DEF LinkInit
  <2> QED BY <1>4, <1>5, <2>1, <2>2 DEF KeysGivenOut
<1>8. RecordsGood
  <2>1. NoRecord.secret = 0 /\ NoRecord.key = 0
    BY DEF NoRecord
  <2> QED BY <1>5, <2>1, NoRecordType DEF RecordsGood, GoodRecord, LinkInit
<1> QED BY <1>1, <1>3, <1>6, <1>7, <1>8 DEF LinkInv

LEMMA LinkSteps == ASSUME LinkInv, LinkNext PROVE LinkInv' /\ Next
<1>1. ASSUME NEW t \in Tabs, Publisher(t) PROVE LinkInv' /\ Asks
  BY <1>1, OnceStep, PublishedStep, ActedStep, VerifiedStep, VerifyAgainStep, TimerSteps DEF Publisher
<1>2. ASSUME NEW t \in Tabs, Player(t) PROVE LinkInv' /\ Asks
  BY <1>2, MakeStep, AskedSteps, StartStep, CloseStep DEF Player
<1>3. ASSUME NEW c \in Callers, Serve(c) \/ Trouble(c), UNCHANGED link PROVE LinkInv' /\ Next
  BY <1>3, ServerStep DEF Next
<1>4. CASE Asks /\ LinkInv'
  BY <1>4, AsksStep DEF Next
<1> QED BY <1>1, <1>2, <1>3, <1>4, ApplyStep, SignOutStep DEF LinkNext

LEMMA LinkStays == ASSUME LinkInv, UNCHANGED allVars PROVE LinkInv' /\ UNCHANGED vars
<1>1. Asks /\ UNCHANGED vars
  BY AskingNothing DEF allVars, vars, Asks, look
<1> QED BY <1>1, TabsGood, LinkStep DEF allVars, link, LinkInv, LinkTypeOK, RecordsGood

LEMMA LinkInvariant == LinkSpec => []LinkInv
<1>1. LinkInv /\ [LinkNext]_allVars => LinkInv'
  BY LinkSteps, LinkStays
<1> QED BY <1>1, LinkInit_Inv, PTL DEF LinkSpec

\* Every variable of the devices, their tabs and the requests keeps its type, and a tab's counters their
\* bounds (publisher.ts, channelStore.ts).
THEOREM LinkTypeCorrect == LinkSpec => []LinkTypeOK
<1>1. LinkInv => LinkTypeOK
  BY DEF LinkInv
<1> QED BY <1>1, LinkInvariant, PTL

\* The tabs and their devices are callers such as the server expects: each of their steps takes an answer,
\* gives a request up or makes one, and what a request names has been given out (publisher.ts, api client).
THEOREM LinkImplements == LinkSpec => Spec
<1>1. LinkInit => Init
  BY DEF LinkInit
<1>2. LinkInv /\ [LinkNext]_allVars => [Next]_vars
  BY LinkSteps, LinkStays
<1> QED BY <1>1, <1>2, LinkInvariant, PTL DEF LinkSpec, Spec

\* So pointers and rows agree under what tabs ask (looks.ts relink, removeRow).
THEOREM LinkPointersAgree == LinkSpec => []PointersMatch
BY LinkImplements, PointersAgree, PTL

\* The count is the number of links, and within the cap (looks.ts create, removeRow).
THEOREM LinkCountCorrect == LinkSpec => []LiveCounts
BY LinkImplements, CountCorrect, PTL

\* A read shows what its key opens (lookRoutes.ts publicLook).
THEOREM LinkShownCorrect == LinkSpec => ShownByKey
BY LinkImplements, ShownCorrect, PTL

\* A device that holds its link never has a revision past the link's (publisher.ts once).
THEOREM NeverAheadHolds == LinkSpec => []NeverAhead
<1>1. LinkInv => NeverAhead
  BY DEF LinkInv, RecordsGood, GoodRecord, NeverAhead, Holds
<1> QED BY <1>1, LinkInvariant, PTL

\* A record that says another device publishes is of a link its device has lost (publisher.ts not-publisher).
THEOREM ElsewhereHolds == LinkSpec => []ElsewhereIsSo
<1>1. LinkInv => ElsewhereIsSo
  BY DEF LinkInv, RecordsGood, GoodRecord, ElsewhereIsSo, Holds
<1> QED BY <1>1, LinkInvariant, PTL

-----------------------------------------------------------------------------
(* What becomes of a stored record.                                        *)

LEMMA GoodId ==
  ASSUME LinkInv, NEW r, GoodRecord(r, links, mints, rows)
  PROVE  r \in Record /\ (r # NoRecord => r.id # 0) /\ NoRecord.id = 0 /\ NoRecord.key = 0
BY DEF GoodRecord, NoRecord, LinkInv, RowsInv, TypeOK

LEMMA PatchedKeeps ==
  ASSUME LinkInv, NEW r, GoodRecord(r, links, mints, rows), NEW q
  PROVE  Patched(r, q).key = r.key /\ Patched(r, q).id = r.id
<1>1. r \in Record
  BY GoodId
<1> QED BY <1>1 DEF Patched, Record

LEMMA LeftKeeps ==
  ASSUME LinkInv, NEW r, GoodRecord(r, links, mints, rows), NEW q \in Call, So(q, rows, pointers),
         Named(q, links, mints), q.op \in {"create", "transfer", "relink", "revoke"}
  PROVE  /\ r.key # 0 /\ Left(r, q) # NoRecord /\ Left(r, q).id = r.id => Left(r, q).key # 0
         /\ r # NoRecord /\ Left(r, q) = NoRecord /\ rows[r.id].there =>
              q.stage = "read" /\ q.out = "gone" /\ q.id = r.id /\ rows[r.id].key # q.saw
<1> DEFINE made == [NoRecord EXCEPT !.id = q.id, !.secret = q.secret, !.key = q.key]
           key == IF r.id = q.id THEN r.key ELSE 0
           moved == [NoRecord EXCEPT !.id = q.id, !.secret = q.secret, !.revision = q.revision, !.key = key]
           relinked == [r EXCEPT !.key = q.key]
<1>1. r \in Record /\ (r # NoRecord => r.id # 0) /\ NoRecord.id = 0 /\ NoRecord.key = 0
  BY GoodId
<1>2. 0 \notin 1..links
  BY DEF LinkInv, RowsInv, TypeOK
<1>3. CASE q.out \notin {"ok", "gone"}
  <2>1. Left(r, q) = r
    BY <1>3 DEF Left
  <2> QED BY <2>1
<1>4. CASE q.out \in {"ok", "gone"} /\ (q.op = "revoke" \/ q.out = "gone")
  <2>1. Left(r, q) = Forgot(r, q.id)
    BY <1>4 DEF Left
  <2>2. Left(r, q) = r \/ (Left(r, q) = NoRecord /\ r.id = q.id)
    BY <2>1 DEF Forgot
  <2>3. rows[q.id].there => q.stage = "read" /\ q.out = "gone" /\ rows[q.id].key # q.saw
    BY <1>4 DEF So
  <2> QED BY <2>2, <2>3
<1>5. CASE q.out = "ok" /\ q.op = "create"
  <2>1. Left(r, q) = made
    BY <1>5 DEF Left
  <2>2. made.id = q.id /\ made.key = q.key
    BY DEF NoRecord
  <2> HIDE DEF made
  <2>3. q.id \in 1..links /\ q.key # 0
    BY <1>5 DEF So, Named
  <2> QED BY <1>1, <1>2, <2>1, <2>2, <2>3
<1>6. CASE q.out = "ok" /\ q.op = "transfer"
  <2>1. Left(r, q) = moved
    BY <1>6 DEF Left
  <2>2. moved.id = q.id /\ moved.key = key
    BY DEF NoRecord
  <2> HIDE DEF moved
  <2>3. q.id \in 1..links
    BY <1>6 DEF So, Named
  <2> QED BY <1>1, <1>2, <2>1, <2>2, <2>3
<1>7. CASE q.out = "ok" /\ q.op = "relink"
  <2>1. Left(r, q) \in {r, relinked}
    BY <1>7 DEF Left
  <2>2. relinked.id = r.id /\ relinked.key = q.key
    BY <1>1 DEF Record
  <2> HIDE DEF relinked
  <2>3. q.key # 0
    BY <1>7 DEF So
  <2> QED BY <1>1, <2>1, <2>2, <2>3
<1> QED BY <1>3, <1>4, <1>5, <1>6, <1>7

\* The steps that write a record: a publish is answered, an action is, or a read that opens nothing is.
RecordWrites(t, r) ==
  \/ LET q == calls[Publishes(t)] IN
       /\ Has(Publishes(t)) /\ r = IF q.out = "gone" THEN Forgot(Stored(t), q.id) ELSE Patched(Stored(t), q)
  \/ Has(Action(t)) /\ r = Left(Stored(t), calls[Action(t)])
  \/ \E k \in Mints : /\ Has(Reads(t, k)) /\ calls[Reads(t, k)].out = "gone"
                      /\ r = Cleared(Stored(t), calls[Reads(t, k)])

LEMMA RecordSteps ==
  ASSUME LinkNext
  PROVE  UNCHANGED records \/ \E t \in Tabs : \E r : Kept(t, r) /\ RecordWrites(t, r)
<1>1. ASSUME NEW t \in Tabs, Published(t) PROVE UNCHANGED records \/ \E r : Kept(t, r) /\ RecordWrites(t, r)
  BY <1>1 DEF Published, RecordWrites
<1>2. ASSUME NEW t \in Tabs, Acted(t) PROVE \E r : Kept(t, r) /\ RecordWrites(t, r)
  BY <1>2 DEF Acted, RecordWrites
<1>3. ASSUME NEW t \in Tabs, NEW k \in Mints, Verified(t, k)
      PROVE  UNCHANGED records \/ \E r : Kept(t, r) /\ RecordWrites(t, r)
  BY <1>3 DEF Verified, RecordWrites
<1>4. ASSUME NEW t \in Tabs, Publisher(t) \/ Player(t)
      PROVE  UNCHANGED records \/ \E r : Kept(t, r) /\ RecordWrites(t, r)
  BY <1>1, <1>2, <1>3, <1>4 DEF Publisher, Player, Once, VerifyAgain, link, Retry, Lead, Make, UseThisDevice, NewLink,
     Forget, Start, Close
<1> QED BY <1>4 DEF LinkNext, link, Apply, Applied, SignOut

LEMMA RecordWritten ==
  ASSUME LinkInv, NEW t \in Tabs, NEW r, RecordWrites(t, r), NEW s, s = Stored(t)
  PROVE  /\ s.key # 0 /\ r # NoRecord /\ r.id = s.id /\ r.key = 0 => pointers[s.key] = 0
         /\ s # NoRecord /\ r = NoRecord /\ rows[s.id].there =>
              /\ calls[Action(t)].stage = "read" /\ calls[Action(t)].out = "gone"
              /\ calls[Action(t)].id = s.id /\ ~StillHolds(Action(t))
<1>1. GoodRecord(s, links, mints, rows)
  BY StoredGood
<1>2. s \in Record /\ (s # NoRecord => s.id # 0) /\ NoRecord.id = 0 /\ NoRecord.key = 0
  BY <1>1, GoodId
<1>3. CASE Has(Publishes(t)) /\ r \in {Forgot(s, calls[Publishes(t)].id), Patched(s, calls[Publishes(t)])}
           /\ (calls[Publishes(t)].out # "gone" => r = Patched(s, calls[Publishes(t)]))
  <2> DEFINE q == calls[Publishes(t)]
  <2>1. q \in Call /\ q.op = "publish" /\ So(q, rows, pointers)
    BY <1>3, OwnCallers, HasCall DEF Kind
  <2>2. q.out = "gone" => ~rows[q.id].there
    BY <2>1 DEF So
  <2>3. Patched(s, q).key = s.key /\ Patched(s, q).id = s.id
    BY <1>1, PatchedKeeps
  <2>4. Forgot(s, q.id) \in {s, NoRecord} /\ (Forgot(s, q.id) # s => s.id = q.id)
    BY DEF Forgot
  <2> HIDE DEF q
  <2>5. r = Patched(s, q) \/ (q.out = "gone" /\ r = Forgot(s, q.id))
    BY <1>3 DEF q
  <2> QED BY <1>2, <2>2, <2>3, <2>4, <2>5
<1>4. CASE Has(Action(t)) /\ r = Left(s, calls[Action(t)])
  <2> DEFINE q == calls[Action(t)]
  <2>1. q \in Call /\ q.op \in {"create", "transfer", "relink", "revoke"} /\ So(q, rows, pointers) /\ Named(q, links, mints)
    BY <1>4, OwnCallers, HasCall DEF Kind
  <2>2. /\ s.key # 0 /\ r # NoRecord /\ r.id = s.id => r.key # 0
        /\ s # NoRecord /\ r = NoRecord /\ rows[s.id].there =>
              q.stage = "read" /\ q.out = "gone" /\ q.id = s.id /\ rows[s.id].key # q.saw
    <3> HIDE DEF q
    <3> QED BY <1>1, <1>4, <2>1, LeftKeeps DEF q
  <2> QED BY <2>2 DEF StillHolds
<1>5. ASSUME NEW k \in Mints, Has(Reads(t, k)), calls[Reads(t, k)].out = "gone", r = Cleared(s, calls[Reads(t, k)])
      PROVE  /\ s.key # 0 /\ r.key = 0 => pointers[s.key] = 0
             /\ s # NoRecord => r # NoRecord
  <2> DEFINE q == calls[Reads(t, k)]
  <2>1. So(q, rows, pointers) /\ q.op = "read" /\ q.out = "gone"
    BY <1>5, ReadsCaller, HasCall DEF Kind
  <2>2. pointers[q.key] = 0
    BY <2>1 DEF So
  <2>3. [s EXCEPT !.key = 0].id = s.id
    BY <1>2 DEF Record
  <2> HIDE DEF q
  <2> QED BY <1>2, <1>5, <2>2, <2>3 DEF Cleared, q
<1> QED BY <1>3, <1>4, <1>5 DEF RecordWrites

\* A stored read key goes only once it opens nothing (publisher.ts verify).
THEOREM KeysKeptHolds == LinkSpec => KeysKept
<1> DEFINE Step == \A d \in Devices : records[d].key # 0 /\ records'[d] # NoRecord /\ records'[d].id = records[d].id
                                      /\ records'[d].key = 0 => pointers[records[d].key] = 0
<1>1. ASSUME LinkInv, LinkNext PROVE Step
  <2>1. ASSUME NEW t \in Tabs, NEW r, Kept(t, r), RecordWrites(t, r) PROVE Step
    <3>1. \A d \in Devices : records'[d] = IF d = Home[t] THEN r ELSE records[d]
      BY <1>1, <2>1 DEF Kept, LinkInv, LinkTypeOK
    <3> QED BY <1>1, <2>1, <3>1, RecordWritten DEF Stored
  <2> QED BY <1>1, <2>1, RecordSteps
<1>2. LinkInv /\ [LinkNext]_allVars => [Step]_allVars
  BY <1>1
<1> QED BY <1>2, LinkInvariant, PTL DEF LinkSpec, KeysKept

\* A record is forgotten only when its link is gone, or when a relink or a revoke of it came after another
\* (publisher.ts forget, lookRoutes.ts GONE).
THEOREM ForgottenHolds == LinkSpec => ForgottenIsGone
<1> DEFINE Step == \A d \in Devices : records[d] # NoRecord /\ records'[d] = NoRecord =>
       \/ ~rows[records[d].id].there
       \/ \E t \in Tabs : /\ Home[t] = d /\ calls[Action(t)].stage = "read" /\ calls[Action(t)].out = "gone"
                         /\ calls[Action(t)].id = records[d].id /\ ~StillHolds(Action(t))
<1>1. ASSUME LinkInv, LinkNext PROVE Step
  <2>1. ASSUME NEW t \in Tabs, NEW r, Kept(t, r), RecordWrites(t, r) PROVE Step
    <3>1. \A d \in Devices : records'[d] = IF d = Home[t] THEN r ELSE records[d]
      BY <1>1, <2>1 DEF Kept, LinkInv, LinkTypeOK
    <3>2. records[Home[t]] # NoRecord /\ r = NoRecord /\ rows[records[Home[t]].id].there =>
              /\ calls[Action(t)].stage = "read" /\ calls[Action(t)].out = "gone"
              /\ calls[Action(t)].id = records[Home[t]].id /\ ~StillHolds(Action(t))
      BY <1>1, <2>1, RecordWritten DEF Stored
    <3> QED BY <3>1, <3>2
  <2> QED BY <1>1, <2>1, RecordSteps
<1>2. LinkInv /\ [LinkNext]_allVars => [Step]_allVars
  BY <1>1
<1> QED BY <1>2, LinkInvariant, PTL DEF LinkSpec, ForgottenIsGone

-----------------------------------------------------------------------------
(* Looks applied in their order: none comes back.                          *)

\* A secret is one device's: no other has it stored, or sends it.
Bears(d, s) == records[d].secret = s \/ \E c \in Callers : Home[c[1]] = d /\ calls[c].secret = s
OneBearer   == \A s \in Mints : \A d, e \in Devices : Bears(d, s) /\ Bears(e, s) => d = e
SecretsSet  == \A i \in Links : rows[i].there => rows[i].secret # 0

ShownInOrder == \A d \in Devices : shown[d] <= applies + 1 /\ records[d].published <= shown[d]

\* A publish that may still be applied, one that was, and one from the device that holds its link.
InAir(q) == q.op = "publish" /\ q.stage = "asked" /\ q.out = ""
Taken(q) == q.op = "publish" /\ q.out = "ok"
Fits(q)  == rows[q.id].there /\ rows[q.id].secret = q.secret

SentInOrder == \A c \in Callers : calls[c].op = "publish" => calls[c].look <= shown[Home[c[1]]]

\* What a look that was applied left is not gone back from.
TakenInOrder ==
  \A c \in Callers : Taken(calls[c]) /\ Fits(calls[c]) =>
    calls[c].look <= rows[calls[c].id].look /\ rows[calls[c].id].look <= shown[Home[c[1]]]
ConfirmedInOrder ==
  \A d \in Devices : Holds(d) /\ records[d].published # 0 =>
    records[d].published <= rows[records[d].id].look /\ rows[records[d].id].look <= shown[d]

\* Nor will it be by one that is still to be applied.
NextInOrder ==
  \A c \in Callers : InAir(calls[c]) /\ Fits(calls[c]) /\ calls[c].base = rows[calls[c].id].revision =>
    /\ \A b \in Callers : Taken(calls[b]) /\ calls[b].id = calls[c].id /\ calls[b].secret = calls[c].secret
                            => calls[b].look <= calls[c].look
    /\ LET r == records[Home[c[1]]] IN
         Holds(Home[c[1]]) /\ r.id = calls[c].id => r.published <= calls[c].look

OrderInv ==
  OneBearer /\ SecretsSet /\ ShownInOrder /\ SentInOrder /\ TakenInOrder /\ ConfirmedInOrder /\ NextInOrder

LEMMA OrderTypes ==
  ASSUME LinkInv
  PROVE  /\ \A c \in Callers : c[1] \in Tabs /\ Home[c[1]] \in Devices /\ calls[c].look \in Nat
         /\ \A d \in Devices : shown[d] \in Nat /\ shown[d] >= 1 /\ records[d].published \in Nat
         /\ \A i \in Links : rows[i].look \in Nat
         /\ applies \in Nat
<1>1. \A c \in Callers : c[1] \in Tabs /\ Home[c[1]] \in Devices
  <2>1. \A c \in Callers : c[1] \in Tabs
    BY LinkAssumption
  <2> QED BY <2>1, Settled DEF LinkInv, LinkTypeOK
<1>2. \A c \in Callers : calls[c].look \in Nat
  BY LookAssumption DEF LinkInv, RowsInv, TypeOK, Call, Looks
<1>3. \A d \in Devices : shown[d] \in Nat /\ shown[d] >= 1 /\ records[d].published \in Nat
  BY LookAssumption DEF LinkInv, LinkTypeOK, Record, Looks
<1>4. \A i \in Links : rows[i].look \in Nat
  BY LookAssumption DEF LinkInv, RowsInv, TypeOK, Row, Looks
<1> QED BY <1>1, <1>2, <1>3, <1>4 DEF LinkInv, LinkTypeOK

\* Where requests and records point.
LEMMA OrderIds ==
  ASSUME LinkInv
  PROVE  /\ 1..links \subseteq Links /\ mints \in Nat
         /\ \A c \in Callers : calls[c].op = "publish" => calls[c].id \in 1..links /\ calls[c].secret <= mints
         /\ \A d \in Devices : Holds(d) => records[d].id \in 1..links /\ records[d].secret <= mints
<1>1. 1..links \subseteq Links /\ mints \in Nat
  BY LookAssumption DEF LinkInv, RowsInv, TypeOK, Links
<1>2. \A c \in Callers : calls[c].op = "publish" => calls[c].id \in 1..links /\ calls[c].secret <= mints
  BY DEF LinkInv, RowsInv, NamesGivenOut, Named, KeysGivenOut
<1>3. \A d \in Devices : Holds(d) => records[d].id \in 1..links /\ records[d].secret <= mints
  BY DEF LinkInv, RecordsGood, GoodRecord, Holds
<1> QED BY <1>1, <1>2, <1>3

LEMMA OrderInit == LinkInit => OrderInv
<1> SUFFICES ASSUME LinkInit PROVE OrderInv
  OBVIOUS
<1>1. /\ \A c \in Callers : calls[c] = NoCall
      /\ \A d \in Devices : records[d] = NoRecord /\ shown[d] = 1
      /\ \A i \in Links : rows[i] = NoRow
      /\ applies = 0
  BY DEF LinkInit, Init
<1>2. NoCall.op = "none" /\ NoCall.secret = 0 /\ NoRecord.secret = 0 /\ NoRecord.published = 0 /\ ~NoRow.there
  BY DEF NoCall, NoRecord, NoRow
<1>3. 0 \notin Mints
  BY DEF Mints
<1>4. OneBearer
  BY <1>1, <1>2, <1>3 DEF OneBearer, Bears
<1>5. SecretsSet
  BY <1>1, <1>2 DEF SecretsSet
<1>6. ShownInOrder
  BY <1>1, <1>2 DEF ShownInOrder
<1>7. SentInOrder /\ TakenInOrder /\ NextInOrder
  BY <1>1, <1>2 DEF SentInOrder, TakenInOrder, NextInOrder, InAir, Taken
<1>8. ConfirmedInOrder
  BY <1>1, <1>2 DEF ConfirmedInOrder, Holds
<1> QED BY <1>4, <1>5, <1>6, <1>7, <1>8 DEF OrderInv

-----------------------------------------------------------------------------
(* The server's steps.                                                     *)

\* A look goes in: the one step that changes what a row shows.
Lands(b) == Publish(b) /\ ~UNCHANGED rows

LEMMA RowsKept ==
  ASSUME RowsInv, NEW b \in Callers, Serve(b) \/ Trouble(b), ~Lands(b)
  PROVE  \A i \in 1..links : rows'[i].there /\ rows'[i].secret <= mints =>
           /\ rows[i].there /\ rows'[i].secret = rows[i].secret
           /\ rows'[i].look = rows[i].look /\ rows'[i].revision = rows[i].revision
<1>1. rows \in [Links -> Row] /\ links \in Nat /\ mints \in Nat /\ 1..links \subseteq Links /\ ~NoRow.there
  BY LookAssumption DEF RowsInv, TypeOK, Links, NoRow
<1>2. CASE UNCHANGED rows
  BY <1>2
<1>3. CASE Create(b) /\ ~UNCHANGED rows
  <2>1. \A i \in 1..links : i # links + 1
    BY <1>1
  <2>2. PICK row : rows' = [rows EXCEPT ![links + 1] = row]
    BY <1>3 DEF Create, look
  <2> QED BY <1>1, <2>1, <2>2
<1>4. CASE Transfer(b) /\ ~UNCHANGED rows
  <2>1. rows' = [rows EXCEPT ![calls[b].id].secret = mints + 1] /\ ~(mints + 1 <= mints)
    BY <1>1, <1>4 DEF Transfer, look
  <2>2. \A i \in 1..links : rows'[i] = rows[i] \/ rows'[i].secret = mints + 1
    BY <1>1, <2>1 DEF Row
  <2> QED BY <2>1, <2>2
<1>5. CASE Relink(b) /\ ~UNCHANGED rows
  <2>1. rows' = [rows EXCEPT ![calls[b].id].key = mints + 1]
    BY <1>5 DEF Relink, look
  <2> QED BY <1>1, <2>1 DEF Row
<1>6. CASE Revoke(b) /\ ~UNCHANGED rows
  <2>1. rows' = [rows EXCEPT ![calls[b].id] = NoRow]
    BY <1>6 DEF Revoke, look
  <2> QED BY <1>1, <2>1
<1> QED BY <1>2, <1>3, <1>4, <1>5, <1>6 DEF Lands, Serve, CreateRead, TransferRead,
     RelinkRead, ReadBack, ReadKey, PublishWhy, ReadPointer, ReadRow, Trouble, Drop, LoseAnswer, Limit, Faulty, look

\* A request put back with one of two secrets bears it.
LEMMA SecretKept ==
  ASSUME RowsInv, NEW b \in Callers, NEW q, calls' = [calls EXCEPT ![b] = q], q.secret \in {calls[b].secret, mints + 1}
  PROVE  /\ \A c \in Callers \ {b} : calls'[c] = calls[c]
         /\ calls'[b].secret \in {calls[b].secret, mints + 1}
BY DEF RowsInv, TypeOK

\* A request that is served bears the secret it did, or the one just minted.
LEMMA SecretServed ==
  ASSUME RowsInv, NEW b \in Callers, Serve(b) \/ Trouble(b)
  PROVE  /\ \A c \in Callers \ {b} : calls'[c] = calls[c]
         /\ calls'[b].secret \in {calls[b].secret, mints + 1}
<1>1. calls \in [Callers -> Call] /\ calls[b] \in Call
  BY DEF RowsInv, TypeOK
<1>2. CASE Create(b)
  BY <1>1, <1>2 DEF Create, Answer, Now, Call
<1>3. CASE Transfer(b)
  <2> DEFINE k == mints + 1
  <2>1. calls' \in {[calls EXCEPT ![b] = [calls[b] EXCEPT !.out = "gone"]],
                   [calls EXCEPT ![b] = [calls[b] EXCEPT !.stage = "wrote", !.secret = k]]}
    BY <1>3 DEF Transfer, Answer, Now
  <2> HIDE DEF k
  <2> QED BY <1>1, <2>1 DEF Call, k
<1>4. CASE CreateRead(b) \/ TransferRead(b) \/ RelinkRead(b)
  <2>1. PICK o, n : calls' = [calls EXCEPT ![b] = [calls[b] EXCEPT !.out = o, !.revision = n]]
    BY <1>4, Zenon DEF CreateRead, TransferRead, RelinkRead, ReadBack, Now
  <2> QED BY <1>1, <2>1, SecretKept DEF Call
<1>5. CASE ReadKey(b)
  BY <1>1, <1>5 DEF ReadKey, Now, Call
<1>6. CASE Relink(b)
  <2> DEFINE gone == [calls[b] EXCEPT !.out = "gone"]
             wrote == [calls[b] EXCEPT !.stage = "wrote", !.key = mints + 1]
  <2>1. calls' = [calls EXCEPT ![b] = gone] \/ calls' = [calls EXCEPT ![b] = wrote]
    BY <1>6, Zenon DEF Relink, Answer, Now
  <2>2. gone.secret = calls[b].secret /\ wrote.secret = calls[b].secret
    BY <1>1 DEF Call
  <2> HIDE DEF gone, wrote
  <2> QED BY <2>1, <2>2, SecretKept
<1>7. CASE Revoke(b)
  BY <1>1, <1>7 DEF Revoke, Answer, Now, Call
<1>8. CASE Publish(b)
  <2> DEFINE ok(n) == [calls[b] EXCEPT !.out = "ok", !.revision = n]
             refused == [calls[b] EXCEPT !.stage = "refused"]
  <2>1. (\E n : calls' = [calls EXCEPT ![b] = ok(n)]) \/ calls' = [calls EXCEPT ![b] = refused]
    BY <1>8, Zenon DEF Publish, Now
  <2>2. (\A n : ok(n).secret = calls[b].secret) /\ refused.secret = calls[b].secret
    BY <1>1 DEF Call
  <2> HIDE DEF ok, refused
  <2> QED BY <2>1, <2>2, SecretKept
<1>9. CASE PublishWhy(b)
  BY <1>1, <1>9 DEF PublishWhy, Now, Call
<1>10. CASE ReadPointer(b) \/ ReadRow(b)
  <2> DEFINE gone == [calls[b] EXCEPT !.out = "gone"]
             saw(n) == [calls[b] EXCEPT !.stage = "read", !.saw = n]
             got(n, o) == [calls[b] EXCEPT !.look = n, !.out = o]
  <2>1. \/ calls' = [calls EXCEPT ![b] = gone]
        \/ \E n : calls' = [calls EXCEPT ![b] = saw(n)]
        \/ \E n, o : calls' = [calls EXCEPT ![b] = got(n, o)]
    BY <1>10, Zenon DEF ReadPointer, ReadRow, Now
  <2>2. gone.secret = calls[b].secret /\ \A n, o : saw(n).secret = calls[b].secret /\ got(n, o).secret = calls[b].secret
    BY <1>1 DEF Call
  <2> HIDE DEF gone, saw, got
  <2> QED BY <2>1, <2>2, SecretKept
<1>11. CASE Trouble(b)
  BY <1>1, <1>11 DEF Trouble, Drop, LoseAnswer, Limit, Faulty, Answer, Now, Call
<1> QED BY <1>2, <1>3, <1>4, <1>5, <1>6, <1>7, <1>8, <1>9, <1>10, <1>11 DEF Serve

LEMMA BearerServed ==
  ASSUME LinkInv, OneBearer, NEW b \in Callers, Serve(b) \/ Trouble(b), UNCHANGED link
  PROVE  OneBearer'
<1>1. /\ \A c \in Callers \ {b} : calls'[c] = calls[c]
      /\ calls'[b].secret \in {calls[b].secret, mints + 1}
  BY SecretServed DEF LinkInv
<1>2. Home' = Home /\ records' = records
  BY DEF Home, link
<1>3. ASSUME NEW d \in Devices, Bears(d, mints + 1) PROVE FALSE
  <2>1. mints \in Nat /\ ~(mints + 1 <= mints)
    BY LookAssumption DEF LinkInv, RowsInv, TypeOK
  <2> QED BY <1>3, <2>1 DEF Bears, LinkInv, KeysGivenOut, RecordsGood, GoodRecord
<1>4. ASSUME NEW s \in Mints, NEW d \in Devices, Bears(d, s)'
      PROVE  Bears(d, s) \/ (s = mints + 1 /\ d = Home[b[1]])
  BY <1>1, <1>2, <1>4 DEF Bears
<1> QED BY <1>3, <1>4 DEF OneBearer

LEMMA SecretsServed ==
  ASSUME LinkInv, SecretsSet, NEW b \in Callers, Serve(b) \/ Trouble(b)
  PROVE  SecretsSet'
<1>1. RowsInv' /\ Grown
  BY IsReady
<1>2. links \in Nat /\ mints \in Nat /\ \A i \in Links : i \in 1..links \/ i > links
  BY LookAssumption DEF LinkInv, RowsInv, TypeOK, Links
<1>3. ASSUME NEW i \in Links, rows'[i].there PROVE rows'[i].secret # 0
  <2>1. CASE i \in 1..links
    <3>1. rows[i].there /\ (rows'[i].secret = rows[i].secret \/ rows'[i].secret > mints)
      BY <1>1, <1>3, <2>1 DEF Grown
    <3>2. ~(0 > mints)
      BY <1>2
    <3> QED BY <3>1, <3>2 DEF SecretsSet
  <2>2. CASE i > links /\ Create(b) /\ ~UNCHANGED look
    <3>1. i <= links' /\ links' = links + 1
      BY <1>1, <1>3, <2>2 DEF RowsInv, GivenOut, Create
    <3>2. i = links + 1
      BY <1>2, <2>2, <3>1 DEF Links
    <3>3. rows'[i].secret = mints + 1
      BY <2>2, <3>2 DEF Create, LinkInv, RowsInv, TypeOK
    <3> QED BY <1>2, <3>3
  <2>3. CASE i > links /\ ~(Create(b) /\ ~UNCHANGED look)
    <3>1. links' = links
      BY <2>3 DEF Serve, Create, CreateRead, Transfer, TransferRead, Relink, Revoke, Publish, RelinkRead, ReadBack, ReadKey,
         PublishWhy, ReadPointer, ReadRow, Trouble, Drop, LoseAnswer, Limit, Faulty, look
    <3>2. i <= links
      BY <1>1, <1>3, <3>1 DEF RowsInv, GivenOut
    <3> QED BY <1>2, <2>3, <3>2 DEF Links
  <2> QED BY <1>2, <2>1, <2>2, <2>3
<1> QED BY <1>3 DEF SecretsSet

\* A publish that is served and does not land never will, and has not.
LEMMA CallsKept ==
  ASSUME LinkInv, NEW b \in Callers, Serve(b) \/ Trouble(b), ~Lands(b), calls'[b].op = "publish"
  PROVE  calls[b].op = "publish" /\ calls'[b].look = calls[b].look /\ ~InAir(calls'[b]) /\ ~Taken(calls'[b])
<1>1. calls \in [Callers -> Call] /\ calls[b] \in Call
  BY DEF LinkInv, RowsInv, TypeOK
<1>2. calls[b].op = "publish"
  <2>1. PICK q \in Call : Serves(b, q)
    BY IsReady, ServerServes
  <2> QED BY <1>1, <2>1 DEF Serves, Served
<1>3. Publish(b) \/ PublishWhy(b) \/ Trouble(b)
  BY <1>2 DEF Serve, Create, CreateRead, Transfer, TransferRead, ReadKey, Relink, RelinkRead, Revoke, ReadPointer, ReadRow, At
<1>4. CASE Publish(b)
  <2>1. UNCHANGED rows
    BY <1>4 DEF Lands
  <2>2. rows[calls[b].id].there /\ rows[calls[b].id].revision = calls[b].base =>
          [rows EXCEPT ![calls[b].id].revision = calls[b].base + 1, ![calls[b].id].look = calls[b].look] # rows
    <3> DEFINE i == calls[b].id
               new == [rows EXCEPT ![i].revision = calls[b].base + 1, ![i].look = calls[b].look]
    <3>1. i \in Links /\ rows[i] \in Row /\ calls[b].base \in Nat /\ rows \in [Links -> Row]
      <4>1. i \in Links /\ rows[i] \in Row
        BY <1>4, Arrived DEF Publish, Named, LinkInv
      <4> QED BY <1>1, <4>1 DEF LinkInv, RowsInv, TypeOK, Call
    <3>2. new[i].revision = calls[b].base + 1
      BY <3>1 DEF Row
    <3>3. calls[b].base + 1 # calls[b].base
      BY <3>1
    <3> QED BY <3>2, <3>3
  <2>3. calls' = [calls EXCEPT ![b] = [calls[b] EXCEPT !.stage = "refused"]] /\ calls[b].out = ""
    BY <1>4, <2>1, <2>2 DEF Publish, Now, At
  <2> QED BY <1>1, <1>2, <2>3 DEF Call, InAir, Taken
<1>5. CASE PublishWhy(b)
  BY <1>1, <1>2, <1>5 DEF PublishWhy, Now, Call, InAir, Taken
<1>6. CASE Trouble(b)
  BY <1>1, <1>2, <1>6 DEF Trouble, Drop, LoseAnswer, Limit, Faulty, Answer, Now, Call, InAir, Taken
<1> QED BY <1>3, <1>4, <1>5, <1>6

\* A step of the server at which no look lands.
LEMMA ServedOrder ==
  ASSUME LinkInv, OrderInv, NEW b \in Callers, Serve(b) \/ Trouble(b), ~Lands(b), UNCHANGED link
  PROVE  OrderInv'
<1>1. OneBearer' /\ SecretsSet'
  BY BearerServed, SecretsServed DEF OrderInv
<1>2. Home' = Home /\ records' = records /\ shown' = shown /\ applies' = applies
  BY DEF Home, link
<1>3. ShownInOrder'
  BY <1>2 DEF OrderInv, ShownInOrder
<1>4. /\ \A c \in Callers \ {b} : calls'[c] = calls[c]
      /\ calls'[b].op = "publish" =>
           calls[b].op = "publish" /\ calls'[b].look = calls[b].look /\ ~InAir(calls'[b]) /\ ~Taken(calls'[b])
  BY SecretServed, CallsKept DEF LinkInv
<1>5. /\ \A i \in 1..links : rows'[i].there /\ rows'[i].secret <= mints =>
           /\ rows[i].there /\ rows'[i].secret = rows[i].secret
           /\ rows'[i].look = rows[i].look /\ rows'[i].revision = rows[i].revision
  BY RowsKept DEF LinkInv
<1>6. \A c \in Callers : Taken(calls'[c]) \/ InAir(calls'[c]) => c # b /\ calls'[c] = calls[c]
  BY <1>4 DEF Taken, InAir
<1>7. \A c \in Callers : calls[c].op = "publish" /\ Fits(calls[c])' => c = b \/
        /\ Fits(calls[c]) /\ rows'[calls[c].id].look = rows[calls[c].id].look
        /\ rows'[calls[c].id].revision = rows[calls[c].id].revision
  BY <1>4, <1>5, OrderIds DEF Fits
<1>8. \A d \in Devices : Holds(d)' => Holds(d) /\ rows'[records[d].id].look = rows[records[d].id].look
  <2> SUFFICES ASSUME NEW d \in Devices, Holds(d)'
               PROVE  Holds(d) /\ rows'[records[d].id].look = rows[records[d].id].look
    OBVIOUS
  <2>1. /\ records[d] # NoRecord /\ rows'[records[d].id].there /\ rows'[records[d].id].secret = records[d].secret
    BY <1>2 DEF Holds
  <2>2. records[d].id \in 1..links /\ records[d].secret <= mints
    BY <2>1 DEF LinkInv, RecordsGood, GoodRecord
  <2> QED BY <1>5, <2>1, <2>2 DEF Holds
<1>9. SentInOrder'
  BY <1>2, <1>4 DEF OrderInv, SentInOrder
<1>10. TakenInOrder'
  BY <1>2, <1>6, <1>7 DEF OrderInv, TakenInOrder, Taken
<1>11. ConfirmedInOrder'
  BY <1>2, <1>8 DEF OrderInv, ConfirmedInOrder
<1>12. NextInOrder'
  <2> SUFFICES ASSUME NEW c \in Callers, InAir(calls'[c]), Fits(calls[c])', calls'[c].base = rows'[calls'[c].id].revision
               PROVE  /\ \A a \in Callers : Taken(calls'[a]) /\ calls'[a].id = calls'[c].id /\ calls'[a].secret = calls'[c].secret
                                              => calls'[a].look <= calls'[c].look
                      /\ Holds(Home[c[1]])' /\ records'[Home[c[1]]].id = calls'[c].id =>
                           records'[Home[c[1]]].published <= calls'[c].look
    BY <1>2 DEF NextInOrder
  <2>1. calls'[c] = calls[c] /\ c # b /\ InAir(calls[c])
    BY <1>6
  <2>2. Fits(calls[c]) /\ calls[c].base = rows[calls[c].id].revision
    BY <1>7, <2>1 DEF InAir
  <2>3. Home[c[1]] \in Devices
    BY OrderTypes
  <2> QED BY <1>2, <1>6, <1>8, <2>1, <2>2, <2>3 DEF OrderInv, NextInOrder
<1> QED BY <1>1, <1>3, <1>9, <1>10, <1>11, <1>12 DEF OrderInv

\* A publish that lands was in the air, on its link's revision and with its secret; then it is taken.
LEMMA LandsShape ==
  ASSUME LinkInv, NEW b \in Callers, Lands(b)
  PROVE  /\ InAir(calls[b]) /\ Fits(calls[b]) /\ calls[b].base = rows[calls[b].id].revision
         /\ calls[b].id \in Links /\ calls[b].id \in 1..links
         /\ Taken(calls'[b]) /\ ~InAir(calls'[b]) /\ calls'[b].look = calls[b].look /\ calls'[b].id = calls[b].id
         /\ calls'[b].secret = calls[b].secret
         /\ rows'[calls[b].id].look = calls[b].look /\ rows'[calls[b].id].secret = calls[b].secret
         /\ rows'[calls[b].id].revision = calls[b].base + 1
         /\ \A i \in Links : i # calls[b].id => rows'[i] = rows[i]
         /\ \A i \in Links : rows'[i].there = rows[i].there /\ rows'[i].secret = rows[i].secret
<1> DEFINE q == calls[b]
           next == q.base + 1
           row == [rows[q.id] EXCEPT !.revision = next, !.look = q.look]
           yes == [q EXCEPT !.out = "ok", !.revision = next]
<1>1. q \in Call /\ q.id \in 1..links /\ q.id \in Links /\ rows[q.id] \in Row /\ rows \in [Links -> Row] /\ calls \in [Callers -> Call]
  BY Arrived DEF Lands, Publish, Named, LinkInv, RowsInv, TypeOK
<1>2. /\ InAir(q) /\ Fits(q) /\ q.base = rows[q.id].revision
      /\ rows' = [rows EXCEPT ![q.id] = row] /\ calls' = [calls EXCEPT ![b] = yes]
  BY DEF Lands, Publish, At, Now, InAir, Fits
<1> HIDE DEF next
<1>3. row.revision = next /\ row.look = q.look /\ row.there = rows[q.id].there /\ row.secret = rows[q.id].secret
  BY <1>1 DEF Row
<1>4. yes.op = q.op /\ yes.out = "ok" /\ yes.id = q.id /\ yes.secret = q.secret /\ yes.look = q.look
  BY <1>1 DEF Call
<1> HIDE DEF row, yes
<1>5. Taken(yes) /\ ~InAir(yes)
  BY <1>2, <1>4 DEF Taken, InAir
<1> QED BY <1>1, <1>2, <1>3, <1>4, <1>5 DEF next, Fits

\* Who bears the secret of a link that is there is its device.
LEMMA BearersMeet ==
  ASSUME LinkInv, OrderInv, NEW b \in Callers, Fits(calls[b]), calls[b].op = "publish"
  PROVE  /\ \A c \in Callers : calls[c].secret = calls[b].secret => Home[c[1]] = Home[b[1]]
         /\ \A d \in Devices : records[d].secret = calls[b].secret => d = Home[b[1]]
<1>1. calls[b].secret \in Mints
  <2>1. calls[b].id \in Links /\ calls[b].secret \in 0..MaxMints
    BY OrderIds DEF LinkInv, RowsInv, TypeOK, Call
  <2>2. calls[b].secret # 0
    BY <2>1 DEF Fits, OrderInv, SecretsSet
  <2> QED BY <2>1, <2>2, LookAssumption DEF Mints
<1>2. \A c \in Callers : Home[c[1]] \in Devices
  BY OrderTypes
<1>3. Bears(Home[b[1]], calls[b].secret)
  BY DEF Bears
<1>4. /\ \A c \in Callers : calls[c].secret = calls[b].secret => Bears(Home[c[1]], calls[b].secret)
      /\ \A d \in Devices : records[d].secret = calls[b].secret => Bears(d, calls[b].secret)
  BY DEF Bears
<1> QED BY <1>1, <1>2, <1>3, <1>4 DEF OrderInv, OneBearer

LEMMA LandsOrder ==
  ASSUME LinkInv, OrderInv, NEW b \in Callers, Lands(b), UNCHANGED link
  PROVE  OrderInv'
<1> DEFINE q == calls[b]
           i == q.id
           d == Home[b[1]]
<1>0. Serve(b)
  BY DEF Lands, Serve
<1>1. OneBearer' /\ SecretsSet'
  BY <1>0, BearerServed, SecretsServed DEF OrderInv
<1>2. Home' = Home /\ records' = records /\ shown' = shown /\ applies' = applies
  BY DEF Home, link
<1>3. ShownInOrder'
  BY <1>2 DEF OrderInv, ShownInOrder
<1>4. \A c \in Callers \ {b} : calls'[c] = calls[c]
  BY <1>0, SecretServed DEF LinkInv
<1>5. /\ InAir(q) /\ Fits(q) /\ q.base = rows[i].revision /\ i \in Links /\ i \in 1..links /\ q.op = "publish"
      /\ Taken(calls'[b]) /\ ~InAir(calls'[b]) /\ calls'[b].look = q.look /\ calls'[b].id = i
      /\ calls'[b].secret = q.secret
      /\ rows'[i].look = q.look /\ rows'[i].secret = q.secret /\ rows'[i].revision = q.base + 1
      /\ \A j \in Links : j # i => rows'[j] = rows[j]
      /\ \A j \in Links : rows'[j].there = rows[j].there /\ rows'[j].secret = rows[j].secret
  BY LandsShape DEF InAir
<1>6. d \in Devices /\ shown[d] \in Nat /\ q.look \in Nat /\ q.look <= shown[d] /\ q.look <= q.look
  BY <1>5, OrderTypes DEF OrderInv, SentInOrder
<1>7. \A c \in Callers : calls[c].secret = q.secret => Home[c[1]] = d
  BY <1>5, BearersMeet
<1>8. \A e \in Devices : records[e].secret = q.secret => e = d
  BY <1>5, BearersMeet
<1>9. /\ \A c \in Callers : Taken(calls[c]) /\ calls[c].id = i /\ calls[c].secret = q.secret => calls[c].look <= q.look
      /\ Holds(d) /\ records[d].id = i => records[d].published <= q.look
  BY <1>5 DEF OrderInv, NextInOrder
<1>10. \A c \in Callers : calls[c].op = "publish" => calls[c].id \in Links
  BY OrderIds
<1>11. \A e \in Devices : Holds(e)' => Holds(e) /\ records[e].id \in Links
  <2> SUFFICES ASSUME NEW e \in Devices, Holds(e)' PROVE Holds(e) /\ records[e].id \in Links
    OBVIOUS
  <2>1. records[e] # NoRecord /\ rows'[records[e].id].there /\ rows'[records[e].id].secret = records[e].secret
    BY <1>2 DEF Holds
  <2>2. records[e].id \in Links
    BY <2>1, OrderIds DEF LinkInv, RecordsGood, GoodRecord
  <2> QED BY <1>5, <2>1, <2>2 DEF Holds
<1> HIDE DEF q, i, d
<1>12. SentInOrder'
  <2> SUFFICES ASSUME NEW c \in Callers, calls'[c].op = "publish" PROVE calls'[c].look <= shown[Home[c[1]]]
    BY <1>2 DEF SentInOrder
  <2>1. CASE c = b
    BY <1>5, <1>6, <2>1 DEF d
  <2>2. CASE c # b
    BY <1>4, <2>2 DEF OrderInv, SentInOrder
  <2> QED BY <2>1, <2>2
<1>13. TakenInOrder'
  <2> SUFFICES ASSUME NEW c \in Callers, Taken(calls'[c]), Fits(calls[c])'
               PROVE  calls'[c].look <= rows'[calls'[c].id].look /\ rows'[calls'[c].id].look <= shown[Home[c[1]]]
    BY <1>2 DEF TakenInOrder
  <2>1. CASE c = b
    BY <1>5, <1>6, <2>1 DEF d
  <2>2. CASE c # b
    <3>1. calls'[c] = calls[c] /\ Taken(calls[c]) /\ calls[c].id \in Links
      BY <1>4, <1>10, <2>2 DEF Taken
    <3>2. Fits(calls[c])
      BY <1>5, <3>1 DEF Fits
    <3>3. CASE calls[c].id # i
      BY <1>5, <3>1, <3>2, <3>3 DEF OrderInv, TakenInOrder
    <3>4. CASE calls[c].id = i
      <4>1. calls[c].secret = q.secret
        BY <1>5, <3>2, <3>4 DEF Fits, i
      <4> QED BY <1>5, <1>6, <1>7, <1>9, <3>1, <3>4, <4>1
    <3> QED BY <3>3, <3>4
  <2> QED BY <2>1, <2>2
<1>14. ConfirmedInOrder'
  <2> SUFFICES ASSUME NEW e \in Devices, Holds(e)', records[e].published # 0
               PROVE  records[e].published <= rows'[records[e].id].look /\ rows'[records[e].id].look <= shown[e]
    BY <1>2 DEF ConfirmedInOrder
  <2>1. Holds(e) /\ records[e].id \in Links
    BY <1>11
  <2>2. CASE records[e].id # i
    BY <1>5, <2>1, <2>2 DEF OrderInv, ConfirmedInOrder
  <2>3. CASE records[e].id = i
    <3>1. records[e].secret = q.secret
      BY <1>5, <2>1, <2>3 DEF Holds, Fits, i
    <3>2. e = d
      BY <1>8, <3>1
    <3> QED BY <1>5, <1>6, <1>9, <2>1, <2>3, <3>2
  <2> QED BY <2>2, <2>3
<1>15. NextInOrder'
  <2> SUFFICES ASSUME NEW c \in Callers, InAir(calls'[c]), Fits(calls[c])', calls'[c].base = rows'[calls'[c].id].revision
               PROVE  /\ \A a \in Callers : Taken(calls'[a]) /\ calls'[a].id = calls'[c].id /\ calls'[a].secret = calls'[c].secret
                                              => calls'[a].look <= calls'[c].look
                      /\ Holds(Home[c[1]])' /\ records[Home[c[1]]].id = calls'[c].id =>
                           records[Home[c[1]]].published <= calls'[c].look
    BY <1>2 DEF NextInOrder
  <2>1. calls'[c] = calls[c] /\ c # b /\ InAir(calls[c])
    BY <1>4, <1>5
  <2>2. calls[c].op = "publish" /\ calls[c].id \in Links /\ Fits(calls[c]) /\ Home[c[1]] \in Devices
    <3>1. calls[c].op = "publish" /\ calls[c].id \in Links /\ Home[c[1]] \in Devices
      BY <1>10, <2>1, OrderTypes DEF InAir
    <3>2. rows'[calls[c].id].there /\ rows'[calls[c].id].secret = calls[c].secret
      BY <2>1 DEF Fits
    <3>3. rows'[calls[c].id].there = rows[calls[c].id].there /\ rows'[calls[c].id].secret = rows[calls[c].id].secret
      BY <1>5, <3>1
    <3> QED BY <2>1, <3>1, <3>2, <3>3, Zenon DEF Fits
  <2>3. calls[c].id # i
    <3> SUFFICES ASSUME calls[c].id = i PROVE FALSE
      OBVIOUS
    <3>1. calls[c].base <= rows[i].revision
      BY <2>1, <2>2 DEF LinkInv, AnswersSo, So, InAir, Fits
    <3>2. calls[c].base = q.base + 1 /\ rows[i].revision = q.base /\ q.base \in Nat
      <4>1. rows[i].revision \in Nat
        BY <1>5 DEF LinkInv, RowsInv, TypeOK, Row
      <4> QED BY <1>5, <2>1, <4>1
    <3> QED BY <3>1, <3>2
  <2>4. calls[c].base = rows[calls[c].id].revision
    BY <1>5, <2>1, <2>2, <2>3
  <2>5. /\ \A a \in Callers : Taken(calls[a]) /\ calls[a].id = calls[c].id /\ calls[a].secret = calls[c].secret
                                              => calls[a].look <= calls[c].look
        /\ Holds(Home[c[1]]) /\ records[Home[c[1]]].id = calls[c].id =>
                           records[Home[c[1]]].published <= calls[c].look
    BY <2>1, <2>2, <2>4 DEF OrderInv, NextInOrder
  <2>6. \A a \in Callers : calls'[a].id = calls[c].id => a # b /\ calls'[a] = calls[a]
    BY <1>4, <1>5, <2>3
  <2> QED BY <1>2, <1>11, <2>1, <2>2, <2>5, <2>6
<1> QED BY <1>1, <1>3, <1>12, <1>13, <1>14, <1>15 DEF OrderInv

LEMMA ServerOrder ==
  ASSUME LinkInv, OrderInv, NEW b \in Callers, Serve(b) \/ Trouble(b), UNCHANGED link
  PROVE  OrderInv'
BY ServedOrder, LandsOrder

-----------------------------------------------------------------------------
(* The tabs' steps.                                                        *)

\* A request that is no publish, or as it was; and a publish from the stored record of the tab's device.
Plain(c, q) == q = calls[c] \/ (q.op # "publish" /\ q.secret = 0)
Sends(c, q) ==
  LET d == Home[c[1]] IN
  /\ q.op = "publish" /\ q.out = "" /\ q.look = shown[d]
  /\ q.id = records[d].id /\ q.secret = records[d].secret

\* A record of a link made or moved, one confirmed as it was, and one that a publish of the device confirms.
Ordered(d, r) ==
  \/ r.published = 0 /\ (r.secret = 0 \/ \E c \in Callers : Home[c[1]] = d /\ calls[c].secret = r.secret)
  \/ /\ records[d] # NoRecord
     /\ r.id = records[d].id /\ r.secret = records[d].secret /\ r.published = records[d].published
  \/ \E c \in Callers : /\ Home[c[1]] = d /\ Taken(calls[c])
                        /\ r.id = calls[c].id /\ r.secret = calls[c].secret /\ r.published = calls[c].look

LEMMA TabOrder ==
  ASSUME LinkInv, OrderInv, UNCHANGED <<look, setting, shown, applies>>,
         \A c \in Callers : Plain(c, calls'[c]) \/ (Sends(c, calls'[c]) /\ UNCHANGED records),
         \A d \in Devices : Ordered(d, records'[d])
  PROVE  OrderInv'
<1>1. Home' = Home /\ rows' = rows /\ shown' = shown /\ applies' = applies
  BY DEF Home, look
<1>2. 0 \notin Mints /\ \A c \in Callers : Home[c[1]] \in Devices /\ calls[c].look \in Nat
  BY OrderTypes DEF Mints
<1>3. \A d \in Devices : shown[d] \in Nat /\ records[d].published \in Nat /\ 0 <= shown[d] /\ shown[d] <= shown[d]
  BY OrderTypes
<1>4. /\ \A c \in Callers : Taken(calls'[c]) => calls'[c] = calls[c]
      /\ \A c \in Callers : calls'[c].op = "publish" => calls'[c] = calls[c] \/ (Sends(c, calls'[c]) /\ records' = records)
  BY DEF Plain, Sends, Taken
<1>5. OneBearer'
  <2>1. ASSUME NEW s \in Mints, NEW d \in Devices, Bears(d, s)' PROVE Bears(d, s)
    <3>1. s # 0
      BY <1>2
    <3>2. CASE records'[d].secret = s
      BY <3>1, <3>2 DEF Ordered, Bears
    <3>3. CASE \E c \in Callers : Home[c[1]] = d /\ calls'[c].secret = s
      BY <3>1, <3>3 DEF Plain, Sends, Bears
    <3> QED BY <1>1, <2>1, <3>2, <3>3 DEF Bears
  <2> QED BY <2>1 DEF OneBearer, OrderInv
<1>6. SecretsSet'
  BY <1>1 DEF OrderInv, SecretsSet
<1>7. ShownInOrder'
  <2> SUFFICES ASSUME NEW d \in Devices PROVE records'[d].published <= shown[d]
    BY <1>1 DEF OrderInv, ShownInOrder
  <2>1. records[d].published <= shown[d]
    BY DEF OrderInv, ShownInOrder
  <2>2. \A c \in Callers : Home[c[1]] = d /\ Taken(calls[c]) => calls[c].look <= shown[d]
    BY DEF OrderInv, SentInOrder, Taken
  <2> QED BY <1>3, <2>1, <2>2 DEF Ordered
<1>8. SentInOrder'
  <2> SUFFICES ASSUME NEW c \in Callers, calls'[c].op = "publish" PROVE calls'[c].look <= shown[Home[c[1]]]
    BY <1>1 DEF SentInOrder
  <2> QED BY <1>2, <1>3, <1>4 DEF OrderInv, SentInOrder, Sends
<1>9. TakenInOrder'
  <2> SUFFICES ASSUME NEW c \in Callers, Taken(calls'[c]), Fits(calls[c])'
               PROVE  calls'[c].look <= rows[calls'[c].id].look /\ rows[calls'[c].id].look <= shown[Home[c[1]]]
    BY <1>1 DEF TakenInOrder
  <2>1. calls'[c] = calls[c] /\ Fits(calls[c])
    BY <1>1, <1>4 DEF Fits
  <2> QED BY <2>1 DEF OrderInv, TakenInOrder
\* A device that holds its link held it before, and had the same look confirmed; or a publish of its own confirms one.
<1>10. ASSUME NEW d \in Devices, Holds(d)'
       PROVE  \/ records'[d].published = 0
              \/ Holds(d) /\ records'[d].id = records[d].id /\ records'[d].published = records[d].published
              \/ \E c \in Callers : /\ Home[c[1]] = d /\ Taken(calls[c]) /\ Fits(calls[c]) /\ records'[d].id = calls[c].id
                                    /\ calls[c].secret = rows[calls[c].id].secret /\ records'[d].published = calls[c].look
  BY <1>1, <1>10 DEF Ordered, Holds, Fits
<1>11. ConfirmedInOrder'
  <2> SUFFICES ASSUME NEW d \in Devices, Holds(d)', records'[d].published # 0
               PROVE  records'[d].published <= rows[records'[d].id].look /\ rows[records'[d].id].look <= shown[d]
    BY <1>1 DEF ConfirmedInOrder
  <2> QED BY <1>10 DEF OrderInv, ConfirmedInOrder, TakenInOrder
<1>12. NextInOrder'
  <2> SUFFICES ASSUME NEW c \in Callers, InAir(calls'[c]), Fits(calls[c])', calls'[c].base = rows[calls'[c].id].revision
               PROVE  /\ \A a \in Callers : Taken(calls'[a]) /\ calls'[a].id = calls'[c].id /\ calls'[a].secret = calls'[c].secret
                                              => calls'[a].look <= calls'[c].look
                      /\ Holds(Home[c[1]])' /\ records'[Home[c[1]]].id = calls'[c].id =>
                           records'[Home[c[1]]].published <= calls'[c].look
    BY <1>1 DEF NextInOrder
  <2> DEFINE e == Home[c[1]]
             q == calls'[c]
  <2>1. rows[q.id].there /\ rows[q.id].secret = q.secret /\ e \in Devices
    BY <1>1, <1>2 DEF Fits
  <2>2. CASE q = calls[c]
    <3>1. \A a \in Callers : Taken(calls[a]) /\ calls[a].id = q.id /\ calls[a].secret = q.secret => calls[a].look <= q.look
      BY <2>1, <2>2 DEF OrderInv, NextInOrder, Fits
    <3>2. Holds(e) /\ records[e].id = q.id => records[e].published <= q.look
      BY <2>1, <2>2 DEF OrderInv, NextInOrder, Fits
    <3>3. 0 <= q.look
      BY <1>2, <2>2
    <3>4. ASSUME NEW d \in Devices, d = e, Holds(d)', records'[d].id = q.id PROVE records'[d].published <= q.look
      <4> HIDE DEF e, q
      <4> QED BY <1>10, <2>1, <3>1, <3>2, <3>3, <3>4
    <3>5. Holds(Home[c[1]])' /\ records'[e].id = q.id => records'[e].published <= q.look
      <4> SUFFICES ASSUME NEW d \in Devices, d = e, Holds(Home[c[1]])', records'[d].id = q.id
                   PROVE  records'[d].published <= q.look
        BY <2>1
      <4>1. Holds(d)'
        BY <1>1 DEF Holds
      <4> QED BY <3>4, <4>1
    <3> QED BY <1>1, <1>4, <3>1, <3>5
  <2>3. CASE Sends(c, q) /\ records' = records
    <3>1. q.look = shown[e] /\ q.id = records[e].id /\ q.secret = records[e].secret
      BY <2>3 DEF Sends
    <3>2. ASSUME NEW a \in Callers, Taken(calls'[a]), calls'[a].id = q.id, calls'[a].secret = q.secret
          PROVE  calls'[a].look <= q.look
      <4>1. calls'[a] = calls[a] /\ Taken(calls[a]) /\ Fits(calls[a]) /\ calls[a].op = "publish"
        BY <1>4, <2>1, <3>2 DEF Fits, Taken
      <4>2. e = Home[a[1]]
        BY <2>1, <3>1, <3>2, <4>1, BearersMeet
      <4> QED BY <3>1, <4>1, <4>2 DEF OrderInv, SentInOrder
    <3>3. records[e].published <= shown[e]
      BY <2>1 DEF OrderInv, ShownInOrder
    <3> QED BY <2>3, <3>1, <3>2, <3>3
  <2>4. q.op = "publish"
    BY DEF InAir
  <2> QED BY <1>4, <2>2, <2>3, <2>4
<1> QED BY <1>5, <1>6, <1>7, <1>8, <1>9, <1>11, <1>12 DEF OrderInv

\* The calls ds are cs but for reads, which bear no secret.
Adds(cs, ds) == \A c \in Callers : ds[c] = cs[c] \/ (ds[c].op # "publish" /\ ds[c].secret = 0)

LEMMA ReadAdds ==
  ASSUME NEW cs \in [Callers -> Call], NEW c \in Callers, NEW k, NEW id
  PROVE  Adds(cs, [cs EXCEPT ![c] = Read(k, id)])
<1>1. Read(k, id).op = "read" /\ Read(k, id).secret = 0
  BY DEF Read, Asked, NoCall
<1> QED BY <1>1 DEF Adds

LEMMA SameAdds == ASSUME NEW cs PROVE Adds(cs, cs)
  BY DEF Adds

LEMMA StoredReads ==
  ASSUME NEW t \in Tabs, NEW r \in Record, r.key # 0
  PROVE  Reads(t, r.key) \in Callers
<1>1. r.key \in Mints
  BY LookAssumption DEF Record, Mints
<1> QED BY <1>1, ReadsCaller

LEMMA VerifyingAdds ==
  ASSUME NEW cs \in [Callers -> Call], NEW t \in Tabs, NEW r \in Record, NEW forced
  PROVE  Adds(cs, Verifying(t, r, forced, cs)) /\ Adds(cs, ReadsBack(t, r, cs))
<1>1. Adds(cs, Verifying(t, r, forced, cs))
  BY StoredReads, ReadAdds, SameAdds DEF Verifying, Verifies
<1>2. Adds(cs, ReadsBack(t, r, cs))
  <2>1. CASE r.key # 0
    BY <2>1, StoredReads, ReadAdds, SameAdds DEF ReadsBack
  <2>2. CASE r.key = 0
    BY <2>2, SameAdds DEF ReadsBack
  <2> QED BY <2>1, <2>2
<1> QED BY <1>1, <1>2

LEMMA HeardAdds ==
  ASSUME LinkInv, NEW b \in Callers
  PROVE  /\ Heard(b) \in [Callers -> Call] /\ Adds(calls, Heard(b))
         /\ \A ds : Adds(Heard(b), ds) => Adds(calls, ds)
<1>1. NoCall.op # "publish" /\ NoCall.secret = 0
  BY DEF NoCall
<1>2. calls \in [Callers -> Call]
  BY DEF LinkInv, RowsInv, TypeOK
<1> QED BY <1>1, <1>2, EmptyTypes DEF Heard, Adds

LEMMA AddsPlain == ASSUME Adds(calls, calls') PROVE \A c \in Callers : Plain(c, calls'[c])
  BY DEF Adds, Plain

LEMMA SameOrdered ==
  ASSUME LinkInv, UNCHANGED records
  PROVE  \A d \in Devices : Ordered(d, records'[d])
<1>1. NoRecord.published = 0 /\ NoRecord.secret = 0
  BY DEF NoRecord
<1> QED BY <1>1 DEF Ordered

\* A step of a tab that sends nothing, and leaves its record as one of the above.
LEMMA QuietOrder ==
  ASSUME LinkInv, OrderInv, UNCHANGED <<look, setting, shown, applies>>, Adds(calls, calls'),
         UNCHANGED records \/ \E t \in Tabs : \E r : Kept(t, r) /\ Ordered(Home[t], r)
  PROVE  OrderInv'
<1>1. \A d \in Devices : Ordered(d, records[d])
  <2>1. NoRecord.published = 0 /\ NoRecord.secret = 0
    BY DEF NoRecord
  <2> QED BY <2>1 DEF Ordered
<1>2. \A d \in Devices : Ordered(d, records'[d])
  <2>1. CASE UNCHANGED records
    BY <1>1, <2>1
  <2>2. ASSUME NEW t \in Tabs, NEW r, Kept(t, r), Ordered(Home[t], r) PROVE \A d \in Devices : Ordered(d, records'[d])
    <3>1. \A d \in Devices : records'[d] = IF d = Home[t] THEN r ELSE records[d]
      BY <2>2 DEF Kept, LinkInv, LinkTypeOK
    <3> QED BY <1>1, <2>2, <3>1
  <2> QED BY <2>1, <2>2
<1>3. \A c \in Callers : Plain(c, calls'[c])
  BY AddsPlain
<1> QED BY <1>2, <1>3, TabOrder

\* A round sends the look its device shows, on the revision of the stored record.
LEMMA OnceOrder == ASSUME LinkInv, OrderInv, NEW t \in Tabs, Once(t) PROVE OrderInv'
<1> DEFINE r == Stored(t)
           c == Publishes(t)
           q == [Asked("publish", r.id) EXCEPT !.secret = r.secret, !.base = r.revision, !.look = shown[Home[t]]]
           cs == Sent(c, q)
<1>1. r \in Record /\ GoodRecord(r, links, mints, rows) /\ calls \in [Callers -> Call]
  BY StoredGood DEF LinkInv, RowsInv, TypeOK
<1>2. UNCHANGED <<look, setting, records, shown, applies>>
  BY DEF Once
<1>3. c \in Callers /\ c[1] = t
  BY OwnCallers DEF Publishes
<1>4. CASE r = NoRecord \/ ~OnceSends(t, r)
  <2>1. calls' \in {calls, Verifying(t, r, FALSE, calls)}
    BY <1>4 DEF Once
  <2>2. Adds(calls, calls')
    BY <1>1, <2>1, VerifyingAdds, SameAdds
  <2> QED BY <1>2, <2>2, QuietOrder
<1>5. CASE r # NoRecord /\ OnceSends(t, r)
  <2>1. calls' = Verifying(t, r, FALSE, cs)
    BY <1>5 DEF Once
  <2>2. /\ q.op = "publish" /\ q.out = "" /\ q.look = shown[Home[c[1]]] /\ q.id = records[Home[c[1]]].id
        /\ q.secret = records[Home[c[1]]].secret
    BY <1>3 DEF Asked, NoCall, Stored
  <2>3. Sends(c, q)
    BY <2>2 DEF Sends
  <2>4. cs \in [Callers -> Call]
    <3>1. shown[Home[t]] \in 1..MaxLooks
      BY StoredGood DEF LinkInv, LinkTypeOK
    <3> HIDE DEF r, c
    <3>2. Asking(cs)
      BY <1>1, <1>5, <3>1, AskingNothing, AskingPublish DEF Sent, c
    <3> HIDE DEF cs
    <3> QED BY <3>2 DEF Asking
  <2> HIDE DEF q
  <2>5. \A b \in Callers : cs[b] = IF b = c THEN q ELSE calls[b]
    BY <1>1, <1>3 DEF Sent
  <2> HIDE DEF cs, r
  <2>6. Adds(cs, calls')
    BY <1>1, <2>1, <2>4, VerifyingAdds
  <2>7. \A b \in Callers : Plain(b, calls'[b]) \/ Sends(b, calls'[b])
    BY <2>3, <2>5, <2>6 DEF Adds, Plain
  <2> QED BY <1>2, <2>7, SameOrdered, TabOrder
<1> QED BY <1>4, <1>5

\* An answer to a publish confirms its look, or leaves what was confirmed.
LEMMA PatchedOrdered ==
  ASSUME LinkInv, NEW t \in Tabs, NEW c \in Callers, Home[c[1]] = Home[t], calls[c].op = "publish",
         NEW r, r \in {Forgot(Stored(t), calls[c].id), Patched(Stored(t), calls[c])}
  PROVE  Ordered(Home[t], r)
<1> DEFINE s == Stored(t)
           q == calls[c]
<1>1. s \in Record
  BY StoredGood
<1>2. NoRecord.published = 0 /\ NoRecord.secret = 0
  BY DEF NoRecord
<1>3. Ordered(Home[t], NoRecord) /\ Ordered(Home[t], s)
  BY <1>2 DEF Ordered, Stored
<1>4. CASE r = Forgot(s, q.id)
  BY <1>3, <1>4 DEF Forgot
<1>5. CASE r = Patched(s, q)
  <2>1. CASE ~SameHold(s, q)
    BY <1>3, <1>5, <2>1 DEF Patched
  <2>2. CASE SameHold(s, q) /\ q.out = "ok"
    <3> DEFINE ok == [s EXCEPT !.revision = q.revision, !.published = q.look]
    <3>1. ok.id = q.id /\ ok.secret = q.secret /\ ok.published = q.look
      BY <1>1, <2>2 DEF SameHold, Record
    <3> HIDE DEF ok
    <3>2. Ordered(Home[t], ok)
      BY <2>2, <3>1 DEF Ordered, Taken
    <3>3. r \in {s, ok}
      BY <1>5, <2>2 DEF Patched, ok
    <3> QED BY <1>3, <3>2, <3>3
  <2>3. CASE SameHold(s, q) /\ q.out # "ok"
    <3> DEFINE stale == [s EXCEPT !.revision = q.revision]
               lost == [s EXCEPT !.elsewhere = TRUE]
    <3>1. /\ stale.id = s.id /\ stale.secret = s.secret /\ stale.published = s.published
          /\ lost.id = s.id /\ lost.secret = s.secret /\ lost.published = s.published
      BY <1>1 DEF Record
    <3>2. s = records[Home[t]] /\ s # NoRecord
      BY <2>3 DEF SameHold, Stored
    <3>3. r \in {s, stale, lost}
      BY <1>5, <2>3 DEF Patched
    <3> HIDE DEF stale, lost, s
    <3> QED BY <3>1, <3>2, <3>3 DEF Ordered
  <2> QED BY <2>1, <2>2, <2>3
<1> QED BY <1>4, <1>5

LEMMA PublishedOrder == ASSUME LinkInv, OrderInv, NEW t \in Tabs, Published(t) PROVE OrderInv'
<1> DEFINE c == Publishes(t)
           q == calls[c]
           r == IF q.out = "gone" THEN Forgot(Stored(t), q.id) ELSE Patched(Stored(t), q)
<1>1. c \in Callers /\ c[1] = t /\ c[2] = 0 /\ Has(c)
  BY OwnCallers DEF Published, Publishes
<1>2. q.op = "publish"
  BY <1>1, HasCall DEF Kind
<1>3. r \in Record
  <2>1. q \in Call /\ So(q, rows, pointers) /\ GoodRecord(Stored(t), links, mints, rows)
    BY <1>1, HasCall, StoredGood
  <2> HIDE DEF q
  <2> QED BY <1>2, <2>1, PatchedGood, ForgotGood DEF GoodRecord
<1>4. calls' \in {Heard(c), Verifying(t, r, TRUE, Heard(c))}
  BY DEF Published
<1>5. UNCHANGED records \/ (Kept(t, r) /\ Ordered(Home[t], r))
  BY <1>1, <1>2, PatchedOrdered DEF Published
<1>6. UNCHANGED <<look, setting, shown, applies>>
  BY DEF Published
<1> HIDE DEF r, c
<1>7. Adds(calls, calls')
  BY <1>1, <1>3, <1>4, HeardAdds, VerifyingAdds
<1> QED BY <1>5, <1>6, <1>7, QuietOrder

LEMMA LeftOrdered ==
  ASSUME LinkInv, NEW t \in Tabs, NEW c \in Callers, Home[c[1]] = Home[t],
         calls[c].op \in {"create", "transfer", "relink", "revoke"}
  PROVE  Ordered(Home[t], Left(Stored(t), calls[c]))
<1> DEFINE s == Stored(t)
           q == calls[c]
           made == [NoRecord EXCEPT !.id = q.id, !.secret = q.secret, !.key = q.key]
           key == IF s.id = q.id THEN s.key ELSE 0
           moved == [NoRecord EXCEPT !.id = q.id, !.secret = q.secret, !.revision = q.revision, !.key = key]
           relinked == [s EXCEPT !.key = q.key]
<1>1. s \in Record
  BY StoredGood
<1>2. NoRecord.published = 0 /\ NoRecord.secret = 0
  BY DEF NoRecord
<1>3. Ordered(Home[t], NoRecord) /\ Ordered(Home[t], s)
  BY <1>2 DEF Ordered, Stored
<1>4. made.published = 0 /\ made.secret = q.secret /\ moved.published = 0 /\ moved.secret = q.secret
  BY DEF NoRecord
<1>5. relinked.id = s.id /\ relinked.secret = s.secret /\ relinked.published = s.published
  BY <1>1 DEF Record
<1>6. Left(s, q) \in {s, NoRecord, made, moved} \/ (Left(s, q) = relinked /\ s # NoRecord)
  BY DEF Left, Forgot, SameLink
<1>7. s = records[Home[t]]
  BY DEF Stored
<1> HIDE DEF made, moved, relinked, s, key
<1>8. Ordered(Home[t], made) /\ Ordered(Home[t], moved)
  BY <1>4 DEF Ordered
<1>9. s # NoRecord => Ordered(Home[t], relinked)
  BY <1>5, <1>7 DEF Ordered
<1> QED BY <1>3, <1>6, <1>8, <1>9 DEF s

LEMMA ActedOrder == ASSUME LinkInv, OrderInv, NEW t \in Tabs, Acted(t) PROVE OrderInv'
<1> DEFINE c == Action(t)
           q == calls[c]
           r == Left(Stored(t), q)
<1>1. c \in Callers /\ c[1] = t /\ c[2] = -1 /\ Has(c)
  BY OwnCallers DEF Acted, Action
<1>2. /\ q \in Call /\ So(q, rows, pointers) /\ Named(q, links, mints) /\ q.secret <= mints /\ q.key <= mints
      /\ q.op \in {"create", "transfer", "relink", "revoke"}
  BY <1>1, HasCall DEF Kind
<1>3. r \in Record
  <2> HIDE DEF q
  <2> QED BY <1>2, StoredGood, LeftGood DEF GoodRecord
<1>4. Ordered(Home[t], r)
  BY <1>1, <1>2, LeftOrdered
<1>5. calls' \in {Heard(c), ReadsBack(t, r, Heard(c))} /\ Kept(t, r) /\ UNCHANGED <<look, setting, shown, applies>>
  BY DEF Acted
<1> HIDE DEF r, c
<1>6. Adds(calls, calls')
  BY <1>1, <1>3, <1>5, HeardAdds, VerifyingAdds
<1> QED BY <1>4, <1>5, <1>6, QuietOrder

LEMMA VerifiedOrder == ASSUME LinkInv, OrderInv, NEW t \in Tabs, NEW k \in Mints, Verified(t, k) PROVE OrderInv'
<1> DEFINE c == Reads(t, k)
           s == Stored(t)
           r == Cleared(s, calls[c])
<1>1. c \in Callers
  BY ReadsCaller
<1>2. UNCHANGED <<look, setting, shown, applies>> /\ calls' = Heard(c) /\ (UNCHANGED records \/ Kept(t, r))
  BY DEF Verified
<1>3. Ordered(Home[t], r)
  <2>1. s \in Record /\ s = records[Home[t]]
    BY StoredGood DEF Stored
  <2>2. NoRecord.published = 0 /\ NoRecord.secret = 0
    BY DEF NoRecord
  <2>3. /\ [s EXCEPT !.key = 0].id = s.id /\ [s EXCEPT !.key = 0].secret = s.secret
        /\ [s EXCEPT !.key = 0].published = s.published
    BY <2>1 DEF Record
  <2>4. r = s \/ (r = [s EXCEPT !.key = 0] /\ s # NoRecord)
    BY DEF Cleared, SameLink
  <2> HIDE DEF s
  <2> QED BY <2>1, <2>2, <2>3, <2>4 DEF Ordered
<1>4. Adds(calls, calls')
  BY <1>1, <1>2, HeardAdds
<1> QED BY <1>2, <1>3, <1>4, QuietOrder

\* A player's request bears no secret.
LEMMA AskedAdds ==
  ASSUME LinkInv, NEW t \in Tabs, NEW op, op # "publish", NEW id
  PROVE  Adds(calls, Sent(Action(t), Asked(op, id)))
<1>1. Asked(op, id).op = op /\ Asked(op, id).secret = 0
  BY DEF Asked, NoCall
<1> QED BY <1>1, OwnCallers DEF LinkInv, RowsInv, TypeOK, Adds, Sent

LEMMA PlayerOrder == ASSUME LinkInv, OrderInv, NEW t \in Tabs, Player(t) PROVE OrderInv'
<1>1. UNCHANGED <<look, setting, records, shown, applies>>
  BY DEF Player, Make, UseThisDevice, NewLink, Forget, Start, Close
<1>2. CASE Make(t)
  BY <1>2, AskedAdds, SameAdds, <1>1, QuietOrder DEF Make
<1>3. CASE UseThisDevice(t) \/ NewLink(t) \/ Forget(t)
  BY <1>3, AskedAdds, <1>1, QuietOrder DEF UseThisDevice, NewLink, Forget
<1>4. CASE Start(t)
  <2> DEFINE r == Stored(t)
  <2>1. r \in Record /\ calls \in [Callers -> Call]
    BY StoredGood DEF LinkInv, RowsInv, TypeOK
  <2>2. calls' = IF t \in setting.readers /\ r.key # 0 THEN [calls EXCEPT ![Reads(t, r.key)] = Read(r.key, r.id)] ELSE calls
    BY <1>4 DEF Start, Sent
  <2> HIDE DEF r
  <2>3. Adds(calls, calls')
    BY <2>1, <2>2, StoredReads, ReadAdds, SameAdds
  <2> QED BY <1>1, <2>3, QuietOrder
<1>5. CASE Close(t)
  <2>1. NoCall.op # "publish" /\ NoCall.secret = 0
    BY DEF NoCall
  <2>2. calls' = [c \in Callers |-> IF c[1] = t THEN NoCall ELSE calls[c]]
    BY <1>5 DEF Close
  <2>3. Adds(calls, calls')
    BY <2>1, <2>2 DEF Adds
  <2> QED BY <1>1, <2>3, QuietOrder
<1> QED BY <1>2, <1>3, <1>4, <1>5 DEF Player

LEMMA TimerOrder == ASSUME LinkInv, OrderInv, NEW t \in Tabs, VerifyAgain(t) \/ Retry(t) \/ Lead(t) PROVE OrderInv'
<1>1. UNCHANGED <<look, setting, records, shown, applies>>
  BY DEF VerifyAgain, Retry, Lead, link
<1>2. CASE VerifyAgain(t)
  <2> DEFINE k == tab[t].pending
             id == tab[t].pendingId
  <2>1. k \in Mints
    BY <1>2, TabsGood, LookAssumption DEF VerifyAgain, TabGood, Tab, Mints
  <2>2. calls' = [calls EXCEPT ![Reads(t, k)] = Read(k, id)] /\ calls \in [Callers -> Call]
    BY <1>2 DEF VerifyAgain, Sent, LinkInv, RowsInv, TypeOK
  <2> HIDE DEF k, id
  <2>3. Adds(calls, calls')
    BY <2>1, <2>2, ReadsCaller, ReadAdds
  <2> QED BY <1>1, <2>3, QuietOrder
<1>3. CASE Retry(t) \/ Lead(t)
  BY <1>1, <1>3, SameAdds, QuietOrder DEF Retry, Lead
<1> QED BY <1>2, <1>3

\* A look not applied before is above all that were.
LEMMA ApplyOrder == ASSUME LinkInv, OrderInv, ~Reapplied, NEW d \in Devices, Apply(d) PROVE OrderInv'
<1>1. PICK l \in 1..MaxLooks : l = applies + 2 /\ Applied(d, l)
  BY DEF Apply
<1>2. /\ Home' = Home /\ rows' = rows /\ records' = records /\ calls' = calls /\ applies' = applies + 1
      /\ shown' = [shown EXCEPT ![d] = l]
  BY <1>1 DEF Applied, Home, look
<1>3. /\ \A c \in Callers : Home[c[1]] \in Devices /\ calls[c].look \in Nat
      /\ \A e \in Devices : shown[e] \in Nat /\ records[e].published \in Nat
      /\ applies \in Nat /\ l \in Nat
  BY OrderTypes
<1>4. \A e \in Devices : shown'[e] = IF e = d THEN l ELSE shown[e]
  BY <1>2 DEF LinkInv, LinkTypeOK
<1>5. \A e \in Devices : shown[e] <= shown'[e] /\ shown'[e] <= applies + 2 /\ shown'[e] \in Nat
  <2>1. \A e \in Devices : shown[e] <= applies + 1
    BY DEF OrderInv, ShownInOrder
  <2> QED BY <1>1, <1>3, <1>4, <2>1
<1>6. ASSUME NEW e \in Devices, NEW n \in Nat, n <= shown[e] PROVE n <= shown'[e]
  BY <1>3, <1>5, <1>6
<1>7. OneBearer'
  BY <1>2 DEF OrderInv, OneBearer, Bears
<1>8. SecretsSet'
  BY <1>2 DEF OrderInv, SecretsSet
<1>9. ShownInOrder'
  <2>1. \A e \in Devices : records[e].published <= shown'[e]
    BY <1>3, <1>6 DEF OrderInv, ShownInOrder
  <2>2. \A e \in Devices : shown'[e] <= applies' + 1
    BY <1>2, <1>3, <1>5
  <2> QED BY <1>2, <2>1, <2>2 DEF ShownInOrder
<1>10. SentInOrder'
  BY <1>2, <1>3, <1>6 DEF OrderInv, SentInOrder
<1>11. TakenInOrder'
  <2> SUFFICES ASSUME NEW c \in Callers, Taken(calls[c]), Fits(calls[c])
               PROVE  calls[c].look <= rows[calls[c].id].look /\ rows[calls[c].id].look <= shown'[Home[c[1]]]
    BY <1>2 DEF TakenInOrder, Fits
  <2>1. calls[c].id \in Links /\ rows[calls[c].id].look \in Nat
    BY OrderIds, OrderTypes DEF Taken
  <2> QED BY <1>3, <1>6, <2>1 DEF OrderInv, TakenInOrder
<1>12. ConfirmedInOrder'
  <2> SUFFICES ASSUME NEW e \in Devices, Holds(e), records[e].published # 0
               PROVE  records[e].published <= rows[records[e].id].look /\ rows[records[e].id].look <= shown'[e]
    BY <1>2 DEF ConfirmedInOrder, Holds
  <2>1. rows[records[e].id].look \in Nat
    BY OrderIds, OrderTypes
  <2> QED BY <1>6, <2>1 DEF OrderInv, ConfirmedInOrder
<1>13. NextInOrder'
  BY <1>2 DEF OrderInv, NextInOrder, Fits, Holds
<1> QED BY <1>7, <1>8, <1>9, <1>10, <1>11, <1>12, <1>13 DEF OrderInv

LEMMA OrderSteps == ASSUME LinkInv, OrderInv, ~Reapplied, LinkNext PROVE OrderInv'
<1>1. ASSUME NEW t \in Tabs, Publisher(t) PROVE OrderInv'
  BY <1>1, OnceOrder, PublishedOrder, ActedOrder, VerifiedOrder, TimerOrder DEF Publisher
<1>2. ASSUME NEW d \in Devices, SignOut(d) PROVE OrderInv'
  BY <1>2, SameAdds, QuietOrder DEF SignOut
<1> QED BY <1>1, <1>2, ServerOrder, PlayerOrder, ApplyOrder DEF LinkNext

LEMMA OrderStays == ASSUME LinkInv, OrderInv, UNCHANGED allVars PROVE OrderInv'
  BY SameAdds, QuietOrder DEF allVars, vars, link, look

\* The look a device has for confirmed is the one its widgets show, if it holds its link and each look that is
\* applied is a new one: nothing that lands or answers late takes the link back to another (publisher.ts once).
THEOREM ConfirmedHolds == ASSUME ~Reapplied PROVE LinkSpec => []ConfirmedIsSo
<1>1. LinkInv /\ OrderInv /\ [LinkNext]_allVars => OrderInv'
  BY OrderSteps, OrderStays
<1>2. LinkInv /\ OrderInv => ConfirmedIsSo
  <2> SUFFICES ASSUME LinkInv, OrderInv, NEW d \in Devices, Holds(d), records[d].published = shown[d]
               PROVE  rows[records[d].id].look = shown[d]
    BY DEF ConfirmedIsSo
  <2>1. rows[records[d].id].look \in Nat /\ shown[d] \in Nat /\ shown[d] # 0
    BY OrderIds, OrderTypes
  <2> QED BY <2>1 DEF OrderInv, ConfirmedInOrder
<1> QED BY <1>1, <1>2, LinkInvariant, OrderInit, PTL DEF LinkSpec
=============================================================================
