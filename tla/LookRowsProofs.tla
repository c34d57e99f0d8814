--------------------------- MODULE LookRowsProofs ---------------------------
(***************************************************************************)
(* Theme links on the server, for any callers, any number of links and     *)
(* keys, and any requests in any order: the pointers agree with the rows,  *)
(* the count is the number of links, and no key shows another link.        *)
(*                                                                         *)
(* The argument: a relink and a revoke write on the condition that the row *)
(* holds the key they read, which is then the one key that points at it;   *)
(* ids and keys are never given out again.                                 *)
(***************************************************************************)
EXTENDS LookRows, FiniteSetTheorems, TLAPS

Live == {i \in Links : rows[i].there}

\* What rows and pointers name has been given out.
GivenOut ==
  /\ \A i \in Links : rows[i].there => i <= links /\ rows[i].key \in 1..mints
  /\ \A k \in Mints : pointers[k] # 0 => k <= mints

\* And so has what a request names, or has read, with n links and m keys given out.
Named(q, n, m) ==
  /\ q.op \in {"transfer", "relink", "revoke", "publish"} \/ q.stage = "wrote" => q.id \in 1..n
  /\ q.op \in {"relink", "revoke"} /\ q.stage = "read" => q.saw \in 1..m
  /\ q.op = "read" => q.key \in 1..m /\ (q.stage = "read" => q.saw \in 1..n)
NamesGivenOut == \A c \in Callers : Named(calls[c], links, mints)

RowsInv == TypeOK /\ GivenOut /\ NamesGivenOut /\ PointersMatch /\ LiveCounts

-----------------------------------------------------------------------------
LEMMA CountType == TypeOK => IsFiniteSet(Live) /\ Cardinality(Live) \in Nat
<1>1. IsFiniteSet(Links)
  BY LookAssumption, FS_Interval DEF Links
<1> QED BY <1>1, FS_Subset, FS_CardinalityType DEF Live

LEMMA EmptyTypes == NoRow \in Row /\ NoCall \in Call
  BY LookAssumption DEF NoRow, NoCall, Row, Call, Looks, Ops, Stages, Outs

LEMMA RowsInit == Init => RowsInv
<1> SUFFICES ASSUME Init PROVE RowsInv
  OBVIOUS
<1>1. TypeOK /\ GivenOut /\ NamesGivenOut /\ PointersMatch
  <2>1. TypeOK
    BY EmptyTypes, LookAssumption DEF Init, TypeOK
  <2>2. \A i \in Links : ~rows[i].there
    BY DEF Init, NoRow
  <2>3. \A k \in Mints : pointers[k] = 0
    BY DEF Init
  <2>4. NamesGivenOut
    BY DEF Init, NamesGivenOut, Named, NoCall
  <2> QED BY <2>1, <2>2, <2>3, <2>4 DEF GivenOut, PointersMatch
<1>2. Live = {}
  BY DEF Init, Live, NoRow
<1>3. LiveCounts
  BY <1>2, FS_EmptySet, LookAssumption DEF Init, LiveCounts, Live
<1> QED BY <1>1, <1>3 DEF RowsInv

\* One request becomes another that names what has been given out.
LEMMA NamesStay ==
  ASSUME TypeOK, NamesGivenOut, NEW c \in Callers, NEW q \in Call, Now(c, q),
         links' \in Int, mints' \in Int, links <= links', mints <= mints', Named(q, links', mints')
  PROVE  calls' \in [Callers -> Call] /\ NamesGivenOut'
<1>1. \A b \in Callers : calls'[b] = IF b = c THEN q ELSE calls[b]
  BY DEF Now, TypeOK
<1>2. calls' \in [Callers -> Call]
  BY DEF Now, TypeOK
<1>3. ASSUME NEW b \in Callers PROVE Named(calls[b], links', mints')
  <2>1. Named(calls[b], links, mints) /\ links \in Int /\ mints \in Int
    BY <1>3 DEF NamesGivenOut, TypeOK
  <2> QED BY <2>1 DEF Named
<1> QED BY <1>1, <1>2, <1>3 DEF NamesGivenOut

\* A step of a request that leaves the rows alone.
LEMMA CallSteps ==
  ASSUME RowsInv, NEW c \in Callers, NEW q \in Call, Now(c, q), UNCHANGED look, faults' \in 0..MaxFaults,
         Named(q, links, mints)
  PROVE  RowsInv'
<1>1. calls' \in [Callers -> Call] /\ NamesGivenOut'
  BY NamesStay DEF RowsInv, look, TypeOK
<1> QED BY <1>1 DEF RowsInv, TypeOK, GivenOut, PointersMatch, LiveCounts, look

\* An answer says no more than the request did.
LEMMA AnswerSteps ==
  ASSUME RowsInv, NEW c \in Callers, NEW out \in Outs, Answer(c, out), UNCHANGED look, faults' \in 0..MaxFaults
  PROVE  RowsInv'
<1> DEFINE q == [calls[c] EXCEPT !.out = out]
<1>1. calls[c] \in Call /\ Named(calls[c], links, mints)
  BY DEF RowsInv, TypeOK, NamesGivenOut
<1>2. q \in Call /\ Named(q, links, mints)
  BY <1>1 DEF Call, Named
<1>3. Now(c, q)
  BY DEF Answer
<1> HIDE DEF q
<1> QED BY <1>2, <1>3, CallSteps

LEMMA ReadBackSteps ==
  ASSUME RowsInv, NEW c \in Callers, calls[c].id \in 1..links, NEW without \in Outs, ReadBack(c, without)
  PROVE  RowsInv'
<1> DEFINE row == rows[calls[c].id]
           q == [calls[c] EXCEPT !.out = IF row.there THEN "ok" ELSE without, !.revision = row.revision]
<1>1. calls[c] \in Call /\ Named(calls[c], links, mints) /\ row.revision \in Nat
  <2>1. calls[c].id \in Links
    BY LookAssumption DEF RowsInv, TypeOK, Links
  <2>2. rows[calls[c].id] \in Row
    BY <2>1 DEF RowsInv, TypeOK
  <2> QED BY <2>2 DEF RowsInv, TypeOK, NamesGivenOut, Row
<1>2. q \in Call /\ Named(q, links, mints)
  <2> HIDE DEF row
  <2>1. (IF row.there THEN "ok" ELSE without) \in Outs
    BY DEF Outs
  <2> QED BY <1>1, <2>1 DEF Call, Named
<1>3. Now(c, q) /\ UNCHANGED <<look, faults>> /\ faults' \in 0..MaxFaults
  BY DEF ReadBack, RowsInv, TypeOK
<1> HIDE DEF q
<1> QED BY <1>2, <1>3, CallSteps

-----------------------------------------------------------------------------
(* One lemma per handler.                                                  *)

\* What holds of a request that has come to a handler.
LEMMA Arrived ==
  ASSUME RowsInv, NEW c \in Callers, NEW op, NEW stage, At(c, op, stage)
  PROVE  /\ calls[c] \in Call /\ Named(calls[c], links, mints)
         /\ calls[c].op = op /\ calls[c].stage = stage
         /\ links \in 0..MaxLinks /\ mints \in 0..MaxMints /\ MaxLinks \in Nat /\ MaxMints \in Nat
         /\ calls[c].id \in 1..links => calls[c].id \in Links /\ rows[calls[c].id] \in Row
<1>1. calls[c] \in Call /\ Named(calls[c], links, mints) /\ calls[c].op = op /\ calls[c].stage = stage
  BY DEF RowsInv, TypeOK, NamesGivenOut, At
<1>2. links \in 0..MaxLinks /\ mints \in 0..MaxMints /\ MaxLinks \in Nat /\ MaxMints \in Nat
  BY LookAssumption DEF RowsInv, TypeOK
<1>3. calls[c].id \in 1..links => calls[c].id \in Links /\ rows[calls[c].id] \in Row
  BY <1>2 DEF RowsInv, TypeOK, Links
<1> QED BY <1>1, <1>2, <1>3

LEMMA CreateSteps == ASSUME RowsInv, NEW c \in Callers, Create(c) PROVE RowsInv'
<1>1. CASE live >= Cap /\ Answer(c, "full") /\ UNCHANGED <<look, faults>>
  BY <1>1, AnswerSteps DEF Outs, RowsInv, TypeOK
<1>2. CASE ~(live >= Cap /\ Answer(c, "full") /\ UNCHANGED <<look, faults>>)
  <2> DEFINE i == links + 1
             k == mints + 1
             row == [there |-> TRUE, key |-> k, secret |-> k, revision |-> 0, look |-> 0]
             q == [calls[c] EXCEPT !.stage = "wrote", !.id = i, !.key = k, !.secret = k]
  <2>1. /\ live < Cap /\ links < MaxLinks /\ mints < MaxMints
        /\ links' = i /\ mints' = k /\ live' = live + 1
        /\ rows' = [rows EXCEPT ![i] = row] /\ pointers' = [pointers EXCEPT ![k] = i]
        /\ Now(c, q) /\ faults' = faults
    BY <1>2 DEF Create
  <2>2. /\ calls[c] \in Call /\ calls[c].op = "create" /\ calls[c].stage = "asked"
        /\ links \in 0..MaxLinks /\ mints \in 0..MaxMints /\ MaxLinks \in Nat /\ MaxMints \in Nat
    BY Arrived DEF Create
  <2>3. i \in Links /\ k \in Mints /\ row \in Row /\ i \in 1..i /\ k \in 1..k
    BY <2>1, <2>2, LookAssumption DEF Links, Mints, Row, Looks
  <2>4. q \in Call /\ Named(q, i, k)
    <3>1. i \in 0..MaxLinks /\ k \in 0..MaxMints /\ "wrote" \in Stages
      BY <2>1, <2>2 DEF Stages
    <3> HIDE DEF i, k
    <3>2. q \in Call /\ q.op = "create" /\ q.stage = "wrote" /\ q.id = i
      BY <2>2, <3>1 DEF Call
    <3> HIDE DEF q
    <3> QED BY <2>3, <3>2 DEF Named
  <2>5. ~rows[i].there
    BY <2>2, <2>3 DEF RowsInv, GivenOut
  <2>6. \A j \in Links : rows'[j] = IF j = i THEN row ELSE rows[j]
    BY <2>1 DEF RowsInv, TypeOK
  <2>7. \A m \in Mints : pointers'[m] = IF m = k THEN i ELSE pointers[m]
    BY <2>1 DEF RowsInv, TypeOK
  <2>8. row.there /\ row.key = k
    OBVIOUS
  <2>9. rows' \in [Links -> Row] /\ pointers' \in [Mints -> 0..MaxLinks]
    BY <2>1, <2>2, <2>3 DEF RowsInv, TypeOK
  <2> HIDE DEF row, q
  <2>10. calls' \in [Callers -> Call] /\ NamesGivenOut'
    BY <2>1, <2>2, <2>4, NamesStay DEF RowsInv
  <2>11. TypeOK'
    BY <2>1, <2>2, <2>9, <2>10 DEF RowsInv, TypeOK
  <2>12. GivenOut'
    BY <2>1, <2>2, <2>6, <2>7, <2>8 DEF RowsInv, GivenOut, Links, Mints
  <2>13. PointersMatch'
    <3>1. ASSUME NEW m \in Mints, pointers'[m] # 0
          PROVE  rows'[pointers'[m]].there /\ rows'[pointers'[m]].key = m
      <4>1. m # k => pointers[m] \in Links /\ pointers[m] # i
        BY <3>1, <2>5, <2>7, <2>2 DEF RowsInv, TypeOK, PointersMatch, Links
      <4> QED BY <3>1, <4>1, <2>3, <2>6, <2>7, <2>8 DEF RowsInv, PointersMatch
    <3>2. ASSUME NEW j \in Links, rows'[j].there PROVE pointers'[rows'[j].key] = j
      <4>1. j # i => rows[j].key \in Mints /\ rows[j].key # k
        BY <3>2, <2>2, <2>6 DEF RowsInv, GivenOut, Mints
      <4> QED BY <3>2, <4>1, <2>3, <2>6, <2>7, <2>8 DEF RowsInv, PointersMatch
    <3> QED BY <3>1, <3>2 DEF PointersMatch
  <2>14. Live' = Live \cup {i} /\ i \notin Live
    BY <2>3, <2>5, <2>6, <2>8 DEF Live
  <2>15. LiveCounts'
    <3>1. Cardinality(Live') = Cardinality(Live) + 1
      BY <2>14, CountType, FS_AddElement DEF RowsInv
    <3>2. live' = Cardinality(Live')
      BY <3>1, <2>1 DEF RowsInv, LiveCounts, Live
    <3> QED BY <3>2, <2>1, LookAssumption DEF RowsInv, TypeOK, LiveCounts, Live
  <2> QED BY <2>10, <2>11, <2>12, <2>13, <2>15 DEF RowsInv
<1> QED BY <1>1, <1>2

\* A row changes that keeps its key and its place.
LEMMA RowSteps ==
  ASSUME RowsInv, NEW i \in Links, NEW row \in Row, rows' = [rows EXCEPT ![i] = row],
         rows[i].there, row.there, row.key = rows[i].key,
         UNCHANGED <<pointers, live, links, faults>>, mints' \in 0..MaxMints, mints <= mints',
         calls' \in [Callers -> Call], NamesGivenOut'
  PROVE  RowsInv'
<1>1. \A j \in Links : rows'[j].there = rows[j].there /\ rows'[j].key = rows[j].key
  BY DEF RowsInv, TypeOK
<1>2. TypeOK'
  BY DEF RowsInv, TypeOK
<1>3. GivenOut'
  BY <1>1, LookAssumption DEF RowsInv, TypeOK, GivenOut, Links, Mints
<1>4. PointersMatch'
  <2>1. \A k \in Mints : pointers[k] # 0 => pointers[k] \in Links
    BY LookAssumption DEF RowsInv, TypeOK, Links
  <2> QED BY <1>1, <2>1 DEF RowsInv, PointersMatch
<1>5. LiveCounts'
  BY <1>1 DEF RowsInv, LiveCounts
<1> QED BY <1>2, <1>3, <1>4, <1>5 DEF RowsInv

LEMMA TransferSteps == ASSUME RowsInv, NEW c \in Callers, Transfer(c) PROVE RowsInv'
<1> DEFINE i == calls[c].id
<1>0. /\ calls[c] \in Call /\ calls[c].op = "transfer" /\ calls[c].stage = "asked"
      /\ Named(calls[c], links, mints) /\ i \in 1..links /\ i \in Links /\ rows[i] \in Row
      /\ mints \in 0..MaxMints /\ MaxMints \in Nat /\ links \in 0..MaxLinks
  BY Arrived DEF Transfer, Named
<1>1. CASE ~rows[i].there
  BY <1>1, AnswerSteps DEF Transfer, Outs, RowsInv, TypeOK
<1>2. CASE rows[i].there
  <2> DEFINE q == [calls[c] EXCEPT !.stage = "wrote", !.secret = mints + 1]
             row == [rows[i] EXCEPT !.secret = mints + 1]
  <2>1. /\ mints < MaxMints /\ mints' = mints + 1 /\ rows' = [rows EXCEPT ![i] = row]
        /\ Now(c, q) /\ UNCHANGED <<pointers, live, links, faults>>
    BY <1>2 DEF Transfer
  <2>2. q \in Call /\ Named(q, links, mints + 1)
    <3>1. mints + 1 \in 0..MaxMints /\ "wrote" \in Stages
      BY <1>0, <2>1 DEF Stages
    <3>2. q \in Call /\ q.op = "transfer" /\ q.stage = "wrote" /\ q.id = i
      BY <1>0, <3>1 DEF Call
    <3> HIDE DEF q
    <3> QED BY <1>0, <3>2 DEF Named
  <2>3. row \in Row /\ row.there /\ row.key = rows[i].key
    BY <1>0, <1>2, <2>1 DEF Row
  <2> HIDE DEF q, row
  <2>4. calls' \in [Callers -> Call] /\ NamesGivenOut'
    BY <1>0, <2>1, <2>2, NamesStay DEF RowsInv
  <2>5. mints' \in 0..MaxMints /\ mints <= mints'
    BY <1>0, <2>1
  <2> HIDE DEF i
  <2> QED BY <1>0, <1>2, <2>1, <2>3, <2>4, <2>5, RowSteps
<1> QED BY <1>1, <1>2

LEMMA ReadKeySteps == ASSUME RowsInv, NEW c \in Callers, ReadKey(c) PROVE RowsInv'
<1> DEFINE row == rows[calls[c].id]
           q == IF row.there THEN [calls[c] EXCEPT !.stage = "read", !.saw = row.key]
                             ELSE [calls[c] EXCEPT !.out = "gone"]
<1>1. /\ calls[c] \in Call /\ calls[c].op \in {"relink", "revoke"} /\ calls[c].stage = "asked"
      /\ calls[c].id \in 1..links /\ calls[c].id \in Links /\ row \in Row
      /\ mints \in 0..MaxMints /\ MaxMints \in Nat /\ MaxLinks \in Nat
  BY Arrived DEF ReadKey, Named
<1>2. row.there => row.key \in 1..mints /\ row.key \in 0..(MaxLinks + MaxMints)
  BY <1>1 DEF RowsInv, GivenOut
<1>3. q \in Call
  BY <1>1, <1>2 DEF Call, Stages, Outs
<1>4. q.op = calls[c].op /\ q.id = calls[c].id /\ q.stage \in {"asked", "read"} /\ (q.stage = "read" => q.saw \in 1..mints)
  BY <1>1, <1>2 DEF Call
<1>5. Now(c, q) /\ UNCHANGED <<look, faults>> /\ faults' \in 0..MaxFaults
  BY DEF ReadKey, RowsInv, TypeOK
<1> HIDE DEF q
<1>6. Named(q, links, mints)
  BY <1>1, <1>4 DEF Named
<1> QED BY <1>3, <1>5, <1>6, CallSteps

\* The key a row holds is the one key that points at it.
LEMMA OneKey ==
  ASSUME RowsInv, NEW i \in Links, rows[i].there
  PROVE  /\ rows[i].key \in Mints /\ pointers[rows[i].key] = i
         /\ \A k \in Mints : pointers[k] = i => k = rows[i].key
<1>1. rows[i].key \in Mints
  BY LookAssumption DEF RowsInv, TypeOK, GivenOut, Mints
<1>2. i # 0
  BY LookAssumption DEF Links
<1> QED BY <1>1, <1>2 DEF RowsInv, PointersMatch

LEMMA RelinkSteps == ASSUME RowsInv, NEW c \in Callers, Relink(c) PROVE RowsInv'
<1> DEFINE i == calls[c].id
<1>0. /\ calls[c] \in Call /\ calls[c].op = "relink" /\ calls[c].stage = "read"
      /\ Named(calls[c], links, mints) /\ i \in 1..links /\ i \in Links /\ rows[i] \in Row
      /\ mints \in 0..MaxMints /\ MaxMints \in Nat /\ links \in 0..MaxLinks /\ MaxLinks \in Nat
  BY Arrived DEF Relink, Named
<1>1. CASE ~StillHolds(c)
  BY <1>1, AnswerSteps DEF Relink, Outs, RowsInv, TypeOK
<1>2. CASE StillHolds(c)
  <2> DEFINE k == mints + 1
             row == [rows[i] EXCEPT !.key = k]
             q == [calls[c] EXCEPT !.stage = "wrote", !.key = k]
             old == calls[c].saw
  <2>1. /\ mints < MaxMints /\ mints' = k /\ rows' = [rows EXCEPT ![i] = row]
        /\ pointers' = [pointers EXCEPT ![old] = 0, ![k] = i]
        /\ Now(c, q) /\ UNCHANGED <<live, links, faults>>
    BY <1>2 DEF Relink
  <2>2. rows[i].there /\ rows[i].key = old
    BY <1>2 DEF StillHolds
  <2>3. old \in Mints /\ old <= mints /\ pointers[old] = i /\ \A m \in Mints : pointers[m] = i => m = old
    BY <1>0, <2>2, OneKey DEF RowsInv, GivenOut
  <2>4. k \in Mints /\ k # old /\ mints < k /\ i # 0 /\ k \in 0..MaxMints
    BY <1>0, <2>1, <2>3 DEF Mints
  <2>5. q \in Call /\ q.op = "relink" /\ q.stage = "wrote" /\ q.id = i
    <3> HIDE DEF k
    <3> QED BY <1>0, <2>4 DEF Call, Stages
  <2>6. row \in Row /\ row.there /\ row.key = k
    <3> HIDE DEF k
    <3> QED BY <1>0, <2>2, <2>4 DEF Row
  <2> HIDE DEF row, q, i, old
  <2>7. \A j \in Links : rows'[j] = IF j = i THEN row ELSE rows[j]
    BY <2>1 DEF RowsInv, TypeOK
  <2>8. \A m \in Mints : pointers'[m] = IF m = k THEN i ELSE IF m = old THEN 0 ELSE pointers[m]
    BY <2>1, <2>3, <2>4 DEF RowsInv, TypeOK
  <2>9. rows' \in [Links -> Row] /\ pointers' \in [Mints -> 0..MaxLinks]
    BY <1>0, <2>1, <2>3, <2>4, <2>6 DEF RowsInv, TypeOK, Links
  <2>10. calls' \in [Callers -> Call] /\ NamesGivenOut'
    <3>1. Named(q, links', mints')
      BY <1>0, <2>1, <2>5 DEF Named
    <3> QED BY <1>0, <2>1, <2>5, <3>1, NamesStay DEF RowsInv
  <2>11. TypeOK'
    BY <1>0, <2>1, <2>4, <2>9, <2>10 DEF RowsInv, TypeOK
  <2>12. GivenOut'
    <3>1. ASSUME NEW j \in Links, rows'[j].there PROVE j <= links' /\ rows'[j].key \in 1..mints'
      <4>1. j = i => j <= links /\ rows'[j].key = k
        BY <1>0, <2>6, <2>7
      <4>2. j # i => j <= links /\ rows'[j].key \in 1..mints
        BY <3>1, <2>7 DEF RowsInv, GivenOut
      <4> QED BY <1>0, <2>1, <4>1, <4>2
    <3>2. ASSUME NEW m \in Mints, pointers'[m] # 0 PROVE m <= mints'
      <4>1. m # k => m <= mints
        BY <3>2, <2>8 DEF RowsInv, GivenOut
      <4> QED BY <1>0, <2>1, <4>1 DEF Mints
    <3> QED BY <3>1, <3>2 DEF GivenOut
  <2>13. PointersMatch'
    <3>1. ASSUME NEW m \in Mints, pointers'[m] # 0
          PROVE  rows'[pointers'[m]].there /\ rows'[pointers'[m]].key = m
      <4>1. CASE m = k
        BY <1>0, <2>6, <2>7, <2>8, <4>1
      <4>2. CASE m # k
        <5>1. pointers'[m] = pointers[m] /\ m # old /\ pointers[m] # 0
          BY <3>1, <4>2, <2>8
        <5>2. pointers[m] \in Links /\ pointers[m] # i
          BY <5>1, <2>3, LookAssumption DEF RowsInv, TypeOK, Links
        <5> QED BY <5>1, <5>2, <2>7 DEF RowsInv, PointersMatch
      <4> QED BY <4>1, <4>2
    <3>2. ASSUME NEW j \in Links, rows'[j].there PROVE pointers'[rows'[j].key] = j
      <4>1. CASE j = i
        BY <2>4, <2>6, <2>7, <2>8, <4>1
      <4>2. CASE j # i
        <5>1. rows'[j] = rows[j] /\ rows[j].there
          BY <3>2, <4>2, <2>7
        <5>2. rows[j].key \in Mints /\ rows[j].key <= mints /\ pointers[rows[j].key] = j
          BY <5>1, <1>0, OneKey DEF RowsInv, GivenOut
        <5>3. rows[j].key # k /\ rows[j].key # old
          BY <5>2, <1>0, <4>2, <2>3
        <5> QED BY <5>1, <5>2, <5>3, <2>8
      <4> QED BY <4>1, <4>2
    <3> QED BY <3>1, <3>2 DEF PointersMatch
  <2>14. LiveCounts'
    <3>1. \A j \in Links : rows'[j].there = rows[j].there
      BY <2>2, <2>6, <2>7 DEF RowsInv, TypeOK, Row
    <3> QED BY <3>1, <2>1 DEF RowsInv, LiveCounts
  <2> QED BY <2>10, <2>11, <2>12, <2>13, <2>14 DEF RowsInv
<1> QED BY <1>1, <1>2

LEMMA RevokeSteps == ASSUME RowsInv, NEW c \in Callers, Revoke(c) PROVE RowsInv'
<1> DEFINE i == calls[c].id
<1>0. /\ calls[c] \in Call /\ calls[c].op = "revoke" /\ calls[c].stage = "read"
      /\ Named(calls[c], links, mints) /\ i \in 1..links /\ i \in Links /\ rows[i] \in Row
      /\ mints \in 0..MaxMints /\ MaxMints \in Nat /\ links \in 0..MaxLinks /\ MaxLinks \in Nat
  BY Arrived DEF Revoke, Named
<1>1. CASE ~StillHolds(c)
  BY <1>1, AnswerSteps DEF Revoke, Outs, RowsInv, TypeOK
<1>2. CASE StillHolds(c)
  <2> DEFINE q == [calls[c] EXCEPT !.out = "ok"]
             old == calls[c].saw
  <2>1. /\ rows' = [rows EXCEPT ![i] = NoRow] /\ pointers' = [pointers EXCEPT ![old] = 0]
        /\ live' = live - 1 /\ Now(c, q) /\ UNCHANGED <<links, mints, faults>>
    BY <1>2 DEF Revoke, Answer
  <2>2. rows[i].there /\ rows[i].key = old
    BY <1>2 DEF StillHolds
  <2>3. old \in Mints /\ pointers[old] = i /\ \A m \in Mints : pointers[m] = i => m = old
    BY <1>0, <2>2, OneKey
  <2>4. q \in Call /\ Named(q, links, mints)
    BY <1>0 DEF Call, Outs, Named
  <2> HIDE DEF q, i, old
  <2>5. \A j \in Links : rows'[j] = IF j = i THEN NoRow ELSE rows[j]
    BY <2>1 DEF RowsInv, TypeOK
  <2>6. \A m \in Mints : pointers'[m] = IF m = old THEN 0 ELSE pointers[m]
    BY <2>1 DEF RowsInv, TypeOK
  <2>7. rows' \in [Links -> Row] /\ pointers' \in [Mints -> 0..MaxLinks]
    <3>1. 0 \in 0..MaxLinks
      BY <1>0
    <3> QED BY <2>1, <3>1, EmptyTypes DEF RowsInv, TypeOK
  <2>8. calls' \in [Callers -> Call] /\ NamesGivenOut'
    BY <1>0, <2>1, <2>4, NamesStay DEF RowsInv
  <2>9. ~NoRow.there
    BY DEF NoRow
  <2>10. GivenOut'
    BY <2>1, <2>5, <2>6, <2>9 DEF RowsInv, GivenOut
  <2>11. PointersMatch'
    <3>1. ASSUME NEW m \in Mints, pointers'[m] # 0
          PROVE  rows'[pointers'[m]].there /\ rows'[pointers'[m]].key = m
      <4>1. pointers'[m] = pointers[m] /\ m # old /\ pointers[m] # 0
        BY <3>1, <2>6
      <4>2. pointers[m] \in Links /\ pointers[m] # i
        BY <4>1, <2>3, LookAssumption DEF RowsInv, TypeOK, Links
      <4> QED BY <4>1, <4>2, <2>5 DEF RowsInv, PointersMatch
    <3>2. ASSUME NEW j \in Links, rows'[j].there PROVE pointers'[rows'[j].key] = j
      <4>1. j # i /\ rows'[j] = rows[j] /\ rows[j].there
        BY <3>2, <2>5, <2>9
      <4>2. rows[j].key \in Mints /\ pointers[rows[j].key] = j
        BY <4>1, OneKey
      <4> QED BY <4>1, <4>2, <2>3, <2>6
    <3> QED BY <3>1, <3>2 DEF PointersMatch
  <2>12. live' = Cardinality(Live') /\ live' \in Nat /\ live' <= Cap
    <3>1. Live' = Live \ {i} /\ i \in Live /\ IsFiniteSet(Live)
      BY <1>0, <2>2, <2>5, <2>9, CountType DEF Live, RowsInv
    <3>2. Cardinality(Live') = Cardinality(Live) - 1
      BY <3>1, FS_RemoveElement
    <3>3. Cardinality(Live') \in Nat
      BY <3>1, FS_Subset, FS_CardinalityType
    <3> QED BY <2>1, <3>2, <3>3, LookAssumption DEF RowsInv, TypeOK, LiveCounts, Live
  <2>13. TypeOK' /\ LiveCounts'
    BY <2>1, <2>7, <2>8, <2>12 DEF RowsInv, TypeOK, LiveCounts, Live
  <2> QED BY <2>8, <2>10, <2>11, <2>13 DEF RowsInv
<1> QED BY <1>1, <1>2

LEMMA PublishSteps == ASSUME RowsInv, NEW c \in Callers, Publish(c) PROVE RowsInv'
<1> DEFINE q == calls[c]
           row == rows[q.id]
           fits == row.there /\ row.secret = q.secret /\ row.revision = q.base
           next == q.base + 1
           yes == [q EXCEPT !.out = "ok", !.revision = next]
           no == [q EXCEPT !.stage = "refused"]
           new == [row EXCEPT !.revision = next, !.look = q.look]
<1>0. /\ q \in Call /\ q.op = "publish" /\ q.stage = "asked" /\ Named(q, links, mints)
      /\ q.id \in Links /\ row \in Row
  BY Arrived DEF Publish, Named
<1>1. UNCHANGED <<pointers, live, links, mints, faults>>
  BY DEF Publish
<1>2. yes \in Call /\ no \in Call /\ Named(yes, links, mints) /\ Named(no, links, mints)
  <2>1. next \in Nat
    BY <1>0 DEF Call
  <2> HIDE DEF next, q
  <2>2. yes \in Call /\ no \in Call
    BY <1>0, <2>1 DEF Call, Outs, Stages
  <2>3. yes.op = q.op /\ yes.stage = q.stage /\ yes.id = q.id /\ no.op = q.op /\ no.stage = "refused" /\ no.id = q.id
    BY <1>0 DEF Call
  <2> HIDE DEF yes, no
  <2> QED BY <1>0, <2>2, <2>3 DEF Named
<1>3. CASE fits /\ rows' = [rows EXCEPT ![q.id] = new] /\ Now(c, yes)
  <2>0. next \in Nat /\ q.look \in Looks
    BY <1>0 DEF Call
  <2>1. new \in Row /\ new.there /\ new.key = row.key
    <3> HIDE DEF next, q
    <3> QED BY <1>0, <1>3, <2>0 DEF Row
  <2> HIDE DEF new, yes, q
  <2>2. calls' \in [Callers -> Call] /\ NamesGivenOut' /\ mints \in 0..MaxMints
    BY <1>1, <1>2, <1>3, NamesStay DEF RowsInv, TypeOK
  <2>3. mints' \in 0..MaxMints /\ mints <= mints'
    BY <1>1, <2>2, LookAssumption
  <2> QED BY <1>0, <1>1, <1>3, <2>1, <2>2, <2>3, RowSteps
<1>4. CASE ~fits /\ Now(c, no) /\ UNCHANGED rows
  <2> HIDE DEF no
  <2> QED BY <1>1, <1>2, <1>4, CallSteps DEF look, RowsInv, TypeOK
<1> QED BY <1>3, <1>4 DEF Publish

LEMMA PublishWhySteps == ASSUME RowsInv, NEW c \in Callers, PublishWhy(c) PROVE RowsInv'
<1> DEFINE row == rows[calls[c].id]
           out == IF ~row.there THEN "gone" ELSE IF row.secret # calls[c].secret THEN "not-publisher" ELSE "stale"
           q == [calls[c] EXCEPT !.revision = row.revision, !.out = out]
<1>1. calls[c] \in Call /\ calls[c].op = "publish" /\ calls[c].stage = "refused" /\ Named(calls[c], links, mints)
      /\ row \in Row
  BY Arrived DEF PublishWhy, Named
<1>2. Now(c, q) /\ UNCHANGED <<look, faults>> /\ faults' \in 0..MaxFaults
  BY DEF PublishWhy, RowsInv, TypeOK
<1>3. out \in Outs /\ row.revision \in Nat
  BY <1>1 DEF Outs, Row
<1> HIDE DEF out, row
<1>4. q \in Call /\ Named(q, links, mints)
  BY <1>1, <1>3 DEF Call, Named
<1> HIDE DEF q
<1> QED BY <1>2, <1>4, CallSteps

LEMMA ReadPointerSteps == ASSUME RowsInv, NEW c \in Callers, ReadPointer(c) PROVE RowsInv'
<1> DEFINE i == pointers[calls[c].key]
           q == IF i = 0 THEN [calls[c] EXCEPT !.out = "gone"] ELSE [calls[c] EXCEPT !.stage = "read", !.saw = i]
<1>1. /\ calls[c] \in Call /\ calls[c].op = "read" /\ calls[c].stage = "asked" /\ calls[c].key \in 1..mints
      /\ mints \in 0..MaxMints /\ MaxMints \in Nat /\ links \in 0..MaxLinks /\ MaxLinks \in Nat
  BY Arrived DEF ReadPointer, Named
<1>2. calls[c].key \in Mints /\ i \in 0..MaxLinks
  BY <1>1 DEF RowsInv, TypeOK, Mints
<1>3. i # 0 => i \in 1..links /\ i \in 0..(MaxLinks + MaxMints)
  BY <1>1, <1>2 DEF RowsInv, PointersMatch, GivenOut, Links
<1> HIDE DEF i
<1>4. q \in Call
  BY <1>1, <1>3 DEF Call, Stages, Outs
<1>5. q.op = "read" /\ q.key = calls[c].key /\ q.stage # "wrote" /\ (q.stage = "read" => q.saw \in 1..links)
  BY <1>1, <1>3 DEF Call
<1>6. Now(c, q) /\ UNCHANGED <<look, faults>> /\ faults' \in 0..MaxFaults
  BY DEF ReadPointer, RowsInv, TypeOK, i
<1> HIDE DEF q
<1>7. Named(q, links, mints)
  BY <1>1, <1>5 DEF Named
<1> QED BY <1>4, <1>6, <1>7, CallSteps

LEMMA ReadRowSteps == ASSUME RowsInv, NEW c \in Callers, ReadRow(c) PROVE RowsInv'
<1> DEFINE row == rows[calls[c].saw]
           q == IF ~row.there \/ row.key # calls[c].key THEN [calls[c] EXCEPT !.out = "gone"]
                ELSE [calls[c] EXCEPT !.look = row.look, !.out = IF row.look = 0 THEN "unpublished" ELSE "ok"]
<1>1. /\ calls[c] \in Call /\ calls[c].op = "read" /\ calls[c].stage = "read" /\ calls[c].saw \in 1..links
      /\ Named(calls[c], links, mints) /\ links \in 0..MaxLinks /\ MaxLinks \in Nat
  BY Arrived DEF ReadRow, Named
<1>2. row \in Row
  BY <1>1 DEF RowsInv, TypeOK, Links
<1> HIDE DEF row
<1>3. q \in Call /\ Named(q, links, mints)
  BY <1>1, <1>2 DEF Call, Outs, Row, Named
<1>4. Now(c, q) /\ UNCHANGED <<look, faults>> /\ faults' \in 0..MaxFaults
  BY DEF ReadRow, RowsInv, TypeOK, row
<1> HIDE DEF q
<1> QED BY <1>3, <1>4, CallSteps

LEMMA ServeSteps == ASSUME RowsInv, NEW c \in Callers, Serve(c) PROVE RowsInv'
<1>1. CASE CreateRead(c)
  BY <1>1, Arrived, ReadBackSteps DEF CreateRead, Named, Outs
<1>2. CASE TransferRead(c)
  BY <1>2, Arrived, ReadBackSteps DEF TransferRead, Named, Outs
<1>3. CASE RelinkRead(c)
  BY <1>3, Arrived, ReadBackSteps DEF RelinkRead, Named, Outs
<1> QED BY <1>1, <1>2, <1>3, CreateSteps, TransferSteps, ReadKeySteps, RelinkSteps, RevokeSteps, PublishSteps,
           PublishWhySteps, ReadPointerSteps, ReadRowSteps DEF Serve

LEMMA TroubleSteps == ASSUME RowsInv, NEW c \in Callers, Trouble(c) PROVE RowsInv'
<1>1. faults < MaxFaults => faults + 1 \in 0..MaxFaults
  BY LookAssumption DEF RowsInv, TypeOK
<1>2. "error" \in Outs /\ "limited" \in Outs
  BY DEF Outs
<1> QED BY <1>1, <1>2, AnswerSteps DEF Trouble, Drop, LoseAnswer, Limit, Faulty

LEMMA TurnSteps == ASSUME RowsInv, Turn PROVE RowsInv'
<1>1. NamesGivenOut'
  <2> SUFFICES ASSUME NEW c \in Callers PROVE Named(calls'[c], links, mints)
    BY DEF Turn, look, NamesGivenOut
  <2>1. CASE calls'[c] = calls[c]
    BY <2>1 DEF RowsInv, NamesGivenOut
  <2>2. CASE calls'[c] = NoCall
    <3>1. NoCall.op = "none" /\ NoCall.stage = "asked"
      BY DEF NoCall
    <3> QED BY <2>2, <3>1 DEF Named
  <2>3. CASE Begun(calls'[c])
    BY <2>3 DEF Begun, Named, Call
  <2> QED BY <2>1, <2>2, <2>3 DEF Turn
<1> QED BY <1>1 DEF Turn, RowsInv, TypeOK, GivenOut, PointersMatch, LiveCounts, look

LEMMA RowsStep == RowsInv /\ [Next]_vars => RowsInv'
<1> SUFFICES ASSUME RowsInv, [Next]_vars PROVE RowsInv'
  OBVIOUS
<1>1. CASE UNCHANGED vars
  BY <1>1 DEF vars, RowsInv, TypeOK, GivenOut, NamesGivenOut, PointersMatch, LiveCounts
<1> QED BY <1>1, ServeSteps, TroubleSteps, TurnSteps DEF Next

-----------------------------------------------------------------------------
\* Every row, pointer and request keeps its type, whatever its callers ask and in whatever order (looks.ts).
THEOREM RowsCorrect == Spec => []RowsInv
<1> QED BY RowsInit, RowsStep, PTL DEF Spec

\* A read key opens a link exactly when the link's row holds it (looks.ts relink, removeRow).
THEOREM PointersAgree == Spec => []PointersMatch
<1>1. RowsInv => PointersMatch
  BY DEF RowsInv
<1> QED BY <1>1, RowsCorrect, PTL

\* The count is the number of links, and within the cap (looks.ts create, removeRow).
THEOREM CountCorrect == Spec => []LiveCounts
<1>1. RowsInv => LiveCounts
  BY DEF RowsInv
<1> QED BY <1>1, RowsCorrect, PTL

\* A read that shows a look is answered by the link the key opens at that moment (lookRoutes.ts publicLook).
Shows(c) == calls[c].out = "" /\ calls'[c].out \in {"ok", "unpublished"} /\ calls[c].op = "read"

LEMMA ReadShows ==
  ASSUME RowsInv, Next, NEW c \in Callers, Shows(c)
  PROVE  pointers[calls[c].key] # 0 /\ calls'[c].look = rows[pointers[calls[c].key]].look
<1>0. calls'[c] # calls[c] /\ calls'[c].out # ""
  BY DEF Shows
<1>1. PICK b \in Callers : Serve(b) \/ Trouble(b)
  <2>1. NoCall.out = ""
    BY DEF NoCall
  <2>2. ~Turn
    BY <1>0, <2>1 DEF Turn, Begun
  <2> QED BY <2>2 DEF Next
<1>2. ASSUME NEW q, Now(b, q) PROVE b = c /\ calls'[c] = q
  BY <1>2, <1>0 DEF Now, RowsInv, TypeOK
<1>3. calls[c] \in Call
  BY DEF RowsInv, TypeOK
<1>4. ReadRow(c)
  <2>1. ASSUME NEW out, Answer(b, out) PROVE b = c /\ calls'[c].out = out
    <3>1. b = c /\ calls'[c] = [calls[c] EXCEPT !.out = out]
      BY <2>1, <1>2 DEF Answer
    <3> QED BY <3>1, <1>3 DEF Call
  <2>2. ~Trouble(b)
    <3>1. ~Answer(b, "error") /\ ~Answer(b, "limited")
      <4>1. Answer(b, "error") => calls'[c].out = "error"
        BY <2>1
      <4>2. Answer(b, "limited") => calls'[c].out = "limited"
        BY <2>1
      <4> QED BY <4>1, <4>2 DEF Shows
    <3> QED BY <3>1 DEF Trouble, Drop, LoseAnswer, Limit, Faulty
  <2>3. b = c
    BY <1>1, <1>2, <2>1, <2>2 DEF Serve, Create, CreateRead, ReadBack, Transfer, TransferRead, ReadKey, Relink,
       RelinkRead, Revoke, Publish, PublishWhy, ReadPointer, ReadRow
  <2>4. ReadPointer(c) \/ ReadRow(c)
    BY <1>1, <2>2, <2>3 DEF Shows, Serve, At, Create, CreateRead, Transfer, TransferRead, ReadKey, Relink, RelinkRead, Revoke,
       Publish, PublishWhy
  <2>5. ~ReadPointer(c)
    <3> DEFINE i == pointers[calls[c].key]
               q == IF i = 0 THEN [calls[c] EXCEPT !.out = "gone"]
                             ELSE [calls[c] EXCEPT !.stage = "read", !.saw = i]
    <3> SUFFICES ASSUME ReadPointer(c) PROVE FALSE
      OBVIOUS
    <3>1. Now(c, q)
      BY DEF ReadPointer
    <3>2. calls'[c] = q
      BY <3>1, <1>2, <2>3
    <3>3. q.out \in {"gone", ""}
      BY <1>3 DEF Call, Shows
    <3> HIDE DEF q
    <3> QED BY <3>2, <3>3 DEF Shows
  <2> QED BY <2>4, <2>5
<1> DEFINE row == rows[calls[c].saw]
<1>6. row.there /\ row.key = calls[c].key /\ calls'[c].look = row.look
  BY <1>0, <1>3, <1>4 DEF Shows, ReadRow, Now, RowsInv, TypeOK, Call
<1>7. calls[c].saw \in Links
  <2>1. At(c, "read", "read")
    BY <1>4 DEF ReadRow
  <2>2. calls[c].saw \in 1..links /\ links \in 0..MaxLinks /\ MaxLinks \in Nat
    BY <2>1, Arrived DEF Named
  <2> QED BY <2>2 DEF Links
<1> QED BY <1>6, <1>7, OneKey DEF Links

\* No read shows a look by a key that does not open its link (lookRoutes.ts publicLook).
THEOREM ShownCorrect == Spec => ShownByKey
<1>1. RowsInv /\ [Next]_vars =>
        [\A c \in Callers : calls[c].out = "" /\ calls'[c].out \in {"ok", "unpublished"} /\ calls[c].op = "read"
           => pointers[calls[c].key] # 0 /\ calls'[c].look = rows[pointers[calls[c].key]].look]_vars
  BY ReadShows DEF Shows, vars
<1> QED BY <1>1, RowsCorrect, PTL DEF Spec, ShownByKey
=============================================================================
