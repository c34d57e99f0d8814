--------------------------- MODULE EntrySyncProofs ---------------------------
(***************************************************************************)
(* What never leaves a device and what no pass takes off one, and that the *)
(* server's object is its row's, for every set of devices and every order  *)
(* of writes, passes, requests and failures the theorems name.             *)
(***************************************************************************)
EXTENDS EntrySync, TLAPS

\* What may be said of a text that has left a device.
Sent == offered \cup {NoText}

\* What lies on a device under the switch a player put there.
ShelfOffered == \A d \in Devices : SwitchedOn(disk[d]) => disk[d].text \in offered

\* What a push carries was listed under the switch.
Pushing == {"check", "again", "object", "row"}
PushOffered == \A d \in Devices : place[d] \in Pushing => mine[d].text \in offered

\* What a request read or wrote of the server, and what a pull is to keep.
ReadOffered ==
  \A d \in Devices : held[d].text \in Sent /\ (place[d] = "keep" => got[d] \in offered)

Travelling == TypeOK /\ ShelfOffered /\ PushOffered /\ ReadOffered /\ StaysHome

-----------------------------------------------------------------------------
\* A record that is put under a new switch, text or stamp is a record.
LEMMA WrittenIsRecord ==
  ASSUME TypeOK, clock < MaxWrites,
         NEW text \in Texts, NEW sync \in {"on", "off", "unset"}, NEW sealed \in BOOLEAN
  PROVE  Written(text, sync, sealed) \in Record
  BY EntryAssumption DEF Written, Record, TypeOK, Times

LEMMA EmptyTypes ==
  NoRow \in Row /\ NoRecord \in Record /\ Nothing \in Noted /\ NoText \in Texts /\ Bought \in Texts
  BY EntryAssumption DEF NoRow, NoRecord, Nothing, Row, Record, Noted, Texts, Times

\* The plan sends only what is live.
LEMMA OnlyLiveIsPushed ==
  ASSUME NEW l, NEW r, Plan(l, r) = "push",
         l.state \in {"none", "live", "gone"}, r.state \in {"none", "live", "gone"}
  PROVE  Live(l)
<1>1. CASE l.state = "gone"
  BY <1>1 DEF Plan, Live, Gone, Absent
<1>2. CASE l.state = "none"
  BY <1>2 DEF Plan, Live, Gone, Absent
<1> QED BY <1>1, <1>2 DEF Live

\* And of the records, only what may travel.
LEMMA OnlySwitchedOnIsPushed ==
  ASSUME NEW l \in Record, NEW t, NEW r \in Row,
         Plan(IF Travels(l) THEN [l EXCEPT !.text = t] ELSE NoRecord, r) = "push"
  PROVE  SwitchedOn(l)
<1> DEFINE e == IF Travels(l) THEN [l EXCEPT !.text = t] ELSE NoRecord
<1>1. e.state = (IF Travels(l) THEN l.state ELSE "none")
  BY DEF Record, NoRecord
<1>2. e.state \in {"none", "live", "gone"} /\ r.state \in {"none", "live", "gone"}
  BY <1>1 DEF Record, Row
<1>3. Live(e)
  <2> HIDE DEF e
  <2> QED BY <1>2, OnlyLiveIsPushed DEF e
<1>4. Travels(l) /\ l.state = "live"
  BY <1>1, <1>3 DEF Live
<1> QED BY <1>4 DEF Travels, SwitchedOn, Live, Gone

-----------------------------------------------------------------------------
LEMMA TypeInit == Init => TypeOK
  BY EntryAssumption, EmptyTypes DEF Init, TypeOK, Times, Places

\* A write leaves all but the record, the clock and what is offered alone.
LEMMA PutTypes ==
  ASSUME TypeOK, NEW d \in Devices, NEW r, Put(d, r), clock < MaxWrites => r \in Record
  PROVE  TypeOK'
  BY EntryAssumption DEF Put, TypeOK, Times, Record, server, pass

\* A pass that is over leaves the rows and the records alone.
LEMMA OverTypes ==
  ASSUME TypeOK, NEW d \in Devices, Over(d)
  PROVE  /\ place' \in [Devices -> Places] /\ mine' \in [Devices -> Record]
         /\ remote' \in [Devices -> Row] /\ held' \in [Devices -> Row] /\ got' \in [Devices -> Texts]
  BY EmptyTypes DEF Over, Go, TypeOK, Places

LEMMA TypeStep == TypeOK /\ [Next]_vars => TypeOK'
<1> SUFFICES ASSUME TypeOK, [Next]_vars PROVE TypeOK'
  OBVIOUS
<1> USE DEF server
<1>1. CASE UNCHANGED vars
  BY <1>1 DEF vars, TypeOK
<1>2. ASSUME NEW d \in Devices, Player(d) PROVE TypeOK'
  <2> 0 \in Texts /\ (clock < MaxWrites => clock + 1 \in Times /\ clock + 1 \in Texts)
    BY EntryAssumption DEF TypeOK, Times, Texts
  <2>1. CASE Import(d)
    BY <2>1, WrittenIsRecord, PutTypes DEF Import
  <2>2. CASE FromFile(d)
    <3>1. (IF Live(disk[d]) THEN disk[d].sync ELSE "unset") \in {"on", "off", "unset"}
      BY DEF TypeOK, Record
    <3> QED BY <2>2, <3>1, WrittenIsRecord, PutTypes DEF FromFile
  <2>3. CASE Buy(d)
    BY <2>3, EmptyTypes, WrittenIsRecord, PutTypes DEF Buy
  <2>4. CASE Switch(d)
    <3> DEFINE r == [disk[d] EXCEPT !.sync = IF @ = "on" THEN "off" ELSE "on", !.updatedAt = clock + 1]
    <3>1. ASSUME NEW s \in {"on", "off", "unset"}, clock < MaxWrites
          PROVE  [disk[d] EXCEPT !.sync = s, !.updatedAt = clock + 1] \in Record
      <4>1. disk[d] \in Record /\ clock + 1 \in Times
        BY <3>1 DEF TypeOK
      <4>2. [disk[d] EXCEPT !.sync = s] \in Record
        BY <4>1 DEF Record
      <4> QED BY <4>1, <4>2 DEF Record
    <3>2. (IF disk[d].sync = "on" THEN "off" ELSE "on") \in {"on", "off", "unset"}
      OBVIOUS
    <3>3. clock < MaxWrites => r \in Record
      BY <3>1, <3>2
    <3> HIDE DEF r
    <3> QED BY <2>4, <3>3, PutTypes DEF Switch, r
  <2>5. CASE Forget(d)
    <3> DEFINE r == IF disk[d].sealed THEN NoRecord
                    ELSE [disk[d] EXCEPT !.state = "gone", !.text = NoText,
                                         !.updatedAt = clock + 1, !.deletedAt = clock + 1]
    <3>1. clock < MaxWrites => r \in Record
      BY EmptyTypes DEF TypeOK, Record
    <3> HIDE DEF r
    <3> QED BY <2>5, <3>1, PutTypes DEF Forget, r
  <2> QED BY <1>2, <2>1, <2>2, <2>3, <2>4, <2>5 DEF Player
<1>3. ASSUME NEW d \in Devices, Manifest(d) PROVE TypeOK'
  BY <1>3 DEF Manifest, Go, TypeOK, Places
<1>4. ASSUME NEW d \in Devices, PassStep(d) PROVE TypeOK'
  <2>1. CASE List(d)
    BY <2>1, OverTypes DEF List, Go, TypeOK, Places
  <2>2. CASE Check(d)
    BY <2>2, OverTypes DEF Check, Go, TypeOK, Places
  <2>3. CASE Again(d)
    BY <2>3, OverTypes DEF Again, Go, TypeOK, Places
  <2>4. CASE PutObject(d)
    BY <2>4 DEF PutObject, Go, TypeOK, Places, Record
  <2>5. CASE PutRow(d)
    BY <2>5, EmptyTypes DEF PutRow, Go, TypeOK, Places, Record, Row
  <2>6. CASE Note(d)
    BY <2>6, OverTypes DEF Note, TypeOK, Noted, Row
  <2>7. CASE Get(d)
    BY <2>7, OverTypes DEF Get, Go, TypeOK, Places
  <2>8. CASE Fetch(d)
    BY <2>8, OverTypes DEF Fetch, Go, TypeOK, Places
  <2>9. CASE Keep(d)
    BY <2>9, EmptyTypes DEF Keep, Go, TypeOK, Places, Record, Row
  <2>10. CASE Tell(d)
    BY <2>10 DEF Tell, Go, TypeOK, Places, Row
  <2>11. CASE Bury(d)
    <3>1. held[d] \in Row /\ mine[d].deletedAt \in Times
      BY DEF TypeOK, Record
    <3>2. row' \in Row
      BY <2>11, <3>1 DEF Bury, Row
    <3>3. place' \in [Devices -> Places]
      BY <2>11 DEF Bury, Go, TypeOK, Places
    <3> QED BY <2>11, <3>2, <3>3 DEF Bury, TypeOK
  <2>12. CASE Burn(d)
    BY <2>12, EmptyTypes DEF Burn, Go, TypeOK, Places
  <2>13. CASE Drop(d)
    BY <2>13, OverTypes, EmptyTypes DEF Drop, TypeOK
  <2> QED BY <1>4, <2>1, <2>2, <2>3, <2>4, <2>5, <2>6, <2>7, <2>8, <2>9, <2>10, <2>11, <2>12, <2>13
          DEF PassStep
<1>5. ASSUME NEW d \in Devices, Cut(d) PROVE TypeOK'
  BY <1>5, OverTypes, EntryAssumption DEF Cut, TypeOK
<1> QED BY <1>1, <1>2, <1>3, <1>4, <1>5 DEF Next

\* Every row, record and pass keeps its type (db.ts and store.ts: what is
\* stored of a pack on a device and on the server).
THEOREM TypeCorrect == Spec => []TypeOK
<1>1. Init => TypeOK
  BY TypeInit
<1>2. TypeOK /\ [Next]_vars => TypeOK'
  BY TypeStep
<1> QED BY <1>1, <1>2, PTL DEF Spec

-----------------------------------------------------------------------------
LEMMA TravellingInit == Init => Travelling
<1> SUFFICES ASSUME Init PROVE Travelling
  OBVIOUS
<1>1. TypeOK
  BY TypeInit
<1>2. ShelfOffered
  BY DEF Init, ShelfOffered, SwitchedOn, Live, NoRecord
<1>3. PushOffered /\ ReadOffered /\ StaysHome
  BY DEF Init, PushOffered, ReadOffered, StaysHome, Pushing, Sent, NoRow
<1> QED BY <1>1, <1>2, <1>3 DEF Travelling

\* A write offers what it puts under the switch, and withdraws nothing.
LEMMA PutTravels ==
  ASSUME Travelling, NEW d \in Devices, NEW r, Put(d, r)
  PROVE  ShelfOffered' /\ PushOffered' /\ ReadOffered' /\ StaysHome'
<1>1. offered \subseteq offered' /\ (SwitchedOn(r) => r.text \in offered')
  BY DEF Put
<1>2. disk' = [disk EXCEPT ![d] = r] /\ UNCHANGED <<row, object, place, mine, held, got>>
  BY DEF Put, server, pass
<1>3. ShelfOffered'
  BY <1>1, <1>2 DEF Travelling, TypeOK, ShelfOffered, SwitchedOn, Live
<1>4. PushOffered' /\ ReadOffered' /\ StaysHome'
  BY <1>1, <1>2 DEF Travelling, PushOffered, ReadOffered, StaysHome, Sent
<1> QED BY <1>3, <1>4

\* A pass that is over carries nothing.
LEMMA OverTravels ==
  ASSUME Travelling, NEW d \in Devices, Over(d), UNCHANGED offered
  PROVE  PushOffered' /\ ReadOffered'
<1>1. PushOffered'
  BY DEF Travelling, TypeOK, Over, Go, PushOffered, Pushing
<1>2. ReadOffered'
  BY DEF Travelling, TypeOK, Over, Go, ReadOffered, Sent, NoRow
<1> QED BY <1>1, <1>2

\* A record that is switched on is offered, whatever else is in its place.
LEMMA ShelfStays ==
  ASSUME Travelling, UNCHANGED <<disk, offered>>
  PROVE  ShelfOffered'
  BY DEF Travelling, ShelfOffered, SwitchedOn, Live

LEMMA TravellingStep == Travelling /\ [Next]_vars => Travelling'
<1> SUFFICES ASSUME Travelling, [Next]_vars
             PROVE  ShelfOffered' /\ PushOffered' /\ ReadOffered' /\ StaysHome'
  BY TypeStep DEF Travelling
<1> USE DEF server
<1>0. TypeOK
  BY DEF Travelling
<1>1. CASE UNCHANGED vars
  BY <1>1 DEF vars, Travelling, ShelfOffered, SwitchedOn, Live, PushOffered, ReadOffered, StaysHome, Sent
<1>2. ASSUME NEW d \in Devices, Player(d)
      PROVE  ShelfOffered' /\ PushOffered' /\ ReadOffered' /\ StaysHome'
  <2>1. \E r : Put(d, r)
    BY <1>2 DEF Player, Import, FromFile, Buy, Switch, Forget
  <2> QED BY <2>1, PutTravels
<1>3. ASSUME NEW d \in Devices, Manifest(d)
      PROVE  ShelfOffered' /\ PushOffered' /\ ReadOffered' /\ StaysHome'
  BY <1>0, <1>3, ShelfStays
     DEF Manifest, Go, Travelling, TypeOK, PushOffered, Pushing, ReadOffered, StaysHome, Sent
<1>4. ASSUME NEW d \in Devices, List(d)
      PROVE  ShelfOffered' /\ PushOffered' /\ ReadOffered' /\ StaysHome'
  <2>1. ShelfOffered' /\ StaysHome'
    BY <1>4, ShelfStays DEF List, Travelling, StaysHome
  <2>2. CASE Over(d)
    BY <1>4, <2>1, <2>2, OverTravels DEF List
  <2>3. CASE ~Over(d)
    <3> DEFINE entry == IF Travels(disk[d]) THEN [disk[d] EXCEPT !.text = Fingerprint(d, disk[d])] ELSE NoRecord
               plan  == IF Live(disk[d]) /\ disk[d].sealed THEN "rest" ELSE Plan(entry, remote[d])
    <3>1. /\ mine' = [mine EXCEPT ![d] = disk[d]] /\ UNCHANGED <<held, got, offered>>
          /\ Go(d, CASE plan = "push" -> "check" [] plan = "pull" -> "get"
                     [] plan = "tell" -> "tell"  [] OTHER -> "drop")
      BY <1>4, <2>3 DEF List
    <3>2. disk[d] \in Record /\ remote[d] \in Row
      BY <1>0 DEF TypeOK
    <3>3. plan = "push" => disk[d].text \in offered
      <4>1. plan = "push" => Plan(entry, remote[d]) = "push"
        OBVIOUS
      <4> QED BY <3>2, <4>1, OnlySwitchedOnIsPushed DEF Travelling, ShelfOffered
    <3>4. ReadOffered'
      <4>1. place'[d] # "keep"
        <5> HIDE DEF plan
        <5> QED BY <1>0, <3>1 DEF Go, TypeOK
      <4> QED BY <1>0, <3>1, <4>1 DEF Go, TypeOK, Travelling, ReadOffered, Sent
    <3>5. place'[d] \in Pushing => plan = "push"
      <4> HIDE DEF plan
      <4> QED BY <1>0, <3>1 DEF Go, TypeOK, Pushing
    <3>6. PushOffered'
      <4> HIDE DEF plan
      <4> QED BY <1>0, <3>1, <3>3, <3>5 DEF Go, TypeOK, Travelling, PushOffered
    <3> QED BY <2>1, <3>4, <3>6
  <2> QED BY <2>2, <2>3
<1>5. ASSUME NEW d \in Devices, Check(d) \/ Again(d)
      PROVE  ShelfOffered' /\ PushOffered' /\ ReadOffered' /\ StaysHome'
  <2>1. ShelfOffered' /\ StaysHome'
    BY <1>5, ShelfStays DEF Check, Again, Travelling, StaysHome
  <2>2. CASE Over(d)
    BY <1>5, <2>1, <2>2, OverTravels DEF Check, Again
  <2>3. CASE ~Over(d)
    BY <1>0, <1>5, <2>1, <2>3
       DEF Check, Again, Go, Travelling, TypeOK, PushOffered, Pushing, ReadOffered, Sent
  <2> QED BY <2>2, <2>3
<1>6. ASSUME NEW d \in Devices, PutObject(d)
      PROVE  ShelfOffered' /\ PushOffered' /\ ReadOffered' /\ StaysHome'
  BY <1>0, <1>6, ShelfStays
     DEF PutObject, Go, Travelling, TypeOK, PushOffered, Pushing, ReadOffered, StaysHome, Sent
<1>7. ASSUME NEW d \in Devices, PutRow(d)
      PROVE  ShelfOffered' /\ PushOffered' /\ ReadOffered' /\ StaysHome'
  <2>1. row'.text = mine[d].text /\ held' = [held EXCEPT ![d] = row']
    BY <1>7 DEF PutRow, NoRow
  <2>2. mine[d].text \in offered
    BY <1>7 DEF PutRow, Travelling, PushOffered, Pushing
  <2> QED BY <1>0, <1>7, <2>1, <2>2, ShelfStays
          DEF PutRow, Go, Travelling, TypeOK, PushOffered, Pushing, ReadOffered, StaysHome, Sent
<1>8. ASSUME NEW d \in Devices, Note(d)
      PROVE  ShelfOffered' /\ PushOffered' /\ ReadOffered' /\ StaysHome'
  BY <1>8, ShelfStays, OverTravels DEF Note, Travelling, StaysHome
<1>9. ASSUME NEW d \in Devices, Get(d) \/ Fetch(d)
      PROVE  ShelfOffered' /\ PushOffered' /\ ReadOffered' /\ StaysHome'
  <2>1. ShelfOffered' /\ StaysHome'
    BY <1>9, ShelfStays DEF Get, Fetch, Travelling, StaysHome
  <2>2. CASE Over(d)
    BY <1>9, <2>1, <2>2, OverTravels DEF Get, Fetch
  <2>3. CASE ~Over(d)
    BY <1>0, <1>9, <2>1, <2>3
       DEF Get, Fetch, Go, Travelling, TypeOK, PushOffered, Pushing, ReadOffered, StaysHome, Sent
  <2> QED BY <2>2, <2>3
<1>10. ASSUME NEW d \in Devices, Keep(d)
       PROVE  ShelfOffered' /\ PushOffered' /\ ReadOffered' /\ StaysHome'
  <2> DEFINE new == [NoRecord EXCEPT !.state = "live", !.text = got[d], !.updatedAt = held[d].updatedAt,
                                     !.sync = IF disk[d].sync = "off" THEN "off" ELSE "on"]
  <2>1. new.text = got[d] /\ got[d] \in offered
    BY <1>10 DEF Keep, NoRecord, Travelling, ReadOffered
  <2>2. disk' = [disk EXCEPT ![d] = new]
    BY <1>10 DEF Keep
  <2>3. ShelfOffered'
    <3> HIDE DEF new
    <3> QED BY <1>0, <1>10, <2>1, <2>2 DEF Keep, Travelling, TypeOK, ShelfOffered, SwitchedOn, Live
  <2>4. PushOffered' /\ ReadOffered' /\ StaysHome'
    BY <1>0, <1>10 DEF Keep, Go, Travelling, TypeOK, PushOffered, Pushing, ReadOffered, StaysHome, Sent
  <2> QED BY <2>3, <2>4
<1>11. ASSUME NEW d \in Devices, Tell(d)
       PROVE  ShelfOffered' /\ PushOffered' /\ ReadOffered' /\ StaysHome'
  <2>1. held'[d].text = row.text /\ \A e \in Devices \ {d} : held'[e] = held[e]
    BY <1>0, <1>11 DEF Tell, TypeOK, Row
  <2> QED BY <1>0, <1>11, <2>1, ShelfStays
          DEF Tell, Go, Travelling, TypeOK, PushOffered, Pushing, ReadOffered, StaysHome, Sent
<1>12. ASSUME NEW d \in Devices, Bury(d) \/ Burn(d)
       PROVE  ShelfOffered' /\ PushOffered' /\ ReadOffered' /\ StaysHome'
  <2>1. row'.text \in Sent /\ object' \in Sent
    BY <1>0, <1>12 DEF Bury, Burn, Travelling, TypeOK, Row, ReadOffered, StaysHome, Sent
  <2>2. place'[d] \in {"burn", "drop"} /\ \A e \in Devices \ {d} : place'[e] = place[e]
    BY <1>0, <1>12 DEF Bury, Burn, Go, TypeOK
  <2> QED BY <1>12, <2>1, <2>2, ShelfStays
          DEF Bury, Burn, Travelling, PushOffered, Pushing, ReadOffered, StaysHome, Sent
<1>13. ASSUME NEW d \in Devices, Drop(d)
       PROVE  ShelfOffered' /\ PushOffered' /\ ReadOffered' /\ StaysHome'
  <2>1. ShelfOffered'
    BY <1>0, <1>13 DEF Drop, Travelling, TypeOK, ShelfOffered, SwitchedOn, Live, NoRecord
  <2> QED BY <1>13, <2>1, OverTravels DEF Drop, Travelling, StaysHome
<1>14. ASSUME NEW d \in Devices, Cut(d)
       PROVE  ShelfOffered' /\ PushOffered' /\ ReadOffered' /\ StaysHome'
  BY <1>14, ShelfStays, OverTravels DEF Cut, Travelling, StaysHome
<1> QED BY <1>1, <1>2, <1>3, <1>4, <1>5, <1>6, <1>7, <1>8, <1>9, <1>10, <1>11, <1>12, <1>13, <1>14
        DEF Next, PassStep

\* Untoggled text never leaves, and never a sealed copy at all (engine.ts):
\* whatever order writes, passes, requests and failures come in, the server
\* holds nothing a player has not switched on.
THEOREM UnsharedStaysHome == Spec => []StaysHome
<1>1. Init => Travelling
  BY TravellingInit
<1>2. Travelling /\ [Next]_vars => Travelling'
  BY TravellingStep
<1>3. Travelling => StaysHome
  BY DEF Travelling
<1> QED BY <1>1, <1>2, <1>3, PTL DEF Spec

-----------------------------------------------------------------------------
\* What is sealed is on the shelf, and a pass past its list found none there.
SealedIsLive == \A d \in Devices : disk[d].sealed => Live(disk[d])
NoneSealed   == \A d \in Devices : place[d] \notin {"idle", "list"} => ~disk[d].sealed
Sealing      == TypeOK /\ SealedIsLive /\ NoneSealed

LEMMA SealingInit == Init => Sealing
  BY TypeInit DEF Init, Sealing, SealedIsLive, NoneSealed, NoRecord

\* A write seals only what is live, and waits for the pass to end.
LEMMA PutSeals ==
  ASSUME Sealing, "midpass" \notin Hazards, NEW d \in Devices, NEW r, Put(d, r), r.sealed => Live(r)
  PROVE  SealedIsLive' /\ NoneSealed'
<1>1. place[d] = "idle" /\ UNCHANGED place /\ disk' = [disk EXCEPT ![d] = r]
  BY DEF Put, pass
<1> QED BY <1>1 DEF Sealing, TypeOK, SealedIsLive, NoneSealed, Live

LEMMA SealingStep ==
  ASSUME "midpass" \notin Hazards
  PROVE  Sealing /\ [Next]_vars => Sealing'
<1> SUFFICES ASSUME Sealing, [Next]_vars PROVE SealedIsLive' /\ NoneSealed'
  BY TypeStep DEF Sealing
<1>1. CASE UNCHANGED vars
  BY <1>1 DEF vars, Sealing, SealedIsLive, NoneSealed, Live
<1>2. ASSUME NEW d \in Devices, Player(d) PROVE SealedIsLive' /\ NoneSealed'
  <2>1. CASE Import(d)
    BY <2>1, PutSeals DEF Import, Written
  <2>2. CASE FromFile(d)
    BY <2>2, PutSeals DEF FromFile, Written
  <2>3. CASE Buy(d)
    BY <2>3, PutSeals DEF Buy, Written, Live
  <2>4. CASE Switch(d)
    <3> DEFINE r == [disk[d] EXCEPT !.sync = IF @ = "on" THEN "off" ELSE "on", !.updatedAt = clock + 1]
    <3>1. Live(r)
      BY <2>4 DEF Switch, Sealing, TypeOK, Record, Live
    <3> HIDE DEF r
    <3> QED BY <2>4, <3>1, PutSeals DEF Switch, r
  <2>5. CASE Forget(d)
    <3> DEFINE r == IF disk[d].sealed THEN NoRecord
                    ELSE [disk[d] EXCEPT !.state = "gone", !.text = NoText,
                                         !.updatedAt = clock + 1, !.deletedAt = clock + 1]
    <3>1. ~r.sealed
      BY DEF Sealing, TypeOK, Record, NoRecord
    <3> HIDE DEF r
    <3> QED BY <2>5, <3>1, PutSeals DEF Forget, r
  <2> QED BY <1>2, <2>1, <2>2, <2>3, <2>4, <2>5 DEF Player
<1>3. ASSUME NEW d \in Devices, Manifest(d) PROVE SealedIsLive' /\ NoneSealed'
  BY <1>3 DEF Manifest, Go, Sealing, TypeOK, SealedIsLive, NoneSealed, Live
<1>4. ASSUME NEW d \in Devices, List(d) PROVE SealedIsLive' /\ NoneSealed'
  <2>1. UNCHANGED disk /\ \A e \in Devices \ {d} : place'[e] = place[e]
    BY <1>4 DEF List, Over, Go, Sealing, TypeOK
  <2>2. Live(disk[d]) /\ disk[d].sealed => place'[d] = "idle"
    BY <1>4 DEF List, Over, Go, Sealing, TypeOK
  <2> QED BY <2>1, <2>2 DEF Sealing, SealedIsLive, NoneSealed, Live
<1>5. ASSUME NEW d \in Devices, place[d] \notin {"idle", "list"}, UNCHANGED disk,
             \A e \in Devices \ {d} : place'[e] = place[e]
      PROVE  SealedIsLive' /\ NoneSealed'
  BY <1>5 DEF Sealing, SealedIsLive, NoneSealed, Live
<1>6. ASSUME NEW d \in Devices, Check(d) \/ Again(d) \/ Get(d) \/ Fetch(d) \/ Note(d)
      PROVE  SealedIsLive' /\ NoneSealed'
  BY <1>5, <1>6 DEF Check, Again, Get, Fetch, Note, Over, Go, Sealing, TypeOK
<1>7. ASSUME NEW d \in Devices, PutObject(d) \/ PutRow(d) \/ Tell(d) \/ Bury(d) \/ Burn(d)
      PROVE  SealedIsLive' /\ NoneSealed'
  BY <1>5, <1>7 DEF PutObject, PutRow, Tell, Bury, Burn, Go, Sealing, TypeOK
<1>8. ASSUME NEW d \in Devices, Keep(d) PROVE SealedIsLive' /\ NoneSealed'
  <2> DEFINE new == [NoRecord EXCEPT !.state = "live", !.text = got[d], !.updatedAt = held[d].updatedAt,
                                     !.sync = IF disk[d].sync = "off" THEN "off" ELSE "on"]
  <2>1. ~new.sealed
    BY DEF NoRecord
  <2>2. disk' = [disk EXCEPT ![d] = new] /\ \A e \in Devices \ {d} : place'[e] = place[e]
    BY <1>8 DEF Keep, Go, Sealing, TypeOK
  <2> HIDE DEF new
  <2> QED BY <2>1, <2>2 DEF Sealing, TypeOK, SealedIsLive, NoneSealed, Live
<1>9. ASSUME NEW d \in Devices, Drop(d) PROVE SealedIsLive' /\ NoneSealed'
  BY <1>9 DEF Drop, Over, Go, Sealing, TypeOK, SealedIsLive, NoneSealed, Live, NoRecord
<1>10. ASSUME NEW d \in Devices, Cut(d) PROVE SealedIsLive' /\ NoneSealed'
  BY <1>10 DEF Cut, Over, Go, Sealing, TypeOK, SealedIsLive, NoneSealed, Live
<1> QED BY <1>1, <1>2, <1>3, <1>4, <1>6, <1>7, <1>8, <1>9, <1>10 DEF Next, PassStep

\* Only a write changes the clock, and only Keep and Drop change a record
\* without one.
LEMMA SealStays ==
  ASSUME Sealing, [Next]_vars, "midpass" \notin Hazards
  PROVE  \A d \in Devices : disk[d].sealed /\ ~disk'[d].sealed => clock' # clock
<1>1. CASE UNCHANGED vars
  BY <1>1 DEF vars
<1>2. ASSUME NEW e \in Devices, Player(e) PROVE clock' # clock
  <2>1. clock \in Nat
    BY EntryAssumption DEF Sealing, TypeOK, Times
  <2>2. \E r : Put(e, r)
    BY <1>2 DEF Player, Import, FromFile, Buy, Switch, Forget
  <2>3. clock' = clock + 1
    BY <2>2 DEF Put
  <2> QED BY <2>1, <2>3
<1>3. ASSUME NEW e \in Devices, Keep(e) \/ Drop(e), NEW d \in Devices, disk[d].sealed
      PROVE  disk'[d] = disk[d]
  <2>1. ~disk[e].sealed
    BY <1>3 DEF Keep, Drop, Sealing, NoneSealed
  <2> QED BY <1>3, <2>1 DEF Keep, Drop, Sealing, TypeOK
<1>4. ASSUME NEW e \in Devices, ~Player(e), ~Keep(e), ~Drop(e), Manifest(e) \/ PassStep(e) \/ Cut(e)
      PROVE  UNCHANGED disk
  BY <1>4 DEF PassStep, Manifest, List, Check, Again, PutObject, PutRow, Note, Get, Fetch, Tell, Bury, Burn, Cut
<1> QED BY <1>1, <1>2, <1>3, <1>4 DEF Next

\* Where a player does not write while a pass is under way.
LEMMA BoughtOutsidePasses ==
  ASSUME "midpass" \notin Hazards
  PROVE  Spec => BoughtStays
<1>1. Init => Sealing
  BY SealingInit
<1>2. Sealing /\ [Next]_vars => Sealing'
  BY SealingStep
<1>3. Sealing /\ [Next]_vars
        => [\A d \in Devices : disk[d].sealed /\ ~disk'[d].sealed => clock' # clock]_vars
  BY SealStays
<1> QED BY <1>1, <1>2, <1>3, PTL DEF Spec, BoughtStays

-----------------------------------------------------------------------------
(* One device at a time: what is proved from here on is for players who    *)
(* write where they have what the others have.  One device, the last whose *)
(* player wrote, leads; the others follow.                                 *)

\* The record `r` says what the row `x` says, or is sealed and says nothing of it.
Matches(r, x) ==
  \/ r.sealed
  \/ SwitchedOn(r) /\ Live(x) /\ r.text = x.text
  \/ Absent(r) /\ ~Live(x)

\* The row `x` was written, or buried, after the record `r`.
Behind(r, x) == (Live(x) /\ r.updatedAt < x.updatedAt) \/ (Gone(x) /\ r.updatedAt <= x.deletedAt)

\* A device has what the server is still to hear of.
Ahead(d) ==
  \/ SwitchedOn(disk[d]) /\ ~(Live(row) /\ row.text = disk[d].text)
  \/ Gone(disk[d]) /\ ~Gone(row)

\* No stamp is later than the clock.
RowPast(x) == x.updatedAt <= clock /\ x.deletedAt <= clock
Past(d) ==
  /\ disk[d].updatedAt <= clock /\ known[d].updatedAt <= clock
  /\ RowPast(remote[d]) /\ RowPast(held[d])

\* A stamp names one text, wherever the two are found together: `txt` of the stamp.
Dates(txt) ==
  /\ txt \in [Times -> Texts]
  /\ \A t \in 0..clock : txt[t] \in 0..clock \cup {NoText, Bought}
Dated(txt, d) ==
  /\ Live(disk[d]) => disk[d].text = txt[disk[d].updatedAt]
  /\ known[d].here => known[d].text = txt[known[d].updatedAt]
  /\ place[d] \in {"fetch", "keep", "answer", "note"} => held[d].text = txt[held[d].updatedAt]

\* What is sealed is on the shelf, and what is not there has left nothing.
Kind(d) == (disk[d].sealed => Live(disk[d])) /\ (Absent(disk[d]) => disk[d] = NoRecord)

\* Nothing of the player's is in the way of the row: nothing is there, or what
\* is there is older, or keeps out of the comparison.
Yields(d) == Absent(disk[d]) \/ LocalOnly(disk[d]) \/ (SwitchedOn(disk[d]) /\ Behind(disk[d], row))

\* A pull is of the row as it stands, by a device that is behind it.
Fetches(d) ==
  /\ place[d] \in {"get", "fetch", "keep"} => (Live(row) => ~Matches(disk[d], row) /\ Yields(d))
  /\ place[d] \in {"fetch", "keep"} => held[d] = row /\ Live(row)
  /\ place[d] = "keep" => got[d] = row.text

\* What holds of every device, whoever leads.
Sound(txt, d) ==
  /\ Kind(d) /\ Past(d) /\ Dated(txt, d) /\ Fetches(d)
  /\ Absent(row) => Absent(remote[d])

Common(txt) ==
  /\ TypeOK /\ Dates(txt) /\ RowPast(row)
  /\ Live(row) => row.text = txt[row.updatedAt]
  /\ \A d \in Devices : Sound(txt, d)

\* A device that follows only takes, and is in step with the server or behind it.
Follows(e) ==
  /\ place[e] \in {"idle", "list", "get", "fetch", "keep", "note", "drop"}
  /\ Matches(disk[e], row) \/ Absent(disk[e]) \/ (SwitchedOn(disk[e]) /\ Behind(disk[e], row))
  /\ place[e] = "list" => remote[e] = row \/ Matches(disk[e], remote[e])
  /\ place[e] = "get" => Live(row)
  /\ place[e] = "drop" => SwitchedOn(disk[e]) /\ Gone(row)

\* What the leader has that the server has not, no device is behind but by that.
Alongside(h, e) ==
  Matches(disk[e], row) /\ (SwitchedOn(disk[e]) => disk[e].updatedAt < disk[h].updatedAt)

Earlier(x, h) == x.updatedAt < disk[h].updatedAt /\ x.deletedAt < disk[h].updatedAt

Leads(h) ==
  /\ Ahead(h) => /\ \A e \in Devices \ {h} : Alongside(h, e)
                 /\ Earlier(row, h)
                 /\ Gone(disk[h]) => disk[h].deletedAt = disk[h].updatedAt
  /\ Live(row) => object = row.text \/ (Ahead(h) /\ SwitchedOn(disk[h]))

\* Where the leader's pass stands.
Carries(h) ==
  /\ Ahead(h) => Earlier(remote[h], h)
  /\ place[h] \in Pushing => Ahead(h) /\ SwitchedOn(disk[h]) /\ mine[h] = disk[h]
  /\ place[h] = "row" => object = mine[h].text
  /\ place[h] \in {"tell", "bury"} => Ahead(h) /\ Gone(disk[h])
  /\ place[h] = "bury" => held[h].state = row.state /\ held[h].updatedAt = clock
  /\ place[h] = "burn" => Gone(disk[h]) /\ Gone(row)
  /\ place[h] = "drop" => Gone(disk[h]) \/ (LocalOnly(disk[h]) /\ ~Absent(row))
  /\ place[h] = "list" =>
       /\ SwitchedOn(disk[h]) /\ ~Ahead(h) => Live(remote[h]) /\ remote[h].text = row.text
       /\ Gone(disk[h]) /\ Gone(row) => Gone(remote[h])

Led(h, txt) == Common(txt) /\ Leads(h) /\ Carries(h) /\ \A e \in Devices \ {h} : Follows(e)

\* The invariant: some device leads.
InOrder == (Devices = {} /\ row = NoRow) \/ \E h \in Devices, txt \in [Times -> Texts] : Led(h, txt)

-----------------------------------------------------------------------------
\* Stamps are numbers.
LEMMA StampTypes ==
  ASSUME TypeOK
  PROVE  /\ clock \in Nat /\ row.updatedAt \in Nat /\ row.deletedAt \in Nat /\ row \in Row
         /\ \A d \in Devices :
              /\ disk[d].updatedAt \in Nat /\ disk[d].deletedAt \in Nat /\ known[d].updatedAt \in Nat
              /\ remote[d].updatedAt \in Nat /\ remote[d].deletedAt \in Nat
              /\ held[d].updatedAt \in Nat /\ held[d].deletedAt \in Nat
  BY EntryAssumption DEF TypeOK, Times, Row, Record, Noted

\* A device that neither writes nor carries leaves every other as it is.
Elsewhere(d) ==
  \A e \in Devices \ {d} :
    /\ known'[e] = known[e] /\ place'[e] = place[e] /\ remote'[e] = remote[e]
    /\ mine'[e] = mine[e] /\ held'[e] = held[e] /\ got'[e] = got[e]

\* Where rows, records and clock stand still, only the device's own pass counts.
LEMMA MoveLeads ==
  ASSUME NEW h \in Devices, NEW txt, Led(h, txt), TypeOK', NEW d \in Devices,
         UNCHANGED <<row, object, disk, clock>>, Elsewhere(d),
         Sound(txt, d)', d # h => Follows(d)', d = h => Carries(h)'
  PROVE  Led(h, txt)'
<1>1. Common(txt)'
  <2>1. ASSUME NEW e \in Devices \ {d} PROVE Sound(txt, e)'
    BY DEF Led, Common, Sound, Kind, Past, RowPast, Dated, Fetches, Yields, Matches, Behind, SwitchedOn,
           LocalOnly, Live, Gone, Absent, Elsewhere
  <2>2. Dates(txt)' /\ RowPast(row)' /\ (Live(row) => row.text = txt[row.updatedAt])'
    BY DEF Led, Common, Dates, RowPast, Live
  <2> QED BY <2>1, <2>2 DEF Common
<1>2. Leads(h)'
  BY DEF Led, Leads, Ahead, Alongside, Earlier, Matches, SwitchedOn, LocalOnly, Live, Gone, Absent
<1>3. Carries(h)'
  <2>1. CASE d # h
    BY <2>1 DEF Led, Carries, Elsewhere, Pushing, Ahead, Earlier, SwitchedOn, Live, Gone
  <2> QED BY <2>1
<1>4. ASSUME NEW e \in Devices \ {h} PROVE Follows(e)'
  <2>1. CASE e # d
    BY <2>1 DEF Led, Follows, Elsewhere, Matches, Behind, SwitchedOn, Live, Gone, Absent
  <2> QED BY <2>1
<1> QED BY <1>1, <1>2, <1>3, <1>4 DEF Led

\* A pass that is over leaves the leader leading, whatever it noted.
LEMMA OverLeads ==
  ASSUME NEW h \in Devices, NEW txt, Led(h, txt), TypeOK', NEW d \in Devices,
         UNCHANGED <<row, object, disk, clock>>, Over(d),
         \A e \in Devices \ {d} : known'[e] = known[e],
         known'[d].updatedAt <= clock, known'[d].here => known'[d].text = txt[known'[d].updatedAt]
  PROVE  Led(h, txt)'
<1>1. /\ Elsewhere(d)
      /\ place'[d] = "idle" /\ remote'[d] = NoRow /\ held'[d] = NoRow
  BY DEF Over, Go, Elsewhere, Led, Common, TypeOK
<1>2. Sound(txt, d)'
  <2>1. Kind(d)' /\ Fetches(d)' /\ Dated(txt, d)'
    BY <1>1 DEF Led, Common, Sound, Kind, Dated, Fetches, Live, Absent
  <2>2. Past(d)' /\ Absent(remote[d])'
    BY <1>1, StampTypes DEF Led, Common, Sound, Past, RowPast, NoRow, Absent
  <2> QED BY <2>1, <2>2 DEF Sound
<1>3. ASSUME d # h PROVE Follows(d)'
  BY <1>1, <1>3 DEF Led, Follows, Matches, Behind, SwitchedOn, Live, Gone, Absent
<1>4. ASSUME d = h PROVE Carries(h)'
  <2>1. Ahead(h)' => Earlier(remote[h], h)'
    BY <1>1, <1>4, StampTypes DEF Led, Leads, Common, Ahead, Earlier, NoRow, SwitchedOn, Live, Gone
  <2> QED BY <1>1, <1>4, <2>1 DEF Carries, Pushing
<1> QED BY <1>1, <1>2, <1>3, <1>4, MoveLeads

LEMMA ManifestLeads ==
  ASSUME NEW h \in Devices, NEW txt, Led(h, txt), TypeOK', NEW d \in Devices, Manifest(d)
  PROVE  Led(h, txt)'
<1>1. /\ UNCHANGED <<row, object, disk, clock, known, mine, held, got>> /\ Elsewhere(d)
      /\ place[d] = "idle" /\ place'[d] = "list" /\ remote'[d] = row
  BY DEF Manifest, Go, Elsewhere, Led, Common, TypeOK, server
<1>2. Sound(txt, d)'
  BY <1>1 DEF Led, Common, Sound, Kind, Past, RowPast, Dated, Fetches, Live, Absent
<1>3. ASSUME d # h PROVE Follows(d)'
  BY <1>1, <1>3 DEF Led, Follows, Matches, Behind, SwitchedOn, Live, Gone, Absent
<1>4. ASSUME d = h PROVE Carries(h)'
  BY <1>1, <1>4 DEF Led, Leads, Carries, Pushing, Ahead, Earlier, SwitchedOn, Live, Gone
<1> QED BY <1>1, <1>2, <1>3, <1>4, MoveLeads

\* Only the leader pushes: no other device is ahead of the server.
LEMMA OnlyLeaderServes ==
  ASSUME NEW h \in Devices, NEW txt, Led(h, txt), NEW d \in Devices,
         place[d] \in {"check", "again", "object", "row", "answer", "tell", "bury", "burn"}
  PROVE  d = h
  BY DEF Led, Follows

LEMMA CheckLeads ==
  ASSUME NEW h \in Devices, NEW txt, Led(h, txt), TypeOK', NEW d \in Devices, Check(d) \/ Again(d)
  PROVE  Led(h, txt)'
<1>1. UNCHANGED <<row, object, disk, clock, known>> /\ place[d] \in {"check", "again"}
  BY DEF Check, Again, server
<1>2. d = h
  BY <1>1, OnlyLeaderServes
<1>3. CASE Over(d)
  BY <1>1, <1>3, OverLeads DEF Led, Common, Sound, Past, Dated
<1>4. CASE ~Over(d)
  <2>1. UNCHANGED <<remote, mine, held, got>> /\ \E p \in {"object", "again", "get"} : Go(d, p)
    BY <1>4 DEF Check, Again
  <2>2. Ahead(h) /\ SwitchedOn(disk[h]) /\ mine[h] = disk[h]
    BY <1>1, <1>2 DEF Led, Carries, Pushing
  <2>3. ~Go(d, "get")
    <3>1. row.updatedAt < mine[d].updatedAt /\ remote[d].updatedAt < mine[d].updatedAt
      BY <1>2, <2>2 DEF Led, Leads, Carries, Earlier
    <3>2. ~(row.updatedAt > mine[d].updatedAt) /\ ~(remote[d].updatedAt > mine[d].updatedAt)
      BY <1>2, <2>2, <3>1, StampTypes DEF Led, Common
    <3> QED BY <1>4, <3>2 DEF Check, Again, Go, Led, Common, TypeOK
  <2>4. Elsewhere(d) /\ place'[d] \in {"object", "again"}
    BY <1>1, <2>1, <2>3 DEF Go, Elsewhere, Led, Common, TypeOK
  <2>5. Sound(txt, d)'
    BY <1>1, <2>1, <2>4 DEF Led, Common, Sound, Kind, Past, RowPast, Dated, Fetches, Live, Absent
  <2>6. Carries(h)'
    BY <1>1, <1>2, <2>1, <2>2, <2>4
       DEF Led, Leads, Carries, Pushing, Ahead, Earlier, SwitchedOn, Live, Gone
  <2> QED BY <1>1, <1>2, <2>4, <2>5, <2>6, MoveLeads
<1> QED BY <1>3, <1>4

\* Of a device that is pulling, the leader has nothing the server has not:
\* what it pulls is the row's.
LEMMA NoneAheadOfPull ==
  ASSUME NEW h \in Devices, NEW txt, Led(h, txt), NEW d \in Devices,
         place[d] \in {"get", "fetch", "keep"}, Live(row)
  PROVE  object = row.text /\ (d # h => ~Ahead(h))
<1>1. ~Matches(disk[d], row) /\ Yields(d)
  BY DEF Led, Common, Sound, Fetches
<1>2. d # h => ~Ahead(h)
  BY <1>1 DEF Led, Leads, Alongside
<1>3. ASSUME d = h, Ahead(h), SwitchedOn(disk[h]) PROVE FALSE
  <2>1. Behind(disk[h], row) /\ Earlier(row, h)
    BY <1>1, <1>3 DEF Led, Leads, Yields, SwitchedOn, LocalOnly, Live, Absent
  <2> QED BY <2>1, StampTypes DEF Led, Common, Behind, Earlier, Live, Gone
<1> QED BY <1>2, <1>3 DEF Led, Leads

LEMMA GetLeads ==
  ASSUME NEW h \in Devices, NEW txt, Led(h, txt), TypeOK', NEW d \in Devices, Get(d) \/ Fetch(d)
  PROVE  Led(h, txt)'
<1>1. UNCHANGED <<row, object, disk, clock, known>> /\ place[d] \in {"get", "fetch"}
  BY DEF Get, Fetch, server
<1>2. CASE Over(d)
  BY <1>1, <1>2, OverLeads DEF Led, Common, Sound, Past, Dated
<1>3. CASE ~Over(d)
  <2>1. /\ Live(row) /\ UNCHANGED <<remote, mine>> /\ Elsewhere(d) /\ held'[d] = row
        /\ \/ place'[d] = "fetch"
           \/ place'[d] = "keep" /\ got'[d] = object
    BY <1>1, <1>3 DEF Get, Fetch, Go, Elsewhere, Led, Common, Sound, Fetches, TypeOK
  <2>2. object = row.text
    BY <1>1, <2>1, NoneAheadOfPull
  <2>3. Sound(txt, d)'
    <3>1. Kind(d)' /\ Past(d)' /\ (Absent(row) => Absent(remote[d]))'
      BY <1>1, <2>1 DEF Led, Common, Sound, Kind, Past, RowPast, Live, Absent
    <3>2. Dated(txt, d)'
      BY <1>1, <2>1 DEF Led, Common, Sound, Dated, Live
    <3>3. Fetches(d)'
      BY <1>1, <2>1, <2>2
         DEF Led, Common, Sound, Fetches, Yields, Matches, Behind, SwitchedOn, LocalOnly, Live, Gone, Absent
    <3> QED BY <3>1, <3>2, <3>3 DEF Sound
  <2>4. ASSUME d # h PROVE Follows(d)'
    BY <1>1, <2>1, <2>4 DEF Led, Follows, Matches, Behind, SwitchedOn, Live, Gone, Absent
  <2>5. ASSUME d = h PROVE Carries(h)'
    BY <1>1, <2>1, <2>5 DEF Led, Carries, Pushing, Ahead, Earlier, SwitchedOn, Live, Gone
  <2> QED BY <1>1, <2>1, <2>3, <2>4, <2>5, MoveLeads
<1> QED BY <1>2, <1>3

LEMMA TellLeads ==
  ASSUME NEW h \in Devices, NEW txt, Led(h, txt), TypeOK', NEW d \in Devices, Tell(d)
  PROVE  Led(h, txt)'
<1>1. /\ UNCHANGED <<row, object, disk, clock, known, remote, mine, got>> /\ Elsewhere(d)
      /\ place[d] = "tell" /\ place'[d] = "bury" /\ held'[d] = [row EXCEPT !.updatedAt = clock]
  BY DEF Tell, Go, Elsewhere, Led, Common, TypeOK, server
<1>2. d = h
  BY <1>1, OnlyLeaderServes
<1>3. held'[d].state = row.state /\ held'[d].updatedAt = clock /\ held'[d].deletedAt = row.deletedAt
  BY <1>1, StampTypes DEF Led, Common, Row
<1>4. Sound(txt, d)'
  <2>1. Past(d)'
    BY <1>1, <1>3, StampTypes DEF Led, Common, Sound, Past, RowPast
  <2> QED BY <1>1, <2>1 DEF Led, Common, Sound, Kind, Dated, Fetches, Live, Absent
<1>5. Carries(h)'
  BY <1>1, <1>2, <1>3 DEF Led, Carries, Pushing, Ahead, Earlier, SwitchedOn, Live, Gone
<1> QED BY <1>1, <1>2, <1>4, <1>5, MoveLeads

LEMMA NoteLeads ==
  ASSUME NEW h \in Devices, NEW txt, Led(h, txt), TypeOK', NEW d \in Devices, Note(d) \/ Cut(d)
  PROVE  Led(h, txt)'
<1>1. Over(d) /\ UNCHANGED <<row, object, disk, clock>>
  BY DEF Note, Cut, server
<1>2. CASE Note(d)
  <2>1. /\ \A e \in Devices \ {d} : known'[e] = known[e]
        /\ known'[d].updatedAt = held[d].updatedAt /\ known'[d].text = held[d].text
        /\ place[d] \in {"answer", "note"}
    BY <1>2 DEF Note, Led, Common, TypeOK
  <2> QED BY <1>1, <2>1, OverLeads DEF Led, Common, Sound, Past, RowPast, Dated
<1>3. CASE Cut(d)
  BY <1>1, <1>3, OverLeads DEF Cut, Led, Common, Sound, Past, Dated
<1> QED BY <1>2, <1>3

-----------------------------------------------------------------------------
\* What the pass plans, the fingerprint being the text.
Planned(d) ==
  IF Live(disk[d]) /\ disk[d].sealed THEN "rest"
  ELSE Plan(IF Travels(disk[d]) THEN disk[d] ELSE NoRecord, remote[d])

\* A text noted for the record's stamp is the record's.
LEMMA FingerprintIsText ==
  ASSUME NEW txt, Common(txt), NEW d \in Devices
  PROVE  Fingerprint(d, disk[d]) = disk[d].text
  BY DEF Common, Sound, Dated, Fingerprint

LEMMA Listed ==
  ASSUME NEW txt, Common(txt), NEW d \in Devices, List(d), ~Over(d)
  PROVE  /\ UNCHANGED <<remote, held, got>> /\ Elsewhere(d) /\ mine'[d] = disk[d]
         /\ Planned(d) # "rest" /\ ~(Planned(d) = "forget" /\ Absent(disk[d]))
         /\ \/ Planned(d) = "push" /\ place'[d] = "check"
            \/ Planned(d) = "pull" /\ place'[d] = "get"
            \/ Planned(d) = "tell" /\ place'[d] = "tell"
            \/ Planned(d) \notin {"push", "pull", "tell"} /\ place'[d] = "drop"
<1> DEFINE entry == IF Travels(disk[d]) THEN [disk[d] EXCEPT !.text = Fingerprint(d, disk[d])] ELSE NoRecord
           plan  == IF Live(disk[d]) /\ disk[d].sealed THEN "rest" ELSE Plan(entry, remote[d])
<1>1. entry = IF Travels(disk[d]) THEN disk[d] ELSE NoRecord
  <2>1. [disk[d] EXCEPT !.text = disk[d].text] = disk[d]
    BY DEF Common, TypeOK, Record
  <2> QED BY <2>1, FingerprintIsText
<1>2. plan = Planned(d)
  <2> HIDE DEF entry
  <2> QED BY <1>1 DEF Planned
<1>3. /\ ~(plan = "rest" \/ (plan = "forget" /\ Absent(disk[d])))
      /\ mine' = [mine EXCEPT ![d] = disk[d]]
      /\ Go(d, CASE plan = "push" -> "check" [] plan = "pull" -> "get"
                 [] plan = "tell" -> "tell"  [] OTHER -> "drop")
      /\ UNCHANGED <<remote, held, got, known>>
  BY DEF List
<1> HIDE DEF plan
<1> QED BY <1>2, <1>3 DEF Go, Elsewhere, Common, TypeOK

\* One that follows takes what the server has, or lets go of what it buried.
LEMMA FollowerPlans ==
  ASSUME NEW txt, Common(txt), NEW d \in Devices, Follows(d), place[d] = "list",
         Planned(d) # "rest", ~(Planned(d) = "forget" /\ Absent(disk[d]))
  PROVE  \/ /\ Planned(d) = "pull" /\ Live(row) /\ ~Matches(disk[d], row)
            /\ Absent(disk[d]) \/ (SwitchedOn(disk[d]) /\ Behind(disk[d], row))
         \/ Planned(d) = "forget" /\ SwitchedOn(disk[d]) /\ Gone(row)
<1>1. /\ disk[d] \in Record /\ remote[d] \in Row /\ row \in Row /\ Kind(d)
      /\ Matches(disk[d], row) \/ Absent(disk[d]) \/ (SwitchedOn(disk[d]) /\ Behind(disk[d], row))
      /\ remote[d] = row \/ Matches(disk[d], remote[d])
  BY DEF Common, Sound, Follows, TypeOK
<1>2. remote[d].state \in {"none", "live", "gone"}
  BY <1>1 DEF Row
<1>3. ~disk[d].sealed
  BY <1>1 DEF Planned, Kind
<1>4. CASE Absent(disk[d])
  <2>1. ~Travels(disk[d]) /\ ~Live(disk[d]) /\ Absent(NoRecord)
    BY <1>4 DEF Travels, Live, Gone, Absent, NoRecord
  <2>2. Planned(d) = Plan(NoRecord, remote[d])
    BY <2>1 DEF Planned
  <2>3. Live(remote[d]) /\ Planned(d) = "pull"
    BY <1>2, <1>4, <2>1, <2>2 DEF Plan, Live, Gone, Absent
  <2> QED BY <1>1, <1>3, <1>4, <2>3 DEF Matches, SwitchedOn, Live, Gone, Absent
<1>5. CASE SwitchedOn(disk[d])
  <2>1. Planned(d) = Plan(disk[d], remote[d])
    BY <1>5 DEF Planned, Travels, SwitchedOn
  <2>2. remote[d] = row /\ ~Matches(disk[d], remote[d])
    BY <1>1, <1>3, <1>5, <2>1 DEF Plan, Matches, SwitchedOn, Live, Gone, Absent
  <2>3. Behind(disk[d], row)
    BY <1>1, <1>5, <2>2 DEF SwitchedOn, Live, Absent
  <2>4. CASE Live(row)
    BY <1>5, <2>1, <2>2, <2>3, <2>4, StampTypes
       DEF Common, Plan, Matches, Behind, SwitchedOn, Live, Gone, Absent
  <2>5. CASE Gone(row)
    BY <1>5, <2>1, <2>2, <2>3, <2>5, StampTypes DEF Common, Plan, Behind, SwitchedOn, Live, Gone, Absent
  <2> QED BY <2>3, <2>4, <2>5 DEF Behind
<1> QED BY <1>1, <1>3, <1>4, <1>5 DEF Matches

\* The leader pushes or tells what it is ahead by, and else is at rest or takes.
LEMMA LeaderPlans ==
  ASSUME NEW h \in Devices, NEW txt, Led(h, txt), place[h] = "list",
         Planned(h) # "rest", ~(Planned(h) = "forget" /\ Absent(disk[h]))
  PROVE  \/ Planned(h) = "push" /\ Ahead(h) /\ SwitchedOn(disk[h])
         \/ Planned(h) = "tell" /\ Ahead(h) /\ Gone(disk[h])
         \/ Planned(h) = "pull" /\ (Absent(disk[h]) \/ LocalOnly(disk[h]))
         \/ Planned(h) = "purge" /\ Gone(disk[h])
         \/ Planned(h) = "forget" /\ LocalOnly(disk[h]) /\ ~Absent(row)
<1>1. /\ disk[h] \in Record /\ remote[h] \in Row /\ row \in Row /\ Kind(h)
      /\ Leads(h) /\ Carries(h) /\ (Absent(row) => Absent(remote[h]))
  BY DEF Led, Common, Sound, TypeOK
<1>2. remote[h].state \in {"none", "live", "gone"} /\ disk[h].state \in {"none", "live", "gone"}
  BY <1>1 DEF Row, Record
<1>3. ~disk[h].sealed
  BY <1>1 DEF Planned, Kind
<1>4. CASE Absent(disk[h]) \/ LocalOnly(disk[h])
  <2>1. ~Travels(disk[h]) /\ Absent(NoRecord)
    BY <1>4 DEF Travels, LocalOnly, Live, Gone, Absent, NoRecord
  <2>2. Planned(h) = Plan(NoRecord, remote[h])
    BY <1>3, <2>1 DEF Planned
  <2>3. Absent(remote[h]) => Planned(h) = "rest"
    BY <2>1, <2>2 DEF Plan, Live, Gone, Absent
  <2>4. Gone(remote[h]) => ~Absent(row)
    BY <1>1 DEF Gone, Absent
  <2>5. Gone(remote[h]) => Planned(h) = "forget"
    BY <2>1, <2>2 DEF Plan, Live, Gone, Absent
  <2>6. Live(remote[h]) => Planned(h) = "pull"
    BY <2>1, <2>2 DEF Plan, Live, Gone, Absent
  <2> QED BY <1>2, <1>4, <2>3, <2>4, <2>5, <2>6 DEF Live, Gone, Absent
<1>5. CASE SwitchedOn(disk[h])
  <2>1. Planned(h) = Plan(disk[h], remote[h])
    BY <1>5 DEF Planned, Travels, SwitchedOn
  <2>2. Ahead(h)
    BY <1>1, <1>5, <2>1 DEF Carries, Ahead, Plan, SwitchedOn, Live, Gone, Absent
  <2>3. Earlier(remote[h], h)
    BY <1>1, <2>2 DEF Carries
  <2>4. Planned(h) = "push"
    BY <1>2, <1>5, <2>1, <2>3, StampTypes DEF Led, Common, Earlier, Plan, SwitchedOn, Live, Gone, Absent
  <2> QED BY <1>5, <2>2, <2>4
<1>6. CASE Gone(disk[h])
  <2>1. Planned(h) = Plan(disk[h], remote[h])
    BY <1>3, <1>6 DEF Planned, Travels
  <2>2. CASE Gone(remote[h])
    BY <1>6, <2>1, <2>2 DEF Plan, Live, Gone, Absent
  <2>3. CASE ~Gone(remote[h])
    <3>1. Ahead(h)
      BY <1>1, <1>6, <2>3 DEF Ahead, Carries
    <3>2. Earlier(remote[h], h) /\ disk[h].deletedAt = disk[h].updatedAt
      BY <1>1, <1>6, <3>1 DEF Carries, Leads
    <3>3. remote[h].updatedAt <= disk[h].deletedAt
      BY <3>2, StampTypes DEF Led, Common, Earlier
    <3> QED BY <1>2, <1>6, <2>1, <2>3, <3>1, <3>3 DEF Plan, Live, Gone, Absent
  <2> QED BY <2>2, <2>3
<1> QED BY <1>2, <1>3, <1>4, <1>5, <1>6 DEF SwitchedOn, LocalOnly, Live, Gone, Absent

LEMMA ListLeads ==
  ASSUME NEW h \in Devices, NEW txt, Led(h, txt), TypeOK', NEW d \in Devices, List(d)
  PROVE  Led(h, txt)'
<1>1. UNCHANGED <<row, object, disk, clock, known>> /\ place[d] = "list"
  BY DEF List, server
<1>2. CASE Over(d)
  BY <1>1, <1>2, OverLeads DEF Led, Common, Sound, Past, Dated
<1>3. CASE ~Over(d)
  <2>1. UNCHANGED <<remote, held, got>> /\ Elsewhere(d) /\ mine'[d] = disk[d]
    BY <1>3, Listed DEF Led
  <2>2. Kind(d)' /\ Past(d)' /\ Dated(txt, d)' /\ (Absent(row) => Absent(remote[d]))'
    <3>1. place'[d] \in {"check", "get", "tell", "drop"}
      BY <1>3, Listed DEF Led
    <3> QED BY <1>1, <2>1, <3>1 DEF Led, Common, Sound, Kind, Past, RowPast, Dated, Live, Absent
  <2>3. CASE d # h
    <3>1. \/ /\ place'[d] = "get" /\ Live(row) /\ ~Matches(disk[d], row)
             /\ Absent(disk[d]) \/ (SwitchedOn(disk[d]) /\ Behind(disk[d], row))
          \/ place'[d] = "drop" /\ SwitchedOn(disk[d]) /\ Gone(row)
      <4>1. Follows(d) /\ Common(txt)
        BY <2>3 DEF Led
      <4> QED BY <1>1, <1>3, <4>1, Listed, FollowerPlans
    <3>2. Follows(d)'
      BY <1>1, <2>3, <3>1 DEF Led, Follows, Matches, Behind, SwitchedOn, Live, Gone, Absent
    <3>3. Fetches(d)'
      BY <1>1, <3>1 DEF Fetches, Yields, Matches, Behind, SwitchedOn, LocalOnly, Live, Gone, Absent
    <3> QED BY <1>1, <2>1, <2>2, <2>3, <3>2, <3>3, MoveLeads DEF Sound
  <2>4. CASE d = h
    <3>1. \/ place'[h] = "check" /\ Ahead(h) /\ SwitchedOn(disk[h])
          \/ place'[h] = "tell" /\ Ahead(h) /\ Gone(disk[h])
          \/ place'[h] = "get" /\ (Absent(disk[h]) \/ LocalOnly(disk[h]))
          \/ place'[h] = "drop" /\ (Gone(disk[h]) \/ (LocalOnly(disk[h]) /\ ~Absent(row)))
      <4>1. Common(txt)
        BY DEF Led
      <4> QED BY <1>1, <1>3, <2>4, <4>1, Listed, LeaderPlans
    <3>2. Carries(h)'
      BY <1>1, <2>1, <2>4, <3>1
         DEF Led, Carries, Pushing, Ahead, Earlier, SwitchedOn, LocalOnly, Live, Gone, Absent
    <3>3. Fetches(d)'
      <4>1. ASSUME Absent(disk[d]) \/ LocalOnly(disk[d]), Live(row) PROVE ~Matches(disk[d], row)
        BY <4>1 DEF Led, Common, Sound, Kind, Matches, SwitchedOn, LocalOnly, Live, Absent
      <4> QED BY <1>1, <2>4, <3>1, <4>1
              DEF Fetches, Yields, Matches, Behind, SwitchedOn, LocalOnly, Live, Gone, Absent
    <3> QED BY <1>1, <2>1, <2>2, <2>4, <3>2, <3>3, MoveLeads DEF Sound
  <2> QED BY <2>3, <2>4
<1> QED BY <1>2, <1>3

-----------------------------------------------------------------------------
\* The object is the leader's to write, and it is read by nobody meanwhile.
LEMMA ObjectLeads ==
  ASSUME NEW h \in Devices, NEW txt, Led(h, txt), TypeOK', NEW d \in Devices, PutObject(d) \/ Burn(d)
  PROVE  Led(h, txt)'
<1>1. /\ UNCHANGED <<row, disk, known, remote, mine, held, got, clock>> /\ Elsewhere(d)
      /\ \/ place[d] = "object" /\ place'[d] = "row" /\ object' = mine[d].text
         \/ place[d] = "burn" /\ place'[d] = "drop" /\ object' = NoText
  BY DEF PutObject, Burn, Go, Elsewhere, Led, Common, TypeOK
<1>2. d = h
  BY <1>1, OnlyLeaderServes
<1>3. \/ Ahead(h) /\ SwitchedOn(disk[h]) /\ mine[h] = disk[h]
      \/ Gone(disk[h]) /\ Gone(row) /\ place'[d] = "drop"
  BY <1>1, <1>2 DEF Led, Carries, Pushing
<1>4. ASSUME NEW e \in Devices PROVE Sound(txt, e)'
  BY <1>1 DEF Led, Common, Sound, Kind, Past, RowPast, Dated, Fetches, Yields, Matches, Behind, SwitchedOn,
              LocalOnly, Live, Gone, Absent, Elsewhere
<1>5. Common(txt)'
  BY <1>1, <1>4 DEF Led, Common, Dates, RowPast, Live
<1>6. Leads(h)'
  BY <1>1, <1>2, <1>3
     DEF Led, Leads, Ahead, Alongside, Earlier, Matches, SwitchedOn, LocalOnly, Live, Gone, Absent
<1>7. Carries(h)'
  BY <1>1, <1>2, <1>3 DEF Led, Carries, Pushing, Ahead, Earlier, SwitchedOn, Live, Gone
<1>8. ASSUME NEW e \in Devices \ {h} PROVE Follows(e)'
  BY <1>1, <1>2 DEF Led, Follows, Elsewhere, Matches, Behind, SwitchedOn, Live, Gone, Absent
<1> QED BY <1>5, <1>6, <1>7, <1>8 DEF Led

\* A row the leader writes over one the others match leaves them behind it, and
\* no request of theirs is under way.
LEMMA RowLeads ==
  ASSUME NEW h \in Devices, NEW txt, Led(h, txt), TypeOK', Ahead(h),
         UNCHANGED <<object, disk, known, remote, mine, got, clock>>, Elsewhere(h),
         RowPast(row)', ~Absent(row'), place'[h] \notin {"list", "get", "fetch", "keep"} \cup Pushing,
         Live(row') => row'.text = txt[row'.updatedAt] /\ row'.updatedAt = disk[h].updatedAt
                        /\ object = row'.text,
         Gone(row') => row'.deletedAt = clock,
         RowPast(held[h])', Dated(txt, h)', ~Ahead(h)', Carries(h)'
  PROVE  Led(h, txt)'
<1>1. ASSUME NEW e \in Devices \ {h}
      PROVE  /\ Alongside(h, e) /\ place[e] \in {"idle", "list", "note"}
             /\ place'[e] = place[e] /\ remote'[e] = remote[e]
  BY DEF Led, Common, Sound, Fetches, Leads, Alongside, Follows, Elsewhere, Matches,
         SwitchedOn, Live, Gone, Absent
<1>2. Live(row') \/ Gone(row')
  BY DEF TypeOK, Row, Live, Gone, Absent
<1>3. ASSUME NEW e \in Devices PROVE Sound(txt, e)'
  <2>1. Kind(e)'
    BY DEF Led, Common, Sound, Kind, Live, Absent
  <2>2. CASE e = h
    BY <2>1, <2>2 DEF Led, Common, Sound, Past, RowPast, Fetches
  <2>3. CASE e # h
    <3>1. Past(e)' /\ Dated(txt, e)'
      BY <2>3 DEF Led, Common, Sound, Past, RowPast, Dated, Live, Elsewhere
    <3> QED BY <1>1, <2>1, <2>3, <3>1 DEF Sound, Fetches
  <2> QED BY <2>2, <2>3
<1>4. Common(txt)'
  BY <1>3 DEF Led, Common, Dates
<1>5. Leads(h)'
  BY DEF Leads
<1>6. ASSUME NEW e \in Devices \ {h} PROVE Follows(e)'
  <2>1. Matches(disk[e], row) /\ (SwitchedOn(disk[e]) => disk[e].updatedAt < disk[h].updatedAt)
    BY <1>1 DEF Alongside
  <2>2. disk[e].updatedAt <= clock
    BY DEF Led, Common, Sound, Past
  <2>3. SwitchedOn(disk[e]) => Behind(disk[e], row')
    BY <1>2, <2>1, <2>2 DEF Behind
  <2>4. Matches(disk[e], row') \/ Absent(disk[e]) \/ (SwitchedOn(disk[e]) /\ Behind(disk[e], row'))
    BY <2>1, <2>3 DEF Matches
  <2>5. place[e] = "list" => Matches(disk[e], remote[e])
    BY <2>1 DEF Led, Follows
  <2>6. (Matches(disk[e], row) \/ Absent(disk[e]) \/ (SwitchedOn(disk[e]) /\ Behind(disk[e], row)))'
    BY <2>4 DEF Matches, Behind, SwitchedOn, Live, Gone, Absent
  <2>7. place'[e] = "list" => Matches(disk[e], remote[e])'
    BY <1>1, <2>5 DEF Matches, SwitchedOn, Live, Absent
  <2> QED BY <1>1, <2>6, <2>7 DEF Follows
<1> QED BY <1>4, <1>5, <1>6 DEF Led

LEMMA PutRowLeads ==
  ASSUME NEW h \in Devices, NEW txt, Led(h, txt), TypeOK', NEW d \in Devices, PutRow(d)
  PROVE  Led(h, txt)'
<1>1. /\ UNCHANGED <<object, disk, known, remote, mine, got, clock>> /\ Elsewhere(d)
      /\ place[d] = "row" /\ place'[d] = "answer" /\ held'[d] = row'
      /\ row'.state = "live" /\ row'.text = mine[d].text /\ row'.updatedAt = mine[d].updatedAt
      /\ row'.deletedAt = 0
  BY DEF PutRow, Go, Elsewhere, Led, Common, TypeOK, NoRow
<1>2. d = h
  BY <1>1, OnlyLeaderServes
<1>3. Ahead(h) /\ SwitchedOn(disk[h]) /\ mine[h] = disk[h] /\ object = mine[h].text
  BY <1>1, <1>2 DEF Led, Carries, Pushing
<1>4. RowPast(row)' /\ RowPast(held[h])'
  BY <1>1, <1>2, <1>3, StampTypes DEF RowPast, Led, Common, Sound, Past
<1>5. disk[h].text = txt[disk[h].updatedAt]
  BY <1>3 DEF Led, Common, Sound, Dated, SwitchedOn
<1>6. Dated(txt, h)'
  BY <1>1, <1>2, <1>3, <1>5 DEF Led, Common, Sound, Dated, Live
<1>7. ~Ahead(h)'
  BY <1>1, <1>2, <1>3 DEF Ahead, LocalOnly, SwitchedOn, Live, Gone
<1>8. Carries(h)'
  BY <1>1, <1>2, <1>7 DEF Carries, Pushing
<1> QED BY <1>1, <1>2, <1>3, <1>4, <1>5, <1>6, <1>7, <1>8, RowLeads DEF Live, Gone, Absent, Pushing

LEMMA BuryLeads ==
  ASSUME NEW h \in Devices, NEW txt, Led(h, txt), TypeOK', NEW d \in Devices, Bury(d)
  PROVE  Led(h, txt)'
<1>1. /\ UNCHANGED <<object, disk, known, remote, mine, held, got, clock>> /\ Elsewhere(d)
      /\ place[d] = "bury" /\ place'[d] \in {"burn", "drop"}
      /\ row' = [held[d] EXCEPT !.state = "gone",
                                !.deletedAt = IF Gone(held[d]) THEN @ ELSE held[d].updatedAt,
                                !.forgot = IF Gone(held[d]) THEN @ ELSE mine[d].deletedAt]
  BY DEF Bury, Go, Elsewhere, Led, Common, TypeOK
<1>2. d = h
  BY <1>1, OnlyLeaderServes
<1>3. Ahead(h) /\ Gone(disk[h]) /\ held[h].state = row.state /\ held[h].updatedAt = clock
  BY <1>1, <1>2 DEF Led, Carries
<1>4. row'.state = "gone" /\ row'.updatedAt = clock /\ row'.deletedAt = clock
  <2>1. ~Gone(held[h])
    BY <1>3 DEF Ahead, SwitchedOn, Live, Gone
  <2> QED BY <1>1, <1>2, <1>3, <2>1 DEF Led, Common, TypeOK, Row
<1>5. RowPast(row)' /\ RowPast(held[h])'
  BY <1>1, <1>2, <1>4, StampTypes DEF RowPast, Led, Common, Sound, Past
<1>6. Dated(txt, h)'
  BY <1>1, <1>2 DEF Led, Common, Sound, Dated, Live
<1>7. ~Ahead(h)'
  BY <1>1, <1>3, <1>4 DEF Ahead, LocalOnly, SwitchedOn, Live, Gone
<1>8. Carries(h)'
  BY <1>1, <1>2, <1>3, <1>4, <1>7 DEF Carries, Pushing, Gone
<1> QED BY <1>1, <1>2, <1>3, <1>4, <1>5, <1>6, <1>7, <1>8, RowLeads DEF Live, Gone, Absent, Pushing

-----------------------------------------------------------------------------
\* A record a pass puts in place, or takes off, leaves its device in step.
LEMMA TakeLeads ==
  ASSUME NEW h \in Devices, NEW txt, Led(h, txt), TypeOK', NEW d \in Devices,
         UNCHANGED <<row, object, clock>>, Elsewhere(d), \A e \in Devices \ {d} : disk'[e] = disk[e],
         Sound(txt, d)', place'[d] \in {"idle", "note"},
         d # h => Matches(disk[d], row)' /\ (SwitchedOn(disk[d])' => ~Ahead(h)),
         d = h => ~Ahead(h)' /\ (Live(row) => object = row.text)
  PROVE  Led(h, txt)'
<1>1. ASSUME NEW e \in Devices PROVE Sound(txt, e)'
  BY DEF Led, Common, Sound, Kind, Past, RowPast, Dated, Fetches, Yields, Matches, Behind, SwitchedOn,
         LocalOnly, Live, Gone, Absent, Elsewhere
<1>2. Common(txt)'
  BY <1>1 DEF Led, Common, Dates, RowPast, Live
<1>3. Leads(h)' /\ Carries(h)'
  <2>1. CASE d = h
    BY <2>1 DEF Leads, Carries, Pushing, LocalOnly, Live
  <2>2. CASE d # h
    <3>1. disk'[h] = disk[h] /\ (Ahead(h)' <=> Ahead(h))
      BY <2>2 DEF Ahead, SwitchedOn, Live, Gone
    <3>2. ASSUME Ahead(h), NEW e \in Devices \ {h} PROVE Alongside(h, e)'
      <4>1. CASE e = d
        BY <2>2, <3>2, <4>1 DEF Alongside
      <4>2. CASE e # d
        BY <2>2, <3>1, <3>2, <4>2 DEF Led, Leads, Alongside, Matches, SwitchedOn, Live, Absent
      <4> QED BY <4>1, <4>2
    <3>3. Leads(h)'
      BY <3>1, <3>2 DEF Led, Leads, Earlier, SwitchedOn, LocalOnly, Live, Gone, Absent
    <3>4. Carries(h)'
      BY <2>2, <3>1 DEF Led, Carries, Pushing, Earlier, Elsewhere, SwitchedOn, Live, Gone
    <3> QED BY <3>3, <3>4
  <2> QED BY <2>1, <2>2
<1>4. ASSUME NEW e \in Devices \ {h} PROVE Follows(e)'
  <2>1. CASE e = d
    BY <2>1 DEF Follows
  <2>2. CASE e # d
    BY <2>2 DEF Led, Follows, Elsewhere, Matches, Behind, SwitchedOn, Live, Gone, Absent
  <2> QED BY <2>1, <2>2
<1> QED BY <1>2, <1>3, <1>4 DEF Led

\* What is kept of a pull: the row's text at the row's stamp, switched on, or
\* off where it was.
LEMMA Kept ==
  ASSUME NEW txt, Common(txt), NEW d \in Devices, Keep(d)
  PROVE  /\ held[d] = row /\ Live(row) /\ ~Matches(disk[d], row) /\ Yields(d)
         /\ SwitchedOn(disk'[d]) \/ (LocalOnly(disk'[d]) /\ LocalOnly(disk[d]))
         /\ disk'[d].text = row.text /\ disk'[d].updatedAt = row.updatedAt
<1> DEFINE s   == IF disk[d].sync = "off" THEN "off" ELSE "on"
           new == [NoRecord EXCEPT !.state = "live", !.text = got[d],
                                     !.updatedAt = held[d].updatedAt, !.sync = s]
<1>1. held[d] = row /\ Live(row) /\ ~Matches(disk[d], row) /\ Yields(d) /\ got[d] = row.text
  BY DEF Keep, Common, Sound, Fetches
<1>2. s = "on" \/ (s = "off" /\ LocalOnly(disk[d]))
  BY <1>1 DEF Common, Sound, Kind, Yields, SwitchedOn, LocalOnly, NoRecord
<1>3. disk' = [disk EXCEPT ![d] = new]
  BY DEF Keep
<1>4. /\ new.state = "live" /\ new.sync = s /\ new.sealed = FALSE
      /\ new.text = got[d] /\ new.updatedAt = held[d].updatedAt
  BY DEF NoRecord
<1>5. disk'[d] = new
  <2> HIDE DEF new
  <2> QED BY <1>3 DEF Common, TypeOK
<1> HIDE DEF new, s
<1> QED BY <1>1, <1>2, <1>4, <1>5 DEF SwitchedOn, LocalOnly, Live

LEMMA KeepLeads ==
  ASSUME NEW h \in Devices, NEW txt, Led(h, txt), TypeOK', NEW d \in Devices, Keep(d)
  PROVE  Led(h, txt)'
<1>1. /\ UNCHANGED <<row, object, clock, known, remote, mine, held, got>> /\ Elsewhere(d)
      /\ \A e \in Devices \ {d} : disk'[e] = disk[e]
      /\ place[d] = "keep" /\ place'[d] = "note"
  BY DEF Keep, Go, Elsewhere, Led, Common, TypeOK, server
<1>2. /\ held[d] = row /\ Live(row) /\ ~Matches(disk[d], row)
      /\ SwitchedOn(disk'[d]) \/ (LocalOnly(disk'[d]) /\ LocalOnly(disk[d]))
      /\ disk'[d].text = row.text /\ disk'[d].updatedAt = row.updatedAt
  BY Kept DEF Led
<1>3. object = row.text /\ (d # h => ~Ahead(h))
  BY <1>1, <1>2, NoneAheadOfPull
<1>4. Sound(txt, d)'
  <2>1. Kind(d)' /\ Past(d)' /\ Fetches(d)' /\ (Absent(row) => Absent(remote[d]))'
    BY <1>1, <1>2 DEF Led, Common, Sound, Kind, Past, RowPast, Fetches, SwitchedOn, LocalOnly, Live, Absent
  <2>2. Dated(txt, d)'
    BY <1>1, <1>2 DEF Led, Common, Sound, Dated, Live
  <2> QED BY <2>1, <2>2 DEF Sound
<1>5. ~Ahead(d)'
  BY <1>1, <1>2 DEF Ahead, SwitchedOn, LocalOnly, Live, Gone
<1>6. ASSUME d # h PROVE Matches(disk[d], row)'
  <2>1. ~LocalOnly(disk[d])
    BY <1>2, <1>6 DEF Led, Follows, Matches, SwitchedOn, LocalOnly, Live, Absent
  <2> QED BY <1>1, <1>2, <2>1 DEF Matches, SwitchedOn, Live, Absent
<1> QED BY <1>1, <1>3, <1>4, <1>5, <1>6, TakeLeads

LEMMA DropLeads ==
  ASSUME NEW h \in Devices, NEW txt, Led(h, txt), TypeOK', NEW d \in Devices, Drop(d)
  PROVE  Led(h, txt)'
<1>1. /\ UNCHANGED <<row, object, clock>> /\ Elsewhere(d)
      /\ \A e \in Devices \ {d} : disk'[e] = disk[e]
      /\ disk'[d] = NoRecord /\ known'[d] = Nothing /\ remote'[d] = NoRow /\ held'[d] = NoRow
      /\ place[d] = "drop" /\ place'[d] = "idle"
  BY DEF Drop, Over, Go, Elsewhere, Led, Common, TypeOK, server
<1>2. Absent(disk'[d]) /\ ~SwitchedOn(disk'[d]) /\ ~disk'[d].sealed
  BY <1>1 DEF Absent, SwitchedOn, Live, NoRecord
<1>3. Sound(txt, d)'
  <2>1. Kind(d)' /\ Dated(txt, d)' /\ Fetches(d)'
    BY <1>1 DEF Kind, Dated, Fetches, Live, Absent, NoRecord, Nothing
  <2>2. Past(d)' /\ Absent(remote[d])'
    BY <1>1, StampTypes DEF Led, Common, Past, RowPast, Absent, NoRecord, NoRow, Nothing
  <2> QED BY <2>1, <2>2 DEF Sound
<1>4. ASSUME d # h PROVE Matches(disk[d], row)'
  BY <1>1, <1>2, <1>4 DEF Led, Follows, Matches, Live, Gone, Absent
<1>5. ASSUME d = h PROVE ~Ahead(h)' /\ (Live(row) => object = row.text)
  BY <1>1, <1>2, <1>5 DEF Led, Leads, Carries, Ahead, SwitchedOn, LocalOnly, Live, Gone, Absent
<1>6. ~SwitchedOn(disk[d])'
  BY <1>2 DEF SwitchedOn, Live
<1> QED BY <1>1, <1>3, <1>4, <1>5, <1>6, TakeLeads

-----------------------------------------------------------------------------
\* A device in step with the server has no request under way that counts.
LEMMA AgreedAtRest ==
  ASSUME NEW h \in Devices, NEW txt, Led(h, txt), NEW d \in Devices, Agreed(d)
  PROVE  /\ ~Ahead(d) /\ ~Gone(disk[d])
         /\ \/ place[d] \in {"idle", "list", "answer", "note"}
            \/ place[d] = "get" /\ ~Live(row)
<1>1. Kind(d) /\ place[d] \in Places
  BY DEF Led, Common, Sound, TypeOK
<1>2. ~Gone(disk[d])
  BY <1>1 DEF Agreed, Kind, SwitchedOn, LocalOnly, Live, Gone, Absent
<1>3. ~Ahead(d)
  BY <1>1, <1>2 DEF Agreed, Ahead, SwitchedOn, LocalOnly, Live, Absent
<1>4. Live(row) => Matches(disk[d], row)
  BY DEF Agreed, Matches, Live, Absent
<1>5. Gone(row) => ~SwitchedOn(disk[d])
  BY DEF Agreed, SwitchedOn, LocalOnly, Live, Gone, Absent
<1>6. place[d] \in {"get", "fetch", "keep"} => place[d] = "get" /\ ~Live(row)
  BY <1>4 DEF Led, Common, Sound, Fetches
<1>7. CASE d = h
  <2>1. ~(LocalOnly(disk[d]) /\ ~Absent(row))
    BY DEF Agreed, SwitchedOn, LocalOnly, Live, Absent
  <2> QED BY <1>1, <1>2, <1>3, <1>6, <1>7, <2>1 DEF Led, Carries, Pushing, Places
<1>8. CASE d # h
  BY <1>2, <1>3, <1>5, <1>6, <1>8 DEF Led, Follows
<1> QED BY <1>2, <1>3, <1>7, <1>8

\* A stamp that is new may name any text.
LEMMA DatesGrow ==
  ASSUME NEW txt, Common(txt), clock < MaxWrites, NEW text \in Texts,
         text \in 0..(clock + 1) \cup {NoText, Bought}
  PROVE  LET t == [txt EXCEPT ![clock + 1] = text]
         IN  /\ t \in [Times -> Texts] /\ t[clock + 1] = text
             /\ \A n \in 0..clock : t[n] = txt[n]
             /\ \A n \in 0..(clock + 1) : t[n] \in 0..(clock + 1) \cup {NoText, Bought}
<1> DEFINE t == [txt EXCEPT ![clock + 1] = text]
<1>1. clock \in Nat /\ clock + 1 \in Times /\ 0..clock \subseteq Times /\ clock + 1 \notin 0..clock
  BY StampTypes, EntryAssumption DEF Common, TypeOK, Times
<1>2. t \in [Times -> Texts] /\ t[clock + 1] = text /\ \A n \in 0..clock : t[n] = txt[n]
  BY <1>1 DEF Common, Dates
<1>3. ASSUME NEW n \in 0..(clock + 1) PROVE t[n] \in 0..(clock + 1) \cup {NoText, Bought}
  <2>1. CASE n = clock + 1
    BY <1>2, <2>1
  <2>2. CASE n \in 0..clock
    <3>1. txt[n] \in 0..clock \cup {NoText, Bought}
      BY <2>2 DEF Common, Dates
    <3>2. 0..clock \subseteq 0..(clock + 1)
      BY <1>1
    <3> QED BY <1>2, <2>2, <3>1, <3>2
  <2>3. n = clock + 1 \/ n \in 0..clock
    BY <1>1
  <2> QED BY <2>1, <2>2, <2>3
<1> QED BY <1>2, <1>3

\* The device whose player writes leads from here.
LEMMA PutLeads ==
  ASSUME "outOfTurn" \notin Hazards,
         NEW h \in Devices, NEW txt, Led(h, txt), TypeOK', NEW d \in Devices, NEW r, Put(d, r),
         r.sealed => Live(r), r = NoRecord \/ ((Live(r) \/ Gone(r)) /\ r.updatedAt = clock + 1),
         Live(r) => r.text \in 0..(clock + 1) \cup {NoText, Bought},
         Gone(r) => r.deletedAt = clock + 1 /\ ~Gone(row),
         SwitchedOn(r) => ~(Live(row) /\ row.text = r.text)
  PROVE  \E t \in [Times -> Texts] : Led(d, t)'
<1>1. /\ clock < MaxWrites /\ clock' = clock + 1
      /\ UNCHANGED <<row, object, known, place, remote, mine, held, got>>
      /\ disk'[d] = r /\ \A e \in Devices \ {d} : disk'[e] = disk[e]
  BY DEF Put, server, pass, Led, Common, TypeOK
<1>2. /\ \A e \in Devices : Agreed(e)
      /\ \A e \in Devices \ {d} : place[e] = "idle" /\ ~LocalOnly(disk[e])
  BY DEF Put, InTurn
<1>3. Live(row) => object = row.text
  BY <1>2, AgreedAtRest DEF Led, Leads
<1>4. place[d] \in {"idle", "list", "answer", "note"} \/ (place[d] = "get" /\ ~Live(row))
  BY <1>2, AgreedAtRest
<1>5. PICK text \in Texts : /\ text \in 0..(clock + 1) \cup {NoText, Bought}
                            /\ Live(r) => text = r.text
  <2>1. CASE Live(r)
    <3>1. r.text \in Texts
      BY <1>1 DEF TypeOK, Record
    <3> QED BY <2>1, <3>1
  <2>2. CASE ~Live(r)
    BY <2>2, EmptyTypes
  <2> QED BY <2>1, <2>2
<1>6. PICK t : /\ t \in [Times -> Texts] /\ t[clock + 1] = text
               /\ \A n \in 0..clock : t[n] = txt[n]
               /\ \A n \in 0..(clock + 1) : t[n] \in 0..(clock + 1) \cup {NoText, Bought}
  <2> DEFINE u == [txt EXCEPT ![clock + 1] = text]
  <2>1. /\ u \in [Times -> Texts] /\ u[clock + 1] = text
        /\ \A n \in 0..clock : u[n] = txt[n]
        /\ \A n \in 0..(clock + 1) : u[n] \in 0..(clock + 1) \cup {NoText, Bought}
    BY <1>1, <1>5, DatesGrow DEF Led
  <2> HIDE DEF u
  <2> QED BY <2>1
<1>7. ASSUME NEW e \in Devices \ {d} PROVE Sound(t, e)'
  <2>1. Past(e)'
    BY <1>1, StampTypes DEF Led, Common, Sound, Past, RowPast
  <2>2. Dated(t, e)'
    <3>1. disk[e].updatedAt \in 0..clock /\ known[e].updatedAt \in 0..clock /\ held[e].updatedAt \in 0..clock
      BY StampTypes DEF Led, Common, Sound, Past, RowPast
    <3> QED BY <1>1, <1>6, <3>1 DEF Led, Common, Sound, Dated, Live
  <2>3. Kind(e)' /\ Fetches(e)' /\ (Absent(row) => Absent(remote[e]))'
    BY <1>1, <1>2 DEF Led, Common, Sound, Kind, Fetches, Live, Absent
  <2> QED BY <2>1, <2>2, <2>3 DEF Sound
<1>8. Sound(t, d)'
  <2>1. Past(d)'
    <3>1. r.updatedAt <= clock + 1
      BY StampTypes DEF Led, Common, NoRecord
    <3> QED BY <1>1, <3>1, StampTypes DEF Led, Common, Sound, Past, RowPast
  <2>2. Dated(t, d)'
    <3>1. known[d].updatedAt \in 0..clock /\ held[d].updatedAt \in 0..clock
      BY StampTypes DEF Led, Common, Sound, Past, RowPast
    <3>2. Live(r) => r.text = t[r.updatedAt]
      BY <1>5, <1>6 DEF NoRecord, Live
    <3> QED BY <1>1, <1>6, <3>1, <3>2 DEF Led, Common, Sound, Dated, Live
  <2>3. Kind(d)' /\ Fetches(d)' /\ (Absent(row) => Absent(remote[d]))'
    BY <1>1, <1>4 DEF Led, Common, Sound, Kind, Fetches, Live, Gone, Absent
  <2> QED BY <2>1, <2>2, <2>3 DEF Sound
<1>9. Common(t)'
  <2>1. Dates(t)'
    BY <1>1, <1>6 DEF Dates
  <2>2. RowPast(row)' /\ (Live(row) => row.text = t[row.updatedAt])'
    <3>1. row.updatedAt \in 0..clock
      BY StampTypes DEF Led, Common, RowPast
    <3> QED BY <1>1, <1>6, <3>1, StampTypes DEF Led, Common, RowPast, Live
  <2> QED BY <1>7, <1>8, <2>1, <2>2 DEF Common
<1>10. Ahead(d)' => r.updatedAt = clock + 1 /\ (Gone(r) => r.deletedAt = clock + 1)
  BY <1>1 DEF Ahead, SwitchedOn, Live, Gone, NoRecord
<1>11. ASSUME NEW e \in Devices \ {d}, Ahead(d)' PROVE Alongside(d, e)'
  <2>1. Matches(disk[e], row)
    BY <1>2 DEF Agreed, Matches
  <2>2. disk[e].updatedAt < clock + 1
    BY StampTypes DEF Led, Common, Sound, Past
  <2> QED BY <1>1, <1>10, <1>11, <2>1, <2>2 DEF Alongside, Matches, SwitchedOn, Live, Absent
<1>12. Ahead(d)' => Earlier(row, d)' /\ Earlier(remote[d], d)'
  <2>1. /\ row.updatedAt < clock + 1 /\ row.deletedAt < clock + 1
        /\ remote[d].updatedAt < clock + 1 /\ remote[d].deletedAt < clock + 1
    BY StampTypes DEF Led, Common, Sound, Past, RowPast
  <2> QED BY <1>1, <1>10, <2>1 DEF Earlier
<1>13. Leads(d)'
  BY <1>1, <1>3, <1>10, <1>11, <1>12 DEF Leads, LocalOnly, Live, Gone, Absent
<1>14. Carries(d)'
  BY <1>1, <1>4, <1>12 DEF Carries, Pushing, Ahead, SwitchedOn, Live, Gone
<1>15. ASSUME NEW e \in Devices \ {d} PROVE Follows(e)'
  BY <1>1, <1>2 DEF Agreed, Follows, Matches, SwitchedOn, Live, Absent
<1> QED BY <1>6, <1>9, <1>13, <1>14, <1>15 DEF Led

\* Each of the player's writes is one the leader can make.
LEMMA PlayerLeads ==
  ASSUME "outOfTurn" \notin Hazards,
         NEW h \in Devices, NEW txt, Led(h, txt), TypeOK', NEW d \in Devices, Player(d)
  PROVE  \E g \in Devices, t \in [Times -> Texts] : Led(g, t)'
<1>1. /\ disk[d] \in Record /\ clock \in Nat /\ Kind(d)
      /\ Live(disk[d]) => disk[d].text \in 0..clock \cup {NoText, Bought}
      /\ Live(row) => row.text \in 0..clock \cup {NoText, Bought}
  <2>1. disk[d].updatedAt \in 0..clock /\ row.updatedAt \in 0..clock
    BY StampTypes DEF Led, Common, Sound, Past, RowPast
  <2> QED BY <2>1, StampTypes DEF Led, Common, Sound, Dates, Dated, TypeOK
<1>2. \E r : Put(d, r)
  BY DEF Player, Import, FromFile, Buy, Switch, Forget
<1>3. Agreed(d) /\ clock + 1 \in Times /\ ~Gone(disk[d])
  BY <1>1, <1>2, AgreedAtRest, EntryAssumption DEF Put, InTurn, Times
<1>4. 0..clock \subseteq 0..(clock + 1) /\ clock + 1 \notin 0..clock \cup {NoText, Bought}
  BY <1>1, <1>3, EntryAssumption DEF Times
<1>5. CASE Import(d)
  <2>1. ~Live(row)
    BY <1>1, <1>3, <1>5 DEF Import, Agreed, Kind, SwitchedOn, LocalOnly, Live, Absent
  <2>2. 0 \in 0..(clock + 1)
    BY <1>1
  <2> QED BY <1>5, <2>1, <2>2, PutLeads DEF Import, Written, Live, Gone
<1>6. CASE FromFile(d)
  <2>1. ~(Live(row) /\ row.text = clock + 1)
    BY <1>1, <1>4
  <2>2. clock + 1 \in 0..(clock + 1)
    BY <1>1
  <2> QED BY <1>6, <2>1, <2>2, PutLeads DEF FromFile, Written, Live, Gone
<1>7. CASE Buy(d)
  BY <1>7, PutLeads DEF Buy, Written, SwitchedOn, Live, Gone
<1>8. CASE Switch(d)
  <2> DEFINE s == IF disk[d].sync = "on" THEN "off" ELSE "on"
             r == [disk[d] EXCEPT !.sync = s, !.updatedAt = clock + 1]
  <2>1. /\ r.state = disk[d].state /\ r.text = disk[d].text /\ r.sealed = disk[d].sealed
        /\ r.updatedAt = clock + 1 /\ r.sync = s
    BY <1>1 DEF Record
  <2>2. Live(r) /\ ~Gone(r) /\ r.text \in 0..(clock + 1) \cup {NoText, Bought}
    BY <1>1, <1>4, <1>8, <2>1 DEF Switch, Live, Gone
  <2>3. SwitchedOn(r) => ~Live(row)
    BY <1>3, <2>1 DEF Agreed, SwitchedOn, LocalOnly, Live, Absent
  <2>4. Put(d, r)
    BY <1>8 DEF Switch
  <2> HIDE DEF r, s
  <2> QED BY <2>1, <2>2, <2>3, <2>4, PutLeads
<1>9. CASE Forget(d)
  <2>1. CASE disk[d].sealed
    <3>1. Put(d, NoRecord)
      BY <1>9, <2>1 DEF Forget
    <3> QED BY <3>1, PutLeads DEF NoRecord, SwitchedOn, Live, Gone
  <2>2. CASE ~disk[d].sealed
    <3> DEFINE r == [disk[d] EXCEPT !.state = "gone", !.text = NoText,
                                    !.updatedAt = clock + 1, !.deletedAt = clock + 1]
    <3>1. /\ r.state = "gone" /\ r.updatedAt = clock + 1 /\ r.deletedAt = clock + 1
          /\ r.sealed = FALSE
      BY <1>1, <2>2 DEF Record
    <3>2. ~Gone(row)
      BY <1>3, <1>9, <2>2 DEF Forget, Agreed, SwitchedOn, LocalOnly, Live, Gone, Absent
    <3>3. Put(d, r)
      BY <1>9, <2>2 DEF Forget
    <3>4. Gone(r) /\ ~Live(r) /\ ~SwitchedOn(r)
      BY <3>1 DEF SwitchedOn, Live, Gone
    <3> HIDE DEF r
    <3> QED BY <3>1, <3>2, <3>3, <3>4, PutLeads
  <2> QED BY <2>1, <2>2
<1> QED BY <1>5, <1>6, <1>7, <1>8, <1>9 DEF Player

LEMMA InOrderInit == Init => TypeOK /\ InOrder
<1> SUFFICES ASSUME Init PROVE InOrder
  BY TypeInit
<1>1. TypeOK
  BY TypeInit
<1>2. CASE Devices = {}
  BY <1>2 DEF Init, InOrder
<1>3. ASSUME NEW h \in Devices PROVE InOrder
  <2> DEFINE txt == [t \in Times |-> NoText]
  <2>1. /\ row = NoRow /\ clock = 0
        /\ \A d \in Devices : /\ disk[d] = NoRecord /\ known[d] = Nothing /\ place[d] = "idle"
                              /\ remote[d] = NoRow /\ held[d] = NoRow
    BY DEF Init
  <2>2. NoRow.state = "none" /\ NoRow.updatedAt = 0 /\ NoRow.deletedAt = 0
    BY DEF NoRow
  <2>3. /\ NoRecord.state = "none" /\ NoRecord.updatedAt = 0 /\ NoRecord.sealed = FALSE
        /\ Nothing.here = FALSE /\ Nothing.updatedAt = 0
    BY DEF NoRecord, Nothing
  <2>4. txt \in [Times -> Texts] /\ Dates(txt)
    BY <2>1, EmptyTypes, EntryAssumption DEF Dates, Times
  <2> HIDE DEF txt
  <2>5. ASSUME NEW d \in Devices PROVE Sound(txt, d)
    BY <2>1, <2>2, <2>3 DEF Sound, Kind, Past, RowPast, Dated, Fetches, Live, Absent
  <2>6. Common(txt)
    BY <1>1, <2>1, <2>2, <2>4, <2>5 DEF Common, RowPast, Live
  <2>7. Leads(h) /\ Carries(h)
    BY <2>1, <2>2, <2>3 DEF Leads, Carries, Pushing, Ahead, SwitchedOn, LocalOnly, Live, Gone
  <2>8. ASSUME NEW e \in Devices PROVE Follows(e)
    BY <2>1, <2>2, <2>3 DEF Follows, Matches, Live, Absent
  <2> QED BY <2>4, <2>6, <2>7, <2>8 DEF Led, InOrder
<1> QED BY <1>2, <1>3

LEMMA InOrderStep ==
  ASSUME "outOfTurn" \notin Hazards
  PROVE  TypeOK /\ InOrder /\ [Next]_vars => TypeOK' /\ InOrder'
<1> SUFFICES ASSUME TypeOK, InOrder, [Next]_vars PROVE InOrder'
  BY TypeStep
<1>1. TypeOK'
  BY TypeStep
<1>2. CASE UNCHANGED vars
  <2>1. CASE Devices = {} /\ row = NoRow
    BY <1>2, <2>1 DEF vars, InOrder
  <2>2. ASSUME NEW h \in Devices, NEW txt \in [Times -> Texts], Led(h, txt) PROVE Led(h, txt)'
    <3>1. ASSUME NEW e \in Devices PROVE Sound(txt, e)'
      BY <1>2, <2>2 DEF vars, Led, Common, Sound, Kind, Past, RowPast, Dated, Fetches, Yields, Matches, Behind,
                        SwitchedOn, LocalOnly, Live, Gone, Absent
    <3>2. Elsewhere(h) /\ UNCHANGED <<row, object, disk, clock, place, remote, mine, held>>
      BY <1>2 DEF vars, Elsewhere
    <3>3. Carries(h)'
      BY <2>2, <3>2 DEF Led, Carries, Pushing, Ahead, Earlier, SwitchedOn, Live, Gone
    <3> QED BY <1>1, <2>2, <3>1, <3>2, <3>3, MoveLeads
  <2> QED BY <2>1, <2>2 DEF InOrder
<1>3. ASSUME NEW d \in Devices, Player(d) \/ Manifest(d) \/ PassStep(d) \/ Cut(d) PROVE InOrder'
  <2>1. PICK h \in Devices, txt \in [Times -> Texts] : Led(h, txt)
    BY <1>3 DEF InOrder
  <2>2. CASE Player(d)
    BY <1>1, <2>1, <2>2, PlayerLeads DEF InOrder
  <2>3. CASE ~Player(d)
    <3>1. Led(h, txt)'
      BY <1>1, <1>3, <2>1, <2>3, ManifestLeads, ListLeads, CheckLeads, ObjectLeads, PutRowLeads, NoteLeads,
         GetLeads, KeepLeads, TellLeads, BuryLeads, DropLeads DEF PassStep
    <3> QED BY <2>1, <3>1 DEF InOrder
  <2> QED BY <2>2, <2>3
<1> QED BY <1>2, <1>3 DEF Next

\* putPack writes the object first and a request may die in between (store.ts),
\* and yet, where players write in turn, a device that finds all others at
\* rest and in step with the server pulls the text the row says: whatever
\* passes are cut short, and wherever.
THEOREM ObjectStays ==
  ASSUME "outOfTurn" \notin Hazards
  PROVE  Spec => []ObjectIsRows
<1>1. Init => TypeOK /\ InOrder
  BY InOrderInit
<1>2. TypeOK /\ InOrder /\ [Next]_vars => TypeOK' /\ InOrder'
  BY InOrderStep
<1>3. TypeOK /\ InOrder => ObjectIsRows
  <2> SUFFICES ASSUME InOrder, \A d \in Devices : Agreed(d), Live(row) PROVE object = row.text
    BY DEF ObjectIsRows
  <2>1. PICK h \in Devices, txt \in [Times -> Texts] : Led(h, txt)
    BY DEF InOrder, NoRow, Live
  <2> QED BY <2>1, AgreedAtRest DEF Led, Leads
<1> QED BY <1>1, <1>2, <1>3, PTL DEF Spec

\* What a pull or a purge finds is neither sealed nor in the way of the row.
LEMMA SealInOrder ==
  ASSUME TypeOK, InOrder, [Next]_vars
  PROVE  \A d \in Devices : disk[d].sealed /\ ~disk'[d].sealed => clock' # clock
<1> SUFFICES ASSUME NEW d \in Devices, disk[d].sealed, disk'[d] # disk[d], clock' = clock PROVE FALSE
  OBVIOUS
<1>1. PICK e \in Devices : Player(e) \/ Manifest(e) \/ PassStep(e) \/ Cut(e)
  BY DEF Next, vars
<1>2. ~Player(e)
  <2>1. Player(e) => \E r : Put(e, r)
    BY DEF Player, Import, FromFile, Buy, Switch, Forget
  <2>2. clock + 1 # clock
    BY StampTypes
  <2> QED BY <2>1, <2>2 DEF Put
<1>3. Keep(e) \/ Drop(e)
  BY <1>1, <1>2
     DEF PassStep, Manifest, List, Check, Again, PutObject, PutRow, Note, Get, Fetch, Tell, Bury, Burn, Cut
<1>4. d = e
  BY <1>3 DEF Keep, Drop, TypeOK
<1>5. PICK h \in Devices, txt \in [Times -> Texts] : Led(h, txt)
  BY DEF InOrder
<1>6. Live(disk[d]) /\ Fetches(d)
  BY <1>5 DEF Led, Common, Sound, Kind
<1>7. CASE Keep(d)
  BY <1>6, <1>7 DEF Keep, Fetches, Matches
<1>8. CASE Drop(d)
  <2>1. d # h
    BY <1>5, <1>6, <1>8 DEF Drop, Led, Carries, LocalOnly, Live, Gone
  <2> QED BY <1>5, <1>8, <2>1 DEF Drop, Led, Follows, SwitchedOn
<1> QED BY <1>3, <1>4, <1>7, <1>8

\* The server's row must neither overwrite nor purge what was bought
\* (engine.ts): where a player does not write while a pass is under way, or
\* else writes in turn, no pass on any device takes a sealed copy off it.
THEOREM BoughtCopiesStay ==
  ASSUME "midpass" \notin Hazards \/ "outOfTurn" \notin Hazards
  PROVE  Spec => BoughtStays
<1>1. CASE "midpass" \notin Hazards
  BY <1>1, BoughtOutsidePasses
<1>2. CASE "outOfTurn" \notin Hazards
  <2>1. Init => TypeOK /\ InOrder
    BY InOrderInit
  <2>2. TypeOK /\ InOrder /\ [Next]_vars => TypeOK' /\ InOrder'
    BY <1>2, InOrderStep
  <2>3. TypeOK /\ InOrder /\ [Next]_vars
          => [\A d \in Devices : disk[d].sealed /\ ~disk'[d].sealed => clock' # clock]_vars
    BY SealInOrder
  <2> QED BY <2>1, <2>2, <2>3, PTL DEF Spec, BoughtStays
<1> QED BY <1>1, <1>2
=============================================================================
