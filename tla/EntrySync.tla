------------------------------ MODULE EntrySync ------------------------------
(***************************************************************************)
(* One pack of an account on several devices: the record each holds, what  *)
(* each has noted of the server's copy, the row and the object the server  *)
(* keeps, and the pass of engine.ts that compares and carries.  Packs      *)
(* under other ids do not touch this one, and a license goes the same way  *)
(* without the object, the switch and the seal.                            *)
(*                                                                         *)
(* Time is the count of the players' writes, so a stamp says which write   *)
(* it was.  A text is named by the write that made it; its hash is itself. *)
(***************************************************************************)
EXTENDS Integers, FiniteSets

CONSTANTS
  Devices,
  Hazards,     \* what may happen besides one device at a time in good order
  MaxWrites,   \* bound: writes by players
  MaxFaults,   \* bound: passes cut short
  NoText,      \* what a tombstone holds, and an object that is not there
  Bought       \* the text of a sealed copy

AllHazards ==
  {"overlap",    \* requests of two devices interleave on the server
   "midpass",    \* a player writes while the device's pass is under way
   "outOfTurn",  \* a player writes on a device that is behind the others
   "unshared",   \* a pack not switched on here is on the server
   "unnoted"}    \* a device does not note what it sent or took

ASSUME EntryAssumption ==
  /\ Hazards \subseteq AllHazards
  /\ MaxWrites \in Nat /\ MaxFaults \in Nat
  /\ NoText \notin 0..MaxWrites /\ Bought \notin 0..MaxWrites /\ NoText # Bought

VARIABLES
  row,      \* the server's row
  object,   \* the text stored beside it in S3
  disk,     \* each device's record of the pack
  known,    \* what each has noted of the server's copy (SyncState)
  place,    \* where the device's pass, or the request it made, stands
  remote,   \* the entry the manifest carried
  mine,     \* the record the pass listed
  held,     \* the row the request read or wrote
  got,      \* the text a pull was sent
  clock,    \* writes so far: the time
  offered,  \* texts a player put on a device with the switch on, or switched on
  faults

pass   == <<place, remote, mine, held, got>>
server == <<row, object>>
vars   == <<row, object, disk, known, place, remote, mine, held, got, clock, offered, faults>>

Times  == 0..MaxWrites
Texts  == Times \cup {NoText, Bought}
Row    == [state : {"none", "live", "gone"}, text : Texts, updatedAt : Times, deletedAt : Times,
           forgot : Times]   \* history: when the player forgot what a tombstone says is gone
Record == [state : {"none", "live", "gone"}, text : Texts, updatedAt : Times, deletedAt : Times,
           sync : {"on", "off", "unset"}, sealed : BOOLEAN]
Noted  == [here : BOOLEAN, text : Texts, updatedAt : Times]
NoRow    == [state |-> "none", text |-> NoText, updatedAt |-> 0, deletedAt |-> 0, forgot |-> 0]
NoRecord == [state |-> "none", text |-> NoText, updatedAt |-> 0, deletedAt |-> 0,
             sync |-> "unset", sealed |-> FALSE]
Nothing  == [here |-> FALSE, text |-> NoText, updatedAt |-> 0]
Places   == {"idle", "list", "check", "again", "object", "row", "answer", "get", "fetch",
             "keep", "note", "tell", "bury", "burn", "drop"}

TypeOK ==
  /\ row \in Row /\ object \in Texts
  /\ disk \in [Devices -> Record] /\ mine \in [Devices -> Record]
  /\ known \in [Devices -> Noted]
  /\ place \in [Devices -> Places]
  /\ remote \in [Devices -> Row] /\ held \in [Devices -> Row] /\ got \in [Devices -> Texts]
  /\ clock \in Times /\ offered \subseteq Texts /\ faults \in 0..MaxFaults

Go(d, where) == place' = [place EXCEPT ![d] = where]

\* The pass is over and what it held is gone.
Over(d) ==
  /\ Go(d, "idle")
  /\ remote' = [remote EXCEPT ![d] = NoRow]
  /\ mine' = [mine EXCEPT ![d] = NoRecord]
  /\ held' = [held EXCEPT ![d] = NoRow]
  /\ got' = [got EXCEPT ![d] = NoText]

-----------------------------------------------------------------------------
(* What travels, and which way: diff.ts.                                   *)

Live(r)   == r.state = "live"
Gone(r)   == r.state = "gone"
Absent(r) == r.state = "none"

\* A faulty Travels: the switch is not asked.
Travels_Unasked(r) == ~Absent(r) /\ ~r.sealed

\* The records the pass compares: switched on or forgotten, and never sealed.
Travels(r) == ~r.sealed /\ ((Live(r) /\ r.sync = "on") \/ Gone(r))

\* What the side holding `l` does about the side holding `r`.
Plan(l, r) ==
  CASE Gone(l) /\ Gone(r)  -> "purge"
    [] Gone(l) /\ ~Gone(r) -> IF Absent(r) \/ r.updatedAt <= l.deletedAt THEN "tell" ELSE "pull"
    [] Gone(r) /\ ~Gone(l) -> IF Absent(l) \/ l.updatedAt <= r.deletedAt THEN "forget" ELSE "push"
    [] Absent(r) /\ ~Gone(l) -> IF Absent(l) THEN "rest" ELSE "push"
    [] Live(r) /\ Absent(l) -> "pull"
    [] Live(r) /\ Live(l) -> IF l.text = r.text THEN "rest"
                             ELSE IF l.updatedAt >= r.updatedAt THEN "push" ELSE "pull"

-----------------------------------------------------------------------------
(* The player: App.tsx, db.ts.                                             *)

SwitchedOn(r) == Live(r) /\ ~r.sealed /\ r.sync = "on"
LocalOnly(r)  == Live(r) /\ ~r.sealed /\ r.sync # "on"

\* A device with nothing to do holds what the server holds.
Agreed(d) ==
  \/ disk[d].sealed
  \/ SwitchedOn(disk[d]) /\ Live(row) /\ disk[d].text = row.text
  \/ LocalOnly(disk[d]) /\ Absent(row)
  \/ Absent(disk[d]) /\ ~Live(row)

\* One device at a time: the others are at rest, and all in step with the server.
InTurn(d) ==
  \A e \in Devices :
    /\ (e = d \/ place[e] = "idle") /\ Agreed(e)
    /\ "unnoted" \in Hazards \/ ~known[e].here \/ known[e].text = row.text
    /\ e # d => ~LocalOnly(disk[e])

\* The player puts `r` in the record's place.
Put(d, r) ==
  /\ clock < MaxWrites
  /\ "midpass" \in Hazards \/ place[d] = "idle"
  /\ "outOfTurn" \in Hazards \/ InTurn(d)
  /\ "unshared" \in Hazards \/ ~LocalOnly(r) \/ Absent(row)
  /\ disk' = [disk EXCEPT ![d] = r]
  /\ clock' = clock + 1
  /\ offered' = IF SwitchedOn(r) THEN offered \cup {r.text} ELSE offered
  /\ UNCHANGED <<server, known, pass, faults>>

Written(text, sync, sealed) ==
  [state |-> "live", text |-> text, updatedAt |-> clock + 1, deletedAt |-> 0,
   sync |-> sync, sealed |-> sealed]

\* From the marketplace, switched on.  Its text is the same everywhere.
Import(d) == ~Live(disk[d]) /\ Put(d, Written(0, "on", FALSE))

\* From a file: the same record with another text in it, or a new one.
FromFile(d) == Put(d, Written(clock + 1, IF Live(disk[d]) THEN disk[d].sync ELSE "unset", FALSE))

\* A sealed copy is opened: it takes the place of what was there.
Buy(d) == Put(d, Written(Bought, "unset", TRUE))

\* markPackSync.
Switch(d) ==
  /\ Live(disk[d])
  /\ Put(d, [disk[d] EXCEPT !.sync = IF @ = "on" THEN "off" ELSE "on", !.updatedAt = clock + 1])

\* Off the shelf: a tombstone, or, sealed, nothing.
Forget(d) ==
  /\ Live(disk[d])
  /\ Put(d, IF disk[d].sealed THEN NoRecord
            ELSE [disk[d] EXCEPT !.state = "gone", !.text = NoText,
                                 !.updatedAt = clock + 1, !.deletedAt = clock + 1])

-----------------------------------------------------------------------------
(* The pass, and the server's part in it.                                  *)

Serving == {"object", "row", "fetch", "bury", "burn"}

\* A request begins.
Alone(d) == "overlap" \in Hazards \/ \A e \in Devices \ {d} : place[e] \notin Serving

Manifest(d) ==
  /\ place[d] = "idle"
  /\ remote' = [remote EXCEPT ![d] = row]
  /\ Go(d, "list")
  /\ UNCHANGED <<server, disk, known, mine, held, got, clock, offered, faults>>

\* A faulty Fingerprint: what was noted is taken for good at any stamp.
Fingerprint_AnyStamp(d, r) == IF known[d].here /\ Live(r) THEN known[d].text ELSE r.text

\* The fingerprint: what was noted for this very stamp is still good.
Fingerprint(d, r) ==
  IF known[d].here /\ known[d].updatedAt = r.updatedAt /\ Live(r) THEN known[d].text ELSE r.text

\* A faulty List: the server's copy of a sealed pack is not left out.
List_SealedToo(d) ==
  LET entry == IF Travels(disk[d]) THEN [disk[d] EXCEPT !.text = Fingerprint(d, disk[d])] ELSE NoRecord
      plan  == Plan(entry, remote[d])
  IN  /\ place[d] = "list"
      /\ IF plan = "rest" \/ (plan = "forget" /\ Absent(disk[d]))
           THEN Over(d)
           ELSE /\ mine' = [mine EXCEPT ![d] = disk[d]]
                /\ Go(d, CASE plan = "push" -> "check" [] plan = "pull" -> "get"
                           [] plan = "tell" -> "tell"  [] OTHER -> "drop")
                /\ UNCHANGED <<remote, held, got>>
      /\ UNCHANGED <<server, disk, known, clock, offered, faults>>

\* listAllPacks, and the plan.  The server's copy of what is sealed here is
\* left out of it, and what is not here cannot be forgotten.
List(d) ==
  LET entry == IF Travels(disk[d]) THEN [disk[d] EXCEPT !.text = Fingerprint(d, disk[d])] ELSE NoRecord
      plan  == IF Live(disk[d]) /\ disk[d].sealed THEN "rest" ELSE Plan(entry, remote[d])
  IN  /\ place[d] = "list"
      /\ IF plan = "rest" \/ (plan = "forget" /\ Absent(disk[d]))
           THEN Over(d)
           ELSE /\ mine' = [mine EXCEPT ![d] = disk[d]]
                /\ Go(d, CASE plan = "push" -> "check" [] plan = "pull" -> "get"
                           [] plan = "tell" -> "tell"  [] OTHER -> "drop")
                /\ UNCHANGED <<remote, held, got>>
      /\ UNCHANGED <<server, disk, known, clock, offered, faults>>

\* The object beside a row that says there is one is not there: the server fails.
Missing == Live(row) /\ object = NoText

\* If-Match carries the hash the device last saw, where it saw one.
Mismatch(d) == known[d].here /\ (Absent(row) \/ known[d].text # row.text)

\* PUT, first time.  On a conflict the device goes by the entry it is sent.
Check(d) ==
  /\ place[d] = "check" /\ Alone(d)
  /\ LET theirs == IF Absent(row) THEN remote[d] ELSE row
     IN  \/ Missing /\ Over(d)
         \/ /\ ~Missing
            /\ Go(d, IF ~Mismatch(d) THEN "object"
                     ELSE IF ~Absent(theirs) /\ theirs.updatedAt > mine[d].updatedAt THEN "get"
                     ELSE "again")
            /\ UNCHANGED <<remote, mine, held, got>>
  /\ UNCHANGED <<server, disk, known, clock, offered, faults>>

\* PUT, second time: the same call.  A conflict now ends the pass.
Again(d) ==
  /\ place[d] = "again" /\ Alone(d)
  /\ IF Missing \/ Mismatch(d) THEN Over(d) ELSE Go(d, "object") /\ UNCHANGED <<remote, mine, held, got>>
  /\ UNCHANGED <<server, disk, known, clock, offered, faults>>

\* A faulty PutObject: an object that is there is left as it is.
PutObject_Once(d) ==
  /\ place[d] = "object"
  /\ object' = IF object = NoText THEN mine[d].text ELSE object
  /\ Go(d, "row")
  /\ UNCHANGED <<row, disk, known, remote, mine, held, got, clock, offered, faults>>

\* putPack: the object, then the row.
PutObject(d) ==
  /\ place[d] = "object"
  /\ object' = mine[d].text
  /\ Go(d, "row")
  /\ UNCHANGED <<row, disk, known, remote, mine, held, got, clock, offered, faults>>

PutRow(d) ==
  /\ place[d] = "row"
  /\ LET new == [NoRow EXCEPT !.state = "live", !.text = mine[d].text, !.updatedAt = mine[d].updatedAt]
     IN  row' = new /\ held' = [held EXCEPT ![d] = new]
  /\ Go(d, "answer")
  /\ UNCHANGED <<object, disk, known, remote, mine, got, clock, offered, faults>>

\* putSyncState, after a push or a pull.
Note(d) ==
  /\ place[d] \in {"answer", "note"}
  /\ known' = [known EXCEPT ![d] = [here |-> TRUE, text |-> held[d].text, updatedAt |-> held[d].updatedAt]]
  /\ Over(d)
  /\ UNCHANGED <<server, disk, clock, offered, faults>>

\* GET: the row, then the object.  Nothing there, or a tombstone: no answer.
Get(d) ==
  /\ place[d] = "get" /\ Alone(d)
  /\ IF Live(row)
       THEN held' = [held EXCEPT ![d] = row] /\ Go(d, "fetch") /\ UNCHANGED <<remote, mine, got>>
       ELSE Over(d)
  /\ UNCHANGED <<server, disk, known, clock, offered, faults>>

\* An object that is not there is the server's error, and ends the pass.
Fetch(d) ==
  /\ place[d] = "fetch"
  /\ IF object = NoText
       THEN Over(d)
       ELSE got' = [got EXCEPT ![d] = object] /\ Go(d, "keep") /\ UNCHANGED <<remote, mine, held>>
  /\ UNCHANGED <<server, disk, known, clock, offered, faults>>

\* savePack, over whatever the record has become; the switch stays as it is,
\* and is on where it was never set.
Keep(d) ==
  /\ place[d] = "keep"
  /\ LET new == [NoRecord EXCEPT !.state = "live", !.text = got[d], !.updatedAt = held[d].updatedAt,
                                 !.sync = IF disk[d].sync = "off" THEN "off" ELSE "on"]
     IN  disk' = [disk EXCEPT ![d] = new]
  /\ Go(d, "note")
  /\ UNCHANGED <<server, known, remote, mine, held, got, clock, offered, faults>>

\* DELETE, at the time it arrives: the row is read, a tombstone put over it,
\* its object deleted.
Tell(d) ==
  /\ place[d] = "tell" /\ Alone(d)
  /\ held' = [held EXCEPT ![d] = [row EXCEPT !.updatedAt = clock]]
  /\ Go(d, "bury")
  /\ UNCHANGED <<server, disk, known, remote, mine, got, clock, offered, faults>>

Bury(d) ==
  /\ place[d] = "bury"
  /\ row' = [held[d] EXCEPT !.state = "gone",
                            !.deletedAt = IF Gone(held[d]) THEN @ ELSE held[d].updatedAt,
                            !.forgot = IF Gone(held[d]) THEN @ ELSE mine[d].deletedAt]
  /\ Go(d, IF Live(held[d]) THEN "burn" ELSE "drop")
  /\ UNCHANGED <<object, disk, known, remote, mine, held, got, clock, offered, faults>>

Burn(d) ==
  /\ place[d] = "burn"
  /\ object' = NoText
  /\ Go(d, "drop")
  /\ UNCHANGED <<row, disk, known, remote, mine, held, got, clock, offered, faults>>

\* purgePack and forgetSyncState.
Drop(d) ==
  /\ place[d] = "drop"
  /\ disk' = [disk EXCEPT ![d] = NoRecord]
  /\ known' = [known EXCEPT ![d] = Nothing]
  /\ Over(d)
  /\ UNCHANGED <<server, clock, offered, faults>>

\* A call fails, its answer is lost, an execution dies or the page is closed.
Cut(d) ==
  /\ faults < MaxFaults
  /\ place[d] # "idle"
  /\ place[d] \in {"answer", "note"} => "unnoted" \in Hazards
  /\ faults' = faults + 1
  /\ Over(d)
  /\ UNCHANGED <<server, disk, known, clock, offered>>

-----------------------------------------------------------------------------
Init ==
  /\ row = NoRow /\ object = NoText
  /\ disk = [d \in Devices |-> NoRecord]
  /\ known = [d \in Devices |-> Nothing]
  /\ place = [d \in Devices |-> "idle"]
  /\ remote = [d \in Devices |-> NoRow]
  /\ mine = [d \in Devices |-> NoRecord]
  /\ held = [d \in Devices |-> NoRow]
  /\ got = [d \in Devices |-> NoText]
  /\ clock = 0 /\ offered = {} /\ faults = 0

Player(d) == Import(d) \/ FromFile(d) \/ Buy(d) \/ Switch(d) \/ Forget(d)

PassStep(d) ==
  \/ List(d) \/ Check(d) \/ Again(d) \/ PutObject(d) \/ PutRow(d) \/ Note(d)
  \/ Get(d) \/ Fetch(d) \/ Keep(d) \/ Tell(d) \/ Bury(d) \/ Burn(d) \/ Drop(d)

Next == \E d \in Devices : Player(d) \/ Manifest(d) \/ PassStep(d) \/ Cut(d)

Spec == Init /\ [][Next]_vars

\* A device with a page open asks again every poll, and a pass ends.
FairSpec == Spec /\ \A d \in Devices : WF_vars(Manifest(d)) /\ WF_vars(PassStep(d))

-----------------------------------------------------------------------------
(* Properties.                                                             *)

\* "Untoggled text never leaves, and never a sealed copy at all" (engine.ts):
\* whatever the server holds, and whatever a device takes from it, a player
\* switched on somewhere, however writes, passes and requests interleave.
StaysHome == {row.text, object} \subseteq offered \cup {NoText}

\* What the server holds of a bought pack "must neither overwrite nor purge
\* what was bought" (engine.ts): no pass takes a sealed copy off a device.
BoughtStays ==
  [][\A d \in Devices : disk[d].sealed /\ ~disk'[d].sealed => clock' # clock]_vars

\* Newer wins, and a deletion travels "unless the other side wrote after it: someone who
\* kept working on a run they did not know was forgotten elsewhere keeps it" (diff.ts): of
\* what is switched on, a pass puts only what was written later in a record's place, and drops
\* only what a player forgot after it was written.
WorkStays ==
  [][\A d \in Devices : SwitchedOn(disk[d]) /\ disk'[d] # disk[d] /\ clock' = clock =>
       IF Live(disk'[d]) THEN disk'[d].text = disk[d].text \/ disk'[d].updatedAt > disk[d].updatedAt
       ELSE Gone(row) /\ row.forgot >= disk[d].updatedAt]_vars

\* A device at rest that has what the row says can be followed by one that
\* has nothing: the object beside the row is the row's.  putPack writes the
\* object first, and a request may die in between.
ObjectIsRows ==
  (\A d \in Devices : place[d] = "idle" /\ Agreed(d)) /\ Live(row) => object = row.text

\* A device that missed the answer to its own push, and whose player has written since: its If-Match is no longer
\* the server's, and every push of it is refused (engine.ts, a conflict ends the pass).
Refused(d) == SwitchedOn(disk[d]) /\ Mismatch(d) /\ disk[d].updatedAt >= row.updatedAt

\* Every device comes to hold what the server holds, again and again, through
\* requests that fail or die, but for one whose pushes are refused.
Converges == []<>(\A d \in Devices : Agreed(d) \/ Refused(d))
=============================================================================
