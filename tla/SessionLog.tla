----------------------------- MODULE SessionLog -----------------------------
(***************************************************************************)
(* One session as the hosted server keeps it: the rows under SESSION#<id>  *)
(* in the DynamoDB table and every member's pointer row, and the requests  *)
(* of store.ts that read and write them.  A request is a Lambda execution; *)
(* several run at once and each step below is one call to the table, the   *)
(* grain at which DynamoDB is atomic.  A step that returns or throws ends  *)
(* the request; the device that asked may ask again.                       *)
(*                                                                         *)
(* An event is its id, a row the fields its requests tell apart, and the   *)
(* time stamps, names and the profile's currentSessionId are left out.     *)
(***************************************************************************)
EXTENDS Integers, Sequences, FiniteSets

CONSTANTS
  Ids,          \* ids of events
  Subs,         \* accounts
  Owner,        \* the account that starts the session
  Made,         \* [Subs -> Seq(Ids)]: what each account's device makes, in order
  PressIds,     \* ids of events the Discord bot mints for its presses
  Workers,      \* Lambda executions that may run at once
  Chunk,        \* APPEND_CHUNK: events written by one transaction
  Ops,          \* the requests, and the faults, that may happen
  MaxSeq,       \* bound: numbers the table can hand out
  MaxRequests,  \* bound: requests begun
  NoEvent,      \* a number no event is stored under
  AnySeq        \* an append that expects no particular tail

AllOps == {"create", "append", "press", "patch", "delete", "join", "leave",
           "remove", "crash", "conflict"}

\* The requests that write the META row whole, from a copy read before.
Rewrites == {"patch", "delete"}

ASSUME ConstantsAssumption ==
  /\ Owner \in Subs
  /\ Made \in [Subs -> Seq(Ids)]
  /\ \A s \in Subs : \A i, j \in 1..Len(Made[s]) : Made[s][i] = Made[s][j] => i = j
  /\ \A s, m \in Subs : s # m => \A i \in 1..Len(Made[s]), j \in 1..Len(Made[m]) : Made[s][i] # Made[m][j]
  /\ PressIds \subseteq Ids
  /\ \A s \in Subs : \A i \in 1..Len(Made[s]) : Made[s][i] \notin PressIds
  /\ Chunk \in Nat \ {0}
  /\ Ops \subseteq AllOps
  /\ MaxSeq \in Nat
  /\ MaxRequests \in Nat
  /\ NoEvent \notin Ids
  /\ AnySeq \notin 0..MaxSeq

VARIABLES
  meta,     \* the META row: the counter `seq` and what patches and deletion set
  event,    \* the EVENT# rows: the id stored under each number
  seen,     \* the SEEN# rows: the ids that were given a number
  member,   \* the MEMBER# rows
  pointer,  \* each account's SESSION#<id> row, which its manifest lists
  pc,       \* where each request stands
  who,      \* the account a request is about
  chunk,    \* the events of the chunk being written or checked
  rest,     \* the batch's later chunks
  keep,     \* the chunk's events found without a SEEN row so far
  attempt,  \* which of a chunk's two attempts this is, from 0
  passed,   \* history: the ids some append passed over, both attempts failed
  expect,   \* opts.expectSeq
  tail,     \* the counter the last reservation returned, or the seq read
  row,      \* the META row a request read, as it will write it
  todo,     \* members whose rows the request has still to write
  begun     \* requests begun, for the bound

rows     == <<meta, event, seen, member, pointer>>
batch    == <<chunk, rest, keep, attempt, passed, expect>>
vars     == <<meta, event, seen, member, pointer, pc, who, chunk, rest, keep,
              attempt, passed, expect, tail, row, todo, begun>>

Numbers == 1..MaxSeq
NoRow   == [exists |-> FALSE, seq |-> 0, ended |-> FALSE, shared |-> FALSE, deleted |-> FALSE]
Meta    == [exists : BOOLEAN, seq : 0..MaxSeq, ended : BOOLEAN, shared : BOOLEAN, deleted : BOOLEAN]
Pointer == [state : {"none", "live", "deleted"}, seq : 0..MaxSeq]
Places  == {"idle", "seat", "reserve", "write", "check", "touch", "point", "get", "put",
            "erase", "bury", "close", "entomb", "quit", "leave", "leaveRow", "leavePointer",
            "join", "remove", "unseat", "drop"}

RowsOK ==
  /\ meta \in Meta
  /\ event \in [Numbers -> Ids \cup {NoEvent}]
  /\ seen \in SUBSET Ids
  /\ member \in SUBSET Subs
  /\ pointer \in [Subs -> Pointer]

BatchesOK ==
  /\ chunk \in [Workers -> Seq(Ids)]
  /\ rest \in [Workers -> Seq(Ids)]
  /\ keep \in [Workers -> Seq(Ids)]
  /\ attempt \in [Workers -> {0, 1}]
  /\ passed \in SUBSET Ids
  /\ expect \in [Workers -> 0..MaxSeq \cup {AnySeq}]

PlacesOK ==
  /\ pc \in [Workers -> Places]
  /\ who \in [Workers -> Subs]
  /\ tail \in [Workers -> 0..MaxSeq]
  /\ row \in [Workers -> Meta]
  /\ todo \in [Workers -> SUBSET Subs]
  /\ begun \in 0..MaxRequests

TypeOK == RowsOK /\ BatchesOK /\ PlacesOK

-----------------------------------------------------------------------------
(* Reading the table.                                                      *)

\* The number of the last event a read of the whole log returns.
IsTail(n) ==
  /\ n \in 0..MaxSeq
  /\ n # 0 => event[n] # NoEvent
  /\ \A s \in Numbers : s > n => event[s] = NoEvent

Elements(q) == {q[i] : i \in 1..Len(q)}

\* The batches a device may send: some of what it made, from its first event
\* the server has not numbered, as far as it knows.
BatchesOf(sub) ==
  {SubSeq(Made[sub], i, j) : i \in {k \in 1..Len(Made[sub]) :
                                      \A e \in 1..(k - 1) : Made[sub][e] \in seen},
                             j \in 1..Len(Made[sub])} \ {<<>>}

\* The executions whose transaction may be under way, which is what makes
\* DynamoDB cancel another that touches the same item.
Writing(w) == pc[w] = "write"

Clashes(w) ==
  \E v \in Workers \ {w} :
    Writing(v) /\ Elements(chunk[v]) \cap Elements(chunk[w]) # {}

-----------------------------------------------------------------------------
(* Beginning and ending a request.                                         *)

Idle(w) == pc[w] = "idle"

Begin(w, op, sub) ==
  /\ Idle(w)
  /\ op \in Ops
  /\ begun < MaxRequests
  /\ begun' = begun + 1
  /\ who' = [who EXCEPT ![w] = sub]

First(b) == SubSeq(b, 1, IF Len(b) < Chunk THEN Len(b) ELSE Chunk)
After(b) == SubSeq(b, Chunk + 1, Len(b))

\* A faulty TakeUp: a batch of more than one chunk loses its first.
TakeUp_SkipsChunk(w, b, expected) ==
  /\ chunk' = [chunk EXCEPT ![w] = IF Len(b) > Chunk THEN First(After(b)) ELSE b]
  /\ rest' = [rest EXCEPT ![w] = IF Len(b) > Chunk THEN After(After(b)) ELSE <<>>]
  /\ keep' = [keep EXCEPT ![w] = <<>>]
  /\ attempt' = [attempt EXCEPT ![w] = 0]
  /\ expect' = [expect EXCEPT ![w] = expected]
  /\ UNCHANGED passed

\* appendEvents takes up its batch: the first chunk, and the ones after it.
TakeUp(w, b, expected) ==
  /\ chunk' = [chunk EXCEPT ![w] = First(b)]
  /\ rest' = [rest EXCEPT ![w] = After(b)]
  /\ keep' = [keep EXCEPT ![w] = <<>>]
  /\ attempt' = [attempt EXCEPT ![w] = 0]
  /\ expect' = [expect EXCEPT ![w] = expected]
  /\ UNCHANGED passed

Goto(w, place) == pc' = [pc EXCEPT ![w] = place]

\* What an execution held is gone when it answers, or dies.
Release(w) ==
  /\ Goto(w, "idle")
  /\ who' = [who EXCEPT ![w] = Owner]
  /\ chunk' = [chunk EXCEPT ![w] = <<>>]
  /\ rest' = [rest EXCEPT ![w] = <<>>]
  /\ keep' = [keep EXCEPT ![w] = <<>>]
  /\ attempt' = [attempt EXCEPT ![w] = 0]
  /\ expect' = [expect EXCEPT ![w] = AnySeq]
  /\ tail' = [tail EXCEPT ![w] = 0]
  /\ row' = [row EXCEPT ![w] = NoRow]
  /\ todo' = [todo EXCEPT ![w] = {}]
  /\ UNCHANGED <<passed, begun>>

\* A route under /api/sessions/<id>: the caller is a member, and the session
\* is not deleted, when the route reads its rows.
Routed(w, op, sub) ==
  /\ Begin(w, op, sub)
  /\ meta.exists /\ ~meta.deleted
  /\ sub \in member
  /\ UNCHANGED <<rows, batch, tail, row, todo>>

-----------------------------------------------------------------------------
(* createSession: the META row, only where there is none; the owner's      *)
(* MEMBER row; then the whole log appended.                                *)

CreateMeta(w) ==
  \E b \in BatchesOf(Owner) :
    /\ Begin(w, "create", Owner)
    /\ ~meta.exists
    /\ b[1] = Made[Owner][1]
    /\ meta' = [NoRow EXCEPT !.exists = TRUE]
    /\ TakeUp(w, b, AnySeq)
    /\ Goto(w, "seat")
    /\ UNCHANGED <<event, seen, member, pointer, tail, row, todo>>

CreateMember(w) ==
  /\ pc[w] = "seat"
  /\ member' = member \cup {Owner}
  /\ Goto(w, "reserve")
  /\ UNCHANGED <<meta, event, seen, pointer, who, batch, tail, row, todo, begun>>

-----------------------------------------------------------------------------
(* appendEvents.  POST /events checks membership, then appends; the bot    *)
(* appends onto the tail of the log it read.                               *)

AppendBegin(w, sub) ==
  \E b \in BatchesOf(sub) :
    /\ Begin(w, "append", sub)
    /\ meta.exists /\ ~meta.deleted
    /\ sub \in member
    /\ TakeUp(w, b, AnySeq)
    /\ Goto(w, "reserve")
    /\ UNCHANGED <<rows, tail, row, todo>>

PressBegin(w, id) ==
  /\ Begin(w, "press", Owner)
  /\ meta.exists
  /\ id \notin seen
  /\ \A v \in Workers : id \notin Elements(chunk[v])
  /\ \E n \in 0..MaxSeq : IsTail(n) /\ TakeUp(w, <<id>>, n)
  /\ Goto(w, "reserve")
  /\ UNCHANGED <<rows, tail, row, todo>>

\* UpdateItem ADD seq :n, on the condition that the counter is where the
\* caller said, where it said; only the first attempt is held to that.
Reserve(w) ==
  /\ pc[w] = "reserve"
  /\ expect[w] \in {AnySeq, meta.seq}
  /\ meta.seq + Len(chunk[w]) <= MaxSeq
  /\ meta' = [meta EXCEPT !.seq = @ + Len(chunk[w])]
  /\ tail' = [tail EXCEPT ![w] = meta.seq + Len(chunk[w])]
  /\ expect' = [expect EXCEPT ![w] = AnySeq]
  /\ Goto(w, "write")
  /\ UNCHANGED <<event, seen, member, pointer, who, chunk, rest, keep, attempt, passed, row, todo, begun>>

\* The condition failed: SeqConflict, and nothing is written.
Refuse(w) ==
  /\ pc[w] = "reserve"
  /\ expect[w] \notin {AnySeq, meta.seq}
  /\ Release(w)
  /\ UNCHANGED rows

\* The loop's next turn: the chunk's second attempt at `again`, or the next
\* chunk, or the pointers when the batch is through; what failed both attempts
\* is passed over.
Onward(w, again) ==
  /\ keep' = [keep EXCEPT ![w] = <<>>]
  /\ IF again # <<>> /\ attempt[w] = 0
       THEN /\ chunk' = [chunk EXCEPT ![w] = again]
            /\ attempt' = [attempt EXCEPT ![w] = 1]
            /\ Goto(w, "reserve")
            /\ UNCHANGED <<rest, passed>>
       ELSE /\ passed' = passed \cup Elements(again)
            /\ chunk' = [chunk EXCEPT ![w] = First(rest[w])]
            /\ rest' = [rest EXCEPT ![w] = After(rest[w])]
            /\ attempt' = [attempt EXCEPT ![w] = 0]
            /\ Goto(w, IF rest[w] = <<>> THEN "touch" ELSE "reserve")

Base(w)     == tail[w] - Len(chunk[w])
Reserved(w) == {s \in Numbers : Base(w) < s /\ s <= tail[w]}

\* A faulty Write: the SEEN rows are put whether or not they are there.
Write_Unconditional(w) ==
  /\ pc[w] = "write"
  /\ seen' = seen \cup Elements(chunk[w])
  /\ event' = [s \in Numbers |-> IF s \in Reserved(w) THEN chunk[w][s - Base(w)] ELSE event[s]]
  /\ Onward(w, <<>>)
  /\ UNCHANGED <<meta, member, pointer, who, expect, tail, row, todo, begun>>

\* TransactWrite: a SEEN row for each id that has none, and each event under
\* its number, whatever that number held; all of it or none.
Write(w) ==
  /\ pc[w] = "write"
  /\ Elements(chunk[w]) \cap seen = {}
  /\ seen' = seen \cup Elements(chunk[w])
  /\ event' = [s \in Numbers |-> IF s \in Reserved(w) THEN chunk[w][s - Base(w)] ELSE event[s]]
  /\ Onward(w, <<>>)
  /\ UNCHANGED <<meta, member, pointer, who, expect, tail, row, todo, begun>>

\* A faulty Cancel: the numbers of the failed attempt are given back.
Cancel_GiveBack(w) ==
  /\ pc[w] = "write"
  /\ \/ Elements(chunk[w]) \cap seen # {}
     \/ "conflict" \in Ops /\ Clashes(w)
  /\ meta' = [meta EXCEPT !.seq = @ - Len(chunk[w])]
  /\ Goto(w, "check")
  /\ UNCHANGED <<event, seen, member, pointer, who, batch, tail, row, todo, begun>>

\* The transaction is cancelled: an id has its SEEN row already, or another
\* transaction on the same row is under way.
Cancel(w) ==
  /\ pc[w] = "write"
  /\ \/ Elements(chunk[w]) \cap seen # {}
     \/ "conflict" \in Ops /\ Clashes(w)
  /\ Goto(w, "check")
  /\ UNCHANGED <<rows, who, batch, tail, row, todo, begun>>

\* A faulty Check: what was not a repeat is not tried again.
Check_NoSecond(w) ==
  /\ pc[w] = "check"
  /\ Onward(w, <<>>)
  /\ UNCHANGED <<rows, who, expect, tail, row, todo, begun>>

\* Which were repeats?  One SEEN row read; the numbers reserved for the
\* failed attempt are not given back.
Check(w) ==
  /\ pc[w] = "check"
  /\ LET kept == IF chunk[w][1] \in seen THEN keep[w] ELSE Append(keep[w], chunk[w][1])
     IN  IF Len(chunk[w]) > 1
           THEN /\ keep' = [keep EXCEPT ![w] = kept]
                /\ chunk' = [chunk EXCEPT ![w] = Tail(chunk[w])]
                /\ UNCHANGED <<pc, rest, attempt, passed>>
           ELSE Onward(w, kept)
  /\ UNCHANGED <<rows, who, expect, tail, row, todo, begun>>

-----------------------------------------------------------------------------
(* touchPointers: read the members, then write each one's pointer row with *)
(* the number the caller passed.                                           *)

TouchRead(w) ==
  /\ pc[w] = "touch"
  /\ IF member = {}
       THEN Release(w)
       ELSE /\ todo' = [todo EXCEPT ![w] = member]
            /\ Goto(w, "point")
            /\ UNCHANGED <<who, batch, tail, row, begun>>
  /\ UNCHANGED rows

\* A request leaves `m` behind; it ends with the last one.
StrikeOff(w, m) ==
  IF todo[w] = {m}
    THEN Release(w)
    ELSE /\ todo' = [todo EXCEPT ![w] = @ \ {m}]
         /\ UNCHANGED <<pc, who, batch, tail, row, begun>>

Point(w, m) ==
  /\ pc[w] = "point"
  /\ m \in todo[w]
  /\ pointer' = [pointer EXCEPT ![m] = [state |-> "live", seq |-> tail[w]]]
  /\ StrikeOff(w, m)
  /\ UNCHANGED <<meta, event, seen, member>>

-----------------------------------------------------------------------------
(* updateSession: read META, put the whole row back changed, then the      *)
(* pointers, with the counter that was read.  A patch ends the run or      *)
(* opens or closes its live link.                                          *)

PatchBegin(w, sub) == Routed(w, "patch", sub) /\ Goto(w, "get")

Patched(m) ==
  {[m EXCEPT !.ended = TRUE], [m EXCEPT !.shared = TRUE], [m EXCEPT !.shared = FALSE]}

PatchGet(w) ==
  /\ pc[w] = "get"
  /\ \E m \in Patched(meta) : row' = [row EXCEPT ![w] = m]
  /\ tail' = [tail EXCEPT ![w] = meta.seq]
  /\ Goto(w, "put")
  /\ UNCHANGED <<rows, who, batch, todo, begun>>

PatchPut(w) ==
  /\ pc[w] = "put"
  /\ meta' = row[w]
  /\ Goto(w, "touch")
  /\ UNCHANGED <<event, seen, member, pointer, who, batch, tail, row, todo, begun>>

-----------------------------------------------------------------------------
(* deleteSession: the owner ends it for everyone, a member leaves.  The    *)
(* route reads the rows, and the store reads them again: what it does next *)
(* goes by the second reading.                                             *)

DeleteBegin(w) == Routed(w, "delete", Owner) /\ Goto(w, "erase")

DeleteRead(w) ==
  /\ pc[w] = "erase"
  /\ todo' = [todo EXCEPT ![w] = member]
  /\ tail' = [tail EXCEPT ![w] = meta.seq]
  /\ Goto(w, "bury")
  /\ UNCHANGED <<rows, who, batch, row, begun>>

\* The row is read once more on the way into the put that closes it.
DeleteGet(w) ==
  /\ pc[w] = "bury"
  /\ row' = [row EXCEPT ![w] = [meta EXCEPT !.deleted = TRUE]]
  /\ Goto(w, "close")
  /\ UNCHANGED <<rows, who, batch, tail, todo, begun>>

DeletePut(w) ==
  /\ pc[w] = "close"
  /\ meta' = row[w]
  /\ Goto(w, "entomb")
  /\ UNCHANGED <<event, seen, member, pointer, who, batch, tail, row, todo, begun>>

Entomb(w, m) ==
  /\ pc[w] = "entomb"
  /\ m \in todo[w]
  /\ pointer' = [pointer EXCEPT ![m] = [state |-> "deleted", seq |-> tail[w]]]
  /\ StrikeOff(w, m)
  /\ UNCHANGED <<meta, event, seen, member>>

LeaveBegin(w, sub) == sub # Owner /\ Routed(w, "leave", sub) /\ Goto(w, "quit")

LeaveRead(w) ==
  /\ pc[w] = "quit"
  /\ IF who[w] \in member
       THEN Goto(w, "leave") /\ UNCHANGED <<who, batch, tail, row, todo, begun>>
       ELSE Release(w)
  /\ UNCHANGED rows

\* BatchWrite of two deletes: one call, but no transaction, so the rows go
\* one by one in either order.
ThenLeave(w, other) ==
  IF pc[w] = "leave"
    THEN /\ Goto(w, other)
         /\ UNCHANGED <<who, batch, tail, row, todo, begun>>
    ELSE Release(w)

LeaveRow(w) ==
  /\ pc[w] \in {"leave", "leaveRow"}
  /\ member' = member \ {who[w]}
  /\ ThenLeave(w, "leavePointer")
  /\ UNCHANGED <<meta, event, seen, pointer>>

LeavePointer(w) ==
  /\ pc[w] \in {"leave", "leavePointer"}
  /\ pointer' = [pointer EXCEPT ![who[w]] = [state |-> "none", seq |-> 0]]
  /\ ThenLeave(w, "leaveRow")
  /\ UNCHANGED <<meta, event, seen, member>>

-----------------------------------------------------------------------------
(* joinAs and removeMember.                                                *)

JoinBegin(w, sub) ==
  /\ Begin(w, "join", sub)
  /\ meta.exists /\ ~meta.deleted
  /\ sub \notin member
  /\ tail' = [tail EXCEPT ![w] = meta.seq]
  /\ Goto(w, "join")
  /\ UNCHANGED <<rows, batch, row, todo>>

JoinPut(w) ==
  /\ pc[w] = "join"
  /\ member' = member \cup {who[w]}
  /\ Goto(w, "touch")
  /\ UNCHANGED <<meta, event, seen, pointer, who, batch, tail, row, todo, begun>>

\* The owner removes `sub`: the route's reading, then the store's own.
RemoveBegin(w, sub) ==
  /\ Begin(w, "remove", sub)
  /\ sub # Owner
  /\ meta.exists /\ ~meta.deleted
  /\ Owner \in member
  /\ Goto(w, "remove")
  /\ UNCHANGED <<rows, batch, tail, row, todo>>

RemoveRead(w) ==
  /\ pc[w] = "remove"
  /\ IF who[w] \in member
       THEN /\ tail' = [tail EXCEPT ![w] = meta.seq]
            /\ Goto(w, "unseat")
            /\ UNCHANGED <<who, batch, row, todo, begun>>
       ELSE Release(w)
  /\ UNCHANGED rows

RemoveRow(w) ==
  /\ pc[w] = "unseat"
  /\ member' = member \ {who[w]}
  /\ Goto(w, "drop")
  /\ UNCHANGED <<meta, event, seen, pointer, who, batch, tail, row, todo, begun>>

RemovePointer(w) ==
  /\ pc[w] = "drop"
  /\ pointer' = [pointer EXCEPT ![who[w]] = [state |-> "deleted", seq |-> tail[w]]]
  /\ Release(w)
  /\ UNCHANGED <<meta, event, seen, member>>

-----------------------------------------------------------------------------
(* An execution times out, or a call to the table fails: the request stops *)
(* where it stands and what it wrote stays.                                *)

Crash(w) ==
  /\ "crash" \in Ops
  /\ ~Idle(w)
  /\ Release(w)
  /\ UNCHANGED rows

-----------------------------------------------------------------------------
Init ==
  /\ meta = NoRow
  /\ event = [s \in Numbers |-> NoEvent]
  /\ seen = {}
  /\ member = {}
  /\ pointer = [m \in Subs |-> [state |-> "none", seq |-> 0]]
  /\ pc = [w \in Workers |-> "idle"]
  /\ who = [w \in Workers |-> Owner]
  /\ chunk = [w \in Workers |-> <<>>]
  /\ rest = [w \in Workers |-> <<>>]
  /\ keep = [w \in Workers |-> <<>>]
  /\ attempt = [w \in Workers |-> 0]
  /\ passed = {}
  /\ expect = [w \in Workers |-> AnySeq]
  /\ tail = [w \in Workers |-> 0]
  /\ row = [w \in Workers |-> NoRow]
  /\ todo = [w \in Workers |-> {}]
  /\ begun = 0

\* What an execution does once its request is begun: the code's own steps.
Step(w) ==
  \/ CreateMember(w)
  \/ Reserve(w) \/ Refuse(w) \/ Write(w) \/ Cancel(w) \/ Check(w)
  \/ TouchRead(w) \/ \E m \in Subs : Point(w, m)
  \/ PatchGet(w) \/ PatchPut(w)
  \/ DeleteRead(w) \/ DeleteGet(w) \/ DeletePut(w) \/ \E m \in Subs : Entomb(w, m)
  \/ LeaveRead(w) \/ LeaveRow(w) \/ LeavePointer(w)
  \/ JoinPut(w) \/ RemoveRead(w) \/ RemoveRow(w) \/ RemovePointer(w)

Request(w) ==
  \/ CreateMeta(w)
  \/ \E sub \in Subs : AppendBegin(w, sub)
  \/ \E id \in PressIds : PressBegin(w, id)
  \/ \E sub \in Subs : PatchBegin(w, sub)
  \/ DeleteBegin(w)
  \/ \E sub \in Subs : LeaveBegin(w, sub)
  \/ \E sub \in Subs : JoinBegin(w, sub)
  \/ \E sub \in Subs : RemoveBegin(w, sub)

Next == \E w \in Workers : Request(w) \/ Step(w) \/ Crash(w)

Spec == Init /\ [][Next]_vars

\* A running execution is scheduled until it answers.
FairSpec == Spec /\ \A w \in Workers : WF_vars(Step(w))
-----------------------------------------------------------------------------
(* What the requests hold between their steps: the parts of the inductive  *)
(* invariant the proofs of SessionLogProofs rest on.                       *)

Injective(q) == \A i, j \in 1..Len(q) : q[i] = q[j] => i = j

\* Every stored event has its SEEN row.
StoredAreSeen == \A s \in Numbers : event[s] # NoEvent => event[s] \in seen

\* No request holds an event twice, a chunk is never empty while it is worked
\* on, and never longer than a transaction takes.
ChunkSound(w) ==
  /\ Injective(chunk[w]) /\ Injective(rest[w]) /\ Injective(keep[w])
  /\ Elements(keep[w]) \cap Elements(chunk[w]) = {}
  /\ pc[w] \in {"seat", "reserve", "write", "check"} => chunk[w] # <<>>
  /\ Len(keep[w]) + Len(chunk[w]) <= Chunk

ChunksSound == \A w \in Workers : ChunkSound(w)

\* Nothing is numbered past the counter, and the numbers a request reserved
\* are below it, free, and no other's, until it writes.
Reservations ==
  /\ \A s \in Numbers : event[s] # NoEvent => s <= meta.seq
  /\ \A w \in Workers : Writing(w) =>
       /\ Len(chunk[w]) <= tail[w] /\ tail[w] <= meta.seq
       /\ \A s \in Reserved(w) : event[s] = NoEvent
       /\ \A v \in Workers \ {w} : Writing(v) => Reserved(v) \cap Reserved(w) = {}

\* Only a session that exists is appended to, and one that does not has
\* handed out nothing.
OnlyWhatExists ==
  /\ ~meta.exists => meta = NoRow
  /\ \A w \in Workers : pc[w] \in {"seat", "reserve", "write", "check"} => meta.exists

\* What a device made before `id`.
Ahead(id) ==
  {e \in Ids : \E sub \in Subs : \E i, j \in 1..Len(Made[sub]) :
                i < j /\ Made[sub][i] = e /\ Made[sub][j] = id}

\* Whatever was made ahead of one of q's events is in `got`, or comes before
\* it in q.
Backs(got, q) ==
  \A k \in 1..Len(q) : Ahead(q[k]) \subseteq got \cup {q[l] : l \in 1..(k - 1)}

Had == passed \cup seen

\* The events under the numbers up to n.
Stored(n) == {event[s] : s \in {t \in Numbers : t <= n /\ event[t] # NoEvent}}

\* Whatever was made ahead of an event that a request has in hand was numbered,
\* or passed over, or is in hand ahead of it; and, once the request has its
\* numbers, below them.
InTurn(w) ==
  /\ pc[w] # "check" => keep[w] = <<>>
  /\ Backs(Had, keep[w])
  /\ Backs(Had \cup Elements(keep[w]), chunk[w])
  /\ Backs(Had \cup Elements(keep[w]) \cup Elements(chunk[w]), rest[w])
  /\ Writing(w) => Backs(passed \cup Stored(Base(w)), chunk[w])

TurnsKept == \A w \in Workers : InTurn(w)

\* Every event with a SEEN row is in the log.
SeenAreStored == \A id \in seen : \E s \in Numbers : event[s] = id

-----------------------------------------------------------------------------
(* Properties.                                                             *)

\* An event has one number at most: "a retry after a lost reply appends
\* nothing twice" (store.ts, appendEvents), whatever else is going on.
NumberedOnce ==
  \A s, t \in Numbers : event[s] = event[t] /\ event[s] # NoEvent => s = t

\* The log is append-only: what is stored under a number stays there.  The
\* numbers an append was handed are its own until it writes.
AppendOnly == [][\A s \in Numbers : event[s] # NoEvent => event'[s] = event[s]]_vars

\* What a device makes is numbered in the order it made it, with nothing left
\* out: cut into chunks, resent, or resent while the first send still runs.
\* Only an event that failed both of a chunk's attempts is missing, or late.
OutboxInOrder ==
  \A t \in Numbers : event[t] # NoEvent =>
    Ahead(event[t]) \subseteq passed \cup Stored(t - 1)

\* The abstract ledger: each id entered once, under a number nobody holds.
L == INSTANCE Ledger WITH ledger <- event, Keys <- Ids, MaxEntry <- Chunk
LedgerSpec == L!Spec

InHand(w) == Elements(keep[w]) \cup Elements(chunk[w]) \cup Elements(rest[w])

\* Another request has some of the same events in hand.
Contended(w) == \E v \in Workers \ {w} : InHand(v) \cap InHand(w) # {}

\* An append that runs to its end leaves every event it was sent in the log,
\* even where the transaction finds some of them there already: "ask which
\* and go again with the rest" (store.ts, appendEvents).  Where another
\* request carries some of them too, both attempts may be cancelled, and what
\* is left waits in the device's outbox.
AppendLands ==
  \A w \in Workers, id \in Ids :
    pc[w] = "reserve" /\ attempt[w] = 0 /\ expect[w] = AnySeq /\ id \in Elements(chunk[w])
      ~> id \in seen \/ Contended(w)
=============================================================================
