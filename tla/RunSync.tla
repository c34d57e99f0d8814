------------------------------ MODULE RunSync ------------------------------
(***************************************************************************)
(* One shared run on several devices: what the page plays, what IndexedDB  *)
(* holds, and the sync pass of engine.ts that carries the one to the       *)
(* server and the others' moves back.  A pass awaits the network and the   *)
(* store, so the player's own writes (useRun.ts) fall between its steps.   *)
(*                                                                         *)
(* A log is the set of its numbered events, which are always in the order  *)
(* of their numbers, and the sequence of its pending ones.  The server is  *)
(* the one SessionLog models, an append being a reservation and a landing. *)
(***************************************************************************)
EXTENDS Integers, Sequences, FiniteSets

CONSTANTS
  Ids,        \* ids of events
  Devices,
  Starter,    \* the device the run is started on
  Made,       \* [Devices -> Seq(Ids)]: the moves made on each device, in order
  Overlap,    \* may an append be handled before an earlier one has landed?
  StartFails, \* may the call that starts the run fail or lose its answer?
  Exclusive,  \* do a device's moves, its passes and its closing keep out of each other's way?
  MaxSeq,     \* bound: numbers the server can hand out
  MaxFaults,  \* bound: requests that fail or whose answer is lost, pages closed
  NoEvent     \* a number no event is stored under

ASSUME RunAssumption ==
  /\ Starter \in Devices
  /\ Made \in [Devices -> Seq(Ids)]
  /\ \A d, e \in Devices : \A i \in 1..Len(Made[d]), j \in 1..Len(Made[e]) :
       Made[d][i] = Made[e][j] => d = e /\ i = j
  /\ Overlap \in BOOLEAN /\ StartFails \in BOOLEAN /\ Exclusive \in BOOLEAN
  /\ MaxSeq \in Nat /\ MaxFaults \in Nat
  /\ NoEvent \notin Ids

VARIABLES
  event,    \* the server: the id stored under each number
  counter,  \*   the numbers handed out
  shown,    \*   the number the manifest lists; 0, and the run is not listed
  flying,   \*   appends that have their numbers and are not yet in the log
  disk,     \* each device's stored record of the run: its log, the counter it has
            \*   caught up with, and what it was told about the run
  page,     \* the log the page is playing
  writes,   \* the page's writes under way: the log to write, the record it read
  place,    \* where the device's pass stands
  manifest, \* what the manifest listed when the pass began
  local,    \* the record the pass read
  incoming, \* the numbered events the pass was sent
  tail,     \* the pass's serverTail
  about,    \* what the pass was told of the run besides its log
  news,     \* the page's answers to "pulled" under way: the record each read
  moves,    \* how many of its moves each device has made
  raced,    \* history: has the device put its record's log or its page's from a reading
            \*   that no longer held, or been closed on a write under way?
  faults

server == <<event, counter, shown, flying>>
device == <<disk, page, writes, news, moves, raced>>
pass   == <<place, manifest, local, incoming, tail, about>>
vars   == <<event, counter, shown, flying, disk, page, writes, place, manifest,
            local, incoming, tail, about, news, moves, raced, faults>>

Numbers == 1..MaxSeq
Log     == [numbered : SUBSET (Ids \X Numbers), pending : Seq(Ids)]
About   == {"role", "members"}
Record  == [here : BOOLEAN, about : SUBSET About, seq : 0..MaxSeq, log : Log]
NoLog   == [numbered |-> {}, pending |-> <<>>]
NoRun   == [here |-> FALSE, about |-> {}, seq |-> 0, log |-> NoLog]
Request == [by : Devices, kind : {"create", "append", "rest", "lost"}, base : 0..MaxSeq, ids : Seq(Ids)]
Places  == {"idle", "list", "create", "taken", "append", "rest", "wait", "fetch", "take", "keep", "save"}

TypeOK ==
  /\ event \in [Numbers -> Ids \cup {NoEvent}]
  /\ counter \in 0..MaxSeq /\ shown \in 0..MaxSeq
  /\ \A f \in flying : f \in Request
  /\ disk \in [Devices -> Record] /\ local \in [Devices -> Record] /\ page \in [Devices -> Log]
  /\ writes \in [Devices -> Seq([log : Log, read : BOOLEAN, stored : Record])]
  /\ news \in [Devices -> Seq([read : BOOLEAN, saved : Record])]
  /\ about \in [Devices -> SUBSET About] /\ incoming \in [Devices -> SUBSET (Ids \X Numbers)]
  /\ place \in [Devices -> Places]
  /\ manifest \in [Devices -> 0..MaxSeq] /\ tail \in [Devices -> 0..MaxSeq]
  /\ moves \in [Devices -> Nat] /\ raced \in [Devices -> BOOLEAN] /\ faults \in 0..MaxFaults

-----------------------------------------------------------------------------
(* log.ts.                                                                 *)

Elements(q)  == {q[i] : i \in 1..Len(q)}
NumberedIds(set) == {x[1] : x \in set}
IdsOf(log)   == NumberedIds(log.numbered) \cup Elements(log.pending)
Highest(set) == IF set = {} THEN 0 ELSE CHOOSE n \in set : \A m \in set : m <= n
Larger(m, n) == IF m < n THEN n ELSE m

tailSeq(log) == Highest({x[2] : x \in log.numbered})

\* The elements of q that are not among ids, in their order.
Without(q, ids) ==
  LET kept[i \in 0..Len(q)] ==
        IF i = 0 THEN <<>> ELSE IF q[i] \in ids THEN kept[i - 1] ELSE Append(kept[i - 1], q[i])
  IN  kept[Len(q)]

\* A faulty merge: what the server has numbered stays in the outbox too.
merge_KeepsPending(log, from) ==
  [numbered |-> {x \in log.numbered : x[1] \notin NumberedIds(from)} \cup from,
   pending |-> log.pending]

\* What the server sent wins over the copy here, and leaves the outbox.
merge(log, from) ==
  [numbered |-> {x \in log.numbered : x[1] \notin NumberedIds(from)} \cup from,
   pending |-> Without(log.pending, NumberedIds(log.numbered) \cup NumberedIds(from))]

\* A faulty reconcile: what is stored, pending or not, is left out.
reconcile_KnowsAll(stored, mine) ==
  [numbered |-> stored.numbered, pending |-> Without(mine.pending, IdsOf(stored))]

\* A faulty reconcile: the page's copy is written as it is.
reconcile_Mine(stored, mine) == mine

\* The stored numbered part stands; the page's pending events follow it.
reconcile(stored, mine) ==
  [numbered |-> stored.numbered,
   pending |-> Without(mine.pending, NumberedIds(stored.numbered))]

\* In a log, x comes before y.
Before(log, x, y) ==
  \/ \E p, q \in log.numbered : p[1] = x /\ q[1] = y /\ p[2] < q[2]
  \/ x \in NumberedIds(log.numbered) /\ y \in Elements(log.pending)
  \/ \E i, j \in 1..Len(log.pending) : log.pending[i] = x /\ log.pending[j] = y /\ i < j

sameLog(a, b) ==
  /\ IdsOf(a) = IdsOf(b)
  /\ \A x, y \in IdsOf(a) : Before(a, x, y) <=> Before(b, x, y)

-----------------------------------------------------------------------------
(* The player: useRun.ts.                                                  *)

\* Where late: what is put was read before the store, or the page, became another.
Races(d, late) == raced' = [raced EXCEPT ![d] = @ \/ late]

Undisturbed(d) == place[d] = "idle" /\ writes[d] = <<>> /\ news[d] = <<>>

\* start and commit: the move goes on the page's log, and `persist` begins.
Move(d) ==
  /\ moves[d] < Len(Made[d])
  /\ IdsOf(page[d]) # {} \/ (d = Starter /\ moves[d] = 0)
  /\ Exclusive => Undisturbed(d)
  /\ LET log == [page[d] EXCEPT !.pending = Append(@, Made[d][moves[d] + 1])]
     IN  /\ page' = [page EXCEPT ![d] = log]
         /\ writes' = [writes EXCEPT ![d] = Append(@, [log |-> log, read |-> FALSE, stored |-> NoRun])]
  /\ moves' = [moves EXCEPT ![d] = @ + 1]
  /\ UNCHANGED <<server, disk, news, raced, pass, faults>>

\* persist: loadRun.  Writes take their turns at the store.
PersistLoad(d) ==
  \E i \in 1..Len(writes[d]) :
    /\ ~writes[d][i].read /\ \A j \in 1..(i - 1) : writes[d][j].read
    /\ writes' = [writes EXCEPT ![d][i].read = TRUE, ![d][i].stored = disk[d]]
    /\ UNCHANGED <<server, disk, page, news, moves, raced, pass, faults>>

\* persist: saveRun, over whatever the record has become since.
PersistSave(d) ==
  /\ writes[d] # <<>> /\ Head(writes[d]).read
  /\ LET stored == Head(writes[d]).stored
         mine   == Head(writes[d]).log
     IN  /\ disk' = [disk EXCEPT ![d] =
              [stored EXCEPT !.here = TRUE,
                             !.log = IF stored.here THEN reconcile(stored.log, mine) ELSE mine]]
         /\ Races(d, stored.log.numbered # disk[d].log.numbered)
  /\ writes' = [writes EXCEPT ![d] = Tail(@)]
  /\ UNCHANGED <<server, page, news, moves, pass, faults>>

\* The page hears of a pull and reads the record...
ReloadRead(d) ==
  \E i \in 1..Len(news[d]) :
    /\ ~news[d][i].read /\ \A j \in 1..(i - 1) : news[d][j].read
    /\ news' = [news EXCEPT ![d][i] = [read |-> TRUE, saved |-> disk[d]]]
    /\ UNCHANGED <<server, disk, page, writes, moves, raced, pass, faults>>

\* ... and plays it, unless it holds the same events in the same order.
ReloadApply(d) ==
  /\ news[d] # <<>> /\ Head(news[d]).read
  /\ LET saved == Head(news[d]).saved.log
     IN  IF sameLog(saved, page[d])
           THEN UNCHANGED <<page, raced>>
           ELSE /\ page' = [page EXCEPT ![d] = saved]
                /\ Races(d, saved # disk[d].log \/ writes[d] # <<>>)
  /\ news' = [news EXCEPT ![d] = Tail(@)]
  /\ UNCHANGED <<server, disk, writes, moves, pass, faults>>

-----------------------------------------------------------------------------
(* The server.                                                             *)

Stored  == {event[n] : n \in Numbers} \ {NoEvent}
After(n) == {<<event[m], m>> : m \in {k \in Numbers : k > n /\ event[k] # NoEvent}}

\* A request that appends takes its numbers.
Reserve(d, kind, ids) ==
  /\ Overlap \/ flying = {}
  /\ counter + Len(ids) <= MaxSeq
  /\ counter' = counter + Len(ids)
  /\ flying' = flying \cup {[by |-> d, kind |-> kind, base |-> counter, ids |-> ids]}
  /\ UNCHANGED <<event, shown>>

Numbering(ids, base) == {<<ids[i], base + i>> : i \in 1..Len(ids)}

-----------------------------------------------------------------------------
(* The pass.                                                               *)

Go(d, where) == place' = [place EXCEPT ![d] = where]

\* The pass is over and what it held is gone.
Over(d) ==
  /\ Go(d, "idle")
  /\ manifest' = [manifest EXCEPT ![d] = 0]
  /\ local' = [local EXCEPT ![d] = NoRun]
  /\ incoming' = [incoming EXCEPT ![d] = {}]
  /\ tail' = [tail EXCEPT ![d] = 0]
  /\ about' = [about EXCEPT ![d] = {}]

Told(d, what) == about' = [about EXCEPT ![d] = @ \cup what]
Tell(d) == news' = [news EXCEPT ![d] = Append(@, [read |-> FALSE, saved |-> NoRun])]

\* manifest().
Manifest(d) ==
  /\ place[d] = "idle"
  /\ Exclusive => Undisturbed(d)
  /\ manifest' = [manifest EXCEPT ![d] = shown]
  /\ Go(d, "list")
  /\ UNCHANGED <<server, device, local, incoming, tail, about, faults>>

\* A faulty NeedsFetch: an append's answer is taken for all there is.
NeedsFetch_Never(rec, serverTail, sent) ==
  sent = 0 /\ serverTail > Larger(tailSeq(rec.log), rec.seq)

\* Anything numbered past what this device has caught up to and not among
\* what just came back is somebody else's.
NeedsFetch(rec, serverTail, sent) == serverTail > Larger(tailSeq(rec.log), rec.seq) + sent

\* listRuns(), and what the pass will do with the record it holds.
ReadRuns(d) ==
  /\ place[d] = "list"
  /\ IF ~disk[d].here /\ manifest[d] = 0
       THEN Over(d)
       ELSE /\ local' = [local EXCEPT ![d] = disk[d]]
            /\ tail' = [tail EXCEPT ![d] = manifest[d]]
            /\ about' = [about EXCEPT ![d] = IF manifest[d] = 0 THEN {} ELSE {"role"}]
            /\ Go(d, IF ~disk[d].here THEN "take"
                     ELSE IF manifest[d] = 0 THEN "create"
                     ELSE IF disk[d].log.pending # <<>> THEN "append"
                     ELSE IF NeedsFetch(disk[d], manifest[d], 0) THEN "fetch"
                     ELSE "save")
            /\ UNCHANGED <<manifest, incoming>>
  /\ UNCHANGED <<server, device, faults>>

\* POST /sessions with the whole log; taken already, and its log is fetched.
Create(d) ==
  /\ place[d] = "create"
  /\ IF counter = 0
       THEN Reserve(d, "create", local[d].log.pending) /\ Go(d, "wait")
       ELSE Go(d, "taken") /\ UNCHANGED server
  /\ UNCHANGED <<device, manifest, local, incoming, tail, about, faults>>

FetchTaken(d) ==
  /\ place[d] = "taken"
  /\ incoming' = [incoming EXCEPT ![d] = After(0)]
  /\ Told(d, {"members"})
  /\ Go(d, IF merge(local[d].log, After(0)).pending = <<>> THEN "save" ELSE "rest")
  /\ UNCHANGED <<server, device, manifest, local, tail, faults>>

\* POST /events with the outbox.
Send(d) ==
  /\ \/ place[d] = "append" /\ Reserve(d, "append", local[d].log.pending)
     \/ place[d] = "rest" /\ Reserve(d, "rest", merge(local[d].log, incoming[d]).pending)
  /\ Go(d, "wait")
  /\ UNCHANGED <<device, manifest, local, incoming, tail, about, faults>>

\* The append lands: all of it under its numbers, or, where some of it is in
\* the log already, the rest under numbers taken afresh.  The pointers move.
\* The device, if it still waits, has its answer.
Land(f) ==
  LET kept   == Without(f.ids, Stored)
      again  == kept # f.ids
      base   == IF again THEN counter ELSE f.base
      last   == IF again /\ kept = <<>> THEN f.base + Len(f.ids) ELSE base + Len(kept)
      sent   == Numbering(kept, base)
  IN  /\ base + Len(kept) <= MaxSeq
      /\ event' = [n \in Numbers |-> IF \E x \in sent : x[2] = n THEN kept[n - base] ELSE event[n]]
      /\ counter' = IF again THEN counter + Len(kept) ELSE counter
      /\ shown' = last
      /\ flying' = flying \ {f}
      /\ IF f.kind # "lost"
           THEN /\ incoming' = [incoming EXCEPT ![f.by] = @ \cup sent]
                /\ Told(f.by, IF f.kind = "create" THEN {"role"} ELSE {})
                /\ tail' = [tail EXCEPT ![f.by] = IF f.kind = "append" THEN Larger(@, last) ELSE @]
                /\ Go(f.by, IF f.kind = "append" /\ NeedsFetch(local[f.by], tail'[f.by], Len(kept))
                              THEN "fetch" ELSE "save")
           ELSE UNCHANGED <<incoming, tail, about, place>>
      /\ UNCHANGED <<device, manifest, local, faults>>

\* GET /sessions/<id>?after=<where this device's log ends>.
Fetch(d) ==
  /\ place[d] = "fetch"
  /\ incoming' = [incoming EXCEPT ![d] = @ \cup After(tailSeq(local[d].log))]
  /\ Told(d, {"members"})
  /\ Go(d, "save")
  /\ UNCHANGED <<server, device, manifest, local, tail, faults>>

\* The record the pass read, with the merged log, is written over whatever is
\* there; the page is told if any of it came from elsewhere.
Save(d) ==
  /\ place[d] = "save"
  /\ LET old    == local[d]
         merged == merge(old.log, incoming[d])
         caught == Larger(tailSeq(merged), tail[d])
         new    == [here |-> TRUE, about |-> old.about \cup about[d], seq |-> caught, log |-> merged]
         changed == \/ new.about # old.about
                    \/ Cardinality(IdsOf(merged)) # Cardinality(IdsOf(old.log))
                    \/ tailSeq(merged) # tailSeq(old.log)
                    \/ caught # old.seq
         foreign == \E x \in incoming[d] :
                      x[2] > tailSeq(old.log) /\ x[1] \notin Elements(old.log.pending)
     IN  IF changed
           THEN /\ disk' = [disk EXCEPT ![d] = new]
                /\ Races(d, old.log # disk[d].log)
                /\ IF foreign \/ new.about # old.about THEN Tell(d) ELSE UNCHANGED news
           ELSE UNCHANGED <<disk, news, raced>>
  /\ Over(d)
  /\ UNCHANGED <<server, page, writes, moves, faults>>

\* A run the device does not have is taken whole.
Take(d) ==
  /\ place[d] = "take"
  /\ incoming' = [incoming EXCEPT ![d] = After(0)]
  /\ Told(d, {"members"})
  /\ Go(d, "keep")
  /\ UNCHANGED <<server, device, manifest, local, tail, faults>>

Keep(d) ==
  /\ place[d] = "keep"
  /\ LET log == [numbered |-> incoming[d], pending |-> <<>>]
     IN  disk' = [disk EXCEPT ![d] = [here |-> TRUE, about |-> about[d], seq |-> tailSeq(log), log |-> log]]
  /\ Races(d, disk[d].here)
  /\ Tell(d)
  /\ Over(d)
  /\ UNCHANGED <<server, page, writes, moves, faults>>

-----------------------------------------------------------------------------
(* Faults.                                                                 *)

\* Nobody waits any longer for what the device has in flight.
Unheard(d) == flying' = {IF f.by = d THEN [f EXCEPT !.kind = "lost"] ELSE f : f \in flying}

Spared(f) == f.kind = "create" /\ ~StartFails

\* A call fails, or its answer is lost: the pass is over, and writes nothing.
Fail(d) ==
  /\ faults < MaxFaults
  /\ place[d] \in Places \ {"idle", "save", "keep"}
  /\ faults' = faults + 1
  /\ \A f \in flying : f.by = d => ~Spared(f)
  /\ Unheard(d)
  /\ Over(d)
  /\ UNCHANGED <<event, counter, shown, device>>

\* The execution dies with its numbers taken and nothing written.
Die(f) ==
  /\ faults < MaxFaults
  /\ ~Spared(f)
  /\ faults' = faults + 1
  /\ flying' = flying \ {f}
  /\ IF f.kind = "lost" THEN UNCHANGED pass ELSE Over(f.by)
  /\ UNCHANGED <<event, counter, shown, device>>

\* The page is closed and opened again on what is stored.
Close(d) ==
  /\ faults < MaxFaults
  /\ Exclusive => writes[d] = <<>>
  /\ faults' = faults + 1
  /\ page' = [page EXCEPT ![d] = disk[d].log]
  /\ writes' = [writes EXCEPT ![d] = <<>>]
  /\ Races(d, writes[d] # <<>>)
  /\ news' = [news EXCEPT ![d] = <<>>]
  /\ \A f \in flying : f.by = d => ~Spared(f)
  /\ Unheard(d)
  /\ Over(d)
  /\ UNCHANGED <<event, counter, shown, disk, moves>>

-----------------------------------------------------------------------------
Init ==
  /\ event = [n \in Numbers |-> NoEvent]
  /\ counter = 0 /\ shown = 0 /\ flying = {}
  /\ disk = [d \in Devices |-> NoRun]
  /\ page = [d \in Devices |-> NoLog]
  /\ writes = [d \in Devices |-> <<>>]
  /\ place = [d \in Devices |-> "idle"]
  /\ manifest = [d \in Devices |-> 0]
  /\ local = [d \in Devices |-> NoRun]
  /\ incoming = [d \in Devices |-> {}]
  /\ tail = [d \in Devices |-> 0]
  /\ about = [d \in Devices |-> {}]
  /\ news = [d \in Devices |-> <<>>]
  /\ moves = [d \in Devices |-> 0]
  /\ raced = [d \in Devices |-> FALSE]
  /\ faults = 0

PageStep(d) == PersistLoad(d) \/ PersistSave(d) \/ ReloadRead(d) \/ ReloadApply(d)

PassStep(d) ==
  \/ ReadRuns(d) \/ Create(d) \/ FetchTaken(d) \/ Send(d) \/ Fetch(d) \/ Save(d)
  \/ Take(d) \/ Keep(d)

Landing == \E f \in flying : Land(f)

Next ==
  \/ \E d \in Devices : Move(d) \/ PageStep(d) \/ Manifest(d) \/ PassStep(d) \/ Fail(d) \/ Close(d)
  \/ Landing
  \/ \E f \in flying : Die(f)

Spec == Init /\ [][Next]_vars

\* A page open on the run asks again every poll, its writes and reads at the
\* store end, and so does an append.
FairSpec ==
  /\ Spec
  /\ \A d \in Devices : WF_vars(PageStep(d)) /\ WF_vars(PassStep(d)) /\ WF_vars(Manifest(d))
  /\ WF_vars(Landing)

-----------------------------------------------------------------------------
(* Properties.                                                             *)

\* No log, stored or played, holds an event twice: not under two numbers,
\* not numbered and pending, not pending twice.  merge and reconcile are
\* what keeps an event that came back numbered from staying in the outbox.
EventOnce ==
  \A d \in Devices : \A log \in {disk[d].log, page[d]} :
    Cardinality(IdsOf(log)) = Cardinality(log.numbered) + Len(log.pending)

Settled ==
  /\ flying = {} /\ \A d \in Devices : Undisturbed(d)
  /\ \A d \in Devices : disk[d].here => disk[d].log.pending = <<>>

\* A device at rest whose next pass would ask for nothing holds the log the
\* server holds: the arithmetic that decides whether to fetch (counters,
\* numbers and the count of what came back) leaves no event out for good,
\* whatever numbers repeats and deaths have used up.
InSync ==
  Settled => \A d \in Devices :
    disk[d].here /\ ~NeedsFetch(disk[d], shown, 0) => disk[d].log.numbered = After(0)

\* What a device has numbered stays numbered, whatever the page and the pass
\* write over each other ("Nothing is ever dropped from the first part"), but
\* for the ways `raced` names: persist writes the record it read over what a
\* pass has saved since, or a pass its own over what persist has.
ConfirmedStays ==
  [][\A d \in Devices : raced'[d] \/ disk[d].log.numbered \subseteq disk'[d].log.numbered]_vars

\* Whatever was made is somewhere: on the page, at the store or on its way
\* there, on its way to the server, or in the server's log ("an event this
\* device made is either pending or confirmed, never lost").
NothingMadeIsLost ==
  \A d \in Devices : \A i \in 1..moves[d] :
    LET id == Made[d][i]
    IN  \/ id \in Stored \cup IdsOf(page[d]) \cup IdsOf(disk[d].log)
        \/ \E k \in 1..Len(writes[d]) : id \in IdsOf(writes[d][k].log)
        \/ \E f \in flying : id \in Elements(f.ids)

\* Where the device has not raced, each move made on it is on the page or in
\* the server's log: no crossing of moves, writes, pulls, passes, restarts and
\* late landings loses one but those that `raced` names.
MovesKept ==
  \A d \in Devices : raced[d] \/ \A i \in 1..moves[d] : Made[d][i] \in Stored \cup IdsOf(page[d])

\* There, an event at the store stays at the store until the server has it.
StoredStays ==
  [][\A d \in Devices : \A id \in IdsOf(disk[d].log) :
       raced'[d] \/ id \in IdsOf(disk'[d].log) \/ id \in Stored']_vars

\* Every move reaches every device's numbered log, and all pages show it,
\* through failures, lost answers and numbers lost to a death.
Converges ==
  \A d \in Devices : \A i \in 1..Len(Made[d]) :
    (moves[d] >= i) ~> (\A e \in Devices :
      Made[d][i] \in NumberedIds(disk[e].log.numbered) \cap IdsOf(page[e]))
=============================================================================
