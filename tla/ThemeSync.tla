------------------------------ MODULE ThemeSync ------------------------------
(***************************************************************************)
(* The saved themes of one account: the rows the server keeps under a      *)
(* revision each (themes.ts, themeRoutes.ts), and on every device the      *)
(* library, the outbox of changes and the worker that carries them         *)
(* (outbox.ts, themeStorage.ts, reconcile.ts, worker.ts).                  *)
(*                                                                         *)
(* A text is named by the save that made it, so a library row is its own   *)
(* local revision; a delete has a number of its own, for what it deleted.  *)
(* A copy keeps the number of the text it copies.                          *)
(***************************************************************************)
EXTENDS Integers, Sequences, FiniteSets

CONSTANTS
  Devices,     \* one pass at a time on each: the tabs share a lock
  MaxThemes,   \* live themes an account may hold
  PageSize,    \* themes on a page of the library
  Tries,       \* tries before an entry is held
  Kinds,       \* of what may go wrong
  Invalid,     \* texts the server refuses: too large, or not to its schema
  MaxTexts,    \* bound: saves and deletes
  MaxNew,      \* bound: themes made by a player
  MaxIds,      \* bound: those and the copies
  MaxKeys,     \* bound: keys in use at a time
  MaxFaults    \* bound: what goes wrong

ASSUME ThemeAssumption ==
  /\ MaxThemes \in Nat \ {0} /\ Tries \in Nat \ {0} /\ PageSize \in Nat \ {0}
  /\ MaxTexts \in Nat /\ MaxNew \in Nat /\ MaxIds \in Nat /\ MaxFaults \in Nat /\ MaxKeys \in Nat
  /\ Kinds \subseteq {"error", "pause", "close", "expire"}
  /\ Invalid \subseteq 1..MaxTexts

VARIABLES
  shelf,     \* every theme's rows in the order of their revisions
  head,      \* THEMELIB: the library revision and the count of live themes
  receipts,  \* THEMEOP rows: answers given, by key
  stray,     \* requests nobody waits for any more, which may still arrive
  library,   \* each device's library rows
  noted,     \* the server revision each device last heard of
  queue,     \* the outbox, theme by theme, oldest first
  meta,      \* the library revision the last whole pull began from
  place,     \* where each device's pass stands
  flight,    \* the entry the pass picked, then marked and sent
  answer,    \* what the server said to it last
  seen,      \* the library row it read after the answer
  listed,    \* the head its pull began from, and whether it left a theme out
  cursor,    \* the next theme of its pull
  texts,     \* saves and deletes so far
  over,      \* the text each of them took the place of, 0 if none
  given,     \* texts their player saved over or deleted, and the deletes
  faults

server == <<shelf, head, receipts>>
store  == <<library, noted, queue>>
worker == <<place, flight, answer, seen, listed, cursor>>
player == <<texts, over, given>>
vars   == <<shelf, head, receipts, stray, library, noted, queue, meta, place, flight, answer,
            seen, listed, cursor, texts, over, given, faults>>

Ids      == 1..MaxIds
Texts    == 0..MaxTexts
Keys     == 1..MaxKeys
Gone     == 0             \* in the place of a text: a tombstone
None     == 0             \* base of a create
Previous == -1            \* base: whatever the entry before leaves

Holds  == {"none", "library-full", "invalid", "retry-exhausted"}
Entry  == [id : Ids, op : {"put", "delete"}, text : Texts, base : Int, key : 0..MaxKeys,
           sent : BOOLEAN, tries : 0..(Tries + 1), hold : Holds]
Places == {"idle", "mark", "sent", "settle", "page"}
Row    == [state : {"none", "saved", "gone"}, text : Texts]
Noted  == [state : {"none", "live", "gone"}, revision : Nat]
Answer == [kind : {"none", "ok", "conflict", "full", "rejected", "reused", "error", "pause"},
           revision : Nat, text : Texts]

NoRow    == [state |-> "none", text |-> 0]
NoNote   == [state |-> "none", revision |-> 0]
NoAnswer == [kind |-> "none", revision |-> 0, text |-> 0]
NoList   == [revision |-> -1, live |-> 0, skipped |-> FALSE]
NoEntry  == [id |-> 0, op |-> "put", text |-> 0, base |-> None, key |-> 0,
             sent |-> FALSE, tries |-> 0, hold |-> "none"]

TypeOK ==
  /\ shelf \in [Ids -> Seq(Texts)]
  /\ head \in [revision : Nat, live : Int]
  /\ receipts \subseteq [key : Keys, fingerprint : [id : Ids, op : {"put", "delete"}, text : Texts, base : Int],
                         revision : Nat]
  /\ stray \subseteq Entry
  /\ library \in [Devices -> [Ids -> Row]]
  /\ noted \in [Devices -> [Ids -> Noted]]
  /\ queue \in [Devices -> [Ids -> Seq(Entry)]]
  /\ meta \in [Devices -> Int]
  /\ place \in [Devices -> Places]
  /\ flight \in [Devices -> Entry \cup {NoEntry}]
  /\ answer \in [Devices -> Answer]
  /\ seen \in [Devices -> Row]
  /\ listed \in [Devices -> [revision : Int, live : Int, skipped : BOOLEAN]]
  /\ cursor \in [Devices -> Nat]
  /\ texts \in Texts
  /\ over \in [1..MaxTexts -> Texts] /\ given \subseteq Texts
  /\ faults \in 0..MaxFaults

Init ==
  /\ shelf = [t \in Ids |-> <<>>] /\ head = [revision |-> 0, live |-> 0]
  /\ receipts = {} /\ stray = {}
  /\ library = [d \in Devices |-> [t \in Ids |-> NoRow]]
  /\ noted = [d \in Devices |-> [t \in Ids |-> NoNote]]
  /\ queue = [d \in Devices |-> [t \in Ids |-> <<>>]]
  /\ meta = [d \in Devices |-> -1]
  /\ place = [d \in Devices |-> "idle"] /\ flight = [d \in Devices |-> NoEntry]
  /\ answer = [d \in Devices |-> NoAnswer] /\ seen = [d \in Devices |-> NoRow]
  /\ listed = [d \in Devices |-> NoList] /\ cursor = [d \in Devices |-> 0]
  /\ texts = 0 /\ over = [n \in 1..MaxTexts |-> 0] /\ given = {}
  /\ faults = 0

-----------------------------------------------------------------------------
(* Plans over the outbox: outbox.ts.                                       *)

Unsent(e)     == ~e.sent /\ e.hold = "none"
Refused(e)    == e.hold \in {"library-full", "invalid"}
NotReached(e) == Unsent(e) \/ Refused(e)
Fresh(t, op, text, base, key) ==
  [id |-> t, op |-> op, text |-> text, base |-> base, key |-> key,
   sent |-> FALSE, tries |-> 0, hold |-> "none"]
LastOf(q) == q[Len(q)]

FromRemote(n) == IF n.state = "live" THEN n.revision ELSE None

\* A faulty PlanPut: the last put is replaced though it may have been sent.
PlanPut_OverSent(q, n, t, text, k) ==
  IF q = <<>> THEN <<Fresh(t, "put", text, FromRemote(n), k)>>
  ELSE IF LastOf(q).op = "put"
       THEN [q EXCEPT ![Len(q)] = Fresh(t, "put", text, LastOf(q).base, LastOf(q).key)]
       ELSE Append(q, Fresh(t, "put", text, Previous, k))

PlanPut(q, n, t, text, k) ==
  IF q = <<>> THEN <<Fresh(t, "put", text, FromRemote(n), k)>>
  ELSE IF LastOf(q).op = "put" /\ NotReached(LastOf(q))
       THEN [q EXCEPT ![Len(q)] = Fresh(t, "put", text, LastOf(q).base,
                                        IF Unsent(LastOf(q)) THEN LastOf(q).key ELSE k)]
       ELSE Append(q, Fresh(t, "put", text, Previous, k))

\* The number of a delete says what was deleted; the server is not sent it.
PlanDelete(q, n, t, text, k) ==
  LET none == \A i \in 1..Len(q) : NotReached(q[i]) IN
  IF q = <<>> THEN IF FromRemote(n) = None THEN <<>>
                   ELSE <<Fresh(t, "delete", text, FromRemote(n), k)>>
  ELSE IF none /\ q[1].base = None THEN <<>>
  ELSE IF none /\ Len(q) = 1 /\ q[1].base # Previous
       THEN <<Fresh(t, "delete", text, q[1].base, k)>>
       ELSE Append(q, Fresh(t, "delete", text, Previous, k))

\* The oldest entry was refused: what is queued behind it folds into it.
PlanRefused(q, hold, tries, k) ==
  IF Len(q) = 1 \/ q[1].base = Previous \/ \E i \in 2..Len(q) : ~Unsent(q[i])
  THEN [q EXCEPT ![1] = [@ EXCEPT !.sent = TRUE, !.tries = tries, !.hold = hold]]
  ELSE IF LastOf(q).op = "delete" /\ q[1].base = None THEN <<>>
  ELSE <<Fresh(q[1].id, LastOf(q).op, LastOf(q).text, q[1].base, k)>>

\* A faulty Following: the next change keeps waiting for a revision.
Following_Unbased(q, live, rev) == Tail(q)
\* What is queued once the oldest entry is answered and the theme is at `rev`.
Following(q, live, rev) ==
  LET rest == Tail(q) IN
  IF rest = <<>> \/ rest[1].base # Previous THEN rest
  ELSE IF live THEN [rest EXCEPT ![1].base = rev]
  ELSE IF rest[1].op = "put" THEN [rest EXCEPT ![1].base = None]
  ELSE LET after == Tail(rest) IN
       IF after = <<>> \/ after[1].base # Previous THEN after
       ELSE [after EXCEPT ![1].base = None]

-----------------------------------------------------------------------------
(* The player: ThemeProvider.tsx and the two-store transactions it calls.  *)

\* A key is random: one that is nowhere is as good as one never used.
UsedKeys  == {r.key : r \in receipts} \cup {e.key : e \in stray}
               \cup UNION {{queue[d][t][i].key : i \in 1..Len(queue[d][t])} : d \in Devices, t \in Ids}
NewKey(k) == k \notin UsedKeys /\ 1..(k - 1) \subseteq UsedKeys

Unused(t) == shelf[t] = <<>> /\ \A d \in Devices : library[d][t] = NoRow
NextUnused(t) == Unused(t) /\ \A s \in 1..(t - 1) : ~Unused(s)

\* The player's n-th change: the row and the outbox, in one transaction.
Change(d, t, row, q) ==
  /\ texts < MaxTexts /\ texts' = texts + 1
  /\ over' = [over EXCEPT ![texts + 1] = library[d][t].text]
  /\ library' = [library EXCEPT ![d][t] = row]
  /\ queue' = [queue EXCEPT ![d][t] = q]
  /\ UNCHANGED <<server, stray, noted, meta, worker, faults>>

\* A theme is made, or saved over the text its player had before him.
Save(d, t) ==
  /\ library[d][t].state = "saved" \/ (NextUnused(t) /\ t <= MaxNew)
  /\ given' = given \cup ({library[d][t].text} \ {0})
  /\ \E k \in Keys :
       /\ NewKey(k)
       /\ Change(d, t, [state |-> "saved", text |-> texts + 1],
                 PlanPut(queue[d][t], noted[d][t], t, texts + 1, k))

Delete(d, t) ==
  /\ library[d][t].state = "saved"
  /\ given' = given \cup {library[d][t].text, texts + 1}
  /\ \E k \in Keys :
       /\ NewKey(k)
       /\ Change(d, t, [state |-> "gone", text |-> Gone],
                 PlanDelete(queue[d][t], noted[d][t], t, texts + 1, k))

-----------------------------------------------------------------------------
(* The server: themeRoutes.ts, themes.ts.  A request is the entry it       *)
(* carries; the write is one transaction over three rows.                  *)

Revision(t) == Len(shelf[t])
Text(t)     == IF shelf[t] = <<>> THEN Gone ELSE LastOf(shelf[t])
LiveOn(t)   == shelf[t] # <<>> /\ Text(t) # Gone

Fingerprint(e) == [id |-> e.id, op |-> e.op, text |-> IF e.op = "put" THEN e.text ELSE 0, base |-> e.base]
After(e) == IF e.op = "put" THEN e.text ELSE Gone

Prior(e)    == {r \in receipts : r.key = e.key}
\* A faulty Expected: a live theme takes any change, whatever it was made over.
Expected_AnyRevision(e) == IF e.base = None THEN shelf[e.id] = <<>> ELSE LiveOn(e.id)
Expected(e) == IF e.base = None THEN shelf[e.id] = <<>>
                               ELSE LiveOn(e.id) /\ Revision(e.id) = e.base
\* A faulty Room: the count of live themes is not held against the limit.
Room_Always(e) == TRUE
Room(e) == e.base # None \/ head.live < MaxThemes

\* The answer to a request, in the order the route and the transaction look.
Reply(e) ==
  IF e.op = "put" /\ e.text \in Invalid THEN [NoAnswer EXCEPT !.kind = "rejected"]
  ELSE IF Prior(e) # {}
    THEN LET r == CHOOSE r \in Prior(e) : TRUE IN
         IF r.fingerprint = Fingerprint(e) THEN [kind |-> "ok", revision |-> r.revision, text |-> After(e)]
         ELSE [NoAnswer EXCEPT !.kind = "reused"]
  ELSE IF ~Expected(e) THEN [kind |-> "conflict", revision |-> Revision(e.id), text |-> Text(e.id)]
  ELSE IF ~Room(e) THEN [NoAnswer EXCEPT !.kind = "full"]
  ELSE [kind |-> "ok", revision |-> Revision(e.id) + 1, text |-> After(e)]

\* A faulty Written: a request answered before is written again.
Written_Again(e) == Reply(e).kind = "ok"
\* What the request changes: all three rows or none.
Written(e) == Reply(e).kind = "ok" /\ Prior(e) = {}
Carry(e) ==
  IF Written(e)
  THEN /\ shelf' = [shelf EXCEPT ![e.id] = Append(@, After(e))]
       /\ head' = [revision |-> head.revision + 1,
                   live |-> head.live + (IF e.base = None THEN 1 ELSE IF e.op = "delete" THEN -1 ELSE 0)]
       /\ receipts' = receipts \cup {[key |-> e.key, fingerprint |-> Fingerprint(e), revision |-> Revision(e.id) + 1]}
  ELSE UNCHANGED server

-----------------------------------------------------------------------------
(* The worker's pass: worker.ts.  Between two entries of a pass nothing is *)
(* held, as between two passes.  A step is what the pass does up to the    *)
(* next await after which something of its own may have changed: reading   *)
(* the library after an answer, or a page before it is applied, commutes   *)
(* with what others do meanwhile.                                          *)

At(d, where) == place[d] = where
Go(d, where) == place' = [place EXCEPT ![d] = where]
Rest(d) == /\ Go(d, "idle")
           /\ flight' = [flight EXCEPT ![d] = NoEntry]
           /\ answer' = [answer EXCEPT ![d] = NoAnswer]
           /\ seen' = [seen EXCEPT ![d] = NoRow]
           /\ listed' = [listed EXCEPT ![d] = NoList]
           /\ cursor' = [cursor EXCEPT ![d] = 0]

\* A device's entries with the holds of one kind taken off.
Released(qs, hold, backoff) ==
  [t \in Ids |-> [i \in 1..Len(qs[t]) |->
     IF qs[t][i].hold = hold \/ (backoff /\ qs[t][i].hold = "none")
     THEN [qs[t][i] EXCEPT !.hold = "none", !.tries = 0] ELSE qs[t][i]]]

\* Back at the window, back online or asked to: spent tries start over.
Rouse(d) ==
  /\ At(d, "idle")
  /\ queue' = [queue EXCEPT ![d] = Released(queue[d], "retry-exhausted", TRUE)]
  /\ UNCHANGED <<server, stray, library, noted, meta, worker, player, faults>>

Ready(d, t) == queue[d][t] # <<>> /\ queue[d][t][1].hold = "none" /\ queue[d][t][1].base # Previous

\* The oldest entry of some theme is next.
Pick(d) ==
  /\ At(d, "idle")
  /\ \E t \in Ids : Ready(d, t) /\ flight' = [flight EXCEPT ![d] = queue[d][t][1]]
  /\ Go(d, "mark")
  /\ UNCHANGED <<server, stray, store, meta, answer, seen, listed, cursor, player, faults>>

\* Beyond the last try, how far does not matter.
Capped(n) == IF n > Tries THEN Tries + 1 ELSE n
MarkedAs(q, tries, hold) == [q EXCEPT ![1] = [@ EXCEPT !.sent = TRUE, !.tries = tries, !.hold = hold]]

\* The entry goes out as it is stored when it is marked.
Outgoing(q, e) == MarkedAs(q, Capped(e.tries + 1), "none")[1]

\* An entry that was picked is still its theme's oldest, or its theme was deleted
\* with all that was queued and takes no other; one that was sent stays.
Mark(d) ==
  LET e == flight[d]  q == queue[d][e.id] IN
  /\ At(d, "mark")
  /\ IF q # <<>>
     THEN /\ queue' = [queue EXCEPT ![d][e.id] = MarkedAs(q, Capped(e.tries + 1), "none")]
          /\ flight' = [flight EXCEPT ![d] = Outgoing(q, e)]
          /\ Go(d, "sent") /\ UNCHANGED <<answer, seen, listed, cursor>>
     ELSE Rest(d) /\ UNCHANGED queue
  /\ UNCHANGED <<server, stray, library, noted, meta, player, faults>>

\* The request is served, and the library row read once the answer is here.
Serve(d) ==
  /\ At(d, "sent")
  /\ answer' = [answer EXCEPT ![d] = Reply(flight[d])]
  /\ seen' = [seen EXCEPT ![d] = library[d][flight[d].id]]
  /\ Carry(flight[d])
  /\ Go(d, "settle")
  /\ UNCHANGED <<stray, store, meta, flight, listed, cursor, player, faults>>

Answered(d, kinds) == At(d, "settle") /\ answer[d].kind \in kinds
Mine(d)       == queue[d][flight[d].id]
SetMine(d, q) == queue' = [queue EXCEPT ![d][flight[d].id] = q]
NoteOf(a)     == [state |-> IF a.text = Gone THEN "gone" ELSE "live", revision |-> a.revision]
RowOf(a)      == [state |-> IF a.text = Gone THEN "gone" ELSE "saved", text |-> a.text]

\* The server has it: it says so, or the row it refuses over is as the change would leave it.
Confirms(e, a) ==
  \/ a.kind = "ok"
  \/ a.kind = "conflict" /\ a.text = (IF e.op = "delete" THEN Gone ELSE e.text)

Confirm(d) ==
  LET a == answer[d] IN
  /\ Answered(d, {"ok", "conflict"}) /\ Confirms(flight[d], a)
  /\ SetMine(d, Following(Mine(d), a.text # Gone, a.revision))
  /\ noted' = [noted EXCEPT ![d][flight[d].id] = NoteOf(a)]
  /\ Rest(d)
  /\ UNCHANGED <<server, stray, library, meta, player, faults>>

Contested(d) == Answered(d, {"conflict"}) /\ ~Confirms(flight[d], answer[d])

\* A faulty Stale: what was saved since the answer is not looked at.
Stale_Never(d) == FALSE
\* Saved or deleted since the answer was read.
Stale(d) == library[d][flight[d].id] # seen[d]

\* The answer is given up, to be asked for again.
Resend(d) ==
  /\ Contested(d) /\ Stale(d)
  /\ SetMine(d, MarkedAs(Mine(d), flight[d].tries - 1, "none"))
  /\ Rest(d)
  /\ UNCHANGED <<server, stray, library, noted, meta, player, faults>>

\* A faulty Copied: the device's version is not kept beside a deleted theme.
Copied_NotOverGone(d) == flight[d].op = "put" /\ seen[d].state = "saved" /\ answer[d].text # Gone
\* A conflict or recovery copy is made of what the device holds.
Copied(d) == flight[d].op = "put" /\ seen[d].state = "saved"

\* The server's version is taken, all that was queued is dropped, the copy is a new theme.
Resolve(d) ==
  LET t == flight[d].id
      taken   == [library[d] EXCEPT ![t] = RowOf(answer[d])]
      emptied == [queue[d] EXCEPT ![t] = <<>>] IN
  /\ Contested(d) /\ ~Stale(d)
  /\ noted' = [noted EXCEPT ![d][t] = NoteOf(answer[d])]
  /\ IF Copied(d)
     THEN \E c \in Ids, k \in Keys :
            /\ NextUnused(c) /\ NewKey(k)
            /\ library' = [library EXCEPT ![d] = [taken EXCEPT ![c] = seen[d]]]
            /\ queue' = [queue EXCEPT ![d] = [emptied EXCEPT ![c] =
                           <<Fresh(c, "put", seen[d].text, None, k)>>]]
     ELSE /\ library' = [library EXCEPT ![d] = taken]
          /\ queue' = [queue EXCEPT ![d] = emptied]
  /\ Rest(d)
  /\ UNCHANGED <<server, stray, meta, player, faults>>

Refuse(d) ==
  /\ Answered(d, {"full", "rejected"})
  /\ \E k \in Keys :
       /\ NewKey(k)
       /\ SetMine(d, PlanRefused(Mine(d), IF answer[d].kind = "full" THEN "library-full" ELSE "invalid",
                                 flight[d].tries, k))
  /\ Rest(d)
  /\ UNCHANGED <<server, stray, library, noted, meta, player, faults>>

\* No answer, or a fault: a try is spent, and the last one holds the entry.
Retry(d) ==
  /\ Answered(d, {"error"})
  /\ SetMine(d, MarkedAs(Mine(d), flight[d].tries,
                         IF flight[d].tries >= Tries THEN "retry-exhausted" ELSE "none"))
  /\ Rest(d)
  /\ UNCHANGED <<server, stray, library, noted, meta, player, faults>>

\* Offline, signed out or told to slow down: no try is spent.
Pause(d) ==
  /\ Answered(d, {"pause"})
  /\ SetMine(d, MarkedAs(Mine(d), flight[d].tries - 1, "none"))
  /\ Rest(d)
  /\ UNCHANGED <<server, stray, library, noted, meta, player, faults>>

\* The pass is over; with room again, what a full library held back is free to go.
Finish(d, live) ==
  /\ queue' = IF live < MaxThemes THEN [queue EXCEPT ![d] = Released(queue[d], "library-full", FALSE)]
                                  ELSE queue
  /\ Rest(d)

\* Nothing is due, for what was tried may be waiting: the pull begins with the head.
Ask(d) ==
  /\ At(d, "idle")
  /\ \A t \in Ids : Ready(d, t) => queue[d][t][1].sent
  /\ IF meta[d] = head.revision THEN Finish(d, head.live)
     ELSE /\ listed' = [listed EXCEPT ![d] = [revision |-> head.revision, live |-> head.live, skipped |-> FALSE]]
          /\ cursor' = [cursor EXCEPT ![d] = 1]
          /\ Go(d, "page")
          /\ UNCHANGED <<queue, flight, answer, seen>>
  /\ UNCHANGED <<server, stray, library, noted, meta, player, faults>>

\* A faulty Pending: a theme with changes of its own is written over.
Pending_Never(d, t) == FALSE
Pending(d, t) == queue[d][t] # <<>>
Known(d, t)   == \/ noted[d][t].state # "none" /\ noted[d][t].revision >= Revision(t)
                 \/ LiveOn(t) /\ library[d][t].state = "gone"

\* The themes of the next page, in the order of their ids.
PageFrom(c) == {t \in c..MaxIds : /\ shelf[t] # <<>>
                                  /\ Cardinality({s \in c..t : shelf[s] # <<>>}) <= PageSize}
Asked(t) == [kind |-> "ok", revision |-> Revision(t), text |-> Text(t)]

\* A page is read and its themes applied one by one; after the last, the revision the
\* pull began from is noted, unless a theme was left out.
Page(d) ==
  LET page  == PageFrom(cursor[d])
      taken == {t \in page : ~Pending(d, t) /\ ~Known(d, t)}
      skips == listed[d].skipped \/ \E t \in page : Pending(d, t) IN
  /\ At(d, "page")
  /\ noted' = [noted EXCEPT ![d] = [t \in Ids |-> IF t \in taken THEN NoteOf(Asked(t)) ELSE @[t]]]
  /\ library' = [library EXCEPT ![d] = [t \in Ids |-> IF t \in taken THEN RowOf(Asked(t)) ELSE @[t]]]
  /\ \/ \E next \in cursor[d]..MaxIds :
          /\ shelf[next] # <<>> /\ next \notin page /\ \A t \in cursor[d]..(next - 1) : t \in page \/ shelf[t] = <<>>
          /\ cursor' = [cursor EXCEPT ![d] = next]
          /\ listed' = [listed EXCEPT ![d].skipped = skips]
          /\ UNCHANGED <<queue, meta, place, flight, answer, seen>>
     \/ /\ \A t \in cursor[d]..MaxIds : t \in page \/ shelf[t] = <<>>
        /\ meta' = [meta EXCEPT ![d] = IF skips THEN -1 ELSE listed[d].revision]
        /\ Finish(d, listed[d].live)
  /\ UNCHANGED <<server, stray, player, faults>>

-----------------------------------------------------------------------------
(* What goes wrong.                                                        *)

Fault(kind) == kind \in Kinds /\ faults < MaxFaults /\ faults' = faults + 1
Abandoned(d) == IF At(d, "sent") THEN {flight[d]} ELSE {}

\* No answer comes, and the request may still arrive.
Unanswered(d, kind) ==
  /\ Fault(kind) /\ At(d, "sent")
  /\ stray' = stray \cup Abandoned(d)
  /\ answer' = [answer EXCEPT ![d] = [NoAnswer EXCEPT !.kind = kind]]
  /\ Go(d, "settle")
  /\ UNCHANGED <<server, store, meta, flight, seen, listed, cursor, player>>

\* The page is closed, or the pass ends in a fault: what it held is gone.
Close(d) ==
  /\ Fault("close") /\ ~At(d, "idle")
  /\ stray' = stray \cup Abandoned(d)
  /\ Rest(d)
  /\ UNCHANGED <<server, store, meta, player>>

\* A request nobody waits for any more is served.
Straggle(e) ==
  /\ stray' = stray \ {e}
  /\ Carry(e)
  /\ UNCHANGED <<store, meta, worker, player, faults>>

\* Seven days pass: a receipt no longer answers for its key.
Expire(r) ==
  /\ Fault("expire") /\ stray = {} /\ \A d \in Devices : ~At(d, "sent")
  /\ receipts' = receipts \ {r}
  /\ UNCHANGED <<shelf, head, stray, store, meta, worker, player>>

Step(d) == \/ Mark(d) \/ Serve(d) \/ Confirm(d) \/ Resend(d) \/ Resolve(d) \/ Refuse(d)
           \/ Retry(d) \/ Pause(d) \/ Ask(d) \/ Page(d)

Next ==
  \/ \E d \in Devices : \/ \E t \in Ids : Save(d, t) \/ Delete(d, t)
                        \/ Rouse(d) \/ Pick(d) \/ Step(d) \/ Close(d)
                        \/ Unanswered(d, "error") \/ Unanswered(d, "pause")
  \/ \E e \in stray : Straggle(e)
  \/ \E r \in receipts : Expire(r)

Spec == Init /\ [][Next]_vars

\* A pass goes on to its end, a wake is kept until the pass that runs is over, and a wait
\* for the next try ends.
Fairness == \A d \in Devices : WF_vars(Step(d)) /\ SF_vars(Rouse(d) \/ Pick(d))

FairSpec == Spec /\ Fairness

-----------------------------------------------------------------------------
(* Properties.                                                             *)

Entries(d, t) == {queue[d][t][i] : i \in 1..Len(queue[d][t])}
Sent == UNION {{e \in Entries(d, t) : e.sent} : d \in Devices, t \in Ids}

\* A key stands for one change: whatever may still be sent under a key the
\* server has answered is the change it answered (themeRoutes.ts, outbox.ts).
KeyIsOneChange ==
  /\ \A d \in Devices : answer[d].kind # "reused"
  /\ \A r \in receipts, e \in Sent : e.key = r.key => r.fingerprint = Fingerprint(e)

\* However often a save is sent, cut short and sent again, it is one revision
\* of its theme (themes.ts, worker.ts).
AppliedOnce ==
  \A t \in Ids : \A i, j \in 1..Revision(t) :
    i # j /\ shelf[t][i] # Gone => shelf[t][i] # shelf[t][j]

Accepted == UNION {{shelf[t][i] : i \in 1..Revision(t)} : t \in Ids}
Queued   == UNION {{e.text : e \in {f \in Entries(d, t) : f.op = "put"}} : d \in Devices, t \in Ids}

\* A save is on the server, on its way there, or was saved over or deleted by
\* its own player: no answer, pull or conflict makes it disappear.
NoSaveLost == 1..texts \subseteq Accepted \cup Queued \cup given

\* A theme with nothing queued is here what the server had at the revision
\* this device noted (themeStorage.ts: confirmMutation, applyRemote, resolveConflict).
HoldsWhatItNoted ==
  \A d \in Devices, t \in Ids :
    queue[d][t] = <<>> /\ noted[d][t].state # "none" =>
      /\ noted[d][t].revision <= Revision(t)
      /\ library[d][t].text = shelf[t][noted[d][t].revision]

\* Everything a text was made from, itself included.
Lineage[n \in Texts] == IF n = 0 THEN {0} ELSE {n} \cup Lineage[over[n]]

\* No device overwrites another's work blind: what a put or a delete takes the
\* place of is what its player had before him when he made it.
NothingBlind ==
  [][\A t \in Ids : Len(shelf'[t]) > Len(shelf[t]) /\ LiveOn(t) =>
       \E e \in stray \cup {flight[d] : d \in Devices} :
         /\ e.id = t /\ After(e) = LastOf(shelf'[t])
         /\ Text(t) \in Lineage[e.text]]_vars

\* The count the limit is held against is the count of live themes.
LiveIsCounted ==
  /\ head.live = Cardinality({t \in Ids : LiveOn(t)})
  /\ head.live <= MaxThemes

Settled(d, t) ==
  IF queue[d][t] = <<>>
  THEN library[d][t].text = Text(t) \/ (LiveOn(t) /\ library[d][t].state = "gone")
  ELSE \/ queue[d][t][1].hold = "invalid"
       \/ queue[d][t][1].hold = "library-full" /\ head.live = MaxThemes

\* Once saves and faults stop, every device holds what the server holds, but
\* for what the server refuses.
Settles == <>[](\A d \in Devices, t \in Ids : Settled(d, t))
=============================================================================
