------------------------------ MODULE LookRows ------------------------------
(***************************************************************************)
(* Theme links on the server (looks.ts, lookRoutes.ts): the row of each    *)
(* link, the pointer a widget's read key opens it by, and the count that   *)
(* holds the cap.  A request is in the air in `calls' until its caller has *)
(* the answer; a handler that reads and then writes does so in two steps.  *)
(*                                                                         *)
(* Secrets and read keys stand for their hashes: one number for both of a  *)
(* link made, a new one for each that is moved or relinked.                *)
(***************************************************************************)
EXTENDS Integers, FiniteSets

CONSTANTS
  Callers,     \* places a request is made from, one in the air from each
  Cap,         \* LOOK_CHANNEL_LIMITS.maxChannels
  MaxLinks,    \* bound: links ever made
  MaxMints,    \* bound: secrets and keys ever minted
  MaxLooks,    \* bound: looks ever applied
  MaxFaults    \* bound: requests and answers lost or refused

ASSUME LookAssumption ==
  /\ Cap \in Nat \ {0}
  /\ MaxLinks \in Nat /\ MaxMints \in Nat /\ MaxLooks \in Nat \ {0} /\ MaxFaults \in Nat

VARIABLES
  rows,       \* LOOK#id
  pointers,   \* LOOKKEY#hash: the link each read key opens, 0 for none
  live,       \* LOOKLIB
  links,      \* links made so far: the last id
  mints,      \* secrets and keys minted so far
  calls,      \* the request each caller has in the air
  faults

look == <<rows, pointers, live, links, mints>>

Links == 1..MaxLinks
Mints == 1..MaxMints
Looks == 0..MaxLooks      \* 0: none published

Row    == [there : BOOLEAN, key : 0..MaxMints, secret : 0..MaxMints, revision : Nat, look : Looks]
NoRow  == [there |-> FALSE, key |-> 0, secret |-> 0, revision |-> 0, look |-> 0]
Ops    == {"none", "create", "publish", "transfer", "relink", "revoke", "read"}
Stages == {"asked", "read", "wrote", "refused"}
Outs   == {"", "ok", "stale", "not-publisher", "gone", "full", "unpublished", "limited", "error"}
Call   == [op : Ops, id : 0..MaxLinks, secret : 0..MaxMints, key : 0..MaxMints, base : Nat, look : Looks,
           stage : Stages, saw : 0..(MaxLinks + MaxMints), out : Outs, revision : Nat]
NoCall == [op |-> "none", id |-> 0, secret |-> 0, key |-> 0, base |-> 0, look |-> 0,
           stage |-> "asked", saw |-> 0, out |-> "", revision |-> 0]

TypeOK ==
  /\ rows \in [Links -> Row]
  /\ pointers \in [Mints -> 0..MaxLinks]
  /\ live \in Nat
  /\ links \in 0..MaxLinks /\ mints \in 0..MaxMints
  /\ calls \in [Callers -> Call]
  /\ faults \in 0..MaxFaults

Init ==
  /\ rows = [i \in Links |-> NoRow] /\ pointers = [k \in Mints |-> 0] /\ live = 0
  /\ links = 0 /\ mints = 0
  /\ calls = [c \in Callers |-> NoCall] /\ faults = 0

-----------------------------------------------------------------------------
(* A request in the air.                                                   *)

Asked(op, id)    == [NoCall EXCEPT !.op = op, !.id = id]
At(c, op, stage) == calls[c].op = op /\ calls[c].stage = stage /\ calls[c].out = ""
Now(c, call)     == calls' = [calls EXCEPT ![c] = call]
Answer(c, out)   == Now(c, [calls[c] EXCEPT !.out = out])

\* The route's second read of the row it wrote: gone if it was revoked since.
ReadBack(c, without) ==
  LET row == rows[calls[c].id] IN
  /\ Now(c, [calls[c] EXCEPT !.out = IF row.there THEN "ok" ELSE without, !.revision = row.revision])
  /\ UNCHANGED <<look, faults>>

-----------------------------------------------------------------------------
(* Making, moving and relinking a link.                                    *)

\* A faulty Create: the cap is not a condition of the transaction.
Create_Uncapped(c) ==
  /\ At(c, "create", "asked")
  /\ links < MaxLinks /\ mints < MaxMints
  /\ links' = links + 1 /\ mints' = mints + 1 /\ live' = live + 1
  /\ rows' = [rows EXCEPT ![links + 1] =
                [there |-> TRUE, key |-> mints + 1, secret |-> mints + 1, revision |-> 0, look |-> 0]]
  /\ pointers' = [pointers EXCEPT ![mints + 1] = links + 1]
  /\ Now(c, [calls[c] EXCEPT !.stage = "wrote", !.id = links + 1, !.key = mints + 1, !.secret = mints + 1])
  /\ UNCHANGED faults

\* The row, its pointer and its place under the cap, in one transaction.
Create(c) ==
  /\ At(c, "create", "asked")
  /\ \/ /\ live >= Cap
        /\ Answer(c, "full")
        /\ UNCHANGED <<look, faults>>
     \/ /\ live < Cap
        /\ links < MaxLinks /\ mints < MaxMints
        /\ links' = links + 1 /\ mints' = mints + 1 /\ live' = live + 1
        /\ rows' = [rows EXCEPT ![links + 1] =
                      [there |-> TRUE, key |-> mints + 1, secret |-> mints + 1, revision |-> 0, look |-> 0]]
        /\ pointers' = [pointers EXCEPT ![mints + 1] = links + 1]
        /\ Now(c, [calls[c] EXCEPT !.stage = "wrote", !.id = links + 1,
                                   !.key = mints + 1, !.secret = mints + 1])
        /\ UNCHANGED faults

CreateRead(c) == At(c, "create", "wrote") /\ ReadBack(c, "error")

\* The device that asks becomes the one that publishes.
Transfer(c) ==
  LET i == calls[c].id IN
  /\ At(c, "transfer", "asked")
  /\ \/ /\ ~rows[i].there
        /\ Answer(c, "gone")
        /\ UNCHANGED <<look, faults>>
     \/ /\ rows[i].there /\ mints < MaxMints
        /\ mints' = mints + 1
        /\ rows' = [rows EXCEPT ![i].secret = mints + 1]
        /\ Now(c, [calls[c] EXCEPT !.stage = "wrote", !.secret = mints + 1])
        /\ UNCHANGED <<pointers, live, links, faults>>

TransferRead(c) == At(c, "transfer", "wrote") /\ ReadBack(c, "gone")

\* relink and remove begin by reading the key the row holds.
ReadKey(c) ==
  LET row == rows[calls[c].id] IN
  /\ At(c, "relink", "asked") \/ At(c, "revoke", "asked")
  /\ Now(c, IF row.there THEN [calls[c] EXCEPT !.stage = "read", !.saw = row.key]
                         ELSE [calls[c] EXCEPT !.out = "gone"])
  /\ UNCHANGED <<look, faults>>

\* The row still holds the key that was read.
StillHolds(c) == rows[calls[c].id].there /\ rows[calls[c].id].key = calls[c].saw

\* The new key and its pointer in, the old pointer out, in one transaction.
Relink(c) ==
  LET i == calls[c].id IN
  /\ At(c, "relink", "read")
  /\ \/ /\ ~StillHolds(c)
        /\ Answer(c, "gone")
        /\ UNCHANGED <<look, faults>>
     \/ /\ StillHolds(c) /\ mints < MaxMints
        /\ mints' = mints + 1
        /\ rows' = [rows EXCEPT ![i].key = mints + 1]
        /\ pointers' = [pointers EXCEPT ![calls[c].saw] = 0, ![mints + 1] = i]
        /\ Now(c, [calls[c] EXCEPT !.stage = "wrote", !.key = mints + 1])
        /\ UNCHANGED <<live, links, faults>>

RelinkRead(c) == At(c, "relink", "wrote") /\ ReadBack(c, "gone")

\* A faulty Revoke: what was read is not a condition of the transaction.
Revoke_Blind(c) ==
  /\ At(c, "revoke", "read")
  /\ rows' = [rows EXCEPT ![calls[c].id] = NoRow]
  /\ pointers' = [pointers EXCEPT ![calls[c].saw] = 0]
  /\ live' = live - 1
  /\ Answer(c, "ok")
  /\ UNCHANGED <<links, mints, faults>>

\* removeRow: the row, its pointer and its place under the cap.
Revoke(c) ==
  LET i == calls[c].id IN
  /\ At(c, "revoke", "read")
  /\ \/ /\ ~StillHolds(c)
        /\ Answer(c, "gone")
        /\ UNCHANGED <<look, faults>>
     \/ /\ StillHolds(c)
        /\ rows' = [rows EXCEPT ![i] = NoRow]
        /\ pointers' = [pointers EXCEPT ![calls[c].saw] = 0]
        /\ live' = live - 1
        /\ Answer(c, "ok")
        /\ UNCHANGED <<links, mints, faults>>

-----------------------------------------------------------------------------
(* Publishing a look, and a widget's read of it.                           *)

\* A faulty Publish: the revision is not a condition of the update.
Publish_AnyRevision(c) ==
  LET q == calls[c]  row == rows[q.id] IN
  /\ At(c, "publish", "asked")
  /\ \/ /\ row.there /\ row.secret = q.secret
        /\ rows' = [rows EXCEPT ![q.id].revision = q.base + 1, ![q.id].look = q.look]
        /\ Now(c, [q EXCEPT !.out = "ok", !.revision = q.base + 1])
     \/ /\ ~(row.there /\ row.secret = q.secret)
        /\ Now(c, [q EXCEPT !.stage = "refused"])
        /\ UNCHANGED rows
  /\ UNCHANGED <<pointers, live, links, mints, faults>>

\* The look goes in on its base revision, from the device that holds the secret.
Publish(c) ==
  LET q == calls[c]
      row == rows[q.id]
      fits == row.there /\ row.secret = q.secret /\ row.revision = q.base
  IN
  /\ At(c, "publish", "asked")
  /\ \/ /\ fits
        /\ rows' = [rows EXCEPT ![q.id].revision = q.base + 1, ![q.id].look = q.look]
        /\ Now(c, [q EXCEPT !.out = "ok", !.revision = q.base + 1])
     \/ /\ ~fits
        /\ Now(c, [q EXCEPT !.stage = "refused"])
        /\ UNCHANGED rows
  /\ UNCHANGED <<pointers, live, links, mints, faults>>

\* A read says which condition failed, the secret before the revision.
PublishWhy(c) ==
  LET q == calls[c]  row == rows[q.id] IN
  /\ At(c, "publish", "refused")
  /\ Now(c, [q EXCEPT !.revision = row.revision,
                      !.out = IF ~row.there THEN "gone"
                              ELSE IF row.secret # q.secret THEN "not-publisher" ELSE "stale"])
  /\ UNCHANGED <<look, faults>>

\* publicLook: the key's pointer first.
ReadPointer(c) ==
  LET i == pointers[calls[c].key] IN
  /\ At(c, "read", "asked")
  /\ Now(c, IF i = 0 THEN [calls[c] EXCEPT !.out = "gone"]
                     ELSE [calls[c] EXCEPT !.stage = "read", !.saw = i])
  /\ UNCHANGED <<look, faults>>

\* A faulty ReadRow: the pointer alone is enough.
ReadRow_PointerOnly(c) ==
  LET row == rows[calls[c].saw] IN
  /\ At(c, "read", "read")
  /\ Now(c, [calls[c] EXCEPT !.look = row.look, !.out = IF row.look = 0 THEN "unpublished" ELSE "ok"])
  /\ UNCHANGED <<look, faults>>

\* Then the row, which must be there and still hold the key.
ReadRow(c) ==
  LET row == rows[calls[c].saw] IN
  /\ At(c, "read", "read")
  /\ Now(c, IF ~row.there \/ row.key # calls[c].key THEN [calls[c] EXCEPT !.out = "gone"]
            ELSE [calls[c] EXCEPT !.look = row.look,
                                  !.out = IF row.look = 0 THEN "unpublished" ELSE "ok"])
  /\ UNCHANGED <<look, faults>>

\* The server's steps of one request.
Serve(c) ==
  \/ Create(c) \/ CreateRead(c) \/ Transfer(c) \/ TransferRead(c)
  \/ ReadKey(c) \/ Relink(c) \/ RelinkRead(c) \/ Revoke(c)
  \/ Publish(c) \/ PublishWhy(c) \/ ReadPointer(c) \/ ReadRow(c)

-----------------------------------------------------------------------------
(* What the network and the limits do to a request.                        *)

Faulty(c, out) == faults < MaxFaults /\ faults' = faults + 1 /\ Answer(c, out) /\ UNCHANGED look

\* It never arrives, or the server fails before it has done anything.
Drop(c) == calls[c].op # "none" /\ calls[c].stage = "asked" /\ calls[c].out = "" /\ Faulty(c, "error")

\* It is done and its caller never hears.
LoseAnswer(c) == calls[c].out \notin {"", "error"} /\ Faulty(c, "error")

\* countPublish: too many looks in a minute.
Limit(c) == At(c, "publish", "asked") /\ Faulty(c, "limited")

Trouble(c) == Drop(c) \/ LoseAnswer(c) \/ Limit(c)

\* A request of a link there has been, by a key that was minted.
Begun(q) ==
  /\ q \in Call /\ q.op # "none" /\ q.stage = "asked" /\ q.out = "" /\ q.saw = 0
  /\ q.op \in {"create", "read"} \/ q.id \in 1..links
  /\ q.op # "read" \/ q.key \in 1..mints

\* The callers' own steps: one takes its answer or goes away, another asks.
Turn ==
  /\ calls' \in [Callers -> Call]
  /\ \A c \in Callers : calls'[c] \in {calls[c], NoCall} \/ Begun(calls'[c])
  /\ UNCHANGED <<look, faults>>

Next == Turn \/ \E c \in Callers : Serve(c) \/ Trouble(c)
vars == <<rows, pointers, live, links, mints, calls, faults>>
Spec == Init /\ [][Next]_vars

-----------------------------------------------------------------------------

\* A read key opens a link exactly when the link's row holds it: no pointer is left behind by a relink
\* or a revoke that ran over another, and none of a live link is taken away (looks.ts relink, removeRow).
PointersMatch ==
  /\ \A k \in Mints : pointers[k] # 0 => rows[pointers[k]].there /\ rows[pointers[k]].key = k
  /\ \A i \in Links : rows[i].there => pointers[rows[i].key] = i

\* LOOKLIB counts the links there are, and they are never more than the cap, however makes, relinks and
\* revokes overlap (looks.ts create, removeRow).
LiveCounts == live = Cardinality({i \in Links : rows[i].there}) /\ live <= Cap

\* A read that shows a link's look, or that it has none yet, is by a key that opens the link at that
\* moment: a key relinked or revoked between the read's two lookups shows nothing (lookRoutes.ts publicLook).
ShownByKey ==
  [][\A c \in Callers : calls[c].out = "" /\ calls'[c].out \in {"ok", "unpublished"} /\ calls[c].op = "read"
       => pointers[calls[c].key] # 0 /\ calls'[c].look = rows[pointers[calls[c].key]].look]_vars
=============================================================================
