--------------------------- MODULE ThemeSyncProofs ---------------------------
(***************************************************************************)
(* The theme library, for every set of devices and every bound: what lies  *)
(* in an outbox is sound, the count of live themes is the count, a key is  *)
(* one change, a save is one revision, a device holds what it noted, no    *)
(* save is lost, and nothing is overwritten blind.                         *)
(***************************************************************************)
EXTENDS ThemeSync, SequenceTheorems, FiniteSetTheorems, TLAPS

\* A change a plan can have made: nothing is created by a delete or saved without a text.
Whole(e) ==
  /\ e.key # 0 /\ e.base >= Previous
  /\ e.op = "put" => e.text # 0
  /\ e.op = "delete" => e.base # None

\* Only the oldest change of a theme has left, or knows what it was made over;
\* a delete ends the queue.
SoundQueue(q, t) ==
  /\ q \in Seq(Entry)
  /\ \A i \in 1..Len(q) : q[i].id = t /\ Whole(q[i])
  /\ q # <<>> => q[1].base # Previous
  /\ \A i \in 2..Len(q) : q[i].base = Previous /\ Unsent(q[i])
  /\ \A i \in 1..(Len(q) - 1) : q[i].op = "put"

\* The newest change is what the library shows.
Fits(q, row) ==
  q # <<>> => IF LastOf(q).op = "put" THEN row = [state |-> "saved", text |-> LastOf(q).text]
                                      ELSE row.state = "gone"

QueuesSound == \A d \in Devices, t \in Ids : SoundQueue(queue[d][t], t) /\ Fits(queue[d][t], library[d][t])
RowsSound   == \A d \in Devices, t \in Ids : library[d][t].state = "saved" <=> library[d][t].text # 0
StrayWhole  == \A e \in stray : Whole(e)

\* What a pass has sent is its theme's oldest change, as it is stored.
InHand ==
  \A d \in Devices :
    /\ place[d] \in {"mark", "sent", "settle"} => flight[d] \in Entry
    /\ place[d] \in {"sent", "settle"} =>
         /\ Mine(d) # <<>> /\ flight[d] = Mine(d)[1]
         /\ flight[d].sent /\ flight[d].tries >= 1 /\ flight[d].hold = "none"

AnswersSound ==
  /\ \A r \in receipts : r.revision >= 1
  /\ \A d \in Devices : answer[d].kind \in {"ok", "conflict"} /\ answer[d].text # Gone => answer[d].revision >= 1

Sound == TypeOK /\ QueuesSound /\ RowsSound /\ StrayWhole /\ InHand /\ AnswersSound

\* No two changes anywhere carry one key.
Distinct(q) == \A i, j \in 1..Len(q) : i # j => q[i].key # q[j].key
KeysApart ==
  /\ \A d \in Devices, t \in Ids : Distinct(queue[d][t])
  /\ \A d, c \in Devices, t, s \in Ids : <<d, t>> # <<c, s>> =>
       \A i \in 1..Len(queue[d][t]), j \in 1..Len(queue[c][s]) : queue[d][t][i].key # queue[c][s][j].key

\* Whatever is queued under this key is this change, and it has left.
Bound(key, print) ==
  \A d \in Devices, t \in Ids : \A i \in 1..Len(queue[d][t]) :
    queue[d][t][i].key = key => queue[d][t][i].sent /\ Fingerprint(queue[d][t][i]) = print
KeysBound ==
  /\ \A r \in receipts : Bound(r.key, r.fingerprint)
  /\ \A e \in stray : Bound(e.key, Fingerprint(e))

NoneReused == \A d \in Devices : answer[d].kind # "reused"

KeyInv == KeysApart /\ KeysBound /\ NoneReused

\* What a device noted of a theme was the theme at that revision, and what it holds with
\* nothing queued; what is queued was made over no later one than the theme has.
NoteOk(q, row, n, sh) ==
  /\ n.state # "none" => n.revision \in 1..Len(sh) /\ (n.state = "gone" <=> sh[n.revision] = Gone)
  /\ row.state = "none" => n.state = "none"
  /\ \A i \in 1..Len(q) : q[i].base <= Len(sh)
  /\ q # <<>> /\ q[1].base = None => n.state = "none"
  /\ q = <<>> /\ n.state # "none" => row.text = sh[n.revision]
NotesOk == \A d \in Devices, t \in Ids : NoteOk(queue[d][t], library[d][t], noted[d][t], shelf[t])

\* An answer says what the theme was at the revision it names.
Stood(t, revision, text) == revision \in 1..Revision(t) /\ shelf[t][revision] = text
AnswersStand ==
  /\ \A r \in receipts : Stood(r.fingerprint.id, r.revision, After(r.fingerprint))
  /\ \A d \in Devices :
       /\ Answered(d, {"ok", "conflict"}) => Stood(flight[d].id, answer[d].revision, answer[d].text)
       /\ Answered(d, {"ok"}) => answer[d].text = After(flight[d])

NoteInv == NotesOk /\ AnswersStand

-----------------------------------------------------------------------------
(* Sequences.                                                              *)

LEMMA EditAt ==
  ASSUME NEW S, NEW q \in Seq(S), NEW i \in 1..Len(q), NEW e \in S
  PROVE  LET r == [q EXCEPT ![i] = e] IN
         /\ r \in Seq(S) /\ Len(r) = Len(q) /\ r[i] = e
         /\ \A j \in 1..Len(q) : j # i => r[j] = q[j]
  OBVIOUS

LEMMA AppendAt ==
  ASSUME NEW S, NEW q \in Seq(S), NEW e \in S
  PROVE  LET r == Append(q, e) IN
         /\ r \in Seq(S) /\ Len(r) = Len(q) + 1 /\ r[Len(r)] = e
         /\ \A j \in 1..Len(q) : r[j] = q[j]
  OBVIOUS

LEMMA TailAt ==
  ASSUME NEW S, NEW q \in Seq(S), q # <<>>
  PROVE  /\ Tail(q) \in Seq(S) /\ Len(Tail(q)) = Len(q) - 1
         /\ \A j \in 1..(Len(q) - 1) : Tail(q)[j] = q[j + 1]
  OBVIOUS

LEMMA EmptyOrNot ==
  ASSUME NEW S, NEW q \in Seq(S)
  PROVE  Len(q) \in Nat /\ (q = <<>> <=> Len(q) = 0)
  OBVIOUS

LEMMA OneAt ==
  ASSUME NEW S, NEW e \in S
  PROVE  <<e>> \in Seq(S) /\ Len(<<e>>) = 1 /\ <<e>>[1] = e /\ <<e>> # <<>>
  OBVIOUS

-----------------------------------------------------------------------------
(* What a plan leaves of a queue, place by place.                          *)

\* The change `e` ends the queue, behind all of it or in place of its newest.
Ended(q, q2, e) ==
  \/ Len(q2) = Len(q) + 1 /\ q2[Len(q2)] = e /\ \A i \in 1..Len(q) : q2[i] = q[i]
  \/ Len(q) > 0 /\ Len(q2) = Len(q) /\ q2[Len(q2)] = e /\ \A i \in 1..(Len(q) - 1) : q2[i] = q[i]

LEMMA FreshIsEntry ==
  ASSUME ThemeAssumption, NEW t \in Ids, NEW op \in {"put", "delete"}, NEW text \in Texts,
         NEW base \in Int, NEW k \in 0..MaxKeys
  PROVE  Fresh(t, op, text, base, k) \in Entry
  BY DEF Fresh, Entry, Holds, ThemeAssumption

LEMMA RemoteBase ==
  ASSUME NEW n \in Noted
  PROVE  FromRemote(n) \in Nat
  BY DEF FromRemote, Noted, None

\* The same change, tried or held; what has left stays left.
Same(e, f) ==
  /\ f.id = e.id /\ f.op = e.op /\ f.text = e.text /\ f.base = e.base /\ f.key = e.key
  /\ e.sent => f.sent
Alike(q, q2) == Len(q2) = Len(q) /\ \A i \in 1..Len(q) : Same(q[i], q2[i])

LEMMA PutEnds ==
  ASSUME ThemeAssumption, NEW t \in Ids, NEW q, SoundQueue(q, t), NEW n \in Noted,
         NEW text \in Texts \ {0}, NEW k \in Keys
  PROVE  LET q2 == PlanPut(q, n, t, text, k) IN
         \E base \in Int, key \in Keys :
           /\ q2 \in Seq(Entry) /\ q2 # <<>> /\ Ended(q, q2, Fresh(t, "put", text, base, key))
           /\ Len(q2) = Len(q) => /\ LastOf(q).op = "put" /\ NotReached(LastOf(q)) /\ base = LastOf(q).base
                                  /\ key = k \/ (Unsent(LastOf(q)) /\ key = LastOf(q).key)
           /\ Len(q2) # Len(q) => key = k /\ base = IF q = <<>> THEN FromRemote(n) ELSE Previous
<1> DEFINE q2 == PlanPut(q, n, t, text, k)
<1>1. q \in Seq(Entry) /\ Len(q) \in Nat /\ (q = <<>> <=> Len(q) = 0) /\ k \in 0..MaxKeys /\ text \in Texts
  BY EmptyOrNot DEF SoundQueue, Keys, ThemeAssumption
<1>2. CASE q = <<>>
  <2>1. Fresh(t, "put", text, FromRemote(n), k) \in Entry
    BY <1>1, FreshIsEntry, RemoteBase
  <2>2. q2 = <<Fresh(t, "put", text, FromRemote(n), k)>>
    BY <1>2 DEF PlanPut
  <2>3. Ended(q, q2, Fresh(t, "put", text, FromRemote(n), k)) /\ Len(q2) = 1 /\ q2 # <<>> /\ q2 \in Seq(Entry)
    BY <2>1, <2>2, <1>1, <1>2, OneAt DEF Ended
  <2> QED BY <2>3, <1>1, <1>2, RemoteBase
<1>3. CASE q # <<>> /\ LastOf(q).op = "put" /\ NotReached(LastOf(q))
  <2> DEFINE key == IF Unsent(LastOf(q)) THEN LastOf(q).key ELSE k
             e == Fresh(t, "put", text, LastOf(q).base, key)
  <2>1. LastOf(q) \in Entry /\ LastOf(q).key # 0 /\ Len(q) \in 1..Len(q)
    BY <1>1, <1>3 DEF SoundQueue, Whole, LastOf
  <2>2. LastOf(q).base \in Int /\ key \in Keys /\ key \in 0..MaxKeys
    BY <2>1, <1>1 DEF Entry, Keys, ThemeAssumption
  <2>3. e \in Entry
    BY <2>2, <1>1, FreshIsEntry
  <2>4. q2 = [q EXCEPT ![Len(q)] = e]
    BY <1>3 DEF PlanPut
  <2> HIDE DEF e
  <2>5. q2 \in Seq(Entry) /\ Len(q2) = Len(q) /\ q2 # <<>> /\ Ended(q, q2, e)
    BY <2>1, <2>3, <2>4, <1>1, <1>3, EditAt DEF Ended
  <2> QED BY <2>2, <2>5, <1>3 DEF e
<1>4. CASE q # <<>> /\ ~(LastOf(q).op = "put" /\ NotReached(LastOf(q)))
  <2> DEFINE e == Fresh(t, "put", text, Previous, k)
  <2>1. e \in Entry
    BY <1>1, FreshIsEntry DEF Previous
  <2>2. q2 = Append(q, e)
    BY <1>4 DEF PlanPut
  <2> HIDE DEF e
  <2>3. q2 \in Seq(Entry) /\ Len(q2) = Len(q) + 1 /\ q2 # <<>> /\ Ended(q, q2, e)
    BY <2>1, <2>2, <1>1, AppendAt DEF Ended
  <2> QED BY <2>3, <1>1, <1>4 DEF e, Previous
<1> QED BY <1>2, <1>3, <1>4

LEMMA DeleteEnds ==
  ASSUME ThemeAssumption, NEW t \in Ids, NEW q, SoundQueue(q, t), NEW n \in Noted,
         NEW text \in Texts, NEW k \in Keys
  PROVE  LET q2 == PlanDelete(q, n, t, text, k) IN
         \/ q2 = <<>> /\ IF q = <<>> THEN FromRemote(n) = None ELSE q[1].base = None /\ NotReached(q[1])
         \/ \E base \in Int \ {None} :
              /\ q2 \in Seq(Entry) /\ q2 # <<>> /\ Ended(q, q2, Fresh(t, "delete", text, base, k))
              /\ Len(q2) = Len(q) => Len(q) = 1 /\ NotReached(q[1]) /\ base = q[1].base
              /\ Len(q2) # Len(q) => base = IF q = <<>> THEN FromRemote(n) ELSE Previous
<1> DEFINE q2 == PlanDelete(q, n, t, text, k)
           none == \A i \in 1..Len(q) : NotReached(q[i])
<1>1. q \in Seq(Entry) /\ Len(q) \in Nat /\ (q = <<>> <=> Len(q) = 0) /\ k \in 0..MaxKeys
  BY EmptyOrNot DEF SoundQueue, Keys, ThemeAssumption
<1>2. CASE q = <<>>
  <2>1. Fresh(t, "delete", text, FromRemote(n), k) \in Entry
    BY <1>1, FreshIsEntry, RemoteBase
  <2>2. CASE FromRemote(n) = None
    BY <1>2, <2>2 DEF PlanDelete
  <2>3. CASE FromRemote(n) # None
    <3>1. q2 = <<Fresh(t, "delete", text, FromRemote(n), k)>>
      BY <1>2, <2>3 DEF PlanDelete
    <3>2. Ended(q, q2, Fresh(t, "delete", text, FromRemote(n), k)) /\ Len(q2) = 1 /\ q2 # <<>> /\ q2 \in Seq(Entry)
      BY <2>1, <3>1, <1>1, <1>2, OneAt DEF Ended
    <3> QED BY <3>2, <2>3, <1>1, <1>2, RemoteBase
  <2> QED BY <2>2, <2>3
<1>3. CASE q # <<>> /\ none /\ q[1].base = None
  <2>1. NotReached(q[1])
    BY <1>1, <1>3
  <2> QED BY <1>3, <2>1 DEF PlanDelete
<1>4. CASE q # <<>> /\ none /\ q[1].base # None /\ Len(q) = 1 /\ q[1].base # Previous
  <2> DEFINE e == Fresh(t, "delete", text, q[1].base, k)
  <2>1. q[1] \in Entry
    BY <1>1, <1>4
  <2>2. q[1].base \in Int
    BY <2>1 DEF Entry
  <2>3. e \in Entry
    BY <2>2, <1>1, FreshIsEntry
  <2>4. q2 = <<e>>
    BY <1>4 DEF PlanDelete
  <2> HIDE DEF e
  <2>5. q2 \in Seq(Entry) /\ Len(q2) = 1 /\ q2 # <<>> /\ Ended(q, q2, e)
    BY <2>3, <2>4, <1>1, <1>4, OneAt DEF Ended
  <2> QED BY <2>2, <2>5, <1>1, <1>4 DEF e
<1>5. CASE q # <<>> /\ ~(none /\ q[1].base = None) /\ ~(none /\ Len(q) = 1 /\ q[1].base # Previous)
  <2> DEFINE e == Fresh(t, "delete", text, Previous, k)
  <2>1. e \in Entry
    BY <1>1, FreshIsEntry DEF Previous
  <2>2. q2 = Append(q, e)
    BY <1>5 DEF PlanDelete
  <2> HIDE DEF e
  <2>3. q2 \in Seq(Entry) /\ Len(q2) = Len(q) + 1 /\ q2 # <<>> /\ Ended(q, q2, e)
    BY <2>1, <2>2, <1>1, AppendAt DEF Ended
  <2> QED BY <2>3, <1>1, <1>5 DEF e, Previous, None
<1> QED BY <1>2, <1>3, <1>4, <1>5

\* An entry as it is marked, freed of its hold, or given its base.
Outgone(e, tries, hold) == [e EXCEPT !.sent = TRUE, !.tries = tries, !.hold = hold]
Freed(e)       == [e EXCEPT !.hold = "none", !.tries = 0]
Based(e, base) == [e EXCEPT !.base = base]

LEMMA OutgoneIsEntry ==
  ASSUME NEW e \in Entry, NEW tries \in 0..(Tries + 1), NEW hold \in Holds
  PROVE  /\ Outgone(e, tries, hold) \in Entry /\ Same(e, Outgone(e, tries, hold))
         /\ Outgone(e, tries, hold).sent /\ Outgone(e, tries, hold).tries = tries
         /\ Outgone(e, tries, hold).hold = hold
<1> DEFINE a == [e EXCEPT !.sent = TRUE]
           b == [a EXCEPT !.tries = tries]
           c == [b EXCEPT !.hold = hold]
<1>1. a \in Entry /\ Same(e, a) /\ a.sent
  BY DEF Entry, Same
<1> HIDE DEF a
<1>2. b \in Entry /\ Same(a, b) /\ b.sent /\ b.tries = tries
  BY <1>1 DEF Entry, Same
<1> HIDE DEF b
<1>3. c \in Entry /\ Same(b, c) /\ c.sent /\ c.tries = tries /\ c.hold = hold
  BY <1>2 DEF Entry, Same
<1>4. c = Outgone(e, tries, hold)
  BY DEF a, b, Outgone
<1> HIDE DEF c
<1>5. Same(e, c)
  BY <1>1, <1>2, <1>3 DEF Same
<1> QED BY <1>3, <1>4, <1>5

LEMMA FreedIsEntry ==
  ASSUME ThemeAssumption, NEW e \in Entry
  PROVE  Freed(e) \in Entry /\ Same(e, Freed(e)) /\ Freed(e).sent = e.sent /\ Freed(e).hold = "none"
<1> DEFINE a == [e EXCEPT !.hold = "none"]
           b == [a EXCEPT !.tries = 0]
<1>1. a \in Entry /\ Same(e, a) /\ a.sent = e.sent /\ a.hold = "none"
  BY DEF Entry, Same, Holds
<1> HIDE DEF a
<1>2. b \in Entry /\ Same(a, b) /\ b.sent = a.sent /\ b.hold = "none"
  BY <1>1 DEF Entry, Same, ThemeAssumption
<1>3. b = Freed(e)
  BY DEF a, Freed
<1> HIDE DEF b
<1>4. Same(e, b)
  BY <1>1, <1>2 DEF Same
<1> QED BY <1>1, <1>2, <1>3, <1>4

LEMMA BasedIsEntry ==
  ASSUME NEW e \in Entry, NEW base \in Int
  PROVE  LET f == Based(e, base) IN
         /\ f \in Entry /\ f.base = base /\ f.id = e.id /\ f.op = e.op /\ f.text = e.text /\ f.key = e.key
         /\ f.sent = e.sent /\ f.tries = e.tries /\ f.hold = e.hold
  BY DEF Entry, Based

\* The oldest change is marked, whatever it is marked with.
LEMMA MarkedAlike ==
  ASSUME NEW t \in Ids, NEW q, SoundQueue(q, t), q # <<>>,
         NEW tries \in 0..(Tries + 1), NEW hold \in Holds
  PROVE  LET q2 == MarkedAs(q, tries, hold) IN
         /\ q2 \in Seq(Entry) /\ Alike(q, q2) /\ q2 # <<>>
         /\ q2[1] = Outgone(q[1], tries, hold) /\ q2[1].sent /\ q2[1].tries = tries /\ q2[1].hold = hold
         /\ \A i \in 2..Len(q) : q2[i] = q[i]
<1> DEFINE e == Outgone(q[1], tries, hold)
           q2 == MarkedAs(q, tries, hold)
<1>1. q \in Seq(Entry) /\ Len(q) \in Nat /\ 1 \in 1..Len(q) /\ q[1] \in Entry
  BY EmptyOrNot DEF SoundQueue
<1>2. e \in Entry /\ Same(q[1], e) /\ e.sent /\ e.tries = tries /\ e.hold = hold
  BY <1>1, OutgoneIsEntry
<1>3. q2 = [q EXCEPT ![1] = e]
  BY DEF MarkedAs, Outgone
<1> HIDE DEF e, q2
<1>4. q2 \in Seq(Entry) /\ Len(q2) = Len(q) /\ q2[1] = e /\ \A j \in 1..Len(q) : j # 1 => q2[j] = q[j]
  BY <1>1, <1>2, <1>3, EditAt
<1>5. \A j \in 1..Len(q) : Same(q[j], q2[j])
  BY <1>2, <1>4 DEF Same
<1>6. q2 # <<>> /\ Alike(q, q2) /\ \A i \in 2..Len(q) : q2[i] = q[i]
  BY <1>1, <1>4, <1>5 DEF Alike
<1> QED BY <1>2, <1>4, <1>6 DEF e, q2

\* Holds and tries are all that a release takes off.
LEMMA ReleasedAlike ==
  ASSUME ThemeAssumption, NEW qs, \A t \in Ids : SoundQueue(qs[t], t), NEW hold, NEW backoff \in BOOLEAN, NEW t \in Ids
  PROVE  LET q2 == Released(qs, hold, backoff)[t] IN
         /\ q2 \in Seq(Entry) /\ Alike(qs[t], q2)
         /\ \A i \in 1..Len(q2) : /\ q2[i].sent = qs[t][i].sent
                                  /\ qs[t][i].hold = "none" => q2[i].hold = "none"
<1> DEFINE q == qs[t]
           f(i) == IF q[i].hold = hold \/ (backoff /\ q[i].hold = "none") THEN Freed(q[i]) ELSE q[i]
           q2 == Released(qs, hold, backoff)[t]
<1>1. q \in Seq(Entry) /\ Len(q) \in Nat
  BY EmptyOrNot DEF SoundQueue
<1>2. q2 = [i \in 1..Len(q) |-> f(i)]
  BY DEF Released, Freed
<1> HIDE DEF q, q2
<1>3. ASSUME NEW i \in 1..Len(q)
      PROVE  /\ f(i) \in Entry /\ Same(q[i], f(i)) /\ f(i).sent = q[i].sent
             /\ q[i].hold = "none" => f(i).hold = "none"
  <2>1. q[i] \in Entry
    BY <1>1
  <2> QED BY <2>1, FreedIsEntry DEF Same
<1> HIDE DEF f
<1>4. q2 \in Seq(Entry) /\ Len(q2) = Len(q) /\ \A i \in 1..Len(q) : q2[i] = f(i)
  BY <1>1, <1>2, <1>3
<1> QED BY <1>3, <1>4 DEF Alike, q, q2

\* After an answer the oldest change is off the queue, and the next knows its base.
LEMMA FollowingLeaves ==
  ASSUME NEW t \in Ids, NEW q, SoundQueue(q, t), q # <<>>, NEW live \in BOOLEAN, NEW rev \in Nat
  PROVE  LET q2 == Following(q, live, rev) IN
         \/ q2 = <<>> /\ (Len(q) = 1 \/ (Len(q) = 2 /\ ~live /\ q[2].op = "delete"))
         \/ /\ q2 \in Seq(Entry) /\ Len(q2) = Len(q) - 1 /\ Len(q) > 1
            /\ q2[1] = Based(q[2], IF live THEN rev ELSE None) /\ q2[1] \in Entry
            /\ \A i \in 2..Len(q2) : q2[i] = q[i + 1]
            /\ live \/ q[2].op = "put"
<1> DEFINE q2 == Following(q, live, rev)
           rest == Tail(q)
           after == Tail(rest)
           base == IF live THEN rev ELSE None
           e == Based(q[2], base)
<1>1. q \in Seq(Entry) /\ Len(q) \in Nat /\ Len(q) >= 1
  BY EmptyOrNot DEF SoundQueue
<1>8. Len(q) \in Nat /\ Len(q) >= 1
  BY <1>1
<1>2. rest \in Seq(Entry) /\ Len(rest) = Len(q) - 1 /\ \A j \in 1..Len(rest) : rest[j] = q[j + 1]
  BY <1>1, TailAt
<1>3. q2 = IF rest = <<>> \/ rest[1].base # Previous THEN rest
           ELSE IF live THEN [rest EXCEPT ![1] = Based(@, rev)]
           ELSE IF rest[1].op = "put" THEN [rest EXCEPT ![1] = Based(@, None)]
           ELSE IF after = <<>> \/ after[1].base # Previous THEN after
           ELSE [after EXCEPT ![1] = Based(@, None)]
  BY DEF Following, Based
<1>4. rest # <<>> => after \in Seq(Entry) /\ Len(after) = Len(rest) - 1
  BY <1>2, TailAt
<1> HIDE DEF q2, rest, after, e, base
<1>5. CASE Len(q) = 1
  <2>1. rest = <<>>
    BY <1>2, <1>5, EmptyOrNot
  <2> QED BY <2>1, <1>3, <1>5 DEF q2
<1>6. CASE Len(q) > 1
  <2>1. rest # <<>> /\ rest[1] = q[2] /\ q[2].base = Previous /\ q[2] \in Entry /\ 1 \in 1..Len(rest)
    BY <1>1, <1>2, <1>6, EmptyOrNot DEF SoundQueue
  <2>2. e \in Entry
    BY <2>1, BasedIsEntry DEF e, base, None
  <2>3. CASE live \/ q[2].op = "put"
    <3>1. q2 = [rest EXCEPT ![1] = e]
      BY <2>1, <2>3, <1>3 DEF e, base
    <3>2. q2 \in Seq(Entry) /\ Len(q2) = Len(rest) /\ q2[1] = e /\ \A j \in 1..Len(rest) : j # 1 => q2[j] = rest[j]
      BY <3>1, <2>1, <2>2, <1>2, EditAt
    <3>3. Len(q2) = Len(q) - 1 /\ \A i \in 2..Len(q2) : q2[i] = q[i + 1]
      BY <3>2, <1>1, <1>2, <1>6
    <3> QED BY <3>2, <3>3, <2>2, <2>3, <1>6 DEF e, base, q2
  <2>4. CASE ~(live \/ q[2].op = "put")
    <3>1. q[2].op = "delete"
      BY <2>1, <2>4 DEF Entry
    <3>5. \A i \in 1..(Len(q) - 1) : q[i].op = "put"
      BY DEF SoundQueue
    <3>2. Len(q) = 2
      <4>1. \A n \in Nat : n > 1 /\ n # 2 => 2 \in 1..(n - 1)
        OBVIOUS
      <4> QED BY <4>1, <3>1, <3>5, <1>8, <1>6
    <3>3. after = <<>>
      BY <3>2, <2>1, <1>2, <1>4, EmptyOrNot
    <3>4. q2 = <<>>
      BY <3>3, <2>1, <2>4, <1>3
    <3> QED BY <3>1, <3>2, <3>4, <2>4 DEF q2
  <2> QED BY <2>3, <2>4
<1>7. Len(q) = 1 \/ Len(q) > 1
  BY <1>8
<1> QED BY <1>5, <1>6, <1>7

\* A refusal marks the oldest change, or folds what is queued behind it into it.
LEMMA RefusedLeaves ==
  ASSUME ThemeAssumption, NEW t \in Ids, NEW q, SoundQueue(q, t), q # <<>>, NEW hold \in Holds,
         NEW tries \in 0..(Tries + 1), NEW k \in Keys
  PROVE  LET q2 == PlanRefused(q, hold, tries, k) IN
         \/ q2 = MarkedAs(q, tries, hold)
         \/ q2 = <<>> /\ Len(q) > 1 /\ LastOf(q).op = "delete" /\ q[1].base = None
         \/ /\ Len(q) > 1 /\ (LastOf(q).op = "delete" => q[1].base # None)
            /\ q2 = <<Fresh(t, LastOf(q).op, LastOf(q).text, q[1].base, k)>>
            /\ q2 \in Seq(Entry) /\ Len(q2) = 1 /\ q2 # <<>>
            /\ q2[1] = Fresh(t, LastOf(q).op, LastOf(q).text, q[1].base, k)
<1> DEFINE q2 == PlanRefused(q, hold, tries, k)
           e == Fresh(t, LastOf(q).op, LastOf(q).text, q[1].base, k)
<1>1. q \in Seq(Entry) /\ Len(q) \in Nat /\ Len(q) >= 1 /\ q[1].id = t /\ q[1] \in Entry /\ LastOf(q) \in Entry
  BY EmptyOrNot DEF SoundQueue, LastOf
<1>2. CASE Len(q) = 1 \/ q[1].base = Previous \/ \E i \in 2..Len(q) : ~Unsent(q[i])
  BY <1>2 DEF PlanRefused, MarkedAs
<1>3. CASE ~(Len(q) = 1 \/ q[1].base = Previous \/ \E i \in 2..Len(q) : ~Unsent(q[i]))
  <2>1. e \in Entry
    <3>1. LastOf(q).op \in {"put", "delete"} /\ LastOf(q).text \in Texts /\ q[1].base \in Int /\ k \in 0..MaxKeys
      BY <1>1, SMTT(60) DEF Entry, Keys, ThemeAssumption
    <3> QED BY <3>1, FreshIsEntry
  <2>2. q2 = IF LastOf(q).op = "delete" /\ q[1].base = None THEN <<>> ELSE <<e>>
    BY <1>3, <1>1 DEF PlanRefused
  <2> HIDE DEF e
  <2>3. <<e>> \in Seq(Entry) /\ Len(<<e>>) = 1 /\ <<e>> # <<>> /\ <<e>>[1] = e
    BY <2>1, OneAt
  <2> QED BY <2>2, <2>3, <1>1, <1>3 DEF e
<1> QED BY <1>2, <1>3

-----------------------------------------------------------------------------
(* A plan leaves a sound queue, and what has left at its head.             *)

\* Ending a sound queue with a change that is not yet sent leaves a sound queue.
LEMMA EndedSound ==
  ASSUME NEW t \in Ids, NEW q, SoundQueue(q, t), NEW q2 \in Seq(Entry), NEW e, e.id = t, Whole(e), Unsent(e),
         Ended(q, q2, e), q # <<>> => LastOf(q).op = "put",
         Len(q2) = Len(q) => e.base = LastOf(q).base,
         Len(q2) # Len(q) => ((q = <<>>) <=> (e.base # Previous))
  PROVE  SoundQueue(q2, t) /\ LastOf(q2) = e /\ q2 # <<>>
<1>1. q \in Seq(Entry) /\ Len(q) \in Nat /\ (q = <<>> <=> Len(q) = 0) /\ Len(q2) \in Nat
  BY EmptyOrNot DEF SoundQueue
<1>2. q # <<>> => q[Len(q)].op = "put" /\ q[1].base # Previous
  BY DEF LastOf, SoundQueue
<1>3. /\ \A i \in 1..Len(q) : q[i].id = t /\ Whole(q[i])
      /\ \A i \in 2..Len(q) : q[i].base = Previous /\ Unsent(q[i])
      /\ \A i \in 1..(Len(q) - 1) : q[i].op = "put"
  BY DEF SoundQueue
<1>4. CASE Len(q2) = Len(q) + 1 /\ q2[Len(q2)] = e /\ \A i \in 1..Len(q) : q2[i] = q[i]
  <2>1. \A i \in 1..Len(q2) : (i \in 1..Len(q) /\ q2[i] = q[i]) \/ (i = Len(q2) /\ q2[i] = e)
    BY <1>1, <1>4
  <2>2. q = <<>> => Len(q2) = 1
    BY <1>1, <1>4
  <2>3. Len(q2) # Len(q) /\ Len(q2) > 0
    BY <1>1, <1>4
  <2>4. \A i \in 1..Len(q2) : q2[i].id = t /\ Whole(q2[i])
    BY <2>1, <1>3
  <2>5. q2[1].base # Previous
    <3>1. CASE q = <<>>
      BY <3>1, <2>2, <2>3, <1>4
    <3>2. CASE q # <<>>
      <4>1. q2[1] = q[1]
        BY <3>2, <1>1, <1>4
      <4> QED BY <3>2, <4>1, <1>2
    <3> QED BY <3>1, <3>2
  <2>6. \A i \in 2..Len(q2) : q2[i].base = Previous /\ Unsent(q2[i])
    <3> TAKE i \in 2..Len(q2)
    <3>1. (i \in 2..Len(q) /\ q2[i] = q[i]) \/ (q # <<>> /\ q2[i] = e)
      BY <2>1, <2>2, <1>1
    <3> QED BY <3>1, <2>3, <1>3
  <2>7. \A i \in 1..(Len(q2) - 1) : q2[i].op = "put"
    <3> TAKE i \in 1..(Len(q2) - 1)
    <3>1. i \in 1..Len(q) /\ q2[i] = q[i] /\ q # <<>>
      BY <1>1, <1>4
    <3>2. i \in 1..(Len(q) - 1) \/ i = Len(q)
      BY <3>1, <1>1
    <3> QED BY <3>1, <3>2, <1>2, <1>3
  <2>8. LastOf(q2) = e /\ q2 # <<>>
    BY <1>4, <2>3 DEF LastOf
  <2> QED BY <2>4, <2>5, <2>6, <2>7, <2>8 DEF SoundQueue
<1>5. CASE Len(q) > 0 /\ Len(q2) = Len(q) /\ q2[Len(q2)] = e /\ \A i \in 1..(Len(q) - 1) : q2[i] = q[i]
  <2>1. \A i \in 1..Len(q2) : (i \in 1..(Len(q) - 1) /\ q2[i] = q[i]) \/ (i = Len(q) /\ q2[i] = e)
    BY <1>1, <1>5
  <2>2. q # <<>> /\ e.base = q[Len(q)].base
    BY <1>1, <1>5 DEF LastOf
  <2>4. \A i \in 1..Len(q2) : q2[i].id = t /\ Whole(q2[i])
    BY <2>1, <1>1, <1>3
  <2>5. q2[1].base # Previous
    <3>1. (Len(q) > 1 /\ q2[1] = q[1]) \/ (Len(q) = 1 /\ q2[1] = e)
      BY <1>1, <1>5
    <3> QED BY <3>1, <1>2, <2>2
  <2>6. \A i \in 2..Len(q2) : q2[i].base = Previous /\ Unsent(q2[i])
    <3> TAKE i \in 2..Len(q2)
    <3>1. i \in 2..Len(q) /\ i \in 1..Len(q2)
      BY <1>1, <1>5
    <3>2. q[i].base = Previous /\ Unsent(q[i])
      BY <3>1, <1>3
    <3> QED BY <3>1, <3>2, <2>1, <2>2
  <2>7. \A i \in 1..(Len(q2) - 1) : q2[i].op = "put"
    BY <1>5, <1>3
  <2>8. LastOf(q2) = e /\ q2 # <<>>
    BY <1>5 DEF LastOf
  <2> QED BY <2>4, <2>5, <2>6, <2>7, <2>8 DEF SoundQueue
<1> QED BY <1>4, <1>5 DEF Ended

\* What left, and waits for its answer, stays at the head.
LEMMA EndedHead ==
  ASSUME NEW q \in Seq(Entry), NEW q2 \in Seq(Entry), NEW e, Ended(q, q2, e), q # <<>>, q[1].sent, q[1].hold = "none",
         Len(q2) = Len(q) => NotReached(LastOf(q))
  PROVE  q2 # <<>> /\ q2[1] = q[1]
<1>1. Len(q) \in Nat /\ Len(q) >= 1 /\ Len(q2) \in Nat /\ (q2 = <<>> <=> Len(q2) = 0)
  BY EmptyOrNot
<1>2. Len(q2) = Len(q) => Len(q) # 1
  BY DEF NotReached, Unsent, Refused, LastOf
<1>3. Len(q2) >= 1 /\ q2[1] = q[1]
  <2>1. CASE Len(q2) = Len(q) + 1 /\ \A i \in 1..Len(q) : q2[i] = q[i]
    BY <2>1, <1>1
  <2>2. CASE Len(q2) = Len(q) /\ \A i \in 1..(Len(q) - 1) : q2[i] = q[i]
    <3>1. 1 \in 1..(Len(q) - 1)
      BY <2>2, <1>1, <1>2
    <3> QED BY <2>2, <3>1, <1>1
  <2> QED BY <2>1, <2>2 DEF Ended
<1> QED BY <1>1, <1>3

LEMMA EmptySound == ASSUME NEW t PROVE SoundQueue(<<>>, t) /\ \A row : Fits(<<>>, row)
  BY DEF SoundQueue, Fits

LEMMA PutSound ==
  ASSUME ThemeAssumption, NEW t \in Ids, NEW q, SoundQueue(q, t), NEW n \in Noted, NEW text \in Texts \ {0},
         NEW k \in Keys, NEW row, Fits(q, row), q = <<>> \/ row.state = "saved"
  PROVE  LET q2 == PlanPut(q, n, t, text, k) IN
         /\ SoundQueue(q2, t) /\ Fits(q2, [state |-> "saved", text |-> text])
         /\ q # <<>> /\ q[1].sent /\ q[1].hold = "none" => q2 # <<>> /\ q2[1] = q[1]
<1> DEFINE q2 == PlanPut(q, n, t, text, k)
<1> HIDE DEF q2
<1>1. q # <<>> => LastOf(q).op = "put"
  BY DEF Fits
<1>2. q \in Seq(Entry)
  BY DEF SoundQueue
<1>3. PICK base \in Int, key \in Keys :
           /\ q2 \in Seq(Entry) /\ q2 # <<>> /\ Ended(q, q2, Fresh(t, "put", text, base, key))
           /\ Len(q2) = Len(q) => /\ LastOf(q).op = "put" /\ NotReached(LastOf(q)) /\ base = LastOf(q).base
                                  /\ key = k \/ (Unsent(LastOf(q)) /\ key = LastOf(q).key)
           /\ Len(q2) # Len(q) => key = k /\ base = IF q = <<>> THEN FromRemote(n) ELSE Previous
  BY PutEnds DEF q2
<1>4. base >= Previous /\ (Len(q2) # Len(q) => ((q = <<>>) <=> (base # Previous)))
  <2>1. FromRemote(n) \in Nat
    BY RemoteBase
  <2>2. CASE Len(q2) = Len(q)
    <3>1. Len(q) \in Nat /\ Len(q) # 0
      BY <1>2, <1>3, <2>2, EmptyOrNot
    <3>2. Whole(LastOf(q))
      BY <3>1 DEF SoundQueue, LastOf
    <3> QED BY <2>2, <3>2, <1>3 DEF Whole
  <2> QED BY <2>1, <2>2, <1>3 DEF Previous
<1> DEFINE e == Fresh(t, "put", text, base, key)
<1>5. e.id = t /\ Whole(e) /\ Unsent(e) /\ e.base = base /\ e.op = "put" /\ e.text = text
  BY <1>4 DEF Fresh, Whole, Unsent, Keys
<1> HIDE DEF e
<1>6. Ended(q, q2, e)
  BY <1>3 DEF e
<1>7. SoundQueue(q2, t) /\ LastOf(q2) = e
  BY <1>1, <1>3, <1>4, <1>5, <1>6, EndedSound
<1>8. Fits(q2, [state |-> "saved", text |-> text])
  BY <1>5, <1>7 DEF Fits
<1>9. q # <<>> /\ q[1].sent /\ q[1].hold = "none" => q2 # <<>> /\ q2[1] = q[1]
  BY <1>2, <1>3, <1>6, EndedHead
<1> QED BY <1>7, <1>8, <1>9 DEF q2

LEMMA DeleteSound ==
  ASSUME ThemeAssumption, NEW t \in Ids, NEW q, SoundQueue(q, t), NEW n \in Noted, NEW text \in Texts,
         NEW k \in Keys, NEW row, Fits(q, row), row.state = "saved"
  PROVE  LET q2 == PlanDelete(q, n, t, text, k) IN
         /\ SoundQueue(q2, t) /\ Fits(q2, [state |-> "gone", text |-> Gone])
         /\ q # <<>> /\ q[1].sent /\ q[1].hold = "none" => q2 # <<>> /\ q2[1] = q[1]

<1> DEFINE q2 == PlanDelete(q, n, t, text, k)
<1> HIDE DEF q2
<1>1. q # <<>> => LastOf(q).op = "put"
  BY DEF Fits
<1>2. q \in Seq(Entry)
  BY DEF SoundQueue
<1>3. CASE q2 = <<>> /\ IF q = <<>> THEN FromRemote(n) = None ELSE q[1].base = None /\ NotReached(q[1])
  BY <1>3, EmptySound DEF q2, NotReached, Unsent, Refused
<1>4. ASSUME NEW base \in Int \ {None},
             q2 \in Seq(Entry), q2 # <<>>, Ended(q, q2, Fresh(t, "delete", text, base, k)),
             Len(q2) = Len(q) => Len(q) = 1 /\ NotReached(q[1]) /\ base = q[1].base,
             Len(q2) # Len(q) => base = IF q = <<>> THEN FromRemote(n) ELSE Previous
      PROVE  /\ SoundQueue(q2, t) /\ Fits(q2, [state |-> "gone", text |-> Gone])
             /\ q # <<>> /\ q[1].sent /\ q[1].hold = "none" => q2 # <<>> /\ q2[1] = q[1]
  <2>1. FromRemote(n) \in Nat
    BY RemoteBase
  <2>2. base >= Previous /\ (Len(q2) # Len(q) => ((q = <<>>) <=> (base # Previous)))
    <3>1. CASE Len(q2) = Len(q)
      <4>1. Whole(q[1])
        BY <1>4, <3>1 DEF SoundQueue
      <4> QED BY <3>1, <4>1, <1>4 DEF Whole
    <3> QED BY <2>1, <3>1, <1>4 DEF Previous
  <2> DEFINE e == Fresh(t, "delete", text, base, k)
  <2>3. e.id = t /\ Whole(e) /\ Unsent(e) /\ e.base = base /\ e.op = "delete" /\ e.text = text
    BY <2>2, <1>4 DEF Fresh, Whole, Unsent, Keys
  <2> HIDE DEF e
  <2>4. Ended(q, q2, e)
    BY <1>4 DEF e
  <2>5. Len(q2) = Len(q) => e.base = LastOf(q).base /\ NotReached(LastOf(q))
    BY <2>3, <1>4 DEF LastOf
  <2>6. SoundQueue(q2, t) /\ LastOf(q2) = e
    BY <1>1, <1>4, <2>2, <2>3, <2>4, <2>5, EndedSound
  <2>7. Fits(q2, [state |-> "gone", text |-> Gone])
    BY <2>3, <2>6 DEF Fits
  <2>8. q # <<>> /\ q[1].sent /\ q[1].hold = "none" => q2 # <<>> /\ q2[1] = q[1]
    BY <1>2, <1>4, <2>4, <2>5, EndedHead
  <2> QED BY <2>6, <2>7, <2>8
<1> QED BY <1>3, <1>4, DeleteEnds DEF q2

\* Marks, tries and holds do not make a queue unsound.
LEMMA AlikeSound ==
  ASSUME NEW t \in Ids, NEW q, SoundQueue(q, t), NEW q2 \in Seq(Entry), Alike(q, q2),
         \A i \in 2..Len(q) : Unsent(q2[i])
  PROVE  SoundQueue(q2, t) /\ \A row : Fits(q, row) => Fits(q2, row)
<1>1. q \in Seq(Entry) /\ Len(q) \in Nat /\ Len(q2) = Len(q) /\ (q = <<>> <=> Len(q) = 0) /\ (q2 = <<>> <=> q = <<>>)
  BY EmptyOrNot DEF SoundQueue, Alike
<1>2. \A i \in 1..Len(q) : /\ q2[i].id = q[i].id /\ q2[i].op = q[i].op /\ q2[i].text = q[i].text
                           /\ q2[i].base = q[i].base /\ q2[i].key = q[i].key
  BY DEF Alike, Same
<1>3. \A i \in 1..Len(q2) : q2[i].id = t /\ Whole(q2[i])
  BY <1>1, <1>2 DEF SoundQueue, Whole
<1>4. /\ q2 # <<>> => q2[1].base # Previous
      /\ \A i \in 2..Len(q2) : q2[i].base = Previous /\ Unsent(q2[i])
      /\ \A i \in 1..(Len(q2) - 1) : q2[i].op = "put"
  BY <1>1, <1>2 DEF SoundQueue
<1>5. q # <<>> => LastOf(q2).op = LastOf(q).op /\ LastOf(q2).text = LastOf(q).text
  BY <1>1, <1>2 DEF LastOf
<1> QED BY <1>1, <1>3, <1>4, <1>5 DEF SoundQueue, Fits

LEMMA MarkedSound ==
  ASSUME NEW t \in Ids, NEW q, SoundQueue(q, t), q # <<>>, NEW tries \in 0..(Tries + 1), NEW hold \in Holds
  PROVE  LET q2 == MarkedAs(q, tries, hold) IN SoundQueue(q2, t) /\ \A row : Fits(q, row) => Fits(q2, row)
<1> DEFINE q2 == MarkedAs(q, tries, hold)
<1>1. q2 \in Seq(Entry) /\ Alike(q, q2) /\ \A i \in 2..Len(q) : q2[i] = q[i]
  BY MarkedAlike
<1> HIDE DEF q2
<1>2. \A i \in 2..Len(q) : Unsent(q2[i])
  BY <1>1 DEF SoundQueue
<1>3. SoundQueue(q2, t) /\ \A row : Fits(q, row) => Fits(q2, row)
  BY <1>1, <1>2, AlikeSound
<1> QED BY <1>3 DEF q2

LEMMA ReleasedSound ==
  ASSUME ThemeAssumption, NEW qs, \A t \in Ids : SoundQueue(qs[t], t), NEW hold, NEW backoff \in BOOLEAN, NEW t \in Ids
  PROVE  LET q2 == Released(qs, hold, backoff)[t] IN SoundQueue(q2, t) /\ \A row : Fits(qs[t], row) => Fits(q2, row)
<1> DEFINE q2 == Released(qs, hold, backoff)[t]
<1>1. /\ q2 \in Seq(Entry) /\ Alike(qs[t], q2)
      /\ \A i \in 1..Len(q2) : q2[i].sent = qs[t][i].sent /\ (qs[t][i].hold = "none" => q2[i].hold = "none")
  BY ReleasedAlike
<1> HIDE DEF q2
<1>2. \A i \in 2..Len(qs[t]) : Unsent(q2[i])
  <2> TAKE i \in 2..Len(qs[t])
  <2>1. Unsent(qs[t][i])
    BY DEF SoundQueue
  <2>2. i \in 1..Len(q2)
    BY <1>1 DEF Alike
  <2> QED BY <2>1, <2>2, <1>1 DEF Unsent
<1>3. SoundQueue(q2, t) /\ \A row : Fits(qs[t], row) => Fits(q2, row)
  BY <1>1, <1>2, AlikeSound
<1> QED BY <1>3 DEF q2

LEMMA FollowingSound ==
  ASSUME NEW t \in Ids, NEW q, SoundQueue(q, t), q # <<>>, NEW live \in BOOLEAN, NEW rev \in Nat, live => rev >= 1
  PROVE  LET q2 == Following(q, live, rev) IN SoundQueue(q2, t) /\ \A row : Fits(q, row) => Fits(q2, row)
<1> DEFINE q2 == Following(q, live, rev)
           e == Based(q[2], IF live THEN rev ELSE None)
<1> HIDE DEF q2, e
<1>1. CASE q2 = <<>>
  BY <1>1, EmptySound DEF q2
<1>2. CASE /\ q2 \in Seq(Entry) /\ Len(q2) = Len(q) - 1 /\ Len(q) > 1
           /\ q2[1] = e /\ q2[1] \in Entry
           /\ \A i \in 2..Len(q2) : q2[i] = q[i + 1]
           /\ live \/ q[2].op = "put"
  <2>1. q \in Seq(Entry) /\ Len(q) \in Nat
    BY EmptyOrNot DEF SoundQueue
  <2>2. q[2] \in Entry
    BY <2>1, <1>2
  <2>3. q[2].id = t /\ Whole(q[2]) /\ Unsent(q[2])
    BY <2>1, <1>2 DEF SoundQueue
  <2>4. /\ e.base = (IF live THEN rev ELSE None) /\ e.id = t /\ e.op = q[2].op /\ e.text = q[2].text /\ e.key = q[2].key
        /\ e.hold = q[2].hold /\ e.sent = q[2].sent
    BY <2>2, <2>3, BasedIsEntry DEF e, None
  <2>5. Whole(e) /\ e.base # Previous
    BY <2>3, <2>4, <1>2 DEF Whole, None, Previous
  <2>6. \A i \in 1..Len(q2) : i = 1 \/ (i \in 2..Len(q2) /\ i + 1 \in 2..Len(q) /\ i + 1 \in 1..Len(q) /\ q2[i] = q[i + 1])
    BY <2>1, <1>2
  <2>7. \A i \in 1..Len(q2) : q2[i].id = t /\ Whole(q2[i])
    BY <2>4, <2>5, <2>6, <1>2 DEF SoundQueue
  <2>8. \A i \in 2..Len(q2) : q2[i].base = Previous /\ Unsent(q2[i])
    BY <2>1, <2>6, <1>2 DEF SoundQueue
  <2>9. \A i \in 1..(Len(q2) - 1) : q2[i].op = q[i + 1].op /\ i + 1 \in 1..(Len(q) - 1)
    BY <2>1, <2>4, <1>2, SMTT(60)
  <2>10. \A i \in 1..(Len(q2) - 1) : q2[i].op = "put"
    BY <2>9 DEF SoundQueue
  <2>11. SoundQueue(q2, t)
    BY <2>5, <2>7, <2>8, <2>10, <1>2 DEF SoundQueue
  <2>12. LastOf(q2).op = LastOf(q).op /\ LastOf(q2).text = LastOf(q).text
    <3>1. CASE Len(q) = 2
      BY <3>1, <2>4, <1>2 DEF LastOf
    <3>2. CASE Len(q) > 2
      BY <3>2, <2>1, <1>2 DEF LastOf
    <3> QED BY <3>1, <3>2, <2>1, <1>2
  <2> QED BY <2>11, <2>12 DEF Fits, q2
<1> QED BY <1>1, <1>2, FollowingLeaves DEF q2, e

LEMMA RefusedSound ==
  ASSUME ThemeAssumption, NEW t \in Ids, NEW q, SoundQueue(q, t), q # <<>>, NEW hold \in Holds,
         NEW tries \in 0..(Tries + 1), NEW k \in Keys
  PROVE  LET q2 == PlanRefused(q, hold, tries, k) IN SoundQueue(q2, t) /\ \A row : Fits(q, row) => Fits(q2, row)
<1> DEFINE q2 == PlanRefused(q, hold, tries, k)
           e == Fresh(t, LastOf(q).op, LastOf(q).text, q[1].base, k)
<1> HIDE DEF q2, e
<1>1. CASE q2 = MarkedAs(q, tries, hold)
  BY <1>1, MarkedSound DEF q2
<1>2. CASE q2 = <<>>
  BY <1>2, EmptySound DEF q2
<1>3. CASE /\ Len(q) > 1 /\ (LastOf(q).op = "delete" => q[1].base # None)
           /\ q2 \in Seq(Entry) /\ Len(q2) = 1 /\ q2 # <<>> /\ q2[1] = e
  <2>1. q \in Seq(Entry) /\ Len(q) \in Nat /\ Len(q) >= 1
    BY <1>3, EmptyOrNot DEF SoundQueue
  <2>2. Whole(q[1]) /\ Whole(LastOf(q)) /\ q[1].base # Previous
    BY <2>1 DEF SoundQueue, LastOf
  <2>3. e.id = t /\ Whole(e) /\ e.base # Previous /\ e.op = LastOf(q).op /\ e.text = LastOf(q).text
    BY <2>2, <1>3 DEF e, Whole, Fresh, Keys
  <2>4. SoundQueue(q2, t)
    BY <2>3, <1>3 DEF SoundQueue
  <2>5. LastOf(q2) = e
    BY <1>3 DEF LastOf
  <2> QED BY <2>3, <2>4, <2>5 DEF Fits, q2
<1> QED BY <1>1, <1>2, <1>3, RefusedLeaves DEF q2, e

-----------------------------------------------------------------------------
(* Every step leaves the whole of it sound.                                *)

LEMMA EmptyTypes ==
  ASSUME ThemeAssumption
  PROVE  /\ NoRow \in Row /\ NoNote \in Noted /\ NoAnswer \in Answer
         /\ NoList \in [revision : Int, live : Int, skipped : BOOLEAN] /\ 0 \in Texts
  BY DEF ThemeAssumption, NoRow, Row, NoNote, Noted, NoAnswer, Answer, NoList, Texts

\* The server's last text of a theme is the text at its revision.
LEMMA ServerTypes ==
  ASSUME TypeOK, ThemeAssumption, NEW t \in Ids
  PROVE  /\ Revision(t) \in Nat /\ Text(t) \in Texts /\ shelf[t] \in Seq(Texts)
         /\ shelf[t] = <<>> <=> Revision(t) = 0
         /\ shelf[t] # <<>> => Text(t) = shelf[t][Revision(t)]
         /\ Text(t) # Gone => Revision(t) >= 1
<1>1. shelf[t] \in Seq(Texts)
  BY DEF TypeOK
<1>2. Len(shelf[t]) \in Nat /\ (shelf[t] = <<>> <=> Len(shelf[t]) = 0)
  BY <1>1, EmptyOrNot
<1>3. shelf[t] # <<>> => shelf[t][Len(shelf[t])] \in Texts
  BY <1>1, <1>2
<1> QED BY <1>1, <1>2, <1>3, EmptyTypes DEF Revision, Text, LastOf, Gone

Bare(kind) == [NoAnswer EXCEPT !.kind = kind]

LEMMA ReplyTypes ==
  ASSUME TypeOK, ThemeAssumption, AnswersSound, NEW e \in Entry
  PROVE  /\ Reply(e) \in Answer
         /\ Reply(e).kind \in {"ok", "conflict"} /\ Reply(e).text # Gone => Reply(e).revision >= 1
         /\ Reply(e).kind = "ok" => Reply(e).text = After(e)
<1>1. e.id \in Ids /\ e.text \in Texts /\ After(e) \in Texts
  BY EmptyTypes DEF Entry, After, Gone
<1>2. /\ Revision(e.id) \in Nat /\ Text(e.id) \in Texts
      /\ Text(e.id) # Gone => Revision(e.id) >= 1
  BY <1>1, ServerTypes
<1> DEFINE r == CHOOSE p \in Prior(e) : TRUE
<1>3. Prior(e) # {} => r \in receipts /\ r.revision \in Nat /\ r.revision >= 1
  <2>1. Prior(e) # {} => r \in Prior(e)
    OBVIOUS
  <2>2. Prior(e) # {} => r \in receipts
    BY <2>1 DEF Prior
  <2> HIDE DEF r
  <2> QED BY <2>2 DEF AnswersSound, TypeOK
<1>4. Reply(e) = IF e.op = "put" /\ e.text \in Invalid THEN Bare("rejected")
                ELSE IF Prior(e) # {}
                  THEN IF r.fingerprint = Fingerprint(e) THEN [kind |-> "ok", revision |-> r.revision, text |-> After(e)]
                       ELSE Bare("reused")
                ELSE IF ~Expected(e) THEN [kind |-> "conflict", revision |-> Revision(e.id), text |-> Text(e.id)]
                ELSE IF ~Room(e) THEN Bare("full")
                ELSE [kind |-> "ok", revision |-> Revision(e.id) + 1, text |-> After(e)]
  BY Zenon DEF Reply, Bare
<1> HIDE DEF r
<1>5. \A kind \in {"rejected", "reused", "full"} : Bare(kind) \in Answer /\ Bare(kind).kind = kind
  BY EmptyTypes DEF NoAnswer, Answer, Bare
<1>6. CASE Reply(e) \in {Bare("rejected"), Bare("reused"), Bare("full")}
  BY <1>5, <1>6
<1>7. CASE Reply(e) = [kind |-> "conflict", revision |-> Revision(e.id), text |-> Text(e.id)]
  BY <1>2, <1>7 DEF Answer
<1>8. CASE Reply(e) = [kind |-> "ok", revision |-> Revision(e.id) + 1, text |-> After(e)]
  BY <1>1, <1>2, <1>8 DEF Answer
<1>9. CASE Prior(e) # {} /\ Reply(e) = [kind |-> "ok", revision |-> r.revision, text |-> After(e)]
  BY <1>1, <1>3, <1>9 DEF Answer
<1> QED BY <1>4, <1>6, <1>7, <1>8, <1>9

\* A request that is written is the theme's next revision.
LEMMA CarryShelf ==
  ASSUME TypeOK, ThemeAssumption, NEW e \in Entry, Carry(e)
  PROVE  /\ ~Written(e) => UNCHANGED <<shelf, head, receipts>>
         /\ Written(e) =>
              /\ Len(shelf'[e.id]) = Revision(e.id) + 1 /\ shelf'[e.id][Revision(e.id) + 1] = After(e)
              /\ \A n \in 1..Revision(e.id) : shelf'[e.id][n] = shelf[e.id][n]
              /\ shelf'[e.id] # <<>> /\ LastOf(shelf'[e.id]) = After(e)
         /\ \A t \in Ids : t # e.id => shelf'[t] = shelf[t]
         /\ shelf' \in [Ids -> Seq(Texts)]
<1>1. e.id \in Ids /\ After(e) \in Texts
  BY EmptyTypes DEF Entry, After, Gone
<1>2. shelf \in [Ids -> Seq(Texts)] /\ shelf[e.id] \in Seq(Texts) /\ Revision(e.id) = Len(shelf[e.id])
  BY <1>1 DEF TypeOK, Revision
<1>3. CASE Written(e)
  <2> DEFINE s == Append(shelf[e.id], After(e))
  <2>1. /\ s \in Seq(Texts) /\ Len(s) = Len(shelf[e.id]) + 1 /\ s[Len(s)] = After(e)
        /\ \A j \in 1..Len(shelf[e.id]) : s[j] = shelf[e.id][j]
    BY <1>1, <1>2, AppendAt
  <2>2. shelf' = [shelf EXCEPT ![e.id] = s]
    BY <1>3 DEF Carry
  <2> HIDE DEF s
  <2>3. shelf'[e.id] = s /\ shelf' \in [Ids -> Seq(Texts)] /\ \A t \in Ids : t # e.id => shelf'[t] = shelf[t]
    BY <2>1, <2>2, <1>1, <1>2
  <2>4. Len(s) # 0 /\ s # <<>>
    BY <2>1, <1>2, EmptyOrNot
  <2>5. LastOf(s) = After(e)
    BY <2>1 DEF LastOf
  <2> QED BY <2>1, <2>3, <2>4, <2>5, <1>2, <1>3
<1>4. CASE ~Written(e)
  BY <1>2, <1>4 DEF Carry, server
<1> QED BY <1>3, <1>4

LEMMA CarryTypes ==
  ASSUME TypeOK, ThemeAssumption, AnswersSound, NEW e \in Entry, Whole(e), Carry(e)
  PROVE  /\ shelf' \in [Ids -> Seq(Texts)]
         /\ head' \in [revision : Nat, live : Int]
         /\ receipts' \subseteq [key : Keys, fingerprint : [id : Ids, op : {"put", "delete"}, text : Texts, base : Int],
                                 revision : Nat]
         /\ \A r \in receipts' : r.revision >= 1
<1>1. shelf' \in [Ids -> Seq(Texts)]
  BY CarryShelf
<1>2. CASE Written(e)
  <2>1. Revision(e.id) \in Nat
    BY ServerTypes DEF Entry
  <2>2. Fingerprint(e) \in [id : Ids, op : {"put", "delete"}, text : Texts, base : Int]
    BY EmptyTypes DEF Entry, Fingerprint
  <2>3. e.key \in Keys
    BY DEF Entry, Whole, Keys, ThemeAssumption
  <2> DEFINE r == [key |-> e.key, fingerprint |-> Fingerprint(e), revision |-> Revision(e.id) + 1]
  <2>4. r \in [key : Keys, fingerprint : [id : Ids, op : {"put", "delete"}, text : Texts, base : Int], revision : Nat]
        /\ r.revision >= 1
    BY <2>1, <2>2, <2>3
  <2>5. receipts' = receipts \cup {r}
    BY <1>2 DEF Carry
  <2>6. head' \in [revision : Nat, live : Int]
    BY <1>2 DEF Carry, TypeOK
  <2> HIDE DEF r
  <2> QED BY <2>4, <2>5, <2>6, <1>1 DEF TypeOK, AnswersSound
<1>3. CASE ~Written(e)
  BY <1>1, <1>3, CarryShelf DEF TypeOK, AnswersSound
<1> QED BY <1>2, <1>3

LEMMA SoundInit == Init => Sound
<1> SUFFICES ASSUME Init PROVE Sound
  OBVIOUS
<1>1. TypeOK
  <2>1. \A S : <<>> \in Seq(S)
    OBVIOUS
  <2>2. shelf \in [Ids -> Seq(Texts)] /\ queue \in [Devices -> [Ids -> Seq(Entry)]]
    BY <2>1 DEF Init
  <2>3. /\ library \in [Devices -> [Ids -> Row]] /\ noted \in [Devices -> [Ids -> Noted]]
        /\ answer \in [Devices -> Answer] /\ seen \in [Devices -> Row]
        /\ listed \in [Devices -> [revision : Int, live : Int, skipped : BOOLEAN]]
    BY EmptyTypes, ThemeAssumption DEF Init
  <2>4. texts \in Texts /\ over \in [1..MaxTexts -> Texts] /\ faults \in 0..MaxFaults
    BY EmptyTypes, ThemeAssumption DEF Init, ThemeAssumption, Texts
  <2> QED BY <2>2, <2>3, <2>4 DEF Init, TypeOK, Places
<1>2. QueuesSound
  BY EmptySound DEF Init, QueuesSound
<1>3. RowsSound
  BY DEF Init, RowsSound, NoRow
<1>4. StrayWhole /\ InHand /\ AnswersSound
  BY DEF Init, StrayWhole, InHand, AnswersSound, NoAnswer
<1> QED BY <1>1, <1>2, <1>3, <1>4 DEF Sound

\* One queue of one device is changed.
LEMMA OneQueue ==
  ASSUME TypeOK, NEW d \in Devices, NEW t \in Ids, NEW q \in Seq(Entry),
         queue' = [queue EXCEPT ![d][t] = q]
  PROVE  /\ queue' \in [Devices -> [Ids -> Seq(Entry)]] /\ queue'[d][t] = q
         /\ \A s \in Ids : s # t => queue'[d][s] = queue[d][s]
         /\ \A c \in Devices : c # d => queue'[c] = queue[c]
  BY DEF TypeOK

LEMMA OneRow ==
  ASSUME TypeOK, NEW d \in Devices, NEW t \in Ids, NEW row \in Row,
         library' = [library EXCEPT ![d][t] = row]
  PROVE  /\ library' \in [Devices -> [Ids -> Row]] /\ library'[d][t] = row
         /\ \A s \in Ids : s # t => library'[d][s] = library[d][s]
         /\ \A c \in Devices : c # d => library'[c] = library[c]
  BY DEF TypeOK

\* The player's change keeps whatever a pass has in hand.
LEMMA ChangeSound ==
  ASSUME Sound, ThemeAssumption, NEW d \in Devices, NEW t \in Ids, NEW row \in Row, NEW q,
         Change(d, t, row, q), SoundQueue(q, t), Fits(q, row), row.state = "saved" <=> row.text # 0,
         queue[d][t] # <<>> /\ queue[d][t][1].sent /\ queue[d][t][1].hold = "none" => q # <<>> /\ q[1] = queue[d][t][1],
         given' \subseteq Texts
  PROVE  Sound'
<1> USE DEF Sound
<1>1. q \in Seq(Entry)
  BY DEF SoundQueue
<1>2. /\ queue' \in [Devices -> [Ids -> Seq(Entry)]] /\ queue'[d][t] = q
      /\ \A s \in Ids : s # t => queue'[d][s] = queue[d][s]
      /\ \A c \in Devices : c # d => queue'[c] = queue[c]
  BY <1>1, OneQueue DEF Change
<1>3. /\ library' \in [Devices -> [Ids -> Row]] /\ library'[d][t] = row
      /\ \A s \in Ids : s # t => library'[d][s] = library[d][s]
      /\ \A c \in Devices : c # d => library'[c] = library[c]
  BY OneRow DEF Change
<1>4. /\ texts' \in Texts /\ over' \in [1..MaxTexts -> Texts]
      /\ UNCHANGED <<shelf, head, receipts, stray, noted, meta, place, flight, answer, seen, listed, cursor, faults>>
  <2>1. library[d][t].text \in Texts
    BY DEF TypeOK, Row
  <2>2. texts' \in Texts
    BY DEF Change, TypeOK, Texts, ThemeAssumption
  <2> QED BY <2>1, <2>2 DEF Change, TypeOK, server, worker
<1>5. TypeOK'
  BY <1>2, <1>3, <1>4 DEF TypeOK
<1>6. QueuesSound' /\ RowsSound'
  <2> SUFFICES ASSUME NEW c \in Devices, NEW s \in Ids
               PROVE  /\ SoundQueue(queue'[c][s], s) /\ Fits(queue'[c][s], library'[c][s])
                      /\ library'[c][s].state = "saved" <=> library'[c][s].text # 0
    BY DEF QueuesSound, RowsSound
  <2>1. CASE c = d /\ s = t
    BY <2>1, <1>2, <1>3
  <2>2. CASE ~(c = d /\ s = t)
    <3>1. queue'[c][s] = queue[c][s] /\ library'[c][s] = library[c][s]
      BY <2>2, <1>2, <1>3
    <3> QED BY <3>1 DEF QueuesSound, RowsSound
  <2> QED BY <2>1, <2>2
<1>7. InHand'
  <2> SUFFICES ASSUME NEW c \in Devices, place[c] \in {"mark", "sent", "settle"}
               PROVE  /\ flight[c] \in Entry
                      /\ place[c] \in {"sent", "settle"} =>
                           /\ queue'[c][flight[c].id] # <<>> /\ flight[c] = queue'[c][flight[c].id][1]
                           /\ flight[c].sent /\ flight[c].tries >= 1 /\ flight[c].hold = "none"
    BY <1>4 DEF InHand, Mine
  <2>1. flight[c] \in Entry /\ flight[c].id \in Ids
    BY DEF InHand, Entry
  <2>2. CASE c = d /\ flight[c].id = t
    BY <2>1, <2>2, <1>2 DEF InHand, Mine
  <2>3. CASE ~(c = d /\ flight[c].id = t)
    <3>1. queue'[c][flight[c].id] = queue[c][flight[c].id]
      BY <2>1, <2>3, <1>2
    <3> QED BY <2>1, <3>1 DEF InHand, Mine
  <2> QED BY <2>2, <2>3
<1>8. StrayWhole' /\ AnswersSound'
  BY <1>4 DEF StrayWhole, AnswersSound
<1> QED BY <1>5, <1>6, <1>7, <1>8

LEMMA SaveSound ==
  ASSUME Sound, ThemeAssumption, NEW d \in Devices, NEW t \in Ids, Save(d, t)
  PROVE  Sound'
<1>1. /\ SoundQueue(queue[d][t], t) /\ Fits(queue[d][t], library[d][t]) /\ noted[d][t] \in Noted
      /\ library[d][t] \in Row
  BY DEF Sound, QueuesSound, TypeOK
<1>2. queue[d][t] = <<>> \/ library[d][t].state = "saved"
  BY <1>1 DEF Save, NextUnused, Unused, NoRow, Fits
<1>3. texts + 1 \in Texts \ {0} /\ [state |-> "saved", text |-> texts + 1] \in Row
  BY DEF Save, Change, Sound, TypeOK, Texts, ThemeAssumption, Row
<1>4. PICK k \in Keys : Change(d, t, [state |-> "saved", text |-> texts + 1],
                               PlanPut(queue[d][t], noted[d][t], t, texts + 1, k))
  BY DEF Save
<1> DEFINE q == PlanPut(queue[d][t], noted[d][t], t, texts + 1, k)
<1>5. /\ SoundQueue(q, t) /\ Fits(q, [state |-> "saved", text |-> texts + 1])
      /\ queue[d][t] # <<>> /\ queue[d][t][1].sent /\ queue[d][t][1].hold = "none" => q # <<>> /\ q[1] = queue[d][t][1]
  BY <1>1, <1>2, <1>3, PutSound
<1>6. given' \subseteq Texts
  BY <1>1 DEF Save, Sound, TypeOK, Row
<1> HIDE DEF q
<1>7. Change(d, t, [state |-> "saved", text |-> texts + 1], q)
  BY <1>4 DEF q
<1> QED BY <1>3, <1>5, <1>6, <1>7, ChangeSound

LEMMA DeleteStepSound ==
  ASSUME Sound, ThemeAssumption, NEW d \in Devices, NEW t \in Ids, Delete(d, t)
  PROVE  Sound'
<1>1. /\ SoundQueue(queue[d][t], t) /\ Fits(queue[d][t], library[d][t]) /\ noted[d][t] \in Noted
      /\ library[d][t] \in Row /\ library[d][t].state = "saved"
  BY DEF Sound, QueuesSound, TypeOK, Delete
<1>3. texts + 1 \in Texts /\ [state |-> "gone", text |-> Gone] \in Row
  BY DEF Delete, Change, Sound, TypeOK, Texts, ThemeAssumption, Row, Gone
<1>4. PICK k \in Keys : Change(d, t, [state |-> "gone", text |-> Gone],
                               PlanDelete(queue[d][t], noted[d][t], t, texts + 1, k))
  BY DEF Delete
<1> DEFINE q == PlanDelete(queue[d][t], noted[d][t], t, texts + 1, k)
<1>5. /\ SoundQueue(q, t) /\ Fits(q, [state |-> "gone", text |-> Gone])
      /\ queue[d][t] # <<>> /\ queue[d][t][1].sent /\ queue[d][t][1].hold = "none" => q # <<>> /\ q[1] = queue[d][t][1]
  BY <1>1, <1>3, DeleteSound
<1>6. given' \subseteq Texts
  BY <1>1, <1>3 DEF Delete, Sound, TypeOK, Row
<1> HIDE DEF q
<1>7. Change(d, t, [state |-> "gone", text |-> Gone], q)
  BY <1>4 DEF q
<1> QED BY <1>3, <1>5, <1>6, <1>7, ChangeSound DEF Gone

\* A pass that rests has nothing in hand, and no other pass is touched.
LEMMA RestTypes ==
  ASSUME TypeOK, ThemeAssumption, NEW d \in Devices, Rest(d)
  PROVE  /\ place' \in [Devices -> Places] /\ flight' \in [Devices -> Entry \cup {NoEntry}]
         /\ answer' \in [Devices -> Answer] /\ seen' \in [Devices -> Row]
         /\ listed' \in [Devices -> [revision : Int, live : Int, skipped : BOOLEAN]]
         /\ cursor' \in [Devices -> Nat]
         /\ place'[d] = "idle" /\ answer'[d] = NoAnswer
         /\ \A c \in Devices : c # d => /\ place'[c] = place[c] /\ flight'[c] = flight[c] /\ answer'[c] = answer[c]
                                        /\ seen'[c] = seen[c]
  BY EmptyTypes DEF Rest, Go, TypeOK, Places

\* A step of one device that leaves it with nothing on its way, and its queues sound.
LEMMA PassSound ==
  ASSUME Sound, ThemeAssumption, NEW d \in Devices, TypeOK', QueuesSound', RowsSound', StrayWhole',
         place'[d] \in {"idle", "page"}, UNCHANGED receipts,
         answer'[d] \in {NoAnswer, answer[d]},
         \A c \in Devices : c # d => /\ place'[c] = place[c] /\ flight'[c] = flight[c] /\ answer'[c] = answer[c]
                                     /\ queue'[c] = queue[c]
  PROVE  Sound'
<1> USE DEF Sound
<1>1. InHand'
  <2> SUFFICES ASSUME NEW c \in Devices, place'[c] \in {"mark", "sent", "settle"}
               PROVE  /\ flight'[c] \in Entry
                      /\ place'[c] \in {"sent", "settle"} =>
                           /\ queue'[c][flight'[c].id] # <<>> /\ flight'[c] = queue'[c][flight'[c].id][1]
                           /\ flight'[c].sent /\ flight'[c].tries >= 1 /\ flight'[c].hold = "none"
    BY DEF InHand, Mine
  <2>1. c # d
    OBVIOUS
  <2>2. place'[c] = place[c] /\ flight'[c] = flight[c] /\ queue'[c] = queue[c]
    BY <2>1
  <2> QED BY <2>2 DEF InHand, Mine
<1>2. AnswersSound'
  BY DEF AnswersSound, NoAnswer
<1> QED BY <1>1, <1>2

\* What a pass does of its answer is to one queue, and to what it noted.
LEMMA SettleSound ==
  ASSUME Sound, ThemeAssumption, NEW d \in Devices, place[d] = "settle", NEW q,
         SoundQueue(q, flight[d].id), Fits(q, library[d][flight[d].id]),
         SetMine(d, q), Rest(d), noted' \in [Devices -> [Ids -> Noted]],
         UNCHANGED <<server, stray, library, meta, player, faults>>
  PROVE  Sound'
<1> USE DEF Sound
<1> DEFINE t == flight[d].id
<1>1. t \in Ids /\ q \in Seq(Entry)
  BY DEF InHand, Entry, SoundQueue
<1>2. queue' = [queue EXCEPT ![d][t] = q]
  BY DEF SetMine
<1> HIDE DEF t
<1>3. /\ queue' \in [Devices -> [Ids -> Seq(Entry)]] /\ queue'[d][t] = q
      /\ \A s \in Ids : s # t => queue'[d][s] = queue[d][s]
      /\ \A c \in Devices : c # d => queue'[c] = queue[c]
  BY <1>1, <1>2, OneQueue
<1>4. /\ UNCHANGED <<shelf, head, receipts, stray, library, meta, texts, over, given, faults>>
  BY DEF server, player
<1>5. TypeOK'
  BY <1>3, <1>4, RestTypes, SMTT(60) DEF TypeOK
<1>6. QueuesSound'
  <2> SUFFICES ASSUME NEW c \in Devices, NEW s \in Ids
               PROVE  SoundQueue(queue'[c][s], s) /\ Fits(queue'[c][s], library[c][s])
    BY <1>4 DEF QueuesSound
  <2>1. CASE c = d /\ s = t
    BY <2>1, <1>3 DEF t
  <2>2. CASE ~(c = d /\ s = t)
    <3>1. queue'[c][s] = queue[c][s]
      BY <2>2, <1>3
    <3> QED BY <3>1 DEF QueuesSound
  <2> QED BY <2>1, <2>2
<1>7. RowsSound' /\ StrayWhole'
  BY <1>4 DEF RowsSound, StrayWhole
<1> QED BY <1>3, <1>4, <1>5, <1>6, <1>7, RestTypes, PassSound

\* What a pass finds when it is to settle.
LEMMA AtSettle ==
  ASSUME Sound, NEW d \in Devices, place[d] = "settle"
  PROVE  /\ flight[d] \in Entry /\ flight[d].id \in Ids /\ flight[d].tries \in 1..(Tries + 1)
         /\ Mine(d) # <<>> /\ SoundQueue(Mine(d), flight[d].id) /\ Fits(Mine(d), library[d][flight[d].id])
         /\ flight[d] = Mine(d)[1] /\ flight[d].sent /\ answer[d] \in Answer
<1>1. flight[d] \in Entry /\ Mine(d) # <<>> /\ flight[d] = Mine(d)[1] /\ flight[d].sent /\ flight[d].tries >= 1
  BY DEF Sound, InHand
<1>2. flight[d].id \in Ids /\ flight[d].tries \in 0..(Tries + 1)
  BY <1>1 DEF Entry
<1>3. flight[d].tries \in 1..(Tries + 1)
  BY <1>1, <1>2
<1> QED BY <1>1, <1>2, <1>3 DEF Sound, QueuesSound, TypeOK, Mine

LEMMA ConfirmSound == ASSUME Sound, ThemeAssumption, NEW d \in Devices, Confirm(d) PROVE Sound'
<1> DEFINE a == answer[d]  t == flight[d].id  q == Following(Mine(d), a.text # Gone, a.revision)
<1>1. place[d] = "settle" /\ a.kind \in {"ok", "conflict"}
  BY DEF Confirm, Answered, At
<1>2. a.revision \in Nat /\ a \in Answer /\ (a.text # Gone => a.revision >= 1)
  BY <1>1, AtSettle DEF Sound, AnswersSound, Answer
<1>3. SoundQueue(q, t) /\ Fits(q, library[d][t])
  <2> DEFINE live == a.text # Gone  rev == a.revision
  <2>1. live \in BOOLEAN /\ rev \in Nat /\ (live => rev >= 1)
    BY <1>2
  <2>2. /\ Mine(d) # <<>> /\ SoundQueue(Mine(d), t) /\ Fits(Mine(d), library[d][t]) /\ t \in Ids
    BY <1>1, AtSettle
  <2> HIDE DEF live, rev, t, a
  <2>3. SoundQueue(Following(Mine(d), live, rev), t) /\ Fits(Following(Mine(d), live, rev), library[d][t])
    BY <2>1, <2>2, FollowingSound
  <2> QED BY <2>3 DEF live, rev
<1>4. noted' \in [Devices -> [Ids -> Noted]]
  <2>1. NoteOf(a) \in Noted
    BY <1>2 DEF NoteOf, Noted
  <2> QED BY <2>1 DEF Confirm, Sound, TypeOK
<1>5. SetMine(d, q) /\ Rest(d) /\ UNCHANGED <<server, stray, library, meta, player, faults>>
  BY DEF Confirm
<1> HIDE DEF q
<1> QED BY <1>1, <1>3, <1>4, <1>5, SettleSound

\* Marked again in one way or another, and the pass over.
LEMMA MarkAgainSound ==
  ASSUME Sound, ThemeAssumption, NEW d \in Devices, place[d] = "settle",
         NEW tries \in 0..(Tries + 1), NEW hold \in Holds, SetMine(d, MarkedAs(Mine(d), tries, hold)), Rest(d),
         UNCHANGED <<server, stray, library, noted, meta, player, faults>>
  PROVE  Sound'
<1> DEFINE q == MarkedAs(Mine(d), tries, hold)
<1>1. SoundQueue(q, flight[d].id) /\ Fits(q, library[d][flight[d].id])
  BY AtSettle, MarkedSound
<1>2. noted' \in [Devices -> [Ids -> Noted]]
  BY DEF Sound, TypeOK
<1>3. SetMine(d, q)
  OBVIOUS
<1> HIDE DEF q
<1> QED BY <1>1, <1>2, <1>3, SettleSound

LEMMA GivenUpSound ==
  ASSUME Sound, ThemeAssumption, NEW d \in Devices, Resend(d) \/ Retry(d) \/ Pause(d)
  PROVE  Sound'
<1>1. place[d] = "settle"
  BY DEF Resend, Retry, Pause, Contested, Answered, At
<1>2. flight[d].tries \in 0..(Tries + 1) /\ flight[d].tries - 1 \in 0..(Tries + 1)
  <2>1. flight[d].tries \in 1..(Tries + 1) /\ Tries \in Nat
    BY <1>1, AtSettle DEF ThemeAssumption
  <2> QED BY <2>1
<1>3. "none" \in Holds /\ "retry-exhausted" \in Holds
  BY DEF Holds
<1>4. CASE Resend(d)
  BY <1>1, <1>2, <1>3, <1>4, MarkAgainSound DEF Resend
<1>5. CASE Retry(d)
  <2>1. (IF flight[d].tries >= Tries THEN "retry-exhausted" ELSE "none") \in Holds
    BY <1>3
  <2> QED BY <2>1, <1>1, <1>2, <1>5, MarkAgainSound DEF Retry
<1>6. CASE Pause(d)
  BY <1>1, <1>2, <1>3, <1>6, MarkAgainSound DEF Pause
<1> QED BY <1>4, <1>5, <1>6

LEMMA RefuseSound == ASSUME Sound, ThemeAssumption, NEW d \in Devices, Refuse(d) PROVE Sound'
<1>1. place[d] = "settle"
  BY DEF Refuse, Answered, At
<1>2. PICK k \in Keys :
        SetMine(d, PlanRefused(Mine(d), IF answer[d].kind = "full" THEN "library-full" ELSE "invalid",
                               flight[d].tries, k))
  BY DEF Refuse
<1> DEFINE hold == IF answer[d].kind = "full" THEN "library-full" ELSE "invalid"
           q == PlanRefused(Mine(d), hold, flight[d].tries, k)
<1>3. hold \in Holds /\ flight[d].tries \in 0..(Tries + 1)
  BY <1>1, AtSettle DEF Holds
<1> HIDE DEF hold
<1>4. SoundQueue(q, flight[d].id) /\ Fits(q, library[d][flight[d].id])
  BY <1>1, <1>3, AtSettle, RefusedSound
<1>5. noted' \in [Devices -> [Ids -> Noted]]
  BY DEF Refuse, Sound, TypeOK
<1>6. SetMine(d, q)
  BY <1>2 DEF hold
<1> HIDE DEF q
<1> QED BY <1>1, <1>4, <1>5, <1>6, SettleSound DEF Refuse

\* What the device held of `t` is a new theme `c` of its own.
CopyMade(d, t, c, k) ==
  /\ NextUnused(c) /\ NewKey(k) /\ c # t /\ queue[d][c] = <<>>
  /\ library[d][t].state = "saved" /\ library[d][t].text \in Texts \ {0} /\ library'[d][c] = library[d][t]
  /\ queue'[d][c] = <<Fresh(c, "put", library[d][t].text, None, k)>>
  /\ \A s \in Ids : s # t /\ s # c => library'[d][s] = library[d][s] /\ queue'[d][s] = queue[d][s]

\* The device takes the server's version, and its own goes under a name of its own.
LEMMA ResolveLeaves ==
  ASSUME Sound, ThemeAssumption, NEW d \in Devices, Resolve(d)
  PROVE  LET t == flight[d].id IN
         /\ place[d] = "settle" /\ t \in Ids /\ answer[d] \in Answer /\ RowOf(answer[d]) \in Row
         /\ library'[d][t] = RowOf(answer[d]) /\ queue'[d][t] = <<>>
         /\ \/ /\ ~Copied(d)
               /\ \A s \in Ids : s # t => library'[d][s] = library[d][s] /\ queue'[d][s] = queue[d][s]
            \/ Copied(d) /\ \E c \in Ids, k \in Keys : CopyMade(d, t, c, k)
         /\ library' \in [Devices -> [Ids -> Row]] /\ queue' \in [Devices -> [Ids -> Seq(Entry)]]
         /\ \A b \in Devices : b # d => library'[b] = library[b] /\ queue'[b] = queue[b]
<1> USE DEF Sound
<1> DEFINE t == flight[d].id  a == answer[d]
           taken == [library[d] EXCEPT ![t] = RowOf(a)]
           emptied == [queue[d] EXCEPT ![t] = <<>>]
<1>1. place[d] = "settle" /\ a.kind = "conflict" /\ library[d][t] = seen[d]
  BY DEF Resolve, Contested, Answered, At, Stale
<1>2. t \in Ids /\ a \in Answer /\ RowOf(a) \in Row /\ Mine(d) # <<>> /\ Fits(Mine(d), library[d][t]) /\ library[d][t] \in Row
  <2>1. t \in Ids /\ a \in Answer /\ Mine(d) # <<>> /\ Fits(Mine(d), library[d][t])
    BY <1>1, AtSettle
  <2>2. RowOf(a) \in Row
    BY <2>1 DEF Answer, RowOf, Row
  <2> QED BY <2>1, <2>2 DEF TypeOK
<1> HIDE DEF t, a
<1>3. /\ taken \in [Ids -> Row] /\ taken[t] = RowOf(a) /\ \A s \in Ids : s # t => taken[s] = library[d][s]
      /\ emptied \in [Ids -> Seq(Entry)] /\ emptied[t] = <<>> /\ \A s \in Ids : s # t => emptied[s] = queue[d][s]
  <2>1. library[d] \in [Ids -> Row] /\ queue[d] \in [Ids -> Seq(Entry)] /\ <<>> \in Seq(Entry)
    BY DEF TypeOK
  <2> QED BY <1>2, <2>1
<1> HIDE DEF taken, emptied
<1>4. CASE ~Copied(d)
  <2>1. library' = [library EXCEPT ![d] = taken] /\ queue' = [queue EXCEPT ![d] = emptied]
    BY <1>4 DEF Resolve, taken, emptied, t, a
  <2>2. library'[d] = taken /\ queue'[d] = emptied
    BY <2>1 DEF TypeOK
  <2>3. /\ library' \in [Devices -> [Ids -> Row]] /\ queue' \in [Devices -> [Ids -> Seq(Entry)]]
        /\ \A b \in Devices : b # d => library'[b] = library[b] /\ queue'[b] = queue[b]
    BY <2>1, <1>3 DEF TypeOK
  <2> QED BY <2>2, <2>3, <1>1, <1>2, <1>3, <1>4 DEF t, a
<1>5. CASE Copied(d)
  <2>1. PICK c \in Ids, k \in Keys :
          /\ NextUnused(c) /\ NewKey(k)
          /\ library' = [library EXCEPT ![d] = [taken EXCEPT ![c] = seen[d]]]
          /\ queue' = [queue EXCEPT ![d] = [emptied EXCEPT ![c] = <<Fresh(c, "put", seen[d].text, None, k)>>]]
    BY <1>5 DEF Resolve, taken, emptied, t, a
  <2>2. library[d][c] = NoRow
    BY <2>1 DEF NextUnused, Unused
  <2>3. library[d][t].state = "saved" /\ library[d][t].text \in Texts \ {0}
    BY <1>1, <1>2, <1>5 DEF Copied, RowsSound, Row
  <2>4. c # t
    BY <2>2, <2>3 DEF NoRow
  <2>5. queue[d][c] = <<>>
    <3>1. Fits(queue[d][c], library[d][c])
      BY DEF QueuesSound
    <3> QED BY <2>2, <3>1 DEF Fits, NoRow
  <2> DEFINE e == Fresh(c, "put", library[d][t].text, None, k)
             lib == [taken EXCEPT ![c] = library[d][t]]
             qs  == [emptied EXCEPT ![c] = <<e>>]
  <2>6. e \in Entry
    BY <2>3, FreshIsEntry DEF Keys, None, ThemeAssumption
  <2>7. library' = [library EXCEPT ![d] = lib] /\ queue' = [queue EXCEPT ![d] = qs]
    BY <2>1, <1>1
  <2> HIDE DEF e
  <2>8. <<e>> \in Seq(Entry)
    BY <2>6
  <2>9. /\ lib \in [Ids -> Row] /\ lib[c] = library[d][t] /\ \A s \in Ids : s # c => lib[s] = taken[s]
        /\ qs \in [Ids -> Seq(Entry)] /\ qs[c] = <<e>> /\ \A s \in Ids : s # c => qs[s] = emptied[s]
    BY <2>8, <1>2, <1>3
  <2> HIDE DEF lib, qs
  <2>10. library'[d] = lib /\ queue'[d] = qs
    BY <2>7 DEF TypeOK
  <2>11. /\ library' \in [Devices -> [Ids -> Row]] /\ queue' \in [Devices -> [Ids -> Seq(Entry)]]
         /\ \A b \in Devices : b # d => library'[b] = library[b] /\ queue'[b] = queue[b]
    BY <2>7, <2>9 DEF TypeOK
  <2>12. /\ library'[d][t] = RowOf(a) /\ queue'[d][t] = <<>> /\ library'[d][c] = library[d][t] /\ queue'[d][c] = <<e>>
         /\ \A s \in Ids : s # t /\ s # c => library'[d][s] = library[d][s] /\ queue'[d][s] = queue[d][s]
    BY <2>4, <2>9, <2>10, <1>2, <1>3
  <2>13. CopyMade(d, t, c, k)
    BY <2>1, <2>3, <2>4, <2>5, <2>12 DEF CopyMade, e
  <2> QED BY <2>11, <2>12, <2>13, <1>1, <1>2, <1>5 DEF t, a
<1> QED BY <1>4, <1>5

LEMMA ResolveSound == ASSUME Sound, ThemeAssumption, NEW d \in Devices, Resolve(d) PROVE Sound'
<1> USE DEF Sound
<1> DEFINE t == flight[d].id
<1>1. /\ Rest(d) /\ UNCHANGED <<shelf, head, receipts, stray, meta, texts, over, given, faults>>
  BY DEF Resolve, server, player
<1>2. noted' \in [Devices -> [Ids -> Noted]]
  <2>1. NoteOf(answer[d]) \in Noted
    BY ResolveLeaves DEF NoteOf, Noted, Answer
  <2> QED BY <2>1 DEF Resolve, TypeOK
<1>3. TypeOK'
  BY <1>1, <1>2, RestTypes, ResolveLeaves DEF TypeOK
<1>4. ASSUME NEW b \in Devices, NEW s \in Ids
      PROVE  /\ SoundQueue(queue'[b][s], s) /\ Fits(queue'[b][s], library'[b][s])
             /\ library'[b][s].state = "saved" <=> library'[b][s].text # 0
  <2>1. CASE library'[b][s] = library[b][s] /\ queue'[b][s] = queue[b][s]
    BY <2>1 DEF QueuesSound, RowsSound
  <2>2. CASE b = d /\ s = t
    <3>1. queue'[b][s] = <<>> /\ library'[b][s] = RowOf(answer[d])
      BY <2>2, ResolveLeaves
    <3> QED BY <3>1, EmptySound DEF RowOf, Gone
  <2>3. ASSUME b = d, NEW k \in Keys, library[d][t].state = "saved", library[d][t].text \in Texts \ {0},
               library'[d][s] = library[d][t], t \in Ids,
               queue'[d][s] = <<Fresh(s, "put", library[d][t].text, None, k)>>
        PROVE  /\ SoundQueue(queue'[b][s], s) /\ Fits(queue'[b][s], library'[b][s])
               /\ library'[b][s].state = "saved" <=> library'[b][s].text # 0
    <3> DEFINE e == Fresh(s, "put", library[d][t].text, None, k)
    <3>1. e \in Entry /\ e.id = s /\ Whole(e) /\ e.base # Previous /\ e.op = "put" /\ e.text = library[d][t].text
      BY <2>3, FreshIsEntry DEF Fresh, Whole, Keys, None, Previous, ThemeAssumption
    <3>2. library[d][t] = [state |-> "saved", text |-> e.text]
      BY <2>3, <3>1 DEF TypeOK, Row
    <3> HIDE DEF e
    <3>3. queue'[b][s] = <<e>>
      BY <2>3 DEF e
    <3>4. <<e>> \in Seq(Entry) /\ Len(<<e>>) = 1 /\ <<e>>[1] = e
      BY <3>1
    <3>5. SoundQueue(<<e>>, s) /\ LastOf(<<e>>) = e
      BY <3>1, <3>4 DEF SoundQueue, LastOf
    <3> QED BY <2>3, <3>1, <3>2, <3>3, <3>5 DEF Fits
  <2>4. CASE b # d
    BY <2>1, <2>4, ResolveLeaves
  <2>6. CASE b = d /\ s # t /\ ~Copied(d)
    BY <2>1, <2>6, ResolveLeaves
  <2>7. CASE b = d /\ s # t /\ Copied(d)
    <3>1. PICK c \in Ids, k \in Keys : CopyMade(d, t, c, k)
      BY <2>7, ResolveLeaves
    <3>2. t \in Ids
      BY ResolveLeaves
    <3>3. CASE s = c
      BY <2>3, <2>7, <3>1, <3>2, <3>3 DEF CopyMade
    <3>4. CASE s # c
      BY <2>1, <2>7, <3>1, <3>4 DEF CopyMade
    <3> QED BY <3>3, <3>4
  <2> QED BY <2>2, <2>4, <2>6, <2>7
<1>5. QueuesSound' /\ RowsSound' /\ StrayWhole'
  BY <1>1, <1>4 DEF QueuesSound, RowsSound, StrayWhole
<1>6. \A b \in Devices : b # d => queue'[b] = queue[b]
  BY ResolveLeaves
<1> QED BY <1>1, <1>3, <1>5, <1>6, RestTypes, PassSound

\* Holds come off a device's queues, and nothing else of them.
LEMMA FreedQueues ==
  ASSUME Sound, ThemeAssumption, NEW d \in Devices, NEW hold, NEW backoff \in BOOLEAN,
         queue' = [queue EXCEPT ![d] = Released(queue[d], hold, backoff)]
  PROVE  /\ queue' \in [Devices -> [Ids -> Seq(Entry)]]
         /\ \A t \in Ids : /\ Alike(queue[d][t], queue'[d][t]) /\ SoundQueue(queue'[d][t], t)
                           /\ \A row : Fits(queue[d][t], row) => Fits(queue'[d][t], row)
                           /\ \A i \in 1..Len(queue[d][t]) : queue'[d][t][i].sent = queue[d][t][i].sent
         /\ \A c \in Devices : c # d => queue'[c] = queue[c]
<1> DEFINE qs == Released(queue[d], hold, backoff)
<1>1. \A t \in Ids : SoundQueue(queue[d][t], t)
  BY DEF Sound, QueuesSound
<1>2. ASSUME NEW t \in Ids
      PROVE  /\ qs[t] \in Seq(Entry) /\ Alike(queue[d][t], qs[t]) /\ SoundQueue(qs[t], t)
             /\ \A row : Fits(queue[d][t], row) => Fits(qs[t], row)
             /\ \A i \in 1..Len(queue[d][t]) : qs[t][i].sent = queue[d][t][i].sent
  <2>1. /\ qs[t] \in Seq(Entry) /\ Alike(queue[d][t], qs[t])
        /\ \A i \in 1..Len(qs[t]) : qs[t][i].sent = queue[d][t][i].sent
    BY <1>1, ReleasedAlike
  <2>2. SoundQueue(qs[t], t) /\ \A row : Fits(queue[d][t], row) => Fits(qs[t], row)
    BY <1>1, ReleasedSound
  <2>3. Len(qs[t]) = Len(queue[d][t])
    BY <2>1 DEF Alike
  <2> HIDE DEF qs
  <2> QED BY <2>1, <2>2, <2>3
<1>3. qs = [t \in Ids |-> qs[t]]
  BY DEF Released
<1> HIDE DEF qs
<1>4. qs \in [Ids -> Seq(Entry)]
  BY <1>2, <1>3
<1>5. queue' = [queue EXCEPT ![d] = qs] /\ queue \in [Devices -> [Ids -> Seq(Entry)]]
  BY DEF qs, Sound, TypeOK
<1>6. queue'[d] = qs /\ queue' \in [Devices -> [Ids -> Seq(Entry)]] /\ \A c \in Devices : c # d => queue'[c] = queue[c]
  BY <1>4, <1>5
<1> QED BY <1>2, <1>6

LEMMA RouseSound == ASSUME Sound, ThemeAssumption, NEW d \in Devices, Rouse(d) PROVE Sound'
<1> USE DEF Sound
<1>1. /\ queue' = [queue EXCEPT ![d] = Released(queue[d], "retry-exhausted", TRUE)]
      /\ UNCHANGED <<shelf, head, receipts, stray, library, noted, meta, place, flight, answer, seen, listed, cursor,
                     texts, over, given, faults>>
      /\ place[d] = "idle"
  BY DEF Rouse, server, worker, player, At
<1>2. /\ queue' \in [Devices -> [Ids -> Seq(Entry)]]
      /\ \A t \in Ids : SoundQueue(queue'[d][t], t) /\ \A row : Fits(queue[d][t], row) => Fits(queue'[d][t], row)
      /\ \A c \in Devices : c # d => queue'[c] = queue[c]
  BY <1>1, FreedQueues
<1>3. TypeOK'
  BY <1>1, <1>2 DEF TypeOK
<1>4. QueuesSound'
  BY <1>1, <1>2 DEF QueuesSound
<1>5. RowsSound' /\ StrayWhole'
  BY <1>1 DEF RowsSound, StrayWhole
<1>6. /\ place'[d] = "idle" /\ answer'[d] = answer[d] /\ receipts' = receipts
      /\ \A c \in Devices : place'[c] = place[c] /\ flight'[c] = flight[c] /\ answer'[c] = answer[c]
  BY <1>1
<1> QED BY <1>2, <1>3, <1>4, <1>5, <1>6, PassSound

\* What the end of a pass leaves of the queues.
LEMMA FinishLeaves ==
  ASSUME Sound, ThemeAssumption, NEW d \in Devices, NEW live, Finish(d, live)
  PROVE  /\ queue' \in [Devices -> [Ids -> Seq(Entry)]]
         /\ \A t \in Ids : /\ Alike(queue[d][t], queue'[d][t]) /\ SoundQueue(queue'[d][t], t)
                           /\ \A row : Fits(queue[d][t], row) => Fits(queue'[d][t], row)
                           /\ \A i \in 1..Len(queue[d][t]) : queue'[d][t][i].sent = queue[d][t][i].sent
         /\ \A c \in Devices : c # d => queue'[c] = queue[c]
<1>1. CASE live < MaxThemes
  <2>1. queue' = [queue EXCEPT ![d] = Released(queue[d], "library-full", FALSE)]
    BY <1>1 DEF Finish
  <2> QED BY <2>1, FreedQueues
<1>2. CASE ~(live < MaxThemes)
  <2>1. queue' = queue
    BY <1>2 DEF Finish
  <2> QED BY <2>1 DEF Sound, QueuesSound, TypeOK, Alike, Same
<1> QED BY <1>1, <1>2

LEMMA AskSound == ASSUME Sound, ThemeAssumption, NEW d \in Devices, Ask(d) PROVE Sound'
<1> USE DEF Sound
<1>1. UNCHANGED <<shelf, head, receipts, stray, library, noted, meta, texts, over, given, faults>>
  BY DEF Ask, server, player
<1>2. RowsSound' /\ StrayWhole'
  BY <1>1 DEF RowsSound, StrayWhole
<1>3. CASE meta[d] = head.revision
  <2>1. Finish(d, head.live) /\ Rest(d)
    BY <1>3 DEF Ask, Finish
  <2>2. /\ queue' \in [Devices -> [Ids -> Seq(Entry)]]
        /\ \A t \in Ids : SoundQueue(queue'[d][t], t) /\ \A row : Fits(queue[d][t], row) => Fits(queue'[d][t], row)
        /\ \A c \in Devices : c # d => queue'[c] = queue[c]
    BY <2>1, FinishLeaves
  <2>3. TypeOK'
    BY <1>1, <2>1, <2>2, RestTypes DEF TypeOK
  <2>4. QueuesSound'
    BY <1>1, <2>2 DEF QueuesSound
  <2> QED BY <1>1, <1>2, <2>1, <2>2, <2>3, <2>4, RestTypes, PassSound
<1>4. CASE meta[d] # head.revision
  <2>1. /\ place' = [place EXCEPT ![d] = "page"] /\ UNCHANGED <<queue, flight, answer, seen>>
        /\ listed' = [listed EXCEPT ![d] = [revision |-> head.revision, live |-> head.live, skipped |-> FALSE]]
        /\ cursor' = [cursor EXCEPT ![d] = 1]
    BY <1>4 DEF Ask, Go
  <2>2. place' \in [Devices -> Places] /\ place'[d] = "page" /\ \A c \in Devices : c # d => place'[c] = place[c]
    BY <2>1 DEF TypeOK, Places
  <2>3. TypeOK'
    <3>1. [revision |-> head.revision, live |-> head.live, skipped |-> FALSE]
            \in [revision : Int, live : Int, skipped : BOOLEAN]
      BY DEF TypeOK
    <3>2. /\ listed' \in [Devices -> [revision : Int, live : Int, skipped : BOOLEAN]]
          /\ cursor' \in [Devices -> Nat]
      BY <2>1, <3>1 DEF TypeOK
    <3> QED BY <1>1, <2>1, <2>2, <3>2 DEF TypeOK
  <2>4. QueuesSound'
    BY <1>1, <2>1 DEF QueuesSound
  <2> QED BY <1>1, <1>2, <2>1, <2>2, <2>3, <2>4, PassSound
<1> QED BY <1>3, <1>4

\* A theme is taken from a page only when nothing of it is queued.
LEMMA PageLeaves ==
  ASSUME Sound, ThemeAssumption, NEW d \in Devices, Page(d)
  PROVE  /\ library' \in [Devices -> [Ids -> Row]] /\ noted' \in [Devices -> [Ids -> Noted]]
         /\ \A t \in Ids : \/ library'[d][t] = library[d][t] /\ noted'[d][t] = noted[d][t]
                           \/ /\ queue[d][t] = <<>> /\ shelf[t] # <<>> /\ ~Known(d, t)
                              /\ library'[d][t] = RowOf(Asked(t)) /\ noted'[d][t] = NoteOf(Asked(t))
         /\ \A c \in Devices : c # d => library'[c] = library[c] /\ noted'[c] = noted[c]
<1> USE DEF Sound
<1> DEFINE page  == PageFrom(cursor[d])
           taken == {t \in page : ~Pending(d, t) /\ ~Known(d, t)}
           notes == [t \in Ids |-> IF t \in taken THEN NoteOf(Asked(t)) ELSE noted[d][t]]
           rows  == [t \in Ids |-> IF t \in taken THEN RowOf(Asked(t)) ELSE library[d][t]]
<1>1. noted' = [noted EXCEPT ![d] = notes] /\ library' = [library EXCEPT ![d] = rows]
  BY DEF Page
<1>2. \A t \in taken : shelf[t] # <<>> /\ queue[d][t] = <<>> /\ ~Known(d, t)
  BY DEF PageFrom, Pending
<1> HIDE DEF taken
<1>3. \A t \in Ids : NoteOf(Asked(t)) \in Noted /\ RowOf(Asked(t)) \in Row
  <2> TAKE t \in Ids
  <2>1. Revision(t) \in Nat /\ Text(t) \in Texts
    BY ServerTypes
  <2> QED BY <2>1 DEF NoteOf, RowOf, Asked, Noted, Row
<1>4. notes \in [Ids -> Noted] /\ rows \in [Ids -> Row]
  BY <1>3 DEF TypeOK
<1>5. \A t \in Ids : /\ notes[t] = IF t \in taken THEN NoteOf(Asked(t)) ELSE noted[d][t]
                     /\ rows[t] = IF t \in taken THEN RowOf(Asked(t)) ELSE library[d][t]
  OBVIOUS
<1> HIDE DEF notes, rows
<1>6. noted'[d] = notes /\ library'[d] = rows
  BY <1>1 DEF TypeOK
<1>7. /\ noted' \in [Devices -> [Ids -> Noted]] /\ library' \in [Devices -> [Ids -> Row]]
      /\ \A c \in Devices : c # d => library'[c] = library[c] /\ noted'[c] = noted[c]
  BY <1>1, <1>4 DEF TypeOK
<1> QED BY <1>2, <1>5, <1>6, <1>7

\* Between two pages the queues are left alone; after the last, a hold may come off.
LEMMA PageGoes ==
  ASSUME Sound, ThemeAssumption, NEW d \in Devices, Page(d)
  PROVE  /\ UNCHANGED <<shelf, head, receipts, stray, texts, over, given, faults>>
         /\ \/ /\ UNCHANGED <<queue, meta, place, flight, answer, seen>> /\ cursor' \in [Devices -> Nat]
               /\ listed' \in [Devices -> [revision : Int, live : Int, skipped : BOOLEAN]]
            \/ /\ Finish(d, listed[d].live) /\ Rest(d) /\ meta' \in [Devices -> Int]
         /\ place[d] = "page"
<1> USE DEF Sound
<1> DEFINE page  == PageFrom(cursor[d])
           skips == listed[d].skipped \/ \E t \in page : Pending(d, t)
<1>1. listed[d] \in [revision : Int, live : Int, skipped : BOOLEAN] /\ cursor[d] \in Nat
  BY DEF TypeOK
<1>2. \/ \E next \in cursor[d]..MaxIds :
           /\ cursor' = [cursor EXCEPT ![d] = next] /\ listed' = [listed EXCEPT ![d].skipped = skips]
           /\ UNCHANGED <<queue, meta, place, flight, answer, seen>>
      \/ /\ meta' = [meta EXCEPT ![d] = IF skips THEN -1 ELSE listed[d].revision]
         /\ Finish(d, listed[d].live)
  BY DEF Page
<1>3. skips \in BOOLEAN
  BY <1>1
<1> HIDE DEF skips, page
<1>4. CASE \E next \in cursor[d]..MaxIds :
           /\ cursor' = [cursor EXCEPT ![d] = next] /\ listed' = [listed EXCEPT ![d].skipped = skips]
           /\ UNCHANGED <<queue, meta, place, flight, answer, seen>>
  <2>1. cursor' \in [Devices -> Nat]
    BY <1>1, <1>4, SMTT(60) DEF TypeOK, ThemeAssumption
  <2>2. [listed[d] EXCEPT !.skipped = skips] \in [revision : Int, live : Int, skipped : BOOLEAN]
    BY <1>1, <1>3
  <2>3. listed' = [listed EXCEPT ![d] = [@ EXCEPT !.skipped = skips]]
    BY <1>4
  <2>4. listed' \in [Devices -> [revision : Int, live : Int, skipped : BOOLEAN]]
    BY <2>2, <2>3 DEF TypeOK
  <2> QED BY <1>4, <2>1, <2>4 DEF Page, server, player, At
<1>5. CASE /\ meta' = [meta EXCEPT ![d] = IF skips THEN -1 ELSE listed[d].revision]
           /\ Finish(d, listed[d].live)
  <2>1. meta' \in [Devices -> Int]
    BY <1>1, <1>5 DEF TypeOK
  <2> QED BY <1>5, <2>1 DEF Page, server, player, At, Finish
<1> QED BY <1>2, <1>4, <1>5

LEMMA PageSound == ASSUME Sound, ThemeAssumption, NEW d \in Devices, Page(d) PROVE Sound'
<1> USE DEF Sound
<1>1. UNCHANGED <<shelf, head, receipts, stray, texts, over, given, faults>> /\ place[d] = "page"
  BY PageGoes
<1>2. RowsSound' /\ StrayWhole'
  <2>1. \A t \in Ids : RowOf(Asked(t)).state = "saved" <=> RowOf(Asked(t)).text # 0
    BY DEF RowOf, Gone
  <2> QED BY <1>1, <2>1, PageLeaves DEF RowsSound, StrayWhole
<1>3. ASSUME \A t \in Ids : SoundQueue(queue'[d][t], t) /\ \A row : Fits(queue[d][t], row) => Fits(queue'[d][t], row),
             \A t \in Ids : queue[d][t] = <<>> => queue'[d][t] = <<>>,
             \A c \in Devices : c # d => queue'[c] = queue[c]
      PROVE  QueuesSound'
  <2> SUFFICES ASSUME NEW c \in Devices, NEW t \in Ids
               PROVE  SoundQueue(queue'[c][t], t) /\ Fits(queue'[c][t], library'[c][t])
    BY DEF QueuesSound
  <2>1. CASE library'[c][t] = library[c][t]
    BY <1>3, <2>1 DEF QueuesSound
  <2>2. CASE c = d /\ queue[d][t] = <<>>
    BY <1>3, <2>2, EmptySound
  <2> QED BY <2>1, <2>2, PageLeaves
<1>4. CASE /\ UNCHANGED <<queue, meta, place, flight, answer, seen>> /\ cursor' \in [Devices -> Nat]
           /\ listed' \in [Devices -> [revision : Int, live : Int, skipped : BOOLEAN]]
  <2>1. TypeOK'
    BY <1>1, <1>4, PageLeaves DEF TypeOK
  <2>2. QueuesSound'
    BY <1>3, <1>4 DEF QueuesSound
  <2> QED BY <1>1, <1>2, <1>4, <2>1, <2>2, PassSound
<1>5. CASE Finish(d, listed[d].live) /\ Rest(d) /\ meta' \in [Devices -> Int]
  <2>1. /\ queue' \in [Devices -> [Ids -> Seq(Entry)]]
        /\ \A t \in Ids : /\ Alike(queue[d][t], queue'[d][t]) /\ SoundQueue(queue'[d][t], t)
                          /\ \A row : Fits(queue[d][t], row) => Fits(queue'[d][t], row)
        /\ \A c \in Devices : c # d => queue'[c] = queue[c]
    BY <1>5, FinishLeaves
  <2>2. TypeOK'
    BY <1>1, <1>5, <2>1, RestTypes, PageLeaves DEF TypeOK
  <2>3. \A t \in Ids : queue[d][t] = <<>> => queue'[d][t] = <<>>
    <3> TAKE t \in Ids
    <3>1. Len(queue'[d][t]) = Len(queue[d][t]) /\ queue'[d][t] \in Seq(Entry)
      BY <2>1 DEF Alike
    <3> QED BY <3>1, EmptyOrNot
  <2>4. QueuesSound'
    BY <1>3, <2>1, <2>3
  <2> QED BY <1>1, <1>2, <1>5, <2>1, <2>2, <2>4, RestTypes, PassSound
<1> QED BY <1>4, <1>5, PageGoes

LEMMA PickSound == ASSUME Sound, ThemeAssumption, NEW d \in Devices, Pick(d) PROVE Sound'
<1> USE DEF Sound
<1>1. PICK t \in Ids : Ready(d, t) /\ flight' = [flight EXCEPT ![d] = queue[d][t][1]]
  BY DEF Pick
<1>2. /\ place[d] = "idle" /\ place' = [place EXCEPT ![d] = "mark"]
      /\ UNCHANGED <<shelf, head, receipts, stray, library, noted, queue, meta, answer, seen, listed, cursor,
                     texts, over, given, faults>>
  BY DEF Pick, At, Go, server, store, player
<1>3. queue[d][t][1] \in Entry
  <2>1. queue[d][t] \in Seq(Entry) /\ queue[d][t] # <<>>
    BY <1>1 DEF TypeOK, Ready
  <2> QED BY <2>1
<1>4. /\ flight'[d] = queue[d][t][1] /\ \A c \in Devices : c # d => flight'[c] = flight[c]
      /\ place'[d] = "mark" /\ \A c \in Devices : c # d => place'[c] = place[c]
      /\ flight' \in [Devices -> Entry \cup {NoEntry}] /\ place' \in [Devices -> Places]
  BY <1>1, <1>2, <1>3 DEF TypeOK, Places
<1>5. TypeOK'
  BY <1>2, <1>4 DEF TypeOK
<1>6. QueuesSound' /\ RowsSound' /\ StrayWhole' /\ AnswersSound'
  BY <1>2 DEF QueuesSound, RowsSound, StrayWhole, AnswersSound
<1>7. InHand'
  BY <1>2, <1>3, <1>4 DEF InHand, Mine
<1> QED BY <1>5, <1>6, <1>7

LEMMA MarkSound == ASSUME Sound, ThemeAssumption, NEW d \in Devices, Mark(d) PROVE Sound'
<1> USE DEF Sound
<1> DEFINE e == flight[d]  t == e.id  q == queue[d][t]  n == Capped(e.tries + 1)  r == MarkedAs(q, n, "none")
<1>1. /\ place[d] = "mark" /\ UNCHANGED <<shelf, head, receipts, stray, library, noted, meta, texts, over, given, faults>>
  BY DEF Mark, At, server, player
<1>2. e \in Entry /\ t \in Ids /\ n \in 0..(Tries + 1) /\ n >= 1 /\ "none" \in Holds
  <2>1. e \in Entry
    BY <1>1 DEF InHand
  <2>2. e.tries \in 0..(Tries + 1) /\ t \in Ids
    BY <2>1 DEF Entry
  <2> HIDE DEF e
  <2> QED BY <2>1, <2>2 DEF Capped, Holds, ThemeAssumption
<1>3. SoundQueue(q, t) /\ Fits(q, library[d][t])
  BY <1>2 DEF QueuesSound
<1>4. RowsSound' /\ StrayWhole'
  BY <1>1 DEF RowsSound, StrayWhole
<1>5. CASE q = <<>>
  <2>1. Rest(d) /\ UNCHANGED queue
    BY <1>5 DEF Mark
  <2>2. TypeOK'
    BY <1>1, <2>1, RestTypes DEF TypeOK
  <2>3. QueuesSound'
    BY <1>1, <2>1 DEF QueuesSound
  <2> QED BY <1>1, <1>4, <2>1, <2>2, <2>3, RestTypes, PassSound
<1>6. CASE q # <<>>
  <2>1. /\ queue' = [queue EXCEPT ![d][t] = r] /\ flight' = [flight EXCEPT ![d] = r[1]]
        /\ place' = [place EXCEPT ![d] = "sent"] /\ UNCHANGED <<answer, seen, listed, cursor>>
    BY <1>6 DEF Mark, Outgoing, Go
  <2>2. /\ r \in Seq(Entry) /\ r # <<>> /\ r[1].sent /\ r[1].tries = n /\ r[1].hold = "none"
        /\ Alike(q, r)
    BY <1>2, <1>3, <1>6, MarkedAlike
  <2>3. SoundQueue(r, t) /\ Fits(r, library[d][t])
    BY <1>2, <1>3, <1>6, MarkedSound
  <2>4. r[1] \in Entry /\ r[1].id = t
    <3>1. 1 \in 1..Len(r)
      BY <2>2, EmptyOrNot
    <3> HIDE DEF r
    <3> QED BY <3>1, <2>2, <2>3 DEF SoundQueue
  <2> HIDE DEF r, t, n, e
  <2>5. /\ queue' \in [Devices -> [Ids -> Seq(Entry)]] /\ queue'[d][t] = r
        /\ \A s \in Ids : s # t => queue'[d][s] = queue[d][s]
        /\ \A c \in Devices : c # d => queue'[c] = queue[c]
    BY <1>2, <2>1, <2>2, OneQueue
  <2>6. /\ flight' \in [Devices -> Entry \cup {NoEntry}] /\ place' \in [Devices -> Places]
        /\ flight'[d] = r[1] /\ place'[d] = "sent"
        /\ \A c \in Devices : c # d => flight'[c] = flight[c] /\ place'[c] = place[c]
    BY <2>1, <2>4 DEF TypeOK, Places
  <2>7. TypeOK'
    BY <1>1, <2>1, <2>5, <2>6 DEF TypeOK
  <2>8. QueuesSound'
    <3> SUFFICES ASSUME NEW c \in Devices, NEW s \in Ids
                 PROVE  SoundQueue(queue'[c][s], s) /\ Fits(queue'[c][s], library[c][s])
      BY <1>1 DEF QueuesSound
    <3>1. CASE c = d /\ s = t
      BY <3>1, <2>3, <2>5
    <3>2. CASE ~(c = d /\ s = t)
      <4>1. queue'[c][s] = queue[c][s]
        BY <3>2, <2>5
      <4> QED BY <4>1 DEF QueuesSound
    <3> QED BY <3>1, <3>2
  <2>9. InHand'
    <3> SUFFICES ASSUME NEW c \in Devices, place'[c] \in {"mark", "sent", "settle"}
                 PROVE  /\ flight'[c] \in Entry
                        /\ place'[c] \in {"sent", "settle"} =>
                             /\ queue'[c][flight'[c].id] # <<>> /\ flight'[c] = queue'[c][flight'[c].id][1]
                             /\ flight'[c].sent /\ flight'[c].tries >= 1 /\ flight'[c].hold = "none"
      BY DEF InHand, Mine
    <3>1. CASE c = d
      BY <3>1, <1>2, <2>2, <2>4, <2>5, <2>6
    <3>2. CASE c # d
      <4>1. place'[c] = place[c] /\ flight'[c] = flight[c] /\ queue'[c] = queue[c]
        BY <3>2, <2>5, <2>6
      <4> QED BY <4>1 DEF InHand, Mine
    <3> QED BY <3>1, <3>2
  <2>10. AnswersSound'
    BY <1>1, <2>1 DEF AnswersSound
  <2> QED BY <1>4, <2>7, <2>8, <2>9, <2>10
<1> QED BY <1>5, <1>6

LEMMA ServeSound == ASSUME Sound, ThemeAssumption, NEW d \in Devices, Serve(d) PROVE Sound'
<1> USE DEF Sound
<1> DEFINE e == flight[d]
<1>1. /\ place[d] = "sent" /\ Carry(e) /\ answer' = [answer EXCEPT ![d] = Reply(e)]
      /\ seen' = [seen EXCEPT ![d] = library[d][e.id]] /\ place' = [place EXCEPT ![d] = "settle"]
      /\ UNCHANGED <<stray, library, noted, queue, meta, flight, listed, cursor, texts, over, given, faults>>
  BY DEF Serve, At, Go, store, player
<1>2. e \in Entry /\ e.id \in Ids /\ Whole(e)
  <2>1. e \in Entry /\ Mine(d) # <<>> /\ e = Mine(d)[1]
    BY <1>1 DEF InHand
  <2>2. e.id \in Ids
    BY <2>1 DEF Entry
  <2>3. SoundQueue(Mine(d), e.id)
    BY <2>2 DEF QueuesSound, Mine
  <2>4. 1 \in 1..Len(Mine(d))
    BY <2>1, <2>3, EmptyOrNot DEF SoundQueue
  <2> QED BY <2>1, <2>2, <2>3, <2>4 DEF SoundQueue
<1> HIDE DEF e
<1>3. /\ Reply(e) \in Answer
      /\ Reply(e).kind \in {"ok", "conflict"} /\ Reply(e).text # Gone => Reply(e).revision >= 1
  BY <1>2, ReplyTypes
<1>4. /\ shelf' \in [Ids -> Seq(Texts)] /\ head' \in [revision : Nat, live : Int]
      /\ receipts' \subseteq [key : Keys, fingerprint : [id : Ids, op : {"put", "delete"}, text : Texts, base : Int],
                              revision : Nat]
      /\ \A r \in receipts' : r.revision >= 1
  BY <1>1, <1>2, CarryTypes
<1>5. /\ answer' \in [Devices -> Answer] /\ seen' \in [Devices -> Row] /\ place' \in [Devices -> Places]
      /\ answer'[d] = Reply(e) /\ place'[d] = "settle"
      /\ \A c \in Devices : c # d => answer'[c] = answer[c] /\ place'[c] = place[c]
  BY <1>1, <1>2, <1>3 DEF TypeOK, Places
<1>6. TypeOK'
  BY <1>1, <1>4, <1>5 DEF TypeOK
<1>7. QueuesSound' /\ RowsSound' /\ StrayWhole'
  BY <1>1 DEF QueuesSound, RowsSound, StrayWhole
<1>8. InHand'
  BY <1>1, <1>5 DEF InHand, Mine
<1>9. AnswersSound'
  <2> SUFFICES ASSUME NEW c \in Devices, answer'[c].kind \in {"ok", "conflict"}, answer'[c].text # Gone
               PROVE  answer'[c].revision >= 1
    BY <1>4 DEF AnswersSound
  <2>1. CASE c = d
    BY <2>1, <1>3, <1>5
  <2>2. CASE c # d
    BY <2>2, <1>5 DEF AnswersSound
  <2> QED BY <2>1, <2>2
<1> QED BY <1>6, <1>7, <1>8, <1>9

LEMMA AbandonedWhole ==
  ASSUME Sound, NEW d \in Devices
  PROVE  \A e \in Abandoned(d) : e \in Entry /\ Whole(e)
<1> SUFFICES ASSUME place[d] = "sent" PROVE flight[d] \in Entry /\ Whole(flight[d])
  BY DEF Abandoned, At
<1>1. flight[d] \in Entry /\ Mine(d) # <<>> /\ flight[d] = Mine(d)[1]
  BY DEF Sound, InHand
<1>2. SoundQueue(Mine(d), flight[d].id)
  BY <1>1 DEF Sound, QueuesSound, Mine, Entry
<1>3. 1 \in 1..Len(Mine(d))
  BY <1>1, <1>2, EmptyOrNot DEF SoundQueue
<1> QED BY <1>1, <1>2, <1>3 DEF SoundQueue

LEMMA UnansweredSound ==
  ASSUME Sound, ThemeAssumption, NEW d \in Devices, NEW kind \in {"error", "pause"}, Unanswered(d, kind)
  PROVE  Sound'
<1> USE DEF Sound
<1>1. /\ place[d] = "sent" /\ stray' = stray \cup Abandoned(d)
      /\ place' = [place EXCEPT ![d] = "settle"] /\ faults' = faults + 1 /\ faults < MaxFaults
      /\ UNCHANGED <<shelf, head, receipts, library, noted, queue, meta, flight, seen, listed, cursor, texts, over, given>>
  BY DEF Unanswered, Fault, At, Go, server, store, player
<1>2. Bare(kind) \in Answer /\ Bare(kind).kind = kind
  BY EmptyTypes DEF Bare, NoAnswer, Answer
<1>3. answer' = [answer EXCEPT ![d] = Bare(kind)]
  BY DEF Unanswered, Bare
<1>4. /\ answer' \in [Devices -> Answer] /\ place' \in [Devices -> Places] /\ answer'[d].kind = kind /\ place'[d] = "settle"
      /\ \A c \in Devices : c # d => answer'[c] = answer[c] /\ place'[c] = place[c]
  BY <1>1, <1>2, <1>3 DEF TypeOK, Places
<1>5. stray' \subseteq Entry /\ StrayWhole'
  BY <1>1, AbandonedWhole DEF TypeOK, StrayWhole
<1>6. faults' \in 0..MaxFaults
  BY <1>1 DEF TypeOK, ThemeAssumption
<1>8. TypeOK'
  BY <1>1, <1>4, <1>5, <1>6 DEF TypeOK
<1>9. QueuesSound' /\ RowsSound' /\ InHand'
  <2>1. place[d] = "sent"
    BY <1>1
  <2> QED BY <2>1, <1>1, <1>4 DEF QueuesSound, RowsSound, InHand, Mine
<1>10. AnswersSound'
  BY <1>1, <1>4 DEF AnswersSound
<1> QED BY <1>5, <1>8, <1>9, <1>10

LEMMA CloseSound == ASSUME Sound, ThemeAssumption, NEW d \in Devices, Close(d) PROVE Sound'
<1> USE DEF Sound
<1>1. /\ stray' = stray \cup Abandoned(d) /\ Rest(d) /\ faults' = faults + 1 /\ faults < MaxFaults
      /\ UNCHANGED <<shelf, head, receipts, library, noted, queue, meta, texts, over, given>>
  BY DEF Close, Fault, server, store, player
<1>2. stray' \subseteq Entry /\ StrayWhole'
  BY <1>1, AbandonedWhole DEF TypeOK, StrayWhole
<1>3. faults' \in 0..MaxFaults
  BY <1>1 DEF TypeOK, ThemeAssumption
<1>4. TypeOK'
  BY <1>1, <1>2, <1>3, RestTypes DEF TypeOK
<1>5. QueuesSound' /\ RowsSound'
  BY <1>1 DEF QueuesSound, RowsSound
<1> QED BY <1>1, <1>2, <1>4, <1>5, RestTypes, PassSound

LEMMA StraggleSound == ASSUME Sound, ThemeAssumption, NEW e \in stray, Straggle(e) PROVE Sound'
<1> USE DEF Sound
<1>1. /\ stray' = stray \ {e} /\ Carry(e)
      /\ UNCHANGED <<library, noted, queue, meta, place, flight, answer, seen, listed, cursor, texts, over, given, faults>>
  BY DEF Straggle, store, worker, player
<1>2. e \in Entry /\ Whole(e)
  BY DEF TypeOK, StrayWhole
<1>3. /\ shelf' \in [Ids -> Seq(Texts)] /\ head' \in [revision : Nat, live : Int]
      /\ receipts' \subseteq [key : Keys, fingerprint : [id : Ids, op : {"put", "delete"}, text : Texts, base : Int],
                              revision : Nat]
      /\ \A r \in receipts' : r.revision >= 1
  BY <1>1, <1>2, CarryTypes
<1>4. TypeOK'
  BY <1>1, <1>3 DEF TypeOK
<1>5. QueuesSound' /\ RowsSound' /\ StrayWhole' /\ InHand'
  BY <1>1 DEF QueuesSound, RowsSound, StrayWhole, InHand, Mine
<1>6. AnswersSound'
  BY <1>1, <1>3 DEF AnswersSound
<1> QED BY <1>4, <1>5, <1>6

LEMMA ExpireSound == ASSUME Sound, ThemeAssumption, NEW r \in receipts, Expire(r) PROVE Sound'
<1> USE DEF Sound
<1>1. /\ receipts' \subseteq receipts /\ faults' = faults + 1 /\ faults < MaxFaults
      /\ UNCHANGED <<shelf, head, stray, library, noted, queue, meta, place, flight, answer, seen, listed, cursor,
                     texts, over, given>>
  BY DEF Expire, Fault, store, worker, player
<1>2. faults' \in 0..MaxFaults
  BY <1>1 DEF TypeOK, ThemeAssumption
<1>3. TypeOK'
  BY <1>1, <1>2 DEF TypeOK
<1> QED BY <1>1, <1>3 DEF QueuesSound, RowsSound, StrayWhole, InHand, AnswersSound, Mine

LEMMA SoundStep == Sound /\ [Next]_vars => Sound'
<1> SUFFICES ASSUME Sound, [Next]_vars PROVE Sound'
  OBVIOUS
<1>1. CASE UNCHANGED vars
  BY <1>1 DEF vars, server, store, worker, player, Sound, TypeOK, QueuesSound, RowsSound, StrayWhole, InHand, AnswersSound, Mine
<1>2. ASSUME NEW d \in Devices, Step(d) PROVE Sound'
  BY <1>2, ThemeAssumption, MarkSound, ServeSound, ConfirmSound, GivenUpSound, ResolveSound, RefuseSound, AskSound, PageSound
     DEF Step
<1>3. ASSUME NEW d \in Devices, Rouse(d) \/ Pick(d) \/ Close(d) \/ Unanswered(d, "error") \/ Unanswered(d, "pause")
      PROVE  Sound'
  BY <1>3, ThemeAssumption, RouseSound, PickSound, CloseSound, UnansweredSound
<1>4. ASSUME NEW d \in Devices, NEW t \in Ids, Save(d, t) \/ Delete(d, t) PROVE Sound'
  BY <1>4, ThemeAssumption, SaveSound, DeleteStepSound
<1>5. ASSUME NEW e \in stray, Straggle(e) PROVE Sound'
  BY <1>5, ThemeAssumption, StraggleSound
<1>6. ASSUME NEW r \in receipts, Expire(r) PROVE Sound'
  BY <1>6, ThemeAssumption, ExpireSound
<1> QED BY <1>1, <1>2, <1>3, <1>4, <1>5, <1>6 DEF Next

LEMMA AlwaysSound == Spec => []Sound
<1> QED BY SoundInit, SoundStep, PTL DEF Spec

\* The types of the whole system, which rest on what a plan may leave in a queue: what
\* is sent is a change that was stored, a try is given back only when one was spent, and
\* what is picked, marked and settled is one entry.
THEOREM TypeCorrect == Spec => []TypeOK
<1>1. Sound => TypeOK
  BY DEF Sound
<1> QED BY <1>1, AlwaysSound, PTL

-----------------------------------------------------------------------------
(* The count of live themes.                                               *)

\* A request is written only over what it expects to find, and where there is room.
LEMMA WrittenExpected ==
  ASSUME NEW e, Written(e)
  PROVE  Expected(e) /\ Room(e) /\ Prior(e) = {} /\ Reply(e) = [kind |-> "ok", revision |-> Revision(e.id) + 1, text |-> After(e)]
<1>1. Reply(e) = IF e.op = "put" /\ e.text \in Invalid THEN Bare("rejected")
                 ELSE IF ~Expected(e) THEN [kind |-> "conflict", revision |-> Revision(e.id), text |-> Text(e.id)]
                 ELSE IF ~Room(e) THEN Bare("full")
                 ELSE [kind |-> "ok", revision |-> Revision(e.id) + 1, text |-> After(e)]
  BY Zenon DEF Reply, Bare, Written
<1>2. Bare("rejected").kind = "rejected" /\ Bare("full").kind = "full"
  BY DEF Bare, NoAnswer
<1> QED BY <1>1, <1>2 DEF Written

\* A write moves the count as it moves the themes that are live.
LEMMA CarryCounts ==
  ASSUME Sound, ThemeAssumption, LiveIsCounted, NEW e \in Entry, Whole(e), Carry(e)
  PROVE  LiveIsCounted'
<1> DEFINE L == {t \in Ids : LiveOn(t)}
<1>1. IsFiniteSet(L)
  <2>1. IsFiniteSet(Ids)
    BY FS_Interval DEF Ids, ThemeAssumption
  <2> QED BY <2>1, FS_Subset
<1>2. /\ head.live = Cardinality(L) /\ head.live <= MaxThemes /\ Cardinality(L) \in Nat
  BY <1>1, FS_CardinalityType DEF LiveIsCounted
<1>3. \A t \in Ids : t # e.id => (LiveOn(t)' <=> LiveOn(t))
  BY CarryShelf DEF Sound, LiveOn, Text
<1>4. CASE ~Written(e)
  <2>1. shelf' = shelf /\ head' = head
    BY <1>4, CarryShelf DEF Sound
  <2> QED BY <2>1 DEF LiveIsCounted, LiveOn, Text
<1>5. CASE Written(e)
  <2>1. Expected(e) /\ Room(e) /\ e.id \in Ids /\ e.op \in {"put", "delete"}
    BY <1>5, WrittenExpected DEF Entry
  <2>2. shelf'[e.id] # <<>> /\ LastOf(shelf'[e.id]) = After(e)
    BY <1>5, CarryShelf DEF Sound
  <2>3. LiveOn(e.id)' <=> e.op = "put"
    BY <2>1, <2>2 DEF LiveOn, Text, After, Whole, Gone
  <2>4. head'.live = head.live + (IF e.base = None THEN 1 ELSE IF e.op = "delete" THEN -1 ELSE 0)
    BY <1>5 DEF Carry
  <2>5. CASE e.base = None
    <3>1. e.op = "put" /\ ~LiveOn(e.id) /\ head.live < MaxThemes
      BY <2>1, <2>5 DEF Whole, Expected, Room, LiveOn
    <3>2. {t \in Ids : LiveOn(t)'} = L \cup {e.id} /\ e.id \notin L
      BY <1>3, <2>1, <2>3, <3>1
    <3>3. Cardinality(L \cup {e.id}) = Cardinality(L) + 1
      BY <1>1, <3>2, FS_AddElement
    <3>4. head'.live = Cardinality({t \in Ids : LiveOn(t)'}) /\ head'.live <= MaxThemes
      BY <1>2, <2>4, <2>5, <3>1, <3>2, <3>3 DEF ThemeAssumption
    <3> QED BY <3>4 DEF LiveIsCounted
  <2>6. CASE e.base # None /\ e.op = "delete"
    <3>1. LiveOn(e.id)
      BY <2>1, <2>6 DEF Expected
    <3>2. {t \in Ids : LiveOn(t)'} = L \ {e.id} /\ e.id \in L
      BY <1>3, <2>1, <2>3, <2>6, <3>1
    <3>3. Cardinality(L \ {e.id}) = Cardinality(L) - 1
      BY <1>1, <3>2, FS_RemoveElement
    <3>4. head'.live = Cardinality({t \in Ids : LiveOn(t)'}) /\ head'.live <= MaxThemes
      <4>1. head'.live = Cardinality(L) - 1 /\ head'.live <= MaxThemes
        BY <1>2, <2>4, <2>6 DEF ThemeAssumption
      <4> QED BY <4>1, <3>2, <3>3
    <3> QED BY <3>4 DEF LiveIsCounted
  <2>7. CASE e.base # None /\ e.op = "put"
    <3>1. LiveOn(e.id)
      BY <2>1, <2>7 DEF Expected
    <3>2. {t \in Ids : LiveOn(t)'} = L
      BY <1>3, <2>1, <2>3, <2>7, <3>1
    <3>3. head'.live = head.live
      BY <1>2, <2>4, <2>7
    <3> QED BY <3>2, <3>3 DEF LiveIsCounted
  <2> QED BY <2>1, <2>5, <2>6, <2>7
<1> QED BY <1>4, <1>5

\* A change on the server is a request that is carried, with the steps that carry it.
LEMMA ServerMoves ==
  ASSUME Sound, [Next]_vars
  PROVE  \/ UNCHANGED <<shelf, head, receipts>>
         \/ \E d \in Devices : Serve(d) /\ Carry(flight[d]) /\ flight[d] \in Entry /\ Whole(flight[d])
         \/ \E e \in stray : Straggle(e) /\ Carry(e) /\ e \in Entry /\ Whole(e)
         \/ \E r \in receipts : Expire(r) /\ UNCHANGED <<shelf, head>> /\ receipts' = receipts \ {r}
<1>1. ASSUME NEW d \in Devices, Serve(d)
      PROVE  Carry(flight[d]) /\ flight[d] \in Entry /\ Whole(flight[d])
  <2>1. flight[d] \in Abandoned(d) /\ Carry(flight[d])
    BY <1>1 DEF Serve, Abandoned
  <2> QED BY <2>1, AbandonedWhole
<1>2. ASSUME NEW e \in stray, Straggle(e)
      PROVE  Carry(e) /\ e \in Entry /\ Whole(e)
  BY <1>2 DEF Straggle, Sound, TypeOK, StrayWhole
<1>3. ASSUME NEW r \in receipts, Expire(r)
      PROVE  UNCHANGED <<shelf, head>> /\ receipts' = receipts \ {r}
  BY <1>3 DEF Expire
<1>4. ASSUME NEW d \in Devices, NEW t \in Ids, Save(d, t) \/ Delete(d, t)
      PROVE  UNCHANGED <<shelf, head, receipts>>
  BY <1>4 DEF Save, Delete, Change, server
<1>5. ASSUME NEW d \in Devices, Step(d) PROVE Serve(d) \/ UNCHANGED <<shelf, head, receipts>>
  BY <1>5 DEF Step, Mark, Confirm, Resend, Resolve, Refuse, Retry, Pause, Ask, Page, server
<1>6. ASSUME NEW d \in Devices, Rouse(d) \/ Pick(d) \/ Close(d) \/ Unanswered(d, "error") \/ Unanswered(d, "pause")
      PROVE  UNCHANGED <<shelf, head, receipts>>
  BY <1>6 DEF Rouse, Pick, Close, Unanswered, server
<1>7. CASE UNCHANGED vars
  BY <1>7 DEF vars, server
<1> QED BY <1>1, <1>2, <1>3, <1>4, <1>5, <1>6, <1>7 DEF Next

\* The count the limit is held against is the count of live themes, whatever is sent,
\* sent again, lost, raced or served late.
THEOREM CountCorrect == Spec => []LiveIsCounted
<1>1. Init => LiveIsCounted
  <2> SUFFICES ASSUME Init PROVE LiveIsCounted
    OBVIOUS
  <2>1. {t \in Ids : LiveOn(t)} = {}
    BY DEF Init, LiveOn
  <2>2. Cardinality({t \in Ids : LiveOn(t)}) = 0
    BY <2>1, FS_EmptySet
  <2>3. head.live = 0 /\ 0 <= MaxThemes
    BY ThemeAssumption DEF Init, ThemeAssumption
  <2> QED BY <2>2, <2>3 DEF LiveIsCounted
<1>2. Sound /\ LiveIsCounted /\ [Next]_vars => LiveIsCounted'
  <2> SUFFICES ASSUME Sound, LiveIsCounted, [Next]_vars PROVE LiveIsCounted'
    OBVIOUS
  <2>1. CASE shelf' = shelf /\ head' = head
    BY <2>1 DEF LiveIsCounted, LiveOn, Text
  <2> QED BY <2>1, ServerMoves, CarryCounts, ThemeAssumption
<1> QED BY <1>1, <1>2, AlwaysSound, PTL DEF Spec

-----------------------------------------------------------------------------
(* A key is one change.                                                    *)

\* The same key, and the same change once it has left.
Continues(e, f) == f.key = e.key /\ (e.sent => f.sent /\ Fingerprint(f) = Fingerprint(e))

\* What is queued was queued before, or is new under one of these keys.
Derived(q, q2, K) ==
  /\ Distinct(q2)
  /\ \A j \in 1..Len(q2) : \/ q2[j].key \in K /\ ~q2[j].sent
                           \/ \E i \in 1..Len(q) : Continues(q[i], q2[j])

Unkeyed(k, q) == \A i \in 1..Len(q) : q[i].key # k

LEMMA EmptyDerived == ASSUME NEW q, NEW K PROVE Derived(q, <<>>, K)
  BY DEF Derived, Distinct

LEMMA AlikeDerived ==
  ASSUME NEW q, NEW q2, Distinct(q), Alike(q, q2), NEW K
  PROVE  Derived(q, q2, K)
<1>1. Len(q2) = Len(q) /\ \A i \in 1..Len(q) : q2[i].key = q[i].key /\ Continues(q[i], q2[i])
  BY DEF Alike, Same, Continues, Fingerprint
<1> QED BY <1>1 DEF Derived, Distinct

LEMMA SameDerived ==
  ASSUME NEW q, Distinct(q), NEW K
  PROVE  Derived(q, q, K)
  BY DEF Derived, Continues

LEMMA EndedDerived ==
  ASSUME NEW q \in Seq(Entry), NEW q2 \in Seq(Entry), NEW e, NEW k, Distinct(q), Unkeyed(k, q), Ended(q, q2, e), ~e.sent,
         e.key = k \/ (Len(q2) = Len(q) /\ Unsent(LastOf(q)) /\ e.key = LastOf(q).key)
  PROVE  Derived(q, q2, {k})
<1>1. Len(q) \in Nat /\ Len(q2) \in Nat
  BY EmptyOrNot
<1>2. CASE Len(q2) = Len(q) + 1 /\ q2[Len(q2)] = e /\ \A i \in 1..Len(q) : q2[i] = q[i]
  <2>1. e.key = k /\ \A j \in 1..Len(q2) : (j = Len(q2) /\ q2[j] = e) \/ (j \in 1..Len(q) /\ q2[j] = q[j])
    BY <1>1, <1>2
  <2>2. Distinct(q2)
    BY <2>1 DEF Distinct, Unkeyed
  <2>3. \A j \in 1..Len(q2) : (q2[j].key = k /\ ~q2[j].sent) \/ \E i \in 1..Len(q) : Continues(q[i], q2[j])
    BY <2>1 DEF Continues
  <2> QED BY <2>2, <2>3 DEF Derived
<1>3. CASE Len(q) > 0 /\ Len(q2) = Len(q) /\ q2[Len(q2)] = e /\ \A i \in 1..(Len(q) - 1) : q2[i] = q[i]
  <2>1. \A j \in 1..Len(q2) : (j = Len(q2) /\ q2[j] = e) \/ (j \in 1..(Len(q) - 1) /\ j \in 1..Len(q) /\ j # Len(q) /\ q2[j] = q[j])
    BY <1>1, <1>3
  <2>2. e.key = k \/ (Len(q) \in 1..Len(q) /\ ~q[Len(q)].sent /\ e.key = q[Len(q)].key)
    BY <1>1, <1>3 DEF LastOf, Unsent
  <2>3. Distinct(q2)
    <3>1. ASSUME NEW j \in 1..Len(q), j # Len(q) PROVE q[j].key # e.key
      BY <3>1, <2>2 DEF Distinct, Unkeyed
    <3> QED BY <1>1, <1>3, <2>1, <3>1 DEF Distinct
  <2>4. \A j \in 1..Len(q2) : (q2[j].key = k /\ ~q2[j].sent) \/ \E i \in 1..Len(q) : Continues(q[i], q2[j])
    BY <2>1, <2>2 DEF Continues
  <2> QED BY <2>3, <2>4 DEF Derived
<1> QED BY <1>2, <1>3 DEF Ended

LEMMA PutDerived ==
  ASSUME ThemeAssumption, NEW t \in Ids, NEW q, SoundQueue(q, t), Distinct(q), NEW n \in Noted,
         NEW text \in Texts \ {0}, NEW k \in Keys, Unkeyed(k, q)
  PROVE  Derived(q, PlanPut(q, n, t, text, k), {k})
<1> DEFINE q2 == PlanPut(q, n, t, text, k)
<1>1. PICK base \in Int, key \in Keys :
           /\ q2 \in Seq(Entry) /\ q2 # <<>> /\ Ended(q, q2, Fresh(t, "put", text, base, key))
           /\ Len(q2) = Len(q) => /\ LastOf(q).op = "put" /\ NotReached(LastOf(q)) /\ base = LastOf(q).base
                                  /\ key = k \/ (Unsent(LastOf(q)) /\ key = LastOf(q).key)
           /\ Len(q2) # Len(q) => key = k /\ base = IF q = <<>> THEN FromRemote(n) ELSE Previous
  BY PutEnds
<1> HIDE DEF q2
<1> DEFINE e == Fresh(t, "put", text, base, key)
<1>2. ~e.sent /\ e.key = key
  BY DEF Fresh
<1> HIDE DEF e
<1>3. Ended(q, q2, e) /\ q \in Seq(Entry)
  BY <1>1 DEF e, SoundQueue
<1>4. Derived(q, q2, {k})
  BY <1>1, <1>2, <1>3, EndedDerived
<1> QED BY <1>4 DEF q2

LEMMA DeleteDerived ==
  ASSUME ThemeAssumption, NEW t \in Ids, NEW q, SoundQueue(q, t), Distinct(q), NEW n \in Noted,
         NEW text \in Texts, NEW k \in Keys, Unkeyed(k, q)
  PROVE  Derived(q, PlanDelete(q, n, t, text, k), {k})
<1> DEFINE q2 == PlanDelete(q, n, t, text, k)
<1> HIDE DEF q2
<1>1. CASE q2 = <<>>
  BY <1>1, EmptyDerived DEF q2
<1>2. ASSUME NEW base \in Int \ {None}, q2 \in Seq(Entry), Ended(q, q2, Fresh(t, "delete", text, base, k))
      PROVE  Derived(q, q2, {k})
  <2> DEFINE e == Fresh(t, "delete", text, base, k)
  <2>1. ~e.sent /\ e.key = k
    BY DEF Fresh
  <2> HIDE DEF e
  <2>2. Ended(q, q2, e) /\ q \in Seq(Entry)
    BY <1>2 DEF e, SoundQueue
  <2> QED BY <1>2, <2>1, <2>2, EndedDerived
<1> QED BY <1>1, <1>2, DeleteEnds DEF q2

LEMMA FollowingDerived ==
  ASSUME NEW t \in Ids, NEW q, SoundQueue(q, t), q # <<>>, Distinct(q), NEW live \in BOOLEAN, NEW rev \in Nat, NEW K
  PROVE  Derived(q, Following(q, live, rev), K)
<1> DEFINE q2 == Following(q, live, rev)
           e == Based(q[2], IF live THEN rev ELSE None)
<1> HIDE DEF q2, e
<1>1. CASE q2 = <<>>
  BY <1>1, EmptyDerived DEF q2
<1>2. CASE /\ q2 \in Seq(Entry) /\ Len(q2) = Len(q) - 1 /\ Len(q) > 1
           /\ q2[1] = e /\ \A i \in 2..Len(q2) : q2[i] = q[i + 1]
  <2>1. q \in Seq(Entry) /\ Len(q) \in Nat
    BY EmptyOrNot DEF SoundQueue
  <2>2. \A i \in 1..Len(q2) : i + 1 \in 1..Len(q) /\ i + 1 \in 2..Len(q) /\ (i = 1 \/ q2[i] = q[i + 1])
    BY <2>1, <1>2
  <2>3. q[2] \in Entry /\ 2 \in 2..Len(q)
    BY <2>1, <1>2
  <2>4. e.key = q[2].key
    BY <2>3, BasedIsEntry DEF e, None
  <2>5. \A i \in 1..Len(q2) : q2[i].key = q[i + 1].key
    BY <2>2, <2>4, <1>2
  <2>6. \A i \in 1..Len(q2) : ~q[i + 1].sent
    BY <2>2 DEF SoundQueue, Unsent
  <2>7. Distinct(q2)
    BY <2>1, <2>2, <2>5, <1>2 DEF Distinct
  <2>8. \A i \in 1..Len(q2) : Continues(q[i + 1], q2[i])
    BY <2>5, <2>6 DEF Continues
  <2> QED BY <2>2, <2>7, <2>8 DEF Derived, q2
<1> QED BY <1>1, <1>2, FollowingLeaves DEF q2, e

LEMMA MarkedDerived ==
  ASSUME NEW t \in Ids, NEW q, SoundQueue(q, t), q # <<>>, Distinct(q), NEW tries \in 0..(Tries + 1), NEW hold \in Holds, NEW K
  PROVE  Derived(q, MarkedAs(q, tries, hold), K)
  BY MarkedAlike, AlikeDerived

LEMMA RefusedDerived ==
  ASSUME ThemeAssumption, NEW t \in Ids, NEW q, SoundQueue(q, t), q # <<>>, Distinct(q), NEW hold \in Holds,
         NEW tries \in 0..(Tries + 1), NEW k \in Keys
  PROVE  Derived(q, PlanRefused(q, hold, tries, k), {k})
<1> DEFINE q2 == PlanRefused(q, hold, tries, k)
           e == Fresh(t, LastOf(q).op, LastOf(q).text, q[1].base, k)
<1>1. e.key = k /\ ~e.sent
  BY DEF Fresh
<1> HIDE DEF q2, e
<1>2. CASE q2 = MarkedAs(q, tries, hold)
  BY <1>2, MarkedDerived DEF q2
<1>3. CASE q2 = <<>>
  BY <1>3, EmptyDerived DEF q2
<1>4. CASE Len(q2) = 1 /\ q2[1] = e
  BY <1>1, <1>4 DEF Derived, Distinct, q2
<1> QED BY <1>2, <1>3, <1>4, RefusedLeaves DEF q2, e

LEMMA AlikeItself == ASSUME NEW q PROVE Alike(q, q)
  BY DEF Alike, Same

\* All but five kinds of step leave every queue as it was, but for tries and holds.
LEMMA QueueSteps ==
  ASSUME Sound, ThemeAssumption, [Next]_vars
  PROVE  \/ \E d \in Devices, t \in Ids : Save(d, t) \/ Delete(d, t)
         \/ \E d \in Devices : Confirm(d) \/ Resolve(d) \/ Refuse(d)
         \/ \A d \in Devices, t \in Ids : Alike(queue[d][t], queue'[d][t])
<1> DEFINE Still == \A d \in Devices, t \in Ids : Alike(queue[d][t], queue'[d][t])
<1>1. ASSUME UNCHANGED queue PROVE Still
  BY <1>1, AlikeItself
<1>2. ASSUME NEW d \in Devices, NEW t \in Ids, NEW q \in Seq(Entry), Alike(queue[d][t], q),
             queue' = [queue EXCEPT ![d][t] = q]
      PROVE  Still
  <2> SUFFICES ASSUME NEW c \in Devices, NEW s \in Ids PROVE Alike(queue[c][s], queue'[c][s])
    OBVIOUS
  <2>1. /\ queue'[d][t] = q /\ \A r \in Ids : r # t => queue'[d][r] = queue[d][r]
        /\ \A b \in Devices : b # d => queue'[b] = queue[b]
    BY <1>2, OneQueue, ZenonT(60) DEF Sound
  <2>2. (c = d /\ s = t) \/ queue'[c][s] = queue[c][s]
    BY <2>1
  <2> QED BY <1>2, <2>1, <2>2, AlikeItself
<1>3. ASSUME NEW d \in Devices, place[d] = "settle", NEW tries \in 0..(Tries + 1), NEW hold \in Holds,
             SetMine(d, MarkedAs(Mine(d), tries, hold))
      PROVE  Still
  <2>1. /\ flight[d].id \in Ids /\ MarkedAs(Mine(d), tries, hold) \in Seq(Entry)
        /\ Alike(Mine(d), MarkedAs(Mine(d), tries, hold))
    BY <1>3, AtSettle, MarkedAlike
  <2> QED BY <1>2, <1>3, <2>1 DEF SetMine, Mine
<1>4. ASSUME NEW d \in Devices, Resend(d) \/ Retry(d) \/ Pause(d) PROVE Still
  <2>1. place[d] = "settle"
    BY <1>4 DEF Resend, Retry, Pause, Contested, Answered, At
  <2>2. flight[d].tries \in 0..(Tries + 1) /\ flight[d].tries - 1 \in 0..(Tries + 1)
    <3>1. flight[d].tries \in 1..(Tries + 1) /\ Tries \in Nat
      BY <2>1, AtSettle DEF ThemeAssumption
    <3> QED BY <3>1
  <2>3. "none" \in Holds /\ (IF flight[d].tries >= Tries THEN "retry-exhausted" ELSE "none") \in Holds
    BY DEF Holds
  <2> HIDE DEF Still
  <2>4. CASE Resend(d)
    BY <1>3, <2>1, <2>2, <2>3, <2>4 DEF Resend
  <2>5. CASE Retry(d)
    BY <1>3, <2>1, <2>2, <2>3, <2>5 DEF Retry
  <2>6. CASE Pause(d)
    BY <1>3, <2>1, <2>2, <2>3, <2>6 DEF Pause
  <2> QED BY <1>4, <2>4, <2>5, <2>6
<1>5. ASSUME NEW d \in Devices, Mark(d) PROVE Still
  <2> DEFINE e == flight[d]  t == e.id  q == queue[d][t]  n == Capped(e.tries + 1)
  <2>1. e \in Entry
    BY <1>5 DEF Mark, At, Sound, InHand
  <2>2. t \in Ids /\ n \in 0..(Tries + 1) /\ "none" \in Holds
    <3>1. e.tries \in 0..(Tries + 1) /\ t \in Ids
      BY <2>1 DEF Entry
    <3> HIDE DEF e
    <3> QED BY <3>1 DEF Capped, Holds, ThemeAssumption
  <2>3. CASE q = <<>>
    BY <1>1, <1>5, <2>3 DEF Mark
  <2>4. CASE q # <<>>
    <3>1. SoundQueue(q, t)
      BY <2>2 DEF Sound, QueuesSound
    <3>2. MarkedAs(q, n, "none") \in Seq(Entry) /\ Alike(q, MarkedAs(q, n, "none"))
      BY <2>2, <2>4, <3>1, MarkedAlike
    <3>3. queue' = [queue EXCEPT ![d][t] = MarkedAs(q, n, "none")]
      BY <1>5, <2>4 DEF Mark
    <3> HIDE DEF t, n, Still
    <3> QED BY <1>2, <2>2, <3>2, <3>3
  <2> QED BY <2>3, <2>4
<1>6. ASSUME NEW d \in Devices, \A t \in Ids : Alike(queue[d][t], queue'[d][t]),
             \A c \in Devices : c # d => queue'[c] = queue[c]
      PROVE  Still
  <2> SUFFICES ASSUME NEW c \in Devices, NEW s \in Ids PROVE Alike(queue[c][s], queue'[c][s])
    OBVIOUS
  <2> QED BY <1>6, AlikeItself
<1>7. ASSUME NEW d \in Devices, NEW live, Finish(d, live) PROVE Still
  BY <1>6, <1>7, FinishLeaves
<1> HIDE DEF Still
<1>8. ASSUME NEW d \in Devices, Rouse(d) PROVE Still
  <2>1. queue' = [queue EXCEPT ![d] = Released(queue[d], "retry-exhausted", TRUE)]
    BY <1>8 DEF Rouse
  <2> QED BY <1>6, <2>1, FreedQueues
<1>9. ASSUME NEW d \in Devices, Ask(d) PROVE Still
  <2>1. Finish(d, head.live) \/ UNCHANGED queue
    BY <1>9 DEF Ask
  <2> QED BY <1>1, <1>7, <2>1
<1>10. ASSUME NEW d \in Devices, Page(d) PROVE Still
  BY <1>1, <1>7, <1>10, PageGoes
<1>11. ASSUME NEW d \in Devices, Step(d)
       PROVE  Still \/ Confirm(d) \/ Resolve(d) \/ Refuse(d)
  <2>1. ASSUME Serve(d) PROVE UNCHANGED queue
    BY <2>1 DEF Serve, store
  <2> QED BY <1>1, <1>4, <1>5, <1>9, <1>10, <1>11, <2>1 DEF Step
<1>12. ASSUME NEW d \in Devices, Pick(d) \/ Close(d) \/ Unanswered(d, "error") \/ Unanswered(d, "pause")
       PROVE  Still
  <2>1. UNCHANGED queue
    BY <1>12 DEF Pick, Close, Unanswered, store
  <2> QED BY <1>1, <2>1
<1>13. ASSUME (\E e \in stray : Straggle(e)) \/ (\E r \in receipts : Expire(r)) \/ UNCHANGED vars
       PROVE  Still
  <2>1. UNCHANGED queue
    BY <1>13 DEF Straggle, Expire, vars, store
  <2> QED BY <1>1, <2>1
<1> QED BY <1>8, <1>11, <1>12, <1>13 DEF Next, Still

\* One key at most is new, and in one queue.
NewIn(d, t, K, c, s) == IF c = d /\ s = t THEN K ELSE {}

LEMMA OneDerived ==
  ASSUME Sound, KeysApart, NEW d \in Devices, NEW t \in Ids, NEW q \in Seq(Entry), NEW K,
         queue' = [queue EXCEPT ![d][t] = q], Derived(queue[d][t], q, K)
  PROVE  \A c \in Devices, s \in Ids : Derived(queue[c][s], queue'[c][s], NewIn(d, t, K, c, s))
<1> TAKE c \in Devices, s \in Ids
<1>1. /\ queue'[d][t] = q /\ \A r \in Ids : r # t => queue'[d][r] = queue[d][r]
      /\ \A b \in Devices : b # d => queue'[b] = queue[b]
  BY OneQueue, ZenonT(60) DEF Sound
<1>2. CASE c = d /\ s = t
  BY <1>1, <1>2 DEF NewIn
<1>3. CASE ~(c = d /\ s = t)
  <2>1. queue'[c][s] = queue[c][s] /\ Distinct(queue[c][s])
    BY <1>1, <1>3 DEF KeysApart
  <2> QED BY <2>1, SameDerived
<1> QED BY <1>2, <1>3

LEMMA NewKeyUnkeyed ==
  ASSUME NEW k, NewKey(k), NEW d \in Devices, NEW t \in Ids
  PROVE  Unkeyed(k, queue[d][t])
<1> SUFFICES ASSUME NEW i \in 1..Len(queue[d][t]) PROVE queue[d][t][i].key # k
  BY DEF Unkeyed
<1> DEFINE KeysOf(c, s) == {queue[c][s][j].key : j \in 1..Len(queue[c][s])}
<1>1. queue[d][t][i].key \in KeysOf(d, t)
  OBVIOUS
<1>2. KeysOf(d, t) \in {KeysOf(c, s) : c \in Devices, s \in Ids}
  OBVIOUS
<1>3. UNION {KeysOf(c, s) : c \in Devices, s \in Ids} \subseteq UsedKeys
  BY SMTT(90) DEF UsedKeys
<1> HIDE DEF KeysOf
<1> QED BY <1>1, <1>2, <1>3 DEF NewKey

\* A key that is new in a step is nowhere before it, and nothing else is touched then.
LEMMA KeysMove ==
  ASSUME Sound, ThemeAssumption, KeysApart, [Next]_vars
  PROVE  \/ \A c \in Devices, s \in Ids : Derived(queue[c][s], queue'[c][s], {})
         \/ \E d \in Devices, t \in Ids, k \in Keys :
              /\ NewKey(k) /\ UNCHANGED <<receipts, stray>>
              /\ \A c \in Devices, s \in Ids : Derived(queue[c][s], queue'[c][s], NewIn(d, t, {k}, c, s))
<1>1. \A c \in Devices, s \in Ids : SoundQueue(queue[c][s], s) /\ Distinct(queue[c][s]) /\ noted[c][s] \in Noted
  BY DEF Sound, QueuesSound, TypeOK, KeysApart
<1>2. CASE \A c \in Devices, s \in Ids : Alike(queue[c][s], queue'[c][s])
  BY <1>1, <1>2, AlikeDerived
<1>3. ASSUME NEW d \in Devices, NEW t \in Ids, NEW k \in Keys, NewKey(k), UNCHANGED <<receipts, stray>>,
             NEW q \in Seq(Entry), Derived(queue[d][t], q, {k}), queue' = [queue EXCEPT ![d][t] = q]
      PROVE  \E b \in Devices, r \in Ids, j \in Keys :
               /\ NewKey(j) /\ UNCHANGED <<receipts, stray>>
               /\ \A c \in Devices, s \in Ids : Derived(queue[c][s], queue'[c][s], NewIn(b, r, {j}, c, s))
  BY <1>3, OneDerived
<1>4. ASSUME NEW d \in Devices, NEW t \in Ids, Save(d, t)
      PROVE  \E b \in Devices, r \in Ids, j \in Keys :
               /\ NewKey(j) /\ UNCHANGED <<receipts, stray>>
               /\ \A c \in Devices, s \in Ids : Derived(queue[c][s], queue'[c][s], NewIn(b, r, {j}, c, s))
  <2>1. PICK k \in Keys : /\ NewKey(k)
                          /\ Change(d, t, [state |-> "saved", text |-> texts + 1],
                                    PlanPut(queue[d][t], noted[d][t], t, texts + 1, k))
    BY <1>4 DEF Save
  <2> DEFINE q == PlanPut(queue[d][t], noted[d][t], t, texts + 1, k)
  <2>2. texts + 1 \in Texts \ {0}
    BY <2>1 DEF Change, Sound, TypeOK, Texts, ThemeAssumption
  <2>3. Derived(queue[d][t], q, {k})
    BY <1>1, <2>1, <2>2, NewKeyUnkeyed, PutDerived
  <2>4. q \in Seq(Entry)
    BY <1>1, <2>2, PutEnds
  <2>5. queue' = [queue EXCEPT ![d][t] = q] /\ UNCHANGED <<receipts, stray>>
    BY <2>1 DEF Change, server
  <2> HIDE DEF q
  <2> QED BY <1>3, <2>1, <2>3, <2>4, <2>5
<1>5. ASSUME NEW d \in Devices, NEW t \in Ids, Delete(d, t)
      PROVE  \E b \in Devices, r \in Ids, j \in Keys :
               /\ NewKey(j) /\ UNCHANGED <<receipts, stray>>
               /\ \A c \in Devices, s \in Ids : Derived(queue[c][s], queue'[c][s], NewIn(b, r, {j}, c, s))
  <2>1. PICK k \in Keys : /\ NewKey(k)
                          /\ Change(d, t, [state |-> "gone", text |-> Gone],
                                    PlanDelete(queue[d][t], noted[d][t], t, texts + 1, k))
    BY <1>5 DEF Delete
  <2> DEFINE q == PlanDelete(queue[d][t], noted[d][t], t, texts + 1, k)
  <2>2. texts + 1 \in Texts
    BY <2>1 DEF Change, Sound, TypeOK, Texts, ThemeAssumption
  <2>3. Derived(queue[d][t], q, {k})
    BY <1>1, <2>1, <2>2, NewKeyUnkeyed, DeleteDerived
  <2>4. q \in Seq(Entry)
    <3>1. <<>> \in Seq(Entry)
      OBVIOUS
    <3> QED BY <1>1, <2>2, <3>1, DeleteEnds
  <2>5. queue' = [queue EXCEPT ![d][t] = q] /\ UNCHANGED <<receipts, stray>>
    BY <2>1 DEF Change, server
  <2> HIDE DEF q
  <2> QED BY <1>3, <2>1, <2>3, <2>4, <2>5
<1>6. ASSUME NEW d \in Devices, Confirm(d)
      PROVE  \A c \in Devices, s \in Ids : Derived(queue[c][s], queue'[c][s], {})
  <2> DEFINE t == flight[d].id  live == answer[d].text # Gone  rev == answer[d].revision
             q == Following(Mine(d), live, rev)
  <2>1. place[d] = "settle" /\ answer[d].kind \in {"ok", "conflict"} /\ queue' = [queue EXCEPT ![d][t] = q]
    BY <1>6 DEF Confirm, Answered, At, SetMine
  <2>2. t \in Ids /\ Mine(d) # <<>> /\ SoundQueue(Mine(d), t) /\ rev \in Nat /\ (live => rev >= 1)
    BY <2>1, AtSettle DEF Sound, AnswersSound, Answer
  <2>3. live \in BOOLEAN /\ Mine(d) = queue[d][t] /\ Distinct(Mine(d))
    BY <1>1, <2>2 DEF Mine
  <2> HIDE DEF t, live, rev
  <2>4. Derived(queue[d][t], q, {}) /\ q \in Seq(Entry)
    <3>1. Derived(Mine(d), q, {})
      BY <2>2, <2>3, FollowingDerived
    <3>2. SoundQueue(q, t)
      BY <2>2, <2>3, FollowingSound
    <3> QED BY <3>1, <3>2, <2>3 DEF SoundQueue
  <2> HIDE DEF q
  <2>5. \A c \in Devices, s \in Ids : Derived(queue[c][s], queue'[c][s], NewIn(d, t, {}, c, s))
    BY <2>1, <2>2, <2>4, OneDerived
  <2> QED BY <2>5 DEF NewIn
<1>7. ASSUME NEW d \in Devices, Refuse(d)
      PROVE  \E b \in Devices, r \in Ids, j \in Keys :
               /\ NewKey(j) /\ UNCHANGED <<receipts, stray>>
               /\ \A c \in Devices, s \in Ids : Derived(queue[c][s], queue'[c][s], NewIn(b, r, {j}, c, s))
  <2> DEFINE t == flight[d].id  hold == IF answer[d].kind = "full" THEN "library-full" ELSE "invalid"
  <2>1. place[d] = "settle" /\ UNCHANGED <<receipts, stray>>
    BY <1>7 DEF Refuse, Answered, At, server
  <2>2. PICK k \in Keys : NewKey(k) /\ SetMine(d, PlanRefused(Mine(d), hold, flight[d].tries, k))
    BY <1>7 DEF Refuse
  <2>3. t \in Ids /\ Mine(d) # <<>> /\ SoundQueue(Mine(d), t) /\ flight[d].tries \in 0..(Tries + 1) /\ hold \in Holds
    BY <2>1, AtSettle DEF Holds
  <2> HIDE DEF hold
  <2> DEFINE q == PlanRefused(Mine(d), hold, flight[d].tries, k)
  <2>4. queue' = [queue EXCEPT ![d][t] = q] /\ Mine(d) = queue[d][t]
    BY <2>2 DEF SetMine, Mine
  <2> HIDE DEF t
  <2>5. Derived(queue[d][t], q, {k}) /\ q \in Seq(Entry)
    <3>1. Distinct(Mine(d))
      BY <1>1, <2>3, <2>4
    <3>2. Derived(Mine(d), q, {k})
      BY <3>1, <2>3, RefusedDerived
    <3>3. SoundQueue(q, t)
      BY <2>3, RefusedSound
    <3> QED BY <3>2, <3>3, <2>4 DEF SoundQueue
  <2> HIDE DEF q
  <2> QED BY <1>3, <2>1, <2>2, <2>3, <2>4, <2>5
<1>8. ASSUME NEW d \in Devices, Resolve(d)
      PROVE  \/ \A c \in Devices, s \in Ids : Derived(queue[c][s], queue'[c][s], {})
             \/ \E b \in Devices, r \in Ids, j \in Keys :
                  /\ NewKey(j) /\ UNCHANGED <<receipts, stray>>
                  /\ \A c \in Devices, s \in Ids : Derived(queue[c][s], queue'[c][s], NewIn(b, r, {j}, c, s))
  <2> DEFINE t == flight[d].id
  <2>1. UNCHANGED <<receipts, stray>>
    BY <1>8 DEF Resolve, server
  <2>2. ASSUME NEW c \in Devices, NEW s \in Ids, NEW K, queue'[c][s] = <<>> \/ queue'[c][s] = queue[c][s]
        PROVE  Derived(queue[c][s], queue'[c][s], K)
    BY <1>1, <2>2, EmptyDerived, SameDerived
  <2>3. CASE ~Copied(d)
    <3>1. \A c \in Devices, s \in Ids : queue'[c][s] = <<>> \/ queue'[c][s] = queue[c][s]
      BY <1>8, <2>3, ResolveLeaves, ZenonT(60)
    <3> QED BY <2>2, <3>1
  <2>4. CASE Copied(d)
    <3>1. PICK n \in Ids, k \in Keys : CopyMade(d, t, n, k)
      BY <1>8, <2>4, ResolveLeaves
    <3>2. \A c \in Devices, s \in Ids : (c = d /\ s = n) \/ queue'[c][s] = <<>> \/ queue'[c][s] = queue[c][s]
      <4>1. \A b \in Devices : b # d => queue'[b] = queue[b]
        BY <1>8, ResolveLeaves
      <4>2. queue'[d][t] = <<>>
        BY <1>8, ResolveLeaves
      <4>3. \A s \in Ids : s # t /\ s # n => queue'[d][s] = queue[d][s]
        BY <3>1 DEF CopyMade
      <4> QED BY <4>1, <4>2, <4>3
    <3>3. Derived(queue[d][n], queue'[d][n], {k})
      <4> DEFINE e == Fresh(n, "put", library[d][t].text, None, k)
      <4>1. e.key = k /\ ~e.sent
        BY DEF Fresh
      <4>2. queue'[d][n] = <<e>>
        BY <3>1 DEF CopyMade
      <4> HIDE DEF e
      <4>3. Len(<<e>>) = 1 /\ <<e>>[1] = e
        OBVIOUS
      <4> QED BY <4>1, <4>2, <4>3 DEF Derived, Distinct
    <3>4. \A c \in Devices, s \in Ids : Derived(queue[c][s], queue'[c][s], NewIn(d, n, {k}, c, s))
      BY <2>2, <3>2, <3>3 DEF NewIn
    <3>5. NewKey(k)
      BY <3>1 DEF CopyMade
    <3> QED BY <2>1, <3>4, <3>5
  <2> QED BY <2>3, <2>4
<1> QED BY <1>2, <1>4, <1>5, <1>6, <1>7, <1>8, QueueSteps

\* What is bound stays bound, while its key is not given again.
LEMMA BoundKept ==
  ASSUME NEW key, NEW print, Bound(key, print), NEW d, NEW t, NEW K, key \notin K,
         \A c \in Devices, s \in Ids : Derived(queue[c][s], queue'[c][s], NewIn(d, t, K, c, s))
  PROVE  Bound(key, print)'
<1> SUFFICES ASSUME NEW c \in Devices, NEW s \in Ids, NEW j \in 1..Len(queue'[c][s]), queue'[c][s][j].key = key
             PROVE  queue'[c][s][j].sent /\ Fingerprint(queue'[c][s][j]) = print
  BY DEF Bound, Fingerprint
<1>1. Derived(queue[c][s], queue'[c][s], NewIn(d, t, K, c, s))
  OBVIOUS
<1>2. key \notin NewIn(d, t, K, c, s)
  BY DEF NewIn
<1>3. PICK i \in 1..Len(queue[c][s]) : Continues(queue[c][s][i], queue'[c][s][j])
  BY <1>1, <1>2 DEF Derived
<1> QED BY <1>3 DEF Bound, Continues

\* And keys stay apart.
LEMMA ApartKept ==
  ASSUME KeysApart, NEW d \in Devices, NEW t \in Ids, NEW K,
         \A c \in Devices, s \in Ids : \A k \in K : Unkeyed(k, queue[c][s]),
         \A c \in Devices, s \in Ids : Derived(queue[c][s], queue'[c][s], NewIn(d, t, K, c, s))
  PROVE  KeysApart'
<1>1. ASSUME NEW c \in Devices, NEW s \in Ids, NEW j \in 1..Len(queue'[c][s])
      PROVE  \/ c = d /\ s = t /\ queue'[c][s][j].key \in K
             \/ \E i \in 1..Len(queue[c][s]) : queue'[c][s][j].key = queue[c][s][i].key
  BY DEF Derived, Continues, NewIn
<1>2. ASSUME NEW b \in Devices, NEW c \in Devices, NEW r \in Ids, NEW s \in Ids, <<b, r>> # <<c, s>>,
             NEW i \in 1..Len(queue'[b][r]), NEW j \in 1..Len(queue'[c][s])
      PROVE  queue'[b][r][i].key # queue'[c][s][j].key
  <2>1. CASE b = d /\ r = t /\ queue'[b][r][i].key \in K
    <3>1. ~(c = d /\ s = t)
      BY <1>2, <2>1
    <3>2. PICK y \in 1..Len(queue[c][s]) : queue'[c][s][j].key = queue[c][s][y].key
      BY <1>1, <3>1
    <3>3. queue[c][s][y].key # queue'[b][r][i].key
      BY <2>1 DEF Unkeyed
    <3> QED BY <3>2, <3>3
  <2>2. CASE c = d /\ s = t /\ queue'[c][s][j].key \in K
    <3>1. ~(b = d /\ r = t)
      BY <1>2, <2>2
    <3>2. PICK x \in 1..Len(queue[b][r]) : queue'[b][r][i].key = queue[b][r][x].key
      BY <1>1, <3>1
    <3> QED BY <2>2, <3>2 DEF Unkeyed
  <2>3. ASSUME NEW x \in 1..Len(queue[b][r]), queue'[b][r][i].key = queue[b][r][x].key,
               NEW y \in 1..Len(queue[c][s]), queue'[c][s][j].key = queue[c][s][y].key
        PROVE  queue'[b][r][i].key # queue'[c][s][j].key
    BY <1>2, <2>3 DEF KeysApart
  <2> QED BY <1>1, <2>1, <2>2, <2>3
<1>3. \A c \in Devices, s \in Ids : Distinct(queue'[c][s])
  BY DEF Derived
<1> QED BY <1>2, <1>3 DEF KeysApart, Distinct

\* What is on its way is queued as it is, and no other change has its key.
LEMMA FlightBound ==
  ASSUME Sound, KeysApart, NEW d \in Devices, NEW e \in Abandoned(d)
  PROVE  Bound(e.key, Fingerprint(e))
<1> DEFINE t == e.id
<1>1. e = queue[d][t][1] /\ e.sent /\ queue[d][t] # <<>> /\ e \in Entry
  BY DEF Abandoned, At, Sound, InHand, Mine
<1>2. t \in Ids
  BY <1>1 DEF Entry
<1>3. 1 \in 1..Len(queue[d][t])
  <2>1. queue[d][t] \in Seq(Entry)
    BY <1>2 DEF Sound, TypeOK
  <2> QED BY <2>1, <1>1, EmptyOrNot
<1> HIDE DEF t
<1> SUFFICES ASSUME NEW c \in Devices, NEW s \in Ids, NEW j \in 1..Len(queue[c][s]), queue[c][s][j].key = e.key
             PROVE  queue[c][s][j] = e
  BY <1>1 DEF Bound
<1>4. CASE <<c, s>> # <<d, t>>
  BY <1>1, <1>2, <1>3, <1>4 DEF KeysApart
<1>5. CASE c = d /\ s = t
  BY <1>1, <1>2, <1>3, <1>5 DEF KeysApart, Distinct
<1> QED BY <1>4, <1>5

\* A request is never told that its key is another's.
LEMMA NotReused ==
  ASSUME NEW e, Bound(e.key, Fingerprint(e)), KeysBound, NEW d \in Devices, NEW t \in Ids, NEW i \in 1..Len(queue[d][t]),
         e = queue[d][t][i]
  PROVE  Reply(e).kind # "reused"
<1> DEFINE r == CHOOSE p \in Prior(e) : TRUE
<1>1. Reply(e) = IF e.op = "put" /\ e.text \in Invalid THEN Bare("rejected")
                 ELSE IF Prior(e) # {}
                   THEN IF r.fingerprint = Fingerprint(e) THEN [kind |-> "ok", revision |-> r.revision, text |-> After(e)]
                        ELSE Bare("reused")
                 ELSE IF ~Expected(e) THEN [kind |-> "conflict", revision |-> Revision(e.id), text |-> Text(e.id)]
                 ELSE IF ~Room(e) THEN Bare("full")
                 ELSE [kind |-> "ok", revision |-> Revision(e.id) + 1, text |-> After(e)]
  BY Zenon DEF Reply, Bare
<1>2. Prior(e) # {} => r \in Prior(e)
  OBVIOUS
<1> HIDE DEF r
<1>3. Prior(e) # {} => r.fingerprint = Fingerprint(e)
  <2> SUFFICES ASSUME Prior(e) # {} PROVE r.fingerprint = Fingerprint(e)
    OBVIOUS
  <2>1. r \in receipts /\ r.key = e.key
    BY <1>2 DEF Prior
  <2>2. Bound(r.key, r.fingerprint)
    BY <2>1 DEF KeysBound
  <2> QED BY <2>1, <2>2 DEF Bound
<1>4. Bare("rejected").kind = "rejected" /\ Bare("full").kind = "full"
  BY DEF Bare, NoAnswer
<1> QED BY <1>1, <1>3, <1>4

LEMMA BoundStill ==
  ASSUME queue' = queue, NEW key, NEW print, Bound(key, print)
  PROVE  Bound(key, print)'
  BY DEF Bound, Fingerprint

\* The answers given bind the keys they were given under.
LEMMA CarryBinds ==
  ASSUME NEW e, Carry(e), queue' = queue, Bound(e.key, Fingerprint(e)), KeysBound
  PROVE  \A r \in receipts' : Bound(r.key, r.fingerprint)'
<1> SUFFICES ASSUME NEW r \in receipts' PROVE Bound(r.key, r.fingerprint)'
  OBVIOUS
<1>1. r \in receipts \/ (r.key = e.key /\ r.fingerprint = Fingerprint(e))
  BY DEF Carry, server
<1>2. Bound(r.key, r.fingerprint)
  BY <1>1 DEF KeysBound
<1> QED BY <1>2, BoundStill

LEMMA KeyInit == Init => KeyInv
  BY DEF Init, KeyInv, KeysApart, KeysBound, NoneReused, Distinct, NoAnswer

\* What is abandoned is what was on its way, as it was sent.
LEMMA StrayMoves ==
  ASSUME [Next]_vars
  PROVE  \/ stray' \subseteq stray
         \/ \E d \in Devices : /\ stray' = stray \cup Abandoned(d)
                               /\ UNCHANGED <<queue, receipts, shelf, library, texts, given>>
<1>1. ASSUME NEW d \in Devices, NEW t \in Ids, Save(d, t) \/ Delete(d, t) PROVE stray' = stray
  BY <1>1 DEF Save, Delete, Change
<1>2. ASSUME NEW d \in Devices, Step(d) PROVE stray' = stray
  BY <1>2 DEF Step, Mark, Serve, Confirm, Resend, Resolve, Refuse, Retry, Pause, Ask, Page
<1>3. ASSUME NEW d \in Devices, Rouse(d) \/ Pick(d) PROVE stray' = stray
  BY <1>3 DEF Rouse, Pick
<1>4. ASSUME NEW d \in Devices, Close(d) \/ Unanswered(d, "error") \/ Unanswered(d, "pause")
      PROVE  /\ stray' = stray \cup Abandoned(d)
             /\ UNCHANGED <<queue, receipts, shelf, library, texts, given>>
  BY <1>4 DEF Close, Unanswered, server, store, player
<1>5. ASSUME (\E e \in stray : Straggle(e)) \/ (\E r \in receipts : Expire(r)) \/ UNCHANGED vars
      PROVE  stray' \subseteq stray
  BY <1>5 DEF Straggle, Expire, vars
<1> QED BY <1>1, <1>2, <1>3, <1>4, <1>5 DEF Next

LEMMA OldBoundKept ==
  ASSUME Sound, ThemeAssumption, KeysApart, [Next]_vars, NEW key, NEW print, Bound(key, print),
         \E r \in receipts \cup stray : key = r.key
  PROVE  Bound(key, print)'
<1>1. key \in UsedKeys
  BY DEF UsedKeys
<1>2. CASE \A c \in Devices, s \in Ids : Derived(queue[c][s], queue'[c][s], {})
  <2>1. \A c, s : NewIn(0, 0, {}, c, s) = {}
    BY DEF NewIn
  <2>2. \A c \in Devices, s \in Ids : Derived(queue[c][s], queue'[c][s], NewIn(0, 0, {}, c, s))
    BY <1>2, <2>1
  <2> QED BY <1>1, <2>2, BoundKept
<1>3. ASSUME NEW d \in Devices, NEW t \in Ids, NEW k \in Keys, NewKey(k),
             \A c \in Devices, s \in Ids : Derived(queue[c][s], queue'[c][s], NewIn(d, t, {k}, c, s))
      PROVE  Bound(key, print)'
  BY <1>1, <1>3, BoundKept DEF NewKey
<1> QED BY <1>2, <1>3, KeysMove

LEMMA KeyStep == Sound /\ KeyInv /\ [Next]_vars => KeyInv'
<1> SUFFICES ASSUME Sound, KeyInv, [Next]_vars PROVE KeyInv'
  OBVIOUS
<1> USE ThemeAssumption
<1>1. KeysApart /\ KeysBound /\ NoneReused
  BY DEF KeyInv
<1>2. KeysApart'
  <2>1. CASE \A c \in Devices, s \in Ids : Derived(queue[c][s], queue'[c][s], {})
    <3>1. CASE Devices = {} \/ Ids = {}
      BY <3>1 DEF KeysApart
    <3>2. CASE Devices # {} /\ Ids # {}
      <4>1. PICK d \in Devices, t \in Ids : TRUE
        BY <3>2
      <4>2. \A c, s : NewIn(d, t, {}, c, s) = {}
        BY DEF NewIn
      <4> QED BY <1>1, <2>1, <4>2, ApartKept
    <3> QED BY <3>1, <3>2
  <2>2. ASSUME NEW d \in Devices, NEW t \in Ids, NEW k \in Keys, NewKey(k),
               \A c \in Devices, s \in Ids : Derived(queue[c][s], queue'[c][s], NewIn(d, t, {k}, c, s))
        PROVE  KeysApart'
    <3>1. \A c \in Devices, s \in Ids : \A j \in {k} : Unkeyed(j, queue[c][s])
      BY <2>2, NewKeyUnkeyed
    <3> QED BY <1>1, <2>2, <3>1, ApartKept
  <2> QED BY <1>1, <2>1, <2>2, KeysMove
<1>3. \A r \in receipts' : Bound(r.key, r.fingerprint)'
  <2>1. CASE receipts' \subseteq receipts
    <3>1. \A r \in receipts : Bound(r.key, r.fingerprint)
      BY <1>1 DEF KeysBound
    <3> QED BY <1>1, <2>1, <3>1, OldBoundKept
  <2>2. ASSUME NEW d \in Devices, Serve(d), Carry(flight[d]) PROVE \A r \in receipts' : Bound(r.key, r.fingerprint)'
    <3>1. queue' = queue /\ flight[d] \in Abandoned(d)
      BY <2>2 DEF Serve, store, Abandoned
    <3> QED BY <1>1, <2>2, <3>1, FlightBound, CarryBinds
  <2>3. ASSUME NEW e \in stray, Straggle(e), Carry(e) PROVE \A r \in receipts' : Bound(r.key, r.fingerprint)'
    <3>1. queue' = queue
      BY <2>3 DEF Straggle, store
    <3>2. Bound(e.key, Fingerprint(e))
      BY <1>1 DEF KeysBound
    <3> QED BY <1>1, <2>3, <3>1, <3>2, CarryBinds
  <2> QED BY <2>1, <2>2, <2>3, ServerMoves
<1>4. \A e \in stray' : Bound(e.key, Fingerprint(e))'
  <2>1. \A e \in stray : Bound(e.key, Fingerprint(e))
    BY <1>1 DEF KeysBound
  <2>2. \A e \in stray : Bound(e.key, Fingerprint(e))'
    <3> TAKE e \in stray
    <3> DEFINE print == Fingerprint(e)
    <3>1. print' = print
      BY DEF Fingerprint
    <3>2. Bound(e.key, print)
      BY <2>1
    <3> HIDE DEF print
    <3>3. Bound(e.key, print)'
      BY <1>1, <3>2, OldBoundKept
    <3> QED BY <3>3 DEF print
  <2>3. CASE stray' \subseteq stray
    BY <2>2, <2>3
  <2>4. ASSUME NEW d \in Devices, stray' = stray \cup Abandoned(d), queue' = queue
        PROVE  \A e \in stray' : Bound(e.key, Fingerprint(e))'
    <3>1. \A e \in Abandoned(d) : Bound(e.key, Fingerprint(e))
      BY <1>1, FlightBound
    <3>2. \A e \in Abandoned(d) : Bound(e.key, Fingerprint(e))'
      BY <2>4, <3>1 DEF Bound, Fingerprint
    <3> QED BY <2>2, <2>4, <3>2
  <2> QED BY <2>3, <2>4, StrayMoves
<1>5. NoneReused'
  <2>1. ASSUME NEW d \in Devices, Serve(d) PROVE Reply(flight[d]).kind # "reused"
    <3> DEFINE e == flight[d]  t == e.id
    <3>1. e \in Abandoned(d)
      BY <2>1 DEF Serve, Abandoned
    <3>2. e = queue[d][t][1] /\ queue[d][t] # <<>> /\ e \in Entry
      BY <2>1 DEF Serve, At, Sound, InHand, Mine
    <3>3. t \in Ids
      BY <3>2 DEF Entry
    <3>4. 1 \in 1..Len(queue[d][t])
      <4>1. queue[d][t] \in Seq(Entry)
        BY <3>3 DEF Sound, TypeOK
      <4> QED BY <4>1, <3>2, EmptyOrNot
    <3>5. Bound(e.key, Fingerprint(e))
      BY <1>1, <3>1, FlightBound
    <3> HIDE DEF e, t
    <3>6. Reply(e).kind # "reused"
      BY <1>1, <3>2, <3>3, <3>4, <3>5, NotReused
    <3> QED BY <3>6 DEF e
  <2>2. ASSUME NEW d \in Devices, NEW a, answer' = [answer EXCEPT ![d] = a], a.kind # "reused"
        PROVE  NoneReused'
    BY <1>1, <2>2 DEF NoneReused, Sound, TypeOK
  <2>3. ASSUME NEW d \in Devices, Rest(d) PROVE NoneReused'
    <3>1. answer' = [answer EXCEPT ![d] = NoAnswer]
      BY <2>3 DEF Rest
    <3>2. NoAnswer.kind # "reused"
      BY DEF NoAnswer
    <3> QED BY <2>2, <3>1, <3>2
  <2>4. CASE UNCHANGED answer
    BY <1>1, <2>4 DEF NoneReused
  <2>5. ASSUME NEW d \in Devices, NEW t \in Ids, Save(d, t) \/ Delete(d, t) PROVE UNCHANGED answer
    BY <2>5 DEF Save, Delete, Change, worker
  <2>6. ASSUME NEW d \in Devices, Step(d) PROVE NoneReused'
    <3>1. CASE Serve(d)
      <4>1. answer' = [answer EXCEPT ![d] = Reply(flight[d])]
        BY <3>1 DEF Serve
      <4> QED BY <2>1, <2>2, <3>1, <4>1
    <3>2. CASE Page(d)
      BY <2>3, <2>4, <3>2, PageGoes
    <3>3. CASE Ask(d)
      <4>1. Rest(d) \/ UNCHANGED answer
        BY <3>3 DEF Ask, Finish
      <4> QED BY <2>3, <2>4, <4>1
    <3>4. CASE Mark(d)
      <4>1. Rest(d) \/ UNCHANGED answer
        BY <3>4 DEF Mark
      <4> QED BY <2>3, <2>4, <4>1
    <3>5. CASE Confirm(d) \/ Resend(d) \/ Resolve(d) \/ Refuse(d) \/ Retry(d) \/ Pause(d)
      <4>1. Rest(d)
        BY <3>5 DEF Confirm, Resend, Resolve, Refuse, Retry, Pause
      <4> QED BY <2>3, <4>1
    <3> QED BY <2>6, <3>1, <3>2, <3>3, <3>4, <3>5 DEF Step
  <2>7. ASSUME NEW d \in Devices, NEW kind \in {"error", "pause"}, Unanswered(d, kind) PROVE NoneReused'
    <3>1. answer' = [answer EXCEPT ![d] = Bare(kind)]
      BY <2>7 DEF Unanswered, Bare
    <3>2. Bare(kind).kind # "reused"
      BY DEF Bare, NoAnswer
    <3> QED BY <2>2, <3>1, <3>2
  <2>8. ASSUME NEW d \in Devices, Close(d) PROVE NoneReused'
    BY <2>3, <2>8 DEF Close
  <2>9. ASSUME NEW d \in Devices, Rouse(d) \/ Pick(d) PROVE UNCHANGED answer
    BY <2>9 DEF Rouse, Pick, worker
  <2>10. ASSUME (\E e \in stray : Straggle(e)) \/ (\E r \in receipts : Expire(r)) \/ UNCHANGED vars
         PROVE  UNCHANGED answer
    BY <2>10 DEF Straggle, Expire, vars, worker
  <2> QED BY <2>4, <2>5, <2>6, <2>7, <2>8, <2>9, <2>10 DEF Next
<1> QED BY <1>2, <1>3, <1>4, <1>5 DEF KeyInv, KeysBound

LEMMA KeyInvShows == Sound /\ KeyInv => KeyIsOneChange
<1> SUFFICES ASSUME Sound, KeyInv PROVE KeyIsOneChange
  OBVIOUS
<1>1. ASSUME NEW r \in receipts, NEW d \in Devices, NEW t \in Ids, NEW i \in 1..Len(queue[d][t]), queue[d][t][i].key = r.key
      PROVE  r.fingerprint = Fingerprint(queue[d][t][i])
  BY <1>1 DEF KeyInv, KeysBound, Bound
<1>2. \A e \in Sent : \E d \in Devices, t \in Ids : \E i \in 1..Len(queue[d][t]) : e = queue[d][t][i]
  BY DEF Sent, Entries
<1>3. \A r \in receipts, e \in Sent : e.key = r.key => r.fingerprint = Fingerprint(e)
  BY <1>1, <1>2
<1> QED BY <1>3 DEF KeyIsOneChange, KeyInv, NoneReused

\* A key stands for one change: nothing that may still be sent was answered under its
\* key as another change, so the server never says that a key was used before.
THEOREM KeysCorrect == Spec => []KeyIsOneChange
<1>1. Spec => []KeyInv
  BY KeyInit, KeyStep, AlwaysSound, PTL DEF Spec
<1> QED BY <1>1, KeyInvShows, AlwaysSound, PTL

-----------------------------------------------------------------------------
(* What a device noted, it holds.                                          *)

\* The revisions of a theme are only ever added to.
LEMMA ShelfGrows ==
  ASSUME Sound, ThemeAssumption, [Next]_vars, NEW t \in Ids
  PROVE  /\ Len(shelf[t]) \in Nat /\ Len(shelf'[t]) \in Nat /\ Len(shelf'[t]) >= Len(shelf[t])
         /\ \A n \in 1..Len(shelf[t]) : shelf'[t][n] = shelf[t][n]
<1>1. Len(shelf[t]) \in Nat
  <2>1. shelf[t] \in Seq(Texts)
    BY DEF Sound, TypeOK
  <2> QED BY <2>1, EmptyOrNot
<1>2. CASE shelf' = shelf
  BY <1>1, <1>2
<1>3. ASSUME NEW e \in Entry, Carry(e)
      PROVE  /\ Len(shelf'[t]) \in Nat /\ Len(shelf'[t]) >= Len(shelf[t])
             /\ \A n \in 1..Len(shelf[t]) : shelf'[t][n] = shelf[t][n]
  <2>1. CASE t = e.id /\ Written(e)
    <3>1. Len(shelf'[t]) = Len(shelf[t]) + 1 /\ \A n \in 1..Len(shelf[t]) : shelf'[t][n] = shelf[t][n]
      BY <1>3, <2>1, CarryShelf DEF Sound, Revision
    <3> QED BY <3>1, <1>1
  <2>2. CASE ~(t = e.id /\ Written(e))
    <3>1. shelf'[t] = shelf[t]
      BY <1>3, <2>2, CarryShelf DEF Sound
    <3> QED BY <3>1, <1>1
  <2> QED BY <2>1, <2>2
<1> QED BY <1>1, <1>2, <1>3, ServerMoves

LEMMA StoodStays ==
  ASSUME Sound, ThemeAssumption, [Next]_vars, NEW t \in Ids, NEW r, NEW text, Stood(t, r, text)
  PROVE  r \in 1..Len(shelf'[t]) /\ shelf'[t][r] = text
<1>1. r \in 1..Len(shelf[t]) /\ shelf[t][r] = text
  BY DEF Stood, Revision
<1> QED BY <1>1, ShelfGrows

\* An answer says what the theme was at the revision it names.
LEMMA ReplyStands ==
  ASSUME Sound, ThemeAssumption, AnswersStand, NEW e \in Entry, Whole(e), e.base # Previous, e.base <= Revision(e.id),
         Carry(e), Reply(e).kind \in {"ok", "conflict"}
  PROVE  Reply(e).revision \in 1..Len(shelf'[e.id]) /\ shelf'[e.id][Reply(e).revision] = Reply(e).text
<1> DEFINE r == CHOOSE p \in Prior(e) : TRUE
           Stands(a) == a.revision \in 1..Len(shelf'[e.id]) /\ shelf'[e.id][a.revision] = a.text
<1>1. Reply(e) = IF e.op = "put" /\ e.text \in Invalid THEN Bare("rejected")
                 ELSE IF Prior(e) # {}
                   THEN IF r.fingerprint = Fingerprint(e) THEN [kind |-> "ok", revision |-> r.revision, text |-> After(e)]
                        ELSE Bare("reused")
                 ELSE IF ~Expected(e) THEN [kind |-> "conflict", revision |-> Revision(e.id), text |-> Text(e.id)]
                 ELSE IF ~Room(e) THEN Bare("full")
                 ELSE [kind |-> "ok", revision |-> Revision(e.id) + 1, text |-> After(e)]
  BY Zenon DEF Reply, Bare
<1>2. Prior(e) # {} => r \in receipts
  <2>1. Prior(e) # {} => r \in Prior(e)
    OBVIOUS
  <2> QED BY <2>1 DEF Prior
<1> HIDE DEF r
<1>3. \A kind : Bare(kind).kind = kind
  BY DEF Bare, NoAnswer
<1>4. e.id \in Ids /\ e.base \in Int
  BY DEF Entry
<1>5. /\ Revision(e.id) \in Nat /\ Revision(e.id) = Len(shelf[e.id])
      /\ shelf[e.id] = <<>> <=> Revision(e.id) = 0
      /\ shelf[e.id] # <<>> => Text(e.id) = shelf[e.id][Revision(e.id)]
  BY <1>4, ServerTypes DEF Sound, Revision
<1>6. CASE Prior(e) # {} /\ r.fingerprint = Fingerprint(e) /\ Reply(e) = [kind |-> "ok", revision |-> r.revision, text |-> After(e)]
  <2>1. shelf' = shelf
    BY <1>6, CarryShelf DEF Written, Sound
  <2>2. Stood(r.fingerprint.id, r.revision, After(r.fingerprint))
    BY <1>2, <1>6 DEF AnswersStand
  <2>3. r.fingerprint.id = e.id /\ After(r.fingerprint) = After(e)
    BY <1>6 DEF Fingerprint, After
  <2>4. r.revision \in 1..Len(shelf[e.id]) /\ shelf[e.id][r.revision] = After(e)
    BY <2>2, <2>3 DEF Stood, Revision
  <2> QED BY <1>6, <2>1, <2>4
<1>7. CASE ~Expected(e) /\ Reply(e) = [kind |-> "conflict", revision |-> Revision(e.id), text |-> Text(e.id)]
  <2>1. shelf' = shelf
    <3>1. ~Written(e)
      BY <1>7 DEF Written
    <3> QED BY <3>1, CarryShelf DEF Sound
  <2>2. shelf[e.id] # <<>>
    <3>1. e.base = None \/ e.base >= 1
      BY <1>4 DEF Whole, None, Previous
    <3>2. CASE e.base = None
      BY <3>2, <1>7 DEF Expected
    <3>3. CASE e.base >= 1
      BY <3>3, <1>4, <1>5
    <3> QED BY <3>1, <3>2, <3>3
  <2> QED BY <1>5, <1>7, <2>1, <2>2
<1>8. CASE Prior(e) = {} /\ Reply(e) = [kind |-> "ok", revision |-> Revision(e.id) + 1, text |-> After(e)]
  <2>1. Written(e)
    BY <1>8 DEF Written
  <2>2. Len(shelf'[e.id]) = Revision(e.id) + 1 /\ shelf'[e.id][Revision(e.id) + 1] = After(e)
    BY <2>1, CarryShelf DEF Sound
  <2> QED BY <1>5, <1>8, <2>2
<1> QED BY <1>1, <1>3, <1>6, <1>7, <1>8

\* An answer a device holds was served in this step, or was there before it.
LEMMA AnswerMoves ==
  ASSUME Sound, ThemeAssumption, [Next]_vars, NEW c \in Devices,
         place'[c] = "settle", answer'[c].kind \in {"ok", "conflict"}
  PROVE  \/ Serve(c)
         \/ place[c] = "settle" /\ answer'[c] = answer[c] /\ flight'[c] = flight[c]
<1> DEFINE Kept == place[c] = "settle" /\ answer'[c] = answer[c] /\ flight'[c] = flight[c]
<1>1. ASSUME NEW d \in Devices, Rest(d) PROVE Kept
  BY <1>1, RestTypes DEF Sound
<1>2. ASSUME UNCHANGED <<place, answer, flight>> PROVE Kept
  BY <1>2
<1>3. ASSUME NEW d \in Devices, NEW where \in Places \ {"settle"}, Go(d, where), UNCHANGED answer,
             \A b \in Devices : b # d => flight'[b] = flight[b]
      PROVE  Kept
  BY <1>3 DEF Go, Sound, TypeOK
<1> HIDE DEF Kept
<1>4. ASSUME NEW d \in Devices, NEW t \in Ids, Save(d, t) \/ Delete(d, t) PROVE Kept
  BY <1>2, <1>4 DEF Save, Delete, Change, worker
<1>5. ASSUME NEW d \in Devices, Rouse(d) PROVE Kept
  BY <1>2, <1>5 DEF Rouse, worker
<1>6. ASSUME NEW d \in Devices, Pick(d) PROVE Kept
  <2>1. Go(d, "mark") /\ UNCHANGED answer
    BY <1>6 DEF Pick
  <2>2. \A b \in Devices : b # d => flight'[b] = flight[b]
    BY <1>6 DEF Pick, Sound, TypeOK
  <2>3. "mark" \in Places \ {"settle"}
    BY DEF Places
  <2> QED BY <1>3, <2>1, <2>2, <2>3
<1>7. ASSUME NEW d \in Devices, Close(d) PROVE Kept
  BY <1>1, <1>7 DEF Close
<1>8. ASSUME NEW d \in Devices, NEW kind \in {"error", "pause"}, Unanswered(d, kind) PROVE Kept
  <2>1. answer' = [answer EXCEPT ![d] = Bare(kind)] /\ Go(d, "settle") /\ flight' = flight
    BY <1>8 DEF Unanswered, Bare
  <2>2. Bare(kind).kind = kind
    BY DEF Bare, NoAnswer
  <2>3. c # d
    <3>1. c = d => answer'[c] = Bare(kind)
      BY <2>1 DEF Sound, TypeOK
    <3> QED BY <2>2, <3>1
  <2> QED BY <2>1, <2>3 DEF Go, Sound, TypeOK, Kept
<1>9. ASSUME (\E e \in stray : Straggle(e)) \/ (\E r \in receipts : Expire(r)) \/ UNCHANGED vars PROVE Kept
  BY <1>2, <1>9 DEF Straggle, Expire, vars, worker
<1>10. ASSUME NEW d \in Devices, Step(d) PROVE Serve(c) \/ Kept
  <2>1. CASE Mark(d)
    <3>1. CASE Rest(d)
      BY <1>1, <3>1
    <3>2. CASE ~Rest(d)
      <4>1. Go(d, "sent") /\ UNCHANGED answer
        BY <2>1, <3>2 DEF Mark
      <4>2. \A b \in Devices : b # d => flight'[b] = flight[b]
        BY <2>1, <3>2 DEF Mark, Sound, TypeOK
      <4>3. "sent" \in Places \ {"settle"}
        BY DEF Places
      <4> QED BY <1>3, <4>1, <4>2, <4>3
    <3> QED BY <3>1, <3>2
  <2>2. CASE Serve(d)
    <3>1. CASE c = d
      BY <2>2, <3>1
    <3>2. CASE c # d
      BY <2>2, <3>2 DEF Serve, Go, Sound, TypeOK, Kept
    <3> QED BY <3>1, <3>2
  <2>3. CASE Confirm(d) \/ Resend(d) \/ Resolve(d) \/ Refuse(d) \/ Retry(d) \/ Pause(d)
    BY <1>1, <2>3 DEF Confirm, Resend, Resolve, Refuse, Retry, Pause
  <2>4. CASE Ask(d)
    <3>1. CASE Rest(d)
      BY <1>1, <3>1
    <3>2. CASE ~Rest(d)
      <4>1. Go(d, "page") /\ UNCHANGED <<answer, flight>>
        BY <2>4, <3>2 DEF Ask, Finish
      <4>2. "page" \in Places \ {"settle"}
        BY DEF Places
      <4> QED BY <1>3, <4>1, <4>2
    <3> QED BY <3>1, <3>2
  <2>5. CASE Page(d)
    BY <1>1, <1>2, <2>5, PageGoes
  <2> QED BY <1>10, <2>1, <2>2, <2>3, <2>4, <2>5 DEF Step
<1> QED BY <1>4, <1>5, <1>6, <1>7, <1>8, <1>9, <1>10 DEF Next, Kept

\* What a pass has sent knows what it was made over.
LEMMA SentBased ==
  ASSUME Sound, NEW d \in Devices, place[d] \in {"sent", "settle"}
  PROVE  LET e == flight[d] IN
         /\ e \in Entry /\ e.id \in Ids /\ Whole(e) /\ e.base # Previous
         /\ queue[d][e.id] # <<>> /\ e = queue[d][e.id][1] /\ 1 \in 1..Len(queue[d][e.id])
<1> DEFINE e == flight[d]
<1>1. e \in Entry /\ queue[d][e.id] # <<>> /\ e = queue[d][e.id][1]
  BY DEF Sound, InHand, Mine
<1>2. e.id \in Ids
  BY <1>1 DEF Entry
<1>3. SoundQueue(queue[d][e.id], e.id)
  BY <1>2 DEF Sound, QueuesSound
<1>4. 1 \in 1..Len(queue[d][e.id])
  <2>1. queue[d][e.id] \in Seq(Entry)
    BY <1>3 DEF SoundQueue
  <2> QED BY <1>1, <2>1, EmptyOrNot
<1> QED BY <1>1, <1>2, <1>3, <1>4 DEF SoundQueue

LEMMA AnswersKept ==
  ASSUME Sound, ThemeAssumption, AnswersStand, NotesOk, [Next]_vars
  PROVE  AnswersStand'
<1>1. ASSUME NEW r \in receipts'
      PROVE  /\ r.revision \in 1..Len(shelf'[r.fingerprint.id])
             /\ shelf'[r.fingerprint.id][r.revision] = After(r.fingerprint)
  <2>1. CASE r \in receipts
    <3>1. r.fingerprint.id \in Ids /\ Stood(r.fingerprint.id, r.revision, After(r.fingerprint))
      BY <2>1 DEF AnswersStand, Sound, TypeOK
    <3> QED BY <3>1, StoodStays
  <2>2. ASSUME NEW e \in Entry, Carry(e), r \notin receipts
        PROVE  /\ r.revision \in 1..Len(shelf'[r.fingerprint.id])
               /\ shelf'[r.fingerprint.id][r.revision] = After(r.fingerprint)
    <3>1. Written(e) /\ r = [key |-> e.key, fingerprint |-> Fingerprint(e), revision |-> Revision(e.id) + 1]
      BY <1>1, <2>2 DEF Carry, server
    <3>2. r.revision = Revision(e.id) + 1 /\ r.fingerprint.id = e.id /\ After(r.fingerprint) = After(e)
      BY <3>1 DEF Fingerprint, After
    <3>3. Len(shelf'[e.id]) = Revision(e.id) + 1 /\ shelf'[e.id][Revision(e.id) + 1] = After(e)
      BY <3>1, <2>2, CarryShelf DEF Sound
    <3>4. Revision(e.id) \in Nat
      BY ServerTypes DEF Sound, Entry
    <3> QED BY <3>2, <3>3, <3>4
  <2> QED BY <1>1, <2>1, <2>2, ServerMoves
<1>2. ASSUME NEW c \in Devices, place'[c] = "settle", answer'[c].kind \in {"ok", "conflict"}
      PROVE  /\ answer'[c].revision \in 1..Len(shelf'[flight'[c].id])
             /\ shelf'[flight'[c].id][answer'[c].revision] = answer'[c].text
             /\ answer'[c].kind = "ok" => answer'[c].text = After(flight'[c])
  <2>1. CASE Serve(c)
    <3> DEFINE e == flight[c]
    <3>1. place[c] = "sent" /\ Carry(e) /\ flight' = flight /\ answer'[c] = Reply(e)
      BY <2>1 DEF Serve, At, Sound, TypeOK
    <3>2. e \in Entry /\ e.id \in Ids /\ Whole(e) /\ e.base # Previous
      BY <3>1, SentBased
    <3>3. e.base <= Revision(e.id)
      <4>1. 1 \in 1..Len(queue[c][e.id]) /\ e = queue[c][e.id][1]
        BY <3>1, SentBased
      <4>2. \A i \in 1..Len(queue[c][e.id]) : queue[c][e.id][i].base <= Revision(e.id)
        BY <3>2 DEF NotesOk, NoteOk, Revision
      <4> QED BY <4>1, <4>2
    <3>4. flight'[c] = e
      BY <3>1
    <3> HIDE DEF e
    <3>5. /\ Reply(e).revision \in 1..Len(shelf'[e.id]) /\ shelf'[e.id][Reply(e).revision] = Reply(e).text
          /\ Reply(e).kind = "ok" => Reply(e).text = After(e)
      BY <1>2, <3>1, <3>2, <3>3, ReplyStands, ReplyTypes DEF Sound
    <3> QED BY <3>1, <3>4, <3>5 
  <2>2. CASE place[c] = "settle" /\ answer'[c] = answer[c] /\ flight'[c] = flight[c]
    <3> DEFINE t == flight[c].id  a == answer[c]
    <3>1. Stood(t, a.revision, a.text) /\ (a.kind = "ok" => a.text = After(flight[c])) /\ t \in Ids
      BY <1>2, <2>2, AtSettle DEF AnswersStand, Answered, At
    <3> HIDE DEF t, a
    <3>2. a.revision \in 1..Len(shelf'[t]) /\ shelf'[t][a.revision] = a.text
      BY <3>1, StoodStays
    <3> QED BY <2>2, <3>1, <3>2 DEF t, a
  <2> QED BY <1>2, <2>1, <2>2, AnswerMoves
<1> QED BY <1>1, <1>2 DEF AnswersStand, Answered, At, Stood, Revision, After

\* Time passes: what was noted stays noted.
LEMMA NoteStays ==
  ASSUME NEW q \in Seq(Entry), NEW q2 \in Seq(Entry), Alike(q, q2), NEW row, NEW n, NEW sh, NEW sh2,
         Len(sh) \in Nat, Len(sh2) \in Nat, Len(sh2) >= Len(sh), \A i \in 1..Len(sh) : sh2[i] = sh[i],
         NoteOk(q, row, n, sh)
  PROVE  NoteOk(q2, row, n, sh2)
<1>1. Len(q) \in Nat /\ Len(q2) = Len(q) /\ (q = <<>> <=> Len(q) = 0) /\ (q2 = <<>> <=> q = <<>>)
  BY EmptyOrNot DEF Alike
<1>2. \A i \in 1..Len(q2) : q2[i].base = q[i].base /\ q[i] \in Entry
  BY <1>1 DEF Alike, Same
<1>3. \A i \in 1..Len(q2) : q2[i].base <= Len(sh2)
  <2> TAKE i \in 1..Len(q2)
  <2>1. q2[i].base = q[i].base /\ q[i].base \in Int
    BY <1>2 DEF Entry
  <2>2. q[i].base <= Len(sh)
    BY <1>1 DEF NoteOk
  <2> HIDE DEF NoteOk
  <2> QED BY <2>1, <2>2
<1>4. q2 # <<>> => q2[1].base = q[1].base
  BY <1>1, <1>2
<1> QED BY <1>1, <1>3, <1>4 DEF NoteOk

\* The player's change at the end of a queue.
LEMMA EndedNoted ==
  ASSUME NEW q \in Seq(Entry), NEW q2 \in Seq(Entry), NEW e, Ended(q, q2, e), NEW row, NEW row2, NEW n, NEW sh,
         Len(sh) \in Nat, NoteOk(q, row, n, sh), row2.state # "none", e.base <= Len(sh),
         Len(q2) = Len(q) => e.base = LastOf(q).base,
         q = <<>> /\ e.base = None => n.state = "none"
  PROVE  NoteOk(q2, row2, n, sh)
<1>1. Len(q) \in Nat /\ Len(q2) \in Nat /\ (q = <<>> <=> Len(q) = 0) /\ (q2 = <<>> <=> Len(q2) = 0)
  BY EmptyOrNot
<1>2. /\ q2 # <<>> /\ \A i \in 1..Len(q2) : q2[i] = e \/ (i \in 1..Len(q) /\ q2[i] = q[i])
      /\ \/ q2[1] = e /\ (q = <<>> \/ (q # <<>> /\ Len(q) = 1 /\ Len(q2) = Len(q)))
         \/ q # <<>> /\ q2[1] = q[1]
  <2>1. CASE Len(q2) = Len(q) + 1 /\ q2[Len(q2)] = e /\ \A i \in 1..Len(q) : q2[i] = q[i]
    BY <2>1, <1>1
  <2>2. CASE Len(q) > 0 /\ Len(q2) = Len(q) /\ q2[Len(q2)] = e /\ \A i \in 1..(Len(q) - 1) : q2[i] = q[i]
    BY <2>2, <1>1
  <2> QED BY <2>1, <2>2 DEF Ended
<1>3. \A i \in 1..Len(q2) : q2[i].base <= Len(sh)
  BY <1>2 DEF NoteOk
<1>4. q2[1].base = None => n.state = "none"
  BY <1>2 DEF NoteOk, LastOf
<1> QED BY <1>2, <1>3, <1>4 DEF NoteOk

\* A revision noted is one the theme has.
LEMMA RemoteNoted ==
  ASSUME NEW q, NEW row, NEW n \in Noted, NEW sh, Len(sh) \in Nat, NoteOk(q, row, n, sh)
  PROVE  FromRemote(n) <= Len(sh) /\ (FromRemote(n) = None => n.state # "live")
  BY DEF FromRemote, NoteOk, None, Noted

LEMMA PutNoted ==
  ASSUME ThemeAssumption, NEW t \in Ids, NEW q, SoundQueue(q, t), NEW n \in Noted, NEW text \in Texts \ {0}, NEW k \in Keys,
         NEW row, NEW row2, NEW sh, Len(sh) \in Nat, NoteOk(q, row, n, sh), row2.state # "none",
         row.state # "gone", row \in Row, row.state = "saved" <=> row.text # 0
  PROVE  NoteOk(PlanPut(q, n, t, text, k), row2, n, sh)
<1> DEFINE q2 == PlanPut(q, n, t, text, k)
<1>1. q \in Seq(Entry) /\ (q = <<>> <=> Len(q) = 0) /\ Len(q) \in Nat
  BY EmptyOrNot DEF SoundQueue
<1>2. PICK base \in Int, key \in Keys :
           /\ q2 \in Seq(Entry) /\ q2 # <<>> /\ Ended(q, q2, Fresh(t, "put", text, base, key))
           /\ Len(q2) = Len(q) => /\ LastOf(q).op = "put" /\ NotReached(LastOf(q)) /\ base = LastOf(q).base
                                  /\ key = k \/ (Unsent(LastOf(q)) /\ key = LastOf(q).key)
           /\ Len(q2) # Len(q) => key = k /\ base = IF q = <<>> THEN FromRemote(n) ELSE Previous
  BY PutEnds
<1> HIDE DEF q2
<1>3. base <= Len(sh)
  <2>1. CASE Len(q2) = Len(q)
    <3>1. Len(q) \in 1..Len(q)
      BY <2>1, <1>1, <1>2
    <3> QED BY <2>1, <3>1, <1>2 DEF NoteOk, LastOf
  <2> QED BY <2>1, <1>2, RemoteNoted DEF Previous
<1>4. q = <<>> /\ base = None => n.state = "none"
  <2> SUFFICES ASSUME q = <<>>, base = None, n.state # "none" PROVE FALSE
    OBVIOUS
  <2>1. Len(q2) # Len(q)
    BY <1>1, <1>2, EmptyOrNot
  <2>2. n.state = "gone"
    BY <2>1, <1>2, RemoteNoted DEF Noted
  <2>3. row.text = Gone /\ row.state # "none"
    BY <2>2 DEF NoteOk
  <2> QED BY <2>3 DEF Row, Gone
<1> DEFINE e == Fresh(t, "put", text, base, key)
<1>5. e.base = base
  BY DEF Fresh
<1> HIDE DEF e
<1>6. Ended(q, q2, e)
  BY <1>2 DEF e
<1>7. NoteOk(q2, row2, n, sh)
  BY <1>1, <1>2, <1>3, <1>4, <1>5, <1>6, EndedNoted
<1> QED BY <1>7 DEF q2

LEMMA DeleteNoted ==
  ASSUME ThemeAssumption, NEW t \in Ids, NEW q, SoundQueue(q, t), NEW n \in Noted, NEW text \in Texts, NEW k \in Keys,
         NEW row, NEW row2, NEW sh, Len(sh) \in Nat, NoteOk(q, row, n, sh), row2.state # "none",
         row.state = "saved" , row.text # 0
  PROVE  NoteOk(PlanDelete(q, n, t, text, k), row2, n, sh)
<1> DEFINE q2 == PlanDelete(q, n, t, text, k)
<1> HIDE DEF q2
<1>1. q \in Seq(Entry) /\ (q = <<>> <=> Len(q) = 0) /\ Len(q) \in Nat
  BY EmptyOrNot DEF SoundQueue
<1>2. CASE q2 = <<>> /\ IF q = <<>> THEN FromRemote(n) = None ELSE q[1].base = None /\ NotReached(q[1])
  <2>1. n.state = "none"
    <3>1. CASE q = <<>>
      <4>1. n.state # "live"
        BY <1>2, <3>1, RemoteNoted
      <4>2. n.state # "gone"
        BY <3>1 DEF NoteOk, Gone
      <4> QED BY <4>1, <4>2 DEF Noted
    <3>2. CASE q # <<>>
      BY <1>2, <3>2 DEF NoteOk
    <3> QED BY <3>1, <3>2
  <2>2. \A i \in 1..Len(q2) : FALSE
    BY <1>2
  <2> QED BY <1>2, <2>1, <2>2 DEF NoteOk, q2
<1>3. ASSUME NEW base \in Int \ {None},
             q2 \in Seq(Entry), q2 # <<>>, Ended(q, q2, Fresh(t, "delete", text, base, k)),
             Len(q2) = Len(q) => Len(q) = 1 /\ NotReached(q[1]) /\ base = q[1].base,
             Len(q2) # Len(q) => base = IF q = <<>> THEN FromRemote(n) ELSE Previous
      PROVE  NoteOk(q2, row2, n, sh)
  <2>1. base <= Len(sh)
    BY <1>3, RemoteNoted DEF Previous, NoteOk
  <2> DEFINE e == Fresh(t, "delete", text, base, k)
  <2>2. e.base = base
    BY DEF Fresh
  <2> HIDE DEF e
  <2>3. Ended(q, q2, e)
    BY <1>3 DEF e
  <2>4. Len(q2) = Len(q) => e.base = LastOf(q).base
    BY <1>3, <2>2 DEF LastOf
  <2> QED BY <1>1, <1>3, <2>1, <2>2, <2>3, <2>4, EndedNoted
<1> QED BY <1>2, <1>3, DeleteEnds DEF q2

\* What a device takes from the server is what the theme is at that revision.
LEMMA TakenNoted ==
  ASSUME NEW a, NEW sh, a.revision \in 1..Len(sh), sh[a.revision] = a.text
  PROVE  NoteOk(<<>>, RowOf(a), NoteOf(a), sh)
<1>1. RowOf(a).state # "none" /\ RowOf(a).text = a.text /\ NoteOf(a).revision = a.revision
      /\ (NoteOf(a).state = "gone" <=> a.text = Gone)
  BY DEF RowOf, NoteOf
<1>2. \A i \in 1..Len(<<>>) : FALSE
  OBVIOUS
<1> QED BY <1>1, <1>2 DEF NoteOk

LEMMA FollowingNoted ==
  ASSUME NEW t \in Ids, NEW q, SoundQueue(q, t), q # <<>>, NEW row \in Row, Fits(q, row), row.state = "saved" <=> row.text # 0,
         NEW a, NEW sh, Len(sh) \in Nat, a.revision \in 1..Len(sh), sh[a.revision] = a.text,
         a.kind = "ok" => a.text = After(q[1]), Confirms(q[1], a)
  PROVE  NoteOk(Following(q, a.text # Gone, a.revision), row, NoteOf(a), sh)
<1> DEFINE live == a.text # Gone  rev == a.revision  q2 == Following(q, live, rev)
<1>1. q \in Seq(Entry) /\ Len(q) \in Nat /\ Len(q) >= 1 /\ 1 \in 1..Len(q) /\ q[1] \in Entry
  BY EmptyOrNot DEF SoundQueue
<1>2. Whole(q[1]) /\ q[1].op \in {"put", "delete"}
  BY <1>1 DEF SoundQueue, Entry
<1>3. a.text = After(q[1]) /\ (live <=> q[1].op = "put")
  BY <1>2 DEF Confirms, After, Gone, Whole
<1>4. row.state # "none" /\ row.text \in Texts
  BY DEF Fits, Row
<1>5. /\ NoteOf(a).revision = rev /\ NoteOf(a).state # "none"
      /\ (NoteOf(a).state = "gone" <=> a.text = Gone)
  BY DEF NoteOf
<1>6. live \in BOOLEAN /\ rev \in Nat /\ rev >= 1 /\ rev <= Len(sh)
  OBVIOUS
<1>7. ~live => Len(q) = 1
  <2>1. Len(q) \in Nat /\ Len(q) >= 1
    BY <1>1
  <2>2. \A i \in 1..(Len(q) - 1) : q[i].op = "put"
    BY DEF SoundQueue
  <2>3. \A n \in Nat : n >= 1 /\ n # 1 => 1 \in 1..(n - 1)
    OBVIOUS
  <2> QED BY <2>1, <2>2, <2>3, <1>3
<1>8. Len(q) = 1 => row.text = a.text
  BY <1>2, <1>3, <1>4 DEF Fits, LastOf, After, Gone
<1> HIDE DEF live, rev, q2
<1>9. CASE q2 = <<>>
  <2>1. Len(q) = 1
    <3>1. Len(q) = 1 \/ (Len(q) = 2 /\ ~live) \/ q2 # <<>> 
      <4>1. q2 = <<>> => Len(q2) = 0
        OBVIOUS
      <4>2. Len(q2) = Len(q) - 1 /\ Len(q) > 1 => Len(q2) # 0
        BY <1>1
      <4> QED BY <1>6, <4>1, <4>2, FollowingLeaves DEF q2
    <3> QED BY <3>1, <1>7, <1>9
  <2>2. \A i \in 1..Len(q2) : FALSE
    BY <1>9
  <2>3. NoteOk(q2, row, NoteOf(a), sh)
    BY <2>1, <2>2, <1>4, <1>5, <1>8, <1>9 DEF NoteOk, rev
  <2> QED BY <2>3 DEF q2, live, rev
<1>10. CASE q2 # <<>>
  <2> DEFINE e == Based(q[2], IF live THEN rev ELSE None)
  <2>1. /\ q2 \in Seq(Entry) /\ Len(q2) = Len(q) - 1 /\ Len(q) > 1
        /\ q2[1] = e /\ \A i \in 2..Len(q2) : q2[i] = q[i + 1]
    BY <1>6, <1>10, FollowingLeaves DEF q2
  <2>2. q[2] \in Entry /\ live
    BY <2>1, <1>1, <1>7
  <2>3. e.base = rev
    BY <2>2, <1>6, BasedIsEntry
  <2> HIDE DEF e
  <2>4. \A i \in 1..Len(q2) : q2[i].base = rev \/ q2[i].base = Previous
    <3> TAKE i \in 1..Len(q2)
    <3>1. CASE i = 1
      BY <3>1, <2>1, <2>3
    <3>2. CASE i # 1
      <4>1. i \in 2..Len(q2) /\ i + 1 \in 2..Len(q)
        BY <3>2, <2>1, <1>1
      <4> QED BY <4>1, <2>1 DEF SoundQueue
    <3> QED BY <3>1, <3>2
  <2>5. \A i \in 1..Len(q2) : q2[i].base <= Len(sh)
    BY <2>4, <1>6 DEF Previous
  <2>6. q2[1].base # None
    BY <2>1, <2>3, <1>6 DEF None
  <2>7. NoteOk(q2, row, NoteOf(a), sh)
    BY <2>5, <2>6, <1>4, <1>5, <1>10 DEF NoteOk, rev
  <2> QED BY <2>7 DEF q2, live, rev
<1> QED BY <1>9, <1>10

LEMMA RefusedNoted ==
  ASSUME ThemeAssumption, NEW t \in Ids, NEW q, SoundQueue(q, t), q # <<>>, NEW hold \in Holds,
         NEW tries \in 0..(Tries + 1), NEW k \in Keys, NEW row, NEW n, NEW sh, Len(sh) \in Nat, NoteOk(q, row, n, sh)
  PROVE  NoteOk(PlanRefused(q, hold, tries, k), row, n, sh)
<1> DEFINE q2 == PlanRefused(q, hold, tries, k)
           e == Fresh(t, LastOf(q).op, LastOf(q).text, q[1].base, k)
<1>1. q \in Seq(Entry) /\ Len(q) \in Nat /\ 1 \in 1..Len(q)
  BY EmptyOrNot DEF SoundQueue
<1>2. e.base = q[1].base
  BY DEF Fresh
<1> HIDE DEF q2, e
<1>3. CASE q2 = MarkedAs(q, tries, hold)
  <2>1. q2 \in Seq(Entry) /\ Alike(q, q2)
    BY <1>3, MarkedAlike
  <2>2. NoteOk(q2, row, n, sh)
    BY <2>1, <1>1, NoteStays
  <2> QED BY <2>2 DEF q2
<1>4. CASE q2 = <<>> /\ q[1].base = None
  <2>1. n.state = "none"
    BY <1>4 DEF NoteOk
  <2>2. \A i \in 1..Len(q2) : FALSE
    BY <1>4
  <2>3. NoteOk(q2, row, n, sh)
    BY <2>1, <2>2, <1>4 DEF NoteOk
  <2> QED BY <2>3 DEF q2
<1>5. CASE Len(q2) = 1 /\ q2 # <<>> /\ q2[1] = e
  <2>1. \A i \in 1..Len(q2) : q2[i] = e
    BY <1>5
  <2>2. NoteOk(q2, row, n, sh)
    BY <2>1, <1>1, <1>2, <1>5 DEF NoteOk
  <2> QED BY <2>2 DEF q2
<1> QED BY <1>3, <1>4, <1>5, RefusedLeaves DEF q2, e

LEMMA CopyNoted ==
  ASSUME NEW e, e.base = None, NEW row, NEW row2, row.state = "none", row2.state # "none", NEW q, NEW n, NEW sh, Len(sh) \in Nat,
         NoteOk(q, row, n, sh)
  PROVE  NoteOk(<<e>>, row2, n, sh)
<1>1. n.state = "none"
  BY DEF NoteOk
<1>2. Len(<<e>>) = 1 /\ <<e>>[1] = e /\ <<e>> # <<>>
  OBVIOUS
<1>3. \A i \in 1..Len(<<e>>) : <<e>>[i].base <= Len(sh)
  BY <1>2 DEF None
<1> QED BY <1>1, <1>2, <1>3 DEF NoteOk

\* Which steps move a device's rows, or what it noted.
LEMMA RowSteps ==
  ASSUME Sound, ThemeAssumption, [Next]_vars
  PROVE  \/ \E d \in Devices, t \in Ids : Save(d, t) \/ Delete(d, t)
         \/ \E d \in Devices : Confirm(d) \/ Resolve(d) \/ Refuse(d) \/ Page(d)
         \/ /\ \A d \in Devices, t \in Ids : Alike(queue[d][t], queue'[d][t])
            /\ UNCHANGED <<library, noted>>
<1>1. ASSUME NEW d \in Devices, Step(d)
      PROVE  Confirm(d) \/ Resolve(d) \/ Refuse(d) \/ Page(d) \/ UNCHANGED <<library, noted>>
  BY <1>1 DEF Step, Mark, Serve, Resend, Retry, Pause, Ask, store
<1>2. ASSUME NEW d \in Devices, Rouse(d) \/ Pick(d) \/ Close(d) \/ Unanswered(d, "error") \/ Unanswered(d, "pause")
      PROVE  UNCHANGED <<library, noted>>
  BY <1>2 DEF Rouse, Pick, Close, Unanswered, store
<1>3. ASSUME (\E e \in stray : Straggle(e)) \/ (\E r \in receipts : Expire(r)) \/ UNCHANGED vars
      PROVE  UNCHANGED <<library, noted>>
  BY <1>3 DEF Straggle, Expire, vars, store
<1> QED BY <1>1, <1>2, <1>3, QueueSteps DEF Next

LEMMA NotesKept ==
  ASSUME Sound, ThemeAssumption, NoteInv, [Next]_vars
  PROVE  NotesOk'
<1> DEFINE Now(c, s)  == NoteOk(queue[c][s], library[c][s], noted[c][s], shelf[s])
           Then(c, s) == NoteOk(queue'[c][s], library'[c][s], noted'[c][s], shelf'[s])
<1>1. ASSUME NEW c \in Devices, NEW s \in Ids
      PROVE  /\ queue[c][s] \in Seq(Entry) /\ SoundQueue(queue[c][s], s) /\ Fits(queue[c][s], library[c][s])
             /\ library[c][s] \in Row /\ (library[c][s].state = "saved" <=> library[c][s].text # 0)
             /\ noted[c][s] \in Noted /\ Now(c, s)
  BY DEF Sound, TypeOK, QueuesSound, RowsSound, NoteInv, NotesOk
<1>2. ASSUME NEW s \in Ids
      PROVE  /\ Len(shelf[s]) \in Nat /\ Len(shelf'[s]) \in Nat /\ Len(shelf'[s]) >= Len(shelf[s])
             /\ \A i \in 1..Len(shelf[s]) : shelf'[s][i] = shelf[s][i]
  BY ShelfGrows
<1>3. ASSUME NEW c \in Devices, NEW s \in Ids, Alike(queue[c][s], queue'[c][s]), queue'[c][s] \in Seq(Entry),
             library'[c][s] = library[c][s], noted'[c][s] = noted[c][s]
      PROVE  Then(c, s)
  BY <1>1, <1>2, <1>3, NoteStays
<1>4. ASSUME NEW c \in Devices, NEW s \in Ids, queue'[c][s] = queue[c][s],
             library'[c][s] = library[c][s], noted'[c][s] = noted[c][s]
      PROVE  Then(c, s)
  BY <1>1, <1>3, <1>4, AlikeItself
<1> SUFFICES ASSUME NEW c \in Devices, NEW s \in Ids PROVE Then(c, s)
  BY DEF NotesOk
<1>5. ASSUME NEW d \in Devices, NEW t \in Ids, NEW row \in Row, NEW q \in Seq(Entry), Change(d, t, row, q),
             NoteOk(q, row, noted[d][t], shelf[t])
      PROVE  Then(c, s)
  <2>1. UNCHANGED <<shelf, noted>>
    BY <1>5 DEF Change, server
  <2>2. /\ queue'[d][t] = q /\ \A r \in Ids : r # t => queue'[d][r] = queue[d][r]
        /\ \A b \in Devices : b # d => queue'[b] = queue[b]
    <3>1. TypeOK /\ queue' = [queue EXCEPT ![d][t] = q]
      BY <1>5 DEF Change, Sound
    <3> QED BY <1>5, <3>1, OneQueue, ZenonT(60)
  <2>3. /\ library'[d][t] = row /\ \A r \in Ids : r # t => library'[d][r] = library[d][r]
        /\ \A b \in Devices : b # d => library'[b] = library[b]
    BY <1>5, OneRow, ZenonT(60) DEF Change, Sound
  <2>4. CASE c = d /\ s = t
    BY <1>5, <2>1, <2>2, <2>3, <2>4
  <2>5. CASE ~(c = d /\ s = t)
    BY <1>4, <2>1, <2>2, <2>3, <2>5
  <2> QED BY <2>4, <2>5
<1>6. ASSUME NEW d \in Devices, place[d] = "settle", NEW q \in Seq(Entry), NEW n \in Noted,
             SetMine(d, q), noted' = [noted EXCEPT ![d][flight[d].id] = n], UNCHANGED <<shelf, library>>,
             NoteOk(q, library[d][flight[d].id], n, shelf[flight[d].id])
      PROVE  Then(c, s)
  <2> DEFINE t == flight[d].id
  <2>1. t \in Ids /\ queue' = [queue EXCEPT ![d][t] = q]
    BY <1>6, AtSettle DEF SetMine
  <2>2. /\ noted'[d][t] = n /\ \A r \in Ids : r # t => noted'[d][r] = noted[d][r]
        /\ \A b \in Devices : b # d => noted'[b] = noted[b]
    BY <1>6, <2>1 DEF Sound, TypeOK
  <2>3. NoteOk(q, library[d][t], n, shelf[t])
    BY <1>6
  <2> HIDE DEF t
  <2>4. /\ queue'[d][t] = q /\ \A r \in Ids : r # t => queue'[d][r] = queue[d][r]
        /\ \A b \in Devices : b # d => queue'[b] = queue[b]
    <3>1. queue \in [Devices -> [Ids -> Seq(Entry)]]
      BY DEF Sound, TypeOK
    <3> QED BY <2>1, <3>1
  <2>5. CASE c = d /\ s = t
    BY <1>6, <2>2, <2>3, <2>4, <2>5
  <2>6. CASE ~(c = d /\ s = t)
    BY <1>4, <1>6, <2>2, <2>4, <2>6
  <2> QED BY <2>5, <2>6
<1> HIDE DEF Now, Then
<1>7. ASSUME NEW d \in Devices, NEW t \in Ids, Save(d, t) PROVE Then(c, s)
  <2> DEFINE row == [state |-> "saved", text |-> texts + 1]
  <2>1. PICK k \in Keys : Change(d, t, row, PlanPut(queue[d][t], noted[d][t], t, texts + 1, k))
    BY <1>7 DEF Save
  <2>2. texts + 1 \in Texts \ {0}
    BY <2>1 DEF Change, Sound, TypeOK, Texts, ThemeAssumption
  <2>3. row \in Row /\ row.state # "none"
    BY <2>2 DEF Row
  <2>4. library[d][t].state # "gone"
    BY <1>7 DEF Save, NextUnused, Unused, NoRow
  <2> HIDE DEF row
  <2>5. NoteOk(PlanPut(queue[d][t], noted[d][t], t, texts + 1, k), row, noted[d][t], shelf[t])
    BY <1>1, <1>2, <2>2, <2>3, <2>4, PutNoted DEF Now
  <2>6. PlanPut(queue[d][t], noted[d][t], t, texts + 1, k) \in Seq(Entry)
    BY <1>1, <2>2, PutEnds
  <2> QED BY <1>5, <2>1, <2>3, <2>5, <2>6
<1>8. ASSUME NEW d \in Devices, NEW t \in Ids, Delete(d, t) PROVE Then(c, s)
  <2> DEFINE row == [state |-> "gone", text |-> Gone]
  <2>1. PICK k \in Keys : Change(d, t, row, PlanDelete(queue[d][t], noted[d][t], t, texts + 1, k))
    BY <1>8 DEF Delete
  <2>2. texts + 1 \in Texts /\ 0 \in Texts
    BY <2>1 DEF Change, Sound, TypeOK, Texts, ThemeAssumption
  <2>3. row \in Row /\ row.state # "none"
    BY <2>2 DEF Row, Gone
  <2>4. library[d][t].state = "saved"
    BY <1>8 DEF Delete
  <2> HIDE DEF row
  <2>5. NoteOk(PlanDelete(queue[d][t], noted[d][t], t, texts + 1, k), row, noted[d][t], shelf[t])
    BY <1>1, <1>2, <2>2, <2>3, <2>4, DeleteNoted DEF Now
  <2>6. PlanDelete(queue[d][t], noted[d][t], t, texts + 1, k) \in Seq(Entry)
    <3>1. <<>> \in Seq(Entry)
      OBVIOUS
    <3> QED BY <1>1, <2>2, <3>1, DeleteEnds
  <2> QED BY <1>5, <2>1, <2>3, <2>5, <2>6
<1>9. ASSUME NEW d \in Devices, Confirm(d) PROVE Then(c, s)
  <2> DEFINE a == answer[d]  t == flight[d].id  q == Following(Mine(d), a.text # Gone, a.revision)
  <2>1. /\ place[d] = "settle" /\ a.kind \in {"ok", "conflict"} /\ Confirms(flight[d], a) /\ SetMine(d, q)
        /\ noted' = [noted EXCEPT ![d][t] = NoteOf(a)] /\ UNCHANGED <<shelf, library>>
    BY <1>9 DEF Confirm, Answered, At, server
  <2>2. /\ t \in Ids /\ Mine(d) # <<>> /\ flight[d] = Mine(d)[1] /\ SoundQueue(Mine(d), t)
        /\ Fits(Mine(d), library[d][t]) /\ a \in Answer
    BY <2>1, AtSettle
  <2>3. Stood(t, a.revision, a.text) /\ (a.kind = "ok" => a.text = After(flight[d]))
    BY <2>1 DEF NoteInv, AnswersStand, Answered, At
  <2>4. a.revision \in 1..Len(shelf[t]) /\ shelf[t][a.revision] = a.text
    BY <2>3 DEF Stood, Revision
  <2>5. NoteOf(a) \in Noted
    BY <2>2 DEF NoteOf, Noted, Answer
  <2> HIDE DEF a, t
  <2>6. NoteOk(q, library[d][t], NoteOf(a), shelf[t])
    BY <1>1, <1>2, <2>1, <2>2, <2>3, <2>4, FollowingNoted, SMTT(60)
  <2>7. q \in Seq(Entry)
    <3> DEFINE live == a.text # Gone  rev == a.revision
    <3>1. live \in BOOLEAN /\ rev \in Nat /\ (live => rev >= 1)
      BY <2>2, <2>4 DEF Answer
    <3> HIDE DEF live, rev
    <3>2. SoundQueue(Following(Mine(d), live, rev), t)
      BY <2>2, <3>1, FollowingSound
    <3> QED BY <3>2 DEF SoundQueue, live, rev
  <2> HIDE DEF q
  <2> QED BY <1>6, <2>1, <2>5, <2>6, <2>7 DEF t
<1>10. ASSUME NEW d \in Devices, Refuse(d) PROVE Then(c, s)
  <2> DEFINE t == flight[d].id  hold == IF answer[d].kind = "full" THEN "library-full" ELSE "invalid"
  <2>1. place[d] = "settle" /\ UNCHANGED <<shelf, library, noted>>
    BY <1>10 DEF Refuse, Answered, At, server
  <2>2. PICK k \in Keys : SetMine(d, PlanRefused(Mine(d), hold, flight[d].tries, k))
    BY <1>10 DEF Refuse
  <2>3. t \in Ids /\ Mine(d) # <<>> /\ SoundQueue(Mine(d), t) /\ flight[d].tries \in 0..(Tries + 1) /\ hold \in Holds
    BY <2>1, AtSettle DEF Holds
  <2>4. Mine(d) = queue[d][t]
    BY DEF Mine
  <2>5. noted' = [noted EXCEPT ![d][t] = noted[d][t]] /\ noted[d][t] \in Noted
    BY <2>1, <2>3, SMTT(60) DEF Sound, TypeOK
  <2> DEFINE n == noted[d][t]
  <2> HIDE DEF hold, t
  <2> DEFINE q == PlanRefused(Mine(d), hold, flight[d].tries, k)
  <2>6. NoteOk(q, library[d][t], n, shelf[t])
    BY <1>1, <1>2, <2>3, <2>4, RefusedNoted DEF Now
  <2>7. q \in Seq(Entry)
    BY <2>3, RefusedSound, SMTT(60) DEF SoundQueue
  <2>9. SetMine(d, q)
    BY <2>2
  <2> HIDE DEF q, n
  <2>8. noted' = [noted EXCEPT ![d][t] = n] /\ n \in Noted
    BY <2>5 DEF n
  <2> QED BY <1>6, <2>1, <2>6, <2>7, <2>8, <2>9 DEF t
<1>11. ASSUME NEW d \in Devices, Resolve(d) PROVE Then(c, s)
  <2> DEFINE t == flight[d].id  a == answer[d]
  <2>1. /\ place[d] = "settle" /\ a.kind = "conflict" /\ UNCHANGED shelf
        /\ noted' = [noted EXCEPT ![d][t] = NoteOf(a)]
    BY <1>11 DEF Resolve, Contested, Answered, At, server
  <2>2. /\ t \in Ids /\ library'[d][t] = RowOf(a) /\ queue'[d][t] = <<>>
        /\ \A b \in Devices : b # d => library'[b] = library[b] /\ queue'[b] = queue[b]
        /\ \/ \A r \in Ids : r # t => library'[d][r] = library[d][r] /\ queue'[d][r] = queue[d][r]
           \/ \E n \in Ids, k \in Keys : CopyMade(d, t, n, k)
    BY <1>11, ResolveLeaves
  <2>3. /\ noted'[d][t] = NoteOf(a) /\ \A r \in Ids : r # t => noted'[d][r] = noted[d][r]
        /\ \A b \in Devices : b # d => noted'[b] = noted[b]
    BY <2>1, <2>2 DEF Sound, TypeOK
  <2>4. a.revision \in 1..Len(shelf[t]) /\ shelf[t][a.revision] = a.text
    BY <2>1 DEF NoteInv, AnswersStand, Answered, At, Stood, Revision
  <2> HIDE DEF t, a
  <2>5. CASE c = d /\ s = t
    BY <2>1, <2>2, <2>3, <2>4, <2>5, TakenNoted, SMTT(60) DEF Then
  <2>6. ASSUME NEW n \in Ids, NEW k \in Keys, CopyMade(d, t, n, k), c = d, s = n
        PROVE  Then(c, s)
    <3> DEFINE e == Fresh(n, "put", library[d][t].text, None, k)
    <3>1. e.base = None
      BY DEF Fresh
    <3>2. queue'[d][n] = <<e>> /\ library'[d][n] = library[d][t] /\ library[d][n] = NoRow /\ library[d][t].state = "saved"
          /\ n # t
      BY <2>6 DEF CopyMade, NextUnused, Unused
    <3> HIDE DEF e
    <3>3. library[d][n].state = "none" /\ library'[d][n].state # "none"
      BY <3>2 DEF NoRow
    <3>4. NoteOk(<<e>>, library'[d][n], noted[d][n], shelf[n])
      BY <1>1, <1>2, <3>1, <3>3, CopyNoted DEF Now
    <3> QED BY <2>1, <2>3, <2>6, <3>2, <3>4 DEF Then
  <2>7. CASE c # d
    BY <1>4, <2>2, <2>3, <2>7
  <2>8. CASE c = d /\ s # t /\ queue'[c][s] = queue[c][s] /\ library'[c][s] = library[c][s]
    BY <1>4, <2>3, <2>8
  <2>9. ASSUME NEW n \in Ids, NEW k \in Keys, CopyMade(d, t, n, k), s # t, s # n
        PROVE  library'[d][s] = library[d][s] /\ queue'[d][s] = queue[d][s]
    BY <2>9 DEF CopyMade
  <2> QED BY <2>2, <2>5, <2>6, <2>7, <2>8, <2>9
<1>12. ASSUME NEW d \in Devices, Page(d) PROVE Then(c, s)
  <2>1. /\ \A r \in Ids : Alike(queue[d][r], queue'[d][r]) /\ queue'[d][r] \in Seq(Entry)
        /\ \A b \in Devices : b # d => queue'[b] = queue[b]
    <3>1. CASE queue' = queue
      BY <1>1, <3>1, <1>12, AlikeItself
    <3>2. CASE Finish(d, listed[d].live)
      BY <3>2, <1>12, FinishLeaves
    <3> QED BY <3>1, <3>2, <1>12, PageGoes
  <2>2. shelf' = shelf
    BY <1>12, PageGoes
  <2>3. CASE c # d
    BY <1>4, <1>12, <2>1, <2>3, PageLeaves
  <2>4. CASE c = d /\ library'[d][s] = library[d][s] /\ noted'[d][s] = noted[d][s]
    BY <1>3, <2>1, <2>4
  <2>5. CASE /\ c = d /\ queue[d][s] = <<>> /\ shelf[s] # <<>>
             /\ library'[d][s] = RowOf(Asked(s)) /\ noted'[d][s] = NoteOf(Asked(s))
    <3>1. queue'[d][s] = <<>>
      <4>1. Len(queue'[d][s]) = Len(queue[d][s]) /\ queue'[d][s] \in Seq(Entry)
        BY <2>1 DEF Alike
      <4> QED BY <4>1, <2>5, EmptyOrNot
    <3>2. Asked(s).revision \in 1..Len(shelf[s]) /\ shelf[s][Asked(s).revision] = Asked(s).text
      <4>1. Revision(s) \in Nat /\ Revision(s) = Len(shelf[s]) /\ Revision(s) # 0 /\ Text(s) = shelf[s][Revision(s)]
        BY <2>5, ServerTypes DEF Sound, Revision
      <4>2. Asked(s).revision = Revision(s) /\ Asked(s).text = Text(s)
        BY DEF Asked
      <4> QED BY <4>1, <4>2
    <3> QED BY <2>2, <2>5, <3>1, <3>2, TakenNoted DEF Then
  <2> QED BY <1>12, <2>3, <2>4, <2>5, PageLeaves
<1>13. ASSUME \A b \in Devices, r \in Ids : Alike(queue[b][r], queue'[b][r]), UNCHANGED <<library, noted>>
       PROVE  Then(c, s)
  <2>1. queue'[c][s] \in Seq(Entry)
    <3>1. Sound'
      BY SoundStep
    <3> QED BY <3>1 DEF Sound, TypeOK
  <2> QED BY <1>3, <1>13, <2>1
<1> QED BY <1>7, <1>8, <1>9, <1>10, <1>11, <1>12, <1>13, RowSteps

LEMMA NoteInit == Init => NoteInv
<1> SUFFICES ASSUME Init PROVE NoteInv
  OBVIOUS
<1>1. NoNote.state = "none" /\ NoAnswer.kind = "none"
  BY DEF NoNote, NoAnswer
<1>2. NotesOk
  BY <1>1 DEF Init, NotesOk, NoteOk
<1>3. AnswersStand
  BY <1>1 DEF Init, AnswersStand, Answered
<1> QED BY <1>2, <1>3 DEF NoteInv

LEMMA AlwaysNoted == Spec => []NoteInv
<1>1. Sound /\ NoteInv /\ [Next]_vars => NoteInv'
  BY NotesKept, AnswersKept, ThemeAssumption DEF NoteInv
<1> QED BY <1>1, NoteInit, AlwaysSound, PTL DEF Spec

\* A device with nothing queued of a theme holds what the theme was at the revision it
\* noted, whichever answers, pages and conflicts brought it there.
THEOREM NotesCorrect == Spec => []HoldsWhatItNoted
<1>1. NoteInv => HoldsWhatItNoted
  <2> SUFFICES ASSUME NoteInv, NEW d \in Devices, NEW t \in Ids, queue[d][t] = <<>>, noted[d][t].state # "none"
               PROVE  noted[d][t].revision <= Revision(t) /\ library[d][t].text = shelf[t][noted[d][t].revision]
    BY DEF HoldsWhatItNoted
  <2>1. NoteOk(queue[d][t], library[d][t], noted[d][t], shelf[t])
    BY DEF NoteInv, NotesOk
  <2> QED BY <2>1 DEF NoteOk, Revision
<1> QED BY <1>1, AlwaysNoted, PTL

-----------------------------------------------------------------------------
(* No save is lost.                                                        *)

\* The saves a queue holds.
PutsOf(q) == {q[i].text : i \in {j \in 1..Len(q) : q[j].op = "put"}}

\* Every change but a newest save was given up by its player.
Yielded(q, G) == \A i \in 1..Len(q) : i < Len(q) \/ q[i].op = "delete" => q[i].text \in G
Superseded    == \A d \in Devices, t \in Ids : Yielded(queue[d][t], given)

LEMMA AlikeYields ==
  ASSUME NEW q, NEW q2, Alike(q, q2), NEW G, Yielded(q, G)
  PROVE  Yielded(q2, G) /\ PutsOf(q2) = PutsOf(q)
<1>1. Len(q2) = Len(q) /\ \A i \in 1..Len(q) : q2[i].op = q[i].op /\ q2[i].text = q[i].text
  BY DEF Alike, Same
<1> QED BY <1>1 DEF Yielded, PutsOf

\* The player's change at the end gives up at most the save that was newest.
LEMMA EndedYields ==
  ASSUME NEW q \in Seq(Entry), NEW q2 \in Seq(Entry), NEW e, Ended(q, q2, e), NEW G, NEW H, Yielded(q, G), G \subseteq H,
         q # <<>> => LastOf(q).text \in H, e.op = "delete" => e.text \in H
  PROVE  /\ Yielded(q2, H) /\ PutsOf(q) \subseteq PutsOf(q2) \cup H
         /\ e.op = "put" => e.text \in PutsOf(q2)
<1>1. Len(q) \in Nat /\ Len(q2) \in Nat /\ (q = <<>> <=> Len(q) = 0)
  BY EmptyOrNot
<1>2. /\ Len(q2) >= 1 /\ q2[Len(q2)] = e
      /\ \A i \in 1..Len(q2) : i < Len(q2) => i \in 1..Len(q) /\ q2[i] = q[i]
      /\ \A i \in 1..Len(q) : i < Len(q) => i \in 1..Len(q2) /\ q2[i] = q[i]
  <2>1. CASE Len(q2) = Len(q) + 1 /\ q2[Len(q2)] = e /\ \A i \in 1..Len(q) : q2[i] = q[i]
    BY <2>1, <1>1
  <2>2. CASE Len(q) > 0 /\ Len(q2) = Len(q) /\ q2[Len(q2)] = e /\ \A i \in 1..(Len(q) - 1) : q2[i] = q[i]
    BY <2>2, <1>1
  <2> QED BY <2>1, <2>2 DEF Ended
<1>3. \A i \in 1..Len(q) : i < Len(q) \/ (i = Len(q) /\ q[i].text \in H)
  BY <1>1 DEF LastOf
<1>4. \A i \in 1..Len(q) : i < Len(q) => q[i].text \in H
  BY DEF Yielded
<1>5. Yielded(q2, H)
  <2> SUFFICES ASSUME NEW i \in 1..Len(q2), i < Len(q2) \/ q2[i].op = "delete" PROVE q2[i].text \in H
    BY DEF Yielded
  <2>1. CASE i < Len(q2)
    <3>1. i \in 1..Len(q) /\ q2[i] = q[i]
      BY <2>1, <1>2
    <3> QED BY <3>1, <1>3, <1>4
  <2>2. CASE ~(i < Len(q2))
    <3>1. i = Len(q2)
      BY <2>2, <1>1
    <3> QED BY <3>1, <2>2, <1>2
  <2> QED BY <2>1, <2>2
<1>6. PutsOf(q) \subseteq H
  BY <1>3, <1>4 DEF PutsOf
<1>7. Len(q2) \in 1..Len(q2)
  BY <1>1, <1>2
<1> QED BY <1>2, <1>5, <1>6, <1>7 DEF PutsOf

\* Whatever is dropped behind an answer was given up, but for the answered change itself.
LEMMA FollowingYields ==
  ASSUME NEW t \in Ids, NEW q, SoundQueue(q, t), q # <<>>, NEW live \in BOOLEAN, NEW rev \in Nat, NEW G, Yielded(q, G)
  PROVE  LET q2 == Following(q, live, rev) IN
         Yielded(q2, G) /\ PutsOf(q) \subseteq PutsOf(q2) \cup {q[1].text} \cup G
<1> DEFINE q2 == Following(q, live, rev)
           e == Based(q[2], IF live THEN rev ELSE None)
<1>1. q \in Seq(Entry) /\ Len(q) \in Nat /\ Len(q) >= 1
  BY EmptyOrNot DEF SoundQueue
<1> HIDE DEF q2, e
<1>2. CASE q2 = <<>> /\ (Len(q) = 1 \/ (Len(q) = 2 /\ q[2].op = "delete"))
  <2>1. \A i \in 1..Len(q) : q[i].op = "put" => i = 1
    BY <1>1, <1>2 DEF Entry
  <2>2. PutsOf(q) \subseteq {q[1].text}
    BY <2>1 DEF PutsOf
  <2>3. \A i \in 1..Len(q2) : FALSE
    BY <1>2
  <2>4. Yielded(q2, G)
    BY <2>3 DEF Yielded
  <2> QED BY <2>2, <2>4 DEF q2
<1>3. CASE /\ q2 \in Seq(Entry) /\ Len(q2) = Len(q) - 1 /\ Len(q) > 1
           /\ q2[1] = e /\ \A i \in 2..Len(q2) : q2[i] = q[i + 1]
  <2>1. q[2] \in Entry
    BY <1>1, <1>3
  <2>2. e.op = q[2].op /\ e.text = q[2].text
    <3> DEFINE base == IF live THEN rev ELSE None
    <3>1. base \in Int
      BY DEF None
    <3> HIDE DEF base
    <3>2. Based(q[2], base).op = q[2].op /\ Based(q[2], base).text = q[2].text
      BY <2>1, <3>1, BasedIsEntry
    <3> QED BY <3>2 DEF e, base
  <2>3. \A i \in 1..Len(q2) : i + 1 \in 1..Len(q) /\ q2[i].op = q[i + 1].op /\ q2[i].text = q[i + 1].text
    <3> TAKE i \in 1..Len(q2)
    <3>1. CASE i = 1
      BY <3>1, <2>2, <1>1, <1>3
    <3>2. CASE i # 1
      BY <3>2, <1>1, <1>3
    <3> QED BY <3>1, <3>2
  <2>4. \A i \in 1..Len(q2) : i < Len(q2) => i + 1 < Len(q)
    BY <1>1, <1>3
  <2>5. Yielded(q2, G)
    BY <2>3, <2>4 DEF Yielded
  <2>6. \A i \in 1..Len(q) : i = 1 \/ (i - 1 \in 1..Len(q2) /\ q2[i - 1].op = q[i].op /\ q2[i - 1].text = q[i].text)
    <3> TAKE i \in 1..Len(q)
    <3>1. i # 1 => i - 1 \in 1..Len(q2) /\ (i - 1) + 1 = i
      BY <1>1, <1>3
    <3> QED BY <3>1, <2>3
  <2>7. PutsOf(q) \subseteq PutsOf(q2) \cup {q[1].text}
    BY <2>6 DEF PutsOf
  <2> QED BY <2>5, <2>7 DEF q2
<1> QED BY <1>2, <1>3, FollowingLeaves DEF q2, e

LEMMA RefusedYields ==
  ASSUME ThemeAssumption, NEW t \in Ids, NEW q, SoundQueue(q, t), q # <<>>, NEW hold \in Holds,
         NEW tries \in 0..(Tries + 1), NEW k \in Keys, NEW G, Yielded(q, G)
  PROVE  LET q2 == PlanRefused(q, hold, tries, k) IN Yielded(q2, G) /\ PutsOf(q) \subseteq PutsOf(q2) \cup G
<1> DEFINE q2 == PlanRefused(q, hold, tries, k)
           e == Fresh(t, LastOf(q).op, LastOf(q).text, q[1].base, k)
<1>1. q \in Seq(Entry) /\ Len(q) \in Nat /\ Len(q) \in 1..Len(q)
  BY EmptyOrNot DEF SoundQueue
<1>2. e.op = LastOf(q).op /\ e.text = LastOf(q).text
  BY DEF Fresh
<1> HIDE DEF q2, e
<1>3. CASE q2 = MarkedAs(q, tries, hold)
  <2>1. Alike(q, q2)
    BY <1>3, MarkedAlike
  <2> QED BY <2>1, AlikeYields DEF q2
<1>4. \A i \in 1..Len(q) : i < Len(q) \/ i = Len(q)
  BY <1>1
<1>5. CASE q2 = <<>> /\ LastOf(q).op = "delete"
  <2>1. PutsOf(q) \subseteq G
    BY <1>4, <1>5 DEF PutsOf, Yielded, LastOf
  <2>2. \A i \in 1..Len(q2) : FALSE
    BY <1>5
  <2>3. Yielded(q2, G)
    BY <2>2 DEF Yielded
  <2> QED BY <2>1, <2>3 DEF q2
<1>6. CASE Len(q2) = 1 /\ q2[1] = e
  <2>1. \A i \in 1..Len(q) : q[i].op = "put" => q[i].text \in G \/ (e.op = "put" /\ q[i].text = e.text)
    BY <1>2, <1>4 DEF Yielded, LastOf
  <2>2. e.op = "put" => e.text \in PutsOf(q2)
    <3>1. 1 \in 1..Len(q2)
      BY <1>6
    <3> QED BY <3>1, <1>6 DEF PutsOf
  <2>3. PutsOf(q) \subseteq PutsOf(q2) \cup G
    BY <2>1, <2>2 DEF PutsOf
  <2>4. Yielded(q2, G)
    <3>1. \A i \in 1..Len(q2) : ~(i < Len(q2)) /\ q2[i] = e
      BY <1>6
    <3>2. e.op = "delete" => e.text \in G
      BY <1>1, <1>2 DEF Yielded, LastOf
    <3> QED BY <3>1, <3>2 DEF Yielded
  <2> QED BY <2>3, <2>4 DEF q2
<1> QED BY <1>3, <1>5, <1>6, RefusedLeaves DEF q2, e

\* What is queued, and what is accepted, theme by theme.
LEMMA QueuedPuts ==
  /\ \A d \in Devices, t \in Ids : PutsOf(queue[d][t]) \subseteq Queued
  /\ \A x \in Queued : \E d \in Devices, t \in Ids : x \in PutsOf(queue[d][t])
<1> DEFINE Q(d, t) == {e.text : e \in {f \in Entries(d, t) : f.op = "put"}}
<1>1. \A d, t : Q(d, t) = PutsOf(queue[d][t])
  BY DEF Entries, PutsOf
<1>2. Queued = UNION {Q(d, t) : d \in Devices, t \in Ids}
  BY DEF Queued
<1> HIDE DEF Q
<1> QED BY <1>1, <1>2

LEMMA AcceptedTexts ==
  /\ \A t \in Ids : \A i \in 1..Revision(t) : shelf[t][i] \in Accepted
  /\ \A x \in Accepted : \E t \in Ids : \E i \in 1..Revision(t) : x = shelf[t][i]
<1> DEFINE A(t) == {shelf[t][i] : i \in 1..Revision(t)}
<1>1. Accepted = UNION {A(t) : t \in Ids}
  BY DEF Accepted
<1>2. \A t : \A x : x \in A(t) <=> \E i \in 1..Revision(t) : x = shelf[t][i]
  OBVIOUS
<1> HIDE DEF A
<1> QED BY <1>1, <1>2

\* What is safe in the next state.
Kept == Accepted \cup Queued \cup given

LEMMA KeptNext ==
  ASSUME Sound, ThemeAssumption, [Next]_vars, given \subseteq given', NoSaveLost,
         \A d \in Devices, t \in Ids : PutsOf(queue[d][t]) \subseteq Kept',
         texts' = texts \/ (texts' = texts + 1 /\ texts' \in Kept')
  PROVE  NoSaveLost'
<1>1. Accepted \subseteq Accepted'
  <2> SUFFICES ASSUME NEW x \in Accepted PROVE x \in Accepted'
    OBVIOUS
  <2>1. PICK t \in Ids : \E i \in 1..Revision(t) : x = shelf[t][i]
    BY AcceptedTexts
  <2>2. PICK i \in 1..Revision(t) : x = shelf[t][i]
    BY <2>1
  <2>3. i \in 1..Len(shelf'[t]) /\ shelf'[t][i] = x
    BY <2>2, ShelfGrows DEF Revision
  <2>4. Accepted' = UNION {{shelf'[r][j] : j \in 1..Len(shelf'[r])} : r \in Ids}
    BY DEF Accepted, Revision, Ids
  <2> QED BY <2>3, <2>4
<1>2. Accepted \cup Queued \cup given \subseteq Kept'
  BY <1>1, QueuedPuts DEF Kept
<1>3. texts \in Nat
  BY DEF Sound, TypeOK, Texts
<1>4. 1..texts' \subseteq 1..texts \cup {texts'}
  BY <1>3
<1>5. 1..texts \subseteq Kept'
  BY <1>2 DEF NoSaveLost
<1>6. 1..texts' \subseteq Kept'
  BY <1>4, <1>5
<1> QED BY <1>6 DEF NoSaveLost, Kept

LEMMA QueuedNext ==
  \A d \in Devices, t \in Ids : PutsOf(queue'[d][t]) \subseteq Kept'
<1> DEFINE Q(d, t) == {e.text : e \in {f \in {queue'[d][t][i] : i \in 1..Len(queue'[d][t])} : f.op = "put"}}
<1>1. \A d, t : Q(d, t) = PutsOf(queue'[d][t])
  BY DEF PutsOf
<1>2. Queued' = UNION {Q(d, t) : d \in Devices, t \in Ids}
  BY DEF Queued, Entries, Ids
<1> HIDE DEF Q
<1>3. \A d \in Devices, t \in Ids : PutsOf(queue'[d][t]) \subseteq Queued'
  BY <1>1, <1>2
<1> QED BY <1>3 DEF Kept

LEMMA AcceptedNext ==
  \A t \in Ids : \A i \in 1..Len(shelf'[t]) : shelf'[t][i] \in Kept'
<1>1. Accepted' = UNION {{shelf'[r][j] : j \in 1..Len(shelf'[r])} : r \in Ids}
  BY DEF Accepted, Revision, Ids
<1> QED BY <1>1 DEF Kept

LEMMA YieldsMore ==
  ASSUME NEW q, NEW G, NEW H, Yielded(q, G), G \subseteq H
  PROVE  Yielded(q, H)
  BY DEF Yielded

\* What the player changes, he saved over or deleted himself.
LEMMA PlayerYields ==
  ASSUME Sound, ThemeAssumption, Superseded, NEW d \in Devices, NEW t \in Ids, Save(d, t) \/ Delete(d, t)
  PROVE  /\ \A c \in Devices, s \in Ids : Yielded(queue'[c][s], given') /\ PutsOf(queue[c][s]) \subseteq PutsOf(queue'[c][s]) \cup given'
         /\ given \subseteq given' /\ texts' = texts + 1 /\ texts + 1 \in PutsOf(queue'[d][t]) \cup given'
<1> DEFINE q == queue[d][t]
<1>1. /\ q \in Seq(Entry) /\ SoundQueue(q, t) /\ Fits(q, library[d][t]) /\ noted[d][t] \in Noted /\ Yielded(q, given)
      /\ (library[d][t].state = "saved" <=> library[d][t].text # 0)
  BY DEF Sound, TypeOK, QueuesSound, RowsSound, Superseded
<1>2. given \subseteq given' /\ (library[d][t].state = "saved" => library[d][t].text \in given')
  BY <1>1 DEF Save, Delete
<1>3. q # <<>> => library[d][t].state = "saved" /\ LastOf(q).text \in given' /\ LastOf(q).op = "put"
  <2>1. q # <<>> => library[d][t].state = "saved"
    BY <1>1 DEF Save, Delete, Fits, NextUnused, Unused, NoRow
  <2> QED BY <2>1, <1>1, <1>2 DEF Fits
<1>4. ASSUME NEW q2 \in Seq(Entry), queue' = [queue EXCEPT ![d][t] = q2], Yielded(q2, given'), PutsOf(q) \subseteq PutsOf(q2) \cup given'
      PROVE  /\ \A c \in Devices, s \in Ids : Yielded(queue'[c][s], given') /\ PutsOf(queue[c][s]) \subseteq PutsOf(queue'[c][s]) \cup given'
             /\ queue'[d][t] = q2
  <2>1. TypeOK
    BY DEF Sound
  <2>2. /\ queue'[d][t] = q2 /\ \A r \in Ids : r # t => queue'[d][r] = queue[d][r]
        /\ \A b \in Devices : b # d => queue'[b] = queue[b]
    BY <1>4, <2>1, OneQueue, ZenonT(60)
  <2>3. ASSUME NEW c \in Devices, NEW s \in Ids
        PROVE  Yielded(queue'[c][s], given') /\ PutsOf(queue[c][s]) \subseteq PutsOf(queue'[c][s]) \cup given'
    <3>1. CASE c = d /\ s = t
      BY <1>4, <2>2, <3>1
    <3>2. CASE ~(c = d /\ s = t)
      <4>1. queue'[c][s] = queue[c][s] /\ Yielded(queue[c][s], given)
        BY <2>2, <3>2 DEF Superseded
      <4> QED BY <4>1, <1>2, YieldsMore
    <3> QED BY <3>1, <3>2
  <2> QED BY <2>2, <2>3
<1>5. ASSUME NEW q2 \in Seq(Entry), NEW e, Ended(q, q2, e), e.op = "delete" => e.text \in given'
      PROVE  /\ Yielded(q2, given') /\ PutsOf(q) \subseteq PutsOf(q2) \cup given'
             /\ e.op = "put" => e.text \in PutsOf(q2)
  BY <1>1, <1>2, <1>3, <1>5, EndedYields
<1>6. CASE Save(d, t)
  <2>1. PICK k \in Keys : Change(d, t, [state |-> "saved", text |-> texts + 1], PlanPut(q, noted[d][t], t, texts + 1, k))
    BY <1>6 DEF Save
  <2> DEFINE q2 == PlanPut(q, noted[d][t], t, texts + 1, k)
  <2>2. texts' = texts + 1 /\ texts + 1 \in Texts \ {0} /\ queue' = [queue EXCEPT ![d][t] = q2]
    BY <2>1 DEF Change, Sound, TypeOK, Texts, ThemeAssumption
  <2>3. PICK base \in Int, key \in Keys : q2 \in Seq(Entry) /\ Ended(q, q2, Fresh(t, "put", texts + 1, base, key))
    BY <1>1, <2>2, PutEnds
  <2> DEFINE e == Fresh(t, "put", texts + 1, base, key)
  <2>4. e.op = "put" /\ e.text = texts + 1
    BY DEF Fresh
  <2>5. Ended(q, q2, e)
    BY <2>3
  <2> HIDE DEF q2, e, q
  <2>6. /\ Yielded(q2, given') /\ PutsOf(q) \subseteq PutsOf(q2) \cup given' /\ texts + 1 \in PutsOf(q2)
    BY <1>5, <2>3, <2>4, <2>5
  <2> QED BY <1>2, <1>4, <2>2, <2>3, <2>6
<1>7. CASE Delete(d, t)
  <2>1. PICK k \in Keys : Change(d, t, [state |-> "gone", text |-> Gone], PlanDelete(q, noted[d][t], t, texts + 1, k))
    BY <1>7 DEF Delete
  <2> DEFINE q2 == PlanDelete(q, noted[d][t], t, texts + 1, k)
  <2>2. texts' = texts + 1 /\ texts + 1 \in Texts /\ queue' = [queue EXCEPT ![d][t] = q2]
    BY <2>1 DEF Change, Sound, TypeOK, Texts, ThemeAssumption
  <2>3. texts + 1 \in given'
    BY <1>7 DEF Delete
  <2>4. q2 \in Seq(Entry) /\ Yielded(q2, given') /\ PutsOf(q) \subseteq PutsOf(q2) \cup given'
    <3>1. CASE q2 = <<>>
      <4> HIDE DEF q2
      <4>1. q2 \in Seq(Entry) /\ \A i \in 1..Len(q2) : FALSE
        BY <3>1
      <4>2. Yielded(q2, given')
        BY <4>1 DEF Yielded
      <4>3. \A i \in 1..Len(q) : i < Len(q) \/ (q # <<>> /\ q[i] = LastOf(q))
        <5>1. Len(q) \in Nat /\ (q = <<>> <=> Len(q) = 0)
          BY <1>1, EmptyOrNot
        <5> QED BY <5>1 DEF LastOf
      <4>4. PutsOf(q) \subseteq given'
        BY <4>3, <1>1, <1>2, <1>3 DEF PutsOf, Yielded
      <4> QED BY <4>1, <4>2, <4>4
    <3>2. ASSUME NEW base \in Int \ {None}, q2 \in Seq(Entry), Ended(q, q2, Fresh(t, "delete", texts + 1, base, k))
          PROVE  q2 \in Seq(Entry) /\ Yielded(q2, given') /\ PutsOf(q) \subseteq PutsOf(q2) \cup given'
      <4> DEFINE e == Fresh(t, "delete", texts + 1, base, k)
      <4>1. e.op = "delete" /\ e.text = texts + 1
        BY DEF Fresh
      <4>2. Ended(q, q2, e)
        BY <3>2
      <4> HIDE DEF q2, e, q
      <4> QED BY <1>5, <2>3, <3>2, <4>1, <4>2
    <3> HIDE DEF q
    <3> QED BY <3>1, <3>2, <1>1, <2>2, DeleteEnds
  <2> HIDE DEF q2, q
  <2> QED BY <1>2, <1>4, <2>2, <2>3, <2>4
<1> QED BY <1>6, <1>7

\* What a pass takes off a queue is on the server, or was given up, or goes on as a copy.
LEMMA PassYields ==
  ASSUME Sound, ThemeAssumption, NoteInv, Superseded, [Next]_vars, NEW d \in Devices,
         Confirm(d) \/ Refuse(d) \/ Resolve(d)
  PROVE  \A c \in Devices, s \in Ids : Yielded(queue'[c][s], given) /\ PutsOf(queue[c][s]) \subseteq Kept'
<1> DEFINE t == flight[d].id  q == queue[d][t]
<1>1. /\ t \in Ids /\ q = Mine(d) /\ q # <<>> /\ SoundQueue(q, t) /\ Fits(q, library[d][t]) /\ flight[d] = q[1]
      /\ flight[d].tries \in 0..(Tries + 1) /\ Yielded(q, given) /\ given' = given
  <2>1. place[d] = "settle" /\ given' = given
    BY DEF Confirm, Refuse, Resolve, Contested, Answered, At, player
  <2>2. t \in Ids
    BY <2>1, AtSettle
  <2> QED BY <2>1, <2>2, AtSettle DEF Mine, Superseded
<1>2. given \subseteq Kept'
  BY <1>1 DEF Kept
<1>3. \A c \in Devices, s \in Ids : queue'[c][s] = queue[c][s] =>
        Yielded(queue'[c][s], given) /\ PutsOf(queue[c][s]) \subseteq Kept'
  BY QueuedNext DEF Superseded
<1>4. ASSUME NEW q2 \in Seq(Entry), SetMine(d, q2), Yielded(q2, given), PutsOf(q) \subseteq PutsOf(q2) \cup Kept'
      PROVE  \A c \in Devices, s \in Ids : Yielded(queue'[c][s], given) /\ PutsOf(queue[c][s]) \subseteq Kept'
  <2>1. queue \in [Devices -> [Ids -> Seq(Entry)]]
    BY DEF Sound, TypeOK
  <2>2. queue' = [queue EXCEPT ![d][t] = q2]
    BY <1>4 DEF SetMine
  <2>3. /\ queue'[d][t] = q2 /\ \A r \in Ids : r # t => queue'[d][r] = queue[d][r]
        /\ \A b \in Devices : b # d => queue'[b] = queue[b]
    BY <2>1, <2>2, <1>1
  <2>4. PutsOf(q2) \subseteq Kept'
    BY <2>3, <1>1, QueuedNext
  <2> SUFFICES ASSUME NEW c \in Devices, NEW s \in Ids
               PROVE  Yielded(queue'[c][s], given) /\ PutsOf(queue[c][s]) \subseteq Kept'
    OBVIOUS
  <2>5. CASE c = d /\ s = t
    BY <1>4, <2>3, <2>4, <2>5
  <2>6. CASE ~(c = d /\ s = t)
    BY <1>3, <2>3, <2>6
  <2> QED BY <2>5, <2>6
<1>5. q[1].op = "put" \/ q[1].text \in given
  <2>1. q \in Seq(Entry) /\ 1 \in 1..Len(q) /\ q[1] \in Entry
    BY <1>1, EmptyOrNot DEF SoundQueue
  <2> QED BY <2>1, <1>1 DEF Yielded, Entry
<1> HIDE DEF t, q
<1>6. CASE Confirm(d)
  <2> DEFINE a == answer[d]  live == a.text # Gone  rev == a.revision  q2 == Following(q, live, rev)
  <2>1. place[d] = "settle" /\ Confirms(flight[d], a) /\ SetMine(d, q2) /\ Answered(d, {"ok", "conflict"})
    BY <1>1, <1>6 DEF Confirm, Answered, At
  <2>2. Stood(t, a.revision, a.text) /\ (a.kind = "ok" => a.text = After(flight[d]))
    BY <2>1 DEF NoteInv, AnswersStand, Answered, At, t
  <2>3. q[1].text \in Kept'
    <3>1. CASE q[1].op = "put"
      <4>1. a.text = q[1].text
        BY <3>1, <2>1, <2>2, <1>1 DEF Confirms, After
      <4>2. a.revision \in 1..Len(shelf'[t]) /\ shelf'[t][a.revision] = a.text
        BY <2>2, <1>1, StoodStays
      <4> QED BY <4>1, <4>2, <1>1, AcceptedNext
    <3>2. CASE q[1].text \in given
      BY <3>2, <1>2
    <3> QED BY <3>1, <3>2, <1>5
  <2>4. live \in BOOLEAN /\ rev \in Nat /\ (live => rev >= 1)
    <3>1. a \in Answer /\ a.revision \in 1..Len(shelf'[t])
      BY <2>1, <2>2, <1>1, AtSettle, StoodStays
    <3> QED BY <3>1 DEF Answer
  <2> HIDE DEF a, live, rev
  <2>5. q2 \in Seq(Entry)
    <3>1. SoundQueue(q2, t)
      BY <2>4, <1>1, FollowingSound
    <3> QED BY <3>1 DEF SoundQueue
  <2>6. Yielded(q2, given) /\ PutsOf(q) \subseteq PutsOf(q2) \cup {q[1].text} \cup given
    BY <2>4, <1>1, FollowingYields
  <2> HIDE DEF q2
  <2> QED BY <1>2, <1>4, <2>1, <2>3, <2>5, <2>6
<1>7. CASE Refuse(d)
  <2> DEFINE hold == IF answer[d].kind = "full" THEN "library-full" ELSE "invalid"
  <2>1. PICK k \in Keys : SetMine(d, PlanRefused(q, hold, flight[d].tries, k))
    BY <1>1, <1>7 DEF Refuse
  <2>2. hold \in Holds
    BY DEF Holds
  <2> HIDE DEF hold
  <2> DEFINE q2 == PlanRefused(q, hold, flight[d].tries, k)
  <2>3. q2 \in Seq(Entry)
    <3>1. SoundQueue(q2, t)
      BY <2>2, <1>1, RefusedSound
    <3> QED BY <3>1 DEF SoundQueue
  <2>4. Yielded(q2, given) /\ PutsOf(q) \subseteq PutsOf(q2) \cup given
    BY <2>2, <1>1, RefusedYields
  <2>5. SetMine(d, q2)
    BY <2>1
  <2> HIDE DEF q2
  <2> QED BY <1>2, <1>4, <2>3, <2>4, <2>5
<1>8. CASE Resolve(d)
  <2>1. /\ queue'[d][t] = <<>> /\ \A b \in Devices : b # d => queue'[b] = queue[b]
        /\ \/ ~Copied(d) /\ \A r \in Ids : r # t => queue'[d][r] = queue[d][r]
           \/ Copied(d) /\ \E n \in Ids, k \in Keys : CopyMade(d, t, n, k)
        /\ library[d][t] = seen[d]
    BY <1>8, ResolveLeaves DEF t, Resolve, Stale
  <2>2. Yielded(queue'[d][t], given)
    <3>1. \A i \in 1..Len(<<>>) : FALSE
      OBVIOUS
    <3> QED BY <2>1, <3>1 DEF Yielded
  <2>3. /\ \A i \in 1..Len(q) : i < Len(q) \/ q[i] = LastOf(q)
        /\ Len(q) > 1 => q[1].op = "put"
        /\ Len(q) = 1 => LastOf(q) = q[1]
        /\ Len(q) > 1 \/ Len(q) = 1
    <3>1. Len(q) \in Nat /\ Len(q) # 0
      BY <1>1, EmptyOrNot DEF SoundQueue
    <3>2. \A i \in 1..(Len(q) - 1) : q[i].op = "put"
      BY <1>1 DEF SoundQueue
    <3>3. \A n \in Nat : n > 1 => 1 \in 1..(n - 1)
      OBVIOUS
    <3>4. Len(q) > 1 => q[1].op = "put"
      BY <3>1, <3>2, <3>3
    <3>5. \A i \in 1..Len(q) : i < Len(q) \/ i = Len(q)
      BY <3>1
    <3>6. Len(q) > 1 \/ Len(q) = 1
      BY <3>1
    <3> QED BY <3>4, <3>5, <3>6 DEF LastOf
  <2>4. LastOf(q).op = "put" => Copied(d) /\ library[d][t].text = LastOf(q).text
    BY <1>1, <2>1, <2>3 DEF Copied, Fits
  <2>5. ASSUME NEW n \in Ids, NEW k \in Keys, CopyMade(d, t, n, k)
        PROVE  /\ Yielded(queue'[d][n], given) /\ library[d][t].text \in Kept' /\ PutsOf(queue[d][n]) \subseteq Kept'
               /\ \A r \in Ids : r # t /\ r # n => queue'[d][r] = queue[d][r]
    <3> DEFINE e == Fresh(n, "put", library[d][t].text, None, k)
    <3>1. e.op = "put" /\ e.text = library[d][t].text
      BY DEF Fresh
    <3>2. queue'[d][n] = <<e>> /\ queue[d][n] = <<>> /\ \A r \in Ids : r # t /\ r # n => queue'[d][r] = queue[d][r]
      BY <2>5 DEF CopyMade
    <3> HIDE DEF e
    <3>3. Len(<<e>>) = 1 /\ <<e>>[1] = e /\ 1 \in 1..Len(<<e>>) /\ \A i \in 1..Len(<<>>) : FALSE
      OBVIOUS
    <3>4. Yielded(<<e>>, given) /\ e.text \in PutsOf(<<e>>) /\ PutsOf(<<>>) = {}
      BY <3>1, <3>3 DEF Yielded, PutsOf
    <3>5. e.text \in Kept'
      BY <3>2, <3>4, QueuedNext
    <3> QED BY <3>1, <3>2, <3>4, <3>5
  <2>6. PutsOf(q) \subseteq Kept'
    <3> SUFFICES ASSUME NEW i \in 1..Len(q), q[i].op = "put" PROVE q[i].text \in Kept'
      BY DEF PutsOf
    <3>1. CASE i < Len(q)
      BY <3>1, <1>1, <1>2 DEF Yielded
    <3>2. CASE q[i] = LastOf(q)
      BY <3>2, <2>1, <2>4, <2>5
    <3> QED BY <3>1, <3>2, <2>3
  <2> SUFFICES ASSUME NEW c \in Devices, NEW s \in Ids
               PROVE  Yielded(queue'[c][s], given) /\ PutsOf(queue[c][s]) \subseteq Kept'
    OBVIOUS
  <2>7. CASE queue'[c][s] = queue[c][s]
    BY <1>3, <2>7
  <2>8. CASE c = d /\ s = t
    BY <2>2, <2>6, <2>8 DEF q
  <2>9. ASSUME c = d, NEW n \in Ids, NEW k \in Keys, CopyMade(d, t, n, k), s # t
        PROVE  Yielded(queue'[c][s], given) /\ PutsOf(queue[c][s]) \subseteq Kept'
    <3>1. CASE s = n
      BY <2>5, <2>9, <3>1
    <3>2. CASE s # n
      BY <1>3, <2>5, <2>9, <3>2
    <3> QED BY <3>1, <3>2
  <2> QED BY <2>1, <2>7, <2>8, <2>9
<1> QED BY <1>6, <1>7, <1>8

\* Only the player makes texts, and gives them up.
LEMMA PlayerMoves ==
  ASSUME Sound, ThemeAssumption, [Next]_vars
  PROVE  (\E d \in Devices, t \in Ids : Save(d, t) \/ Delete(d, t)) \/ UNCHANGED <<texts, over, given>>
<1>1. ASSUME NEW d \in Devices, Step(d) PROVE UNCHANGED <<texts, over, given>>
  <2>1. CASE Page(d)
    BY <2>1, PageGoes
  <2> QED BY <1>1, <2>1 DEF Step, Mark, Serve, Confirm, Resend, Resolve, Refuse, Retry, Pause, Ask, player
<1>2. ASSUME NEW d \in Devices, Rouse(d) \/ Pick(d) \/ Close(d) \/ Unanswered(d, "error") \/ Unanswered(d, "pause")
      PROVE  UNCHANGED <<texts, over, given>>
  BY <1>2 DEF Rouse, Pick, Close, Unanswered, player
<1>3. ASSUME (\E e \in stray : Straggle(e)) \/ (\E r \in receipts : Expire(r)) \/ UNCHANGED vars
      PROVE  UNCHANGED <<texts, over, given>>
  BY <1>3 DEF Straggle, Expire, vars, player
<1> QED BY <1>1, <1>2, <1>3 DEF Next

LEMMA SaveStep == Sound /\ NoteInv /\ Superseded /\ NoSaveLost /\ [Next]_vars => Superseded' /\ NoSaveLost'
<1> SUFFICES ASSUME Sound, NoteInv, Superseded, NoSaveLost, [Next]_vars PROVE Superseded' /\ NoSaveLost'
  OBVIOUS
<1> USE ThemeAssumption
<1>1. CASE \E d \in Devices, t \in Ids : Save(d, t) \/ Delete(d, t)
  <2>1. PICK d \in Devices, t \in Ids : Save(d, t) \/ Delete(d, t)
    BY <1>1
  <2>2. /\ \A c \in Devices, s \in Ids : Yielded(queue'[c][s], given') /\ PutsOf(queue[c][s]) \subseteq PutsOf(queue'[c][s]) \cup given'
        /\ given \subseteq given' /\ texts' = texts + 1 /\ texts + 1 \in PutsOf(queue'[d][t]) \cup given'
    BY <2>1, PlayerYields
  <2>3. given' \subseteq Kept' /\ \A c \in Devices, s \in Ids : PutsOf(queue'[c][s]) \subseteq Kept'
    BY QueuedNext DEF Kept
  <2>4. NoSaveLost'
    BY <2>2, <2>3, KeptNext
  <2>5. Superseded'
    BY <2>2 DEF Superseded, Ids, Yielded
  <2> QED BY <2>4, <2>5
<1>2. ASSUME \A c \in Devices, s \in Ids : Yielded(queue'[c][s], given) /\ PutsOf(queue[c][s]) \subseteq Kept',
             UNCHANGED <<texts, given>>
      PROVE  Superseded' /\ NoSaveLost'
  <2>1. NoSaveLost'
    BY <1>2, KeptNext
  <2>2. Superseded'
    BY <1>2 DEF Superseded, Ids, Yielded
  <2> QED BY <2>1, <2>2
<1>3. ASSUME \A d \in Devices, t \in Ids : Alike(queue[d][t], queue'[d][t])
      PROVE  \A c \in Devices, s \in Ids : Yielded(queue'[c][s], given) /\ PutsOf(queue[c][s]) \subseteq Kept'
  <2> TAKE c \in Devices, s \in Ids
  <2>1. Yielded(queue'[c][s], given) /\ PutsOf(queue'[c][s]) = PutsOf(queue[c][s])
    BY <1>3, AlikeYields DEF Superseded
  <2> QED BY <2>1, QueuedNext
<1>4. ASSUME NEW d \in Devices, Page(d) PROVE \A c \in Devices, t \in Ids : Alike(queue[c][t], queue'[c][t])
  <2>1. CASE queue' = queue
    BY <2>1, AlikeItself
  <2>2. CASE Finish(d, listed[d].live)
    <3>1. \A t \in Ids : Alike(queue[d][t], queue'[d][t])
      BY <2>2, FinishLeaves
    <3>2. \A c \in Devices : c # d => queue'[c] = queue[c]
      BY <2>2, FinishLeaves
    <3> QED BY <3>1, <3>2, AlikeItself
  <2> QED BY <1>4, <2>1, <2>2, PageGoes
<1> QED BY <1>1, <1>2, <1>3, <1>4, RowSteps, PassYields, PlayerMoves

\* Whatever a player saved is on the server, is queued, or was saved over or deleted by
\* himself: no answer, refusal, conflict or pull drops the last copy of it.
THEOREM SavesCorrect == Spec => []NoSaveLost
<1>1. Init => Superseded /\ NoSaveLost
  <2> SUFFICES ASSUME Init PROVE Superseded /\ NoSaveLost
    OBVIOUS
  <2>1. 1..texts = {}
    BY DEF Init
  <2>2. Superseded
    BY DEF Init, Superseded, Yielded
  <2> QED BY <2>1, <2>2 DEF NoSaveLost
<1> QED BY <1>1, SaveStep, AlwaysSound, AlwaysNoted, PTL DEF Spec

-----------------------------------------------------------------------------
(* A save is one revision.                                                 *)

\* No text is known before it is made.
TextsMade ==
  /\ \A t \in Ids : \A n \in 1..Len(shelf[t]) : shelf[t][n] <= texts
  /\ \A d \in Devices, t \in Ids : library[d][t].text <= texts
  /\ \A d \in Devices, t \in Ids : \A i \in 1..Len(queue[d][t]) :
       queue[d][t][i].op = "put" => queue[d][t][i].text <= texts
  /\ \A e \in stray : e.op = "put" => e.text <= texts

\* A request nobody waits for is of a theme some device holds, if only as gone.
StrayKnown == \A e \in stray : \E d \in Devices : library[d][e.id].state # "none"

\* Two changes that save the same.
Saves(e, x)  == e.op = "put" /\ e.text = x
Twice(e, f)  == e.op = "put" /\ f.op = "put" /\ e.text = f.text
PutsApart(q) == \A i, j \in 1..Len(q) : i # j => ~Twice(q[i], q[j])

\* A theme's text is queued once.
TextsApart ==
  /\ \A d \in Devices, t \in Ids : PutsApart(queue[d][t])
  /\ \A d, c \in Devices, t \in Ids : d # c =>
       \A i \in 1..Len(queue[d][t]), j \in 1..Len(queue[c][t]) : ~Twice(queue[d][t][i], queue[c][t][j])

\* A save that is queued, or on its way, after it was written was made over an earlier revision.
Behind(e, sh) == \A n \in 1..Len(sh) : Saves(e, sh[n]) => e.base < n
QueuedBehind ==
  \A d \in Devices, t \in Ids : \A i \in 1..Len(queue[d][t]) :
    /\ Behind(queue[d][t][i], shelf[t])
    /\ ~queue[d][t][i].sent => \A n \in 1..Len(shelf[t]) : ~Saves(queue[d][t][i], shelf[t][n])

\* What has left was made over an earlier revision than any it was written as, and over
\* the same one wherever else it is.
Lasts(e) ==
  /\ Behind(e, shelf[e.id])
  /\ \A d \in Devices : \A i \in 1..Len(queue[d][e.id]) :
       Twice(e, queue[d][e.id][i]) => queue[d][e.id][i].sent /\ queue[d][e.id][i].base = e.base
  /\ \A f \in stray : f.id = e.id /\ Twice(e, f) => f.base = e.base
StrayLasts == \A e \in stray : Lasts(e)

TextInv == TextsMade /\ StrayKnown /\ TextsApart /\ QueuedBehind /\ StrayLasts /\ AppliedOnce

\* The same save, over the same revision once it has left.
Carries(e, f) == Twice(e, f) /\ (e.sent => f.sent /\ f.base = e.base)

\* What a queue saves it saved before, or is one of these texts.
Retold(q, q2, N) ==
  /\ PutsApart(q2)
  /\ \A j \in 1..Len(q2) : q2[j].op = "put" =>
       \/ q2[j].text \in N /\ ~q2[j].sent
       \/ \E i \in 1..Len(q) : Carries(q[i], q2[j])

Untold(x, q) == \A i \in 1..Len(q) : ~Saves(q[i], x)

LEMMA EmptyRetold == ASSUME NEW q, NEW N PROVE Retold(q, <<>>, N)
  BY DEF Retold, PutsApart

LEMMA AlikeRetold ==
  ASSUME NEW q, NEW q2, PutsApart(q), Alike(q, q2), NEW N
  PROVE  Retold(q, q2, N)
<1>1. Len(q2) = Len(q) /\ \A i \in 1..Len(q) : q2[i].op = q[i].op /\ q2[i].text = q[i].text
  BY DEF Alike, Same
<1>2. \A i \in 1..Len(q) : q2[i].op = "put" => Carries(q[i], q2[i])
  BY DEF Alike, Same, Carries, Twice
<1>3. PutsApart(q2)
  BY <1>1 DEF PutsApart, Twice
<1> QED BY <1>1, <1>2, <1>3 DEF Retold

LEMMA EndedRetold ==
  ASSUME NEW q \in Seq(Entry), NEW q2 \in Seq(Entry), NEW e, NEW N, PutsApart(q), Ended(q, q2, e), ~e.sent,
         e.op = "put" => e.text \in N /\ Untold(e.text, q)
  PROVE  Retold(q, q2, N)
<1>1. Len(q) \in Nat /\ Len(q2) \in Nat
  BY EmptyOrNot
<1>2. \A j \in 1..Len(q2) : (j = Len(q2) /\ q2[j] = e) \/ (j \in 1..Len(q) /\ q2[j] = q[j])
  <2>1. CASE Len(q2) = Len(q) + 1 /\ q2[Len(q2)] = e /\ \A i \in 1..Len(q) : q2[i] = q[i]
    BY <2>1, <1>1
  <2>2. CASE Len(q) > 0 /\ Len(q2) = Len(q) /\ q2[Len(q2)] = e /\ \A i \in 1..(Len(q) - 1) : q2[i] = q[i]
    BY <2>2, <1>1
  <2> QED BY <2>1, <2>2 DEF Ended
<1>3. PutsApart(q2)
  <2> SUFFICES ASSUME NEW i \in 1..Len(q2), NEW j \in 1..Len(q2), i # j, Twice(q2[i], q2[j]) PROVE FALSE
    BY DEF PutsApart
  <2>1. CASE i = Len(q2) /\ q2[i] = e
    BY <1>2, <2>1 DEF Twice, Untold, Saves
  <2>2. CASE j = Len(q2) /\ q2[j] = e
    BY <1>2, <2>2 DEF Twice, Untold, Saves
  <2>3. CASE i \in 1..Len(q) /\ q2[i] = q[i] /\ j \in 1..Len(q) /\ q2[j] = q[j]
    BY <2>3 DEF PutsApart
  <2> QED BY <1>2, <2>1, <2>2, <2>3
<1>4. \A j \in 1..Len(q2) : q2[j].op = "put" => (q2[j].text \in N /\ ~q2[j].sent) \/ \E i \in 1..Len(q) : Carries(q[i], q2[j])
  BY <1>2 DEF Carries, Twice
<1> QED BY <1>3, <1>4 DEF Retold

LEMMA FollowingRetold ==
  ASSUME NEW t \in Ids, NEW q, SoundQueue(q, t), q # <<>>, PutsApart(q), NEW live \in BOOLEAN, NEW rev \in Nat, NEW N
  PROVE  Retold(q, Following(q, live, rev), N)
<1> DEFINE q2 == Following(q, live, rev)
           e == Based(q[2], IF live THEN rev ELSE None)
<1> HIDE DEF q2, e
<1>1. CASE q2 = <<>>
  BY <1>1, EmptyRetold DEF q2
<1>2. CASE /\ q2 \in Seq(Entry) /\ Len(q2) = Len(q) - 1 /\ Len(q) > 1
           /\ q2[1] = e /\ \A i \in 2..Len(q2) : q2[i] = q[i + 1]
  <2>1. q \in Seq(Entry) /\ Len(q) \in Nat
    BY EmptyOrNot DEF SoundQueue
  <2>2. \A i \in 1..Len(q2) : i + 1 \in 1..Len(q) /\ i + 1 \in 2..Len(q) /\ (i = 1 \/ q2[i] = q[i + 1])
    BY <2>1, <1>2
  <2>3. q[2] \in Entry /\ 2 \in 2..Len(q)
    BY <2>1, <1>2
  <2>4. e.op = q[2].op /\ e.text = q[2].text
    <3> DEFINE base == IF live THEN rev ELSE None
    <3>1. base \in Int
      BY DEF None
    <3> HIDE DEF base
    <3>2. Based(q[2], base).op = q[2].op /\ Based(q[2], base).text = q[2].text
      BY <2>3, <3>1, BasedIsEntry
    <3> QED BY <3>2 DEF e, base
  <2>5. \A i \in 1..Len(q2) : q2[i].op = q[i + 1].op /\ q2[i].text = q[i + 1].text
    BY <2>2, <2>4, <1>2
  <2>6. \A i \in 1..Len(q2) : ~q[i + 1].sent
    BY <2>2 DEF SoundQueue, Unsent
  <2>7. PutsApart(q2)
    <3>1. \A i, j \in 1..Len(q2) : i # j => i + 1 # j + 1
      BY <2>1, <1>2
    <3> QED BY <2>2, <2>5, <3>1 DEF PutsApart, Twice
  <2>8. \A i \in 1..Len(q2) : q2[i].op = "put" => Carries(q[i + 1], q2[i])
    BY <2>5, <2>6 DEF Carries, Twice
  <2> QED BY <2>2, <2>7, <2>8 DEF Retold, q2
<1> QED BY <1>1, <1>2, FollowingLeaves DEF q2, e

LEMMA RefusedRetold ==
  ASSUME ThemeAssumption, NEW t \in Ids, NEW q, SoundQueue(q, t), q # <<>>, PutsApart(q), NEW hold \in Holds,
         NEW tries \in 0..(Tries + 1), NEW k \in Keys, NEW N
  PROVE  Retold(q, PlanRefused(q, hold, tries, k), N)
<1> DEFINE q2 == PlanRefused(q, hold, tries, k)
           e == Fresh(t, LastOf(q).op, LastOf(q).text, q[1].base, k)
<1>1. e.op = LastOf(q).op /\ e.text = LastOf(q).text
  BY DEF Fresh
<1> HIDE DEF q2, e
<1>2. CASE q2 = MarkedAs(q, tries, hold)
  <2>1. Alike(q, q2)
    BY <1>2, MarkedAlike
  <2> QED BY <2>1, AlikeRetold DEF q2
<1>3. CASE q2 = <<>>
  BY <1>3, EmptyRetold DEF q2
<1>4. CASE Len(q) > 1 /\ Len(q2) = 1 /\ q2[1] = e
  <2>1. Len(q) \in Nat /\ Len(q) \in 2..Len(q) /\ Len(q) \in 1..Len(q)
    BY <1>4, EmptyOrNot DEF SoundQueue
  <2>2. ~q[Len(q)].sent
    BY <2>1 DEF SoundQueue, Unsent
  <2>3. e.op = "put" => Carries(q[Len(q)], e)
    BY <2>2, <1>1 DEF Carries, Twice, LastOf
  <2>4. \A j \in 1..Len(q2) : j = 1 /\ q2[j] = e
    BY <1>4
  <2>5. PutsApart(q2)
    BY <2>4 DEF PutsApart
  <2> QED BY <2>1, <2>3, <2>4, <2>5 DEF Retold, q2
<1> QED BY <1>2, <1>3, <1>4, RefusedLeaves DEF q2, e

\* No theme `t` holds, queues or awaits the text `x`.
Unsaid(t, x) ==
  /\ \A n \in 1..Len(shelf[t]) : shelf[t][n] # x
  /\ \A e \in stray : e.id = t => ~Saves(e, x)
  /\ \A c \in Devices : Untold(x, queue[c][t])

LEMMA OneRetold ==
  ASSUME Sound, TextsApart, NEW d \in Devices, NEW t \in Ids, NEW q \in Seq(Entry), NEW N,
         queue' = [queue EXCEPT ![d][t] = q], Retold(queue[d][t], q, N)
  PROVE  \A c \in Devices, s \in Ids : Retold(queue[c][s], queue'[c][s], NewIn(d, t, N, c, s))
<1> TAKE c \in Devices, s \in Ids
<1>1. /\ queue'[d][t] = q /\ \A r \in Ids : r # t => queue'[d][r] = queue[d][r]
      /\ \A b \in Devices : b # d => queue'[b] = queue[b]
  BY OneQueue, ZenonT(60) DEF Sound
<1>2. CASE c = d /\ s = t
  BY <1>1, <1>2 DEF NewIn
<1>3. CASE ~(c = d /\ s = t)
  <2>1. queue'[c][s] = queue[c][s] /\ PutsApart(queue[c][s])
    BY <1>1, <1>3 DEF TextsApart
  <2> QED BY <2>1, AlikeItself, AlikeRetold
<1> QED BY <1>2, <1>3

\* The player's next text is said nowhere.
LEMMA NextUnsaid ==
  ASSUME Sound, ThemeAssumption, TextsMade, NEW t \in Ids
  PROVE  Unsaid(t, texts + 1)
<1>1. texts \in Nat
  BY DEF Sound, TypeOK, Texts, ThemeAssumption
<1>2. \A n \in 1..Len(shelf[t]) : shelf[t][n] # texts + 1
  <2>1. shelf[t] \in Seq(Texts)
    BY DEF Sound, TypeOK
  <2>2. \A n \in 1..Len(shelf[t]) : shelf[t][n] \in Texts
    BY <2>1
  <2> QED BY <1>1, <2>2 DEF TextsMade, Texts, ThemeAssumption
<1>3. \A e \in stray : ~Saves(e, texts + 1)
  <2>1. \A e \in stray : e.text \in Texts
    BY DEF Sound, TypeOK, Entry
  <2> QED BY <1>1, <2>1 DEF TextsMade, Saves, Texts, ThemeAssumption
<1>4. ASSUME NEW c \in Devices PROVE Untold(texts + 1, queue[c][t])
  <2>1. queue[c][t] \in Seq(Entry)
    BY DEF Sound, TypeOK
  <2>2. \A i \in 1..Len(queue[c][t]) : queue[c][t][i].text \in Texts
    <3> SUFFICES ASSUME NEW i \in 1..Len(queue[c][t])
                 PROVE  queue[c][t][i].text \in Texts
      OBVIOUS
    <3>1. queue[c][t][i] \in Entry
      BY <2>1, ElementOfSeq
    <3> QED BY <3>1 DEF Entry
  <2> QED BY <1>1, <2>2 DEF TextsMade, Untold, Saves, Texts, ThemeAssumption
<1> QED BY <1>2, <1>3, <1>4 DEF Unsaid

\* Of a theme nobody has had, nothing is said.
LEMMA UnusedUnsaid ==
  ASSUME Sound, StrayKnown, NEW t \in Ids, Unused(t), NEW x
  PROVE  Unsaid(t, x)
<1>1. Len(shelf[t]) = 0
  BY DEF Unused
<1>2. \A e \in stray : e.id # t
  BY DEF StrayKnown, Unused, NoRow
<1>3. ASSUME NEW c \in Devices PROVE queue[c][t] = <<>>
  <2>1. Fits(queue[c][t], library[c][t]) /\ library[c][t] = NoRow
    BY DEF Sound, QueuesSound, Unused
  <2> QED BY <2>1 DEF Fits, NoRow
<1> QED BY <1>1, <1>2, <1>3 DEF Unsaid, Untold

\* A text that is new to a theme was said of it nowhere, and nothing else is touched then.
NewText(d, t, x) ==
  /\ UNCHANGED <<shelf, stray>> /\ Unsaid(t, x) /\ x <= texts'
  /\ \A c \in Devices, s \in Ids : Retold(queue[c][s], queue'[c][s], NewIn(d, t, {x}, c, s))

LEMMA TextsMove ==
  ASSUME Sound, ThemeAssumption, TextInv, [Next]_vars
  PROVE  \/ \A c \in Devices, s \in Ids : Retold(queue[c][s], queue'[c][s], {})
         \/ \E d \in Devices, t \in Ids, x \in Texts : NewText(d, t, x)
<1>1. \A c \in Devices, s \in Ids : SoundQueue(queue[c][s], s) /\ PutsApart(queue[c][s]) /\ noted[c][s] \in Noted
                                    /\ queue[c][s] \in Seq(Entry)
  BY DEF Sound, QueuesSound, TypeOK, TextInv, TextsApart
<1>2. CASE \A c \in Devices, s \in Ids : Alike(queue[c][s], queue'[c][s])
  BY <1>1, <1>2, AlikeRetold
<1>3. ASSUME NEW d \in Devices, NEW t \in Ids, NEW q \in Seq(Entry), NEW N,
             Retold(queue[d][t], q, N), queue' = [queue EXCEPT ![d][t] = q]
      PROVE  \A c \in Devices, s \in Ids : Retold(queue[c][s], queue'[c][s], NewIn(d, t, N, c, s))
  BY <1>3, OneRetold DEF TextInv
<1>4. \A d, t, c, s : NewIn(d, t, {}, c, s) = {}
  BY DEF NewIn
<1>5. ASSUME NEW d \in Devices, NEW t \in Ids, Save(d, t)
      PROVE  NewText(d, t, texts + 1) /\ texts + 1 \in Texts
  <2>1. PICK k \in Keys : Change(d, t, [state |-> "saved", text |-> texts + 1],
                                 PlanPut(queue[d][t], noted[d][t], t, texts + 1, k))
    BY <1>5 DEF Save
  <2> DEFINE q == PlanPut(queue[d][t], noted[d][t], t, texts + 1, k)
  <2>2. texts \in Nat /\ texts + 1 \in Texts \ {0}
    BY <2>1 DEF Change, Sound, TypeOK, Texts, ThemeAssumption
  <2>3. Unsaid(t, texts + 1)
    BY NextUnsaid DEF TextInv
  <2>4. PICK base \in Int, key \in Keys : q \in Seq(Entry) /\ Ended(queue[d][t], q, Fresh(t, "put", texts + 1, base, key))
    BY <1>1, <2>2, PutEnds
  <2>5. queue' = [queue EXCEPT ![d][t] = q] /\ UNCHANGED <<shelf, stray>> /\ texts' = texts + 1
    BY <2>1 DEF Change, server
  <2> HIDE DEF q
  <2> DEFINE e == Fresh(t, "put", texts + 1, base, key)
  <2>6. ~e.sent /\ e.text = texts + 1
    BY DEF Fresh
  <2> HIDE DEF e
  <2>7. Retold(queue[d][t], q, {texts + 1})
    <3>1. Untold(e.text, queue[d][t]) /\ Ended(queue[d][t], q, e)
      BY <2>3, <2>4, <2>6 DEF Unsaid, e
    <3> QED BY <1>1, <2>4, <2>6, <3>1, EndedRetold
  <2>8. \A c \in Devices, s \in Ids : Retold(queue[c][s], queue'[c][s], NewIn(d, t, {texts + 1}, c, s))
    BY <1>3, <2>4, <2>5, <2>7
  <2>9. texts + 1 <= texts'
    BY <2>2, <2>5
  <2> QED BY <2>2, <2>3, <2>5, <2>8, <2>9 DEF NewText
<1>6. ASSUME NEW d \in Devices, NEW t \in Ids, Delete(d, t)
      PROVE  \A c \in Devices, s \in Ids : Retold(queue[c][s], queue'[c][s], {})
  <2>1. PICK k \in Keys : Change(d, t, [state |-> "gone", text |-> Gone],
                                 PlanDelete(queue[d][t], noted[d][t], t, texts + 1, k))
    BY <1>6 DEF Delete
  <2> DEFINE q == PlanDelete(queue[d][t], noted[d][t], t, texts + 1, k)
  <2>2. texts + 1 \in Texts
    BY <2>1 DEF Change, Sound, TypeOK, Texts, ThemeAssumption
  <2>3. \/ q = <<>>
        \/ \E base \in Int : q \in Seq(Entry) /\ Ended(queue[d][t], q, Fresh(t, "delete", texts + 1, base, k))
    BY <1>1, <2>2, DeleteEnds
  <2>4. queue' = [queue EXCEPT ![d][t] = q]
    BY <2>1 DEF Change
  <2> HIDE DEF q
  <2>5. Retold(queue[d][t], q, {}) /\ q \in Seq(Entry)
    <3>1. CASE q = <<>>
      <4>1. <<>> \in Seq(Entry)
        OBVIOUS
      <4> QED BY <3>1, <4>1, EmptyRetold
    <3>2. ASSUME NEW base \in Int, q \in Seq(Entry), Ended(queue[d][t], q, Fresh(t, "delete", texts + 1, base, k))
          PROVE  Retold(queue[d][t], q, {})
      <4> DEFINE e == Fresh(t, "delete", texts + 1, base, k)
      <4>1. ~e.sent /\ e.op = "delete"
        BY DEF Fresh
      <4> HIDE DEF e
      <4>2. Ended(queue[d][t], q, e)
        BY <3>2 DEF e
      <4> QED BY <1>1, <3>2, <4>1, <4>2, EndedRetold
    <3> QED BY <2>3, <3>1, <3>2
  <2>6. \A c \in Devices, s \in Ids : Retold(queue[c][s], queue'[c][s], NewIn(d, t, {}, c, s))
    BY <1>3, <2>4, <2>5
  <2> QED BY <1>4, <2>6
<1>7. ASSUME NEW d \in Devices, Confirm(d)
      PROVE  \A c \in Devices, s \in Ids : Retold(queue[c][s], queue'[c][s], {})
  <2> DEFINE t == flight[d].id  live == answer[d].text # Gone  rev == answer[d].revision
             q == Following(Mine(d), live, rev)
  <2>1. place[d] = "settle" /\ answer[d].kind \in {"ok", "conflict"} /\ queue' = [queue EXCEPT ![d][t] = q]
    BY <1>7 DEF Confirm, Answered, At, SetMine
  <2>2. t \in Ids /\ Mine(d) # <<>> /\ SoundQueue(Mine(d), t) /\ rev \in Nat /\ (live => rev >= 1)
    BY <2>1, AtSettle DEF Sound, AnswersSound, Answer
  <2>3. live \in BOOLEAN /\ Mine(d) = queue[d][t] /\ PutsApart(Mine(d))
    BY <1>1, <2>2 DEF Mine
  <2> HIDE DEF t, live, rev
  <2>4. Retold(queue[d][t], q, {}) /\ q \in Seq(Entry)
    <3>1. Retold(Mine(d), q, {})
      BY <2>2, <2>3, FollowingRetold
    <3>2. SoundQueue(q, t)
      BY <2>2, <2>3, FollowingSound
    <3> QED BY <3>1, <3>2, <2>3 DEF SoundQueue
  <2> HIDE DEF q
  <2>5. \A c \in Devices, s \in Ids : Retold(queue[c][s], queue'[c][s], NewIn(d, t, {}, c, s))
    BY <2>1, <2>2, <2>4, <1>3
  <2> QED BY <1>4, <2>5
<1>8. ASSUME NEW d \in Devices, Refuse(d)
      PROVE  \A c \in Devices, s \in Ids : Retold(queue[c][s], queue'[c][s], {})
  <2> DEFINE t == flight[d].id  hold == IF answer[d].kind = "full" THEN "library-full" ELSE "invalid"
  <2>1. place[d] = "settle"
    BY <1>8 DEF Refuse, Answered, At
  <2>2. PICK k \in Keys : SetMine(d, PlanRefused(Mine(d), hold, flight[d].tries, k))
    BY <1>8 DEF Refuse
  <2>3. t \in Ids /\ Mine(d) # <<>> /\ SoundQueue(Mine(d), t) /\ flight[d].tries \in 0..(Tries + 1) /\ hold \in Holds
    BY <2>1, AtSettle DEF Holds
  <2> HIDE DEF hold
  <2> DEFINE q == PlanRefused(Mine(d), hold, flight[d].tries, k)
  <2>4. queue' = [queue EXCEPT ![d][t] = q] /\ Mine(d) = queue[d][t]
    BY <2>2 DEF SetMine, Mine
  <2> HIDE DEF t
  <2>5. Retold(queue[d][t], q, {}) /\ q \in Seq(Entry)
    <3>1. PutsApart(Mine(d))
      BY <1>1, <2>3, <2>4
    <3>2. Retold(Mine(d), q, {})
      BY <3>1, <2>3, RefusedRetold
    <3>3. SoundQueue(q, t)
      BY <2>3, RefusedSound
    <3> QED BY <3>2, <3>3, <2>4 DEF SoundQueue
  <2> HIDE DEF q
  <2>6. \A c \in Devices, s \in Ids : Retold(queue[c][s], queue'[c][s], NewIn(d, t, {}, c, s))
    BY <1>3, <2>3, <2>4, <2>5
  <2> QED BY <1>4, <2>6
<1>9. ASSUME NEW d \in Devices, Resolve(d)
      PROVE  \/ \A c \in Devices, s \in Ids : Retold(queue[c][s], queue'[c][s], {})
             \/ \E b \in Devices, r \in Ids, x \in Texts : NewText(b, r, x)
  <2> DEFINE t == flight[d].id
  <2>1. UNCHANGED <<shelf, stray, texts>>
    BY <1>9 DEF Resolve, server, player
  <2>2. ASSUME NEW c \in Devices, NEW s \in Ids, NEW N, queue'[c][s] = <<>> \/ queue'[c][s] = queue[c][s]
        PROVE  Retold(queue[c][s], queue'[c][s], N)
    BY <1>1, <2>2, EmptyRetold, AlikeItself, AlikeRetold
  <2>3. CASE ~Copied(d)
    <3>1. \A c \in Devices, s \in Ids : queue'[c][s] = <<>> \/ queue'[c][s] = queue[c][s]
      BY <1>9, <2>3, ResolveLeaves, ZenonT(60)
    <3> QED BY <2>2, <3>1
  <2>4. CASE Copied(d)
    <3>1. PICK n \in Ids, k \in Keys : CopyMade(d, t, n, k)
      BY <1>9, <2>4, ResolveLeaves
    <3> DEFINE x == library[d][t].text
    <3>2. \A c \in Devices, s \in Ids : (c = d /\ s = n) \/ queue'[c][s] = <<>> \/ queue'[c][s] = queue[c][s]
      <4>1. \A b \in Devices : b # d => queue'[b] = queue[b]
        BY <1>9, ResolveLeaves
      <4>2. queue'[d][t] = <<>>
        BY <1>9, ResolveLeaves
      <4>3. \A s \in Ids : s # t /\ s # n => queue'[d][s] = queue[d][s]
        BY <3>1 DEF CopyMade
      <4> QED BY <4>1, <4>2, <4>3
    <3>3. Retold(queue[d][n], queue'[d][n], {x})
      <4> DEFINE e == Fresh(n, "put", x, None, k)
      <4>1. e.text = x /\ ~e.sent
        BY DEF Fresh
      <4>2. queue'[d][n] = <<e>>
        BY <3>1 DEF CopyMade
      <4> HIDE DEF e, x
      <4>3. Len(<<e>>) = 1 /\ <<e>>[1] = e
        OBVIOUS
      <4> QED BY <4>1, <4>2, <4>3 DEF Retold, PutsApart
    <3>4. \A c \in Devices, s \in Ids : Retold(queue[c][s], queue'[c][s], NewIn(d, n, {x}, c, s))
      BY <2>2, <3>2, <3>3 DEF NewIn
    <3>5. Unsaid(n, x)
      BY <3>1, UnusedUnsaid DEF CopyMade, NextUnused, TextInv
    <3>6. x \in Texts /\ x <= texts'
      <4>1. t \in Ids
        BY <1>9, ResolveLeaves
      <4> QED BY <2>1, <3>1, <4>1 DEF CopyMade, TextInv, TextsMade
    <3> HIDE DEF x
    <3> QED BY <2>1, <3>4, <3>5, <3>6 DEF NewText
  <2> QED BY <2>3, <2>4
<1> QED BY <1>2, <1>5, <1>6, <1>7, <1>8, <1>9, QueueSteps

\* A change in a queue is one that was there, or a text said of its theme nowhere yet.
LEMMA QueuedFrom ==
  ASSUME Sound, ThemeAssumption, TextInv, [Next]_vars, NEW c \in Devices, NEW s \in Ids,
         NEW j \in 1..Len(queue'[c][s]), queue'[c][s][j].op = "put"
  PROVE  \/ \E i \in 1..Len(queue[c][s]) : Carries(queue[c][s][i], queue'[c][s][j])
         \/ /\ ~queue'[c][s][j].sent /\ Unsaid(s, queue'[c][s][j].text) /\ queue'[c][s][j].text <= texts'
            /\ UNCHANGED <<shelf, stray>>
<1>1. CASE Retold(queue[c][s], queue'[c][s], {})
  BY <1>1 DEF Retold
<1>2. ASSUME NEW d \in Devices, NEW t \in Ids, NEW x \in Texts, NewText(d, t, x)
      PROVE  \/ \E i \in 1..Len(queue[c][s]) : Carries(queue[c][s][i], queue'[c][s][j])
             \/ /\ ~queue'[c][s][j].sent /\ Unsaid(s, queue'[c][s][j].text) /\ queue'[c][s][j].text <= texts'
                /\ UNCHANGED <<shelf, stray>>
  <2>1. Retold(queue[c][s], queue'[c][s], NewIn(d, t, {x}, c, s))
    BY <1>2 DEF NewText
  <2>2. CASE c = d /\ s = t
    <3>1. NewIn(d, t, {x}, c, s) = {x}
      BY <2>2 DEF NewIn
    <3> QED BY <1>2, <2>1, <2>2, <3>1 DEF Retold, NewText
  <2>3. CASE ~(c = d /\ s = t)
    <3>1. NewIn(d, t, {x}, c, s) = {}
      BY <2>3 DEF NewIn
    <3> QED BY <2>1, <3>1 DEF Retold
  <2> QED BY <2>2, <2>3
<1> QED BY <1>1, <1>2, TextsMove

LEMMA TextsApartKept ==
  ASSUME Sound, ThemeAssumption, TextInv, [Next]_vars
  PROVE  TextsApart'
<1>1. \A c \in Devices, s \in Ids : PutsApart(queue'[c][s])
  BY TextsMove DEF Retold, NewText
<1>2. ASSUME \A c \in Devices, s \in Ids : Retold(queue[c][s], queue'[c][s], {}),
             NEW b \in Devices, NEW c \in Devices, NEW s \in Ids, b # c,
             NEW i \in 1..Len(queue'[b][s]), NEW j \in 1..Len(queue'[c][s]), Twice(queue'[b][s][i], queue'[c][s][j])
      PROVE  FALSE
  <2>1. PICK m \in 1..Len(queue[b][s]) : Carries(queue[b][s][m], queue'[b][s][i])
    BY <1>2 DEF Retold, Twice
  <2>2. PICK n \in 1..Len(queue[c][s]) : Carries(queue[c][s][n], queue'[c][s][j])
    BY <1>2 DEF Retold, Twice
  <2>3. Twice(queue[b][s][m], queue[c][s][n])
    BY <1>2, <2>1, <2>2 DEF Carries, Twice
  <2> QED BY <1>2, <2>3 DEF TextInv, TextsApart
<1>3. ASSUME NEW d \in Devices, NEW t \in Ids, NEW x \in Texts, NewText(d, t, x),
             NEW b \in Devices, NEW c \in Devices, NEW s \in Ids, b # c,
             NEW i \in 1..Len(queue'[b][s]), NEW j \in 1..Len(queue'[c][s]), Twice(queue'[b][s][i], queue'[c][s][j])
      PROVE  FALSE
  <2>1. \A e, f : Twice(e, f) => Twice(f, e)
    BY DEF Twice
  <2>2. ASSUME NEW p \in Devices, NEW l \in 1..Len(queue'[p][s]), queue'[p][s][l].op = "put"
        PROVE  \/ p = d /\ s = t /\ queue'[p][s][l].text = x
               \/ \E n \in 1..Len(queue[p][s]) : Carries(queue[p][s][n], queue'[p][s][l])
    <3>1. Retold(queue[p][s], queue'[p][s], NewIn(d, t, {x}, p, s))
      BY <1>3 DEF NewText
    <3>2. queue'[p][s][l].text \in NewIn(d, t, {x}, p, s) => p = d /\ s = t /\ queue'[p][s][l].text = x
      BY DEF NewIn
    <3> QED BY <2>2, <3>1, <3>2 DEF Retold
  <2>3. ASSUME NEW p \in Devices, NEW l \in 1..Len(queue'[p][s]), NEW n \in 1..Len(queue[p][s]),
               Carries(queue[p][s][n], queue'[p][s][l]), s = t
        PROVE  queue'[p][s][l].text # x
    <3>1. Untold(x, queue[p][s])
      BY <1>3, <2>3 DEF NewText, Unsaid
    <3> QED BY <2>3, <3>1 DEF Untold, Saves, Carries, Twice
  <2>4. queue'[b][s][i].op = "put" /\ queue'[c][s][j].op = "put" /\ queue'[b][s][i].text = queue'[c][s][j].text
    BY <1>3 DEF Twice
  <2>5. ASSUME NEW m \in 1..Len(queue[b][s]), Carries(queue[b][s][m], queue'[b][s][i]),
               NEW n \in 1..Len(queue[c][s]), Carries(queue[c][s][n], queue'[c][s][j])
        PROVE  FALSE
    <3>1. Twice(queue[b][s][m], queue[c][s][n])
      BY <1>3, <2>5 DEF Carries, Twice
    <3> QED BY <1>3, <3>1 DEF TextInv, TextsApart
  <2> QED BY <1>3, <2>2, <2>3, <2>4, <2>5
<1> QED BY <1>1, <1>2, <1>3, TextsMove DEF TextsApart, PutsApart, Twice

\* Over the revisions there were, what is queued is still behind.
LEMMA StillBehind ==
  ASSUME Sound, ThemeAssumption, TextInv, [Next]_vars, NEW c \in Devices, NEW s \in Ids, NEW j \in 1..Len(queue'[c][s])
  PROVE  /\ Behind(queue'[c][s][j], shelf[s])
         /\ ~queue'[c][s][j].sent => \A n \in 1..Len(shelf[s]) : ~Saves(queue'[c][s][j], shelf[s][n])
<1> DEFINE f == queue'[c][s][j]
<1>1. CASE f.op # "put"
  BY <1>1 DEF Behind, Saves
<1>2. ASSUME NEW i \in 1..Len(queue[c][s]), Carries(queue[c][s][i], f)
      PROVE  Behind(f, shelf[s]) /\ (~f.sent => \A n \in 1..Len(shelf[s]) : ~Saves(f, shelf[s][n]))
  <2> DEFINE e == queue[c][s][i]
  <2>1. Behind(e, shelf[s]) /\ (~e.sent => \A n \in 1..Len(shelf[s]) : ~Saves(e, shelf[s][n]))
    BY DEF TextInv, QueuedBehind
  <2>2. (\A n \in 1..Len(shelf[s]) : Saves(f, shelf[s][n]) => Saves(e, shelf[s][n])) /\ (e.sent => f.sent /\ f.base = e.base)
    BY <1>2 DEF Carries, Twice, Saves
  <2> HIDE DEF e, f
  <2> QED BY <2>1, <2>2 DEF Behind
<1>3. CASE Unsaid(s, f.text)
  BY <1>3 DEF Behind, Saves, Unsaid
<1> QED BY <1>1, <1>2, <1>3, QueuedFrom

LEMMA StillAgrees ==
  ASSUME Sound, ThemeAssumption, TextInv, [Next]_vars, NEW e \in stray, NEW c \in Devices,
         NEW j \in 1..Len(queue'[c][e.id]), Twice(e, queue'[c][e.id][j])
  PROVE  queue'[c][e.id][j].sent /\ queue'[c][e.id][j].base = e.base
<1> DEFINE s == e.id  f == queue'[c][s][j]
<1>1. s \in Ids /\ Lasts(e)
  BY DEF Sound, TypeOK, Entry, TextInv, StrayLasts
<1>2. ASSUME NEW i \in 1..Len(queue[c][s]), Carries(queue[c][s][i], f)
      PROVE  f.sent /\ f.base = e.base
  <2>1. Twice(e, queue[c][s][i])
    BY <1>2 DEF Carries, Twice
  <2>2. queue[c][s][i].sent /\ queue[c][s][i].base = e.base
    BY <1>1, <2>1 DEF Lasts
  <2> QED BY <1>2, <2>2 DEF Carries
<1>3. ~Unsaid(s, f.text)
  BY DEF Unsaid, Saves, Twice
<1>4. f.op = "put"
  BY DEF Twice
<1> HIDE DEF s
<1>5. \/ \E i \in 1..Len(queue[c][s]) : Carries(queue[c][s][i], f)
      \/ Unsaid(s, f.text)
  BY <1>1, <1>4, QueuedFrom DEF s
<1> QED BY <1>2, <1>3, <1>5 DEF s

\* What is on its way is queued, and only there.
LEMMA FlightLasts ==
  ASSUME Sound, ThemeAssumption, TextInv, NEW d \in Devices, NEW e \in Abandoned(d)
  PROVE  /\ e \in Entry /\ Whole(e) /\ Lasts(e)
         /\ e.op = "put" => e.text <= texts
         /\ \E c \in Devices : library[c][e.id].state # "none"
<1>1. place[d] = "sent" /\ e = flight[d]
  BY DEF Abandoned, At
<1>2. /\ e \in Entry /\ e.id \in Ids /\ Whole(e) /\ queue[d][e.id] # <<>>
      /\ e = queue[d][e.id][1] /\ 1 \in 1..Len(queue[d][e.id]) /\ e.sent
  BY <1>1, SentBased DEF Sound, InHand
<1>3. Behind(e, shelf[e.id])
  BY <1>2 DEF TextInv, QueuedBehind
<1>4. ASSUME NEW c \in Devices, NEW i \in 1..Len(queue[c][e.id]), Twice(e, queue[c][e.id][i])
      PROVE  queue[c][e.id][i] = e
  <2>1. c = d
    BY <1>2, <1>4 DEF TextInv, TextsApart
  <2> QED BY <1>2, <1>4, <2>1 DEF TextInv, TextsApart, PutsApart
<1>5. ASSUME NEW f \in stray, f.id = e.id, Twice(e, f) PROVE f.base = e.base
  <2>1. Lasts(f) /\ Twice(f, e)
    BY <1>5 DEF TextInv, StrayLasts, Twice
  <2> QED BY <1>2, <1>5, <2>1 DEF Lasts
<1>6. Lasts(e)
  BY <1>2, <1>3, <1>4, <1>5 DEF Lasts
<1>7. e.op = "put" => e.text <= texts
  BY <1>2 DEF TextInv, TextsMade
<1>8. library[d][e.id].state # "none"
  <2>1. Fits(queue[d][e.id], library[d][e.id])
    BY <1>2 DEF Sound, QueuesSound
  <2> QED BY <1>2, <2>1 DEF Fits
<1> QED BY <1>2, <1>6, <1>7, <1>8

\* A write is of a text the theme has not had, and later than what the change was made over.
LEMMA CarryNew ==
  ASSUME Sound, ThemeAssumption, NEW e \in Entry, Whole(e), Lasts(e), Written(e), Carry(e)
  PROVE  LET t == e.id  n == Len(shelf[t]) + 1 IN
         /\ t \in Ids /\ Len(shelf[t]) \in Nat /\ Len(shelf'[t]) = n /\ shelf'[t][n] = After(e)
         /\ \A m \in 1..Len(shelf[t]) : shelf'[t][m] = shelf[t][m]
         /\ \A s \in Ids : s # t => shelf'[s] = shelf[s]
         /\ e.base < n
         /\ e.op = "put" => \A m \in 1..Len(shelf[t]) : shelf[t][m] # e.text
<1> DEFINE t == e.id
<1>1. t \in Ids /\ e.base \in Int
  BY DEF Entry
<1>2. Len(shelf[t]) \in Nat /\ (shelf[t] = <<>> => Len(shelf[t]) = 0)
  BY <1>1, ServerTypes DEF Sound, Revision
<1>3. /\ Len(shelf'[t]) = Len(shelf[t]) + 1 /\ shelf'[t][Len(shelf[t]) + 1] = After(e)
      /\ \A m \in 1..Len(shelf[t]) : shelf'[t][m] = shelf[t][m]
      /\ \A s \in Ids : s # t => shelf'[s] = shelf[s]
  BY CarryShelf DEF Sound, Revision
<1>4. Len(shelf[t]) = 0 \/ e.base = Len(shelf[t])
  BY <1>2, WrittenExpected DEF Expected, Revision
<1>5. e.base < Len(shelf[t]) + 1
  <2>1. CASE e.base = None
    BY <1>2, <2>1 DEF None
  <2>2. CASE e.base # None
    BY <1>2, <2>2, WrittenExpected DEF Expected, Revision
  <2> QED BY <2>1, <2>2
<1>6. ASSUME e.op = "put", NEW m \in 1..Len(shelf[t]) PROVE shelf[t][m] # e.text
  BY <1>1, <1>2, <1>4, <1>6 DEF Lasts, Behind, Saves
<1> QED BY <1>1, <1>2, <1>3, <1>5, <1>6

LEMMA CarryKept ==
  ASSUME Sound, ThemeAssumption, TextInv, NEW e \in Entry, Whole(e), Lasts(e), Carry(e), queue' = queue, stray' \subseteq stray
  PROVE  AppliedOnce' /\ QueuedBehind' /\ StrayLasts'
<1>1. CASE ~Written(e)
  <2>1. shelf' = shelf
    BY <1>1 DEF Carry, server
  <2>2. AppliedOnce'
    BY <2>1 DEF TextInv, AppliedOnce, Revision
  <2>3. QueuedBehind'
    BY <2>1 DEF TextInv, QueuedBehind, Behind, Saves
  <2>4. StrayLasts'
    BY <2>1 DEF TextInv, StrayLasts, Lasts, Behind, Saves, Twice
  <2> QED BY <2>2, <2>3, <2>4
<1>2. CASE Written(e)
  <2> DEFINE t == e.id  n == Len(shelf[t]) + 1
  <2>1. /\ t \in Ids /\ Len(shelf[t]) \in Nat /\ Len(shelf'[t]) = n /\ shelf'[t][n] = After(e)
        /\ \A m \in 1..Len(shelf[t]) : shelf'[t][m] = shelf[t][m]
        /\ \A s \in Ids : s # t => shelf'[s] = shelf[s]
        /\ e.base < n
        /\ e.op = "put" => \A m \in 1..Len(shelf[t]) : shelf[t][m] # e.text
    BY <1>2, CarryNew
  <2>2. \A m \in 1..Len(shelf'[t]) : m = n \/ (m \in 1..Len(shelf[t]) /\ shelf'[t][m] = shelf[t][m])
    BY <2>1
  <2>3. /\ e.op = "put" => After(e) = e.text
        /\ e.op # "put" => After(e) = Gone
    BY DEF After
  <2>4. AppliedOnce'
    <3> SUFFICES ASSUME NEW s \in Ids, NEW i \in 1..Len(shelf'[s]), NEW j \in 1..Len(shelf'[s]), i # j,
                        shelf'[s][i] # Gone, shelf'[s][i] = shelf'[s][j]
                 PROVE  FALSE
      BY DEF AppliedOnce, Revision, Ids
    <3>1. \A k, l \in 1..Len(shelf[s]) : k # l /\ shelf[s][k] # Gone => shelf[s][k] # shelf[s][l]
      BY DEF TextInv, AppliedOnce, Revision
    <3>2. CASE s # t
      BY <2>1, <3>1, <3>2
    <3>3. CASE s = t
      <4>1. CASE i # n /\ j # n
        BY <2>2, <3>1, <3>3, <4>1
      <4>2. CASE i = n /\ j # n
        BY <2>1, <2>2, <2>3, <3>3, <4>2
      <4>3. CASE i # n /\ j = n
        BY <2>1, <2>2, <2>3, <3>3, <4>3
      <4> QED BY <4>1, <4>2, <4>3
    <3> QED BY <3>2, <3>3
  <2>5. ASSUME NEW f, Behind(f, shelf[f.id]), f.id \in Ids, f.op = "put" => f.text # 0,
               f.id = t /\ Twice(e, f) => f.base = e.base
        PROVE  Behind(f, shelf'[f.id])
    <3>1. CASE f.id # t
      BY <2>1, <2>5, <3>1
    <3>2. CASE f.id = t
      <4> SUFFICES ASSUME NEW m \in 1..Len(shelf'[t]), Saves(f, shelf'[t][m]) PROVE f.base < m
        BY <3>2 DEF Behind
      <4>1. CASE m \in 1..Len(shelf[t]) /\ shelf'[t][m] = shelf[t][m]
        BY <2>5, <3>2, <4>1 DEF Behind
      <4>2. CASE m = n
        <5>1. f.op = "put" /\ f.text = After(e)
          BY <2>1, <4>2 DEF Saves
        <5>2. e.op = "put"
          BY <2>3, <2>5, <5>1 DEF Gone
        <5>3. Twice(e, f)
          BY <2>3, <5>1, <5>2 DEF Twice
        <5> QED BY <2>1, <2>5, <3>2, <4>2, <5>3
      <4> QED BY <2>2, <4>1, <4>2
    <3> QED BY <3>1, <3>2
  <2>6. \A s \in Ids : \A c \in Devices : \A i \in 1..Len(queue[c][s]) : queue[c][s][i].id = s /\ Whole(queue[c][s][i])
    BY DEF Sound, QueuesSound, SoundQueue
  <2>7. QueuedBehind'
    <3> SUFFICES ASSUME NEW c \in Devices, NEW s \in Ids, NEW i \in 1..Len(queue[c][s])
                 PROVE  /\ Behind(queue[c][s][i], shelf'[s])
                        /\ ~queue[c][s][i].sent => \A m \in 1..Len(shelf'[s]) : ~Saves(queue[c][s][i], shelf'[s][m])
      BY SMTT(60) DEF QueuedBehind, Behind, Saves, Ids
    <3> DEFINE f == queue[c][s][i]
    <3>1. /\ f.id = s /\ Behind(f, shelf[s]) /\ (f.op = "put" => f.text # 0)
          /\ ~f.sent => \A m \in 1..Len(shelf[s]) : ~Saves(f, shelf[s][m])
      BY <2>6 DEF Whole, TextInv, QueuedBehind
    <3>2. f.id = t /\ Twice(e, f) => f.base = e.base /\ f.sent
      BY <3>1, ZenonT(60) DEF Lasts
    <3> HIDE DEF f
    <3>3. Behind(f, shelf'[s])
      BY <2>5, <3>1, <3>2
    <3>4. ASSUME ~f.sent, NEW m \in 1..Len(shelf'[s]), Saves(f, shelf'[s][m]) PROVE FALSE
      <4>1. CASE s # t
        BY <2>1, <3>1, <3>4, <4>1
      <4>2. CASE s = t /\ m \in 1..Len(shelf[t]) /\ shelf'[t][m] = shelf[t][m]
        BY <3>1, <3>4, <4>2
      <4>3. CASE s = t /\ m = n
        <5>1. f.op = "put" /\ f.text = After(e)
          BY <2>1, <3>4, <4>3 DEF Saves
        <5>2. e.op = "put"
          BY <2>3, <3>1, <5>1 DEF Gone
        <5> QED BY <2>3, <3>1, <3>2, <3>4, <4>3, <5>1, <5>2 DEF Twice
      <4> QED BY <2>2, <3>4, <4>1, <4>2, <4>3
    <3> QED BY <3>3, <3>4 DEF f
  <2>8. StrayLasts'
    <3> SUFFICES ASSUME NEW f \in stray
                 PROVE  /\ Behind(f, shelf'[f.id])
                        /\ \A d \in Devices : \A i \in 1..Len(queue[d][f.id]) :
                             Twice(f, queue[d][f.id][i]) => queue[d][f.id][i].sent /\ queue[d][f.id][i].base = f.base
                        /\ \A g \in stray : g.id = f.id /\ Twice(f, g) => g.base = f.base
      BY DEF StrayLasts, Lasts, Behind, Twice, Saves
    <3>1. Lasts(f) /\ f.id \in Ids /\ Whole(f)
      BY DEF TextInv, StrayLasts, Sound, TypeOK, Entry, StrayWhole
    <3>2. f.id = t /\ Twice(e, f) => f.base = e.base
      BY DEF Lasts
    <3>3. Behind(f, shelf'[f.id])
      BY <2>5, <3>1, <3>2 DEF Lasts, Whole
    <3> QED BY <3>1, <3>3 DEF Lasts
  <2> QED BY <2>4, <2>7, <2>8
<1> QED BY <1>1, <1>2

LEMMA StillKept ==
  ASSUME Sound, ThemeAssumption, TextInv, [Next]_vars, shelf' = shelf, stray' \subseteq stray
  PROVE  AppliedOnce' /\ QueuedBehind' /\ StrayLasts'
<1>1. AppliedOnce'
  BY DEF TextInv, AppliedOnce, Revision
<1>2. QueuedBehind'
  BY StillBehind DEF QueuedBehind, Behind, Saves, Ids
<1>3. StrayLasts'
  <2> SUFFICES ASSUME NEW f \in stray
               PROVE  /\ Behind(f, shelf[f.id])
                      /\ \A d \in Devices : \A i \in 1..Len(queue'[d][f.id]) :
                           Twice(f, queue'[d][f.id][i]) => queue'[d][f.id][i].sent /\ queue'[d][f.id][i].base = f.base
                      /\ \A g \in stray : g.id = f.id /\ Twice(f, g) => g.base = f.base
    BY DEF StrayLasts, Lasts, Behind, Twice, Saves
  <2>1. Lasts(f)
    BY DEF TextInv, StrayLasts
  <2> QED BY <2>1, StillAgrees DEF Lasts
<1> QED BY <1>1, <1>2, <1>3

LEMMA AbandonedKept ==
  ASSUME Sound, ThemeAssumption, TextInv, NEW d \in Devices, stray' = stray \cup Abandoned(d),
         UNCHANGED <<queue, shelf>>
  PROVE  AppliedOnce' /\ QueuedBehind' /\ StrayLasts'
<1>1. AppliedOnce'
  BY DEF TextInv, AppliedOnce, Revision
<1>2. QueuedBehind'
  BY DEF TextInv, QueuedBehind, Behind, Saves
<1>3. \A e \in stray \cup Abandoned(d) : Lasts(e)
  BY FlightLasts DEF TextInv, StrayLasts
<1>4. ASSUME NEW e \in stray \cup Abandoned(d), NEW f \in stray \cup Abandoned(d), f.id = e.id, Twice(e, f)
      PROVE  f.base = e.base
  <2>1. CASE f \in stray
    BY <1>3, <1>4, <2>1 DEF Lasts
  <2>2. CASE e \in stray
    <3>1. Twice(f, e)
      BY <1>4 DEF Twice
    <3> QED BY <1>3, <1>4, <2>2, <3>1 DEF Lasts
  <2>3. CASE e \in Abandoned(d) /\ f \in Abandoned(d)
    BY <2>3 DEF Abandoned
  <2> QED BY <1>4, <2>1, <2>2, <2>3
<1>5. StrayLasts'
  <2> SUFFICES ASSUME NEW f \in stray \cup Abandoned(d)
               PROVE  /\ Behind(f, shelf[f.id])
                      /\ \A c \in Devices : \A i \in 1..Len(queue[c][f.id]) :
                           Twice(f, queue[c][f.id][i]) => queue[c][f.id][i].sent /\ queue[c][f.id][i].base = f.base
                      /\ \A g \in stray \cup Abandoned(d) : g.id = f.id /\ Twice(f, g) => g.base = f.base
    BY DEF StrayLasts, Lasts, Behind, Twice, Saves
  <2> QED BY <1>3, <1>4 DEF Lasts
<1> QED BY <1>1, <1>2, <1>5

\* A row that moves shows a text there is, or that the theme is gone.
LEMMA RowMoves ==
  ASSUME Sound, ThemeAssumption, NoteInv, TextInv, [Next]_vars, NEW c \in Devices, NEW s \in Ids
  PROVE  /\ texts' \in Nat /\ texts \in Nat /\ texts <= texts'
         /\ library'[c][s].text <= texts'
         /\ library[c][s].state # "none" => library'[c][s].state # "none"
<1> DEFINE Fine == /\ library'[c][s].text <= texts'
                   /\ library[c][s].state # "none" => library'[c][s].state # "none"
<1>1. texts \in Nat
  BY DEF Sound, TypeOK, Texts, ThemeAssumption
<1>2. ASSUME NEW d \in Devices, NEW t \in Ids, Save(d, t) \/ Delete(d, t) PROVE texts' = texts + 1
  BY <1>2 DEF Save, Delete, Change
<1>3. texts' \in Nat /\ texts <= texts'
  BY <1>1, <1>2, PlayerMoves
<1>4. ASSUME library'[c][s] = library[c][s] PROVE Fine
  <2>1. library[c][s].text <= texts /\ library[c][s].text \in Nat
    BY DEF TextInv, TextsMade, Sound, TypeOK, Row, Texts, ThemeAssumption
  <2> QED BY <1>1, <1>3, <1>4, <2>1
<1>5. ASSUME NEW d \in Devices, NEW t \in Ids, NEW row \in Row, row.state # "none", row.text <= texts',
             library' = [library EXCEPT ![d][t] = row]
      PROVE  Fine
  <2>1. /\ library'[d][t] = row /\ \A r \in Ids : r # t => library'[d][r] = library[d][r]
        /\ \A b \in Devices : b # d => library'[b] = library[b]
    BY <1>5, OneRow, ZenonT(60) DEF Sound
  <2>2. (c = d /\ s = t) \/ library'[c][s] = library[c][s]
    BY <2>1
  <2> QED BY <1>4, <1>5, <2>1, <2>2
<1>6. ASSUME NEW a, a.text <= texts, a.text \in Texts
      PROVE  RowOf(a).state # "none" /\ RowOf(a).text <= texts'
  BY <1>1, <1>3, <1>6 DEF RowOf, Texts, ThemeAssumption
<1> HIDE DEF Fine
<1>7. ASSUME NEW d \in Devices, NEW t \in Ids, Save(d, t) \/ Delete(d, t) PROVE Fine
  <2>1. texts + 1 \in Texts /\ 0 \in Texts
    <3>1. texts < MaxTexts
      BY <1>7 DEF Save, Delete, Change
    <3>2. texts \in Nat /\ MaxTexts \in Nat
      BY DEF Sound, TypeOK, ThemeAssumption, Texts
    <3> QED BY <3>1, <3>2 DEF Texts
  <2>2. CASE Save(d, t)
    <3>1. library' = [library EXCEPT ![d][t] = [state |-> "saved", text |-> texts + 1]]
      BY <2>2 DEF Save, Change
    <3>2. [state |-> "saved", text |-> texts + 1] \in Row
      BY <2>1 DEF Row
    <3>3. texts + 1 <= texts'
      BY <1>1, <1>2, <1>7
    <3> QED BY <1>5, <3>1, <3>2, <3>3
  <2>3. CASE Delete(d, t)
    <3>1. library' = [library EXCEPT ![d][t] = [state |-> "gone", text |-> Gone]]
      BY <2>3 DEF Delete, Change
    <3>2. [state |-> "gone", text |-> Gone] \in Row
      BY <2>1 DEF Row, Gone
    <3>3. Gone <= texts'
      BY <1>3 DEF Gone
    <3> QED BY <1>5, <3>1, <3>2, <3>3
  <2> QED BY <1>7, <2>2, <2>3
<1>8. ASSUME NEW d \in Devices, Confirm(d) \/ Refuse(d) PROVE Fine
  <2>1. library' = library
    BY <1>8 DEF Confirm, Refuse
  <2> QED BY <1>4, <2>1
<1>9. ASSUME NEW d \in Devices, Resolve(d) PROVE Fine
  <2> DEFINE t == flight[d].id  a == answer[d]
  <2>1. /\ place[d] = "settle" /\ t \in Ids /\ a \in Answer /\ library'[d][t] = RowOf(a)
        /\ \A b \in Devices : b # d => library'[b] = library[b]
    BY <1>9, ResolveLeaves
  <2>2. Stood(t, a.revision, a.text)
    BY <1>9 DEF Resolve, Contested, NoteInv, AnswersStand, Answered
  <2>3. a.text <= texts /\ a.text \in Texts
    BY <2>1, <2>2 DEF Stood, Revision, TextInv, TextsMade, Answer
  <2>4. CASE c = d /\ s = t
    <3>1. library'[c][s] = RowOf(a)
      BY <2>1, <2>4
    <3> HIDE DEF a
    <3> QED BY <1>6, <2>3, <3>1 DEF Fine
  <2>5. CASE c # d
    BY <1>4, <2>1, <2>5
  <2>6. ASSUME c = d, s # t PROVE library'[c][s] = library[c][s] \/ (library'[c][s] = library[d][t] /\ library[d][t].state = "saved")
    <3>1. CASE ~Copied(d)
      <4>1. \A r \in Ids : r # t => library'[d][r] = library[d][r]
        BY <1>9, <3>1, ResolveLeaves
      <4> HIDE DEF t, a
      <4>2. library'[d][s] = library[d][s]
        BY <2>6, <4>1
      <4> QED BY <2>6, <4>2
    <3>2. CASE Copied(d)
      <4>1. PICK n \in Ids, k \in Keys : CopyMade(d, t, n, k)
        BY <1>9, <3>2, ResolveLeaves
      <4> QED BY <2>6, <4>1 DEF CopyMade
    <3> QED BY <3>1, <3>2
  <2>7. CASE library'[c][s] = library[d][t] /\ library[d][t].state = "saved"
    <3>1. library[d][t].text <= texts /\ library[d][t].text \in Nat
      <4>1. library[d][t] \in Row
        BY <2>1 DEF Sound, TypeOK
      <4> QED BY <2>1, <4>1 DEF TextInv, TextsMade, Row, Texts, ThemeAssumption
    <3> QED BY <1>1, <1>3, <2>7, <3>1 DEF Fine
  <2> QED BY <1>4, <2>4, <2>5, <2>6, <2>7
<1>10. ASSUME NEW d \in Devices, Page(d) PROVE Fine
  <2>1. \/ library'[c][s] = library[c][s]
        \/ shelf[s] # <<>> /\ library'[c][s] = RowOf(Asked(s))
    BY <1>10, PageLeaves
  <2>2. ASSUME shelf[s] # <<>> PROVE Asked(s).text <= texts /\ Asked(s).text \in Texts
    <3>1. Text(s) \in Texts /\ Text(s) = shelf[s][Revision(s)] /\ Revision(s) \in 1..Len(shelf[s])
      <4>1. Revision(s) \in Nat /\ Revision(s) # 0 /\ Text(s) \in Texts /\ Text(s) = shelf[s][Revision(s)]
        BY <2>2, ServerTypes DEF Sound
      <4> QED BY <4>1 DEF Revision
    <3> QED BY <3>1 DEF Asked, TextInv, TextsMade
  <2>3. CASE shelf[s] # <<>> /\ library'[c][s] = RowOf(Asked(s))
    <3>1. RowOf(Asked(s)).state # "none" /\ RowOf(Asked(s)).text <= texts'
      BY <1>6, <2>2, <2>3
    <3> QED BY <2>3, <3>1 DEF Fine
  <2> QED BY <1>4, <2>1, <2>3
<1> QED BY <1>1, <1>3, <1>4, <1>7, <1>8, <1>9, <1>10, RowSteps DEF Fine

LEMMA MadeKept ==
  ASSUME Sound, ThemeAssumption, NoteInv, TextInv, [Next]_vars
  PROVE  TextsMade' /\ StrayKnown'
<1>1. /\ \A c \in Devices, s \in Ids : library'[c][s].text <= texts'
      /\ \A c \in Devices, s \in Ids : library[c][s].state # "none" => library'[c][s].state # "none"
  BY RowMoves
<1>2. texts \in Nat /\ texts' \in Nat /\ texts <= texts'
  <2>1. texts \in Nat
    BY DEF Sound, TypeOK, Texts, ThemeAssumption
  <2>2. ASSUME NEW d \in Devices, NEW t \in Ids, Save(d, t) \/ Delete(d, t) PROVE texts' = texts + 1
    BY <2>2 DEF Save, Delete, Change
  <2> QED BY <2>1, <2>2, PlayerMoves
<1>3. \A e \in stray' : e \in Entry /\ (e.op = "put" => e.text <= texts) /\ \E c \in Devices : library[c][e.id].state # "none"
  <2>1. \A e \in stray : e \in Entry /\ (e.op = "put" => e.text <= texts) /\ \E c \in Devices : library[c][e.id].state # "none"
    BY DEF Sound, TypeOK, TextInv, TextsMade, StrayKnown
  <2> QED BY <2>1, StrayMoves, FlightLasts
<1>4. \A x \in Texts : x <= texts => x <= texts'
  BY <1>2 DEF Texts, ThemeAssumption
<1>5. \A e \in stray' : e.op = "put" => e.text <= texts'
  BY <1>3, <1>4 DEF Entry
<1>6. StrayKnown'
  <2> SUFFICES ASSUME NEW e \in stray' PROVE \E d \in Devices : library'[d][e.id].state # "none"
    BY DEF StrayKnown
  <2>1. e.id \in Ids
    BY <1>3 DEF Entry
  <2> QED BY <1>1, <1>3, <2>1
<1>7. ASSUME NEW c \in Devices, NEW s \in Ids, NEW j \in 1..Len(queue'[c][s]), queue'[c][s][j].op = "put"
      PROVE  queue'[c][s][j].text <= texts'
  <2>1. ASSUME NEW i \in 1..Len(queue[c][s]), Carries(queue[c][s][i], queue'[c][s][j])
        PROVE  queue'[c][s][j].text <= texts'
    <3>1. queue[c][s][i].text = queue'[c][s][j].text /\ queue[c][s][i].op = "put"
      BY <2>1 DEF Carries, Twice
    <3>2. queue[c][s][i].text <= texts
      BY <3>1 DEF TextInv, TextsMade
    <3>3. queue[c][s][i].text \in Texts
      <4>1. queue[c][s] \in Seq(Entry)
        BY DEF Sound, TypeOK
      <4>2. queue[c][s][i] \in Entry
        BY <4>1
      <4> QED BY <4>2 DEF Entry
    <3> QED BY <1>4, <3>1, <3>2, <3>3
  <2> QED BY <1>7, <2>1, QueuedFrom
<1>8. ASSUME NEW s \in Ids, NEW n \in 1..Len(shelf'[s]) PROVE shelf'[s][n] <= texts'
  <2>1. shelf[s] \in Seq(Texts)
    BY DEF Sound, TypeOK
  <2>2. ASSUME n \in 1..Len(shelf[s]), shelf'[s][n] = shelf[s][n] PROVE shelf'[s][n] <= texts'
    <3>1. shelf[s][n] \in Texts /\ shelf[s][n] <= texts
      BY <2>1, <2>2 DEF TextInv, TextsMade
    <3> QED BY <1>4, <2>2, <3>1
  <2>3. ASSUME NEW e \in Entry, Whole(e), Lasts(e), Carry(e), e.op = "put" => e.text <= texts
        PROVE  shelf'[s][n] <= texts'
    <3>1. CASE Written(e) /\ s = e.id
      <4>1. /\ Len(shelf[s]) \in Nat /\ Len(shelf'[s]) = Len(shelf[s]) + 1 /\ shelf'[s][Len(shelf[s]) + 1] = After(e)
            /\ \A m \in 1..Len(shelf[s]) : shelf'[s][m] = shelf[s][m]
        BY <2>3, <3>1, CarryNew
      <4>2. n = Len(shelf[s]) + 1 \/ n \in 1..Len(shelf[s])
        BY <4>1
      <4>3. After(e) <= texts'
        <5>1. CASE e.op = "put"
          <6>1. e.text \in Texts
            BY DEF Entry
          <6> QED BY <1>4, <2>3, <5>1, <6>1 DEF After
        <5>2. CASE e.op # "put"
          BY <1>2, <5>2 DEF After, Gone
        <5> QED BY <5>1, <5>2
      <4> QED BY <2>2, <4>1, <4>2, <4>3
    <3>2. CASE ~(Written(e) /\ s = e.id)
      <4>1. shelf'[s] = shelf[s]
        BY <2>3, <3>2, CarryShelf DEF Sound
      <4> QED BY <2>2, <4>1
    <3> QED BY <3>1, <3>2
  <2>4. ASSUME NEW d \in Devices, Serve(d), Carry(flight[d]) PROVE shelf'[s][n] <= texts'
    <3>1. flight[d] \in Abandoned(d)
      BY <2>4 DEF Serve, Abandoned
    <3> QED BY <2>3, <2>4, <3>1, FlightLasts
  <2>5. ASSUME NEW e \in stray, Carry(e), e \in Entry, Whole(e) PROVE shelf'[s][n] <= texts'
    BY <2>3, <2>5 DEF TextInv, TextsMade, StrayLasts
  <2>6. CASE shelf' = shelf
    BY <2>2, <2>6
  <2> QED BY <2>4, <2>5, <2>6, ServerMoves
<1>9. TextsMade'
  BY <1>1, <1>5, <1>7, <1>8 DEF TextsMade, Ids
<1> QED BY <1>6, <1>9

LEMMA TextStep == Sound /\ NoteInv /\ TextInv /\ [Next]_vars => TextInv'
<1> SUFFICES ASSUME Sound, NoteInv, TextInv, [Next]_vars PROVE TextInv'
  OBVIOUS
<1> USE ThemeAssumption
<1>1. TextsMade' /\ StrayKnown' /\ TextsApart'
  BY MadeKept, TextsApartKept
<1>2. AppliedOnce' /\ QueuedBehind' /\ StrayLasts'
  <2>1. ASSUME NEW d \in Devices, Serve(d), Carry(flight[d]) PROVE AppliedOnce' /\ QueuedBehind' /\ StrayLasts'
    <3>1. flight[d] \in Abandoned(d) /\ queue' = queue /\ stray' \subseteq stray
      BY <2>1 DEF Serve, Abandoned, store
    <3>2. flight[d] \in Entry /\ Whole(flight[d]) /\ Lasts(flight[d])
      BY <3>1, FlightLasts
    <3> QED BY <2>1, <3>1, <3>2, CarryKept
  <2>2. ASSUME NEW e \in stray, Straggle(e), Carry(e), e \in Entry, Whole(e)
        PROVE  AppliedOnce' /\ QueuedBehind' /\ StrayLasts'
    <3>1. queue' = queue /\ stray' \subseteq stray /\ Lasts(e)
      BY <2>2 DEF Straggle, store, TextInv, StrayLasts
    <3> QED BY <2>2, <3>1, CarryKept
  <2>3. CASE shelf' = shelf
    BY <2>3, StrayMoves, StillKept, AbandonedKept
  <2> QED BY <2>1, <2>2, <2>3, ServerMoves
<1> QED BY <1>1, <1>2 DEF TextInv

LEMMA AlwaysTexts == Spec => []TextInv
<1>1. Init => TextInv
  <2> SUFFICES ASSUME Init PROVE TextInv
    OBVIOUS
  <2>1. TextsMade /\ StrayKnown
    BY DEF Init, TextsMade, StrayKnown, NoRow
  <2>2. TextsApart /\ QueuedBehind /\ StrayLasts /\ AppliedOnce
    BY DEF Init, TextsApart, PutsApart, QueuedBehind, StrayLasts, AppliedOnce, Revision
  <2> QED BY <2>1, <2>2 DEF TextInv
<1> QED BY <1>1, TextStep, AlwaysSound, AlwaysNoted, PTL DEF Spec

\* A save is written at most once, however often its request is cut short, sent again, or
\* arrives after its theme has moved on.
THEOREM AppliedCorrect == Spec => []AppliedOnce
<1>1. TextInv => AppliedOnce
  BY DEF TextInv
<1> QED BY <1>1, AlwaysTexts, PTL

-----------------------------------------------------------------------------
(* No device overwrites another's work blind.  What a text was made from   *)
(* is defined by recursion over `over`; what is shown of it here holds of  *)
(* every function that solves the equation, and there always is one.       *)

Lined(L, o) == L = [n \in Texts |-> IF n = 0 THEN {0} ELSE {n} \cup L[o[n]]]

\* A text took the place of one there was, and the texts to come of none.
Backward(o, m) == \A n \in 1..MaxTexts : o[n] <= m /\ (n > m => o[n] = 0)

\* The lineages once the text `k` took the place of `x`.
Later(L, M, k, x) ==
  /\ \A n \in Texts : n # k => M[n] = L[n]
  /\ L[k] = {k, 0} /\ M[k] = {k} \cup L[x]

LEMMA LinedAt ==
  ASSUME ThemeAssumption, NEW o, NEW L, Lined(L, o)
  PROVE  L[0] = {0} /\ \A n \in Texts \ {0} : L[n] = {n} \cup L[o[n]]
<1>1. 0 \in Texts
  BY DEF ThemeAssumption, Texts
<1>2. \A n \in Texts : L[n] = IF n = 0 THEN {0} ELSE {n} \cup L[o[n]]
  BY Zenon DEF Lined
<1> QED BY <1>1, <1>2

\* A function that is this at every text is a lineage.
LEMMA LinedFrom ==
  ASSUME NEW o, NEW L, NEW A, L \in [Texts -> A], L[0] = {0}, \A n \in Texts \ {0} : L[n] = {n} \cup L[o[n]]
  PROVE  Lined(L, o)
<1> DEFINE f(n) == IF n = 0 THEN {0} ELSE {n} \cup L[o[n]]
<1>1. \A n \in Texts : L[n] = f(n)
  OBVIOUS
<1> HIDE DEF f
<1>2. L = [n \in Texts |-> f(n)]
  BY <1>1
<1> QED BY <1>2 DEF Lined, f

\* One more text: a lineage of the texts with it, and of those before it, whichever comes first.
LEMMA LinesGrow ==
  ASSUME ThemeAssumption, NEW o \in [1..MaxTexts -> Texts], NEW m \in Texts, m < MaxTexts, NEW x \in Texts, x <= m,
         Backward(o, m), NEW o2, o2 = [o EXCEPT ![m + 1] = x]
  PROVE  /\ Backward(o2, m + 1)
         /\ (\E L : Lined(L, o)) => \E M : Lined(M, o2)
         /\ \A M : Lined(M, o2) => \E L : Lined(L, o) /\ Later(L, M, m + 1, x)
<1> DEFINE k == m + 1
<1>1. /\ k \in Texts \ {0} /\ k \in 1..MaxTexts /\ 0 \in Texts /\ x # k
      /\ \A n \in Texts \ {0} : n \in 1..MaxTexts
  BY DEF ThemeAssumption, Texts
<1>2. o[k] = 0 /\ \A n \in 1..MaxTexts : o[n] # k /\ o[n] \in Texts
  <2>1. k > m /\ \A n \in 1..MaxTexts : o[n] \in Texts /\ o[n] \in Nat /\ m \in Nat
    BY DEF ThemeAssumption, Texts
  <2> QED BY <1>1, <2>1 DEF Backward
<1>3. o2[k] = x /\ \A n \in 1..MaxTexts : n # k => o2[n] = o[n]
  BY <1>1
<1>4. Backward(o2, k)
  <2> SUFFICES ASSUME NEW n \in 1..MaxTexts PROVE o2[n] <= k /\ (n > k => o2[n] = 0)
    BY DEF Backward
  <2>1. m \in Nat /\ x \in Nat /\ o[n] \in Nat /\ n \in Nat
    BY DEF ThemeAssumption, Texts
  <2>2. CASE n = k
    BY <1>3, <2>1, <2>2
  <2>3. CASE n # k
    BY <1>3, <2>1, <2>3 DEF Backward
  <2> QED BY <2>2, <2>3
<1> HIDE DEF k
<1>5. ASSUME NEW L, Lined(L, o) PROVE \E M : Lined(M, o2)
  <2>1. L[0] = {0} /\ \A n \in Texts \ {0} : L[n] = {n} \cup L[o[n]]
    BY <1>5, LinedAt
  <2> DEFINE M == [n \in Texts |-> IF n = k THEN {k} \cup L[x] ELSE L[n]]
  <2>2. M[k] = {k} \cup L[x] /\ \A n \in Texts : n # k => M[n] = L[n]
    BY <1>1
  <2> DEFINE A == {M[n] : n \in Texts}
  <2>3. M \in [Texts -> A]
    OBVIOUS
  <2> HIDE DEF M, A
  <2>4. M[0] = {0} /\ M[x] = L[x]
    BY <1>1, <2>1, <2>2
  <2>5. ASSUME NEW n \in Texts \ {0} PROVE M[n] = {n} \cup M[o2[n]]
    <3>1. CASE n = k
      BY <1>3, <2>2, <2>4, <3>1
    <3>2. CASE n # k
      <4>1. n \in 1..MaxTexts
        BY <1>1
      <4>2. o2[n] = o[n] /\ o[n] \in Texts /\ o[n] # k
        BY <1>2, <1>3, <3>2, <4>1
      <4>3. M[o2[n]] = L[o[n]] /\ M[n] = L[n]
        BY <2>2, <3>2, <4>2
      <4> QED BY <2>1, <4>3
    <3> QED BY <3>1, <3>2
  <2>6. Lined(M, o2)
    BY <2>3, <2>4, <2>5, LinedFrom
  <2> QED BY <2>6
<1>6. ASSUME NEW M, Lined(M, o2) PROVE \E L : Lined(L, o) /\ Later(L, M, k, x)
  <2>1. M[0] = {0} /\ \A n \in Texts \ {0} : M[n] = {n} \cup M[o2[n]]
    BY <1>6, LinedAt, ZenonT(60)
  <2> DEFINE L == [n \in Texts |-> IF n = k THEN {k, 0} ELSE M[n]]
  <2>2. L[k] = {k, 0} /\ \A n \in Texts : n # k => L[n] = M[n]
    BY <1>1
  <2> DEFINE A == {L[n] : n \in Texts}
  <2>3. L \in [Texts -> A]
    OBVIOUS
  <2> HIDE DEF L, A
  <2>4. L[0] = {0} /\ L[x] = M[x]
    BY <1>1, <2>1, <2>2
  <2>5. ASSUME NEW n \in Texts \ {0} PROVE L[n] = {n} \cup L[o[n]]
    <3>1. CASE n = k
      <4>1. L[o[n]] = {0} /\ L[n] = {n, 0}
        BY <1>2, <2>2, <2>4, <3>1
      <4> QED BY <4>1
    <3>2. CASE n # k
      <4>1. n \in 1..MaxTexts
        BY <1>1
      <4>2. o2[n] = o[n] /\ o[n] \in Texts /\ o[n] # k
        BY <1>2, <1>3, <3>2, <4>1
      <4>3. L[o[n]] = M[o2[n]] /\ M[n] = L[n]
        BY <2>2, <3>2, <4>2
      <4> QED BY <2>1, <4>3
    <3> QED BY <3>1, <3>2
  <2>6. Lined(L, o)
    BY <2>3, <2>4, <2>5, LinedFrom
  <2>7. M[k] = {k} \cup L[x]
    BY <1>1, <1>3, <2>1, <2>4
  <2>8. Later(L, M, k, x)
    BY <2>2, <2>7 DEF Later
  <2> QED BY <2>6, <2>8
<1> QED BY <1>4, <1>5, <1>6 DEF k

\* The oldest change of a queue was made of what it was made over, and every later one
\* of each before it.
Grounded(L, q, sh) ==
  /\ q # <<>> /\ q[1].base # None /\ sh[q[1].base] # Gone => sh[q[1].base] \in L[q[1].text]
  /\ \A i, j \in 1..Len(q) : i < j => L[q[i].text] \subseteq L[q[j].text]

\* So was a request nobody waits for.
StrayGrounded(L, e) ==
  e.base # None => /\ e.base \in 1..Len(shelf[e.id])
                   /\ shelf[e.id][e.base] # Gone => shelf[e.id][e.base] \in L[e.text]

QueuesGrounded(L) == \A d \in Devices, t \in Ids : Grounded(L, queue[d][t], shelf[t])

LinesGrounded(L) ==
  /\ \A n \in Texts : 0 \in L[n]
  /\ QueuesGrounded(L)
  /\ \A e \in stray : StrayGrounded(L, e)

LineInv ==
  /\ Backward(over, texts)
  /\ \E L : Lined(L, over)
  /\ \A L : Lined(L, over) => LinesGrounded(L)

LEMMA EmptyGrounded == ASSUME NEW L, NEW sh PROVE Grounded(L, <<>>, sh)
  BY DEF Grounded

\* One change is grounded when it is.
LEMMA OneGrounded ==
  ASSUME NEW L, NEW q, Len(q) = 1, NEW sh, q[1].base # None /\ sh[q[1].base] # Gone => sh[q[1].base] \in L[q[1].text]
  PROVE  Grounded(L, q, sh)
  BY DEF Grounded

\* Lineages only grow, and those of the texts there are stay as they were.
LEMMA LaterGrows ==
  ASSUME NEW L, NEW M, NEW k, NEW x, Later(L, M, k, x), 0 \in L[x]
  PROVE  \A n \in Texts : L[n] \subseteq M[n]
<1> TAKE n \in Texts
<1>1. CASE n = k
  BY <1>1 DEF Later
<1>2. CASE n # k
  BY <1>2 DEF Later
<1> QED BY <1>1, <1>2

LEMMA LaterGrounded ==
  ASSUME NEW t \in Ids, NEW q, SoundQueue(q, t), NEW L, NEW M, NEW k, NEW x, Later(L, M, k, x), 0 \in L[x],
         \A i \in 1..Len(q) : q[i].op = "put" => q[i].text # k, NEW sh, Grounded(L, q, sh)
  PROVE  Grounded(M, q, sh)
<1>1. q \in Seq(Entry) /\ Len(q) \in Nat /\ (q = <<>> <=> Len(q) = 0)
  BY EmptyOrNot DEF SoundQueue
<1>2. \A i \in 1..Len(q) : q[i].text \in Texts /\ L[q[i].text] \subseteq M[q[i].text]
  <2> TAKE i \in 1..Len(q)
  <2>1. q[i] \in Entry
    BY <1>1
  <2>2. q[i].text \in Texts
    BY <2>1 DEF Entry
  <2> QED BY <2>2, LaterGrows
<1>3. ASSUME NEW i \in 1..Len(q), NEW j \in 1..Len(q), i < j PROVE M[q[i].text] = L[q[i].text]
  <2>1. i \in 1..(Len(q) - 1)
    BY <1>1, <1>3
  <2>2. q[i].op = "put"
    BY <2>1 DEF SoundQueue
  <2> QED BY <1>2, <2>2 DEF Later
<1>4. \A i, j \in 1..Len(q) : i < j => M[q[i].text] \subseteq M[q[j].text]
  <2> SUFFICES ASSUME NEW i \in 1..Len(q), NEW j \in 1..Len(q), i < j PROVE M[q[i].text] \subseteq M[q[j].text]
    OBVIOUS
  <2>1. L[q[i].text] \subseteq L[q[j].text]
    BY DEF Grounded
  <2> QED BY <2>1, <1>2, <1>3
<1>5. q # <<>> => 1 \in 1..Len(q)
  BY <1>1
<1>6. q # <<>> => L[q[1].text] \subseteq M[q[1].text]
  BY <1>2, <1>5
<1> QED BY <1>4, <1>6 DEF Grounded

\* The same changes, over the revisions there were.
LEMMA AlikeGrounded ==
  ASSUME NEW t \in Ids, NEW q, SoundQueue(q, t), NEW q2 \in Seq(Entry), Alike(q, q2), NEW L, NEW sh, NEW sh2, Len(sh) \in Nat,
         \A i \in 1..Len(q) : q[i].base <= Len(sh), \A i \in 1..Len(sh) : sh2[i] = sh[i], Grounded(L, q, sh)
  PROVE  Grounded(L, q2, sh2)
<1>1. q \in Seq(Entry) /\ Len(q) \in Nat /\ (q = <<>> <=> Len(q) = 0) /\ Len(q2) = Len(q) /\ (q2 = <<>> <=> Len(q2) = 0)
  BY EmptyOrNot DEF SoundQueue, Alike
<1>2. \A i \in 1..Len(q) : q2[i].text = q[i].text /\ q2[i].base = q[i].base
  BY DEF Alike, Same
<1>3. \A i, j \in 1..Len(q2) : i < j => L[q2[i].text] \subseteq L[q2[j].text]
  BY <1>1, <1>2 DEF Grounded
<1>4. ASSUME q # <<>>, q[1].base # None PROVE sh2[q[1].base] = sh[q[1].base]
  <2>1. 1 \in 1..Len(q) /\ q[1] \in Entry
    BY <1>1, <1>4
  <2>2. Whole(q[1]) /\ q[1].base # Previous /\ q[1].base \in Int /\ q[1].base <= Len(sh)
    BY <1>4, <2>1 DEF SoundQueue, Entry
  <2>3. q[1].base \in 1..Len(sh)
    BY <1>4, <2>2 DEF Whole, None, Previous
  <2> QED BY <2>3
<1>5. q # <<>> => q2[1].text = q[1].text /\ q2[1].base = q[1].base
  BY <1>1, <1>2
<1>6. q2 # <<>> /\ q2[1].base # None /\ sh2[q2[1].base] # Gone => sh2[q2[1].base] \in L[q2[1].text]
  BY <1>1, <1>4, <1>5 DEF Grounded
<1> QED BY <1>3, <1>6 DEF Grounded

\* The player's change at the end is made of what he has before him, which is the newest
\* change of the queue, or what was noted.
LEMMA EndedGrounded ==
  ASSUME NEW t \in Ids, NEW q, SoundQueue(q, t), NEW q2 \in Seq(Entry), NEW e, Ended(q, q2, e),
         NEW L, NEW M, NEW k, NEW x, Later(L, M, k, x), 0 \in L[x], e.text = k,
         \A i \in 1..Len(q) : q[i].op = "put" => q[i].text # k, q # <<>> => LastOf(q).op = "put" /\ LastOf(q).text = x,
         NEW sh, Grounded(L, q, sh), Len(q2) = Len(q) => e.base = LastOf(q).base,
         q = <<>> /\ e.base # None => sh[e.base] \in L[x]
  PROVE  Grounded(M, q2, sh)
<1>1. q \in Seq(Entry) /\ Len(q) \in Nat /\ (q = <<>> <=> Len(q) = 0) /\ Len(q2) \in Nat
  BY EmptyOrNot DEF SoundQueue
<1>2. /\ Len(q2) >= 1 /\ q2[Len(q2)] = e
      /\ \A i \in 1..Len(q2) : i < Len(q2) => i \in 1..Len(q) /\ q2[i] = q[i]
      /\ Len(q2) = 1 => Len(q) = 0 \/ (Len(q) = 1 /\ Len(q2) = Len(q))
  <2>1. CASE Len(q2) = Len(q) + 1 /\ q2[Len(q2)] = e /\ \A i \in 1..Len(q) : q2[i] = q[i]
    BY <2>1, <1>1
  <2>2. CASE Len(q) > 0 /\ Len(q2) = Len(q) /\ q2[Len(q2)] = e /\ \A i \in 1..(Len(q) - 1) : q2[i] = q[i]
    BY <2>2, <1>1
  <2> QED BY <2>1, <2>2 DEF Ended
<1>3. ASSUME NEW i \in 1..Len(q) PROVE M[q[i].text] = L[q[i].text] /\ L[q[i].text] \subseteq L[x]
  <2>1. q[i] \in Entry /\ Len(q) \in 1..Len(q) /\ q # <<>>
    BY <1>1
  <2>2. q[i].text \in Texts
    BY <2>1 DEF Entry
  <2>3. i = Len(q) \/ i < Len(q)
    BY <1>1
  <2>4. CASE i = Len(q)
    BY <2>1, <2>2, <2>4 DEF Later, LastOf
  <2>5. CASE i < Len(q)
    <3>1. i \in 1..(Len(q) - 1)
      BY <1>1, <2>5
    <3>2. q[i].op = "put"
      BY <3>1 DEF SoundQueue
    <3>3. L[q[i].text] \subseteq L[q[Len(q)].text]
      BY <2>1, <2>5 DEF Grounded
    <3> QED BY <2>1, <2>2, <3>2, <3>3 DEF Later, LastOf
  <2> QED BY <2>3, <2>4, <2>5
<1>4. L[x] \subseteq M[e.text]
  BY DEF Later
<1>5. \A i, j \in 1..Len(q2) : i < j => M[q2[i].text] \subseteq M[q2[j].text]
  <2> SUFFICES ASSUME NEW i \in 1..Len(q2), NEW j \in 1..Len(q2), i < j PROVE M[q2[i].text] \subseteq M[q2[j].text]
    OBVIOUS
  <2>1. i < Len(q2) /\ (j < Len(q2) \/ j = Len(q2))
    BY <1>1
  <2>2. i \in 1..Len(q) /\ q2[i] = q[i]
    BY <1>2, <2>1
  <2>3. CASE j < Len(q2)
    <3>1. j \in 1..Len(q) /\ q2[j] = q[j]
      BY <1>2, <2>3
    <3>2. L[q[i].text] \subseteq L[q[j].text]
      BY <2>2, <3>1 DEF Grounded
    <3> QED BY <1>3, <2>2, <3>1, <3>2
  <2>4. CASE j = Len(q2)
    BY <1>2, <1>3, <1>4, <2>2, <2>4
  <2> QED BY <2>1, <2>3, <2>4
<1>6. ASSUME q2[1].base # None, sh[q2[1].base] # Gone PROVE sh[q2[1].base] \in M[q2[1].text]
  <2>1. CASE Len(q2) = 1 /\ Len(q) = 0
    BY <1>1, <1>2, <1>4, <1>6, <2>1
  <2>2. CASE Len(q2) = 1 /\ Len(q) = 1
    <3>1. q2[1] = e /\ e.base = q[1].base /\ q # <<>> /\ 1 \in 1..Len(q)
      BY <1>1, <1>2, <2>2 DEF LastOf
    <3>2. sh[q[1].base] \in L[q[1].text]
      BY <1>6, <3>1 DEF Grounded
    <3> QED BY <1>3, <1>4, <3>1, <3>2
  <2>3. CASE Len(q2) # 1
    <3>1. 1 \in 1..Len(q2) /\ 1 < Len(q2)
      <4>1. Len(q2) \in Nat /\ Len(q2) >= 1
        BY <1>1, <1>2
      <4>2. \A m \in Nat : m >= 1 /\ m # 1 => 1 \in 1..m /\ 1 < m
        OBVIOUS
      <4> QED BY <4>1, <4>2, <2>3
    <3>2. 1 \in 1..Len(q) /\ q2[1] = q[1] /\ q # <<>>
      BY <1>1, <1>2, <3>1
    <3> QED BY <1>3, <1>6, <3>2 DEF Grounded
  <2> QED BY <1>2, <2>1, <2>2, <2>3
<1> QED BY <1>5, <1>6 DEF Grounded

\* What was queued behind the answered change was made of it.
LEMMA FollowingGrounded ==
  ASSUME NEW t \in Ids, NEW q, SoundQueue(q, t), q # <<>>, NEW live \in BOOLEAN, NEW rev \in Nat, NEW L, NEW sh,
         live => sh[rev] \in L[q[1].text], Grounded(L, q, sh)
  PROVE  Grounded(L, Following(q, live, rev), sh)
<1> DEFINE q2 == Following(q, live, rev)
           e == Based(q[2], IF live THEN rev ELSE None)
<1>1. q \in Seq(Entry) /\ Len(q) \in Nat /\ Len(q) >= 1
  BY EmptyOrNot DEF SoundQueue
<1> HIDE DEF q2, e
<1>2. CASE q2 = <<>>
  BY <1>2, EmptyGrounded DEF q2
<1>3. CASE /\ q2 \in Seq(Entry) /\ Len(q2) = Len(q) - 1 /\ Len(q) > 1
           /\ q2[1] = e /\ \A i \in 2..Len(q2) : q2[i] = q[i + 1]
  <2>1. q[2] \in Entry /\ 1 \in 1..Len(q) /\ 2 \in 1..Len(q)
    BY <1>1, <1>3
  <2>2. e.text = q[2].text /\ e.base = IF live THEN rev ELSE None
    <3> DEFINE base == IF live THEN rev ELSE None
    <3>1. base \in Int
      BY DEF None
    <3> HIDE DEF base
    <3>2. Based(q[2], base).base = base /\ Based(q[2], base).text = q[2].text
      BY <2>1, <3>1, BasedIsEntry
    <3> QED BY <3>2 DEF e, base
  <2>3. \A i \in 1..Len(q2) : i + 1 \in 1..Len(q) /\ q2[i].text = q[i + 1].text
    <3> TAKE i \in 1..Len(q2)
    <3>1. CASE i = 1
      BY <3>1, <2>2, <1>1, <1>3
    <3>2. CASE i # 1
      BY <3>2, <1>1, <1>3
    <3> QED BY <3>1, <3>2
  <2>4. \A i, j \in 1..Len(q2) : i < j => L[q2[i].text] \subseteq L[q2[j].text]
    <3> SUFFICES ASSUME NEW i \in 1..Len(q2), NEW j \in 1..Len(q2), i < j PROVE L[q2[i].text] \subseteq L[q2[j].text]
      OBVIOUS
    <3>1. i + 1 < j + 1
      BY <1>1, <1>3
    <3>2. L[q[i + 1].text] \subseteq L[q[j + 1].text]
      BY <2>3, <3>1 DEF Grounded
    <3> QED BY <2>3, <3>2
  <2>5. L[q[1].text] \subseteq L[q[2].text]
    BY <2>1 DEF Grounded
  <2>6. q2[1].base # None => live /\ sh[q2[1].base] \in L[q2[1].text]
    BY <1>3, <2>2, <2>5
  <2> QED BY <2>4, <2>6 DEF Grounded, q2
<1> QED BY <1>2, <1>3, FollowingLeaves DEF q2, e

\* What a refusal folds into the oldest change was made of it.
LEMMA RefusedGrounded ==
  ASSUME ThemeAssumption, NEW t \in Ids, NEW q, SoundQueue(q, t), q # <<>>, NEW hold \in Holds,
         NEW tries \in 0..(Tries + 1), NEW k \in Keys, NEW L, NEW sh, Len(sh) \in Nat,
         \A i \in 1..Len(q) : q[i].base <= Len(sh), Grounded(L, q, sh)
  PROVE  Grounded(L, PlanRefused(q, hold, tries, k), sh)
<1> DEFINE q2 == PlanRefused(q, hold, tries, k)
           e == Fresh(t, LastOf(q).op, LastOf(q).text, q[1].base, k)
<1>1. e.text = LastOf(q).text /\ e.base = q[1].base
  BY DEF Fresh
<1> HIDE DEF q2, e
<1>2. CASE q2 = MarkedAs(q, tries, hold)
  <2>1. q2 \in Seq(Entry) /\ Alike(q, q2)
    BY <1>2, MarkedAlike
  <2>2. Grounded(L, q2, sh)
    BY <2>1, AlikeGrounded
  <2> QED BY <2>2 DEF q2
<1>3. CASE q2 = <<>>
  BY <1>3, EmptyGrounded DEF q2
<1>4. CASE Len(q) > 1 /\ Len(q2) = 1 /\ q2[1] = e
  <2>1. Len(q) \in Nat /\ 1 \in 1..Len(q) /\ Len(q) \in 1..Len(q)
    BY <1>4, EmptyOrNot DEF SoundQueue
  <2>2. L[q[1].text] \subseteq L[e.text]
    BY <1>1, <1>4, <2>1 DEF Grounded, LastOf
  <2>3. e.base # None /\ sh[e.base] # Gone => sh[e.base] \in L[e.text]
    BY <1>1, <2>2 DEF Grounded
  <2>4. Grounded(L, q2, sh)
    BY <1>4, <2>3, OneGrounded
  <2> QED BY <2>4 DEF q2
<1> QED BY <1>2, <1>3, <1>4, RefusedLeaves DEF q2, e

\* The player's step, on the queue it changes: what is before him is what he changes.
LEMMA PlayerGrounded ==
  ASSUME Sound, ThemeAssumption, NoteInv, TextsMade, NEW d \in Devices, NEW t \in Ids, Save(d, t) \/ Delete(d, t),
         NEW L, NEW M, Later(L, M, texts + 1, library[d][t].text), library[d][t].text \in L[library[d][t].text],
         0 \in L[library[d][t].text], Grounded(L, queue[d][t], shelf[t])
  PROVE  \E q2 \in Seq(Entry) : queue' = [queue EXCEPT ![d][t] = q2] /\ Grounded(M, q2, shelf[t])
<1> DEFINE q == queue[d][t]  n == noted[d][t]  row == library[d][t]  k == texts + 1
<1>1. /\ q \in Seq(Entry) /\ Len(q) \in Nat /\ (q = <<>> <=> Len(q) = 0) /\ SoundQueue(q, t) /\ Fits(q, row)
      /\ n \in Noted /\ NoteOk(q, row, n, shelf[t]) /\ row \in Row
  <2>1. q \in Seq(Entry) /\ SoundQueue(q, t) /\ Fits(q, row)
    BY DEF Sound, TypeOK, QueuesSound
  <2>2. n \in Noted /\ row \in Row /\ NoteOk(q, row, n, shelf[t])
    BY DEF Sound, TypeOK, NoteInv, NotesOk
  <2> QED BY <2>1, <2>2, EmptyOrNot
<1>2. texts \in Nat /\ k \in Texts \ {0} /\ texts < MaxTexts
  <2>1. texts < MaxTexts
    BY DEF Save, Delete, Change
  <2> QED BY <2>1 DEF Sound, TypeOK, Texts, ThemeAssumption
<1>3. \A i \in 1..Len(q) : q[i].op = "put" => q[i].text # k
  <2> SUFFICES ASSUME NEW i \in 1..Len(q), q[i].op = "put" PROVE q[i].text # k
    OBVIOUS
  <2>1. q[i].text <= texts
    BY DEF TextsMade
  <2> QED BY <1>2, <2>1
<1>4. q # <<>> => LastOf(q).op = "put" /\ LastOf(q).text = row.text
  <2>1. q # <<>> => row.state = "saved"
    BY <1>1 DEF Save, Delete, Fits, NextUnused, Unused, NoRow
  <2> QED BY <1>1, <2>1 DEF Fits
<1>5. q = <<>> /\ FromRemote(n) # None => shelf[t][FromRemote(n)] = row.text
  BY <1>1 DEF NoteOk, FromRemote
<1>6. ASSUME NEW q2 \in Seq(Entry), NEW e, Ended(q, q2, e), e.text = k, Len(q2) = Len(q) => e.base = LastOf(q).base,
             q = <<>> => e.base = FromRemote(n)
      PROVE  Grounded(M, q2, shelf[t])
  <2> DEFINE x == row.text  sh == shelf[t]
  <2>1. Later(L, M, k, x) /\ x \in L[x] /\ 0 \in L[x] /\ Grounded(L, q, sh)
    OBVIOUS
  <2>2. q = <<>> /\ e.base # None => sh[e.base] \in L[x]
    BY <1>5, <1>6, <2>1
  <2>3. q # <<>> => LastOf(q).op = "put" /\ LastOf(q).text = x
    BY <1>4
  <2>4. SoundQueue(q, t) /\ Ended(q, q2, e) /\ e.text = k /\ (Len(q2) = Len(q) => e.base = LastOf(q).base)
    BY <1>1, <1>6
  <2> HIDE DEF q, x, sh, k
  <2>5. Grounded(M, q2, sh)
    BY <1>3, <2>1, <2>2, <2>3, <2>4, EndedGrounded
  <2> QED BY <2>5 DEF sh
<1>7. CASE Save(d, t)
  <2>1. PICK key \in Keys : Change(d, t, [state |-> "saved", text |-> k], PlanPut(q, n, t, k, key))
    BY <1>7 DEF Save
  <2> DEFINE q2 == PlanPut(q, n, t, k, key)
  <2>2. queue' = [queue EXCEPT ![d][t] = q2]
    BY <2>1 DEF Change
  <2>3. PICK base \in Int, kk \in Keys :
          /\ q2 \in Seq(Entry) /\ q2 # <<>> /\ Ended(q, q2, Fresh(t, "put", k, base, kk))
          /\ Len(q2) = Len(q) => /\ LastOf(q).op = "put" /\ NotReached(LastOf(q)) /\ base = LastOf(q).base
                                 /\ kk = key \/ (Unsent(LastOf(q)) /\ kk = LastOf(q).key)
          /\ Len(q2) # Len(q) => kk = key /\ base = IF q = <<>> THEN FromRemote(n) ELSE Previous
    BY <1>1, <1>2, PutEnds
  <2> DEFINE e == Fresh(t, "put", k, base, kk)
  <2>4. e.text = k /\ e.base = base
    BY DEF Fresh
  <2> HIDE DEF q2, e, q
  <2>5. q = <<>> => base = FromRemote(n)
    <3>1. q = <<>> => Len(q2) # Len(q)
      BY <1>1, <2>3, EmptyOrNot
    <3> QED BY <2>3, <3>1
  <2>6. Grounded(M, q2, shelf[t])
    BY <1>6, <2>3, <2>4, <2>5 DEF e
  <2> QED BY <2>2, <2>3, <2>6
<1>8. CASE Delete(d, t)
  <2>1. PICK key \in Keys : Change(d, t, [state |-> "gone", text |-> Gone], PlanDelete(q, n, t, k, key))
    BY <1>8 DEF Delete
  <2> DEFINE q2 == PlanDelete(q, n, t, k, key)
  <2>2. queue' = [queue EXCEPT ![d][t] = q2]
    BY <2>1 DEF Change
  <2>3. q2 \in Seq(Entry) /\ Grounded(M, q2, shelf[t])
    <3>1. CASE q2 = <<>>
      <4> HIDE DEF q2
      <4>1. <<>> \in Seq(Entry)
        OBVIOUS
      <4> QED BY <3>1, <4>1, EmptyGrounded
    <3>2. ASSUME NEW base \in Int \ {None}, q2 \in Seq(Entry), q2 # <<>>, Ended(q, q2, Fresh(t, "delete", k, base, key)),
                 Len(q2) = Len(q) => Len(q) = 1 /\ NotReached(q[1]) /\ base = q[1].base,
                 Len(q2) # Len(q) => base = IF q = <<>> THEN FromRemote(n) ELSE Previous
          PROVE  q2 \in Seq(Entry) /\ Grounded(M, q2, shelf[t])
      <4> DEFINE e == Fresh(t, "delete", k, base, key)
      <4>1. e.text = k /\ e.base = base
        BY DEF Fresh
      <4> HIDE DEF q2, e, q
      <4>2. q = <<>> => base = FromRemote(n)
        <5>1. q = <<>> => Len(q2) # Len(q)
          BY <1>1, <3>2, EmptyOrNot
        <5> QED BY <3>2, <5>1
      <4>3. Len(q2) = Len(q) => e.base = LastOf(q).base
        BY <3>2, <4>1 DEF LastOf
      <4> QED BY <1>6, <3>2, <4>1, <4>2, <4>3 DEF e
    <3>3. k \in Texts
      BY <1>2
    <3> HIDE DEF q, k
    <3> QED BY <3>1, <3>2, <3>3, <1>1, DeleteEnds DEF q2
  <2> HIDE DEF q2, q
  <2> QED BY <2>2, <2>3
<1> QED BY <1>7, <1>8

\* The pass's steps, on the queue it settles.
LEMMA PassGrounded ==
  ASSUME Sound, ThemeAssumption, NoteInv, NEW d \in Devices, Confirm(d) \/ Refuse(d),
         NEW L, \A n \in Texts : n \in L[n], Grounded(L, Mine(d), shelf[flight[d].id])
  PROVE  \E q2 \in Seq(Entry) : SetMine(d, q2) /\ Grounded(L, q2, shelf[flight[d].id])
<1> DEFINE t == flight[d].id  q == Mine(d)  a == answer[d]  sh == shelf[t]
<1>1. place[d] = "settle"
  BY DEF Confirm, Refuse, Answered, At
<1>2. /\ t \in Ids /\ q # <<>> /\ SoundQueue(q, t) /\ Fits(q, library[d][t]) /\ flight[d] = q[1]
      /\ flight[d] \in Entry /\ flight[d].tries \in 0..(Tries + 1) /\ a \in Answer
  BY <1>1, AtSettle
<1>3. Len(sh) \in Nat /\ \A i \in 1..Len(q) : q[i].base <= Len(sh)
  <2>1. NoteOk(q, library[d][t], noted[d][t], sh)
    BY <1>2 DEF NoteInv, NotesOk, Mine
  <2>2. sh \in Seq(Texts)
    BY <1>2 DEF Sound, TypeOK
  <2> QED BY <2>1, <2>2, EmptyOrNot DEF NoteOk
<1>4. CASE Confirm(d)
  <2> DEFINE live == a.text # Gone  rev == a.revision  q2 == Following(q, live, rev)
  <2>1. /\ a.kind \in {"ok", "conflict"} /\ Confirms(flight[d], a) /\ SetMine(d, q2)
        /\ Stood(t, rev, a.text) /\ (a.kind = "ok" => a.text = After(flight[d]))
    BY <1>4 DEF Confirm, Answered, At, NoteInv, AnswersStand
  <2>2. live \in BOOLEAN /\ rev \in Nat /\ (live => rev >= 1)
    BY <1>2, <2>1 DEF Answer, Stood, Revision
  <2>3. live => sh[rev] \in L[q[1].text]
    <3>1. a.text # Gone => a.text = flight[d].text
      BY <1>2, <2>1 DEF Confirms, After, Entry
    <3>2. flight[d].text \in L[flight[d].text]
      BY <1>2 DEF Entry
    <3>3. sh[rev] = a.text
      BY <2>1 DEF Stood
    <3> QED BY <1>2, <3>1, <3>2, <3>3
  <2>4. Grounded(L, q, sh)
    OBVIOUS
  <2> HIDE DEF q, t, a, sh, live, rev
  <2>5. Grounded(L, q2, sh)
    BY <1>2, <2>2, <2>3, <2>4, FollowingGrounded
  <2>6. q2 \in Seq(Entry)
    BY <1>2, <2>2, FollowingSound DEF SoundQueue
  <2> QED BY <2>1, <2>5, <2>6 DEF sh, t
<1>5. CASE Refuse(d)
  <2> DEFINE hold == IF a.kind = "full" THEN "library-full" ELSE "invalid"
  <2>1. PICK k \in Keys : SetMine(d, PlanRefused(q, hold, flight[d].tries, k))
    BY <1>5 DEF Refuse
  <2>2. hold \in Holds
    BY DEF Holds
  <2> DEFINE q2 == PlanRefused(q, hold, flight[d].tries, k)
  <2>3. Grounded(L, q, sh)
    OBVIOUS
  <2> HIDE DEF q, t, a, sh, hold
  <2>4. Grounded(L, q2, sh)
    BY <1>2, <1>3, <2>2, <2>3, RefusedGrounded
  <2>5. q2 \in Seq(Entry)
    <3>1. SoundQueue(q2, t)
      BY <1>2, <2>2, RefusedSound
    <3> HIDE DEF q2
    <3> QED BY <3>1 DEF SoundQueue
  <2> QED BY <2>1, <2>4, <2>5 DEF sh, t
<1> QED BY <1>4, <1>5

\* What leaves a device is the oldest change of its queue.
LEMMA AbandonedGrounded ==
  ASSUME Sound, NoteInv, NEW L, QueuesGrounded(L), NEW d \in Devices, place[d] = "sent"
  PROVE  flight[d] \in Entry /\ StrayGrounded(L, flight[d])
<1> DEFINE e == flight[d]  t == e.id  q == queue[d][t]
<1>1. e \in Entry /\ t \in Ids /\ Whole(e) /\ e.base # Previous /\ q # <<>> /\ e = q[1] /\ 1 \in 1..Len(q)
  BY SentBased
<1>2. Grounded(L, q, shelf[t])
  BY <1>1 DEF QueuesGrounded
<1>3. e.base <= Len(shelf[t])
  <2>1. NoteOk(q, library[d][t], noted[d][t], shelf[t])
    BY <1>1 DEF NoteInv, NotesOk
  <2>2. \A i \in 1..Len(q) : q[i].base <= Len(shelf[t])
    BY <2>1 DEF NoteOk
  <2> QED BY <1>1, <2>2
<1>4. e.base # None => e.base \in 1..Len(shelf[t])
  <2>1. e.base \in Int /\ Len(shelf[t]) \in Nat
    <3>1. shelf[t] \in Seq(Texts)
      BY <1>1 DEF Sound, TypeOK
    <3> QED BY <1>1, <3>1, EmptyOrNot DEF Entry
  <2> QED BY <1>1, <1>3, <2>1 DEF Whole, None, Previous
<1> HIDE DEF t
<1>5. q[1].text = e.text /\ q[1].base = e.base
  BY <1>1
<1> HIDE DEF e, q
<1>6. StrayGrounded(L, e)
  BY <1>1, <1>2, <1>4, <1>5 DEF Grounded, StrayGrounded, t
<1> QED BY <1>1, <1>6 DEF e

\* What a queue's changes were made over, the theme has.
LEMMA QueueFacts ==
  ASSUME Sound, ThemeAssumption, NoteInv, [Next]_vars, NEW c \in Devices, NEW s \in Ids
  PROVE  /\ SoundQueue(queue[c][s], s) /\ Len(shelf[s]) \in Nat /\ queue'[c][s] \in Seq(Entry)
         /\ \A i \in 1..Len(queue[c][s]) : queue[c][s][i].base <= Len(shelf[s])
         /\ \A i \in 1..Len(shelf[s]) : shelf'[s][i] = shelf[s][i]
<1>1. NoteOk(queue[c][s], library[c][s], noted[c][s], shelf[s])
  BY DEF NoteInv, NotesOk
<1>2. Sound'
  BY SoundStep
<1>3. queue'[c][s] \in Seq(Entry) /\ SoundQueue(queue[c][s], s)
  BY <1>2 DEF Sound, TypeOK, QueuesSound
<1> QED BY <1>1, <1>3, ShelfGrows DEF NoteOk

\* One queue is what a step left of it, and the others are as they were.
LEMMA OneQueueGrounded ==
  ASSUME Sound, NEW d \in Devices, NEW t \in Ids, NEW q2 \in Seq(Entry), queue' = [queue EXCEPT ![d][t] = q2], shelf' = shelf,
         NEW L, Grounded(L, q2, shelf[t]), \A c \in Devices, s \in Ids : Grounded(L, queue[c][s], shelf[s]) \/ (c = d /\ s = t)
  PROVE  QueuesGrounded(L)'
<1>1. /\ queue'[d][t] = q2 /\ \A r \in Ids : r # t => queue'[d][r] = queue[d][r]
      /\ \A b \in Devices : b # d => queue'[b] = queue[b]
  BY OneQueue, ZenonT(60) DEF Sound
<1>2. ASSUME NEW c \in Devices, NEW s \in Ids PROVE Grounded(L, queue'[c][s], shelf'[s])
  <2>1. CASE c = d /\ s = t
    BY <1>1, <2>1
  <2>2. CASE ~(c = d /\ s = t)
    <3>1. queue'[c][s] = queue[c][s]
      BY <1>1, <2>2
    <3> QED BY <2>2, <3>1
  <2> QED BY <2>1, <2>2
<1> QED BY <1>2 DEF QueuesGrounded, Grounded, Ids

\* No answer, conflict, refusal or wait sets a change upon what it was not made of.
LEMMA QueuesStay ==
  ASSUME Sound, ThemeAssumption, NoteInv, [Next]_vars, NEW L, \A n \in Texts : n \in L[n], QueuesGrounded(L)
  PROVE  (\E d \in Devices, t \in Ids : Save(d, t) \/ Delete(d, t)) \/ QueuesGrounded(L)'
<1>1. ASSUME NEW c \in Devices, NEW s \in Ids, Alike(queue[c][s], queue'[c][s]) PROVE Grounded(L, queue'[c][s], shelf'[s])
  <2>1. Grounded(L, queue[c][s], shelf[s])
    BY DEF QueuesGrounded
  <2> QED BY <1>1, <2>1, QueueFacts, AlikeGrounded
<1>2. ASSUME NEW d \in Devices, Confirm(d) \/ Refuse(d) PROVE QueuesGrounded(L)'
  <2> DEFINE t == flight[d].id
  <2>1. place[d] = "settle" /\ shelf' = shelf
    BY <1>2 DEF Confirm, Refuse, Answered, At, server
  <2>2. t \in Ids /\ Grounded(L, Mine(d), shelf[t])
    BY <2>1, AtSettle DEF QueuesGrounded, Mine
  <2>3. PICK q2 \in Seq(Entry) : SetMine(d, q2) /\ Grounded(L, q2, shelf[t])
    BY <1>2, <2>2, PassGrounded
  <2>4. queue' = [queue EXCEPT ![d][t] = q2]
    BY <2>3 DEF SetMine
  <2> HIDE DEF t
  <2> QED BY <2>1, <2>2, <2>3, <2>4, OneQueueGrounded DEF QueuesGrounded
<1>3. ASSUME NEW d \in Devices, Resolve(d), NEW c \in Devices, NEW s \in Ids PROVE Grounded(L, queue'[c][s], shelf'[s])
  <2> DEFINE t == flight[d].id
  <2>1. /\ queue'[d][t] = <<>> /\ t \in Ids /\ \A b \in Devices : b # d => queue'[b] = queue[b]
        /\ \/ \A r \in Ids : r # t => queue'[d][r] = queue[d][r]
           \/ \E n \in Ids, k \in Keys : CopyMade(d, t, n, k)
    BY <1>3, ResolveLeaves
  <2> HIDE DEF t
  <2>2. CASE queue'[c][s] = queue[c][s]
    BY <1>1, <2>2, AlikeItself
  <2>3. CASE queue'[c][s] = <<>>
    BY <2>3, EmptyGrounded
  <2>4. ASSUME NEW n \in Ids, NEW k \in Keys, CopyMade(d, t, n, k), c = d, s = n
        PROVE  Grounded(L, queue'[c][s], shelf'[s])
    <3> DEFINE e == Fresh(n, "put", library[d][t].text, None, k)
    <3>1. e.base = None
      BY DEF Fresh
    <3>2. queue'[c][s] = <<e>>
      BY <2>4 DEF CopyMade
    <3> HIDE DEF e
    <3>3. Len(<<e>>) = 1 /\ <<e>>[1] = e
      OBVIOUS
    <3>4. Grounded(L, <<e>>, shelf'[s])
      BY <3>1, <3>3, OneGrounded
    <3> QED BY <3>2, <3>4
  <2>5. ASSUME NEW n \in Ids, NEW k \in Keys, CopyMade(d, t, n, k), c = d, s # t, s # n
        PROVE  queue'[c][s] = queue[c][s]
    BY <2>5 DEF CopyMade
  <2> QED BY <2>1, <2>2, <2>3, <2>4, <2>5
<1>4. ASSUME \A c \in Devices, s \in Ids : Grounded(L, queue'[c][s], shelf'[s]) PROVE QueuesGrounded(L)'
  BY <1>4 DEF QueuesGrounded, Grounded, Ids
<1> QED BY <1>1, <1>2, <1>3, <1>4, QueueSteps

\* What is abandoned stays grounded, for what a theme was at a revision it stays.
LEMMA StraysStay ==
  ASSUME Sound, ThemeAssumption, NoteInv, [Next]_vars, NEW L, LinesGrounded(L), NEW M, \A n \in Texts : L[n] \subseteq M[n]
  PROVE  \A e \in stray' : StrayGrounded(M, e)'
<1>1. ASSUME NEW e \in stray' PROVE e \in Entry /\ StrayGrounded(L, e)
  <2>1. CASE e \in stray
    BY <2>1 DEF LinesGrounded, Sound, TypeOK
  <2>2. ASSUME NEW d \in Devices, e \in Abandoned(d) PROVE e \in Entry /\ StrayGrounded(L, e)
    <3>1. place[d] = "sent" /\ e = flight[d]
      BY <2>2 DEF Abandoned, At
    <3> QED BY <3>1, AbandonedGrounded DEF LinesGrounded
  <2> QED BY <2>1, <2>2, StrayMoves
<1> TAKE e \in stray'
<1> SUFFICES ASSUME e.base # None
             PROVE  /\ e.base \in 1..Len(shelf'[e.id])
                    /\ shelf'[e.id][e.base] # Gone => shelf'[e.id][e.base] \in M[e.text]
  BY DEF StrayGrounded
<1>2. e.id \in Ids /\ e.text \in Texts
  BY <1>1 DEF Entry
<1>3. e.base \in 1..Len(shelf[e.id]) /\ (shelf[e.id][e.base] # Gone => shelf[e.id][e.base] \in L[e.text])
  BY <1>1 DEF StrayGrounded
<1>4. e.base \in 1..Len(shelf'[e.id]) /\ shelf'[e.id][e.base] = shelf[e.id][e.base]
  BY <1>2, <1>3, ShelfGrows
<1> QED BY <1>2, <1>3, <1>4

LEMMA LineInit == Init => LineInv
<1> SUFFICES ASSUME Init PROVE LineInv
  OBVIOUS
<1> USE ThemeAssumption
<1>1. /\ texts = 0 /\ stray = {} /\ over \in [1..MaxTexts -> Texts] /\ \A n \in 1..MaxTexts : over[n] = 0
      /\ \A d \in Devices, t \in Ids : queue[d][t] = <<>>
  BY DEF Init, Texts, ThemeAssumption
<1>2. 0 \in Texts /\ \A n \in Texts \ {0} : n \in 1..MaxTexts
  BY DEF ThemeAssumption, Texts
<1>3. Backward(over, texts)
  BY <1>1 DEF Backward
<1>4. \E L : Lined(L, over)
  <2> DEFINE L == [n \in Texts |-> IF n = 0 THEN {0} ELSE {n, 0}]
  <2>1. L[0] = {0} /\ \A n \in Texts \ {0} : L[n] = {n, 0}
    BY <1>2
  <2> DEFINE A == {L[n] : n \in Texts}
  <2>2. L \in [Texts -> A]
    OBVIOUS
  <2> HIDE DEF L, A
  <2>3. \A n \in Texts \ {0} : L[n] = {n} \cup L[over[n]]
    BY <1>1, <1>2, <2>1
  <2>4. Lined(L, over)
    BY <2>1, <2>2, <2>3, LinedFrom
  <2> QED BY <2>4
<1>5. ASSUME NEW L, Lined(L, over) PROVE LinesGrounded(L)
  <2>1. L[0] = {0} /\ \A n \in Texts \ {0} : L[n] = {n} \cup L[over[n]]
    BY <1>5, LinedAt
  <2>2. \A n \in Texts : 0 \in L[n]
    BY <1>1, <1>2, <2>1
  <2>3. QueuesGrounded(L)
    BY <1>1, EmptyGrounded DEF QueuesGrounded
  <2> QED BY <1>1, <2>2, <2>3 DEF LinesGrounded
<1> QED BY <1>3, <1>4, <1>5 DEF LineInv

\* What the player makes is made of what he has before him.
LEMMA MadeGrounded ==
  ASSUME Sound, ThemeAssumption, NoteInv, TextInv, [Next]_vars, NEW d \in Devices, NEW t \in Ids, Save(d, t) \/ Delete(d, t),
         NEW L, \A n \in Texts : n \in L[n], LinesGrounded(L), NEW M, \A n \in Texts : 0 \in M[n],
         Later(L, M, texts + 1, library[d][t].text)
  PROVE  LinesGrounded(M)'
<1> DEFINE x == library[d][t].text  k == texts + 1
<1>1. x \in Texts /\ 0 \in L[x] /\ x \in L[x]
  <2>1. library[d][t] \in Row
    BY DEF Sound, TypeOK
  <2> QED BY <2>1 DEF Row, LinesGrounded
<1>2. \A n \in Texts : L[n] \subseteq M[n]
  BY <1>1, LaterGrows
<1>3. \A e \in stray' : StrayGrounded(M, e)'
  BY <1>2, StraysStay
<1>4. ASSUME NEW c \in Devices, NEW s \in Ids PROVE Grounded(M, queue[c][s], shelf[s])
  <2> DEFINE q == queue[c][s]
  <2>1. SoundQueue(q, s) /\ Grounded(L, q, shelf[s])
    BY DEF Sound, QueuesSound, LinesGrounded, QueuesGrounded
  <2>2. ASSUME NEW i \in 1..Len(q), q[i].op = "put" PROVE q[i].text # k
    <3>1. q[i].text <= texts
      BY <2>2 DEF TextInv, TextsMade
    <3>2. q[i].text \in Nat /\ texts \in Nat
      <4>1. q[i] \in Entry
        BY <2>1 DEF SoundQueue
      <4>2. q[i].text \in Texts /\ texts \in Texts
        BY <4>1 DEF Entry, Sound, TypeOK
      <4> HIDE DEF q
      <4> QED BY <4>2 DEF Texts, ThemeAssumption
    <3> HIDE DEF q
    <3> QED BY <3>1, <3>2
  <2> HIDE DEF q, k, x
  <2>3. Later(L, M, k, x)
    BY DEF k, x
  <2>4. Grounded(M, q, shelf[s])
    BY <1>1, <2>1, <2>2, <2>3, LaterGrounded
  <2> QED BY <2>4 DEF q
<1>5. Grounded(L, queue[d][t], shelf[t])
  BY DEF LinesGrounded, QueuesGrounded
<1>6. PICK q2 \in Seq(Entry) : queue' = [queue EXCEPT ![d][t] = q2] /\ Grounded(M, q2, shelf[t])
  BY <1>1, <1>5, PlayerGrounded DEF TextInv
<1>7. shelf' = shelf
  BY DEF Save, Delete, Change, server
<1>8. QueuesGrounded(M)'
  BY <1>4, <1>6, <1>7, OneQueueGrounded
<1> QED BY <1>3, <1>8 DEF LinesGrounded

LEMMA LineStep == Sound /\ NoteInv /\ TextInv /\ LineInv /\ [Next]_vars => LineInv'
<1> SUFFICES ASSUME Sound, NoteInv, TextInv, LineInv, [Next]_vars PROVE LineInv'
  OBVIOUS
<1> USE ThemeAssumption
<1>1. ASSUME NEW L, Lined(L, over) PROVE LinesGrounded(L) /\ \A n \in Texts : n \in L[n]
  BY <1>1, LinedAt DEF LineInv
<1>2. CASE UNCHANGED <<texts, over>> /\ ~\E d \in Devices, t \in Ids : Save(d, t) \/ Delete(d, t)
  <2>1. ASSUME NEW L, Lined(L, over) PROVE LinesGrounded(L)'
    <3>1. LinesGrounded(L) /\ \A n \in Texts : n \in L[n]
      BY <1>1, <2>1
    <3>2. QueuesGrounded(L)'
      BY <1>2, <3>1, QueuesStay DEF LinesGrounded
    <3>3. \A e \in stray' : StrayGrounded(L, e)'
      BY <3>1, StraysStay
    <3> QED BY <3>1, <3>2, <3>3 DEF LinesGrounded
  <2>2. over' = over /\ texts' = texts
    BY <1>2
  <2> QED BY <2>1, <2>2 DEF LineInv
<1>3. ASSUME NEW d \in Devices, NEW t \in Ids, Save(d, t) \/ Delete(d, t) PROVE LineInv'
  <2> DEFINE x == library[d][t].text
  <2>1. texts < MaxTexts /\ texts' = texts + 1 /\ over' = [over EXCEPT ![texts + 1] = x]
    BY <1>3 DEF Save, Delete, Change
  <2>2. texts \in Texts /\ over \in [1..MaxTexts -> Texts] /\ x \in Texts /\ x <= texts
    <3>1. library[d][t] \in Row
      BY DEF Sound, TypeOK
    <3> QED BY <3>1 DEF Row, Sound, TypeOK, TextInv, TextsMade
  <2>3. Backward(over, texts) /\ \E L : Lined(L, over)
    BY DEF LineInv
  <2> HIDE DEF x
  <2>4. /\ Backward(over', texts') /\ \E M : Lined(M, over')
        /\ \A M : Lined(M, over') => \E L : Lined(L, over) /\ Later(L, M, texts + 1, x)
    BY <2>1, <2>2, <2>3, LinesGrow
  <2>5. ASSUME NEW M, Lined(M, over') PROVE LinesGrounded(M)'
    <3>1. PICK L : Lined(L, over) /\ Later(L, M, texts + 1, x)
      BY <2>4, <2>5
    <3>2. LinesGrounded(L) /\ \A n \in Texts : n \in L[n]
      BY <1>1, <3>1
    <3>3. \A n \in Texts : 0 \in L[n]
      BY <3>2 DEF LinesGrounded
    <3>4. \A n \in Texts : 0 \in M[n]
      BY <2>2, <3>1, <3>3, LaterGrows
    <3> QED BY <1>3, <3>1, <3>2, <3>4, MadeGrounded DEF x
  <2> QED BY <2>4, <2>5 DEF LineInv
<1> QED BY <1>2, <1>3, PlayerMoves

\* A change that is written takes the place of what it was made over.
LEMMA WrittenGrounded ==
  ASSUME Sound, ThemeAssumption, NEW L, NEW e \in Entry, StrayGrounded(L, e), Carry(e), NEW t \in Ids,
         Len(shelf'[t]) > Len(shelf[t]), LiveOn(t)
  PROVE  e.id = t /\ After(e) = LastOf(shelf'[t]) /\ Text(t) \in L[e.text]
<1>1. Len(shelf[t]) \in Nat /\ TypeOK
  <2>1. shelf[t] \in Seq(Texts)
    BY DEF Sound, TypeOK
  <2> QED BY <2>1, EmptyOrNot DEF Sound
<1>2. shelf'[t] # shelf[t]
  BY <1>1
<1>3. e.id = t /\ Written(e)
  BY <1>1, <1>2, CarryShelf
<1>4. After(e) = LastOf(shelf'[t])
  BY <1>1, <1>3, CarryShelf
<1>5. e.base # None /\ Revision(t) = e.base
  BY <1>3, WrittenExpected DEF Expected, LiveOn
<1>6. Text(t) = shelf[t][e.base] /\ Text(t) # Gone
  BY <1>5 DEF Text, LiveOn, LastOf, Revision
<1> QED BY <1>3, <1>4, <1>5, <1>6 DEF StrayGrounded

LEMMA LinedLineage == LineInv => Lined(Lineage, over) /\ LinesGrounded(Lineage)
<1> SUFFICES ASSUME LineInv PROVE Lined(Lineage, over) /\ LinesGrounded(Lineage)
  OBVIOUS
<1>1. Lined(Lineage, over)
  BY DEF LineInv, Lineage, Lined
<1> HIDE DEF Lineage
<1> QED BY <1>1 DEF LineInv

LEMMA StepNotBlind ==
  ASSUME Sound, NoteInv, LineInv, [Next]_vars
  PROVE  \A t \in Ids : Len(shelf'[t]) > Len(shelf[t]) /\ LiveOn(t) =>
           \E e \in stray \cup {flight[d] : d \in Devices} :
             /\ e.id = t /\ After(e) = LastOf(shelf'[t])
             /\ Text(t) \in Lineage[e.text]
<1> USE ThemeAssumption
<1> SUFFICES ASSUME NEW t \in Ids, Len(shelf'[t]) > Len(shelf[t]), LiveOn(t)
             PROVE  \E e \in stray \cup {flight[d] : d \in Devices} :
                      e.id = t /\ After(e) = LastOf(shelf'[t]) /\ Text(t) \in Lineage[e.text]
  OBVIOUS
<1>1. LinesGrounded(Lineage)
  BY LinedLineage
<1> HIDE DEF Lineage
<1>2. shelf' # shelf
  <2>1. shelf[t] \in Seq(Texts)
    BY DEF Sound, TypeOK
  <2>2. Len(shelf[t]) \in Nat
    BY <2>1, EmptyOrNot
  <2> QED BY <2>2
<1>3. ASSUME NEW e \in Entry, StrayGrounded(Lineage, e), Carry(e), e \in stray \cup {flight[d] : d \in Devices}
      PROVE  \E f \in stray \cup {flight[d] : d \in Devices} :
               f.id = t /\ After(f) = LastOf(shelf'[t]) /\ Text(t) \in Lineage[f.text]
  BY <1>3, WrittenGrounded
<1>4. ASSUME NEW d \in Devices, Serve(d), Carry(flight[d])
      PROVE  flight[d] \in Entry /\ StrayGrounded(Lineage, flight[d])
  <2>1. place[d] = "sent"
    BY <1>4 DEF Serve, At
  <2> QED BY <1>1, <2>1, AbandonedGrounded DEF LinesGrounded
<1>5. ASSUME NEW e \in stray PROVE StrayGrounded(Lineage, e)
  BY <1>1 DEF LinesGrounded
<1> QED BY <1>2, <1>3, <1>4, <1>5, ServerMoves

\* No device overwrites another's work blind, however many there are and whatever is sent
\* again, folded together, refused, copied or served late: what is replaced on the server
\* is what the change that replaces it was made from.
THEOREM BlindNowhere == Spec => NothingBlind
<1>1. Sound /\ NoteInv /\ LineInv /\ [Next]_vars =>
        [\A t \in Ids : Len(shelf'[t]) > Len(shelf[t]) /\ LiveOn(t) =>
           \E e \in stray \cup {flight[d] : d \in Devices} :
             /\ e.id = t /\ After(e) = LastOf(shelf'[t])
             /\ Text(t) \in Lineage[e.text]]_vars
  BY StepNotBlind
<1> HIDE DEF Lineage
<1> QED BY <1>1, LineInit, LineStep, AlwaysTexts, AlwaysSound, AlwaysNoted, PTL DEF Spec, NothingBlind
=============================================================================
