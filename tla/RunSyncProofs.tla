--------------------------- MODULE RunSyncProofs ---------------------------
(***************************************************************************)
(* Proofs about RunSync, for all devices, events and moves, with overlaps  *)
(* and faults of every kind, and with a device's moves, writes and passes  *)
(* crossing: types, that no log holds an event twice, and that only a      *)
(* write from a reading that no longer holds takes anything off a device.  *)
(*                                                                         *)
(* The argument: numbers are handed out once, so what is in flight lies on *)
(* free numbers of its own and the server's log only grows, each event     *)
(* under one number.  Every copy of a log, wherever it is held, has for    *)
(* its numbered part a part of the server's log, and for its pending part  *)
(* events of its own, made before, that are not among the numbered ones.   *)
(* At a device that has not raced, besides, each of the page's writes      *)
(* holds what the one before it and the outbox at the store hold, and the  *)
(* last of them all the page plays (Fits): the moves are never elsewhere.  *)
(***************************************************************************)
EXTENDS RunSync, SequenceTheorems, FiniteSetTheorems, WellFoundedInduction, TLAPS

Injective(q) == \A i, j \in 1..Len(q) : q[i] = q[j] => i = j

\* The events made by now, and the server's log as it is now.
MadeSoFar == {id \in Ids : \E d \in Devices : \E i \in 1..moves[d] : Made[d][i] = id}
Entries   == After(0)

\* An outbox, or what a request carries: events made, none twice.
Queues == {q \in Seq(Ids) : Injective(q) /\ \A i \in 1..Len(q) : q[i] \in MadeSoFar}

\* Copies of the run's log, wherever they are held.
Logs == {log \in Log : /\ log.numbered \subseteq Entries
                       /\ log.pending \in Queues
                       /\ \A i \in 1..Len(log.pending) : log.pending[i] \notin NumberedIds(log.numbered)}
Records == {r \in Record : r.log \in Logs}
Writes  == [log : Logs, read : BOOLEAN, stored : Records]
Answers == [read : BOOLEAN, saved : Records]

\* The numbers a request has taken and the log has not.
Held(f) == {n \in Numbers : f.base < n /\ n <= f.base + Len(f.ids)}

\* The server's log holds each event under one number, none past the counter.
ServerOnce ==
  /\ \A m, n \in Numbers : event[m] = event[n] /\ event[m] # NoEvent => m = n
  /\ \A n \in Numbers : event[n] # NoEvent => n <= counter /\ event[n] \in MadeSoFar

\* What is in flight: numbers handed out, free, and no other's.
FlyingFree ==
  /\ \A f \in flying : /\ f \in Request /\ f.ids \in Queues
                       /\ f.base + Len(f.ids) <= counter
                       /\ \A n \in Held(f) : event[n] = NoEvent
  /\ \A f, g \in flying : f # g => Held(f) \cap Held(g) = {}

ServerGood ==
  /\ event \in [Numbers -> Ids \cup {NoEvent}] /\ counter \in 0..MaxSeq /\ shown \in 0..MaxSeq
  /\ ServerOnce /\ FlyingFree

DeviceGood ==
  /\ disk \in [Devices -> Records] /\ page \in [Devices -> Logs]
  /\ writes \in [Devices -> Seq(Writes)] /\ news \in [Devices -> Seq(Answers)]
  /\ moves \in [Devices -> Nat] /\ \A d \in Devices : moves[d] <= Len(Made[d])

PassGood ==
  /\ place \in [Devices -> Places] /\ local \in [Devices -> Records]
  /\ incoming \in [Devices -> SUBSET Entries] /\ about \in [Devices -> SUBSET About]
  /\ manifest \in [Devices -> 0..MaxSeq] /\ tail \in [Devices -> 0..MaxSeq]

IInv == ServerGood /\ DeviceGood /\ PassGood /\ faults \in 0..MaxFaults

-----------------------------------------------------------------------------
(* The helpers: the last number of a log, and what Without leaves.         *)

LEMMA LeastNumber ==
  ASSUME NEW T, T \subseteq Nat, T # {}
  PROVE  \E x \in T : \A y \in T : x <= y
<1>1. PICK x \in T : \A y \in T : ~ (<<y, x>> \in OpToRel(<, Nat))
  BY NatLessThanWellFounded, WFMin
<1>2. ASSUME NEW y \in T PROVE x <= y
  <2>1. y \in Nat /\ x \in Nat
    OBVIOUS
  <2>2. ~ (y < x)
    BY <1>1, <2>1 DEF OpToRel
  <2> QED BY <2>1, <2>2
<1> QED BY <1>2

LEMMA HighestType ==
  ASSUME NEW S, S \subseteq Numbers
  PROVE  /\ Highest(S) \in 0..MaxSeq
         /\ \A m \in S : m <= Highest(S)
         /\ S # {} => Highest(S) \in S
<1>1. CASE S = {}
  BY <1>1, RunAssumption DEF Highest
<1>2. CASE S # {}
  <2> DEFINE Bounds == {b \in Nat : \A m \in S : m <= b}
  <2>1. \A m \in S : m \in Nat /\ m >= 1 /\ m <= MaxSeq
    BY RunAssumption DEF Numbers
  <2>2. MaxSeq \in Bounds
    BY <2>1, RunAssumption
  <2>3. PICK b \in Bounds : \A y \in Bounds : b <= y
    BY <2>2, LeastNumber
  <2>4. b \in S
    <3>1. ASSUME b \notin S PROVE FALSE
      <4>1. \A m \in S : m <= b - 1
        BY <2>1, <2>3, <3>1
      <4>2. b - 1 \in Bounds
        BY <1>2, <2>1, <4>1, <2>3
      <4> QED BY <2>3, <4>2
    <3> QED BY <3>1
  <2>5. \E n \in S : \A m \in S : m <= n
    BY <2>3, <2>4
  <2>6. Highest(S) \in S /\ \A m \in S : m <= Highest(S)
    BY <1>2, <2>5 DEF Highest
  <2> QED BY <2>1, <2>6
<1> QED BY <1>1, <1>2

\* What the first i of q leave, once those of ids are taken out.
Left(q, ids, i, s) ==
  /\ \A k \in 1..Len(s) : s[k] \notin ids /\ \E j \in 1..i : q[j] = s[k]
  /\ \A j \in 1..i : q[j] \notin ids => \E k \in 1..Len(s) : s[k] = q[j]
  /\ Injective(q) => Injective(s)

LEMMA LeftGrows ==
  ASSUME NEW S, NEW q \in Seq(S), NEW ids, NEW i \in 1..Len(q), NEW s \in Seq(S), Left(q, ids, i - 1, s),
         NEW r, r = (IF q[i] \in ids THEN s ELSE Append(s, q[i]))
  PROVE  r \in Seq(S) /\ Left(q, ids, i, r)
<1>1. i \in Nat /\ i - 1 \in Nat /\ Len(q) \in Nat /\ Len(s) \in Nat /\ q[i] \in S
  OBVIOUS
<1>2. 1..i = 1..(i - 1) \cup {i}
  BY <1>1
<1>3. CASE q[i] \in ids
  BY <1>1, <1>2, <1>3 DEF Left
<1>4. CASE q[i] \notin ids
  <2>1. r = Append(s, q[i]) /\ r \in Seq(S) /\ Len(r) = Len(s) + 1
    BY <1>1, <1>4
  <2>2. \A k \in 1..Len(s) : r[k] = s[k]
    BY <2>1, <1>1
  <2>3. r[Len(s) + 1] = q[i]
    BY <2>1, <1>1
  <2>4. 1..Len(r) = 1..Len(s) \cup {Len(s) + 1}
    BY <2>1, <1>1
  <2>5. \A k \in 1..Len(r) : r[k] \notin ids /\ \E j \in 1..i : q[j] = r[k]
    BY <1>2, <1>4, <2>2, <2>3, <2>4 DEF Left
  <2>6. \A j \in 1..i : q[j] \notin ids => \E k \in 1..Len(r) : r[k] = q[j]
    BY <1>2, <1>4, <2>2, <2>3, <2>4 DEF Left
  <2>7. ASSUME Injective(q) PROVE Injective(r)
    <3>1. \A k \in 1..Len(s) : r[k] # q[i]
      BY <1>1, <2>2, <2>7 DEF Left, Injective
    <3>2. \A k, l \in 1..Len(s) : r[k] = r[l] => k = l
      BY <2>2, <2>7 DEF Left, Injective
    <3> QED BY <2>3, <2>4, <3>1, <3>2 DEF Injective
  <2> QED BY <2>1, <2>5, <2>6, <2>7 DEF Left
<1> QED BY <1>3, <1>4

\* The rule of Without, and a function that follows it as far as n.
NextLeft(q, ids, f, i) == IF i = 0 THEN <<>> ELSE IF q[i] \in ids THEN f[i - 1] ELSE Append(f[i - 1], q[i])
Follows(q, ids, n, f) == f = [i \in 0..n |-> NextLeft(q, ids, f, i)]

LEMMA SomeFollows ==
  ASSUME NEW S, NEW q \in Seq(S), NEW ids
  PROVE  \E f : Follows(q, ids, Len(q), f)
<1> DEFINE Short == {n \in Nat : n <= Len(q) /\ ~ \E f : Follows(q, ids, n, f)}
<1>1. ASSUME Short # {} PROVE FALSE
  <2>1. PICK n \in Short : \A y \in Short : n <= y
    BY <1>1, LeastNumber
  <2>2. n # 0
    <3> DEFINE e == [i \in 0..0 |-> <<>>]
    <3>1. e = [i \in 0..0 |-> NextLeft(q, ids, e, i)]
      BY DEF NextLeft
    <3>2. Follows(q, ids, 0, e)
      BY <3>1 DEF Follows
    <3> QED BY <2>1, <3>2
  <2>3. n - 1 \in Nat /\ n - 1 <= Len(q) /\ n - 1 \notin Short
    BY <2>1, <2>2
  <2>4. PICK f : Follows(q, ids, n - 1, f)
    BY <2>3
  <2> DEFINE g == [i \in 0..n |-> IF i = n THEN NextLeft(q, ids, f, n) ELSE f[i]]
  <2>5. \A i \in 0..(n - 1) : f[i] = NextLeft(q, ids, f, i) /\ g[i] = f[i]
    <3>1. \A i \in 0..(n - 1) : f[i] = NextLeft(q, ids, f, i)
      BY <2>4, Zenon DEF Follows
    <3>2. \A i \in 0..(n - 1) : i \in 0..n /\ i # n
      BY <2>1
    <3>3. \A i \in 0..(n - 1) : g[i] = f[i]
      BY <3>2, Zenon
    <3> QED BY <3>1, <3>3
  <2>6. \A i \in 0..n : NextLeft(q, ids, g, i) = NextLeft(q, ids, f, i)
    <3>1. ASSUME NEW i \in 0..n PROVE NextLeft(q, ids, g, i) = NextLeft(q, ids, f, i)
      <4>1. i = 0 \/ i - 1 \in 0..(n - 1)
        BY <2>3
      <4> QED BY <4>1, <2>5 DEF NextLeft
    <3> QED BY <3>1
  <2>7. \A i \in 0..n : g[i] = NextLeft(q, ids, g, i)
    <3>1. ASSUME NEW i \in 0..n PROVE g[i] = NextLeft(q, ids, f, i)
      <4>1. CASE i = n
        BY <4>1, Zenon
      <4>2. CASE i # n
        <5>1. i \in 0..(n - 1)
          BY <2>1, <4>2
        <5> QED BY <5>1, <2>5
      <4> QED BY <4>1, <4>2
    <3> QED BY <3>1, <2>6
  <2>8. g = [i \in 0..n |-> NextLeft(q, ids, g, i)]
    BY <2>7
  <2>9. Follows(q, ids, n, g)
    BY <2>8 DEF Follows
  <2> QED BY <2>1, <2>9
<1>2. Len(q) \in Nat
  OBVIOUS
<1> QED BY <1>1, <1>2

LEMMA WithoutIs ==
  ASSUME NEW S, NEW q \in Seq(S), NEW ids
  PROVE  \E f : Follows(q, ids, Len(q), f) /\ Without(q, ids) = f[Len(q)]
<1> DEFINE kept == CHOOSE f : f = [i \in 0..Len(q) |->
             IF i = 0 THEN <<>> ELSE IF q[i] \in ids THEN f[i - 1] ELSE Append(f[i - 1], q[i])]
<1>1. Without(q, ids) = kept[Len(q)]
  BY DEF Without
<1>2. \E f : f = [i \in 0..Len(q) |->
             IF i = 0 THEN <<>> ELSE IF q[i] \in ids THEN f[i - 1] ELSE Append(f[i - 1], q[i])]
  <2>1. PICK f : Follows(q, ids, Len(q), f)
    BY SomeFollows
  <2>2. f = [i \in 0..Len(q) |->
             IF i = 0 THEN <<>> ELSE IF q[i] \in ids THEN f[i - 1] ELSE Append(f[i - 1], q[i])]
    BY <2>1, Zenon DEF Follows, NextLeft
  <2> QED BY <2>2, Zenon
<1>3. kept = [i \in 0..Len(q) |->
             IF i = 0 THEN <<>> ELSE IF q[i] \in ids THEN kept[i - 1] ELSE Append(kept[i - 1], q[i])]
  BY <1>2
<1>4. Follows(q, ids, Len(q), kept)
  BY <1>3 DEF Follows, NextLeft
<1> QED BY <1>1, <1>4

\* What Without leaves: just the elements that are not among ids, and none twice if none was.
LEMMA WithoutLeaves ==
  ASSUME NEW S, NEW q \in Seq(S), NEW ids
  PROVE  Without(q, ids) \in Seq(S) /\ Left(q, ids, Len(q), Without(q, ids))
<1>1. PICK f : Follows(q, ids, Len(q), f) /\ Without(q, ids) = f[Len(q)]
  BY WithoutIs
<1>2. Len(q) \in Nat
  OBVIOUS
<1>3. \A i \in 0..Len(q) : f[i] = NextLeft(q, ids, f, i)
  BY <1>1 DEF Follows
<1> DEFINE Wrong == {n \in Nat : n <= Len(q) /\ ~ (f[n] \in Seq(S) /\ Left(q, ids, n, f[n]))}
<1>4. ASSUME Wrong # {} PROVE FALSE
  <2>1. PICK n \in Wrong : \A y \in Wrong : n <= y
    BY <1>4, LeastNumber
  <2>2. CASE n = 0
    <3>1. f[n] = <<>>
      BY <1>2, <1>3, <2>2 DEF NextLeft
    <3>2. f[n] \in Seq(S) /\ Left(q, ids, n, f[n])
      BY <2>2, <3>1 DEF Left, Injective
    <3> QED BY <2>1, <3>2
  <2>3. CASE n # 0
    <3>1. n \in 1..Len(q) /\ n - 1 \in Nat /\ n - 1 <= Len(q) /\ n - 1 \notin Wrong
      BY <2>1, <2>3, <1>2
    <3>2. f[n - 1] \in Seq(S) /\ Left(q, ids, n - 1, f[n - 1])
      BY <3>1
    <3>3. f[n] = IF q[n] \in ids THEN f[n - 1] ELSE Append(f[n - 1], q[n])
      BY <1>2, <1>3, <2>3, <3>1 DEF NextLeft
    <3>4. f[n] \in Seq(S) /\ Left(q, ids, n, f[n])
      BY <3>1, <3>2, <3>3, LeftGrows
    <3> QED BY <2>1, <3>4
  <2> QED BY <2>2, <2>3
<1>5. f[Len(q)] \in Seq(S) /\ Left(q, ids, Len(q), f[Len(q)])
  BY <1>2, <1>4
<1> QED BY <1>1, <1>5

-----------------------------------------------------------------------------
(* Logs.                                                                   *)

LEMMA QueueLeft ==
  ASSUME NEW q \in Queues, NEW ids
  PROVE  /\ Without(q, ids) \in Queues
         /\ \A k \in 1..Len(Without(q, ids)) : Without(q, ids)[k] \notin ids
<1>1. q \in Seq(Ids) /\ Injective(q) /\ \A i \in 1..Len(q) : q[i] \in MadeSoFar
  BY DEF Queues
<1> DEFINE w == Without(q, ids)
<1>2. w \in Seq(Ids) /\ Left(q, ids, Len(q), w)
  BY <1>1, WithoutLeaves
<1> HIDE DEF w
<1>3. w \in Queues /\ \A k \in 1..Len(w) : w[k] \notin ids
  BY <1>1, <1>2 DEF Left, Queues
<1> QED BY <1>3 DEF w

LEMMA EmptyLog == <<>> \in Queues /\ NoLog \in Logs /\ NoRun \in Records
<1>1. <<>> \in Queues
  BY DEF Queues, Injective
<1>2. NoLog \in Log /\ NoLog.numbered = {} /\ NoLog.pending = <<>>
  BY DEF NoLog, Log
<1>3. NoLog \in Logs
  BY <1>1, <1>2 DEF Logs
<1>4. NoRun \in Record /\ NoRun.log = NoLog
  BY <1>2, RunAssumption DEF NoRun, Record
<1> QED BY <1>1, <1>3, <1>4 DEF Records

LEMMA EntriesType == ASSUME ServerGood PROVE Entries \subseteq Ids \X Numbers
BY DEF ServerGood, Entries, After, Numbers

LEMMA LogFields ==
  ASSUME NEW log \in Logs
  PROVE  /\ log \in Log /\ log.numbered \subseteq Entries /\ log.pending \in Queues
         /\ log.numbered \subseteq Ids \X Numbers
         /\ \A i \in 1..Len(log.pending) : log.pending[i] \notin NumberedIds(log.numbered)
BY DEF Logs, Log

LEMMA LogOf ==
  ASSUME NEW n, n \subseteq Entries, n \subseteq Ids \X Numbers, NEW q \in Queues,
         \A i \in 1..Len(q) : q[i] \notin NumberedIds(n)
  PROVE  [numbered |-> n, pending |-> q] \in Logs
<1> DEFINE log == [numbered |-> n, pending |-> q]
<1>1. log.numbered = n /\ log.pending = q
  OBVIOUS
<1>2. log \in Log
  BY DEF Log, Queues
<1> HIDE DEF log
<1> QED BY <1>1, <1>2 DEF Logs, log

LEMMA ReconcileGood ==
  ASSUME NEW stored \in Logs, NEW mine \in Logs
  PROVE  reconcile(stored, mine) \in Logs
<1>1. mine.pending \in Queues /\ stored.numbered \subseteq Entries /\ stored.numbered \subseteq Ids \X Numbers
  BY LogFields
<1> QED BY <1>1, QueueLeft, LogOf DEF reconcile

LEMMA MergeGood ==
  ASSUME ServerGood, NEW log \in Logs, NEW from, from \subseteq Entries
  PROVE  merge(log, from) \in Logs /\ merge(log, from).pending \in Queues
<1> DEFINE n == {x \in log.numbered : x[1] \notin NumberedIds(from)} \cup from
           ids == NumberedIds(log.numbered) \cup NumberedIds(from)
           q == Without(log.pending, ids)
<1>1. n \subseteq Entries /\ n \subseteq Ids \X Numbers /\ n \subseteq log.numbered \cup from
  BY LogFields, EntriesType
<1>2. NumberedIds(n) \subseteq ids
  BY <1>1 DEF NumberedIds
<1>3. q \in Queues /\ \A i \in 1..Len(q) : q[i] \notin ids
  BY LogFields, QueueLeft
<1>4. merge(log, from) = [numbered |-> n, pending |-> q]
  BY DEF merge
<1> HIDE DEF n, ids, q
<1>5. \A i \in 1..Len(q) : q[i] \notin NumberedIds(n)
  BY <1>2, <1>3
<1>6. merge(log, from) \in Logs
  BY <1>1, <1>3, <1>4, <1>5, LogOf
<1> QED BY <1>3, <1>4, <1>6

LEMMA TailType ==
  ASSUME NEW log \in Logs
  PROVE  tailSeq(log) \in 0..MaxSeq
<1>1. {x[2] : x \in log.numbered} \subseteq Numbers
  BY LogFields
<1> QED BY <1>1, HighestType DEF tailSeq

LEMMA RecordFields ==
  ASSUME NEW r \in Records
  PROVE  r.log \in Logs /\ r.here \in BOOLEAN /\ r.about \in SUBSET About /\ r.seq \in 0..MaxSeq
BY DEF Records, Record

LEMMA RecordOf ==
  ASSUME NEW a \in SUBSET About, NEW n \in 0..MaxSeq, NEW log \in Logs, NEW h \in BOOLEAN
  PROVE  [here |-> h, about |-> a, seq |-> n, log |-> log] \in Records
BY LogFields DEF Records, Record

-----------------------------------------------------------------------------
(* What grows, and what stays.                                             *)

Grown == Entries \subseteq Entries' /\ MadeSoFar \subseteq MadeSoFar'

LEMMA Grows ==
  ASSUME Grown
  PROVE  /\ Queues \subseteq Queues' /\ Logs \subseteq Logs' /\ Records \subseteq Records'
         /\ Writes \subseteq Writes' /\ Answers \subseteq Answers'
<1>1. Queues \subseteq Queues'
  BY DEF Grown, Queues
<1>2. Logs \subseteq Logs'
  BY <1>1 DEF Grown, Logs
<1>3. Records \subseteq Records'
  BY <1>2 DEF Records
<1> QED BY <1>1, <1>2, <1>3 DEF Writes, Answers

LEMMA SeqGrows == ASSUME NEW S, NEW T, S \subseteq T PROVE Seq(S) \subseteq Seq(T)
OBVIOUS

LEMMA SameLogs == ASSUME UNCHANGED <<event, moves>> PROVE Grown
BY DEF Grown, Entries, After, MadeSoFar

LEMMA DeviceStays ==
  ASSUME DeviceGood, Grown, UNCHANGED device
  PROVE  DeviceGood'
<1>1. Seq(Writes) \subseteq Seq(Writes') /\ Seq(Answers) \subseteq Seq(Answers')
  BY Grows, SeqGrows
<1> QED BY <1>1, Grows DEF DeviceGood, device

LEMMA PassStays ==
  ASSUME PassGood, Grown, UNCHANGED pass
  PROVE  PassGood'
<1>1. SUBSET Entries \subseteq SUBSET (Entries')
  BY DEF Grown
<1> QED BY <1>1, Grows DEF PassGood, pass

LEMMA ServerStays ==
  ASSUME ServerGood, UNCHANGED server, MadeSoFar \subseteq MadeSoFar'
  PROVE  ServerGood'
<1>1. Queues \subseteq Queues'
  BY DEF Queues
<1>2. event' = event /\ counter' = counter /\ shown' = shown /\ flying' = flying
  BY DEF server
<1>3. ServerOnce'
  BY <1>2 DEF ServerGood, ServerOnce
<1>4. FlyingFree'
  BY <1>1, <1>2 DEF ServerGood, FlyingFree
<1> QED BY <1>2, <1>3, <1>4 DEF ServerGood

LEMMA OverGood ==
  ASSUME PassGood, Grown, NEW d \in Devices, Over(d)
  PROVE  PassGood'
<1>1. NoRun \in Records' /\ Records \subseteq Records' /\ SUBSET Entries \subseteq SUBSET (Entries')
  BY EmptyLog, Grows DEF Grown
<1>2. "idle" \in Places /\ 0 \in 0..MaxSeq
  BY RunAssumption DEF Places
<1>3. local' \in [Devices -> Records'] /\ incoming' \in [Devices -> SUBSET (Entries')]
  BY <1>1 DEF Over, PassGood
<1>4. place' \in [Devices -> Places] /\ about' \in [Devices -> SUBSET About]
  BY <1>2 DEF Over, Go, PassGood
<1>5. manifest' \in [Devices -> 0..MaxSeq] /\ tail' \in [Devices -> 0..MaxSeq]
  BY <1>2 DEF Over, PassGood
<1> QED BY <1>3, <1>4, <1>5 DEF PassGood

-----------------------------------------------------------------------------
(* The player.                                                             *)

LEMMA MoveSteps ==
  ASSUME IInv, NEW d \in Devices, Move(d)
  PROVE  IInv'
<1> DEFINE n == moves[d] + 1
           id == Made[d][n]
           log == [page[d] EXCEPT !.pending = Append(@, id)]
<1>1. n \in 1..Len(Made[d]) /\ id \in Ids /\ moves[d] \in Nat
  <2>1. moves[d] < Len(Made[d])
    BY DEF Move
  <2>2. moves[d] \in Nat /\ Made[d] \in Seq(Ids)
    BY RunAssumption DEF IInv, DeviceGood
  <2> QED BY <2>1, <2>2
<1>2. moves' = [moves EXCEPT ![d] = n]
  BY DEF Move
<1>3. id \notin MadeSoFar
  <2> SUFFICES ASSUME NEW e \in Devices, NEW i \in 1..moves[e], Made[e][i] = id PROVE FALSE
    BY DEF MadeSoFar
  <2>1. i \in 1..Len(Made[e]) /\ moves[e] \in Nat
    BY RunAssumption DEF IInv, DeviceGood
  <2>2. e = d /\ i = n
    BY <1>1, <2>1, RunAssumption
  <2> QED BY <1>1, <2>1, <2>2
<1>4. MadeSoFar \subseteq MadeSoFar'
  <2> SUFFICES ASSUME NEW x \in Ids, NEW e \in Devices, NEW i \in 1..moves[e], Made[e][i] = x
               PROVE  \E g \in Devices : \E j \in 1..moves'[g] : Made[g][j] = x
    BY DEF MadeSoFar
  <2>1. i \in 1..moves'[e]
    BY <1>1, <1>2 DEF IInv, DeviceGood
  <2> QED BY <2>1
<1>5. id \in MadeSoFar'
  <2>1. moves'[d] = n /\ n \in 1..n
    BY <1>1, <1>2 DEF IInv, DeviceGood
  <2> QED BY <1>1, <2>1 DEF MadeSoFar
<1>6. UNCHANGED server /\ UNCHANGED pass /\ UNCHANGED <<disk, news, faults>>
  BY DEF Move
<1>7. Grown
  BY <1>4, <1>6 DEF Grown, Entries, After, server
<1>8. log \in Logs'
  <2>1. page[d] \in Logs
    BY DEF IInv, DeviceGood
  <2> DEFINE q == page[d].pending
             r == Append(q, id)
  <2>2. q \in Seq(Ids) /\ Injective(q) /\ \A i \in 1..Len(q) : q[i] \in MadeSoFar
    BY <2>1, LogFields DEF Queues
  <2>3. r \in Seq(Ids) /\ Len(r) = Len(q) + 1 /\ Len(q) \in Nat /\ r[Len(q) + 1] = id
    BY <1>1, <2>2
  <2>4. \A i \in 1..Len(q) : r[i] = q[i]
    BY <1>1, <2>2
  <2>5. page[d].numbered \subseteq Entries /\ \A i \in 1..Len(q) : q[i] \notin NumberedIds(page[d].numbered)
    BY <2>1, LogFields
  <2>6. NumberedIds(Entries) \subseteq MadeSoFar
    BY DEF IInv, ServerGood, ServerOnce, Entries, After, NumberedIds
  <2>7. id \notin NumberedIds(page[d].numbered)
    BY <1>3, <2>5, <2>6 DEF NumberedIds
  <2> HIDE DEF q, r, id
  <2>8. 1..Len(r) = 1..Len(q) \cup {Len(q) + 1}
    BY <2>3
  <2>9. \A i \in 1..Len(r) : r[i] \in MadeSoFar'
    BY <1>4, <1>5, <2>2, <2>3, <2>4, <2>8
  <2>10. Injective(r)
    BY <1>3, <2>2, <2>3, <2>4, <2>8 DEF Injective
  <2>11. r \in Queues'
    BY <2>3, <2>9, <2>10 DEF Queues
  <2>12. \A i \in 1..Len(r) : r[i] \notin NumberedIds(page[d].numbered)
    BY <2>3, <2>4, <2>5, <2>7, <2>8
  <2>13. page[d].numbered \subseteq Entries' /\ page[d].numbered \subseteq Ids \X Numbers /\ page[d] \in Log
    BY <2>1, <1>7, LogFields DEF Grown
  <2>14. log = [numbered |-> page[d].numbered, pending |-> r]
    <3>1. page[d] = [numbered |-> page[d].numbered, pending |-> q]
      BY <2>13 DEF Log, q
    <3>2. log = [page[d] EXCEPT !.pending = r]
      BY DEF q, r
    <3> HIDE DEF log
    <3> QED BY <3>1, <3>2
  <2>15. log \in Log /\ log.numbered = page[d].numbered /\ log.pending = r
    BY <2>3, <2>13, <2>14 DEF Log
  <2> HIDE DEF log
  <2> QED BY <2>11, <2>12, <2>13, <2>15 DEF Logs
<1>9. page' = [page EXCEPT ![d] = log]
       /\ writes' = [writes EXCEPT ![d] = Append(@, [log |-> log, read |-> FALSE, stored |-> NoRun])]
  BY DEF Move
<1> HIDE DEF log, id, n
<1>10. NoRun \in Records' /\ Logs \subseteq Logs' /\ Records \subseteq Records'
  BY <1>7, EmptyLog, Grows
<1>11. [log |-> log, read |-> FALSE, stored |-> NoRun] \in Writes'
  BY <1>8, <1>10 DEF Writes
<1>12. Seq(Writes) \subseteq Seq(Writes') /\ Seq(Answers) \subseteq Seq(Answers')
  BY <1>7, Grows, SeqGrows
<1>13. DeviceGood'
  <2>1. disk' \in [Devices -> Records'] /\ page' \in [Devices -> Logs']
    BY <1>6, <1>8, <1>9, <1>10 DEF IInv, DeviceGood
  <2>2. writes' \in [Devices -> Seq(Writes')]
    <3> DEFINE w == [log |-> log, read |-> FALSE, stored |-> NoRun]
    <3>1. w \in Writes'
      BY <1>11
    <3> HIDE DEF w
    <3>2. Append(writes[d], w) \in Seq(Writes')
      BY <1>12, <3>1 DEF IInv, DeviceGood
    <3> QED BY <1>9, <1>12, <3>2 DEF IInv, DeviceGood, w
  <2>3. news' \in [Devices -> Seq(Answers')]
    BY <1>6, <1>12 DEF IInv, DeviceGood
  <2>4. moves' \in [Devices -> Nat] /\ \A e \in Devices : moves'[e] <= Len(Made[e])
    BY <1>1, <1>2, RunAssumption DEF IInv, DeviceGood
  <2> QED BY <2>1, <2>2, <2>3, <2>4 DEF DeviceGood
<1>14. ServerGood' /\ PassGood' /\ faults' \in 0..MaxFaults
  BY <1>4, <1>6, <1>7, ServerStays, PassStays DEF IInv
<1> QED BY <1>13, <1>14 DEF IInv

\* One entry of a sequence is put in place of another.
LEMMA PutInSeq ==
  ASSUME NEW S, NEW q \in Seq(S), NEW i \in 1..Len(q), NEW x \in S
  PROVE  [q EXCEPT ![i] = x] \in Seq(S)
OBVIOUS

LEMMA PersistLoadSteps ==
  ASSUME IInv, NEW d \in Devices, PersistLoad(d)
  PROVE  IInv'
<1>1. PICK i \in 1..Len(writes[d]) :
        /\ writes' = [writes EXCEPT ![d][i].read = TRUE, ![d][i].stored = disk[d]]
        /\ UNCHANGED <<server, disk, page, news, moves, pass, faults>>
  BY DEF PersistLoad
<1>2. writes[d] \in Seq(Writes) /\ writes[d][i] \in Writes /\ disk[d] \in Records
  BY DEF IInv, DeviceGood
<1> DEFINE w == [writes[d][i] EXCEPT !.read = TRUE, !.stored = disk[d]]
<1>3. w \in Writes
  BY <1>2 DEF Writes
<1>4. writes' = [writes EXCEPT ![d] = [writes[d] EXCEPT ![i] = w]]
  <2> DEFINE g == [writes EXCEPT ![d][i].read = TRUE]
             x == [writes[d][i] EXCEPT !.read = TRUE]
             q == [writes[d] EXCEPT ![i] = w]
  <2>1. writes \in [Devices -> Seq(Writes)] /\ writes[d] \in Seq(Writes) /\ i \in 1..Len(writes[d])
    BY <1>1 DEF IInv, DeviceGood
  <2>2. g = [writes EXCEPT ![d] = [writes[d] EXCEPT ![i] = x]]
    OBVIOUS
  <2>3. writes' = [g EXCEPT ![d] = [g[d] EXCEPT ![i] = [g[d][i] EXCEPT !.stored = disk[d]]]]
    BY <1>1
  <2>4. [x EXCEPT !.stored = disk[d]] = w
    BY <1>2 DEF Writes
  <2> HIDE DEF g, w, x
  <2>5. g[d] = [writes[d] EXCEPT ![i] = x] /\ \A e \in Devices \ {d} : g[e] = writes[e]
    BY <2>1, <2>2
  <2>6. g[d][i] = x
    BY <2>1, <2>5
  <2>7. [g[d] EXCEPT ![i] = w] = q
    BY <2>1, <2>5
  <2> HIDE DEF q
  <2>8. writes' = [g EXCEPT ![d] = q]
    BY <2>3, <2>4, <2>6, <2>7
  <2>9. [g EXCEPT ![d] = q] = [writes EXCEPT ![d] = q]
    BY <2>1, <2>2, <2>5
  <2> QED BY <2>8, <2>9 DEF q
<1> HIDE DEF w
<1>5. [writes[d] EXCEPT ![i] = w] \in Seq(Writes)
  BY <1>2, <1>3, PutInSeq
<1>6. writes' \in [Devices -> Seq(Writes)]
  BY <1>4, <1>5 DEF IInv, DeviceGood
<1>7. UNCHANGED server /\ UNCHANGED pass /\ UNCHANGED <<disk, page, news, moves, faults>> /\ Grown
  BY <1>1, SameLogs DEF server
<1>8. Seq(Writes) \subseteq Seq(Writes') /\ Seq(Answers) \subseteq Seq(Answers')
  BY <1>7, Grows, SeqGrows
<1>9. DeviceGood'
  BY <1>6, <1>7, <1>8, Grows DEF IInv, DeviceGood
<1> QED BY <1>7, <1>9, ServerStays, PassStays DEF IInv, Grown

LEMMA PersistSaveSteps ==
  ASSUME IInv, NEW d \in Devices, PersistSave(d)
  PROVE  IInv'
<1> DEFINE stored == Head(writes[d]).stored
           mine   == Head(writes[d]).log
           log    == IF stored.here THEN reconcile(stored.log, mine) ELSE mine
           r      == [stored EXCEPT !.here = TRUE, !.log = log]
<1>1. writes[d] \in Seq(Writes) /\ writes[d] # <<>>
  BY DEF IInv, DeviceGood, PersistSave
<1>2. Head(writes[d]) \in Writes /\ Tail(writes[d]) \in Seq(Writes)
  BY <1>1
<1>3. stored \in Records /\ mine \in Logs
  BY <1>2 DEF Writes
<1>4. disk' = [disk EXCEPT ![d] = r] /\ writes' = [writes EXCEPT ![d] = Tail(@)]
       /\ UNCHANGED <<server, page, news, moves, pass, faults>>
  BY DEF PersistSave
<1> HIDE DEF stored, mine
<1>5. log \in Logs
  BY <1>3, ReconcileGood, RecordFields
<1> HIDE DEF log
<1>6. r \in Records
  BY <1>3, <1>5 DEF Records, Record, Logs
<1> HIDE DEF r
<1>7. disk' \in [Devices -> Records] /\ writes' \in [Devices -> Seq(Writes)]
  BY <1>2, <1>4, <1>6 DEF IInv, DeviceGood
<1>8. UNCHANGED server /\ UNCHANGED pass /\ UNCHANGED <<page, news, moves, faults>> /\ Grown
  BY <1>4, SameLogs DEF server
<1>9. Seq(Writes) \subseteq Seq(Writes') /\ Seq(Answers) \subseteq Seq(Answers')
  BY <1>8, Grows, SeqGrows
<1>10. DeviceGood'
  BY <1>7, <1>8, <1>9, Grows DEF IInv, DeviceGood
<1> QED BY <1>8, <1>10, ServerStays, PassStays DEF IInv, Grown

LEMMA ReloadReadSteps ==
  ASSUME IInv, NEW d \in Devices, ReloadRead(d)
  PROVE  IInv'
<1>1. PICK i \in 1..Len(news[d]) :
        /\ news' = [news EXCEPT ![d][i] = [read |-> TRUE, saved |-> disk[d]]]
        /\ UNCHANGED <<server, disk, page, writes, moves, pass, faults>>
  BY DEF ReloadRead
<1> DEFINE w == [read |-> TRUE, saved |-> disk[d]]
<1>2. news[d] \in Seq(Answers) /\ w \in Answers
  BY DEF IInv, DeviceGood, Answers
<1>3. news' = [news EXCEPT ![d] = [news[d] EXCEPT ![i] = w]]
  BY <1>1 DEF IInv, DeviceGood
<1> HIDE DEF w
<1>4. [news[d] EXCEPT ![i] = w] \in Seq(Answers)
  BY <1>2, PutInSeq
<1>5. news' \in [Devices -> Seq(Answers)]
  BY <1>3, <1>4 DEF IInv, DeviceGood
<1>6. UNCHANGED server /\ UNCHANGED pass /\ UNCHANGED <<disk, page, writes, moves, faults>> /\ Grown
  BY <1>1, SameLogs DEF server
<1>7. Seq(Writes) \subseteq Seq(Writes') /\ Seq(Answers) \subseteq Seq(Answers')
  BY <1>6, Grows, SeqGrows
<1>8. DeviceGood'
  BY <1>5, <1>6, <1>7, Grows DEF IInv, DeviceGood
<1> QED BY <1>6, <1>8, ServerStays, PassStays DEF IInv, Grown

LEMMA ReloadApplySteps ==
  ASSUME IInv, NEW d \in Devices, ReloadApply(d)
  PROVE  IInv'
<1> DEFINE saved == Head(news[d]).saved.log
<1>1. news[d] \in Seq(Answers) /\ news[d] # <<>>
  BY DEF IInv, DeviceGood, ReloadApply
<1>2. Head(news[d]) \in Answers /\ Tail(news[d]) \in Seq(Answers)
  BY <1>1
<1>3. saved \in Logs
  BY <1>2, RecordFields DEF Answers
<1>4. page' \in {page, [page EXCEPT ![d] = saved]} /\ news' = [news EXCEPT ![d] = Tail(@)]
       /\ UNCHANGED <<server, disk, writes, moves, pass, faults>>
  BY DEF ReloadApply
<1> HIDE DEF saved
<1>5. page' \in [Devices -> Logs] /\ news' \in [Devices -> Seq(Answers)]
  BY <1>2, <1>3, <1>4 DEF IInv, DeviceGood
<1>6. UNCHANGED server /\ UNCHANGED pass /\ UNCHANGED <<disk, writes, moves, faults>> /\ Grown
  BY <1>4, SameLogs DEF server
<1>7. Seq(Writes) \subseteq Seq(Writes') /\ Seq(Answers) \subseteq Seq(Answers')
  BY <1>6, Grows, SeqGrows
<1>8. DeviceGood'
  BY <1>5, <1>6, <1>7, Grows DEF IInv, DeviceGood
<1> QED BY <1>6, <1>8, ServerStays, PassStays DEF IInv, Grown

-----------------------------------------------------------------------------
(* The server.                                                             *)

LEMMA ReserveGood ==
  ASSUME IInv, NEW d \in Devices, NEW kind \in {"create", "append", "rest"}, NEW ids \in Queues,
         Reserve(d, kind, ids), UNCHANGED moves
  PROVE  ServerGood' /\ Grown
<1> DEFINE f == [by |-> d, kind |-> kind, base |-> counter, ids |-> ids]
<1>1. counter' = counter + Len(ids) /\ counter + Len(ids) <= MaxSeq /\ flying' = flying \cup {f}
       /\ UNCHANGED <<event, shown>>
  BY DEF Reserve
<1>2. Grown /\ MadeSoFar' = MadeSoFar /\ Queues' = Queues
  BY <1>1, SameLogs DEF MadeSoFar, Queues
<1>3. counter \in 0..MaxSeq /\ Len(ids) \in Nat /\ MaxSeq \in Nat
  BY RunAssumption DEF IInv, ServerGood, Queues
<1>4. f \in Request /\ f.ids = ids /\ f.base = counter
  BY <1>3 DEF Request, Queues
<1> HIDE DEF f
<1>5. counter' \in 0..MaxSeq /\ counter <= counter'
  BY <1>1, <1>3
<1>6. ServerOnce'
  <2>1. \A n \in Numbers : n \in Nat
    BY DEF Numbers
  <2> QED BY <1>1, <1>2, <1>3, <1>5, <2>1 DEF IInv, ServerGood, ServerOnce
<1>7. \A n \in Held(f) : event[n] = NoEvent
  BY <1>3, <1>4 DEF IInv, ServerGood, ServerOnce, Held, Numbers
<1>8. ASSUME NEW g \in flying PROVE Held(f) \cap Held(g) = {}
  <2>1. g.base + Len(g.ids) <= counter /\ g.base \in Nat /\ Len(g.ids) \in Nat
    BY <1>8 DEF IInv, ServerGood, FlyingFree, Request, Queues
  <2> QED BY <1>3, <1>4, <2>1 DEF Held, Numbers
<1>9. ASSUME NEW g \in flying' PROVE g \in Request /\ g.ids \in Queues /\ g.base + Len(g.ids) <= counter'
                                      /\ \A n \in Held(g) : event[n] = NoEvent
  <2>1. CASE g = f
    BY <1>1, <1>3, <1>4, <1>7, <2>1
  <2>2. CASE g \in flying
    <3>1. g \in Request /\ g.ids \in Queues /\ g.base + Len(g.ids) <= counter /\ \A n \in Held(g) : event[n] = NoEvent
      BY <2>2 DEF IInv, ServerGood, FlyingFree
    <3>2. g.base \in Nat /\ Len(g.ids) \in Nat
      BY <3>1 DEF Request, Queues
    <3> QED BY <1>3, <1>5, <3>1, <3>2
  <2> QED BY <1>1, <1>9, <2>1, <2>2
<1>10. \A g, h \in flying' : g # h => Held(g) \cap Held(h) = {}
  BY <1>1, <1>8 DEF IInv, ServerGood, FlyingFree
<1>11. FlyingFree'
  BY <1>1, <1>2, <1>9, <1>10 DEF FlyingFree, Held
<1> QED BY <1>1, <1>2, <1>5, <1>6, <1>11 DEF IInv, ServerGood

\* Requests are taken out, or nobody waits for them any longer.
LEMMA FewerGood ==
  ASSUME IInv, UNCHANGED <<event, counter, shown, moves>>,
         NEW lost, flying' \subseteq {IF f \in lost THEN [f EXCEPT !.kind = "lost"] ELSE f : f \in flying}
  PROVE  ServerGood' /\ Grown
<1>1. Grown /\ MadeSoFar' = MadeSoFar /\ Queues' = Queues
  BY SameLogs DEF MadeSoFar, Queues
<1>2. ASSUME NEW g \in flying'
      PROVE  \E f \in flying : /\ g = IF f \in lost THEN [f EXCEPT !.kind = "lost"] ELSE f
                               /\ g \in Request /\ g.ids = f.ids /\ g.base = f.base /\ Held(g) = Held(f)
  <2>1. PICK f \in flying : g = IF f \in lost THEN [f EXCEPT !.kind = "lost"] ELSE f
    BY <1>2
  <2>2. f \in Request
    BY DEF IInv, ServerGood, FlyingFree
  <2>3. g \in Request /\ g.ids = f.ids /\ g.base = f.base
    BY <2>1, <2>2 DEF Request
  <2> QED BY <2>1, <2>3 DEF Held
<1>3. ServerOnce'
  BY <1>1 DEF IInv, ServerGood, ServerOnce
<1>4. ASSUME NEW g \in flying' PROVE g \in Request /\ g.ids \in Queues /\ g.base + Len(g.ids) <= counter
                                      /\ \A n \in Held(g) : event[n] = NoEvent
  BY <1>2, <1>4 DEF IInv, ServerGood, FlyingFree
<1>5. ASSUME NEW g \in flying', NEW h \in flying', g # h PROVE Held(g) \cap Held(h) = {}
  <2>1. PICK e \in flying : g = (IF e \in lost THEN [e EXCEPT !.kind = "lost"] ELSE e) /\ Held(g) = Held(e)
    BY <1>2
  <2>2. PICK f \in flying : h = (IF f \in lost THEN [f EXCEPT !.kind = "lost"] ELSE f) /\ Held(h) = Held(f)
    BY <1>2
  <2>3. CASE e # f
    BY <2>1, <2>2, <2>3 DEF IInv, ServerGood, FlyingFree
  <2>4. CASE e = f
    <3>1. FALSE
      BY <1>5, <2>1, <2>2, <2>4
    <3> QED BY <3>1
  <2> QED BY <2>3, <2>4
<1>6. FlyingFree'
  BY <1>1, <1>4, <1>5 DEF FlyingFree, Held
<1> QED BY <1>1, <1>3, <1>6 DEF IInv, ServerGood

\* What a landing request writes, and where.
LandKept(f) == Without(f.ids, Stored)
LandBase(f) == IF LandKept(f) # f.ids THEN counter ELSE f.base

LEMMA LandFacts ==
  ASSUME IInv, NEW f \in flying, Land(f)
  PROVE  LET kept == LandKept(f)
             base == LandBase(f)
             fresh == (base + 1)..(base + Len(kept))
         IN  /\ kept \in Queues /\ base \in Nat /\ Len(kept) \in Nat /\ base + Len(kept) <= MaxSeq
             /\ \A k \in 1..Len(kept) : kept[k] \notin Stored
             /\ \A n \in Numbers : n \in fresh => event[n] = NoEvent
             /\ \A g \in flying \ {f} : fresh \cap Held(g) = {}
             /\ event' = [n \in Numbers |-> IF n \in fresh THEN kept[n - base] ELSE event[n]]
             /\ counter' \in 0..MaxSeq /\ counter <= counter' /\ base + Len(kept) <= counter'
             /\ shown' \in 0..MaxSeq /\ flying' = flying \ {f}
<1> DEFINE kept == LandKept(f)
           base == LandBase(f)
           fresh == (base + 1)..(base + Len(kept))
           sent == Numbering(kept, base)
           last == IF kept # f.ids /\ kept = <<>> THEN f.base + Len(f.ids) ELSE base + Len(kept)
<1>1. /\ base + Len(kept) <= MaxSeq
      /\ event' = [n \in Numbers |-> IF \E x \in sent : x[2] = n THEN kept[n - base] ELSE event[n]]
      /\ counter' = IF kept # f.ids THEN counter + Len(kept) ELSE counter
      /\ shown' = last
      /\ flying' = flying \ {f}
  BY DEF Land, LandKept, LandBase
<1>2. f \in Request /\ f.ids \in Queues /\ f.base + Len(f.ids) <= counter /\ \A n \in Held(f) : event[n] = NoEvent
  BY DEF IInv, ServerGood, FlyingFree
<1>3. f.base \in Nat /\ Len(f.ids) \in Nat /\ counter \in Nat /\ counter <= MaxSeq /\ MaxSeq \in Nat
  BY <1>2, RunAssumption DEF IInv, ServerGood, Request, Queues
<1>4. kept \in Queues /\ \A k \in 1..Len(kept) : kept[k] \notin Stored
  BY <1>2, QueueLeft DEF LandKept
<1>5. kept # f.ids => base = counter
  BY DEF LandKept, LandBase
<1>6. kept = f.ids => base = f.base
  BY DEF LandKept, LandBase
<1>7. \A g \in flying : g.base \in Nat /\ Len(g.ids) \in Nat /\ g.base + Len(g.ids) <= counter
  BY DEF IInv, ServerGood, FlyingFree, Request, Queues
<1>8. \A n \in Numbers : (\E x \in sent : x[2] = n) <=> n \in fresh
  <2>1. base \in Nat /\ Len(kept) \in Nat
    BY <1>3, <1>4, <1>5, <1>6 DEF Queues
  <2> HIDE DEF kept, base
  <2>2. ASSUME NEW n \in Numbers, NEW x \in sent, x[2] = n PROVE n \in fresh
    <3>1. PICK i \in 1..Len(kept) : x = <<kept[i], base + i>>
      BY <2>2 DEF Numbering
    <3>2. n = base + i
      BY <2>2, <3>1
    <3> QED BY <2>1, <3>2
  <2>3. ASSUME NEW n \in Numbers, n \in fresh PROVE \E x \in sent : x[2] = n
    <3>1. n - base \in 1..Len(kept) /\ base + (n - base) = n
      BY <2>1, <2>3
    <3>2. <<kept[n - base], base + (n - base)>> \in sent
      BY <3>1 DEF Numbering
    <3> QED BY <3>1, <3>2
  <2> QED BY <2>2, <2>3
<1> HIDE DEF kept, base, sent
<1>9. base \in Nat /\ Len(kept) \in Nat
  BY <1>3, <1>4, <1>5, <1>6 DEF Queues
<1>10. event' = [n \in Numbers |-> IF n \in fresh THEN kept[n - base] ELSE event[n]]
  BY <1>1, <1>8
<1>11. counter' \in 0..MaxSeq /\ counter <= counter' /\ base + Len(kept) <= counter'
  BY <1>1, <1>2, <1>3, <1>5, <1>6, <1>9
<1>12. shown' \in 0..MaxSeq
  BY <1>1, <1>2, <1>3, <1>9
<1>13. CASE kept = f.ids
  <2>1. fresh \cap Numbers \subseteq Held(f) /\ \A n \in fresh : f.base < n /\ n <= f.base + Len(f.ids)
    BY <1>3, <1>6, <1>13 DEF Held
  <2>2. \A g \in flying \ {f} : fresh \cap Held(g) = {}
    BY <2>1 DEF IInv, ServerGood, FlyingFree, Held
  <2> QED BY <1>1, <1>2, <1>4, <1>9, <1>10, <1>11, <1>12, <2>1, <2>2 DEF kept, base
<1>14. CASE kept # f.ids
  <2>1. \A n \in fresh : n > counter
    BY <1>3, <1>5, <1>9, <1>14
  <2>2. \A n \in Numbers : n \in fresh => event[n] = NoEvent
    BY <1>3, <2>1 DEF IInv, ServerGood, ServerOnce, Numbers
  <2>3. ASSUME NEW g \in flying PROVE fresh \cap Held(g) = {}
    <3>1. \A n \in Held(g) : n \in Nat /\ n <= counter
      BY <1>3, <1>7 DEF Held, Numbers
    <3> QED BY <1>3, <2>1, <3>1
  <2> QED BY <1>1, <1>4, <1>9, <1>10, <1>11, <1>12, <2>2, <2>3 DEF kept, base
<1> QED BY <1>13, <1>14

LEMMA LandGood ==
  ASSUME IInv, NEW f \in flying, Land(f)
  PROVE  ServerGood' /\ Grown /\ Numbering(LandKept(f), LandBase(f)) \subseteq Entries'
<1> DEFINE kept == LandKept(f)
           base == LandBase(f)
           fresh == (base + 1)..(base + Len(kept))
<1>1. /\ kept \in Queues /\ base \in Nat /\ Len(kept) \in Nat /\ base + Len(kept) <= MaxSeq
      /\ \A k \in 1..Len(kept) : kept[k] \notin Stored
      /\ \A n \in Numbers : n \in fresh => event[n] = NoEvent
      /\ \A g \in flying \ {f} : fresh \cap Held(g) = {}
      /\ event' = [n \in Numbers |-> IF n \in fresh THEN kept[n - base] ELSE event[n]]
      /\ counter' \in 0..MaxSeq /\ counter <= counter' /\ base + Len(kept) <= counter'
      /\ shown' \in 0..MaxSeq /\ flying' = flying \ {f}
  BY LandFacts
<1> HIDE DEF kept, base
<1>2. MaxSeq \in Nat /\ counter \in Nat
  BY RunAssumption DEF IInv, ServerGood
<1>3. UNCHANGED moves /\ MadeSoFar' = MadeSoFar /\ Queues' = Queues
  BY DEF Land, device, MadeSoFar, Queues
<1>4. kept \in Seq(Ids) /\ Injective(kept) /\ \A k \in 1..Len(kept) : kept[k] \in MadeSoFar
  BY <1>1 DEF Queues
<1>5. \A n \in fresh : n \in Numbers /\ n - base \in 1..Len(kept)
  BY <1>1, <1>2 DEF Numbers
<1>6. \A n \in fresh : event'[n] = kept[n - base] /\ event'[n] \in Ids /\ event'[n] \in MadeSoFar /\ event'[n] \notin Stored
  BY <1>1, <1>4, <1>5
<1>7. \A n \in Numbers \ fresh : event'[n] = event[n]
  BY <1>1
<1>8. \A n \in Numbers : event[n] # NoEvent => n \notin fresh /\ event[n] \in Stored
  BY <1>1 DEF Stored
<1>9. event' \in [Numbers -> Ids \cup {NoEvent}]
  <2>1. event \in [Numbers -> Ids \cup {NoEvent}]
    BY DEF IInv, ServerGood
  <2>2. DOMAIN event' = Numbers
    BY <1>1
  <2>3. \A n \in Numbers : event'[n] \in Ids \cup {NoEvent}
    BY <1>6, <1>7, <2>1
  <2>4. event' = [n \in Numbers |-> event'[n]]
    BY <1>1
  <2> QED BY <2>3, <2>4
<1>10. Entries \subseteq Entries'
  <2> SUFFICES ASSUME NEW n \in Numbers, n > 0, event[n] # NoEvent
               PROVE  event'[n] = event[n]
    BY DEF Entries, After
  <2> QED BY <1>7, <1>8
<1>11. Numbering(kept, base) \subseteq Entries'
  <2> SUFFICES ASSUME NEW i \in 1..Len(kept) PROVE <<kept[i], base + i>> \in Entries'
    BY DEF Numbering
  <2> DEFINE n == base + i
  <2>1. n \in fresh /\ n - base = i /\ n > 0
    BY <1>1
  <2>2. event'[n] = kept[i] /\ event'[n] # NoEvent /\ n \in Numbers
    BY <1>5, <1>6, <2>1, RunAssumption
  <2> QED BY <2>1, <2>2 DEF Entries, After
<1>12. ServerOnce'
  <2>1. ASSUME NEW m \in Numbers, NEW n \in Numbers, event'[m] = event'[n], event'[m] # NoEvent PROVE m = n
    <3>1. CASE m \in fresh /\ n \in fresh
      <4>1. m - base = n - base
        BY <1>4, <1>5, <1>6, <2>1, <3>1 DEF Injective
      <4> QED BY <1>1, <3>1, <4>1
    <3>2. CASE m \in fresh /\ n \notin fresh
      BY <1>6, <1>7, <1>8, <2>1, <3>2
    <3>3. CASE m \notin fresh /\ n \in fresh
      BY <1>6, <1>7, <1>8, <2>1, <3>3
    <3>4. CASE m \notin fresh /\ n \notin fresh
      BY <1>7, <2>1, <3>4 DEF IInv, ServerGood, ServerOnce
    <3> QED BY <3>1, <3>2, <3>3, <3>4
  <2>2. ASSUME NEW n \in Numbers, event'[n] # NoEvent PROVE n <= counter' /\ event'[n] \in MadeSoFar
    <3>1. CASE n \in fresh
      <4>1. n \in Int /\ n <= base + Len(kept)
        BY <1>1, <3>1
      <4>2. n <= counter'
        BY <1>1, <1>2, <4>1
      <4> QED BY <1>6, <3>1, <4>2
    <3>2. CASE n \notin fresh
      <4>1. n <= counter /\ event'[n] \in MadeSoFar
        BY <1>7, <2>2, <3>2 DEF IInv, ServerGood, ServerOnce
      <4> QED BY <1>1, <1>2, <4>1 DEF Numbers
    <3> QED BY <3>1, <3>2
  <2> QED BY <1>3, <2>1, <2>2 DEF ServerOnce
<1>13. FlyingFree'
  <2>1. ASSUME NEW g \in flying'
        PROVE  g \in Request /\ g.ids \in Queues /\ g.base + Len(g.ids) <= counter' /\ \A n \in Held(g) : event'[n] = NoEvent
    <3>1. g \in Request /\ g.ids \in Queues /\ g.base + Len(g.ids) <= counter /\ \A n \in Held(g) : event[n] = NoEvent
      BY <1>1, <2>1 DEF IInv, ServerGood, FlyingFree
    <3>2. g.base \in Nat /\ Len(g.ids) \in Nat
      BY <3>1 DEF Request, Queues
    <3>3. \A n \in Held(g) : n \in Numbers /\ n \notin fresh
      BY <1>1, <2>1 DEF Held
    <3> QED BY <1>1, <1>2, <1>7, <3>1, <3>2, <3>3
  <2>2. \A g, h \in flying' : g # h => Held(g) \cap Held(h) = {}
    BY <1>1 DEF IInv, ServerGood, FlyingFree
  <2> QED BY <1>3, <2>1, <2>2 DEF FlyingFree, Held
<1>14. ServerGood'
  BY <1>1, <1>9, <1>12, <1>13 DEF ServerGood
<1> QED BY <1>3, <1>10, <1>11, <1>14 DEF Grown, kept, base

-----------------------------------------------------------------------------
(* The pass.                                                               *)

LEMMA SameServer == ASSUME UNCHANGED server, UNCHANGED device PROVE Grown
BY SameLogs DEF server, device

\* The player's side, and the server, when only the pass moves on.
LEMMA RestStays ==
  ASSUME IInv, UNCHANGED server, UNCHANGED device
  PROVE  ServerGood' /\ DeviceGood' /\ Grown
<1>1. Grown
  BY SameServer
<1> QED BY <1>1, ServerStays, DeviceStays DEF IInv, Grown

LEMMA ManifestSteps ==
  ASSUME IInv, NEW d \in Devices, Manifest(d)
  PROVE  IInv'
<1>1. manifest' = [manifest EXCEPT ![d] = shown] /\ place' = [place EXCEPT ![d] = "list"]
       /\ UNCHANGED server /\ UNCHANGED device /\ UNCHANGED <<local, incoming, tail, about, faults>>
  BY DEF Manifest, Go
<1>2. ServerGood' /\ DeviceGood' /\ Grown
  BY <1>1, RestStays
<1>3. Records \subseteq Records' /\ SUBSET Entries \subseteq SUBSET (Entries')
  BY <1>2, Grows DEF Grown
<1>4. manifest' \in [Devices -> 0..MaxSeq] /\ place' \in [Devices -> Places]
  BY <1>1 DEF IInv, ServerGood, PassGood, Places
<1>5. PassGood'
  BY <1>1, <1>3, <1>4 DEF IInv, PassGood
<1> QED BY <1>1, <1>2, <1>5 DEF IInv

LEMMA ReadRunsSteps ==
  ASSUME IInv, NEW d \in Devices, ReadRuns(d)
  PROVE  IInv'
<1>1. UNCHANGED server /\ UNCHANGED device /\ UNCHANGED faults
  BY DEF ReadRuns
<1>2. ServerGood' /\ DeviceGood' /\ Grown
  BY <1>1, RestStays
<1>3. CASE Over(d)
  BY <1>1, <1>2, <1>3, OverGood DEF IInv
<1>4. CASE ~Over(d)
  <2>1. PICK where : place' = [place EXCEPT ![d] = where] /\ where \in {"take", "create", "append", "fetch", "save"}
    BY <1>4 DEF ReadRuns, Go
  <2>2. PICK what \in SUBSET About : about' = [about EXCEPT ![d] = what]
    BY <1>4 DEF ReadRuns, About
  <2>3. local' = [local EXCEPT ![d] = disk[d]] /\ tail' = [tail EXCEPT ![d] = manifest[d]]
         /\ UNCHANGED <<manifest, incoming>>
    BY <1>4 DEF ReadRuns
  <2>4. Records \subseteq Records' /\ SUBSET Entries \subseteq SUBSET (Entries')
    BY <1>2, Grows DEF Grown
  <2>5. place' \in [Devices -> Places] /\ about' \in [Devices -> SUBSET About]
    BY <2>1, <2>2 DEF IInv, PassGood, Places
  <2>6. local' \in [Devices -> Records'] /\ tail' \in [Devices -> 0..MaxSeq]
    BY <2>3, <2>4 DEF IInv, PassGood, DeviceGood
  <2>7. PassGood'
    BY <2>3, <2>4, <2>5, <2>6 DEF IInv, PassGood
  <2> QED BY <1>1, <1>2, <2>7 DEF IInv
<1> QED BY <1>3, <1>4

\* Only where the pass stands, and perhaps what it was sent and told, has changed.
LEMMA PassMoves ==
  ASSUME PassGood, Grown, NEW d \in Devices, NEW where \in Places, Go(d, where),
         NEW got, got \subseteq Entries', NEW what \in SUBSET About,
         incoming' = [incoming EXCEPT ![d] = got], Told(d, what),
         NEW n \in 0..MaxSeq, tail' = [tail EXCEPT ![d] = n], UNCHANGED <<manifest, local>>
  PROVE  PassGood'
<1>1. Records \subseteq Records' /\ SUBSET Entries \subseteq SUBSET (Entries')
  BY Grows DEF Grown
<1>2. place' \in [Devices -> Places] /\ about' \in [Devices -> SUBSET About]
  BY DEF Go, Told, PassGood
<1>3. incoming' \in [Devices -> SUBSET (Entries')]
  <2>1. incoming \in [Devices -> SUBSET (Entries')]
    BY <1>1 DEF PassGood
  <2> QED BY <2>1
<1>4. tail' \in [Devices -> 0..MaxSeq] /\ manifest' \in [Devices -> 0..MaxSeq] /\ local' \in [Devices -> Records']
  BY <1>1 DEF PassGood
<1> QED BY <1>2, <1>3, <1>4 DEF PassGood

\* Only where it stands has.
LEMMA PassGoes ==
  ASSUME PassGood, Grown, NEW d \in Devices, NEW where \in Places, Go(d, where), UNCHANGED <<manifest, local, incoming, tail, about>>
  PROVE  PassGood'
<1>1. Records \subseteq Records' /\ SUBSET Entries \subseteq SUBSET (Entries')
  BY Grows DEF Grown
<1>2. place' \in [Devices -> Places]
  BY DEF Go, PassGood
<1>3. incoming' \in [Devices -> SUBSET (Entries')] /\ local' \in [Devices -> Records']
  BY <1>1 DEF PassGood
<1> QED BY <1>2, <1>3 DEF PassGood

LEMMA CreateSteps ==
  ASSUME IInv, NEW d \in Devices, Create(d)
  PROVE  IInv'
<1>1. UNCHANGED device /\ UNCHANGED <<manifest, local, incoming, tail, about, faults>>
  BY DEF Create
<1>2. local[d].log.pending \in Queues
  BY RecordFields, LogFields DEF IInv, PassGood
<1>3. CASE counter = 0
  <2>1. Reserve(d, "create", local[d].log.pending) /\ Go(d, "wait")
    BY <1>3 DEF Create
  <2>2. ServerGood' /\ Grown
    BY <1>1, <1>2, <2>1, ReserveGood DEF device
  <2>3. PassGood' /\ DeviceGood'
    BY <1>1, <2>1, <2>2, PassGoes, DeviceStays DEF IInv, Places
  <2> QED BY <1>1, <2>2, <2>3 DEF IInv
<1>4. CASE counter # 0
  <2>1. UNCHANGED server /\ Go(d, "taken")
    BY <1>4 DEF Create
  <2>2. ServerGood' /\ DeviceGood' /\ Grown
    BY <1>1, <2>1, RestStays
  <2>3. PassGood'
    BY <1>1, <2>1, <2>2, PassGoes DEF IInv, Places
  <2> QED BY <1>1, <2>2, <2>3 DEF IInv
<1> QED BY <1>3, <1>4

LEMMA AfterEntries == ASSUME NEW n PROVE After(n) \subseteq Entries
<1>1. \A m \in Numbers : m > 0
  BY DEF Numbers
<1> QED BY <1>1 DEF After, Entries

LEMMA PassType ==
  ASSUME IInv, NEW d \in Devices
  PROVE  /\ incoming[d] \subseteq Entries /\ tail[d] \in 0..MaxSeq /\ local[d] \in Records
         /\ disk[d] \in Records /\ about[d] \in SUBSET About
         /\ tail = [tail EXCEPT ![d] = tail[d]]
BY DEF IInv, PassGood, DeviceGood

LEMMA FetchTakenSteps ==
  ASSUME IInv, NEW d \in Devices, FetchTaken(d)
  PROVE  IInv'
<1>1. UNCHANGED server /\ UNCHANGED device /\ UNCHANGED <<manifest, local, tail, faults>>
       /\ incoming' = [incoming EXCEPT ![d] = After(0)] /\ Told(d, {"members"})
  BY DEF FetchTaken
<1>2. PICK where \in {"save", "rest"} : Go(d, where)
  BY DEF FetchTaken
<1>3. ServerGood' /\ DeviceGood' /\ Grown
  BY <1>1, RestStays
<1>4. After(0) \subseteq Entries' /\ {"members"} \in SUBSET About /\ where \in Places
  BY <1>3, AfterEntries DEF Grown, About, Places
<1>5. tail[d] \in 0..MaxSeq /\ tail' = [tail EXCEPT ![d] = tail[d]]
  BY <1>1, PassType
<1>6. PassGood'
  BY <1>1, <1>2, <1>3, <1>4, <1>5, PassMoves DEF IInv
<1> QED BY <1>1, <1>3, <1>6 DEF IInv

LEMMA FetchSteps ==
  ASSUME IInv, NEW d \in Devices, Fetch(d)
  PROVE  IInv'
<1> DEFINE got == incoming[d] \cup After(tailSeq(local[d].log))
<1>1. UNCHANGED server /\ UNCHANGED device /\ UNCHANGED <<manifest, local, tail, faults>>
       /\ incoming' = [incoming EXCEPT ![d] = got] /\ Told(d, {"members"}) /\ Go(d, "save")
  BY DEF Fetch
<1>2. ServerGood' /\ DeviceGood' /\ Grown
  BY <1>1, RestStays
<1>3. got \subseteq Entries' /\ {"members"} \in SUBSET About /\ "save" \in Places
  BY <1>2, AfterEntries, PassType DEF Grown, About, Places
<1>4. tail[d] \in 0..MaxSeq /\ tail' = [tail EXCEPT ![d] = tail[d]]
  BY <1>1, PassType
<1> HIDE DEF got
<1>5. PassGood'
  BY <1>1, <1>2, <1>3, <1>4, PassMoves DEF IInv
<1> QED BY <1>1, <1>2, <1>5 DEF IInv

LEMMA TakeSteps ==
  ASSUME IInv, NEW d \in Devices, Take(d)
  PROVE  IInv'
<1>1. UNCHANGED server /\ UNCHANGED device /\ UNCHANGED <<manifest, local, tail, faults>>
       /\ incoming' = [incoming EXCEPT ![d] = After(0)] /\ Told(d, {"members"}) /\ Go(d, "keep")
  BY DEF Take
<1>2. ServerGood' /\ DeviceGood' /\ Grown
  BY <1>1, RestStays
<1>3. After(0) \subseteq Entries' /\ {"members"} \in SUBSET About /\ "keep" \in Places
  BY <1>2, AfterEntries DEF Grown, About, Places
<1>4. tail[d] \in 0..MaxSeq /\ tail' = [tail EXCEPT ![d] = tail[d]]
  BY <1>1, PassType
<1>5. PassGood'
  BY <1>1, <1>2, <1>3, <1>4, PassMoves DEF IInv
<1> QED BY <1>1, <1>2, <1>5 DEF IInv

LEMMA SendSteps ==
  ASSUME IInv, NEW d \in Devices, Send(d)
  PROVE  IInv'
<1>1. UNCHANGED device /\ UNCHANGED <<manifest, local, incoming, tail, about, faults>> /\ Go(d, "wait")
  BY DEF Send
<1>2. PICK kind \in {"append", "rest"}, ids \in Queues : Reserve(d, kind, ids)
  <2>1. local[d].log \in Logs /\ incoming[d] \subseteq Entries
    BY PassType, RecordFields
  <2>2. local[d].log.pending \in Queues
    BY <2>1, LogFields
  <2>3. merge(local[d].log, incoming[d]).pending \in Queues
    BY <2>1, MergeGood DEF IInv
  <2> QED BY <2>2, <2>3 DEF Send
<1>3. ServerGood' /\ Grown
  BY <1>1, <1>2, ReserveGood DEF device
<1>4. PassGood' /\ DeviceGood'
  BY <1>1, <1>3, PassGoes, DeviceStays DEF IInv, Places
<1> QED BY <1>1, <1>3, <1>4 DEF IInv

LEMMA LandSteps ==
  ASSUME IInv, NEW f \in flying, Land(f)
  PROVE  IInv'
<1> DEFINE kept == LandKept(f)
           base == LandBase(f)
           sent == Numbering(kept, base)
<1>1. ServerGood' /\ Grown /\ sent \subseteq Entries'
  BY LandGood
<1>2. UNCHANGED device /\ UNCHANGED faults /\ UNCHANGED <<manifest, local>>
  BY DEF Land
<1>3. DeviceGood'
  BY <1>1, <1>2, DeviceStays DEF IInv
<1>4. CASE f.kind = "lost"
  <2>1. UNCHANGED pass
    BY <1>2, <1>4 DEF Land, pass
  <2> QED BY <1>1, <1>2, <1>3, <2>1, PassStays DEF IInv
<1>5. CASE f.kind # "lost"
  <2> DEFINE d == f.by
             last == IF kept # f.ids /\ kept = <<>> THEN f.base + Len(f.ids) ELSE base + Len(kept)
             n == IF f.kind = "append" THEN Larger(tail[d], last) ELSE tail[d]
  <2>1. d \in Devices
    BY DEF IInv, ServerGood, FlyingFree, Request
  <2>2. incoming' = [incoming EXCEPT ![d] = @ \cup sent] /\ shown' = last
    BY <1>5 DEF Land, LandKept, LandBase
  <2>3. PICK what \in SUBSET About : Told(d, what)
    BY <1>5 DEF Land, About
  <2>4. PICK where \in {"fetch", "save"} : Go(d, where)
    BY <1>5 DEF Land
  <2>5. tail' = [tail EXCEPT ![d] = n]
    BY <1>5 DEF Land, LandKept, LandBase
  <2> HIDE DEF sent, last, kept, base
  <2>6. tail[d] \in 0..MaxSeq /\ incoming[d] \subseteq Entries
    BY <2>1, PassType
  <2>7. shown' \in 0..MaxSeq
    BY <1>1 DEF ServerGood
  <2>8. n \in 0..MaxSeq
    BY <2>2, <2>6, <2>7 DEF Larger
  <2> DEFINE got == incoming[d] \cup sent
  <2>9. got \subseteq Entries' /\ where \in Places
    BY <1>1, <2>6 DEF Grown, Places
  <2>10. incoming' = [incoming EXCEPT ![d] = got]
    BY <2>2
  <2> HIDE DEF got, n, d
  <2>11. PassGood'
    BY <1>1, <1>2, <2>1, <2>3, <2>4, <2>5, <2>8, <2>9, <2>10, PassMoves DEF IInv
  <2> QED BY <1>1, <1>2, <1>3, <2>11 DEF IInv
<1> QED BY <1>4, <1>5

\* A record is written, the page perhaps told of it, and the pass is over.
LEMMA Written ==
  ASSUME IInv, NEW d \in Devices, NEW r \in Records, disk' = [disk EXCEPT ![d] = r] \/ UNCHANGED disk,
         Tell(d) \/ UNCHANGED news, Over(d), UNCHANGED <<server, page, writes, moves, faults>>
  PROVE  IInv'
<1>1. UNCHANGED server /\ UNCHANGED <<page, writes, moves, faults>> /\ Grown
  BY SameLogs DEF server
<1>2. disk' \in [Devices -> Records]
  BY DEF IInv, DeviceGood
<1>3. news' \in [Devices -> Seq(Answers)]
  <2> DEFINE w == [read |-> FALSE, saved |-> NoRun]
  <2>1. w \in Answers
    BY EmptyLog DEF Answers
  <2>2. news' = [news EXCEPT ![d] = Append(news[d], w)] \/ news' = news
    BY DEF Tell
  <2> HIDE DEF w
  <2>3. Append(news[d], w) \in Seq(Answers)
    BY <2>1 DEF IInv, DeviceGood
  <2> QED BY <2>2, <2>3 DEF IInv, DeviceGood
<1>4. Seq(Writes) \subseteq Seq(Writes') /\ Seq(Answers) \subseteq Seq(Answers')
  BY <1>1, Grows, SeqGrows
<1>5. DeviceGood'
  BY <1>1, <1>2, <1>3, <1>4, Grows DEF IInv, DeviceGood
<1> QED BY <1>1, <1>5, ServerStays, OverGood DEF IInv, Grown

LEMMA SaveSteps ==
  ASSUME IInv, NEW d \in Devices, Save(d)
  PROVE  IInv'
<1> DEFINE old    == local[d]
           merged == merge(old.log, incoming[d])
           caught == Larger(tailSeq(merged), tail[d])
           new    == [here |-> TRUE, about |-> old.about \cup about[d], seq |-> caught, log |-> merged]
<1>1. old \in Records /\ incoming[d] \subseteq Entries /\ tail[d] \in 0..MaxSeq /\ about[d] \in SUBSET About
  BY PassType
<1>2. merged \in Logs
  BY <1>1, MergeGood, RecordFields DEF IInv
<1>3. caught \in 0..MaxSeq
  BY <1>1, <1>2, TailType DEF Larger
<1>4. old.about \cup about[d] \in SUBSET About
  BY <1>1, RecordFields
<1>5. new \in Records
  <2> HIDE DEF old, merged, caught
  <2> QED BY <1>2, <1>3, <1>4, RecordOf
<1>6. Over(d) /\ UNCHANGED <<server, page, writes, moves, faults>>
  BY DEF Save
<1>7. (disk' = [disk EXCEPT ![d] = new] \/ UNCHANGED disk) /\ (Tell(d) \/ UNCHANGED news)
  BY DEF Save
<1> HIDE DEF new
<1> QED BY <1>5, <1>6, <1>7, Written

LEMMA KeepSteps ==
  ASSUME IInv, NEW d \in Devices, Keep(d)
  PROVE  IInv'
<1> DEFINE log == [numbered |-> incoming[d], pending |-> <<>>]
           new == [here |-> TRUE, about |-> about[d], seq |-> tailSeq(log), log |-> log]
<1>1. incoming[d] \subseteq Entries /\ incoming[d] \subseteq Ids \X Numbers /\ about[d] \in SUBSET About
  BY PassType, EntriesType DEF IInv
<1>2. log \in Logs
  BY <1>1, EmptyLog, LogOf, SMTT(60)
<1> HIDE DEF log
<1>3. new \in Records
  BY <1>1, <1>2, TailType, RecordOf
<1>4. disk' = [disk EXCEPT ![d] = new] /\ Tell(d) /\ Over(d) /\ UNCHANGED <<server, page, writes, moves, faults>>
  BY DEF Keep, log
<1> HIDE DEF new
<1> QED BY <1>3, <1>4, Written

-----------------------------------------------------------------------------
(* Faults.                                                                 *)

LEMMA UnheardGood ==
  ASSUME IInv, NEW d \in Devices, Unheard(d), UNCHANGED <<event, counter, shown, moves>>
  PROVE  ServerGood' /\ Grown
<1> DEFINE lost == {f \in flying : f.by = d}
<1>1. flying' \subseteq {IF f \in lost THEN [f EXCEPT !.kind = "lost"] ELSE f : f \in flying}
  BY DEF Unheard
<1> HIDE DEF lost
<1> QED BY <1>1, FewerGood

LEMMA MoreFaults == ASSUME IInv, faults < MaxFaults, faults' = faults + 1 PROVE faults' \in 0..MaxFaults
BY RunAssumption DEF IInv

LEMMA FailSteps ==
  ASSUME IInv, NEW d \in Devices, Fail(d)
  PROVE  IInv'
<1>1. Unheard(d) /\ Over(d) /\ UNCHANGED <<event, counter, shown>> /\ UNCHANGED device
       /\ faults < MaxFaults /\ faults' = faults + 1
  BY DEF Fail
<1>2. ServerGood' /\ Grown
  BY <1>1, UnheardGood DEF device
<1> QED BY <1>1, <1>2, MoreFaults, OverGood, DeviceStays DEF IInv

LEMMA DieSteps ==
  ASSUME IInv, NEW f \in flying, Die(f)
  PROVE  IInv'
<1>1. flying' = flying \ {f} /\ UNCHANGED <<event, counter, shown>> /\ UNCHANGED device
       /\ faults < MaxFaults /\ faults' = faults + 1
  BY DEF Die
<1>2. ServerGood' /\ Grown
  <2>1. flying' \subseteq {IF g \in {} THEN [g EXCEPT !.kind = "lost"] ELSE g : g \in flying}
    BY <1>1
  <2> QED BY <1>1, <2>1, FewerGood DEF device
<1>3. PassGood'
  <2>1. f.by \in Devices
    BY DEF IInv, ServerGood, FlyingFree, Request
  <2>2. UNCHANGED pass \/ Over(f.by)
    BY DEF Die
  <2> QED BY <1>2, <2>1, <2>2, OverGood, PassStays DEF IInv
<1> QED BY <1>1, <1>2, <1>3, MoreFaults, DeviceStays DEF IInv

LEMMA CloseSteps ==
  ASSUME IInv, NEW d \in Devices, Close(d)
  PROVE  IInv'
<1>1. Unheard(d) /\ Over(d) /\ UNCHANGED <<event, counter, shown, disk, moves>>
       /\ faults < MaxFaults /\ faults' = faults + 1
       /\ page' = [page EXCEPT ![d] = disk[d].log]
       /\ writes' = [writes EXCEPT ![d] = <<>>] /\ news' = [news EXCEPT ![d] = <<>>]
  BY DEF Close
<1>2. ServerGood' /\ Grown
  BY <1>1, UnheardGood
<1>3. disk[d].log \in Logs /\ <<>> \in Seq(Writes') /\ <<>> \in Seq(Answers')
  BY PassType, RecordFields
<1>4. Seq(Writes) \subseteq Seq(Writes') /\ Seq(Answers) \subseteq Seq(Answers')
  BY <1>2, Grows, SeqGrows
<1>5. page' \in [Devices -> Logs'] /\ disk' \in [Devices -> Records']
  BY <1>1, <1>2, <1>3, Grows DEF IInv, DeviceGood
<1>6. writes' \in [Devices -> Seq(Writes')] /\ news' \in [Devices -> Seq(Answers')]
  BY <1>1, <1>3, <1>4 DEF IInv, DeviceGood
<1>7. DeviceGood'
  BY <1>1, <1>5, <1>6 DEF IInv, DeviceGood
<1> QED BY <1>1, <1>2, <1>7, MoreFaults, OverGood DEF IInv

-----------------------------------------------------------------------------
(* The invariant.                                                          *)

LEMMA InitGood == Init => IInv
<1> SUFFICES ASSUME Init PROVE IInv
  OBVIOUS
<1>1. NoLog \in Logs /\ NoRun \in Records /\ 0 \in 0..MaxSeq
  BY EmptyLog, RunAssumption
<1>2. ServerGood
  BY <1>1 DEF Init, ServerGood, ServerOnce, FlyingFree
<1>3. DeviceGood
  <2>1. \A d \in Devices : 0 <= Len(Made[d])
    BY RunAssumption
  <2> QED BY <1>1, <2>1 DEF Init, DeviceGood
<1>4. PassGood
  BY <1>1 DEF Init, PassGood, Places
<1> QED BY <1>2, <1>3, <1>4, RunAssumption DEF Init, IInv

LEMMA StepGood == IInv /\ [Next]_vars => IInv'
<1> SUFFICES ASSUME IInv, [Next]_vars PROVE IInv'
  OBVIOUS
<1>1. ASSUME NEW d \in Devices, Move(d) \/ PageStep(d) PROVE IInv'
  BY <1>1, MoveSteps, PersistLoadSteps, PersistSaveSteps, ReloadReadSteps, ReloadApplySteps DEF PageStep
<1>2. ASSUME NEW d \in Devices, Manifest(d) \/ PassStep(d) PROVE IInv'
  BY <1>2, ManifestSteps, ReadRunsSteps, CreateSteps, FetchTakenSteps, SendSteps, FetchSteps, SaveSteps,
     TakeSteps, KeepSteps DEF PassStep
<1>3. ASSUME NEW d \in Devices, Fail(d) \/ Close(d) PROVE IInv'
  BY <1>3, FailSteps, CloseSteps
<1>4. ASSUME NEW f \in flying, Land(f) \/ Die(f) PROVE IInv'
  BY <1>4, LandSteps, DieSteps
<1>5. CASE UNCHANGED vars
  <2>1. UNCHANGED server /\ UNCHANGED device /\ UNCHANGED pass /\ UNCHANGED faults
    BY <1>5 DEF vars, server, device, pass
  <2>2. ServerGood' /\ DeviceGood' /\ Grown
    BY <2>1, RestStays
  <2> QED BY <2>1, <2>2, PassStays DEF IInv
<1> QED BY <1>1, <1>2, <1>3, <1>4, <1>5 DEF Next, Landing

LEMMA Invariant == Spec => []IInv
BY InitGood, StepGood, PTL DEF Spec

RacedType == raced \in [Devices -> BOOLEAN]

LEMMA RacedStep ==
  ASSUME RacedType, [Next]_vars
  PROVE  RacedType'
<1>1. ASSUME NEW d \in Devices, NEW late, Races(d, late) PROVE RacedType'
  BY <1>1 DEF RacedType, Races
<1>2. UNCHANGED raced => RacedType'
  BY DEF RacedType
<1>3. ASSUME NEW d \in Devices, Move(d) \/ PageStep(d) PROVE RacedType'
  BY <1>1, <1>2, <1>3 DEF Move, PageStep, PersistLoad, PersistSave, ReloadRead, ReloadApply
<1>4. ASSUME NEW d \in Devices, Manifest(d) \/ Fail(d) \/ Close(d) PROVE RacedType'
  BY <1>1, <1>2, <1>4 DEF Manifest, Fail, Close, device
<1>5. ASSUME NEW d \in Devices, PassStep(d) PROVE RacedType'
  BY <1>1, <1>2, <1>5 DEF PassStep, ReadRuns, Create, FetchTaken, Send, Fetch, Save, Take, Keep, device
<1>6. ASSUME NEW f \in flying, Land(f) \/ Die(f) PROVE UNCHANGED raced
  BY <1>6 DEF Land, Die, device
<1>7. CASE UNCHANGED vars
  BY <1>2, <1>7 DEF vars
<1> QED BY <1>2, <1>3, <1>4, <1>5, <1>6, <1>7 DEF Next, Landing

LEMMA RacedInvariant == Spec => []RacedType
<1>1. Init => RacedType
  BY DEF Init, RacedType
<1> QED BY <1>1, RacedStep, PTL DEF Spec

LEMMA Types == IInv /\ RacedType => TypeOK
<1> SUFFICES ASSUME IInv, RacedType PROVE TypeOK
  OBVIOUS
<1>1. Records \subseteq Record /\ Logs \subseteq Log
  BY DEF Records, Logs
<1>2. Writes \subseteq [log : Log, read : BOOLEAN, stored : Record] /\ Answers \subseteq [read : BOOLEAN, saved : Record]
  BY <1>1 DEF Writes, Answers
<1>3. /\ Seq(Writes) \subseteq Seq([log : Log, read : BOOLEAN, stored : Record])
      /\ Seq(Answers) \subseteq Seq([read : BOOLEAN, saved : Record])
  BY <1>2, SeqGrows
<1>4. SUBSET Entries \subseteq SUBSET (Ids \X Numbers)
  BY EntriesType DEF IInv
<1>5. \A f \in flying : f \in Request
  BY DEF IInv, ServerGood, FlyingFree
<1> QED BY <1>1, <1>3, <1>4, <1>5 DEF IInv, ServerGood, DeviceGood, PassGood, RacedType, TypeOK

\* Every log, record, request and pass keeps its type, with faults of every kind (engine.ts, useRun.ts, log.ts).
THEOREM TypeCorrect == Spec => []TypeOK
BY Invariant, RacedInvariant, Types, PTL

-----------------------------------------------------------------------------
(* No event twice: a good log has as many ids as it has entries.           *)

LEMMA EntriesOnce ==
  ASSUME ServerGood, NEW x \in Entries, NEW y \in Entries, x[1] = y[1] \/ x[2] = y[2]
  PROVE  x = y
<1>1. PICK m \in Numbers : x = <<event[m], m>> /\ event[m] # NoEvent
  BY DEF Entries, After
<1>2. PICK n \in Numbers : y = <<event[n], n>> /\ event[n] # NoEvent
  BY DEF Entries, After
<1>3. m = n
  BY <1>1, <1>2 DEF ServerGood, ServerOnce
<1> QED BY <1>1, <1>2, <1>3

LEMMA NumberedCount ==
  ASSUME ServerGood, NEW n, n \subseteq Entries
  PROVE  /\ IsFiniteSet(n) /\ IsFiniteSet(NumberedIds(n))
         /\ Cardinality(NumberedIds(n)) = Cardinality(n)
<1> DEFINE at == [x \in n |-> x[2]]
           id == [x \in n |-> x[1]]
<1>1. n \subseteq Ids \X Numbers /\ IsFiniteSet(Numbers)
  BY EntriesType, FS_Interval, RunAssumption DEF Numbers
<1>2. at \in Injection(n, Numbers)
  <2>1. at \in [n -> Numbers]
    BY <1>1
  <2>2. \A x, y \in n : at[x] = at[y] => x = y
    BY EntriesOnce
  <2> QED BY <2>1, <2>2 DEF Injection, IsInjective
<1>3. IsFiniteSet(n)
  BY <1>1, <1>2, FS_Injection
<1>4. id \in Bijection(n, NumberedIds(n))
  <2>1. id \in [n -> NumberedIds(n)]
    BY DEF NumberedIds
  <2>2. \A x, y \in n : id[x] = id[y] => x = y
    BY EntriesOnce
  <2>3. \A t \in NumberedIds(n) : \E x \in n : id[x] = t
    BY DEF NumberedIds
  <2> QED BY <2>1, <2>2, <2>3 DEF Bijection, Injection, Surjection, IsInjective
<1>5. ExistsBijection(n, NumberedIds(n))
  BY <1>4 DEF ExistsBijection
<1> QED BY <1>3, <1>5, FS_Bijection

LEMMA QueueCount ==
  ASSUME NEW q \in Queues
  PROVE  IsFiniteSet(Elements(q)) /\ Cardinality(Elements(q)) = Len(q)
<1> DEFINE at == [i \in 1..Len(q) |-> q[i]]
<1>1. Len(q) \in Nat /\ Injective(q)
  BY DEF Queues
<1>2. at \in Bijection(1..Len(q), Elements(q))
  <2>1. at \in [1..Len(q) -> Elements(q)]
    BY DEF Elements
  <2>2. \A i, j \in 1..Len(q) : at[i] = at[j] => i = j
    BY <1>1 DEF Injective
  <2>3. \A t \in Elements(q) : \E i \in 1..Len(q) : at[i] = t
    BY DEF Elements
  <2> QED BY <2>1, <2>2, <2>3 DEF Bijection, Injection, Surjection, IsInjective
<1>3. ExistsBijection(1..Len(q), Elements(q))
  BY <1>2 DEF ExistsBijection
<1>4. IsFiniteSet(1..Len(q))
  BY <1>1, FS_Interval
<1> QED BY <1>1, <1>3, <1>4, FS_CountingElements, FS_Bijection

LEMMA LogCount ==
  ASSUME ServerGood, NEW log \in Logs
  PROVE  Cardinality(IdsOf(log)) = Cardinality(log.numbered) + Len(log.pending)
<1> DEFINE n == NumberedIds(log.numbered)
           p == Elements(log.pending)
<1>1. /\ IsFiniteSet(log.numbered) /\ IsFiniteSet(n)
      /\ Cardinality(n) = Cardinality(log.numbered)
  BY NumberedCount, LogFields
<1>2. IsFiniteSet(p) /\ Cardinality(p) = Len(log.pending)
  BY QueueCount, LogFields
<1>3. n \cap p = {}
  BY LogFields DEF Elements
<1>4. Cardinality(n \cap p) = 0
  BY <1>3, FS_EmptySet
<1>5. IdsOf(log) = n \cup p
  BY DEF IdsOf
<1> HIDE DEF n, p
<1>6. Cardinality(n \cup p) = Cardinality(n) + Cardinality(p) - Cardinality(n \cap p)
  BY <1>1, <1>2, FS_Union
<1>7. Cardinality(n) \in Nat /\ Cardinality(p) \in Nat
  BY <1>1, <1>2, FS_CardinalityType
<1> QED BY <1>1, <1>2, <1>4, <1>5, <1>6, <1>7

\* No log, stored or played, holds an event twice, whatever overlaps, fails or is closed (log.ts merge, reconcile).
THEOREM EventsOnce == Spec => []EventOnce
<1>1. IInv => EventOnce
  <2> SUFFICES ASSUME IInv, NEW d \in Devices, NEW log \in {disk[d].log, page[d]}
               PROVE  Cardinality(IdsOf(log)) = Cardinality(log.numbered) + Len(log.pending)
    BY DEF EventOnce
  <2>1. log \in Logs
    BY RecordFields DEF IInv, DeviceGood
  <2> QED BY <2>1, LogCount DEF IInv
<1> QED BY <1>1, Invariant, PTL

-----------------------------------------------------------------------------
(* What merge leaves of a log, and what the server keeps.                  *)

LEMMA WithoutHas ==
  ASSUME NEW q \in Queues, NEW ids
  PROVE  Elements(Without(q, ids)) = Elements(q) \ ids
<1>1. q \in Seq(Ids)
  BY DEF Queues
<1> DEFINE w == Without(q, ids)
<1>2. w \in Seq(Ids) /\ Left(q, ids, Len(q), w)
  BY <1>1, WithoutLeaves
<1> HIDE DEF w
<1>3. Elements(w) = Elements(q) \ ids
  BY <1>2, SMTT(60) DEF Left, Elements
<1> QED BY <1>3 DEF w

\* What merge makes of a log: the server's entries are added, and leave the outbox.
LEMMA MergeIs ==
  ASSUME ServerGood, NEW log \in Logs, NEW from, from \subseteq Entries
  PROVE  /\ merge(log, from).numbered = log.numbered \cup from
         /\ Elements(merge(log, from).pending) =
              Elements(log.pending) \ (NumberedIds(log.numbered) \cup NumberedIds(from))
<1>1. log.pending \in Queues /\ log.numbered \subseteq Entries
  BY LogFields
<1>2. \A x \in log.numbered : x[1] \in NumberedIds(from) => x \in from
  <2> SUFFICES ASSUME NEW x \in log.numbered, NEW y \in from, x[1] = y[1] PROVE x = y
    BY DEF NumberedIds
  <2> QED BY <1>1, EntriesOnce
<1>3. merge(log, from).numbered = {x \in log.numbered : x[1] \notin NumberedIds(from)} \cup from
  BY DEF merge
<1>4. merge(log, from).pending = Without(log.pending, NumberedIds(log.numbered) \cup NumberedIds(from))
  BY DEF merge
<1> QED BY <1>1, <1>2, <1>3, <1>4, WithoutHas

LEMMA StoredIs == ASSUME ServerGood PROVE Stored = NumberedIds(Entries)
<1>1. \A n \in Numbers : n > 0
  BY DEF Numbers
<1>2. \A n \in Numbers : event[n] # NoEvent => <<event[n], n>> \in Entries
  BY <1>1 DEF Entries, After
<1>3. \A x \in Entries : \E n \in Numbers : event[n] # NoEvent /\ x[1] = event[n]
  BY DEF Entries, After
<1> QED BY <1>2, <1>3 DEF Stored, NumberedIds

LEMMA StoredGrows == ASSUME Grown PROVE Stored \subseteq Stored'
<1> SUFFICES ASSUME NEW n \in Numbers, event[n] # NoEvent PROVE event'[n] = event[n]
  BY DEF Stored
<1>1. n > 0
  BY DEF Numbers
<1>2. <<event[n], n>> \in Entries'
  BY <1>1 DEF Grown, Entries, After
<1> QED BY <1>2 DEF Entries, After

LEMMA StoredCopy == ASSUME ServerGood, NEW n, n \subseteq Entries PROVE NumberedIds(n) \subseteq Stored
BY StoredIs DEF NumberedIds

LEMMA DeviceTypes ==
  ASSUME IInv, NEW d \in Devices
  PROVE  /\ disk[d] \in Records /\ page[d] \in Logs /\ writes[d] \in Seq(Writes) /\ news[d] \in Seq(Answers)
         /\ moves[d] \in Nat /\ local[d] \in Records /\ incoming[d] \subseteq Entries
         /\ moves[d] <= Len(Made[d])
BY DEF IInv, DeviceGood, PassGood

LEMMA TableTypes ==
  ASSUME IInv
  PROVE  /\ disk \in [Devices -> Records] /\ page \in [Devices -> Logs] /\ writes \in [Devices -> Seq(Writes)]
         /\ news \in [Devices -> Seq(Answers)] /\ moves \in [Devices -> Nat] /\ local \in [Devices -> Records]
         /\ place \in [Devices -> Places] /\ incoming \in [Devices -> SUBSET Entries]
         /\ tail \in [Devices -> 0..MaxSeq] /\ manifest \in [Devices -> 0..MaxSeq]
BY DEF IInv, DeviceGood, PassGood

LEMMA SameStored == ASSUME UNCHANGED event PROVE Stored' = Stored
BY DEF Stored

\* What the server has it keeps.
LEMMA ServerKeeps ==
  ASSUME IInv, Next
  PROVE  Stored \subseteq Stored'
<1>1. ASSUME UNCHANGED event PROVE Stored \subseteq Stored'
  BY <1>1, SameStored
<1>2. ASSUME NEW f \in flying, Land(f) PROVE Stored \subseteq Stored'
  BY <1>2, LandGood, StoredGrows
<1>3. ASSUME NEW d \in Devices, Move(d) \/ PageStep(d) \/ Manifest(d) \/ Fail(d) \/ Close(d) PROVE UNCHANGED event
  BY <1>3 DEF Move, PageStep, PersistLoad, PersistSave, ReloadRead, ReloadApply, Manifest, Fail, Close, server
<1>4. ASSUME NEW d \in Devices, PassStep(d) PROVE UNCHANGED event
  BY <1>4 DEF PassStep, ReadRuns, Create, FetchTaken, Send, Reserve, Fetch, Save, Take, Keep, server
<1>5. ASSUME NEW f \in flying, Die(f) PROVE UNCHANGED event
  BY <1>5 DEF Die
<1> QED BY <1>1, <1>2, <1>3, <1>4, <1>5 DEF Next, Landing

-----------------------------------------------------------------------------
(* A device that has not raced: where each of its moves is.                *)

\* What the page plays and what the server has.
Known(d) == IdsOf(page[d]) \cup Stored

\* A device without a record has nothing of the run stored, nor did a write read any of it.
Blank(d) ==
  /\ ~disk[d].here => disk[d].log = NoLog
  /\ \A k \in 1..Len(writes[d]) : ~writes[d][k].stored.here => writes[d][k].stored.log = NoLog

\* The outbox at the store is in each write under way, each write in the next, and the last one, or
\* the store where nothing is under way, has what the page plays; so nothing made is anywhere else.
Fits(d) ==
  /\ Elements(disk[d].log.pending) \subseteq Known(d)
  /\ \A k \in 1..Len(writes[d]) :
       /\ IdsOf(writes[d][k].log) \subseteq Known(d)
       /\ Elements(disk[d].log.pending) \subseteq IdsOf(writes[d][k].log) \cup Stored
       /\ \A j \in 1..k : IdsOf(writes[d][j].log) \subseteq IdsOf(writes[d][k].log) \cup Stored
  /\ writes[d] = <<>> => IdsOf(page[d]) \subseteq IdsOf(disk[d].log) \cup Stored
  /\ writes[d] # <<>> => IdsOf(page[d]) \subseteq IdsOf(writes[d][Len(writes[d])].log) \cup Stored
  /\ \A i \in 1..moves[d] : Made[d][i] \in Known(d)

Whole(d) == Blank(d) /\ (raced[d] \/ Fits(d))
WholeInv == \A d \in Devices : Whole(d)

\* What a device's store loses in a step, it loses to the server or to a race.
Keeps(d) ==
  raced'[d] \/ /\ disk[d].log.numbered \subseteq disk'[d].log.numbered
               /\ IdsOf(disk[d].log) \subseteq IdsOf(disk'[d].log) \cup Stored


\* Nothing of another device is touched.
OnlyAt(d) ==
  \A e \in Devices \ {d} :
    /\ disk'[e] = disk[e] /\ page'[e] = page[e] /\ writes'[e] = writes[e]
    /\ moves'[e] = moves[e] /\ raced'[e] = raced[e]

LEMMA OthersStay ==
  ASSUME NEW d \in Devices, OnlyAt(d), Stored \subseteq Stored', WholeInv, Whole(d)'
  PROVE  WholeInv'
<1>1. ASSUME NEW e \in Devices, e # d PROVE Whole(e)'
  <2>1. disk'[e] = disk[e] /\ page'[e] = page[e] /\ writes'[e] = writes[e] /\ moves'[e] = moves[e]
        /\ raced'[e] = raced[e]
    BY <1>1 DEF OnlyAt
  <2>2. Blank(e)' /\ (Fits(e) => Fits(e)')
    BY <2>1 DEF WholeInv, Whole, Blank, Fits, Known
  <2> QED BY <2>1, <2>2 DEF WholeInv, Whole
<1> QED BY <1>1 DEF WholeInv

LEMMA AllStay ==
  ASSUME UNCHANGED <<disk, page, writes, moves, raced>>, Stored \subseteq Stored', WholeInv
  PROVE  WholeInv'
<1>1. ASSUME NEW e \in Devices PROVE Whole(e)'
  <2>1. Blank(e)' /\ (Fits(e) => Fits(e)')
    BY DEF WholeInv, Whole, Blank, Fits, Known
  <2> QED BY <2>1 DEF WholeInv, Whole
<1> QED BY <1>1 DEF WholeInv

LEMMA RacesIs ==
  ASSUME RacedType, NEW d \in Devices, NEW late, Races(d, late)
  PROVE  /\ \A e \in Devices \ {d} : raced'[e] = raced[e]
         /\ raced[d] \/ late => raced'[d]
BY DEF RacedType, Races

LEMMA MoveWhole ==
  ASSUME IInv, NEW d \in Devices, Move(d), WholeInv
  PROVE  WholeInv'
<1> DEFINE id == Made[d][moves[d] + 1]
           q == page[d].pending
           log == [page[d] EXCEPT !.pending = Append(@, id)]
           w == [log |-> log, read |-> FALSE, stored |-> NoRun]
<1>1. /\ page' = [page EXCEPT ![d] = log] /\ writes' = [writes EXCEPT ![d] = Append(@, w)]
      /\ moves' = [moves EXCEPT ![d] = @ + 1] /\ UNCHANGED <<disk, event, raced>>
  BY DEF Move, server
<1>2. page[d] \in Log /\ q \in Seq(Ids) /\ moves[d] \in Nat /\ writes[d] \in Seq(Writes)
  BY DeviceTypes, LogFields DEF Queues
<1>3. log.numbered = page[d].numbered /\ log.pending = Append(q, id)
  BY <1>2 DEF Log
<1> HIDE DEF log
<1>4. Elements(q) \subseteq Elements(log.pending) /\ id \in Elements(log.pending)
  <2>1. Len(Append(q, id)) = Len(q) + 1 /\ Len(q) \in Nat /\ Append(q, id)[Len(q) + 1] = id
        /\ \A i \in 1..Len(q) : Append(q, id)[i] = q[i]
    BY <1>2
  <2>2. Elements(q) \subseteq Elements(Append(q, id)) /\ id \in Elements(Append(q, id))
    BY <2>1 DEF Elements
  <2> QED BY <1>3, <2>2
<1>5. IdsOf(page[d]) \subseteq IdsOf(log) /\ id \in IdsOf(log)
  BY <1>3, <1>4 DEF IdsOf
<1> HIDE DEF w
<1>6. writes'[d] = Append(writes[d], w) /\ page'[d] = log /\ moves'[d] = moves[d] + 1
  BY <1>1, TableTypes
<1>7. /\ Len(writes'[d]) = Len(writes[d]) + 1 /\ writes'[d] # <<>> /\ writes'[d][Len(writes[d]) + 1] = w
      /\ Len(writes[d]) \in Nat /\ \A k \in 1..Len(writes[d]) : writes'[d][k] = writes[d][k]
  BY <1>2, <1>6
<1>8. w.log = log /\ w.stored = NoRun /\ NoRun.log = NoLog
  BY DEF w, NoRun
<1> HIDE DEF id, q
<1>9. OnlyAt(d) /\ Stored' = Stored
  BY <1>1, TableTypes, SameStored DEF OnlyAt
<1>10. Blank(d)'
  BY <1>1, <1>7, <1>8 DEF WholeInv, Whole, Blank
<1>11. ASSUME Fits(d) PROVE Fits(d)'
  <2>1. Known(d)' = IdsOf(log) \cup Stored /\ Known(d) \subseteq IdsOf(log) \cup Stored
    BY <1>5, <1>6, <1>9 DEF Known
  <2>2. Elements(disk[d].log.pending) \subseteq IdsOf(log) \cup Stored
        /\ \A k \in 1..Len(writes[d]) : IdsOf(writes[d][k].log) \subseteq IdsOf(log) \cup Stored
    BY <1>11, <2>1 DEF Fits
  <2>3. \A k \in 1..Len(writes'[d]) :
          /\ IdsOf(writes'[d][k].log) \subseteq IdsOf(log) \cup Stored
          /\ Elements(disk[d].log.pending) \subseteq IdsOf(writes'[d][k].log) \cup Stored
          /\ \A j \in 1..k : IdsOf(writes'[d][j].log) \subseteq IdsOf(writes'[d][k].log) \cup Stored
    <3> SUFFICES ASSUME NEW k \in 1..Len(writes'[d])
                 PROVE  /\ IdsOf(writes'[d][k].log) \subseteq IdsOf(log) \cup Stored
                        /\ Elements(disk[d].log.pending) \subseteq IdsOf(writes'[d][k].log) \cup Stored
                        /\ \A j \in 1..k : IdsOf(writes'[d][j].log) \subseteq IdsOf(writes'[d][k].log) \cup Stored
      OBVIOUS
    <3>1. CASE k \in 1..Len(writes[d])
      <4>1. \A j \in 1..k : j \in 1..Len(writes[d]) /\ writes'[d][j] = writes[d][j]
        BY <1>7, <3>1
      <4>2. writes'[d][k] = writes[d][k]
        BY <1>7, <3>1
      <4> QED BY <1>11, <2>2, <3>1, <4>1, <4>2 DEF Fits
    <3>2. CASE k = Len(writes[d]) + 1
      <4>1. \A j \in 1..k : writes'[d][j] = w \/ (j \in 1..Len(writes[d]) /\ writes'[d][j] = writes[d][j])
        BY <1>7, <3>2
      <4>2. writes'[d][k].log = log
        BY <1>7, <1>8, <3>2
      <4> QED BY <1>8, <2>2, <4>1, <4>2
    <3> QED BY <1>7, <3>1, <3>2
  <2>4. \A i \in 1..moves'[d] : Made[d][i] \in IdsOf(log) \cup Stored
    <3>1. \A i \in 1..moves'[d] : i \in 1..moves[d] \/ Made[d][i] = id
      BY <1>2, <1>6 DEF id
    <3> QED BY <1>5, <1>11, <2>1, <3>1 DEF Fits
  <2>5. IdsOf(page'[d]) \subseteq IdsOf(writes'[d][Len(writes'[d])].log) \cup Stored
    BY <1>6, <1>7, <1>8
  <2> QED BY <1>1, <1>7, <1>9, <2>1, <2>2, <2>3, <2>4, <2>5 DEF Fits
<1> QED BY <1>1, <1>9, <1>10, <1>11, OthersStay DEF WholeInv, Whole

LEMMA PersistLoadWhole ==
  ASSUME IInv, NEW d \in Devices, PersistLoad(d), WholeInv
  PROVE  WholeInv'
<1>1. PICK i \in 1..Len(writes[d]) :
        /\ writes' = [writes EXCEPT ![d][i].read = TRUE, ![d][i].stored = disk[d]]
        /\ UNCHANGED <<server, disk, page, news, moves, raced, pass, faults>>
  BY DEF PersistLoad
<1>2. UNCHANGED <<disk, page, moves, raced, event>>
  BY <1>1 DEF server
<1>3. writes[d] \in Seq(Writes) /\ writes[d][i] \in Writes
  BY DeviceTypes
<1> DEFINE w == [writes[d][i] EXCEPT !.read = TRUE, !.stored = disk[d]]
<1>4. writes' = [writes EXCEPT ![d] = [writes[d] EXCEPT ![i] = w]]
  BY <1>1, <1>3, TableTypes
<1>5. w.log = writes[d][i].log /\ w.stored = disk[d]
  BY <1>3 DEF Writes
<1> HIDE DEF w
<1>6. writes'[d] = [writes[d] EXCEPT ![i] = w]
  BY <1>4, TableTypes
<1>7. Len(writes'[d]) = Len(writes[d]) /\ (writes'[d] = <<>> <=> writes[d] = <<>>)
      /\ \A k \in 1..Len(writes[d]) : writes'[d][k] = IF k = i THEN w ELSE writes[d][k]
  BY <1>3, <1>6
<1>8. \A k \in 1..Len(writes[d]) :
        /\ writes'[d][k].log = writes[d][k].log
        /\ writes'[d][k].stored = disk[d] \/ writes'[d][k].stored = writes[d][k].stored
  BY <1>5, <1>7
<1>9. OnlyAt(d) /\ Stored' = Stored
  BY <1>2, <1>4, TableTypes, SameStored DEF OnlyAt
<1>10. Blank(d)'
  BY <1>2, <1>7, <1>8 DEF WholeInv, Whole, Blank
<1>11. ASSUME Fits(d) PROVE Fits(d)'
  <2>1. Known(d)' = Known(d)
    BY <1>2, <1>9 DEF Known
  <2>2. writes[d] # <<>> => Len(writes[d]) \in 1..Len(writes[d])
    BY <1>3
  <2>3. \A k \in 1..Len(writes[d]) : \A j \in 1..k : j \in 1..Len(writes[d])
    BY <1>3
  <2> QED BY <1>2, <1>7, <1>8, <1>9, <1>11, <2>1, <2>2, <2>3 DEF Fits
<1> QED BY <1>2, <1>9, <1>10, <1>11, OthersStay DEF WholeInv, Whole

\* What persist writes: a record of the run, and in it all that the write held.
LEMMA PersistSaveIs ==
  ASSUME IInv, RacedType, WholeInv, NEW d \in Devices, PersistSave(d)
  PROVE  /\ writes[d] # <<>> /\ writes'[d] = Tail(writes[d]) /\ disk'[d].here
         /\ OnlyAt(d) /\ UNCHANGED <<page, moves, event>>
         /\ raced'[d] \/ /\ ~raced[d] /\ Fits(d)
                         /\ disk[d].log.numbered \subseteq disk'[d].log.numbered
                         /\ Elements(disk'[d].log.pending) \subseteq IdsOf(writes[d][1].log)
                         /\ IdsOf(writes[d][1].log) \subseteq IdsOf(disk'[d].log) \cup Stored
<1>1. writes[d] \in Seq(Writes) /\ disk[d] \in Records /\ writes[d] # <<>>
  BY DeviceTypes DEF PersistSave
<1>2. Head(writes[d]) = writes[d][1] /\ 1 \in 1..Len(writes[d]) /\ writes[d][1] \in Writes
  BY <1>1
<1> DEFINE stored == writes[d][1].stored
           mine == writes[d][1].log
           log == IF stored.here THEN reconcile(stored.log, mine) ELSE mine
           r == [stored EXCEPT !.here = TRUE, !.log = log]
<1>3. /\ disk' = [disk EXCEPT ![d] = r] /\ writes' = [writes EXCEPT ![d] = Tail(@)]
      /\ Races(d, stored.log.numbered # disk[d].log.numbered) /\ UNCHANGED <<page, moves, event>>
  BY <1>2 DEF PersistSave, server
<1>4. stored \in Records /\ mine \in Logs
  BY <1>2 DEF Writes
<1>5. ~stored.here => stored.log = NoLog
  BY <1>2 DEF WholeInv, Whole, Blank
<1> HIDE DEF stored, mine
<1>6. mine.pending \in Queues /\ mine.numbered \subseteq Entries
      /\ stored.log \in Logs /\ stored.log.numbered \subseteq Entries
  BY <1>4, RecordFields, LogFields
<1>7. NumberedIds(mine.numbered) \subseteq Stored /\ NumberedIds(stored.log.numbered) \subseteq Stored
  BY <1>6, StoredCopy DEF IInv
<1>8. /\ stored.log.numbered \subseteq log.numbered
      /\ Elements(log.pending) \subseteq IdsOf(mine)
      /\ IdsOf(mine) \subseteq IdsOf(log) \cup Stored
  <2>1. CASE stored.here
    <3>1. log = [numbered |-> stored.log.numbered,
                 pending |-> Without(mine.pending, NumberedIds(stored.log.numbered))]
      BY <2>1 DEF reconcile
    <3>2. Elements(log.pending) = Elements(mine.pending) \ NumberedIds(stored.log.numbered)
          /\ log.numbered = stored.log.numbered
      BY <1>6, <3>1, WithoutHas
    <3> QED BY <1>7, <3>2 DEF IdsOf
  <2>2. CASE ~stored.here
    <3>1. log = mine /\ stored.log.numbered = {}
      BY <1>5, <2>2 DEF NoLog
    <3> QED BY <3>1 DEF IdsOf
  <2> QED BY <2>1, <2>2
<1> HIDE DEF log
<1>9. r.here /\ r.log = log
  BY <1>4 DEF Records, Record
<1> HIDE DEF r
<1>10. disk'[d] = r /\ writes'[d] = Tail(writes[d]) /\ \A e \in Devices \ {d} : disk'[e] = disk[e] /\ writes'[e] = writes[e]
  BY <1>3, TableTypes
<1>11. OnlyAt(d)
  BY <1>3, <1>10, RacesIs DEF OnlyAt
<1>12. raced'[d] \/ (~raced[d] /\ stored.log.numbered = disk[d].log.numbered)
  BY <1>3, RacesIs
<1>13. ~raced[d] => Fits(d)
  BY DEF WholeInv, Whole
<1> QED BY <1>1, <1>3, <1>8, <1>9, <1>10, <1>11, <1>12, <1>13 DEF mine

LEMMA PersistSaveWhole ==
  ASSUME IInv, RacedType, WholeInv, NEW d \in Devices, PersistSave(d)
  PROVE  WholeInv' /\ Keeps(d)
<1>1. /\ writes[d] # <<>> /\ writes'[d] = Tail(writes[d]) /\ disk'[d].here
      /\ OnlyAt(d) /\ UNCHANGED <<page, moves, event>>
  BY PersistSaveIs
<1>2. writes[d] \in Seq(Writes)
  BY DeviceTypes
<1>3. /\ Len(writes[d]) \in Nat /\ Len(writes[d]) > 0 /\ Len(writes'[d]) = Len(writes[d]) - 1
      /\ \A k \in 1..Len(writes'[d]) : k + 1 \in 1..Len(writes[d]) /\ writes'[d][k] = writes[d][k + 1]
      /\ writes'[d] = <<>> <=> Len(writes[d]) = 1
  <2> DEFINE q == writes[d]
  <2>1. q \in Seq(Writes) /\ q # <<>> /\ writes'[d] = Tail(q)
    BY <1>1, <1>2
  <2> HIDE DEF q
  <2>2. Len(q) \in Nat /\ Len(q) > 0 /\ Len(Tail(q)) = Len(q) - 1 /\ Tail(q) \in Seq(Writes)
        /\ \A k \in 1..Len(Tail(q)) : k + 1 \in 1..Len(q) /\ Tail(q)[k] = q[k + 1]
    BY <2>1
  <2>3. Tail(q) = <<>> <=> Len(Tail(q)) = 0
    BY <2>2, EmptySeq
  <2> QED BY <2>1, <2>2, <2>3 DEF q
<1>4. Blank(d)'
  <2>1. \A k \in 1..Len(writes[d]) : ~writes[d][k].stored.here => writes[d][k].stored.log = NoLog
    BY DEF WholeInv, Whole, Blank
  <2>2. ASSUME NEW k \in 1..Len(writes'[d])
        PROVE  ~writes'[d][k].stored.here => writes'[d][k].stored.log = NoLog
    <3> DEFINE m == k + 1
    <3>1. m \in 1..Len(writes[d]) /\ writes'[d][k] = writes[d][m]
      BY <1>3
    <3> HIDE DEF m
    <3> QED BY <2>1, <3>1
  <2> QED BY <1>1, <2>2 DEF Blank
<1>5. Stored' = Stored /\ Known(d)' = Known(d)
  BY <1>1, SameStored DEF Known
<1>6. CASE raced'[d]
  BY <1>1, <1>4, <1>5, <1>6, OthersStay DEF Whole, Keeps
<1>7. CASE ~raced'[d]
  <2>1. /\ Fits(d) /\ disk[d].log.numbered \subseteq disk'[d].log.numbered
        /\ Elements(disk'[d].log.pending) \subseteq IdsOf(writes[d][1].log)
        /\ IdsOf(writes[d][1].log) \subseteq IdsOf(disk'[d].log) \cup Stored
    BY <1>7, PersistSaveIs
  <2>2. 1 \in 1..Len(writes[d]) /\ \A k \in 1..Len(writes[d]) : 1 \in 1..k
    BY <1>3
  <2>3. IdsOf(disk[d].log) \subseteq IdsOf(disk'[d].log) \cup Stored
    <3>1. NumberedIds(disk[d].log.numbered) \subseteq NumberedIds(disk'[d].log.numbered)
      BY <2>1 DEF NumberedIds
    <3>2. Elements(disk[d].log.pending) \subseteq IdsOf(writes[d][1].log) \cup Stored
      BY <2>1, <2>2 DEF Fits
    <3> QED BY <2>1, <3>1, <3>2 DEF IdsOf
  <2>4. Elements(disk'[d].log.pending) \subseteq Known(d)
    BY <2>1, <2>2 DEF Fits, Known
  <2>5. \A k \in 1..Len(writes'[d]) :
          /\ IdsOf(writes'[d][k].log) \subseteq Known(d)
          /\ Elements(disk'[d].log.pending) \subseteq IdsOf(writes'[d][k].log) \cup Stored
          /\ \A j \in 1..k : IdsOf(writes'[d][j].log) \subseteq IdsOf(writes'[d][k].log) \cup Stored
    <3> SUFFICES ASSUME NEW k \in 1..Len(writes'[d])
                 PROVE  /\ IdsOf(writes'[d][k].log) \subseteq Known(d)
                        /\ Elements(disk'[d].log.pending) \subseteq IdsOf(writes'[d][k].log) \cup Stored
                        /\ \A j \in 1..k : IdsOf(writes'[d][j].log) \subseteq IdsOf(writes'[d][k].log) \cup Stored
      OBVIOUS
    <3>1. k + 1 \in 1..Len(writes[d]) /\ writes'[d][k] = writes[d][k + 1]
      BY <1>3
    <3>2. \A j \in 1..k : j + 1 \in 1..(k + 1) /\ writes'[d][j] = writes[d][j + 1]
      BY <1>3
    <3>3. 1 \in 1..(k + 1)
      OBVIOUS
    <3> DEFINE m == k + 1
    <3>4. m \in 1..Len(writes[d]) /\ writes'[d][k] = writes[d][m] /\ 1 \in 1..m
          /\ \A j \in 1..k : \E l \in 1..m : writes'[d][j] = writes[d][l]
      BY <3>1, <3>2, <3>3
    <3> HIDE DEF m
    <3>5. /\ IdsOf(writes[d][m].log) \subseteq Known(d)
          /\ \A j \in 1..m : IdsOf(writes[d][j].log) \subseteq IdsOf(writes[d][m].log) \cup Stored
      BY <2>1, <3>4 DEF Fits
    <3>6. IdsOf(writes[d][1].log) \subseteq IdsOf(writes[d][m].log) \cup Stored
      BY <3>4, <3>5
    <3>7. \A j \in 1..k : IdsOf(writes'[d][j].log) \subseteq IdsOf(writes[d][m].log) \cup Stored
      BY <3>4, <3>5
    <3> QED BY <2>1, <3>4, <3>5, <3>6, <3>7
  <2>6. writes'[d] = <<>> => IdsOf(page[d]) \subseteq IdsOf(disk'[d].log) \cup Stored
    <3>1. writes'[d] = <<>> => IdsOf(page[d]) \subseteq IdsOf(writes[d][1].log) \cup Stored
      BY <1>1, <1>3, <2>1 DEF Fits
    <3> QED BY <2>1, <3>1
  <2>7. writes'[d] # <<>> => IdsOf(page[d]) \subseteq IdsOf(writes'[d][Len(writes'[d])].log) \cup Stored
    <3>1. writes'[d] # <<>> => writes'[d][Len(writes'[d])] = writes[d][Len(writes[d])]
      BY <1>3
    <3> QED BY <1>1, <2>1, <3>1 DEF Fits
  <2>8. Fits(d)'
    BY <1>1, <1>5, <2>1, <2>4, <2>5, <2>6, <2>7 DEF Fits
  <2> QED BY <1>1, <1>4, <1>5, <2>1, <2>3, <2>8, OthersStay DEF Whole, Keeps
<1> QED BY <1>6, <1>7

\* The page takes the record it read: where nothing came between, what it played is in that.
LEMMA PageWhole ==
  ASSUME IInv, NEW d \in Devices, WholeInv, UNCHANGED <<disk, moves, event>>, OnlyAt(d),
         page'[d] = disk[d].log, writes'[d] = <<>>, raced[d] \/ writes[d] # <<>> => raced'[d]
  PROVE  WholeInv'
<1>1. Stored' = Stored /\ Len(writes'[d]) = 0
  BY SameStored
<1>2. Blank(d)'
  BY <1>1 DEF WholeInv, Whole, Blank
<1>3. CASE ~raced'[d]
  <2>1. Fits(d) /\ writes[d] = <<>>
    BY <1>3 DEF WholeInv, Whole
  <2>2. Known(d) \subseteq Known(d)' /\ Known(d)' = IdsOf(disk[d].log) \cup Stored
    BY <1>1, <2>1 DEF Fits, Known
  <2>3. Elements(disk[d].log.pending) \subseteq Known(d)'
    BY <2>2 DEF IdsOf
  <2>4. \A i \in 1..moves[d] : Made[d][i] \in Known(d)'
    BY <2>1, <2>2 DEF Fits
  <2> QED BY <1>1, <1>2, <2>2, <2>3, <2>4, OthersStay DEF Whole, Fits
<1> QED BY <1>1, <1>2, <1>3, OthersStay DEF Whole

LEMMA ReloadApplyWhole ==
  ASSUME IInv, RacedType, NEW d \in Devices, ReloadApply(d), WholeInv
  PROVE  WholeInv'
<1> DEFINE saved == Head(news[d]).saved.log
<1>1. UNCHANGED <<disk, writes, moves, event>>
  BY DEF ReloadApply, server
<1>2. CASE UNCHANGED <<page, raced>>
  BY <1>1, <1>2, AllStay, SameStored
<1>3. CASE page' = [page EXCEPT ![d] = saved] /\ Races(d, saved # disk[d].log \/ writes[d] # <<>>)
  <2>1. OnlyAt(d) /\ page'[d] = saved
    BY <1>1, <1>3, TableTypes, RacesIs DEF OnlyAt
  <2>2. raced[d] \/ saved # disk[d].log \/ writes[d] # <<>> => raced'[d]
    BY <1>3, RacesIs
  <2> HIDE DEF saved
  <2>3. CASE saved = disk[d].log /\ writes[d] = <<>>
    BY <1>1, <2>1, <2>2, <2>3, PageWhole
  <2>4. CASE raced'[d]
    <3>1. Blank(d)'
      BY <1>1 DEF WholeInv, Whole, Blank
    <3> QED BY <1>1, <2>1, <2>4, <3>1, OthersStay, SameStored DEF Whole
  <2> QED BY <2>2, <2>3, <2>4
<1> QED BY <1>2, <1>3 DEF ReloadApply

LEMMA CloseWhole ==
  ASSUME IInv, RacedType, NEW d \in Devices, Close(d), WholeInv
  PROVE  WholeInv'
<1>1. /\ page' = [page EXCEPT ![d] = disk[d].log] /\ writes' = [writes EXCEPT ![d] = <<>>]
      /\ Races(d, writes[d] # <<>>) /\ UNCHANGED <<disk, moves, event>>
  BY DEF Close
<1>2. OnlyAt(d) /\ page'[d] = disk[d].log /\ writes'[d] = <<>>
  BY <1>1, TableTypes, RacesIs DEF OnlyAt
<1>3. raced[d] \/ writes[d] # <<>> => raced'[d]
  BY <1>1, RacesIs
<1> QED BY <1>1, <1>2, <1>3, PageWhole

\* The pass puts a log in place of the store's: one with all the entries, and with no more
\* and no less in its outbox than what the server does not have.
LEMMA StoreWhole ==
  ASSUME IInv, NEW d \in Devices, WholeInv, UNCHANGED <<page, writes, moves, event>>, OnlyAt(d),
         disk'[d].here, raced[d] => raced'[d],
         \/ raced'[d]
         \/ /\ disk[d].log.numbered \subseteq disk'[d].log.numbered
            /\ Elements(disk'[d].log.pending) \subseteq Elements(disk[d].log.pending)
            /\ Elements(disk[d].log.pending) \subseteq IdsOf(disk'[d].log) \cup Stored
  PROVE  WholeInv' /\ Keeps(d)
<1>1. Stored' = Stored /\ Known(d)' = Known(d)
  BY SameStored DEF Known
<1>2. Blank(d)'
  BY DEF WholeInv, Whole, Blank
<1>3. CASE raced'[d]
  BY <1>1, <1>2, <1>3, OthersStay DEF Whole, Keeps
<1>4. CASE ~raced'[d]
  <2>1. /\ disk[d].log.numbered \subseteq disk'[d].log.numbered
        /\ Elements(disk'[d].log.pending) \subseteq Elements(disk[d].log.pending)
        /\ Elements(disk[d].log.pending) \subseteq IdsOf(disk'[d].log) \cup Stored
        /\ Fits(d)
    BY <1>4 DEF WholeInv, Whole
  <2>2. IdsOf(disk[d].log) \subseteq IdsOf(disk'[d].log) \cup Stored
    BY <2>1 DEF IdsOf, NumberedIds
  <2>3. Elements(disk'[d].log.pending) \subseteq Known(d)
    BY <2>1 DEF Fits
  <2>4. \A k \in 1..Len(writes[d]) : Elements(disk'[d].log.pending) \subseteq IdsOf(writes[d][k].log) \cup Stored
    BY <2>1 DEF Fits
  <2>5. writes[d] = <<>> => IdsOf(page[d]) \subseteq IdsOf(disk'[d].log) \cup Stored
    BY <2>1, <2>2 DEF Fits
  <2>6. Fits(d)'
    BY <1>1, <2>1, <2>3, <2>4, <2>5 DEF Fits
  <2> QED BY <1>1, <1>2, <2>1, <2>2, <2>6, OthersStay DEF Whole, Keeps
<1> QED BY <1>3, <1>4

LEMMA SaveWhole ==
  ASSUME IInv, RacedType, NEW d \in Devices, Save(d), WholeInv
  PROVE  WholeInv' /\ \A e \in Devices : Keeps(e)
<1>1. UNCHANGED <<page, writes, moves, event>>
  BY DEF Save, server
<1>2. CASE UNCHANGED <<disk, raced>>
  BY <1>1, <1>2, AllStay, SameStored DEF Keeps
<1> DEFINE old == local[d].log
           log == merge(old, incoming[d])
           new == [here |-> TRUE, about |-> local[d].about \cup about[d], seq |-> Larger(tailSeq(log), tail[d]), log |-> log]
<1>3. CASE disk' = [disk EXCEPT ![d] = new] /\ Races(d, old # disk[d].log)
  <2>1. old \in Logs /\ incoming[d] \subseteq Entries
    BY DeviceTypes, RecordFields
  <2>2. new.here /\ new.log = log
    OBVIOUS
  <2>3. /\ log.numbered = old.numbered \cup incoming[d]
        /\ Elements(log.pending) = Elements(old.pending) \ (NumberedIds(old.numbered) \cup NumberedIds(incoming[d]))
    BY <2>1, MergeIs DEF IInv
  <2>4. NumberedIds(old.numbered) \subseteq Stored /\ NumberedIds(incoming[d]) \subseteq Stored
    BY <2>1, LogFields, StoredCopy DEF IInv
  <2> HIDE DEF new, log, old
  <2>5. disk'[d] = new /\ OnlyAt(d)
    BY <1>1, <1>3, TableTypes, RacesIs DEF OnlyAt
  <2>6. (raced[d] => raced'[d]) /\ (raced'[d] \/ old = disk[d].log)
    BY <1>3, RacesIs
  <2>7. /\ old.numbered \subseteq log.numbered /\ Elements(log.pending) \subseteq Elements(old.pending)
        /\ Elements(old.pending) \subseteq IdsOf(log) \cup Stored
    BY <2>3, <2>4 DEF IdsOf
  <2>8. WholeInv' /\ Keeps(d)
    BY <1>1, <2>2, <2>5, <2>6, <2>7, StoreWhole
  <2> QED BY <2>5, <2>8 DEF OnlyAt, Keeps
<1> QED BY <1>2, <1>3 DEF Save

LEMMA KeepWhole ==
  ASSUME IInv, RacedType, NEW d \in Devices, Keep(d), WholeInv
  PROVE  WholeInv' /\ \A e \in Devices : Keeps(e)
<1> DEFINE log == [numbered |-> incoming[d], pending |-> <<>>]
           new == [here |-> TRUE, about |-> about[d], seq |-> tailSeq(log), log |-> log]
<1>1. disk' = [disk EXCEPT ![d] = new] /\ Races(d, disk[d].here) /\ UNCHANGED <<page, writes, moves, event>>
  BY DEF Keep, server
<1>2. new.here /\ new.log = log /\ log.pending = <<>> /\ Elements(<<>>) = {}
  BY DEF Elements
<1> HIDE DEF new, log
<1>3. disk'[d] = new /\ OnlyAt(d)
  BY <1>1, TableTypes, RacesIs DEF OnlyAt
<1>4. (raced[d] => raced'[d]) /\ (raced'[d] \/ disk[d].log = NoLog)
  BY <1>1, RacesIs DEF WholeInv, Whole, Blank
<1>5. NoLog.numbered = {} /\ Elements(NoLog.pending) = {}
  BY <1>2 DEF NoLog
<1>6. WholeInv' /\ Keeps(d)
  BY <1>1, <1>2, <1>3, <1>4, <1>5, StoreWhole
<1> QED BY <1>3, <1>6 DEF OnlyAt, Keeps

LEMMA WholeStep ==
  ASSUME IInv, RacedType, WholeInv, [Next]_vars
  PROVE  WholeInv' /\ \A d \in Devices : Keeps(d)
<1> DEFINE All == \A d \in Devices : Keeps(d)
<1>1. UNCHANGED disk => All
  BY DEF Keeps
<1>2. UNCHANGED <<disk, page, writes, moves, raced>> /\ Stored \subseteq Stored' => WholeInv' /\ All
  BY <1>1, AllStay
<1>3. Next => Stored \subseteq Stored'
  BY ServerKeeps
<1>4. ASSUME NEW d \in Devices, PersistSave(d) PROVE WholeInv' /\ All
  <2>1. OnlyAt(d)
    BY <1>4, PersistSaveIs
  <2> QED BY <1>4, <2>1, PersistSaveWhole DEF OnlyAt, Keeps
<1> HIDE DEF All
<1>5. ASSUME NEW d \in Devices, Move(d) \/ PersistLoad(d) \/ ReloadApply(d) \/ Close(d) PROVE WholeInv' /\ All
  <2>1. UNCHANGED disk
    BY <1>5 DEF Move, PersistLoad, ReloadApply, Close
  <2> QED BY <1>1, <1>5, <2>1, MoveWhole, PersistLoadWhole, ReloadApplyWhole, CloseWhole
<1>6. ASSUME NEW d \in Devices, ReloadRead(d) \/ Manifest(d) \/ Fail(d), Next PROVE WholeInv' /\ All
  <2>1. UNCHANGED <<disk, page, writes, moves, raced>>
    BY <1>6 DEF ReloadRead, Manifest, Fail, device
  <2> QED BY <1>2, <1>3, <1>6, <2>1
<1>7. ASSUME NEW d \in Devices, PassStep(d), Next PROVE WholeInv' /\ All
  <2>1. CASE Save(d) \/ Keep(d)
    BY <2>1, SaveWhole, KeepWhole DEF All
  <2>2. CASE ReadRuns(d) \/ Create(d) \/ FetchTaken(d) \/ Send(d) \/ Fetch(d) \/ Take(d)
    <3>1. UNCHANGED <<disk, page, writes, moves, raced>>
      BY <2>2 DEF ReadRuns, Create, FetchTaken, Send, Fetch, Take, device
    <3> QED BY <1>2, <1>3, <1>7, <3>1
  <2> QED BY <1>7, <2>1, <2>2 DEF PassStep
<1>8. ASSUME NEW f \in flying, Land(f) \/ Die(f), Next PROVE WholeInv' /\ All
  <2>1. UNCHANGED <<disk, page, writes, moves, raced>>
    BY <1>8 DEF Land, Die, device
  <2> QED BY <1>2, <1>3, <1>8, <2>1
<1>9. CASE UNCHANGED vars
  <2>1. UNCHANGED <<disk, page, writes, moves, raced>> /\ UNCHANGED event
    BY <1>9 DEF vars
  <2>2. Stored \subseteq Stored'
    BY <2>1, SameStored
  <2> QED BY <1>2, <2>1, <2>2 DEF All
<1>10. CASE Next
  <2>1. ASSUME NEW d \in Devices, PageStep(d) PROVE WholeInv' /\ All
    BY <1>4, <1>5, <1>6, <1>10, <2>1 DEF PageStep
  <2>2. ASSUME NEW d \in Devices, Move(d) \/ PageStep(d) \/ Manifest(d) \/ PassStep(d) \/ Fail(d) \/ Close(d)
        PROVE  WholeInv' /\ All
    BY <1>5, <1>6, <1>7, <1>10, <2>1, <2>2
  <2>3. ASSUME NEW f \in flying, Land(f) \/ Die(f) PROVE WholeInv' /\ All
    BY <1>8, <1>10, <2>3
  <2> QED BY <1>10, <2>2, <2>3 DEF Next, Landing, All
<1> QED BY <1>9, <1>10

LEMMA WholeInit == Init => WholeInv
<1> SUFFICES ASSUME Init, NEW d \in Devices PROVE Whole(d)
  BY DEF WholeInv
<1>1. disk[d] = NoRun /\ page[d] = NoLog /\ writes[d] = <<>> /\ moves[d] = 0
  BY DEF Init
<1>2. NoRun.log = NoLog /\ NoLog.pending = <<>> /\ Elements(<<>>) = {}
  BY DEF NoRun, NoLog, Elements
<1>3. Len(writes[d]) = 0
  BY <1>1
<1> QED BY <1>1, <1>2, <1>3 DEF Whole, Blank, Fits

LEMMA WholeInvariant == Spec => [](IInv /\ RacedType /\ WholeInv)
BY Invariant, RacedInvariant, WholeInit, WholeStep, PTL DEF Spec

-----------------------------------------------------------------------------
(* What races alone can break.                                             *)

\* At a device that has not raced, no write of the page's and none of a pass's takes its number from an event,
\* however its moves, its writes and its passes cross (log.ts, useRun.ts, engine.ts).
THEOREM ConfirmedStands == Spec => ConfirmedStays
<1> DEFINE Step == \A d \in Devices : raced'[d] \/ disk[d].log.numbered \subseteq disk'[d].log.numbered
<1>1. IInv /\ RacedType /\ WholeInv /\ [Next]_vars => [Step]_vars
  <2> SUFFICES ASSUME IInv, RacedType, WholeInv, Next PROVE Step
    OBVIOUS
  <2> QED BY WholeStep DEF Keeps
<1> QED BY <1>1, WholeInvariant, PTL DEF Spec, ConfirmedStays

\* An event at the store of a device that has not raced leaves it only for the server's log.
THEOREM StoredStands == Spec => StoredStays
<1> DEFINE Step == \A d \in Devices : \A id \in IdsOf(disk[d].log) : raced'[d] \/ id \in IdsOf(disk'[d].log) \/ id \in Stored'
<1>1. IInv /\ RacedType /\ WholeInv /\ [Next]_vars => [Step]_vars
  <2> SUFFICES ASSUME IInv, RacedType, WholeInv, Next PROVE Step
    OBVIOUS
  <2>1. Stored \subseteq Stored'
    BY ServerKeeps
  <2> QED BY <2>1, WholeStep DEF Keeps
<1> QED BY <1>1, WholeInvariant, PTL DEF Spec, StoredStays

\* Each move made on a device that has not raced is on its page or in the server's log.
THEOREM NothingLost == Spec => []MovesKept
<1>1. WholeInv => MovesKept
  BY DEF WholeInv, Whole, Fits, Known, MovesKept
<1> QED BY <1>1, WholeInvariant, PTL
=============================================================================
