-------------------------- MODULE SessionLogProofs --------------------------
(***************************************************************************)
(* What holds of a session's log for every set of events, accounts and     *)
(* executions, and every chunk size.                                       *)
(***************************************************************************)
EXTENDS SessionLog, SequenceTheorems, TLAPS

\* A chunk taken off a batch, and what is left, are sequences of events that
\* hold none twice; the chunk is no longer than one transaction takes, and
\* not empty unless the batch is.
LEMMA ChunkFacts ==
  ASSUME NEW b \in Seq(Ids), Injective(b)
  PROVE  /\ First(b) \in Seq(Ids) /\ Injective(First(b)) /\ Len(First(b)) <= Chunk
         /\ After(b) \in Seq(Ids) /\ Injective(After(b))
         /\ b # <<>> => First(b) # <<>>
<1>1. Chunk \in Nat /\ Chunk >= 1
  BY ConstantsAssumption
<1>2. /\ First(b) \in Seq(Ids)
      /\ Len(First(b)) = IF Len(b) < Chunk THEN Len(b) ELSE Chunk
      /\ \A i \in 1..Len(First(b)) : First(b)[i] = b[i]
  BY <1>1 DEF First
<1>3. After(b) \in Seq(Ids) /\ Injective(After(b))
  <2>1. CASE Chunk + 1 <= Len(b)
    <3>1. /\ After(b) \in Seq(Ids)
          /\ Len(After(b)) = Len(b) - Chunk
          /\ \A i \in 1..Len(After(b)) : After(b)[i] = b[Chunk + i]
      BY <1>1, <2>1, SubSeqProperties DEF After
    <3>2. ASSUME NEW i \in 1..Len(After(b)), NEW j \in 1..Len(After(b)), After(b)[i] = After(b)[j]
          PROVE  i = j
      <4>1. Chunk + i \in 1..Len(b) /\ Chunk + j \in 1..Len(b)
        BY <1>1, <2>1, <3>1
      <4>2. b[Chunk + i] = b[Chunk + j]
        BY <3>1, <3>2
      <4>3. Chunk + i = Chunk + j
        BY <4>1, <4>2 DEF Injective
      <4> QED BY <1>1, <3>1, <4>3
    <3> QED BY <3>1, <3>2 DEF Injective
  <2>2. CASE ~(Chunk + 1 <= Len(b))
    <3>1. After(b) = <<>>
      BY <1>1, <2>2, SubSeqProperties DEF After
    <3> QED BY <3>1 DEF Injective
  <2> QED BY <1>1, <2>1, <2>2
<1> QED BY <1>1, <1>2, <1>3 DEF Injective

\* What a device sends is some of what it made, each event once.
LEMMA BatchFacts ==
  ASSUME NEW sub \in Subs, NEW b \in BatchesOf(sub)
  PROVE  b \in Seq(Ids) /\ b # <<>> /\ Injective(b)
<1>1. PICK i, j \in 1..Len(Made[sub]) : b = SubSeq(Made[sub], i, j)
  BY DEF BatchesOf
<1>2. Made[sub] \in Seq(Ids) /\ Injective(Made[sub])
  BY ConstantsAssumption DEF Injective
<1>3. b # <<>>
  BY DEF BatchesOf
<1>4. CASE i <= j
  <2>1. /\ b \in Seq(Ids)
        /\ Len(b) = j - i + 1
        /\ \A k \in 1..Len(b) : b[k] = Made[sub][i + k - 1]
    BY <1>1, <1>2, <1>4, SubSeqProperties
  <2>2. \A k \in 1..Len(b) : i + k - 1 \in 1..Len(Made[sub])
    BY <1>1, <1>2, <2>1
  <2>3. ASSUME NEW k \in 1..Len(b), NEW l \in 1..Len(b), b[k] = b[l]
        PROVE  k = l
    <3>1. Made[sub][i + k - 1] = Made[sub][i + l - 1]
      BY <2>1, <2>3
    <3>2. i + k - 1 = i + l - 1
      BY <1>2, <2>2, <3>1 DEF Injective
    <3> QED BY <1>1, <2>1, <3>2
  <2> QED BY <1>3, <2>1, <2>3 DEF Injective
<1>5. CASE ~(i <= j)
  <2>1. b = <<>>
    BY <1>1, <1>2, <1>5, SubSeqProperties
  <2> QED BY <1>3, <2>1
<1> QED BY <1>4, <1>5
-----------------------------------------------------------------------------
(* The type invariant, with what it needs of the chunks.                   *)

LEMMA EmptyFacts ==
  /\ \A S : <<>> \in Seq(S)
  /\ Len(<<>>) = 0 /\ Injective(<<>>) /\ Elements(<<>>) = {}
BY DEF Injective, Elements

\* A step of one request leaves the chunks of the others alone.
LEMMA ChunksFrame ==
  ASSUME ChunksSound, NEW w \in Workers, ChunkSound(w)',
         \A v \in Workers \ {w} : /\ chunk'[v] = chunk[v] /\ rest'[v] = rest[v]
                                  /\ keep'[v] = keep[v] /\ pc'[v] = pc[v]
  PROVE  ChunksSound'
BY DEF ChunksSound, ChunkSound

LEMMA ReleaseFacts ==
  ASSUME TypeOK, ChunksSound, NEW w \in Workers, Release(w)
  PROVE  BatchesOK' /\ PlacesOK' /\ ChunksSound'
<1> USE ConstantsAssumption
<1>1. NoRow \in Meta /\ <<>> \in Seq(Ids)
  BY EmptyFacts DEF NoRow, Meta
<1>2. BatchesOK'
  BY <1>1 DEF TypeOK, BatchesOK, Release
<1>3. PlacesOK'
  BY <1>1 DEF TypeOK, PlacesOK, Release, Goto, Places
<1>4. /\ chunk'[w] = <<>> /\ rest'[w] = <<>> /\ keep'[w] = <<>> /\ pc'[w] = "idle"
      /\ \A v \in Workers \ {w} : /\ chunk'[v] = chunk[v] /\ rest'[v] = rest[v]
                                  /\ keep'[v] = keep[v] /\ pc'[v] = pc[v]
  BY DEF TypeOK, BatchesOK, PlacesOK, Release, Goto
<1>5. ChunkSound(w)'
  BY <1>4, EmptyFacts DEF ChunkSound
<1> QED BY <1>2, <1>3, <1>4, <1>5, ChunksFrame

LEMMA TakeUpFacts ==
  ASSUME TypeOK, ChunksSound, NEW w \in Workers,
         NEW b \in Seq(Ids), b # <<>>, Injective(b),
         NEW e \in 0..MaxSeq \cup {AnySeq},
         NEW place \in {"seat", "reserve"},
         TakeUp(w, b, e), Goto(w, place)
  PROVE  BatchesOK' /\ ChunksSound' /\ pc' \in [Workers -> Places]
<1> USE ConstantsAssumption
<1>1. /\ First(b) \in Seq(Ids) /\ Injective(First(b)) /\ Len(First(b)) <= Chunk
      /\ After(b) \in Seq(Ids) /\ Injective(After(b))
      /\ First(b) # <<>>
  BY ChunkFacts
<1>2. BatchesOK'
  BY <1>1, EmptyFacts DEF TypeOK, BatchesOK, TakeUp
<1>3. pc' \in [Workers -> Places]
  BY DEF TypeOK, PlacesOK, Goto, Places
<1>4. /\ chunk'[w] = First(b) /\ rest'[w] = After(b) /\ keep'[w] = <<>>
      /\ \A v \in Workers \ {w} : /\ chunk'[v] = chunk[v] /\ rest'[v] = rest[v]
                                  /\ keep'[v] = keep[v] /\ pc'[v] = pc[v]
  BY DEF TypeOK, BatchesOK, PlacesOK, TakeUp, Goto
<1>5. ChunkSound(w)'
  BY <1>1, <1>4, EmptyFacts DEF ChunkSound
<1> QED BY <1>2, <1>3, <1>4, <1>5, ChunksFrame

LEMMA OnwardFacts ==
  ASSUME TypeOK, ChunksSound, NEW w \in Workers,
         NEW again \in Seq(Ids), Injective(again), Len(again) <= Chunk,
         Onward(w, again), UNCHANGED expect
  PROVE  BatchesOK' /\ ChunksSound' /\ pc' \in [Workers -> Places]
<1> USE ConstantsAssumption
<1>1. rest[w] \in Seq(Ids) /\ Injective(rest[w])
  BY DEF TypeOK, BatchesOK, ChunksSound, ChunkSound
<1>2. /\ First(rest[w]) \in Seq(Ids) /\ Injective(First(rest[w])) /\ Len(First(rest[w])) <= Chunk
      /\ After(rest[w]) \in Seq(Ids) /\ Injective(After(rest[w]))
      /\ rest[w] # <<>> => First(rest[w]) # <<>>
  BY <1>1, ChunkFacts
<1>3. /\ keep'[w] = <<>>
      /\ \A v \in Workers \ {w} : /\ chunk'[v] = chunk[v] /\ rest'[v] = rest[v]
                                  /\ keep'[v] = keep[v] /\ pc'[v] = pc[v]
  BY DEF TypeOK, BatchesOK, PlacesOK, Onward, Goto
<1>4. CASE again # <<>> /\ attempt[w] = 0
  <2>1. BatchesOK' /\ pc' \in [Workers -> Places]
    <3>1. /\ chunk' = [chunk EXCEPT ![w] = again]
          /\ keep' = [keep EXCEPT ![w] = <<>>]
          /\ attempt' = [attempt EXCEPT ![w] = 1]
          /\ UNCHANGED <<rest, passed, expect>>
          /\ Goto(w, "reserve")
      BY <1>4 DEF Onward
    <3>2. BatchesOK'
      BY <3>1, EmptyFacts DEF TypeOK, BatchesOK
    <3>3. pc' \in [Workers -> Places]
      BY <3>1 DEF TypeOK, PlacesOK, Goto, Places
    <3> QED BY <3>2, <3>3
  <2>2. chunk'[w] = again /\ rest'[w] = rest[w] /\ again # <<>>
    BY <1>4 DEF TypeOK, BatchesOK, Onward
  <2>3. ChunkSound(w)'
    BY <1>1, <1>3, <2>2, EmptyFacts DEF ChunkSound
  <2> QED BY <1>3, <2>1, <2>3, ChunksFrame
<1>5. CASE ~(again # <<>> /\ attempt[w] = 0)
  <2>1. BatchesOK' /\ pc' \in [Workers -> Places]
    <3>1. /\ chunk' = [chunk EXCEPT ![w] = First(rest[w])]
          /\ rest' = [rest EXCEPT ![w] = After(rest[w])]
          /\ keep' = [keep EXCEPT ![w] = <<>>]
          /\ attempt' = [attempt EXCEPT ![w] = 0]
          /\ passed' = passed \cup Elements(again)
          /\ Goto(w, IF rest[w] = <<>> THEN "touch" ELSE "reserve")
      BY <1>5 DEF Onward
    <3>2. BatchesOK'
      <4>1. Elements(again) \subseteq Ids
        BY DEF Elements
      <4> QED BY <1>2, <3>1, <4>1, EmptyFacts DEF TypeOK, BatchesOK
    <3>3. pc' \in [Workers -> Places]
      BY <3>1 DEF TypeOK, PlacesOK, Goto, Places
    <3> QED BY <3>2, <3>3
  <2>2. /\ chunk'[w] = First(rest[w]) /\ rest'[w] = After(rest[w])
        /\ pc'[w] = IF rest[w] = <<>> THEN "touch" ELSE "reserve"
    BY <1>5 DEF TypeOK, BatchesOK, PlacesOK, Onward, Goto
  <2>3. ChunkSound(w)'
    BY <1>2, <1>3, <2>2, EmptyFacts DEF ChunkSound
  <2> QED BY <1>3, <2>1, <2>3, ChunksFrame
<1> QED BY <1>4, <1>5

\* A request moves on without touching its chunks.
LEMMA MoveFacts ==
  ASSUME TypeOK, ChunksSound, NEW w \in Workers, NEW place \in Places,
         Goto(w, place), UNCHANGED batch,
         place \in {"seat", "reserve", "write", "check"} => chunk[w] # <<>>
  PROVE  BatchesOK' /\ ChunksSound' /\ pc' \in [Workers -> Places]
<1>1. BatchesOK'
  BY DEF TypeOK, BatchesOK, batch
<1>2. pc' \in [Workers -> Places]
  BY DEF TypeOK, PlacesOK, Goto
<1>3. pc'[w] = place /\ \A v \in Workers \ {w} : pc'[v] = pc[v]
  BY DEF TypeOK, PlacesOK, Goto
<1>4. ChunkSound(w)'
  BY <1>3 DEF batch, ChunksSound, ChunkSound
<1>5. ChunksSound'
  BY <1>3, <1>4, ChunksFrame DEF batch
<1> QED BY <1>1, <1>2, <1>5

LEMMA StrikeOffFacts ==
  ASSUME TypeOK, ChunksSound, NEW w \in Workers, NEW m \in Subs, StrikeOff(w, m)
  PROVE  BatchesOK' /\ PlacesOK' /\ ChunksSound'
<1>1. CASE todo[w] = {m}
  BY <1>1, ReleaseFacts DEF StrikeOff
<1>2. CASE todo[w] # {m}
  <2>1. UNCHANGED <<pc, who, batch, tail, row, begun>> /\ todo' = [todo EXCEPT ![w] = @ \ {m}]
    BY <1>2 DEF StrikeOff
  <2>2. BatchesOK'
    BY <2>1 DEF TypeOK, BatchesOK, batch
  <2>3. PlacesOK'
    BY <2>1 DEF TypeOK, PlacesOK
  <2>4. ChunksSound'
    BY <2>1 DEF batch, ChunksSound, ChunkSound
  <2> QED BY <2>2, <2>3, <2>4
<1> QED BY <1>1, <1>2

LEMMA ThenLeaveFacts ==
  ASSUME TypeOK, ChunksSound, NEW w \in Workers,
         NEW other \in {"leaveRow", "leavePointer"}, ThenLeave(w, other)
  PROVE  BatchesOK' /\ PlacesOK' /\ ChunksSound'
<1>1. CASE pc[w] = "leave"
  <2>1. Goto(w, other) /\ UNCHANGED <<who, batch, tail, row, todo, begun>>
    BY <1>1 DEF ThenLeave
  <2>2. BatchesOK' /\ ChunksSound' /\ pc' \in [Workers -> Places]
    BY <2>1, MoveFacts DEF Places
  <2> QED BY <2>1, <2>2 DEF TypeOK, PlacesOK
<1>2. CASE pc[w] # "leave"
  BY <1>2, ReleaseFacts DEF ThenLeave
<1> QED BY <1>1, <1>2

-----------------------------------------------------------------------------
(* The inductive invariant of the whole specification: types, sound chunks *)
(* and each stored event known to the SEEN rows, which is what keeps an    *)
(* event from a second number.                                             *)

Numbering == TypeOK /\ ChunksSound /\ StoredAreSeen /\ NumberedOnce

LEMMA NumberingInit == Init => Numbering
<1> SUFFICES ASSUME Init PROVE Numbering
  OBVIOUS
<1> USE ConstantsAssumption DEF Init
<1>1. RowsOK
  BY DEF RowsOK, NoRow, Meta, Pointer
<1>2. BatchesOK
  BY EmptyFacts DEF BatchesOK
<1>3. PlacesOK
  BY DEF PlacesOK, Places, NoRow, Meta
<1>4. ChunksSound
  BY EmptyFacts DEF ChunksSound, ChunkSound
<1>5. StoredAreSeen /\ NumberedOnce
  BY DEF StoredAreSeen, NumberedOnce
<1> QED BY <1>1, <1>2, <1>3, <1>4, <1>5 DEF Numbering, TypeOK

\* A step that writes no event leaves the numbering as it was.
LEMMA LogKept ==
  ASSUME Numbering, UNCHANGED <<event, seen>>, RowsOK', BatchesOK', PlacesOK', ChunksSound'
  PROVE  Numbering'
BY DEF Numbering, TypeOK, StoredAreSeen, NumberedOnce

\* The requests' first steps.
LEMMA NumberingRequest ==
  ASSUME Numbering, NEW w \in Workers, Request(w)
  PROVE  Numbering'
<1> USE ConstantsAssumption DEF Numbering
<1>p. ASSUME NEW op, NEW sub \in Subs, Begin(w, op, sub)
      PROVE  who' \in [Workers -> Subs] /\ begun' \in 0..MaxRequests
  BY <1>p DEF Begin, TypeOK, PlacesOK
<1>1. CASE CreateMeta(w)
  <2>1. PICK b \in BatchesOf(Owner) :
          /\ Begin(w, "create", Owner) /\ TakeUp(w, b, AnySeq) /\ Goto(w, "seat")
          /\ meta' = [NoRow EXCEPT !.exists = TRUE]
          /\ UNCHANGED <<event, seen, member, pointer, tail, row, todo>>
    BY <1>1 DEF CreateMeta
  <2>2. b \in Seq(Ids) /\ b # <<>> /\ Injective(b)
    BY BatchFacts
  <2>3. BatchesOK' /\ ChunksSound' /\ pc' \in [Workers -> Places]
    BY <2>1, <2>2, TakeUpFacts
  <2>4. RowsOK'
    <3>1. meta' = [exists |-> TRUE, seq |-> 0, ended |-> FALSE, shared |-> FALSE, deleted |-> FALSE]
      BY <2>1, Zenon DEF NoRow
    <3>2. meta' \in Meta
      BY <3>1 DEF Meta
    <3> QED BY <2>1, <3>2 DEF TypeOK, RowsOK
  <2>5. PlacesOK'
    BY <2>1, <2>3, <1>p DEF TypeOK, PlacesOK
  <2> QED BY <2>1, <2>3, <2>4, <2>5, LogKept
<1>2. ASSUME NEW sub \in Subs, AppendBegin(w, sub) PROVE Numbering'
  <2>1. PICK b \in BatchesOf(sub) :
          /\ Begin(w, "append", sub) /\ TakeUp(w, b, AnySeq) /\ Goto(w, "reserve")
          /\ UNCHANGED <<rows, tail, row, todo>>
    BY <1>2 DEF AppendBegin
  <2>2. b \in Seq(Ids) /\ b # <<>> /\ Injective(b)
    BY BatchFacts
  <2>3. BatchesOK' /\ ChunksSound' /\ pc' \in [Workers -> Places]
    BY <2>1, <2>2, TakeUpFacts
  <2>4. RowsOK'
    BY <2>1 DEF TypeOK, RowsOK, rows
  <2>5. PlacesOK'
    BY <2>1, <2>3, <1>p DEF TypeOK, PlacesOK
  <2> QED BY <2>1, <2>3, <2>4, <2>5, LogKept DEF rows
<1>3. ASSUME NEW id \in PressIds, PressBegin(w, id) PROVE Numbering'
  <2>1. PICK n \in 0..MaxSeq :
          /\ Begin(w, "press", Owner) /\ TakeUp(w, <<id>>, n) /\ Goto(w, "reserve")
          /\ UNCHANGED <<rows, tail, row, todo>>
    BY <1>3 DEF PressBegin
  <2>2. <<id>> \in Seq(Ids) /\ <<id>> # <<>> /\ Injective(<<id>>)
    BY DEF Injective
  <2>4. BatchesOK' /\ ChunksSound' /\ pc' \in [Workers -> Places]
    BY <2>1, <2>2, TakeUpFacts
  <2>5. RowsOK'
    BY <2>1 DEF TypeOK, RowsOK, rows
  <2>6. PlacesOK'
    BY <2>1, <2>4, <1>p DEF TypeOK, PlacesOK
  <2> QED BY <2>1, <2>4, <2>5, <2>6, LogKept DEF rows
<1>4. ASSUME NEW sub \in Subs, PatchBegin(w, sub) \/ LeaveBegin(w, sub) \/ RemoveBegin(w, sub) \/ DeleteBegin(w)
      PROVE  Numbering'
  <2>1. PICK op \in {"patch", "leave", "remove", "delete"},
             place \in {"get", "quit", "remove", "erase"}, m \in Subs :
          Begin(w, op, m) /\ Goto(w, place) /\ UNCHANGED <<rows, batch, tail, row, todo>>
    BY <1>4 DEF PatchBegin, LeaveBegin, RemoveBegin, DeleteBegin, Routed
  <2>2. BatchesOK' /\ ChunksSound' /\ pc' \in [Workers -> Places]
    BY <2>1, MoveFacts DEF Places
  <2>3. RowsOK' /\ PlacesOK'
    BY <2>1, <2>2, <1>p DEF TypeOK, RowsOK, PlacesOK, rows
  <2> QED BY <2>1, <2>2, <2>3, LogKept DEF rows
<1>5. ASSUME NEW sub \in Subs, JoinBegin(w, sub) PROVE Numbering'
  <2>1. /\ Begin(w, "join", sub) /\ Goto(w, "join")
        /\ tail' = [tail EXCEPT ![w] = meta.seq] /\ UNCHANGED <<rows, batch, row, todo>>
    BY <1>5 DEF JoinBegin
  <2>2. BatchesOK' /\ ChunksSound' /\ pc' \in [Workers -> Places]
    BY <2>1, MoveFacts DEF Places
  <2>3. RowsOK' /\ PlacesOK'
    BY <2>1, <2>2, <1>p DEF TypeOK, RowsOK, PlacesOK, rows, Meta
  <2> QED BY <2>1, <2>2, <2>3, LogKept DEF rows
<1> QED BY <1>1, <1>2, <1>3, <1>4, <1>5 DEF Request

\* The transaction: the only step that writes events.
LEMMA NumberingWrite ==
  ASSUME Numbering, NEW w \in Workers, Write(w)
  PROVE  Numbering'
<1> USE ConstantsAssumption DEF Numbering
<1>1. /\ chunk[w] \in Seq(Ids) /\ Injective(chunk[w])
      /\ tail[w] \in Nat /\ Base(w) \in Int
  BY DEF TypeOK, BatchesOK, PlacesOK, ChunksSound, ChunkSound, Base
<1>2. /\ Elements(chunk[w]) \cap seen = {}
      /\ seen' = seen \cup Elements(chunk[w])
      /\ event' = [s \in Numbers |-> IF s \in Reserved(w) THEN chunk[w][s - Base(w)] ELSE event[s]]
      /\ Onward(w, <<>>)
      /\ UNCHANGED <<meta, member, pointer, who, expect, tail, row, todo, begun>>
  BY DEF Write
<1>3. ASSUME NEW s \in Reserved(w)
      PROVE  /\ s - Base(w) \in 1..Len(chunk[w]) /\ event'[s] = chunk[w][s - Base(w)]
             /\ event'[s] \in Elements(chunk[w])
  <2>1. s \in Numbers /\ s \in Int /\ Base(w) < s /\ s <= tail[w]
    BY DEF Reserved, Numbers
  <2>2. s - Base(w) \in 1..Len(chunk[w])
    BY <1>1, <2>1 DEF Base
  <2> QED BY <1>2, <2>1, <2>2 DEF Elements
<1>4. \A s \in Numbers \ Reserved(w) : event'[s] = event[s]
  BY <1>2
<1>5. Elements(chunk[w]) \subseteq Ids
  BY <1>1 DEF Elements
<1>6. RowsOK'
  <2>1. ASSUME NEW s \in Numbers PROVE event'[s] \in Ids \cup {NoEvent}
    BY <1>3, <1>4, <1>5 DEF TypeOK, RowsOK
  <2>2. event' \in [Numbers -> Ids \cup {NoEvent}]
    BY <1>2, <2>1
  <2> QED BY <1>2, <1>5, <2>2 DEF TypeOK, RowsOK
<1>7. BatchesOK' /\ ChunksSound' /\ pc' \in [Workers -> Places]
  <2>1. <<>> \in Seq(Ids) /\ Injective(<<>>) /\ Len(<<>>) <= Chunk
    BY EmptyFacts
  <2> QED BY <1>2, <2>1, OnwardFacts
<1>8. PlacesOK'
  BY <1>2, <1>7 DEF TypeOK, PlacesOK
<1>9. StoredAreSeen'
  BY <1>2, <1>3, <1>4 DEF StoredAreSeen
<1>10. NumberedOnce'
  <2> SUFFICES ASSUME NEW s \in Numbers, NEW t \in Numbers,
                      event'[s] = event'[t], event'[s] # NoEvent
               PROVE  s = t
    BY DEF NumberedOnce
  <2>1. CASE s \in Reserved(w) /\ t \in Reserved(w)
    <3>1. s - Base(w) = t - Base(w)
      BY <1>1, <1>3, <2>1 DEF Injective
    <3> QED BY <1>1, <3>1 DEF Numbers
  <2>2. CASE s \notin Reserved(w) /\ t \notin Reserved(w)
    BY <1>4, <2>2 DEF NumberedOnce
  <2>3. CASE ~(s \in Reserved(w) <=> t \in Reserved(w))
    BY <1>2, <1>3, <1>4, <2>3 DEF StoredAreSeen
  <2> QED BY <2>1, <2>2, <2>3
<1> QED BY <1>6, <1>7, <1>8, <1>9, <1>10 DEF TypeOK

\* Lengths only.
LEMMA Lengths ==
  ASSUME NEW k \in Nat, NEW o \in Nat, NEW c \in Nat, c >= 1, NEW n \in Nat,
         k <= o + 1, o + c <= n
  PROVE  k <= n /\ c <= n /\ k + (c - 1) <= n /\ (c > 1 => c - 1 # 0)
OBVIOUS

\* One id looked up: the chunk shrinks, or the loop turns.
LEMMA CheckFacts ==
  ASSUME TypeOK, ChunksSound, NEW w \in Workers, Check(w)
  PROVE  BatchesOK' /\ ChunksSound' /\ pc' \in [Workers -> Places]
<1> DEFINE kept == IF chunk[w][1] \in seen THEN keep[w] ELSE Append(keep[w], chunk[w][1])
<1>1. /\ chunk[w] \in Seq(Ids) /\ chunk[w] # <<>> /\ keep[w] \in Seq(Ids) /\ rest[w] \in Seq(Ids)
      /\ Injective(chunk[w]) /\ Injective(keep[w]) /\ Injective(rest[w])
      /\ Elements(keep[w]) \cap Elements(chunk[w]) = {}
      /\ Len(keep[w]) + Len(chunk[w]) <= Chunk
  BY DEF Check, TypeOK, BatchesOK, ChunksSound, ChunkSound
<1>2. 1 \in 1..Len(chunk[w]) /\ chunk[w][1] \in Ids /\ chunk[w][1] \in Elements(chunk[w])
  BY <1>1 DEF Elements
<1>3. /\ kept \in Seq(Ids) /\ Injective(kept) /\ Len(kept) <= Len(keep[w]) + 1
      /\ Elements(kept) \subseteq Elements(keep[w]) \cup {chunk[w][1]}
  <2>1. CASE chunk[w][1] \in seen
    BY <1>1, <2>1
  <2>2. CASE chunk[w][1] \notin seen
    <3>1. kept = Append(keep[w], chunk[w][1])
      BY <2>2
    <3>2. /\ kept \in Seq(Ids) /\ Len(kept) = Len(keep[w]) + 1
          /\ \A i \in 1..Len(keep[w]) : kept[i] = keep[w][i]
          /\ kept[Len(keep[w]) + 1] = chunk[w][1]
      BY <1>1, <1>2, <3>1
    <3>3. ASSUME NEW i \in 1..Len(keep[w]) PROVE keep[w][i] # chunk[w][1]
      <4>1. keep[w][i] \in Elements(keep[w])
        BY DEF Elements
      <4> QED BY <1>1, <1>2, <4>1
    <3>4. ASSUME NEW i \in 1..Len(kept), NEW j \in 1..Len(kept), kept[i] = kept[j]
          PROVE  i = j
      <4>1. i \in 1..Len(keep[w]) \/ i = Len(keep[w]) + 1
        BY <1>1, <3>2
      <4>2. j \in 1..Len(keep[w]) \/ j = Len(keep[w]) + 1
        BY <1>1, <3>2
      <4>3. CASE i \in 1..Len(keep[w]) /\ j \in 1..Len(keep[w])
        BY <1>1, <3>2, <3>4, <4>3 DEF Injective
      <4> QED BY <3>2, <3>3, <3>4, <4>1, <4>2, <4>3
    <3>5. Injective(kept)
      BY <3>4 DEF Injective
    <3> QED BY <1>1, <3>2, <3>5 DEF Elements
  <2> QED BY <2>1, <2>2
<1>4. /\ UNCHANGED expect
      /\ Len(chunk[w]) > 1 =>
           /\ keep' = [keep EXCEPT ![w] = kept] /\ chunk' = [chunk EXCEPT ![w] = Tail(chunk[w])]
           /\ UNCHANGED <<pc, rest, attempt, passed>>
      /\ ~(Len(chunk[w]) > 1) => Onward(w, kept)
  BY DEF Check
<1>l. /\ Len(kept) \in Nat /\ Len(keep[w]) \in Nat /\ Len(chunk[w]) \in Nat /\ Len(chunk[w]) >= 1
      /\ Chunk \in Nat
  BY <1>1, <1>2, <1>3, ConstantsAssumption
<1>m. Len(kept) <= Len(keep[w]) + 1 /\ Len(keep[w]) + Len(chunk[w]) <= Chunk
  BY <1>1, <1>3
<1> HIDE DEF kept
<1>5. CASE Len(chunk[w]) > 1
  <2>1. /\ keep' = [keep EXCEPT ![w] = kept] /\ chunk' = [chunk EXCEPT ![w] = Tail(chunk[w])]
        /\ UNCHANGED <<pc, rest, attempt, passed>>
    BY <1>4, <1>5
  <2>2. /\ Tail(chunk[w]) \in Seq(Ids) /\ Len(Tail(chunk[w])) = Len(chunk[w]) - 1
        /\ \A i \in 1..Len(Tail(chunk[w])) : Tail(chunk[w])[i] = chunk[w][i + 1]
    BY <1>1, <1>5
  <2>3. Injective(Tail(chunk[w])) /\ Tail(chunk[w]) # <<>>
    <3>1. ASSUME NEW i \in 1..Len(Tail(chunk[w])), NEW j \in 1..Len(Tail(chunk[w])),
                 Tail(chunk[w])[i] = Tail(chunk[w])[j]
          PROVE  i = j
      <4>1. i + 1 \in 1..Len(chunk[w]) /\ j + 1 \in 1..Len(chunk[w])
        BY <1>l, <2>2
      <4>2. i + 1 = j + 1
        BY <1>1, <2>2, <3>1, <4>1 DEF Injective
      <4> QED BY <1>l, <2>2, <4>2
    <3>2. Injective(Tail(chunk[w]))
      BY <3>1 DEF Injective
    <3>3. Tail(chunk[w]) # <<>>
      <4>1. SUFFICES ASSUME Tail(chunk[w]) = <<>> PROVE FALSE
        OBVIOUS
      <4>2. Len(chunk[w]) - 1 = 0
        BY <2>2, <4>1
      <4> QED BY <1>5, <1>l, <1>m, <4>2, Lengths
    <3> QED BY <3>2, <3>3
  <2>4. Elements(Tail(chunk[w])) \subseteq Elements(chunk[w]) \ {chunk[w][1]}
    BY <1>1, <1>2, <2>2 DEF Elements, Injective
  <2>5. BatchesOK'
    BY <1>3, <1>4, <2>1, <2>2 DEF TypeOK, BatchesOK
  <2>6. /\ chunk'[w] = Tail(chunk[w]) /\ keep'[w] = kept /\ rest'[w] = rest[w]
        /\ \A v \in Workers \ {w} : /\ chunk'[v] = chunk[v] /\ rest'[v] = rest[v]
                                    /\ keep'[v] = keep[v] /\ pc'[v] = pc[v]
    BY <2>1 DEF TypeOK, BatchesOK
  <2>7. Elements(kept) \cap Elements(Tail(chunk[w])) = {}
    BY <1>1, <1>3, <2>4
  <2>8. Len(kept) + Len(Tail(chunk[w])) <= Chunk
    <3>1. Len(Tail(chunk[w])) = Len(chunk[w]) - 1
      BY <2>2
    <3> QED BY <1>l, <1>m, <3>1, Lengths
  <2>9. ChunkSound(w)'
    BY <1>1, <1>3, <2>3, <2>6, <2>7, <2>8 DEF ChunkSound
  <2> QED BY <2>1, <2>5, <2>6, <2>9, ChunksFrame DEF TypeOK, PlacesOK
<1>6. CASE ~(Len(chunk[w]) > 1)
  <2>1. Onward(w, kept)
    BY <1>4, <1>6
  <2>2. Len(kept) <= Chunk
    BY <1>l, <1>m, Lengths
  <2> QED BY <1>3, <1>4, <2>1, <2>2, OnwardFacts
<1> QED BY <1>5, <1>6

\* The steps of a request under way, the write apart, and its death.
LEMMA NumberingStep ==
  ASSUME Numbering, NEW w \in Workers, Step(w) \/ Crash(w)
  PROVE  Numbering'
<1> USE ConstantsAssumption DEF Numbering
<1>1. CASE Write(w)
  BY <1>1, NumberingWrite
<1>2. CASE Reserve(w)
  <2>1. /\ Goto(w, "write") /\ pc[w] = "reserve"
        /\ meta.seq + Len(chunk[w]) <= MaxSeq
        /\ meta' = [meta EXCEPT !.seq = @ + Len(chunk[w])]
        /\ tail' = [tail EXCEPT ![w] = meta.seq + Len(chunk[w])]
        /\ expect' = [expect EXCEPT ![w] = AnySeq]
        /\ UNCHANGED <<event, seen, member, pointer, who, chunk, rest, keep, attempt, passed, row, todo, begun>>
    BY <1>2 DEF Reserve
  <2>2. meta.seq \in Nat /\ Len(chunk[w]) \in Nat /\ meta.seq + Len(chunk[w]) \in 0..MaxSeq
    BY <2>1 DEF TypeOK, RowsOK, BatchesOK, Meta
  <2>3. RowsOK'
    BY <2>1, <2>2 DEF TypeOK, RowsOK, Meta
  <2>4. BatchesOK'
    BY <2>1 DEF TypeOK, BatchesOK
  <2>5. PlacesOK'
    BY <2>1, <2>2 DEF TypeOK, PlacesOK, Goto, Places
  <2>6. /\ chunk' = chunk /\ rest' = rest /\ keep' = keep
        /\ \A v \in Workers \ {w} : pc'[v] = pc[v]
    BY <2>1 DEF TypeOK, PlacesOK, Goto
  <2>7. ChunkSound(w)'
    BY <2>1, <2>6 DEF ChunksSound, ChunkSound
  <2>8. ChunksSound'
    BY <2>6, <2>7, ChunksFrame
  <2> QED BY <2>1, <2>3, <2>4, <2>5, <2>8, LogKept
<1>3. CASE Refuse(w) \/ Crash(w)
  <2>1. Release(w) /\ UNCHANGED rows
    BY <1>3 DEF Refuse, Crash
  <2>2. RowsOK'
    BY <2>1 DEF TypeOK, RowsOK, rows
  <2> QED BY <2>1, <2>2, ReleaseFacts, LogKept DEF rows
<1>4. CASE Cancel(w)
  <2>1. pc[w] = "write" /\ Goto(w, "check") /\ UNCHANGED <<rows, who, batch, tail, row, todo, begun>>
    BY <1>4 DEF Cancel
  <2>2. chunk[w] # <<>>
    BY <2>1 DEF ChunksSound, ChunkSound
  <2>3. BatchesOK' /\ ChunksSound' /\ pc' \in [Workers -> Places]
    BY <2>1, <2>2, MoveFacts DEF Places
  <2>4. RowsOK' /\ PlacesOK'
    BY <2>1, <2>3 DEF TypeOK, RowsOK, PlacesOK, rows
  <2> QED BY <2>1, <2>3, <2>4, LogKept DEF rows
<1>5. CASE Check(w)
  <2>1. UNCHANGED <<rows, who, expect, tail, row, todo, begun>>
    BY <1>5 DEF Check
  <2>2. BatchesOK' /\ ChunksSound' /\ pc' \in [Workers -> Places]
    BY <1>5, CheckFacts
  <2>3. RowsOK' /\ PlacesOK'
    BY <2>1, <2>2 DEF TypeOK, RowsOK, PlacesOK, rows
  <2> QED BY <2>1, <2>2, <2>3, LogKept DEF rows
<1>6. CASE TouchRead(w)
  <2>1. RowsOK' /\ UNCHANGED rows
    BY <1>6 DEF TouchRead, TypeOK, RowsOK, rows
  <2>2. CASE member = {}
    BY <1>6, <2>1, <2>2, ReleaseFacts, LogKept DEF TouchRead, rows
  <2>3. CASE member # {}
    <3>1. /\ Goto(w, "point") /\ todo' = [todo EXCEPT ![w] = member]
          /\ UNCHANGED <<who, batch, tail, row, begun>>
      BY <1>6, <2>3 DEF TouchRead
    <3>2. BatchesOK' /\ ChunksSound' /\ pc' \in [Workers -> Places]
      BY <3>1, MoveFacts DEF Places
    <3>3. PlacesOK'
      BY <3>1, <3>2 DEF TypeOK, RowsOK, PlacesOK
    <3> QED BY <2>1, <3>2, <3>3, LogKept DEF rows
  <2> QED BY <2>2, <2>3
<1>7. ASSUME NEW m \in Subs, Point(w, m) \/ Entomb(w, m) PROVE Numbering'
  <2>1. PICK state \in {"live", "deleted"} :
          /\ pointer' = [pointer EXCEPT ![m] = [state |-> state, seq |-> tail[w]]]
          /\ StrikeOff(w, m) /\ UNCHANGED <<meta, event, seen, member>>
    BY <1>7 DEF Point, Entomb
  <2>2. tail[w] \in 0..MaxSeq
    BY DEF TypeOK, PlacesOK
  <2>3. RowsOK'
    BY <2>1, <2>2 DEF TypeOK, RowsOK, Pointer
  <2> QED BY <2>1, <2>3, StrikeOffFacts, LogKept
<1>8. CASE PatchPut(w) \/ DeletePut(w)
  <2>1. PICK place \in {"touch", "entomb"} :
          /\ meta' = row[w] /\ Goto(w, place)
          /\ UNCHANGED <<event, seen, member, pointer, who, batch, tail, row, todo, begun>>
    BY <1>8 DEF PatchPut, DeletePut
  <2>2. BatchesOK' /\ ChunksSound' /\ pc' \in [Workers -> Places]
    BY <2>1, MoveFacts DEF Places
  <2>3. RowsOK' /\ PlacesOK'
    BY <2>1, <2>2 DEF TypeOK, RowsOK, PlacesOK
  <2> QED BY <2>1, <2>2, <2>3, LogKept
<1>9. CASE CreateMember(w) \/ JoinPut(w)
  <2>1. PICK m \in Subs, place \in {"reserve", "touch"} :
          /\ place = "reserve" => pc[w] = "seat"
          /\ member' = member \cup {m} /\ Goto(w, place)
          /\ UNCHANGED <<meta, event, seen, pointer, who, batch, tail, row, todo, begun>>
    BY <1>9 DEF CreateMember, JoinPut, TypeOK, PlacesOK
  <2>2. place = "reserve" => chunk[w] # <<>>
    BY <2>1 DEF ChunksSound, ChunkSound
  <2>3. BatchesOK' /\ ChunksSound' /\ pc' \in [Workers -> Places]
    BY <2>1, <2>2, MoveFacts DEF Places
  <2>4. RowsOK' /\ PlacesOK'
    BY <2>1, <2>3 DEF TypeOK, RowsOK, PlacesOK
  <2> QED BY <2>1, <2>3, <2>4, LogKept
<1>10. CASE RemoveRow(w)
  <2>1. /\ member' = member \ {who[w]} /\ Goto(w, "drop")
        /\ UNCHANGED <<meta, event, seen, pointer, who, batch, tail, row, todo, begun>>
    BY <1>10 DEF RemoveRow
  <2>2. BatchesOK' /\ ChunksSound' /\ pc' \in [Workers -> Places]
    BY <2>1, MoveFacts DEF Places
  <2>3. RowsOK' /\ PlacesOK'
    BY <2>1, <2>2 DEF TypeOK, RowsOK, PlacesOK
  <2> QED BY <2>1, <2>2, <2>3, LogKept
<1>11. CASE RemovePointer(w)
  <2>1. /\ pointer' = [pointer EXCEPT ![who[w]] = [state |-> "deleted", seq |-> tail[w]]]
        /\ Release(w) /\ UNCHANGED <<meta, event, seen, member>>
    BY <1>11 DEF RemovePointer
  <2>2. RowsOK'
    BY <2>1 DEF TypeOK, RowsOK, PlacesOK, Pointer
  <2> QED BY <2>1, <2>2, ReleaseFacts, LogKept
<1>12. CASE LeaveRow(w) \/ LeavePointer(w)
  <2>1. PICK other \in {"leaveRow", "leavePointer"} :
          ThenLeave(w, other) /\ UNCHANGED <<meta, event, seen>>
    BY <1>12 DEF LeaveRow, LeavePointer
  <2>2. RowsOK'
    <3>1. CASE LeaveRow(w)
      BY <3>1 DEF LeaveRow, TypeOK, RowsOK
    <3>2. CASE LeavePointer(w)
      <4>1. pointer' = [pointer EXCEPT ![who[w]] = [state |-> "none", seq |-> 0]]
            /\ UNCHANGED <<meta, event, seen, member>>
        BY <3>2 DEF LeavePointer
      <4> QED BY <4>1 DEF TypeOK, RowsOK, PlacesOK, Pointer
    <3> QED BY <1>12, <3>1, <3>2
  <2> QED BY <2>1, <2>2, ThenLeaveFacts, LogKept
<1>13. CASE PatchGet(w) \/ DeleteGet(w)
  <2>1. PICK place \in {"put", "close"}, m \in Meta, n \in 0..MaxSeq :
          /\ row' = [row EXCEPT ![w] = m] /\ tail' = [tail EXCEPT ![w] = n] /\ Goto(w, place)
          /\ UNCHANGED <<rows, who, batch, todo, begun>>
    <3>1. CASE PatchGet(w)
      <4>1. Patched(meta) \subseteq Meta /\ meta.seq \in 0..MaxSeq
        <5>1. meta \in Meta
          BY DEF TypeOK, RowsOK
        <5>2. /\ [meta EXCEPT !.ended = TRUE] \in Meta
              /\ [meta EXCEPT !.shared = TRUE] \in Meta
              /\ [meta EXCEPT !.shared = FALSE] \in Meta
          BY <5>1 DEF Meta
        <5> QED BY <5>1, <5>2 DEF Patched, Meta
      <4> QED BY <3>1, <4>1 DEF PatchGet
    <3>2. CASE DeleteGet(w)
      <4>1. [meta EXCEPT !.deleted = TRUE] \in Meta
        BY DEF Meta, TypeOK, RowsOK
      <4>2. tail[w] \in 0..MaxSeq /\ tail = [tail EXCEPT ![w] = tail[w]]
        BY DEF TypeOK, PlacesOK
      <4> QED BY <3>2, <4>1, <4>2 DEF DeleteGet
    <3> QED BY <1>13, <3>1, <3>2
  <2>2. BatchesOK' /\ ChunksSound' /\ pc' \in [Workers -> Places]
    BY <2>1, MoveFacts DEF Places
  <2>3. RowsOK' /\ PlacesOK'
    BY <2>1, <2>2 DEF TypeOK, RowsOK, PlacesOK, rows
  <2> QED BY <2>1, <2>2, <2>3, LogKept DEF rows
<1>14. CASE LeaveRead(w) \/ RemoveRead(w)
  <2>1. RowsOK' /\ UNCHANGED rows
    BY <1>14 DEF LeaveRead, RemoveRead, TypeOK, RowsOK, rows
  <2>2. CASE Release(w)
    BY <2>1, <2>2, ReleaseFacts, LogKept DEF rows
  <2>3. CASE ~Release(w)
    <3>1. PICK place \in {"leave", "unseat"}, n \in 0..MaxSeq :
            /\ Goto(w, place) /\ tail' = [tail EXCEPT ![w] = n]
            /\ UNCHANGED <<who, batch, row, todo, begun>>
      <4>1. meta.seq \in 0..MaxSeq /\ tail[w] \in 0..MaxSeq /\ tail = [tail EXCEPT ![w] = tail[w]]
        BY DEF TypeOK, RowsOK, PlacesOK, Meta
      <4>2. CASE LeaveRead(w)
        BY <2>3, <4>1, <4>2 DEF LeaveRead
      <4>3. CASE RemoveRead(w)
        BY <2>3, <4>1, <4>3 DEF RemoveRead
      <4> QED BY <1>14, <4>2, <4>3
    <3>2. BatchesOK' /\ ChunksSound' /\ pc' \in [Workers -> Places]
      BY <3>1, MoveFacts DEF Places
    <3>3. PlacesOK'
      BY <3>1, <3>2 DEF TypeOK, PlacesOK
    <3> QED BY <2>1, <3>2, <3>3, LogKept DEF rows
  <2> QED BY <2>2, <2>3
<1>15. CASE DeleteRead(w)
  <2>1. /\ todo' = [todo EXCEPT ![w] = member] /\ tail' = [tail EXCEPT ![w] = meta.seq]
        /\ Goto(w, "bury") /\ UNCHANGED <<rows, who, batch, row, begun>>
    BY <1>15 DEF DeleteRead
  <2>2. BatchesOK' /\ ChunksSound' /\ pc' \in [Workers -> Places]
    BY <2>1, MoveFacts DEF Places
  <2>3. RowsOK' /\ PlacesOK'
    BY <2>1, <2>2 DEF TypeOK, RowsOK, PlacesOK, rows, Meta
  <2> QED BY <2>1, <2>2, <2>3, LogKept DEF rows
<1> QED BY <1>1, <1>2, <1>3, <1>4, <1>5, <1>6, <1>7, <1>8, <1>9, <1>10, <1>11, <1>12, <1>13, <1>14, <1>15 DEF Step

LEMMA NumberingNext == Numbering /\ [Next]_vars => Numbering'
<1> SUFFICES ASSUME Numbering, [Next]_vars PROVE Numbering'
  OBVIOUS
<1>1. ASSUME NEW w \in Workers, Request(w) PROVE Numbering'
  BY <1>1, NumberingRequest
<1>2. ASSUME NEW w \in Workers, Step(w) \/ Crash(w) PROVE Numbering'
  BY <1>2, NumberingStep
<1>3. CASE UNCHANGED vars
  BY <1>3 DEF vars, Numbering, TypeOK, RowsOK, BatchesOK, PlacesOK, ChunksSound, ChunkSound,
              StoredAreSeen, NumberedOnce
<1> QED BY <1>1, <1>2, <1>3 DEF Next

LEMMA NumberingHolds == Spec => []Numbering
BY NumberingInit, NumberingNext, PTL DEF Spec

\* Every row and every request keeps its shape: the counter is a number, a
\* chunk a sequence of events, a request in one of the code's places.
THEOREM TypeCorrect == Spec => []TypeOK
<1>1. Numbering => TypeOK
  BY DEF Numbering
<1> QED BY <1>1, NumberingHolds, PTL

\* No event is ever stored under two numbers, whatever requests run together,
\* are resent, are refused or die: "a retry after a lost reply appends
\* nothing twice" (store.ts, appendEvents).
THEOREM EventsNumberedOnce == Spec => []NumberedOnce
<1>1. Numbering => NumberedOnce
  BY DEF Numbering
<1> QED BY <1>1, NumberingHolds, PTL

-----------------------------------------------------------------------------
(* Where no request writes the META row whole, the numbers a request was   *)
(* handed are its own until it writes, and so nothing stored is ever       *)
(* replaced.  (With a patch or a deletion it is not so: see LogRollback.)  *)

RewritePlaces == {"get", "put", "erase", "bury", "close", "entomb"}
AppendPlaces  == {"seat", "reserve", "write", "check"}

NoRewrite == \A w \in Workers : pc[w] \notin RewritePlaces

Reserving == Numbering /\ Reservations /\ OnlyWhatExists /\ NoRewrite

\* A request leaves alone what the others hold.
OthersKept(w) ==
  \A v \in Workers \ {w} : pc'[v] = pc[v] /\ chunk'[v] = chunk[v] /\ tail'[v] = tail[v]

LEMMA ReleaseKeeps ==
  ASSUME TypeOK, NEW w \in Workers, Release(w)
  PROVE  OthersKept(w) /\ pc'[w] = "idle"
BY DEF OthersKept, TypeOK, BatchesOK, PlacesOK, Release, Goto

LEMMA GotoKeeps ==
  ASSUME TypeOK, NEW w \in Workers, NEW place, Goto(w, place)
  PROVE  pc'[w] = place /\ \A v \in Workers \ {w} : pc'[v] = pc[v]
BY DEF TypeOK, PlacesOK, Goto

LEMMA OnwardKeeps ==
  ASSUME TypeOK, NEW w \in Workers, NEW again, Onward(w, again)
  PROVE  /\ pc'[w] \in {"reserve", "touch"}
         /\ \A v \in Workers \ {w} : pc'[v] = pc[v] /\ chunk'[v] = chunk[v]
<1>1. CASE again # <<>> /\ attempt[w] = 0
  BY <1>1 DEF Onward, Goto, TypeOK, BatchesOK, PlacesOK
<1>2. CASE ~(again # <<>> /\ attempt[w] = 0)
  <2>1. /\ chunk' = [chunk EXCEPT ![w] = First(rest[w])]
        /\ Goto(w, IF rest[w] = <<>> THEN "touch" ELSE "reserve")
    BY <1>2 DEF Onward
  <2> QED BY <2>1, GotoKeeps DEF TypeOK, BatchesOK
<1> QED BY <1>1, <1>2

\* A step other than a creation, a reservation or a write.
LEMMA PlainRequest ==
  ASSUME TypeOK, Ops \cap Rewrites = {}, NEW w \in Workers, Request(w), ~CreateMeta(w)
  PROVE  /\ UNCHANGED <<event, meta>> /\ OthersKept(w)
         /\ pc'[w] \notin RewritePlaces \cup {"write"}
         /\ pc'[w] \in AppendPlaces => meta.exists
<1>1. ASSUME NEW sub \in Subs, AppendBegin(w, sub)
      PROVE  UNCHANGED <<event, meta, tail>> /\ OthersKept(w) /\ pc'[w] = "reserve" /\ meta.exists
  BY <1>1, GotoKeeps DEF AppendBegin, TakeUp, rows, OthersKept, TypeOK, BatchesOK
<1>2. ASSUME NEW id \in PressIds, PressBegin(w, id)
      PROVE  UNCHANGED <<event, meta, tail>> /\ OthersKept(w) /\ pc'[w] = "reserve" /\ meta.exists
  BY <1>2, GotoKeeps DEF PressBegin, TakeUp, rows, OthersKept, TypeOK, BatchesOK
<1>3. ASSUME NEW sub \in Subs PROVE ~PatchBegin(w, sub) /\ ~DeleteBegin(w)
  BY DEF PatchBegin, DeleteBegin, Routed, Begin, Rewrites
<1>4. ASSUME NEW sub \in Subs, LeaveBegin(w, sub) \/ RemoveBegin(w, sub)
      PROVE  UNCHANGED <<event, meta>> /\ OthersKept(w) /\ pc'[w] \in {"quit", "remove"}
  BY <1>4, GotoKeeps DEF LeaveBegin, RemoveBegin, Routed, rows, batch, OthersKept
<1>5. ASSUME NEW sub \in Subs, JoinBegin(w, sub)
      PROVE  UNCHANGED <<event, meta>> /\ OthersKept(w) /\ pc'[w] = "join"
  BY <1>5, GotoKeeps DEF JoinBegin, rows, batch, OthersKept, TypeOK, PlacesOK
<1>6. \E sub \in Subs : TRUE
  BY ConstantsAssumption
<1> QED BY <1>1, <1>2, <1>3, <1>4, <1>5, <1>6 DEF Request, RewritePlaces, AppendPlaces

LEMMA PlainStep ==
  ASSUME TypeOK, NEW w \in Workers, Step(w) \/ Crash(w), ~Reserve(w), ~Write(w),
         pc[w] \notin RewritePlaces
  PROVE  /\ UNCHANGED <<event, meta>> /\ OthersKept(w)
         /\ pc'[w] \notin RewritePlaces \cup {"write"}
         /\ pc'[w] \in AppendPlaces => pc[w] \in AppendPlaces
<1> USE DEF RewritePlaces, AppendPlaces
<1>1. CASE Refuse(w) \/ Crash(w)
  BY <1>1, ReleaseKeeps DEF Refuse, Crash, rows
<1>2. CASE Cancel(w)
  BY <1>2, GotoKeeps DEF Cancel, rows, batch, OthersKept
<1>3. CASE Check(w)
  <2>1. pc[w] = "check" /\ UNCHANGED <<rows, tail>>
    BY <1>3 DEF Check
  <2>2. /\ Len(chunk[w]) > 1 => chunk' = [chunk EXCEPT ![w] = Tail(chunk[w])] /\ UNCHANGED pc
        /\ ~(Len(chunk[w]) > 1) => \E kept : Onward(w, kept)
    BY <1>3 DEF Check
  <2>3. CASE Len(chunk[w]) > 1
    BY <2>1, <2>2, <2>3 DEF rows, OthersKept, TypeOK, BatchesOK
  <2>4. CASE ~(Len(chunk[w]) > 1)
    <3>1. PICK kept : Onward(w, kept)
      BY <2>2, <2>4
    <3> QED BY <2>1, <3>1, OnwardKeeps DEF rows, OthersKept
  <2> QED BY <2>3, <2>4
<1>4. CASE TouchRead(w)
  <2>1. CASE member = {}
    BY <1>4, <2>1, ReleaseKeeps DEF TouchRead, rows
  <2>2. CASE member # {}
    BY <1>4, <2>2, GotoKeeps DEF TouchRead, rows, batch, OthersKept
  <2> QED BY <2>1, <2>2
<1>5. ASSUME NEW m \in Subs, Point(w, m)
      PROVE  UNCHANGED <<event, meta>> /\ OthersKept(w) /\ pc'[w] \in {"idle", "point"}
  <2>1. CASE todo[w] = {m}
    BY <1>5, <2>1, ReleaseKeeps DEF Point, StrikeOff
  <2>2. CASE todo[w] # {m}
    BY <1>5, <2>2 DEF Point, StrikeOff, batch, OthersKept
  <2> QED BY <2>1, <2>2
<1>6. /\ ~PatchGet(w) /\ ~PatchPut(w) /\ ~DeleteRead(w) /\ ~DeleteGet(w) /\ ~DeletePut(w)
      /\ \A m \in Subs : ~Entomb(w, m)
  BY DEF PatchGet, PatchPut, DeleteRead, DeleteGet, DeletePut, Entomb
<1>7. CASE LeaveRow(w) \/ LeavePointer(w)
  <2>1. PICK other \in {"leaveRow", "leavePointer"} : ThenLeave(w, other) /\ UNCHANGED <<event, meta>>
    BY <1>7 DEF LeaveRow, LeavePointer
  <2>2. CASE pc[w] = "leave"
    BY <2>1, <2>2, GotoKeeps DEF ThenLeave, batch, OthersKept
  <2>3. CASE pc[w] # "leave"
    BY <2>1, <2>3, ReleaseKeeps DEF ThenLeave
  <2> QED BY <2>2, <2>3
<1>8. CASE CreateMember(w) \/ JoinPut(w) \/ RemoveRow(w)
  BY <1>8, GotoKeeps DEF CreateMember, JoinPut, RemoveRow, batch, OthersKept
<1>9. CASE RemovePointer(w)
  BY <1>9, ReleaseKeeps DEF RemovePointer
<1>10. CASE LeaveRead(w) \/ RemoveRead(w)
  <2>1. CASE Release(w)
    BY <1>10, <2>1, ReleaseKeeps DEF LeaveRead, RemoveRead, rows
  <2>2. CASE ~Release(w)
    <3>1. PICK place \in {"leave", "unseat"} : Goto(w, place) /\ UNCHANGED batch
      BY <1>10, <2>2 DEF LeaveRead, RemoveRead
    <3>2. UNCHANGED <<event, meta>> /\ \A v \in Workers \ {w} : tail'[v] = tail[v]
      BY <1>10, <2>2 DEF LeaveRead, RemoveRead, rows, TypeOK, PlacesOK
    <3> QED BY <3>1, <3>2, GotoKeeps DEF batch, OthersKept
  <2> QED BY <2>1, <2>2
<1> QED BY <1>1, <1>2, <1>3, <1>4, <1>5, <1>6, <1>7, <1>8, <1>9, <1>10 DEF Step

\* Such a step disturbs no reservation.
LEMMA ReservationsFrame ==
  ASSUME Reservations, OnlyWhatExists, NoRewrite, NEW w \in Workers,
         UNCHANGED <<event, meta>>, OthersKept(w),
         pc'[w] \notin RewritePlaces \cup {"write"},
         pc'[w] \in AppendPlaces => meta.exists
  PROVE  Reservations' /\ OnlyWhatExists' /\ NoRewrite'
<1>1. \A v \in Workers : Writing(v)' => v # w /\ Writing(v)
  BY DEF Writing, OthersKept
<1>2. \A v \in Workers : Writing(v)' => /\ chunk'[v] = chunk[v] /\ tail'[v] = tail[v]
                                        /\ Reserved(v)' = Reserved(v)
  BY <1>1 DEF OthersKept, Reserved, Base
<1>3. Reservations'
  BY <1>1, <1>2 DEF Reservations
<1>4. OnlyWhatExists'
  BY DEF OnlyWhatExists, OthersKept, AppendPlaces
<1>5. NoRewrite'
  BY DEF NoRewrite, OthersKept
<1> QED BY <1>3, <1>4, <1>5

LEMMA ReservingInit == Init => Reserving
<1> SUFFICES ASSUME Init PROVE Reserving
  OBVIOUS
<1>1. Numbering
  BY NumberingInit
<1>2. Reservations /\ OnlyWhatExists /\ NoRewrite
  BY DEF Init, Reservations, OnlyWhatExists, NoRewrite, Writing, RewritePlaces
<1> QED BY <1>1, <1>2 DEF Reserving

\* A session that does not exist has handed out nothing: creating it is safe.
LEMMA ReservingCreate ==
  ASSUME Reserving, NEW w \in Workers, CreateMeta(w)
  PROVE  (Reservations /\ OnlyWhatExists /\ NoRewrite)' /\ UNCHANGED event
<1> USE DEF Reserving
<1>1. PICK b \in BatchesOf(Owner) :
        /\ ~meta.exists /\ meta' = [NoRow EXCEPT !.exists = TRUE]
        /\ TakeUp(w, b, AnySeq) /\ Goto(w, "seat")
        /\ UNCHANGED <<event, seen, member, pointer, tail, row, todo>>
  BY DEF CreateMeta
<1>2. /\ pc'[w] = "seat"
      /\ \A v \in Workers \ {w} : pc'[v] = pc[v] /\ chunk'[v] = chunk[v] /\ tail'[v] = tail[v]
  BY <1>1, GotoKeeps DEF Numbering, TakeUp, TypeOK, BatchesOK
<1>3. meta.seq = 0 /\ meta'.seq = 0 /\ meta'.exists
  BY <1>1 DEF OnlyWhatExists, NoRow
<1>4. \A v \in Workers : ~Writing(v) /\ ~Writing(v)'
  BY <1>1, <1>2 DEF OnlyWhatExists, Writing
<1>5. Reservations'
  BY <1>1, <1>3, <1>4 DEF Reservations
<1>6. OnlyWhatExists'
  BY <1>3 DEF OnlyWhatExists
<1>7. NoRewrite'
  BY <1>2 DEF NoRewrite, RewritePlaces
<1> QED BY <1>1, <1>5, <1>6, <1>7

\* A reservation takes numbers past the counter, which nobody holds.
LEMMA ReservingReserve ==
  ASSUME Reserving, NEW w \in Workers, Reserve(w)
  PROVE  (Reservations /\ OnlyWhatExists /\ NoRewrite)' /\ UNCHANGED event
<1> USE DEF Reserving
<1> DEFINE n == Len(chunk[w])
<1>1. /\ pc[w] = "reserve" /\ Goto(w, "write")
      /\ meta' = [meta EXCEPT !.seq = @ + n]
      /\ tail' = [tail EXCEPT ![w] = meta.seq + n]
      /\ UNCHANGED <<event, chunk>>
  BY DEF Reserve
<1>2. /\ pc'[w] = "write" /\ tail'[w] = meta.seq + n /\ meta'.seq = meta.seq + n
      /\ n \in Nat /\ meta.seq \in Nat /\ meta'.exists = meta.exists
      /\ \A v \in Workers \ {w} : pc'[v] = pc[v] /\ chunk'[v] = chunk[v] /\ tail'[v] = tail[v]
  BY <1>1, GotoKeeps DEF Numbering, TypeOK, RowsOK, BatchesOK, PlacesOK, Meta
<1>3. \A v \in Workers \ {w} : /\ Writing(v)' <=> Writing(v)
                               /\ Reserved(v)' = Reserved(v)
                               /\ tail[v] \in Nat
  BY <1>2 DEF Writing, Reserved, Base, Numbering, TypeOK, PlacesOK
<1>4. \A s \in Reserved(w)' : s \in Numbers /\ s \in Int /\ meta.seq < s
  BY <1>1, <1>2 DEF Reserved, Base, Numbers
<1>5. /\ Len(chunk'[w]) <= tail'[w] /\ tail'[w] <= meta'.seq
      /\ \A s \in Reserved(w)' : event'[s] = NoEvent
  <2>1. ASSUME NEW s \in Reserved(w)' PROVE event[s] = NoEvent
    BY <1>2, <1>4 DEF Reservations
  <2> QED BY <1>1, <1>2, <2>1
<1>6. \A v \in Workers \ {w} : Writing(v) => Reserved(v) \cap Reserved(w)' = {}
  <2> SUFFICES ASSUME NEW v \in Workers \ {w}, Writing(v), NEW s \in Reserved(v), s \in Reserved(w)'
               PROVE  FALSE
    OBVIOUS
  <2>1. s <= tail[v] /\ tail[v] <= meta.seq
    BY DEF Reservations, Reserved
  <2> QED BY <1>2, <1>3, <1>4, <2>1
<1>7. Reservations'
  <2>1. ASSUME NEW s \in Numbers, event'[s] # NoEvent PROVE s <= meta'.seq
    BY <1>1, <1>2, <2>1 DEF Reservations, Numbers
  <2>2. ASSUME NEW v \in Workers, Writing(v)'
        PROVE  /\ Len(chunk'[v]) <= tail'[v] /\ tail'[v] <= meta'.seq
               /\ \A s \in Reserved(v)' : event'[s] = NoEvent
    <3>1. CASE v = w
      BY <1>5, <3>1
    <3>2. CASE v # w
      <4>1. Writing(v) /\ chunk'[v] = chunk[v] /\ tail'[v] = tail[v] /\ Reserved(v)' = Reserved(v)
        BY <1>2, <1>3, <2>2, <3>2
      <4>2. Len(chunk[v]) <= tail[v] /\ tail[v] <= meta.seq /\ \A s \in Reserved(v) : event[s] = NoEvent
        BY <4>1 DEF Reservations
      <4>3. tail[v] \in Nat
        BY <1>3, <3>2
      <4> QED BY <1>1, <1>2, <4>1, <4>2, <4>3
    <3> QED BY <3>1, <3>2
  <2>3. ASSUME NEW v \in Workers, Writing(v)', NEW u \in Workers \ {v}, Writing(u)'
        PROVE  Reserved(u)' \cap Reserved(v)' = {}
    <3>1. CASE v # w /\ u # w
      BY <1>3, <2>3, <3>1 DEF Reservations
    <3>2. CASE v = w \/ u = w
      BY <1>3, <1>6, <2>3, <3>2
    <3> QED BY <3>1, <3>2
  <2> QED BY <2>1, <2>2, <2>3 DEF Reservations
<1>8. OnlyWhatExists' /\ NoRewrite'
  BY <1>1, <1>2 DEF OnlyWhatExists, NoRewrite, RewritePlaces
<1> QED BY <1>1, <1>7, <1>8

\* The write fills the numbers that were reserved for it, and no others.
LEMMA ReservingWrite ==
  ASSUME Reserving, NEW w \in Workers, Write(w)
  PROVE  /\ (Reservations /\ OnlyWhatExists /\ NoRewrite)'
         /\ \A s \in Numbers \ Reserved(w) : event'[s] = event[s]
         /\ \A s \in Reserved(w) : event[s] = NoEvent
<1> USE DEF Reserving
<1>1. /\ pc[w] = "write" /\ Onward(w, <<>>) /\ UNCHANGED <<meta, tail>>
      /\ \A s \in Numbers \ Reserved(w) : event'[s] = event[s]
  BY DEF Write
<1>2. /\ pc'[w] \in {"reserve", "touch"}
      /\ \A v \in Workers \ {w} : pc'[v] = pc[v] /\ chunk'[v] = chunk[v]
  BY <1>1, OnwardKeeps DEF Numbering
<1>3. /\ tail[w] <= meta.seq /\ tail[w] \in Nat /\ meta.seq \in Nat
      /\ \A s \in Reserved(w) : event[s] = NoEvent
  BY <1>1 DEF Reservations, Writing, Numbering, TypeOK, RowsOK, PlacesOK, Meta
<1>4. \A v \in Workers : Writing(v)' =>
        /\ v # w /\ Writing(v) /\ chunk'[v] = chunk[v] /\ Reserved(v)' = Reserved(v)
  BY <1>1, <1>2 DEF Writing, Reserved, Base
<1>5. Reservations'
  <2>1. ASSUME NEW s \in Numbers, event'[s] # NoEvent PROVE s <= meta'.seq
    <3>1. CASE s \in Reserved(w)
      <4>1. s \in Int /\ s <= tail[w]
        BY <3>1 DEF Reserved, Numbers
      <4> QED BY <1>1, <1>3, <4>1
    <3>2. CASE s \notin Reserved(w)
      BY <1>1, <2>1, <3>2 DEF Reservations
    <3> QED BY <3>1, <3>2
  <2>2. ASSUME NEW v \in Workers, Writing(v)'
        PROVE  /\ Len(chunk'[v]) <= tail'[v] /\ tail'[v] <= meta'.seq
               /\ \A s \in Reserved(v)' : event'[s] = NoEvent
    <3>1. /\ v # w /\ Writing(v) /\ Writing(w) /\ chunk'[v] = chunk[v] /\ Reserved(v)' = Reserved(v)
      BY <1>1, <1>4, <2>2 DEF Writing
    <3>2. Reserved(v) \cap Reserved(w) = {} /\ \A s \in Reserved(v) : s \in Numbers
      BY <3>1 DEF Reservations, Reserved
    <3>3. /\ Len(chunk[v]) <= tail[v] /\ tail[v] <= meta.seq
          /\ \A s \in Reserved(v) : event[s] = NoEvent
      BY <3>1 DEF Reservations
    <3> QED BY <1>1, <3>1, <3>2, <3>3
  <2>3. ASSUME NEW v \in Workers, Writing(v)', NEW u \in Workers \ {v}, Writing(u)'
        PROVE  Reserved(u)' \cap Reserved(v)' = {}
    BY <1>4, <2>3 DEF Reservations
  <2> QED BY <2>1, <2>2, <2>3 DEF Reservations
<1>6. OnlyWhatExists' /\ NoRewrite'
  BY <1>1, <1>2 DEF OnlyWhatExists, NoRewrite, RewritePlaces
<1> QED BY <1>1, <1>3, <1>5, <1>6

\* What one step does to the log: nothing, or it enters a chunk of events
\* that were not in it on numbers nobody held.
LEMMA ReservingNext ==
  ASSUME Ops \cap Rewrites = {}, Reserving, [Next]_vars
  PROVE  Reserving' /\ (UNCHANGED event \/ \E w \in Workers : Write(w))
<1>1. Numbering'
  BY NumberingNext DEF Reserving
<1>2. ASSUME NEW w \in Workers, Request(w)
      PROVE  (Reservations /\ OnlyWhatExists /\ NoRewrite)' /\ UNCHANGED event
  <2>1. CASE CreateMeta(w)
    BY <2>1, ReservingCreate
  <2>2. CASE ~CreateMeta(w)
    <3>1. /\ UNCHANGED <<event, meta>> /\ OthersKept(w)
          /\ pc'[w] \notin RewritePlaces \cup {"write"}
          /\ pc'[w] \in AppendPlaces => meta.exists
      BY <1>2, <2>2, PlainRequest DEF Reserving, Numbering
    <3> QED BY <3>1, ReservationsFrame DEF Reserving
  <2> QED BY <2>1, <2>2
<1>3. ASSUME NEW w \in Workers, Step(w) \/ Crash(w)
      PROVE  (Reservations /\ OnlyWhatExists /\ NoRewrite)' /\ (UNCHANGED event \/ Write(w))
  <2>1. CASE Reserve(w)
    BY <2>1, ReservingReserve
  <2>2. CASE Write(w)
    BY <2>2, ReservingWrite
  <2>3. CASE ~Reserve(w) /\ ~Write(w)
    <3>1. pc[w] \notin RewritePlaces
      BY DEF Reserving, NoRewrite
    <3>2. /\ UNCHANGED <<event, meta>> /\ OthersKept(w)
          /\ pc'[w] \notin RewritePlaces \cup {"write"}
          /\ pc'[w] \in AppendPlaces => pc[w] \in AppendPlaces
      BY <1>3, <2>3, <3>1, PlainStep DEF Reserving, Numbering
    <3>3. pc[w] \in AppendPlaces => meta.exists
      BY DEF Reserving, OnlyWhatExists, AppendPlaces
    <3> QED BY <3>2, <3>3, ReservationsFrame DEF Reserving
  <2> QED BY <2>1, <2>2, <2>3
<1>4. CASE UNCHANGED vars
  <2>1. UNCHANGED <<event, meta, pc, chunk, tail>>
    BY <1>4 DEF vars
  <2>2. /\ \A w \in Workers : Writing(w)' = Writing(w) /\ Reserved(w)' = Reserved(w)
        /\ \A w \in Workers : chunk'[w] = chunk[w] /\ tail'[w] = tail[w] /\ pc'[w] = pc[w]
    BY <2>1 DEF Writing, Reserved, Base
  <2>3. Reservations'
    BY <2>1, <2>2 DEF Reserving, Reservations
  <2>4. OnlyWhatExists' /\ NoRewrite'
    BY <2>1 DEF Reserving, OnlyWhatExists, NoRewrite
  <2> QED BY <1>1, <2>1, <2>3, <2>4 DEF Reserving
<1> QED BY <1>1, <1>2, <1>3, <1>4 DEF Reserving, Next

LEMMA ReservingHolds ==
  ASSUME Ops \cap Rewrites = {}
  PROVE  Spec => []Reserving
<1>1. Reserving /\ [Next]_vars => Reserving'
  BY ReservingNext
<1> QED BY <1>1, ReservingInit, PTL DEF Spec

\* The numbers a request reserved are below the counter, free, and its own,
\* whatever happens to it and to the others until it writes.
THEOREM ReservationsAreOwn ==
  ASSUME Ops \cap Rewrites = {}
  PROVE  Spec => []Reservations
<1>1. Reserving => Reservations
  BY DEF Reserving
<1> QED BY <1>1, ReservingHolds, PTL

\* The log is append-only as long as nothing writes the META row whole.
THEOREM LogIsAppendOnly ==
  ASSUME Ops \cap Rewrites = {}
  PROVE  Spec => AppendOnly
<1>1. Reserving /\ [Next]_vars => [\A s \in Numbers : event[s] # NoEvent => event'[s] = event[s]]_vars
  <2> SUFFICES ASSUME Reserving, [Next]_vars, NEW s \in Numbers, event[s] # NoEvent
               PROVE  event'[s] = event[s]
    OBVIOUS
  <2>1. UNCHANGED event \/ \E w \in Workers : Write(w)
    BY ReservingNext
  <2>2. ASSUME NEW w \in Workers, Write(w) PROVE event'[s] = event[s]
    BY <2>2, ReservingWrite
  <2> QED BY <2>1, <2>2
<1> QED BY <1>1, ReservingHolds, PTL DEF Spec, AppendOnly

\* The requests implement the abstract ledger: a write enters its chunk, all
\* of it, after the numbers below its base, and every other step is silent.
THEOREM ImplementsLedger ==
  ASSUME Ops \cap Rewrites = {}
  PROVE  Spec => LedgerSpec
<1>1. Init => L!Init
  BY DEF Init, L!Init
<1>2. ASSUME Reserving, [Next]_vars PROVE [L!Next]_event
  <2>1. ASSUME NEW w \in Workers, Write(w) PROVE L!Next
    <3> DEFINE e == chunk[w]
    <3>1. /\ e \in Seq(Ids) /\ e # <<>> /\ Len(e) <= Chunk /\ Len(e) \in Nat
          /\ tail[w] \in 0..MaxSeq /\ Len(e) <= tail[w]
      <4>1. Writing(w) /\ pc[w] = "write"
        BY <2>1 DEF Write, Writing
      <4>2. e \in Seq(Ids) /\ e # <<>> /\ Len(keep[w]) + Len(e) <= Chunk /\ keep[w] \in Seq(Ids)
        BY <1>2, <4>1 DEF Reserving, Numbering, TypeOK, BatchesOK, ChunksSound, ChunkSound
      <4>3. Len(e) <= Chunk
        <5>1. Len(e) \in Nat /\ Len(e) >= 1 /\ Len(keep[w]) \in Nat /\ Chunk \in Nat
          BY <4>2, ConstantsAssumption
        <5> HIDE DEF e
        <5> QED BY <4>2, <5>1, Lengths
      <4> QED BY <1>2, <4>1, <4>2, <4>3 DEF Reserving, Numbering, TypeOK, PlacesOK, Reservations
    <3>2. Len(e) \in 1..Chunk /\ e \in [1..Len(e) -> Ids]
      BY <3>1, ConstantsAssumption
    <3>3. e \in L!Entries
      BY <3>2 DEF L!Entries
    <3>4. \A i \in 1..Len(e) : Base(w) + i \in Reserved(w)
      <4>1. tail[w] \in Nat /\ tail[w] <= MaxSeq /\ MaxSeq \in Nat /\ Len(e) \in Nat
        BY <3>1, ConstantsAssumption
      <4>2. Base(w) = tail[w] - Len(e)
        BY DEF Base
      <4> HIDE DEF e
      <4>3. \A i \in 1..Len(e) : /\ Base(w) + i \in 1..MaxSeq
                                /\ Base(w) < Base(w) + i /\ Base(w) + i <= tail[w]
        BY <3>1, <4>1, <4>2
      <4> QED BY <4>3 DEF Reserved, Numbers
    <3>5. Base(w) \in {n - 1 : n \in Numbers}
      <4>1. Base(w) + 1 \in Numbers
        BY <3>2, <3>4 DEF Reserved
      <4> QED BY <3>1, <4>1 DEF Base
    <3>6. \A i \in 1..Len(e) : Base(w) + i \in Numbers /\ event[Base(w) + i] = NoEvent
      BY <1>2, <2>1, <3>4, ReservingWrite DEF Reserved
    <3>7. ASSUME NEW i \in 1..Len(e), NEW n \in Numbers PROVE event[n] # e[i]
      <4>1. e[i] \in Elements(e) /\ e[i] \in Ids
        BY <3>2 DEF Elements
      <4>2. e[i] \notin seen
        BY <2>1, <4>1 DEF Write
      <4> QED BY <1>2, <4>1, <4>2, ConstantsAssumption DEF Reserving, Numbering, StoredAreSeen
    <3>8. ASSUME NEW n \in Numbers PROVE n \in Reserved(w) <=> n - Base(w) \in 1..Len(e)
      BY <3>1 DEF Reserved, Base, Numbers
    <3>9. event' = [n \in Numbers |-> IF n - Base(w) \in 1..Len(e) THEN e[n - Base(w)] ELSE event[n]]
      BY <2>1, <3>8 DEF Write
    <3>10. DOMAIN e = 1..Len(e)
      BY <3>1
    <3>11. L!Enter(e, Base(w))
      BY <3>6, <3>7, <3>9, <3>10 DEF L!Enter
    <3> QED BY <3>3, <3>5, <3>11 DEF L!Next
  <2> QED BY <1>2, <2>1, ReservingNext
<1>3. Reserving /\ [Next]_vars => [L!Next]_event
  BY <1>2
<1> QED BY <1>1, <1>3, ReservingHolds, PTL DEF Spec, LedgerSpec, L!Spec
-----------------------------------------------------------------------------
(* The order of the log, where no request writes the META row whole: what  *)
(* an account's device made is numbered in the order it made it, but for   *)
(* what failed both of a chunk's attempts.                                 *)

Ordering == Reserving /\ SeenAreStored /\ OutboxInOrder /\ TurnsKept

LEMMA BacksMore ==
  ASSUME NEW got, NEW more, got \subseteq more, NEW q, Backs(got, q)
  PROVE  Backs(more, q)
BY DEF Backs

LEMMA BacksNothing ==
  ASSUME NEW got
  PROVE  Backs(got, <<>>)
BY EmptyFacts DEF Backs

\* A batch cut in two keeps its order: what is ahead of an event of the second
\* part is before the batch, in the first part, or ahead of it in the second.
LEMMA BacksCut ==
  ASSUME NEW b \in Seq(Ids), NEW got, Backs(got, b)
  PROVE  Backs(got, First(b)) /\ Backs(got \cup Elements(First(b)), After(b))
<1>0. \A n \in 1..Len(b) : Ahead(b[n]) \subseteq got \cup {b[l] : l \in 1..(n - 1)}
  BY DEF Backs
<1>1. Chunk \in Nat /\ Chunk >= 1
  BY ConstantsAssumption
<1>2. /\ Len(First(b)) = IF Len(b) < Chunk THEN Len(b) ELSE Chunk
      /\ \A i \in 1..Len(First(b)) : First(b)[i] = b[i]
  BY <1>1 DEF First
<1>3. ASSUME NEW k \in 1..Len(First(b))
      PROVE  Ahead(First(b)[k]) \subseteq got \cup {First(b)[l] : l \in 1..(k - 1)}
  <2>1. k \in 1..Len(b) /\ First(b)[k] = b[k]
    BY <1>1, <1>2
  <2>2. \A l \in 1..(k - 1) : First(b)[l] = b[l]
    BY <1>1, <1>2
  <2>3. Ahead(b[k]) \subseteq got \cup {b[l] : l \in 1..(k - 1)}
    BY <2>1 DEF Backs
  <2> QED BY <2>1, <2>2, <2>3
<1>4. CASE Chunk + 1 <= Len(b)
  <2>1. /\ Len(After(b)) = Len(b) - Chunk
        /\ \A i \in 1..Len(After(b)) : After(b)[i] = b[Chunk + i]
    BY <1>1, <1>4, SubSeqProperties DEF After
  <2>2. ASSUME NEW k \in 1..Len(After(b)), NEW y \in Ahead(After(b)[k])
        PROVE  y \in got \cup Elements(First(b)) \cup {After(b)[l] : l \in 1..(k - 1)}
    <3>1. PICK n \in 1..Len(b) : n = Chunk + k
      BY <1>1, <1>4, <2>1
    <3>2. y \in got \/ \E l \in 1..(n - 1) : y = b[l]
      <4>1. After(b)[k] = b[n]
        BY <2>1, <3>1
      <4> QED BY <1>0, <4>1
    <3>3. ASSUME NEW l \in 1..(n - 1), y = b[l]
          PROVE  y \in Elements(First(b)) \cup {After(b)[m] : m \in 1..(k - 1)}
      <4>1. CASE l <= Chunk
        <5>1. l \in 1..Len(First(b)) /\ First(b)[l] = y
          BY <1>1, <1>2, <1>4, <3>3, <4>1
        <5> QED BY <5>1 DEF Elements
      <4>2. CASE ~(l <= Chunk)
        <5>1. l - Chunk \in 1..(k - 1) /\ l - Chunk \in 1..Len(After(b)) /\ Chunk + (l - Chunk) = l
          BY <1>1, <2>1, <3>1, <4>2
        <5>2. After(b)[l - Chunk] = y
          BY <2>1, <3>3, <5>1
        <5> QED BY <5>1, <5>2
      <4> QED BY <4>1, <4>2
    <3> QED BY <3>2, <3>3
  <2> QED BY <1>3, <2>2 DEF Backs
<1>5. CASE ~(Chunk + 1 <= Len(b))
  <2>1. After(b) = <<>>
    BY <1>1, <1>5, SubSeqProperties DEF After
  <2> QED BY <1>3, <2>1, BacksNothing DEF Backs
<1> QED BY <1>4, <1>5

\* The first event of a chunk moves behind the ones kept, or is known already.
LEMMA BacksShift ==
  ASSUME NEW q \in Seq(Ids), q # <<>>, NEW got, Backs(got, q)
  PROVE  Backs(got \cup {q[1]}, Tail(q)) /\ Ahead(q[1]) \subseteq got
<1>1. Len(q) \in Nat /\ Len(q) >= 1 /\ 1 \in 1..Len(q)
  OBVIOUS
<1>2. Len(Tail(q)) = Len(q) - 1 /\ \A i \in 1..Len(Tail(q)) : Tail(q)[i] = q[i + 1]
  BY <1>1
<1>3. ASSUME NEW k \in 1..Len(Tail(q)), NEW y \in Ahead(Tail(q)[k])
      PROVE  y \in got \cup {q[1]} \cup {Tail(q)[l] : l \in 1..(k - 1)}
  <2>1. k + 1 \in 1..Len(q) /\ Tail(q)[k] = q[k + 1]
    BY <1>1, <1>2
  <2>2. y \in got \/ \E l \in 1..k : y = q[l]
    BY <2>1 DEF Backs
  <2>3. ASSUME NEW l \in 1..k, y = q[l]
        PROVE  y = q[1] \/ \E m \in 1..(k - 1) : y = Tail(q)[m]
    <3>1. CASE l = 1
      BY <2>3, <3>1
    <3>2. CASE l # 1
      <4>1. l - 1 \in 1..(k - 1) /\ l - 1 \in 1..Len(Tail(q)) /\ (l - 1) + 1 = l
        BY <1>1, <1>2, <3>2
      <4> QED BY <1>2, <2>3, <4>1
    <3> QED BY <3>1, <3>2
  <2> QED BY <2>2, <2>3
<1>4. Ahead(q[1]) \subseteq got
  BY <1>1 DEF Backs
<1> QED BY <1>3, <1>4 DEF Backs

LEMMA LastTail ==
  ASSUME NEW q \in Seq(Ids), q # <<>>, ~(Len(q) > 1)
  PROVE  Tail(q) = <<>>
<1>1. Len(q) \in Nat /\ Len(q) >= 1 /\ 1 \in 1..Len(q)
  OBVIOUS
<1>2. Len(q) = 1
  BY <1>1
<1>3. Len(Tail(q)) = 0 /\ Tail(q) \in Seq(Ids)
  BY <1>1, <1>2
<1> QED BY <1>3

LEMMA BacksGrow ==
  ASSUME NEW q \in Seq(Ids), NEW id \in Ids, NEW got, Backs(got, q),
         Ahead(id) \subseteq got \cup Elements(q)
  PROVE  Backs(got, Append(q, id)) /\ Elements(Append(q, id)) = Elements(q) \cup {id}
<1>1. /\ Len(Append(q, id)) = Len(q) + 1 /\ Len(q) \in Nat
      /\ \A i \in 1..Len(q) : Append(q, id)[i] = q[i]
      /\ Append(q, id)[Len(q) + 1] = id
  OBVIOUS
<1>2. ASSUME NEW k \in 1..Len(Append(q, id)), NEW y \in Ahead(Append(q, id)[k])
      PROVE  y \in got \cup {Append(q, id)[l] : l \in 1..(k - 1)}
  <2>1. CASE k \in 1..Len(q)
    <3>1. y \in got \cup {q[l] : l \in 1..(k - 1)}
      BY <1>1, <1>2, <2>1 DEF Backs
    <3>2. \A l \in 1..(k - 1) : Append(q, id)[l] = q[l]
      BY <1>1, <2>1
    <3> QED BY <3>1, <3>2
  <2>2. CASE k = Len(q) + 1
    <3>1. y \in got \cup {q[l] : l \in 1..Len(q)}
      BY <1>1, <1>2, <2>2 DEF Elements
    <3>2. k - 1 = Len(q)
      BY <1>1, <2>2
    <3> QED BY <1>1, <3>1, <3>2
  <2> QED BY <1>1, <2>1, <2>2
<1>3. Elements(Append(q, id)) = Elements(q) \cup {id}
  <2>1. 1..(Len(q) + 1) = (1..Len(q)) \cup {Len(q) + 1}
    BY <1>1
  <2> QED BY <1>1, <2>1 DEF Elements
<1> QED BY <1>2, <1>3 DEF Backs

\* What a device made before an event it sends is in the batch before it, or
\* was numbered before: no two devices make the same event.
LEMMA BatchBacks ==
  ASSUME NEW sub \in Subs, NEW b \in BatchesOf(sub)
  PROVE  Backs(seen, b)
<1>1. PICK i, j \in 1..Len(Made[sub]) :
        b = SubSeq(Made[sub], i, j) /\ \A e \in 1..(i - 1) : Made[sub][e] \in seen
  BY DEF BatchesOf
<1>2. /\ Made[sub] \in Seq(Ids) /\ Injective(Made[sub])
      /\ \A m \in Subs \ {sub} : \A x \in 1..Len(Made[sub]), y \in 1..Len(Made[m]) :
           Made[sub][x] # Made[m][y]
  BY ConstantsAssumption DEF Injective
<1>3. CASE i <= j
  <2>1. /\ Len(b) = j - i + 1
        /\ \A k \in 1..Len(b) : b[k] = Made[sub][i + k - 1]
    BY <1>1, <1>2, <1>3, SubSeqProperties
  <2>2. ASSUME NEW k \in 1..Len(b), NEW y \in Ahead(b[k])
        PROVE  y \in seen \cup {b[l] : l \in 1..(k - 1)}
    <3>1. PICK n \in 1..Len(Made[sub]) : n = i + k - 1 /\ b[k] = Made[sub][n]
      BY <1>1, <1>2, <1>3, <2>1
    <3>m. PICK m \in Subs : \E x, z \in 1..Len(Made[m]) :
            x < z /\ Made[m][x] = y /\ Made[m][z] = b[k]
      BY DEF Ahead
    <3>2. PICK x \in 1..Len(Made[m]), z \in 1..Len(Made[m]) :
            x < z /\ Made[m][x] = y /\ Made[m][z] = b[k]
      BY <3>m
    <3>3. m = sub /\ z = n
      BY <1>2, <3>1, <3>2 DEF Injective
    <3>4. CASE x < i
      BY <1>1, <3>2, <3>3, <3>4
    <3>5. CASE ~(x < i)
      <4>1. PICK l \in 1..(k - 1) : x = i + l - 1
        <5>1. x - i + 1 \in 1..(k - 1) /\ x = i + (x - i + 1) - 1
          BY <1>1, <2>1, <3>1, <3>2, <3>3, <3>5
        <5> QED BY <5>1
      <4>2. l \in 1..Len(b)
        BY <2>1
      <4>3. b[l] = y
        BY <2>1, <3>2, <3>3, <4>1, <4>2
      <4> QED BY <4>3
    <3> QED BY <3>4, <3>5
  <2> QED BY <2>2 DEF Backs
<1>4. CASE ~(i <= j)
  <2>1. b = <<>>
    BY <1>1, <1>2, <1>4, SubSeqProperties
  <2> QED BY <2>1, BacksNothing
<1> QED BY <1>3, <1>4

\* Nothing is made ahead of what the bot mints.
LEMMA PressBacks ==
  ASSUME NEW id \in PressIds
  PROVE  Backs({}, <<id>>)
<1>1. Ahead(id) = {}
  BY ConstantsAssumption DEF Ahead
<1> QED BY <1>1 DEF Backs

\* The loop's next turn keeps the order of what is left.
LEMMA OnwardTurn ==
  ASSUME TypeOK, NEW w \in Workers, NEW again \in Seq(Ids), Onward(w, again),
         NEW got, Backs(got, again), Backs(got \cup Elements(again), rest[w]),
         got \subseteq Had'
  PROVE  InTurn(w)'
<1>1. rest[w] \in Seq(Ids)
  BY DEF TypeOK, BatchesOK
<1>2. keep'[w] = <<>> /\ pc'[w] \in {"reserve", "touch"}
  BY OnwardKeeps DEF Onward, TypeOK, BatchesOK
<1>3. Backs(Had', chunk'[w]) /\ Backs(Had' \cup Elements(chunk'[w]), rest'[w])
  <2>1. CASE again # <<>> /\ attempt[w] = 0
    <3>1. chunk'[w] = again /\ rest'[w] = rest[w]
      BY <2>1 DEF Onward, TypeOK, BatchesOK
    <3> QED BY <3>1, BacksMore
  <2>2. CASE ~(again # <<>> /\ attempt[w] = 0)
    <3>1. /\ passed' = passed \cup Elements(again)
          /\ chunk' = [chunk EXCEPT ![w] = First(rest[w])]
          /\ rest' = [rest EXCEPT ![w] = After(rest[w])]
      BY <2>2 DEF Onward
    <3>2. chunk'[w] = First(rest[w]) /\ rest'[w] = After(rest[w])
      BY <3>1 DEF TypeOK, BatchesOK
    <3>3. got \cup Elements(again) \subseteq Had'
      BY <3>1 DEF Had
    <3>4. Backs(Had', rest[w])
      BY <3>3, BacksMore
    <3> QED BY <1>1, <3>2, <3>4, BacksCut
  <2> QED BY <2>1, <2>2
<1>4. Had' = Had' \cup Elements(<<>>)
  BY EmptyFacts
<1> QED BY <1>2, <1>3, <1>4, BacksNothing DEF InTurn, Writing

\* What the other requests have in hand is in order still, as the log grows.
LEMMA TurnFrame ==
  ASSUME TypeOK, NEW v \in Workers, InTurn(v),
         pc'[v] = pc[v], chunk'[v] = chunk[v], rest'[v] = rest[v], keep'[v] = keep[v],
         tail'[v] = tail[v],
         seen \subseteq seen', passed \subseteq passed',
         \A s \in Numbers : event[s] # NoEvent => event'[s] = event[s]
  PROVE  InTurn(v)'
<1>1. Had \subseteq Had' /\ Had \cup Elements(keep[v]) \subseteq Had' \cup Elements(keep'[v])
      /\ Had \cup Elements(keep[v]) \cup Elements(chunk[v])
           \subseteq Had' \cup Elements(keep'[v]) \cup Elements(chunk'[v])
  BY DEF Had
<1>2. /\ Backs(Had', keep'[v])
      /\ Backs(Had' \cup Elements(keep'[v]), chunk'[v])
      /\ Backs(Had' \cup Elements(keep'[v]) \cup Elements(chunk'[v]), rest'[v])
  <2>1. /\ Backs(Had, keep[v]) /\ Backs(Had \cup Elements(keep[v]), chunk[v])
        /\ Backs(Had \cup Elements(keep[v]) \cup Elements(chunk[v]), rest[v])
    BY DEF InTurn
  <2> QED BY <1>1, <2>1, BacksMore
<1>3. ASSUME Writing(v)' PROVE Backs(passed' \cup Stored(Base(v))', chunk'[v])
  <2>1. Writing(v) /\ Base(v)' = Base(v)
    BY <1>3 DEF Writing, Base
  <2>2. Stored(Base(v)) \subseteq Stored(Base(v))'
    BY <2>1 DEF Stored
  <2>3. Backs(passed \cup Stored(Base(v)), chunk[v])
    BY <2>1 DEF InTurn
  <2>4. passed \cup Stored(Base(v)) \subseteq passed' \cup Stored(Base(v))'
    BY <2>2
  <2> QED BY <2>3, <2>4, BacksMore
<1>4. pc'[v] # "check" => keep'[v] = <<>>
  BY DEF InTurn
<1> QED BY <1>2, <1>3, <1>4 DEF InTurn

\* What a request has in hand stays as it is, and it has not reserved again.
Rests(w) ==
  /\ UNCHANGED <<chunk, rest, keep, passed>>
  /\ pc'[w] # "write"
  /\ pc'[w] # "check" => pc[w] # "check"

LEMMA TurnRests ==
  ASSUME NEW w \in Workers, InTurn(w), Rests(w), UNCHANGED seen
  PROVE  InTurn(w)'
<1>1. Had' = Had /\ ~Writing(w)'
  BY DEF Rests, Had, Writing
<1>2. chunk'[w] = chunk[w] /\ rest'[w] = rest[w] /\ keep'[w] = keep[w]
  BY DEF Rests
<1>3. pc'[w] # "check" => keep'[w] = <<>>
  BY DEF InTurn, Rests
<1> QED BY <1>1, <1>2, <1>3 DEF InTurn

LEMMA TurnReleased ==
  ASSUME TypeOK, NEW w \in Workers, Release(w)
  PROVE  /\ InTurn(w)' /\ UNCHANGED passed
         /\ \A v \in Workers \ {w} : rest'[v] = rest[v] /\ keep'[v] = keep[v]
<1>1. /\ chunk'[w] = <<>> /\ rest'[w] = <<>> /\ keep'[w] = <<>> /\ pc'[w] = "idle"
      /\ UNCHANGED passed
      /\ \A v \in Workers \ {w} : rest'[v] = rest[v] /\ keep'[v] = keep[v]
  BY DEF Release, Goto, TypeOK, BatchesOK, PlacesOK
<1> QED BY <1>1, BacksNothing DEF InTurn, Writing

LEMMA TurnTaken ==
  ASSUME TypeOK, NEW w \in Workers, NEW b \in Seq(Ids), NEW e, NEW place \in {"seat", "reserve"},
         TakeUp(w, b, e), Goto(w, place), UNCHANGED seen, Backs(Had, b)
  PROVE  /\ InTurn(w)' /\ UNCHANGED passed
         /\ \A v \in Workers \ {w} : rest'[v] = rest[v] /\ keep'[v] = keep[v]
<1>1. /\ chunk'[w] = First(b) /\ rest'[w] = After(b) /\ keep'[w] = <<>> /\ pc'[w] = place
      /\ UNCHANGED passed
      /\ \A v \in Workers \ {w} : rest'[v] = rest[v] /\ keep'[v] = keep[v]
  BY DEF TakeUp, Goto, TypeOK, BatchesOK, PlacesOK
<1>2. Had' = Had /\ Had' \cup Elements(<<>>) = Had'
  BY <1>1, EmptyFacts DEF Had
<1>3. Backs(Had', chunk'[w]) /\ Backs(Had' \cup Elements(chunk'[w]), rest'[w])
  BY <1>1, <1>2, BacksCut
<1> QED BY <1>1, <1>2, <1>3, BacksNothing DEF InTurn, Writing

\* The requests' first steps: a batch taken up, in order, or none.
LEMMA TurnRequest ==
  ASSUME TypeOK, Ops \cap Rewrites = {}, NEW w \in Workers, InTurn(w), Request(w)
  PROVE  /\ InTurn(w)' /\ UNCHANGED <<seen, passed>>
         /\ \A v \in Workers \ {w} : rest'[v] = rest[v] /\ keep'[v] = keep[v]
<1>1. CASE CreateMeta(w)
  <2>1. PICK b \in BatchesOf(Owner) :
          TakeUp(w, b, AnySeq) /\ Goto(w, "seat") /\ UNCHANGED <<event, seen, member, pointer, tail, row, todo>>
    BY <1>1 DEF CreateMeta
  <2>2. Backs(Had, b) /\ b \in Seq(Ids)
    BY BatchBacks, BatchFacts, BacksMore, ConstantsAssumption DEF Had
  <2> QED BY <2>1, <2>2, TurnTaken
<1>2. ASSUME NEW sub \in Subs, AppendBegin(w, sub)
      PROVE  /\ InTurn(w)' /\ UNCHANGED <<seen, passed>>
             /\ \A v \in Workers \ {w} : rest'[v] = rest[v] /\ keep'[v] = keep[v]
  <2>1. PICK b \in BatchesOf(sub) :
          TakeUp(w, b, AnySeq) /\ Goto(w, "reserve") /\ UNCHANGED <<rows, tail, row, todo>>
    BY <1>2 DEF AppendBegin
  <2>2. Backs(Had, b) /\ b \in Seq(Ids) /\ UNCHANGED seen
    BY <2>1, BatchBacks, BatchFacts, BacksMore DEF Had, rows
  <2> QED BY <2>1, <2>2, TurnTaken
<1>3. ASSUME NEW id \in PressIds, PressBegin(w, id)
      PROVE  /\ InTurn(w)' /\ UNCHANGED <<seen, passed>>
             /\ \A v \in Workers \ {w} : rest'[v] = rest[v] /\ keep'[v] = keep[v]
  <2>1. PICK n \in 0..MaxSeq :
          TakeUp(w, <<id>>, n) /\ Goto(w, "reserve") /\ UNCHANGED <<rows, tail, row, todo>>
    BY <1>3 DEF PressBegin
  <2>2. Backs(Had, <<id>>) /\ UNCHANGED seen
    BY <2>1, PressBacks, BacksMore DEF rows
  <2>3. <<id>> \in Seq(Ids)
    BY ConstantsAssumption
  <2> QED BY <2>1, <2>2, <2>3, TurnTaken
<1>4. ASSUME NEW sub \in Subs PROVE ~PatchBegin(w, sub) /\ ~DeleteBegin(w)
  BY DEF PatchBegin, DeleteBegin, Routed, Begin, Rewrites
<1>5. ASSUME NEW sub \in Subs, LeaveBegin(w, sub) \/ RemoveBegin(w, sub) \/ JoinBegin(w, sub)
      PROVE  /\ InTurn(w)' /\ UNCHANGED <<seen, passed>>
             /\ \A v \in Workers \ {w} : rest'[v] = rest[v] /\ keep'[v] = keep[v]
  <2>1. /\ pc[w] = "idle" /\ UNCHANGED batch /\ UNCHANGED seen
        /\ \E place \in {"quit", "remove", "join"} : Goto(w, place)
    BY <1>5 DEF LeaveBegin, RemoveBegin, JoinBegin, Routed, Begin, Idle, rows
  <2>2. Rests(w)
    BY <2>1, GotoKeeps DEF Rests, batch
  <2> QED BY <2>1, <2>2, TurnRests DEF batch
<1>6. \E sub \in Subs : TRUE
  BY ConstantsAssumption
<1> QED BY <1>1, <1>2, <1>3, <1>4, <1>5, <1>6 DEF Request

\* A step other than a reservation, a write or a look-up.
LEMMA TurnStep ==
  ASSUME TypeOK, NEW w \in Workers, InTurn(w), Step(w) \/ Crash(w),
         ~Reserve(w), ~Write(w), ~Check(w), pc[w] \notin RewritePlaces
  PROVE  /\ InTurn(w)' /\ UNCHANGED <<seen, passed>>
         /\ \A v \in Workers \ {w} : rest'[v] = rest[v] /\ keep'[v] = keep[v]
<1> USE DEF RewritePlaces
<1>0. ASSUME UNCHANGED seen, Release(w) \/ Rests(w)
      PROVE  /\ InTurn(w)' /\ UNCHANGED <<seen, passed>>
             /\ \A v \in Workers \ {w} : rest'[v] = rest[v] /\ keep'[v] = keep[v]
  <2>1. CASE Release(w)
    BY <1>0, <2>1, TurnReleased
  <2>2. CASE Rests(w)
    BY <1>0, <2>2, TurnRests DEF Rests
  <2> QED BY <1>0, <2>1, <2>2
<1>g. ASSUME NEW place, Goto(w, place), place # "write", pc[w] # "check", UNCHANGED batch
      PROVE  Rests(w)
  BY <1>g, GotoKeeps DEF Rests, batch
<1>1. CASE Refuse(w) \/ Crash(w)
  BY <1>0, <1>1 DEF Refuse, Crash, rows
<1>2. CASE Cancel(w)
  BY <1>0, <1>2, <1>g DEF Cancel, rows
<1>3. CASE TouchRead(w)
  BY <1>0, <1>3, <1>g DEF TouchRead, rows
<1>4. ASSUME NEW m \in Subs, Point(w, m) PROVE UNCHANGED seen /\ (Release(w) \/ Rests(w))
  BY <1>4 DEF Point, StrikeOff, Rests, batch
<1>5. /\ ~PatchGet(w) /\ ~PatchPut(w) /\ ~DeleteRead(w) /\ ~DeleteGet(w) /\ ~DeletePut(w)
      /\ \A m \in Subs : ~Entomb(w, m)
  BY DEF PatchGet, PatchPut, DeleteRead, DeleteGet, DeletePut, Entomb
<1>6. CASE LeaveRow(w) \/ LeavePointer(w)
  <2>1. PICK other \in {"leaveRow", "leavePointer"} : ThenLeave(w, other) /\ UNCHANGED seen
    BY <1>6 DEF LeaveRow, LeavePointer
  <2> QED BY <1>0, <1>g, <2>1 DEF ThenLeave
<1>7. CASE CreateMember(w) \/ JoinPut(w) \/ RemoveRow(w)
  BY <1>0, <1>7, <1>g DEF CreateMember, JoinPut, RemoveRow
<1>8. CASE RemovePointer(w)
  BY <1>0, <1>8 DEF RemovePointer
<1>9. CASE LeaveRead(w) \/ RemoveRead(w)
  BY <1>0, <1>9, <1>g DEF LeaveRead, RemoveRead, rows
<1>10. ASSUME NEW m \in Subs, Point(w, m)
       PROVE  /\ InTurn(w)' /\ UNCHANGED <<seen, passed>>
              /\ \A v \in Workers \ {w} : rest'[v] = rest[v] /\ keep'[v] = keep[v]
  BY <1>0, <1>4, <1>10
<1> QED BY <1>1, <1>2, <1>3, <1>5, <1>6, <1>7, <1>8, <1>9, <1>10 DEF Step

\* The numbers a request reserves lie past every event there is.
LEMMA TurnReserve ==
  ASSUME Ordering, NEW w \in Workers, Reserve(w)
  PROVE  /\ InTurn(w)' /\ UNCHANGED <<event, seen, passed>>
         /\ \A v \in Workers \ {w} : /\ pc'[v] = pc[v] /\ chunk'[v] = chunk[v] /\ rest'[v] = rest[v]
                                     /\ keep'[v] = keep[v] /\ tail'[v] = tail[v]
<1> USE DEF Ordering, Reserving, Numbering
<1>1. /\ pc[w] = "reserve" /\ Goto(w, "write")
      /\ tail' = [tail EXCEPT ![w] = meta.seq + Len(chunk[w])]
      /\ UNCHANGED <<event, seen, chunk, rest, keep, passed>>
  BY DEF Reserve
<1>2. /\ pc'[w] = "write" /\ tail'[w] = meta.seq + Len(chunk[w])
      /\ \A v \in Workers \ {w} : pc'[v] = pc[v] /\ tail'[v] = tail[v]
  BY <1>1, GotoKeeps DEF TypeOK, PlacesOK
<1>3. InTurn(w) /\ keep[w] = <<>>
  BY <1>1 DEF TurnsKept, InTurn
<1>4. Base(w)' = meta.seq
  <2>1. Len(chunk[w]) \in Nat /\ meta.seq \in Nat
    BY DEF TypeOK, RowsOK, BatchesOK, Meta
  <2> QED BY <1>1, <1>2, <2>1 DEF Base
<1>5. Had \cup Elements(keep[w]) \subseteq passed' \cup Stored(Base(w))'
  <2>1. ASSUME NEW id \in seen PROVE id \in Stored(Base(w))'
    <3>1. PICK s \in Numbers : event[s] = id
      BY DEF SeenAreStored
    <3>2. event[s] # NoEvent
      BY <3>1, ConstantsAssumption DEF TypeOK, RowsOK
    <3>3. s <= meta.seq
      BY <3>2 DEF Reservations
    <3> QED BY <1>1, <1>4, <3>1, <3>2, <3>3 DEF Stored
  <2> QED BY <1>1, <1>3, <2>1, EmptyFacts DEF Had
<1>6. Backs(passed' \cup Stored(Base(w))', chunk'[w])
  <2>1. Backs(Had \cup Elements(keep[w]), chunk[w])
    BY <1>3 DEF InTurn
  <2> QED BY <1>1, <1>5, <2>1, BacksMore
<1>7. /\ Backs(Had', keep'[w]) /\ Backs(Had' \cup Elements(keep'[w]), chunk'[w])
      /\ Backs(Had' \cup Elements(keep'[w]) \cup Elements(chunk'[w]), rest'[w])
  BY <1>1, <1>3 DEF InTurn, Had
<1> QED BY <1>1, <1>2, <1>3, <1>6, <1>7 DEF InTurn

\* An id looked up is known, or kept for the next attempt in its place.
LEMMA TurnCheck ==
  ASSUME TypeOK, ChunksSound, NEW w \in Workers, InTurn(w), Check(w)
  PROVE  /\ InTurn(w)' /\ UNCHANGED seen /\ passed \subseteq passed'
         /\ \A v \in Workers \ {w} : /\ pc'[v] = pc[v] /\ chunk'[v] = chunk[v] /\ rest'[v] = rest[v]
                                     /\ keep'[v] = keep[v] /\ tail'[v] = tail[v]
<1> DEFINE kept == IF chunk[w][1] \in seen THEN keep[w] ELSE Append(keep[w], chunk[w][1])
<1>1. /\ chunk[w] \in Seq(Ids) /\ chunk[w] # <<>> /\ keep[w] \in Seq(Ids) /\ rest[w] \in Seq(Ids)
      /\ chunk[w][1] \in Ids
  BY DEF Check, TypeOK, BatchesOK, ChunksSound, ChunkSound
<1>2. /\ Backs(Had, keep[w]) /\ Backs(Had \cup Elements(keep[w]), chunk[w])
      /\ Backs(Had \cup Elements(keep[w]) \cup Elements(chunk[w]), rest[w])
  BY DEF InTurn
<1>3. /\ pc[w] = "check" /\ UNCHANGED seen /\ UNCHANGED tail
      /\ Len(chunk[w]) > 1 =>
           /\ keep' = [keep EXCEPT ![w] = kept] /\ chunk' = [chunk EXCEPT ![w] = Tail(chunk[w])]
           /\ UNCHANGED <<pc, rest, attempt, passed>>
      /\ ~(Len(chunk[w]) > 1) => Onward(w, kept)
  BY DEF Check, rows
<1>4. /\ Backs(Had \cup Elements(keep[w]) \cup {chunk[w][1]}, Tail(chunk[w]))
      /\ Ahead(chunk[w][1]) \subseteq Had \cup Elements(keep[w])
  BY <1>1, <1>2, BacksShift
<1>5. /\ kept \in Seq(Ids) /\ Backs(Had, kept)
      /\ Had \cup Elements(keep[w]) \cup {chunk[w][1]} = Had \cup Elements(kept)
  <2>1. CASE chunk[w][1] \in seen
    BY <1>1, <1>2, <2>1 DEF Had
  <2>2. CASE chunk[w][1] \notin seen
    <3>1. kept = Append(keep[w], chunk[w][1])
      BY <2>2
    <3> HIDE DEF kept
    <3>2. Backs(Had, kept) /\ Elements(kept) = Elements(keep[w]) \cup {chunk[w][1]}
      BY <1>1, <1>2, <1>4, <3>1, BacksGrow
    <3>3. kept \in Seq(Ids)
      BY <1>1, <3>1
    <3> QED BY <3>2, <3>3
  <2> QED BY <2>1, <2>2
<1>6. Elements(chunk[w]) \subseteq {chunk[w][1]} \cup Elements(Tail(chunk[w]))
  <2>1. Len(Tail(chunk[w])) = Len(chunk[w]) - 1 /\ Len(chunk[w]) \in Nat
        /\ \A i \in 1..Len(Tail(chunk[w])) : Tail(chunk[w])[i] = chunk[w][i + 1]
    BY <1>1
  <2>2. ASSUME NEW i \in 1..Len(chunk[w]), i # 1 PROVE chunk[w][i] \in Elements(Tail(chunk[w]))
    <3>1. i - 1 \in 1..Len(Tail(chunk[w])) /\ (i - 1) + 1 = i
      BY <2>1, <2>2
    <3> QED BY <2>1, <3>1 DEF Elements
  <2> QED BY <2>2 DEF Elements
<1>7. /\ Backs(Had \cup Elements(kept), Tail(chunk[w]))
      /\ Had \cup Elements(keep[w]) \cup Elements(chunk[w])
           \subseteq Had \cup Elements(kept) \cup Elements(Tail(chunk[w]))
  BY <1>4, <1>5, <1>6
<1>8. Backs(Had \cup Elements(kept) \cup Elements(Tail(chunk[w])), rest[w])
  BY <1>2, <1>7, BacksMore
<1> HIDE DEF kept
<1>9. CASE Len(chunk[w]) > 1
  <2>1. /\ chunk'[w] = Tail(chunk[w]) /\ keep'[w] = kept /\ rest'[w] = rest[w] /\ pc'[w] = "check"
        /\ Had' = Had /\ passed' = passed
        /\ \A v \in Workers \ {w} : /\ pc'[v] = pc[v] /\ chunk'[v] = chunk[v] /\ rest'[v] = rest[v]
                                    /\ keep'[v] = keep[v] /\ tail'[v] = tail[v]
    BY <1>3, <1>9 DEF TypeOK, BatchesOK, PlacesOK, Had
  <2> QED BY <1>3, <1>5, <1>7, <1>8, <2>1 DEF InTurn, Writing
<1>10. CASE ~(Len(chunk[w]) > 1)
  <2>1. Onward(w, kept)
    BY <1>3, <1>10
  <2>2. /\ passed \subseteq passed'
        /\ \A v \in Workers \ {w} : rest'[v] = rest[v] /\ keep'[v] = keep[v]
    BY <2>1 DEF Onward, TypeOK, BatchesOK
  <2>3. Had \subseteq Had'
    BY <1>3, <2>2 DEF Had
  <2>4. Tail(chunk[w]) = <<>>
    BY <1>1, <1>10, LastTail
  <2>5. Backs(Had \cup Elements(kept), rest[w])
    <3>1. Had \cup Elements(kept) \cup Elements(Tail(chunk[w])) = Had \cup Elements(kept)
      BY <2>4, EmptyFacts
    <3> QED BY <1>8, <3>1
  <2>6. InTurn(w)'
    BY <1>5, <2>1, <2>3, <2>5, OnwardTurn
  <2>7. \A v \in Workers \ {w} : pc'[v] = pc[v] /\ chunk'[v] = chunk[v]
    BY <2>1, OnwardKeeps
  <2> QED BY <1>3, <2>2, <2>6, <2>7
<1> QED BY <1>9, <1>10

\* A write enters its chunk above whatever was made ahead of its events.
LEMMA TurnWrite ==
  ASSUME Ordering, NEW w \in Workers, Write(w)
  PROVE  /\ InTurn(w)' /\ SeenAreStored' /\ OutboxInOrder'
         /\ seen \subseteq seen' /\ UNCHANGED passed
         /\ \A v \in Workers \ {w} : /\ pc'[v] = pc[v] /\ chunk'[v] = chunk[v] /\ rest'[v] = rest[v]
                                     /\ keep'[v] = keep[v] /\ tail'[v] = tail[v]
<1> USE DEF Ordering, Reserving, Numbering
<1>1. /\ pc[w] = "write" /\ Onward(w, <<>>) /\ UNCHANGED <<meta, tail>>
      /\ seen' = seen \cup Elements(chunk[w])
      /\ event' = [s \in Numbers |-> IF s \in Reserved(w) THEN chunk[w][s - Base(w)] ELSE event[s]]
  BY DEF Write
<1>2. /\ InTurn(w) /\ keep[w] = <<>> /\ Writing(w)
      /\ Backs(passed \cup Stored(Base(w)), chunk[w])
  BY <1>1 DEF TurnsKept, InTurn, Writing
<1>3. /\ Len(chunk[w]) \in Nat /\ tail[w] \in 0..MaxSeq /\ Len(chunk[w]) <= tail[w]
      /\ chunk[w] \in Seq(Ids) /\ MaxSeq \in Nat
      /\ \A s \in Reserved(w) : event[s] = NoEvent
  BY <1>2, ConstantsAssumption DEF TypeOK, BatchesOK, PlacesOK, Reservations
<1>4. Elements(<<>>) = {} /\ <<>> \in Seq(Ids)
  BY EmptyFacts
<1>p. UNCHANGED passed
  BY <1>1, <1>4 DEF Onward
<1>5. \A v \in Workers \ {w} : /\ pc'[v] = pc[v] /\ chunk'[v] = chunk[v] /\ rest'[v] = rest[v]
                               /\ keep'[v] = keep[v] /\ tail'[v] = tail[v]
  <2>1. \A v \in Workers \ {w} : rest'[v] = rest[v] /\ keep'[v] = keep[v]
    BY <1>1 DEF Onward, TypeOK, BatchesOK
  <2> QED BY <1>1, <2>1, OnwardKeeps
<1>6. InTurn(w)'
  <2> DEFINE got == Had \cup Elements(chunk[w])
  <2>1. Backs(got, <<>>) /\ got \subseteq Had'
    BY <1>1, <1>p, BacksNothing DEF Had
  <2>2. Backs(got \cup Elements(<<>>), rest[w])
    <3>1. Had \cup Elements(keep[w]) \cup Elements(chunk[w]) = got \cup Elements(<<>>)
      BY <1>2, <1>4
    <3> QED BY <1>2, <3>1 DEF InTurn
  <2> HIDE DEF got
  <2> QED BY <1>1, <1>4, <2>1, <2>2, OnwardTurn
<1>7. \A s \in Numbers : event[s] # NoEvent => event'[s] = event[s]
  BY <1>1, <1>3
<1>8. ASSUME NEW k \in 1..Len(chunk[w])
      PROVE  /\ Base(w) + k \in Reserved(w) /\ event'[Base(w) + k] = chunk[w][k]
             /\ chunk[w][k] \in Ids
  <2>1. Base(w) + k \in Reserved(w) /\ (Base(w) + k) - Base(w) = k
    BY <1>3 DEF Reserved, Base, Numbers
  <2> QED BY <1>1, <1>3, <2>1 DEF Reserved
<1>9. SeenAreStored'
  <2>1. ASSUME NEW id \in seen PROVE \E s \in Numbers : event'[s] = id
    <3>1. PICK s \in Numbers : event[s] = id
      BY DEF SeenAreStored
    <3>2. event[s] # NoEvent
      BY <3>1, ConstantsAssumption DEF TypeOK, RowsOK
    <3> QED BY <1>7, <3>1, <3>2
  <2>2. ASSUME NEW id \in Elements(chunk[w]) PROVE \E s \in Numbers : event'[s] = id
    BY <1>8 DEF Elements, Reserved
  <2> QED BY <1>1, <2>1, <2>2 DEF SeenAreStored
<1>10. \A n \in Int : Stored(n) \subseteq Stored(n)'
  BY <1>7 DEF Stored
<1>11. ASSUME NEW t \in Numbers, event'[t] # NoEvent
       PROVE  Ahead(event'[t]) \subseteq passed' \cup Stored(t - 1)'
  <2>1. CASE t \in Reserved(w)
    <3>1. PICK k \in 1..Len(chunk[w]) : t = Base(w) + k
      <4>1. t \in Int /\ t - Base(w) \in 1..Len(chunk[w]) /\ t = Base(w) + (t - Base(w))
        BY <1>3, <2>1 DEF Reserved, Base, Numbers
      <4> QED BY <4>1
    <3>2. event'[t] = chunk[w][k]
      BY <1>8, <3>1
    <3>3. ASSUME NEW y \in Ahead(chunk[w][k]) PROVE y \in passed' \cup Stored(t - 1)'
      <4>1. y \in passed \cup Stored(Base(w)) \/ \E l \in 1..(k - 1) : y = chunk[w][l]
        BY <1>2 DEF Backs
      <4>2. ASSUME y \in Stored(Base(w)) PROVE y \in Stored(t - 1)'
        <5>1. PICK s \in Numbers : s <= Base(w) /\ event[s] # NoEvent /\ y = event[s]
          BY <4>2 DEF Stored
        <5>2. s <= t - 1
          BY <1>3, <3>1, <5>1 DEF Base, Numbers
        <5> QED BY <1>7, <5>1, <5>2 DEF Stored
      <4>3. ASSUME NEW l \in 1..(k - 1), y = chunk[w][l] PROVE y \in Stored(t - 1)'
        <5>1. l \in 1..Len(chunk[w])
          BY <1>3
        <5>2. PICK s \in Numbers : s = Base(w) + l
          BY <1>8, <5>1 DEF Reserved
        <5>3. event'[s] = y /\ y \in Ids
          BY <1>8, <4>3, <5>1, <5>2
        <5>4. event'[s] # NoEvent
          BY <5>3, ConstantsAssumption
        <5>5. s <= t - 1
          BY <1>3, <3>1, <5>2 DEF Base
        <5> QED BY <5>2, <5>3, <5>4, <5>5 DEF Stored
      <4> QED BY <1>p, <4>1, <4>2, <4>3
    <3> QED BY <3>2, <3>3
  <2>2. CASE t \notin Reserved(w)
    <3>1. event'[t] = event[t]
      BY <1>1, <2>2
    <3>2. Ahead(event[t]) \subseteq passed \cup Stored(t - 1)
      BY <1>11, <3>1 DEF OutboxInOrder
    <3>3. t - 1 \in Int
      BY DEF Numbers
    <3> QED BY <1>p, <1>10, <3>1, <3>2, <3>3
  <2> QED BY <2>1, <2>2
<1>12. OutboxInOrder'
  BY <1>11 DEF OutboxInOrder, Stored
<1> QED BY <1>1, <1>p, <1>5, <1>6, <1>9, <1>12

LEMMA OrderingInit == Init => Ordering
<1> SUFFICES ASSUME Init PROVE Ordering
  OBVIOUS
<1>1. Reserving
  BY ReservingInit
<1>2. SeenAreStored /\ OutboxInOrder
  BY DEF Init, SeenAreStored, OutboxInOrder
<1>3. TurnsKept
  BY BacksNothing DEF Init, TurnsKept, InTurn, Writing
<1> QED BY <1>1, <1>2, <1>3 DEF Ordering

\* A step that leaves the log alone keeps it in order.
LEMMA OrderFrame ==
  ASSUME SeenAreStored, OutboxInOrder, UNCHANGED <<event, seen>>, passed \subseteq passed'
  PROVE  SeenAreStored' /\ OutboxInOrder'
<1>1. \A n : Stored(n)' = Stored(n)
  BY DEF Stored
<1> QED BY <1>1 DEF SeenAreStored, OutboxInOrder

LEMMA OrderingNext ==
  ASSUME Ops \cap Rewrites = {}, Ordering, [Next]_vars
  PROVE  Ordering'
<1> USE DEF Ordering, Reserving, Numbering
<1>1. Reserving'
  BY ReservingNext
<1>2. ASSUME NEW w \in Workers, InTurn(w)', seen \subseteq seen', passed \subseteq passed',
             SeenAreStored' /\ OutboxInOrder',
             \A s \in Numbers : event[s] # NoEvent => event'[s] = event[s],
             \A v \in Workers \ {w} : /\ pc'[v] = pc[v] /\ chunk'[v] = chunk[v] /\ rest'[v] = rest[v]
                                      /\ keep'[v] = keep[v] /\ tail'[v] = tail[v]
      PROVE  Ordering'
  <2>1. ASSUME NEW v \in Workers \ {w} PROVE InTurn(v)'
    <3>1. InTurn(v)
      BY DEF TurnsKept
    <3> QED BY <1>2, <3>1, TurnFrame
  <2> QED BY <1>1, <1>2, <2>1 DEF TurnsKept
<1>3. ASSUME NEW w \in Workers, Request(w) PROVE Ordering'
  <2>1. /\ InTurn(w)' /\ UNCHANGED <<seen, passed>>
        /\ \A v \in Workers \ {w} : rest'[v] = rest[v] /\ keep'[v] = keep[v]
    BY <1>3, TurnRequest DEF TurnsKept
  <2>2. UNCHANGED event /\ OthersKept(w)
    <3>1. CASE CreateMeta(w)
      BY <3>1, GotoKeeps DEF CreateMeta, TakeUp, OthersKept, TypeOK, BatchesOK
    <3>2. CASE ~CreateMeta(w)
      BY <1>3, <3>2, PlainRequest
    <3> QED BY <3>1, <3>2
  <2>3. SeenAreStored' /\ OutboxInOrder'
    BY <2>1, <2>2, OrderFrame
  <2> QED BY <1>2, <2>1, <2>2, <2>3 DEF OthersKept
<1>4. ASSUME NEW w \in Workers, Step(w) \/ Crash(w) PROVE Ordering'
  <2>1. CASE Write(w)
    <3>1. \A s \in Numbers : event[s] # NoEvent => event'[s] = event[s]
      BY <2>1, ReservingWrite
    <3> QED BY <1>2, <2>1, <3>1, TurnWrite
  <2>2. CASE Reserve(w)
    <3>1. /\ InTurn(w)' /\ UNCHANGED <<event, seen, passed>>
          /\ \A v \in Workers \ {w} : /\ pc'[v] = pc[v] /\ chunk'[v] = chunk[v] /\ rest'[v] = rest[v]
                                      /\ keep'[v] = keep[v] /\ tail'[v] = tail[v]
      BY <2>2, TurnReserve
    <3> QED BY <1>2, <3>1, OrderFrame
  <2>3. CASE Check(w)
    <3>1. /\ InTurn(w)' /\ UNCHANGED seen /\ passed \subseteq passed'
          /\ \A v \in Workers \ {w} : /\ pc'[v] = pc[v] /\ chunk'[v] = chunk[v] /\ rest'[v] = rest[v]
                                      /\ keep'[v] = keep[v] /\ tail'[v] = tail[v]
      BY <2>3, TurnCheck DEF TurnsKept
    <3>2. UNCHANGED event
      BY <2>3 DEF Check, rows
    <3> QED BY <1>2, <3>1, <3>2, OrderFrame
  <2>4. CASE ~Write(w) /\ ~Reserve(w) /\ ~Check(w)
    <3>1. pc[w] \notin RewritePlaces
      BY DEF NoRewrite
    <3>2. /\ InTurn(w)' /\ UNCHANGED <<seen, passed>>
          /\ \A v \in Workers \ {w} : rest'[v] = rest[v] /\ keep'[v] = keep[v]
      BY <1>4, <2>4, <3>1, TurnStep DEF TurnsKept
    <3>3. UNCHANGED event /\ OthersKept(w)
      BY <1>4, <2>4, <3>1, PlainStep
    <3>4. SeenAreStored' /\ OutboxInOrder'
      BY <3>2, <3>3, OrderFrame
    <3> QED BY <1>2, <3>2, <3>3, <3>4 DEF OthersKept
  <2> QED BY <2>1, <2>2, <2>3, <2>4
<1>5. CASE UNCHANGED vars
  <2>1. SeenAreStored' /\ OutboxInOrder'
    BY <1>5, OrderFrame DEF vars
  <2>2. \A v \in Workers : InTurn(v)'
    BY <1>5, TurnFrame DEF vars, TurnsKept
  <2> QED BY <1>1, <2>1, <2>2 DEF TurnsKept
<1> QED BY <1>3, <1>4, <1>5 DEF Next

\* What a device makes is numbered in the order it made it, for any number of
\* executions and any chunk, whatever is resent, cancelled or cut short: all
\* that may be missing or late is what failed both of a chunk's attempts.
THEOREM OutboxStaysInOrder ==
  ASSUME Ops \cap Rewrites = {}
  PROVE  Spec => []OutboxInOrder
<1>1. Ordering /\ [Next]_vars => Ordering'
  BY OrderingNext
<1>2. Ordering => OutboxInOrder
  BY DEF Ordering
<1> QED BY <1>1, <1>2, OrderingInit, PTL DEF Spec
=============================================================================
