-------------------------- MODULE GuildTableProofs --------------------------
(***************************************************************************)
(* Proofs about GuildTable, for any steps, questions, timers, presses and  *)
(* moves in the app.                                                       *)
(*                                                                         *)
(* The argument: the entries' numbers rise and none is past the counter,   *)
(* so a move lands only on the whole log: what it was computed from.  From *)
(* there, for any number of executions at a time: a deadline that runs has *)
(* somebody on the way to it; what an execution holds is the row there is, *)
(* but for what it did to it itself, unless the row was put meanwhile; and *)
(* what lies past what the row has seen is yet to be heard.                *)
(***************************************************************************)
EXTENDS GuildTable, FiniteSetTheorems, WellFoundedInduction, SequenceTheorems, TLAPS

\* The entries stand in the order of their numbers, and none is past the counter.
Numbered ==
  /\ Len(log) > 0
  /\ \A i, j \in 1..Len(log) : i < j => log[i].no < log[j].no
  /\ \A i \in 1..Len(log) : log[i].no <= counter

\* An undo takes back an entry before it, and no step is one the unit has not.
Backward(l)   == \A i \in 1..Len(l) : l[i].t = "undone" => l[i].void < i
KnownSteps(l) == \A i \in 1..Len(l) : l[i].t = "step" => l[i].step <= Steps

ExecType ==
  /\ place \in [Workers -> Places]
  /\ act \in [Workers -> [kind : Presses \cup {"none", "expire", "catch"}, step : 0..Close]]
  /\ held \in [Workers -> Row] /\ read \in [Workers -> Nat] /\ at \in [Workers -> 0..MaxTime]
  /\ due \in [Workers -> SUBSET Int] /\ led \in [Workers -> BOOLEAN] /\ stale \subseteq Workers
TimerType == jobs \subseteq Int /\ ran \subseteq jobs /\ missed \subseteq Int

\* What an execution is for where it stands, and what it has read of the log.
Reading(w) ==
  /\ place[w] \in {"write", "stop"} => read[w] \in 1..Len(log)
  /\ place[w] = "stop" => RanOut(Clock(AsRead(w)), now)
Acting(w) ==
  /\ place[w] \in {"bound", "play", "write", "putLead"} => act[w].kind \in Presses
  /\ place[w] \in {"expire", "stop"} => act[w].kind \in Presses \cup {"expire"}
  /\ place[w] = "job" => act[w].kind = "expire"
  /\ place[w] = "catch" => act[w].kind = "catch"

LogGood == Numbered /\ Backward(log) /\ KnownSteps(log) /\ NeverWrong
IInv    == TypeOK /\ LogGood /\ \A w \in Workers : Reading(w) /\ Acting(w)

-----------------------------------------------------------------------------
(* Numbers, and the clock as a log tells it.                               *)

LEMMA LeastNumber ==
  ASSUME NEW T, T \subseteq Nat, T # {}
  PROVE  \E x \in T : \A y \in T : x <= y
<1>1. PICK x \in T : \A y \in T : ~ (<<y, x>> \in OpToRel(<, Nat))
  BY NatLessThanWellFounded, WFMin
<1>2. ASSUME NEW y \in T PROVE x <= y
  <2>1. y \in Nat /\ x \in Nat
    OBVIOUS
  <2>2. ~ (y < x)
    BY <1>1, <2>1 DEF OpToRel
  <2> QED BY <2>1, <2>2
<1> QED BY <1>2

LEMMA LastIs ==
  ASSUME NEW n \in Nat, NEW S, S \subseteq 1..n, S # {}
  PROVE  Last(S) \in S /\ \A i \in S : i <= Last(S)
<1> DEFINE T == {n - i : i \in S}
<1>1. T \subseteq Nat /\ T # {}
  OBVIOUS
<1>2. PICK x \in T : \A y \in T : x <= y
  BY <1>1, LeastNumber
<1>3. PICK i \in S : x = n - i
  BY <1>2
<1>4. \A j \in S : j <= i
  BY <1>2, <1>3
<1> HIDE DEF T
<1> QED BY <1>3, <1>4 DEF Last

Clocks == [status : {"none", "running", "paused", "done"}, since : Int, ran : Int]

\* The rule of Clock, and a function that follows it as far as n.
NextClock(l, live, f, i) == IF i = 0 THEN NoClock ELSE IF i \in live THEN Applied(f[i - 1], l[i]) ELSE f[i - 1]
Tells(l, live, n, f) == f = [i \in 0..n |-> NextClock(l, live, f, i)]

LEMMA SomeTells ==
  ASSUME NEW l, NEW live, NEW m \in Nat
  PROVE  \E f : Tells(l, live, m, f)
<1> DEFINE Short == {n \in Nat : ~ \E f : Tells(l, live, n, f)}
<1>1. ASSUME Short # {} PROVE FALSE
  <2>1. PICK n \in Short : \A y \in Short : n <= y
    BY <1>1, LeastNumber
  <2>2. n # 0
    <3> DEFINE e == [i \in 0..0 |-> NoClock]
    <3>1. e = [i \in 0..0 |-> NextClock(l, live, e, i)]
      BY DEF NextClock
    <3>2. Tells(l, live, 0, e)
      BY <3>1 DEF Tells
    <3> QED BY <2>1, <3>2
  <2>3. n - 1 \in Nat /\ n - 1 \notin Short
    BY <2>1, <2>2
  <2>4. PICK f : Tells(l, live, n - 1, f)
    BY <2>3
  <2> DEFINE g == [i \in 0..n |-> IF i = n THEN NextClock(l, live, f, n) ELSE f[i]]
  <2>5. \A i \in 0..(n - 1) : f[i] = NextClock(l, live, f, i) /\ g[i] = f[i]
    <3>1. \A i \in 0..(n - 1) : f[i] = NextClock(l, live, f, i)
      BY <2>4, Zenon DEF Tells
    <3>2. \A i \in 0..(n - 1) : i \in 0..n /\ i # n
      BY <2>1
    <3>3. \A i \in 0..(n - 1) : g[i] = f[i]
      BY <3>2, Zenon
    <3> QED BY <3>1, <3>3
  <2>6. \A i \in 0..n : NextClock(l, live, g, i) = NextClock(l, live, f, i)
    <3>1. ASSUME NEW i \in 0..n PROVE NextClock(l, live, g, i) = NextClock(l, live, f, i)
      <4>1. i = 0 \/ i - 1 \in 0..(n - 1)
        BY <2>3
      <4> QED BY <4>1, <2>5 DEF NextClock
    <3> QED BY <3>1
  <2>7. \A i \in 0..n : g[i] = NextClock(l, live, g, i)
    <3>1. ASSUME NEW i \in 0..n PROVE g[i] = NextClock(l, live, f, i)
      <4>1. CASE i = n
        BY <4>1, Zenon
      <4>2. CASE i # n
        <5>1. i \in 0..(n - 1)
          BY <2>1, <4>2
        <5> QED BY <5>1, <2>5
      <4> QED BY <4>1, <4>2
    <3> QED BY <3>1, <2>6
  <2>8. g = [i \in 0..n |-> NextClock(l, live, g, i)]
    BY <2>7
  <2>9. Tells(l, live, n, g)
    BY <2>8 DEF Tells
  <2> QED BY <2>1, <2>9
<1> QED BY <1>1

LEMMA ClockIs ==
  ASSUME NEW l, Len(l) \in Nat
  PROVE  \E f : Tells(l, Live(l), Len(l), f) /\ Clock(l) = f[Len(l)]
<1> DEFINE upTo == CHOOSE f : f = [i \in 0..Len(l) |-> IF i = 0 THEN NoClock
                       ELSE IF i \in Live(l) THEN Applied(f[i - 1], l[i]) ELSE f[i - 1]]
<1>1. Clock(l) = upTo[Len(l)]
  BY DEF Clock
<1>2. \E f : f = [i \in 0..Len(l) |-> IF i = 0 THEN NoClock
                       ELSE IF i \in Live(l) THEN Applied(f[i - 1], l[i]) ELSE f[i - 1]]
  <2>1. PICK f : Tells(l, Live(l), Len(l), f)
    BY SomeTells
  <2>2. f = [i \in 0..Len(l) |-> IF i = 0 THEN NoClock
                       ELSE IF i \in Live(l) THEN Applied(f[i - 1], l[i]) ELSE f[i - 1]]
    BY <2>1, Zenon DEF Tells, NextClock
  <2> QED BY <2>2, Zenon
<1>3. upTo = [i \in 0..Len(l) |-> IF i = 0 THEN NoClock
                       ELSE IF i \in Live(l) THEN Applied(upTo[i - 1], l[i]) ELSE upTo[i - 1]]
  BY <1>2
<1>4. Tells(l, Live(l), Len(l), upTo)
  BY <1>3 DEF Tells, NextClock
<1> QED BY <1>1, <1>4

LEMMA AppliedType ==
  ASSUME NEW c \in Clocks, NEW e \in Entry
  PROVE  Applied(c, e) \in Clocks
<1>1. e.at \in Int /\ c.ran \in Int /\ c.since \in Int
  BY DEF Entry, Clocks
<1>2. Ran(c, e.at) \in Int
  BY <1>1 DEF Ran
<1> DEFINE r == Ran(c, e.at)
<1> HIDE DEF r
<1>3. /\ [status |-> "running", since |-> e.at, ran |-> 0] \in Clocks
      /\ [status |-> "paused", since |-> 0, ran |-> r] \in Clocks
      /\ [c EXCEPT !.status = "running", !.since = e.at] \in Clocks
      /\ [NoClock EXCEPT !.status = "done"] \in Clocks
  <2>1. [status |-> "running", since |-> e.at, ran |-> 0] \in Clocks
    BY <1>1 DEF Clocks
  <2>2. [status |-> "paused", since |-> 0, ran |-> r] \in Clocks
    BY <1>2 DEF Clocks, r
  <2>3. [c EXCEPT !.status = "running", !.since = e.at] \in Clocks
    BY <1>1 DEF Clocks
  <2>4. [NoClock EXCEPT !.status = "done"] \in Clocks
    BY DEF Clocks, NoClock
  <2> QED BY <2>1, <2>2, <2>3, <2>4
<1>4. Applied(c, e) \in {c, [status |-> "running", since |-> e.at, ran |-> 0], [status |-> "paused", since |-> 0, ran |-> r],
                         [c EXCEPT !.status = "running", !.since = e.at], [NoClock EXCEPT !.status = "done"]}
  BY DEF Applied, r
<1> QED BY <1>3, <1>4

\* Only what an entry is and when it was made matters to the clock.
LEMMA AppliedSame ==
  ASSUME NEW c, NEW d, NEW e, d.t = e.t, d.at = e.at
  PROVE  Applied(c, d) = Applied(c, e)
BY DEF Applied

\* Two logs that agree as far as n are told alike as far as n.
LEMMA TellsAlike ==
  ASSUME NEW l, NEW k, NEW a, NEW b, NEW n \in Nat, NEW m \in Nat, n <= m,
         NEW f, NEW g, Tells(l, a, n, f), Tells(k, b, m, g),
         \A i \in 1..n : (i \in a <=> i \in b) /\ l[i].t = k[i].t /\ l[i].at = k[i].at
  PROVE  f[n] = g[n]
<1> DEFINE Wrong == {i \in Nat : i <= n /\ f[i] # g[i]}
<1>1. ASSUME Wrong # {} PROVE FALSE
  <2>1. PICK i \in Wrong : \A y \in Wrong : i <= y
    BY <1>1, LeastNumber
  <2>2. f[i] = NextClock(l, a, f, i) /\ g[i] = NextClock(k, b, g, i)
    <3>1. i \in 0..n /\ i \in 0..m
      BY <2>1
    <3> QED BY <3>1, Zenon DEF Tells
  <2>3. i # 0
    BY <2>1, <2>2 DEF NextClock
  <2>4. i - 1 \in Nat /\ i - 1 \notin Wrong /\ i \in 1..n
    BY <2>1, <2>3
  <2>5. f[i - 1] = g[i - 1]
    BY <2>4
  <2>6. Applied(f[i - 1], l[i]) = Applied(g[i - 1], k[i])
    BY <2>4, <2>5, AppliedSame
  <2> QED BY <2>1, <2>2, <2>3, <2>4, <2>5, <2>6 DEF NextClock
<1> QED BY <1>1

LEMMA ClockType == ASSUME NEW l \in Seq(Entry) PROVE Clock(l) \in Clocks
<1>1. PICK f : Tells(l, Live(l), Len(l), f) /\ Clock(l) = f[Len(l)]
  BY ClockIs
<1> DEFINE Wrong == {i \in Nat : i <= Len(l) /\ f[i] \notin Clocks}
<1>2. ASSUME Wrong # {} PROVE FALSE
  <2>1. PICK i \in Wrong : \A y \in Wrong : i <= y
    BY <1>2, LeastNumber
  <2>2. f[i] = NextClock(l, Live(l), f, i)
    <3>1. i \in 0..Len(l)
      BY <2>1
    <3> QED BY <1>1, <3>1, Zenon DEF Tells
  <2>3. i # 0
    <3>1. NoClock \in Clocks
      BY DEF NoClock, Clocks
    <3> QED BY <2>1, <2>2, <3>1 DEF NextClock
  <2>4. i - 1 \in Nat /\ i - 1 \notin Wrong /\ i \in 1..Len(l)
    BY <2>1, <2>3
  <2>5. f[i - 1] \in Clocks /\ l[i] \in Entry
    BY <2>4
  <2>6. Applied(f[i - 1], l[i]) \in Clocks
    BY <2>5, AppliedType
  <2> QED BY <2>1, <2>2, <2>3, <2>5, <2>6 DEF NextClock
<1>3. Len(l) \in Nat /\ Len(l) \notin Wrong
  BY <1>2
<1> QED BY <1>1, <1>3

\* A log that differs in the numbers of its entries only tells the same clock.
LEMMA ClockSame ==
  ASSUME NEW l, NEW k, Len(l) \in Nat, Len(l) = Len(k),
         \A i \in 1..Len(l) : l[i].t = k[i].t /\ l[i].at = k[i].at /\ l[i].void = k[i].void
  PROVE  Clock(l) = Clock(k)
<1>1. PICK f : Tells(l, Live(l), Len(l), f) /\ Clock(l) = f[Len(l)]
  BY ClockIs
<1>2. PICK g : Tells(k, Live(k), Len(k), g) /\ Clock(k) = g[Len(k)]
  BY ClockIs
<1>3. Live(l) = Live(k)
  BY DEF Live
<1> QED BY <1>1, <1>2, <1>3, TellsAlike

LEMMA LiveAppend ==
  ASSUME NEW l \in Seq(Entry), NEW e \in Entry, Backward(l), e.t # "undone"
  PROVE  Live(Append(l, e)) = Live(l) \cup {Len(l) + 1}
<1> DEFINE k == Append(l, e)
<1>1. Len(k) = Len(l) + 1 /\ k[Len(l) + 1] = e /\ \A i \in 1..Len(l) : k[i] = l[i]
  OBVIOUS
<1>2. 1..Len(k) = 1..Len(l) \cup {Len(l) + 1}
  BY <1>1
<1>3. \A i \in 1..Len(l) : l[i].t = "undone" => l[i].void # Len(l) + 1
  <2>1. \A i \in 1..Len(l) : l[i] \in Entry
    OBVIOUS
  <2>2. \A i \in 1..Len(l) : l[i].void \in Nat
    BY <2>1 DEF Entry
  <2> QED BY <2>2 DEF Backward
<1> HIDE DEF k
<1>4. \A i \in 1..Len(l) : i \in Live(k) <=> i \in Live(l)
  BY <1>1, <1>2 DEF Live
<1>5. Len(l) + 1 \in Live(k)
  BY <1>1, <1>2, <1>3 DEF Live
<1>6. Live(k) \subseteq 1..Len(k) /\ Live(l) \subseteq 1..Len(l)
  BY DEF Live
<1>7. Live(k) = Live(l) \cup {Len(l) + 1}
  BY <1>2, <1>4, <1>5, <1>6
<1> QED BY <1>7 DEF k

LEMMA ClockAppend ==
  ASSUME NEW l \in Seq(Entry), NEW e \in Entry, Backward(l), e.t # "undone"
  PROVE  Clock(Append(l, e)) = Applied(Clock(l), e)
<1> DEFINE k == Append(l, e)
           n == Len(l)
<1>1. n \in Nat /\ Len(k) = n + 1 /\ k[n + 1] = e /\ \A i \in 1..n : k[i] = l[i]
  OBVIOUS
<1>2. Live(k) = Live(l) \cup {n + 1}
  BY LiveAppend
<1> HIDE DEF k
<1>3. PICK f : Tells(l, Live(l), Len(l), f) /\ Clock(l) = f[n]
  BY <1>1, ClockIs
<1>4. PICK g : Tells(k, Live(k), Len(k), g) /\ Clock(k) = g[n + 1]
  BY <1>1, ClockIs
<1>5. f[n] = g[n]
  <2>1. \A i \in 1..n : (i \in Live(l) <=> i \in Live(k)) /\ l[i].t = k[i].t /\ l[i].at = k[i].at
    BY <1>1, <1>2
  <2>2. n <= Len(k) /\ Len(k) \in Nat
    BY <1>1
  <2> HIDE DEF n
  <2> QED BY <1>1, <1>3, <1>4, <2>1, <2>2, TellsAlike DEF n
<1>6. g[n + 1] = NextClock(k, Live(k), g, n + 1)
  <2>1. n + 1 \in 0..Len(k)
    BY <1>1
  <2> QED BY <1>4, <2>1, Zenon DEF Tells
<1>7. g[n + 1] = Applied(g[n], e)
  <2>1. n + 1 # 0 /\ n + 1 \in Live(k) /\ (n + 1) - 1 = n
    BY <1>1, <1>2
  <2> QED BY <1>1, <1>6, <2>1 DEF NextClock
<1>8. Clock(k) = Applied(Clock(l), e)
  BY <1>3, <1>4, <1>5, <1>7
<1> QED BY <1>8 DEF k

-----------------------------------------------------------------------------
(* Steps, and a move that lands.                                           *)

LEMMA CurrentType ==
  ASSUME NEW l \in Seq(Entry), KnownSteps(l)
  PROVE  Current(l) \in 0..Close
<1>1. Steps \in Nat /\ Close \in 1..Close /\ Close = Steps + 1
  BY TableAssumption DEF Close
<1>2. \A s \in Done(l) : s \in Nat /\ s <= Steps
  <2>1. \A i \in 1..Len(l) : l[i] \in Entry
    OBVIOUS
  <2>2. \A i \in 1..Len(l) : l[i].step \in 0..Close
    BY <2>1 DEF Entry
  <2> QED BY <1>1, <2>2 DEF Done, Live, KnownSteps
<1> DEFINE T == {s \in Nat : s \in 1..Close /\ s \notin Done(l)}
<1>3. Close \in T
  BY <1>1, <1>2
<1>4. PICK s \in T : \A y \in T : s <= y
  BY <1>3, LeastNumber
<1>5. 1..(s - 1) \subseteq Done(l)
  <2>1. ASSUME NEW y \in 1..(s - 1) PROVE y \in Done(l)
    <3>1. y \in Nat /\ y \in 1..Close /\ ~ (s <= y)
      BY <1>1, <1>4, <2>1
    <3> QED BY <1>4, <3>1
  <2> QED BY <2>1
<1>6. (CHOOSE x \in 1..Close : x \notin Done(l) /\ 1..(x - 1) \subseteq Done(l)) \in 1..Close
  BY <1>4, <1>5
<1> QED BY <1>1, <1>6 DEF Current

LEMMA Fields ==
  ASSUME IInv
  PROVE  /\ log \in Seq(Entry) /\ counter \in Nat /\ Len(log) \in Nat
         /\ \A i \in 1..Len(log) : /\ log[i] \in Entry /\ log[i].no \in Nat /\ log[i].step \in 0..Close
                                   /\ log[i].at \in Int /\ log[i].move \in Nat /\ log[i].void \in Nat
<1>1. log \in Seq(Entry) /\ counter \in Nat
  BY DEF IInv, TypeOK
<1>2. \A i \in 1..Len(log) : log[i] \in Entry
  BY <1>1
<1> QED BY <1>1, <1>2, SMTT(60) DEF Entry

\* Any part of the log, from its start, is a log.
LEMMA PartOf ==
  ASSUME IInv, NEW n \in 0..Len(log)
  PROVE  /\ SubSeq(log, 1, n) \in Seq(Entry) /\ Len(SubSeq(log, 1, n)) = n
         /\ \A i \in 1..n : SubSeq(log, 1, n)[i] = log[i]
         /\ Backward(SubSeq(log, 1, n)) /\ KnownSteps(SubSeq(log, 1, n))
<1> DEFINE l == SubSeq(log, 1, n)
<1>1. l \in Seq(Entry) /\ Len(l) = n /\ \A i \in 1..n : l[i] = log[i]
  BY Fields
<1>2. n <= Len(log) /\ n \in Nat
  BY Fields
<1> HIDE DEF l
<1>3. Backward(l) /\ KnownSteps(l)
  <2>1. Backward(log) /\ KnownSteps(log)
    BY DEF IInv, LogGood
  <2>2. \A i \in 1..n : i \in 1..Len(log)
    BY <1>2, Fields
  <2> QED BY <1>1, <2>1, <2>2 DEF Backward, KnownSteps
<1> QED BY <1>1, <1>3 DEF l

\* A move lands only on the whole log.
LEMMA OntoAll ==
  ASSUME IInv, NEW w \in Workers, read[w] \in 1..Len(log), Onto(AsRead(w))
  PROVE  AsRead(w) = log /\ read[w] = Len(log) /\ log[Len(log)].no = counter
<1>1. Len(AsRead(w)) = read[w] /\ AsRead(w)[read[w]] = log[read[w]]
  BY Fields, PartOf DEF AsRead
<1>2. log[read[w]].no = counter
  BY <1>1 DEF Onto
<1>3. ASSUME read[w] # Len(log) PROVE FALSE
  <2>1. read[w] < Len(log) /\ Len(log) \in 1..Len(log)
    BY <1>3, Fields
  <2>2. log[read[w]].no < log[Len(log)].no /\ log[Len(log)].no <= counter
    BY <2>1 DEF IInv, LogGood, Numbered
  <2> QED BY <1>2, <2>1, <2>2, Fields
<1>4. SubSeq(log, 1, Len(log)) = log
  BY Fields
<1> QED BY <1>2, <1>3, <1>4 DEF AsRead

\* An entry that may follow the log as it is.
Follows(e) ==
  /\ e \in Entry /\ e.no = counter + 1
  /\ e.t = "undone" => e.void <= Len(log)
  /\ e.t = "step" => e.step <= Steps
  /\ e.t = "stop" /\ e.by = "bot" => Deadline(Clock(log)) = {e.at} /\ e.at <= now
Appends(e) == Follows(e) /\ log' = Append(log, e) /\ counter' = counter + 1
LogGoes ==
  \/ UNCHANGED session
  \/ log' = log /\ counter' = counter + 1
  \/ \E e : Appends(e)

LEMMA LogStays ==
  ASSUME IInv, LogGoes
  PROVE  /\ log' \in Seq(Entry) /\ counter' \in Nat /\ counter <= counter'
         /\ Len(log') \in Nat /\ Len(log) <= Len(log') /\ \A i \in 1..Len(log) : log'[i] = log[i]
         /\ \A n \in 0..Len(log) : SubSeq(log', 1, n) = SubSeq(log, 1, n)
<1>1. CASE log' = log /\ counter' \in {counter, counter + 1}
  BY <1>1, Fields
<1>2. ASSUME NEW e, Appends(e) PROVE log' \in Seq(Entry) /\ Len(log') = Len(log) + 1 /\ counter' = counter + 1
                                     /\ \A i \in 1..Len(log) : log'[i] = log[i]
  BY <1>2, Fields DEF Appends, Follows
<1>3. ASSUME NEW e, Appends(e), NEW n \in 0..Len(log) PROVE SubSeq(log', 1, n) = SubSeq(log, 1, n)
  <2>1. \A i \in 1..n : log'[i] = log[i]
    BY <1>2, <1>3, Fields
  <2> QED BY <1>2, <1>3, <2>1, Fields
<1> QED BY <1>1, <1>2, <1>3, Fields DEF LogGoes, session

LEMMA LogGoodStays ==
  ASSUME IInv, LogGoes, now' \in Nat, now <= now'
  PROVE  LogGood'
<1>1. CASE log' = log /\ counter' \in {counter, counter + 1}
  <2>1. Numbered'
    BY <1>1, Fields DEF IInv, LogGood, Numbered
  <2>2. now \in Nat
    BY TableAssumption DEF IInv, TypeOK
  <2>3. NeverWrong'
    <3>1. \A i \in 1..Len(log) : log[i].at <= now => log[i].at <= now'
      BY <2>2, Fields
    <3> QED BY <1>1, <3>1 DEF IInv, LogGood, NeverWrong
  <2> QED BY <1>1, <2>1, <2>3 DEF IInv, LogGood, Backward, KnownSteps
<1>2. ASSUME NEW e, Appends(e) PROVE LogGood'
  <2>1. /\ Len(log') = Len(log) + 1 /\ log'[Len(log) + 1] = e
        /\ \A i \in 1..Len(log) : log'[i] = log[i]
        /\ counter' = counter + 1 /\ e.no = counter + 1 /\ e \in Entry
    BY <1>2, Fields DEF Appends, Follows
  <2>2. \A i \in 1..Len(log') : i \in 1..Len(log) \/ i = Len(log) + 1
    BY <2>1, Fields
  <2>3. Numbered'
    <3>1. Numbered
      BY DEF IInv, LogGood
    <3>2. \A i \in 1..Len(log) : log'[i].no \in Nat /\ log'[i].no <= counter
      BY <2>1, <3>1, Fields DEF Numbered
    <3>3. log'[Len(log) + 1].no = counter + 1
      BY <2>1
    <3>4. \A i, j \in 1..Len(log') : i < j => log'[i].no < log'[j].no
      <4>1. ASSUME NEW i \in 1..Len(log'), NEW j \in 1..Len(log'), i < j PROVE log'[i].no < log'[j].no
        <5>1. i \in 1..Len(log)
          BY <2>1, <4>1, Fields
        <5>2. CASE j \in 1..Len(log)
          BY <2>1, <3>1, <4>1, <5>1, <5>2 DEF Numbered
        <5>3. CASE j = Len(log) + 1
          BY <3>2, <3>3, <5>1, <5>3, Fields
        <5> QED BY <2>2, <5>2, <5>3
      <4> QED BY <4>1
    <3>5. \A i \in 1..Len(log') : log'[i].no <= counter'
      BY <2>1, <2>2, <3>2, <3>3, Fields
    <3> QED BY <2>1, <3>4, <3>5, Fields DEF Numbered
  <2>4. Backward(log)'
    <3>1. e.t = "undone" => e.void < Len(log) + 1
      BY <1>2, Fields DEF Appends, Follows, Entry
    <3> QED BY <2>1, <2>2, <3>1 DEF IInv, LogGood, Backward
  <2>5. KnownSteps(log)'
    BY <1>2, <2>1, <2>2 DEF IInv, LogGood, KnownSteps, Appends, Follows
  <2>6. NeverWrong'
    <3>1. SubSeq(log', 1, Len(log)) = log /\ \A i \in 1..Len(log) : SubSeq(log', 1, i - 1) = SubSeq(log, 1, i - 1)
      <4>1. \A i \in 1..Len(log) : i - 1 \in 0..Len(log)
        BY Fields
      <4>2. SubSeq(log, 1, Len(log)) = log /\ Len(log) \in 0..Len(log)
        BY Fields
      <4>3. LogGoes
        BY <1>2 DEF LogGoes
      <4> QED BY <4>1, <4>2, <4>3, LogStays
    <3>3. now \in Nat
      BY TableAssumption DEF IInv, TypeOK
    <3>2. ASSUME NEW i \in 1..Len(log'), log'[i].t = "stop", log'[i].by = "bot"
          PROVE  Deadline(Clock(SubSeq(log', 1, i - 1))) = {log'[i].at} /\ log'[i].at <= now'
      <4>1. CASE i \in 1..Len(log)
        <5>1. Deadline(Clock(SubSeq(log', 1, i - 1))) = {log'[i].at} /\ log[i].at <= now /\ log'[i] = log[i]
          BY <2>1, <3>1, <3>2, <4>1 DEF IInv, LogGood, NeverWrong
        <5> QED BY <4>1, <5>1, <3>3, Fields
      <4>2. CASE i = Len(log) + 1
        <5>1. i - 1 = Len(log)
          BY <4>2, Fields
        <5>2. Deadline(Clock(SubSeq(log', 1, i - 1))) = {log'[i].at} /\ e.at <= now /\ log'[i] = e
          BY <1>2, <2>1, <3>1, <3>2, <4>2, <5>1 DEF Appends, Follows
        <5>3. e.at \in Int
          BY <2>1 DEF Entry
        <5> QED BY <5>2, <5>3, <3>3
      <4> QED BY <2>2, <4>1, <4>2
    <3> QED BY <3>2 DEF NeverWrong
  <2> QED BY <2>3, <2>4, <2>5, <2>6 DEF LogGood
<1> QED BY <1>1, <1>2 DEF LogGoes, session

\* An execution that stands where it stood still has read what it had, and is for what it was.
LEMMA OthersStand ==
  ASSUME IInv, LogGoes, NEW v \in Workers, now' \in Nat, now <= now',
         place'[v] = place[v], act'[v] = act[v], read'[v] = read[v]
  PROVE  (Reading(v) /\ Acting(v))'
<1>1. Acting(v)'
  BY DEF IInv, Acting
<1>2. CASE place[v] \in {"write", "stop"}
  <2>1. read[v] \in 1..Len(log) /\ read[v] \in 1..Len(log')
    BY <1>2, Fields, LogStays DEF IInv, Reading
  <2>2. AsRead(v)' = AsRead(v)
    <3>1. read[v] \in 0..Len(log)
      BY <2>1
    <3> QED BY <3>1, LogStays DEF AsRead
  <2>3. place[v] = "stop" => RanOut(Clock(AsRead(v)), now')
    <3> SUFFICES ASSUME place[v] = "stop" PROVE RanOut(Clock(AsRead(v)), now')
      OBVIOUS
    <3> DEFINE c == Clock(AsRead(v))
    <3>1. c \in Clocks
      <4>1. read[v] \in 0..Len(log)
        BY <2>1
      <4> QED BY <4>1, PartOf, ClockType DEF AsRead
    <3>2. RanOut(c, now) /\ now \in Nat
      BY TableAssumption DEF IInv, Reading, TypeOK
    <3> HIDE DEF c
    <3>3. RunsOut(c) \in Int
      BY <3>1, TableAssumption DEF Clocks, RunsOut
    <3>4. RanOut(c, now')
      BY <3>2, <3>3 DEF RanOut
    <3> QED BY <3>4 DEF c
  <2> QED BY <1>1, <2>1, <2>2, <2>3 DEF Reading
<1> QED BY <1>1, <1>2 DEF Reading

-----------------------------------------------------------------------------
(* What the steps of an execution leave.                                   *)

LEMMA RowFields ==
  ASSUME NEW r \in Row
  PROVE  /\ r.pending \in Ask /\ r.seen \in Nat /\ r.ended \in BOOLEAN
         /\ r.pending.step \in 0..Steps /\ r.pending.move \in Nat /\ r.pending.answered \in 0..(Questions - 1)
BY DEF Row, Ask

LEMMA NoRowType == NoRow \in Row /\ NoAsk \in Ask
<1>1. NoAsk \in Ask
  BY TableAssumption DEF NoAsk, Ask
<1> QED BY <1>1 DEF NoRow, Row

LEMMA ActsAs ==
  ASSUME IInv, NEW w \in Workers
  PROVE  /\ act[w] \in [kind : Presses \cup {"none", "expire", "catch"}, step : 0..Close]
         /\ act[w].kind \in Presses \cup {"none", "expire", "catch"} /\ held[w] \in Row
         /\ read[w] \in Nat /\ at[w] \in 0..MaxTime /\ due[w] \in SUBSET Int /\ place[w] \in Places
BY DEF IInv, TypeOK

\* What an execution leaves alone of the others, and of its own.
Alone(w) == \A v \in Workers \ {w} : /\ place'[v] = place[v] /\ act'[v] = act[v] /\ read'[v] = read[v]
                                     /\ held'[v] = held[v] /\ due'[v] = due[v]

\* The invariant again, when the log goes on and one execution does.
LEMMA Together ==
  ASSUME IInv, LogGoes, NEW w \in Workers, Alone(w), ExecType', (Reading(w) /\ Acting(w))',
         row' \in Row, TimerType', calls' \in Nat, now' = now,
         begun' \in Nat, played' = played, told' \subseteq 1..Len(log'), died' \in BOOLEAN
  PROVE  IInv'
<1>1. LogGood'
  <2>1. now \in Nat /\ now <= now'
    BY TableAssumption DEF IInv, TypeOK
  <2> QED BY <2>1, LogGoodStays
<1>2. now \in Nat /\ now \in 0..MaxTime /\ played \in 0..MaxApp
  BY TableAssumption DEF IInv, TypeOK
<1>3. \A v \in Workers : (Reading(v) /\ Acting(v))'
  <2>1. ASSUME NEW v \in Workers \ {w} PROVE (Reading(v) /\ Acting(v))'
    BY <1>2, OthersStand DEF Alone
  <2> QED BY <2>1
<1>4. TypeOK'
  BY <1>2, LogStays DEF TypeOK, ExecType, TimerType
<1> QED BY <1>1, <1>3, <1>4 DEF IInv

LEMMA DeadlineType == ASSUME NEW l \in Seq(Entry) PROVE Deadline(Clock(l)) \subseteq Int
<1> DEFINE c == Clock(l)
<1>1. c \in Clocks
  BY ClockType
<1> HIDE DEF c
<1>2. Deadline(c) \subseteq Int
  BY <1>1, TableAssumption DEF Clocks, Deadline, RunsOut
<1> QED BY <1>2 DEF c

LEMMA TimersStay ==
  ASSUME IInv
  PROVE  /\ TimerType /\ (UNCHANGED timers => TimerType')
         /\ \A ds \in SUBSET Int : Schedule(ds) => TimerType'
         /\ \A cond \in BOOLEAN : UNCHANGED <<jobs, ran>> /\ Forsake(cond) => TimerType'
<1>1. TimerType
  BY DEF IInv, TypeOK, TimerType
<1>2. Deadline(Clock(log)) \subseteq Int
  BY Fields, DeadlineType
<1>3. UNCHANGED timers => TimerType'
  BY <1>1 DEF timers, TimerType
<1>4. \A ds \in SUBSET Int : Schedule(ds) => TimerType'
  BY <1>1 DEF Schedule, TimerType
<1>5. \A cond \in BOOLEAN : UNCHANGED <<jobs, ran>> /\ Forsake(cond) => TimerType'
  BY <1>1, <1>2 DEF Forsake, TimerType
<1> QED BY <1>1, <1>3, <1>4, <1>5

\* An execution that ends, or begins.
LEMMA RestLeaves ==
  ASSUME IInv, NEW w \in Workers, Rest(w), stale' \subseteq Workers
  PROVE  Alone(w) /\ ExecType' /\ (Reading(w) /\ Acting(w))'
<1>1. NoAct \in [kind : Presses \cup {"none", "expire", "catch"}, step : 0..Close]
  BY TableAssumption DEF NoAct, Close
<1>2. ExecType'
  BY <1>1, NoRowType, TableAssumption DEF IInv, TypeOK, ExecType, Rest, Go, Places
<1>3. place'[w] = "idle" /\ Alone(w)
  BY DEF IInv, TypeOK, Rest, Go, Alone
<1> QED BY <1>2, <1>3 DEF Reading, Acting

LEMMA StopLeaves ==
  ASSUME IInv, NEW w \in Workers, Stop(w)
  PROVE  Alone(w) /\ ExecType' /\ (Reading(w) /\ Acting(w))'
<1>1. Rest(w) /\ stale' \subseteq Workers
  BY DEF Stop, IInv, TypeOK
<1> QED BY <1>1, RestLeaves

LEMMA GoLeaves ==
  ASSUME IInv, NEW w \in Workers, NEW where \in Places, Go(w, where), Stay, where \notin {"write", "stop"},
         where \in {"bound", "play", "putLead"} => act[w].kind \in Presses,
         where = "expire" => act[w].kind \in Presses \cup {"expire"},
         where = "job" => act[w].kind = "expire", where = "catch" => act[w].kind = "catch"
  PROVE  Alone(w) /\ ExecType' /\ (Reading(w) /\ Acting(w))'
<1>1. ExecType' /\ place'[w] = where /\ Alone(w) /\ act'[w] = act[w]
  BY DEF IInv, TypeOK, ExecType, Go, Stay, Alone
<1> QED BY <1>1 DEF Reading, Acting

LEMMA BeginLeaves ==
  ASSUME IInv, NEW w \in Workers, NEW a \in [kind : Presses \cup {"expire", "catch"}, step : 0..Close],
         NEW where \in {"bound", "play", "job", "catch"}, Begin(w, a, where),
         where \in {"bound", "play"} => a.kind \in Presses,
         where = "job" => a.kind = "expire", where = "catch" => a.kind = "catch"
  PROVE  Alone(w) /\ ExecType' /\ (Reading(w) /\ Acting(w))'
<1>1. CASE row.ended
  <2>1. UNCHANGED exec
    BY <1>1 DEF Begin
  <2>2. place[w] = "idle"
    BY DEF Begin
  <2> QED BY <2>1, <2>2 DEF IInv, TypeOK, ExecType, exec, Alone, Reading, Acting
<1>2. CASE ~row.ended
  <2>1. a \in [kind : Presses \cup {"none", "expire", "catch"}, step : 0..Close] /\ where \in Places
    BY DEF Places
  <2> DEFINE Acts == [kind : Presses \cup {"none", "expire", "catch"}, step : 0..Close]
  <2>2. /\ place' = [place EXCEPT ![w] = where] /\ act' = [act EXCEPT ![w] = a] /\ held' = [held EXCEPT ![w] = row]
        /\ UNCHANGED <<read, at, due, led, stale>>
    BY <1>2 DEF Begin, Go
  <2>3. /\ place \in [Workers -> Places] /\ act \in [Workers -> Acts] /\ held \in [Workers -> Row] /\ row \in Row
        /\ read \in [Workers -> Nat] /\ at \in [Workers -> 0..MaxTime] /\ due \in [Workers -> SUBSET Int]
        /\ led \in [Workers -> BOOLEAN] /\ stale \subseteq Workers
    BY DEF IInv, TypeOK
  <2>4. a \in Acts
    BY <2>1
  <2> HIDE DEF Acts
  <2>5. place' \in [Workers -> Places] /\ act' \in [Workers -> Acts] /\ held' \in [Workers -> Row]
    BY <2>1, <2>2, <2>3, <2>4
  <2>6. place'[w] = where /\ act'[w] = a /\ Alone(w)
    BY <2>2, <2>3 DEF Alone
  <2>7. ExecType' /\ place'[w] = where /\ act'[w] = a /\ Alone(w)
    BY <2>2, <2>3, <2>5, <2>6 DEF ExecType, Acts
  <2> QED BY <2>7 DEF Reading, Acting
<1> QED BY <1>1, <1>2

\* A move that lands, or is refused.
LEMMA LandLeaves ==
  ASSUME IInv, NEW w \in Workers, NEW e \in Entry, NEW next \in Row, NEW onward \in {"put", "putLead"},
         place[w] \in {"write", "stop"}, onward = "putLead" => act[w].kind \in Presses,
         Onto(AsRead(w)) => Follows([e EXCEPT !.no = counter + 1]), UNCHANGED <<jobs, ran>>,
         Land(w, e, next, onward)
  PROVE  /\ Alone(w) /\ ExecType' /\ (Reading(w) /\ Acting(w))' /\ LogGoes /\ TimerType'
<1>1. CASE Onto(AsRead(w))
  <2> DEFINE f == [e EXCEPT !.no = counter + 1]
             r == [next EXCEPT !.seen = counter + 1]
             d == IF next.ended THEN {} ELSE NewDeadline(Clock(AsRead(w)), Clock(Append(AsRead(w), e)))
  <2>1. read[w] \in 1..Len(log)
    BY DEF IInv, Reading
  <2>2. AsRead(w) = log
    BY <1>1, <2>1, OntoAll
  <2>3. d \subseteq Int
    <3>1. Append(AsRead(w), e) \in Seq(Entry)
      BY <2>2, Fields
    <3> QED BY <3>1, DeadlineType DEF NewDeadline
  <2>4. r \in Row
    BY Fields DEF Row
  <2> HIDE DEF f, r, d
  <2>5. /\ log' = Append(log, f) /\ counter' = counter + 1 /\ held' = [held EXCEPT ![w] = r]
        /\ due' = [due EXCEPT ![w] = d] /\ Go(w, onward) /\ UNCHANGED <<act, read, at, led, stale, missed>>
    BY <1>1 DEF Land, f, r, d
  <2>6. LogGoes
    BY <1>1, <2>5 DEF LogGoes, Appends, f
  <2>7. ExecType' /\ place'[w] = onward /\ Alone(w)
    BY <2>3, <2>4, <2>5 DEF IInv, TypeOK, ExecType, Go, Alone, Places
  <2>8. TimerType'
    BY <2>5, TimersStay DEF timers
  <2> QED BY <2>5, <2>6, <2>7, <2>8 DEF Reading, Acting
<1>2. CASE ~Onto(AsRead(w))
  <2>1. Stop(w) /\ Forsake(act[w].kind = "expire") /\ LogGoes
    BY <1>2 DEF Land, LogGoes
  <2> QED BY <2>1, StopLeaves, TimersStay
<1> QED BY <1>1, <1>2

-----------------------------------------------------------------------------
(* Each action.                                                            *)

LEMMA Plain ==
  ASSUME IInv
  PROVE  /\ row \in Row /\ TimerType /\ calls \in Nat /\ now \in 0..MaxTime /\ now \in Nat /\ begun \in Nat
         /\ played \in 0..MaxApp /\ told \subseteq 1..Len(log) /\ died \in BOOLEAN
         /\ (UNCHANGED timers => TimerType')
BY TableAssumption, TimersStay DEF IInv, TypeOK

LEMMA PressKeeps ==
  ASSUME IInv, NEW w \in Workers, NEW kind \in Presses, Press(w, kind)
  PROVE  IInv'
<1>1. PICK s \in (IF kind \in Named THEN Drawn ELSE {0}) :
             Begin(w, [kind |-> kind, step |-> s], IF kind \in Named THEN "bound" ELSE "play")
  BY DEF Press
<1>2. s \in 0..Close
  <2>1. \A n \in 1..Len(log) : Current(SubSeq(log, 1, n)) \in 0..Close
    <3>1. ASSUME NEW n \in 1..Len(log) PROVE Current(SubSeq(log, 1, n)) \in 0..Close
      <4>1. n \in 0..Len(log)
        OBVIOUS
      <4> QED BY <4>1, PartOf, CurrentType
    <3> QED BY <3>1
  <2> QED BY <1>1, <2>1, TableAssumption DEF Drawn, Close
<1> DEFINE a == [kind |-> kind, step |-> s]
           where == IF kind \in Named THEN "bound" ELSE "play"
<1>3. a \in [kind : Presses \cup {"expire", "catch"}, step : 0..Close] /\ a.kind \in Presses /\ where \in {"bound", "play"}
  BY <1>2
<1>4. Begin(w, a, where)
  BY <1>1
<1> HIDE DEF a, where
<1>5. Alone(w) /\ ExecType' /\ (Reading(w) /\ Acting(w))'
  BY <1>3, <1>4, BeginLeaves
<1>6. LogGoes
  BY DEF Press, LogGoes
<1> QED BY <1>5, <1>6, Plain, Together DEF Press, session, bounds

LEMMA FireKeeps == ASSUME IInv, NEW w \in Workers, Fire(w) PROVE IInv'
<1> DEFINE a == [kind |-> "expire", step |-> 0]
<1>1. a \in [kind : Presses \cup {"expire", "catch"}, step : 0..Close] /\ a.kind = "expire"
  BY TableAssumption DEF Close
<1>2. Begin(w, a, "job")
  BY DEF Fire
<1> HIDE DEF a
<1>3. Alone(w) /\ ExecType' /\ (Reading(w) /\ Acting(w))'
  BY <1>1, <1>2, BeginLeaves
<1>4. LogGoes /\ TimerType'
  <2>1. PICK d \in jobs \ ran : ran' = ran \cup {d}
    BY DEF Fire
  <2>2. Deadline(Clock(log)) \subseteq Int
    BY Fields, DeadlineType
  <2> QED BY <2>1, <2>2, Plain DEF Fire, Forsake, LogGoes, TimerType
<1> QED BY <1>3, <1>4, Plain, Together DEF Fire, session, bounds

LEMMA HearKeeps == ASSUME IInv, NEW w \in Workers, Hear(w) PROVE IInv'
<1> DEFINE a == [kind |-> "catch", step |-> 0]
<1>1. a \in [kind : Presses \cup {"expire", "catch"}, step : 0..Close] /\ a.kind = "catch"
  BY TableAssumption DEF Close
<1>2. Begin(w, a, "catch")
  BY DEF Hear
<1> HIDE DEF a
<1>3. Alone(w) /\ ExecType' /\ (Reading(w) /\ Acting(w))'
  BY <1>1, <1>2, BeginLeaves
<1>4. LogGoes /\ calls' \in Nat
  BY Plain DEF Hear, LogGoes
<1> QED BY <1>3, <1>4, Plain, Together DEF Hear, session, bounds

LEMMA CheckKeeps == ASSUME IInv, NEW w \in Workers, Check(w) PROVE IInv'
<1>1. act[w].kind \in Presses
  BY DEF IInv, Acting, Check
<1>2. Stop(w) \/ (Go(w, "play") /\ Stay) \/ (Go(w, "post") /\ Stay)
  BY DEF Check
<1>3. Alone(w) /\ ExecType' /\ (Reading(w) /\ Acting(w))'
  BY <1>1, <1>2, StopLeaves, GoLeaves DEF Places
<1>4. LogGoes
  BY DEF Check, LogGoes
<1> QED BY <1>3, <1>4, Plain, Together DEF Check, session, bounds

LEMMA LookKeeps == ASSUME IInv, NEW w \in Workers, Look(w) PROVE IInv'
<1>1. act[w].kind = "expire"
  BY DEF IInv, Acting, Look
<1>2. Stop(w) \/ (Go(w, "expire") /\ Stay)
  BY DEF Look
<1>3. Alone(w) /\ ExecType' /\ (Reading(w) /\ Acting(w))'
  BY <1>1, <1>2, StopLeaves, GoLeaves DEF Places
<1>4. LogGoes
  BY DEF Look, LogGoes
<1>5. TimerType'
  <2>1. UNCHANGED timers \/ Schedule(Deadline(Clock(log)))
    BY DEF Look
  <2>2. Deadline(Clock(log)) \in SUBSET Int
    BY Fields, DeadlineType
  <2> QED BY <2>1, <2>2, TimersStay
<1> QED BY <1>3, <1>4, <1>5, Plain, Together DEF Look, session, bounds

LEMMA ReadKeeps == ASSUME IInv, NEW w \in Workers, Read(w) PROVE IInv'
<1> DEFINE t == IF led[w] THEN at[w] ELSE now
<1>1. t \in 0..MaxTime /\ act[w].kind \in Presses
  BY Plain, ActsAs DEF IInv, Acting, Read
<1>2. PICK where \in {"expire", "write"} : Go(w, where)
  BY DEF Read
<1>3. Len(log) \in Nat /\ Len(log) \in 1..Len(log)
  BY Fields DEF IInv, LogGood, Numbered
<1>4. at' = [at EXCEPT ![w] = t] /\ read' = [read EXCEPT ![w] = Len(log)] /\ UNCHANGED <<log, act, held, due, led, stale>>
  BY DEF Read, session
<1> HIDE DEF t
<1>5. ExecType' /\ Alone(w) /\ place'[w] = where /\ act'[w] = act[w] /\ read'[w] = Len(log)
  BY <1>1, <1>2, <1>3, <1>4 DEF IInv, TypeOK, ExecType, Go, Alone, Places
<1>6. (Reading(w) /\ Acting(w))'
  BY <1>1, <1>3, <1>4, <1>5 DEF Reading, Acting
<1>7. LogGoes
  BY DEF Read, LogGoes
<1> QED BY <1>5, <1>6, <1>7, Plain, Together DEF Read, session, bounds

LEMMA ExpireKeeps == ASSUME IInv, NEW w \in Workers, Expire(w) PROVE IInv'
<1>1. act[w].kind \in Presses \cup {"expire"}
  BY DEF IInv, Acting, Expire
<1>2. LogGoes
  BY DEF Expire, LogGoes
<1>3. CASE RanOut(Clock(log), now)
  <2>1. read' = [read EXCEPT ![w] = Len(log)] /\ Go(w, "stop") /\ UNCHANGED <<act, held, at, due, led, stale, log, now>>
    BY <1>3 DEF Expire, session
  <2>2. Len(log) \in Nat /\ Len(log) \in 1..Len(log) /\ SubSeq(log, 1, Len(log)) = log
    BY Fields DEF IInv, LogGood, Numbered
  <2>3. ExecType' /\ Alone(w) /\ place'[w] = "stop" /\ act'[w] = act[w] /\ read'[w] = Len(log)
    BY <2>1, <2>2 DEF IInv, TypeOK, ExecType, Go, Alone, Places
  <2>4. (Reading(w) /\ Acting(w))'
    BY <1>1, <1>3, <2>1, <2>2, <2>3 DEF Reading, Acting, AsRead
  <2> QED BY <1>2, <2>3, <2>4, Plain, Together DEF Expire, session, bounds
<1>4. CASE ~RanOut(Clock(log), now)
  <2>1. Stop(w)
    BY <1>4 DEF Expire
  <2> QED BY <1>2, <2>1, StopLeaves, Plain, Together DEF Expire, session, bounds
<1> QED BY <1>3, <1>4

\* The stop of a timer, as it is written.
StopAt(t) == [Event("stop", "bot") EXCEPT !.at = t]
LEMMA StopAtIs ==
  ASSUME NEW t \in Int, NEW n \in Nat
  PROVE  /\ StopAt(t) \in Entry /\ [StopAt(t) EXCEPT !.no = n] \in Entry
         /\ StopAt(t).t = "stop"
         /\ [StopAt(t) EXCEPT !.no = n].t = "stop" /\ [StopAt(t) EXCEPT !.no = n].at = t /\ [StopAt(t) EXCEPT !.no = n].no = n
<1>1. 0 \in 0..Close
  BY TableAssumption DEF Close
<1>2. StopAt(t) = [no |-> 0, t |-> "stop", by |-> "bot", step |-> 0, at |-> t, move |-> 0, void |-> 0]
  BY DEF StopAt, Event
<1>3. [StopAt(t) EXCEPT !.no = n] = [no |-> n, t |-> "stop", by |-> "bot", step |-> 0, at |-> t, move |-> 0, void |-> 0]
  BY <1>2
<1>4. /\ [no |-> 0, t |-> "stop", by |-> "bot", step |-> 0, at |-> t, move |-> 0, void |-> 0] \in Entry
      /\ [no |-> n, t |-> "stop", by |-> "bot", step |-> 0, at |-> t, move |-> 0, void |-> 0] \in Entry
  BY <1>1 DEF Entry, Kinds
<1> QED BY <1>2, <1>3, <1>4

LEMMA StopTimerKeeps == ASSUME IInv, NEW w \in Workers, StopTimer(w) PROVE IInv'
<1> DEFINE c == Clock(AsRead(w))
           e == StopAt(RunsOut(c))
           onward == IF act[w].kind = "expire" THEN "put" ELSE "putLead"
<1>1. read[w] \in 1..Len(log) /\ RanOut(c, now) /\ act[w].kind \in Presses \cup {"expire"}
  BY DEF StopTimer, IInv, Reading, Acting
<1>2. c \in Clocks /\ RunsOut(c) \in Int
  <2>1. AsRead(w) \in Seq(Entry)
    <3>1. read[w] \in 0..Len(log)
      BY <1>1
    <3> QED BY <3>1, PartOf DEF AsRead
  <2>2. c \in Clocks
    BY <2>1, ClockType
  <2> HIDE DEF c
  <2> QED BY <2>2, TableAssumption DEF Clocks, RunsOut
<1>3. Land(w, e, held[w], onward) /\ place[w] = "stop" /\ UNCHANGED <<jobs, ran>>
  BY DEF StopTimer, StopAt
<1>4. onward \in {"put", "putLead"} /\ (onward = "putLead" => act[w].kind \in Presses)
  BY <1>1
<1>5. e \in Entry
  BY <1>2, StopAtIs
<1>6. ASSUME Onto(AsRead(w)) PROVE Follows([e EXCEPT !.no = counter + 1])
  <2>1. AsRead(w) = log
    BY <1>1, <1>6, OntoAll
  <2>2. Deadline(Clock(log)) = {RunsOut(c)}
    BY <1>1, <2>1 DEF RanOut, Deadline
  <2>3. counter + 1 \in Nat
    BY Fields
  <2> DEFINE f == [e EXCEPT !.no = counter + 1]
  <2>4. f \in Entry /\ f.t = "stop" /\ f.no = counter + 1 /\ f.at = RunsOut(c)
    BY <1>2, <2>3, StopAtIs
  <2> HIDE DEF f
  <2>6. RunsOut(c) <= now
    BY <1>1 DEF RanOut
  <2>5. Follows(f)
    BY <2>2, <2>4, <2>6 DEF Follows
  <2> QED BY <2>5 DEF f
<1> HIDE DEF e, onward
<1>7. Alone(w) /\ ExecType' /\ (Reading(w) /\ Acting(w))' /\ LogGoes /\ TimerType'
  BY <1>3, <1>4, <1>5, <1>6, ActsAs, LandLeaves
<1>8. told' \subseteq 1..Len(log')
  BY <1>7, Plain, LogStays, Fields DEF StopTimer
<1> QED BY <1>7, <1>8, Plain, Together DEF StopTimer, bounds

LEMMA DeclineKeeps == ASSUME IInv, NEW w \in Workers, Decline(w) PROVE IInv'
<1>1. Stop(w) /\ LogGoes
  BY DEF Decline, LogGoes
<1> QED BY <1>1, StopLeaves, Plain, Together DEF Decline, session, bounds

\* What is pressed, and what a press may write.
LEMMA PressKinds == Presses \subseteq {"step", "answer", "undo", "note", "clock", "pause", "resume", "end"}
BY TableAssumption

\* An entry the bot writes, by the fields that are set.
Made(n, t, s, a, m, v) == [no |-> n, t |-> t, by |-> "bot", step |-> s, at |-> a, move |-> m, void |-> v]

LEMMA MadeType ==
  ASSUME NEW n \in Nat, NEW t \in Kinds, NEW s \in 0..Close, NEW a \in Int, NEW m \in Nat, NEW v \in Nat
  PROVE  Made(n, t, s, a, m, v) \in Entry
BY DEF Made, Entry

LEMMA ProducedIs ==
  ASSUME NEW l, NEW r, NEW kind, NEW t
  PROVE  /\ kind = "step" => Produced(l, r, kind, t) = Made(0, "step", Current(l), 0, 0, 0)
         /\ kind = "answer" => Produced(l, r, kind, t) = Made(0, "step", r.pending.step, 0, r.pending.move, 0)
         /\ kind = "undo" => Produced(l, r, kind, t) = Made(0, "undone", 0, 0, 0, Last(Live(l)))
         /\ kind = "note" => Produced(l, r, kind, t) = Made(0, "note", 0, 0, 0, 0)
         /\ kind \in {"clock", "pause", "resume", "end"} => Produced(l, r, kind, t) = Made(0, kind, 0, t, 0, 0)
<1>1. CASE kind = "step"
  BY <1>1 DEF Produced, Event, Made
<1>2. CASE kind = "answer"
  BY <1>2 DEF Produced, Event, Made
<1>3. CASE kind = "undo"
  BY <1>3 DEF Produced, Event, Made
<1>4. CASE kind = "note"
  BY <1>4 DEF Produced, Event, Made
<1>5. CASE kind \in {"clock", "pause", "resume", "end"}
  <2>1. Produced(l, r, kind, t) = [Event(kind, "bot") EXCEPT !.at = t]
    BY <1>5 DEF Produced
  <2> QED BY <1>5, <2>1 DEF Event, Made
<1> QED BY <1>1, <1>2, <1>3, <1>4, <1>5

\* What a press may write: its undo takes back an entry of the log, its step is one of the unit's,
\* and only an answer bears its question.
Written(l, r, kind, p) ==
  \E s \in 0..Steps, a \in Int, m \in Nat, v \in 0..Len(l), k \in Kinds \ {"stop"} :
     /\ p = Made(0, k, s, a, m, v)
     /\ k = "step" => kind \in {"step", "answer"}
     /\ k = "undone" => kind = "undo"
     /\ k = "end" => kind = "end"
     /\ m # 0 => kind = "answer" /\ m = r.pending.move

LEMMA ProducedType ==
  ASSUME NEW l \in Seq(Entry), KnownSteps(l), NEW r \in Row, NEW kind \in Presses, NEW t \in Int, May(l, r, kind)
  PROVE  Written(l, r, kind, Produced(l, r, kind, t))
<1>1. Steps \in Nat /\ Len(l) \in Nat /\ Current(l) \in 0..Close
  BY CurrentType, TableAssumption
<1>2. kind \in {"step", "answer", "undo", "note", "clock", "pause", "resume", "end"}
  BY PressKinds
<1> DEFINE p == Produced(l, r, kind, t)
<1>3. CASE kind = "step"
  <2>1. p = Made(0, "step", Current(l), 0, 0, 0) /\ Current(l) \in 0..Steps
    BY <1>1, <1>3, ProducedIs DEF May
  <2> QED BY <1>1, <1>3, <2>1 DEF Kinds, Written
<1>4. CASE kind = "answer"
  <2>1. p = Made(0, "step", r.pending.step, 0, r.pending.move, 0)
    BY <1>4, ProducedIs
  <2>2. r.pending.step \in 0..Steps /\ r.pending.move \in Nat
    BY RowFields
  <2> QED BY <1>1, <1>4, <2>1, <2>2 DEF Kinds, Written
<1>5. CASE kind = "undo"
  <2>1. p = Made(0, "undone", 0, 0, 0, Last(Live(l)))
    BY <1>5, ProducedIs
  <2>2. Last(Live(l)) \in 1..Len(l)
    <3>1. Live(l) \subseteq 1..Len(l)
      BY DEF Live
    <3>2. Cardinality(Live(l)) > 1
      BY <1>5 DEF May
    <3>3. Live(l) # {}
      <4> SUFFICES ASSUME Live(l) = {} PROVE FALSE
        OBVIOUS
      <4>1. Cardinality(Live(l)) = 0
        BY FS_EmptySet
      <4> QED BY <3>2, <4>1
    <3> QED BY <1>1, <3>1, <3>3, LastIs
  <2> DEFINE v == Last(Live(l))
  <2>3. v \in 0..Len(l) /\ p = Made(0, "undone", 0, 0, 0, v)
    BY <1>1, <2>1, <2>2
  <2> HIDE DEF p, v
  <2>4. 0 \in 0..Steps /\ "undone" \in Kinds \ {"stop"}
    BY <1>1 DEF Kinds
  <2>5. \E s \in 0..Steps, a \in Int, m \in Nat, k \in Kinds \ {"stop"} :
            p = Made(0, k, s, a, m, v) /\ k = "undone" /\ m = 0
    BY <2>3, <2>4
  <2> QED BY <1>5, <2>3, <2>5 DEF p, Written
<1>6. CASE kind = "note"
  <2>1. p = Made(0, "note", 0, 0, 0, 0)
    BY <1>6, ProducedIs
  <2> QED BY <1>1, <1>6, <2>1 DEF Kinds, Written
<1>7. CASE kind \in {"clock", "pause", "resume", "end"}
  <2>1. p = Made(0, kind, 0, t, 0, 0)
    BY <1>7, ProducedIs
  <2> QED BY <1>1, <1>7, <2>1 DEF Kinds, Written
<1> QED BY <1>2, <1>3, <1>4, <1>5, <1>6, <1>7

\* A move that is written sees the log, and what it writes may follow.
LEMMA WriteIs ==
  ASSUME IInv, NEW w \in Workers, Write(w)
  PROVE  /\ act[w].kind \in Presses /\ held[w] \in Row /\ read[w] \in 1..Len(log)
         /\ Produced(AsRead(w), held[w], act[w].kind, at[w]) \in Entry
         /\ Onto(AsRead(w)) => Follows([Produced(AsRead(w), held[w], act[w].kind, at[w]) EXCEPT !.no = counter + 1])
         /\ Answered(held[w], act[w].kind) \in Row
<1> DEFINE l == AsRead(w)
           p == Produced(l, held[w], act[w].kind, at[w])
<1>1. act[w].kind \in Presses /\ held[w] \in Row /\ read[w] \in 1..Len(log) /\ read[w] \in 0..Len(log) /\ at[w] \in Int
  BY ActsAs, TableAssumption DEF IInv, Acting, Reading, Write
<1>2. l \in Seq(Entry) /\ KnownSteps(l)
  BY <1>1, PartOf DEF AsRead
<1>3. PICK s \in 0..Steps, a \in Int, m \in Nat, v \in 0..Len(l), k \in Kinds \ {"stop"} : p = Made(0, k, s, a, m, v)
  <2>1. May(l, held[w], act[w].kind)
    BY DEF Write
  <2>2. Written(l, held[w], act[w].kind, p)
    BY <1>1, <1>2, <2>1, ProducedType
  <2> HIDE DEF p
  <2> QED BY <2>2 DEF Written
<1>4. s \in 0..Close /\ v \in Nat /\ Steps \in Nat /\ counter + 1 \in Nat
  BY <1>2, Fields, TableAssumption DEF Close
<1>5. p \in Entry
  BY <1>3, <1>4, MadeType
<1>6. ASSUME Onto(l) PROVE Follows([p EXCEPT !.no = counter + 1])
  <2> DEFINE f == Made(counter + 1, k, s, a, m, v)
  <2>1. [p EXCEPT !.no = counter + 1] = f
    BY <1>3 DEF Made
  <2>2. l = log
    BY <1>1, <1>6, OntoAll
  <2>3. f \in Entry
    BY <1>3, <1>4, MadeType
  <2>4. f.no = counter + 1 /\ f.t = k /\ f.step <= Steps /\ f.void <= Len(log)
    BY <1>2, <1>3, <1>4, <2>2 DEF Made
  <2> HIDE DEF f
  <2> QED BY <1>3, <2>1, <2>3, <2>4 DEF Follows
<1>7. Answered(held[w], act[w].kind) \in Row
  <2>1. held[w].pending \in Ask
    BY <1>1, RowFields
  <2> QED BY <1>1, <2>1, NoRowType DEF Answered, Row
<1> QED BY <1>1, <1>5, <1>6, <1>7

LEMMA WriteKeeps == ASSUME IInv, NEW w \in Workers, Write(w) PROVE IInv'
<1> DEFINE e == Produced(AsRead(w), held[w], act[w].kind, at[w])
           next == Answered(held[w], act[w].kind)
<1>1. Land(w, e, next, "put") /\ place[w] = "write" /\ UNCHANGED <<jobs, ran>>
  BY DEF Write
<1>2. e \in Entry /\ next \in Row /\ (Onto(AsRead(w)) => Follows([e EXCEPT !.no = counter + 1]))
  BY WriteIs
<1> HIDE DEF e, next
<1>3. Alone(w) /\ ExecType' /\ (Reading(w) /\ Acting(w))' /\ LogGoes /\ TimerType'
  BY <1>1, <1>2, LandLeaves
<1>4. told' \subseteq 1..Len(log')
  BY <1>3, Plain, LogStays, Fields DEF Write
<1> QED BY <1>3, <1>4, Plain, Together DEF Write, bounds

LEMMA AskForKeeps == ASSUME IInv, NEW w \in Workers, AskFor(w) PROVE IInv'
<1> DEFINE l == AsRead(w)
           r == held[w]
<1>1. act[w].kind \in Presses /\ r \in Row /\ read[w] \in 0..Len(log)
  BY ActsAs, Fields DEF IInv, Acting, Reading, AskFor
<1>2. PICK q \in Row : held' = [held EXCEPT ![w] = q] /\ begun' \in Nat
  <2>1. CASE act[w].kind = "step"
    <3> DEFINE a == [step |-> Current(l), move |-> begun + 1, answered |-> 0]
    <3>1. Current(l) \in 0..Steps
      BY <1>1, <2>1, TableAssumption DEF AskFor, StopsToAsk
    <3>2. a \in Ask /\ begun + 1 \in Nat
      BY <3>1, Plain, TableAssumption DEF Ask
    <3>3. held' = [held EXCEPT ![w] = [r EXCEPT !.pending = a]] /\ begun' = begun + 1
      BY <2>1 DEF AskFor
    <3> HIDE DEF a
    <3>4. [r EXCEPT !.pending = a] \in Row
      BY <1>1, <3>2 DEF Row
    <3> QED BY <3>2, <3>3, <3>4
  <2>2. CASE act[w].kind # "step"
    <3> DEFINE a == [r.pending EXCEPT !.answered = r.pending.answered + 1]
    <3>1. r.pending.answered + 1 < Questions /\ r.pending \in Ask /\ r.pending.answered \in Nat
      BY <1>1, <2>2, RowFields DEF AskFor, StopsToAsk
    <3>2. r.pending.answered + 1 \in 0..(Questions - 1)
      BY <3>1, TableAssumption
    <3>3. a \in Ask
      BY <3>1, <3>2 DEF Ask
    <3>4. held' = [held EXCEPT ![w] = [r EXCEPT !.pending = a]] /\ begun' = begun
      BY <2>2 DEF AskFor
    <3> HIDE DEF a
    <3>5. [r EXCEPT !.pending = a] \in Row
      BY <1>1, <3>3 DEF Row
    <3> QED BY <3>4, <3>5, Plain
  <2> QED BY <2>1, <2>2
<1>3. Go(w, "put") /\ UNCHANGED <<log, act, read, at, due, led, stale>>
  BY DEF AskFor, session
<1>4. ExecType' /\ Alone(w) /\ place'[w] = "put"
  BY <1>2, <1>3 DEF IInv, TypeOK, ExecType, Go, Alone, Places
<1>5. (Reading(w) /\ Acting(w))'
  BY <1>4 DEF Reading, Acting
<1>6. LogGoes
  BY DEF AskFor, LogGoes
<1> QED BY <1>2, <1>4, <1>5, <1>6, Plain, Together DEF AskFor, session

LEMMA PutKeeps == ASSUME IInv, NEW w \in Workers, Put(w) PROVE IInv'
<1>1. row' \in Row /\ TimerType' /\ stale' \subseteq Workers
  <2>1. due[w] \in SUBSET Int /\ Schedule(due[w]) /\ PutRow(w)
    BY ActsAs DEF Put
  <2>2. stale \subseteq Workers
    BY DEF IInv, TypeOK
  <2> QED BY <2>1, <2>2, ActsAs, TimersStay DEF PutRow, Busy
<1>2. PICK where \in {"post", "play"} : Go(w, where) /\ (where = "play" => place[w] = "putLead") /\ led' \in [Workers -> BOOLEAN]
  BY DEF Put, IInv, TypeOK
<1>3. due' = [due EXCEPT ![w] = {}] /\ UNCHANGED <<log, act, held, read, at>>
  BY DEF Put, session
<1>4. ExecType' /\ Alone(w) /\ place'[w] = where /\ act'[w] = act[w]
  BY <1>1, <1>2, <1>3 DEF IInv, TypeOK, ExecType, Go, Alone, Places
<1>5. (Reading(w) /\ Acting(w))'
  BY <1>2, <1>4 DEF IInv, Reading, Acting
<1>6. LogGoes
  BY DEF Put, LogGoes
<1> QED BY <1>1, <1>4, <1>5, <1>6, Plain, Together DEF Put, session, bounds

\* What is fresh is part of the log, and its last part.
LEMMA FreshIs ==
  ASSUME IInv, NEW seen
  PROVE  /\ Fresh(log, seen) \subseteq 1..Len(log) /\ IsFiniteSet(Fresh(log, seen))
         /\ Cardinality(Fresh(log, seen)) \in 0..Len(log)
<1>1. Fresh(log, seen) \subseteq 1..Len(log) /\ 1 \in Int /\ Len(log) \in Nat
  BY Fields DEF Fresh
<1>2. IsFiniteSet(1..Len(log)) /\ Cardinality(1..Len(log)) = Len(log)
  <2>1. Cardinality(1..Len(log)) = IF 1 > Len(log) THEN 0 ELSE Len(log) - 1 + 1
    BY <1>1, FS_Interval
  <2>2. IsFiniteSet(1..Len(log))
    BY <1>1, FS_Interval
  <2> QED BY <1>1, <2>1, <2>2
<1>3. IsFiniteSet(Fresh(log, seen)) /\ Cardinality(Fresh(log, seen)) <= Len(log) /\ Cardinality(Fresh(log, seen)) \in Nat
  BY <1>1, <1>2, FS_Subset, FS_CardinalityType
<1> QED BY <1>1, <1>3

LEMMA CatchUpKeeps == ASSUME IInv, NEW w \in Workers, CatchUp(w) PROVE IInv'
<1> DEFINE fresh == Fresh(log, held[w].seen)
           r == [pending |-> NoAsk, seen |-> log[Len(log)].no, ended |-> \E i \in fresh : log[i].t = "end"]
           n == Len(log) - Cardinality(fresh)
<1>1. LogGoes
  BY DEF CatchUp, LogGoes
<1>2. CASE fresh = {}
  <2>1. Stop(w)
    BY <1>2 DEF CatchUp
  <2> QED BY <1>1, <2>1, StopLeaves, Plain, Together DEF CatchUp, session, bounds
<1>3. CASE fresh # {}
  <2>1. n \in Nat
    BY Fields, FreshIs
  <2>2. r \in Row
    <3>1. log[Len(log)].no \in Nat
      BY Fields DEF IInv, LogGood, Numbered
    <3> QED BY <3>1, NoRowType DEF Row
  <2>3. held' = [held EXCEPT ![w] = r] /\ read' = [read EXCEPT ![w] = n] /\ Go(w, "put") /\ UNCHANGED <<log, act, at, due, led, stale>>
    BY <1>3 DEF CatchUp, session
  <2> HIDE DEF r, n
  <2>4. ExecType' /\ Alone(w) /\ place'[w] = "put"
    BY <2>1, <2>2, <2>3 DEF IInv, TypeOK, ExecType, Go, Alone, Places
  <2>5. (Reading(w) /\ Acting(w))'
    BY <2>4 DEF Reading, Acting
  <2> QED BY <1>1, <2>4, <2>5, Plain, Together DEF CatchUp, session, bounds
<1> QED BY <1>2, <1>3

LEMMA PostKeeps == ASSUME IInv, NEW w \in Workers, Post(w) PROVE IInv'
<1>1. Rest(w) /\ LogGoes /\ row' \in Row /\ stale' \subseteq Workers
  <2>1. stale \subseteq Workers
    BY DEF IInv, TypeOK
  <2> QED BY <2>1, ActsAs, Plain DEF Post, LogGoes, PutRow, Busy
<1>2. told' \subseteq 1..Len(log') /\ log' = log
  <2>1. \A i \in (read[w] + 1)..Len(log) : i \in 1..Len(log)
    BY ActsAs, Fields
  <2> QED BY <2>1, Plain DEF Post, session
<1>3. TimerType'
  BY TimersStay DEF Post
<1> QED BY <1>1, <1>2, <1>3, RestLeaves, Plain, Together DEF Post, session, bounds

LEMMA DieKeeps == ASSUME IInv, NEW w \in Workers, Die(w) PROVE IInv'
<1>1. Stop(w) /\ LogGoes
  BY DEF Die, LogGoes
<1>2. TimerType'
  <2>1. due[w] \subseteq Int /\ Deadline(Clock(log)) \subseteq Int
    BY ActsAs, Fields, DeadlineType
  <2> QED BY <2>1, Plain DEF Die, TimerType
<1> QED BY <1>1, <1>2, StopLeaves, Plain, Together DEF Die, session, bounds

\* What the app plays, as an entry.
AppEntry(kind) ==
  [Event(kind, "app") EXCEPT !.no = counter + 1, !.step = IF kind = "step" THEN Current(log) ELSE 0,
                             !.at = IF kind \in {"pause", "resume"} THEN now ELSE 0]

LEMMA AppEntryIs ==
  ASSUME IInv, NEW kind \in AppKinds, kind # "repeat", AppMay(kind)
  PROVE  /\ Follows(AppEntry(kind)) /\ AppEntry(kind).t = kind /\ AppEntry(kind).by = "app"
         /\ AppEntry(kind).move = 0 /\ AppEntry(kind).no = counter + 1
<1> DEFINE s == IF kind = "step" THEN Current(log) ELSE 0
           t == IF kind \in {"pause", "resume"} THEN now ELSE 0
<1>1. kind \in {"step", "pause", "resume", "stop", "end"} /\ Steps \in Nat
  BY TableAssumption
<1>2. s \in 0..Steps /\ s \in 0..Close /\ t \in Int /\ counter + 1 \in Nat
  <2>1. s \in 0..Steps
    <3>1. CASE kind = "step"
      <4>1. Current(log) \in 1..Steps
        BY <3>1 DEF AppMay
      <4> QED BY <1>1, <3>1, <4>1
    <3>2. CASE kind # "step"
      BY <1>1, <3>2
    <3> QED BY <3>1, <3>2
  <2>2. t \in Int
    BY Plain
  <2>3. Close = Steps + 1 /\ counter + 1 \in Nat
    BY Fields DEF Close
  <2> HIDE DEF s, t
  <2> QED BY <1>1, <2>1, <2>2, <2>3
<1> DEFINE g == Event(kind, "app")
           f == [g EXCEPT !.no = counter + 1, !.step = s, !.at = t]
<1>3. AppEntry(kind) = f
  BY DEF AppEntry
<1>4. g \in Entry /\ g.t = kind /\ g.by = "app" /\ g.move = 0
  <2>1. g = [no |-> 0, t |-> kind, by |-> "app", step |-> 0, at |-> 0, move |-> 0, void |-> 0]
    BY DEF Event
  <2> HIDE DEF g
  <2>2. 0 \in 0..Close
    BY <1>1 DEF Close
  <2> QED BY <1>1, <2>1, <2>2 DEF Entry, Kinds
<1> HIDE DEF g, s, t
<1>5. f \in Entry /\ f.t = g.t /\ f.by = g.by /\ f.move = g.move /\ f.no = counter + 1 /\ f.step = s
  BY <1>2, <1>4 DEF Entry
<1> HIDE DEF f
<1>6. Follows(f)
  BY <1>1, <1>2, <1>4, <1>5 DEF Follows
<1> QED BY <1>3, <1>4, <1>5, <1>6

LEMMA AppMoveKeeps == ASSUME IInv, NEW kind \in AppKinds, AppMove(kind) PROVE IInv'
<1>1. LogGoes
  <2>1. CASE kind = "repeat" /\ UNCHANGED log
    BY <2>1 DEF AppMove, LogGoes
  <2>2. CASE kind # "repeat" /\ AppMay(kind) /\ log' = Append(log, AppEntry(kind))
    BY <2>2, AppEntryIs DEF AppMove, LogGoes, Appends
  <2> QED BY <2>1, <2>2 DEF AppMove, AppEntry
<1>3. UNCHANGED <<row, jobs, ran, now, exec, begun, told, died>> /\ calls' \in Nat /\ played' \in 0..MaxApp
  BY Plain, TableAssumption DEF AppMove
<1>2. LogGood'
  BY <1>1, <1>3, Plain, LogGoodStays
<1>6. TimerType'
  <2>1. log' \in Seq(Entry) /\ missed' = missed \cup NewDeadline(Clock(log), Clock(log'))
    BY <1>1, LogStays DEF AppMove
  <2>2. Deadline(Clock(log')) \subseteq Int
    BY <2>1, DeadlineType
  <2> QED BY <1>3, <2>1, <2>2, Plain DEF NewDeadline, TimerType
<1>4. TypeOK'
  BY <1>1, <1>3, <1>6, LogStays, Fields, SMTT(60) DEF IInv, TypeOK, exec, TimerType
<1>5. \A v \in Workers : (Reading(v) /\ Acting(v))'
  BY <1>1, <1>3, Plain, OthersStand DEF exec
<1> QED BY <1>2, <1>4, <1>5 DEF IInv

LEMMA TickKeeps == ASSUME IInv, Tick PROVE IInv'
<1>1. LogGoes /\ now' \in 0..MaxTime /\ now' \in Nat /\ now <= now'
  BY Plain, TableAssumption DEF Tick, LogGoes
<1>2. LogGood'
  BY <1>1, LogGoodStays
<1>3. TypeOK'
  BY <1>1 DEF IInv, TypeOK, Tick, exec, session, timers, bounds
<1>4. \A v \in Workers : (Reading(v) /\ Acting(v))'
  BY <1>1, OthersStand DEF Tick, exec
<1> QED BY <1>2, <1>3, <1>4 DEF IInv

LEMMA DeletedKeeps == ASSUME IInv, Deleted PROVE IInv'
<1>1. LogGoes /\ now' = now /\ UNCHANGED <<log, counter, exec>>
  BY DEF Deleted, LogGoes, session
<1>2. LogGood'
  BY <1>1, Plain, LogGoodStays
<1>3. TypeOK'
  BY Plain DEF Deleted, IInv, TypeOK, TimerType, exec, session, bounds
<1>4. \A v \in Workers : (Reading(v) /\ Acting(v))'
  BY <1>1, Plain, OthersStand DEF exec
<1> QED BY <1>2, <1>3, <1>4 DEF IInv

LEMMA StartGood == Init => IInv
<1> SUFFICES ASSUME Init PROVE IInv
  OBVIOUS
<1> DEFINE e == [Event("start", "bot") EXCEPT !.no = 1]
<1>1. 0 \in 0..Close /\ 0 \in 0..MaxTime /\ 0 \in 0..MaxApp
  BY TableAssumption DEF Close
<1>2. e = Made(1, "start", 0, 0, 0, 0)
  BY DEF Event, Made
<1>3. e \in Entry /\ e.t = "start" /\ e.no = 1
  BY <1>1, <1>2 DEF Made, Entry, Kinds
<1>4. log = <<e>> /\ counter = 1 /\ row = [NoRow EXCEPT !.seen = 1]
  BY DEF Init
<1> HIDE DEF e
<1>5. log \in Seq(Entry) /\ Len(log) = 1 /\ log[1] = e
  BY <1>3, <1>4
<1>6. 1..Len(log) = {1}
  BY <1>5
<1>7. LogGood
  BY <1>3, <1>4, <1>5, <1>6 DEF LogGood, Numbered, Backward, KnownSteps, NeverWrong
<1>8. row \in Row
  BY <1>4, NoRowType DEF Row, NoRow
<1>9. NoAct \in [kind : Presses \cup {"none", "expire", "catch"}, step : 0..Close]
  BY <1>1 DEF NoAct
<1>10. TypeOK
  <2>1. /\ place = [w \in Workers |-> "idle"] /\ act = [w \in Workers |-> NoAct] /\ held = [w \in Workers |-> NoRow]
        /\ read = [w \in Workers |-> 0] /\ at = [w \in Workers |-> 0] /\ due = [w \in Workers |-> {}]
        /\ led = [w \in Workers |-> FALSE]
    BY DEF Init
  <2>3. /\ jobs = {} /\ ran = {} /\ missed = {} /\ calls = 0 /\ now = 0 /\ begun = 0 /\ played = 0 /\ told = {}
        /\ stale = {} /\ died = FALSE
    BY DEF Init
  <2>2. ExecType
    BY <1>1, <1>9, <2>1, <2>3, NoRowType DEF ExecType, Places
  <2> QED BY <1>1, <1>4, <1>5, <1>8, <2>2, <2>3 DEF TypeOK, ExecType
<1>11. \A w \in Workers : Reading(w) /\ Acting(w)
  BY DEF Init, Reading, Acting
<1> QED BY <1>7, <1>10, <1>11 DEF IInv

LEMMA StepKeeps == ASSUME IInv, Next PROVE IInv'
<1>1. ASSUME NEW w \in Workers, NEW kind \in Presses, Press(w, kind) PROVE IInv'
  BY <1>1, PressKeeps
<1>2. ASSUME NEW w \in Workers, Fire(w) \/ Hear(w) \/ Die(w) PROVE IInv'
  BY <1>2, FireKeeps, HearKeeps, DieKeeps
<1>3. ASSUME NEW w \in Workers, Step(w) PROVE IInv'
  BY <1>3, CheckKeeps, LookKeeps, ReadKeeps, ExpireKeeps, StopTimerKeeps, DeclineKeeps, AskForKeeps, WriteKeeps,
     PutKeeps, CatchUpKeeps, PostKeeps DEF Step
<1>4. ASSUME NEW kind \in AppKinds, AppMove(kind) PROVE IInv'
  BY <1>4, AppMoveKeeps
<1>5. Tick \/ Deleted => IInv'
  BY TickKeeps, DeletedKeeps
<1> QED BY <1>1, <1>2, <1>3, <1>4, <1>5 DEF Next

LEMMA StutterKeeps == ASSUME IInv, UNCHANGED vars PROVE IInv'
<1>1. TypeOK'
  BY DEF IInv, TypeOK, vars
<1>2. LogGood'
  BY DEF IInv, LogGood, Numbered, Backward, KnownSteps, NeverWrong, vars
<1>3. \A w \in Workers : (Reading(w) /\ Acting(w))'
  BY DEF IInv, Reading, Acting, AsRead, vars
<1> QED BY <1>1, <1>2, <1>3 DEF IInv

\* The invariant of every table, however many executions run at a time.
THEOREM Invariance == Spec => []IInv
<1>1. IInv /\ [Next]_vars => IInv'
  BY StepKeeps, StutterKeeps
<1> QED BY <1>1, StartGood, PTL DEF Spec

\* Every table has its types: what executions hold, ask for and tell of is of the log there is.
THEOREM TypeCorrect == Spec => []TypeOK
<1>1. IInv => TypeOK
  BY DEF IInv
<1> QED BY <1>1, Invariance, PTL

\* A timer the bot stops had run out by then, in the log the stop stands on and at the moment it
\* is stamped with (play.ts, TableDeps), for any number of executions at a time, however early a
\* schedule comes, and whatever is paused, resumed or undone on the way.
THEOREM TimersStopLate == Spec => []NeverWrong
<1>1. IInv => NeverWrong
  BY DEF IInv, LogGood
<1> QED BY <1>1, Invariance, PTL

-----------------------------------------------------------------------------
(* Who comes back for a timer that runs.                                   *)

Due == Deadline(Clock(log))

\* A schedule stands for the deadline d, is about to be asked for, or has come for it and is on
\* its way to stopping the timer or to asking again; or nobody comes, for a reason that was noted.
OnIt(w, d) ==
  \/ d \in due[w]
  \/ place[w] = "job"
  \/ act[w].kind = "expire" /\ place[w] = "expire" /\ d <= now
  \/ act[w].kind = "expire" /\ place[w] = "stop"
Coming(d) == d \in (jobs \ ran) \cup missed \/ \E w \in Workers : OnIt(w, d)

AInv == /\ \A d \in Due : Coming(d)
        /\ \A w \in Workers : place[w] \notin {"put", "putLead"} => due[w] = {}

-----------------------------------------------------------------------------
(* The row, and what executions hold of it.                                *)

Before == {"bound", "play", "job", "expire", "write", "stop", "catch"}
\* The question goes on from row r to row q: it stands, a newer or a further one is asked, or the log
\* holds what takes it away.
GoesOn(r, q) ==
  \/ q.pending = r.pending
  \/ q.pending.move > r.pending.move
  \/ q.pending.move = r.pending.move /\ q.pending.answered > r.pending.answered
  \/ \E i \in Fresh(log, r.seen) : log[i].t \in {"step", "undone"}

\* What an execution holds is the row there is, or what it makes of it.
Holds(w) ==
  w \notin stale =>
    /\ place[w] \in Before \cup {"post"} => held[w] = row
    /\ place[w] \in {"put", "putLead"} /\ act[w].kind # "catch" => GoesOn(row, held[w])

\* A row has seen numbers handed out, and bears a question that was asked; a run it shows as ended
\* has an end it has seen.
Fit(r) ==
  /\ r.seen <= counter /\ r.pending.move <= begun
  /\ r.ended => \E i \in 1..Len(log) : log[i].t = "end" /\ log[i].no <= r.seen

HInv == /\ Fit(row)
        /\ \A w \in Workers : Holds(w) /\ (place[w] # "idle" => Fit(held[w]))

-----------------------------------------------------------------------------
(* What the thread is told of.                                             *)

Heard(i) == \/ i \in told
            \/ \E j \in (i + 1)..Len(log) : log[j].by = "bot"
            \/ \E j \in 1..(i - 1) : log[j].t = "end"
Telling(w, i) == act[w].kind = "catch" /\ place[w] \in {"put", "post"} /\ i > read[w] /\ log[i].no <= held[w].seen
Spoken(i) == Heard(i) \/ \E w \in Workers : Telling(w, i)
Apps == {i \in 1..Len(log) : log[i].by = "app"}

\* What a row has seen of the app is told or being told.
Shown(r) == \A i \in Apps : log[i].no <= r.seen => Spoken(i)
TInv == ~died =>
  /\ Shown(row)
  /\ \A w \in Workers : place[w] # "idle" => Shown(held[w])
  /\ \A i \in Apps : \/ Spoken(i) \/ calls > 0
                     \/ \E w \in Workers : place[w] = "catch" /\ held[w].seen < log[i].no

-----------------------------------------------------------------------------
(* What each step comes to.                                                *)

LEMMA RestIs ==
  ASSUME IInv, NEW w \in Workers, Rest(w)
  PROVE  place'[w] = "idle" /\ due'[w] = {} /\ Alone(w)
BY DEF IInv, TypeOK, Rest, Go, Alone

LEMMA BeginIs ==
  ASSUME IInv, NEW w \in Workers, NEW a, NEW where, Begin(w, a, where)
  PROVE  /\ place[w] = "idle" /\ stale' = stale /\ Alone(w) /\ due'[w] = due[w] /\ read'[w] = read[w]
         /\ \/ row.ended /\ UNCHANGED exec
            \/ ~row.ended /\ place'[w] = where /\ act'[w] = a /\ held'[w] = row
<1>1. CASE row.ended
  BY <1>1 DEF Begin, exec, Alone
<1>2. CASE ~row.ended
  <2>1. /\ place' = [place EXCEPT ![w] = where] /\ act' = [act EXCEPT ![w] = a] /\ held' = [held EXCEPT ![w] = row]
        /\ UNCHANGED <<read, at, due, led, stale>> /\ place[w] = "idle"
    BY <1>2 DEF Begin, Go
  <2> QED BY <1>2, <2>1 DEF IInv, TypeOK, Alone
<1> QED BY <1>1, <1>2

\* What most steps leave alone.
Same == UNCHANGED <<log, counter, row, begun, told, died>>

LEMMA PressIs ==
  ASSUME IInv, NEW w \in Workers, NEW kind \in Presses, Press(w, kind)
  PROVE  /\ Same /\ UNCHANGED <<jobs, ran, missed, calls, now, stale>> /\ Alone(w) /\ place[w] = "idle"
         /\ place'[w] \in {"bound", "play"} /\ act'[w].kind = kind /\ held'[w] = row /\ due'[w] = due[w]
<1>1. PICK s \in (IF kind \in Named THEN Drawn ELSE {0}) :
             Begin(w, [kind |-> kind, step |-> s], IF kind \in Named THEN "bound" ELSE "play")
  BY DEF Press
<1>2. ~row.ended /\ Same /\ UNCHANGED <<jobs, ran, missed, calls, now>>
  BY DEF Press, Same, session, timers, bounds
<1> DEFINE a == [kind |-> kind, step |-> s]
           where == IF kind \in Named THEN "bound" ELSE "play"
<1>3. Begin(w, a, where) /\ a.kind = kind /\ where \in {"bound", "play"}
  BY <1>1
<1> HIDE DEF a, where
<1>4. place[w] = "idle" /\ stale' = stale /\ Alone(w) /\ due'[w] = due[w]
      /\ place'[w] = where /\ act'[w] = a /\ held'[w] = row
  BY <1>2, <1>3, BeginIs
<1> QED BY <1>2, <1>3, <1>4

LEMMA FireIs ==
  ASSUME IInv, NEW w \in Workers, Fire(w)
  PROVE  /\ Same /\ UNCHANGED <<jobs, calls, now, stale>> /\ Alone(w) /\ place[w] = "idle" /\ due'[w] = due[w]
         /\ \/ row.ended /\ UNCHANGED exec /\ Due \subseteq missed' /\ missed \subseteq missed'
            \/ /\ missed \subseteq missed'
               /\ place'[w] = "job" /\ act'[w].kind = "expire" /\ held'[w] = row
<1> DEFINE a == [kind |-> "expire", step |-> 0]
<1>1. Begin(w, a, "job") /\ a.kind = "expire" /\ Same /\ UNCHANGED <<jobs, calls, now>>
  BY DEF Fire, Same, session, bounds
<1> HIDE DEF a
<1>2. missed \subseteq missed' /\ (row.ended => Due \subseteq missed')
  BY DEF Fire, Forsake, Due
<1> QED BY <1>1, <1>2, BeginIs

LEMMA HearIs ==
  ASSUME IInv, NEW w \in Workers, Hear(w)
  PROVE  /\ Same /\ UNCHANGED <<jobs, ran, missed, now, stale>> /\ Alone(w) /\ place[w] = "idle" /\ due'[w] = due[w]
         /\ \/ row.ended /\ UNCHANGED exec
            \/ place'[w] = "catch" /\ act'[w].kind = "catch" /\ held'[w] = row
<1> DEFINE a == [kind |-> "catch", step |-> 0]
<1>1. Begin(w, a, "catch") /\ a.kind = "catch" /\ Same /\ UNCHANGED <<jobs, ran, missed, now>>
  BY DEF Hear, Same, session, timers, bounds
<1> HIDE DEF a
<1> QED BY <1>1, BeginIs

\* An execution that goes from one place to the next with what it had, or stops.
Moves(w, from, to) ==
  /\ Same /\ UNCHANGED <<calls, now>> /\ Alone(w) /\ place[w] = from
  /\ \/ place'[w] = "idle" /\ due'[w] = {} /\ stale' = stale \ {w}
     \/ /\ place'[w] \in to /\ act'[w] = act[w] /\ held'[w] = held[w] /\ due'[w] = due[w] /\ stale' = stale

LEMMA StopMoves ==
  ASSUME IInv, NEW w \in Workers, Stop(w), Same, UNCHANGED <<calls, now>>, NEW to
  PROVE  Moves(w, place[w], to)
BY RestIs DEF Stop, Moves

LEMMA StayMoves ==
  ASSUME IInv, NEW w \in Workers, NEW where, Go(w, where), Stay, Same, UNCHANGED <<calls, now>>, NEW to, where \in to
  PROVE  Moves(w, place[w], to) /\ place'[w] = where
<1>1. Alone(w) /\ place'[w] = where
  BY DEF IInv, TypeOK, Go, Stay, Alone
<1> QED BY <1>1 DEF Stay, Moves

LEMMA CheckIs ==
  ASSUME IInv, NEW w \in Workers, Check(w)
  PROVE  Moves(w, "bound", {"play", "post"}) /\ UNCHANGED <<jobs, ran, missed>> /\ act[w].kind \in Presses
<1>1. place[w] = "bound" /\ Same /\ UNCHANGED <<calls, now, jobs, ran, missed>> /\ act[w].kind \in Presses
  BY DEF Check, Same, session, timers, bounds, IInv, Acting
<1>2. Stop(w) \/ (Go(w, "play") /\ Stay) \/ (Go(w, "post") /\ Stay)
  BY DEF Check
<1> QED BY <1>1, <1>2, StopMoves, StayMoves

LEMMA LookIs ==
  ASSUME IInv, NEW w \in Workers, Look(w)
  PROVE  /\ Moves(w, "job", {"expire"}) /\ act[w].kind = "expire"
         /\ \/ place'[w] = "expire" /\ act'[w] = act[w] /\ RanOut(Clock(log), now) /\ UNCHANGED <<jobs, ran, missed>>
            \/ place'[w] = "idle" /\ Schedule(Due)
<1>1. place[w] = "job" /\ Same /\ UNCHANGED <<calls, now>> /\ act[w].kind = "expire"
  BY DEF Look, Same, session, bounds, IInv, Acting
<1>2. CASE RanOut(Clock(log), now) /\ Go(w, "expire") /\ Stay /\ UNCHANGED timers
  BY <1>1, <1>2, StayMoves DEF Stay, timers
<1>3. CASE Schedule(Due) /\ Stop(w)
  BY <1>1, <1>3, StopMoves, RestIs DEF Stop
<1> QED BY <1>2, <1>3 DEF Look, Due

LEMMA ReadIs ==
  ASSUME IInv, NEW w \in Workers, Read(w)
  PROVE  Moves(w, "play", {"expire", "write"}) /\ UNCHANGED <<jobs, ran, missed>> /\ act[w].kind \in Presses
<1>1. place[w] = "play" /\ Same /\ UNCHANGED <<calls, now, jobs, ran, missed, act, held, due, stale>> /\ act[w].kind \in Presses
  BY DEF Read, Same, session, timers, bounds, IInv, Acting
<1>2. PICK where \in {"expire", "write"} : Go(w, where)
  BY DEF Read
<1>3. read' = [read EXCEPT ![w] = Len(log)]
  BY DEF Read
<1>4. Alone(w) /\ place'[w] = where
  BY <1>1, <1>2, <1>3 DEF IInv, TypeOK, Go, Alone
<1> QED BY <1>1, <1>2, <1>4 DEF Moves

LEMMA ExpireIs ==
  ASSUME IInv, NEW w \in Workers, Expire(w)
  PROVE  /\ Moves(w, "expire", {"stop"}) /\ UNCHANGED <<jobs, ran, missed>> /\ act[w].kind \in Presses \cup {"expire"}
         /\ \/ place'[w] = "stop" /\ act'[w] = act[w]
            \/ place'[w] = "idle" /\ ~RanOut(Clock(log), now)
<1>1. place[w] = "expire" /\ Same /\ UNCHANGED <<calls, now, jobs, ran, missed>> /\ act[w].kind \in Presses \cup {"expire"}
  BY DEF Expire, Same, session, timers, bounds, IInv, Acting
<1>2. CASE RanOut(Clock(log), now)
  <2>1. read' = [read EXCEPT ![w] = Len(log)] /\ Go(w, "stop") /\ UNCHANGED <<act, held, due, stale>>
    BY <1>2 DEF Expire
  <2>2. Alone(w) /\ place'[w] = "stop"
    BY <2>1 DEF IInv, TypeOK, Go, Alone
  <2> QED BY <1>1, <2>1, <2>2 DEF Moves
<1>3. CASE ~RanOut(Clock(log), now)
  <2>1. Stop(w)
    BY <1>3 DEF Expire
  <2> QED BY <1>1, <1>3, <2>1, StopMoves, RestIs DEF Stop
<1> QED BY <1>2, <1>3

LEMMA DeclineIs ==
  ASSUME IInv, NEW w \in Workers, Decline(w)
  PROVE  Moves(w, "write", {}) /\ UNCHANGED <<jobs, ran, missed>>
<1>1. Stop(w) /\ place[w] = "write" /\ Same /\ UNCHANGED <<calls, now, jobs, ran, missed>>
  BY DEF Decline, Same, session, timers, bounds
<1> QED BY <1>1, StopMoves

\* The row is put: what it was, or what an execution held.
LEMMA PutIs ==
  ASSUME IInv, NEW w \in Workers, Put(w)
  PROVE  /\ UNCHANGED <<log, counter, begun, told, died, calls, now>> /\ Alone(w) /\ place[w] \in {"put", "putLead"}
         /\ PutRow(w) /\ Schedule(due[w]) /\ due'[w] = {}
         /\ place'[w] = IF place[w] = "put" THEN "post" ELSE "play"
         /\ act'[w] = act[w] /\ held'[w] = held[w] /\ read'[w] = read[w]
         /\ (place[w] = "putLead" => act[w].kind \in Presses)
<1>1. /\ UNCHANGED <<log, counter, begun, told, died, calls, now, act, held, read>> /\ place[w] \in {"put", "putLead"}
      /\ PutRow(w) /\ Schedule(due[w]) /\ due' = [due EXCEPT ![w] = {}]
  BY DEF Put, session, bounds
<1>2. Go(w, IF place[w] = "put" THEN "post" ELSE "play")
  BY <1>1 DEF Put
<1>3. place[w] = "putLead" => act[w].kind \in Presses
  BY DEF IInv, Acting
<1>4. Alone(w) /\ due'[w] = {} /\ place'[w] = IF place[w] = "put" THEN "post" ELSE "play"
  BY <1>1, <1>2 DEF IInv, TypeOK, Go, Alone
<1> QED BY <1>1, <1>3, <1>4

LEMMA PostIs ==
  ASSUME IInv, NEW w \in Workers, Post(w)
  PROVE  /\ UNCHANGED <<log, counter, begun, died, calls, now, jobs, ran, missed>> /\ Alone(w) /\ place[w] = "post"
         /\ place'[w] = "idle" /\ due'[w] = {}
         /\ PutRow(w) \/ (UNCHANGED row /\ stale' = stale \ {w})
         /\ told' = IF act[w].kind = "catch"
                    THEN told \cup {i \in (read[w] + 1)..Len(log) : log[i].no <= held[w].seen} ELSE told
<1>1. Rest(w) /\ place[w] = "post" /\ UNCHANGED <<log, counter, begun, died, calls, now, jobs, ran, missed>>
  BY DEF Post, session, timers, bounds
<1>2. PutRow(w) \/ (UNCHANGED row /\ stale' = stale \ {w})
  BY DEF Post
<1>3. told' = IF act[w].kind = "catch"
              THEN told \cup {i \in (read[w] + 1)..Len(log) : log[i].no <= held[w].seen} ELSE told
  BY DEF Post
<1> QED BY <1>1, <1>2, <1>3, RestIs

LEMMA DieIs ==
  ASSUME IInv, NEW w \in Workers, Die(w)
  PROVE  /\ UNCHANGED <<log, counter, row, begun, told, calls, now, jobs, ran>> /\ Alone(w)
         /\ place'[w] = "idle" /\ due'[w] = {} /\ stale' = stale \ {w} /\ died'
         /\ missed \cup due[w] \subseteq missed'
         /\ place[w] \in {"job", "expire", "stop"} /\ act[w].kind = "expire" => Due \subseteq missed'
<1>1. Rest(w) /\ stale' = stale \ {w} /\ died' /\ UNCHANGED <<log, counter, row, begun, told, calls, now, jobs, ran>>
  BY DEF Die, Stop, session, bounds
<1>2. /\ missed \cup due[w] \subseteq missed'
      /\ place[w] \in {"job", "expire", "stop"} /\ act[w].kind = "expire" => Due \subseteq missed'
  BY DEF Die, Due
<1> QED BY <1>1, <1>2, RestIs

\* What a landed move leaves: an entry the log did not have, and what it makes of the deadline.
LEMMA LandIs ==
  ASSUME IInv, NEW w \in Workers, NEW e \in Entry, NEW next \in Row,
         place[w] \in {"write", "stop"}, Onto(AsRead(w)), Follows([e EXCEPT !.no = counter + 1]),
         log' = Append(log, [e EXCEPT !.no = counter + 1]), counter' = counter + 1,
         due'[w] = IF next.ended THEN {} ELSE NewDeadline(Clock(AsRead(w)), Clock(Append(AsRead(w), e)))
  PROVE  /\ Appends([e EXCEPT !.no = counter + 1])
         /\ due'[w] = IF next.ended THEN {} ELSE Deadline(Clock(log')) \ Deadline(Clock(log))
<1> DEFINE f == [e EXCEPT !.no = counter + 1]
           k == Append(log, e)
<1>1. AsRead(w) = log
  BY OntoAll DEF IInv, Reading
<1>2. f.t = e.t /\ f.by = e.by /\ f.move = e.move /\ f.at = e.at /\ f.void = e.void
  BY DEF Entry
<1>3. log' = Append(log, f) /\ due'[w] = IF next.ended THEN {} ELSE NewDeadline(Clock(log), Clock(k))
  BY <1>1
<1>4. Appends(f)
  BY <1>3 DEF Appends
<1> HIDE DEF f, k
<1>5. Clock(log') = Clock(k)
  <2>1. Len(k) = Len(log) + 1 /\ k[Len(log) + 1] = e /\ \A i \in 1..Len(log) : k[i] = log[i]
    BY Fields DEF k
  <2>2. f \in Entry
    BY <1>4 DEF Appends, Follows
  <2>3. Len(log') = Len(log) + 1 /\ log'[Len(log) + 1] = f /\ \A i \in 1..Len(log) : log'[i] = log[i]
    BY <1>3, <2>2, Fields
  <2>4. \A i \in 1..Len(k) : i \in 1..Len(log) \/ i = Len(log) + 1
    BY <2>1, Fields
  <2>5. Len(k) \in Nat /\ Len(k) = Len(log')
    BY <2>1, <2>3, Fields
  <2>6. \A i \in 1..Len(k) : k[i].t = log'[i].t /\ k[i].at = log'[i].at /\ k[i].void = log'[i].void
    BY <1>2, <2>1, <2>3, <2>4
  <2> QED BY <2>5, <2>6, ClockSame
<1> QED BY <1>3, <1>4, <1>5 DEF f, NewDeadline

\* The log after an entry.
LEMMA Longer ==
  ASSUME IInv, NEW f, Appends(f)
  PROVE  /\ Len(log') = Len(log) + 1 /\ log'[Len(log) + 1] = f /\ f \in Entry /\ f.no = counter + 1
         /\ \A i \in 1..Len(log) : log'[i] = log[i]
         /\ \A i \in 1..Len(log') : i \in 1..Len(log) \/ i = Len(log) + 1
BY Fields DEF Appends, Follows

LEMMA ClockLonger ==
  ASSUME IInv, NEW f, Appends(f), f.t # "undone"
  PROVE  Clock(log') = Applied(Clock(log), f)
BY Fields, ClockAppend DEF Appends, Follows, IInv, LogGood

\* A move refused: the execution stops, and a schedule's stop is given up.
Refused(w) ==
  /\ UNCHANGED session /\ place'[w] = "idle" /\ due'[w] = {} /\ stale' = stale \ {w} /\ missed \subseteq missed'
  /\ (act[w].kind = "expire" => Due \subseteq missed')

LEMMA RefusedIs ==
  ASSUME IInv, NEW w \in Workers, Stop(w), Forsake(act[w].kind = "expire"), UNCHANGED session
  PROVE  Refused(w) /\ Alone(w)
BY RestIs DEF Stop, Forsake, Refused, Due

LEMMA AskForIs ==
  ASSUME IInv, NEW w \in Workers, AskFor(w)
  PROVE  /\ UNCHANGED <<log, counter, row, told, died, jobs, ran, missed, calls, now, stale>> /\ Alone(w)
         /\ place[w] = "write" /\ place'[w] = "put" /\ due'[w] = due[w] /\ read'[w] = read[w]
         /\ held'[w].seen = held[w].seen /\ held'[w].ended = held[w].ended /\ act[w].kind \in Presses /\ act'[w] = act[w]
         /\ \/ begun' = begun + 1 /\ held'[w].pending.move = begun + 1
            \/ /\ begun' = begun /\ held[w].pending # NoAsk
               /\ held'[w].pending.move = held[w].pending.move /\ held'[w].pending.answered = held[w].pending.answered + 1
<1>0. place[w] = "write" /\ Go(w, "put") /\ act[w].kind \in Presses
      /\ UNCHANGED <<log, counter, row, told, died, jobs, ran, missed, calls, now, stale, act, read, due>>
  BY DEF AskFor, session, timers, IInv, Acting
<1>5. \A v \in Workers \ {w} : held'[v] = held[v]
  <2>1. \E q : held' = [held EXCEPT ![w] = q]
    <3>1. CASE act[w].kind = "step"
      <4>1. held' = [held EXCEPT ![w].pending = [step |-> Current(AsRead(w)), move |-> begun + 1, answered |-> 0]]
        BY <3>1 DEF AskFor
      <4> QED BY <4>1
    <3>2. CASE act[w].kind # "step"
      <4>1. held' = [held EXCEPT ![w].pending.answered = held[w].pending.answered + 1]
        BY <3>2 DEF AskFor
      <4> QED BY <4>1
    <3> QED BY <3>1, <3>2
  <2> QED BY <2>1 DEF IInv, TypeOK
<1>1. /\ place[w] = "write" /\ place'[w] = "put" /\ act[w].kind \in Presses /\ act'[w] = act[w] /\ Alone(w)
      /\ UNCHANGED <<log, counter, row, told, died, jobs, ran, missed, calls, now, stale>>
      /\ due'[w] = due[w] /\ read'[w] = read[w]
  BY <1>0, <1>5 DEF IInv, TypeOK, Go, Alone
<1>2. held[w] \in Row /\ held[w].pending \in Ask /\ held \in [Workers -> Row]
  BY RowFields DEF IInv, TypeOK
<1>3. CASE act[w].kind = "step"
  <2> DEFINE a == [step |-> Current(AsRead(w)), move |-> begun + 1, answered |-> 0]
  <2>1. held' = [held EXCEPT ![w] = [held[w] EXCEPT !.pending = a]] /\ begun' = begun + 1 /\ a.move = begun + 1
    BY <1>3 DEF AskFor
  <2> HIDE DEF a
  <2>2. held'[w] = [held[w] EXCEPT !.pending = a]
    BY <1>2, <2>1
  <2>3. held'[w].pending = a /\ held'[w].seen = held[w].seen /\ held'[w].ended = held[w].ended
    BY <1>2, <2>2 DEF Row
  <2> QED BY <1>1, <2>1, <2>3
<1>4. CASE act[w].kind # "step"
  <2> DEFINE n == held[w].pending.answered + 1
             a == [held[w].pending EXCEPT !.answered = n]
  <2>1. held' = [held EXCEPT ![w] = [held[w] EXCEPT !.pending = a]] /\ begun' = begun
    BY <1>4 DEF AskFor
  <2>2. act[w].kind = "answer" /\ May(AsRead(w), held[w], act[w].kind)
    BY <1>4 DEF AskFor, StopsToAsk
  <2>3. held[w].pending # NoAsk
    BY <2>2 DEF May
  <2> HIDE DEF n
  <2>4. a.move = held[w].pending.move /\ a.answered = n
    BY <1>2 DEF Ask
  <2> HIDE DEF a
  <2>5. held'[w] = [held[w] EXCEPT !.pending = a]
    BY <1>2, <2>1
  <2>6. held'[w].pending = a /\ held'[w].seen = held[w].seen /\ held'[w].ended = held[w].ended
    BY <1>2, <2>5 DEF Row
  <2> QED BY <1>1, <2>1, <2>3, <2>4, <2>6 DEF n
<1> QED BY <1>3, <1>4

\* The thread catches up: the row has seen all there is, and the question is gone.
LEMMA CatchUpIs ==
  ASSUME IInv, NEW w \in Workers, CatchUp(w)
  PROVE  /\ Same /\ UNCHANGED <<jobs, ran, missed, calls, now>> /\ Alone(w) /\ place[w] = "catch" /\ act[w].kind = "catch"
         /\ \/ Fresh(log, held[w].seen) = {} /\ place'[w] = "idle" /\ due'[w] = {} /\ stale' = stale \ {w}
            \/ /\ stale' = stale /\ due'[w] = due[w]
               /\ Fresh(log, held[w].seen) # {} /\ place'[w] = "put" /\ act'[w] = act[w]
               /\ held'[w] = [pending |-> NoAsk, seen |-> log[Len(log)].no,
                              ended |-> \E i \in Fresh(log, held[w].seen) : log[i].t = "end"]
               /\ read'[w] = Len(log) - Cardinality(Fresh(log, held[w].seen))
<1> DEFINE fresh == Fresh(log, held[w].seen)
<1>1. Same /\ UNCHANGED <<jobs, ran, missed, calls, now>> /\ place[w] = "catch" /\ act[w].kind = "catch"
  BY DEF CatchUp, Same, session, timers, bounds, IInv, Acting
<1>2. CASE fresh = {}
  <2>1. Stop(w)
    BY <1>2 DEF CatchUp
  <2> QED BY <1>1, <1>2, <2>1, RestIs DEF Stop
<1>3. CASE fresh # {}
  <2> DEFINE r == [pending |-> NoAsk, seen |-> log[Len(log)].no, ended |-> \E i \in fresh : log[i].t = "end"]
             n == Len(log) - Cardinality(fresh)
  <2>1. held' = [held EXCEPT ![w] = r] /\ read' = [read EXCEPT ![w] = n] /\ Go(w, "put") /\ UNCHANGED <<act, due, stale>>
    BY <1>3 DEF CatchUp
  <2> HIDE DEF r, n
  <2>2. held'[w] = r /\ read'[w] = n /\ place'[w] = "put" /\ act'[w] = act[w] /\ Alone(w) /\ stale' = stale /\ due'[w] = due[w]
    BY <2>1 DEF IInv, TypeOK, Go, Alone
  <2> QED BY <1>1, <1>3, <2>2 DEF r, n
<1> QED BY <1>2, <1>3

LEMMA StopTimerIs ==
  ASSUME IInv, NEW w \in Workers, StopTimer(w)
  PROVE  /\ UNCHANGED <<row, jobs, ran, calls, now, begun, told, died>> /\ Alone(w)
         /\ place[w] = "stop" /\ act[w].kind \in Presses \cup {"expire"}
         /\ \/ Refused(w)
            \/ \E f : /\ Appends(f) /\ f.t = "stop" /\ f.by = "bot" /\ UNCHANGED <<missed, stale>>
                      /\ held'[w] = [held[w] EXCEPT !.seen = counter + 1] /\ act'[w] = act[w]
                      /\ place'[w] = IF act[w].kind = "expire" THEN "put" ELSE "putLead"
<1> DEFINE c == Clock(AsRead(w))
           e == StopAt(RunsOut(c))
           onward == IF act[w].kind = "expire" THEN "put" ELSE "putLead"
<1>1. place[w] = "stop" /\ act[w].kind \in Presses \cup {"expire"} /\ UNCHANGED <<row, jobs, ran, calls, now, begun, told, died>>
  BY DEF StopTimer, IInv, Acting, bounds
<1>2. read[w] \in 1..Len(log) /\ RanOut(c, now)
  BY <1>1 DEF IInv, Reading
<1>3. RunsOut(c) \in Int
  <2>1. AsRead(w) \in Seq(Entry)
    <3>1. read[w] \in 0..Len(log)
      BY <1>2
    <3> QED BY <3>1, PartOf DEF AsRead
  <2>2. c \in Clocks
    BY <2>1, ClockType
  <2> HIDE DEF c
  <2> QED BY <2>2, TableAssumption DEF Clocks, RunsOut
<1>4. Land(w, e, held[w], onward)
  BY DEF StopTimer, StopAt
<1>5. e \in Entry /\ e.t = "stop" /\ e.by = "bot"
  <2>1. e = [no |-> 0, t |-> "stop", by |-> "bot", step |-> 0, at |-> RunsOut(c), move |-> 0, void |-> 0]
    BY DEF StopAt, Event
  <2>2. e \in Entry
    BY <1>3, StopAtIs
  <2> HIDE DEF c
  <2> QED BY <2>1, <2>2
<1>6. ASSUME Onto(AsRead(w)) PROVE Follows([e EXCEPT !.no = counter + 1])
  <2>1. AsRead(w) = log
    BY <1>2, <1>6, OntoAll
  <2>2. Deadline(Clock(log)) = {RunsOut(c)}
    BY <1>2, <2>1 DEF RanOut, Deadline
  <2>3. counter + 1 \in Nat
    BY Fields
  <2> DEFINE f == [e EXCEPT !.no = counter + 1]
  <2>4. f \in Entry /\ f.t = "stop" /\ f.no = counter + 1 /\ f.at = RunsOut(c)
    BY <1>3, <2>3, StopAtIs
  <2> HIDE DEF f
  <2>6. RunsOut(c) <= now
    BY <1>2 DEF RanOut
  <2>5. Follows(f)
    BY <2>2, <2>4, <2>6 DEF Follows
  <2> QED BY <2>5 DEF f
<1>7. CASE ~ Onto(AsRead(w))
  <2>1. Stop(w) /\ Forsake(act[w].kind = "expire") /\ UNCHANGED session
    BY <1>4, <1>7 DEF Land
  <2> QED BY <1>1, <2>1, RefusedIs
<1>8. CASE Onto(AsRead(w))
  <2> DEFINE f == [e EXCEPT !.no = counter + 1]
             q == [held[w] EXCEPT !.seen = counter + 1]
  <2>1. /\ log' = Append(log, f) /\ counter' = counter + 1 /\ held' = [held EXCEPT ![w] = q]
        /\ due' = [due EXCEPT ![w] = IF held[w].ended THEN {} ELSE NewDeadline(Clock(AsRead(w)), Clock(Append(AsRead(w), e)))]
        /\ Go(w, onward) /\ UNCHANGED <<act, read, at, led, stale, missed>>
    BY <1>4, <1>8, Zenon DEF Land
  <2>2. place[w] \in {"write", "stop"} /\ held[w] \in Row
    BY <1>1, ActsAs
  <2>3. Follows(f)
    BY <1>6, <1>8
  <2> HIDE DEF e, q, onward
  <2>4. /\ held'[w] = q /\ place'[w] = onward /\ act'[w] = act[w] /\ Alone(w) /\ UNCHANGED <<missed, stale>>
        /\ due'[w] = IF held[w].ended THEN {} ELSE NewDeadline(Clock(AsRead(w)), Clock(Append(AsRead(w), e)))
    BY <2>1 DEF IInv, TypeOK, Go, Alone
  <2>5. Appends(f)
    BY <1>5, <1>8, <2>1, <2>2, <2>3, <2>4, LandIs
  <2>6. f.t = "stop" /\ f.by = "bot"
    BY <1>5 DEF Entry
  <2> HIDE DEF f
  <2> QED BY <1>1, <2>4, <2>5, <2>6 DEF q, onward
<1> QED BY <1>7, <1>8

\* What a press leaves in the log, on the row about to be put and for a schedule.
Writes(w, f) ==
  /\ Appends(f) /\ f.by = "bot" /\ UNCHANGED <<missed, stale>> /\ place'[w] = "put" /\ act'[w] = act[w]
  /\ held'[w] \in Row /\ held'[w].seen = counter + 1 /\ (held'[w].ended <=> act[w].kind = "end")
  /\ held'[w].pending = IF act[w].kind \in Keeps THEN held[w].pending ELSE NoAsk
  /\ due'[w] = IF act[w].kind = "end" THEN {} ELSE Deadline(Clock(log')) \ Deadline(Clock(log))
  /\ act[w].kind \in {"step", "answer"} => f.t = "step"
  /\ act[w].kind = "undo" => f.t = "undone"
  /\ act[w].kind = "end" => f.t = "end" /\ held[w].pending = NoAsk

LEMMA WriteComes ==
  ASSUME IInv, NEW w \in Workers, Write(w)
  PROVE  /\ UNCHANGED <<row, jobs, ran, calls, now, begun, told, died>> /\ Alone(w)
         /\ place[w] = "write" /\ act[w].kind \in Presses
         /\ \/ Refused(w)
            \/ \E f : Writes(w, f)
<1> DEFINE kind == act[w].kind
           e == Produced(AsRead(w), held[w], kind, at[w])
           next == Answered(held[w], kind)
<1>1. place[w] = "write" /\ May(AsRead(w), held[w], kind) /\ Land(w, e, next, "put")
      /\ UNCHANGED <<row, jobs, ran, calls, now, begun, told, died>>
  BY DEF Write, bounds
<1>2. kind \in Presses /\ held[w] \in Row /\ e \in Entry /\ next \in Row
      /\ (Onto(AsRead(w)) => Follows([e EXCEPT !.no = counter + 1]))
  BY WriteIs
<1>3. kind \in {"step", "answer", "undo", "note", "clock", "pause", "resume", "end"}
  BY <1>2, PressKinds
<1>4. /\ e.by = "bot"
      /\ kind \in {"step", "answer"} => e.t = "step"
      /\ kind = "undo" => e.t = "undone"
      /\ kind = "end" => e.t = "end"
  BY <1>3, ProducedIs DEF Made
<1>5. kind = "end" => held[w].pending = NoAsk
  BY <1>1 DEF May
<1>6. next.ended <=> kind = "end"
  BY <1>2 DEF Answered, Row
<1>7. CASE ~ Onto(AsRead(w))
  <2>1. Stop(w) /\ Forsake(act[w].kind = "expire") /\ UNCHANGED session
    BY <1>1, <1>7 DEF Land
  <2> QED BY <1>1, <1>2, <2>1, RefusedIs
<1>8. CASE Onto(AsRead(w))
  <2> DEFINE q == [next EXCEPT !.seen = counter + 1]
  <2>0. PICK f : f = [e EXCEPT !.no = counter + 1]
    OBVIOUS
  <2>1. /\ log' = Append(log, f) /\ counter' = counter + 1 /\ held' = [held EXCEPT ![w] = q]
        /\ due' = [due EXCEPT ![w] = IF next.ended THEN {} ELSE NewDeadline(Clock(AsRead(w)), Clock(Append(AsRead(w), e)))]
        /\ Go(w, "put") /\ UNCHANGED <<act, read, at, led, stale, missed>>
    BY <1>1, <1>8, <2>0, Zenon DEF Land
  <2>2. place[w] \in {"write", "stop"} /\ Follows(f)
    BY <1>1, <1>2, <1>8, <2>0
  <2> HIDE DEF e, next, q
  <2>3. /\ held'[w] = q /\ place'[w] = "put" /\ act'[w] = act[w] /\ Alone(w) /\ UNCHANGED <<missed, stale>>
        /\ due'[w] = IF next.ended THEN {} ELSE NewDeadline(Clock(AsRead(w)), Clock(Append(AsRead(w), e)))
    BY <2>1 DEF IInv, TypeOK, Go, Alone
  <2>4. Appends(f) /\ due'[w] = IF next.ended THEN {} ELSE Deadline(Clock(log')) \ Deadline(Clock(log))
    BY <1>2, <1>8, <2>0, <2>1, <2>2, <2>3, LandIs
  <2>5. f.t = e.t /\ f.by = e.by
    BY <1>2, <2>0 DEF Entry
  <2>6. q \in Row /\ q.seen = counter + 1 /\ (q.ended <=> kind = "end")
        /\ q.pending = IF kind \in Keeps THEN held[w].pending ELSE NoAsk
    <3>1. next.pending = IF kind \in Keeps THEN held[w].pending ELSE NoAsk
      BY <1>2 DEF next, Answered, Row
    <3> QED BY <1>2, <1>6, <3>1, Fields DEF q, Row
  <2>7. Writes(w, f)
    BY <1>1, <1>2, <1>4, <1>5, <1>6, <2>3, <2>4, <2>5, <2>6 DEF Writes
  <2> QED BY <1>1, <1>2, <2>3, <2>7
<1> QED BY <1>7, <1>8

LEMMA AppMoveIs ==
  ASSUME IInv, NEW kind \in AppKinds, AppMove(kind)
  PROVE  /\ UNCHANGED <<row, jobs, ran, now, exec, begun, told, died>> /\ counter' = counter + 1
         /\ missed \subseteq missed' /\ Due' \subseteq Due \cup missed'
         /\ calls' = IF row.ended THEN calls ELSE calls + 1
         /\ \/ log' = log
            \/ /\ Appends(AppEntry(kind)) /\ AppEntry(kind).by = "app"
<1>0. missed \subseteq missed' /\ Due' \subseteq Due \cup missed'
  BY DEF AppMove, NewDeadline, Due
<1>4. UNCHANGED <<row, jobs, ran, now, exec, begun, told, died>> /\ counter' = counter + 1
      /\ calls' = IF row.ended THEN calls ELSE calls + 1
  BY DEF AppMove
<1>1. CASE kind = "repeat" /\ UNCHANGED log
  BY <1>0, <1>1, <1>4
<1>2. CASE kind # "repeat" /\ AppMay(kind) /\ log' = Append(log, AppEntry(kind))
  <2>1. Appends(AppEntry(kind)) /\ AppEntry(kind).by = "app"
    BY <1>2, AppEntryIs DEF AppMove, Appends
  <2> QED BY <1>0, <1>4, <2>1
<1> QED BY <1>1, <1>2 DEF AppMove, AppEntry

-----------------------------------------------------------------------------
(* Somebody comes: each step keeps who was on it, or passes it on.         *)

\* A stop or an end leaves no deadline.
LEMMA DueGone ==
  ASSUME IInv, NEW f, Appends(f), f.t \in {"stop", "end"}
  PROVE  Due' = {}
<1>1. Clock(log') = Applied(Clock(log), f)
  BY ClockLonger
<1>2. Clock(log) \in Clocks
  BY Fields, ClockType
<1> DEFINE c == Clock(log)
<1>3. (c.status = "none" /\ Applied(c, f) = c) \/ Applied(c, f).status = "done"
  BY <1>2 DEF Applied, NoClock, Clocks
<1> QED BY <1>1, <1>3 DEF Due, Deadline

LEMMA AStays ==
  ASSUME AInv, NEW w \in Workers, Alone(w), now' = now,
         (jobs \ ran) \cup missed \subseteq (jobs' \ ran') \cup missed',
         \A d \in Due : OnIt(w, d) => Coming(d)',
         \A d \in Due' : d \in Due \/ Coming(d)',
         place'[w] \notin {"put", "putLead"} => due'[w] = {}
  PROVE  AInv'
<1>1. ASSUME NEW d \in Due PROVE Coming(d)'
  <2>1. CASE d \in (jobs \ ran) \cup missed
    BY <2>1 DEF Coming
  <2>2. CASE OnIt(w, d)
    BY <2>2
  <2>3. ASSUME NEW v \in Workers \ {w}, OnIt(v, d) PROVE Coming(d)'
    <3>1. OnIt(v, d)'
      BY <2>3 DEF Alone, OnIt
    <3> QED BY <3>1 DEF Coming
  <2> QED BY <2>1, <2>2, <2>3 DEF AInv, Coming
<1>2. \A v \in Workers : place'[v] \notin {"put", "putLead"} => due'[v] = {}
  BY DEF AInv, Alone
<1> QED BY <1>1, <1>2 DEF AInv

\* An execution that is not on its way to a timer has nobody's coming on it.
LEMMA NotOnIt ==
  ASSUME IInv, AInv, NEW w \in Workers, place[w] \notin {"job", "put", "putLead"},
         place[w] \in {"expire", "stop"} => act[w].kind \in Presses, NEW d
  PROVE  ~OnIt(w, d)
BY PressKinds DEF AInv, OnIt

LEMMA AFires == ASSUME IInv, AInv, NEW w \in Workers, Fire(w) PROVE AInv'
<1>1. Due' = Due /\ Alone(w) /\ place[w] = "idle" /\ due'[w] = due[w]
  BY FireIs DEF Same, Due
<1>2. \A d \in Due : Coming(d)'
  <2>1. CASE Due \subseteq missed'
    BY <2>1 DEF Coming
  <2>2. CASE place'[w] = "job"
    BY <2>2 DEF Coming, OnIt
  <2> QED BY <2>1, <2>2, FireIs
<1>3. \A v \in Workers : place'[v] \notin {"put", "putLead"} => due'[v] = {}
  BY <1>1 DEF AInv, Alone
<1> QED BY <1>1, <1>2, <1>3 DEF AInv

LEMMA ALooks == ASSUME IInv, AInv, NEW w \in Workers, Look(w) PROVE AInv'
<1>1. Due' = Due /\ Alone(w) /\ now' = now /\ due[w] = {} /\ due'[w] = {}
  BY LookIs DEF Moves, Same, Due, AInv
<1>2. CASE place'[w] = "expire" /\ act'[w] = act[w] /\ RanOut(Clock(log), now) /\ UNCHANGED <<jobs, ran, missed>>
  <2>1. \A d \in Due : d <= now'
    BY <1>1, <1>2 DEF Due, Deadline, RanOut
  <2>2. \A d \in Due : Coming(d)'
    BY <1>2, <2>1, LookIs DEF Coming, OnIt
  <2> QED BY <1>1, <1>2, <2>2, AStays
<1>3. CASE place'[w] = "idle" /\ Schedule(Due)
  <2>1. \A d \in Due : Coming(d)'
    BY <1>3 DEF Schedule, Coming
  <2>2. (jobs \ ran) \cup missed \subseteq (jobs' \ ran') \cup missed'
    BY <1>3 DEF Schedule
  <2> QED BY <1>1, <2>1, <2>2, AStays
<1> QED BY <1>2, <1>3, LookIs

LEMMA AExpires == ASSUME IInv, AInv, NEW w \in Workers, Expire(w) PROVE AInv'
<1>1. /\ Due' = Due /\ Alone(w) /\ now' = now /\ due[w] = {} /\ due'[w] = {} /\ UNCHANGED <<jobs, ran, missed>>
      /\ place[w] = "expire" /\ place'[w] \in {"idle", "stop"}
  BY ExpireIs DEF Moves, Same, Due, AInv
<1>2. ASSUME NEW d \in Due, OnIt(w, d) PROVE Coming(d)'
  <2>1. act[w].kind = "expire" /\ d <= now
    BY <1>1, <1>2 DEF OnIt
  <2>2. RanOut(Clock(log), now)
    BY <2>1 DEF Due, Deadline, RanOut
  <2>3. place'[w] = "stop" /\ act'[w] = act[w]
    BY <2>2, ExpireIs
  <2> QED BY <2>1, <2>3 DEF Coming, OnIt
<1> QED BY <1>1, <1>2, AStays

LEMMA AStops == ASSUME IInv, AInv, NEW w \in Workers, StopTimer(w) PROVE AInv'
<1>1. UNCHANGED <<jobs, ran, now>> /\ Alone(w) /\ place[w] = "stop" /\ act[w].kind \in Presses \cup {"expire"} /\ due[w] = {}
  BY StopTimerIs DEF AInv
<1>2. CASE Refused(w)
  <2>1. Due' = Due
    BY <1>2 DEF Refused, session, Due
  <2>2. \A d \in Due : OnIt(w, d) => Coming(d)'
    BY <1>1, <1>2, NotOnIt DEF Refused, Coming
  <2> QED BY <1>1, <1>2, <2>1, <2>2, AStays DEF Refused
<1>3. CASE \E f : Appends(f) /\ f.t = "stop" /\ UNCHANGED missed /\ place'[w] \in {"put", "putLead"}
  <2>1. Due' = {}
    BY <1>3, DueGone
  <2> QED BY <1>1, <1>3, <2>1 DEF AInv, Alone
<1> QED BY <1>2, <1>3, StopTimerIs

LEMMA AWrites == ASSUME IInv, AInv, NEW w \in Workers, Write(w) PROVE AInv'
<1>1. UNCHANGED <<jobs, ran, now>> /\ Alone(w) /\ place[w] = "write" /\ act[w].kind \in Presses /\ \A d : ~OnIt(w, d)
  BY WriteComes, NotOnIt
<1>2. CASE Refused(w)
  <2>1. Due' = Due
    BY <1>2 DEF Refused, session, Due
  <2> QED BY <1>1, <1>2, <2>1, AStays DEF Refused
<1>3. ASSUME NEW f, Writes(w, f) PROVE AInv'
  <2>1. place'[w] = "put" /\ UNCHANGED missed
    BY <1>3 DEF Writes
  <2>2. \A d \in Due' : d \in Due \/ Coming(d)'
    <3>1. CASE act[w].kind = "end"
      BY <1>3, <3>1, DueGone DEF Writes
    <3>2. CASE act[w].kind # "end"
      <4>1. due'[w] = Due' \ Due
        BY <1>3, <3>2 DEF Writes, Due
      <4>2. \A d \in due'[w] : Coming(d)'
        BY DEF Coming, OnIt
      <4> QED BY <4>1, <4>2
    <3> QED BY <3>1, <3>2
  <2> QED BY <1>1, <2>1, <2>2, AStays
<1> QED BY <1>2, <1>3, WriteComes

LEMMA APuts == ASSUME IInv, AInv, NEW w \in Workers, Put(w) PROVE AInv'
<1>1. /\ UNCHANGED <<log, now>> /\ Alone(w) /\ place[w] \in {"put", "putLead"} /\ Schedule(due[w]) /\ due'[w] = {}
  BY PutIs
<1>2. Due' = Due
  BY <1>1 DEF Due
<1>3. \A d \in Due : OnIt(w, d) => Coming(d)'
  BY <1>1 DEF OnIt, Schedule, Coming
<1>4. (jobs \ ran) \cup missed \subseteq (jobs' \ ran') \cup missed'
  BY <1>1 DEF Schedule
<1> QED BY <1>1, <1>2, <1>3, <1>4, AStays

LEMMA ADies == ASSUME IInv, AInv, NEW w \in Workers, Die(w) PROVE AInv'
<1>1. /\ UNCHANGED <<log, now, jobs, ran>> /\ Alone(w) /\ due'[w] = {} /\ missed \cup due[w] \subseteq missed'
      /\ (place[w] \in {"job", "expire", "stop"} /\ act[w].kind = "expire" => Due \subseteq missed')
  BY DieIs
<1>2. Due' = Due
  BY <1>1 DEF Due
<1>3. \A d \in Due : OnIt(w, d) => Coming(d)'
  <2>1. place[w] = "job" => act[w].kind = "expire"
    BY DEF IInv, Acting
  <2> QED BY <1>1, <2>1 DEF OnIt, Coming
<1> QED BY <1>1, <1>2, <1>3, AStays

\* The steps that have nothing to do with timers.
LEMMA APlain ==
  ASSUME IInv, AInv, NEW w \in Workers,
         \/ \E kind \in Presses : Press(w, kind)
         \/ Hear(w) \/ Check(w) \/ Read(w) \/ Decline(w) \/ AskFor(w) \/ CatchUp(w) \/ Post(w)
  PROVE  AInv'
<1>1. /\ UNCHANGED <<log, now, jobs, ran, missed>> /\ Alone(w) /\ place[w] \notin {"job", "put", "putLead", "expire", "stop"}
      /\ due'[w] \in {due[w], {}}
  <2>1. CASE \E kind \in Presses : Press(w, kind)
    BY <2>1, PressIs DEF Same
  <2>2. CASE Hear(w) \/ Post(w)
    BY <2>2, HearIs, PostIs DEF Same
  <2>3. CASE Check(w) \/ Read(w) \/ Decline(w)
    BY <2>3, CheckIs, ReadIs, DeclineIs DEF Same, Moves
  <2>4. CASE AskFor(w) \/ CatchUp(w)
    BY <2>4, AskForIs, CatchUpIs DEF Same
  <2> QED BY <2>1, <2>2, <2>3, <2>4
<1>2. due[w] = {} /\ due'[w] = {} /\ Due' = Due /\ \A d : ~OnIt(w, d)
  BY <1>1, NotOnIt DEF AInv, Due
<1> QED BY <1>1, <1>2, AStays

LEMMA AMoves == ASSUME IInv, AInv, NEW kind \in AppKinds, AppMove(kind) PROVE AInv'
<1>1. UNCHANGED <<jobs, ran, now, exec>> /\ missed \subseteq missed' /\ Due' \subseteq Due \cup missed'
  BY AppMoveIs
<1>2. \A d \in Due : Coming(d)'
  BY <1>1 DEF AInv, Coming, OnIt, exec
<1> QED BY <1>1, <1>2 DEF AInv, Coming, exec

LEMMA ATicks == ASSUME IInv, AInv, Tick PROVE AInv'
<1>1. UNCHANGED <<log, jobs, ran, missed, exec>> /\ now \in Nat /\ now' = now + 1
  BY Plain DEF Tick, session, timers
<1>2. Due \subseteq Int /\ Due' = Due
  BY <1>1, Fields, DeadlineType DEF Due
<1>3. \A d \in Due : d <= now => d <= now'
  BY <1>1, <1>2
<1>4. \A d \in Due : Coming(d)'
  BY <1>1, <1>3 DEF AInv, Coming, OnIt, exec
<1> QED BY <1>1, <1>2, <1>4 DEF AInv, exec

LEMMA ADeletes == ASSUME AInv, Deleted PROVE AInv'
<1>1. UNCHANGED <<log, now, missed, exec>> /\ jobs' \ ran' = jobs \ ran
  BY DEF Deleted, session
<1> QED BY <1>1 DEF AInv, Coming, OnIt, Due, exec

LEMMA AHolds == ASSUME IInv, AInv, [Next]_vars PROVE AInv'
<1>1. CASE UNCHANGED vars
  BY <1>1 DEF vars, AInv, Coming, OnIt, Due
<1>2. CASE Next
  BY <1>2, AFires, ALooks, AExpires, AStops, AWrites, APuts, ADies, APlain, AMoves, ATicks, ADeletes DEF Next, Step
<1> QED BY <1>1, <1>2

\* Somebody comes back for a timer that runs (play.ts, play and expireTimer; timers.ts), but for
\* the reasons noted: for any number of executions at a time, each step that takes a schedule away
\* leaves an execution on its way to the timer, and each that sets a deadline one that asks for it.
THEOREM TimersAreKept == Spec => []SomebodyComes
<1>1. Init => AInv
  <2> SUFFICES ASSUME Init PROVE AInv
    OBVIOUS
  <2>1. Due = {}
    <3>1. IInv /\ log \in Seq(Entry) /\ Len(log) = 1 /\ log[1].t = "start"
      BY StartGood DEF IInv, TypeOK, Init, Event
    <3>7. Len(log) \in Nat
      BY <3>1
    <3>8. PICK f : Tells(log, Live(log), Len(log), f) /\ Clock(log) = f[Len(log)]
      BY <3>7, ClockIs
    <3>2. Clock(log) = f[1]
      BY <3>1, <3>8
    <3>3. 0 \in 0..Len(log) /\ 1 \in 0..Len(log)
      BY <3>1
    <3>4. f[1] = NextClock(log, Live(log), f, 1) /\ f[0] = NextClock(log, Live(log), f, 0)
      BY <3>8, <3>3, Zenon DEF Tells
    <3>5. f[0] = NoClock /\ (f[1] = Applied(f[0], log[1]) \/ f[1] = f[0])
      BY <3>4 DEF NextClock
    <3>6. f[1] = NoClock
      BY <3>1, <3>5 DEF Applied
    <3> QED BY <3>2, <3>6 DEF Due, Deadline, NoClock
  <2> QED BY <2>1 DEF AInv, Init
<1>2. AInv => SomebodyComes
  <2> SUFFICES ASSUME AInv, Quiet, NEW d \in Due PROVE d \in (jobs \ ran) \cup missed
    BY DEF SomebodyComes, Due
  <2>1. \A w \in Workers : place[w] = "idle" /\ due[w] = {}
    BY DEF Quiet, Busy, AInv
  <2> QED BY <2>1 DEF AInv, Coming, OnIt
<1>3. IInv /\ AInv /\ [Next]_vars => AInv'
  BY AHolds
<1> QED BY <1>1, <1>2, <1>3, Invariance, PTL DEF Spec

-----------------------------------------------------------------------------
(* The question: each step keeps what is held in step with the row.        *)

\* The log goes on at every step, and the blocks that asked do.
Onward == LogGoes /\ begun \in Nat /\ begun' \in Nat /\ begun <= begun'

LEMMA StepsOn == ASSUME IInv, [Next]_vars PROVE Onward
<1>1. begun \in Nat
  BY Plain
<1>2. ASSUME NEW w \in Workers, StopTimer(w) \/ Write(w) PROVE Onward
  <2>1. begun' = begun /\ (Refused(w) \/ \E f : Appends(f))
    <3>1. CASE StopTimer(w)
      BY <3>1, StopTimerIs
    <3>2. CASE Write(w)
      BY <3>2, WriteComes DEF Writes
    <3> QED BY <1>2, <3>1, <3>2
  <2>2. LogGoes
    BY <2>1 DEF Refused, LogGoes, session
  <2> QED BY <1>1, <2>1, <2>2 DEF Onward
<1>3. ASSUME NEW w \in Workers, AskFor(w) PROVE Onward
  BY <1>1, <1>3, AskForIs DEF LogGoes, Onward, session
<1>4. ASSUME NEW kind \in AppKinds, AppMove(kind) PROVE Onward
  BY <1>1, <1>4, AppMoveIs DEF LogGoes, Onward
<1>5. CASE UNCHANGED <<log, counter, begun>>
  BY <1>1, <1>5 DEF LogGoes, Onward, session
<1>6. ASSUME NEW w \in Workers,
             \/ \E kind \in Presses : Press(w, kind)
             \/ Fire(w) \/ Hear(w) \/ Die(w) \/ Check(w) \/ Look(w) \/ Read(w) \/ Expire(w) \/ Decline(w)
             \/ Put(w) \/ CatchUp(w) \/ Post(w)
      PROVE  UNCHANGED <<log, counter, begun>>
  BY <1>6 DEF Press, Fire, Hear, Die, Check, Look, Read, Expire, Decline, Put, CatchUp, Post, session, bounds
<1>7. Tick \/ Deleted \/ UNCHANGED vars => UNCHANGED <<log, counter, begun>>
  BY DEF Tick, Deleted, vars, session, bounds
<1> QED BY <1>2, <1>3, <1>4, <1>5, <1>6, <1>7 DEF Next, Step

LEMMA FreshStays ==
  ASSUME IInv, LogGoes, NEW seen, NEW i \in Fresh(log, seen)
  PROVE  i \in Fresh(log', seen) /\ log'[i] = log[i]
BY LogStays, Fields DEF Fresh

LEMMA GoesOnStays ==
  ASSUME IInv, LogGoes, NEW r, NEW q, GoesOn(r, q)
  PROVE  GoesOn(r, q)'
BY FreshStays DEF GoesOn

LEMMA FitStays ==
  ASSUME IInv, Onward, NEW r \in Row, Fit(r)
  PROVE  Fit(r)'
<1>1. counter \in Nat /\ counter' \in Nat /\ counter <= counter' /\ r.seen \in Nat /\ r.pending.move \in Nat
      /\ begun \in Nat /\ begun' \in Nat /\ begun <= begun'
  BY Fields, LogStays, RowFields DEF Onward
<1>2. r.seen <= counter' /\ r.pending.move <= begun'
  BY <1>1 DEF Fit
<1>3. \A i \in 1..Len(log) : i \in 1..Len(log') /\ log'[i] = log[i]
  BY LogStays, Fields DEF Onward
<1> QED BY <1>2, <1>3 DEF Fit

\* A step of w, by what becomes of w and of the row.
LEMMA HStays ==
  ASSUME IInv, HInv, NEW w \in Workers, Alone(w), Onward, stale \ {w} \subseteq stale', row' \in Row,
         \/ row' = row
         \/ PutRow(w) /\ place[w] # "idle",
         Holds(w)', place'[w] # "idle" => Fit(held[w])'
  PROVE  HInv'
<1>1. Fit(row)'
  <2>1. Fit(row) /\ row \in Row
    BY Plain DEF HInv
  <2>2. place[w] # "idle" => Fit(held[w]) /\ held[w] \in Row
    BY ActsAs DEF HInv
  <2>3. row' = row \/ (place[w] # "idle" /\ row' = held[w])
    BY DEF PutRow
  <2>4. PICK r \in Row : r = row' /\ Fit(r)
    BY <2>1, <2>2, <2>3
  <2>5. Fit(r)'
    BY <2>4, FitStays
  <2> QED BY <2>4, <2>5 DEF Fit
<1>2. ASSUME NEW v \in Workers \ {w}, place[v] # "idle" PROVE Fit(held[v])'
  <2>1. held'[v] = held[v] /\ held[v] \in Row /\ Fit(held[v])
    BY <1>2, ActsAs DEF HInv, Alone
  <2>2. PICK r \in Row : r = held[v] /\ Fit(r)
    BY <2>1
  <2>3. Fit(r)'
    BY <2>2, FitStays
  <2> QED BY <2>1, <2>2, <2>3 DEF Fit
<1>3. ASSUME NEW v \in Workers \ {w} PROVE Holds(v)'
  <2> SUFFICES ASSUME v \notin stale', place[v] # "idle" PROVE Holds(v)'
    <3>1. place'[v] = place[v]
      BY DEF Alone
    <3> QED BY <3>1 DEF Holds, Before
  <2>1. v \notin stale /\ row' = row
    BY DEF PutRow, Busy
  <2>2. place'[v] = place[v] /\ act'[v] = act[v] /\ held'[v] = held[v]
    BY DEF Alone
  <2>3. place[v] \in {"put", "putLead"} /\ act[v].kind # "catch" => GoesOn(row, held[v])'
    <3> SUFFICES ASSUME GoesOn(row, held[v]) PROVE GoesOn(row, held[v])'
      BY <2>1 DEF HInv, Holds
    <3>1. PICK r, q : r = row /\ q = held[v] /\ GoesOn(r, q)
      OBVIOUS
    <3>2. GoesOn(r, q)'
      BY <3>1, GoesOnStays DEF Onward
    <3> QED BY <2>1, <2>2, <3>1, <3>2 DEF GoesOn
  <2> QED BY <2>1, <2>2, <2>3 DEF HInv, Holds
<1>4. \A v \in Workers \ {w} : place'[v] = place[v]
  BY DEF Alone
<1> QED BY <1>1, <1>2, <1>3, <1>4 DEF HInv

\* An execution that comes to hold the row, goes on with it, or stops.
LEMMA HTakes ==
  ASSUME IInv, HInv, NEW w \in Workers, Alone(w), Onward, stale \ {w} \subseteq stale', row' = row,
         \/ place'[w] = "idle"
         \/ place'[w] \in Before /\ held'[w] = row
         \/ /\ place[w] \in Before /\ place'[w] \in Before \cup {"post"} /\ held'[w] = held[w]
            /\ w \in stale => w \in stale'
  PROVE  HInv'
<1>1. CASE place'[w] = "idle"
  <2>1. Holds(w)'
    BY <1>1 DEF Holds, Before
  <2> QED BY <1>1, <2>1, HStays, Plain
<1>2. CASE place'[w] \in Before /\ held'[w] = row
  <2>1. Holds(w)'
    BY <1>2 DEF Holds, Before
  <2>2. PICK r \in Row : r = row /\ Fit(r)
    BY Plain DEF HInv
  <2>3. Fit(held[w])'
    <3>1. Fit(r)'
      BY <2>2, FitStays
    <3> QED BY <1>2, <2>2, <3>1 DEF Fit
  <2> QED BY <2>1, <2>3, HStays, Plain
<1>3. CASE /\ place[w] \in Before /\ place'[w] \in Before \cup {"post"} /\ held'[w] = held[w]
           /\ w \in stale => w \in stale'
  <2>1. Holds(w)'
    BY <1>3 DEF HInv, Holds, Before
  <2>2. PICK r \in Row : r = held[w] /\ Fit(r)
    BY <1>3, ActsAs DEF HInv, Before
  <2>3. Fit(held[w])'
    <3>1. Fit(r)'
      BY <2>2, FitStays
    <3> QED BY <1>3, <2>2, <3>1 DEF Fit
  <2> QED BY <2>1, <2>3, HStays, Plain
<1> QED BY <1>1, <1>2, <1>3

LEMMA HPlain ==
  ASSUME IInv, HInv, NEW w \in Workers, Onward,
         \/ \E kind \in Presses : Press(w, kind)
         \/ Fire(w) \/ Hear(w) \/ Die(w) \/ Check(w) \/ Look(w) \/ Read(w) \/ Expire(w) \/ Decline(w)
  PROVE  HInv'
<1>1. CASE \E kind \in Presses : Press(w, kind)
  <2>1. Alone(w) /\ row' = row /\ stale' = stale /\ place'[w] \in Before /\ held'[w] = row
    BY <1>1, PressIs DEF Same, Before
  <2> QED BY <2>1, HTakes
<1>2. CASE Fire(w) \/ Hear(w)
  <2>1. /\ Alone(w) /\ row' = row /\ stale' = stale
        /\ place'[w] = "idle" \/ (place'[w] \in Before /\ held'[w] = row)
    BY <1>2, FireIs, HearIs DEF Same, exec, Before
  <2> QED BY <2>1, HTakes
<1>3. CASE Die(w)
  BY <1>3, DieIs, HTakes
<1>4. CASE \E from \in Before, to \in SUBSET (Before \cup {"post"}) : Moves(w, from, to)
  <2>1. /\ Alone(w) /\ row' = row
        /\ \/ place'[w] = "idle" /\ stale' = stale \ {w}
           \/ place[w] \in Before /\ place'[w] \in Before \cup {"post"} /\ held'[w] = held[w] /\ stale' = stale
    BY <1>4 DEF Moves, Same
  <2> QED BY <2>1, HTakes
<1>5. CASE Check(w) \/ Look(w) \/ Read(w) \/ Expire(w) \/ Decline(w)
  <2>1. /\ {"bound", "job", "play", "expire", "write"} \subseteq Before
        /\ {"play", "post"} \in SUBSET (Before \cup {"post"}) /\ {"expire"} \in SUBSET (Before \cup {"post"})
        /\ {"expire", "write"} \in SUBSET (Before \cup {"post"}) /\ {"stop"} \in SUBSET (Before \cup {"post"})
        /\ {} \in SUBSET (Before \cup {"post"})
    BY DEF Before
  <2> QED BY <1>4, <1>5, <2>1, CheckIs, LookIs, ReadIs, ExpireIs, DeclineIs
<1> QED BY <1>1, <1>2, <1>3, <1>5

LEMMA HAsks == ASSUME IInv, HInv, NEW w \in Workers, Onward, AskFor(w) PROVE HInv'
<1>1. /\ UNCHANGED <<log, counter, row, stale>> /\ Alone(w) /\ place[w] = "write" /\ place'[w] = "put"
      /\ held'[w].seen = held[w].seen /\ held'[w].ended = held[w].ended
      /\ \/ begun' = begun + 1 /\ held'[w].pending.move = begun + 1
         \/ /\ begun' = begun
            /\ held'[w].pending.move = held[w].pending.move /\ held'[w].pending.answered = held[w].pending.answered + 1
  BY AskForIs
<1>2. held[w] \in Row /\ row \in Row /\ begun \in Nat /\ Fit(held[w]) /\ Fit(row)
  BY <1>1, ActsAs, Plain DEF HInv
<1>3. /\ held[w].pending.move \in Nat /\ held[w].pending.answered \in Nat /\ row.pending.move \in Nat
      /\ held[w].pending.move <= begun /\ row.pending.move <= begun
  BY <1>2, RowFields DEF Fit
<1>4. Fit(held[w])'
  <2>1. held'[w].pending.move <= begun'
    BY <1>1, <1>2, <1>3
  <2> QED BY <1>1, <1>2, <2>1 DEF Fit
<1>5. Holds(w)'
  <2> SUFFICES ASSUME w \notin stale PROVE GoesOn(row, held[w])'
    BY <1>1 DEF Holds, Before
  <2>1. held[w] = row
    BY <1>1 DEF HInv, Holds, Before
  <2>2. \/ held'[w].pending.move > row.pending.move
        \/ held'[w].pending.move = row.pending.move /\ held'[w].pending.answered > row.pending.answered
    BY <1>1, <1>2, <1>3, <2>1
  <2> QED BY <1>1, <2>2 DEF GoesOn
<1> QED BY <1>1, <1>2, <1>4, <1>5, HStays

LEMMA HWrites == ASSUME IInv, HInv, NEW w \in Workers, Onward, Write(w) PROVE HInv'
<1>1. UNCHANGED <<row, begun>> /\ Alone(w) /\ place[w] = "write" /\ act[w].kind \in Presses
  BY WriteComes
<1>2. CASE Refused(w)
  BY <1>1, <1>2, HTakes DEF Refused
<1>3. ASSUME NEW f, Writes(w, f) PROVE HInv'
  <2>1. /\ Appends(f) /\ stale' = stale /\ place'[w] = "put" /\ act'[w] = act[w] /\ held'[w] \in Row
        /\ held'[w].seen = counter + 1 /\ (held'[w].ended <=> act[w].kind = "end")
        /\ held'[w].pending = IF act[w].kind \in Keeps THEN held[w].pending ELSE NoAsk
    BY <1>3 DEF Writes
  <2>2. Len(log) + 1 \in 1..Len(log') /\ log'[Len(log) + 1] = f /\ f.no = counter + 1 /\ counter' = counter + 1
    BY <2>1, Longer, Fields DEF Appends
  <2>3. row \in Row /\ held[w] \in Row /\ Fit(row) /\ Fit(held[w]) /\ begun \in Nat /\ counter \in Nat
    BY <1>1, ActsAs, Plain, Fields DEF HInv
  <2>4. Fit(held[w])'
    <3>1. held'[w].pending.move <= begun
      <4>1. NoAsk.move = 0
        BY DEF NoAsk
      <4> QED BY <2>1, <2>3, <4>1 DEF Fit
    <3>2. held'[w].ended => f.t = "end"
      BY <1>3, <2>1 DEF Writes
    <3> QED BY <1>1, <2>1, <2>2, <2>3, <3>1, <3>2 DEF Fit
  <2>5. Holds(w)'
    <3> SUFFICES ASSUME w \notin stale PROVE GoesOn(row, held[w])'
      BY <2>1 DEF Holds, Before
    <3>1. held[w] = row
      BY <1>1 DEF HInv, Holds, Before
    <3>2. CASE act[w].kind \in Keeps
      BY <1>1, <2>1, <3>1, <3>2 DEF GoesOn
    <3>3. CASE act[w].kind \in {"step", "answer", "undo"}
      <4>1. f.t \in {"step", "undone"}
        BY <1>3, <3>3 DEF Writes
      <4>2. row.seen \in Nat /\ row.seen <= counter
        BY <2>3, RowFields DEF Fit
      <4>3. Len(log) + 1 \in Fresh(log', row'.seen)
        BY <1>1, <2>2, <2>3, <4>2 DEF Fresh
      <4> QED BY <2>2, <4>1, <4>3 DEF GoesOn
    <3>4. CASE act[w].kind = "end"
      <4>1. held[w].pending = NoAsk /\ held'[w].pending = NoAsk
        BY <1>3, <2>1, <3>4 DEF Writes, Keeps
      <4> QED BY <1>1, <3>1, <4>1 DEF GoesOn
    <3> QED BY <1>1, <3>2, <3>3, <3>4, PressKinds DEF Keeps
  <2> QED BY <1>1, <2>1, <2>3, <2>4, <2>5, HStays
<1> QED BY <1>2, <1>3, WriteComes

LEMMA HStops == ASSUME IInv, HInv, NEW w \in Workers, Onward, StopTimer(w) PROVE HInv'
<1>1. UNCHANGED <<row, begun>> /\ Alone(w) /\ place[w] = "stop"
  BY StopTimerIs
<1>2. CASE Refused(w)
  BY <1>1, <1>2, HTakes DEF Refused
<1>3. ASSUME NEW f, Appends(f), stale' = stale, held'[w] = [held[w] EXCEPT !.seen = counter + 1],
             place'[w] \in {"put", "putLead"}
      PROVE  HInv'
  <2>1. row \in Row /\ held[w] \in Row /\ Fit(held[w]) /\ counter \in Nat /\ counter' = counter + 1
    BY <1>1, <1>3, ActsAs, Plain, Fields DEF HInv, Appends
  <2>2. held'[w].pending = held[w].pending /\ held'[w].ended = held[w].ended /\ held'[w].seen = counter + 1
    BY <1>3, <2>1 DEF Row
  <2>3. Fit(held[w])'
    <3>1. \A i \in 1..Len(log) : i \in 1..Len(log') /\ log'[i] = log[i] /\ log[i].no \in Nat
      BY <1>3, Longer, Fields
    <3>2. held[w].seen \in Nat /\ held[w].seen <= counter
      BY <2>1, RowFields DEF Fit
    <3>3. \A i \in 1..Len(log) : log[i].no <= held[w].seen => log[i].no <= counter + 1
      BY <2>1, <3>1, <3>2
    <3> QED BY <1>1, <2>1, <2>2, <3>1, <3>3 DEF Fit
  <2>4. Holds(w)'
    <3> SUFFICES ASSUME w \notin stale PROVE GoesOn(row, held[w])'
      BY <1>3 DEF Holds, Before
    <3>1. held[w] = row
      BY <1>1 DEF HInv, Holds, Before
    <3> QED BY <1>1, <2>2, <3>1 DEF GoesOn
  <2> QED BY <1>1, <1>3, <2>1, <2>3, <2>4, HStays
<1> QED BY <1>2, <1>3, StopTimerIs

LEMMA HPuts == ASSUME IInv, HInv, NEW w \in Workers, Onward, Put(w) PROVE HInv'
<1>1. /\ UNCHANGED <<log, counter, begun>> /\ Alone(w) /\ place[w] \in {"put", "putLead"} /\ PutRow(w)
      /\ place'[w] \in {"post", "play"} /\ held'[w] = held[w] /\ row' = held[w] /\ stale \ {w} \subseteq stale'
  BY PutIs DEF PutRow
<1>2. Holds(w)'
  BY <1>1 DEF Holds, Before
<1>3. held[w] \in Row /\ Fit(held[w])
  BY <1>1, ActsAs DEF HInv
<1>4. Fit(held[w])'
  BY <1>1, <1>3 DEF Fit
<1> QED BY <1>1, <1>2, <1>3, <1>4, HStays

LEMMA HPosts == ASSUME IInv, HInv, NEW w \in Workers, Onward, Post(w) PROVE HInv'
<1>1. /\ Alone(w) /\ place[w] = "post" /\ place'[w] = "idle"
      /\ PutRow(w) \/ (row' = row /\ stale' = stale \ {w})
  BY PostIs
<1>2. stale \ {w} \subseteq stale' /\ row' \in Row
  BY <1>1, ActsAs, Plain DEF PutRow
<1>3. Holds(w)'
  BY <1>1 DEF Holds, Before
<1> QED BY <1>1, <1>2, <1>3, HStays

LEMMA HCatches == ASSUME IInv, HInv, NEW w \in Workers, Onward, CatchUp(w) PROVE HInv'
<1>1. Same /\ Alone(w) /\ place[w] = "catch" /\ act[w].kind = "catch"
  BY CatchUpIs
<1>2. CASE place'[w] = "idle" /\ stale' = stale \ {w}
  BY <1>1, <1>2, HTakes DEF Same
<1>3. CASE /\ stale' = stale /\ place'[w] = "put" /\ act'[w] = act[w]
           /\ held'[w] = [pending |-> NoAsk, seen |-> log[Len(log)].no,
                          ended |-> \E i \in Fresh(log, held[w].seen) : log[i].t = "end"]
  <2>1. held'[w].pending = NoAsk /\ held'[w].seen = log[Len(log)].no
        /\ (held'[w].ended => \E i \in Fresh(log, held[w].seen) : log[i].t = "end")
    BY <1>3
  <2>2. Len(log) \in 1..Len(log) /\ log[Len(log)].no <= counter
        /\ \A i \in 1..Len(log) : log[i].no <= log[Len(log)].no
    <3>1. Len(log) \in 1..Len(log) /\ Len(log) \in Nat
      BY Fields DEF IInv, LogGood, Numbered
    <3>2. ASSUME NEW i \in 1..Len(log) PROVE log[i].no <= log[Len(log)].no
      <4>1. i = Len(log) \/ i < Len(log)
        BY <3>1
      <4>2. log[i].no \in Nat /\ log[Len(log)].no \in Nat
        BY <3>1, Fields
      <4> QED BY <3>1, <4>1, <4>2 DEF IInv, LogGood, Numbered
    <3> QED BY <3>1, <3>2 DEF IInv, LogGood, Numbered
  <2>3. Fit(held[w])'
    <3>1. NoAsk.move = 0 /\ begun \in Nat
      BY Plain DEF NoAsk
    <3> QED BY <1>1, <2>1, <2>2, <3>1 DEF Same, Fit, Fresh
  <2>4. Holds(w)'
    BY <1>1, <1>3 DEF Holds, Before
  <2> QED BY <1>1, <1>3, <2>3, <2>4, HStays, Plain DEF Same
<1> QED BY <1>2, <1>3, CatchUpIs

LEMMA HAside ==
  ASSUME IInv, HInv, Onward, UNCHANGED <<row, exec>>
  PROVE  HInv'
<1>1. Fit(row)'
  <2>1. PICK r \in Row : r = row /\ Fit(r)
    BY Plain DEF HInv
  <2>2. Fit(r)'
    BY <2>1, FitStays
  <2> QED BY <2>1, <2>2 DEF Fit
<1>2. ASSUME NEW v \in Workers PROVE Holds(v)' /\ (place'[v] # "idle" => Fit(held[v])')
  <2>1. place[v] # "idle" => Fit(held[v])'
    <3> SUFFICES ASSUME place[v] # "idle" PROVE Fit(held[v])'
      OBVIOUS
    <3>1. PICK r \in Row : r = held[v] /\ Fit(r)
      BY ActsAs DEF HInv
    <3>2. Fit(r)'
      BY <3>1, FitStays
    <3> QED BY <3>1, <3>2 DEF Fit, exec
  <2>2. Holds(v)'
    <3>1. GoesOn(row, held[v]) => GoesOn(row, held[v])'
      <4> SUFFICES ASSUME GoesOn(row, held[v]) PROVE GoesOn(row, held[v])'
        OBVIOUS
      <4>1. PICK r, q : r = row /\ q = held[v] /\ GoesOn(r, q)
        OBVIOUS
      <4>2. GoesOn(r, q)'
        BY <4>1, GoesOnStays DEF Onward
      <4> QED BY <4>1, <4>2 DEF GoesOn, exec
    <3> QED BY <3>1 DEF HInv, Holds, exec
  <2> QED BY <2>1, <2>2 DEF exec
<1> QED BY <1>1, <1>2 DEF HInv

LEMMA HKeeps == ASSUME IInv, HInv, [Next]_vars PROVE HInv'
<1>1. Onward
  BY StepsOn
<1>2. CASE UNCHANGED vars \/ Tick \/ Deleted \/ \E kind \in AppKinds : AppMove(kind)
  <2>1. UNCHANGED <<row, exec>>
    BY <1>2, AppMoveIs DEF vars, Tick, Deleted, exec
  <2> QED BY <1>1, <2>1, HAside
<1>3. CASE \E w \in Workers : (\E kind \in Presses : Press(w, kind)) \/ Fire(w) \/ Hear(w) \/ Die(w) \/ Step(w)
  BY <1>1, <1>3, HPlain, HAsks, HWrites, HStops, HPuts, HPosts, HCatches DEF Step
<1> QED BY <1>2, <1>3 DEF Next

LEMMA HStarts == Init => HInv
<1> SUFFICES ASSUME Init PROVE HInv
  OBVIOUS
<1>1. row.pending = NoAsk /\ row.seen = 1 /\ ~row.ended /\ counter = 1 /\ begun = 0
  BY DEF Init, NoRow
<1>2. \A w \in Workers : place[w] = "idle"
  BY DEF Init
<1> QED BY <1>1, <1>2 DEF HInv, Fit, Holds, Before, NoAsk

\* What QuestionKept asks of a step.
Waits ==
  row.pending # NoAsk /\ row'.pending # row.pending =>
       \/ row'.pending.move > row.pending.move
       \/ row'.pending.move = row.pending.move /\ row'.pending.answered > row.pending.answered
       \/ \E i \in Fresh(log, row.seen) : log[i].t \in {"step", "undone"}
       \/ \E w \in Workers : /\ place'[w] # place[w]
                            /\ row' = held[w]
                            /\ (w \in stale \/ act[w].kind = "catch")

\* A block waiting on an answer stays waiting (play.ts, play), for any number of executions at a
\* time: what is put over the row was made of the row there is, and what it takes a question away
\* for is in the log by then; but for an execution another has put the row since it read it, and catchUp.
THEOREM BlocksWait == Spec => QuestionKept
<1>1. ASSUME IInv, HInv, NEW w \in Workers, Put(w) \/ Post(w), row' # row, ~ (w \in stale \/ act[w].kind = "catch")
      PROVE  place'[w] # place[w] /\ row' = held[w] /\ GoesOn(row, row')
  <2>1. CASE Put(w)
    <3>1. place[w] \in {"put", "putLead"} /\ row' = held[w]
      BY <1>1, <2>1, PutIs DEF PutRow
    <3>2. place'[w] \in {"post", "play"}
      BY <1>1, <2>1, PutIs
    <3> QED BY <1>1, <3>1, <3>2 DEF HInv, Holds
  <2>2. CASE Post(w)
    <3>1. place[w] = "post" /\ place'[w] = "idle" /\ row' = held[w]
      BY <1>1, <2>2, PostIs DEF PutRow
    <3> QED BY <1>1, <3>1 DEF HInv, Holds
  <2> QED BY <1>1, <2>1, <2>2
<1>2. ASSUME [Next]_vars, row' # row PROVE \E w \in Workers : Put(w) \/ Post(w)
  <2>1. ASSUME NEW w \in Workers, Step(w) PROVE Put(w) \/ Post(w)
    <3>1. StopTimer(w) \/ Write(w) \/ AskFor(w) => row' = row
      BY DEF StopTimer, Write, AskFor
    <3>2. Check(w) \/ Look(w) \/ Read(w) \/ Expire(w) \/ Decline(w) \/ CatchUp(w) => row' = row
      BY DEF Check, Look, Read, Expire, Decline, CatchUp
    <3> QED BY <1>2, <2>1, <3>1, <3>2 DEF Step
  <2>2. \A w \in Workers : \A kind \in Presses : Press(w, kind) => row' = row
    BY DEF Press
  <2>3. \A w \in Workers : Fire(w) \/ Hear(w) \/ Die(w) => row' = row
    BY DEF Fire, Hear, Die
  <2>4. UNCHANGED vars \/ Tick \/ Deleted \/ (\E kind \in AppKinds : AppMove(kind)) => row' = row
    BY DEF vars, Tick, Deleted, AppMove
  <2>5. PICK w \in Workers : Step(w)
    BY <1>2, <2>2, <2>3, <2>4 DEF Next
  <2> QED BY <2>1, <2>5
<1>3. ASSUME IInv, HInv, [Next]_vars PROVE Waits
  <2> SUFFICES ASSUME row.pending # NoAsk, row'.pending # row.pending PROVE Waits
    BY DEF Waits
  <2>1. PICK w \in Workers : Put(w) \/ Post(w)
    BY <1>2, <1>3
  <2>2. CASE ~ (w \in stale \/ act[w].kind = "catch")
    BY <1>1, <1>3, <2>1, <2>2 DEF GoesOn, Waits
  <2>3. CASE w \in stale \/ act[w].kind = "catch"
    <3>1. row' = held[w]
      BY <1>3, <2>1, PutIs, PostIs DEF PutRow
    <3>2. place'[w] # place[w]
      BY <1>3, <2>1, PutIs, PostIs
    <3> QED BY <2>3, <3>1, <3>2 DEF Waits
  <2> QED BY <2>2, <2>3
<1>4. IInv /\ HInv /\ [Next]_vars => HInv'
  BY HKeeps
<1>5. IInv /\ HInv /\ [Next]_vars => Waits
  BY <1>3
<1> QED BY <1>4, <1>5, HStarts, Invariance, PTL DEF Spec, QuestionKept, Waits

-----------------------------------------------------------------------------
(* The thread is told: what lies past what a row has seen is yet to be heard. *)

\* A bot's entry speaks for the table as it is.
LEMMA BotTells ==
  ASSUME IInv, NEW f, Appends(f), f.by = "bot"
  PROVE  TInv'
<1>1. ASSUME NEW i \in Apps' PROVE Heard(i)'
  <2>1. i \in 1..Len(log)
    BY <1>1, Longer, Fields DEF Apps
  <2>2. Len(log) + 1 \in (i + 1)..Len(log') /\ log'[Len(log) + 1].by = "bot"
    BY <2>1, Longer, Fields
  <2> QED BY <2>2 DEF Heard
<1> QED BY <1>1 DEF TInv, Shown, Spoken

\* An execution goes on while the log stands: it need only answer for what it was telling, what
\* it takes the row to have seen and what it was to catch up with.
LEMMA TStays ==
  ASSUME IInv, TInv, NEW w \in Workers, Alone(w), log' = log, told \subseteq told', died' = died,
         \/ row' = row
         \/ place[w] # "idle" /\ row' = held[w],
         \A i \in Apps : Telling(w, i) => Spoken(i)',
         \/ place'[w] = "idle"
         \/ held'[w].seen = row.seen
         \/ place[w] # "idle" /\ held'[w].seen = held[w].seen
         \/ Shown(held[w])',
         \A i \in Apps : calls > 0 \/ (place[w] = "catch" /\ held[w].seen < log[i].no)
                         => Spoken(i)' \/ calls' > 0 \/ (place'[w] = "catch" /\ held'[w].seen < log[i].no)
  PROVE  TInv'
<1> SUFFICES ASSUME ~died PROVE TInv'
  BY DEF TInv
<1>1. Apps' = Apps
  BY DEF Apps
<1>2. ASSUME NEW i \in Apps, Spoken(i) PROVE Spoken(i)'
  <2>1. Heard(i) => Heard(i)'
    BY DEF Heard
  <2>2. \A v \in Workers \ {w} : Telling(v, i) => Telling(v, i)'
    BY DEF Telling, Alone
  <2> QED BY <1>2, <2>1, <2>2 DEF Spoken
<1>3. Shown(row) /\ \A v \in Workers : place[v] # "idle" => Shown(held[v])
  BY DEF TInv
<1>4. ASSUME NEW r, Shown(r), NEW i \in Apps, log[i].no <= r.seen PROVE Spoken(i)'
  BY <1>2, <1>4 DEF Shown
<1>5. Shown(row)'
  BY <1>1, <1>3, <1>4 DEF Shown
<1>6. ASSUME NEW v \in Workers, place'[v] # "idle" PROVE Shown(held[v])'
  <2>1. CASE v = w
    <3>1. CASE Shown(held[w])'
      BY <2>1, <3>1
    <3>2. CASE held'[w].seen = row.seen
      BY <1>1, <1>3, <1>4, <2>1, <3>2 DEF Shown
    <3>3. CASE place[w] # "idle" /\ held'[w].seen = held[w].seen
      BY <1>1, <1>3, <1>4, <2>1, <3>3 DEF Shown
    <3> QED BY <1>6, <2>1, <3>1, <3>2, <3>3
  <2>2. CASE v # w
    <3>1. place[v] # "idle" /\ held'[v] = held[v]
      BY <1>6, <2>2 DEF Alone
    <3> QED BY <1>1, <1>3, <1>4, <3>1 DEF Shown
  <2> QED BY <2>1, <2>2
<1>7. ASSUME NEW i \in Apps
      PROVE  \/ Spoken(i)' \/ calls' > 0
             \/ \E v \in Workers : place'[v] = "catch" /\ held'[v].seen < log'[i].no
  <2>1. CASE Spoken(i)
    BY <1>2, <1>7, <2>1
  <2>2. CASE calls > 0 \/ (place[w] = "catch" /\ held[w].seen < log[i].no)
    BY <1>7, <2>2
  <2>3. ASSUME NEW v \in Workers \ {w}, place[v] = "catch", held[v].seen < log[i].no
        PROVE  place'[v] = "catch" /\ held'[v].seen < log'[i].no
    BY <2>3 DEF Alone
  <2> QED BY <1>7, <2>1, <2>2, <2>3 DEF TInv
<1> QED BY <1>1, <1>5, <1>6, <1>7 DEF TInv

LEMMA TPlain ==
  ASSUME IInv, TInv, NEW w \in Workers,
         \/ \E kind \in Presses : Press(w, kind)
         \/ Fire(w) \/ Check(w) \/ Look(w) \/ Read(w) \/ Expire(w) \/ Decline(w) \/ AskFor(w)
  PROVE  TInv'
<1>1. UNCHANGED <<log, row, told, died, calls>> /\ Alone(w) /\ place[w] \notin {"catch", "put", "post"}
      /\ \/ place'[w] = "idle" \/ held'[w].seen = row.seen
         \/ place[w] # "idle" /\ held'[w].seen = held[w].seen
  <2>1. CASE \E kind \in Presses : Press(w, kind)
    BY <2>1, PressIs DEF Same
  <2>2. CASE Fire(w)
    BY <2>2, FireIs DEF Same, exec
  <2>3. CASE Check(w) \/ Look(w) \/ Read(w)
    BY <2>3, CheckIs, LookIs, ReadIs DEF Same, Moves
  <2>4. CASE Expire(w) \/ Decline(w)
    BY <2>4, ExpireIs, DeclineIs DEF Same, Moves
  <2>5. CASE AskFor(w)
    BY <2>5, AskForIs
  <2> QED BY <2>1, <2>2, <2>3, <2>4, <2>5
<1>2. \A i \in Apps : ~Telling(w, i)
  BY <1>1 DEF Telling
<1> QED BY <1>1, <1>2, TStays

\* Past an end the row shows nothing is to be heard; before it all has been told.
LEMMA EndedTold ==
  ASSUME IInv, HInv, TInv, ~died, row.ended, NEW i \in Apps
  PROVE  Spoken(i)
<1>1. PICK k \in 1..Len(log) : log[k].t = "end" /\ log[k].no <= row.seen
  BY DEF HInv, Fit
<1>2. i \in 1..Len(log)
  BY DEF Apps
<1>3. CASE k < i
  <2>1. k \in 1..(i - 1)
    BY <1>2, <1>3, Fields
  <2> QED BY <1>1, <2>1 DEF Spoken, Heard
<1>4. CASE ~ (k < i)
  <2>1. log[i].no <= log[k].no
    <3>1. i = k \/ i < k
      BY <1>2, <1>4, Fields
    <3>2. log[i].no \in Nat /\ log[k].no \in Nat
      BY <1>2, Fields
    <3> QED BY <1>2, <3>1, <3>2 DEF IInv, LogGood, Numbered
  <2>2. row.seen \in Nat /\ log[i].no \in Nat /\ log[k].no \in Nat
    BY <1>2, Plain, RowFields, Fields
  <2>3. log[i].no <= row.seen
    BY <1>1, <2>1, <2>2
  <2> QED BY <2>3 DEF TInv, Shown
<1> QED BY <1>3, <1>4

LEMMA THears == ASSUME IInv, HInv, TInv, NEW w \in Workers, Hear(w) PROVE TInv'
<1> SUFFICES ASSUME ~died PROVE TInv'
  BY HearIs DEF TInv, Same
<1>1. Same /\ Alone(w) /\ place[w] = "idle"
  BY HearIs
<1>2. \A i \in Apps : ~Telling(w, i)
  BY <1>1 DEF Telling
<1>3. ASSUME NEW i \in Apps, Spoken(i) PROVE Spoken(i)'
  <2>1. Heard(i) => Heard(i)'
    BY <1>1 DEF Heard, Same
  <2>2. \A v \in Workers : Telling(v, i) => Telling(v, i)'
    BY <1>1, <1>2, <1>3 DEF Telling, Alone, Same
  <2> QED BY <1>3, <2>1, <2>2 DEF Spoken
<1>4. CASE row.ended /\ UNCHANGED exec
  <2>1. \A i \in Apps : Spoken(i)'
    BY <1>3, <1>4, EndedTold
  <2>2. place'[w] = "idle"
    BY <1>1, <1>4 DEF exec
  <2> QED BY <1>1, <1>2, <2>1, <2>2, TStays DEF Same
<1>5. CASE place'[w] = "catch" /\ held'[w] = row
  <2>1. \A i \in Apps : Spoken(i)' \/ held'[w].seen < log[i].no
    <3> SUFFICES ASSUME NEW i \in Apps, ~ (row.seen < log[i].no) PROVE Spoken(i)'
      BY <1>5
    <3>1. log[i].no <= row.seen
      BY Plain, RowFields, Fields DEF Apps
    <3> QED BY <1>3, <3>1 DEF TInv, Shown
  <2> QED BY <1>1, <1>2, <1>5, <2>1, TStays DEF Same
<1> QED BY <1>4, <1>5, HearIs

LEMMA TWrites == ASSUME IInv, TInv, NEW w \in Workers, StopTimer(w) \/ Write(w) PROVE TInv'
<1>1. /\ UNCHANGED <<row, told, died, calls>> /\ Alone(w) /\ place[w] \in {"stop", "write"}
      /\ Refused(w) \/ \E f : Appends(f) /\ f.by = "bot"
  <2>1. CASE StopTimer(w)
    BY <2>1, StopTimerIs
  <2>2. CASE Write(w)
    BY <2>2, WriteComes DEF Writes
  <2> QED BY <2>1, <2>2
<1>2. CASE Refused(w)
  <2>1. log' = log /\ place'[w] = "idle"
    BY <1>2 DEF Refused, session
  <2>2. \A i \in Apps : ~Telling(w, i)
    BY <1>1 DEF Telling
  <2> QED BY <1>1, <2>1, <2>2, TStays
<1> QED BY <1>1, <1>2, BotTells

LEMMA TPuts == ASSUME IInv, TInv, NEW w \in Workers, Put(w) PROVE TInv'
<1>1. /\ UNCHANGED <<log, told, died, calls>> /\ Alone(w) /\ place[w] \in {"put", "putLead"} /\ row' = held[w]
      /\ act'[w] = act[w] /\ held'[w] = held[w] /\ read'[w] = read[w]
  BY PutIs DEF PutRow
<1>2. place[w] = "put" => place'[w] = "post"
  BY PutIs
<1>3. \A i \in Apps : Telling(w, i) => Telling(w, i)'
  BY <1>1, <1>2 DEF Telling
<1> QED BY <1>1, <1>3, TStays DEF Spoken

LEMMA TPosts == ASSUME IInv, TInv, NEW w \in Workers, Post(w) PROVE TInv'
<1>1. /\ UNCHANGED <<log, died, calls>> /\ Alone(w) /\ place[w] = "post" /\ place'[w] = "idle"
      /\ row' = row \/ row' = held[w]
      /\ told' = IF act[w].kind = "catch"
                 THEN told \cup {i \in (read[w] + 1)..Len(log) : log[i].no <= held[w].seen} ELSE told
  BY PostIs DEF PutRow
<1>2. ASSUME NEW i \in Apps, Telling(w, i) PROVE i \in told'
  <2>1. act[w].kind = "catch" /\ i > read[w] /\ log[i].no <= held[w].seen /\ i \in 1..Len(log) /\ read[w] \in Nat
    BY <1>2, ActsAs DEF Telling, Apps
  <2>2. i \in (read[w] + 1)..Len(log)
    BY <2>1, Fields
  <2> QED BY <1>1, <2>1, <2>2
<1>3. told \subseteq told'
  BY <1>1
<1>4. \A i \in Apps : Telling(w, i) => Spoken(i)'
  BY <1>2 DEF Spoken, Heard
<1> QED BY <1>1, <1>3, <1>4, TStays

\* What is fresh is the log's last part.
LEMMA FreshLast ==
  ASSUME IInv, NEW seen \in Nat, NEW i \in Fresh(log, seen)
  PROVE  i > Len(log) - Cardinality(Fresh(log, seen))
<1> DEFINE F == Fresh(log, seen)
           n == Len(log)
<1>1. i \in 1..n /\ n \in Nat /\ i \in Int
  BY Fields DEF Fresh
<1>2. i..n \subseteq F
  <2>1. ASSUME NEW j \in i..n PROVE j \in F
    <3>1. j \in 1..n /\ i \in 1..n /\ (i < j \/ i = j)
      BY <1>1
    <3>2. log[i].no > seen /\ log[i].no \in Nat /\ log[j].no \in Nat
      BY <3>1, Fields DEF Fresh
    <3>3. i < j => log[i].no < log[j].no
      BY <3>1 DEF IInv, LogGood, Numbered
    <3>4. log[j].no > seen
      BY <3>1, <3>2, <3>3
    <3> QED BY <3>1, <3>4 DEF Fresh
  <2> QED BY <2>1
<1>3. IsFiniteSet(F) /\ Cardinality(F) \in Nat
  BY FreshIs, Fields
<1>4. Cardinality(i..n) = n - i + 1
  BY <1>1, FS_Interval
<1> HIDE DEF F
<1>5. Cardinality(i..n) <= Cardinality(F)
  BY <1>2, <1>3, FS_Subset
<1> QED BY <1>1, <1>3, <1>4, <1>5 DEF F

LEMMA TCatches == ASSUME IInv, TInv, NEW w \in Workers, CatchUp(w) PROVE TInv'
<1> SUFFICES ASSUME ~died PROVE TInv'
  BY CatchUpIs DEF TInv, Same
<1>1. Same /\ UNCHANGED calls /\ Alone(w) /\ place[w] = "catch" /\ act[w].kind = "catch"
  BY CatchUpIs
<1>2. \A i \in Apps : ~Telling(w, i)
  BY <1>1 DEF Telling
<1>3. held[w].seen \in Nat
  BY ActsAs, RowFields
<1>4. CASE Fresh(log, held[w].seen) = {} /\ place'[w] = "idle"
  <2>1. \A i \in Apps : ~ (held[w].seen < log[i].no)
    BY <1>3, <1>4, Fields DEF Apps, Fresh
  <2> QED BY <1>1, <1>2, <1>4, <2>1, TStays DEF Same
<1>5. CASE /\ place'[w] = "put" /\ act'[w] = act[w] /\ read'[w] = Len(log) - Cardinality(Fresh(log, held[w].seen))
           /\ held'[w] = [pending |-> NoAsk, seen |-> log[Len(log)].no,
                          ended |-> \E i \in Fresh(log, held[w].seen) : log[i].t = "end"]
  <2>1. ASSUME NEW i \in Apps PROVE Spoken(i)'
    <3>0. i \in 1..Len(log) /\ log[i].no \in Nat
      BY Fields DEF Apps
    <3>1. CASE i \in Fresh(log, held[w].seen)
      <4>1. i > read'[w]
        BY <1>3, <1>5, <3>1, FreshLast
      <4>2. log[i].no <= log[Len(log)].no
        <5>1. Len(log) \in 1..Len(log) /\ (i = Len(log) \/ i < Len(log))
          BY <3>0, Fields
        <5>2. log[Len(log)].no \in Nat
          BY <5>1, Fields
        <5> QED BY <3>0, <5>1, <5>2 DEF IInv, LogGood, Numbered
      <4>3. held'[w].seen = log[Len(log)].no
        BY <1>5
      <4> QED BY <1>1, <1>5, <4>1, <4>2, <4>3 DEF Spoken, Telling, Same
    <3>2. CASE i \notin Fresh(log, held[w].seen)
      <4>1. log[i].no <= held[w].seen
        BY <1>3, <3>0, <3>2 DEF Fresh
      <4>2. Spoken(i)
        BY <1>1, <4>1 DEF TInv, Shown
      <4>3. Heard(i) => Heard(i)'
        BY <1>1 DEF Heard, Same
      <4>4. \A v \in Workers : Telling(v, i) => Telling(v, i)'
        BY <1>1, <1>2, <2>1 DEF Telling, Alone, Same
      <4> QED BY <4>2, <4>3, <4>4 DEF Spoken
    <3> QED BY <3>1, <3>2
  <2>2. Shown(held[w])'
    <3>1. Apps' = Apps
      BY <1>1 DEF Apps, Same
    <3> QED BY <2>1, <3>1 DEF Shown
  <2> QED BY <1>1, <1>2, <2>1, <2>2, TStays DEF Same
<1> QED BY <1>4, <1>5, CatchUpIs

\* A move in the app is yet to be told: no row has seen it, and the job is asked for.
LEMMA TMoves == ASSUME IInv, HInv, TInv, NEW kind \in AppKinds, AppMove(kind) PROVE TInv'
<1> SUFFICES ASSUME ~died PROVE TInv'
  BY AppMoveIs DEF TInv
<1>1. UNCHANGED <<row, exec, told, died>> /\ calls' = IF row.ended THEN calls ELSE calls + 1
  BY AppMoveIs
<1>2. calls \in Nat /\ (calls > 0 => calls' > 0) /\ (~row.ended => calls' > 0)
  BY <1>1 DEF IInv, TypeOK
<1>3. log' = log \/ \E f : Appends(f)
  BY AppMoveIs
<1>4. \A i \in 1..Len(log) : i \in 1..Len(log') /\ log'[i] = log[i]
  BY <1>3, Longer, Fields
<1>5. ASSUME NEW i \in Apps, Spoken(i) PROVE Spoken(i)'
  <2>1. i \in 1..Len(log) /\ Len(log) <= Len(log') /\ Len(log') \in Nat /\ Len(log) \in Nat
    BY <1>3, Longer, Fields DEF Apps
  <2>2. Heard(i) => Heard(i)'
    BY <1>1, <1>4, <2>1 DEF Heard
  <2>3. \A v \in Workers : Telling(v, i) => Telling(v, i)'
    BY <1>1, <1>4, <2>1 DEF Telling, exec
  <2> QED BY <1>5, <2>2, <2>3 DEF Spoken
<1>6. ASSUME NEW i \in Apps', i \notin Apps
      PROVE  i = Len(log) + 1 /\ log'[i].no = counter + 1
  <2>1. i \notin 1..Len(log) /\ i \in 1..Len(log')
    BY <1>4, <1>6 DEF Apps
  <2>2. PICK f : Appends(f)
    BY <1>3, <2>1
  <2> QED BY <2>1, <2>2, Longer
<1>7. ASSUME NEW r \in Row, Fit(r), Shown(r), NEW i \in Apps', log'[i].no <= r.seen PROVE Spoken(i)'
  <2>1. CASE i \in Apps
    <3>1. log'[i] = log[i]
      BY <1>4, <2>1 DEF Apps
    <3> QED BY <1>5, <1>7, <2>1, <3>1 DEF Shown
  <2>2. CASE i \notin Apps
    <3>1. log'[i].no = counter + 1 /\ counter \in Nat /\ r.seen \in Nat /\ r.seen <= counter
      BY <1>6, <1>7, <2>2, Fields, RowFields DEF Fit
    <3> QED BY <1>7, <3>1
  <2> QED BY <2>1, <2>2
<1>8. Shown(row)'
  BY <1>1, <1>7, Plain DEF HInv, TInv, Shown
<1>9. ASSUME NEW v \in Workers, place'[v] # "idle" PROVE Shown(held[v])'
  BY <1>1, <1>7, <1>9, ActsAs DEF HInv, TInv, Shown, exec
<1>10. ASSUME NEW i \in Apps'
       PROVE  \/ Spoken(i)' \/ calls' > 0
              \/ \E v \in Workers : place'[v] = "catch" /\ held'[v].seen < log'[i].no
  <2>1. CASE i \in Apps
    <3>1. log'[i] = log[i]
      BY <1>4, <2>1 DEF Apps
    <3> QED BY <1>1, <1>2, <1>5, <2>1, <3>1 DEF TInv, exec
  <2>2. CASE i \notin Apps /\ row.ended
    <3>1. PICK k \in 1..Len(log) : log[k].t = "end"
      BY <2>2 DEF HInv, Fit
    <3>2. k \in 1..(i - 1) /\ log'[k].t = "end"
      BY <1>4, <1>6, <1>10, <2>2, <3>1, Fields
    <3> QED BY <3>2 DEF Spoken, Heard
  <2> QED BY <1>2, <2>1, <2>2
<1> QED BY <1>8, <1>9, <1>10 DEF TInv

LEMMA TAside ==
  ASSUME TInv, UNCHANGED <<log, row, exec, told, calls, died>>
  PROVE  TInv'
BY DEF TInv, Shown, Spoken, Heard, Telling, Apps, exec

LEMMA THolds == ASSUME IInv, HInv, TInv, [Next]_vars PROVE TInv'
<1>1. ASSUME NEW w \in Workers, Step(w) PROVE TInv'
  BY <1>1, TPlain, TWrites, TPuts, TCatches, TPosts DEF Step
<1>2. ASSUME NEW w \in Workers, \/ \E kind \in Presses : Press(w, kind)
                                \/ Fire(w) \/ Hear(w)
      PROVE  TInv'
  BY <1>2, TPlain, THears
<1>3. ASSUME NEW w \in Workers, Die(w) PROVE TInv'
  BY <1>3, DieIs DEF TInv
<1>4. CASE UNCHANGED vars \/ Tick \/ Deleted
  <2>1. UNCHANGED <<log, row, exec, told, calls, died>>
    BY <1>4 DEF vars, Tick, Deleted, session, exec
  <2> QED BY <2>1, TAside
<1> QED BY <1>1, <1>2, <1>3, <1>4, TMoves DEF Next

\* The thread has heard of every move made in the app (play.ts, catchUp), for any number of
\* executions at a time, any presses and any moves in the app.
THEOREM ThreadIsTold == Spec => []ThreadHeard
<1>1. Init => TInv
  <2> SUFFICES ASSUME Init PROVE TInv
    OBVIOUS
  <2>1. Len(log) = 1 /\ log[1].by = "bot" /\ \A w \in Workers : place[w] = "idle"
    BY DEF Init, Event
  <2>2. Apps = {}
    BY <2>1 DEF Apps
  <2> QED BY <2>1, <2>2 DEF TInv, Shown
<1>2. IInv /\ TInv => ThreadHeard
  <2> SUFFICES ASSUME IInv, TInv, Quiet, calls = 0, ~died, NEW i \in 1..Len(log), log[i].by = "app" PROVE Heard(i)
    BY DEF ThreadHeard, Heard
  <2>1. \A w \in Workers : place[w] = "idle"
    BY DEF Quiet, Busy
  <2>2. Spoken(i)
    BY <2>1 DEF TInv, Apps
  <2> QED BY <2>1, <2>2 DEF Spoken, Telling
<1>3. IInv /\ HInv /\ [Next]_vars => HInv'
  BY HKeeps
<1>4. IInv /\ HInv /\ TInv /\ [Next]_vars => TInv'
  BY THolds
<1> QED BY <1>1, <1>2, <1>3, <1>4, HStarts, Invariance, PTL DEF Spec
=============================================================================
