----------------------------- MODULE GuildTable -----------------------------
(***************************************************************************)
(* A run the bot hosts in Discord: presses, timers that come due and the   *)
(* app's moves, each handled by an execution that reads the guild-run row  *)
(* and the log and puts the row back whole (play.ts, interactions.ts,      *)
(* guilds.ts, timers.ts; clock.ts, drive.ts and log.ts of the engine).     *)
(*                                                                         *)
(* One unit of a run is played: its steps in order, then its close, which  *)
(* ends the run.  An entry of the log is the batch of one move.            *)
(***************************************************************************)
EXTENDS Integers, Sequences, FiniteSets

CONSTANTS
  Workers,    \* executions that may run at a time
  Steps,      \* steps of the unit before the one that closes it
  Asks,       \* steps that stop to ask
  Questions,  \* how often they ask
  Length,     \* of the unit's timer
  Second,     \* moments of the model's time a second has
  Presses,    \* what is pressed
  AppKinds,   \* what is played in the app
  MayDie,     \* whether an execution may stop half way
  MaxLog,     \* bound: entries, with executions under way, before which something is played
  MaxAsks,    \* bound: blocks that ask
  MaxApp,     \* bound: moves in the app
  MaxTime     \* bound: time

ASSUME TableAssumption ==
  /\ Steps \in Nat /\ Asks \subseteq 1..Steps /\ Questions \in Nat \ {0}
  /\ Length \in Nat \ {0} /\ Second \in Nat \ {0}
  /\ Presses \subseteq {"step", "answer", "undo", "note", "clock", "pause", "resume", "end"}
  /\ AppKinds \subseteq {"step", "pause", "resume", "stop", "end", "repeat"}
  /\ MayDie \in BOOLEAN /\ MaxLog \in Nat /\ MaxAsks \in Nat /\ MaxApp \in Nat /\ MaxTime \in Nat

VARIABLES
  log,      \* the session's events
  counter,  \* META's seq: the last number handed out
  row,      \* the guild-run row
  jobs,     \* the schedules there are, each named for its deadline
  ran,      \* those of them that have run and are not deleted yet
  calls,    \* jobs asked for after a move in the app
  now,
  place,    \* where each execution stands
  act,      \* what it is for
  held,     \* the row as it read it, then as it will put it
  read,     \* how much of the log it read
  at,       \* when its play began
  due,      \* the deadline it is about to ask a schedule for, if any
  led,      \* whether it stopped a timer on its way
  begun,    \* blocks that asked so far
  played,   \* moves in the app so far
  told,     \* entries the thread was told of after a move in the app
  missed,   \* history: deadlines nobody comes back for, for the reasons SomebodyComes lists
  stale,    \* history: executions that read the row before another put it
  died      \* whether an execution ever stopped half way

session == <<log, counter>>
timers  == <<jobs, ran, missed>>
exec    == <<place, act, held, read, at, due, led, stale>>
bounds  == <<begun, played>>
vars    == <<log, counter, row, jobs, ran, calls, now, place, act, held, read, at, due, led,
             begun, played, told, missed, stale, died>>

Close == Steps + 1
NoAsk == [step |-> 0, move |-> 0, answered |-> 0]
NoAct == [kind |-> "none", step |-> 0]
NoRow == [pending |-> NoAsk, seen |-> 0, ended |-> FALSE]

Kinds  == {"start", "step", "note", "undone", "clock", "pause", "resume", "stop", "end"}
Entry  == [no : Nat, t : Kinds, by : {"bot", "app"}, step : 0..Close, at : Int,
           move : Nat, void : Nat]
Ask    == [step : 0..Steps, move : Nat, answered : 0..(Questions - 1)]
Row    == [pending : Ask, seen : Nat, ended : BOOLEAN]
Places == {"idle", "bound", "play", "write", "job", "expire", "stop", "putLead", "catch", "put", "post"}

TypeOK ==
  /\ log \in Seq(Entry) /\ counter \in Nat
  /\ row \in Row /\ jobs \subseteq Int /\ ran \subseteq jobs /\ missed \subseteq Int
  /\ calls \in Nat /\ now \in 0..MaxTime
  /\ place \in [Workers -> Places]
  /\ act \in [Workers -> [kind : Presses \cup {"none", "expire", "catch"}, step : 0..Close]]
  /\ held \in [Workers -> Row] /\ read \in [Workers -> Nat] /\ at \in [Workers -> 0..MaxTime]
  /\ due \in [Workers -> SUBSET Int] /\ led \in [Workers -> BOOLEAN]
  /\ begun \in Nat /\ played \in 0..MaxApp
  /\ told \subseteq 1..Len(log) /\ stale \subseteq Workers /\ died \in BOOLEAN

Event(t, by) == [no |-> 0, t |-> t, by |-> by, step |-> 0, at |-> 0, move |-> 0, void |-> 0]

\* The run is opened and its unit entered.
Init ==
  /\ log = <<[Event("start", "bot") EXCEPT !.no = 1]>> /\ counter = 1
  /\ row = [NoRow EXCEPT !.seen = 1]
  /\ jobs = {} /\ ran = {} /\ calls = 0 /\ now = 0
  /\ place = [w \in Workers |-> "idle"] /\ act = [w \in Workers |-> NoAct]
  /\ held = [w \in Workers |-> NoRow] /\ read = [w \in Workers |-> 0]
  /\ at = [w \in Workers |-> 0] /\ due = [w \in Workers |-> {}]
  /\ led = [w \in Workers |-> FALSE]
  /\ begun = 0 /\ played = 0
  /\ told = {} /\ missed = {} /\ stale = {} /\ died = FALSE

-----------------------------------------------------------------------------
(* The run as a log l tells it: log.ts, clock.ts, reduce.ts.               *)

Live(l)  == {i \in 1..Len(l) : /\ l[i].t # "undone"
                               /\ \A j \in 1..Len(l) : l[j].t = "undone" => l[j].void # i}
Done(l)  == {l[i].step : i \in {j \in Live(l) : l[j].t = "step"}}
Ended(l) == \E i \in Live(l) : l[i].t = "end"

\* The step the table is at, 0 where the run is over.
Current(l) == IF Ended(l) THEN 0 ELSE CHOOSE s \in 1..Close : s \notin Done(l) /\ 1..(s - 1) \subseteq Done(l)

NoClock == [status |-> "none", since |-> 0, ran |-> 0]
Ran(c, t) == c.ran + (IF t > c.since THEN t - c.since ELSE 0)
Applied(c, e) ==
  CASE e.t = "clock"  /\ c.status = "none"          -> [status |-> "running", since |-> e.at, ran |-> 0]
    [] e.t = "pause"  /\ c.status = "running"       -> [status |-> "paused", since |-> 0, ran |-> Ran(c, e.at)]
    [] e.t = "resume" /\ c.status = "paused"        -> [c EXCEPT !.status = "running", !.since = e.at]
    [] e.t \in {"stop", "end"} /\ c.status # "none" -> [NoClock EXCEPT !.status = "done"]
    [] OTHER -> c
Clock(l) == LET live == Live(l)
                upTo[i \in 0..Len(l)] == IF i = 0 THEN NoClock
                                         ELSE IF i \in live THEN Applied(upTo[i - 1], l[i]) ELSE upTo[i - 1]
            IN upTo[Len(l)]

\* When it runs out, if it runs: at most one moment.
RunsOut(c)   == c.since + Length - c.ran
Deadline(c)  == IF c.status = "running" THEN {RunsOut(c)} ELSE {}

\* A schedule is made to the second, so it may run before its deadline.
Comes(d) == d - (d % Second)

\* A faulty RanOut: by the second.
RanOut_BySecond(c, t) == c.status = "running" /\ Comes(RunsOut(c)) <= t
RanOut(c, t) == c.status = "running" /\ RunsOut(c) <= t

-----------------------------------------------------------------------------
(* Executions.                                                             *)

Go(w, where) == place' = [place EXCEPT ![w] = where]
Stay         == UNCHANGED <<act, held, read, at, due, led, stale>>
Rest(w) == /\ Go(w, "idle")
           /\ act' = [act EXCEPT ![w] = NoAct] /\ held' = [held EXCEPT ![w] = NoRow]
           /\ read' = [read EXCEPT ![w] = 0] /\ at' = [at EXCEPT ![w] = 0]
           /\ due' = [due EXCEPT ![w] = {}] /\ led' = [led EXCEPT ![w] = FALSE]
Stop(w) == Rest(w) /\ stale' = stale \ {w}

Busy == {w \in Workers : place[w] # "idle"}

\* The row is put: whoever else holds it holds an old one.
PutRow(w) ==
  /\ row' = held[w]
  /\ stale' = (stale \ {w}) \cup (IF held[w] = row THEN {} ELSE Busy \ {w})

\* An execution reads the row; where the run has ended it does nothing.
Begin(w, a, where) ==
  /\ place[w] = "idle"
  /\ IF row.ended THEN UNCHANGED exec
     ELSE /\ Go(w, where)
          /\ act' = [act EXCEPT ![w] = a] /\ held' = [held EXCEPT ![w] = row]
          /\ UNCHANGED <<read, at, due, led, stale>>

\* A button names the step it was drawn for; the card it is on may be an old one.
Named == {"step", "end"}
Drawn == {Current(SubSeq(log, 1, n)) : n \in 1..Len(log)} \ {0}
Press(w, kind) ==
  /\ ~row.ended /\ Len(log) + Cardinality(Busy) < MaxLog /\ (kind = "step" => begun < MaxAsks)
  /\ \E s \in IF kind \in Named THEN Drawn ELSE {0} :
       Begin(w, [kind |-> kind, step |-> s], IF kind \in Named THEN "bound" ELSE "play")
  /\ UNCHANGED <<session, row, timers, calls, now, bounds, told, died>>

\* Nobody comes for the deadline that runs by now, where a condition holds.
Forsake(cond) == missed' = missed \cup IF cond THEN Deadline(Clock(log)) ELSE {}

\* A schedule runs.
Fire(w) ==
  /\ \E d \in jobs \ ran : Comes(d) <= now /\ ran' = ran \cup {d}
  /\ Begin(w, [kind |-> "expire", step |-> 0], "job")
  /\ Forsake(row.ended)
  /\ UNCHANGED <<session, row, jobs, calls, now, bounds, told, died>>

\* Once it has run it is deleted, in its own time.
Deleted ==
  /\ \E d \in ran : jobs' = jobs \ {d} /\ ran' = ran \ {d}
  /\ UNCHANGED <<session, row, missed, calls, now, exec, bounds, told, died>>

\* Schedules are asked for.  One there is under the same name already, the one that has just
\* run too, is a conflict, and a conflict is nothing to report.
Schedule(ds) ==
  /\ jobs' = jobs \cup ds /\ missed' = (missed \ ds) \cup (ds \cap ran)
  /\ UNCHANGED ran

\* The job asked for after a move in the app.
Hear(w) ==
  /\ calls > 0 /\ calls' = calls - 1
  /\ Begin(w, [kind |-> "catch", step |-> 0], "catch")
  /\ UNCHANGED <<session, row, timers, now, bounds, told, died>>

\* Pressed once the table has moved past it, a button drives nothing and gets a fresh card.
Check(w) ==
  /\ place[w] = "bound"
  /\ IF Current(log) = act[w].step THEN Go(w, "play") /\ Stay
     ELSE Stop(w) \/ (Go(w, "post") /\ Stay)
  /\ UNCHANGED <<session, row, timers, calls, now, bounds, told, died>>

\* The job looks at the clock: it goes on to stop it, comes back later or finds nothing to do.
Look(w) ==
  LET c == Clock(log) IN
  /\ place[w] = "job"
  /\ IF RanOut(c, now) THEN Go(w, "expire") /\ Stay /\ UNCHANGED timers
     ELSE Schedule(Deadline(c)) /\ Stop(w)
  /\ UNCHANGED <<session, row, calls, now, bounds, told, died>>

\* A play reads the log.  A timer that ran out since the last press is stopped first, and
\* the log read again.
Read(w) ==
  LET t == IF led[w] THEN at[w] ELSE now IN
  /\ place[w] = "play"
  /\ at' = [at EXCEPT ![w] = t]
  /\ read' = [read EXCEPT ![w] = Len(log)]
  /\ Go(w, IF ~led[w] /\ RanOut(Clock(log), t) THEN "expire" ELSE "write")
  /\ UNCHANGED <<session, row, timers, calls, now, act, held, due, led, stale, bounds, told, died>>

-----------------------------------------------------------------------------
(* A move is written only onto the log as it was read.                     *)

AsRead(w) == SubSeq(log, 1, read[w])

\* A faulty Onto: whatever the log holds by now.
Onto_Anything(l) == TRUE
Onto(l) == l[Len(l)].no = counter

\* A faulty NewDeadline: only a clock that was not there is asked for.
NewDeadline_Started(before, after) == IF before.status = "none" THEN Deadline(after) ELSE {}
\* What a schedule is asked for: a deadline that was not there before the move.
NewDeadline(before, after) == Deadline(after) \ Deadline(before)

\* The move lands, leaving `next` to be put, or is refused and nothing is put.  A schedule
\* whose stop is refused has run for nothing.
Land(w, e, next, onward) ==
  LET l == AsRead(w) IN
  IF Onto(l)
  THEN /\ log' = Append(log, [e EXCEPT !.no = counter + 1]) /\ counter' = counter + 1
       /\ held' = [held EXCEPT ![w] = [next EXCEPT !.seen = counter + 1]]
       /\ due' = [due EXCEPT ![w] = IF next.ended THEN {} ELSE NewDeadline(Clock(l), Clock(Append(l, e)))]
       /\ Go(w, onward) /\ UNCHANGED <<act, read, at, led, stale, missed>>
  ELSE Stop(w) /\ Forsake(act[w].kind = "expire") /\ UNCHANGED session

\* The play that stops a timer reads the log for itself.
Expire(w) ==
  /\ place[w] = "expire"
  /\ IF RanOut(Clock(log), now)
     THEN read' = [read EXCEPT ![w] = Len(log)] /\ Go(w, "stop") /\ UNCHANGED <<act, held, at, due, led, stale>>
     ELSE Stop(w)
  /\ UNCHANGED <<session, row, timers, calls, now, bounds, told, died>>

\* It is stamped with the moment it ran out.
StopTimer(w) ==
  /\ place[w] = "stop"
  /\ Land(w, [Event("stop", "bot") EXCEPT !.at = RunsOut(Clock(AsRead(w)))], held[w],
          IF act[w].kind = "expire" THEN "put" ELSE "putLead")
  /\ UNCHANGED <<row, jobs, ran, calls, now, bounds, told, died>>

\* What may be pressed, with the row r held and the log l read.
May(l, r, kind) ==
  CASE kind = "step"   -> Current(l) \in 1..Steps
    [] kind = "answer" -> r.pending # NoAsk
    [] kind = "undo"   -> Cardinality(Live(l)) > 1
    [] kind = "note"   -> TRUE
    [] kind = "clock"  -> Current(l) # 0 /\ Clock(l).status = "none"
    [] kind = "pause"  -> Clock(l).status = "running"
    [] kind = "resume" -> Clock(l).status = "paused"
    [] kind = "end"    -> r.pending = NoAsk /\ Current(l) = Close

StopsToAsk(l, r, kind) ==
  \/ kind = "step" /\ Current(l) \in Asks
  \/ kind = "answer" /\ r.pending.answered + 1 < Questions

\* A faulty Keeps: a note takes the question away.
Keeps_NotNotes == {"clock", "pause", "resume"}
\* A block waiting on an answer stays waiting through these.
Keeps == {"note", "clock", "pause", "resume"}

Answered(r, kind) == [r EXCEPT !.pending = IF kind \in Keeps THEN @ ELSE NoAsk, !.ended = (kind = "end")]

Last(S) == CHOOSE i \in S : \A j \in S : j <= i
Produced(l, r, kind, t) ==
  CASE kind = "step"   -> [Event("step", "bot") EXCEPT !.step = Current(l)]
    [] kind = "answer" -> [Event("step", "bot") EXCEPT !.step = r.pending.step, !.move = r.pending.move]
    [] kind = "undo"   -> [Event("undone", "bot") EXCEPT !.void = Last(Live(l))]
    [] OTHER           -> [Event(kind, "bot") EXCEPT !.at = IF kind = "note" THEN 0 ELSE t]

Decline(w) ==
  /\ place[w] = "write" /\ ~May(AsRead(w), held[w], act[w].kind)
  /\ Stop(w)
  /\ UNCHANGED <<session, row, timers, calls, now, bounds, told, died>>

\* Nothing is written while a block waits; what it asks is kept on the row.
AskFor(w) ==
  LET l == AsRead(w)  r == held[w]  kind == act[w].kind IN
  /\ place[w] = "write" /\ May(l, r, kind) /\ StopsToAsk(l, r, kind)
  /\ IF kind = "step"
     THEN /\ begun' = begun + 1
          /\ held' = [held EXCEPT ![w].pending = [step |-> Current(l), move |-> begun + 1, answered |-> 0]]
     ELSE /\ held' = [held EXCEPT ![w].pending.answered = @ + 1]
          /\ UNCHANGED begun
  /\ Go(w, "put")
  /\ UNCHANGED <<session, row, timers, calls, now, act, read, at, due, led, stale, played, told, died>>

Write(w) ==
  LET l == AsRead(w)  r == held[w]  kind == act[w].kind IN
  /\ place[w] = "write" /\ May(l, r, kind) /\ ~StopsToAsk(l, r, kind)
  /\ Land(w, Produced(l, r, kind, at[w]), Answered(r, kind), "put")
  /\ UNCHANGED <<row, jobs, ran, calls, now, bounds, told, died>>

\* A schedule is asked for, the row put whole; a play that stopped a timer first goes on.
Put(w) ==
  /\ place[w] \in {"put", "putLead"}
  /\ PutRow(w) /\ Schedule(due[w])
  /\ due' = [due EXCEPT ![w] = {}]
  /\ IF place[w] = "put" THEN Go(w, "post") /\ UNCHANGED led
     ELSE Go(w, "play") /\ led' = [led EXCEPT ![w] = TRUE]
  /\ UNCHANGED <<session, calls, now, act, held, read, at, bounds, told, died>>

\* A faulty Fresh: the first entry past what was seen is passed over.
Fresh_ButOne(l, seen) == {i \in 1..Len(l) : l[i].no > seen + 1}
Fresh(l, seen) == {i \in 1..Len(l) : l[i].no > seen}

\* The thread has moved on in the app: its lines are told, and the question is dropped.
CatchUp(w) ==
  LET fresh == Fresh(log, held[w].seen) IN
  /\ place[w] = "catch"
  /\ IF fresh = {} THEN Stop(w)
     ELSE /\ held' = [held EXCEPT ![w] = [pending |-> NoAsk, seen |-> log[Len(log)].no,
                                          ended |-> \E i \in fresh : log[i].t = "end"]]
          /\ read' = [read EXCEPT ![w] = Len(log) - Cardinality(fresh)]
          /\ Go(w, "put") /\ UNCHANGED <<act, at, due, led, stale>>
  /\ UNCHANGED <<session, row, timers, calls, now, bounds, told, died>>

\* The lines are posted, and a fresh card, for which the row is put again where the card
\* follows the thread.
Post(w) ==
  /\ place[w] = "post"
  /\ told' = IF act[w].kind = "catch"
             THEN told \cup {i \in (read[w] + 1)..Len(log) : log[i].no <= held[w].seen} ELSE told
  /\ Rest(w) /\ (PutRow(w) \/ (UNCHANGED row /\ stale' = stale \ {w}))
  /\ UNCHANGED <<session, timers, calls, now, bounds, died>>

-----------------------------------------------------------------------------
(* The app, time and what goes wrong.                                      *)

AppMay(kind) ==
  CASE kind = "step"   -> Current(log) \in 1..Steps
    [] kind = "pause"  -> Clock(log).status = "running"
    [] kind = "resume" -> Clock(log).status = "paused"
    [] kind = "stop"   -> RanOut(Clock(log), now)
    [] kind = "end"    -> Current(log) = Close

\* The app moves the run, and asks for the job where it is hosted; for a timer it sets going
\* again it asks for nothing.
AppMove(kind) ==
  /\ played < MaxApp /\ Len(log) < MaxLog /\ played' = played + 1 /\ counter' = counter + 1
  /\ \/ kind = "repeat" /\ UNCHANGED log   \* events sent again burn a number
     \/ /\ kind # "repeat" /\ AppMay(kind)
        /\ log' = Append(log, [Event(kind, "app") EXCEPT !.no = counter + 1,
                                 !.step = IF kind = "step" THEN Current(log) ELSE 0,
                                 !.at = IF kind \in {"pause", "resume"} THEN now ELSE 0])
  /\ calls' = IF row.ended THEN calls ELSE calls + 1
  /\ missed' = missed \cup NewDeadline(Clock(log), Clock(log'))
  /\ UNCHANGED <<row, jobs, ran, now, exec, begun, told, died>>

Tick == /\ now < MaxTime /\ now' = now + 1
        /\ UNCHANGED <<session, row, timers, calls, exec, bounds, told, died>>

\* An execution stops half way: what it held is gone.
Die(w) ==
  /\ MayDie /\ ~died /\ died' = TRUE /\ place[w] # "idle"
  /\ missed' = missed \cup due[w]
                      \cup IF place[w] \in {"job", "expire", "stop"} /\ act[w].kind = "expire"
                            THEN Deadline(Clock(log)) ELSE {}
  /\ Stop(w)
  /\ UNCHANGED <<session, row, jobs, ran, calls, now, bounds, told>>

Step(w) == \/ Check(w) \/ Look(w) \/ Read(w) \/ Expire(w) \/ StopTimer(w) \/ Decline(w)
           \/ AskFor(w) \/ Write(w) \/ Put(w) \/ CatchUp(w) \/ Post(w)

Next ==
  \/ \E w \in Workers : \/ \E kind \in Presses : Press(w, kind)
                        \/ Fire(w) \/ Hear(w) \/ Step(w) \/ Die(w)
  \/ \E kind \in AppKinds : AppMove(kind)
  \/ Deleted \/ Tick

Spec == Init /\ [][Next]_vars

-----------------------------------------------------------------------------
(* Properties.                                                             *)

\* A timer the bot stops had run out by then, at the moment it is stamped with, in the log
\* the stop stands on: "late but never wrong" (play.ts, TableDeps), however early the
\* schedule came and whatever was paused or resumed, by another press or in the app, while
\* the stop was on its way.
NeverWrong ==
  \A i \in 1..Len(log) : log[i].t = "stop" /\ log[i].by = "bot" =>
    /\ Deadline(Clock(SubSeq(log, 1, i - 1))) = {log[i].at}
    /\ log[i].at <= now

\* "A block waiting on an answer stays waiting through anything that is not an answer to
\* it, an undo, or a step that supersedes it" (play.ts, play), but for two ways the code has
\* of dropping it: the row put back whole by an execution that read it before another put
\* it, and catchUp, which forgets the block whatever it reads on the row.
QuestionKept ==
  [][row.pending # NoAsk /\ row'.pending # row.pending =>
       \/ row'.pending.move > row.pending.move
       \/ row'.pending.move = row.pending.move /\ row'.pending.answered > row.pending.answered
       \/ \E i \in Fresh(log, row.seen) : log[i].t \in {"step", "undone"}
       \/ \E w \in Workers : /\ place'[w] # place[w]
                            /\ row' = held[w]
                            /\ (w \in stale \/ act[w].kind = "catch")]_vars

Quiet == Busy = {}

\* Somebody will come back for a timer that runs: a schedule that has not run yet stands for
\* its deadline (play.ts, play and expireTimer; timers.ts).  The ways the code has of missing
\* one, each where `missed` grows: asked for again by the schedule that came early, which
\* still has the name (Schedule); its stop refused (Land); its execution, or the one about to
\* ask, stopping half way (Die); the run shown as ended (Fire); a resume in the app (AppMove).
SomebodyComes ==
  Quiet => Deadline(Clock(log)) \subseteq (jobs \ ran) \cup missed

\* The thread has heard of every move made in the app (play.ts, catchUp), whatever presses
\* and other rounds overlap, unless a press came first, whose line then speaks for the table
\* as it is, the run had ended before it, or an execution stopped half way.
ThreadHeard ==
  Quiet /\ calls = 0 => \A i \in 1..Len(log) : log[i].by = "app" =>
    \/ i \in told \/ died
    \/ \E j \in (i + 1)..Len(log) : log[j].by = "bot"
    \/ \E j \in 1..(i - 1) : log[j].t = "end"
=============================================================================
