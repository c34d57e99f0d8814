# Runlog: a TLA+ model of what must not be lost

Runlog plays runs of a rules pack in the browser, on several devices and
Discord tables at once, and keeps them in step through a small hosted service.
This directory models the parts of it whose correctness depends on the order
of things: what the server does with concurrent requests, what a device does
with an answer that arrives late, and what both do when something stops half
way. Paths below are relative to the repository's root; `store.ts`, `api.ts`
and `play.ts` are under `hosted/infra/lib/handlers/` (the last in `discord/`),
`interactions.ts`, `commands.ts` and `timers.ts` beside it, `themes.ts` and
`themeRoutes.ts` beside `store.ts`; `engine.ts`, `log.ts`, `diff.ts` under
`apps/web/src/sync/`, `useRun.ts` under `apps/web/src/run/`, `themeStorage.ts`
under `apps/web/src/theme/` with `outbox.ts`, `worker.ts` and `reconcile.ts` in
its `sync/` and `publisher.ts`, `channelStore.ts` in its `follow/`; `looks.ts` and
`lookRoutes.ts` beside `themes.ts`; `clock.ts` and `drive.ts` under `packages/engine/src/`.

## 1. The system

| Component | State it keeps | Operations | Talks to |
|---|---|---|---|
| **Session log** (`store.ts`, `api.ts`) | one DynamoDB table; for a run: META (a counter `seq`, ended, shared, deleted), `EVENT#n`, `SEEN#id`, `MEMBER#sub`, and in each account's partition a pointer row its manifest lists | create, append, patch, delete, leave, join, remove; every request a Lambda execution, every call to the table a step | devices (HTTP), the Discord bot (same store), live watchers |
| **Run sync** (`engine.ts`, `log.ts`, `useRun.ts`, `client.ts`) | IndexedDB `runs`: per run a log (numbered part, pending part) and the counter caught up with; in memory the log the page plays | the player's moves, `persist`, the pass over runs, the page's answer to `pulled` | session log; SyncProvider's poll, settle timer and socket start passes |
| **Pack and license sync** (`engine.ts`, `diff.ts`, `api.ts`, `store.ts`) | IndexedDB `packs`, `licenses`, the graveyard; on the server one row per entry and its tombstone | diff against the manifest, push with `If-Match`, pull, forget, delete, purge | manifest |
| **Discord table** (`play.ts`, `guilds.ts`) | a guild-run row: pending answer, timer, seats, the tail it has shown; the session log | open, press, answer, timers, catchUp | session log, Discord |
| **Theme library** (`theme/sync/*`, `themeStorage.ts`, `themes.ts`) | IndexedDB: a library row per theme, the outbox of changes, the noted revisions; on the server a row per theme with a revision, the head with the count of live themes, and receipts by key | save, delete, plan; push, confirm, resolve, refuse, pull | theme routes; tabs share a lock, pages tell each other |
| **Theme links** (`looks.ts`, `lookRoutes.ts`, `publisher.ts`, `channelStore.ts`) | on the server a row per link, a pointer per read key, the count under the cap; on each device the record of its link, and a publisher in every tab | make, move here, new link, revoke, publish, read | widgets read a look by its key; the tabs of a browser share the record and a lock, and tell each other |
| **Run engine** (`packages/engine`) | none; a fold of the log | reduce, undo, clocks | all of the above |
| **Rows beside a session** (`store.ts`) | reactions, asks | read, change, put back | live watchers |
| **Live link and socket** (`ws.ts`, `live.ts`, `socket.ts`) | connections, watchers | subscribe, ring | session log |
| **Races** (`races.ts`) | a row per racer | report | members |
| **Accounts** (`auth.ts`, `store.ts`) | handles, nonces, keys, invitations | sign in, issue, revoke, accept | all routes |
| **Plans, sales, publishing** (`billing.ts`, `stripe.ts`, `sales.ts`) | orders, listings, entitlements | webhooks, settle | licenses |
| **Deck plugin, containers, schema, CLI, pages, infrastructure** | little or none shared | | |

### What is hard

* A request is several calls to the table, and nothing holds the table between
  them. Only a reservation (`ADD seq`) and the transaction that writes a chunk
  are atomic; META, members and pointers are read and then put.
* The number an event gets is reserved before the event is written. A request
  that is cancelled or dies leaves numbers nobody uses; one that is slow leaves
  a hole that fills later.
* A device awaits the network or the store between reading a record and
  writing it. The player's moves fall in between.
* An answer may be lost after the server did the work; everything is sent again.
* What decides whether a device asks for more is arithmetic over counters
  (`tailSeq`, `seq`, how many came back), not a comparison of logs.
* A theme is changed on several devices at once, each change against a revision
  it may have lost by the time it is sent, under a key that may be sent again
  after its answer, and a second change queued behind it does not know its own
  revision yet.
* A link's record is shared by the tabs of a browser, and each tab publishes from
  its own reading of it: answers come back to a record that has moved on. Relinks
  and revokes read a key in one call and write on the condition of it in another.
* A table's row is put whole by presses, schedules and the job that follows the
  app, each from its own reading, and the log it is about moves without it.

### What makes each part correct

* Session log: an event is numbered once; the log is append-only; a device's
  events stand in the order it made them; what an append is sent lands. That each
  member's manifest follows the log, the deletion and the removal of a member would
  belong here, but nothing holds it where requests overlap (section 3).
* Run sync: a copy of the log holds an event once; nothing made is lost;
  nothing numbered loses its number; a device with nothing to ask for holds the
  server's log; every move reaches every device.
* Entries: two devices and the server agree in the end; a newer version is not
  lost under an older; what was deleted does not come back.
* Discord: a question waits for its answer; a
  timer is stopped late but never wrong, and while it runs somebody will come
  back for it; the thread hears of what is played in the app.
* Theme links: a read key opens a link exactly when the link's row holds it; a
  record does not run ahead of the server, says it was sent away only when it was,
  and loses its key or itself only for what is gone; the widgets come to show the
  look applied last.
* Themes: a key is one change and a save one revision; no save is lost, at worst
  it is kept as a copy; none takes the place of work its player had not seen; a
  device holds what it noted; the count is the count; once the players stop the
  devices agree.

## 2. The modules

| Module | What it is |
|---|---|
| `SessionLog` | the server's rows of one session and its requests |
| `Ledger` | what a session log promises: each id entered once, in chunks, under numbers nobody holds |
| `SessionLogProofs` | the inductive invariants of `SessionLog`, its theorems, and that it implements `Ledger` |
| `MCSessionLog` | a host, a guest and the bot, with their events |
| `RunSync` | one run on several devices: page, store, pass, and the server reduced to what an append does |
| `RunSyncProofs` | its invariants, for every set of devices, moves and bounds |
| `MCRunSync` | two devices with their moves |
| `EntrySync` | one pack on several devices: record, noted server copy, pass; the server's row and object |
| `EntrySyncProofs` | what never leaves a device, what no pass takes off one, and that the object stays the row's |
| `MCEntrySync` | two devices |
| `ThemeSync` | the themes of one account: outboxes, passes, and the server's rows |
| `ThemeSyncProofs` | its invariants, for every set of devices and every bound |
| `MCThemeSync` | two devices, and a state to begin in |
| `LookRows` | the links of an account on the server: rows, pointers, count, and any callers |
| `LookRowsProofs` | its invariant, whatever the callers ask |
| `LookLink` | the record of each device and the publisher of each tab, over `LookRows` |
| `LookLinkProofs` | that `LookLink` implements `LookRows`, and what a record says of its link |
| `MCLookLink` | two tabs, of one browser or of two, and the settings they are run in |
| `GuildTable` | a run the bot hosts: presses, schedules, the job after a move in the app |
| `GuildTableProofs` | its invariants, for any number of executions at a time |
| `MCGuildTable` | two executions over a unit of one step that asks, under a timer |

### SessionLog

A row is a record of the fields the requests tell apart. `meta` is the META
row, `event` the `EVENT#` rows by number, `seen` the ids with a `SEEN#` row,
`member` the `MEMBER#` rows, `pointer` each account's manifest row. The other
variables are the local variables of the executions, per worker: `pc` says
before which call to the table it stands; `chunk`, `rest`, `keep`, `attempt`,
`expect` are the locals of `appendEvents`; `passed` is no state of the code but a
history, the ids an append gave up when both attempts of their chunk had failed;
`tail` the number a reservation or
a reading returned; `row` a META row read to be put back; `todo` the loop over
members.

One action is one call to the table with the code around it. `CreateMeta` and
`CreateMember` are `createSession` (it then runs `appendEvents`); `Reserve`,
`Refuse`, `Write`, `Cancel`, `Check` with `Onward` are `appendEvents` and its
two loops; `TouchRead` and `Point` are `touchPointers`; `PatchGet`/`PatchPut`
are `updateSession`; `DeleteRead`, `DeleteGet`, `DeletePut`, `Entomb` and the
`Leave` actions are `deleteSession`; `Join...` is `joinAs`, `Remove...` is
`removeMember`. `Begin` and `Routed` are the routes of `api.ts` in front of
them, with the membership and deletion checks they make. A press
(`PressBegin`) is the append of `play.ts`: the log was read, the tail it saw is
the tail it expects. `Crash` is a timeout or a failed call anywhere.

`Ops` says which requests a run allows. `"conflict"` allows DynamoDB to cancel
a transaction because another on the same item is under way.

Left out: time stamps, names, the profile's `currentSessionId`, snapshots,
time-to-live of tombstones, invite rows (`acceptInvite` seats a member by the
writes of `joinAs`), and reactions and asks.

### RunSync

A log is a set of (event, number) pairs and a sequence of pending events.
`tailSeq`, `merge`, `reconcile`, `sameLog` are the functions of `log.ts`.
`disk`, `page`, `writes` and `news` are the stored record, the log the page
plays, the `persist` calls under way and the answers to `pulled` under way;
`place`, `manifest`, `local`, `incoming`, `tail` and `about` are the locals of
the pass. `Move`, `PersistLoad`, `PersistSave`, `ReloadRead`, `ReloadApply` are
`useRun.ts`; `Manifest`, `ReadRuns`, `Create`, `FetchTaken`, `Send`, `Fetch`,
`Save`, `Take`, `Keep` the steps of the pass between its awaits; `Reserve` and
`Land` what the server does with an append.

The server is coarser here than in `SessionLog`: an append takes its numbers in
one step and lands in another; where some of it is in the log already, the
second reservation and transaction happen in the landing. `Close` closes the page
and opens it again on what is stored, under the same bound as failed calls.
`Overlap` says
whether a second append may take its numbers before an earlier one landed.
`StartFails` says whether the call that starts a run may fail, and `Exclusive`
whether a device's moves, its passes and the closing of its page keep out of each
other's way. The code keeps none of the three apart: `RunOverlaps` and all theorems allow
everything, and `RunExclusive` says what it leaves out.

`raced` is no state of the code but a history. A device has raced once one of the two
writers of its record has put it whole over what the other wrote since it was read:
`persist` over a pass's save, a pass over `persist`'s, the page replaced by a record read
before its last move was kept; or once its page was closed with a write under way
(`Races`, at each place where it may happen). What a race costs is known
(`RunLosesMove`, and section 3); the properties that use `raced` say that nothing else
costs anything.

Left out: deleting, forgetting and renaming a run, opening one that is stored
(`openRun`), members' names, two tabs on
one device, a createSession that dies before its append. The comment at
`engine.ts:139-144` explains the arithmetic by an undo that takes an event out
of the log; `useRun.undo` appends an `Undone` event, so the model has no such
step.

### EntrySync

One pack, since packs under other ids do not touch it. `disk` is the record of
the `packs` store on each device, `known` its `SyncState`, `row` and `object`
the server's row and the text beside it in S3; `place`, `remote`, `mine`,
`held` and `got` are the locals of the pass and of the request it made. Time is
the count of the players' writes, so the stamps of two writes differ and a
stamp says which came later; a text is named by the write that made it, and its
hash is itself. `forgot`, in a tombstone, is a history: when the player forgot the pack
whose deletion arrived at `deletedAt`. `Travels` is the filter of `engine.ts:306`, `Plan` is `diff`,
`Fingerprint` is `fingerprint`, `Mismatch` the `If-Match` check of `api.ts`.

The player's actions are `Import` (from the marketplace, switched on),
`FromFile` (`keptFromFile`), `Buy` (a sealed copy opened), `Switch`
(`markPackSync`) and `Forget`. The pass is `Manifest`, `List` (storage is read
and the plan made), then `Check` and `Again` (`pushOnce`: the first and the
second put), `PutObject` and `PutRow` (`putPack`), `Get`, `Fetch`, `Keep` (a
pull), `Tell`, `Bury`, `Burn` (`deletePack` and its tombstone), `Drop` (purge)
and `Note` (`putSyncState`). `Cut` is anything that ends a pass early.

`Hazards` says what may go wrong at once, so that a property that needs order
can be told from one that does not: requests of two devices may interleave on
the server (`overlap`), a player may write while the device's pass is under way
(`midpass`) or on a device that is behind the others (`outOfTurn`), a pack not
switched on here may be on the server (`unshared`), and a device may fail to
note what it sent or took (`unnoted`). The code excludes none of them.

Left out: the settling of purchases, the thirty days after which a tombstone
goes, licenses (the same path, with no object, switch or seal), equal stamps on
two devices, a request that lives on after its device gave up. Reading and
writing a record in `markPackSync`, `forgetPack` and the pull (`loadPack`,
`savePack`) is one step, as is a purge with the sync state it forgets.

### ThemeSync

A text is named by the save that made it, so a library row needs no local
revision: two rows are the same save if they have the same text. `shelf` is a
theme's rows in the order of their revisions, `head` the `THEMELIB` row,
`receipts` the `THEMEOP` rows. `library`, `noted` and `queue` are the stores of
a device; an entry of the outbox holds what it was made over: a revision,
`None` for a create, or `Previous` where it waits for the entry before it.
`place`, `flight`, `answer`, `seen`, `listed` and `cursor` are the locals of
the pass; `stray` holds the requests whose sender has given up.

`PlanPut`, `PlanDelete`, `PlanRefused` and `Following` are the pure functions of
`outbox.ts` and the end of `confirmMutation`; `Save` and `Delete` the two-store
transactions that use them. `Reply` is `themeRoutes.ts` and `themes.ts` in the
order they look, `Carry` the transaction over three rows. A pass is `Pick`,
`Mark` (the entry is marked sent before it is), `Serve` (the request, and the
row read once it is answered), then `Confirm`, `Resend` (the answer is out of
date), `Resolve` (the server's version is taken, the device's becomes a copy),
`Refuse`, `Retry` or `Pause`; with nothing due, `Ask` and `Page` are the pull.
Between two entries a pass holds nothing, so a pass is modelled as one entry and
`Pick` may follow at once. `Rouse` takes holds off, as coming back to the window
does. `Unanswered` loses an answer or the request's sender, `Close` the page
with all the pass held, `Straggle` serves what was left behind, `Expire` ages a
receipt out.

Left out: drafts; erasing the account, and with it a server that answers for a
theme it no longer has; a second key after `key-reused`, which `KeyIsOneChange`
shows is never asked for; fifty pushes a pass, which only bounds a pass; the
wait a rate limit asks for; tabs without a shared lock (`worker.ts:49-65`);
`seedExisting`, which is a save of a theme that is new.

### LookRows and LookLink

`LookRows` is the server with whatever its callers send. `rows`, `pointers` and
`live` are the `LOOK#`, `LOOKKEY#` and `LOOKLIB` rows. `calls` has for each caller
the request it has in the air, from its sending to the reading of its answer, with
the locals of the handler that serves it. `Create`, `Transfer`, `Relink`, `Revoke`
and `Publish` are the conditional writes of `looks.ts`, each with the reads
`lookRoutes.ts` makes before and after (`ReadKey`, `CreateRead`, `TransferRead`,
`RelinkRead`, `PublishWhy`); `ReadPointer` and `ReadRow` are a widget's read.
`Drop`, `LoseAnswer` and `Limit` are what the network and the limits do. `Turn` is
the callers': one takes its answer, another asks for anything a caller could know.

`LookLink` puts publishers in the callers' place. `records` is the stored record
of each device, `tab` the closure variables of each tab's publisher. `Once` is
`once` up to its publish, `Published` the rest of it; `Verified` and `VerifyAgain`
are `verify` and its timer; `Make`, `UseThisDevice`, `NewLink` and `Forget` the
calls a player makes and `Acted` their continuations; `Apply` is the look that
changes, `Lead` the lock that is granted, `Start`, `SignOut` and `Close` the tab's
life. Each tab has a caller for its publishes, one for its player's calls and one
for each key it reads back. A continuation runs whole with the stored record it
reads, as `channelStore.ts` reads and writes it in one transaction.

Secrets and keys are numbers that stand for their hashes; a look is its number,
and is the same for all widgets. `Reapplied` says whether a look from before may
be applied again.

Left out: the removal of all of an account's links with the account (`removeAll`);
how many publishes a minute may hold (any publish may be refused as `limited`); plan
and body refusals (402, `rejected`), which leave no trace; the sockets that tell
widgets to read again.

### GuildTable

One unit of a run is played to its close. An entry of `log` is the batch of one
move; `Live`, `Done`, `Current` and `Clock` are what the engine reads off it.
`row` is the guild-run row with what the properties need of it: the question, the
tail seen, whether it ended. `jobs` are the schedules, each named for its deadline, and
`ran` those that have run and are not deleted yet; `calls` the
jobs asked for after a move in the app. An execution is a press, a schedule or
such a job: `place` says before which call it stands, `held` is the row as it
read it and then as it will put it, `read` how much of the log it read.

`Press` and `Check` are the button and its step (`interactions.ts`), `Look` is
`expireTimer`, `Read`, `Expire` and `StopTimer` the timer a press stops on its
way, `Decline`, `AskFor`, `Write` and `Put` are `play`, with `Land` the append
onto the tail that was read, `CatchUp` is `catchUp`, and `Post` the card, for
which the row is put once more where the card follows the thread. `AppMove` is
another device; its `repeat` burns a number. `Die` stops an execution between
any two calls, once.

A schedule is made to the second (`Comes`): a second has `Second` moments, so it may
`Fire` before its deadline. `Look` then asks again under the same name, and where the
schedule that has just run is still there (`Deleted` has not come yet) that is a conflict,
which is swallowed (`Schedule`; `timers.ts:36`). `missed` and `stale` are histories: the
deadlines nobody comes back for, noted at the step that misses them, and the executions
that read the row before another put it.

Left out: opening a run, seats, rosters, card modes, reactions and permissions;
checklist ticks, several clocks (a clock has at most one deadline); a schedule that fails to be made,
or is delivered twice; packs that leave the vault; watch parties.

## 3. The runs

| Run | Instance | What it shows |
|---|---|---|
| `LogAppenders` | 2 workers; host makes a, b; guest c; a press p; chunks of 1; 3 requests; deaths and transaction conflicts | `NumberedOnce`, `OutboxInOrder`, `Reservations`, and that the log is a `Ledger` |
| `LogLands` | 2 workers, chunks of 2, transaction conflicts, fairness of executions, no deaths | `AppendLands`: what an append carries reaches the log if no other request carries it too |
| `LogRollback` (violated: `AppendOnly`) | 2 workers, append and patch | a patch puts META back with the counter it read; numbers are handed out twice and an event is replaced |
| `RunOverlaps` | 2 devices, moves, writes, passes and closings that cross freely up to the first race, appends that overlap, a start that may fail or lose its answer | `EventOnce`, `MovesKept`, `ConfirmedStays`, `StoredStays`: no event twice, none lost, none off a store before the server has it, and numbers stay |
| `RunExclusive` | 2 devices, `Exclusive`, start answered, appends one at a time, failures, lost answers, pages closed; fairness | `InSync`, `Converges` |
| `RunLosesMove` (violated: `NothingMadeIsLost`) | not `Exclusive` | a move made while a pass waits is written over by the pass's save and dropped by the page's reload |
| `EntryInTurn` | 2 devices, `overlap`, `midpass` and `unnoted`, 5 writes, 2 failures, fairness | `StaysHome`, `ObjectIsRows`, `BoughtStays`, `Converges`: where one device is used at a time, nothing leaves unasked, bought copies stay, the object is the row's, and the devices agree in the end |
| `EntryLosesWork` (violated: `WorkStays`) | 2 devices, `outOfTurn`, no failures | a deletion, dated when it arrives, takes off the other device what was written there after the player forgot the pack |
| `ThemeRaces` | 2 devices with one theme on both, a limit of 1, 4 texts of which the last is refused, 1 fault of any kind, symmetry | `KeyIsOneChange`, `AppliedOnce`, `NoSaveLost`, `HoldsWhatItNoted`, `LiveIsCounted`, `NothingBlind`: each save lands once or is kept, and none takes the place of work its player had not seen |
| `ThemeSettles` | 2 devices from an empty account, 3 texts, 1 fault, fairness | `Settles`: once the players stop, both hold what the server holds |
| `LookFollows` | 2 tabs, of one browser or of two, in one of 8 settings; cap 1; fairness | `PointersMatch`, `LiveCounts`, `ShownByKey` of the rows; `NeverAhead`, `ElsewhereIsSo`, `ConfirmedIsSo`, `KeysKept`, `ForgottenIsGone` of the records; `Follows`: the widgets come to show the look applied last |
| `TableOverlaps` | 2 executions at a time of which one may die, a step that asks, a timer whose schedules come early or late, all presses, 1 move in the app between any two calls, symmetry | `NeverWrong`, `QuestionKept`, `SomebodyComes`, `ThreadHeard`, each but for the ways it names |

The type invariants are in no run: they are proved (section 4), which says more.
That the session log is append-only is shown where it fails; where it holds it is a
theorem, and part of `LedgerSpec`, which `LogAppenders` runs.

### Bounds, and why they are enough

* Two executions are what a race needs. Three requests let a batch be sent, resent while the first send
  runs, cancelled twice, and a third party come in. `MaxSeq` exceeds what those requests can
  reserve, repeats and second attempts included, so it never stops a request
  that the other bounds allow.
* Chunks of 1 and of 2 against batches of 2 give a batch of several chunks, a
  chunk partly repeated, and a chunk that fits.
* Two devices with one or two moves each have a device that starts the run, one
  that takes it whole, and later moves of both that need fetching. `MaxFaults`
  bounds failures, and pages closed, in all runs: the code does not bound them, but one fault is
  enough for a lost answer and two, in `RunExclusive`, for a lost answer to the retry.
  `RunOverlaps` follows a behaviour to the first race (`Followed`), and with one `pulled` unheard of
  at a time; its properties are proved without either bound.
* In `EntrySync` time is bounded by the writes. Four or five writes on two
  devices give an import, an edit, a deletion, a return and a sealed copy in any
  order between them; the object and the row differ, a tombstone is written
  over, and each device is once the one that is behind. That more devices
  change nothing is proved for all but `Converges`, for which it is assumed.
* In `ThemeSync`, one theme on two devices and a limit of one make every put meet
  a conflict, every create a full library; a copy is a second theme and its own
  conflict a third. `ThemeRaces` begins where the theme is on both devices
  already, a state `ThemeSettles` reaches, since what is made by one device alone
  meets nobody. Of the properties only `Settles` rests on these bounds: the others
  are proved.
* In `GuildTable` one step that asks, and the close behind it, let a question stand, be
  answered twice, undone and dropped; a timer of one against a clock of two, with two
  moments to the second, can be started, paused, resumed, run out, come for too early and be
  stopped late; two executions put the row over each other, and a third actor is the app. The
  app completes no step in the run; the run has 2.5 million states, and its four properties are
  proved for any steps, presses, moves in the app and executions.
* In `LookFollows` each setting says how much of what may happen there: links
  moved, relinked or revoked by both tabs over each other, a lost answer, a closed
  tab or a sign-out, two looks, a tab that owes one. All of it at once is past
  what can be run; a setting is a part of the initial state that never changes, so
  one run explores them all. A cap of one makes every second link meet it. But for
  `Follows` and, with `Reapplied`, `ConfirmedIsSo`, the properties are proved for
  every setting and bound.
* Executions are interchangeable; `LogAppenders` and `TableOverlaps` use that symmetry, runs
  with liveness do not.
* Deadlock is not checked: a run in which everything was sent and asked has
  stopped, and is meant to.

### Fairness

`SessionLog!FairSpec`: a running execution makes its next call. Deaths are
allowed only in runs without liveness. `RunSync!FairSpec`: a page open on a run
asks again at every poll (`SyncProvider.tsx`, 10 s, 60 s with a socket), passes
are serialised by `engine.sync()` and each ends, a write to or a read from
IndexedDB ends, and an append the server began lands. Weak fairness on each is
enough, because none of these steps is disabled again by anything but itself.
`EntrySync!FairSpec` assumes the same of the poll and of the pass over packs:
`Manifest` is enabled while no pass is under way, and each step of a pass stays
enabled until it or a failure ends the pass.
`ThemeSync!FairSpec`: a pass goes on to its end (weak fairness of its steps,
each enabled until it or a failure ends the pass). That a pass begins again is
strong fairness of `Rouse` and `Pick` together: they are enabled between
passes only, and a wake that comes during a pass is kept until it is over
(`worker.ts:254`), the wait after a failed try ends, and the window is one day
looked at again.
`LookLink!LinkFairSpec`: the server answers what reaches it, and a tab's
continuations, timers and its place in line for the lock come to their turn; each
stays enabled until it, a close or a sign-out ends it.
Nothing is assumed of the player, of failures or of closings, and there is no
liveness under `GuildTable`: its executions run when Discord or a person asks.

### What the violations mean

The three were met while translating, and each goes against a sentence of the code:
the `findings` of `PROJECT.json` quote them. `LogRollback` puts META back over an append's
reservation; `RunLosesMove` is a race that costs a move; in `EntryLosesWork` a pack is
forgotten here, taken up again there before the `DELETE` reaches the server, and dropped
there by the next pass, as the tombstone bears the moment it was put
(`api.ts:2070`, `store.ts:579`) and not the moment the player forgot it, where `diff.ts:14-15`
says that someone who kept working keeps it. These are further ways the
properties fail, or what the comments say does, which have no run of their own. Where a
property of a passing run excepts one, the exception is a named part of the property.

The log and the runs:

* A press is let through though it did not see every event below its own: with
  three executions, one has reserved a number and not yet written, the press
  reads the log past the hole, and the number it expects is the last written
  one (`store.ts:362-367`, `912`).
* `InSync` fails with `Overlap`: two appends land in the other order, and the
  device with the higher number never asks for the lower (`engine.ts:194-197`).
* A member's manifest may stay behind the session, and no property is given to it. Two
  appends whose pointer writes cross leave a number below the log's tail with everything
  finished (`store.ts:969`); the bot does not ask whether a session is deleted, and its press
  turns the members' tombstones live (`play.ts:595`); an append that read the members before one
  was removed writes that member's pointer after the tombstone (`store.ts:979`).
* A `createSession` that dies between META and the owner's MEMBER row leaves
  an id that is taken (`api.ts:2864`) and that nobody may fetch or append to.
* `AppendLands` without its exception for `Contended` fails: of three
  overlapping sends of the same events, both attempts of one may be cancelled,
  and a new event in that chunk is passed over while the answer reports
  success. The device still holds it as pending and sends it again.
* `OutboxInOrder` without its exception for `passed` fails for the same reason: the
  loop goes on to the next chunk (`store.ts:906`), so an event passed over is numbered
  behind what was made after it. `LogAppenders` reaches it with two executions, whose
  transactions conflict twice.
* `ConfirmedStays` excepts a device that has `raced`: `persist` reads the record before a pass
  saves and writes it after (`useRun.ts:238`), and numbers the pass stored are gone until the
  next fetch, though `log.ts:11` says that nothing is ever dropped from the numbered part.
* A press is refused in vain: `SeqConflict` is said to be thrown "when the log's
  tail is not where the caller expected it" (`store.ts:291`), but what is
  compared is the counter, which also counts numbers a cancelled repeat used up.
  From then on a press that read the whole log is refused, although nothing
  moved, until another append.
* `InSync` fails with `StartFails`: the answer to the first POST is lost,
  another player appends between the retry's fetch and its append
  (`engine.ts:171-193`), and that event is below what the device then stores: the
  append that sends the rest does not look whether there is more than it sent.

Packs:

* `Converges` of `EntrySync` excepts a device that is `Refused`: a push whose
  answer was lost leaves it with an old hash, and if its player writes on, the next
  push carries the same `If-Match`, is refused, and carries it again: until
  somebody writes the pack elsewhere, for ever (`engine.ts:472-482`).
* The same comes about without a lost answer, with `outOfTurn`: two devices edit before either has taken the other's, the later
  one to push conflicts, is the newer, and repeats its `If-Match`. Since the
  conflict ends the pass (`engine.ts:464`), licenses after packs are not
  carried either.
* Newer work is lost in two more ways. The put that follows the check of `If-Match` asks
  nothing (`api.ts:3327`), so with two devices used out of turn an older text can be put over
  a newer. And a pack that is here and not switched on is left out of the plan's local side
  (`engine.ts:306`) but the server's row under its id is not, so that row is pulled over it, or
  its tombstone purges it (`unshared`).
* `BoughtStays` fails with `midpass` and `outOfTurn` together: a copy bought
  while the pass waits for the pull of that pack is replaced by what is pulled,
  as `savePack` puts the record whole and without the seal (`engine.ts:353`).
* `ObjectIsRows` fails with `outOfTurn`: a put dies between S3 and the table,
  and the device that sent it has something else in the record's place before it
  asks again. With `overlap` as well, a put and a tombstone cross and leave a live
  row without its object: every read and every put of that pack fails from then
  on (`store.ts:567`, which both begin with).

Theme links:

* Two relinks of one link, or a relink and a revoke, read the same key; the second
  to write is answered `gone` as if the link were (`looks.ts:335`,
  `lookRoutes.ts`), and its device forgets the record of a link that lives.
  `ForgottenIsGone` excepts it.
* `ConfirmedIsSo` fails with `Reapplied`: a publish is applied and its answer lost,
  then the look before it is applied again. The record says that look is the one
  published, nothing is sent, and the widgets keep the other.
* `Follows` fails with `owing`. A link is made or moved by a tab that does not lead,
  while a publish of its own is in the air: the late answer clears `owed`
  (`publisher.ts:214`) and nobody sends until the next Apply. A sign-out with a
  create in the air, or closing a tab that owes its first look, ends the same way.

The table:

* A question is dropped by a row put from an earlier reading, and by `catchUp`, which sets
  `pending` to nothing without looking what the row asks by now (`play.ts:706`);
  `play.ts:365-366` says a block stays waiting through anything that is not an answer, an undo
  or a step. `QuestionKept` excepts these two, by the execution that puts the row.
* A block is applied twice: by two presses that answer one question at once, or by an answer
  whose execution stopped between the append and the row, given again.
* Nobody comes for a timer whose schedule came early, found it running, asked again and met its
  own name (`timers.ts:28`, `36`; `play.ts:649-650`); nor for one whose stop was refused because
  the log moved, which answers "gone" (`play.ts:655`); nor for one resumed in the app, which asks
  for no schedule; nor where an execution stops before it has asked, or the row shows the run as
  ended while its clock runs. `SomebodyComes` excepts exactly these, in `missed`.
* A button drives a step it does not name: the log moves between the reading
  that holds the button to its step and the reading the press plays from
  (`interactions.ts:904-915`, where the comment says it drives nothing). A move
  in the app does the same with one execution.
* After a timer ran out, an undo takes back only the stop that the same press
  has just written, so that an undo never gets past it (`commands.ts:185`;
  `clock.ts:167-169` names the same trap for starts).
* A question outlives its step when a press comes between a move in the app and
  its job (`play.ts:663-664` says the job drops it).
* After a repeat in the app burnt a number every press is refused, timers' stops
  among them, until the app appends (`store.ts:924`).

## 4. The proofs

### The session log

`SessionLogProofs` proves for all accounts, events, workers, chunk sizes and
requests:

| Theorem | Statement |
|---|---|
| `TypeCorrect` | `Spec => []TypeOK` |
| `EventsNumberedOnce` | `Spec => []NumberedOnce` |
| `ReservationsAreOwn` | `Ops \cap Rewrites = {}` implies `Spec => []Reservations` |
| `LogIsAppendOnly` | under the same assumption, `Spec => AppendOnly` |
| `ImplementsLedger` | under the same assumption, `Spec => LedgerSpec` |
| `OutboxStaysInOrder` | under the same assumption, `Spec => []OutboxInOrder` |

`NumberedOnce` is not inductive. Its strengthening, `Numbering`, is

    TypeOK /\ ChunksSound /\ StoredAreSeen /\ NumberedOnce

The transaction puts a SEEN row for every id only where there is none; if every
stored event has its SEEN row (`StoredAreSeen`) the ids it writes are nowhere in
the log, and if a chunk holds no id twice (`ChunksSound`, which has to follow
`keep`, `rest` and `chunk` through the retry loop) they get one number each.
Nothing about the numbers is needed, so this holds even where a patch rolls the
counter back: what `LogRollback` loses is an event, never its uniqueness.

That the log is append-only needs the counter. `Reserving` is

    Numbering /\ Reservations /\ OnlyWhatExists /\ NoRewrite

where `Reservations` says no number above the counter is used, the numbers an
execution reserved are below it and empty, and those of two executions are
disjoint. `NoRewrite` (no execution is about to put META whole) follows from
`Ops \cap Rewrites = {}`, that is, from there being no patch and no deletion of
the session. `LogRollback` shows the assumption is needed: with a patch the
counter goes back below numbers in use. It is the code's restriction, not the
proof's. Each invariant is proved with one step per action; `AppendOnly` and the
step of the refinement use it in the `Write` step, every other action leaving
the events alone.

The order needs more, `Ordering`: beside `Reserving`, every SEEN row has its event
(`SeenAreStored`), and of each event a request has in hand, whatever its device made
ahead of it has a SEEN row, was passed over, or is in hand before it (`InTurn`, through
`keep`, `chunk` and `rest`). A reservation lies past the counter, so whatever had a SEEN
row then is numbered below it; what gets one between the reservation and the write was
in the chunk, and cancels the write. That no two devices make the same event, nor the
bot one of theirs, is assumed of the constants: ids are random (`storage/ids.ts`).

### Packs

`EntrySyncProofs` proves for all sets of devices, bounds and hazards:

| Theorem | Statement |
|---|---|
| `TypeCorrect` | `Spec => []TypeOK` |
| `UnsharedStaysHome` | `Spec => []StaysHome` |
| `BoughtCopiesStay` | `"midpass" \notin Hazards` or `"outOfTurn" \notin Hazards` implies `Spec => BoughtStays` |
| `ObjectStays` | `"outOfTurn" \notin Hazards` implies `Spec => []ObjectIsRows` |

`StaysHome` speaks of the server alone, and what reaches it was read from a
device several steps before. Its strengthening, `Travelling`, adds that what
lies on a device under the switch is offered (`ShelfOffered`), that a pass on
its way to a put carries an offered text (`PushOffered`), and that what was read
of the server is offered or nothing (`ReadOffered`). `offered` only grows, so a
switch turned off during a pass withdraws nothing. The step that matters is
`List`: the plan says push only for a live record that may travel
(`OnlySwitchedOnIsPushed`). Every hazard is allowed.

For `BoughtCopiesStay` the invariant is `Sealing`: a pass past its list stands
at a record that is not sealed (`NoneSealed`), because the list leaves the
server's copy out where there is a sealed one. That needs a sealed record to be
live (`SealedIsLive`), and that no write comes between the list and the pass's
writes. Where one may, but players write in turn, it follows from the invariant below:
a pull is by a device behind the row, where nobody writes, and a purge of what is gone or
switched off. With both hazards it is the case in section 3.

`ObjectStays`, and the second half of `BoughtCopiesStay`, are for players who write
where they have what the others have, and section 3 has what breaks each without its
hypotheses. Requests may overlap, a player may write in the middle of a pass, nothing
need be noted and any pass may be cut short.
The invariant, `InOrder`, says that one device *leads*, the last whose player wrote, and
the others *follow*. A follower only takes: it is in step with the server or behind it
(`Follows`). While the leader has what the server has not (`Ahead`), each follower holds
what the row says, and all it holds is older (`Alongside`); so only the leader writes row
and object (`OnlyLeaderServes`), nobody reads them meanwhile (`NoneAheadOfPull`), and an
object that is not the row's is there only while the leader has still to push
(`Leads`). A write needs every device in step, hence no leader ahead, and makes its own
device the leader (`PutLeads`): the leadership moves only when nothing is under way.
Stamps may be compared by texts because a stamp names one text wherever the two are
found together (`Dates`), which also makes the fingerprint noted for a stamp the
record's text (`FingerprintIsText`).

### Themes

`ThemeSyncProofs` proves for all sets of devices and all bounds, with every fault
allowed:

| Theorem | Statement |
|---|---|
| `TypeCorrect` | `Spec => []TypeOK` |
| `CountCorrect` | `Spec => []LiveIsCounted` |
| `KeysCorrect` | `Spec => []KeyIsOneChange` |
| `NotesCorrect` | `Spec => []HoldsWhatItNoted` |
| `SavesCorrect` | `Spec => []NoSaveLost` |
| `AppliedCorrect` | `Spec => []AppliedOnce` |
| `BlindNowhere` | `Spec => NothingBlind` |

All rest on `Sound`, the invariant of the outbox. A queue is sound if only its
oldest change has left or knows what it was made over, a delete ends it, and its
newest change is what the library shows (`SoundQueue`, `Fits`); what a pass has
in hand is that oldest change as it is stored (`InHand`). It is proved action by
action, from lemmas that say what each plan leaves of a queue.

* The count: a create is written only over no rows and a delete only over a live
  theme, so a write moves `head.live` as it moves the set of live themes
  (`CarryCounts`). It needs that no delete is a create (`Whole`).
* Keys: no two queued changes share a key (`KeysApart`), and whatever is queued
  under a key that a receipt or a stray request has is that change, sent
  (`KeysBound`). The step shows that what a queue holds afterwards it held before,
  unchanged once it had left, or is new under a key that is nowhere
  (`KeysMove`).
* Notes: `HoldsWhatItNoted` speaks of empty queues; `NoteOk` follows a note
  through a full one, and `AnswersStand` says that an answer, given, kept in a
  receipt, or in a device's hand, names a revision the theme had with that text.
* Saves: every change but a newest save was given up by its player
  (`Superseded`), so what a confirmation, a conflict or a refusal drops is on the
  server, in the copy, or given up.
* One revision: what is queued, or on its way, after it was written was made over
  an earlier revision than the one it became (`QueuedBehind`, `Lasts`), and over
  the same one wherever else it is. The server takes only what was made over the
  latest, so it never takes it again, with or without a receipt: `AppliedOnce`
  does not rest on the seven days.
* Nothing blind: `Lineage` is defined by recursion over what each save took the
  place of, which the prover cannot unfold by induction. The proof speaks of every
  function that solves the equation (`Lined`); there is one at every state, as a text
  took the place only of one there was (`Backward`), and one more text leaves the
  lineages there are as they were (`LinesGrow`). Through them the oldest change of a
  queue was made from the revision it is written over, each later change of a queue
  from those before it, and a request nobody waits for from what it was written over
  (`Grounded`, `StrayGrounded`); so whatever a plan folds together or sets on another
  revision has what it replaces among what it was made from.

### Runs

`RunSyncProofs` proves for all devices, moves and bounds, with every fault allowed:

| Theorem | Statement |
|---|---|
| `TypeCorrect` | `Spec => []TypeOK` |
| `EventsOnce` | `Spec => []EventOnce` |
| `ConfirmedStands` | `Spec => ConfirmedStays` |
| `StoredStands` | `Spec => StoredStays` |
| `NothingLost` | `Spec => []MovesKept` |

`IInv` says that numbers are handed out once: what is in flight lies on free numbers
of its own (`FlyingFree`), so a landing only adds to the server's log, and puts no
event there twice, as it leaves out what is stored (`ServerOnce`). Then every copy of
the log, at the store, on the page, in a write, in an answer or in a pass, is a part
of the server's log with pending events of its own, made before and not among the
numbered ones (`Logs`); `Without`, which `merge` and `reconcile` are made of, keeps it
so. Overlaps, starts taken up again and pages closed do not matter to it.

The last three have no hypothesis: moves, writes, reloads, passes and closings of any devices
cross as they like, appends overlap, and any call fails. What they except is a device that
has raced, and `RunLosesMove` shows that to be no caution of the proof. The invariant,
`WholeInv`, says of every other device where its moves are (`Fits`): the outbox at the store is
in each write under way and each write in the one after it, but for what the server has;
the last write, or the store where none is under way, has what the page plays; and each move
made is on the page or at the server (`Known`). A pass's save keeps it, as what it writes was
read from a log that is still the one at the store, or it is a race; a reload keeps it for the
same reason. `ServerKeeps` says the server's log only grows, so what is excused by being
there stays excused. From it each step keeps what a record holds (`Keeps`).

### Theme links

`LookRowsProofs` proves of the rows, whatever the callers ask, and `LookLinkProofs` of
the devices, for all devices, tabs, settings and bounds:

| Theorem | Statement |
|---|---|
| `PointersAgree`, `CountCorrect`, `ShownCorrect` | `Spec =>` `[]PointersMatch`, `[]LiveCounts`, `ShownByKey`, of `LookRows` |
| `LinkImplements` | `LinkSpec => Spec`: publishers are callers |
| `LinkPointersAgree`, `LinkCountCorrect`, `LinkShownCorrect` | the three above, of `LookLink` |
| `LinkTypeCorrect` | `LinkSpec => []LinkTypeOK` |
| `NeverAheadHolds` | `LinkSpec => []NeverAhead` |
| `ElsewhereHolds` | `LinkSpec => []ElsewhereIsSo` |
| `KeysKeptHolds` | `LinkSpec => KeysKept` |
| `ForgottenHolds` | `LinkSpec => ForgottenIsGone` |
| `ConfirmedHolds` | `~Reapplied` implies `LinkSpec => []ConfirmedIsSo` |

Of the rows: a relink or a revoke writes on the condition that the row holds the key it
read, which is then the one key that points at it, and ids and keys are never given out
again (`RowsInv`). Of the records: what an answer says was so when it was given and
stays so while it travels (`AnswersSo`): a link once gone does not come back, a
revision only rises, and a secret or a key once replaced is never in use again. So a
record that takes such an answer says nothing that is not so (`RecordsGood`).

`ConfirmedHolds` needs order besides. Each secret is one device's, so the looks
published under it are that device's (`OrderInv`): each publish in the air carries no
later look than the one shown, what the link shows is no later than that, and what has
been taken is no later than what the link shows. Where looks only go forward, the look
shown, if it was confirmed, is then the last the link took. `Reapplied` breaks the
order, and the property with it (section 3).

### The table

`GuildTableProofs` proves for any steps, questions, presses, moves in the app and bounds:

| Theorem | Statement |
|---|---|
| `TypeCorrect` | `Spec => []TypeOK` |
| `TimersStopLate` | `Spec => []NeverWrong` |
| `BlocksWait` | `Spec => QuestionKept` |
| `ThreadIsTold` | `Spec => []ThreadHeard` |
| `TimersAreKept` | `Spec => []SomebodyComes` |

All hold for any number of executions at a time, and assume nothing. The entries' numbers rise
and none is past the counter (`Numbered`), so a move whose expected tail is the counter
lands on the whole log, and that is the log it was computed from. A stop is therefore
right about the clock it stands on, and, as it is made only where that clock had run out
when it was read (`Reading`), never early. The clock itself is a function defined over the log;
the proofs use it through what one more entry does to it (`Tells`).

`TimersAreKept` rests on `AInv`: the deadline of a clock that runs is in a schedule that has
not run, or about to be put in one, or has an execution on its way that will stop the timer or
ask again (`OnIt`), or was missed. `BlocksWait` rests on `HInv`: what an execution holds is the
row there is, or what it makes of it, unless another has put the row since
(`Holds`); the question it takes away it takes away for something that is in the log by then
(`GoesOn`). `ThreadIsTold` rests on `TInv`: what any row, put or held, has seen of the app is
told or being told (`Shown`), so that rows may be put over each other; and what nobody has told
has a job asked for or under way that began before it (`Telling`). It holds until an execution
stops half way.

The assumptions on the constants are `ConstantsAssumption`, `RunAssumption`,
`EntryAssumption`, `ThemeAssumption`, `LookAssumption`, `LinkAssumption` and
`TableAssumption`, which the runs of the modules evaluate.

### What is only model-checked

Everything under fairness (`AppendLands`, `Converges`, `Settles`, `Follows`), as
liveness and ENABLED are beyond the prover. `InSync`, which holds under the restrictions of
`RunExclusive` only and fails without two of them (section 3).

## 5. Not modelled, and the plan

In this order, most important first:

1. An abstract register with deletions for `EntrySync` to implement under
   `EntryInTurn`'s conditions, and requests to S3 that outlive their device.
2. Rows beside a session: reactions and asks are read, changed and put back whole
   (`store.ts:1137`).
3. `AccountRows` and the socket; then races and sales.
4. More of `packages/engine` as pure functions against reference definitions.

Some of what these parts and the modelled ones are exposed to has no model yet. A
`createSession` of the bot's and the row it then puts are two calls (`play.ts:198`). The
answer to making a link may be lost, and the link counts though no device holds it
(`looks.ts:220`); two tabs may make one each (`publisher.ts:395`). A press may reach a
session that is deleted.

Outside: parsing and linting of packs, containers and signatures, rendering,
the command line, deployment. They hold no shared state, or are pure encodings.
