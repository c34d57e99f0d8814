------------------------------ MODULE LookLink ------------------------------
(***************************************************************************)
(* The theme link of a device: its record (channelStore.ts) and the        *)
(* publisher of every tab of its browser (publisher.ts,                    *)
(* LookChannelProvider.tsx), over the rows of LookRows.  One tab leads and *)
(* sends each Apply; another sends only the first look after a link is     *)
(* made or moved there.                                                    *)
(*                                                                         *)
(* A continuation runs whole with the answer, or the stored record, it     *)
(* waited for; between two of them anything may happen.                    *)
(***************************************************************************)
EXTENDS LookRows

CONSTANTS
  Devices,
  Tabs,
  Locks,        \* the browsers have locks: one tab of a device leads
  Tries,        \* THEME_RETRY.tries
  StaleRounds,  \* STALE_ROUNDS
  Reapplied,    \* an Apply may bring back a look from before
  Settings      \* bounds: where the tabs are open and what may happen there

Setting == [home : [Tabs -> Devices],  \* the device each tab is open on
            readers : SUBSET Tabs,     \* tabs whose publisher is given readLook
            ops : SUBSET {"create", "transfer", "relink", "revoke"},
            acts : Nat,                \* what players do with links
            applies : Nat,             \* looks applied
            closes : Nat,              \* pages closed, accounts signed out
            owing : BOOLEAN,           \* that too while the tab owes a look or waits for an answer
            faults : Nat]

ASSUME LinkAssumption ==
  /\ Callers = Tabs \X (-1..MaxMints) /\ Settings \subseteq Setting
  /\ Locks \in BOOLEAN /\ Reapplied \in BOOLEAN
  /\ Tries \in Nat \ {0} /\ StaleRounds \in Nat \ {0}
  /\ \A s \in Settings : /\ s.acts <= MaxLinks /\ s.acts <= MaxMints
                          /\ s.applies < MaxLooks /\ s.faults <= MaxFaults

VARIABLES
  setting,   \* one of the settings, all along
  records,   \* the stored record of each device's link
  shown,     \* the look applied on each device
  tab,       \* the publisher of each tab
  applies, acted, closes

link     == <<setting, records, shown, tab, applies, acted, closes>>
allVars  == <<vars, link>>

Publishes(t) == <<t, 0>>
Action(t)    == <<t, -1>>
Reads(t, k)  == <<t, k>>

\* secret and revision 0 before; published is 0 when no look is confirmed.
Record   == [id : 0..MaxLinks, secret : 0..MaxMints, key : 0..MaxMints, revision : Nat,
             published : Looks, elsewhere : BOOLEAN]
NoRecord == [id |-> 0, secret |-> 0, key |-> 0, revision |-> 0, published |-> 0, elsewhere |-> FALSE]

Told == {"none", "not-published", "following", "offline", "elsewhere", "gone"}
\* on: "off" before it starts, "stopped" once its account has gone.
\* loop: "due" before the next round of once, "sent" while its publish is in the air.
Tab  == [on : {"off", "on", "stopped"}, leading : BOOLEAN, owed : BOOLEAN, channel : Record, told : Told,
         loop : {"idle", "due", "sent"}, again : BOOLEAN, retry : BOOLEAN,
         failures : 0..Tries, stales : 0..StaleRounds, checked : 0..MaxMints,
         pending : 0..MaxMints, pendingId : 0..MaxLinks, verifyFailures : 0..Tries]
NewTab == [on |-> "off", leading |-> FALSE, owed |-> FALSE, channel |-> NoRecord, told |-> "none",
           loop |-> "idle", again |-> FALSE, retry |-> FALSE,
           failures |-> 0, stales |-> 0, checked |-> 0, pending |-> 0, pendingId |-> 0, verifyFailures |-> 0]

LinkTypeOK ==
  /\ TypeOK /\ setting \in Settings
  /\ records \in [Devices -> Record] /\ shown \in [Devices -> 1..MaxLooks] /\ tab \in [Tabs -> Tab]
  /\ applies \in Nat /\ acted \in Nat /\ closes \in Nat

LinkInit ==
  /\ Init /\ setting \in Settings
  /\ records = [d \in Devices |-> NoRecord] /\ shown = [d \in Devices |-> 1]
  /\ tab = [t \in Tabs |-> [NewTab EXCEPT !.on = "on", !.leading = ~Locks]]
  /\ applies = 0 /\ acted = 0 /\ closes = 0

-----------------------------------------------------------------------------
(* What a publisher keeps and says.                                        *)

Home        == setting.home
On(t)       == tab[t].on = "on"
Stored(t)   == records[Home[t]]
Kept(t, r)  == records' = [records EXCEPT ![Home[t]] = r]
AtMost(n, m) == IF n < m THEN n ELSE m

Resting(r) ==
  IF r = NoRecord THEN "none"
  ELSE IF r.elsewhere THEN "elsewhere" ELSE IF r.revision > 0 THEN "following" ELSE "not-published"
Waiting(r) == IF r.revision > 0 THEN "offline" ELSE "not-published"

Kick(p) ==
  IF p.on # "on" THEN p
  ELSE IF p.loop = "idle" THEN [p EXCEPT !.loop = "due"] ELSE [p EXCEPT !.again = TRUE]

Failed(p) ==
  [p EXCEPT !.failures = AtMost(@ + 1, Tries), !.told = Waiting(p.channel),
            !.retry = p.retry \/ p.failures + 1 < Tries]

\* The end of a round of once: another, if something asked for one meanwhile.
Round(p) == [p EXCEPT !.loop = IF p.again THEN "due" ELSE "idle", !.again = FALSE]

\* A stored record is still the link and the secret a call was sent with.
SameHold(r, q) == r.id = q.id /\ r.secret = q.secret /\ r # NoRecord
SameLink(r, q) == r.id = q.id /\ r # NoRecord
Forgot(r, id)  == IF r.id = id THEN NoRecord ELSE r

\* verify: whether a key is read back now, and the calls with that read among them.
Verifies(t, r, forced) ==
  /\ On(t) /\ t \in setting.readers /\ r.key # 0 /\ calls[Reads(t, r.key)].op = "none"
  /\ forced \/ r.key \notin {tab[t].checked, tab[t].pending}
Read(k, id)        == [Asked("read", id) EXCEPT !.key = k]
Verifying(t, r, forced, cs) ==
  IF Verifies(t, r, forced) THEN [cs EXCEPT ![Reads(t, r.key)] = Read(r.key, r.id)] ELSE cs

Sent(c, q) == [calls EXCEPT ![c] = q]
Heard(c)   == [calls EXCEPT ![c] = NoCall]
Has(c)     == calls[c].out # ""

-----------------------------------------------------------------------------
(* once: up to the publish it sends, and from its answer on.               *)

\* A round sends a look when the tab is one that sends and the server last confirmed another.
OnceSends(t, r) ==
  /\ ~r.elsewhere /\ (tab[t].leading \/ tab[t].owed) /\ r.published # shown[Home[t]]

Once(t) ==
  LET r == Stored(t)
      p == [tab[t] EXCEPT !.channel = r]
  IN
  /\ On(t) /\ tab[t].loop = "due"
  /\ \/ /\ r = NoRecord
        /\ tab' = [tab EXCEPT ![t] = Round([p EXCEPT !.owed = FALSE,
                                 !.told = IF p.told = "gone" THEN "gone" ELSE "none"])]
        /\ UNCHANGED calls
     \/ /\ r # NoRecord /\ ~OnceSends(t, r)
        /\ tab' = [tab EXCEPT ![t] =
             Round(IF r.elsewhere THEN [p EXCEPT !.owed = FALSE, !.told = "elsewhere"]
                   ELSE IF ~p.leading /\ ~p.owed THEN [p EXCEPT !.told = Resting(r)]
                   ELSE [p EXCEPT !.failures = 0, !.owed = FALSE, !.told = "following"])]
        /\ calls' = Verifying(t, r, FALSE, calls)
     \/ /\ r # NoRecord /\ OnceSends(t, r)
        /\ tab' = [tab EXCEPT ![t] = [p EXCEPT !.loop = "sent"]]
        /\ calls' = Verifying(t, r, FALSE,
             Sent(Publishes(t), [Asked("publish", r.id) EXCEPT !.secret = r.secret, !.base = r.revision,
                                                             !.look = shown[Home[t]]]))
  /\ UNCHANGED <<look, faults, setting, records, shown, applies, acted, closes>>

\* A faulty answer: the secret the publish was sent with is not compared.
Patched_AnySecret(r, q) ==
  IF ~SameLink(r, q) THEN r
  ELSE CASE q.out = "ok" /\ r.revision < q.revision -> [r EXCEPT !.revision = q.revision, !.published = q.look]
         [] q.out = "stale" /\ r.revision < q.revision -> [r EXCEPT !.revision = q.revision]
         [] q.out = "not-publisher" -> [r EXCEPT !.elsewhere = TRUE]
         [] OTHER -> r

\* An answer to a publish: what the record becomes, unless the publisher has stopped or the record is another's.
Patched(r, q) ==
  IF ~SameHold(r, q) THEN r
  ELSE CASE q.out = "ok" /\ r.revision < q.revision -> [r EXCEPT !.revision = q.revision, !.published = q.look]
         [] q.out = "stale" /\ r.revision < q.revision -> [r EXCEPT !.revision = q.revision]
         [] q.out = "not-publisher" -> [r EXCEPT !.elsewhere = TRUE]
         [] OTHER -> r

\* What the publisher does next; `p' has the record as it was left, `wrote' says the answer changed it.
Answered(p, q, wrote) ==
  CASE q.out = "ok" ->
         LET s == [p EXCEPT !.failures = 0, !.stales = 0, !.owed = FALSE] IN
         IF wrote THEN [s EXCEPT !.told = "following"] ELSE [s EXCEPT !.again = TRUE]
    [] q.out = "stale" ->
         LET s == [p EXCEPT !.stales = AtMost(@ + 1, StaleRounds)] IN
         IF s.stales < StaleRounds THEN [s EXCEPT !.again = TRUE] ELSE Failed(s)
    [] q.out = "not-publisher" ->
         IF wrote THEN [p EXCEPT !.owed = FALSE, !.told = "elsewhere"] ELSE [p EXCEPT !.again = TRUE]
    [] q.out = "gone" ->
         IF p.channel = NoRecord THEN [p EXCEPT !.owed = FALSE, !.told = "gone"]
                                 ELSE [p EXCEPT !.owed = FALSE, !.again = TRUE]
    [] q.out = "limited" -> [p EXCEPT !.told = Waiting(p.channel), !.retry = TRUE]
    [] OTHER -> Failed(p)

Published(t) ==
  LET q == calls[Publishes(t)]
      r == Stored(t)
      r2 == IF q.out = "gone" THEN Forgot(r, q.id) ELSE Patched(r, q)
      wrote == SameHold(r, q) /\ (q.out = "not-publisher" \/ r2 # r)
  IN
  /\ tab[t].loop = "sent" /\ Has(Publishes(t))
  /\ \/ /\ ~On(t)
        /\ tab' = [tab EXCEPT ![t].loop = "idle"] /\ calls' = Heard(Publishes(t))
        /\ UNCHANGED records
     \/ /\ On(t)
        /\ Kept(t, r2)
        /\ tab' = [tab EXCEPT ![t] =
             Round(Answered([tab[t] EXCEPT !.channel = IF q.out \in {"error", "limited"} THEN @ ELSE r2], q, wrote))]
        /\ calls' = IF q.out = "not-publisher" /\ wrote THEN Verifying(t, r2, TRUE, Heard(Publishes(t)))
                    ELSE Heard(Publishes(t))
  /\ UNCHANGED <<look, faults, setting, shown, applies, acted, closes>>

-----------------------------------------------------------------------------
(* What a player does with links: the call, and its continuation.          *)

Begins(t, op) ==
  /\ On(t) /\ op \in setting.ops /\ calls[Action(t)].op = "none"
  /\ acted < setting.acts /\ acted' = acted + 1

Make(t) ==
  LET r == Stored(t)  p == [tab[t] EXCEPT !.channel = r] IN
  /\ Begins(t, "create")
  /\ \/ /\ r = NoRecord
        /\ tab' = [tab EXCEPT ![t] = p] /\ calls' = Sent(Action(t), Asked("create", 0))
     \/ /\ r # NoRecord      \* another tab made one already
        /\ tab' = [tab EXCEPT ![t] = IF r.elsewhere THEN [p EXCEPT !.told = "elsewhere"]
                                     ELSE Kick([p EXCEPT !.told = Resting(r)])]
        /\ UNCHANGED calls
  /\ UNCHANGED <<look, faults, setting, records, shown, applies, closes>>

\* Any link of the account: the profile lists them.
UseThisDevice(t) ==
  /\ Begins(t, "transfer")
  /\ \E i \in 1..links : calls' = Sent(Action(t), Asked("transfer", i))
  /\ UNCHANGED <<look, faults, setting, records, shown, tab, applies, closes>>

NewLink(t) ==
  LET r == Stored(t) IN
  /\ Begins(t, "relink") /\ r # NoRecord
  /\ tab' = [tab EXCEPT ![t].channel = r]
  /\ calls' = Sent(Action(t), Asked("relink", r.id))
  /\ UNCHANGED <<look, faults, setting, records, shown, applies, closes>>

Forget(t) ==
  /\ Begins(t, "revoke")
  /\ \E i \in 1..links : calls' = Sent(Action(t), Asked("revoke", i))
  /\ UNCHANGED <<look, faults, setting, records, shown, tab, applies, closes>>

\* A faulty action: a call that is not answered is taken for a link that is gone.
Left_Unanswered(r, q) ==
  IF q.op = "revoke" \/ q.out # "ok" THEN Forgot(r, q.id)
  ELSE CASE q.op = "create" -> [NoRecord EXCEPT !.id = q.id, !.secret = q.secret, !.key = q.key]
         [] q.op = "transfer" -> [NoRecord EXCEPT !.id = q.id, !.secret = q.secret, !.revision = q.revision,
                                                  !.key = IF r.id = q.id THEN r.key ELSE 0]
         [] q.op = "relink" -> IF SameLink(r, q) THEN [r EXCEPT !.key = q.key] ELSE r

\* The stored record an action leaves, which it writes though the publisher has stopped since.
Left(r, q) ==
  IF q.out \notin {"ok", "gone"} THEN r
  ELSE IF q.op = "revoke" \/ q.out = "gone" THEN Forgot(r, q.id)
  ELSE CASE q.op = "create" -> [NoRecord EXCEPT !.id = q.id, !.secret = q.secret, !.key = q.key]
         [] q.op = "transfer" -> [NoRecord EXCEPT !.id = q.id, !.secret = q.secret, !.revision = q.revision,
                                                  !.key = IF r.id = q.id THEN r.key ELSE 0]
         [] q.op = "relink" -> IF SameLink(r, q) THEN [r EXCEPT !.key = q.key] ELSE r

\* What the tab does then; p has the record as it was left.
ActedOn(p, q, forgot) ==
  IF q.out \notin {"ok", "gone"} THEN p
  ELSE IF q.op = "revoke" THEN IF forgot THEN [p EXCEPT !.told = "none"] ELSE p
  ELSE IF q.out = "gone" THEN IF p.channel = NoRecord THEN [p EXCEPT !.told = "gone"] ELSE p
  ELSE CASE q.op = "create" -> Kick([p EXCEPT !.checked = q.key, !.owed = TRUE, !.told = "not-published"])
         [] q.op = "transfer" -> Kick([p EXCEPT !.checked = 0, !.owed = TRUE, !.failures = 0, !.stales = 0,
                                                !.told = Resting(p.channel)])
         [] q.op = "relink" -> [p EXCEPT !.checked = q.key, !.told = Resting(p.channel)]

\* A moved link's key is read back: the one checked before no longer counts.
ReadsBack(t, r, cs) ==
  IF t \in setting.readers /\ r.key \notin {0, tab[t].pending} /\ cs[Reads(t, r.key)].op = "none"
  THEN [cs EXCEPT ![Reads(t, r.key)] = Read(r.key, r.id)] ELSE cs

Acted(t) ==
  LET q  == calls[Action(t)]
      r2 == Left(Stored(t), q)
      p  == [tab[t] EXCEPT !.channel = IF q.out \in {"ok", "gone"} THEN r2 ELSE @]
  IN
  /\ Has(Action(t))
  /\ Kept(t, r2)
  /\ tab' = [tab EXCEPT ![t] = IF On(t) THEN ActedOn(p, q, r2 # Stored(t)) ELSE @]
  /\ calls' = IF On(t) /\ q.op = "transfer" /\ q.out = "ok" THEN ReadsBack(t, r2, Heard(Action(t)))
              ELSE Heard(Action(t))
  /\ UNCHANGED <<look, faults, setting, shown, applies, acted, closes>>

-----------------------------------------------------------------------------
(* verify: the answer to a read of the stored key.                         *)

\* A faulty answer: the key that was read is not compared with the one stored now.
Cleared_AnyKey(r, q) == IF SameLink(r, q) THEN [r EXCEPT !.key = 0] ELSE r

\* A key that opens nothing goes from the record, if it is still there.
Cleared(r, q) == IF SameLink(r, q) /\ r.key = q.key THEN [r EXCEPT !.key = 0] ELSE r

Verified(t, k) ==
  LET q == calls[Reads(t, k)]
      r == Stored(t)
      p == [tab[t] EXCEPT !.verifyFailures = 0, !.pending = 0, !.pendingId = 0]
      n == tab[t].verifyFailures + 1
  IN
  /\ Has(Reads(t, k))
  /\ calls' = Heard(Reads(t, k))
  /\ \/ /\ ~On(t) /\ UNCHANGED <<tab, records>>
     \/ /\ On(t) /\ q.out \in {"ok", "unpublished"}
        /\ tab' = [tab EXCEPT ![t] = [p EXCEPT !.checked = k]]
        /\ UNCHANGED records
     \/ /\ On(t) /\ q.out = "gone"
        /\ Kept(t, Cleared(r, q))
        /\ tab' = [tab EXCEPT ![t] = [p EXCEPT !.checked = IF @ = k THEN 0 ELSE @, !.channel = Cleared(r, q)]]
     \/ /\ On(t) /\ q.out = "error"
        /\ tab' = [tab EXCEPT ![t].verifyFailures = AtMost(n, Tries), ![t].pending = IF n < Tries THEN k ELSE 0,
                              ![t].pendingId = IF n < Tries THEN q.id ELSE 0]
        /\ UNCHANGED records
  /\ UNCHANGED <<look, faults, setting, shown, applies, acted, closes>>

\* The timer of a check that failed.
VerifyAgain(t) ==
  LET p == tab[t] IN
  /\ On(t) /\ p.pending # 0 /\ calls[Reads(t, p.pending)].op = "none"
  /\ calls' = Sent(Reads(t, p.pending), Read(p.pending, p.pendingId))
  /\ UNCHANGED <<look, faults, link>>

-----------------------------------------------------------------------------
(* Applies, timers, and tabs that come and go.                             *)

\* The look goes out after a second, longer if the tab's round takes longer to begin.
Applied(d, l) ==
  /\ applies < setting.applies /\ applies' = applies + 1
  /\ shown' = [shown EXCEPT ![d] = l]
  /\ tab' = [t \in Tabs |->
       IF Home[t] # d \/ ~On(t) THEN tab[t]
       ELSE Kick([tab[t] EXCEPT !.retry = FALSE, !.failures = 0, !.stales = 0])]
  /\ UNCHANGED <<look, calls, faults, setting, records, acted, closes>>

\* A look is applied: a new one, or one from before; every tab of the browser hears.
Apply(d) == \E l \in 1..MaxLooks : /\ l # shown[d] /\ (Reapplied \/ l = applies + 2)
                                   /\ Applied(d, l)

Retry(t) ==
  /\ On(t) /\ tab[t].retry
  /\ tab' = [tab EXCEPT ![t] = Kick([tab[t] EXCEPT !.retry = FALSE])]
  /\ UNCHANGED <<look, calls, faults, setting, records, shown, applies, acted, closes>>

\* The next tab that waits for the browser's lock has it.
Lead(t) ==
  /\ Locks /\ On(t) /\ ~tab[t].leading
  /\ \A u \in Tabs : Home[u] = Home[t] => ~tab[u].leading
  /\ tab' = [tab EXCEPT ![t] = Kick([tab[t] EXCEPT !.leading = TRUE, !.failures = 0, !.stales = 0])]
  /\ UNCHANGED <<look, calls, faults, setting, records, shown, applies, acted, closes>>

Quiet(t) == \A c \in Callers : c[1] = t => calls[c].op = "none"

Start(t) ==
  LET r == Stored(t)
      p == [NewTab EXCEPT !.on = "on", !.leading = ~Locks, !.channel = r, !.told = Resting(r)]
  IN
  /\ tab[t].on # "on" /\ tab[t].loop = "idle" /\ Quiet(t)
  /\ tab' = [tab EXCEPT ![t] = IF p.leading /\ r # NoRecord /\ ~r.elsewhere THEN Kick(p) ELSE p]
  /\ calls' = IF t \in setting.readers /\ r.key # 0 THEN Sent(Reads(t, r.key), Read(r.key, r.id)) ELSE calls
  /\ UNCHANGED <<look, faults, setting, records, shown, applies, acted, closes>>

\* Nothing a player began in the tab is unfinished, where that matters.
MayEnd(t) == setting.owing \/ (~tab[t].owed /\ calls[Action(t)].op = "none")

\* The account signs out, in every tab of the browser: what is in the air still lands.
SignOut(d) ==
  /\ closes < setting.closes /\ closes' = closes + 1
  /\ \E t \in Tabs : Home[t] = d /\ On(t)
  /\ \A t \in Tabs : Home[t] = d => MayEnd(t)
  /\ tab' = [t \in Tabs |-> IF Home[t] # d \/ ~On(t) THEN tab[t]
                            ELSE [NewTab EXCEPT !.on = "stopped", !.loop = IF tab[t].loop = "sent" THEN "sent" ELSE "idle"]]
  /\ UNCHANGED <<look, calls, faults, setting, records, shown, applies, acted>>

\* The page closes: what it had in the air is done by now or never is.
Close(t) ==
  /\ closes < setting.closes /\ closes' = closes + 1
  /\ On(t) /\ MayEnd(t)
  /\ tab' = [tab EXCEPT ![t] = NewTab]
  /\ calls' = [c \in Callers |-> IF c[1] = t THEN NoCall ELSE calls[c]]
  /\ UNCHANGED <<look, faults, setting, records, shown, applies, acted>>

-----------------------------------------------------------------------------

Publisher(t) ==
  \/ Once(t) \/ Published(t) \/ Acted(t) \/ (\E k \in Mints : Verified(t, k))
  \/ VerifyAgain(t) \/ Retry(t) \/ Lead(t)
Player(t) ==
  \/ Make(t) \/ UseThisDevice(t) \/ NewLink(t) \/ Forget(t) \/ Start(t) \/ Close(t)

LinkNext ==
  \/ \E c \in Callers : (Serve(c) \/ (Trouble(c) /\ faults < setting.faults)) /\ UNCHANGED link
  \/ \E t \in Tabs : Publisher(t) \/ Player(t)
  \/ \E d \in Devices : Apply(d) \/ SignOut(d)

LinkSpec == LinkInit /\ [][LinkNext]_allVars

\* The server answers what reaches it, timers fire, continuations run and the lock is granted.
LinkFairSpec ==
  /\ LinkSpec
  /\ \A c \in Callers : WF_allVars(Serve(c) /\ UNCHANGED link)
  /\ \A t \in Tabs : WF_allVars(Publisher(t))

-----------------------------------------------------------------------------

\* The device's record names a link that is there, by the secret its row holds.
Holds(d) ==
  LET r == records[d] IN r # NoRecord /\ rows[r.id].there /\ rows[r.id].secret = r.secret

\* A device that holds its link never thinks its look newer than it is, whatever answers come late, twice or
\* not at all (publisher.ts once: the ok and stale answers, takeOver).
NeverAhead == \A d \in Devices : Holds(d) => records[d].revision <= rows[records[d].id].revision

\* A record that says another device publishes is not the one the server takes looks from: an answer to a
\* publish sent before the link came back does not send its device away (publisher.ts not-publisher).
ElsewhereIsSo == \A d \in Devices : records[d].elsewhere => ~Holds(d)

\* A stored read key is cleared only once it opens nothing: a new one kept by another tab while the old one
\* was read stays (publisher.ts verify).
KeysKept ==
  [][\A d \in Devices : records[d].key # 0 /\ records'[d] # NoRecord /\ records'[d].id = records[d].id
                        /\ records'[d].key = 0 => pointers[records[d].key] = 0]_allVars

\* A record is forgotten only when its link is gone from the server: not for another link that is, nor for
\* one of its own that was; or when a relink or a revoke of it, from that tab, came after another had taken the
\* key it read, which the answer does not tell from a link that is gone (publisher.ts forget, lookRoutes.ts GONE).
ForgottenIsGone ==
  [][\A d \in Devices : records[d] # NoRecord /\ records'[d] = NoRecord =>
       \/ ~rows[records[d].id].there
       \/ \E t \in Tabs : /\ Home[t] = d /\ calls[Action(t)].stage = "read" /\ calls[Action(t)].out = "gone"
                         /\ calls[Action(t)].id = records[d].id /\ ~StillHolds(Action(t))]_allVars

\* A device that holds its link and has the look it shows now for the one the server confirmed is right: it
\* sends nothing more, so this is the look its widgets are left with (publisher.ts once, publishedKey).
ConfirmedIsSo ==
  \A d \in Devices :
    Holds(d) /\ records[d].published = shown[d] => rows[records[d].id].look = shown[d]

\* The widgets of a device's link come to show the look applied last, while a tab of it is open; unless a tab
\* ended, or moved its link, while it had a look to send (publisher.ts once, later, lead; LookChannelProvider.tsx).
Follows ==
  <>[](\A d \in Devices : ~setting.owing /\ Holds(d) /\ (\E t \in Tabs : Home[t] = d /\ On(t))
         => rows[records[d].id].look = shown[d])
=============================================================================
