---------------------------- MODULE MCThemeSync ----------------------------
(***************************************************************************)
(* Two devices of one account, the tabs of each sharing a lock.            *)
(***************************************************************************)
EXTENDS ThemeSync, TLC

CONSTANTS here, there

MCDevices == {here, there}

\* Theme 1 has been made on one device and pulled by the other: a state the system
\* reaches, to begin where changes meet.
Begun ==
  LET of(t, one, none) == IF t = 1 THEN one ELSE none IN
  /\ shelf = [t \in Ids |-> of(t, <<1>>, <<>>)] /\ head = [revision |-> 1, live |-> 1]
  /\ receipts = {[key |-> 1, revision |-> 1,
                  fingerprint |-> [id |-> 1, op |-> "put", text |-> 1, base |-> None]]}
  /\ stray = {}
  /\ library = [d \in Devices |-> [t \in Ids |-> of(t, [state |-> "saved", text |-> 1], NoRow)]]
  /\ noted = [d \in Devices |-> [t \in Ids |-> of(t, [state |-> "live", revision |-> 1], NoNote)]]
  /\ queue = [d \in Devices |-> [t \in Ids |-> <<>>]]
  /\ meta = [d \in Devices |-> 1]
  /\ place = [d \in Devices |-> "idle"] /\ flight = [d \in Devices |-> NoEntry]
  /\ answer = [d \in Devices |-> NoAnswer] /\ seen = [d \in Devices |-> NoRow]
  /\ listed = [d \in Devices |-> NoList] /\ cursor = [d \in Devices |-> 0]
  /\ texts = 1 /\ over = [n \in 1..MaxTexts |-> 0] /\ given = {}
  /\ faults = 0

MCSpec == Begun /\ [][Next]_vars

\* The devices are alike, and no liveness is checked with this.
AnyDevice == Permutations(MCDevices)
=============================================================================
