---------------------------- MODULE MCSessionLog ----------------------------
(***************************************************************************)
(* A host whose device makes a, then b, and a guest whose device makes c;  *)
(* the bot's presses mint p.                                               *)
(***************************************************************************)
EXTENDS SessionLog, TLC

CONSTANTS a, b, c, p, host, guest

MCIds  == {a, b, c, p}
MCSubs == {host, guest}
MCMade == (host :> <<a, b>>) @@ (guest :> <<c>>)

\* Executions are alike, and no liveness is checked with this.
AnyWorker == Permutations(Workers)
=============================================================================
