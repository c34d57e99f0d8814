---------------------------- MODULE MCGuildTable ----------------------------
(***************************************************************************)
(* Two executions over a unit of one step, which asks, under a timer.      *)
(***************************************************************************)
EXTENDS GuildTable, TLC

MCPresses == {"step", "answer", "undo", "note", "clock", "pause", "resume", "end"}
MCAppKinds == {"pause", "resume", "stop", "end", "repeat"}
MCSymmetry == Permutations(Workers)
=============================================================================
