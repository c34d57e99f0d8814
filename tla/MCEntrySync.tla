---------------------------- MODULE MCEntrySync ----------------------------
(***************************************************************************)
(* Two devices of one account.                                             *)
(***************************************************************************)
EXTENDS EntrySync

CONSTANTS here, there

MCDevices == {here, there}
=============================================================================
