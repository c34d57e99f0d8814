----------------------------- MODULE MCLookLink -----------------------------
(***************************************************************************)
(* Two tabs of one account, of the same browser or of two.                 *)
(***************************************************************************)
EXTENDS LookLink, TLC

CONSTANTS here, there, a, b

MCDevices == {here, there}
MCTabs    == {a, b}
MCCallers == MCTabs \X (-1..MaxMints)

Shared == (a :> here) @@ (b :> here)
Apart  == (a :> here) @@ (b :> there)

MCMoved    == [home |-> Shared, readers |-> {}, ops |-> {"create", "transfer"},
               acts |-> 2, applies |-> 0, closes |-> 0, owing |-> TRUE, faults |-> 0]
MCRelinked == [home |-> Shared, readers |-> {b}, ops |-> {"create", "relink"},
               acts |-> 2, applies |-> 0, closes |-> 0, owing |-> FALSE, faults |-> 0]
MCLost     == [home |-> Shared, readers |-> {}, ops |-> {"create"},
               acts |-> 1, applies |-> 1, closes |-> 0, owing |-> FALSE, faults |-> 1]
MCClosed   == [home |-> Shared, readers |-> {b}, ops |-> {"create"},
               acts |-> 1, applies |-> 0, closes |-> 1, owing |-> FALSE, faults |-> 0]
MCApart    == [home |-> Apart, readers |-> {}, ops |-> {"create", "transfer"},
               acts |-> 2, applies |-> 1, closes |-> 0, owing |-> FALSE, faults |-> 0]
MCRevoked  == [home |-> Apart, readers |-> {a}, ops |-> {"create", "relink", "revoke"},
               acts |-> 3, applies |-> 0, closes |-> 0, owing |-> FALSE, faults |-> 0]
MCGone     == [home |-> Apart, readers |-> {}, ops |-> {"create", "transfer", "revoke"},
               acts |-> 3, applies |-> 0, closes |-> 0, owing |-> FALSE, faults |-> 0]
MCUnread   == [home |-> Apart, readers |-> {a}, ops |-> {"create", "transfer", "relink"},
               acts |-> 2, applies |-> 0, closes |-> 0, owing |-> TRUE, faults |-> 1]
MCSettings == {MCMoved, MCRelinked, MCLost, MCClosed, MCApart, MCRevoked, MCGone, MCUnread}
=============================================================================
