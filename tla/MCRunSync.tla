------------------------------ MODULE MCRunSync ------------------------------
(***************************************************************************)
(* A run started on one device, which makes a, then b; another device      *)
(* takes the run up and makes c.                                           *)
(***************************************************************************)
EXTENDS RunSync, TLC

CONSTANTS a, b, c, here, there

MCIds     == {a, b, c}
MCDevices == {here, there}
MCMade    == (here :> <<a, b>>) @@ (there :> <<c>>)

\* A behaviour is followed to the first race, the properties saying nothing of
\* a device that has raced, and with one "pulled" at a time unheard of.
Followed == \A d \in Devices : ~raced[d] /\ Len(news[d]) <= 1
=============================================================================
