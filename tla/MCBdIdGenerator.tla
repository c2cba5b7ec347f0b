-------------------------- MODULE MCBdIdGenerator --------------------------
(* Six ids in miniature.  Channels 0 and 1 share them, as on a shim tile;  *)
(* channels 2 and 3 own the lower and the upper three, as on a mem tile;   *)
(* channel 4 has none and channel 5 is unknown.                            *)
EXTENDS BdIdRotation, TLC

VARIABLE rotates   \* only the sharing channels ask, in Incremental mode

MCChannel == 0 .. 5
MCValidBdIds == 0 :> (0 .. 5) @@ 1 :> (0 .. 5) @@ 2 :> (0 .. 2) @@ 3 :> (3 .. 5) @@ 4 :> {}
MCModes == {"Smallest", "Incremental"}

MCInit == RInit /\ rotates \in BOOLEAN
MCNext == /\ \/ rotates /\ RNext
             \/ ~rotates /\ Next /\ UNCHANGED idle
          /\ UNCHANGED rotates
MCSpec == MCInit /\ [][MCNext]_<<rvars, rotates>>
=============================================================================
