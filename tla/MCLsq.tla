-------------------------------- MODULE MCLsq --------------------------------
(* Two units, a ring of three slots, two words.                             *)
EXTENDS LsqSystem, TLC

MCAddr == {0, 1}
MCWord == 0 .. 3
\* The first word tells its stores apart; the second only differs from it.
MCHolds == 0 :> {0, 1} @@ 1 :> {3}
MCSize == {0}
=============================================================================
