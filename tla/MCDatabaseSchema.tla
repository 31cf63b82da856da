-------------------------- MODULE MCDatabaseSchema --------------------------
(* Two alerts of which the first is confirmed before the second.  Only the  *)
(* newest is listed by a run, both are when the details are looked up.      *)
EXTENDS Dashboard

CONSTANTS g1, g2

MCGroups == {g1, g2}
MCConfirmedAt == (g1 :> 1) @@ (g2 :> 2)
=============================================================================
