------------------------------ MODULE MCOtaLink ------------------------------
(* Three mapped levels; a reading either clears a ceiling or says nothing. *)
EXTENDS OtaLink, TLC

MCFloor == (1 :> None) @@ (2 :> 2) @@ (3 :> None) @@ (4 :> 5)
MCCeiling == (1 :> 3) @@ (2 :> 6) @@ (3 :> None) @@ (4 :> None)
=============================================================================
