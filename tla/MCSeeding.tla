---------------------------- MODULE MCSeeding ----------------------------
(* Two containers that initialise the database and one that does not, two  *)
(* stations, one of which has the default mask.                            *)
EXTENDS Seeding

MCMask == [s \in Station |-> IF s = "GS001" THEN 5 ELSE 10]
=============================================================================
