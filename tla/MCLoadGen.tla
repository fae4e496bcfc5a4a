----------------------------- MODULE MCLoadGen -----------------------------
(* The load generator with the small database. *)
EXTENDS MCVideoRec, LoadGen
=============================================================================
