----------------------------- MODULE MCLoadGen -----------------------------
(* An instance of LoadGen for TLC. *)
EXTENDS LoadGen

MCSubCounts == <<0, 3, 2>>
MCResSubs == <<2, 0, 2>>
=============================================================================
