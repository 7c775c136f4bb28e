----------------------------- MODULE MCApiToken -----------------------------
(* Finite instance of ApiToken for TLC. *)
EXTENDS ApiToken
=============================================================================
