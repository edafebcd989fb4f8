----------------------------- MODULE MCStorage -----------------------------
(* Storage with two keys and two values for TLC. *)
EXTENDS Storage
=============================================================================
