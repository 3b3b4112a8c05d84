--------------------------- MODULE MCGroundScript ---------------------------
(* GroundScript for TLC. *)
EXTENDS GroundScript
=============================================================================
