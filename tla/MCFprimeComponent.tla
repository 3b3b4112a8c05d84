-------------------------- MODULE MCFprimeComponent --------------------------
(* FprimeComponent for TLC. *)
EXTENDS FprimeComponent
=============================================================================
