-------------------------- MODULE MCGpsFileProvider --------------------------
(* GpsFileProvider for TLC: the two threads of the simulator that call it. *)
EXTENDS GpsFileProvider

CONSTANTS run, uart

Threads == {run, uart}
=============================================================================
