---------------------------- MODULE CommandView ----------------------------
(***************************************************************************)
(* What the application promises the scripts that watch its housekeeping: the  *)
(* command counter goes up by one at a time, and the enable flag changes only   *)
(* together with it.                                                         *)
(***************************************************************************)
EXTENDS Naturals

CONSTANT CntMod     \* the counter wraps at CntMod

VARIABLES
    count,      \* CMD_COUNT
    enabled     \* DEVICE_ENABLED

seen == <<count, enabled>>

Init == count = 0 /\ enabled = FALSE

\* A command is accepted and changes nothing the ground sees.
Accept == count' = (count + 1) % CntMod /\ UNCHANGED enabled

\* An ENABLE or a DISABLE is accepted and carried out.
Switch == count' = (count + 1) % CntMod /\ enabled' = ~enabled

Reset == count' = 0 /\ UNCHANGED enabled

Next == Accept \/ Switch \/ Reset

Spec == Init /\ [][Next]_seen
=============================================================================
