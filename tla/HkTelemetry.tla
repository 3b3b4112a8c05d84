----------------------------- MODULE HkTelemetry ----------------------------
(***************************************************************************)
(* What the rest of the spacecraft may assume of the application's          *)
(* housekeeping: four counters that only ever go up by one, wrapping, or    *)
(* are all cleared together; an enable flag; and a run status that, once in *)
(* error, stays there.  Nothing here is aware of tasks or of a mutex: every *)
(* change is one indivisible step.  NovatelApp is shown to implement this.  *)
(***************************************************************************)
EXTENDS Naturals

CONSTANT CntMod   \* the counters wrap at CntMod (256: they are uint8)

Counters == {"CommandCount", "CommandErrorCount", "DeviceCount", "DeviceErrorCount"}

VARIABLES
    count,       \* HkTelemetryPkt's counters
    enabled,     \* HkTelemetryPkt.DeviceEnabled
    runStatus    \* AppData.RunStatus

vars == <<count, enabled, runStatus>>

Init ==
    /\ count = [c \in Counters |-> 0]
    /\ enabled = FALSE
    /\ runStatus = "RUN"

\* One event is counted.
Bump(c) ==
    /\ count' = [count EXCEPT ![c] = IF @ + 1 = CntMod THEN 0 ELSE @ + 1]
    /\ UNCHANGED <<enabled, runStatus>>

\* All the counters are cleared.
Clear ==
    /\ count' = [c \in Counters |-> 0]
    /\ UNCHANGED <<enabled, runStatus>>

\* The device is switched on or off.
Switch ==
    /\ enabled' = ~enabled
    /\ UNCHANGED <<count, runStatus>>

\* The application gives up, for good.
Fail ==
    /\ runStatus = "RUN"
    /\ runStatus' = "ERROR"
    /\ UNCHANGED <<count, enabled>>

Next == (\E c \in Counters : Bump(c)) \/ Clear \/ Switch \/ Fail

Spec == Init /\ [][Next]_vars
=============================================================================
