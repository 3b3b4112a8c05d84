----------------------- MODULE NovatelAppProperties -------------------------
(***************************************************************************)
(* The properties of the cFS application: what its two tasks, its mutex and *)
(* its counters must keep up whatever the order the tasks run in.          *)
(***************************************************************************)
EXTENDS NovatelApp

MainLabels ==
    {"Setup", "CreateMutex", "CreateChild", "StartupEvent", "RunLoop", "Receive",
     "Dispatch", "Handled", "StatusRead", "Exit", "Exited", "DeviceCommand",
     "DataChecked", "DataRead", "Transmit", "EnableChecked", "OpenPort", "PortOpened",
     "DisableChecked", "ClosePort", "PortClosed"}
ChildLabels ==
    {"Absent", "Start", "StatusRead", "EnabledRead", "DataRead", "Transmit", "Rearm", "Exited"}
ParsePoints == {"xyzZero", "xyzPos", "xyzVel", "ggaZero", "ggaSet"}
HeldPoints  == {"body", "store", "flush", "read", "give"} \cup ParsePoints
Points      == {"none", "take"} \cup HeldPoints
Results     == {"SUCCESS", "ERROR", "RUN", "ENABLED", "DISABLED"}
CounterValues == 0 .. CntMod - 1

\* Every variable stays in its domain.  In particular the counters stay in the
\* range of a uint8 and error_max_count never goes below zero.
TypeOK ==
    /\ mutex \in {"absent", "free"} \cup Tasks
    /\ runStatus \in {"RUN", "ERROR"}
    /\ count \in [Counters -> CounterValues]
    /\ enabled \in BOOLEAN
    /\ portOpen \in BOOLEAN
    /\ devPkt \in [Words -> {"zero", "none"} \cup Tasks]
    /\ saveptr \in {"none"} \cup Tasks
    /\ errMax \in 0 .. ErrMax
    /\ localRun \in Results
    /\ msg \in Messages \cup {NoMsg}
    /\ exitStatus \in {"none", "RUN", "ERROR"}
    /\ pc \in [Tasks -> MainLabels \cup ChildLabels]
    /\ fn \in [Tasks -> {"none"} \cup Functions]
    /\ at \in [Tasks -> Points]
    /\ reg \in [Tasks -> CounterValues]
    /\ ret \in [Tasks -> Results]
    /\ done \in [Counters -> CounterValues]
    /\ verdict \in [{"CommandCount", "CommandErrorCount"} -> 0 .. 2]
    /\ wrote \in BOOLEAN
    /\ fails \in 0 .. ErrMax + 2
    /\ late \in 0 .. 2

-----------------------------------------------------------------------------
(* The mutex *)

\* A task owns HkDataMutex exactly while it is between the take and the give of
\* a locking function: never two tasks at once, and no path (unknown arguments,
\* failed flush, no bytes, short read, unknown token) leaves one without the give.
MutexDiscipline == \A t \in Tasks : mutex = t <=> at[t] \in HeldPoints

\* No increment is ever lost, whatever the other task does between its read and
\* its write, and none survives a reset: each counter is the number of completed
\* increments since the last reset, plus one being handed back, modulo 256.
NoLostUpdate ==
    \A c \in Counters :
        count[c] = IF \E t \in Tasks : fn[t] = c /\ at[t] = "give"
                     THEN Wrap(done[c]) ELSE done[c]

\* The strtok_r cursor is one file-scope variable for both tasks: while a task is
\* parsing, it still points into that task's buffer.
CursorIsOwn == \A t \in Tasks : at[t] \in ParsePoints => saveptr = t

-----------------------------------------------------------------------------
(* The command handlers *)

Accepted == [CommandCount |-> 1, CommandErrorCount |-> 0]
Rejected == [CommandCount |-> 0, CommandErrorCount |-> 1]

\* v is a verdict the ground may expect for message m.
VerdictFits(m, v) ==
    /\ IsRejected(m) => v = Rejected
    /\ IsCommand(m, {"NOOP"} \cup DeviceCodes) => v = Accepted
    /\ IsCommand(m, {"ENABLE", "DISABLE"}) => v \in {Accepted, Rejected}
    /\ IsCommand(m, {"RESET_COUNTERS"}) \/ IsRequest(m, "REQ_HK") \/ IsRequest(m, "REQ_DATA")
         => v = NoVerdict

\* Every message gets exactly the verdict the ground counts on: one acceptance or
\* one rejection for a command, never both and never two, through every path of
\* the handlers; nothing for a reset, a housekeeping or a data request.
OneVerdict == Ready("main", "Handled") /\ msg # NoMsg => VerdictFits(msg, verdict)

\* Only a well-formed LOG, UNLOG, UNLOGALL or SERIALCONFIG makes the application
\* write to the receiver: nothing reaches the UART for a rejected message, for an
\* unknown log type or period, or for RESET_COUNTERS, ENABLE and DISABLE.
WritesAreCommanded ==
    wrote => /\ msg # NoMsg
             /\ IsCommand(msg, DeviceCodes)
             /\ TakesArguments(msg) => msg.argsOk

\* DeviceEnabled tells the truth about the port: the two differ only while Enable
\* or Disable is between its driver call and its SetDeviceEnabledStatus, even if
\* the driver call failed, and on every way out of AppMain.
PortMatchesEnabled ==
    portOpen # enabled =>
        pc["main"] \in {"PortOpened", "PortClosed"} \/ fn["main"] \in {"SetEnabled", "SetDisabled"}

\* An application that left its loop for an error hands that error to ExitApp, if
\* its mutex was ever created.
ExitStatusWithMutex ==
    pc["main"] = "Exited" /\ localRun = "ERROR" /\ mutex # "absent" => exitStatus = "ERROR"

-----------------------------------------------------------------------------
(* The child task *)

\* The child's check of DeviceEnabled can be stale by the time it reads the UART,
\* but only once: after the device is disabled at most one more read starts.
StaleReadAtMostOnce == late <= 1

\* A read error is counted after exactly ErrMax + 1 failed reads in a row, and no
\* longer run of failures goes unreported, whatever happens in between (disables,
\* enables, reads by the main task).
ErrorsAreDebounced ==
    /\ fails <= ErrMax + 1
    /\ pc["child"] = "Rearm" => fails = ErrMax + 1

\* A device packet is transmitted whole: its position and its velocity come from
\* the same reading.
TransmittedPacketWhole ==
    \A t \in Tasks : Ready(t, "Transmit") => devPkt["pos"] = devPkt["vel"]

-----------------------------------------------------------------------------
(* What a test or a comment of the repository says, and the code does not do *)

\* "RunStatus == CFE_ES_RunStatus_APP_ERROR" after any failed initialisation.
ExitStatusTruthful ==
    pc["main"] = "Exited" /\ localRun = "ERROR" => exitStatus = "ERROR"

-----------------------------------------------------------------------------
(* Liveness *)

\* Every message taken off the pipe is handled to the end: the main task always
\* comes back to CFE_ES_RunLoop, however the child competes for the mutex.
HandlingTerminates == pc["main"] = "Dispatch" ~> pc["main"] = "RunLoop"

\* A run status of APP_ERROR stops the whole application: the main task exits
\* and the child, if there is one, leaves its loop by itself.
ErrorStopsBothTasks ==
    runStatus = "ERROR" ~>
        pc["main"] = "Exited" /\ pc["child"] \in {"Absent", "Exited"}

\* A receiver that has gone silent is noticed: if from some time on the device
\* stays enabled and no read of the child succeeds, DeviceErrorCount is
\* incremented for it again and again.
SilentDeviceIsReported ==
    <>[](enabled /\ runStatus = "RUN" /\ pc["child"] # "Transmit")
        => []<>(pc["child"] = "Rearm")

-----------------------------------------------------------------------------
(* Refinement *)

Hk == INSTANCE HkTelemetry

\* Seen from outside, the two tasks and their mutex behave as one object whose
\* every change is atomic.
ImplementsHkTelemetry == Hk!Spec

\* An ENABLE or a DISABLE has been counted and DeviceEnabled has yet to follow: from the
\* increment of CommandCount, over the driver call, to SetDeviceEnabledStatus.
SwitchPending ==
    \/ pc["main"] \in {"OpenPort", "ClosePort"} /\ (fn["main"] = "CommandCount" => at["main"] = "give")
    \/ pc["main"] \in {"PortOpened", "PortClosed"}
    \/ fn["main"] \in {"SetEnabled", "SetDisabled"} /\ at["main"] # "give"

\* The value that Wrap takes to n.
Before(n) == IF n = 0 THEN CntMod - 1 ELSE n - 1

\* The command counter as the ground may take it to be while it waits: a switch under
\* way is not counted yet.
SeenCount == IF SwitchPending THEN Before(count["CommandCount"]) ELSE count["CommandCount"]

Ground == INSTANCE CommandView WITH count <- SeenCount

\* For a script that only looks when no command is under way, the handlers of the
\* main task, the locking functions and the child are the three steps of CommandView: the
\* counter moves by one and the enable flag flips, or only the counter does.
ImplementsCommandView == Ground!Spec
=============================================================================
