----------------------------- MODULE NovatelApp -----------------------------
(***************************************************************************)
(* The cFS application of the NovAtel OEM615 GPS receiver                  *)
(* (fsw/cfs/src/novatel_oem615_app.c and novatel_oem615_child.c).          *)
(*                                                                         *)
(* Two tasks share one global, NOVATEL_OEM615_AppData: the main task, which*)
(* initialises the application, pends on the Software Bus pipe and handles *)
(* one message at a time, and the child task, which polls the UART every   *)
(* 250 ms.  Every access meant to be safe goes through a small function    *)
(* that takes HkDataMutex, does its work and gives the mutex back.         *)
(*                                                                         *)
(* A task is at a control point pc[t].  When it calls one of the locking   *)
(* functions, fn[t] names the function, at[t] is the progress inside it    *)
(* and pc[t] is where the task goes on when the function returns; a step of*)
(* the task's own code needs at[t] = "none".  An increment is a read       *)
(* ("body") and a write ("store"), so that the mutex has to earn its keep. *)
(*                                                                         *)
(* External, modelled from how the code uses it: the Software Bus (any     *)
(* message of Messages, or a pipe error), Executive Services (each creation*)
(* call may fail, and may ask the app to stop), OSAL's mutex (a take fails *)
(* exactly when the mutex was never created) and the UART driver (a failed *)
(* open leaves the port closed, a failed close leaves it open, a closed    *)
(* port has no bytes; anything may be in the receive buffer of an open one)*)
(*                                                                         *)
(* A definition with Mutant in its name is part of no specification: it is *)
(* the definition that follows it with a bug that is easy to make, kept to *)
(* show that a property of NovatelAppProperties would catch that bug.      *)
(***************************************************************************)
EXTENDS Naturals

CONSTANTS
    CntMod,     \* the counters are uint8: they wrap at 256
    ErrMax,     \* NOVATEL_OEM615_CFG_DATA_ERROR_CNT (10)
    Messages,   \* the messages other applications and the ground may send
    NoMsg       \* no message is being handled

CommandCodes == {"NOOP", "RESET_COUNTERS", "ENABLE", "DISABLE",
                 "LOG", "UNLOG", "UNLOGALL", "SERIALCONFIG"}
DeviceCodes  == {"LOG", "UNLOG", "UNLOGALL", "SERIALCONFIG"}
RequestCodes == {"REQ_HK", "REQ_DATA"}

\* A packet on the command pipe, reduced to what the handlers look at: its
\* message id, its function code under the name that message id gives it (any
\* other name stands for a code it does not know), whether its size is the one
\* VerifyCmdLength expects, and whether LogType and PeriodOption are ones
\* CommandDevice knows.
Message == [mid      : {"CMD_MID", "REQ_HK_MID", "OTHER"},
            cc       : CommandCodes \cup RequestCodes \cup {"BAD"},
            lengthOk : BOOLEAN,
            argsOk   : BOOLEAN]

ASSUME ConstantsAssumption ==
    /\ CntMod \in Nat \ {0}
    /\ ErrMax \in Nat
    /\ Messages \subseteq Message
    /\ NoMsg \notin Message

Tasks    == {"main", "child"}
Counters == {"CommandCount", "CommandErrorCount", "DeviceCount", "DeviceErrorCount"}
Words    == {"pos", "vel", "geo"}   \* ECEF position, ECEF velocity, lat/lon/alt

Readers   == {"SafeRequestData", "ChildProcessRequestData"}
Functions == Counters \cup Readers \cup
             {"ResetCounters", "GetRunStatus", "SetRunStatus", "GetDeviceEnabledStatus",
              "SetEnabled", "SetDisabled", "SafeCommandDeviceCustom"}

VARIABLES
    mutex,       \* HkDataMutex: "absent" until created, then "free" or its owner
    runStatus,   \* AppData.RunStatus
    count,       \* the four counters of HkTelemetryPkt
    enabled,     \* HkTelemetryPkt.DeviceEnabled = NOVATEL_OEM615_DEVICE_ENABLED
    portOpen,    \* the driver's view of Novatel_oem615Uart
    devPkt,      \* DevicePkt: for each word, the task whose reading it holds, or "zero"
    saveptr,     \* the task whose buffer the file-scope strtok_r cursor points into
    errMax,      \* the child's global error_max_count
    localRun,    \* AppMain's local_run
    msg,         \* *AppData.MsgPtr while it is being handled
    exitStatus,  \* the argument of CFE_ES_ExitApp, once called
    pc, fn, at,  \* control, per task: see above
    reg,         \* the value an increment has read, per task
    ret,         \* the value the last locking function returned, per task
    \* History variables: read by no guard, they only record what happened.
    done,        \* completed increments of each counter since the last reset, modulo CntMod
    verdict,     \* increments of the two command counters made for msg (saturates at 2)
    wrote,       \* uart_write_port was called while msg was being handled
    fails,       \* the child's failed reads in a row since its last success or report
                 \* (saturates at ErrMax + 2)
    late         \* UART reads the child started since the device was disabled (saturates at 2)

hkVars      == <<runStatus, count, enabled>>
deviceVars  == <<portOpen, devPkt, saveptr>>
mainVars    == <<localRun, msg, exitStatus>>
historyVars == <<done, verdict, wrote, fails, late>>
vars == <<mutex, hkVars, deviceVars, errMax, mainVars, pc, fn, at, reg, ret, historyVars>>

-----------------------------------------------------------------------------
(* Control *)

\* Task t, between two calls, is about to run the code at label l.
Ready(t, l) == pc[t] = l /\ at[t] = "none"

GoTo(t, l) == pc' = [pc EXCEPT ![t] = l] /\ UNCHANGED <<fn, at>>

\* Task t calls locking function f and will go on at label l.
Call(t, f, l) ==
    /\ pc' = [pc EXCEPT ![t] = l]
    /\ fn' = [fn EXCEPT ![t] = f]
    /\ at' = [at EXCEPT ![t] = "take"]

\* A step that does nothing but call f, or nothing but go on.
JustCall(t, f, l) ==
    /\ Call(t, f, l)
    /\ UNCHANGED <<mutex, hkVars, deviceVars, errMax, mainVars, reg, ret, historyVars>>
JustGoTo(t, l) ==
    /\ GoTo(t, l)
    /\ UNCHANGED <<mutex, hkVars, deviceVars, errMax, mainVars, reg, ret, historyVars>>

\* Task t, inside function f, has just reached point p of it.
In(t, f, p) == at[t] = p /\ fn[t] = f
Advance(t, p) == at' = [at EXCEPT ![t] = p] /\ UNCHANGED <<pc, fn>>
Return(t, r, p) == Advance(t, p) /\ ret' = [ret EXCEPT ![t] = r]

Wrap(n) == IF n + 1 = CntMod THEN 0 ELSE n + 1
Saturate(n) == IF n = 2 THEN 2 ELSE n + 1

Zeroes == [c \in Counters |-> 0]
NoVerdict == [c \in {"CommandCount", "CommandErrorCount"} |-> 0]

-----------------------------------------------------------------------------
(* The locking functions *)

\* Mutant: takes the mutex from its owner.
TakeMutantUnlocked(t) ==
    /\ at[t] = "take" /\ mutex # "absent"
    /\ mutex' = t
    /\ Advance(t, "body")
    /\ UNCHANGED <<hkVars, deviceVars, errMax, mainVars, reg, ret, historyVars>>
\* OS_MutSemTake succeeds: the task owns the mutex.
Take(t) ==
    /\ at[t] = "take" /\ mutex = "free"
    /\ mutex' = t
    /\ Advance(t, "body")
    /\ UNCHANGED <<hkVars, deviceVars, errMax, mainVars, reg, ret, historyVars>>

\* OS_MutSemTake fails: the function does nothing, and one that returns a
\* value returns an error (CFE_ES_RunStatus_APP_ERROR or OS_ERROR).
TakeFails(t) ==
    /\ at[t] = "take" /\ mutex = "absent"
    /\ at' = [at EXCEPT ![t] = "none"]
    /\ fn' = [fn EXCEPT ![t] = "none"]
    /\ ret' = [ret EXCEPT ![t] = "ERROR"]
    /\ UNCHANGED <<mutex, hkVars, deviceVars, errMax, mainVars, pc, reg, historyVars>>

Give(t) ==
    /\ at[t] = "give"
    /\ mutex' = "free"
    /\ at' = [at EXCEPT ![t] = "none"]
    /\ fn' = [fn EXCEPT ![t] = "none"]
    /\ done' = IF fn[t] \in Counters THEN [done EXCEPT ![fn[t]] = Wrap(@)] ELSE done
    /\ UNCHANGED <<hkVars, deviceVars, errMax, mainVars, pc, reg, ret,
                   verdict, wrote, fails, late>>

\* The read half of HkTelemetryPkt.<counter>++ ...
LoadCounter(t) ==
    /\ at[t] = "body" /\ fn[t] \in Counters
    /\ reg' = [reg EXCEPT ![t] = count[fn[t]]]
    /\ Advance(t, "store")
    /\ UNCHANGED <<mutex, hkVars, deviceVars, errMax, mainVars, ret, historyVars>>

\* ... and the write half, modulo 256.
StoreCounter(t) ==
    /\ at[t] = "store" /\ fn[t] \in Counters
    /\ count' = [count EXCEPT ![fn[t]] = Wrap(reg[t])]
    /\ verdict' = IF fn[t] \in DOMAIN verdict
                    THEN [verdict EXCEPT ![fn[t]] = Saturate(@)] ELSE verdict
    /\ Advance(t, "give")
    /\ UNCHANGED <<mutex, runStatus, enabled, deviceVars, errMax, mainVars, reg, ret,
                   done, wrote, fails, late>>

\* Mutant: forgets the device counters.
ResetCountersMutantPartial(t) ==
    /\ In(t, "ResetCounters", "body")
    /\ count' = [count EXCEPT !["CommandCount"] = 0, !["CommandErrorCount"] = 0]
    /\ done' = [done EXCEPT !["CommandCount"] = 0, !["CommandErrorCount"] = 0]
    /\ Advance(t, "give")
    /\ UNCHANGED <<mutex, runStatus, enabled, deviceVars, errMax, mainVars, reg, ret,
                   verdict, wrote, fails, late>>
\* Mutant: clears the whole of HkTelemetryPkt, DeviceEnabled with it.
ResetCountersMutantWholePacket(t) ==
    /\ In(t, "ResetCounters", "body")
    /\ count' = Zeroes
    /\ done' = Zeroes
    /\ enabled' = FALSE
    /\ Advance(t, "give")
    /\ UNCHANGED <<mutex, runStatus, deviceVars, errMax, mainVars, reg, ret,
                   verdict, wrote, fails, late>>
\* The four stores are one step: nothing reads the counters in between (the
\* only reader outside the mutex, ReportHousekeeping, runs in the same task).
ResetCounters(t) ==
    /\ In(t, "ResetCounters", "body")
    /\ count' = Zeroes
    /\ done' = Zeroes
    /\ Advance(t, "give")
    /\ UNCHANGED <<mutex, runStatus, enabled, deviceVars, errMax, mainVars, reg, ret,
                   verdict, wrote, fails, late>>

GetRunStatus(t) ==
    /\ In(t, "GetRunStatus", "body")
    /\ Return(t, runStatus, "give")
    /\ UNCHANGED <<mutex, hkVars, deviceVars, errMax, mainVars, reg, historyVars>>

\* SetRunStatus is only ever called with CFE_ES_RunStatus_APP_ERROR.
SetRunStatus(t) ==
    /\ In(t, "SetRunStatus", "body")
    /\ runStatus' = "ERROR"
    /\ Advance(t, "give")
    /\ UNCHANGED <<mutex, count, enabled, deviceVars, errMax, mainVars, reg, ret, historyVars>>

GetDeviceEnabledStatus(t) ==
    /\ In(t, "GetDeviceEnabledStatus", "body")
    /\ Return(t, IF enabled THEN "ENABLED" ELSE "DISABLED", "give")
    /\ UNCHANGED <<mutex, hkVars, deviceVars, errMax, mainVars, reg, historyVars>>

SetDeviceEnabledStatus(t) ==
    /\ at[t] = "body" /\ fn[t] \in {"SetEnabled", "SetDisabled"}
    /\ enabled' = (fn[t] = "SetEnabled")
    /\ late' = 0
    /\ Advance(t, "give")
    /\ UNCHANGED <<mutex, runStatus, count, deviceVars, errMax, mainVars, reg, ret,
                   done, verdict, wrote, fails>>

-----------------------------------------------------------------------------
(* SafeCommandDeviceCustom: NOVATEL_OEM615_CommandDevice under the mutex.  *)
(* Its status is returned but every caller drops it.                       *)

TakesArguments(m) == m.cc \in {"LOG", "UNLOG"}

\* An unknown LogType or PeriodOption: OS_ERROR before the port is touched.
CommandDeviceRefuses(t) ==
    /\ In(t, "SafeCommandDeviceCustom", "body")
    /\ TakesArguments(msg) /\ ~msg.argsOk
    /\ Return(t, "ERROR", "give")
    /\ UNCHANGED <<mutex, hkVars, deviceVars, errMax, mainVars, reg, historyVars>>

\* Mutant: does not check the arguments.
CommandDeviceBuildsMutantAnyArguments(t) ==
    /\ In(t, "SafeCommandDeviceCustom", "body")
    /\ Advance(t, "flush")
    /\ UNCHANGED <<mutex, hkVars, deviceVars, errMax, mainVars, reg, ret, historyVars>>
\* The command string is built and the port is about to be flushed.
CommandDeviceBuilds(t) ==
    /\ In(t, "SafeCommandDeviceCustom", "body")
    /\ TakesArguments(msg) => msg.argsOk
    /\ Advance(t, "flush")
    /\ UNCHANGED <<mutex, hkVars, deviceVars, errMax, mainVars, reg, ret, historyVars>>

\* Mutant: returns without giving the mutex back.
CommandDeviceFlushesMutantLeak(t) ==
    /\ In(t, "SafeCommandDeviceCustom", "flush")
    /\ \/ Return(t, "SUCCESS", "give") /\ wrote' = TRUE
       \/ Return(t, "ERROR", "none") /\ UNCHANGED wrote
    /\ UNCHANGED <<mutex, hkVars, deviceVars, errMax, mainVars, reg,
                   done, verdict, fails, late>>
\* uart_flush succeeds, then uart_write_port, whose result is not looked at; or
\* uart_flush fails and nothing is written.
CommandDeviceFlushes(t) ==
    /\ In(t, "SafeCommandDeviceCustom", "flush")
    /\ \/ Return(t, "SUCCESS", "give") /\ wrote' = TRUE
       \/ Return(t, "ERROR", "give") /\ UNCHANGED wrote
    /\ UNCHANGED <<mutex, hkVars, deviceVars, errMax, mainVars, reg,
                   done, verdict, fails, late>>

-----------------------------------------------------------------------------
(* SafeRequestData and ChildProcessRequestData: NOVATEL_OEM615_RequestData *)
(* and NOVATEL_OEM615_ChildProcessReadData under the mutex.  Both read all *)
(* the bytes there are and look at the first token only.                   *)

\* uart_bytes_available: none, or some, and then there is something to read.
BytesAvailable(t) ==
    /\ at[t] = "body" /\ fn[t] \in Readers
    /\ late' = IF enabled THEN late ELSE Saturate(late)
    /\ \/ Return(t, "ERROR", "give")
       \/ portOpen /\ Advance(t, "read") /\ UNCHANGED ret
    /\ UNCHANGED <<mutex, hkVars, deviceVars, errMax, mainVars, reg,
                   done, verdict, wrote, fails>>

\* uart_read_port returns fewer bytes than asked for: the buffer is dropped.
\* It must when the main task has closed the port in the meantime.
ShortRead(t) ==
    /\ at[t] = "read"
    /\ Return(t, "ERROR", "give")
    /\ UNCHANGED <<mutex, hkVars, deviceVars, errMax, mainVars, reg, historyVars>>

\* All bytes are read and strtok_r splits off the first token.  The main task
\* parses a BESTXYZA log, the child also a GPGGA sentence; anything else is
\* an error.
FirstToken(t) ==
    /\ at[t] = "read" /\ portOpen
    /\ saveptr' = t
    /\ \/ Advance(t, "xyzZero") /\ UNCHANGED ret
       \/ /\ fn[t] = "ChildProcessRequestData"
          /\ Advance(t, "ggaZero") /\ UNCHANGED ret
       \/ Return(t, "ERROR", "give")
    /\ UNCHANGED <<mutex, hkVars, portOpen, devPkt, errMax, mainVars, reg, historyVars>>

\* One word of DevicePkt is written in place, and task t goes on at point p.
WriteWord(t, p, w, v) ==
    /\ devPkt' = [devPkt EXCEPT ![w] = v]
    /\ Advance(t, p)
    /\ UNCHANGED <<mutex, hkVars, portOpen, saveptr, errMax, mainVars, reg, ret, historyVars>>

\* ParseBestXYZA first zeroes all nine fields, ...
ParseXyzZero(t) ==
    /\ at[t] = "xyzZero"
    /\ devPkt' = [devPkt EXCEPT !["pos"] = "zero", !["vel"] = "zero"]
    /\ Advance(t, "xyzPos")
    /\ UNCHANGED <<mutex, hkVars, portOpen, saveptr, errMax, mainVars, reg, ret, historyVars>>

\* Mutant: returns success before the velocity is parsed.
ParseXyzPositionMutantShort(t) ==
    /\ at[t] = "xyzPos"
    /\ devPkt' = [devPkt EXCEPT !["pos"] = saveptr]
    /\ Return(t, "SUCCESS", "give")
    /\ UNCHANGED <<mutex, hkVars, portOpen, saveptr, errMax, mainVars, reg, historyVars>>
\* ... then stores the position and last the velocity, each out of the bytes
\* the shared cursor points into.
ParseXyzPosition(t) == at[t] = "xyzPos" /\ WriteWord(t, "xyzVel", "pos", saveptr)
ParseXyzVelocity(t) ==
    /\ at[t] = "xyzVel"
    /\ devPkt' = [devPkt EXCEPT !["vel"] = saveptr]
    /\ Return(t, "SUCCESS", "give")
    /\ UNCHANGED <<mutex, hkVars, portOpen, saveptr, errMax, mainVars, reg, historyVars>>

\* ParseBestGPGGA zeroes lat, lon and alt, then stores the three of them.
ParseGgaZero(t) == at[t] = "ggaZero" /\ WriteWord(t, "ggaSet", "geo", "zero")
ParseGgaSet(t) ==
    /\ at[t] = "ggaSet"
    /\ devPkt' = [devPkt EXCEPT !["geo"] = saveptr]
    /\ Return(t, "SUCCESS", "give")
    /\ UNCHANGED <<mutex, hkVars, portOpen, saveptr, errMax, mainVars, reg, historyVars>>

LockingFunctionStep(t) ==
    \/ Take(t) \/ TakeFails(t) \/ Give(t)
    \/ LoadCounter(t) \/ StoreCounter(t) \/ ResetCounters(t)
    \/ GetRunStatus(t) \/ SetRunStatus(t)
    \/ GetDeviceEnabledStatus(t) \/ SetDeviceEnabledStatus(t)
    \/ CommandDeviceRefuses(t) \/ CommandDeviceBuilds(t) \/ CommandDeviceFlushes(t)
    \/ BytesAvailable(t) \/ ShortRead(t) \/ FirstToken(t)
    \/ ParseXyzZero(t) \/ ParseXyzPosition(t) \/ ParseXyzVelocity(t)
    \/ ParseGgaZero(t) \/ ParseGgaSet(t)

-----------------------------------------------------------------------------
(* The main task: NOVATEL_AppMain and NOVATEL_OEM615_AppInit *)

\* The state in which the application is loaded, as AppInit first leaves it.
Init ==
    /\ mutex = "absent" /\ runStatus = "RUN" /\ count = Zeroes /\ enabled = FALSE
    /\ portOpen = FALSE /\ devPkt = [w \in Words |-> "zero"] /\ saveptr = "none"
    /\ errMax = ErrMax
    /\ localRun = "RUN" /\ msg = NoMsg /\ exitStatus = "none"
    /\ pc = [t \in Tasks |-> IF t = "main" THEN "Setup" ELSE "Absent"]
    /\ fn = [t \in Tasks |-> "none"]
    /\ at = [t \in Tasks |-> "none"]
    /\ reg = [t \in Tasks |-> 0]
    /\ ret = [t \in Tasks |-> "SUCCESS"]
    /\ done = Zeroes /\ verdict = NoVerdict /\ wrote = FALSE /\ fails = 0 /\ late = 0

\* Mutant: does not set the run status.
InitFailsMutantSilent ==
    /\ GoTo("main", "RunLoop")
    /\ localRun' = "ERROR"
\* AppInit returns an error: AppMain sets the run status, which takes a mutex
\* that may not exist yet, and does not enter its loop.
InitFails ==
    /\ Call("main", "SetRunStatus", "RunLoop")
    /\ localRun' = "ERROR"

\* The command pipe is created and subscribed to two message ids, or one of the
\* three calls fails.
SetUpPipe ==
    /\ Ready("main", "Setup")
    /\ \/ GoTo("main", "CreateMutex") /\ UNCHANGED localRun
       \/ InitFails
    /\ UNCHANGED <<mutex, hkVars, deviceVars, errMax, msg, exitStatus, reg, ret, historyVars>>

CreateMutex ==
    /\ Ready("main", "CreateMutex")
    /\ \/ mutex' = "free" /\ GoTo("main", "CreateChild") /\ UNCHANGED localRun
       \/ InitFails /\ UNCHANGED mutex
    /\ UNCHANGED <<hkVars, deviceVars, errMax, msg, exitStatus, reg, ret, historyVars>>

\* The child runs from here on, before the counters are reset.
CreateChildTask ==
    /\ Ready("main", "CreateChild")
    /\ \/ /\ pc' = [pc EXCEPT !["main"] = "StartupEvent", !["child"] = "Start"]
          /\ fn' = [fn EXCEPT !["main"] = "ResetCounters"]
          /\ at' = [at EXCEPT !["main"] = "take"]
          /\ UNCHANGED localRun
       \/ InitFails
    /\ UNCHANGED <<mutex, hkVars, deviceVars, errMax, msg, exitStatus, reg, ret, historyVars>>

\* AppInit returns the status of CFE_EVS_SendEvent: a lost event is an init failure.
SendStartupEvent ==
    /\ Ready("main", "StartupEvent")
    /\ \/ GoTo("main", "RunLoop") /\ UNCHANGED localRun
       \/ InitFails
    /\ UNCHANGED <<mutex, hkVars, deviceVars, errMax, msg, exitStatus, reg, ret, historyVars>>

\* CFE_ES_RunLoop says go on, which it only does for a local_run of APP_RUN ...
RunLoopContinues ==
    /\ Ready("main", "RunLoop") /\ localRun = "RUN"
    /\ JustGoTo("main", "Receive")

\* ... or stop, for an error or because the application is asked to: the loop is
\* left and NOVATEL_OEM615_Disable called.
RunLoopStops ==
    /\ Ready("main", "RunLoop")
    /\ JustCall("main", "GetDeviceEnabledStatus", "DisableChecked")

ReceiveBuffer ==
    /\ Ready("main", "Receive")
    /\ msg' \in Messages
    /\ GoTo("main", "Dispatch")
    /\ UNCHANGED <<mutex, hkVars, deviceVars, errMax, localRun, exitStatus, reg, ret, historyVars>>

ReceiveBufferFails ==
    /\ Ready("main", "Receive")
    /\ JustCall("main", "SetRunStatus", "Handled")

\* The message is handled: local_run = NOVATEL_OEM615_GetRunStatus(), and once
\* it is known the buffer MsgPtr points to is not looked at again.
CheckRunStatus ==
    /\ Ready("main", "Handled")
    /\ JustCall("main", "GetRunStatus", "StatusRead")

UpdateLocalRun ==
    /\ Ready("main", "StatusRead")
    /\ localRun' = ret["main"]
    /\ msg' = NoMsg /\ verdict' = NoVerdict /\ wrote' = FALSE
    /\ GoTo("main", "RunLoop")
    /\ UNCHANGED <<mutex, hkVars, deviceVars, errMax, exitStatus, reg, ret, done, fails, late>>

ExitApp ==
    /\ Ready("main", "Exit")
    /\ exitStatus' = runStatus
    /\ GoTo("main", "Exited")
    /\ UNCHANGED <<mutex, hkVars, deviceVars, errMax, localRun, msg, reg, ret, historyVars>>

-----------------------------------------------------------------------------
(* The main task: the handlers of ProcessCommandPacket, ProcessGroundCommand *)
(* and ProcessTelemetryRequest                                               *)

\* VerifyCmdLength guards every ground command, and no telemetry request.
IsCommand(m, codes) == m.mid = "CMD_MID" /\ m.cc \in codes /\ m.lengthOk
IsRequest(m, cc)    == m.mid = "REQ_HK_MID" /\ m.cc = cc
IsRejected(m) == ~ (IsCommand(m, CommandCodes) \/ \E cc \in RequestCodes : IsRequest(m, cc))

\* An unknown message id or code, or a ground command of the wrong length.
RejectMessage ==
    /\ Ready("main", "Dispatch") /\ IsRejected(msg)
    /\ JustCall("main", "CommandErrorCount", "Handled")

Noop ==
    /\ Ready("main", "Dispatch") /\ IsCommand(msg, {"NOOP"})
    /\ JustCall("main", "CommandCount", "Handled")

ResetCountersCommand ==
    /\ Ready("main", "Dispatch") /\ IsCommand(msg, {"RESET_COUNTERS"})
    /\ JustCall("main", "ResetCounters", "Handled")

\* Time stamps and transmits HkTelemetryPkt, outside the mutex.
ReportHousekeeping ==
    /\ Ready("main", "Dispatch") /\ IsRequest(msg, "REQ_HK")
    /\ JustGoTo("main", "Handled")

\* LOG, UNLOG, UNLOGALL and SERIALCONFIG: counted as accepted, then executed,
\* whether or not the device is enabled.
DeviceCommand ==
    /\ Ready("main", "Dispatch") /\ IsCommand(msg, DeviceCodes)
    /\ JustCall("main", "CommandCount", "DeviceCommand")
DeviceCommandExecute ==
    Ready("main", "DeviceCommand") /\ JustCall("main", "SafeCommandDeviceCustom", "Handled")

\* ReportDeviceTelemetry.
RequestData ==
    /\ Ready("main", "Dispatch") /\ IsRequest(msg, "REQ_DATA")
    /\ JustCall("main", "GetDeviceEnabledStatus", "DataChecked")
RequestDataEnabled ==
    /\ Ready("main", "DataChecked") /\ ret["main"] = "ENABLED"
    /\ JustCall("main", "SafeRequestData", "DataRead")
RequestDataDisabled ==
    /\ Ready("main", "DataChecked") /\ ret["main"] # "ENABLED"
    /\ JustGoTo("main", "Handled")
RequestDataSucceeds ==
    /\ Ready("main", "DataRead") /\ ret["main"] = "SUCCESS"
    /\ JustCall("main", "DeviceCount", "Transmit")
RequestDataFails ==
    /\ Ready("main", "DataRead") /\ ret["main"] # "SUCCESS"
    /\ JustCall("main", "DeviceErrorCount", "Handled")

\* DevicePkt, whatever it holds, is time stamped and transmitted without the mutex.
TransmitDevicePkt ==
    /\ Ready("main", "Transmit")
    /\ JustGoTo("main", "Handled")

\* NOVATEL_OEM615_Enable.
EnableCommand ==
    /\ Ready("main", "Dispatch") /\ IsCommand(msg, {"ENABLE"})
    /\ JustCall("main", "GetDeviceEnabledStatus", "EnableChecked")
EnableAccepted ==
    /\ Ready("main", "EnableChecked") /\ ret["main"] = "DISABLED"
    /\ JustCall("main", "CommandCount", "OpenPort")
EnableRejected ==
    /\ Ready("main", "EnableChecked") /\ ret["main"] # "DISABLED"
    /\ JustCall("main", "CommandErrorCount", "Handled")

\* Mutant: counts a failed open as a command error.
OpenPortMutantWrongCounter ==
    /\ Ready("main", "OpenPort")
    /\ \/ portOpen' = TRUE /\ Call("main", "DeviceCount", "PortOpened")
       \/ UNCHANGED portOpen /\ Call("main", "CommandErrorCount", "Handled")
    /\ UNCHANGED <<mutex, hkVars, devPkt, saveptr, errMax, mainVars, reg, ret, historyVars>>
\* uart_init_port, not under the mutex.
OpenPort ==
    /\ Ready("main", "OpenPort")
    /\ \/ portOpen' = TRUE /\ Call("main", "DeviceCount", "PortOpened")
       \/ UNCHANGED portOpen /\ Call("main", "DeviceErrorCount", "Handled")
    /\ UNCHANGED <<mutex, hkVars, devPkt, saveptr, errMax, mainVars, reg, ret, historyVars>>
SetEnabled == Ready("main", "PortOpened") /\ JustCall("main", "SetEnabled", "Handled")

\* NOVATEL_OEM615_Disable, for the command and, when no message is being
\* handled, on the way out of AppMain.
AfterDisable == IF msg = NoMsg THEN "Exit" ELSE "Handled"
DisableCommand ==
    /\ Ready("main", "Dispatch") /\ IsCommand(msg, {"DISABLE"})
    /\ JustCall("main", "GetDeviceEnabledStatus", "DisableChecked")
DisableAccepted ==
    /\ Ready("main", "DisableChecked") /\ ret["main"] = "ENABLED"
    /\ JustCall("main", "CommandCount", "ClosePort")
DisableRejected ==
    /\ Ready("main", "DisableChecked") /\ ret["main"] # "ENABLED"
    /\ JustCall("main", "CommandErrorCount", AfterDisable)

\* Mutant: disables even if the port did not close.
ClosePortMutantGivesUp ==
    /\ Ready("main", "ClosePort")
    /\ \/ portOpen' = FALSE /\ Call("main", "DeviceCount", "PortClosed")
       \/ UNCHANGED portOpen /\ Call("main", "DeviceErrorCount", "PortClosed")
    /\ UNCHANGED <<mutex, hkVars, devPkt, saveptr, errMax, mainVars, reg, ret, historyVars>>
\* Mutant: tries again until the port closes.
ClosePortMutantRetries ==
    /\ Ready("main", "ClosePort")
    /\ \/ portOpen' = FALSE /\ Call("main", "DeviceCount", "PortClosed")
       \/ UNCHANGED portOpen /\ Call("main", "DeviceErrorCount", "ClosePort")
    /\ UNCHANGED <<mutex, hkVars, devPkt, saveptr, errMax, mainVars, reg, ret, historyVars>>
\* uart_close_port, not under the mutex: the child may be reading.
ClosePort ==
    /\ Ready("main", "ClosePort")
    /\ \/ portOpen' = FALSE /\ Call("main", "DeviceCount", "PortClosed")
       \/ UNCHANGED portOpen /\ Call("main", "DeviceErrorCount", AfterDisable)
    /\ UNCHANGED <<mutex, hkVars, devPkt, saveptr, errMax, mainVars, reg, ret, historyVars>>
SetDisabled == Ready("main", "PortClosed") /\ JustCall("main", "SetDisabled", AfterDisable)

InitStep ==
    SetUpPipe \/ CreateMutex \/ CreateChildTask \/ SendStartupEvent
LoopStep ==
    \/ RunLoopContinues \/ RunLoopStops \/ ReceiveBufferFails
    \/ CheckRunStatus \/ UpdateLocalRun \/ ExitApp
HandlerStep ==
    \/ RejectMessage \/ Noop \/ ResetCountersCommand \/ ReportHousekeeping
    \/ DeviceCommand \/ DeviceCommandExecute
    \/ RequestData \/ RequestDataEnabled \/ RequestDataDisabled
    \/ RequestDataSucceeds \/ RequestDataFails \/ TransmitDevicePkt
    \/ EnableCommand \/ EnableAccepted \/ EnableRejected \/ OpenPort \/ SetEnabled
    \/ DisableCommand \/ DisableAccepted \/ DisableRejected \/ ClosePort \/ SetDisabled

-----------------------------------------------------------------------------
(* The child task: NOVATEL_OEM615_ChildTask and NOVATEL_OEM615_ProcessData. *)
(* OS_TaskDelay between two polls takes time and changes nothing.           *)

ChildCheckRunStatus ==
    Ready("child", "Start") /\ JustCall("child", "GetRunStatus", "StatusRead")
\* Mutant: ignores the run status.
ChildCheckEnabledMutantNeverStops ==
    Ready("child", "StatusRead") /\ JustCall("child", "GetDeviceEnabledStatus", "EnabledRead")
ChildCheckEnabled ==
    /\ Ready("child", "StatusRead") /\ ret["child"] = "RUN"
    /\ JustCall("child", "GetDeviceEnabledStatus", "EnabledRead")
ChildExits ==
    /\ Ready("child", "StatusRead") /\ ret["child"] # "RUN"
    /\ JustGoTo("child", "Exited")

\* Mutant: reads whether or not the device is enabled.
ChildReadMutantNoCheck ==
    Ready("child", "EnabledRead") /\ JustCall("child", "ChildProcessRequestData", "DataRead")
ChildRead ==
    /\ Ready("child", "EnabledRead") /\ ret["child"] = "ENABLED"
    /\ JustCall("child", "ChildProcessRequestData", "DataRead")
ChildSkips ==
    /\ Ready("child", "EnabledRead") /\ ret["child"] # "ENABLED"
    /\ JustGoTo("child", "Start")

ChildReadSucceeds ==
    /\ Ready("child", "DataRead") /\ ret["child"] = "SUCCESS"
    /\ Call("child", "DeviceCount", "Transmit")
    /\ fails' = 0
    /\ UNCHANGED <<mutex, hkVars, deviceVars, errMax, mainVars, reg, ret,
                   done, verdict, wrote, late>>

\* DevicePkt is transmitted without the mutex, then error_max_count is rearmed.
ChildTransmits ==
    /\ Ready("child", "Transmit")
    /\ errMax' = ErrMax
    /\ GoTo("child", "Start")
    /\ UNCHANGED <<mutex, hkVars, deviceVars, mainVars, reg, ret, historyVars>>

OneMoreFailure == IF fails = ErrMax + 2 THEN fails ELSE fails + 1

\* Mutant: does not test for zero.
ChildReadFailsQuietlyMutantUnderflow ==
    /\ Ready("child", "DataRead") /\ ret["child"] # "SUCCESS"
    /\ errMax' = errMax - 1
    /\ fails' = OneMoreFailure
    /\ GoTo("child", "Start")
    /\ UNCHANGED <<mutex, hkVars, deviceVars, mainVars, reg, ret, done, verdict, wrote, late>>
\* Mutant: rearms at every failure.
ChildReadFailsQuietlyMutantRearms ==
    /\ Ready("child", "DataRead") /\ ret["child"] # "SUCCESS" /\ errMax # 0
    /\ errMax' = ErrMax
    /\ fails' = OneMoreFailure
    /\ GoTo("child", "Start")
    /\ UNCHANGED <<mutex, hkVars, deviceVars, mainVars, reg, ret, done, verdict, wrote, late>>
\* A failed read is reported only when error_max_count has run down to zero.
ChildReadFailsQuietly ==
    /\ Ready("child", "DataRead") /\ ret["child"] # "SUCCESS" /\ errMax # 0
    /\ errMax' = errMax - 1
    /\ fails' = OneMoreFailure
    /\ GoTo("child", "Start")
    /\ UNCHANGED <<mutex, hkVars, deviceVars, mainVars, reg, ret, done, verdict, wrote, late>>
ChildReadFailsLoudly ==
    /\ Ready("child", "DataRead") /\ ret["child"] # "SUCCESS" /\ errMax = 0
    /\ Call("child", "DeviceErrorCount", "Rearm")
    /\ fails' = OneMoreFailure
    /\ UNCHANGED <<mutex, hkVars, deviceVars, errMax, mainVars, reg, ret,
                   done, verdict, wrote, late>>
\* Mutant: forgets to rearm.
ChildRearmsMutantNot ==
    /\ Ready("child", "Rearm")
    /\ fails' = 0
    /\ GoTo("child", "Start")
    /\ UNCHANGED <<mutex, hkVars, deviceVars, errMax, mainVars, reg, ret,
                   done, verdict, wrote, late>>
ChildRearms ==
    /\ Ready("child", "Rearm")
    /\ errMax' = ErrMax
    /\ fails' = 0
    /\ GoTo("child", "Start")
    /\ UNCHANGED <<mutex, hkVars, deviceVars, mainVars, reg, ret, done, verdict, wrote, late>>

ChildControlStep ==
    \/ ChildCheckRunStatus \/ ChildCheckEnabled \/ ChildExits \/ ChildRead \/ ChildSkips
    \/ ChildReadSucceeds \/ ChildTransmits
    \/ ChildReadFailsQuietly \/ ChildReadFailsLoudly \/ ChildRearms

-----------------------------------------------------------------------------

\* CFE_ES_ExitApp does not return: the application is over, and the child with
\* it unless it sees APP_ERROR and leaves by itself.
Terminated ==
    /\ pc["main"] = "Exited" /\ pc["child"] \in {"Absent", "Exited"}
    /\ UNCHANGED vars

Next ==
    \/ \E t \in Tasks : LockingFunctionStep(t)
    \/ InitStep \/ LoopStep \/ ReceiveBuffer \/ HandlerStep
    \/ ChildControlStep
    \/ Terminated

Spec == Init /\ [][Next]_vars

\* Each task runs whenever it can, except that no message need ever arrive
\* (CFE_SB_PEND_FOREVER) and no pipe error need ever happen.  Take is strongly
\* fair: OSAL queues the waiters of a mutex, and the child sleeps 250 ms
\* between two polls, so neither task can be passed over for ever.
MainStep ==
    \/ LockingFunctionStep("main") \/ InitStep \/ HandlerStep
    \/ RunLoopContinues \/ RunLoopStops \/ CheckRunStatus \/ UpdateLocalRun \/ ExitApp
ChildStep == LockingFunctionStep("child") \/ ChildControlStep
Fairness ==
    /\ WF_vars(MainStep) /\ WF_vars(ChildStep)
    /\ \A t \in Tasks : SF_vars(Take(t))
FairSpec == Spec /\ Fairness
=============================================================================
