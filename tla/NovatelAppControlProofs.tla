---------------------- MODULE NovatelAppControlProofs ----------------------
(***************************************************************************)
(* More theorems about NovatelApp: those whose invariants follow a task    *)
(* through its own code, from one locking function to the next.            *)
(***************************************************************************)
EXTENDS NovatelAppProofs

\* What a step inside a locking function leaves alone.
LEMMA FunctionFrame ==
  ASSUME TypeOK, NEW t \in Tasks, LockingFunctionStep(t)
  PROVE  UNCHANGED <<pc, mainVars, errMax, fails>>
  BY DEF LockingFunctionStep, Take, TakeFails, Give, LoadCounter, StoreCounter,
     ResetCounters, GetRunStatus, SetRunStatus, GetDeviceEnabledStatus,
     SetDeviceEnabledStatus, CommandDeviceRefuses, CommandDeviceBuilds,
     CommandDeviceFlushes, BytesAvailable, ShortRead, FirstToken, ParseXyzZero,
     ParseXyzPosition, ParseXyzVelocity, ParseGgaZero, ParseGgaSet, WriteWord,
     Advance, Return, mainVars, historyVars

-----------------------------------------------------------------------------
(* The child's debouncing *)

\* Before the child exists.
Childless == {"Setup", "CreateMutex", "CreateChild"}

\* The failures seen so far and those still to be swallowed add up to ErrMax,
\* except between a read's outcome and the rearming.
DebounceInv ==
    /\ pc["main"] \in Childless => pc["child"] = "Absent"
    /\ pc["child"] = "Rearm" => fails = ErrMax + 1
    /\ pc["child"] = "Transmit" => fails = 0
    /\ pc["child"] \notin {"Rearm", "Transmit"} => fails + errMax = ErrMax

\* Each step of the main task keeps it: only the creation of the child moves the child.
LEMMA DebounceMain ==
  ASSUME TypeOK, DebounceInv, InitStep \/ LoopStep \/ ReceiveBuffer \/ HandlerStep
  PROVE  DebounceInv'
<1> USE DEF TypeOK, DebounceInv, Childless, Ready, JustCall, JustGoTo, Call, GoTo, InitFails,
            Tasks, historyVars
<1>1. CASE InitStep
  BY <1>1 DEF InitStep, SetUpPipe, CreateMutex, CreateChildTask, SendStartupEvent
<1>2. CASE LoopStep \/ ReceiveBuffer
  BY <1>2 DEF LoopStep, RunLoopContinues, RunLoopStops, ReceiveBuffer, ReceiveBufferFails,
     CheckRunStatus, UpdateLocalRun, ExitApp
<1>3. CASE OpenPort \/ ClosePort
  BY <1>3 DEF OpenPort, ClosePort, AfterDisable
<1>4. CASE HandlerStep /\ ~ OpenPort /\ ~ ClosePort
  BY <1>4 DEF HandlerStep, RejectMessage, Noop, ResetCountersCommand, ReportHousekeeping,
     DeviceCommand, DeviceCommandExecute, RequestData, RequestDataEnabled,
     RequestDataDisabled, RequestDataSucceeds, RequestDataFails, TransmitDevicePkt,
     EnableCommand, EnableAccepted, EnableRejected, SetEnabled,
     DisableCommand, DisableAccepted, DisableRejected, SetDisabled, AfterDisable
<1> HIDE DEF DebounceInv
<1> QED
  BY <1>1, <1>2, <1>3, <1>4

\* So does each step of the child: a quiet failure moves one from errMax to fails.
LEMMA DebounceChild ==
  ASSUME TypeOK, DebounceInv, ChildControlStep
  PROVE  DebounceInv'
<1> USE ConstantsAssumption
    DEF ConstantsAssumption, TypeOK, DebounceInv, Childless, Ready, JustCall, JustGoTo, Call,
        GoTo, Tasks, historyVars, OneMoreFailure
<1>1. CASE ChildReadSucceeds \/ ChildTransmits
  BY <1>1 DEF ChildReadSucceeds, ChildTransmits
<1>2. CASE ChildReadFailsQuietly
  BY <1>2 DEF ChildReadFailsQuietly
<1>3. CASE ChildReadFailsLoudly
  BY <1>3 DEF ChildReadFailsLoudly
<1>4. CASE ChildRearms
  BY <1>4 DEF ChildRearms
<1>5. CASE ChildCheckRunStatus \/ ChildCheckEnabled \/ ChildExits \/ ChildRead \/ ChildSkips
  BY <1>5 DEF ChildCheckRunStatus, ChildCheckEnabled, ChildExits, ChildRead, ChildSkips
<1> HIDE DEF DebounceInv
<1> QED
  BY <1>1, <1>2, <1>3, <1>4, <1>5 DEF ChildControlStep

\* So DebounceInv holds throughout.
LEMMA DebounceInvariant == Spec => []DebounceInv
<1>1. Init => DebounceInv
  BY ConstantsAssumption DEF ConstantsAssumption, Init, DebounceInv, Childless, Tasks
<1>2. TypeOK /\ DebounceInv /\ [Next]_vars => DebounceInv'
  <2> SUFFICES ASSUME TypeOK, DebounceInv, [Next]_vars PROVE DebounceInv'
    OBVIOUS
  <2>1. CASE UNCHANGED <<pc, errMax, fails>>
    BY <2>1 DEF DebounceInv
  <2> QED
    BY <2>1, NextSplits, FunctionFrame, DebounceMain, DebounceChild DEF vars, historyVars
<1> QED
  BY <1>1, <1>2, TypeCorrect, PTL DEF Spec

\* A silent receiver is reported at the (ErrMax + 1)-th failed read in a row, never
\* before and never after, for every value of NOVATEL_OEM615_CFG_DATA_ERROR_CNT.
THEOREM ReportsAreDebounced == Spec => []ErrorsAreDebounced
<1>1. TypeOK /\ DebounceInv => ErrorsAreDebounced
  BY ConstantsAssumption DEF ConstantsAssumption, TypeOK, DebounceInv, ErrorsAreDebounced
<1> QED
  BY <1>1, TypeCorrect, DebounceInvariant, PTL

-----------------------------------------------------------------------------
(* The stale enable flag *)

\* Which function a task is in at the labels that go on with what it returns.
CallSites ==
    /\ pc["main"] = "DataChecked" => fn["main"] \in {"none", "GetDeviceEnabledStatus"}
    /\ pc["child"] = "EnabledRead" => fn["child"] \in {"none", "GetDeviceEnabledStatus"}
    /\ fn["main"] \in Readers => pc["main"] = "DataRead"
    /\ fn["child"] \in Readers => pc["child"] = "DataRead"
    /\ pc["main"] = "DataRead" => fn["main"] \in {"none", "SafeRequestData"}
    /\ fn["child"] \notin {"SetEnabled", "SetDisabled"}

\* Task t has been told that the device is enabled, at label l, and has not yet
\* started the read this entitles it to.
MayRead(t, l) ==
    \/ pc[t] = l /\ at[t] \in {"none", "give"} /\ ret[t] = "ENABLED"
    \/ pc[t] = "DataRead" /\ at[t] \in {"take", "body"}

\* The main task cannot be stale, since it is the one that switches; the child
\* can, until it has used what it was told.
StaleInv ==
    /\ CallSites
    /\ MayRead("main", "DataChecked") => enabled
    /\ enabled => late = 0
    /\ late \in {0, 1}
    /\ MayRead("child", "EnabledRead") => late = 0

\* No step outside the locking functions breaks it.
LEMMA StaleControl ==
  ASSUME TypeOK, LockInv, AbsentInv, DebounceInv, StaleInv,
         InitStep \/ LoopStep \/ ReceiveBuffer \/ HandlerStep \/ ChildControlStep
  PROVE  StaleInv'
<1> USE DEF TypeOK, LockInv, AbsentInv, DebounceInv, Childless, StaleInv, CallSites, MayRead,
            Ready, JustCall, JustGoTo, Call, GoTo,
            InitFails, Tasks, hkVars, mainVars, historyVars, Readers, Counters
<1>1. CASE InitStep \/ LoopStep \/ ReceiveBuffer
  BY <1>1 DEF InitStep, SetUpPipe, CreateMutex, CreateChildTask, SendStartupEvent,
     LoopStep, RunLoopContinues, RunLoopStops, ReceiveBuffer, ReceiveBufferFails,
     CheckRunStatus, UpdateLocalRun, ExitApp
<1>2. CASE OpenPort \/ ClosePort
  BY <1>2 DEF OpenPort, ClosePort, AfterDisable
<1>3. CASE HandlerStep /\ ~ OpenPort /\ ~ ClosePort
  BY <1>3 DEF HandlerStep, RejectMessage, Noop, ResetCountersCommand, ReportHousekeeping,
     DeviceCommand, DeviceCommandExecute, RequestData, RequestDataEnabled,
     RequestDataDisabled, RequestDataSucceeds, RequestDataFails, TransmitDevicePkt,
     EnableCommand, EnableAccepted, EnableRejected, SetEnabled,
     DisableCommand, DisableAccepted, DisableRejected, SetDisabled, AfterDisable
<1>4. CASE ChildControlStep
  BY <1>4 DEF ChildControlStep, ChildCheckRunStatus, ChildCheckEnabled, ChildExits, ChildRead,
     ChildSkips, ChildReadSucceeds, ChildTransmits, ChildReadFailsQuietly,
     ChildReadFailsLoudly, ChildRearms
<1> HIDE DEF StaleInv
<1> QED
  BY <1>1, <1>2, <1>3, <1>4

\* Inside the functions: the flag is read and written under the mutex, and only the
\* child can start a read while the device is disabled.
LEMMA StaleFunction ==
  ASSUME TypeOK, LockInv, StaleInv, NEW t \in Tasks, LockingFunctionStep(t)
  PROVE  StaleInv'
<1> USE DEF TypeOK, LockInv, StaleInv, CallSites, MayRead, Advance, Return, In, Tasks,
            hkVars, historyVars, Readers, Counters
<1>1. CASE Take(t)
  BY <1>1 DEF Take
<1>2. CASE TakeFails(t)
  BY <1>2 DEF TakeFails
<1>3. CASE Give(t)
  BY <1>3 DEF Give
<1>4. CASE SetDeviceEnabledStatus(t)
  BY <1>4 DEF SetDeviceEnabledStatus
<1>5. CASE GetDeviceEnabledStatus(t)
  BY <1>5 DEF GetDeviceEnabledStatus
<1>6. CASE BytesAvailable(t)
  BY <1>6 DEF BytesAvailable, Saturate
<1>7. CASE LoadCounter(t) \/ StoreCounter(t) \/ ResetCounters(t) \/ GetRunStatus(t) \/ SetRunStatus(t)
  BY <1>7 DEF LoadCounter, StoreCounter, ResetCounters, GetRunStatus, SetRunStatus
<1>8. CASE CommandDeviceRefuses(t) \/ CommandDeviceBuilds(t) \/ CommandDeviceFlushes(t)
  BY <1>8 DEF CommandDeviceRefuses, CommandDeviceBuilds, CommandDeviceFlushes
<1>9. CASE ShortRead(t) \/ FirstToken(t) \/ ParseXyzZero(t) \/ ParseXyzPosition(t)
           \/ ParseXyzVelocity(t) \/ ParseGgaZero(t) \/ ParseGgaSet(t)
  BY <1>9 DEF ShortRead, FirstToken, ParseXyzZero, ParseXyzPosition, ParseXyzVelocity,
     ParseGgaZero, ParseGgaSet, WriteWord, ParsePoints
<1> HIDE DEF StaleInv
<1> QED
  BY <1>1, <1>2, <1>3, <1>4, <1>5, <1>6, <1>7, <1>8, <1>9 DEF LockingFunctionStep

\* However the two tasks interleave, the child starts at most one read on an enable
\* flag that the main task has cleared since.
THEOREM StaleReadsAreBounded == Spec => []StaleReadAtMostOnce
<1>1. Init => StaleInv
  BY DEF Init, StaleInv, CallSites, MayRead, Tasks, Readers
<1>2. TypeOK /\ LockInv /\ AbsentInv /\ DebounceInv /\ StaleInv /\ [Next]_vars => StaleInv'
  <2> SUFFICES ASSUME TypeOK, LockInv, AbsentInv, DebounceInv, StaleInv, [Next]_vars
               PROVE  StaleInv'
    OBVIOUS
  <2>1. CASE UNCHANGED vars
    BY <2>1 DEF StaleInv, CallSites, MayRead, vars, hkVars, historyVars
  <2> QED
    BY <2>1, NextSplits, StaleFunction, StaleControl
<1>3. StaleInv => StaleReadAtMostOnce
  BY DEF StaleInv, StaleReadAtMostOnce
<1> QED
  BY <1>1, <1>2, <1>3, TypeCorrect, LockInvariant, AbsentInvariant, DebounceInvariant, PTL
  DEF Spec

-----------------------------------------------------------------------------
(* The exit status *)

\* Once the main task acts on an error, AppData.RunStatus says so, or is about to.
ExitInv ==
    /\ pc["main"] = "StatusRead" => fn["main"] \in {"none", "GetRunStatus"}
    /\ pc["main"] \in Unlocked => localRun = "RUN"
    /\ pc["main"] = "StatusRead" /\ at["main"] \in {"none", "give"} /\ ret["main"] = "ERROR"
         => runStatus = "ERROR"
    /\ localRun = "ERROR" /\ mutex # "absent" =>
         \/ runStatus = "ERROR"
         \/ pc["main"] = "RunLoop" /\ fn["main"] = "SetRunStatus" /\ at["main"] \in {"take", "body"}
    /\ ExitStatusWithMutex

\* No step outside the locking functions breaks it.
LEMMA ExitControl ==
  ASSUME TypeOK, LockInv, AbsentInv, ExitInv,
         InitStep \/ LoopStep \/ ReceiveBuffer \/ HandlerStep \/ ChildControlStep
  PROVE  ExitInv'
<1> USE DEF TypeOK, LockInv, ExitInv, AbsentInv, Unlocked, ExitStatusWithMutex, Ready, JustCall, JustGoTo, Call, GoTo,
            InitFails, Tasks, hkVars, mainVars, historyVars, Readers, Counters
<1>1. CASE InitStep \/ LoopStep \/ ReceiveBuffer
  BY <1>1 DEF InitStep, SetUpPipe, CreateMutex, CreateChildTask, SendStartupEvent,
     LoopStep, RunLoopContinues, RunLoopStops, ReceiveBuffer, ReceiveBufferFails,
     CheckRunStatus, UpdateLocalRun, ExitApp
<1>2. CASE OpenPort \/ ClosePort
  BY <1>2 DEF OpenPort, ClosePort, AfterDisable
<1>3. CASE HandlerStep /\ ~ OpenPort /\ ~ ClosePort
  BY <1>3 DEF HandlerStep, RejectMessage, Noop, ResetCountersCommand, ReportHousekeeping,
     DeviceCommand, DeviceCommandExecute, RequestData, RequestDataEnabled,
     RequestDataDisabled, RequestDataSucceeds, RequestDataFails, TransmitDevicePkt,
     EnableCommand, EnableAccepted, EnableRejected, SetEnabled,
     DisableCommand, DisableAccepted, DisableRejected, SetDisabled, AfterDisable
<1>4. CASE ChildControlStep
  BY <1>4 DEF ChildControlStep, ChildCheckRunStatus, ChildCheckEnabled, ChildExits, ChildRead,
     ChildSkips, ChildReadSucceeds, ChildTransmits, ChildReadFailsQuietly,
     ChildReadFailsLoudly, ChildRearms
<1> HIDE DEF ExitInv
<1> QED
  BY <1>1, <1>2, <1>3, <1>4

\* Nor does one inside them: SetRunStatus is the only one that writes the status.
LEMMA ExitFunction ==
  ASSUME TypeOK, LockInv, AbsentInv, ExitInv, NEW t \in Tasks, LockingFunctionStep(t)
  PROVE  ExitInv'
<1> USE DEF TypeOK, LockInv, AbsentInv, ExitInv, ExitStatusWithMutex, Unlocked, Advance, Return, In,
            Tasks, hkVars, mainVars, Readers, Counters
<1>1. CASE Take(t)
  BY <1>1 DEF Take
<1>2. CASE TakeFails(t)
  BY <1>2 DEF TakeFails
<1>3. CASE Give(t)
  BY <1>3 DEF Give, MutexDiscipline, HeldPoints
<1>4. CASE SetRunStatus(t)
  BY <1>4 DEF SetRunStatus
<1>5. CASE GetRunStatus(t)
  BY <1>5 DEF GetRunStatus
<1>6. CASE LoadCounter(t) \/ StoreCounter(t) \/ ResetCounters(t)
           \/ SetDeviceEnabledStatus(t) \/ GetDeviceEnabledStatus(t)
  BY <1>6 DEF LoadCounter, StoreCounter, ResetCounters, SetDeviceEnabledStatus,
     GetDeviceEnabledStatus
<1>7. CASE CommandDeviceRefuses(t) \/ CommandDeviceBuilds(t) \/ CommandDeviceFlushes(t)
  BY <1>7 DEF CommandDeviceRefuses, CommandDeviceBuilds, CommandDeviceFlushes
<1>8. CASE BytesAvailable(t) \/ ShortRead(t) \/ FirstToken(t) \/ ParseXyzZero(t)
           \/ ParseXyzPosition(t) \/ ParseXyzVelocity(t) \/ ParseGgaZero(t) \/ ParseGgaSet(t)
  BY <1>8 DEF BytesAvailable, ShortRead, FirstToken, ParseXyzZero, ParseXyzPosition,
     ParseXyzVelocity, ParseGgaZero, ParseGgaSet, WriteWord, ParsePoints
<1> HIDE DEF ExitInv
<1> QED
  BY <1>1, <1>2, <1>3, <1>4, <1>5, <1>6, <1>7, <1>8 DEF LockingFunctionStep

\* An application that leaves its loop in error exits in error, whenever the
\* mutex that protects the run status was created.
THEOREM ErrorsReachTheExit == Spec => []ExitStatusWithMutex
<1>1. Init => ExitInv
  BY DEF Init, ExitInv, ExitStatusWithMutex, Unlocked, Tasks
<1>2. TypeOK /\ LockInv /\ AbsentInv /\ ExitInv /\ [Next]_vars => ExitInv'
  <2> SUFFICES ASSUME TypeOK, LockInv, AbsentInv, ExitInv, [Next]_vars PROVE ExitInv'
    OBVIOUS
  <2>1. CASE UNCHANGED vars
    BY <2>1 DEF ExitInv, ExitStatusWithMutex, vars, hkVars, mainVars
  <2> QED
    BY <2>1, NextSplits, ExitFunction, ExitControl
<1>3. ExitInv => ExitStatusWithMutex
  BY DEF ExitInv
<1> QED
  BY <1>1, <1>2, <1>3, TypeCorrect, LockInvariant, AbsentInvariant, PTL DEF Spec

-----------------------------------------------------------------------------
(* What is written to the receiver *)

\* From the dispatch of a device command to the write it makes.
WriteInv ==
    /\ WritesAreCommanded
    /\ wrote => pc["main"] \in {"Handled", "StatusRead"}
    /\ pc["main"] = "Dispatch" => msg # NoMsg
    /\ pc["main"] = "DeviceCommand" => msg # NoMsg /\ IsCommand(msg, DeviceCodes)
    /\ fn["main"] = "SafeCommandDeviceCustom" =>
         pc["main"] = "Handled" /\ msg # NoMsg /\ IsCommand(msg, DeviceCodes)
    /\ fn["child"] # "SafeCommandDeviceCustom"
    /\ at["main"] = "flush" => (TakesArguments(msg) => msg.argsOk)

\* No step outside the locking functions breaks it.
LEMMA WriteControl ==
  ASSUME TypeOK, LockInv, AbsentInv, WriteInv,
         InitStep \/ LoopStep \/ ReceiveBuffer \/ HandlerStep \/ ChildControlStep
  PROVE  WriteInv'
<1> USE ConstantsAssumption
    DEF ConstantsAssumption, TypeOK, LockInv, AbsentInv, Unlocked, WriteInv, WritesAreCommanded,
        IsCommand, TakesArguments, Ready, JustCall, JustGoTo, Call, GoTo, InitFails, Tasks,
        mainVars, historyVars, Readers, Counters
<1>1. CASE InitStep \/ LoopStep \/ ReceiveBuffer
  BY <1>1 DEF InitStep, SetUpPipe, CreateMutex, CreateChildTask, SendStartupEvent,
     LoopStep, RunLoopContinues, RunLoopStops, ReceiveBuffer, ReceiveBufferFails,
     CheckRunStatus, UpdateLocalRun, ExitApp
<1>2. CASE OpenPort \/ ClosePort
  BY <1>2 DEF OpenPort, ClosePort, AfterDisable
<1>3. CASE HandlerStep /\ ~ OpenPort /\ ~ ClosePort
  BY <1>3 DEF HandlerStep, RejectMessage, Noop, ResetCountersCommand, ReportHousekeeping,
     DeviceCommand, DeviceCommandExecute, RequestData, RequestDataEnabled,
     RequestDataDisabled, RequestDataSucceeds, RequestDataFails, TransmitDevicePkt,
     EnableCommand, EnableAccepted, EnableRejected, SetEnabled,
     DisableCommand, DisableAccepted, DisableRejected, SetDisabled, AfterDisable
<1>4. CASE ChildControlStep
  BY <1>4 DEF ChildControlStep, ChildCheckRunStatus, ChildCheckEnabled, ChildExits, ChildRead,
     ChildSkips, ChildReadSucceeds, ChildTransmits, ChildReadFailsQuietly,
     ChildReadFailsLoudly, ChildRearms
<1> HIDE DEF WriteInv
<1> QED
  BY <1>1, <1>2, <1>3, <1>4

\* Inside them, only the flush of a device command leads to a write.
LEMMA WriteFunction ==
  ASSUME TypeOK, LockInv, WriteInv, NEW t \in Tasks, LockingFunctionStep(t)
  PROVE  WriteInv'
<1> USE DEF TypeOK, LockInv, WriteInv, WritesAreCommanded, IsCommand, TakesArguments, Advance,
            Return, In, Tasks, mainVars, historyVars, Readers, Counters
<1>1. CASE Take(t) \/ TakeFails(t) \/ Give(t)
  BY <1>1 DEF Take, TakeFails, Give
<1>2. CASE CommandDeviceRefuses(t) \/ CommandDeviceBuilds(t) \/ CommandDeviceFlushes(t)
  BY <1>2 DEF CommandDeviceRefuses, CommandDeviceBuilds, CommandDeviceFlushes
<1>3. CASE LoadCounter(t) \/ StoreCounter(t) \/ ResetCounters(t) \/ GetRunStatus(t)
           \/ SetRunStatus(t) \/ SetDeviceEnabledStatus(t) \/ GetDeviceEnabledStatus(t)
  BY <1>3 DEF LoadCounter, StoreCounter, ResetCounters, GetRunStatus, SetRunStatus,
     SetDeviceEnabledStatus, GetDeviceEnabledStatus
<1>4. CASE BytesAvailable(t) \/ ShortRead(t) \/ FirstToken(t) \/ ParseXyzZero(t)
           \/ ParseXyzPosition(t) \/ ParseXyzVelocity(t) \/ ParseGgaZero(t) \/ ParseGgaSet(t)
  BY <1>4 DEF BytesAvailable, ShortRead, FirstToken, ParseXyzZero, ParseXyzPosition,
     ParseXyzVelocity, ParseGgaZero, ParseGgaSet, WriteWord, ParsePoints
<1> HIDE DEF WriteInv
<1> QED
  BY <1>1, <1>2, <1>3, <1>4 DEF LockingFunctionStep

\* Nothing but a well-formed device command is ever written to the receiver,
\* whatever messages are sent and however the child interleaves.
THEOREM OnlyCommandsAreWritten == Spec => []WritesAreCommanded
<1>1. Init => WriteInv
  BY DEF Init, WriteInv, WritesAreCommanded, Tasks
<1>2. TypeOK /\ LockInv /\ AbsentInv /\ WriteInv /\ [Next]_vars => WriteInv'
  <2> SUFFICES ASSUME TypeOK, LockInv, AbsentInv, WriteInv, [Next]_vars PROVE WriteInv'
    OBVIOUS
  <2>1. CASE UNCHANGED vars
    BY <2>1 DEF WriteInv, WritesAreCommanded, IsCommand, TakesArguments, vars, mainVars, historyVars
  <2> QED
    BY <2>1, NextSplits, WriteFunction, WriteControl
<1>3. WriteInv => WritesAreCommanded
  BY DEF WriteInv
<1> QED
  BY <1>1, <1>2, <1>3, TypeCorrect, LockInvariant, AbsentInvariant, PTL DEF Spec

-----------------------------------------------------------------------------
(* Verdicts *)

\* The verdict of the message being handled, with the increment under way: c is
\* counted once the main task has called the function that increments it.
Due(c) ==
    IF fn["main"] = c /\ at["main"] \in {"take", "body", "store"}
      THEN Saturate(verdict[c]) ELSE verdict[c]

NothingDue == Due("CommandCount") = 0 /\ Due("CommandErrorCount") = 0
AcceptDue  == Due("CommandCount") = 1 /\ Due("CommandErrorCount") = 0
RejectDue  == Due("CommandCount") = 0 /\ Due("CommandErrorCount") = 1

\* VerdictFits, of the verdict that is due.
DueFits ==
    /\ IsRejected(msg) => RejectDue
    /\ IsCommand(msg, {"NOOP"} \cup DeviceCodes) => AcceptDue
    /\ IsCommand(msg, {"ENABLE", "DISABLE"}) => AcceptDue \/ RejectDue
    /\ IsCommand(msg, {"RESET_COUNTERS"}) \/ IsRequest(msg, "REQ_HK") \/ IsRequest(msg, "REQ_DATA")
         => NothingDue

Idle == {"Setup", "CreateMutex", "CreateChild", "StartupEvent", "RunLoop", "Receive"}

\* What the main task has decided about the message at each of its labels.
VerdictInv ==
    /\ fn["child"] \notin {"CommandCount", "CommandErrorCount"}
    /\ pc["main"] \in Idle \cup {"Dispatch"} =>
         /\ verdict["CommandCount"] = 0 /\ verdict["CommandErrorCount"] = 0
         /\ fn["main"] \notin {"CommandCount", "CommandErrorCount"}
    /\ pc["main"] \in Idle => msg = NoMsg
    /\ pc["main"] = "DeviceCommand" => IsCommand(msg, DeviceCodes) /\ AcceptDue
    /\ pc["main"] \in {"DataChecked", "DataRead", "Transmit"} =>
         IsRequest(msg, "REQ_DATA") /\ NothingDue
    /\ pc["main"] = "EnableChecked" => IsCommand(msg, {"ENABLE"}) /\ NothingDue
    /\ pc["main"] \in {"OpenPort", "PortOpened"} => IsCommand(msg, {"ENABLE"}) /\ AcceptDue
    /\ msg # NoMsg =>
         /\ pc["main"] = "DisableChecked" => IsCommand(msg, {"DISABLE"}) /\ NothingDue
         /\ pc["main"] \in {"ClosePort", "PortClosed"} =>
              IsCommand(msg, {"DISABLE"}) /\ AcceptDue
         /\ pc["main"] = "Handled" => DueFits

\* No step outside the locking functions breaks it.
LEMMA VerdictControl ==
  ASSUME TypeOK, LockInv, AbsentInv, VerdictInv,
         InitStep \/ LoopStep \/ ReceiveBuffer \/ HandlerStep \/ ChildControlStep
  PROVE  VerdictInv'
<1> USE ConstantsAssumption
    DEF ConstantsAssumption, TypeOK, LockInv, Unlocked, VerdictInv, Idle, Due, NothingDue, AcceptDue,
        RejectDue, DueFits, NoVerdict, Saturate, IsCommand, IsRequest, IsRejected, DeviceCodes,
        CommandCodes, RequestCodes, Ready, JustCall, JustGoTo, Call, GoTo, InitFails, Tasks,
        mainVars, historyVars
<1>1. CASE InitStep
  BY <1>1 DEF InitStep, SetUpPipe, CreateMutex, CreateChildTask, SendStartupEvent
<1>2. CASE LoopStep \/ ReceiveBuffer
  BY <1>2 DEF LoopStep, RunLoopContinues, RunLoopStops, ReceiveBuffer, ReceiveBufferFails,
     CheckRunStatus, UpdateLocalRun, ExitApp
<1>3. CASE RejectMessage \/ Noop \/ ResetCountersCommand \/ ReportHousekeeping
           \/ DeviceCommand \/ DeviceCommandExecute
  BY <1>3 DEF RejectMessage, Noop, ResetCountersCommand, ReportHousekeeping,
     DeviceCommand, DeviceCommandExecute
<1>4. CASE RequestData \/ RequestDataEnabled \/ RequestDataDisabled
           \/ RequestDataSucceeds \/ RequestDataFails \/ TransmitDevicePkt
  BY <1>4 DEF RequestData, RequestDataEnabled, RequestDataDisabled, RequestDataSucceeds,
     RequestDataFails, TransmitDevicePkt
<1>5. CASE EnableCommand \/ EnableAccepted \/ EnableRejected \/ SetEnabled
  BY <1>5 DEF EnableCommand, EnableAccepted, EnableRejected, SetEnabled
<1>6. CASE DisableCommand \/ DisableAccepted \/ DisableRejected \/ SetDisabled
  BY <1>6 DEF DisableCommand, DisableAccepted, DisableRejected, SetDisabled, AfterDisable
<1>7. CASE OpenPort \/ ClosePort
  BY <1>7 DEF OpenPort, ClosePort, AfterDisable
<1>8. CASE ChildControlStep
  BY <1>8 DEF ChildControlStep, ChildCheckRunStatus, ChildCheckEnabled, ChildExits, ChildRead,
     ChildSkips, ChildReadSucceeds, ChildTransmits, ChildReadFailsQuietly,
     ChildReadFailsLoudly, ChildRearms
<1> HIDE DEF VerdictInv
<1> QED
  BY <1>1, <1>2, <1>3, <1>4, <1>5, <1>6, <1>7, <1>8 DEF HandlerStep

\* Inside them, the verdict that was due is only carried out.
LEMMA VerdictFunction ==
  ASSUME TypeOK, LockInv, AbsentInv, VerdictInv, NEW t \in Tasks, LockingFunctionStep(t)
  PROVE  VerdictInv'
<1> USE DEF TypeOK, LockInv, VerdictInv, Idle, Due, NothingDue, AcceptDue, RejectDue, DueFits,
        Saturate, IsCommand, IsRequest, IsRejected, Advance, Return, In, Tasks, mainVars, historyVars,
        Readers, Counters
<1>1. CASE Take(t) \/ Give(t)
  BY <1>1 DEF Take, Give
<1>2. CASE TakeFails(t)
  BY <1>2 DEF TakeFails, AbsentInv, Unlocked
<1>3. CASE LoadCounter(t)
  BY <1>3 DEF LoadCounter
<1>4. CASE StoreCounter(t)
  BY <1>4 DEF StoreCounter
<1>5. CASE ResetCounters(t) \/ GetRunStatus(t) \/ SetRunStatus(t)
           \/ SetDeviceEnabledStatus(t) \/ GetDeviceEnabledStatus(t)
  BY <1>5 DEF ResetCounters, GetRunStatus, SetRunStatus, SetDeviceEnabledStatus,
     GetDeviceEnabledStatus
<1>6. CASE CommandDeviceRefuses(t) \/ CommandDeviceBuilds(t) \/ CommandDeviceFlushes(t)
  BY <1>6 DEF CommandDeviceRefuses, CommandDeviceBuilds, CommandDeviceFlushes
<1>7. CASE BytesAvailable(t) \/ ShortRead(t) \/ FirstToken(t) \/ ParseXyzZero(t)
           \/ ParseXyzPosition(t) \/ ParseXyzVelocity(t) \/ ParseGgaZero(t) \/ ParseGgaSet(t)
  BY <1>7 DEF BytesAvailable, ShortRead, FirstToken, ParseXyzZero, ParseXyzPosition,
     ParseXyzVelocity, ParseGgaZero, ParseGgaSet, WriteWord, ParsePoints
<1> HIDE DEF VerdictInv
<1> QED
  BY <1>1, <1>2, <1>3, <1>4, <1>5, <1>6, <1>7 DEF LockingFunctionStep

\* Every message gets one verdict, the right one, for every set of messages and
\* whatever the child counts at the same time.
THEOREM VerdictsAreRight == Spec => []OneVerdict
<1>1. Init => VerdictInv
  BY DEF Init, VerdictInv, Idle, NoVerdict, Tasks
<1>2. TypeOK /\ LockInv /\ AbsentInv /\ VerdictInv /\ [Next]_vars => VerdictInv'
  <2> SUFFICES ASSUME TypeOK, LockInv, AbsentInv, VerdictInv, [Next]_vars PROVE VerdictInv'
    OBVIOUS
  <2>1. CASE UNCHANGED vars
    BY <2>1 DEF VerdictInv, Due, NothingDue, AcceptDue, RejectDue, DueFits, IsCommand, IsRequest,
       IsRejected, vars, mainVars, historyVars
  <2> QED
    BY <2>1, NextSplits, VerdictFunction, VerdictControl
<1>3. TypeOK /\ VerdictInv => OneVerdict
  <2> SUFFICES ASSUME TypeOK, VerdictInv, Ready("main", "Handled"), msg # NoMsg
               PROVE  VerdictFits(msg, verdict)
    BY DEF OneVerdict
  <2>1. DueFits
    BY DEF VerdictInv, Ready
  <2>2. /\ AcceptDue => verdict = Accepted
        /\ RejectDue => verdict = Rejected
        /\ NothingDue => verdict = NoVerdict
    BY DEF TypeOK, Ready, Due, AcceptDue, RejectDue, NothingDue, Accepted, Rejected, NoVerdict
  <2> QED
    BY <2>1, <2>2 DEF DueFits, VerdictFits
<1> QED
  BY <1>1, <1>2, <1>3, TypeCorrect, LockInvariant, AbsentInvariant, PTL DEF Spec
-----------------------------------------------------------------------------
(* The transmitted packet *)

\* Position and velocity differ only from the first store of a parse to the last, and
\* then the position is the parser's own.
ParseInv ==
    /\ \A t \in Tasks : at[t] = "xyzVel" => devPkt["pos"] = saveptr
    /\ (\A t \in Tasks : at[t] # "xyzVel") => devPkt["pos"] = devPkt["vel"]

\* The parsers write under the mutex, so that one parse is not disturbed by another.
LEMMA ParseFunction ==
  ASSUME TypeOK, LockInv, ParseInv, NEW t \in Tasks, LockingFunctionStep(t)
  PROVE  ParseInv'
<1> USE DEF TypeOK, ParseInv, Advance, Return, In, Tasks, deviceVars, Words
<1>1. CASE Take(t) \/ TakeFails(t) \/ Give(t)
  BY <1>1 DEF Take, TakeFails, Give
<1>2. CASE LoadCounter(t) \/ StoreCounter(t) \/ ResetCounters(t) \/ GetRunStatus(t) \/ SetRunStatus(t)
           \/ SetDeviceEnabledStatus(t) \/ GetDeviceEnabledStatus(t)
  BY <1>2 DEF LoadCounter, StoreCounter, ResetCounters, GetRunStatus, SetRunStatus,
     SetDeviceEnabledStatus, GetDeviceEnabledStatus
<1>3. CASE CommandDeviceRefuses(t) \/ CommandDeviceBuilds(t) \/ CommandDeviceFlushes(t)
           \/ BytesAvailable(t) \/ ShortRead(t)
  BY <1>3 DEF CommandDeviceRefuses, CommandDeviceBuilds, CommandDeviceFlushes, BytesAvailable, ShortRead
<1>4. CASE FirstToken(t) \/ ParseXyzZero(t) \/ ParseXyzPosition(t) \/ ParseXyzVelocity(t)
           \/ ParseGgaZero(t) \/ ParseGgaSet(t)
  <2>1. \A u \in Tasks \ {t} : at[u] # "xyzVel"
    BY <1>4 DEF LockInv, MutexDiscipline, HeldPoints, ParsePoints, FirstToken, ParseXyzZero, ParseXyzPosition,
       ParseXyzVelocity, ParseGgaZero, ParseGgaSet, WriteWord
  <2> QED
    BY <1>4, <2>1 DEF FirstToken, ParseXyzZero, ParseXyzPosition, ParseXyzVelocity,
       ParseGgaZero, ParseGgaSet, WriteWord
<1> HIDE DEF ParseInv
<1> QED
  BY <1>1, <1>2, <1>3, <1>4 DEF LockingFunctionStep

\* So ParseInv holds throughout: no other step touches the packet.
LEMMA ParseInvariant == Spec => []ParseInv
<1>1. Init => ParseInv
  BY DEF Init, ParseInv, Tasks, Words
<1>2. TypeOK /\ LockInv /\ ParseInv /\ [Next]_vars => ParseInv'
  <2> SUFFICES ASSUME TypeOK, LockInv, ParseInv, [Next]_vars PROVE ParseInv'
    OBVIOUS
  <2>1. CASE UNCHANGED vars
    BY <2>1 DEF ParseInv, vars, deviceVars
  <2>2. ASSUME NEW t \in Tasks, ControlShape(t) PROVE ParseInv'
    BY <2>2 DEF TypeOK, ControlShape, ParseInv, Tasks
  <2> QED
    BY <2>1, <2>2, NextSplits, ParseFunction, MainShape, ChildShape DEF Tasks
<1> QED
  BY <1>1, <1>2, TypeCorrect, LockInvariant, PTL DEF Spec

\* A packet whose position and velocity are of two readings is transmitted only while the
\* other task is between the two stores of a parse.
TornOnlyInsideAParse ==
    \A t \in Tasks : Ready(t, "Transmit") /\ devPkt["pos"] # devPkt["vel"] =>
        \E u \in Tasks \ {t} : at[u] = "xyzVel"

\* The packet the application transmits without the mutex can be torn, but in one way only:
\* never once a parse has ended, and never by what the transmitting task itself has read.
THEOREM PacketsTearInAParseOnly == Spec => []TornOnlyInsideAParse
<1>1. ParseInv => TornOnlyInsideAParse
  BY DEF ParseInv, TornOnlyInsideAParse, Ready, Tasks
<1> QED
  BY <1>1, ParseInvariant, PTL

\* No one asks for data by REQ_DATA: the packet is read by the child alone.
NoDataRequest == \A m \in Messages : ~ IsRequest(m, "REQ_DATA")

\* The main task is never on the way of ReportDeviceTelemetry, so that no one parses while
\* the child transmits.
OneReaderInv ==
    /\ pc["main"] \notin {"DataChecked", "DataRead", "Transmit"}
    /\ fn["main"] \notin Readers
    /\ pc["main"] = "Dispatch" => msg \in Messages

\* No step outside the locking functions breaks it: the main task would have to be
\* handed a request for data.
LEMMA OneReaderControl ==
  ASSUME TypeOK, NoDataRequest, OneReaderInv,
         InitStep \/ LoopStep \/ ReceiveBuffer \/ HandlerStep \/ ChildControlStep
  PROVE  OneReaderInv'
<1> USE DEF TypeOK, OneReaderInv, Ready, JustCall, JustGoTo, Call, GoTo, InitFails, Tasks,
            deviceVars, mainVars, Readers
<1>1. CASE InitStep \/ LoopStep \/ ReceiveBuffer
  BY <1>1 DEF InitStep, SetUpPipe, CreateMutex, CreateChildTask, SendStartupEvent,
     LoopStep, RunLoopContinues, RunLoopStops, ReceiveBuffer, ReceiveBufferFails,
     CheckRunStatus, UpdateLocalRun, ExitApp
<1>2. CASE OpenPort \/ ClosePort
  BY <1>2 DEF OpenPort, ClosePort, AfterDisable
<1>3. CASE HandlerStep /\ ~ OpenPort /\ ~ ClosePort
  <2>1. ~ RequestData
    BY DEF RequestData, NoDataRequest
  <2> QED
    BY <1>3, <2>1 DEF HandlerStep, RejectMessage, Noop, ResetCountersCommand, ReportHousekeeping,
       DeviceCommand, DeviceCommandExecute, RequestDataEnabled,
       RequestDataDisabled, RequestDataSucceeds, RequestDataFails, TransmitDevicePkt,
       EnableCommand, EnableAccepted, EnableRejected, SetEnabled, Counters,
       DisableCommand, DisableAccepted, DisableRejected, SetDisabled, AfterDisable
<1>4. CASE ChildControlStep
  BY <1>4 DEF ChildControlStep, ChildCheckRunStatus, ChildCheckEnabled, ChildExits, ChildRead,
     ChildSkips, ChildReadSucceeds, ChildTransmits, ChildReadFailsQuietly,
     ChildReadFailsLoudly, ChildRearms
<1> HIDE DEF OneReaderInv
<1> QED
  BY <1>1, <1>2, <1>3, <1>4

\* A locking function ends where it was called.
LEMMA OneReaderFunction ==
  ASSUME TypeOK, OneReaderInv, NEW t \in Tasks, LockingFunctionStep(t)
  PROVE  OneReaderInv'
<1>1. UNCHANGED <<pc, msg>>
  BY FunctionFrame DEF mainVars
<1>2. fn' = fn \/ fn' = [fn EXCEPT ![t] = "none"]
  BY DEF LockingFunctionStep, Take, TakeFails, Give, LoadCounter, StoreCounter,
     ResetCounters, GetRunStatus, SetRunStatus, GetDeviceEnabledStatus,
     SetDeviceEnabledStatus, CommandDeviceRefuses, CommandDeviceBuilds,
     CommandDeviceFlushes, BytesAvailable, ShortRead, FirstToken, ParseXyzZero,
     ParseXyzPosition, ParseXyzVelocity, ParseGgaZero, ParseGgaSet, WriteWord,
     Advance, Return
<1> QED
  BY <1>1, <1>2 DEF TypeOK, OneReaderInv, Tasks, Readers

\* While no one requests data, what is transmitted outside the mutex is one reading all
\* the same, for every other set of messages: the one task that transmits is the
\* one that writes.
THEOREM OneReaderSendsWhole == ASSUME NoDataRequest PROVE Spec => []TransmittedPacketWhole
<1>1. Init => OneReaderInv
  BY DEF Init, OneReaderInv, Tasks, Readers
<1>2. TypeOK /\ OneReaderInv /\ [Next]_vars => OneReaderInv'
  <2> SUFFICES ASSUME TypeOK, OneReaderInv, [Next]_vars PROVE OneReaderInv'
    OBVIOUS
  <2>1. CASE UNCHANGED vars
    BY <2>1 DEF OneReaderInv, vars, deviceVars, mainVars
  <2> QED
    BY <2>1, NoDataRequest, NextSplits, OneReaderFunction, OneReaderControl
<1>3. LockInv /\ ParseInv /\ OneReaderInv => TransmittedPacketWhole
  <2> SUFFICES ASSUME LockInv, ParseInv, OneReaderInv PROVE TransmittedPacketWhole
    OBVIOUS
  <2>1. at["main"] # "xyzVel"
    BY DEF LockInv, OneReaderInv, ParsePoints, Tasks
  <2> QED
    BY <2>1 DEF ParseInv, OneReaderInv, TransmittedPacketWhole, Ready, Tasks
<1> QED
  BY <1>1, <1>2, <1>3, TypeCorrect, LockInvariant, ParseInvariant, PTL DEF Spec

-----------------------------------------------------------------------------
(* What the ground sees of the commands *)

\* The main task has found the device disabled, or enabled, and is about to switch it.
Enabling ==
    \/ pc["main"] = "EnableChecked" /\ at["main"] \in {"none", "give"} /\ ret["main"] = "DISABLED"
    \/ pc["main"] \in {"OpenPort", "PortOpened"}
    \/ fn["main"] = "SetEnabled" /\ at["main"] # "give"
Disabling ==
    \/ pc["main"] = "DisableChecked" /\ at["main"] \in {"none", "give"} /\ ret["main"] = "ENABLED"
    \/ pc["main"] \in {"ClosePort", "PortClosed"}
    \/ fn["main"] = "SetDisabled" /\ at["main"] # "give"

\* Only the main task counts commands, resets the counters and switches, and what it was
\* told about the enable flag is still true when it acts on it.
ViewInv ==
    /\ fn["child"] \notin {"CommandCount", "ResetCounters", "SetEnabled", "SetDisabled"}
    /\ pc["main"] \in {"EnableChecked", "DisableChecked"} =>
         fn["main"] \in {"none", "GetDeviceEnabledStatus"}
    /\ pc["main"] \in {"OpenPort", "ClosePort"} => fn["main"] \in {"none", "CommandCount"}
    /\ pc["main"] \in {"PortOpened", "PortClosed"} => fn["main"] \in {"none", "DeviceCount"}
    /\ fn["main"] \in {"SetEnabled", "SetDisabled"} => pc["main"] \in {"Handled", "Exit"}
    /\ Enabling => ~ enabled
    /\ Disabling => enabled

\* No step outside the locking functions breaks it.
LEMMA ViewControl ==
  ASSUME TypeOK, LockInv, ViewInv,
         InitStep \/ LoopStep \/ ReceiveBuffer \/ HandlerStep \/ ChildControlStep
  PROVE  ViewInv'
<1> USE DEF TypeOK, LockInv, ViewInv, Enabling, Disabling, Ready, JustCall, JustGoTo, Call, GoTo,
            InitFails, Tasks, hkVars
<1>1. CASE InitStep \/ LoopStep \/ ReceiveBuffer
  BY <1>1 DEF InitStep, SetUpPipe, CreateMutex, CreateChildTask, SendStartupEvent,
     LoopStep, RunLoopContinues, RunLoopStops, ReceiveBuffer, ReceiveBufferFails,
     CheckRunStatus, UpdateLocalRun, ExitApp
<1>2. CASE OpenPort \/ ClosePort
  BY <1>2 DEF OpenPort, ClosePort, AfterDisable
<1>3. CASE HandlerStep /\ ~ OpenPort /\ ~ ClosePort
  BY <1>3 DEF HandlerStep, RejectMessage, Noop, ResetCountersCommand, ReportHousekeeping,
     DeviceCommand, DeviceCommandExecute, RequestData, RequestDataEnabled,
     RequestDataDisabled, RequestDataSucceeds, RequestDataFails, TransmitDevicePkt,
     EnableCommand, EnableAccepted, EnableRejected, SetEnabled,
     DisableCommand, DisableAccepted, DisableRejected, SetDisabled, AfterDisable
<1>4. CASE ChildControlStep
  BY <1>4 DEF ChildControlStep, ChildCheckRunStatus, ChildCheckEnabled, ChildExits, ChildRead,
     ChildSkips, ChildReadSucceeds, ChildTransmits, ChildReadFailsQuietly,
     ChildReadFailsLoudly, ChildRearms
<1> HIDE DEF ViewInv
<1> QED
  BY <1>1, <1>2, <1>3, <1>4

\* Nor does one inside them: the flag is only written by the main task, on the way of a switch.
LEMMA ViewFunction ==
  ASSUME TypeOK, LockInv, ViewInv, NEW t \in Tasks, LockingFunctionStep(t)
  PROVE  ViewInv'
<1> USE DEF TypeOK, LockInv, ViewInv, Enabling, Disabling, Advance, Return, In, Tasks,
            hkVars, Readers, Counters
<1>1. CASE Take(t)
  BY <1>1 DEF Take
<1>2. CASE TakeFails(t)
  BY <1>2 DEF TakeFails
<1>3. CASE Give(t)
  BY <1>3 DEF Give
<1>4. CASE SetDeviceEnabledStatus(t)
  BY <1>4 DEF SetDeviceEnabledStatus
<1>5. CASE GetDeviceEnabledStatus(t)
  BY <1>5 DEF GetDeviceEnabledStatus
<1>6. CASE LoadCounter(t) \/ StoreCounter(t) \/ ResetCounters(t) \/ GetRunStatus(t) \/ SetRunStatus(t)
  BY <1>6 DEF LoadCounter, StoreCounter, ResetCounters, GetRunStatus, SetRunStatus
<1>7. CASE CommandDeviceRefuses(t) \/ CommandDeviceBuilds(t) \/ CommandDeviceFlushes(t)
  BY <1>7 DEF CommandDeviceRefuses, CommandDeviceBuilds, CommandDeviceFlushes
<1>8. CASE BytesAvailable(t) \/ ShortRead(t) \/ FirstToken(t) \/ ParseXyzZero(t)
           \/ ParseXyzPosition(t) \/ ParseXyzVelocity(t) \/ ParseGgaZero(t) \/ ParseGgaSet(t)
  BY <1>8 DEF BytesAvailable, ShortRead, FirstToken, ParseXyzZero, ParseXyzPosition,
     ParseXyzVelocity, ParseGgaZero, ParseGgaSet, WriteWord, ParsePoints
<1> HIDE DEF ViewInv
<1> QED
  BY <1>1, <1>2, <1>3, <1>4, <1>5, <1>6, <1>7, <1>8 DEF LockingFunctionStep

\* So ViewInv holds throughout.
LEMMA ViewInvariant == Spec => []ViewInv
<1>1. Init => ViewInv
  BY DEF Init, ViewInv, Enabling, Disabling, Tasks
<1>2. TypeOK /\ LockInv /\ ViewInv /\ [Next]_vars => ViewInv'
  <2> SUFFICES ASSUME TypeOK, LockInv, ViewInv, [Next]_vars PROVE ViewInv'
    OBVIOUS
  <2>1. CASE UNCHANGED vars
    BY <2>1 DEF ViewInv, Enabling, Disabling, vars, hkVars
  <2> QED
    BY <2>1, NextSplits, ViewFunction, ViewControl
<1> QED
  BY <1>1, <1>2, TypeCorrect, LockInvariant, PTL DEF Spec

\* Before and Wrap are inverse, and Wrap is the addition of CommandView.
LEMMA WrapBefore ==
  ASSUME NEW n \in CounterValues
  PROVE  Before(n) \in CounterValues /\ (Before(n) + 1) % CntMod = n /\ Wrap(n) = (n + 1) % CntMod
         /\ Before(Wrap(n)) = n
  BY ConstantsAssumption DEF ConstantsAssumption, CounterValues, Before, Wrap

\* Outside the locking functions a switch begins to be pending nowhere; where one ends to be, the
\* driver has failed and the command counts without a switch.
LEMMA ViewOutside ==
  ASSUME TypeOK, LockInv, ViewInv,
         InitStep \/ LoopStep \/ ReceiveBuffer \/ HandlerStep \/ ChildControlStep
  PROVE  UNCHANGED <<count, enabled>> /\ (SwitchPending' => SwitchPending)
<1> USE DEF TypeOK, LockInv, ViewInv, SwitchPending, Ready, JustCall, JustGoTo, Call, GoTo,
            InitFails, Tasks, hkVars
<1>1. CASE InitStep \/ LoopStep \/ ReceiveBuffer
  BY <1>1 DEF InitStep, SetUpPipe, CreateMutex, CreateChildTask, SendStartupEvent,
     LoopStep, RunLoopContinues, RunLoopStops, ReceiveBuffer, ReceiveBufferFails,
     CheckRunStatus, UpdateLocalRun, ExitApp
<1>2. CASE OpenPort \/ ClosePort
  BY <1>2 DEF OpenPort, ClosePort, AfterDisable
<1>3. CASE HandlerStep /\ ~ OpenPort /\ ~ ClosePort
  BY <1>3 DEF HandlerStep, RejectMessage, Noop, ResetCountersCommand, ReportHousekeeping,
     DeviceCommand, DeviceCommandExecute, RequestData, RequestDataEnabled,
     RequestDataDisabled, RequestDataSucceeds, RequestDataFails, TransmitDevicePkt,
     EnableCommand, EnableAccepted, EnableRejected, SetEnabled,
     DisableCommand, DisableAccepted, DisableRejected, SetDisabled, AfterDisable
<1>4. CASE ChildControlStep
  BY <1>4 DEF ChildControlStep, ChildCheckRunStatus, ChildCheckEnabled, ChildExits, ChildRead,
     ChildSkips, ChildReadSucceeds, ChildTransmits, ChildReadFailsQuietly,
     ChildReadFailsLoudly, ChildRearms
<1> QED
  BY <1>1, <1>2, <1>3, <1>4

\* Every step is one of CommandView's, or one that the ground cannot see.
LEMMA ViewStep ==
  ASSUME TypeOK, LockInv, CountInv, AbsentInv, ViewInv, [Next]_vars
  PROVE  [Ground!Next]_(Ground!seen)
<1>0. /\ count["CommandCount"] \in CounterValues
      /\ Before(count["CommandCount"]) \in CounterValues
      /\ (Before(count["CommandCount"]) + 1) % CntMod = count["CommandCount"]
  BY WrapBefore DEF TypeOK, Counters
<1> DEFINE Same == UNCHANGED <<count["CommandCount"], enabled, SwitchPending>>
<1>1. ASSUME Same PROVE [Ground!Next]_(Ground!seen)
  BY <1>1 DEF SeenCount, Ground!seen
<1>2. CASE InitStep \/ LoopStep \/ ReceiveBuffer \/ HandlerStep \/ ChildControlStep
  <2>1. UNCHANGED <<count, enabled>> /\ (SwitchPending' => SwitchPending)
    BY <1>2, ViewOutside
  <2>2. CASE SwitchPending /\ ~ SwitchPending'
    BY <1>0, <2>1, <2>2 DEF SeenCount, Ground!Next, Ground!Accept
  <2>3. CASE SwitchPending' <=> SwitchPending
    BY <2>1, <2>3 DEF SeenCount, Ground!seen
  <2> QED
    BY <2>1, <2>2, <2>3
<1>3. ASSUME NEW t \in Tasks, LockingFunctionStep(t) PROVE [Ground!Next]_(Ground!seen)
  <2> USE DEF TypeOK, LockInv, ViewInv, In, Advance, Return, Tasks, hkVars, Counters, Readers
  <2>1. CASE StoreCounter(t)
    <3>1. CASE fn[t] # "CommandCount"
      <4>1. Same
        BY <2>1, <3>1 DEF StoreCounter, SwitchPending
      <4> QED
        BY <4>1, <1>1
    <3>2. CASE fn[t] = "CommandCount"
      <4>1. /\ t = "main"
            /\ count'["CommandCount"] = Wrap(count["CommandCount"])
            /\ UNCHANGED enabled /\ ~ SwitchPending
        BY <2>1, <3>2 DEF StoreCounter, SwitchPending, CountInv
      <4>2. /\ Before(Wrap(count["CommandCount"])) = count["CommandCount"]
            /\ Wrap(count["CommandCount"]) = (count["CommandCount"] + 1) % CntMod
        BY <1>0, WrapBefore
      <4>3. SeenCount = count["CommandCount"]
            /\ (SeenCount' = count["CommandCount"]
                 \/ SeenCount' = (count["CommandCount"] + 1) % CntMod)
        BY <4>1, <4>2 DEF SeenCount, Before
      <4> QED
        BY <4>1, <4>3 DEF Ground!Next, Ground!Accept, Ground!seen
    <3> QED
      BY <3>1, <3>2
  <2>2. CASE ResetCounters(t)
    <3>1. count'["CommandCount"] = 0 /\ UNCHANGED enabled /\ ~ SwitchPending'
      BY <2>2 DEF ResetCounters, SwitchPending, Zeroes
    <3> QED
      BY <3>1 DEF SeenCount, Ground!Next, Ground!Reset
  <2>3. CASE SetDeviceEnabledStatus(t)
    <3>1. /\ count'["CommandCount"] = count["CommandCount"] /\ enabled' = ~ enabled
          /\ SwitchPending /\ ~ SwitchPending'
      BY <2>3 DEF SetDeviceEnabledStatus, SwitchPending, Enabling, Disabling
    <3> QED
      BY <1>0, <3>1 DEF SeenCount, Ground!Next, Ground!Switch
  <2>4. CASE TakeFails(t)
    <3>1. Same
      BY <2>4 DEF TakeFails, SwitchPending, AbsentInv, Unlocked
    <3> QED
      BY <3>1, <1>1
  <2>5. CASE Take(t) \/ LoadCounter(t) \/ GetRunStatus(t) \/ SetRunStatus(t)
             \/ GetDeviceEnabledStatus(t)
    <3>1. Same
      BY <2>5 DEF Take, LoadCounter, GetRunStatus, SetRunStatus, GetDeviceEnabledStatus,
         SwitchPending
    <3> QED
      BY <3>1, <1>1
  <2>6. CASE Give(t)
    <3>1. UNCHANGED <<count, enabled, pc>>
          /\ fn' = [fn EXCEPT ![t] = "none"] /\ at' = [at EXCEPT ![t] = "none"] /\ at[t] = "give"
      BY <2>6 DEF Give
    <3>2. UNCHANGED SwitchPending
      BY <3>1 DEF SwitchPending
    <3> QED
      BY <3>1, <3>2, <1>1
  <2>7. CASE CommandDeviceRefuses(t) \/ CommandDeviceBuilds(t) \/ CommandDeviceFlushes(t)
             \/ BytesAvailable(t) \/ ShortRead(t) \/ FirstToken(t) \/ ParseXyzZero(t)
             \/ ParseXyzPosition(t) \/ ParseXyzVelocity(t) \/ ParseGgaZero(t) \/ ParseGgaSet(t)
    <3>1. /\ UNCHANGED <<count, enabled, pc, fn>>
          /\ fn[t] \in Readers \cup {"SafeCommandDeviceCustom"}
          /\ \A u \in Tasks \ {t} : at'[u] = at[u]
      BY <2>7 DEF CommandDeviceRefuses, CommandDeviceBuilds, CommandDeviceFlushes, BytesAvailable,
         ShortRead, FirstToken, ParseXyzZero, ParseXyzPosition, ParseXyzVelocity,
         ParseGgaZero, ParseGgaSet, WriteWord, ParsePoints
    <3>2. UNCHANGED SwitchPending
      BY <3>1 DEF SwitchPending
    <3> QED
      BY <3>1, <3>2, <1>1
  <2> HIDE DEF Same
  <2> QED
    BY <1>3, <2>1, <2>2, <2>3, <2>4, <2>5, <2>6, <2>7 DEF LockingFunctionStep
<1>4. CASE UNCHANGED vars
  <2>1. Same
    BY <1>4 DEF vars, hkVars, SwitchPending
  <2> QED
    BY <2>1, <1>1
<1> QED
  BY <1>2, <1>3, <1>4, NextSplits

\* The promise GroundScriptProofs shows the scripts' application to keep is the one this
\* application keeps, for every set of messages and whatever the child counts meanwhile.
THEOREM AppKeepsTheView == Spec => ImplementsCommandView
<1>1. Init => Ground!Init
  BY DEF Init, Ground!Init, SeenCount, SwitchPending, Zeroes, Counters, Tasks
<1> QED
  BY <1>1, ViewStep, TypeCorrect, LockInvariant, CountInvariant, AbsentInvariant, ViewInvariant, PTL
  DEF Spec, Ground!Spec, ImplementsCommandView
=============================================================================
