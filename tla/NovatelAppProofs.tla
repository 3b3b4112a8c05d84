-------------------------- MODULE NovatelAppProofs --------------------------
(***************************************************************************)
(* Theorems about NovatelApp, for every counter width, every debounce limit *)
(* and every set of messages.                                              *)
(***************************************************************************)
EXTENDS NovatelAppProperties, TLAPS

Labels == MainLabels \cup ChildLabels

-----------------------------------------------------------------------------
(* Type correctness *)

\* Wrapping increments stay in the range of a counter.
LEMMA WrapType == ASSUME NEW n \in CounterValues PROVE Wrap(n) \in CounterValues
  BY ConstantsAssumption DEF ConstantsAssumption, Wrap, CounterValues

\* The initial state is well typed.
LEMMA InitType == Init => TypeOK
<1> SUFFICES ASSUME Init PROVE TypeOK
  OBVIOUS
<1>1. 0 \in CounterValues /\ ErrMax \in 0 .. ErrMax /\ 0 \in 0 .. ErrMax + 2
  BY ConstantsAssumption DEF ConstantsAssumption, CounterValues
<1>2. pc \in [Tasks -> MainLabels \cup ChildLabels]
  BY DEF Init, MainLabels, ChildLabels, Tasks
<1>3. /\ fn \in [Tasks -> {"none"} \cup Functions] /\ at \in [Tasks -> Points]
      /\ reg \in [Tasks -> CounterValues] /\ ret \in [Tasks -> Results]
  BY <1>1 DEF Init, Points, Results
<1>4. /\ count \in [Counters -> CounterValues] /\ done \in [Counters -> CounterValues]
      /\ verdict \in [{"CommandCount", "CommandErrorCount"} -> 0 .. 2]
  BY <1>1 DEF Init, Zeroes, NoVerdict
<1>5. devPkt \in [Words -> {"zero", "none"} \cup Tasks]
  BY DEF Init
<1>6. enabled \in BOOLEAN /\ portOpen \in BOOLEAN /\ wrote \in BOOLEAN
  BY DEF Init
<1>7. /\ mutex \in {"absent", "free"} \cup Tasks /\ runStatus \in {"RUN", "ERROR"}
      /\ saveptr \in {"none"} \cup Tasks /\ localRun \in Results
      /\ msg \in Messages \cup {NoMsg} /\ exitStatus \in {"none", "RUN", "ERROR"}
  BY DEF Init, Results
<1>8. errMax \in 0 .. ErrMax /\ fails \in 0 .. ErrMax + 2 /\ late \in 0 .. 2
  BY <1>1 DEF Init
<1> QED
  BY <1>2, <1>3, <1>4, <1>5, <1>6, <1>7, <1>8 DEF TypeOK

\* A step that only calls a locking function keeps the types.
LEMMA JustCallType ==
  ASSUME TypeOK, NEW t \in Tasks, NEW f \in Functions, NEW l \in Labels, JustCall(t, f, l)
  PROVE  TypeOK'
  BY DEF TypeOK, JustCall, Call, Labels, Points, hkVars, deviceVars, mainVars, historyVars

\* So does a step that only goes on to another label.
LEMMA JustGoToType ==
  ASSUME TypeOK, NEW t \in Tasks, NEW l \in Labels, JustGoTo(t, l)
  PROVE  TypeOK'
  BY DEF TypeOK, JustGoTo, GoTo, Labels, hkVars, deviceVars, mainVars, historyVars

\* Every step inside a locking function keeps the types.
LEMMA LockingFunctionType ==
  ASSUME TypeOK, NEW t \in Tasks, LockingFunctionStep(t)
  PROVE  TypeOK'
<1> USE DEF TypeOK, Advance, Return, In, hkVars, deviceVars, mainVars, historyVars,
            Points, HeldPoints, ParsePoints, Results
<1>1. CASE Take(t)
  BY <1>1 DEF Take, Tasks
<1>2. CASE TakeFails(t)
  BY <1>2 DEF TakeFails
<1>3. CASE Give(t)
  BY <1>3, WrapType DEF Give
<1>4. CASE LoadCounter(t)
  BY <1>4 DEF LoadCounter
<1>5. CASE StoreCounter(t)
  BY <1>5, WrapType DEF StoreCounter, Saturate
<1>6. CASE ResetCounters(t)
  BY <1>6, ConstantsAssumption DEF ConstantsAssumption, ResetCounters, Zeroes, CounterValues
<1>7. CASE GetRunStatus(t)
  BY <1>7 DEF GetRunStatus
<1>8. CASE SetRunStatus(t)
  BY <1>8 DEF SetRunStatus
<1>9. CASE GetDeviceEnabledStatus(t)
  BY <1>9 DEF GetDeviceEnabledStatus
<1>10. CASE SetDeviceEnabledStatus(t)
  BY <1>10 DEF SetDeviceEnabledStatus
<1>11. CASE CommandDeviceRefuses(t)
  BY <1>11 DEF CommandDeviceRefuses
<1>12. CASE CommandDeviceBuilds(t)
  BY <1>12 DEF CommandDeviceBuilds
<1>13. CASE CommandDeviceFlushes(t)
  <2>1. CASE Return(t, "SUCCESS", "give") /\ wrote' = TRUE
    BY <1>13, <2>1 DEF CommandDeviceFlushes
  <2>2. CASE Return(t, "ERROR", "give") /\ UNCHANGED wrote
    BY <1>13, <2>2 DEF CommandDeviceFlushes
  <2> QED
    BY <1>13, <2>1, <2>2 DEF CommandDeviceFlushes
<1>14. CASE BytesAvailable(t)
  BY <1>14 DEF BytesAvailable, Saturate
<1>15. CASE ShortRead(t)
  BY <1>15 DEF ShortRead
<1>16. CASE FirstToken(t)
  BY <1>16 DEF FirstToken
<1>17. CASE ParseXyzZero(t)
  BY <1>17 DEF ParseXyzZero, Words, Tasks
<1>18. CASE ParseXyzPosition(t)
  BY <1>18 DEF ParseXyzPosition, WriteWord, Words, Tasks
<1>19. CASE ParseXyzVelocity(t)
  BY <1>19 DEF ParseXyzVelocity, Words, Tasks
<1>20. CASE ParseGgaZero(t)
  BY <1>20 DEF ParseGgaZero, WriteWord, Words, Tasks
<1>21. CASE ParseGgaSet(t)
  BY <1>21 DEF ParseGgaSet, Words, Tasks
<1> QED
  BY <1>1, <1>2, <1>3, <1>4, <1>5, <1>6, <1>7, <1>8, <1>9, <1>10, <1>11, <1>12, <1>13,
     <1>14, <1>15, <1>16, <1>17, <1>18, <1>19, <1>20, <1>21 DEF LockingFunctionStep

\* Every step of AppInit and of AppMain's loop keeps the types.
LEMMA LoopType ==
  ASSUME TypeOK, InitStep \/ LoopStep \/ ReceiveBuffer
  PROVE  TypeOK'
<1> USE DEF TypeOK, InitFails, GoTo, Call, hkVars, deviceVars, mainVars, historyVars,
            MainLabels, ChildLabels, Points, Results, Functions, Tasks
<1>1. CASE SetUpPipe
  BY <1>1 DEF SetUpPipe
<1>2. CASE CreateMutex
  BY <1>2 DEF CreateMutex
<1>3. CASE CreateChildTask
  BY <1>3 DEF CreateChildTask
<1>4. CASE SendStartupEvent
  BY <1>4 DEF SendStartupEvent
<1>5. CASE RunLoopContinues
  BY <1>5, JustGoToType DEF RunLoopContinues, Labels
<1>6. CASE RunLoopStops
  BY <1>6, JustCallType DEF RunLoopStops, Labels
<1>7. CASE ReceiveBuffer
  BY <1>7 DEF ReceiveBuffer
<1>8. CASE ReceiveBufferFails
  BY <1>8, JustCallType DEF ReceiveBufferFails, Labels
<1>9. CASE CheckRunStatus
  BY <1>9, JustCallType DEF CheckRunStatus, Labels
<1>10. CASE UpdateLocalRun
  <2>1. wrote' \in BOOLEAN
    BY <1>10 DEF UpdateLocalRun
  <2>2. verdict' \in [{"CommandCount", "CommandErrorCount"} -> 0 .. 2]
    BY <1>10 DEF UpdateLocalRun, NoVerdict
  <2> QED
    BY <1>10, <2>1, <2>2 DEF UpdateLocalRun
<1>11. CASE ExitApp
  BY <1>11 DEF ExitApp
<1> HIDE DEF TypeOK
<1> QED
  BY <1>1, <1>2, <1>3, <1>4, <1>5, <1>6, <1>7, <1>8, <1>9, <1>10, <1>11 DEF InitStep, LoopStep

\* Every step of a handler keeps the types.
LEMMA HandlerType ==
  ASSUME TypeOK, HandlerStep
  PROVE  TypeOK'
<1>1. CASE OpenPort
  <2> USE DEF TypeOK, Call, hkVars, mainVars, historyVars,
              MainLabels, Points, Functions, Counters, Tasks
  <2>1. portOpen' \in BOOLEAN
    BY <1>1 DEF OpenPort
  <2>2. pc' \in [Tasks -> MainLabels \cup ChildLabels] /\ fn' \in [Tasks -> {"none"} \cup Functions]
        /\ at' \in [Tasks -> Points]
    BY <1>1 DEF OpenPort
  <2> QED
    BY <1>1, <2>1, <2>2 DEF OpenPort
<1>2. CASE ClosePort
  <2> USE DEF TypeOK, Call, AfterDisable, hkVars, mainVars, historyVars,
              MainLabels, Points, Functions, Counters, Tasks
  <2>1. portOpen' \in BOOLEAN
    BY <1>2 DEF ClosePort
  <2>2. pc' \in [Tasks -> MainLabels \cup ChildLabels] /\ fn' \in [Tasks -> {"none"} \cup Functions]
        /\ at' \in [Tasks -> Points]
    BY <1>2 DEF ClosePort
  <2> QED
    BY <1>2, <2>1, <2>2 DEF ClosePort
<1>3. CASE \E f \in Functions, l \in Labels : JustCall("main", f, l)
  BY <1>3, JustCallType DEF Tasks
<1>4. CASE \E l \in Labels : JustGoTo("main", l)
  BY <1>4, JustGoToType DEF Tasks
<1> QED
  BY <1>1, <1>2, <1>3, <1>4
  DEF HandlerStep, RejectMessage, Noop, ResetCountersCommand, ReportHousekeeping,
      DeviceCommand, DeviceCommandExecute, RequestData, RequestDataEnabled,
      RequestDataDisabled, RequestDataSucceeds, RequestDataFails, TransmitDevicePkt,
      EnableCommand, EnableAccepted, EnableRejected, SetEnabled,
      DisableCommand, DisableAccepted, DisableRejected, SetDisabled, AfterDisable,
      Functions, Counters, Readers, Labels, MainLabels

\* Every step of the child's own code keeps the types.
LEMMA ChildType ==
  ASSUME TypeOK, ChildControlStep
  PROVE  TypeOK'
<1> USE DEF TypeOK, GoTo, Call, OneMoreFailure, hkVars, deviceVars, mainVars, historyVars,
            ChildLabels, Points, Functions, Counters, Readers, Tasks
<1>1. CASE ChildCheckRunStatus
  BY <1>1, JustCallType DEF ChildCheckRunStatus, Labels
<1>2. CASE ChildCheckEnabled
  BY <1>2, JustCallType DEF ChildCheckEnabled, Labels
<1>3. CASE ChildExits
  BY <1>3, JustGoToType DEF ChildExits, Labels
<1>4. CASE ChildRead
  BY <1>4, JustCallType DEF ChildRead, Labels
<1>5. CASE ChildSkips
  BY <1>5, JustGoToType DEF ChildSkips, Labels
<1>6. CASE ChildReadSucceeds
  BY <1>6, ConstantsAssumption DEF ConstantsAssumption, ChildReadSucceeds
<1>7. CASE ChildTransmits
  BY <1>7, ConstantsAssumption DEF ConstantsAssumption, ChildTransmits
<1>8. CASE ChildReadFailsQuietly
  BY <1>8, ConstantsAssumption DEF ConstantsAssumption, ChildReadFailsQuietly
<1>9. CASE ChildReadFailsLoudly
  BY <1>9, ConstantsAssumption DEF ConstantsAssumption, ChildReadFailsLoudly
<1>10. CASE ChildRearms
  BY <1>10, ConstantsAssumption DEF ConstantsAssumption, ChildRearms
<1> QED
  BY <1>1, <1>2, <1>3, <1>4, <1>5, <1>6, <1>7, <1>8, <1>9, <1>10 DEF ChildControlStep

\* The steps of Next, sorted as the lemmas treat them.
LEMMA NextSplits ==
  ASSUME [Next]_vars
  PROVE  \/ \E t \in Tasks : LockingFunctionStep(t)
         \/ InitStep \/ LoopStep \/ ReceiveBuffer
         \/ HandlerStep
         \/ ChildControlStep
         \/ UNCHANGED vars
  BY DEF Next, Terminated

\* The application never leaves its types: counters in range of a uint8,
\* error_max_count never below zero, every task at a known point of the code.
THEOREM TypeCorrect == Spec => []TypeOK
<1>1. TypeOK /\ [Next]_vars => TypeOK'
  <2> SUFFICES ASSUME TypeOK, [Next]_vars PROVE TypeOK'
    OBVIOUS
  <2>1. CASE UNCHANGED vars
    BY <2>1 DEF TypeOK, vars, hkVars, deviceVars, mainVars, historyVars
  <2> QED
    BY <2>1, NextSplits, LockingFunctionType, LoopType, HandlerType, ChildType
<1> QED
  BY InitType, <1>1, PTL DEF Spec

-----------------------------------------------------------------------------
(* The mutex *)

\* Before the mutex exists.
Unlocked == {"Setup", "CreateMutex"}

\* The inductive invariant about the mutex.  MutexDiscipline says nothing of the
\* point a task is at inside which function, nor when the mutex comes into being.
LockInv ==
    /\ MutexDiscipline
    /\ pc["main"] \in Unlocked => mutex = "absent"
    /\ \A t \in Tasks :
        /\ at[t] = "none" <=> fn[t] = "none"
        /\ at[t] = "store" => fn[t] \in Counters
        /\ at[t] = "flush" => fn[t] = "SafeCommandDeviceCustom"
        /\ at[t] \in {"read"} \cup ParsePoints => fn[t] \in Readers

\* What every step of a task's own code, outside the locking functions, has in
\* common: it may call one of them, and the shared data stays as it is.
ControlShape(t) ==
    /\ at[t] = "none"
    /\ \/ UNCHANGED <<fn, at>>
       \/ \E f \in Functions : /\ fn' = [fn EXCEPT ![t] = f]
                               /\ at' = [at EXCEPT ![t] = "take"]
    /\ \/ UNCHANGED mutex
       \/ pc["main"] \in Unlocked /\ mutex' = "free" /\ pc'["main"] \notin Unlocked
    /\ pc'["main"] \in Unlocked => pc["main"] \in Unlocked
    /\ UNCHANGED <<hkVars, devPkt, saveptr, reg, done>>

\* Every step of AppMain and of the handlers has that shape.
LEMMA MainShape ==
  ASSUME TypeOK, InitStep \/ LoopStep \/ ReceiveBuffer \/ HandlerStep
  PROVE  ControlShape("main")
<1> USE DEF TypeOK, ControlShape, Ready, JustCall, JustGoTo, Call, GoTo, InitFails, Unlocked, Tasks,
            hkVars, deviceVars, mainVars, historyVars, Functions, Counters, Readers
<1>1. CASE InitStep
  BY <1>1 DEF InitStep, SetUpPipe, CreateMutex, CreateChildTask, SendStartupEvent
<1>2. CASE LoopStep \/ ReceiveBuffer
  BY <1>2 DEF LoopStep, RunLoopContinues, RunLoopStops, ReceiveBuffer, ReceiveBufferFails,
     CheckRunStatus, UpdateLocalRun, ExitApp
<1>3. CASE OpenPort \/ ClosePort
  BY <1>3 DEF OpenPort, ClosePort, AfterDisable
<1>4. CASE HandlerStep /\ ~ OpenPort /\ ~ ClosePort
  BY <1>4 DEF HandlerStep, RejectMessage, Noop, ResetCountersCommand, ReportHousekeeping,
     DeviceCommand, DeviceCommandExecute, RequestData, RequestDataEnabled,
     RequestDataDisabled, RequestDataSucceeds, RequestDataFails, TransmitDevicePkt,
     EnableCommand, EnableAccepted, EnableRejected, SetEnabled,
     DisableCommand, DisableAccepted, DisableRejected, SetDisabled, AfterDisable
<1> QED
  BY <1>1, <1>2, <1>3, <1>4

\* And every step of the child's own code.
LEMMA ChildShape ==
  ASSUME TypeOK, ChildControlStep
  PROVE  ControlShape("child")
  BY DEF TypeOK, ControlShape, Ready, JustCall, JustGoTo, Call, GoTo, Unlocked, Tasks,
     hkVars, deviceVars, mainVars, historyVars, Functions, Counters, Readers,
     ChildControlStep, ChildCheckRunStatus, ChildCheckEnabled, ChildExits, ChildRead,
     ChildSkips, ChildReadSucceeds, ChildTransmits, ChildReadFailsQuietly,
     ChildReadFailsLoudly, ChildRearms

\* So a step is inside a locking function, of that shape, or a stutter.
LEMMA StepKinds ==
  ASSUME TypeOK, [Next]_vars
  PROVE  \E t \in Tasks : LockingFunctionStep(t) \/ ControlShape(t) \/ UNCHANGED vars
  BY NextSplits, MainShape, ChildShape DEF Tasks

\* Outside the functions no task owns the mutex, and none gets it.
LEMMA LockControl ==
  ASSUME TypeOK, LockInv, NEW t \in Tasks, ControlShape(t)
  PROVE  LockInv'
  BY DEF TypeOK, LockInv, MutexDiscipline, ControlShape, Tasks, Functions, Counters, Readers,
     HeldPoints, ParsePoints, Points

\* Inside them it is taken first and given back last.
LEMMA LockFunction ==
  ASSUME TypeOK, LockInv, NEW t \in Tasks, LockingFunctionStep(t)
  PROVE  LockInv'
<1> USE DEF TypeOK, LockInv, MutexDiscipline, Advance, Return, In, HeldPoints, ParsePoints,
            Points, Tasks, Functions, Counters, Readers, Unlocked
<1>1. CASE Take(t)
  BY <1>1 DEF Take
<1>2. CASE TakeFails(t) \/ Give(t)
  BY <1>2 DEF TakeFails, Give
<1>3. CASE LoadCounter(t) \/ StoreCounter(t) \/ ResetCounters(t)
  BY <1>3 DEF LoadCounter, StoreCounter, ResetCounters
<1>4. CASE GetRunStatus(t) \/ SetRunStatus(t)
           \/ GetDeviceEnabledStatus(t) \/ SetDeviceEnabledStatus(t)
  BY <1>4 DEF GetRunStatus, SetRunStatus, GetDeviceEnabledStatus, SetDeviceEnabledStatus
<1>5. CASE CommandDeviceRefuses(t) \/ CommandDeviceBuilds(t) \/ CommandDeviceFlushes(t)
  BY <1>5 DEF CommandDeviceRefuses, CommandDeviceBuilds, CommandDeviceFlushes
<1>6. CASE BytesAvailable(t) \/ ShortRead(t) \/ FirstToken(t)
  BY <1>6 DEF BytesAvailable, ShortRead, FirstToken
<1>7. CASE ParseXyzZero(t) \/ ParseXyzPosition(t) \/ ParseXyzVelocity(t)
           \/ ParseGgaZero(t) \/ ParseGgaSet(t)
  BY <1>7 DEF ParseXyzZero, ParseXyzPosition, ParseXyzVelocity, ParseGgaZero, ParseGgaSet,
     WriteWord
<1> HIDE DEF TypeOK, LockInv
<1> QED
  BY <1>1, <1>2, <1>3, <1>4, <1>5, <1>6, <1>7 DEF LockingFunctionStep

\* So LockInv holds throughout.
LEMMA LockInvariant == Spec => []LockInv
<1>1. Init => LockInv
  BY DEF Init, LockInv, MutexDiscipline, HeldPoints, ParsePoints, Tasks, Unlocked
<1>2. TypeOK /\ LockInv /\ [Next]_vars => LockInv'
  <2> SUFFICES ASSUME TypeOK, LockInv, [Next]_vars PROVE LockInv'
    OBVIOUS
  <2>1. CASE UNCHANGED vars
    BY <2>1 DEF LockInv, MutexDiscipline, vars
  <2> QED
    BY <2>1, StepKinds, LockControl, LockFunction
<1> QED
  BY <1>1, <1>2, TypeCorrect, PTL DEF Spec

\* A task holds HkDataMutex exactly while it is inside a locking function, and so
\* never two tasks at once.
THEOREM MutexIsHeldInside == Spec => []MutexDiscipline
  BY LockInvariant, PTL DEF LockInv

-----------------------------------------------------------------------------
(* The counters *)

\* The value an increment has read is still the counter's value when it writes:
\* the part NoLostUpdate needs to be inductive.
CountInv ==
    /\ NoLostUpdate
    /\ \A t \in Tasks : at[t] = "store" => reg[t] = count[fn[t]]

\* Outside the locking functions no counter changes.
LEMMA CountControl ==
  ASSUME TypeOK, LockInv, CountInv, NEW t \in Tasks, ControlShape(t)
  PROVE  CountInv'
  BY DEF TypeOK, LockInv, CountInv, NoLostUpdate, ControlShape, hkVars, Functions, Counters,
     Readers, Points, HeldPoints, ParsePoints

\* A step of the task that holds the mutex finds the other one outside, so that
\* only its own increment can be under way.
LEMMA CountFunction ==
  ASSUME TypeOK, LockInv, CountInv, NEW t \in Tasks, LockingFunctionStep(t)
  PROVE  CountInv'
<1> USE DEF CountInv, NoLostUpdate, Advance, Return, In
<1>1. ASSUME at[t] \in HeldPoints, NEW u \in Tasks, u # t
      PROVE  at[u] \in {"none", "take"}
  BY <1>1 DEF TypeOK, LockInv, MutexDiscipline, Points, Tasks
<1>2. CASE Take(t)
  BY <1>2 DEF Take, TypeOK, hkVars, historyVars
<1>3. CASE TakeFails(t)
  BY <1>3 DEF TakeFails, TypeOK, hkVars, historyVars
<1>4. CASE Give(t)
  <2>1. at[t] = "give" /\ at[t] \in HeldPoints
    BY <1>4 DEF Give, HeldPoints
  <2>2. \A u \in Tasks : at'[u] # "give" /\ at'[u] # "store"
    BY <1>1, <1>4, <2>1 DEF Give, TypeOK
  <2>3. \A c \in Counters : (\E u \in Tasks : fn[u] = c /\ at[u] = "give") <=> fn[t] = c
    BY <1>1, <2>1
  <2> QED
    BY <1>4, <2>1, <2>2, <2>3 DEF Give, TypeOK, hkVars
<1>5. CASE LoadCounter(t)
  <2>1. at[t] = "body" /\ at[t] \in HeldPoints
    BY <1>5 DEF LoadCounter, HeldPoints
  <2>2. \A u \in Tasks : at'[u] # "give" /\ at[u] # "give"
    BY <1>1, <1>5, <2>1 DEF LoadCounter, TypeOK
  <2>3. \A u \in Tasks : at'[u] = "store" => u = t
    BY <1>1, <1>5, <2>1 DEF LoadCounter, TypeOK
  <2> QED
    BY <1>5, <2>1, <2>2, <2>3 DEF LoadCounter, TypeOK, hkVars, historyVars
<1>6. CASE StoreCounter(t)
  <2>1. at[t] = "store" /\ at[t] \in HeldPoints
    BY <1>6 DEF StoreCounter, HeldPoints
  <2>2. \A u \in Tasks : at[u] # "give" /\ at'[u] # "store"
    BY <1>1, <1>6, <2>1 DEF StoreCounter, TypeOK
  <2>3. \A u \in Tasks : at'[u] = "give" <=> u = t
    BY <1>1, <1>6, <2>1 DEF StoreCounter, TypeOK
  <2>4. \A c \in Counters : count[c] = done[c]
    BY <2>2
  <2>5. reg[t] = count[fn[t]]
    BY <2>1
  <2> QED
    BY <1>6, <2>2, <2>3, <2>4, <2>5 DEF StoreCounter, TypeOK
<1>7. CASE ResetCounters(t)
  <2>1. at[t] = "body" /\ at[t] \in HeldPoints /\ fn[t] \notin Counters
    BY <1>7 DEF ResetCounters, HeldPoints, Counters
  <2>2. \A u \in Tasks : at'[u] # "store" /\ (at'[u] = "give" => u = t)
    BY <1>1, <1>7, <2>1 DEF ResetCounters, TypeOK
  <2> QED
    BY <1>7, <2>1, <2>2 DEF ResetCounters, TypeOK
<1>8. ASSUME fn[t] \notin Counters, UNCHANGED <<count, done, reg, fn>>,
             \E p \in Points \ {"store"} : at' = [at EXCEPT ![t] = p]
      PROVE  CountInv'
  <2>1. \A u \in Tasks : at'[u] = "store" => at[u] = "store"
    BY <1>8 DEF TypeOK
  <2>2. \A u \in Tasks : fn[u] \in Counters => (at'[u] = "give" <=> at[u] = "give")
    BY <1>8 DEF TypeOK
  <2> QED
    BY <1>8, <2>1, <2>2
<1>9. CASE GetRunStatus(t) \/ SetRunStatus(t)
           \/ GetDeviceEnabledStatus(t) \/ SetDeviceEnabledStatus(t)
  BY <1>8, <1>9 DEF GetRunStatus, SetRunStatus, GetDeviceEnabledStatus, SetDeviceEnabledStatus,
     hkVars, historyVars, Counters, Points, HeldPoints
<1>10. CASE CommandDeviceRefuses(t) \/ CommandDeviceBuilds(t) \/ CommandDeviceFlushes(t)
  BY <1>8, <1>10 DEF CommandDeviceRefuses, CommandDeviceBuilds, CommandDeviceFlushes,
     hkVars, historyVars, Counters, Points, HeldPoints
<1>11. fn[t] \in Readers => fn[t] \notin Counters
  BY DEF Readers, Counters
<1>12. CASE BytesAvailable(t) \/ ShortRead(t) \/ FirstToken(t)
  BY <1>8, <1>11, <1>12 DEF BytesAvailable, ShortRead, FirstToken, LockInv,
     hkVars, historyVars, Points, HeldPoints, ParsePoints
<1>13. CASE ParseXyzZero(t) \/ ParseXyzPosition(t) \/ ParseXyzVelocity(t)
            \/ ParseGgaZero(t) \/ ParseGgaSet(t)
  BY <1>8, <1>11, <1>13 DEF ParseXyzZero, ParseXyzPosition, ParseXyzVelocity, ParseGgaZero,
     ParseGgaSet, WriteWord, LockInv, hkVars, historyVars, Points, HeldPoints, ParsePoints
<1> HIDE DEF CountInv
<1> QED
  BY <1>2, <1>3, <1>4, <1>5, <1>6, <1>7, <1>9, <1>10, <1>12, <1>13 DEF LockingFunctionStep

\* So CountInv holds throughout.
LEMMA CountInvariant == Spec => []CountInv
<1>1. Init => CountInv
  BY DEF Init, CountInv, NoLostUpdate, Zeroes
<1>2. TypeOK /\ LockInv /\ CountInv /\ [Next]_vars => CountInv'
  <2> SUFFICES ASSUME TypeOK, LockInv, CountInv, [Next]_vars PROVE CountInv'
    OBVIOUS
  <2>1. CASE UNCHANGED vars
    BY <2>1 DEF CountInv, NoLostUpdate, vars, hkVars, historyVars
  <2> QED
    BY <2>1, StepKinds, CountControl, CountFunction
<1> QED
  BY <1>1, <1>2, TypeCorrect, LockInvariant, PTL DEF Spec

\* No increment of a housekeeping counter is lost to the other task, and none
\* survives a reset.
THEOREM NoIncrementIsLost == Spec => []NoLostUpdate
  BY CountInvariant, PTL DEF CountInv

-----------------------------------------------------------------------------
(* The parser's cursor *)

\* Only the task that reads moves the cursor, and it holds the mutex until it has parsed.
LEMMA CursorStep ==
  ASSUME TypeOK, LockInv, CursorIsOwn, [Next]_vars
  PROVE  CursorIsOwn'
<1> USE DEF TypeOK, LockInv, MutexDiscipline, CursorIsOwn, ParsePoints, HeldPoints, Points
<1>1. ASSUME NEW t \in Tasks, ControlShape(t) PROVE CursorIsOwn'
  BY <1>1 DEF ControlShape
<1>2. ASSUME NEW t \in Tasks, LockingFunctionStep(t) PROVE CursorIsOwn'
  <2> USE <1>2 DEF Advance, Return, In, deviceVars, Tasks
  <2>1. CASE FirstToken(t)
    BY <2>1 DEF FirstToken
  <2>2. CASE ParseXyzZero(t) \/ ParseXyzPosition(t) \/ ParseXyzVelocity(t)
             \/ ParseGgaZero(t) \/ ParseGgaSet(t)
    BY <2>2 DEF ParseXyzZero, ParseXyzPosition, ParseXyzVelocity, ParseGgaZero, ParseGgaSet,
       WriteWord
  <2>3. CASE LockingFunctionStep(t) /\ ~ FirstToken(t) /\ ~ ParseXyzZero(t)
             /\ ~ ParseXyzPosition(t) /\ ~ ParseXyzVelocity(t)
             /\ ~ ParseGgaZero(t) /\ ~ ParseGgaSet(t)
    BY <2>3 DEF LockingFunctionStep, Take, TakeFails, Give, LoadCounter, StoreCounter,
       ResetCounters, GetRunStatus, SetRunStatus, GetDeviceEnabledStatus,
       SetDeviceEnabledStatus, CommandDeviceRefuses, CommandDeviceBuilds,
       CommandDeviceFlushes, BytesAvailable, ShortRead
  <2> QED
    BY <2>1, <2>2, <2>3
<1>3. CASE UNCHANGED vars
  BY <1>3 DEF vars, deviceVars
<1> QED
  BY <1>1, <1>2, <1>3, StepKinds

\* Neither task ever parses out of the other's buffer, although the strtok_r
\* cursor is a single file-scope variable.
THEOREM CursorIsNeverStolen == Spec => []CursorIsOwn
<1>1. Init => CursorIsOwn
  BY DEF Init, CursorIsOwn, ParsePoints
<1> QED
  BY <1>1, CursorStep, TypeCorrect, LockInvariant, PTL DEF Spec

-----------------------------------------------------------------------------
(* Refinement *)

\* A step of a task's own code is a stutter for whoever sees only housekeeping; a
\* step inside a locking function is one step of HkTelemetry or a stutter.
LEMMA HkStep ==
  ASSUME TypeOK, LockInv, CountInv, [Next]_vars
  PROVE  [Hk!Next]_(Hk!vars)
<1> USE DEF Hk!vars, Hk!Next, hkVars
<1>1. ASSUME NEW t \in Tasks, ControlShape(t) PROVE UNCHANGED hkVars
  BY <1>1 DEF ControlShape
<1>2. ASSUME NEW t \in Tasks, LockingFunctionStep(t) PROVE [Hk!Next]_(Hk!vars)
  <2>1. CASE StoreCounter(t)
    <3>1. at[t] = "store" /\ fn[t] \in Counters /\ reg[t] = count[fn[t]]
      BY <2>1 DEF StoreCounter, CountInv
    <3>2. Hk!Bump(fn[t])
      BY <2>1, <3>1 DEF StoreCounter, Hk!Bump, Wrap, TypeOK
    <3> QED
      BY <3>1, <3>2 DEF Counters, Hk!Counters
  <2>2. CASE ResetCounters(t)
    BY <2>2 DEF ResetCounters, Hk!Clear, Zeroes, Counters, Hk!Counters
  <2>3. CASE SetRunStatus(t)
    BY <2>3 DEF SetRunStatus, Hk!Fail, TypeOK
  <2>4. CASE SetDeviceEnabledStatus(t)
    <3>1. enabled' \in BOOLEAN /\ enabled \in BOOLEAN
      BY <2>4 DEF SetDeviceEnabledStatus, TypeOK
    <3>2. enabled' = enabled \/ enabled' = ~enabled
      BY <3>1
    <3> QED
      BY <2>4, <3>2 DEF SetDeviceEnabledStatus, Hk!Switch
  <2>5. CASE UNCHANGED hkVars
    BY <2>5
  <2> QED
    BY <1>2, <2>1, <2>2, <2>3, <2>4, <2>5
    DEF LockingFunctionStep, Take, TakeFails, Give, LoadCounter, GetRunStatus,
        GetDeviceEnabledStatus, CommandDeviceRefuses, CommandDeviceBuilds,
        CommandDeviceFlushes, BytesAvailable, ShortRead, FirstToken, ParseXyzZero,
        ParseXyzPosition, ParseXyzVelocity, ParseGgaZero, ParseGgaSet, WriteWord
<1>3. CASE UNCHANGED vars
  BY <1>3 DEF vars
<1> QED
  BY <1>1, <1>2, <1>3, StepKinds

\* The two tasks and their mutex implement HkTelemetry: to the ground, every change
\* of the housekeeping data is one indivisible, legal step.
THEOREM AppImplementsHkTelemetry == Spec => ImplementsHkTelemetry
<1>1. Init => Hk!Init
  BY DEF Init, Hk!Init, Zeroes, Counters, Hk!Counters
<1> QED
  BY <1>1, HkStep, TypeCorrect, LockInvariant, CountInvariant, PTL
  DEF Spec, Hk!Spec, ImplementsHkTelemetry

-----------------------------------------------------------------------------
(* The port and the enable flag *)

\* While the mutex does not exist: AppInit has failed or has not got that far, no
\* message is handled, there is no child, and GetDeviceEnabledStatus has not said
\* that the device is enabled.
AbsentInv ==
    /\ mutex = "absent" =>
        /\ pc["main"] \in Unlocked \cup {"RunLoop", "DisableChecked", "Exit", "Exited"}
        /\ pc["main"] \notin Unlocked => localRun = "ERROR"
        /\ pc["main"] = "DisableChecked" /\ at["main"] = "none" => ret["main"] = "ERROR"
        /\ msg = NoMsg
        /\ fn["main"] \notin {"SetEnabled", "SetDisabled"}
        /\ pc["child"] = "Absent"
    /\ pc["child"] = "Absent" => fn["child"] = "none"

\* Every step keeps it.
LEMMA AbsentStep ==
  ASSUME TypeOK, LockInv, AbsentInv, [Next]_vars
  PROVE  AbsentInv'
<1> USE DEF TypeOK, LockInv, AbsentInv, MutexDiscipline, HeldPoints, ParsePoints, Unlocked, Tasks
<1>1. ASSUME NEW t \in Tasks, LockingFunctionStep(t) PROVE AbsentInv'
  <2> USE <1>1 DEF Advance, Return, In, mainVars
  <2>1. CASE TakeFails(t)
    BY <2>1 DEF TakeFails
  <2>2. CASE Take(t) \/ Give(t)
    BY <2>2 DEF Take, Give
  <2>3. CASE at[t] \in HeldPoints /\ UNCHANGED <<mutex, pc, fn, mainVars>>
    BY <2>3
  <2>4. Take(t) \/ TakeFails(t) \/ Give(t)
        \/ (at[t] \in HeldPoints /\ UNCHANGED <<mutex, pc, fn, mainVars>>)
    BY DEF LockingFunctionStep, LoadCounter, StoreCounter,
       ResetCounters, GetRunStatus, SetRunStatus, GetDeviceEnabledStatus,
       SetDeviceEnabledStatus, CommandDeviceRefuses, CommandDeviceBuilds,
       CommandDeviceFlushes, BytesAvailable, ShortRead, FirstToken, ParseXyzZero,
       ParseXyzPosition, ParseXyzVelocity, ParseGgaZero, ParseGgaSet, WriteWord
  <2> HIDE DEF AbsentInv
  <2> QED
    BY <2>1, <2>2, <2>3, <2>4
<1> USE DEF Ready, JustCall, JustGoTo, Call, GoTo, InitFails, mainVars
<1>2. CASE InitStep \/ LoopStep \/ ReceiveBuffer
  BY <1>2 DEF InitStep, SetUpPipe, CreateMutex, CreateChildTask, SendStartupEvent,
     LoopStep, RunLoopContinues, RunLoopStops, ReceiveBuffer, ReceiveBufferFails,
     CheckRunStatus, UpdateLocalRun, ExitApp
<1>3. CASE OpenPort \/ ClosePort
  BY <1>3 DEF OpenPort, ClosePort
<1>4. CASE HandlerStep /\ ~ OpenPort /\ ~ ClosePort
  BY <1>4 DEF HandlerStep, RejectMessage, Noop, ResetCountersCommand, ReportHousekeeping,
     DeviceCommand, DeviceCommandExecute, RequestData, RequestDataEnabled,
     RequestDataDisabled, RequestDataSucceeds, RequestDataFails, TransmitDevicePkt,
     EnableCommand, EnableAccepted, EnableRejected, SetEnabled,
     DisableCommand, DisableAccepted, DisableRejected, SetDisabled, AfterDisable
<1>5. CASE ChildControlStep
  BY <1>5 DEF ChildControlStep, ChildCheckRunStatus, ChildCheckEnabled, ChildExits, ChildRead,
     ChildSkips, ChildReadSucceeds, ChildTransmits, ChildReadFailsQuietly,
     ChildReadFailsLoudly, ChildRearms
<1>6. CASE UNCHANGED vars
  BY <1>6 DEF vars
<1> HIDE DEF AbsentInv
<1> QED
  BY <1>1, <1>2, <1>3, <1>4, <1>5, <1>6, NextSplits

\* So AbsentInv holds throughout.
LEMMA AbsentInvariant == Spec => []AbsentInv
<1>1. Init => AbsentInv
  BY DEF Init, AbsentInv, Unlocked, Tasks
<1> QED
  BY <1>1, AbsentStep, TypeCorrect, LockInvariant, PTL DEF Spec

\* What makes PortMatchesEnabled inductive: where the port stands at each step of
\* the two switches, and that only the main task makes them.
PortInv ==
    /\ PortMatchesEnabled
    /\ pc["main"] = "PortOpened" => portOpen
    /\ pc["main"] = "PortClosed" => ~ portOpen
    /\ fn["main"] = "SetEnabled" => portOpen /\ (at["main"] = "give" => enabled)
    /\ fn["main"] = "SetDisabled" => ~ portOpen /\ (at["main"] = "give" => ~ enabled)
    /\ fn["child"] \notin {"SetEnabled", "SetDisabled"}

\* The steps inside the locking functions keep it: only SetDeviceEnabledStatus changes the flag.
LEMMA PortFunction ==
  ASSUME TypeOK, LockInv, AbsentInv, PortInv, NEW t \in Tasks, LockingFunctionStep(t)
  PROVE  PortInv'
<1> USE DEF TypeOK, LockInv, AbsentInv, PortInv, PortMatchesEnabled, Advance, Return, In, Tasks,
            hkVars, deviceVars
<1>1. CASE SetDeviceEnabledStatus(t)
  BY <1>1 DEF SetDeviceEnabledStatus
<1>2. CASE Give(t)
  BY <1>2 DEF Give
<1>3. CASE Take(t)
  BY <1>3 DEF Take
<1>4. CASE TakeFails(t)
  BY <1>4 DEF TakeFails
<1>5. CASE /\ fn[t] \notin {"SetEnabled", "SetDisabled"}
           /\ UNCHANGED <<pc, fn, portOpen, enabled>>
           /\ \E p \in Points : at' = [at EXCEPT ![t] = p]
  BY <1>5
<1>6. \/ SetDeviceEnabledStatus(t) \/ Give(t) \/ Take(t) \/ TakeFails(t)
      \/ /\ fn[t] \notin {"SetEnabled", "SetDisabled"}
         /\ UNCHANGED <<pc, fn, portOpen, enabled>>
         /\ \E p \in Points : at' = [at EXCEPT ![t] = p]
  BY DEF LockingFunctionStep, LoadCounter, StoreCounter,
     ResetCounters, GetRunStatus, SetRunStatus, GetDeviceEnabledStatus,
     CommandDeviceRefuses, CommandDeviceBuilds,
     CommandDeviceFlushes, BytesAvailable, ShortRead, FirstToken, ParseXyzZero,
     ParseXyzPosition, ParseXyzVelocity, ParseGgaZero, ParseGgaSet, WriteWord,
     Counters, Readers, ParsePoints, HeldPoints, Points
<1> HIDE DEF PortInv
<1> QED
  BY <1>1, <1>2, <1>3, <1>4, <1>5, <1>6

\* The steps of the tasks' own code keep it: only Enable and Disable touch the port.
LEMMA PortControl ==
  ASSUME TypeOK, LockInv, PortInv,
         InitStep \/ LoopStep \/ ReceiveBuffer \/ HandlerStep \/ ChildControlStep
  PROVE  PortInv'
<1> USE DEF TypeOK, LockInv, PortInv, PortMatchesEnabled, Ready, JustCall, JustGoTo, Call, GoTo,
            InitFails, Tasks, hkVars, deviceVars, mainVars
<1>1. CASE InitStep \/ LoopStep \/ ReceiveBuffer
  BY <1>1 DEF InitStep, SetUpPipe, CreateMutex, CreateChildTask, SendStartupEvent,
     LoopStep, RunLoopContinues, RunLoopStops, ReceiveBuffer, ReceiveBufferFails,
     CheckRunStatus, UpdateLocalRun, ExitApp
<1>2. CASE OpenPort \/ ClosePort
  BY <1>2 DEF OpenPort, ClosePort, AfterDisable
<1>3. CASE SetEnabled \/ SetDisabled
  BY <1>3 DEF SetEnabled, SetDisabled, AfterDisable
<1>4. CASE HandlerStep /\ ~ OpenPort /\ ~ ClosePort /\ ~ SetEnabled /\ ~ SetDisabled
  BY <1>4 DEF HandlerStep, RejectMessage, Noop, ResetCountersCommand, ReportHousekeeping,
     DeviceCommand, DeviceCommandExecute, RequestData, RequestDataEnabled,
     RequestDataDisabled, RequestDataSucceeds, RequestDataFails, TransmitDevicePkt,
     EnableCommand, EnableAccepted, EnableRejected,
     DisableCommand, DisableAccepted, DisableRejected, AfterDisable
<1>5. CASE ChildControlStep
  BY <1>5 DEF ChildControlStep, ChildCheckRunStatus, ChildCheckEnabled, ChildExits, ChildRead,
     ChildSkips, ChildReadSucceeds, ChildTransmits, ChildReadFailsQuietly,
     ChildReadFailsLoudly, ChildRearms
<1> HIDE DEF PortInv
<1> QED
  BY <1>1, <1>2, <1>3, <1>4, <1>5

\* DeviceEnabled never lies about the port for longer than a switch takes, whatever
\* fails on the way: driver calls, initialisation, and on every way out of AppMain.
THEOREM EnabledTellsThePort == Spec => []PortMatchesEnabled
<1>1. Init => PortInv
  BY DEF Init, PortInv, PortMatchesEnabled, Tasks
<1>2. TypeOK /\ LockInv /\ AbsentInv /\ PortInv /\ [Next]_vars => PortInv'
  <2> SUFFICES ASSUME TypeOK, LockInv, AbsentInv, PortInv, [Next]_vars PROVE PortInv'
    OBVIOUS
  <2>1. CASE UNCHANGED vars
    BY <2>1 DEF PortInv, PortMatchesEnabled, vars, hkVars, deviceVars, mainVars
  <2> QED
    BY <2>1, NextSplits, PortFunction, PortControl
<1>3. PortInv => PortMatchesEnabled
  BY DEF PortInv
<1> QED
  BY <1>1, <1>2, <1>3, TypeCorrect, LockInvariant, AbsentInvariant, PTL DEF Spec
=============================================================================
