# A formal model of the NovAtel OEM615 component

TLA+ modules, TLC configurations and TLAPS proofs about the software around
the NovAtel OEM615 GPS receiver: the cFS application in `fsw/cfs/src` and the device
library in `fsw/shared` it is built on, the simulated receiver in `sim`, the F'
component, the standalone checkout, and the ground scripts in `gsw`.
Everything is translated from the sources; names follow them.

## 1. The system

| Part | Source | State | Operations |
|---|---|---|---|
| cFS application, main task | `fsw/cfs/src/novatel_oem615_app.c` | `NOVATEL_OEM615_AppData`: run status, command pipe, message pointer, housekeeping packet (four `uint8` counters, `DeviceEnabled`), device packet, UART description, mutex | `AppInit`, the run loop, eight ground commands, two telemetry requests, ten functions that lock `HkDataMutex` |
| cFS application, child task | `fsw/cfs/src/novatel_oem615_child.c` | `error_max_count`; shares all of `AppData` | every 250 ms: check run status, check enabled, read the receiver, count and transmit or count down and report |
| Device library | `fsw/shared/novatel_oem615_device.c` | one file-scope `saveptr` for `strtok_r` | `CommandDevice`, `RequestData`, `ChildProcessReadData`, the two parsers |
| Software Bus, Executive Services, OSAL, `hwlib` UART | not in the repository | | seen through the calls the application makes |
| Simulator, hardware model | `sim/src/gps_sim_hardware_model_OEM615.cpp` | map of periodic logs, map of generators, UART connection | constructor, time tick callback, UART read callback with its seven commands, a generator for each log |
| Simulator, data providers and data point | `sim/src/gps_sim_data_*.cpp` | place in the data file; parsed-or-not flag of a data point | next data point from file, shared memory or socket; lazy parse |
| F' component | `fsw/fprime/novatel_src` | telemetry structure, UART description, the queue F' gives it | two ports of rate groups, five commands |
| Standalone checkout | `fsw/standalone` | line buffer, run status | a command line over the device library |
| Ground scripts | `gsw/NOVATEL_OEM615` | last housekeeping packet seen | send, wait for the counters, retry, confirm |

How they interact. The ground and other applications send packets through the
Software Bus to the main task, one at a time. The main task and the child are
two tasks of one process; they talk only through `AppData`, under
`HkDataMutex`, each locking function taking the mutex, doing one thing and
giving it back. Both call the device library, which talks to the receiver, or
its simulator, over the UART. The simulator is a process of its own whose time tick and
UART callbacks run on two threads, and both may ask a data provider for a point.
Packets go back through the Software Bus; the ground scripts decide on the
counters of the housekeeping packet. The F' component and the checkout are two other
users of the device library, each with one thread.

What is hard about it:

- the two tasks interleave between any two locking functions: a value one of
  them has read (enabled or not, running or not) can be stale when it acts;
- not everything is under the mutex: opening and closing the port, and the
  transmission of both packets, are not; and `strtok_r` has one cursor for both tasks;
- every initialisation step, driver call and read can fail, some of them before
  the mutex exists, on which the reporting of the failure itself depends;
- errors of the child are debounced by a counter in an unsigned byte, and the counters the
  ground relies on wrap at one byte;
- the simulator takes no lock at all: not on its map of logs, its UART, or
  the place in its data file, and registers a callback before it has been built;
- a read takes everything that has arrived and looks at its first token only, so
  that sentences and answers hide each other; a flush drops what was there;
- the simulator's data moves on while a walk writes sentences of the point it has taken;
- positions and times go through texts with fixed digits, empty fields and floats;
- the ground's links lose and delay packets, while its scripts retry on counters.

What makes each part correct:

- application: no increment lost, one verdict for a message, `DeviceEnabled`
  true of the port, the mutex always given back, an error leads out of both
  tasks and to the exit status, only device commands reach the receiver;
- child: reads only while enabled up to one stale check, reports a silent
  receiver after the configured number of failures and no sooner, sends a
  packet that is one reading;
- device library: a parse is never disturbed by the other task's; readings go back in time
  by one late data point at most, and none is read after a command that waited on the port before
  it; what is parsed is what was sent, as far as digits and floats carry it;
- simulator: what it sends at a tick is logs that are set up, none of them twice;
- data provider: data that turns back only when calls overlap, and no end of the file
  before it is used up;
- ground scripts: a call that passes has had its command executed once, a confirmed
  switch is a fact, and every call ends;
- F' component: telemetry of one reading, each command answered once, in order;
- checkout: the end of the input repeats nothing that has numbers.

The hazards behind these, each with its line and the properties that cover it
or the reason none does, are in `PROJECT.json`.

## 2. The modules

| Module | What it is |
|---|---|
| `HkTelemetry` | the abstract housekeeping object: counters that go up by one or are all cleared, a flag that is switched, a run status that fails for good, each change one step |
| `CommandView` | what the application promises the ground scripts: the command counter goes up by one at a time, and the enable flag flips only with it |
| `NovatelApp` | both tasks, the mutex, the device library's control, the environment |
| `NovatelAppProperties` | type invariant, safety invariants, liveness, and the refinements of `HkTelemetry` and `CommandView` |
| `NovatelAppProofs` | theorems about the types, the mutex and what it protects, the port and the refinement |
| `NovatelAppControlProofs` | theorems that follow a task from one locking function to the next: the child's reads and reports, the exit status, what is written, the verdicts, the transmitted packet, the refinement of `CommandView` |
| `ReceiverLogs` | the abstract receiver: a set of logs that are on; those that are due at a tick are sent, each once. Which are due is left open |
| `OEM615Sim` | the simulated receiver: constructor, tick callback, read callback |
| `OEM615SimProperties` | its properties, and the refinement of `ReceiverLogs` |
| `OEM615SimProofs` | theorems of the simulator, and of its composition with the UART and the device library |
| `SimUartReader` | `OEM615Sim` composed with the UART and the device library at its other end |
| `SentenceCodec`, `SentenceCodecProofs` | the fields of BESTXYZA and GPGGA, written by the simulator and parsed by the device library, and its theorems |
| `GpsFileProvider`, `GpsFileProviderProofs` | the file data provider under two threads, and its theorems |
| `GroundScript`, `GroundScriptProofs` | `gps_lib.py` over links that lose and delay, and its theorems |
| `FprimeComponent`, `FprimeComponentProofs` | the F' component and its queue, and its theorems |
| `Checkout`, `CheckoutProofs` | the checkout's loop over its input, and its theorems |
| `MC...` | the constants of the runs |

Definitions with `Mutant` in their name belong to no specification: each is the
definition that follows it with a bug that is easy to make, kept to show which
property would catch it (`PROJECT.json`, "mutants").

### How `NovatelApp` corresponds to the code

`pc[t]` is where task `t` is in the functions that do not lock. When it calls a
locking function, `fn[t]` is its name, `at[t]` the point reached in it
(`take`, `body`, ..., `give`) and `pc[t]` already the place to return to; the
steps of the task's own code need `at[t] = "none"`. The functions are the same
for both tasks, so that `Take`, `LoadCounter`, `FirstToken` and the others have
the task as parameter.

- `x++` on a counter is `LoadCounter` then `StoreCounter`; `ResetCounters`
  stores all four in one step, since no one can see the counters in between (it
  holds the mutex, and the one reader that does not take it runs in the
  task that resets).
- `OS_MutSemTake` is `Take`, or `TakeFails` when the mutex was never created, in
  which case each function does what its `else` branch does: nothing, or return
  an error value.
- `CommandDevice` is cut where the port is touched: arguments refused
  (`CommandDeviceRefuses`), string built (`CommandDeviceBuilds`), flush and
  write (`CommandDeviceFlushes`). A message says only whether its arguments are
  ones the code knows (`argsOk`), and the string that is built is left out.
- A read is `BytesAvailable`, then `ShortRead` or `FirstToken`, then the steps
  of the parser. What the receiver sent is nondeterministic. `devPkt` keeps, for
  the position, the velocity and the geodetic position, whose reading it holds,
  or `"zero"`; the parsers first zero and then fill, in the order of the code.
- `OpenPort` and `ClosePort` are steps of the main task that do not lock, so
  the child can be anywhere, including between `BytesAvailable` and `FirstToken`.
- `NOVATEL_OEM615_Disable` is called for the command and on the way out of
  `AppMain`; `AfterDisable` tells the two apart by whether a message is being
  handled.
- `AppInit` is one action for each call that can fail, in order; the child exists
  as soon as it is created, so it runs before the counters are reset.
- `OS_TaskDelay`, performance logs, event texts and time stamps are left out.

Variables `done`, `verdict`, `wrote`, `fails` and `late` are history: no guard
reads them.

External behaviour, taken from how the code uses it: the Software Bus delivers
any message of `Messages` or an error; Executive Services may end the run loop
at any call and always does when `local_run` is not APP_RUN; every creation call
may fail; a failed `uart_init_port` leaves the port closed, a failed
`uart_close_port` leaves it open; a closed port has no bytes; an open one has
anything.

### How `OEM615Sim` corresponds to the code

A command is the sequence of its words, a sentence or an answer its kind and the number of
the data point it was made from.

- The constructor is eleven steps (`built`), one for each callback it registers,
  connection it opens and map entry it makes, in the order of the code: the tick callback
  runs from the first of them, the read callback from the third.
- `send_periodic_data` is `Tick` (the data point is taken), `WalkBegin` (the iterator is at the
  beginning), and for each log `WalkStep` (generate, write, clear) and `WalkNext` (`it++`). A log's
  period is in the map and not looked at, as in the code.
- The provider's point moves on in a step of its own (`Advance`), at any time, as it does with the socket
  and shared memory providers. That it does not go back is an assumption about who writes it;
  the order the file provider keeps is a question of `GpsFileProvider`.
- `uart_read_callback` is `UartRead` (the whole of `determine_response_for_request`,
  which takes a data point, changes the map and makes the answer) and `UartWrite`. The other thread can be
  anywhere in between.
- The map is a `std::map`: it is walked in the order of its keys (`Rank`), `insert`
  leaves what is there. A change during a walk is a data race (`raced`); after it
  the iterator may be at any log or at the end, or the process crashes
  (`WalkStepWild`, `WalkNextWild`, `WalkCrashes`). A LOG with three words reads a fourth that is not
  there: a log, a refusal or a crash (`LogWithoutTrigger`). A use of a UART connection
  that is not there yet stops the process (`nullUart`).
- `WithPort` is the code's insertion of a port into a command that has none.
- `Take` is the other end of the UART reading the oldest chunks.

`walkPoint` is the data point of the walk; `raced` and `out` (what the last walk has written, until a
race) are history, except that after a race the undefined behaviour begins.

### `SimUartReader`

The library at the other end of the UART is between two driver calls (`host`):
`CommandDevice` is `Flush` then `WritePort`; the two readers are `BytesAvailable` and
then `NothingToRead` or `ReadPort`. The application calls them under its mutex, so they
are one after the other; the simulator goes on in between. What is read is a number of chunks;
the first one's kind decides (`Parsed`: the child understands BESTXYZA and
GPGGA, `RequestData` only BESTXYZA), the rest of the read is dropped. An answer has no
comma, so what follows it in the same read belongs to its token.

`flushedAt` and `underWay` are history: the data point that was current at the last flush, and those the
simulator's two threads had in hand then (`InHand`).

### `SentenceCodec`

A sentence is the sequence of its fields. The simulator's side is what its formatting does
to a number: degrees and minutes (`DegreesMinutes`, truncated towards zero),
the digits printed (`Printed`, ties to even), the sign in a letter of its own
(`Letter`), the time in a `float` (`GpSec`: between 2^19 seconds and the end of the week a
float holds sixteenths of a second). The library's side is `strtok_r`:
`FullUpTo` counts the fields that are not empty,
`Cursor` says with it where n calls have left `saveptr`, `TokenAt` what the n-th token is, which is a
comma when the field is empty. `Decimal` turns ddmm.mmmm back. Numbers are integers in
half a printed digit, so that every rounding of the printing is exact. A `float` of the library
(the minutes, then the latitude, the longitude and the altitude) is any value within its last
bit (`Float`), whatever the rounding; doubles are exact. Positions and velocities are printed with
`setprecision(4)` on a stream that is not `std::fixed`: `Significant` keeps four digits.

### `GpsFileProvider`

`get_gps_data` is `Open` (open, seek to `_file_loc`), `TakeTime`, `ReadRecord` or
`ReadNothing` for each pass of the loop and `Return`. A stream that has met the end of
the file stays failed and `tellg` is -1 from then on, so that `fileLoc` is -1 and so is
every later seek. Record i is of time i. Two threads call it: the tick callback at each
tick and the UART callback for each command.

### `GroundScript`

`gps_cmd` is `Call` (the expected counter), `Send` (the command and the request for
housekeeping), a wait that ends with a packet or a time out, and `Check`: again, twice at
most, while the counter is not the expected one; then the last check, which raises or
passes. `enable_gps` and `disable_gps` go on with `ConfirmSwitch`, `safe_gps` is `SafeGps` and
`SafeCheck` before a DISABLE, `confirm_gps_data` is `ConfirmData` and `ConfirmCheck` (which may raise for
`DEVICE_ERR_COUNT`, a counter the model leaves out). The
application is what the ground can see of `NovatelApp`: a NOOP is accepted, an
ENABLE or DISABLE when it changes something (what `EnableRejected` and `DisableRejected`
are there). What is accepted counts (`AppCounts`); an accepted ENABLE or DISABLE also switches
(`AppSwitches`), or only counts when the UART driver fails. Both models of the application are
shown to implement `CommandView`, so that what is assumed here is what `NovatelApp` does. The links keep the order; either may lose its oldest packet at
any time (`LoseUp`, `LoseDown`) or hold it. `accepted`, `switched` and `stray` are history: the
copies accepted in this call, those that opened or closed the port, and whether housekeeping has come that no script asked
for, or a script was run after one that stopped half way.

### `FprimeComponent`

Every port and command of the component is async (`.fpp`): the rate groups and the
command dispatcher append to its queue, its one thread handles a message at a time
(`Dispatch` to the end of the handler). A read changes the data structure word by word
(`ParseWord`), the channels are written one by one (`WriteChannel`), a command is
answered at the end (`Finish`; `answers` is the history of the sequence numbers), with OK whatever happened (`Fail`). A value is the number of
the sentence it comes from. A full queue is an assertion of F' and not modelled.

### `Checkout`

The loop of `main`: `fgets` (`ReadLine`; `ReadNothing` once the input has ended, which the
loop does not notice), `Tokenize`, which cuts the line in the buffer itself so that
the buffer is its first token afterwards, and `process_command`. A line is its
first token and its numbers; `Int8` is the narrowing of `atoi`'s result. The
buffer is not initialised and holds any line at first.

## 3. What TLC checks

`tlc -config <module>_<run>.cfg <module>`.

| Run | Module | Bounds | Properties | States |
|---|---|---|---|---|
| `handlers` | `MCNovatelApp` | `CntMod` 1, `ErrMax` 2, 17 messages: everything a handler tells apart | `TypeOK`, `MutexDiscipline`, `OneVerdict`, `WritesAreCommanded`, `PortMatchesEnabled`, `ExitStatusWithMutex`, `CursorIsOwn`, `StaleReadAtMostOnce`, `ErrorsAreDebounced` | 576 000 |
| `counters` | `MCNovatelApp` | `CntMod` 2, `ErrMax` 0, 5 messages, none a request for data | `NoLostUpdate`, `TransmittedPacketWhole`, `ImplementsHkTelemetry`, `ImplementsCommandView` | 1 550 000 |
| `liveness` | `MCNovatelApp` | `CntMod` 1, `ErrMax` 1, 3 messages, `FairSpec` | `HandlingTerminates`, `ErrorStopsBothTasks`, `SilentDeviceIsReported` | 147 000 |
| `exit_status`, `torn_packet` | `MCNovatelApp` | | violated: see section 5 | |
| `sim` | `MCOEM615Sim` | all shapes of commands, one unread chunk before a tick or a command waits, data points 0 and 1 | `TypeOK`, `NullUartNeverUsed`, `ImplementsReceiverLogs` | 1 399 000 |
| `reader` | `MCSimUartReader` | `FairReaderSpec`, BESTXYZA and GPGGA on, one of two commands (one of them LOG ... ONCE) sent, two unread chunks, data points 0 to 2 | `OneOvertaken`, `FreshAfterCommand`, `ReceiverIsHeard` | 434 000 |
| `ground` | `MCGroundScript` | `FairSpec`, counters modulo 2, two calls of NOOP, ENABLE, `safe_gps` or `confirm_gps_data` | `TypeOK`, `PassedOnce`, `ConfirmedSwitchHolds`, `SwitchedAtMostOnce`, `CallsEnd` | 1 769 000 |
| `codec` | `MCSentenceCodec` | two printed digits to a minute; a float of 13 bits; angles around 0, 1, 2 and 90 degrees on each side; coordinates around ten thousand and at its edge; half milliseconds at the ends of the last two seconds of a week | `PositionSurvives`, `SolutionSurvives` | 16 000 |
| `file` | `MCGpsFileProvider` | `FairSpec`, two threads, seven records, time 1 to 4, five calls | `TypeOK`, `EndOnlyWhenUsedUp`, `AlwaysNewer`, `CallsReturn` | 58 000 |
| `fprime` | `MCFprimeComponent` | `FairSpec`, queue of three, two sentences, three commands | `TypeOK`, `TelemetryWhole`, `AnsweredInOrder`, `CommandsAnswered` | 177 000 |
| `checkout` | `MCCheckout` | eight words, five numbers | `EndRepeatsNoNumbers` | 57 000 |

Why the bounds are enough.

- `NovatelApp`: there are always the two tasks the code has. With
  `CntMod` 1 the counters stay at zero and drop out of the state: that is for the
  runs that do not ask about them, whose control does not depend on them. With `CntMod` 2
  a lost, doubled or uncleared increment shows. `CommandView` cannot tell up from
  down there; its theorem holds for every modulus. `ErrMax` 0, 1 and 2 give
  the count down no, one and two quiet failures before the report. The sets of messages keep, for
  each run, those that reach the variables its properties speak of; `handlers` has
  them all. The saturation points of the history variables (2 for `verdict` and `late`,
  `ErrMax + 2` for `fails`) are one more than any value the properties allow.
- `OEM615Sim`: `WireMax` bounds when a tick or a command may begin, not the length of the
  wire: a walk goes on to its end, so that with 1 there is a walk in front of an answer and
  an answer in front of a walk. Every command `CommandDevice` can build and every shape it cannot
  is in `AllRequests`.
- `SimUartReader`: `WireMax` 2 lets a walk begin behind the last sentence of another, with an answer
  between them; with three data points a sentence can have two older ones behind it, which is what
  `OneOvertaken` is about, and a command an older and a newer reading. The simulator has been built
  before the flight software starts (`ReaderInit`), with its default logs on but RANGECMPA, the one
  the child cannot parse. The commands of the run are a LOG for a log that is on, which is answered
  and changes nothing (the smallest input that puts an answer among the sentences), and the
  same log ONCE, which makes the second thread write a sentence. The theorems cover every set of
  commands and of logs, and any number of them.
- `GroundScript`: modulo 2 the counter wraps within one call's three copies; two calls are
  what it takes for a late copy of one to meet the other. DISABLE comes from `safe_gps`, by the
  same steps as from `disable_gps`. The theorems hold for
  any modulus and any number of calls.
- `SentenceCodec`: the roundings only depend on the last digit, on the parity of the one
  before and on the distance to the next minute, degree or second, so that a few
  units on each side of them are every case; four significant digits only on the digits, and a float on the
  part of the number that is its last bit: the run's floats are coarser than the code's, so that
  small numbers show them. The times are in the last part of the
  week, where the float is coarsest.
- `GpsFileProvider`: five calls up to time 4 meet the end of seven records when they
  come late, and leave some over when they do not.
- `FprimeComponent`: two sentences are enough to mix; a queue of three holds an update
  between two commands.
- `Checkout`: every branch of `get_command`, and numbers inside, outside and
  beyond eight bits. A line has at most two numbers here; a third would only make the
  counts of tokens differ.

Deadlock is checked except in `ground`, `file` and `checkout`: there the calls, the time or
the program are over in the end. In `NovatelApp` and `OEM615Sim` the only states without a
real step are those after the exit or the crash (`Terminated`, `Crashed`).

Fairness.

- `NovatelApp`: each task is weakly fair, as a scheduled task is. No
  fairness is asked of `ReceiveBuffer` (the main task pends for ever) or of
  `ReceiveBufferFails`. Taking the mutex is strongly fair for each task: the
  OSAL mutex queues its waiters, and the child sleeps 250 ms between two polls
  (`OS_TaskDelay`), a step the model leaves out, so that the main task is never
  passed over for ever. Nothing makes the driver succeed.
- `SimUartReader`: the simulator's threads are weakly fair; nothing makes the data move on. `Receive` is
  strongly fair: the bound `WireMax` and an answer not yet written disable it again and again, in
  the code it only waits for its turn. `BytesAvailable` is strongly fair and so is the
  child's `ReadPort`: the child polls for ever, while commands and requests for data come from the
  ground, at intervals of many polls, so they cannot always be there just before it. No command has to be sent.
- `GroundScript`: the script goes on and a wait is over after
  `NOVATEL_OEM615_RESPONSE_TIMEOUT`. Nothing is asked of the links or of the application.
- `GpsFileProvider`: a call that has begun runs on. Nobody has to begin one.
- `FprimeComponent`: its thread takes what is in its queue. Nobody has to put anything there.

## 4. What is proved

For every value of the constants that satisfies the assumption in the module that
declares them; `PROJECT.json` says of each theorem what it establishes.

| Module | Theorem | Property |
|---|---|---|
| `NovatelAppProofs` | `TypeCorrect` | `TypeOK` |
| | `MutexIsHeldInside` | `MutexDiscipline` |
| | `NoIncrementIsLost` | `NoLostUpdate` |
| | `CursorIsNeverStolen` | `CursorIsOwn` |
| | `AppImplementsHkTelemetry` | `ImplementsHkTelemetry` |
| | `EnabledTellsThePort` | `PortMatchesEnabled` |
| `NovatelAppControlProofs` | `ReportsAreDebounced` | `ErrorsAreDebounced` |
| | `StaleReadsAreBounded` | `StaleReadAtMostOnce` |
| | `ErrorsReachTheExit` | `ExitStatusWithMutex` |
| | `OnlyCommandsAreWritten` | `WritesAreCommanded` |
| | `VerdictsAreRight` | `OneVerdict` |
| | `AppKeepsTheView` | `ImplementsCommandView` |
| | `PacketsTearInAParseOnly` | `TornOnlyInsideAParse` |
| | `OneReaderSendsWhole`, if no message is a request for data | `TransmittedPacketWhole` |
| `OEM615SimProofs` | `TypeCorrect` | `TypeOK` |
| | `UartIsThere` | `NullUartNeverUsed` |
| | `WalkIsValid` | `IteratorValid` |
| | `SimImplementsReceiverLogs` | `ImplementsReceiverLogs` |
| | `PromiseKeptUnderLoad` | each step of the composition is one of `ReceiverLogs` |
| | `AtMostOneIsLate` | `OneOvertaken` |
| | `ReadingsAreFresh` | `FreshAfterCommand` |
| `SentenceCodecProofs` | `PositionIsKept` | `PositionSurvives` |
| | `SolutionIsKept` | `SolutionSurvives` |
| `GroundScriptProofs` | `TypeCorrect` | `TypeOK` |
| | `SwitchesOnce` | `SwitchedAtMostOnce` |
| | `PassesOnce` | `PassedOnce` |
| | `SwitchHolds` | `ConfirmedSwitchHolds` |
| | `ScriptsSeeTheView` | `ApplicationAsPromised` |
| `GpsFileProviderProofs` | `TypeCorrect` | `TypeOK` |
| | `EndOnlyWhenFileUsedUp` | `EndOnlyWhenUsedUp` |
| | `NewerUnlessOverlapped` | `AlwaysNewer` |
| `FprimeComponentProofs` | `TypeCorrect` | `TypeOK` |
| | `TelemetryIsWhole` | `TelemetryWhole` |
| | `AnswersInOrder` | `AnsweredInOrder` |
| `CheckoutProofs` | `TypeCorrect` | `TypeOK` |
| | `EndRepeatsOnlyUnlogAll` | `EndRepeatsNoNumbers` |

### The application

Most of the forty-odd steps of the tasks' own code change nothing
the locking functions rely on. `ControlShape` says what they have in common (the task
was between two calls, and either stays so or is about to take the mutex;
mutex, counters, flag and run status unchanged except where named), and `StepKinds` that
every step of `Next` is either one of the locking functions' actions or of that
shape; each invariant is then proved against the locking functions one by one
and against the shape once.

- `LockInv` is inductive: a task that is inside a function owns the mutex, and
  the point it has reached fits the function it is in. `MutexDiscipline` alone is not
  inductive, since nothing in it ties `at` to `fn`.
- `CountInv` adds what the loaded value is: a task between its load and its store
  holds in `reg` the value the counter still has. This is where mutual exclusion
  is used: the other task can be neither storing nor resetting.
- `CursorIsOwn` follows because only a task inside a read sets `saveptr`.
- `AbsentInv` ties the missing mutex to the initialisation, during which the
  child does not exist: needed so that a step that fails to take a mutex cannot
  be one that the port's invariant counts on.
- `PortInv` records what the main task knows while it is in `Enable` or
  `Disable`: the answer of `GetDeviceEnabledStatus` is still true when the port
  is opened or closed, for no one else changes the flag.
- The refinement maps `count`, `enabled` and `runStatus` to themselves: a store is
  a `Bump`, by `CountInv`; a reset, a flag or a run status that is set to what it
  was is a stutter; everything else leaves the three alone.

- `DebounceInv`: `fails + errMax = ErrMax` wherever the child is, except between the
  outcome of a read and the rearming. It is what makes the report come at the
  `ErrMax + 1`-th failure and keeps the unsigned count from being taken below zero.
- `StaleInv`: the main task is never stale, because it is the one that switches the
  flag; the child can be from the moment it is told "enabled" until it has
  looked for bytes, and in that window `late` is still 0. So the second
  read after a disable would need a second answer, which the mutex makes a true one.
- `ExitInv`: once the mutex exists, `local_run` is the error only if `RunStatus` is or
  `SetRunStatus` is about to make it so, and nothing sets it back.
- `WriteInv` carries the command from its dispatch to the flush: the message the
  locked function looks at is the one that was dispatched, with arguments it knows.
- `VerdictInv` says at each label of the handlers which verdict is due, counting the
  increment under way (`Due`): it is needed because the handler goes on at its
  next label as soon as it calls the increment, before the counter has moved.
- `ParseInv`: position and velocity are of one reading unless a task is between the two
  stores of a parse, and then the position is that task's. The mutex keeps the parses
  apart, which is what makes this inductive. So a torn packet can only be sent while the other
  task is at that one point (`PacketsTearInAParseOnly`); the run `torn_packet` shows that it is.
- `OneReaderInv`: without a request for data the main task is never at a label of
  `ReportDeviceTelemetry` and in neither reader, so that the child's parse is the only
  one, and it is over when the child transmits.
- `ViewInv`: what the main task was told about the enable flag is still true at each label
  of `Enable` and `Disable` up to `SetDeviceEnabledStatus`, and only the main task counts
  commands. The refinement of `CommandView` maps the counter to its value before the
  increment while a switch is under way (`SwitchPending`): the increment is then a
  stutter, `SetDeviceEnabledStatus` is the `Switch` that moves both, and the label behind a
  driver call that failed is an `Accept`. Any other increment is an `Accept` at once.

### The simulator and its reader

- `UartInv`: before there is a UART connection no log is on, so that a tick has nothing to
  walk. That is all that stands between line 85 and a null pointer.
- `WalkInv`: without a race, the iterator is at a log that is on and what the walk has written are
  logs before it, and the one it is at if that is done. The refinement maps `on` to the keys of
  the map, `due` to those the walk has still to write (`ToWrite`), `sent` to `out`, and all of them to
  nothing after a race: a `WalkBegin` is the tick, a `WalkStep` sends a log that is due, and a
  `WalkNext` leaves what is due as it was, since the iterator goes to the nearest log behind it.
- `PointSteps` says that a data point comes on the wire in two ways only, by a walk and by an answer, and
  that both take the current one.
- `OneLate`: of all that comes after a sentence or may still come without a new data point (`Pending`: a
  walk's and an answer's), what is older is of one data point. It is inductive because what comes
  is one of two, so that only the other can be older than it (`LateAppend`), a data point that is taken is older
  than nothing (`LateNewer`), and taking chunks keeps the order (`LateTake`).
- `FreshInv`: what is on the wire, in a walk or in an answer is no older than the last flush or was in hand
  then. The flush establishes it, since it leaves the wire empty.
- `ReaderInv`: the two, and that the host's steps are steps of the simulator's environment
  (`HostIsEnvironment`: a flush takes all the chunks), so that the invariants
  above carry over.

- `PromiseKeptUnderLoad`: the same lemma makes each step of the composition one of the
  simulator's, and so one `ReceiverLogs` allows. (Its initial states are later ones: the
  simulator has its default logs by then.)

### The sentences

- `TokenIsField`: in front of the first empty field the n-th token is the n-th field,
  because the non-empty fields up to n are counted by n (`FullUpTo`, a cardinality). Both parsers
  count only to fields in front of the empty ones; nothing about `strtok_r` is left after that.
- `DegreesAndRest`, `Quotient` and `PrintedDigit`: a whole number of degrees times 100 and the
  minutes of the rest are taken apart again by an integer division, unless the printed minutes have
  been rounded up to 60; then the library reads 60 minutes of the same degree, which is the
  next degree. Either way the angle is kept to one unit, for every size of the unit.
- `FloatError`: two floats in a row are off by their last bits, and the larger number has the larger
  one (`QuotientGrows`); `AngleError` and `AltitudeError` are the sum.
- `FourDigits`: the fourth digit of a number is at most a thousandth of it, and printing rounds to half of
  that (`PrintedHalf`, `TwoThousandth`).
- `TimeIsKept`: 62 units of rounding to the float and one of printing. The data points of
  the constants are in the last part of the week (`LateInWeek`), where a float
  holds sixteenths of a second; it is finer before, by steps that do not fit the unit.
- `CodecInv`: a sentence that waits for the parser is the one of the data point, of the kind that
  was asked for.

### The ground scripts

- `CopiesInv` is about the uplink: packets of earlier calls come before those of this
  one, which are copies of its command and requests. So once a copy of an ENABLE has
  switched only copies follow, and the application refuses them; before that, copies that are accepted
  and fail may go by.
- `ScriptsSeeTheView`: an accepted command moves the counter by one, and switches the flag to what
  it was not (`Accepts`) or leaves it.
- `LinksInv` and `CountInv` hold while nothing stray has come: what can be on the two links at
  each place of the script, and that the ground has seen the application's counter
  wherever it is not waiting; so the counter is the expected one exactly when one copy was
  accepted, and a packet that is lost stops the script. The case of an expected count of 0 is left out of
  `PassedOnce`: the last check is then empty (section 5). `ConfirmedSwitchHolds`
  has no such exception, thanks to the second check.

### The data file, the F' component, the checkout

- `UsedUpInv`: every call under way is at most one record beyond its own time and the calls
  before it, wherever the threads have put the place back.
- `AloneInv`: until two calls overlap there is one call under way at most, and
  the place in the file is after every record that was returned.
- `WholeInv`: at each point of a read and of a pass over the channels, which words are
  already those of the sentence, and that the two never overlap, which is what the one
  thread gives.
- `OrderInv` of the F' component: the queue holds exactly the commands after the one in hand, each once,
  and `answers` those before it.
- `CutLine`: once a line has been typed, the buffer has numbers only between `fgets` and
  `strtok`, and at the end of the input there is no `fgets` any more.

### What is only model-checked

All safety and refinement properties of the passing runs have a theorem; `TransmittedPacketWhole` has
its under the assumption the run `counters` makes of the messages. That leaves:

- liveness under fairness, which the prover used does not reach: `HandlingTerminates`,
  `ErrorStopsBothTasks`, `SilentDeviceIsReported`, `ReceiverIsHeard`, `CallsEnd`,
  `CallsReturn`, `CommandsAnswered`.

## 5. Where the code and its documents disagree

Shown by a run:

- `exit_status`: `coveragetest_novatel_oem615_app.c:186` asserts that after a failed
  initialisation the run status is APP_ERROR. If the failure comes before the
  mutex is created, `SetRunStatus` cannot lock, the status stays APP_RUN, and
  `CFE_ES_ExitApp` is called with it. (Where the mutex exists the claim holds:
  `ExitStatusWithMutex`.)
- `torn_packet`: `novatel_oem615_app.h:63` says the mutex "Locks all data"; the device packet is
  transmitted outside it by both tasks, and can be half the other's. (With one
  reader it is whole: run `counters`, theorem `OneReaderSendsWhole`.)

Met in reading; the models do what the code does:

- The device commands write to the UART while the device is disabled
  (`novatel_oem615_app.c:351`), although `novatel_oem615_device_test.py:19` says that enable and
  disable "control hardware communications".
- A periodic log is sent at every tick (`gps_sim_hardware_model_OEM615.cpp:283`), although the
  map's comment (`gps_sim_hardware_model_OEM615.hpp:91`) has a "period (seconds) to call function" and
  the repository's `README.md:32-34` lists periods. No property takes a side: which logs are due at a
  tick is open in `ReceiverLogs`.
- The example at `gps_sim_hardware_model_OEM615.cpp:698-699` has positions with ten digits
  ("-1634531.5683"); the stream is set to four (line 706) and only the header's own stream is
  `std::fixed` (line 513), so that the same position comes out as "-1.635e+06".
- The repository's `README.md:32-34` gives ONCE as a period option of ONTIME; the simulator
  refuses it there (`gps_sim_hardware_model_OEM615.cpp:199`).
- "search uart data for token" (`novatel_oem615_device.c:275`): only the first token is looked at (line 286).
- `gps_cmd` expects 0 after 255, and its last check is `CMD_COUNT >= 0` then
  (`gps_lib.py:53`): such a call passes although its command was never accepted. Line 87
  compares `DEVICE_COUNT` the same way across the wrap, and fails for no reason.
- The high digit of each pair is shifted out of its byte (`gps_sim_hardware_model_OEM615.cpp:342`),
  where the comment at line 327 says "00-FF".
- The seconds into the week go through a float (`gps_sim_hardware_model_OEM615.cpp:499`): at
  the end of a week they can come out as 604800, which is no second "into the
  Week" (`NOVATEL_OEM615_TLM.txt:24`).
- "Non-mutating public worker methods" (`gps_sim_data_file_provider.cpp:53`): `get_data_point`
  moves the place in the file (line 107), which two threads share.
- The checkout's help lists `unlog_all` (`novatel_oem615_checkout.c:38`); the name it compares
  with has a blank (line 92), which no token has. `ua` works.

## 6. What is not modelled

- The contents of the binary and range logs, checksums and headers: nothing in
  the repository parses them.
- The shared memory and 42 socket providers, which copy what programs outside the
  repository write; and `GPSSimDataPoint`, of which only that a data point has one
  position, velocity and time is used. Its lazy parse calls itself for ever when the
  strings do not parse (`gps_sim_data_point.cpp:120`), which no writer in the repository
  makes happen.
- Heap use: a successful read never frees its buffer (`novatel_oem615_device.c:262`), nor a
  command whose flush fails its own.
- Event texts, performance logs, time stamps and `OS_TaskDelay`.
- `gps_lib.rb` and the test procedures, which call the functions `GroundScript` models; the
  ground's commands to the simulator's bridge, which have no state.
- Unit tests, packet databases, build files, and configuration, event and version
  headers, which have no behaviour.

Simplifications. The unlocked transmission of the housekeeping packet is one step: each
counter is a byte and the only operation that changes several runs in the task that
transmits. Double arithmetic is exact. The data file ends in a newline: without one
the stream has failed with its last record. In `GroundScript` the application handles a command in one step, which is what
`AppKeepsTheView` and `VerdictsAreRight` say of the counter and the flag it shows to who looks between
commands; housekeeping that is sent while a command is handled cannot exist, since one task does
both.

## 7. Order of the work, and what is left

The modules were written in the order of the table in section 2, the application
first: it carries the concurrency that flies. Left for later:

1. `GroundScript` and `NovatelApp` meet in `CommandView`, which has the command counter and the flag.
   The device counter, which moves a step after the command's and also by the child's reads,
   and which command it is that the flag follows, are still stated on each side.
2. The UART as bytes instead of chunks: a read that begins in the middle of a sentence,
   which the driver outside the repository decides.
3. The time of a BESTXYZA sentence in the earlier part of the week, in a unit that
   every exponent of the float divides.

## Running it

    tlc -workers 2 -config MCNovatelApp_handlers.cfg MCNovatelApp
    tlc -workers 2 -config MCOEM615Sim_sim.cfg MCOEM615Sim
    tlc -workers 2 -config MCSimUartReader_reader.cfg MCSimUartReader
    tlapm NovatelAppProofs.tla
    tlapm NovatelAppControlProofs.tla
    tlapm OEM615SimProofs.tla
    tlapm SentenceCodecProofs.tla

and likewise for the other configurations (`MC<module>_<run>.cfg`) and proof modules.
