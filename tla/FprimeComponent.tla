--------------------------- MODULE FprimeComponent ---------------------------
(***************************************************************************)
(* The F' component (fsw/fprime/novatel_src/novatel_oem615.cpp, .hpp, .fpp).     *)
(* All its inputs are async: a rate group or the command dispatcher puts them    *)
(* in the component's queue, and the component's one thread handles them in      *)
(* their order.  The handlers call the device library (a read changes the data    *)
(* structure word by word), write the telemetry channels one by one, and answer   *)
(* commands.                                                                 *)
(*                                                                         *)
(* Two words stand for the data of each kind of sentence: "x" and "v" of         *)
(* BESTXYZA, "lat" and "lon" of GPGGA.  A value is the number of its sentence.     *)
(***************************************************************************)
EXTENDS Integers, Sequences, SequencesExt

CONSTANTS
    QueueMax,   \* bound: calls that find the queue full are not modelled (F' asserts)
    ReadMax,    \* bound on the sentences read
    CommandMax  \* bound on the commands

ASSUME FprimeConstantsAssumption == QueueMax \in Nat /\ ReadMax \in Nat /\ CommandMax \in Nat

Kinds == {"BESTXYZA", "GPGGA"}
Words == {"x", "v", "lat", "lon"}
WordsOf == [BESTXYZA |-> <<"x", "v">>, GPGGA |-> <<"lat", "lon">>]
Channels == <<"x", "v", "lat", "lon">>

DeviceCommands == {"SERIAL_CONFIG", "LOG", "UNLOG", "UNLOG_ALL"}
Commands == DeviceCommands \cup {"REQUEST_DATA"}
Ports == {"updateData", "updateTlm"}

VARIABLES
    port,       \* whether uart_init_port succeeded
    queue,      \* the component's queue
    handling,   \* the message in hand, or Nothing
    todo,       \* words the read has still to write
    channels,   \* channels the handler has still to write
    data,       \* Novatel_oem615Data
    tlm,        \* the channels as the ground sees them
    gps,        \* the last call of GPSout
    reads,      \* sentences read
    commands,   \* commands sent
    answers     \* history: the cmdSeq of each cmdResponse_out, in their order

vars == <<port, queue, handling, todo, channels, data, tlm, gps, reads, commands, answers>>

Nothing == [name |-> "nothing", seq |-> 0]
None == [w \in Words |-> 0]

\* The constructor: a port that does not open is reported, no more.
Init ==
    /\ port \in {"open", "failed"}
    /\ queue = <<>>
    /\ handling = Nothing
    /\ todo = <<>>
    /\ channels = <<>>
    /\ data = None
    /\ tlm = None
    /\ gps = None
    /\ reads = 0
    /\ commands = 0
    /\ answers = <<>>

-----------------------------------------------------------------------------
(* The other components. *)

RateGroup(p) ==
    /\ Len(queue) < QueueMax
    /\ queue' = Append(queue, [name |-> p, seq |-> 0])
    /\ UNCHANGED <<port, handling, todo, channels, data, tlm, gps, reads, commands, answers>>

SendCommand(c) ==
    /\ Len(queue) < QueueMax
    /\ commands < CommandMax
    /\ commands' = commands + 1
    /\ queue' = Append(queue, [name |-> c, seq |-> commands'])
    /\ UNCHANGED <<port, handling, todo, channels, data, tlm, gps, reads, answers>>

-----------------------------------------------------------------------------
(* The component's thread. *)

Is(names) == handling.name \in names
Idle == todo = <<>> /\ channels = <<>>

\* Mutant: updateTlm does not wait for the handler before it (a sync port).
DispatchMutantSyncTlm ==
    /\ queue # <<>>
    /\ handling = Nothing \/ (Head(queue).name = "updateTlm" /\ channels = <<>>)
    /\ handling' = IF handling = Nothing THEN Head(queue) ELSE handling
    /\ queue' = Tail(queue)
    /\ channels' = IF Head(queue).name = "updateTlm" THEN Channels ELSE <<>>
    /\ UNCHANGED <<port, todo, data, tlm, gps, reads, commands, answers>>

\* updateTlm_handler begins with its first channel; the others with the device.
Dispatch ==
    /\ handling = Nothing /\ queue # <<>>
    /\ handling' = Head(queue)
    /\ queue' = Tail(queue)
    /\ channels' = IF handling'.name = "updateTlm" THEN Channels ELSE <<>>
    /\ UNCHANGED <<port, todo, data, tlm, gps, reads, commands, answers>>

\* NOVATEL_OEM615_ChildProcessReadData finds a sentence of one kind.
ReadSucceeds(k) ==
    /\ Is({"updateData", "REQUEST_DATA"}) /\ Idle
    /\ port = "open"
    /\ reads < ReadMax
    /\ reads' = reads + 1
    /\ todo' = WordsOf[k]
    /\ UNCHANGED <<port, queue, handling, channels, data, tlm, gps, commands, answers>>

ParseWord ==
    /\ todo # <<>>
    /\ data' = [data EXCEPT ![Head(todo)] = reads]
    /\ todo' = Tail(todo)
    /\ channels' = IF Len(todo) = 1 /\ Is({"REQUEST_DATA"}) THEN Channels ELSE channels
    /\ IF Len(todo) = 1 /\ Is({"updateData"})
       THEN gps' = data' /\ handling' = Nothing
       ELSE UNCHANGED <<gps, handling>>
    /\ UNCHANGED <<port, queue, tlm, reads, commands, answers>>

\* Mutant: the answer carries the number of the next command.
FinishMutantNext ==
    /\ handling' = Nothing
    /\ answers' = IF Is(Commands) THEN Append(answers, handling.seq + 1) ELSE answers

\* Mutant: a path of the handler answers, and so does its end.
FinishMutantTwice ==
    /\ handling' = Nothing
    /\ answers' = IF Is(Commands) THEN answers \o <<handling.seq, handling.seq>> ELSE answers

\* The end of a handler; a command is answered, and always with OK.
Finish ==
    /\ handling' = Nothing
    /\ answers' = IF Is(Commands) THEN Append(answers, handling.seq) ELSE answers

\* Mutant: a command that fails is not answered.
FailMutantSilent ==
    /\ Is(Commands \cup {"updateData"}) /\ Idle
    /\ handling' = Nothing
    /\ UNCHANGED <<port, queue, todo, channels, data, tlm, gps, reads, commands, answers>>

\* Nothing to read, or the device command is refused: a failed event at most.
Fail ==
    /\ Is(Commands \cup {"updateData"}) /\ Idle
    /\ Finish
    /\ UNCHANGED <<port, queue, todo, channels, data, tlm, gps, reads, commands>>

\* The device command is written; its event says so, its answer is that of Fail.
CommandDevice ==
    /\ Is(DeviceCommands)
    /\ port = "open"
    /\ Finish
    /\ UNCHANGED <<port, queue, todo, channels, data, tlm, gps, reads, commands>>

WriteChannel ==
    /\ channels # <<>>
    /\ tlm' = [tlm EXCEPT ![Head(channels)] = data[Head(channels)]]
    /\ channels' = Tail(channels)
    /\ IF Len(channels) = 1 THEN Finish ELSE UNCHANGED <<handling, answers>>
    /\ UNCHANGED <<port, queue, todo, data, gps, reads, commands>>

Thread ==
    \/ Dispatch
    \/ \E k \in Kinds : ReadSucceeds(k)
    \/ ParseWord \/ Fail \/ CommandDevice \/ WriteChannel

Next ==
    \/ \E p \in Ports : RateGroup(p)
    \/ \E c \in Commands : SendCommand(c)
    \/ Thread

Spec == Init /\ [][Next]_vars
FairSpec == Spec /\ WF_vars(Thread)

-----------------------------------------------------------------------------
(* Properties. *)

Message == [name : Commands \cup Ports \cup {"nothing"}, seq : 0..CommandMax]

\* Every variable stays in its domain.
TypeOK ==
    /\ port \in {"open", "failed"}
    /\ queue \in Seq(Message)
    /\ handling \in Message
    /\ todo \in Seq(Words)
    /\ channels \in Seq(Words)
    /\ data \in [Words -> 0..ReadMax]
    /\ tlm \in [Words -> 0..ReadMax]
    /\ gps \in [Words -> 0..ReadMax]
    /\ reads \in 0..ReadMax
    /\ commands \in 0..CommandMax
    /\ answers \in Seq(0..CommandMax)

Whole(d) == d["x"] = d["v"] /\ d["lat"] = d["lon"]

\* Between two handlers the channels are those of whole sentences, and so is, at all
\* times, what GPSout sends: the component, unlike the cFS application, has no other
\* thread between a parse and its telemetry.
TelemetryWhole == Whole(gps) /\ (handling = Nothing => Whole(tlm))

\* Each command is answered once, in the order they were sent: every answer is for the
\* command after the last one answered, and a second answer to the same one is an answer
\* too many.
AnsweredInOrder == [][answers' # answers => answers' = Append(answers, Len(answers) + 1)]_vars

\* Every command is answered in the end.
CommandsAnswered == \A n \in 1..CommandMax : commands >= n ~> Len(answers) >= n
=============================================================================
