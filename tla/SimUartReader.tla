--------------------------- MODULE SimUartReader ----------------------------
(***************************************************************************)
(* The simulated receiver, the UART, and the device library at its other     *)
(* end: CommandDevice flushes what has arrived and writes a command;          *)
(* RequestData and ChildProcessReadData ask how much there is, read it and    *)
(* look at its first token.  The application calls them under its mutex, one   *)
(* at a time; the simulator goes on between any two of their driver calls.    *)
(***************************************************************************)
EXTENDS OEM615Sim

CONSTANTS
    LogsOn,    \* what can be on when the flight software starts: a set of sets of logs
    CmdMax     \* bound: the commands that are sent

ASSUME ReaderConstantsAssumption ==
    /\ LogsOn \subseteq SUBSET LogTypes
    /\ CmdMax \in Nat

VARIABLES
    host,        \* where the library is: "idle", "flushed" or "available"
    command,     \* the command under way
    toSim,       \* written to the simulator and not yet seen by it
    available,   \* what uart_bytes_available said, in chunks
    outcome,     \* of the last read
    last,        \* the reading the last successful read parsed
    sent,        \* how many commands were sent
    flushedAt,   \* history: the data point that was current at the last flush
    underWay     \* history: the data points the simulator had in hand then

hostVars == <<host, command, toSim, available, outcome, last, sent, flushedAt, underWay>>
allVars == <<vars, hostVars>>

Outcomes == {"none", "empty", "failed", "reading"}

\* The token each caller of the library looks for.
Parsed == [ChildProcessReadData |-> {"BESTXYZA", "GPGGA"}, RequestData |-> {"BESTXYZA"}]

HostInit ==
    /\ host = "idle"
    /\ command = <<>>
    /\ toSim = <<>>
    /\ available = 0
    /\ outcome = "none"
    /\ last = [kind |-> "none", point |-> 0]
    /\ sent = 0
    /\ flushedAt = 0
    /\ underWay = {}

-----------------------------------------------------------------------------
(* CommandDevice. *)

\* The data points of the sentences the simulator's two threads have still to write.
InHand == (IF walk = "idle" THEN {} ELSE {walkPoint})
            \cup {answer[i].point : i \in {j \in 1..Len(answer) : IsSentence(answer[j])}}

\* Mutant: the flush forgotten.
FlushMutantNone(words) ==
    /\ host = "idle"
    /\ sent < CmdMax
    /\ host' = "flushed"
    /\ command' = words
    /\ sent' = sent + 1
    /\ flushedAt' = now
    /\ underWay' = InHand
    /\ UNCHANGED <<vars, toSim, available, outcome, last>>

\* What has arrived and was not read is dropped.
Flush(words) ==
    /\ host = "idle"
    /\ sent < CmdMax
    /\ host' = "flushed"
    /\ command' = words
    /\ sent' = sent + 1
    /\ flushedAt' = now
    /\ underWay' = InHand
    /\ wire' = <<>>
    /\ UNCHANGED <<built, periodicLogs, walk, walkPoint, written, answer, now, fault, raced, out>>
    /\ UNCHANGED <<toSim, available, outcome, last>>

WritePort ==
    /\ host = "flushed"
    /\ toSim' = Append(toSim, command)
    /\ host' = "idle"
    /\ command' = <<>>
    /\ UNCHANGED <<vars, available, outcome, last, sent, flushedAt, underWay>>

-----------------------------------------------------------------------------
(* RequestData and ChildProcessReadData. *)

BytesAvailable ==
    /\ host = "idle"
    /\ available' = Len(wire)
    /\ host' = "available"
    /\ UNCHANGED <<vars, command, toSim, outcome, last, sent, flushedAt, underWay>>

NothingToRead ==
    /\ host = "available"
    /\ available = 0
    /\ host' = "idle"
    /\ outcome' = "empty"
    /\ UNCHANGED <<vars, command, toSim, available, last, sent, flushedAt, underWay>>

\* Mutant: data that is not understood is left on the port.
ReadPortMutantLeaves(reader) ==
    /\ host = "available"
    /\ available > 0
    /\ IF Head(wire).kind \in Parsed[reader]
       THEN Take(available) /\ outcome' = "reading" /\ last' = Head(wire)
       ELSE /\ UNCHANGED <<vars, last>>
            /\ outcome' = "failed"
    /\ host' = "idle"
    /\ UNCHANGED <<command, toSim, available, sent, flushedAt, underWay>>

\* All of it is read, and parsed if it starts with the right token: an answer has
\* no comma, and what follows it in the same read belongs to its token.
ReadPort(reader) ==
    /\ host = "available"
    /\ available > 0
    /\ Take(available)
    /\ IF Head(wire).kind \in Parsed[reader]
       THEN outcome' = "reading" /\ last' = Head(wire)
       ELSE outcome' = "failed" /\ UNCHANGED last
    /\ host' = "idle"
    /\ UNCHANGED <<command, toSim, available, sent, flushedAt, underWay>>

-----------------------------------------------------------------------------
(* The simulator's side. *)

Receive ==
    /\ toSim # <<>>
    /\ UartRead(Head(toSim))
    /\ toSim' = Tail(toSim)
    /\ UNCHANGED <<host, command, available, outcome, last, sent, flushedAt, underWay>>

SimulatorStep == SimStep /\ UNCHANGED hostVars

\* The simulator has been started before the flight software: the logs the constructor
\* puts on, or what earlier commands have made of them, are on.
ReaderInit ==
    /\ HostInit
    /\ built = ConstructorSteps
    /\ \E logs \in LogsOn : periodicLogs = [l \in logs |-> "1"]
    /\ walk = "idle"
    /\ walkPoint = 0
    /\ written = FALSE
    /\ answer = <<>>
    /\ wire = <<>>
    /\ now = 0
    /\ fault = "none"
    /\ raced = FALSE
    /\ out = <<>>

ReaderNext ==
    \/ SimulatorStep
    \/ Receive
    \/ \E words \in Requests : Flush(words)
    \/ WritePort
    \/ BytesAvailable
    \/ NothingToRead
    \/ \E reader \in DOMAIN Parsed : ReadPort(reader)

ReaderSpec == ReaderInit /\ [][ReaderNext]_allVars

\* Each thread of the simulator goes on, and the child polls for ever (it is the
\* reader the liveness properties are about); nobody has to send a command.
ReaderFairness ==
    /\ WF_allVars(Tick /\ UNCHANGED hostVars)
    /\ WF_allVars((WalkBegin \/ WalkStep \/ WalkNext \/ WalkStepWild \/ WalkNextWild) /\ UNCHANGED hostVars)
    /\ WF_allVars(UartWrite /\ UNCHANGED hostVars)
    /\ SF_allVars(Receive)
    /\ WF_allVars(WritePort)
    /\ SF_allVars(BytesAvailable)
    /\ WF_allVars(NothingToRead)
    /\ SF_allVars(ReadPort("ChildProcessReadData"))

FairReaderSpec == ReaderSpec /\ ReaderFairness

-----------------------------------------------------------------------------
(* Properties. *)

\* What the library has read last and what waits for it.
Stream == <<last>> \o wire

\* c is of an older data point than d.
Older(c, d) == IsSentence(c) /\ IsSentence(d) /\ c.point < d.point

\* The two threads that write take their data points apart from their writes, so that a
\* sentence can be overtaken by a newer one: a walk by LOG ... ONCE, the answer to it by a
\* walk.  But never by more than that: what comes after a sentence and is older is all of one
\* data point.  A reading can go back in time once, not again and again.
OneOvertaken ==
    \A i, j, k \in 1..Len(Stream) :
        i < j /\ i < k /\ Older(Stream[j], Stream[i]) /\ Older(Stream[k], Stream[i])
            => Stream[j].point = Stream[k].point

\* Because of the flush (device.c:150), a reading that is parsed after a command was
\* sent is no older than the command, or of a data point the simulator had in hand at
\* that moment, for a walk or an answer: whatever was waiting on the port cannot pass
\* for an answer.
FreshAfterCommand ==
    [][outcome' = "reading" /\ host = "available" /\ host' = "idle"
          => last'.point >= flushedAt \/ last'.point \in underWay]_allVars

\* Answers and unreadable logs hide other logs behind them for one read only: when
\* in the end nothing is on but logs the child parses, it hears the receiver
\* again and again.
ReceiverIsHeard ==
    <>[](On # {} /\ On \subseteq {"BESTXYZA", "GPGGA"} /\ ~raced)
        => []<>(outcome = "reading")
=============================================================================
