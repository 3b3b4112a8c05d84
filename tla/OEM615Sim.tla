----------------------------- MODULE OEM615Sim ------------------------------
(***************************************************************************)
(* The simulated receiver (sim/src/gps_sim_hardware_model_OEM615.cpp): a    *)
(* constructor that makes its callbacks known one by one, a time tick       *)
(* callback that walks the map of periodic logs and writes each of them, and *)
(* a UART read callback that answers commands and changes the map.  The     *)
(* three run on threads of their own and no lock is taken.  The data        *)
(* provider's point moves on by itself, during a walk too.                   *)
(*                                                                         *)
(* A command is the sequence of its words; a sentence or an answer is its    *)
(* kind and the number of the data point it was made from.                   *)
(***************************************************************************)
EXTENDS Naturals, Sequences

CONSTANTS
    Requests,    \* the commands the flight software may write
    WireMax,     \* bound: no tick and no command while this many chunks are unread
    NowMax       \* bound: the data points; their time does not go back

ASSUME SimConstantsAssumption ==
    /\ WireMax \in Nat
    /\ NowMax \in Nat
    /\ \A words \in Requests : words \in Seq(STRING) /\ words # <<>>

\* The logs the simulator knows, and the order in which a std::map is walked.
Rank == [BESTXYZA |-> 1, BESTXYZB |-> 2, GPGGA |-> 3, RANGECMPA |-> 4, RANGECMPB |-> 5]
LogTypes == {"BESTXYZA", "BESTXYZB", "GPGGA", "RANGECMPA", "RANGECMPB"}

\* The order in which the constructor fills its two maps.
GeneratorOrder == <<"BESTXYZA", "GPGGA", "RANGECMPA", "BESTXYZB", "RANGECMPB">>
DefaultOrder == <<"RANGECMPA", "BESTXYZA", "GPGGA">>

\* The periods is_valid_period accepts: five fractions and every whole second.
ValidPeriods == {"0.05", "0.1", "0.2", "0.25", "0.5", "1", "2"}

Answers == {"OK", "EXISTS", "RATE", "INVALID", "ASCII"}
Chunks == [kind : LogTypes \cup Answers, point : 0..NowMax]

IsSentence(c) == c.kind \in LogTypes

Faults == {"none", "nullUart", "badWord", "wildWalk"}

VARIABLES
    built,          \* steps of the constructor done
    periodicLogs,   \* _periodic_logs: the logs that are on, and their period
    walk,           \* the log send_periodic_data's iterator is at, "begun", or "idle"
    walkPoint,      \* the data point of that walk
    written,        \* whether the log at the iterator was written, it++ still to come
    answer,         \* out_data of the UART read callback, until it is written
    wire,           \* what was written and not yet read, oldest first
    now,            \* the provider's current data point
    fault,          \* what has stopped the process
    raced,          \* history: the map was changed during a walk
    out             \* history: the logs the last walk has written, until a race

vars == <<built, periodicLogs, walk, walkPoint, written, answer, wire, now, fault, raced, out>>

Alive == fault = "none"

-----------------------------------------------------------------------------
(* The constructor.  Its steps: 1 the tick callback is registered, 2 the     *)
(* UART connection exists and is open, 3 its read callback is set, 4 to 8    *)
(* the generators are known, 9 to 11 the default logs are on.                *)

ConstructorSteps == 11
Ticking == built >= 1
Connected == built >= 2
Listening == built >= 3
\* _get_log_data_map
Generators == {GeneratorOrder[i] : i \in {j \in 1..5 : built >= 3 + j}}

On == DOMAIN periodicLogs

\* std::map::insert leaves a log that is there as it is.
Inserted(l, p) == [k \in On \cup {l} |-> IF k \in On THEN periodicLogs[k] ELSE p]
Without(S) == [k \in On \ S |-> periodicLogs[k]]

\* Changing the map while there is an iterator over it is undefined from then on.
Walking == walk \in LogTypes

Change(newLogs) ==
    /\ periodicLogs' = newLogs
    /\ raced' = (raced \/ (Walking /\ newLogs # periodicLogs))

\* Mutant: with the default logs inserted first.
ConstructMutantLogsFirst ==
    /\ Alive
    /\ built < ConstructorSteps
    /\ built' = built + 1
    /\ IF built \in 0..2
       THEN Change(Inserted(DefaultOrder[built + 1], "1"))
       ELSE UNCHANGED <<periodicLogs, raced>>
    /\ UNCHANGED <<walk, walkPoint, written, answer, wire, now, fault, out>>

Construct ==
    /\ Alive
    /\ built < ConstructorSteps
    /\ built' = built + 1
    /\ IF built >= 8
       THEN Change(Inserted(DefaultOrder[built - 7], "1"))
       ELSE UNCHANGED <<periodicLogs, raced>>
    /\ UNCHANGED <<walk, walkPoint, written, answer, wire, now, fault, out>>

Init ==
    /\ built = 0
    /\ periodicLogs = [l \in {} |-> "1"]
    /\ walk = "idle"
    /\ walkPoint = 0
    /\ written = FALSE
    /\ answer = <<>>
    /\ wire = <<>>
    /\ now = 0
    /\ fault = "none"
    /\ raced = FALSE
    /\ out = <<>>

-----------------------------------------------------------------------------
(* The data provider. *)

\* The next data point is there: 42 or another simulator writes it.
Advance ==
    /\ Alive
    /\ now < NowMax
    /\ now' = now + 1
    /\ UNCHANGED <<built, periodicLogs, walk, walkPoint, written, answer, wire, fault, raced, out>>

-----------------------------------------------------------------------------
(* send_periodic_data. *)

\* Mutant: with the data point before the current one.
TickMutantPrevious ==
    /\ Alive
    /\ Ticking
    /\ walk = "idle"
    /\ Len(wire) < WireMax
    /\ walkPoint' = IF now > 0 THEN now - 1 ELSE now
    /\ walk' = "begun"
    /\ UNCHANGED <<built, periodicLogs, written, answer, wire, now, fault, raced, out>>

\* A time tick: the callback takes its data point ...
Tick ==
    /\ Alive
    /\ Ticking
    /\ walk = "idle"
    /\ Len(wire) < WireMax
    /\ walkPoint' = now
    /\ walk' = "begun"
    /\ UNCHANGED <<built, periodicLogs, written, answer, wire, now, fault, raced, out>>

\* Where an iterator that is after rank r goes.
AtOrAfter(r) ==
    IF \E l \in On : Rank[l] >= r
    THEN CHOOSE l \in On : Rank[l] >= r /\ \A k \in On : Rank[k] >= r => Rank[l] <= Rank[k]
    ELSE "idle"

\* ... and starts to walk.
WalkBegin ==
    /\ Alive
    /\ walk = "begun"
    /\ walk' = AtOrAfter(1)
    /\ out' = IF raced THEN out ELSE <<>>
    /\ UNCHANGED <<built, periodicLogs, walkPoint, written, answer, wire, now, fault, raced>>

\* Mutant: data.clear() forgotten, so that each write repeats those before it.
WalkStepMutantKeeps ==
    /\ Alive
    /\ Walking /\ ~written
    /\ ~raced
    /\ Connected
    /\ LET logs == Append(out, walk)
       IN  /\ wire' = wire \o [i \in 1..Len(logs) |-> [kind |-> logs[i], point |-> walkPoint]]
           /\ out' = out \o logs
    /\ written' = TRUE
    /\ UNCHANGED <<built, periodicLogs, walk, walkPoint, answer, now, fault, raced>>

\* The log at the iterator is generated and written; without a UART connection a null
\* pointer is used.
WalkStep ==
    /\ Alive
    /\ Walking /\ ~written
    /\ ~raced
    /\ IF Connected
       THEN /\ wire' = Append(wire, [kind |-> walk, point |-> walkPoint])
            /\ out' = Append(out, walk)
            /\ written' = TRUE
            /\ UNCHANGED fault
       ELSE fault' = "nullUart" /\ UNCHANGED <<wire, out, written>>
    /\ UNCHANGED <<built, periodicLogs, walk, walkPoint, answer, now, raced>>

\* it++
WalkNext ==
    /\ Alive
    /\ Walking /\ written
    /\ ~raced
    /\ walk' = AtOrAfter(Rank[walk] + 1)
    /\ written' = FALSE
    /\ UNCHANGED <<built, periodicLogs, walkPoint, answer, wire, now, fault, raced, out>>

\* After a race the iterator may give any log, on or removed, ...
WalkStepWild ==
    /\ Alive
    /\ Walking /\ ~written
    /\ raced
    /\ Connected
    /\ Len(wire) < WireMax
    /\ \E l \in LogTypes : wire' = Append(wire, [kind |-> l, point |-> walkPoint])
    /\ written' = TRUE
    /\ UNCHANGED <<built, periodicLogs, walk, walkPoint, answer, now, fault, raced, out>>

\* ... go to any place or to the end, ...
WalkNextWild ==
    /\ Alive
    /\ Walking /\ written
    /\ raced
    /\ walk' \in LogTypes \cup {"idle"}
    /\ written' = FALSE
    /\ UNCHANGED <<built, periodicLogs, walkPoint, answer, wire, now, fault, raced, out>>

\* ... or the process crashes.
WalkCrashes ==
    /\ Alive
    /\ Walking
    /\ raced
    /\ fault' = "wildWalk"
    /\ UNCHANGED <<built, periodicLogs, walk, walkPoint, written, answer, wire, now, raced, out>>

-----------------------------------------------------------------------------
(* determine_response_for_request. *)

\* A command that does not name a port gets one.
WithPort(words) ==
    IF Len(words) >= 2 /\ words[2] = "COM" THEN words ELSE <<words[1], "NO_PORTS">> \o Tail(words)

\* The answer to a command, before the write: of the given kind, made from the
\* data point of the moment.  A binary error fills memory the vector does not
\* have and leaves it empty.
AnswerWith(kind) == answer' = <<[kind |-> kind, point |-> now]>>

Refuse(kind) == AnswerWith(kind) /\ UNCHANGED <<periodicLogs, raced, fault>>

\* words[0] is "LOG".
NamesALog(w) == Len(w) >= 3 /\ w[3] \in Generators
IsOnTime(w) == Len(w) >= 5 /\ w[4] = "ONTIME"
IsOnce(w) == ~IsOnTime(w) /\ (Len(w) = 4 \/ (Len(w) >= 5 /\ w[4] = "ONCE"))

\* Mutant: reading the period from the word before it.
LogOnTimeMutantWrongWord(w) ==
    \/ w[5] \notin ValidPeriods /\ Refuse("RATE")
    \/ w[5] \in ValidPeriods /\ w[3] \in On /\ Refuse("EXISTS")
    \/ /\ w[5] \in ValidPeriods
       /\ w[3] \notin On
       /\ Change(Inserted(w[3], w[4]))
       /\ AnswerWith("OK")
       /\ UNCHANGED fault

LogOnTime(w) ==
    \/ w[5] \notin ValidPeriods /\ Refuse("RATE")
    \/ w[5] \in ValidPeriods /\ w[3] \in On /\ Refuse("EXISTS")
    \/ /\ w[5] \in ValidPeriods
       /\ w[3] \notin On
       /\ Change(Inserted(w[3], w[5]))
       /\ AnswerWith("OK")
       /\ UNCHANGED fault

\* With three words the code reads a fourth: what it finds decides, or it crashes.
LogWithoutTrigger(w) ==
    \/ Refuse(w[3])
    \/ Refuse("INVALID")
    \/ fault' = "badWord" /\ UNCHANGED <<periodicLogs, raced, answer>>

Log(w) ==
    \/ ~NamesALog(w) /\ Refuse("INVALID")
    \/ /\ NamesALog(w)
       /\ \/ IsOnTime(w) /\ LogOnTime(w)
          \/ IsOnce(w) /\ Refuse(w[3])
          \/ Len(w) = 3 /\ LogWithoutTrigger(w)
          \/ Len(w) >= 5 /\ ~IsOnTime(w) /\ ~IsOnce(w) /\ Refuse("INVALID")

Unlog(w) ==
    \/ Len(w) < 3 /\ Refuse("INVALID")
    \/ Len(w) >= 3 /\ Change(Without({w[3]})) /\ AnswerWith("OK") /\ UNCHANGED fault

UnlogAll == Change(Without(On)) /\ AnswerWith("OK") /\ UNCHANGED fault

\* Commands whose name ends in A are taken for full ASCII commands.
AsciiCommands == {"LOGA", "UNLOGA", "UNLOGALLA"}
Abbreviated == {"LOG", "UNLOG", "UNLOGALL", "SERIALCONFIG"}

Respond(words) ==
    \/ words[1] = "BINARY" /\ UNCHANGED <<answer, periodicLogs, raced, fault>>
    \/ words[1] \in AsciiCommands /\ Refuse("ASCII")
    \/ words[1] = "LOG" /\ Log(WithPort(words))
    \/ words[1] = "UNLOG" /\ Unlog(WithPort(words))
    \/ words[1] = "UNLOGALL" /\ UnlogAll
    \/ words[1] = "SERIALCONFIG" /\ Refuse("OK")
    \/ words[1] \notin Abbreviated \cup AsciiCommands \cup {"BINARY"} /\ Refuse("INVALID")

\* uart_read_callback, up to its write; one command at a time.  It takes a data point of
\* its own first: only LOG ... ONCE uses it, and that leaves the map alone, so that the
\* two are one step.
UartRead(words) ==
    /\ Alive
    /\ Listening
    /\ answer = <<>>
    /\ Len(wire) < WireMax
    /\ Respond(words)
    /\ UNCHANGED <<built, walk, walkPoint, written, wire, now, out>>

UartWrite ==
    /\ Alive
    /\ answer # <<>>
    /\ wire' = wire \o answer
    /\ answer' = <<>>
    /\ UNCHANGED <<built, periodicLogs, walk, walkPoint, written, now, fault, raced, out>>

-----------------------------------------------------------------------------
(* The other end of the UART takes the n oldest chunks. *)

Take(n) ==
    /\ n \in 1..Len(wire)
    /\ wire' = SubSeq(wire, n + 1, Len(wire))
    /\ UNCHANGED <<built, periodicLogs, walk, walkPoint, written, answer, now, fault, raced, out>>

\* A process that has crashed does nothing more.
Crashed == ~Alive /\ UNCHANGED vars

SimStep ==
    \/ Construct
    \/ Advance
    \/ Tick \/ WalkBegin \/ WalkStep \/ WalkNext
    \/ WalkStepWild \/ WalkNextWild \/ WalkCrashes
    \/ UartWrite

Next ==
    \/ SimStep
    \/ \E words \in Requests : UartRead(words)
    \/ \E n \in 1..Len(wire) : Take(n)
    \/ Crashed

Spec == Init /\ [][Next]_vars
=============================================================================
