--------------------------- MODULE GpsFileProvider ---------------------------
(***************************************************************************)
(* The file data provider (gps_sim_data_file_provider.cpp): get_gps_data opens  *)
(* the file of records, goes to where the last call stopped and reads until a   *)
(* record is not older than the time it was called at.  The run thread calls     *)
(* it at each tick, the UART callback for each command: the two share _file_loc,   *)
(* with no lock.                                                              *)
(*                                                                         *)
(* Record i is of time i.  A stream that has met the end of the file stays       *)
(* failed, and tellg is then -1.                                             *)
(***************************************************************************)
EXTENDS Integers

CONSTANTS
    Callers,    \* the threads that call get_data_point
    Records,    \* how many records the file has
    NowMax,     \* bound on the simulated time
    CallMax     \* bound on the calls

ASSUME FileConstantsAssumption == Records \in Nat /\ NowMax \in Nat \ {0} /\ CallMax \in Nat

VARIABLES
    now,        \* _time_bus->get_time()
    fileLoc,    \* _file_loc
    pc,         \* where each caller is
    stream,     \* each caller's filebuf, the next record, -1 once it has failed
    absTime,    \* its abs_time
    j2000,      \* the time it has read last
    result,     \* history: the time of the record its last call returned, 0 before one
    calls,      \* the calls made
    overlapped  \* history: a call began while another was under way

vars == <<now, fileLoc, pc, stream, absTime, j2000, result, calls, overlapped>>

Failed == -1

Init ==
    /\ now = 1
    /\ fileLoc = 1
    /\ pc = [c \in Callers |-> "idle"]
    /\ stream = [c \in Callers |-> Failed]
    /\ absTime = [c \in Callers |-> 0]
    /\ j2000 = [c \in Callers |-> 0]
    /\ result = [c \in Callers |-> 0]
    /\ calls = 0
    /\ overlapped = FALSE

Advance ==
    /\ now < NowMax
    /\ now' = now + 1
    /\ UNCHANGED <<fileLoc, pc, stream, absTime, j2000, result, calls, overlapped>>

\* open and seekg; a seek to -1 fails.
Open(c) ==
    /\ pc[c] = "idle"
    /\ calls < CallMax
    /\ calls' = calls + 1
    /\ stream' = [stream EXCEPT ![c] = fileLoc]
    /\ j2000' = [j2000 EXCEPT ![c] = 0]
    /\ pc' = [pc EXCEPT ![c] = "opened"]
    /\ overlapped' = (overlapped \/ \E d \in Callers : pc[d] # "idle")
    /\ UNCHANGED <<now, fileLoc, absTime, result>>

TakeTime(c) ==
    /\ pc[c] = "opened"
    /\ absTime' = [absTime EXCEPT ![c] = now]
    /\ pc' = [pc EXCEPT ![c] = "reading"]
    /\ UNCHANGED <<now, fileLoc, stream, j2000, result, calls, overlapped>>

HasRecord(s) == s # Failed /\ s <= Records

\* Mutant: a record more is read before the place is kept.
ReadRecordMutantSkips(c) ==
    /\ pc[c] = "reading" /\ j2000[c] < absTime[c]
    /\ HasRecord(stream[c])
    /\ j2000' = [j2000 EXCEPT ![c] = stream[c]]
    /\ stream' = [stream EXCEPT ![c] = @ + 1]
    /\ fileLoc' = stream[c] + 2
    /\ UNCHANGED <<now, pc, absTime, result, calls, overlapped>>

\* Mutant: the place is not kept.
ReadRecordMutantPlaceLost(c) ==
    /\ pc[c] = "reading" /\ j2000[c] < absTime[c]
    /\ HasRecord(stream[c])
    /\ j2000' = [j2000 EXCEPT ![c] = stream[c]]
    /\ stream' = [stream EXCEPT ![c] = @ + 1]
    /\ UNCHANGED <<now, fileLoc, pc, absTime, result, calls, overlapped>>

\* Mutant: the record is looked at and not passed.
ReadRecordMutantPeeks(c) ==
    /\ pc[c] = "reading" /\ j2000[c] < absTime[c]
    /\ HasRecord(stream[c])
    /\ j2000' = [j2000 EXCEPT ![c] = stream[c]]
    /\ UNCHANGED <<now, fileLoc, stream, pc, absTime, result, calls, overlapped>>

\* One pass of the loop.
ReadRecord(c) ==
    /\ pc[c] = "reading" /\ j2000[c] < absTime[c]
    /\ HasRecord(stream[c])
    /\ j2000' = [j2000 EXCEPT ![c] = stream[c]]
    /\ stream' = [stream EXCEPT ![c] = @ + 1]
    /\ fileLoc' = stream[c] + 1
    /\ UNCHANGED <<now, pc, absTime, result, calls, overlapped>>

\* One pass over a stream that has nothing more: j2000 keeps its value.
ReadNothing(c) ==
    /\ pc[c] = "reading" /\ j2000[c] < absTime[c]
    /\ ~HasRecord(stream[c])
    /\ stream' = [stream EXCEPT ![c] = Failed]
    /\ fileLoc' = Failed
    /\ UNCHANGED <<now, pc, absTime, j2000, result, calls, overlapped>>

LoopEnds(c) == j2000[c] >= absTime[c]

Return(c) ==
    /\ pc[c] = "reading" /\ LoopEnds(c)
    /\ result' = [result EXCEPT ![c] = j2000[c]]
    /\ pc' = [pc EXCEPT ![c] = "idle"]
    /\ UNCHANGED <<now, fileLoc, stream, absTime, j2000, calls, overlapped>>

Step(c) == Open(c) \/ TakeTime(c) \/ ReadRecord(c) \/ ReadNothing(c) \/ Return(c)

Next == Advance \/ \E c \in Callers : Step(c)

Spec == Init /\ [][Next]_vars

\* A call that has begun runs on.
Runs(c) == TakeTime(c) \/ ReadRecord(c) \/ ReadNothing(c) \/ Return(c)
FairSpec == Spec /\ \A c \in Callers : WF_vars(Runs(c))

-----------------------------------------------------------------------------
(* Properties. *)

\* Every variable stays in its domain.
TypeOK ==
    /\ now \in 1..NowMax
    /\ fileLoc \in {Failed} \cup 1..Records + 1
    /\ pc \in [Callers -> {"idle", "opened", "reading"}]
    /\ stream \in [Callers -> {Failed} \cup 1..Records + 1]
    /\ absTime \in [Callers -> 0..NowMax]
    /\ j2000 \in [Callers -> 0..Records]
    /\ result \in [Callers -> 0..Records]
    /\ calls \in 0..CallMax
    /\ overlapped \in BOOLEAN

\* A call meets the end of the file only when the calls made and the time gone by have
\* used its records up: each call takes one record of its own, and one for each
\* unit of time.  That is how much longer than the simulation the file has to be.
EndOnlyWhenUsedUp == fileLoc = Failed => Records < now + calls

\* As long as no two calls have overlapped, whichever threads make them, each returns a
\* record newer than every one returned before: only an overlap turns the data back.
AlwaysNewer ==
    [][\A c \in Callers : pc[c] = "reading" /\ pc'[c] = "idle" /\ ~overlapped
          => \A d \in Callers : result'[c] > result[d]]_vars

\* Unless some call meets the end of the file, every call returns.
CallsReturn == [](fileLoc # Failed) => \A c \in Callers : pc[c] = "opened" ~> pc[c] = "idle"
=============================================================================
