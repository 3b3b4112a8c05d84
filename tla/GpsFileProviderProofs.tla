------------------------ MODULE GpsFileProviderProofs ------------------------
(***************************************************************************)
(* What GpsFileProvider's runs check, for every number of threads, every file   *)
(* and every bound.                                                          *)
(***************************************************************************)
EXTENDS GpsFileProvider, TLAPS

-----------------------------------------------------------------------------
(* Types. *)

\* The initial state is well typed.
LEMMA TypeInit == Init => TypeOK
<1>1. Init => overlapped \in BOOLEAN
  BY Zenon DEF Init
<1> QED
  BY <1>1, FileConstantsAssumption DEF Init, TypeOK, Failed

\* Every step keeps the types.
LEMMA TypeNext == TypeOK /\ [Next]_vars => TypeOK'
<1> SUFFICES ASSUME TypeOK, [Next]_vars PROVE TypeOK'
  OBVIOUS
<1> USE FileConstantsAssumption DEF TypeOK, Failed
<1>1. CASE Advance
  BY <1>1 DEF Advance
<1>2. CASE \E c \in Callers : Step(c)
  <2> PICK c \in Callers : Step(c)
    BY <1>2
  <2>1. CASE Open(c)
    BY <2>1 DEF Open
  <2>2. CASE TakeTime(c)
    BY <2>2 DEF TakeTime
  <2>3. CASE ReadRecord(c)
    BY <2>3 DEF ReadRecord, HasRecord
  <2>4. CASE ReadNothing(c)
    BY <2>4 DEF ReadNothing
  <2>5. CASE Return(c)
    BY <2>5 DEF Return, LoopEnds
  <2> QED
    BY <2>1, <2>2, <2>3, <2>4, <2>5 DEF Step
<1>3. CASE UNCHANGED vars
  BY <1>3 DEF vars
<1> QED
  BY <1>1, <1>2, <1>3 DEF Next

\* Every variable stays in its domain, for every file and every number of threads.
THEOREM TypeCorrect == Spec => []TypeOK
  BY TypeInit, TypeNext, PTL DEF Spec

-----------------------------------------------------------------------------
(* The end of the file. *)

\* A call that has opened the file: it has a place that the calls before it and the time
\* account for, or has met the end of a file that is too short.
Underway(c) ==
    /\ calls >= 1
    /\ absTime[c] <= now
    /\ stream[c] # Failed /\ j2000[c] = 0 => stream[c] <= now + calls - 1
    /\ stream[c] # Failed /\ j2000[c] # 0 => stream[c] = j2000[c] + 1
    /\ stream[c] = Failed => Records < now + calls

\* _file_loc likewise.  Every call under way has used one record more at most.
UsedUpInv ==
    /\ TypeOK
    /\ fileLoc # Failed => fileLoc <= now + calls
    /\ fileLoc = Failed => Records < now + calls
    /\ \A c \in Callers : absTime[c] <= now
    /\ \A c \in Callers : pc[c] # "idle" => Underway(c)

\* Nothing is used up at first.
LEMMA UsedUpInit == Init => UsedUpInv
  BY TypeInit, FileConstantsAssumption DEF Init, UsedUpInv, Underway, Failed

\* Every step pays for the record it takes with a call or a unit of time.
LEMMA UsedUpNext == TypeOK' /\ UsedUpInv /\ [Next]_vars => UsedUpInv'
<1> SUFFICES ASSUME TypeOK', UsedUpInv, [Next]_vars PROVE UsedUpInv'
  OBVIOUS
<1> USE FileConstantsAssumption DEF UsedUpInv, TypeOK, Underway, Failed
<1>1. CASE Advance
  BY <1>1 DEF Advance
<1>2. CASE \E c \in Callers : Step(c)
  <2> PICK c \in Callers : Step(c)
    BY <1>2
  <2>1. CASE Open(c)
    BY <2>1 DEF Open
  <2>2. CASE TakeTime(c)
    BY <2>2 DEF TakeTime
  <2>3. CASE ReadRecord(c)
    <3>1. /\ stream[c] \in 1..Records /\ j2000[c] < absTime[c] /\ Underway(c)
          /\ pc' = pc /\ absTime' = absTime /\ now' = now /\ calls' = calls
      BY <2>3 DEF ReadRecord, HasRecord
    <3>2. stream[c] + 1 <= now + calls
      BY <3>1
    <3> QED
      BY <2>3, <3>1, <3>2 DEF ReadRecord
  <2>4. CASE ReadNothing(c)
    <3>1. Records < now + calls
      BY <2>4 DEF ReadNothing, HasRecord
    <3> QED
      BY <2>4, <3>1 DEF ReadNothing
  <2>5. CASE Return(c)
    BY <2>5 DEF Return
  <2> QED
    BY <2>1, <2>2, <2>3, <2>4, <2>5 DEF Step
<1>3. CASE UNCHANGED vars
  BY <1>3 DEF vars
<1> QED
  BY <1>1, <1>2, <1>3 DEF Next

\* No thread meets the end of a file that has a record for each unit of time and one for
\* each call, wherever the threads' steps fall: the length a data file needs.
THEOREM EndOnlyWhenFileUsedUp == Spec => []EndOnlyWhenUsedUp
<1>1. UsedUpInv => EndOnlyWhenUsedUp
  BY DEF UsedUpInv, EndOnlyWhenUsedUp
<1> QED
  BY TypeCorrect, UsedUpInit, UsedUpNext, <1>1, PTL DEF Spec

-----------------------------------------------------------------------------
(* Calls that do not overlap. *)

\* The place in the file is after every record that was returned.
PlaceIsNew == fileLoc = Failed \/ \A d \in Callers : result[d] < fileLoc

\* A call under way will return a record that is newer than each of those.
IsNewer(c) ==
    /\ pc[c] = "opened" => j2000[c] = 0 /\ PlaceIsNew
    /\ j2000[c] = 0 => stream[c] = Failed \/ \A d \in Callers : result[d] < stream[c]
    /\ pc[c] = "reading" => absTime[c] >= 1
    /\ j2000[c] # 0 => /\ \A d \in Callers : result[d] < j2000[c]
                       /\ stream[c] \in {Failed, j2000[c] + 1}
                       /\ fileLoc \in {Failed, j2000[c] + 1}

\* As long as no two calls have overlapped, one is under way at most.
AloneInv ==
    ~overlapped =>
        /\ \A c, d \in Callers : pc[c] # "idle" /\ pc[d] # "idle" => c = d
        /\ (\A c \in Callers : pc[c] = "idle") => PlaceIsNew
        /\ \A c \in Callers : pc[c] # "idle" => IsNewer(c)

\* No call is under way at first, and nothing was returned.
LEMMA AloneInit == Init => AloneInv
  BY FileConstantsAssumption DEF Init, AloneInv, PlaceIsNew

\* Every step keeps the place of the one call under way after what was returned.
LEMMA AloneNext ==
  TypeOK /\ TypeOK' /\ AloneInv /\ [Next]_vars => AloneInv'
<1> SUFFICES ASSUME TypeOK, TypeOK', AloneInv, [Next]_vars, ~overlapped' PROVE AloneInv'
  BY DEF AloneInv
<1> USE FileConstantsAssumption DEF TypeOK, Failed, AloneInv, IsNewer, PlaceIsNew
<1>1. CASE Advance
  BY <1>1 DEF Advance
<1>2. CASE \E c \in Callers : Step(c)
  <2> PICK c \in Callers : Step(c)
    BY <1>2
  <2>1. CASE Open(c)
    <3>1. ~overlapped /\ \A d \in Callers : pc[d] = "idle"
      BY <2>1 DEF Open
    <3> QED
      BY <2>1, <3>1 DEF Open
  <2>2. CASE TakeTime(c)
    BY <2>2 DEF TakeTime
  <2>3. CASE ReadRecord(c)
    BY <2>3 DEF ReadRecord, HasRecord
  <2>4. CASE ReadNothing(c)
    BY <2>4 DEF ReadNothing
  <2>5. CASE Return(c)
    BY <2>5 DEF Return, LoopEnds
  <2> QED
    BY <2>1, <2>2, <2>3, <2>4, <2>5 DEF Step
<1>3. CASE UNCHANGED vars
  BY <1>3 DEF vars
<1> QED
  BY <1>1, <1>2, <1>3 DEF Next

\* A call that returns has a record newer than every one returned before it.
LEMMA AloneReturns ==
  ASSUME TypeOK, AloneInv, [Next]_vars, ~overlapped,
         NEW c \in Callers, pc[c] = "reading", pc'[c] = "idle", NEW d \in Callers
  PROVE  result'[c] > result[d]
<1> USE DEF TypeOK, AloneInv, IsNewer
<1>1. Return(c)
  BY DEF Next, Step, Advance, Open, TakeTime, ReadRecord, ReadNothing, Return, vars
<1>2. j2000[c] # 0
  BY <1>1 DEF Return, LoopEnds
<1> QED
  BY <1>1, <1>2 DEF Return

\* For every number of threads: the data a thread gets goes back in time only after two
\* calls have overlapped.
THEOREM NewerUnlessOverlapped == Spec => AlwaysNewer
<1>1. TypeOK /\ AloneInv /\ [Next]_vars =>
        [\A c \in Callers : pc[c] = "reading" /\ pc'[c] = "idle" /\ ~overlapped
            => \A d \in Callers : result'[c] > result[d]]_vars
  BY AloneReturns
<1> QED
  BY TypeCorrect, AloneInit, AloneNext, <1>1, PTL DEF Spec, AlwaysNewer
=============================================================================
