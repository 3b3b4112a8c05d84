--------------------------- MODULE OEM615SimProofs ---------------------------
(***************************************************************************)
(* What the runs of MCOEM615Sim check of the simulated receiver, for every set     *)
(* of commands, every number of data points and every amount of unread chunks:      *)
(* its types, that it never uses a UART it does not have, that its walks are valid,   *)
(* and that it implements ReceiverLogs.  Then what the run of MCSimUartReader checks    *)
(* of its safety, for every set of logs that are on at the start and every bound.        *)
(***************************************************************************)
EXTENDS OEM615SimProperties, SimUartReader, SequenceTheorems, TLAPS

\* Five logs, five ranks.
LEMMA Ranks ==
  /\ \A l \in LogTypes : Rank[l] \in 1..5
  /\ \A k, l \in LogTypes : Rank[k] = Rank[l] => k = l
  /\ "idle" \notin LogTypes /\ "begun" \notin LogTypes
  BY DEF Rank, LogTypes

\* The generators the constructor makes known are those of the five logs.
LEMMA GeneratorsAreLogs == Generators \subseteq LogTypes
  BY DEF Generators, GeneratorOrder, LogTypes

\* The iterator goes to the first log at or after a rank, if there is one.
LEMMA AtOrAfterIsFirst ==
  ASSUME On \subseteq LogTypes, NEW r \in Nat
  PROVE \/ AtOrAfter(r) = "idle" /\ \A l \in On : Rank[l] < r
        \/ /\ AtOrAfter(r) \in On /\ Rank[AtOrAfter(r)] >= r
           /\ \A k \in On : Rank[k] >= r => Rank[AtOrAfter(r)] <= Rank[k]
<1> DEFINE First(l) == l \in On /\ Rank[l] >= r /\ \A k \in On : Rank[k] >= r => Rank[l] <= Rank[k]
<1>1. CASE \A l \in On : Rank[l] < r
  <2>1. \A l \in On : ~(Rank[l] >= r)
    BY <1>1, Ranks
  <2> QED
    BY <1>1, <2>1 DEF AtOrAfter
<1>2. CASE \E l \in On : Rank[l] >= r
  <2>1. \E l \in On : First(l)
    <3>0. Rank["BESTXYZA"] = 1 /\ Rank["BESTXYZB"] = 2 /\ Rank["GPGGA"] = 3
          /\ Rank["RANGECMPA"] = 4 /\ Rank["RANGECMPB"] = 5
      BY DEF Rank
    <3>1. \A l \in On : l \in {"BESTXYZA", "BESTXYZB", "GPGGA", "RANGECMPA", "RANGECMPB"}
      BY DEF LogTypes
    <3>2. CASE "BESTXYZA" \in On /\ 1 >= r
      BY <3>0, <3>1, <3>2
    <3>3. CASE ~("BESTXYZA" \in On /\ 1 >= r) /\ "BESTXYZB" \in On /\ 2 >= r
      BY <3>0, <3>1, <3>3
    <3>4. CASE /\ ~("BESTXYZA" \in On /\ 1 >= r) /\ ~("BESTXYZB" \in On /\ 2 >= r)
               /\ "GPGGA" \in On /\ 3 >= r
      BY <3>0, <3>1, <3>4
    <3>5. CASE /\ ~("BESTXYZA" \in On /\ 1 >= r) /\ ~("BESTXYZB" \in On /\ 2 >= r)
               /\ ~("GPGGA" \in On /\ 3 >= r) /\ "RANGECMPA" \in On /\ 4 >= r
      BY <3>0, <3>1, <3>5
    <3>6. CASE /\ ~("BESTXYZA" \in On /\ 1 >= r) /\ ~("BESTXYZB" \in On /\ 2 >= r)
               /\ ~("GPGGA" \in On /\ 3 >= r) /\ ~("RANGECMPA" \in On /\ 4 >= r)
      BY <1>2, <3>0, <3>1, <3>6
    <3> QED
      BY <3>2, <3>3, <3>4, <3>5, <3>6
  <2>2. AtOrAfter(r) = CHOOSE l \in On : First(l)
    BY <1>2 DEF AtOrAfter
  <2> HIDE DEF First
  <2>3. First(AtOrAfter(r))
    BY <2>1, <2>2
  <2> QED
    BY <2>3 DEF First
<1>3. (\A l \in On : Rank[l] < r) \/ (\E l \in On : Rank[l] >= r)
  BY Ranks
<1> QED
  BY <1>1, <1>2, <1>3

\* The two ways the map changes.
LEMMA LogsChange ==
  ASSUME On \subseteq LogTypes, periodicLogs \in [On -> ValidPeriods]
  PROVE /\ \A l \in LogTypes, p \in ValidPeriods :
              /\ DOMAIN Inserted(l, p) = On \cup {l}
              /\ Inserted(l, p) \in [On \cup {l} -> ValidPeriods]
              /\ l \in On => Inserted(l, p) = periodicLogs
        /\ \A S : DOMAIN Without(S) = On \ S /\ Without(S) \in [On \ S -> ValidPeriods]
  BY DEF Inserted, Without

\* What a command does to the map: nothing, or one log on, one off, or all off.
MapChange ==
    \/ UNCHANGED <<periodicLogs, raced>>
    \/ \E l \in LogTypes, p \in ValidPeriods : Change(Inserted(l, p))
    \/ \E l : Change(Without({l}))
    \/ Change(Without(On))

\* Every command changes the map in one of these ways, and answers at most once; only
\* a LOG without a trigger can stop the process.
LEMMA RespondEffect ==
  ASSUME TypeOK, answer = <<>>, NEW words \in Requests, Respond(words)
  PROVE /\ MapChange
        /\ fault' \in {fault, "badWord"}
        /\ answer' = <<>> \/ \E k \in LogTypes \cup Answers : answer' = <<[kind |-> k, point |-> now]>>
<1> DEFINE w == WithPort(words)
<1> HIDE DEF w
<1> USE DEF AnswerWith, Refuse, MapChange
<1>1. \A k \in {"OK", "EXISTS", "RATE", "INVALID", "ASCII"} : k \in LogTypes \cup Answers
  BY DEF Answers
<1>2. CASE words[1] = "BINARY" /\ UNCHANGED <<answer, periodicLogs, raced, fault>>
  BY <1>2
<1>3. CASE Refuse("ASCII") \/ Refuse("OK") \/ Refuse("INVALID")
  BY <1>1, <1>3
<1>4. CASE UnlogAll
  BY <1>1, <1>4 DEF UnlogAll
<1>5. CASE Unlog(w)
  BY <1>1, <1>5 DEF Unlog
<1>6. CASE Log(w)
  <2>1. CASE Refuse("INVALID")
    BY <1>1, <2>1
  <2>2. CASE NamesALog(w) /\ ~Refuse("INVALID")
    <3>1. w[3] \in LogTypes
      BY <2>2, GeneratorsAreLogs DEF NamesALog
    <3>2. CASE LogOnTime(w)
      BY <1>1, <3>1, <3>2 DEF LogOnTime
    <3>3. CASE Refuse(w[3])
      BY <3>1, <3>3
    <3>4. CASE LogWithoutTrigger(w)
      BY <1>1, <3>1, <3>4 DEF LogWithoutTrigger
    <3> QED
      BY <1>6, <2>2, <3>2, <3>3, <3>4 DEF Log
  <2> QED
    BY <1>6, <2>1, <2>2 DEF Log
<1> QED
  BY <1>2, <1>3, <1>4, <1>5, <1>6 DEF Respond, w

\* Constructing changes the map by a default log.
LEMMA ConstructEffect == ASSUME TypeOK, Construct PROVE MapChange
<1>1. CASE built >= 8
  <2>1. built - 7 \in 1..3
    BY <1>1 DEF Construct, TypeOK, ConstructorSteps
  <2>2. DefaultOrder[built - 7] \in LogTypes /\ "1" \in ValidPeriods
    BY <2>1 DEF DefaultOrder, LogTypes, ValidPeriods
  <2> QED
    BY <1>1, <2>2 DEF Construct, MapChange
<1>2. CASE ~(built >= 8)
  BY <1>2 DEF Construct, MapChange
<1> QED
  BY <1>1, <1>2

\* A change of the map keeps its types.
LEMMA MapTypes ==
  ASSUME TypeOK, MapChange
  PROVE (On \subseteq LogTypes)' /\ (periodicLogs \in [On -> ValidPeriods])' /\ raced' \in BOOLEAN
<1>0. On \subseteq LogTypes /\ periodicLogs \in [On -> ValidPeriods] /\ raced \in BOOLEAN
  BY DEF TypeOK
<1>1. CASE UNCHANGED <<periodicLogs, raced>>
  BY <1>0, <1>1 DEF On
<1>2. ASSUME NEW l \in LogTypes, NEW p \in ValidPeriods, Change(Inserted(l, p))
      PROVE (On \subseteq LogTypes)' /\ (periodicLogs \in [On -> ValidPeriods])' /\ raced' \in BOOLEAN
  <2>1. DOMAIN periodicLogs' = On \cup {l} /\ periodicLogs' \in [On \cup {l} -> ValidPeriods]
    BY <1>0, <1>2, LogsChange DEF Change
  <2> QED
    BY <1>0, <1>2, <2>1 DEF Change, On
<1>3. ASSUME NEW S, Change(Without(S))
      PROVE (On \subseteq LogTypes)' /\ (periodicLogs \in [On -> ValidPeriods])' /\ raced' \in BOOLEAN
  <2>1. DOMAIN periodicLogs' = On \ S /\ periodicLogs' \in [On \ S -> ValidPeriods]
    BY <1>0, <1>3, LogsChange DEF Change
  <2> QED
    BY <1>0, <1>3, <2>1 DEF Change, On
<1> QED
  BY <1>1, <1>2, <1>3 DEF MapChange

-----------------------------------------------------------------------------
(* Types. *)

\* The initial state is well typed.
LEMMA TypeInit == Init => TypeOK
<1> SUFFICES ASSUME Init PROVE TypeOK
  OBVIOUS
<1>1. On = {} /\ periodicLogs \in [On -> ValidPeriods]
  BY DEF Init, On
<1>2. wire \in Seq(Chunks) /\ answer \in Seq(Chunks) /\ Len(answer) <= 1 /\ out \in Seq(LogTypes)
  BY DEF Init
<1>3. built \in 0..ConstructorSteps /\ walkPoint \in 0..NowMax /\ now \in 0..NowMax
  BY SimConstantsAssumption DEF SimConstantsAssumption, Init, ConstructorSteps
<1>4. /\ On \subseteq LogTypes /\ walk \in LogTypes \cup {"begun", "idle"} /\ fault \in Faults
      /\ raced \in BOOLEAN /\ written \in BOOLEAN /\ (written => Walking)
  BY <1>1 DEF Init, Faults
<1> QED
  BY <1>1, <1>2, <1>3, <1>4 DEF TypeOK

\* A chunk more on the wire.
LEMMA WireTypes ==
  ASSUME TypeOK, NEW k \in LogTypes
  PROVE Append(wire, [kind |-> k, point |-> walkPoint]) \in Seq(Chunks)
<1>1. [kind |-> k, point |-> walkPoint] \in Chunks
  BY DEF TypeOK, Chunks
<1> QED
  BY <1>1 DEF TypeOK

\* Every step keeps the types.
LEMMA TypeNext == TypeOK /\ [Next]_vars => TypeOK'
<1> SUFFICES ASSUME TypeOK, [Next]_vars PROVE TypeOK'
  OBVIOUS
<1> USE SimConstantsAssumption DEF SimConstantsAssumption
<1>0. On \subseteq LogTypes /\ On' = DOMAIN periodicLogs'
  BY DEF TypeOK, On
<1>1. CASE Construct
  <2>1. (On \subseteq LogTypes)' /\ (periodicLogs \in [On -> ValidPeriods])' /\ raced' \in BOOLEAN
    BY <1>1, ConstructEffect, MapTypes
  <2>2. built' \in 0..ConstructorSteps
    BY <1>1 DEF Construct, TypeOK, ConstructorSteps
  <2> QED
    BY <1>1, <2>1, <2>2 DEF Construct, TypeOK, Walking
<1>2. CASE Tick \/ Advance
  <2>1. now' \in 0..NowMax /\ walkPoint' \in 0..NowMax
    BY <1>2 DEF Tick, Advance, TypeOK
  <2>2. CASE Tick
    <3>1. walk' = "begun" /\ ~written
      BY <2>2, Ranks DEF Tick, TypeOK, Walking
    <3> QED
      BY <2>1, <2>2, <3>1 DEF Tick, TypeOK, On, Walking
  <2>3. CASE Advance
    BY <2>1, <2>3 DEF Advance, TypeOK, On, Walking
  <2> QED
    BY <1>2, <2>2, <2>3
<1>3. CASE WalkBegin \/ WalkNext
  <2>1. \A r \in Nat : AtOrAfter(r) \in LogTypes \cup {"begun", "idle"}
    BY <1>0, AtOrAfterIsFirst
  <2>2. CASE WalkBegin
    <3>1. walk' \in LogTypes \cup {"begun", "idle"} /\ written' = FALSE /\ out' \in Seq(LogTypes)
      BY <2>1, <2>2, Ranks DEF WalkBegin, TypeOK, Walking
    <3> QED
      BY <2>2, <3>1 DEF WalkBegin, TypeOK, On
  <2>3. CASE WalkNext
    <3>1. Rank[walk] + 1 \in Nat
      BY <2>3, Ranks DEF WalkNext, Walking
    <3>2. walk' \in LogTypes \cup {"begun", "idle"} /\ written' = FALSE
      BY <2>1, <2>3, <3>1 DEF WalkNext
    <3> QED
      BY <2>3, <3>2 DEF WalkNext, TypeOK, On
  <2> QED
    BY <1>3, <2>2, <2>3
<1>4. CASE WalkStep \/ WalkStepWild
  <2>1. walk \in LogTypes
    BY <1>4 DEF WalkStep, WalkStepWild, Walking
  <2>2. CASE WalkStep /\ Connected
    <3>1. wire' \in Seq(Chunks)
      BY <2>1, <2>2, WireTypes DEF WalkStep
    <3>2. out' \in Seq(LogTypes)
      BY <2>1, <2>2 DEF WalkStep, TypeOK
    <3> QED
      BY <2>1, <2>2, <3>1, <3>2 DEF WalkStep, TypeOK, On, Walking
  <2>3. CASE WalkStep /\ ~Connected
    BY <2>3 DEF WalkStep, TypeOK, On, Faults, Walking
  <2>4. CASE WalkStepWild
    <3>1. wire' \in Seq(Chunks)
      BY <2>4, WireTypes DEF WalkStepWild
    <3> QED
      BY <2>1, <2>4, <3>1 DEF WalkStepWild, TypeOK, On, Walking
  <2> QED
    BY <1>4, <2>2, <2>3, <2>4
<1>5. CASE WalkCrashes \/ WalkNextWild
  BY <1>5 DEF WalkCrashes, WalkNextWild, TypeOK, On, Faults, Walking
<1>6. CASE UartWrite
  <2>1. wire' \in Seq(Chunks)
    BY <1>6 DEF UartWrite, TypeOK
  <2> QED
    BY <1>6, <2>1 DEF UartWrite, TypeOK, On, Walking
<1>7. ASSUME NEW words \in Requests, UartRead(words) PROVE TypeOK'
  <2>1. /\ MapChange /\ fault' \in {fault, "badWord"}
        /\ answer' = <<>> \/ \E k \in LogTypes \cup Answers : answer' = <<[kind |-> k, point |-> now]>>
    BY <1>7, RespondEffect DEF UartRead
  <2>2. (On \subseteq LogTypes)' /\ (periodicLogs \in [On -> ValidPeriods])' /\ raced' \in BOOLEAN
    BY <2>1, MapTypes
  <2>3. answer' \in Seq(Chunks) /\ Len(answer') <= 1
    <3>1. \A k \in LogTypes \cup Answers : [kind |-> k, point |-> now] \in Chunks
      BY DEF TypeOK, Chunks
    <3>2. <<>> \in Seq(Chunks) /\ Len(<<>>) <= 1
          /\ \A c \in Chunks : <<c>> \in Seq(Chunks) /\ Len(<<c>>) <= 1
      OBVIOUS
    <3>3. CASE answer' = <<>>
      BY <3>2, <3>3, Zenon
    <3>4. CASE \E k \in LogTypes \cup Answers : answer' = <<[kind |-> k, point |-> now]>>
      BY <3>1, <3>2, <3>4, Zenon
    <3> QED
      BY <2>1, <3>3, <3>4
  <2> QED
    BY <1>7, <2>1, <2>2, <2>3 DEF UartRead, TypeOK, Faults, Walking
<1>8. ASSUME NEW n \in 1..Len(wire), Take(n) PROVE TypeOK'
  <2>1. wire' \in Seq(Chunks)
    BY <1>8 DEF Take, TypeOK
  <2> QED
    BY <1>8, <2>1 DEF Take, TypeOK, On, Walking
<1>9. CASE UNCHANGED vars
  BY <1>9 DEF vars, TypeOK, On, Walking
<1> QED
  BY <1>1, <1>2, <1>3, <1>4, <1>5, <1>6, <1>7, <1>8, <1>9 DEF Next, SimStep, Crashed

\* The simulator never leaves its types: a log that is on always has a period that was
\* checked, and the read callback one answer at a time.
THEOREM TypeCorrect == Spec => []TypeOK
  BY TypeInit, TypeNext, PTL DEF Spec

-----------------------------------------------------------------------------
(* The UART is there when it is used: before it is, no log is on, so a tick has     *)
(* nothing to walk.                                                             *)

UartInv ==
    /\ NullUartNeverUsed
    /\ built < 2 => On = {} /\ ~raced /\ ~Walking

\* Nothing is on and nothing walks at first.
LEMMA UartInit == Init => UartInv
  BY Ranks DEF Init, UartInv, NullUartNeverUsed, On, Walking

\* Every step keeps it so.
LEMMA UartNext == TypeOK /\ UartInv /\ [Next]_vars => UartInv'
<1> SUFFICES ASSUME TypeOK, UartInv, [Next]_vars PROVE UartInv'
  OBVIOUS
<1> USE DEF UartInv, NullUartNeverUsed, Walking
<1>0. built \in Nat /\ On \subseteq LogTypes
  BY DEF TypeOK
<1>1. CASE Construct
  BY <1>0, <1>1 DEF Construct, On
<1>2. CASE Tick \/ Advance
  BY <1>2, Ranks DEF Tick, Advance, On
<1>3. CASE WalkBegin
  <2>1. On = {} => walk' = "idle"
    BY <1>0, <1>3, AtOrAfterIsFirst DEF WalkBegin
  <2> QED
    BY <1>3, <2>1, Ranks DEF WalkBegin, On
<1>4. CASE WalkStep \/ WalkNext
  BY <1>0, <1>4 DEF WalkStep, WalkNext, Connected, On
<1>5. CASE WalkStepWild \/ WalkNextWild \/ WalkCrashes
  BY <1>5 DEF WalkStepWild, WalkNextWild, WalkCrashes, On
<1>6. CASE UartWrite
  BY <1>6 DEF UartWrite, On
<1>7. ASSUME NEW words \in Requests, UartRead(words) PROVE UartInv'
  <2>1. fault' \in {fault, "badWord"}
    BY <1>7, RespondEffect DEF UartRead
  <2> QED
    BY <1>0, <1>7, <2>1 DEF UartRead, Listening
<1>8. ASSUME NEW n \in 1..Len(wire), Take(n) PROVE UartInv'
  BY <1>8 DEF Take, On
<1>9. CASE UNCHANGED vars
  BY <1>9 DEF vars, On
<1> QED
  BY <1>1, <1>2, <1>3, <1>4, <1>5, <1>6, <1>7, <1>8, <1>9 DEF Next, SimStep, Crashed

\* The tick callback never uses a UART connection that does not exist, although it can
\* run before there is one.
THEOREM UartIsThere == Spec => []NullUartNeverUsed
<1>1. UartInv => NullUartNeverUsed
  BY DEF UartInv
<1> QED
  BY TypeInit, TypeNext, UartInit, UartNext, <1>1, PTL DEF Spec

-----------------------------------------------------------------------------
(* The walk: without a race, it has written logs before the iterator, and the one    *)
(* it is at if that is done.                                                     *)

WalkInv ==
    Walking /\ ~raced =>
        /\ walk \in On
        /\ \A i \in 1..Len(out) : Rank[out[i]] < Rank[walk] \/ (written /\ out[i] = walk)

\* Nothing walks at first.
LEMMA WalkInit == Init => WalkInv
  BY Ranks DEF Init, WalkInv, Walking

\* A change of the map in the middle of a walk is a race.
LEMMA WalkMap ==
  ASSUME TypeOK, WalkInv, MapChange, UNCHANGED <<walk, written, out>> PROVE WalkInv'
<1>1. raced' = (raced \/ (Walking /\ periodicLogs' # periodicLogs))
      \/ UNCHANGED <<periodicLogs, raced>>
  BY DEF MapChange, Change
<1>2. CASE ~Walking \/ raced'
  BY <1>2 DEF WalkInv, Walking
<1>3. CASE Walking /\ ~raced'
  <2>1. ~raced /\ periodicLogs' = periodicLogs
    BY <1>1, <1>3 DEF TypeOK
  <2> QED
    BY <1>3, <2>1 DEF WalkInv, On, Walking
<1> QED
  BY <1>2, <1>3

\* Every step keeps the walk in its order.
LEMMA WalkKeeps == TypeOK /\ WalkInv /\ [Next]_vars => WalkInv'
<1> SUFFICES ASSUME TypeOK, WalkInv, [Next]_vars PROVE WalkInv'
  OBVIOUS
<1>0. On \subseteq LogTypes /\ walk \in LogTypes \cup {"begun", "idle"}
      /\ out \in Seq(LogTypes) /\ raced \in BOOLEAN /\ written \in BOOLEAN
  BY DEF TypeOK
<1>1. CASE Construct
  BY <1>1, ConstructEffect, WalkMap DEF Construct
<1>2. CASE Tick \/ Advance
  BY <1>2, Ranks DEF Tick, Advance, WalkInv, On, Walking
<1>3. CASE WalkBegin
  <2>1. On' = On /\ walk' = AtOrAfter(1) /\ raced' = raced /\ (~raced => out' = <<>>)
    BY <1>3 DEF WalkBegin, On
  <2>2. walk' = "idle" \/ walk' \in On
    BY <1>0, <2>1, AtOrAfterIsFirst
  <2> QED
    BY <2>1, <2>2, Ranks DEF WalkInv, Walking
<1>4. CASE WalkStep /\ Connected
  <2>1. /\ walk \in On /\ \A i \in 1..Len(out) : Rank[out[i]] < Rank[walk]
        /\ On' = On /\ out' = Append(out, walk) /\ written' /\ walk' = walk
    BY <1>4 DEF WalkStep, WalkInv, On
  <2>2. \A i \in 1..Len(out') : (i \in 1..Len(out) /\ out'[i] = out[i]) \/ out'[i] = walk
    BY <1>0, <2>1
  <2> QED
    BY <2>1, <2>2 DEF WalkInv
<1>5. CASE WalkStep /\ ~Connected
  BY <1>5 DEF WalkStep, WalkInv, On, Walking
<1>6. CASE WalkNext
  <2>1. /\ walk \in On /\ \A i \in 1..Len(out) : Rank[out[i]] < Rank[walk] \/ out[i] = walk
        /\ On' = On /\ out' = out /\ walk' = AtOrAfter(Rank[walk] + 1)
    BY <1>6 DEF WalkNext, WalkInv, On
  <2>2. Rank[walk] + 1 \in Nat /\ Rank[walk] \in 1..5
    BY <1>0, <2>1, Ranks
  <2>3. walk' = "idle" \/ (walk' \in On /\ Rank[walk'] >= Rank[walk] + 1)
    BY <1>0, <2>1, <2>2, AtOrAfterIsFirst
  <2>4. \A i \in 1..Len(out) : Rank[out[i]] \in 1..5
    BY <1>0, Ranks
  <2>5. CASE walk' = "idle"
    BY <2>5, Ranks DEF WalkInv, Walking
  <2>6. CASE walk' \in On /\ Rank[walk'] >= Rank[walk] + 1
    <3>1. Rank[walk'] \in 1..5
      BY <1>0, <2>6, Ranks
    <3>2. \A i \in 1..Len(out) : Rank[out[i]] < Rank[walk']
      BY <2>1, <2>2, <2>4, <2>6, <3>1
    <3> QED
      BY <2>1, <2>6, <3>2 DEF WalkInv
  <2> QED
    BY <2>3, <2>5, <2>6
<1>7. CASE WalkStepWild \/ WalkNextWild \/ WalkCrashes
  BY <1>7 DEF WalkStepWild, WalkNextWild, WalkCrashes, WalkInv
<1>8. CASE UartWrite
  BY <1>8 DEF UartWrite, WalkInv, On, Walking
<1>9. ASSUME NEW words \in Requests, UartRead(words) PROVE WalkInv'
  BY <1>9, RespondEffect, WalkMap DEF UartRead
<1>10. ASSUME NEW n \in 1..Len(wire), Take(n) PROVE WalkInv'
  BY <1>10 DEF Take, WalkInv, On, Walking
<1>11. CASE UNCHANGED vars
  BY <1>11 DEF vars, WalkInv, On, Walking
<1> QED
  BY <1>1, <1>2, <1>3, <1>4, <1>5, <1>6, <1>7, <1>8, <1>9, <1>10, <1>11 DEF Next, SimStep, Crashed

\* Unless the map was changed under it, the iterator is at a log that is on, and what the
\* walk has still to write it has not written before.
THEOREM WalkIsValid == Spec => []IteratorValid
<1>1. TypeOK /\ WalkInv => IteratorValid
  <2> SUFFICES ASSUME TypeOK, WalkInv, Walking, ~raced, NEW i \in 1..Len(out), out[i] \in ToWrite
               PROVE walk \in On /\ FALSE
    BY DEF WalkInv, IteratorValid
  <2>1. /\ out[i] \in LogTypes /\ walk \in LogTypes
        /\ Rank[out[i]] < Rank[walk] \/ (written /\ out[i] = walk)
        /\ Rank[out[i]] > Rank[walk] \/ (out[i] = walk /\ ~written)
    BY DEF TypeOK, WalkInv, ToWrite, Walking
  <2>2. Rank[out[i]] \in 1..5 /\ Rank[walk] \in 1..5
    BY <2>1, Ranks
  <2> QED
    BY <2>1, <2>2
<1> QED
  BY TypeInit, TypeNext, WalkInit, WalkKeeps, <1>1, PTL DEF Spec

-----------------------------------------------------------------------------
(* The refinement: each step is a step of ReceiverLogs or leaves its variables.     *)

\* The first state of the simulator is one of ReceiverLogs.
LEMMA ReceiverInit == Init => Receiver!Init
  BY Ranks DEF Init, Receiver!Init, On, Walking

\* A step that leaves the logs, the walk and the race alone stutters.
LEMMA ReceiverStutters ==
  ASSUME UNCHANGED <<periodicLogs, walk, written, out, raced>> PROVE UNCHANGED Receiver!vars
  BY DEF Receiver!vars, On, ToWrite, Walking

\* A change of the map adds or removes logs between two ticks, or breaks the promise.
LEMMA ReceiverMap ==
  ASSUME TypeOK, MapChange, UNCHANGED <<walk, written, out>>
  PROVE [Receiver!Next]_Receiver!vars
<1>0. /\ On \subseteq LogTypes /\ periodicLogs \in [On -> ValidPeriods]
      /\ On' = DOMAIN periodicLogs' /\ raced \in BOOLEAN /\ raced' \in BOOLEAN
  BY MapTypes DEF TypeOK, On
<1>1. CASE UNCHANGED <<periodicLogs, raced>>
  BY <1>1, ReceiverStutters
<1>2. raced' = (raced \/ (Walking /\ periodicLogs' # periodicLogs))
      \/ UNCHANGED <<periodicLogs, raced>>
  BY DEF MapChange, Change
<1>3. CASE raced
  BY <1>2, <1>3 DEF Receiver!vars
<1>4. CASE ~raced /\ raced'
  BY <1>4 DEF Receiver!Next, Receiver!Break
<1>5. CASE ~raced /\ ~raced' /\ Walking
  <2>1. periodicLogs' = periodicLogs
    BY <1>2, <1>5
  <2>2. raced' = raced
    BY <1>0, <1>5
  <2> QED
    BY <2>1, <2>2, ReceiverStutters
<1>6. CASE ~raced /\ ~raced' /\ ~Walking
  <2>0. /\ raced = FALSE /\ raced' = FALSE
        /\ (IF raced THEN {} ELSE On) = On /\ (IF raced THEN {} ELSE On)' = On'
        /\ (IF raced \/ ~Walking THEN {} ELSE ToWrite) = {}
        /\ (IF raced \/ ~Walking THEN {} ELSE ToWrite)' = {}
        /\ (IF raced THEN <<>> ELSE out)' = IF raced THEN <<>> ELSE out
    BY <1>0, <1>6 DEF Walking
  <2>1. ASSUME NEW l \in LogTypes, NEW p \in ValidPeriods, Change(Inserted(l, p))
        PROVE [Receiver!Next]_Receiver!vars
    <3>1. On' = On \cup {l}
      BY <1>0, <2>1, LogsChange DEF Change
    <3>2. CASE l \in On
      BY <2>0, <3>1, <3>2 DEF Receiver!vars
    <3>3. CASE l \notin On
      BY <2>0, <3>1, <3>3 DEF Receiver!Next, Receiver!Add
    <3> QED
      BY <3>2, <3>3
  <2>2. ASSUME NEW l, Change(Without({l})) PROVE [Receiver!Next]_Receiver!vars
    <3>1. On' = On \ {l}
      BY <1>0, <2>2, LogsChange DEF Change
    <3>2. CASE l \notin On
      <4>1. On' = On
        BY <3>1, <3>2
      <4> QED
        BY <2>0, <4>1 DEF Receiver!vars
    <3>3. CASE l \in On
      BY <1>0, <2>0, <3>1, <3>3 DEF Receiver!Next, Receiver!Remove
    <3> QED
      BY <3>2, <3>3
  <2>3. ASSUME Change(Without(On)) PROVE [Receiver!Next]_Receiver!vars
    <3>1. On' = {}
      <4>1. DOMAIN Without(On) = On \ On
        BY <1>0, LogsChange
      <4>2. On' = DOMAIN Without(On)
        BY <1>0, <2>3 DEF Change
      <4> QED
        BY <4>1, <4>2
    <3> QED
      BY <2>0, <3>1 DEF Receiver!Next, Receiver!RemoveAll
  <2> QED
    BY <1>1, <2>1, <2>2, <2>3 DEF MapChange
<1> QED
  BY <1>0, <1>3, <1>4, <1>5, <1>6

\* Every step of the simulator is a step of ReceiverLogs or a stutter.
LEMMA ReceiverNext == TypeOK /\ WalkInv /\ [Next]_vars => [Receiver!Next]_Receiver!vars
<1> SUFFICES ASSUME TypeOK, WalkInv, [Next]_vars PROVE [Receiver!Next]_Receiver!vars
  OBVIOUS
<1>0. On \subseteq LogTypes /\ walk \in LogTypes \cup {"begun", "idle"} /\ raced \in BOOLEAN
  BY DEF TypeOK
<1>1. CASE Construct
  BY <1>1, ConstructEffect, ReceiverMap DEF Construct
<1>2. CASE Tick
  <2>1. UNCHANGED <<periodicLogs, out, raced>> /\ ~Walking /\ ~Walking'
    BY <1>2, Ranks DEF Tick, Walking
  <2> QED
    BY <2>1 DEF Receiver!vars, On
<1>3. CASE WalkBegin
  <2>1. On' = On /\ ~Walking /\ raced' = raced /\ (~raced => out' = <<>>)
    BY <1>3, Ranks DEF WalkBegin, On, Walking
  <2>2. CASE raced
    BY <2>1, <2>2 DEF Receiver!vars
  <2>3. CASE ~raced
    <3>1. (IF raced \/ ~Walking THEN {} ELSE ToWrite)' \in SUBSET On
      BY <2>1 DEF ToWrite
    <3> QED
      BY <2>1, <2>3, <3>1 DEF Receiver!Next, Receiver!Tick
  <2> QED
    BY <2>2, <2>3
<1>4. CASE WalkStep /\ Connected
  <2>1. /\ walk \in On /\ walk \in LogTypes /\ ~written
        /\ On' = On /\ ~raced /\ raced' = raced /\ out' = Append(out, walk)
        /\ walk' = walk /\ written' /\ Walking /\ Walking'
    BY <1>4 DEF WalkStep, WalkInv, On, Walking
  <2>2. Rank[walk] \in 1..5
    BY <2>1, Ranks
  <2>3. ToWrite' = {l \in On : Rank[l] > Rank[walk]}
    BY <2>1 DEF ToWrite
  <2>4. walk \in ToWrite /\ ToWrite' = ToWrite \ {walk}
    BY <2>1, <2>2, <2>3 DEF ToWrite
  <2> QED
    BY <2>1, <2>4 DEF Receiver!Next, Receiver!Send
<1>5. CASE WalkStep /\ ~Connected
  BY <1>5, ReceiverStutters DEF WalkStep
<1>6. CASE WalkNext
  <2>1. /\ walk \in On /\ written /\ Walking
        /\ On' = On /\ ~raced /\ raced' = raced /\ out' = out
        /\ walk' = AtOrAfter(Rank[walk] + 1) /\ written' = FALSE
    BY <1>6 DEF WalkNext, WalkInv, On
  <2>2. Rank[walk] + 1 \in Nat /\ Rank[walk] \in 1..5 /\ \A l \in On : Rank[l] \in 1..5
    BY <1>0, <2>1, Ranks
  <2>3. ToWrite = {l \in On : Rank[l] > Rank[walk]}
    BY <2>1 DEF ToWrite
  <2>4. CASE walk' = "idle" /\ \A l \in On : Rank[l] < Rank[walk] + 1
    <3>1. ~Walking' /\ ToWrite = {}
      BY <2>2, <2>3, <2>4, Ranks DEF Walking
    <3> QED
      BY <2>1, <3>1 DEF Receiver!vars
  <2>5. CASE /\ walk' \in On /\ Rank[walk'] >= Rank[walk] + 1
             /\ \A k \in On : Rank[k] >= Rank[walk] + 1 => Rank[walk'] <= Rank[k]
    <3>1. \A l \in On : Rank[l] = Rank[walk'] => l = walk'
      BY <1>0, <2>5, Ranks
    <3>2. \A l \in On : (Rank[l] > Rank[walk'] \/ l = walk') <=> Rank[l] > Rank[walk]
      BY <2>2, <2>5, <3>1
    <3>3. ToWrite' = {l \in On : Rank[l] > Rank[walk'] \/ l = walk'}
      BY <2>1 DEF ToWrite
    <3>4. ToWrite' = ToWrite /\ Walking'
      BY <1>0, <2>3, <2>5, <3>2, <3>3 DEF Walking
    <3> QED
      BY <2>1, <3>4 DEF Receiver!vars
  <2> QED
    BY <1>0, <2>1, <2>2, <2>4, <2>5, AtOrAfterIsFirst
<1>7. CASE WalkStepWild \/ WalkNextWild \/ WalkCrashes
  BY <1>7 DEF WalkStepWild, WalkNextWild, WalkCrashes, Receiver!vars
<1>8. CASE UartWrite \/ Advance
  BY <1>8, ReceiverStutters DEF UartWrite, Advance
<1>9. ASSUME NEW words \in Requests, UartRead(words) PROVE [Receiver!Next]_Receiver!vars
  BY <1>9, RespondEffect, ReceiverMap DEF UartRead
<1>10. ASSUME NEW n \in 1..Len(wire), Take(n) PROVE [Receiver!Next]_Receiver!vars
  BY <1>10, ReceiverStutters DEF Take
<1>11. CASE UNCHANGED vars
  BY <1>11, ReceiverStutters DEF vars
<1> QED
  BY <1>1, <1>2, <1>3, <1>4, <1>5, <1>6, <1>7, <1>8, <1>9, <1>10, <1>11 DEF Next, SimStep, Crashed

\* The simulator implements ReceiverLogs, whatever it is asked and however its threads
\* interleave: until a change of the map overlaps a walk, what it sends at a tick is logs
\* that are on, none of them twice.
THEOREM SimImplementsReceiverLogs == Spec => ImplementsReceiverLogs
  BY TypeInit, TypeNext, WalkInit, WalkKeeps, ReceiverInit, ReceiverNext, PTL
  DEF Spec, ImplementsReceiverLogs, Receiver!Spec

-----------------------------------------------------------------------------
(* What a step does to the data points: on the wire, in a walk, and in an answer.   *)

\* No chunk moves; time may go on, and a walk may end.
Waits ==
    /\ UNCHANGED <<wire, answer, walkPoint>>
    /\ now' \in {now, now + 1}
    /\ walk' # "idle" => walk # "idle"

\* A walk takes its data point.
TakesPoint == UNCHANGED <<wire, answer, now>> /\ walkPoint' = now

\* A walk writes.
WalkWrites ==
    /\ \E c \in Chunks : (IsSentence(c) => c.point = walkPoint) /\ wire' = Append(wire, c)
    /\ walk # "idle"
    /\ UNCHANGED <<answer, walkPoint, now>>

\* A command is answered, ...
CommandAnswered ==
    /\ answer = <<>>
    /\ answer' = <<>> \/ \E c \in Chunks : c.point = now /\ answer' = <<c>>
    /\ UNCHANGED <<wire, walk, walkPoint, now>>

\* ... and the answer written.
AnswerWritten ==
    /\ \E c \in Chunks : answer = <<c>> /\ wire' = Append(wire, c)
    /\ answer' = <<>>
    /\ UNCHANGED <<walk, walkPoint, now>>

\* A read answer is one chunk, and what is left of the wire is its end.
LEMMA WireSequences ==
  ASSUME NEW q \in Seq(Chunks)
  PROVE /\ q # <<>> /\ Len(q) <= 1 => Len(q) = 1 /\ q[1] \in Chunks
        /\ \A n \in 1..Len(q) :
              /\ Len(SubSeq(q, n + 1, Len(q))) = Len(q) - n
              /\ \A i \in 1..Len(q) - n :
                    i + n \in 1..Len(q) /\ SubSeq(q, n + 1, Len(q))[i] = q[i + n]
<1>1. q # <<>> /\ Len(q) <= 1 => Len(q) = 1 /\ q[1] \in Chunks
  <2> SUFFICES ASSUME q # <<>>, Len(q) <= 1 PROVE Len(q) = 1 /\ q[1] \in Chunks
    OBVIOUS
  <2>1. Len(q) \in Nat \ {0}
    BY EmptySeq
  <2>2. Len(q) = 1
    BY <2>1
  <2>3. q[1] \in Chunks
    BY <2>2, ElementOfSeq
  <2> QED
    BY <2>2, <2>3
<1>2. ASSUME NEW n \in 1..Len(q)
      PROVE /\ Len(SubSeq(q, n + 1, Len(q))) = Len(q) - n
            /\ \A i \in 1..Len(q) - n :
                  i + n \in 1..Len(q) /\ SubSeq(q, n + 1, Len(q))[i] = q[i + n]
  <2>1. \A i \in n + 1..Len(q) : q[i] \in Chunks
    OBVIOUS
  <2>2. /\ Len(SubSeq(q, n + 1, Len(q))) = IF n + 1 <= Len(q) THEN Len(q) - (n + 1) + 1 ELSE 0
        /\ \A i \in 1..Len(q) - (n + 1) + 1 : SubSeq(q, n + 1, Len(q))[i] = q[n + 1 + i - 1]
    BY <2>1, SubSeqProperties
  <2>3. Len(q) \in Nat /\ n \in Nat /\ n <= Len(q)
    OBVIOUS
  <2>4. Len(q) - (n + 1) + 1 = Len(q) - n /\ \A i \in 1..Len(q) - n : n + 1 + i - 1 = i + n
    BY <2>3
  <2>5. \A i \in 1..Len(q) - n : i + n \in 1..Len(q)
    BY <2>3
  <2>6. Len(SubSeq(q, n + 1, Len(q))) = Len(q) - n
    BY <2>2, <2>3
  <2>7. \A i \in 1..Len(q) - n : SubSeq(q, n + 1, Len(q))[i] = q[i + n]
    BY <2>2, <2>4
  <2> QED
    BY <2>5, <2>6, <2>7
<1> QED
  BY <1>1, <1>2

\* What the types say of the wire.
LEMMA ChunkTypes ==
  ASSUME TypeOK
  PROVE /\ wire \in Seq(Chunks) /\ answer \in Seq(Chunks) /\ Len(answer) <= 1
        /\ now \in Nat /\ walkPoint \in Nat /\ now \in 0..NowMax /\ walkPoint \in 0..NowMax
        /\ \A i \in 1..Len(wire) : wire[i].point \in Nat
<1>1. NowMax \in Nat /\ \A c \in Chunks : c.point \in Nat
  BY SimConstantsAssumption DEF SimConstantsAssumption, Chunks
<1>2. /\ wire \in Seq(Chunks) /\ answer \in Seq(Chunks) /\ Len(answer) <= 1
      /\ now \in 0..NowMax /\ walkPoint \in 0..NowMax
  BY DEF TypeOK
<1>3. \A i \in 1..Len(wire) : wire[i] \in Chunks
  BY <1>2, ElementOfSeq
<1> QED
  BY <1>1, <1>2, <1>3

\* There is no other way for a data point to come on the wire.
LEMMA PointSteps ==
  ASSUME TypeOK, [Next]_vars
  PROVE Waits \/ TakesPoint \/ WalkWrites \/ CommandAnswered \/ AnswerWritten
        \/ \E n \in 1..Len(wire) : Take(n)
<1>0. now \in Nat /\ walkPoint \in 0..NowMax /\ answer \in Seq(Chunks) /\ Len(answer) <= 1
  BY ChunkTypes
<1>1. CASE Construct \/ WalkNext \/ WalkNextWild \/ WalkCrashes \/ Advance \/ UNCHANGED vars
  BY <1>0, <1>1, Ranks DEF Construct, WalkNext, WalkNextWild, WalkCrashes, Advance, vars, Waits, Walking
<1>2. CASE WalkBegin
  <2>1. walk = "begun" /\ UNCHANGED <<wire, answer, walkPoint, now>>
    BY <1>2 DEF WalkBegin
  <2> QED
    BY <2>1 DEF Waits
<1>3. CASE Tick
  BY <1>3 DEF Tick, TakesPoint
<1>4. CASE WalkStep \/ WalkStepWild
  <2>1. \A k \in LogTypes : [kind |-> k, point |-> walkPoint] \in Chunks
    BY <1>0 DEF Chunks
  <2>2. walk \in LogTypes /\ walk # "idle" /\ UNCHANGED <<answer, walkPoint, now, walk>>
    BY <1>4, Ranks DEF WalkStep, WalkStepWild, Walking
  <2>3. CASE WalkStep /\ ~Connected
    BY <1>0, <2>2, <2>3 DEF WalkStep, Waits
  <2>4. CASE (WalkStep /\ Connected) \/ WalkStepWild
    <3>1. \E k \in LogTypes : wire' = Append(wire, [kind |-> k, point |-> walkPoint])
      BY <2>2, <2>4 DEF WalkStep, WalkStepWild
    <3> QED
      BY <2>1, <2>2, <3>1 DEF WalkWrites
  <2> QED
    BY <1>4, <2>3, <2>4
<1>5. CASE UartWrite
  <2>1. Len(answer) = 1 /\ answer[1] \in Chunks
    BY <1>0, <1>5, WireSequences DEF UartWrite
  <2>2. answer = <<answer[1]>>
    BY <1>0, <2>1
  <2>3. wire \o <<answer[1]>> = Append(wire, answer[1])
    BY <2>1, ChunkTypes
  <2> QED
    BY <1>5, <2>1, <2>2, <2>3 DEF UartWrite, AnswerWritten
<1>6. ASSUME NEW words \in Requests, UartRead(words) PROVE CommandAnswered
  <2>1. answer' = <<>> \/ \E k \in LogTypes \cup Answers : answer' = <<[kind |-> k, point |-> now]>>
    BY <1>6, RespondEffect DEF UartRead
  <2>2. \A k \in LogTypes \cup Answers : [kind |-> k, point |-> now] \in Chunks
    BY ChunkTypes DEF Chunks
  <2>3. CASE answer' = <<>>
    BY <1>6, <2>3 DEF UartRead, CommandAnswered
  <2>4. ASSUME NEW k \in LogTypes \cup Answers, answer' = <<[kind |-> k, point |-> now]>>
        PROVE CommandAnswered
    BY <1>6, <2>2, <2>4 DEF UartRead, CommandAnswered
  <2> QED
    BY <2>1, <2>3, <2>4
<1> QED
  BY <1>1, <1>2, <1>3, <1>4, <1>5, <1>6 DEF Next, SimStep, Crashed

-----------------------------------------------------------------------------
(* Sequences in which a sentence may be followed by older ones, of one data point.  *)

\* Chunks, and the reading there is before the first.
Readings == [kind : LogTypes \cup Answers \cup {"none"}, point : 0..NowMax]

\* Data point p comes after place i of q, or may still come, being one of P.
Comes(p, q, i, P) ==
    p \in P \/ \E k \in 1..Len(q) : i < k /\ IsSentence(q[k]) /\ p = q[k].point

\* What comes after a sentence and is older is of one data point.
OneLate(q, P) ==
    \A i \in 1..Len(q) : IsSentence(q[i]) =>
        \A m, n \in Nat : Comes(m, q, i, P) /\ Comes(n, q, i, P) /\ m < q[i].point /\ n < q[i].point => m = n

\* The elements of such a sequence have data points.
LEMMA ReadingPoints == ASSUME NEW q \in Seq(Readings) PROVE \A i \in 1..Len(q) : q[i].point \in Nat
<1>1. \A c \in Readings : c.point \in Nat
  BY SimConstantsAssumption DEF SimConstantsAssumption, Readings
<1>2. \A i \in 1..Len(q) : q[i] \in Readings
  BY ElementOfSeq
<1> QED
  BY <1>1, <1>2

\* One of those that may still come does, if it would not be overtaken twice itself.
LEMMA LateAppend ==
  ASSUME NEW q \in Seq(Readings), NEW c \in Readings, NEW P \in SUBSET Nat, OneLate(q, P),
         IsSentence(c) => c.point \in P /\ \A m, n \in P : m < c.point /\ n < c.point => m = n
  PROVE OneLate(Append(q, c), P)
<1> DEFINE r == Append(q, c)
<1>1. Len(r) = Len(q) + 1 /\ Len(q) \in Nat /\ r[Len(q) + 1] = c /\ \A i \in 1..Len(q) : r[i] = q[i]
  OBVIOUS
<1> HIDE DEF r
<1>2. \A i \in 1..Len(r) : i \in 1..Len(q) \/ i = Len(q) + 1
  BY <1>1
<1> SUFFICES ASSUME NEW i \in 1..Len(r), IsSentence(r[i]), NEW m \in Nat, NEW n \in Nat,
                    Comes(m, r, i, P), Comes(n, r, i, P), m < r[i].point, n < r[i].point
             PROVE m = n
  BY DEF OneLate, r
<1>3. CASE i = Len(q) + 1
  <2>1. ~\E k \in 1..Len(r) : i < k
    BY <1>1, <1>3
  <2>2. m \in P /\ n \in P
    BY <2>1 DEF Comes
  <2> QED
    BY <1>1, <1>3, <2>2
<1>4. CASE i \in 1..Len(q)
  <2>1. ASSUME NEW p, Comes(p, r, i, P) PROVE Comes(p, q, i, P)
    <3>1. ASSUME NEW k \in 1..Len(r), i < k, IsSentence(r[k]), p = r[k].point
          PROVE Comes(p, q, i, P)
      BY <1>1, <1>2, <3>1 DEF Comes
    <3> QED
      BY <2>1, <3>1 DEF Comes
  <2> QED
    BY <1>1, <1>4, <2>1 DEF OneLate
<1> QED
  BY <1>2, <1>3, <1>4

\* What may still come is joined by something that is not older than anything, or less may.
LEMMA LateNewer ==
  ASSUME NEW q \in Seq(Readings), NEW P \in SUBSET Nat, OneLate(q, P), NEW t \in Nat,
         \A i \in 1..Len(q) : IsSentence(q[i]) => q[i].point <= t,
         NEW P2 \in SUBSET (P \cup {t})
  PROVE OneLate(q, P2)
<1>1. \A i \in 1..Len(q) : q[i].point \in Nat
  BY ReadingPoints
<1> SUFFICES ASSUME NEW i \in 1..Len(q), IsSentence(q[i]), NEW m \in Nat, NEW n \in Nat,
                    Comes(m, q, i, P2), Comes(n, q, i, P2), m < q[i].point, n < q[i].point
             PROVE m = n
  BY DEF OneLate
<1>2. \A p \in Nat : p < q[i].point => p # t
  BY <1>1
<1>3. \A p \in Nat : p < q[i].point /\ Comes(p, q, i, P2) => Comes(p, q, i, P)
  BY <1>2 DEF Comes
<1> QED
  BY <1>3 DEF OneLate

\* Some of the sequence is dropped: the first is now the one at place a, and what is
\* behind it was n places further.
LEMMA LateTake ==
  ASSUME NEW q \in Seq(Readings), NEW r \in Seq(Readings), NEW P \in SUBSET Nat, OneLate(q, P),
         NEW a \in 1..Len(q), NEW n \in Nat, a <= n + 1,
         r[1] = q[a],
         \A i \in 2..Len(r) : i + n \in 1..Len(q) /\ r[i] = q[i + n]
  PROVE OneLate(r, P)
<1> DEFINE at(i) == IF i = 1 THEN a ELSE i + n
<1>0. Len(r) \in Nat /\ a \in Nat
  OBVIOUS
<1>1. \A i \in 1..Len(r) : at(i) \in 1..Len(q) /\ r[i] = q[at(i)]
  BY <1>0
<1>2. \A i, k \in 1..Len(r) : i < k => at(i) < at(k)
  BY <1>0
<1> HIDE DEF at
<1>3. ASSUME NEW i \in 1..Len(r), NEW p, Comes(p, r, i, P) PROVE Comes(p, q, at(i), P)
  <2>1. ASSUME NEW k \in 1..Len(r), i < k, IsSentence(r[k]), p = r[k].point
        PROVE Comes(p, q, at(i), P)
    <3>1. at(k) \in 1..Len(q) /\ r[k] = q[at(k)] /\ at(i) < at(k)
      BY <1>1, <1>2, <2>1
    <3> QED
      BY <2>1, <3>1 DEF Comes
  <2> QED
    BY <1>3, <2>1 DEF Comes
<1> QED
  BY <1>1, <1>3 DEF OneLate

-----------------------------------------------------------------------------
(* SimUartReader.  Each step of the composition is a step of the simulator's own       *)
(* specification, or none, as the simulator sees it: the flush and the read take       *)
(* chunks, and a command it receives is one of Requests.  So the invariants above      *)
(* hold here too.                                                              *)

\* The host's variables are in their domains.
HostInv ==
    /\ host \in {"idle", "flushed", "available"}
    /\ host = "flushed" => command \in Requests
    /\ toSim \in Seq(Requests)
    /\ last \in Readings
    /\ flushedAt \in Nat

\* The data points of the sentences that have still to be written.
Pending == {walkPoint} \cup {answer[i].point : i \in {j \in 1..Len(answer) : IsSentence(answer[j])}}

\* Nothing is of a data point that is still to come.
InPast ==
    /\ walkPoint <= now
    /\ \A i \in 1..Len(answer) : answer[i].point <= now
    /\ \A i \in 1..Len(Stream) : IsSentence(Stream[i]) => Stream[i].point <= now

\* Data points no older than the flush, or that were under way then.
Allowed(p) == p >= flushedAt \/ p \in underWay

\* Whatever is on the wire or comes on it without a new data point is of such a one.
FreshInv ==
    /\ flushedAt <= now
    /\ walk # "idle" => Allowed(walkPoint)
    /\ \A i \in 1..Len(answer) : IsSentence(answer[i]) => Allowed(answer[i].point)
    /\ \A i \in 1..Len(wire) : IsSentence(wire[i]) => Allowed(wire[i].point)

ReaderInv == HostInv /\ InPast /\ FreshInv /\ OneLate(Stream, Pending)

\* The chunks are among the readings.
LEMMA ChunksAreReadings == \A c \in Chunks : c \in Readings
  BY DEF Chunks, Readings

\* A sequence is empty after all of it was taken.
LEMMA TakenAll == ASSUME NEW q \in Seq(Chunks) PROVE SubSeq(q, Len(q) + 1, Len(q)) = <<>>
  OBVIOUS

\* The simulator sees the host's steps as its own: chunks taken, or a command.
LEMMA HostIsEnvironment ==
  ASSUME TypeOK, HostInv, [ReaderNext]_allVars PROVE [Next]_vars
<1>1. CASE SimulatorStep
  BY <1>1 DEF SimulatorStep, Next
<1>2. CASE Receive
  <2>1. Head(toSim) \in Requests
    BY <1>2 DEF Receive, HostInv
  <2> QED
    BY <1>2, <2>1 DEF Receive, Next
<1>3. ASSUME NEW words \in Requests, Flush(words) PROVE [Next]_vars
  <2>1. CASE wire = <<>>
    BY <1>3, <2>1 DEF Flush, vars
  <2>2. CASE wire # <<>>
    <3>1. wire \in Seq(Chunks)
      BY ChunkTypes
    <3>2. Len(wire) \in 1..Len(wire)
      BY <2>2, <3>1
    <3>3. Take(Len(wire))
      BY <1>3, <3>1, <3>2, TakenAll DEF Flush, Take
    <3> QED
      BY <3>2, <3>3 DEF Next
  <2> QED
    BY <2>1, <2>2
<1>4. ASSUME NEW reader \in DOMAIN Parsed, ReadPort(reader) PROVE [Next]_vars
  <2>1. available \in 1..Len(wire) /\ Take(available)
    BY <1>4 DEF ReadPort, Take
  <2> QED
    BY <2>1 DEF Next
<1>5. CASE WritePort \/ BytesAvailable \/ NothingToRead \/ UNCHANGED allVars
  BY <1>5 DEF WritePort, BytesAvailable, NothingToRead, allVars
<1> QED
  BY <1>1, <1>2, <1>3, <1>4, <1>5 DEF ReaderNext

\* Every step keeps the host's variables in their domains.
LEMMA HostNext == ASSUME TypeOK, HostInv, [ReaderNext]_allVars PROVE HostInv'
<1> USE DEF HostInv
<1>1. CASE SimulatorStep \/ UNCHANGED allVars
  BY <1>1 DEF SimulatorStep, allVars, hostVars
<1>2. CASE Receive
  <2>1. Tail(toSim) \in Seq(Requests)
    BY <1>2 DEF Receive
  <2> QED
    BY <1>2, <2>1 DEF Receive
<1>3. ASSUME NEW words \in Requests, Flush(words) PROVE HostInv'
  BY <1>3, ChunkTypes DEF Flush
<1>4. CASE WritePort
  <2>1. Append(toSim, command) \in Seq(Requests)
    BY <1>4 DEF WritePort
  <2> QED
    BY <1>4, <2>1 DEF WritePort
<1>5. CASE BytesAvailable \/ NothingToRead
  BY <1>5 DEF BytesAvailable, NothingToRead
<1>6. ASSUME NEW reader \in DOMAIN Parsed, ReadPort(reader) PROVE HostInv'
  <2>1. wire \in Seq(Chunks) /\ available \in 1..Len(wire)
    BY <1>6, ChunkTypes DEF ReadPort, Take
  <2>2. Head(wire) = wire[1] /\ 1 \in 1..Len(wire)
    BY <2>1
  <2>3. Head(wire) \in Readings
    BY <2>1, <2>2, ChunkTypes, ElementOfSeq, ChunksAreReadings
  <2> QED
    BY <1>6, <2>3 DEF ReadPort
<1> QED
  BY <1>1, <1>2, <1>3, <1>4, <1>5, <1>6 DEF ReaderNext

\* The last reading and the wire, as one sequence.
LEMMA StreamShape ==
  ASSUME NEW l \in Readings, NEW w \in Seq(Chunks)
  PROVE /\ <<l>> \o w \in Seq(Readings)
        /\ Len(<<l>> \o w) = Len(w) + 1
        /\ (<<l>> \o w)[1] = l
        /\ \A i \in 2..Len(w) + 1 : i - 1 \in 1..Len(w) /\ (<<l>> \o w)[i] = w[i - 1]
        /\ \A c \in Chunks : <<l>> \o Append(w, c) = Append(<<l>> \o w, c)
<1>1. w \in Seq(Readings) /\ <<l>> \in Seq(Readings)
  BY ChunksAreReadings
<1>2. /\ <<l>> \o w \in Seq(Readings) /\ Len(<<l>> \o w) = Len(w) + 1 /\ (<<l>> \o w)[1] = l
      /\ \A i \in 2..Len(w) + 1 : i - 1 \in 1..Len(w) /\ (<<l>> \o w)[i] = w[i - 1]
  BY <1>1
<1>3. ASSUME NEW c \in Chunks PROVE <<l>> \o Append(w, c) = Append(<<l>> \o w, c)
  BY <1>1, <1>3, ChunksAreReadings
<1> QED
  BY <1>2, <1>3

\* There are at most two sentences to be written, a walk's and an answer.
LEMMA PendingShape ==
  ASSUME TypeOK
  PROVE /\ Pending \in SUBSET Nat
        /\ answer = <<>> => Pending = {walkPoint}
        /\ \A c \in Chunks : answer = <<c>> =>
              Pending = {walkPoint} \cup (IF IsSentence(c) THEN {c.point} ELSE {})
        /\ \A m, n \in Pending : m = n \/ m = walkPoint \/ n = walkPoint
<1>0. walkPoint \in Nat /\ answer \in Seq(Chunks) /\ Len(answer) <= 1 /\ \A c \in Chunks : c.point \in Nat
  BY ChunkTypes, SimConstantsAssumption DEF SimConstantsAssumption, Chunks
<1>1. CASE answer = <<>>
  <2>1. Pending = {walkPoint}
    BY <1>1 DEF Pending
  <2>2. \A c \in Chunks : answer # <<c>>
    BY <1>1
  <2> QED
    BY <1>0, <2>1, <2>2
<1>2. CASE answer # <<>>
  <2>1. Len(answer) = 1 /\ answer[1] \in Chunks
    BY <1>0, <1>2, WireSequences
  <2>2. Pending = {walkPoint} \cup (IF IsSentence(answer[1]) THEN {answer[1].point} ELSE {})
    BY <2>1 DEF Pending
  <2>3. \A c \in Chunks : answer = <<c>> => c = answer[1]
    OBVIOUS
  <2> QED
    BY <1>0, <1>2, <2>1, <2>2, <2>3
<1> QED
  BY <1>1, <1>2

\* A step that takes nothing from the wire leaves at most one data point late.
LEMMA LateSimulator ==
  ASSUME TypeOK, TypeOK', HostInv, InPast, OneLate(Stream, Pending), last' = last,
         Waits \/ TakesPoint \/ WalkWrites \/ CommandAnswered \/ AnswerWritten
  PROVE OneLate(Stream, Pending)'
<1>0. /\ wire \in Seq(Chunks) /\ last \in Readings /\ now \in Nat /\ Pending \in SUBSET Nat
      /\ wire' \in Seq(Chunks) /\ Pending' \in SUBSET Nat /\ Stream \in Seq(Readings)
  <2>1. wire \in Seq(Chunks) /\ last \in Readings /\ now \in Nat /\ Pending \in SUBSET Nat
    BY ChunkTypes, PendingShape DEF HostInv
  <2>2. wire' \in Seq(Chunks)
    BY DEF TypeOK
  <2>3. walkPoint' \in Nat /\ \A i \in 1..Len(answer') : answer'[i].point \in Nat
    <3>1. \A c \in Chunks : c.point \in Nat
      BY SimConstantsAssumption DEF SimConstantsAssumption, Chunks
    <3>2. walkPoint' \in 0..NowMax /\ answer' \in Seq(Chunks)
      BY DEF TypeOK
    <3>3. \A i \in 1..Len(answer') : answer'[i] \in Chunks
      BY <3>2, ElementOfSeq
    <3> QED
      BY <3>1, <3>2, <3>3, SimConstantsAssumption DEF SimConstantsAssumption
  <2>4. Stream \in Seq(Readings)
    BY <2>1, StreamShape DEF Stream
  <2>5. Pending' \in SUBSET Nat
    BY <2>3 DEF Pending
  <2> QED
    BY <2>1, <2>2, <2>4, <2>5
<1>1. CASE Waits
  <2>1. Pending' = Pending /\ Stream' = Stream
    BY <1>1 DEF Waits, Pending, Stream
  <2> QED
    BY <2>1 DEF OneLate, Comes, IsSentence
<1>2. ASSUME wire' = wire, Pending' \subseteq Pending \cup {now} PROVE OneLate(Stream, Pending)'
  <2>1. Stream' = Stream
    BY <1>2 DEF Stream
  <2>2. \A i \in 1..Len(Stream) : IsSentence(Stream[i]) => Stream[i].point <= now
    BY DEF InPast
  <2>3. OneLate(Stream, Pending')
    BY <1>0, <1>2, <2>2, LateNewer
  <2> QED
    BY <2>1, <2>3 DEF OneLate, Comes, IsSentence
<1>3. CASE TakesPoint
  <2>1. Pending' \subseteq Pending \cup {now}
    BY <1>3 DEF TakesPoint, Pending
  <2> QED
    BY <1>2, <1>3, <2>1 DEF TakesPoint
<1>4. CASE CommandAnswered
  <2>1. Pending' \subseteq Pending \cup {now}
    <3>1. \A i \in 1..Len(answer') : answer'[i].point = now
      BY <1>4 DEF CommandAnswered
    <3> QED
      BY <1>4, <3>1 DEF CommandAnswered, Pending
  <2> QED
    BY <1>2, <1>4, <2>1 DEF CommandAnswered
<1>5. ASSUME NEW c \in Chunks, wire' = Append(wire, c),
             IsSentence(c) => c.point \in Pending /\ \A m, n \in Pending : m < c.point /\ n < c.point => m = n,
             Pending' \subseteq Pending
      PROVE OneLate(Stream, Pending)'
  <2>1. Stream' = Append(Stream, c) /\ c \in Readings
    BY <1>0, <1>5, StreamShape, ChunksAreReadings DEF Stream
  <2>2. OneLate(Append(Stream, c), Pending)
    BY <1>0, <1>5, <2>1, LateAppend
  <2>3. OneLate(Append(Stream, c), Pending')
    BY <1>5, <2>2 DEF OneLate, Comes
  <2> QED
    BY <2>1, <2>3 DEF OneLate, Comes, IsSentence
<1>6. CASE WalkWrites
  <2>1. PICK c \in Chunks : (IsSentence(c) => c.point = walkPoint) /\ wire' = Append(wire, c)
    BY <1>6 DEF WalkWrites
  <2>2. walkPoint \in Pending /\ Pending' = Pending
    BY <1>6 DEF WalkWrites, Pending
  <2>3. \A m, n \in Pending : m < walkPoint /\ n < walkPoint => m = n
    BY <1>0, <2>2, PendingShape
  <2> QED
    BY <1>5, <2>1, <2>2, <2>3
<1>7. CASE AnswerWritten
  <2>1. PICK c \in Chunks : answer = <<c>> /\ wire' = Append(wire, c)
    BY <1>7 DEF AnswerWritten
  <2>2. Pending = {walkPoint} \cup (IF IsSentence(c) THEN {c.point} ELSE {})
    BY <2>1, PendingShape
  <2>3. Pending' = {walkPoint}
    BY <1>7 DEF AnswerWritten, Pending
  <2>4. IsSentence(c) => \A m \in Pending : m < c.point => m = walkPoint
    BY <1>0, <2>2
  <2> QED
    BY <1>5, <2>1, <2>2, <2>3, <2>4
<1> QED
  BY <1>1, <1>3, <1>4, <1>6, <1>7

\* Nor does one that takes some, whether the first of it becomes the last reading or not.
LEMMA LateHost ==
  ASSUME TypeOK, TypeOK', HostInv, HostInv', OneLate(Stream, Pending), NEW n \in 1..Len(wire), Take(n),
         last' = last \/ last' = wire[1]
  PROVE OneLate(Stream, Pending)'
<1>0. /\ wire \in Seq(Chunks) /\ wire' \in Seq(Chunks) /\ last \in Readings /\ last' \in Readings
      /\ Pending \in SUBSET Nat /\ Pending' = Pending
  <2>1. wire' \in Seq(Chunks)
    BY DEF TypeOK
  <2>2. Pending' = Pending
    BY DEF Take, Pending
  <2> QED
    BY <2>1, <2>2, ChunkTypes, PendingShape DEF HostInv
<1>1. /\ Stream \in Seq(Readings) /\ Len(Stream) = Len(wire) + 1 /\ Stream[1] = last
      /\ \A i \in 2..Len(wire) + 1 : i - 1 \in 1..Len(wire) /\ Stream[i] = wire[i - 1]
  BY <1>0, StreamShape DEF Stream
<1>2. /\ Stream' \in Seq(Readings) /\ Len(Stream') = Len(wire') + 1 /\ Stream'[1] = last'
      /\ \A i \in 2..Len(wire') + 1 : i - 1 \in 1..Len(wire') /\ Stream'[i] = wire'[i - 1]
  BY <1>0, StreamShape DEF Stream
<1>3. /\ Len(wire') = Len(wire) - n
      /\ \A i \in 1..Len(wire') : i + n \in 1..Len(wire) /\ wire'[i] = wire[i + n]
  BY <1>0, WireSequences DEF Take
<1>4. Len(wire) \in Nat /\ n \in Nat /\ n >= 1 /\ n <= Len(wire)
  BY <1>0
<1>5. \A i \in 2..Len(Stream') : i + n \in 1..Len(Stream) /\ Stream'[i] = Stream[i + n]
  <2> SUFFICES ASSUME NEW i \in 2..Len(Stream') PROVE i + n \in 1..Len(Stream) /\ Stream'[i] = Stream[i + n]
    OBVIOUS
  <2>1. i - 1 \in 1..Len(wire') /\ Stream'[i] = wire'[i - 1]
    BY <1>2
  <2>2. i - 1 + n \in 1..Len(wire) /\ wire'[i - 1] = wire[i - 1 + n]
    BY <1>3, <2>1
  <2>3. i + n \in 2..Len(wire) + 1 /\ (i + n) - 1 = i - 1 + n
    BY <1>4, <2>1, <2>2
  <2>4. Stream[i + n] = wire[i - 1 + n]
    BY <1>1, <2>3
  <2> QED
    BY <1>1, <1>4, <2>1, <2>2, <2>3, <2>4
<1>6. \E a \in 1..Len(Stream) : a <= n + 1 /\ Stream'[1] = Stream[a]
  <2>1. 2 \in 2..Len(wire) + 1 /\ Stream[2] = wire[1]
    BY <1>1, <1>4
  <2> QED
    BY <1>1, <1>2, <1>4, <2>1
<1>7. OneLate(Stream', Pending)
  BY <1>0, <1>1, <1>2, <1>4, <1>5, <1>6, LateTake
<1> QED
  BY <1>0, <1>7 DEF OneLate, Comes, IsSentence

\* A step of the simulator's own leaves everything in the past, and what was taken since
\* the flush, or was under way then, where it was.
LEMMA PointsSimulator ==
  ASSUME TypeOK, TypeOK', HostInv, InPast, FreshInv, UNCHANGED <<last, flushedAt, underWay>>,
         Waits \/ TakesPoint \/ WalkWrites \/ CommandAnswered \/ AnswerWritten
  PROVE InPast' /\ FreshInv'
<1>0. /\ wire \in Seq(Chunks) /\ last \in Readings /\ now \in Nat /\ now' \in Nat /\ walkPoint \in Nat
      /\ answer \in Seq(Chunks) /\ \A c \in Readings : c.point \in Nat
      /\ Stream \in Seq(Readings) /\ flushedAt \in Nat
  <2>1. now' \in Nat
    BY SimConstantsAssumption DEF SimConstantsAssumption, TypeOK
  <2>2. \A c \in Readings : c.point \in Nat
    BY SimConstantsAssumption DEF SimConstantsAssumption, Readings
  <2>3. wire \in Seq(Chunks) /\ answer \in Seq(Chunks) /\ now \in Nat /\ walkPoint \in Nat
    BY ChunkTypes
  <2>4. last \in Readings /\ flushedAt \in Nat
    BY DEF HostInv
  <2>5. Stream \in Seq(Readings)
    BY <2>3, <2>4, StreamShape DEF Stream
  <2> QED
    BY <2>1, <2>2, <2>3, <2>4, <2>5
<1>1. \A i \in 1..Len(Stream) : Stream[i].point \in Nat
  BY <1>0, ReadingPoints
<1>2. \A i \in 1..Len(answer) : answer[i].point \in Nat
  BY <1>0, ElementOfSeq, ChunksAreReadings
<1>3. now <= now' /\ \A p \in Nat : p <= now => p <= now'
  BY <1>0 DEF Waits, TakesPoint, WalkWrites, CommandAnswered, AnswerWritten
<1>4. \A p : Allowed(p)' <=> Allowed(p)
  BY DEF Allowed
<1>5. ASSUME wire' = wire
      PROVE /\ Stream' = Stream
            /\ \A i \in 1..Len(wire) : IsSentence(wire[i]) => Allowed(wire[i].point)
            /\ \A i \in 1..Len(Stream) : IsSentence(Stream[i]) => Stream[i].point <= now'
  BY <1>1, <1>3, <1>5 DEF InPast, FreshInv, Stream
<1>6. flushedAt' <= now' /\ Allowed(now)'
  BY <1>0, <1>3 DEF FreshInv, Allowed
<1>7. CASE Waits
  BY <1>0, <1>2, <1>3, <1>4, <1>5, <1>6, <1>7 DEF Waits, InPast, FreshInv, IsSentence
<1>8. CASE TakesPoint
  BY <1>0, <1>2, <1>3, <1>4, <1>5, <1>6, <1>8 DEF TakesPoint, InPast, FreshInv, IsSentence
<1>9. CASE CommandAnswered
  <2>1. \A i \in 1..Len(answer') : answer'[i].point = now
    BY <1>9 DEF CommandAnswered
  <2> QED
    BY <1>0, <1>3, <1>4, <1>5, <1>6, <1>9, <2>1 DEF CommandAnswered, InPast, FreshInv, IsSentence
<1>10. ASSUME NEW c \in Chunks, wire' = Append(wire, c), IsSentence(c) => Allowed(c.point) /\ c.point <= now,
              now' = now, walkPoint' = walkPoint, walk' # "idle" => walk # "idle",
              answer' = answer \/ answer' = <<>>
       PROVE InPast' /\ FreshInv'
  <2>1. \A i \in 1..Len(wire') : (i \in 1..Len(wire) /\ wire'[i] = wire[i]) \/ wire'[i] = c
    BY <1>0, <1>10
  <2>2. Stream' = Append(Stream, c)
    BY <1>0, <1>10, StreamShape DEF Stream
  <2>3. \A i \in 1..Len(Stream') : (i \in 1..Len(Stream) /\ Stream'[i] = Stream[i]) \/ Stream'[i] = c
    BY <1>0, <2>2
  <2>4. InPast'
    <3>1. walkPoint' <= now' /\ \A i \in 1..Len(answer') : answer'[i].point <= now'
      BY <1>10 DEF InPast
    <3>2. \A i \in 1..Len(Stream') : IsSentence(Stream'[i]) => Stream'[i].point <= now
      BY <1>10, <2>3 DEF InPast
    <3> QED
      BY <1>10, <3>1, <3>2 DEF InPast, IsSentence
  <2>5. \A i \in 1..Len(wire') : IsSentence(wire'[i]) => Allowed(wire'[i].point)
    BY <1>10, <2>1 DEF FreshInv
  <2> QED
    BY <1>4, <1>6, <1>10, <2>4, <2>5 DEF FreshInv, IsSentence, Allowed
<1>11. CASE WalkWrites
  <2>1. PICK c \in Chunks : (IsSentence(c) => c.point = walkPoint) /\ wire' = Append(wire, c)
    BY <1>11 DEF WalkWrites
  <2>2. Allowed(walkPoint) /\ walkPoint <= now
    BY <1>11 DEF WalkWrites, FreshInv, InPast
  <2> QED
    BY <1>10, <1>11, <2>1, <2>2 DEF WalkWrites
<1>12. CASE AnswerWritten
  <2>1. PICK c \in Chunks : answer = <<c>> /\ wire' = Append(wire, c)
    BY <1>12 DEF AnswerWritten
  <2>2. Len(answer) = 1 /\ answer[1] = c
    BY <2>1
  <2>3. IsSentence(c) => Allowed(c.point) /\ c.point <= now
    BY <2>2 DEF FreshInv, InPast
  <2> QED
    BY <1>10, <1>12, <2>1, <2>3 DEF AnswerWritten
<1> QED
  BY <1>7, <1>8, <1>9, <1>11, <1>12

\* Nor does one of the host's: it takes chunks, and only the flush begins a new time.
LEMMA PointsHost ==
  ASSUME TypeOK, TypeOK', HostInv, HostInv', InPast, FreshInv, NEW n \in 1..Len(wire), Take(n),
         last' = last \/ last' = wire[1], UNCHANGED <<flushedAt, underWay>>
  PROVE InPast' /\ FreshInv'
<1>0. /\ wire \in Seq(Chunks) /\ wire' \in Seq(Chunks) /\ last \in Readings /\ last' \in Readings
      /\ 1 \in 1..Len(wire) /\ Len(wire) \in Nat
  BY ChunkTypes DEF HostInv, TypeOK
<1>1. \A i \in 1..Len(wire') : i + n \in 1..Len(wire) /\ wire'[i] = wire[i + n]
  BY <1>0, WireSequences DEF Take
<1>2. /\ Len(Stream) = Len(wire) + 1 /\ Stream[1] = last
      /\ \A i \in 2..Len(wire) + 1 : i - 1 \in 1..Len(wire) /\ Stream[i] = wire[i - 1]
  BY <1>0, StreamShape DEF Stream
<1>3. /\ Len(Stream') = Len(wire') + 1 /\ Stream'[1] = last'
      /\ \A i \in 2..Len(wire') + 1 : i - 1 \in 1..Len(wire') /\ Stream'[i] = wire'[i - 1]
  BY <1>0, StreamShape DEF Stream
<1>4. \A i \in 1..Len(wire) : IsSentence(wire[i]) => wire[i].point <= now
  <2> SUFFICES ASSUME NEW i \in 1..Len(wire) PROVE IsSentence(wire[i]) => wire[i].point <= now
    OBVIOUS
  <2>1. i + 1 \in 2..Len(wire) + 1 /\ (i + 1) - 1 = i /\ i + 1 \in 1..Len(Stream)
    BY <1>0, <1>2
  <2>2. Stream[i + 1] = wire[i]
    BY <1>2, <2>1
  <2> QED
    BY <2>1, <2>2 DEF InPast
<1>5. IsSentence(last) => last.point <= now
  BY <1>0, <1>2 DEF InPast
<1>6. ASSUME NEW i \in 1..Len(Stream'), IsSentence(Stream'[i]) PROVE Stream'[i].point <= now
  <2>1. CASE i = 1
    BY <1>0, <1>3, <1>4, <1>5, <1>6, <2>1
  <2>2. CASE i # 1
    <3>1. i - 1 \in 1..Len(wire') /\ Stream'[i] = wire'[i - 1]
      BY <1>0, <1>3, <2>2
    <3> QED
      BY <1>1, <1>4, <1>6, <3>1
  <2> QED
    BY <2>1, <2>2
<1>7. UNCHANGED <<walk, walkPoint, answer, now>>
  BY DEF Take
<1>8. InPast'
  BY <1>6, <1>7 DEF InPast, IsSentence
<1>9. FreshInv'
  BY <1>1, <1>7 DEF FreshInv, Allowed, IsSentence
<1> QED
  BY <1>8, <1>9
-----------------------------------------------------------------------------
(* The composition keeps its invariant. *)

\* The simulator is up, nothing is on the wire, and no reading has been made.
LEMMA ReaderStarts == ReaderInit => TypeOK /\ ReaderInv
<1> SUFFICES ASSUME ReaderInit PROVE TypeOK /\ ReaderInv
  OBVIOUS
<1> USE SimConstantsAssumption, ReaderConstantsAssumption
    DEF SimConstantsAssumption, ReaderConstantsAssumption, ReaderInit, HostInit
<1>1. TypeOK
  <2>1. On \subseteq LogTypes /\ periodicLogs \in [On -> ValidPeriods]
    BY DEF On, ValidPeriods
  <2>2. wire \in Seq(Chunks) /\ answer \in Seq(Chunks) /\ Len(answer) <= 1 /\ out \in Seq(LogTypes)
    OBVIOUS
  <2>3. built \in 0..ConstructorSteps /\ walkPoint \in 0..NowMax /\ now \in 0..NowMax
    BY DEF ConstructorSteps
  <2>4. walk = "idle" /\ fault \in Faults /\ raced \in BOOLEAN /\ written = FALSE
    BY Zenon DEF Faults
  <2> QED
    BY <2>1, <2>2, <2>3, <2>4, Zenon DEF TypeOK
<1>2. HostInv
  BY DEF HostInv, Readings
<1>3. Len(Stream) = 1 /\ Stream[1] = [kind |-> "none", point |-> 0]
  BY DEF Stream
<1>4. ~IsSentence([kind |-> "none", point |-> 0])
  BY DEF IsSentence, LogTypes
<1>5. InPast
  BY <1>3, <1>4 DEF InPast
<1>6. FreshInv
  BY DEF FreshInv
<1>7. OneLate(Stream, Pending)
  BY <1>3, <1>4 DEF OneLate
<1> QED
  BY <1>1, <1>2, <1>5, <1>6, <1>7 DEF ReaderInv

\* Every step of the composition keeps it: the simulator's, those that take chunks, and the
\* flush, after which the wire is empty and what is in hand is under way.
LEMMA ReaderKeeps ==
  ASSUME TypeOK, ReaderInv, [ReaderNext]_allVars PROVE TypeOK' /\ ReaderInv'
<1>0. HostInv /\ InPast /\ FreshInv /\ OneLate(Stream, Pending)
  BY DEF ReaderInv
<1>1. [Next]_vars
  BY <1>0, HostIsEnvironment
<1>2. TypeOK' /\ HostInv'
  BY <1>0, <1>1, TypeNext, HostNext
<1>3. Waits \/ TakesPoint \/ WalkWrites \/ CommandAnswered \/ AnswerWritten
      \/ \E n \in 1..Len(wire) : Take(n)
  BY <1>1, PointSteps
<1>4. ASSUME UNCHANGED <<last, flushedAt, underWay>> PROVE ReaderInv'
  BY <1>0, <1>2, <1>3, <1>4, LateSimulator, LateHost, PointsSimulator, PointsHost DEF ReaderInv
<1>5. ASSUME NEW words \in Requests, Flush(words) PROVE ReaderInv'
  <2>1. /\ wire \in Seq(Chunks) /\ wire' = <<>> /\ last' = last /\ flushedAt' = now /\ underWay' = InHand
        /\ UNCHANGED <<walk, walkPoint, answer, now>> /\ now \in Nat
    BY <1>5, ChunkTypes DEF Flush
  <2>2. OneLate(Stream, Pending)' /\ InPast'
    <3>1. Len(Stream') = 1 /\ Stream'[1] = last /\ Len(Stream) = Len(wire) + 1 /\ Stream[1] = last
      BY <1>0, <2>1, StreamShape DEF Stream, HostInv
    <3>2. 1 \in 1..Len(Stream) /\ Len(wire) \in Nat
      BY <2>1, <3>1
    <3>3. InPast'
      BY <1>0, <2>1, <3>1, <3>2 DEF InPast, IsSentence
    <3>4. Pending' = Pending
      BY <2>1 DEF Pending
    <3>5. \A p : Comes(p, Stream', 1, Pending) => Comes(p, Stream, 1, Pending)
      BY <3>1 DEF Comes
    <3>6. OneLate(Stream', Pending)
      BY <1>0, <3>1, <3>2, <3>5 DEF OneLate
    <3> QED
      BY <3>3, <3>4, <3>6 DEF OneLate, Comes, IsSentence
  <2>3. FreshInv'
    BY <2>1 DEF FreshInv, Allowed, InHand
  <2> QED
    BY <1>2, <2>2, <2>3 DEF ReaderInv
<1>6. ASSUME NEW reader \in DOMAIN Parsed, ReadPort(reader) PROVE ReaderInv'
  <2>1. available \in 1..Len(wire) /\ Take(available) /\ UNCHANGED <<flushedAt, underWay>>
    BY <1>6 DEF ReadPort, Take
  <2>2. last' = last \/ last' = wire[1]
    <3>1. Head(wire) = wire[1]
      BY <2>1, ChunkTypes
    <3> QED
      BY <1>6, <3>1 DEF ReadPort
  <2> QED
    BY <1>0, <1>2, <2>1, <2>2, LateHost, PointsHost DEF ReaderInv
<1> QED
  BY <1>2, <1>4, <1>5, <1>6 DEF ReaderNext, SimulatorStep, Receive, WritePort, BytesAvailable,
     NothingToRead, allVars, hostVars

\* So it holds throughout.
LEMMA ReaderInvariant == ReaderSpec => [](TypeOK /\ ReaderInv)
<1>1. TypeOK /\ ReaderInv /\ [ReaderNext]_allVars => (TypeOK /\ ReaderInv)'
  BY ReaderKeeps
<1> QED
  BY <1>1, ReaderStarts, PTL DEF ReaderSpec

\* What comes after a sentence and is older than it is of one data point, whatever is asked
\* for once, however the two threads that write interleave with the library, and even after
\* a race: neither thread has more than one data point in hand.
THEOREM AtMostOneIsLate == ReaderSpec => []OneOvertaken
<1>1. TypeOK /\ ReaderInv => OneOvertaken
  <2> SUFFICES ASSUME TypeOK, ReaderInv,
                      NEW i \in 1..Len(Stream), NEW j \in 1..Len(Stream), NEW k \in 1..Len(Stream),
                      i < j, i < k, Older(Stream[j], Stream[i]), Older(Stream[k], Stream[i])
               PROVE Stream[j].point = Stream[k].point
    BY DEF OneOvertaken
  <2>1. Stream \in Seq(Readings)
    BY ChunkTypes, StreamShape DEF ReaderInv, HostInv, Stream
  <2>2. Stream[j].point \in Nat /\ Stream[k].point \in Nat
    BY <2>1, ReadingPoints
  <2>3. /\ IsSentence(Stream[i]) /\ Stream[j].point < Stream[i].point /\ Stream[k].point < Stream[i].point
        /\ Comes(Stream[j].point, Stream, i, Pending) /\ Comes(Stream[k].point, Stream, i, Pending)
    BY DEF Older, Comes
  <2> QED
    BY <2>2, <2>3 DEF ReaderInv, OneLate
<1> QED
  BY <1>1, ReaderInvariant, PTL

\* A reading that is made after a command is no older than the flush before it, or of a data
\* point that one of the simulator's two threads had in hand at that moment: nothing that
\* waited on the port is left to be read.
THEOREM ReadingsAreFresh == ReaderSpec => FreshAfterCommand
<1> DEFINE Fresh == outcome' = "reading" /\ host = "available" /\ host' = "idle"
                       => last'.point >= flushedAt \/ last'.point \in underWay
<1>1. TypeOK /\ ReaderInv /\ [ReaderNext]_allVars => [Fresh]_allVars
  <2> SUFFICES ASSUME TypeOK, ReaderInv, [ReaderNext]_allVars, ~(UNCHANGED allVars),
                      outcome' = "reading", host = "available", host' = "idle"
               PROVE last'.point >= flushedAt \/ last'.point \in underWay
    OBVIOUS
  <2>1. PICK reader \in DOMAIN Parsed : ReadPort(reader)
    BY DEF ReaderNext, SimulatorStep, Receive, Flush, WritePort, BytesAvailable, NothingToRead,
       allVars, hostVars
  <2>2. available \in 1..Len(wire) /\ last' = Head(wire) /\ Head(wire).kind \in Parsed[reader]
    BY <2>1 DEF ReadPort, Take
  <2>3. 1 \in 1..Len(wire) /\ Head(wire) = wire[1]
    BY <2>2, ChunkTypes
  <2>4. IsSentence(wire[1])
    BY <2>2, <2>3 DEF Parsed, IsSentence, LogTypes
  <2> QED
    BY <2>2, <2>3, <2>4 DEF ReaderInv, FreshInv, Allowed
<1> QED
  BY <1>1, ReaderInvariant, PTL DEF ReaderSpec, FreshAfterCommand

\* What the flight software does at its end of the UART does not make the simulator
\* break its promise: whatever it sends and whenever it flushes and reads, every step of
\* the composition is one ReceiverLogs allows, from any set of logs that are on at the start.
THEOREM PromiseKeptUnderLoad == ReaderSpec => [][Receiver!Next]_Receiver!vars
<1>1. ReaderInit => TypeOK /\ HostInv /\ WalkInv
  BY ReaderStarts, Ranks DEF ReaderInv, ReaderInit, WalkInv, Walking
<1>2. TypeOK /\ HostInv /\ WalkInv /\ [ReaderNext]_allVars
        => (TypeOK /\ HostInv /\ WalkInv)' /\ [Receiver!Next]_Receiver!vars
  BY HostIsEnvironment, HostNext, TypeNext, WalkKeeps, ReceiverNext
<1> QED
  BY <1>1, <1>2, PTL DEF ReaderSpec
=============================================================================
