------------------------ MODULE FprimeComponentProofs ------------------------
(***************************************************************************)
(* What FprimeComponent's run "telemetry" checks, for every length of the queue   *)
(* and every number of sentences and commands.                                   *)
(***************************************************************************)
EXTENDS FprimeComponent, TLAPS

\* The rest of a read, and of a pass over the channels.
Todos == {<<>>, <<"x", "v">>, <<"v">>, <<"lat", "lon">>, <<"lon">>}
Rests == {<<>>, <<"x", "v", "lat", "lon">>, <<"v", "lat", "lon">>, <<"lat", "lon">>, <<"lon">>}

\* What the steps of a read and of a pass take off.
LEMMA Tails ==
  /\ Head(<<"x", "v">>) = "x" /\ Tail(<<"x", "v">>) = <<"v">>
  /\ Head(<<"v">>) = "v" /\ Tail(<<"v">>) = <<>>
  /\ Head(<<"lat", "lon">>) = "lat" /\ Tail(<<"lat", "lon">>) = <<"lon">>
  /\ Head(<<"lon">>) = "lon" /\ Tail(<<"lon">>) = <<>>
  /\ Head(<<"x", "v", "lat", "lon">>) = "x"
  /\ Tail(<<"x", "v", "lat", "lon">>) = <<"v", "lat", "lon">>
  /\ Head(<<"v", "lat", "lon">>) = "v"
  /\ Tail(<<"v", "lat", "lon">>) = <<"lat", "lon">>
  OBVIOUS

\* The words a read writes and the channels are sequences of words.
LEMMA RestsAreWords ==
  /\ \A t \in Todos : t \in Seq(Words)
  /\ \A r \in Rests : r \in Seq(Words)
  BY DEF Todos, Rests, Words

-----------------------------------------------------------------------------
(* Types. *)

TypeInv == TypeOK /\ todo \in Todos /\ channels \in Rests

\* The initial state is well typed.
LEMMA TypeInit == Init => TypeInv
  BY FprimeConstantsAssumption, RestsAreWords
  DEF FprimeConstantsAssumption, Init, TypeInv, TypeOK, None, Nothing, Message, Todos, Rests

\* A handler's end keeps the types.
LEMMA TypeFinish ==
  ASSUME TypeInv, Finish PROVE handling' \in Message /\ answers' \in Seq(0..CommandMax)
<1>1. handling' \in Message
  BY FprimeConstantsAssumption DEF FprimeConstantsAssumption, Finish, Nothing, Message
<1>2. handling.seq \in 0..CommandMax /\ answers \in Seq(0..CommandMax)
  BY DEF TypeInv, TypeOK, Message
<1>3. Append(answers, handling.seq) \in Seq(0..CommandMax)
  BY <1>2
<1>4. answers' = Append(answers, handling.seq) \/ answers' = answers
  BY DEF Finish
<1> QED
  BY <1>1, <1>2, <1>3, <1>4

\* Every step keeps the types.
LEMMA TypeNext == TypeInv /\ [Next]_vars => TypeInv'
<1> SUFFICES ASSUME TypeInv, [Next]_vars PROVE TypeInv'
  OBVIOUS
<1> USE FprimeConstantsAssumption DEF FprimeConstantsAssumption, TypeInv, TypeOK
<1>1. ASSUME NEW p \in Ports, RateGroup(p) PROVE TypeInv'
  <2>1. [name |-> p, seq |-> 0] \in Message
    BY DEF Message
  <2> QED
    BY <1>1, <2>1 DEF RateGroup
<1>2. ASSUME NEW c \in Commands, SendCommand(c) PROVE TypeInv'
  <2>1. commands' \in 0..CommandMax
    BY <1>2 DEF SendCommand
  <2>2. [name |-> c, seq |-> commands'] \in Message
    BY <2>1 DEF Message
  <2> QED
    BY <1>2, <2>1, <2>2 DEF SendCommand
<1>3. CASE Dispatch
  <2>1. handling' \in Message /\ queue' \in Seq(Message)
    BY <1>3 DEF Dispatch
  <2>2. channels' \in Rests
    BY <1>3 DEF Dispatch, Rests, Channels
  <2> QED
    BY <1>3, <2>1, <2>2, RestsAreWords DEF Dispatch
<1>4. ASSUME NEW k \in Kinds, ReadSucceeds(k) PROVE TypeInv'
  <2>1. todo' \in Todos
    BY <1>4 DEF ReadSucceeds, Kinds, WordsOf, Todos
  <2>2. reads' \in 0..ReadMax
    BY <1>4 DEF ReadSucceeds
  <2> QED
    BY <1>4, <2>1, <2>2, RestsAreWords DEF ReadSucceeds
<1>5. CASE ParseWord
  <2>1. todo' \in Todos
    BY <1>5, Tails DEF ParseWord, Todos
  <2>2. channels' \in Rests
    BY <1>5 DEF ParseWord, Rests, Channels
  <2>3. data' \in [Words -> 0..ReadMax]
    BY <1>5 DEF ParseWord
  <2>4. handling' \in Message
    BY <1>5 DEF ParseWord, Message, Nothing
  <2> QED
    BY <1>5, <2>1, <2>2, <2>3, <2>4, RestsAreWords DEF ParseWord
<1>6. CASE Fail
  BY <1>6, TypeFinish DEF Fail
<1>7. CASE CommandDevice
  BY <1>7, TypeFinish DEF CommandDevice
<1>8. CASE WriteChannel
  <2>1. channels' \in Rests
    BY <1>8, Tails DEF WriteChannel, Rests
  <2>2. tlm' \in [Words -> 0..ReadMax]
    <3>1. Head(channels) \in Words
      BY <1>8, Tails DEF WriteChannel, Rests, Words
    <3> QED
      BY <1>8, <3>1 DEF WriteChannel
  <2>3. handling' \in Message /\ answers' \in Seq(0..CommandMax)
    BY <1>8, TypeFinish DEF WriteChannel
  <2> QED
    BY <1>8, <2>1, <2>2, <2>3, RestsAreWords DEF WriteChannel
<1>9. CASE UNCHANGED vars
  BY <1>9 DEF vars
<1> QED
  BY <1>1, <1>2, <1>3, <1>4, <1>5, <1>6, <1>7, <1>8, <1>9 DEF Next, Thread

\* The component never leaves its types.
THEOREM TypeCorrect == Spec => []TypeOK
<1>1. TypeInv => TypeOK
  BY DEF TypeInv
<1> QED
  BY TypeInit, TypeNext, <1>1, PTL DEF Spec

-----------------------------------------------------------------------------
(* Whole telemetry.  The inductive invariant says, for each point of a read and   *)
(* of a pass over the channels, which words are already those of the sentence,     *)
(* and that the two never overlap: this is what the one thread gives.             *)

OneAtATime ==
    /\ todo # <<>> => channels = <<>> /\ Is({"updateData", "REQUEST_DATA"})
    /\ channels # <<>> => Is({"updateTlm", "REQUEST_DATA"})

DataSoFar ==
    /\ todo \in {<<>>, <<"x", "v">>, <<"lat", "lon">>} => Whole(data)
    /\ todo = <<"v">> => data["x"] = reads /\ data["lat"] = data["lon"]
    /\ todo = <<"lon">> => data["lat"] = reads /\ data["x"] = data["v"]

TlmSoFar ==
    /\ channels \in {<<>>, <<"x", "v", "lat", "lon">>} => Whole(tlm)
    /\ channels = <<"v", "lat", "lon">> => tlm["x"] = data["x"] /\ tlm["lat"] = tlm["lon"]
    /\ channels = <<"lat", "lon">> => Whole(tlm)
    /\ channels = <<"lon">> => tlm["lat"] = data["lat"] /\ tlm["x"] = tlm["v"]

WholeInv == OneAtATime /\ DataSoFar /\ TlmSoFar /\ Whole(gps)

\* The ten rests are different sequences.
LEMMA RestsDiffer ==
  /\ \A t \in Todos : t # <<>> => t[1] \in Words
  /\ <<"x", "v">> # <<>> /\ <<"v">> # <<>> /\ <<"lat", "lon">> # <<>> /\ <<"lon">> # <<>>
  /\ <<"x", "v">> # <<"v">> /\ <<"x", "v">> # <<"lat", "lon">> /\ <<"x", "v">> # <<"lon">>
  /\ <<"v">> # <<"lat", "lon">> /\ <<"v">> # <<"lon">> /\ <<"lat", "lon">> # <<"lon">>
  /\ Channels # <<>> /\ Channels # <<"v", "lat", "lon">> /\ Channels # <<"lat", "lon">>
  /\ Channels # <<"lon">>
  /\ <<"v", "lat", "lon">> # <<>> /\ <<"v", "lat", "lon">> # <<"lat", "lon">>
  /\ <<"v", "lat", "lon">> # <<"lon">>
  BY DEF Todos, Words, Channels

\* Nothing has been read or reported yet.
LEMMA WholeInit == Init => WholeInv
  BY DEF Init, WholeInv, OneAtATime, DataSoFar, TlmSoFar, Whole, None, Words

\* Nothing but a handler touches the data and the telemetry.
LEMMA WholeUntouched ==
  ASSUME WholeInv, UNCHANGED <<todo, channels, data, tlm, gps, reads>>,
         todo # <<>> \/ channels # <<>> => handling' = handling
  PROVE WholeInv'
  BY DEF WholeInv, OneAtATime, DataSoFar, TlmSoFar, Whole, Is

\* The first word of a sentence, and the last one.
LEMMA WholeParse == ASSUME TypeInv, WholeInv, ParseWord PROVE WholeInv'
<1> USE DEF Whole
<1>1. data \in [Words -> 0..ReadMax] /\ todo \in Todos /\ channels \in Rests
  BY DEF TypeInv, TypeOK
<1>2. channels = <<>> /\ Is({"updateData", "REQUEST_DATA"}) /\ Whole(tlm)
  BY DEF ParseWord, WholeInv, OneAtATime, TlmSoFar
<1>3. CASE todo = <<"x", "v">> \/ todo = <<"lat", "lon">>
  <2>1. Len(todo) = 2
    BY <1>3
  <2>2. UNCHANGED <<handling, gps, channels, reads, tlm>>
    BY <2>1 DEF ParseWord
  <2>3. DataSoFar'
    BY <1>1, <1>3, <2>2, Tails, RestsDiffer DEF ParseWord, WholeInv, DataSoFar, Words
  <2> QED
    BY <1>2, <2>2, <2>3 DEF WholeInv, OneAtATime, TlmSoFar, Is
<1>4. CASE todo = <<"v">> \/ todo = <<"lon">>
  <2>1. Len(todo) = 1 /\ todo' = <<>>
    BY <1>4, Tails DEF ParseWord
  <2>2. Whole(data')
    BY <1>1, <1>4, Tails, RestsDiffer DEF ParseWord, WholeInv, DataSoFar, Words
  <2>3. DataSoFar'
    BY <2>1, <2>2, RestsDiffer DEF DataSoFar
  <2>4. Whole(gps')
    BY <2>1, <2>2 DEF ParseWord, WholeInv
  <2>5. channels' = <<>> \/ (channels' = Channels /\ Is({"REQUEST_DATA"}))
    BY <1>2, <2>1 DEF ParseWord
  <2>6. channels' # <<>> => handling' = handling
    BY <1>2, <2>1, <2>5 DEF ParseWord, Is
  <2>7. OneAtATime'
    BY <2>1, <2>5, <2>6 DEF OneAtATime, Is
  <2>8. TlmSoFar'
    BY <1>2, <2>5, RestsDiffer DEF ParseWord, TlmSoFar, Channels
  <2> QED
    BY <2>3, <2>4, <2>7, <2>8 DEF WholeInv
<1> QED
  BY <1>1, <1>3, <1>4 DEF ParseWord, Todos

\* The four channels, one by one.
LEMMA WholeWrite == ASSUME TypeInv, WholeInv, WriteChannel PROVE WholeInv'
<1> USE DEF Whole
<1>1. tlm \in [Words -> 0..ReadMax] /\ channels \in Rests
  BY DEF TypeInv, TypeOK
<1>2. Whole(data) /\ UNCHANGED <<data, gps, reads, todo>> /\ todo = <<>>
  BY DEF WriteChannel, WholeInv, OneAtATime, DataSoFar
<1>3. DataSoFar' /\ Whole(gps)'
  BY <1>2 DEF WholeInv, DataSoFar
<1>4. TlmSoFar'
  <2>1. CASE channels = <<"x", "v", "lat", "lon">>
    BY <1>1, <1>2, <2>1, Tails, RestsDiffer
    DEF WriteChannel, WholeInv, TlmSoFar, Words, Channels
  <2>2. CASE channels = <<"v", "lat", "lon">>
    BY <1>1, <1>2, <2>2, Tails, RestsDiffer
    DEF WriteChannel, WholeInv, TlmSoFar, Words, Channels
  <2>3. CASE channels = <<"lat", "lon">>
    BY <1>1, <1>2, <2>3, Tails, RestsDiffer
    DEF WriteChannel, WholeInv, TlmSoFar, Words, Channels
  <2>4. CASE channels = <<"lon">>
    BY <1>1, <1>2, <2>4, Tails, RestsDiffer
    DEF WriteChannel, WholeInv, TlmSoFar, Words, Channels
  <2> QED
    BY <1>1, <2>1, <2>2, <2>3, <2>4 DEF WriteChannel, Rests
<1>5. OneAtATime'
  <2>1. Len(channels) = 1 => channels' = <<>>
    BY <1>1 DEF WriteChannel, Rests
  <2>2. Len(channels) # 1 => UNCHANGED handling
    BY DEF WriteChannel
  <2> QED
    BY <1>2, <2>1, <2>2 DEF WriteChannel, WholeInv, OneAtATime, Is
<1> QED
  BY <1>3, <1>4, <1>5 DEF WholeInv

\* Every step keeps the invariant.
LEMMA WholeNext == TypeInv /\ WholeInv /\ [Next]_vars => WholeInv'
<1> SUFFICES ASSUME TypeInv, WholeInv, [Next]_vars PROVE WholeInv'
  OBVIOUS
<1>1. ASSUME NEW p \in Ports, RateGroup(p) PROVE WholeInv'
  BY <1>1, WholeUntouched DEF RateGroup
<1>2. ASSUME NEW c \in Commands, SendCommand(c) PROVE WholeInv'
  BY <1>2, WholeUntouched DEF SendCommand
<1>3. CASE Dispatch
  <2>1. todo = <<>> /\ channels = <<>>
    BY <1>3 DEF Dispatch, WholeInv, OneAtATime, Is, Nothing
  <2>2. channels' = <<>> \/ (channels' = Channels /\ handling'.name = "updateTlm")
    BY <1>3 DEF Dispatch
  <2>3. OneAtATime'
    BY <1>3, <2>1, <2>2 DEF Dispatch, OneAtATime, Is
  <2>4. TlmSoFar'
    BY <1>3, <2>1, <2>2, RestsDiffer DEF Dispatch, WholeInv, TlmSoFar, Channels, Whole
  <2> QED
    BY <1>3, <2>3, <2>4 DEF Dispatch, WholeInv, DataSoFar, Whole
<1>4. ASSUME NEW k \in Kinds, ReadSucceeds(k) PROVE WholeInv'
  <2>1. todo = <<>> /\ channels = <<>> /\ Is({"updateData", "REQUEST_DATA"})
    BY <1>4 DEF ReadSucceeds, Idle
  <2>2. todo' \in {<<"x", "v">>, <<"lat", "lon">>}
    BY <1>4 DEF ReadSucceeds, Kinds, WordsOf
  <2>3. DataSoFar'
    BY <1>4, <2>1, <2>2, RestsDiffer DEF ReadSucceeds, WholeInv, DataSoFar, Whole
  <2> QED
    BY <1>4, <2>1, <2>3 DEF ReadSucceeds, WholeInv, OneAtATime, TlmSoFar, Whole, Is
<1>5. CASE ParseWord
  BY <1>5, WholeParse
<1>6. CASE Fail
  BY <1>6, WholeUntouched DEF Fail, Idle
<1>7. CASE CommandDevice
  <2>1. Idle
    BY <1>7 DEF CommandDevice, WholeInv, OneAtATime, Is, DeviceCommands, Idle
  <2> QED
    BY <1>7, <2>1, WholeUntouched DEF CommandDevice, Idle
<1>8. CASE WriteChannel
  BY <1>8, WholeWrite
<1>9. CASE UNCHANGED vars
  BY <1>9, WholeUntouched DEF vars
<1> QED
  BY <1>1, <1>2, <1>3, <1>4, <1>5, <1>6, <1>7, <1>8, <1>9 DEF Next, Thread

\* Whatever comes into the queue and whenever, GPSout sends whole sentences, and the
\* channels are those of whole sentences between two handlers.
THEOREM TelemetryIsWhole == Spec => []TelemetryWhole
<1>1. WholeInv => TelemetryWhole
  BY DEF WholeInv, OneAtATime, TlmSoFar, TelemetryWhole, Is, Nothing
<1> QED
  BY TypeInit, TypeNext, WholeInit, WholeNext, <1>1, PTL DEF Spec

-----------------------------------------------------------------------------
(* Answers in order.  What is in the queue must be said without counting: the     *)
(* commands in it have the numbers after the last one dispatched, each of them,     *)
(* in their order.                                                             *)

\* The last command taken from the queue.
Dispatched == IF Is(Commands) THEN handling.seq ELSE Len(answers)

Increasing(q) ==
    \A i, j \in 1..Len(q) :
        i < j /\ q[i].name \in Commands /\ q[j].name \in Commands => q[i].seq < q[j].seq

\* q has the commands numbered from+1 to upto, and no others.
Holds(q, from, upto) ==
    /\ \A i \in 1..Len(q) : q[i].name \in Commands => q[i].seq \in from + 1..upto
    /\ \A n \in from + 1..upto : \E i \in 1..Len(q) : q[i].name \in Commands /\ q[i].seq = n

OrderInv ==
    /\ Is(Commands) => handling.seq = Len(answers) + 1
    /\ Dispatched <= commands
    /\ Increasing(queue)
    /\ Holds(queue, Dispatched, commands)

\* No command has been sent.
LEMMA OrderInit == Init => OrderInv
  BY FprimeConstantsAssumption
  DEF FprimeConstantsAssumption, Init, OrderInv, Dispatched, Increasing, Holds, Is, Nothing,
      Commands, DeviceCommands

\* A message that is no command changes nothing in the order.
LEMMA OrderOther ==
  ASSUME NEW q \in Seq(Message), NEW m \in Message, m.name \notin Commands,
         NEW from \in Nat, NEW upto \in Nat, Increasing(q), Holds(q, from, upto)
  PROVE Increasing(Append(q, m)) /\ Holds(Append(q, m), from, upto)
<1>1. /\ Len(Append(q, m)) = Len(q) + 1
      /\ \A i \in 1..Len(q) : Append(q, m)[i] = q[i]
      /\ Append(q, m)[Len(q) + 1] = m
  OBVIOUS
<1>2. Len(q) \in Nat
  OBVIOUS
<1> QED
  BY <1>1, <1>2 DEF Increasing, Holds

\* The next command goes to the end.
LEMMA OrderNewest ==
  ASSUME NEW q \in Seq(Message), NEW m \in Message, m.name \in Commands,
         NEW from \in Nat, NEW upto \in Nat, from <= upto, m.seq = upto + 1,
         Increasing(q), Holds(q, from, upto)
  PROVE Increasing(Append(q, m)) /\ Holds(Append(q, m), from, upto + 1)
<1>1. /\ Len(Append(q, m)) = Len(q) + 1
      /\ \A i \in 1..Len(q) : Append(q, m)[i] = q[i]
      /\ Append(q, m)[Len(q) + 1] = m
  OBVIOUS
<1>2. Len(q) \in Nat
  OBVIOUS
<1>3. \A i \in 1..Len(q) : q[i].name \in Commands => q[i].seq \in Nat /\ q[i].seq < upto + 1
  BY DEF Holds
<1>4. Increasing(Append(q, m))
  BY <1>1, <1>2, <1>3 DEF Increasing
<1>5. ASSUME NEW n \in from + 1..upto + 1
      PROVE \E i \in 1..Len(q) + 1 :
              Append(q, m)[i].name \in Commands /\ Append(q, m)[i].seq = n
  <2>1. CASE n = upto + 1
    BY <1>1, <1>2, <2>1
  <2>2. CASE n \in from + 1..upto
    <3>1. PICK i \in 1..Len(q) : q[i].name \in Commands /\ q[i].seq = n
      BY <2>2 DEF Holds
    <3> QED
      BY <1>1, <1>2, <3>1
  <2> QED
    BY <2>1, <2>2
<1>6. \A i \in 1..Len(q) + 1 :
        Append(q, m)[i].name \in Commands => Append(q, m)[i].seq \in from + 1..upto + 1
  BY <1>1, <1>2 DEF Holds
<1> QED
  BY <1>1, <1>4, <1>5, <1>6 DEF Holds

\* The first message leaves the queue: when it is a command, it is the next one.
LEMMA OrderFirst ==
  ASSUME NEW q \in Seq(Message), q # <<>>, NEW from \in Nat, NEW upto \in Nat,
         Increasing(q), Holds(q, from, upto)
  PROVE /\ Increasing(Tail(q))
        /\ Head(q).name \in Commands =>
              Head(q).seq = from + 1 /\ from + 1 <= upto /\ Holds(Tail(q), from + 1, upto)
        /\ Head(q).name \notin Commands => Holds(Tail(q), from, upto)
<1>1. /\ Len(q) \in Nat /\ Len(q) >= 1
      /\ Len(Tail(q)) = Len(q) - 1
      /\ \A i \in 1..Len(Tail(q)) : Tail(q)[i] = q[i + 1]
      /\ Head(q) = q[1]
  OBVIOUS
<1>2. Increasing(Tail(q))
  BY <1>1 DEF Increasing
<1>3. ASSUME Head(q).name \notin Commands PROVE Holds(Tail(q), from, upto)
  <2>1. ASSUME NEW n \in from + 1..upto
        PROVE \E i \in 1..Len(Tail(q)) : Tail(q)[i].name \in Commands /\ Tail(q)[i].seq = n
    <3>1. PICK i \in 1..Len(q) : q[i].name \in Commands /\ q[i].seq = n
      BY DEF Holds
    <3>2. i # 1 /\ i - 1 \in 1..Len(Tail(q)) /\ Tail(q)[i - 1] = q[i]
      BY <1>1, <1>3, <3>1
    <3> QED
      BY <3>1, <3>2
  <2> QED
    BY <1>1, <2>1 DEF Holds
<1>4. ASSUME Head(q).name \in Commands
      PROVE Head(q).seq = from + 1 /\ from + 1 <= upto /\ Holds(Tail(q), from + 1, upto)
  <2>1. Head(q).seq \in from + 1..upto
    BY <1>1, <1>4 DEF Holds
  <2>2. Head(q).seq = from + 1
    <3>1. PICK i \in 1..Len(q) : q[i].name \in Commands /\ q[i].seq = from + 1
      BY <2>1 DEF Holds
    <3>2. i # 1 => q[1].seq < q[i].seq
      BY <1>1, <1>4, <3>1 DEF Increasing
    <3> QED
      BY <1>1, <2>1, <3>1, <3>2
  <2>3. ASSUME NEW n \in from + 1 + 1..upto
        PROVE \E i \in 1..Len(Tail(q)) : Tail(q)[i].name \in Commands /\ Tail(q)[i].seq = n
    <3>1. PICK i \in 1..Len(q) : q[i].name \in Commands /\ q[i].seq = n
      BY DEF Holds
    <3>2. i # 1 /\ i - 1 \in 1..Len(Tail(q)) /\ Tail(q)[i - 1] = q[i]
      BY <1>1, <2>2, <3>1
    <3> QED
      BY <3>1, <3>2
  <2>4. ASSUME NEW i \in 1..Len(Tail(q)), Tail(q)[i].name \in Commands
        PROVE Tail(q)[i].seq \in from + 1 + 1..upto
    <3>1. Tail(q)[i] = q[i + 1] /\ i + 1 \in 1..Len(q)
      BY <1>1
    <3>2. q[i + 1].seq \in from + 1..upto
      BY <2>4, <3>1 DEF Holds
    <3>3. q[1].seq < q[i + 1].seq
      BY <1>1, <1>4, <2>4, <3>1 DEF Increasing
    <3> QED
      BY <1>1, <2>2, <3>1, <3>2, <3>3
  <2> QED
    BY <2>1, <2>2, <2>3, <2>4 DEF Holds
<1> QED
  BY <1>2, <1>3, <1>4

\* The end of a handler answers the command dispatched last.
LEMMA OrderFinish ==
  ASSUME TypeInv, OrderInv, Finish, UNCHANGED <<queue, commands>>
  PROVE OrderInv' /\ (answers' # answers => answers' = Append(answers, Len(answers) + 1))
<1>1. handling' = Nothing /\ ~Is(Commands)'
  BY DEF Finish, Is, Nothing, Commands, DeviceCommands
<1>2. answers \in Seq(0..CommandMax) /\ Len(answers) \in Nat
  BY DEF TypeInv, TypeOK
<1>3. CASE Is(Commands)
  <2>1. answers' = Append(answers, Len(answers) + 1) /\ Dispatched = Len(answers) + 1
    BY <1>3 DEF Finish, OrderInv, Dispatched
  <2>2. Len(answers') = Len(answers) + 1
    BY <1>2, <2>1
  <2>3. Dispatched' = Dispatched
    BY <1>1, <2>1, <2>2 DEF Dispatched
  <2> QED
    BY <1>1, <2>1, <2>3 DEF OrderInv
<1>4. CASE ~Is(Commands)
  <2>1. answers' = answers /\ Dispatched' = Dispatched
    BY <1>1, <1>4 DEF Finish, Dispatched
  <2> QED
    BY <1>1, <2>1 DEF OrderInv
<1> QED
  BY <1>3, <1>4

\* A step that leaves the queue, the command in hand and the answers alone.
LEMMA OrderUntouched ==
  ASSUME OrderInv, UNCHANGED <<queue, commands, answers>>,
         handling' = handling \/ (~Is(Commands) /\ handling' = Nothing)
  PROVE OrderInv'
<1>1. Dispatched' = Dispatched /\ Is(Commands)' = Is(Commands)
  BY DEF Dispatched, Is, Nothing, Commands, DeviceCommands
<1>2. Is(Commands)' => handling' = handling
  BY <1>1 DEF Is, Nothing
<1> QED
  BY <1>1, <1>2 DEF OrderInv

\* Every step keeps the invariant and answers at most the next command.
LEMMA OrderNext ==
  TypeInv /\ OrderInv /\ [Next]_vars
    => OrderInv' /\ (answers' # answers => answers' = Append(answers, Len(answers) + 1))
<1> SUFFICES ASSUME TypeInv, OrderInv, [Next]_vars
             PROVE OrderInv' /\ (answers' # answers => answers' = Append(answers, Len(answers) + 1))
  OBVIOUS
<1> USE FprimeConstantsAssumption DEF FprimeConstantsAssumption
<1>0. /\ queue \in Seq(Message) /\ handling \in Message
      /\ commands \in Nat /\ answers \in Seq(0..CommandMax) /\ Len(answers) \in Nat /\ Dispatched \in Nat
      /\ Dispatched <= commands /\ Increasing(queue) /\ Holds(queue, Dispatched, commands)
  BY DEF TypeInv, TypeOK, OrderInv, Dispatched, Message
<1>1. ASSUME NEW p \in Ports, RateGroup(p)
      PROVE OrderInv' /\ (answers' # answers => answers' = Append(answers, Len(answers) + 1))
  <2>1. [name |-> p, seq |-> 0] \in Message /\ p \notin Commands
    BY DEF Message, Ports, Commands, DeviceCommands
  <2>2. Dispatched' = Dispatched /\ Is(Commands)' = Is(Commands)
    BY <1>1 DEF RateGroup, Dispatched, Is
  <2>3. Increasing(queue') /\ Holds(queue', Dispatched, commands)
    BY <1>0, <1>1, <2>1, OrderOther DEF RateGroup
  <2> QED
    BY <1>1, <2>2, <2>3 DEF RateGroup, OrderInv
<1>2. ASSUME NEW c \in Commands, SendCommand(c)
      PROVE OrderInv' /\ (answers' # answers => answers' = Append(answers, Len(answers) + 1))
  <2>1. [name |-> c, seq |-> commands + 1] \in Message
    BY <1>0, <1>2 DEF Message, SendCommand, TypeInv, TypeOK
  <2>2. Dispatched' = Dispatched /\ Is(Commands)' = Is(Commands)
    BY <1>2 DEF SendCommand, Dispatched, Is
  <2>3. Increasing(queue') /\ Holds(queue', Dispatched, commands')
    BY <1>0, <1>2, <2>1, OrderNewest DEF SendCommand
  <2>4. Dispatched <= commands'
    BY <1>0, <1>2 DEF SendCommand
  <2> QED
    BY <1>2, <2>2, <2>3, <2>4 DEF SendCommand, OrderInv
<1>3. CASE Dispatch
  <2>1. Dispatched = Len(answers)
    BY <1>3 DEF Dispatch, Dispatched, Is, Nothing, Commands, DeviceCommands
  <2>2. /\ Increasing(queue')
        /\ handling'.name \in Commands =>
              /\ handling'.seq = Len(answers) + 1 /\ Len(answers) + 1 <= commands
              /\ Holds(queue', Len(answers) + 1, commands)
        /\ handling'.name \notin Commands => Holds(queue', Len(answers), commands)
    BY <1>0, <1>3, <2>1, OrderFirst DEF Dispatch
  <2>3. UNCHANGED <<answers, commands>>
    BY <1>3 DEF Dispatch
  <2> QED
    BY <1>0, <2>1, <2>2, <2>3 DEF OrderInv, Dispatched, Is
<1>4. ASSUME NEW k \in Kinds, ReadSucceeds(k)
      PROVE OrderInv' /\ (answers' # answers => answers' = Append(answers, Len(answers) + 1))
  BY <1>4, OrderUntouched DEF ReadSucceeds
<1>5. CASE ParseWord
  <2>1. handling' = handling \/ (~Is(Commands) /\ handling' = Nothing)
    BY <1>5 DEF ParseWord, Is, Commands, DeviceCommands
  <2> QED
    BY <1>5, <2>1, OrderUntouched DEF ParseWord
<1>6. CASE Fail
  BY <1>6, OrderFinish DEF Fail
<1>7. CASE CommandDevice
  BY <1>7, OrderFinish DEF CommandDevice
<1>8. CASE WriteChannel
  BY <1>8, OrderFinish, OrderUntouched DEF WriteChannel
<1>9. CASE UNCHANGED vars
  BY <1>9, OrderUntouched DEF vars
<1> QED
  BY <1>1, <1>2, <1>3, <1>4, <1>5, <1>6, <1>7, <1>8, <1>9 DEF Next, Thread

\* Commands are answered one by one, none left out and none twice, in the order the
\* dispatcher sent them, however many there are.
THEOREM AnswersInOrder == Spec => AnsweredInOrder
<1>1. TypeInv /\ OrderInv /\ [Next]_vars
        => [answers' # answers => answers' = Append(answers, Len(answers) + 1)]_vars
  BY OrderNext
<1> QED
  BY TypeInit, TypeNext, OrderInit, OrderNext, <1>1, PTL
  DEF Spec, AnsweredInOrder
=============================================================================
