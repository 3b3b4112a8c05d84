------------------------ MODULE OEM615SimProperties -------------------------
(* What the simulated receiver has to do right. *)
EXTENDS OEM615Sim

\* Every variable stays in its domain.  A log that is on has a period
\* is_valid_period has accepted, and the read callback has one answer at a time.
TypeOK ==
    /\ built \in 0..ConstructorSteps
    /\ On \subseteq LogTypes
    /\ periodicLogs \in [On -> ValidPeriods]
    /\ walk \in LogTypes \cup {"begun", "idle"}
    /\ walkPoint \in 0..NowMax
    /\ written \in BOOLEAN /\ (written => Walking)
    /\ wire \in Seq(Chunks)
    /\ answer \in Seq(Chunks) /\ Len(answer) <= 1
    /\ now \in 0..NowMax
    /\ fault \in Faults
    /\ raced \in BOOLEAN
    /\ out \in Seq(LogTypes)

\* The tick callback is registered before the UART connection is created (lines 85
\* and 86), so that it can run without one.  It never uses it then, since the logs
\* are put on after that; whatever else the constructor does in between.
NullUartNeverUsed == fault # "nullUart"

\* The logs the walk has still to write.
ToWrite == {l \in On : Rank[l] > Rank[walk] \/ (l = walk /\ ~written)}

\* The walk only ever looks at a log that is on, and what it has still to write it has
\* not written yet, unless the map has been changed under it.
IteratorValid ==
    Walking /\ ~raced => walk \in On /\ \A i \in 1..Len(out) : out[i] \notin ToWrite

\* Until a change of the map overlaps a walk, what the simulator sends by itself is, at
\* each tick, logs that are on and none of them twice: lines 138 to 300 with their two
\* callbacks and the constructor implement ReceiverLogs.
Receiver == INSTANCE ReceiverLogs WITH
    LogTypes <- LogTypes,
    on <- IF raced THEN {} ELSE On,
    due <- IF raced \/ ~Walking THEN {} ELSE ToWrite,
    sent <- IF raced THEN <<>> ELSE out,
    broken <- raced
ImplementsReceiverLogs == Receiver!Spec
=============================================================================
