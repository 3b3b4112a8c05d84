---------------------------- MODULE ReceiverLogs ----------------------------
(***************************************************************************)
(* What the receiver promises of what it sends by itself: at a tick, logs   *)
(* that are set up, each of them once at most, and nothing else.  Which of   *)
(* them are due is the tick's own choice: a period would make it, and the    *)
(* promise holds with periods and without.  There are no threads here and no  *)
(* cursor over a container: each due log is sent, in some order, before the   *)
(* next change.  The promise ends if the simulator changes the logs in the    *)
(* middle of sending them (broken).  OEM615Sim is shown to implement it.      *)
(***************************************************************************)
EXTENDS Sequences

CONSTANT LogTypes

VARIABLES
    on,       \* the logs that are set up
    due,      \* those the current tick has still to send
    sent,     \* those it has sent
    broken    \* the logs were changed while they were being sent

vars == <<on, due, sent, broken>>

Init ==
    /\ on = {}
    /\ due = {}
    /\ sent = <<>>
    /\ broken = FALSE

\* A log is set up.
Add(l) ==
    /\ due = {}
    /\ l \notin on
    /\ on' = on \cup {l}
    /\ UNCHANGED <<due, sent, broken>>

\* A log is removed.
Remove(l) ==
    /\ due = {}
    /\ on' = on \ {l}
    /\ UNCHANGED <<due, sent, broken>>

\* All the logs are removed.
RemoveAll ==
    /\ due = {}
    /\ on' = {}
    /\ UNCHANGED <<due, sent, broken>>

\* Time passes: some logs are due.
Tick ==
    /\ due = {}
    /\ due' \in SUBSET on
    /\ sent' = <<>>
    /\ UNCHANGED <<on, broken>>

\* One due log is sent.
Send(l) ==
    /\ l \in due
    /\ due' = due \ {l}
    /\ sent' = Append(sent, l)
    /\ UNCHANGED <<on, broken>>

\* Nothing is promised any more.
Break ==
    /\ broken' = TRUE
    /\ on' = {}
    /\ due' = {}
    /\ sent' = <<>>

Next ==
    /\ ~broken
    /\ \/ \E l \in LogTypes : Add(l) \/ Remove(l) \/ Send(l)
       \/ RemoveAll
       \/ Tick
       \/ Break

Spec == Init /\ [][Next]_vars
=============================================================================
