---------------------------- MODULE MCNovatelApp ----------------------------
(* NovatelApp for TLC: small sets of messages, one per question a run asks. *)
EXTENDS NovatelAppProperties

GoodCommand(cc) == [mid |-> "CMD_MID", cc |-> cc, lengthOk |-> TRUE, argsOk |-> TRUE]
Request(cc)     == [mid |-> "REQ_HK_MID", cc |-> cc, lengthOk |-> TRUE, argsOk |-> TRUE]
BadLength       == [GoodCommand("RESET_COUNTERS") EXCEPT !.lengthOk = FALSE]
BadCode         == GoodCommand("BAD")
BadArguments    == [GoodCommand("LOG") EXCEPT !.argsOk = FALSE]
BadMid          == [GoodCommand("NOOP") EXCEPT !.mid = "OTHER"]

\* Everything a handler tells apart.
AllMessages ==
    {GoodCommand(cc) : cc \in CommandCodes} \cup {Request(cc) : cc \in RequestCodes}
    \cup {BadLength, BadCode, BadArguments, BadMid, Request("BAD"),
          [GoodCommand("ENABLE") EXCEPT !.lengthOk = FALSE],
          [GoodCommand("UNLOG") EXCEPT !.argsOk = FALSE]}

\* Enough for the tasks to compete for the counters.
CounterMessages ==
    {GoodCommand(cc) : cc \in {"NOOP", "RESET_COUNTERS", "ENABLE", "DISABLE"}} \cup {BadCode}

\* Enough for the tasks to compete for the port and DevicePkt.
PortMessages ==
    {GoodCommand(cc) : cc \in {"ENABLE", "DISABLE", "LOG"}} \cup {Request("REQ_DATA")}

\* Enough for every wait of the two tasks: for the mutex, for the receiver, to exit.
LivenessMessages == {GoodCommand(cc) : cc \in {"ENABLE", "DISABLE"}} \cup {Request("REQ_DATA")}
=============================================================================
