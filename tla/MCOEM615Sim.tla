---------------------------- MODULE MCOEM615Sim -----------------------------
(* OEM615Sim for TLC: the commands of its run. *)
EXTENDS OEM615SimProperties

\* What CommandDevice sends (the NULs at the end trimmed).
LogCommand(l, p) == <<"LOG", "COM", l, "ONTIME", p>>
LogOnce(l) == <<"LOG", "COM", l, "ONCE">>
UnlogCommand(l) == <<"UNLOG", "COM", l, "">>

\* What CommandDevice never sends.
OddRequests ==
    {<<"BINARY">>, <<"LOGA", "COM">>, <<"RESET">>, <<"LOG">>, <<"UNLOG", "COM">>,
     <<"LOG", "COM", "BESTXYZA">>, <<"LOG", "BESTXYZB", "ONCE">>, <<"LOG", "COM", "RXSTATUS", "ONCE">>,
     LogCommand("BESTXYZB", "never"), <<"LOG", "COM", "BESTXYZB", "ONNEXT", "1">>,
     <<"LOG", "COM", "BESTXYZB", "ONCE", "1">>}

AllRequests ==
    {LogCommand("BESTXYZB", "0.5"), LogOnce("BESTXYZA"), UnlogCommand("GPGGA"),
     <<"UNLOGALL">>, <<"SERIALCONFIG">>} \cup OddRequests
=============================================================================
