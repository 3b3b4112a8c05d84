-------------------------- MODULE MCSimUartReader ---------------------------
(* SimUartReader for TLC. *)
EXTENDS SimUartReader

\* As CommandDevice sends it, for a log that is on: an answer among the sentences, and no
\* walk is disturbed; and the sentence itself, once.
ReaderRequests == {<<"LOG", "COM", "BESTXYZA", "ONTIME", "0.5">>, <<"LOG", "COM", "BESTXYZA", "ONCE">>}

\* What the constructor puts on, without the log the child cannot parse.
ReaderLogs == {{"BESTXYZA", "GPGGA"}}
=============================================================================
