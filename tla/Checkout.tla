------------------------------ MODULE Checkout ------------------------------
(***************************************************************************)
(* The standalone checkout (fsw/standalone/novatel_oem615_checkout.c): it reads a *)
(* line, cuts it into tokens in place, and carries out its command until that is  *)
(* exit.  fgets leaves the buffer as it is when the input has ended, and the loop  *)
(* does not look at what it returns.                                            *)
(*                                                                         *)
(* A line is its first token and the numbers atoi makes of the others.            *)
(***************************************************************************)
EXTENDS Integers, Sequences

CONSTANTS
    Words,      \* first tokens a user types
    Numbers     \* arguments a user types

ASSUME CheckoutConstantsAssumption == Words \subseteq STRING /\ Numbers \subseteq Int

Arguments == {<<>>} \cup {<<a>> : a \in Numbers} \cup {<<a, b>> : a, b \in Numbers}
Lines == {l \in [word : Words \cup {""}, args : Arguments] : l.word = "" => l.args = <<>>}

VARIABLES
    pc,         \* where main is
    port,       \* the UART
    input,      \* whether there is more to read
    buffer,     \* input_buf
    typed,      \* history: whether fgets has filled the buffer once
    cmd,        \* the command, CMD_UNKNOWN when the word is none
    tokens,     \* input_tokens
    runStatus,
    sent        \* what this pass of the loop has written to the receiver

vars == <<pc, port, input, buffer, typed, cmd, tokens, runStatus, sent>>

NothingSent == [code |-> 0, type |-> 0, period |-> 0]

\* The buffer is not initialized: it holds anything.
Init ==
    /\ pc = "init"
    /\ port = "closed"
    /\ input = "more"
    /\ buffer \in Lines
    /\ typed = FALSE
    /\ cmd = "unknown"
    /\ tokens = <<>>
    /\ runStatus = 0
    /\ sent = NothingSent

\* uart_init_port.
OpenPort(ok) ==
    /\ pc = "init"
    /\ port' = IF ok THEN "open" ELSE "closed"
    /\ runStatus' = IF ok THEN 0 ELSE 255
    /\ pc' = "loop"
    /\ UNCHANGED <<input, buffer, typed, cmd, tokens, sent>>

\* The top of the loop: fgets.
ReadLine(l) ==
    /\ pc = "loop" /\ runStatus = 0
    /\ input = "more"
    /\ buffer' = l
    /\ typed' = TRUE
    /\ pc' = "line"
    /\ sent' = NothingSent
    /\ UNCHANGED <<port, input, cmd, tokens, runStatus>>

ReadNothing ==
    /\ pc = "loop" /\ runStatus = 0
    /\ input' = "ended"
    /\ pc' = "line"
    /\ sent' = NothingSent
    /\ UNCHANGED <<port, buffer, typed, cmd, tokens, runStatus>>

\* get_command: "unlog all" has a blank in it, so no token is equal to it.
GetCommand(w) ==
    IF w = "help" THEN "help"
    ELSE IF w = "exit" THEN "exit"
    ELSE IF w \in {"data", "d"} THEN "data"
    ELSE IF w \in {"serialconfig", "s"} THEN "cfg"
    ELSE IF w \in {"log", "l"} THEN "log"
    ELSE IF w \in {"unlog", "u"} THEN "unlog"
    ELSE IF w = "ua" THEN "unlogAll"
    ELSE "unknown"

\* Mutant: the line is cut in a copy, and the buffer keeps it.
TokenizeMutantCopies ==
    /\ pc = "line"
    /\ cmd' = GetCommand(buffer.word)
    /\ tokens' = buffer.args
    /\ pc' = IF buffer.word = "" THEN "loop" ELSE "process"
    /\ UNCHANGED <<port, input, buffer, typed, runStatus, sent>>

\* strtok ends the first token with a NUL: the buffer is that token from now on.
Tokenize ==
    /\ pc = "line"
    /\ cmd' = GetCommand(buffer.word)
    /\ tokens' = buffer.args
    /\ buffer' = [buffer EXCEPT !.args = <<>>]
    /\ pc' = IF buffer.word = "" THEN "loop" ELSE "process"
    /\ UNCHANGED <<port, input, typed, runStatus, sent>>

\* int8_t.
Int8(n) == ((n + 128) % 256) - 128

Expected(c) == IF c = "log" THEN 2 ELSE IF c \in {"cfg", "unlog"} THEN 1 ELSE 0

\* Mutant: a period is not looked at.
BuildsMutantAnyPeriod(c) == c \in {"log", "unlog"} => Int8(tokens[1]) \in 0..4

\* CommandDevice builds a command for a log type and a period it knows.
Builds(c) ==
    /\ c \in {"log", "unlog"} => Int8(tokens[1]) \in 0..4
    /\ c = "log" => Int8(tokens[2]) \in 0..5

Code == [log |-> 4, unlog |-> 5, unlogAll |-> 6, cfg |-> 7]

\* process_command when it has a device command with the right number of arguments; the
\* flush may fail, and then nothing is written.
ProcessDevice ==
    /\ pc = "process" /\ cmd \in DOMAIN Code
    /\ Len(tokens) = Expected(cmd) /\ Builds(cmd)
    /\ sent' \in {NothingSent, [code |-> Code[cmd],
                                type |-> IF cmd \in {"log", "unlog"} THEN Int8(tokens[1]) ELSE 0,
                                period |-> IF cmd = "log" THEN Int8(tokens[2]) ELSE 0]}
    /\ runStatus' = 0
    /\ pc' = "loop"
    /\ UNCHANGED <<port, input, buffer, typed, cmd, tokens>>

\* A refused device command, help, data, and what is no command.
ProcessOther ==
    /\ pc = "process" /\ cmd # "exit"
    /\ ~(cmd \in DOMAIN Code /\ Len(tokens) = Expected(cmd) /\ Builds(cmd))
    /\ runStatus' = 0
    /\ pc' = "loop"
    /\ UNCHANGED <<port, input, buffer, typed, cmd, tokens, sent>>

ProcessExit ==
    /\ pc = "process" /\ cmd = "exit"
    /\ runStatus' = 255
    /\ pc' = "loop"
    /\ UNCHANGED <<port, input, buffer, typed, cmd, tokens, sent>>

Finish ==
    /\ pc = "loop" /\ runStatus # 0
    /\ port' = "closed"
    /\ pc' = "done"
    /\ UNCHANGED <<input, buffer, typed, cmd, tokens, runStatus, sent>>

Next ==
    \/ \E ok \in BOOLEAN : OpenPort(ok)
    \/ \E l \in Lines : ReadLine(l)
    \/ ReadNothing
    \/ Tokenize \/ ProcessDevice \/ ProcessOther \/ ProcessExit
    \/ Finish

Spec == Init /\ [][Next]_vars

-----------------------------------------------------------------------------
(* Properties. *)

\* Every variable stays in its domain; what is sent is a command the receiver has.
TypeOK ==
    /\ pc \in {"init", "loop", "line", "process", "done"}
    /\ port \in {"open", "closed"}
    /\ input \in {"more", "ended"}
    /\ buffer \in Lines
    /\ typed \in BOOLEAN
    /\ cmd \in {"unknown", "help", "exit", "data"} \cup DOMAIN Code
    /\ Len(tokens) \in 0..2 /\ \A i \in DOMAIN tokens : tokens[i] \in Numbers
    /\ runStatus \in {0, 255}
    /\ sent \in [code : {0} \cup 4..7, type : 0..4, period : 0..5]

\* When its input has ended the program does not stop: it carries out the last command
\* again and again.  What it sends then can only be UNLOGALL: a command with numbers is
\* never sent again (unless nothing was ever typed, when the buffer holds anything).
EndRepeatsNoNumbers == input = "ended" /\ typed /\ sent # NothingSent => sent.code = Code["unlogAll"]
=============================================================================
