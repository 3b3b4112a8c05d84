---------------------------- MODULE GroundScript ----------------------------
(***************************************************************************)
(* The ground library (gsw/NOVATEL_OEM615/lib/gps_lib.py): gps_cmd sends a    *)
(* command, asks for housekeeping, and sends again, twice at most, while the  *)
(* command counter is not the one it expects.  It talks to the application    *)
(* over two links that keep the order but lose and delay packets.             *)
(*                                                                         *)
(* The application is what the ground sees of it: NOOP is always accepted,     *)
(* ENABLE and DISABLE only when there is something to change; an accepted      *)
(* command moves CMD_COUNT, also when the UART driver then fails and nothing    *)
(* changes; a switch and a device read of the child move DEVICE_COUNT.        *)
(***************************************************************************)
EXTENDS Naturals, Sequences

CONSTANTS
    CntMod,     \* the counters wrap at CntMod (256: they are uint8)
    Commands,   \* what the script sends
    CallMax,    \* bound: the calls of gps_cmd and confirm_gps_data
    DownMax     \* bound: unasked housekeeping packets wait while so many are under way

AppCommands == {"NOOP", "ENABLE", "DISABLE"}

ASSUME GroundConstantsAssumption ==
    /\ CntMod \in Nat \ {0}
    /\ Commands \subseteq AppCommands
    /\ CallMax \in Nat
    /\ DownMax \in Nat

Housekeeping == [count : 0..CntMod - 1, enabled : BOOLEAN, device : 0..CntMod - 1]

VARIABLES
    app,        \* the application's counters and flag
    uplink,     \* commands and requests under way, oldest first
    downlink,   \* housekeeping packets under way, oldest first
    view,       \* the last housekeeping packet the ground has received
    pc,         \* where the script is
    command,    \* the command of this call
    expected,   \* count in gps_cmd; the old DEVICE_COUNT in confirm_gps_data
    tries,      \* how often the command was sent
    calls,      \* the calls made
    accepted,   \* history: how often the application accepted a copy of this call's command
    switched,   \* history: how often such a copy opened or closed the port
    stray       \* history: whether housekeeping has come unasked, or a script was run
                \* after one that stopped

vars == <<app, uplink, downlink, view, pc, command, expected, tries, calls, accepted, switched, stray>>

\* Where a call ends: "passed" its check, "confirmed" enable_gps's or disable_gps's
\* second one, "stopped" by a check that raised, "alarm" by that of confirm_gps_data.
Ended == {"idle", "passed", "confirmed", "stopped", "alarm"}
Waiting == {"wait", "confirmWait", "safeWait"}
Places == Ended \cup Waiting \cup {"send", "check", "confirmCheck", "safeCheck"}

\* A packet under way, with the call it belongs to.
Packet(c, n) == [cmd |-> c, call |-> n]

Init ==
    /\ app = [count |-> 0, enabled |-> FALSE, device |-> 0]
    /\ uplink = <<>>
    /\ downlink = <<>>
    /\ view = app
    /\ pc = "idle"
    /\ command = "none"
    /\ expected = 0
    /\ tries = 0
    /\ calls = 0
    /\ accepted = 0
    /\ switched = 0
    /\ stray = FALSE

-----------------------------------------------------------------------------
(* gps_cmd. *)

MayCall ==
    /\ pc \in Ended
    /\ calls < CallMax
    /\ calls' = calls + 1
    /\ stray' = (stray \/ pc \in {"stopped", "alarm"})

\* Mutant: the counter it waits for is the one it has.
BeginMutantNoIncrement(c) ==
    /\ command' = c
    /\ expected' = view.count
    /\ tries' = 0
    /\ accepted' = 0 /\ switched' = 0
    /\ pc' = "send"

\* gps_cmd up to its first cmd.
Begin(c) ==
    /\ command' = c
    /\ expected' = (view.count + 1) % CntMod
    /\ tries' = 0
    /\ accepted' = 0 /\ switched' = 0
    /\ pc' = "send"

Call(c) ==
    /\ MayCall
    /\ Begin(c)
    /\ UNCHANGED <<app, uplink, downlink, view>>

\* cmd(command_string) and the request of get_gps_hk.
Send ==
    /\ pc = "send"
    /\ uplink' = uplink \o <<Packet(command, calls), Packet("REQ_HK", calls)>>
    /\ tries' = tries + 1
    /\ pc' = "wait"
    /\ UNCHANGED <<app, downlink, view, command, expected, calls, accepted, switched, stray>>

Checked == [wait |-> "check", confirmWait |-> "confirmCheck", safeWait |-> "safeCheck"]

\* wait_check_packet: one more packet, whichever it is, or an exception.
HkArrives ==
    /\ downlink # <<>>
    /\ view' = Head(downlink)
    /\ downlink' = Tail(downlink)
    /\ pc' = IF pc \in Waiting THEN Checked[pc] ELSE pc
    /\ UNCHANGED <<app, uplink, command, expected, tries, calls, accepted, switched, stray>>

\* Mutant: the request of safe_gps is waited for without a time limit.
TimeOutMutantNotInSafe ==
    /\ pc \in Waiting \ {"safeWait"}
    /\ pc' = "stopped"
    /\ UNCHANGED <<app, uplink, downlink, view, command, expected, tries, calls, accepted, switched, stray>>

TimeOut ==
    /\ pc \in Waiting
    /\ pc' = "stopped"
    /\ UNCHANGED <<app, uplink, downlink, view, command, expected, tries, calls, accepted, switched, stray>>

\* Mutant: it tries for as long as the counter is not the expected one.
CheckMutantForEver ==
    /\ pc = "check"
    /\ pc' = IF view.count # expected THEN "send" ELSE "passed"
    /\ UNCHANGED <<app, uplink, downlink, view, command, expected, tries, calls, accepted, switched, stray>>

\* The counter is the expected one, or this was the third time: the last check.
Check ==
    /\ pc = "check"
    /\ pc' = IF view.count # expected /\ tries < 3
             THEN "send"
             ELSE IF view.count >= expected THEN "passed" ELSE "stopped"
    /\ UNCHANGED <<app, uplink, downlink, view, command, expected, tries, calls, accepted, switched, stray>>

\* Mutant: the counter's check is enough.
ConfirmSwitchMutantUnchecked ==
    /\ pc = "passed"
    /\ command \in {"ENABLE", "DISABLE"}
    /\ pc' = "confirmed"
    /\ UNCHANGED <<app, uplink, downlink, view, command, expected, tries, calls, accepted, switched, stray>>

\* enable_gps and disable_gps go on to look at DEVICE_ENABLED.
ConfirmSwitch ==
    /\ pc = "passed"
    /\ command \in {"ENABLE", "DISABLE"}
    /\ pc' = IF view.enabled = (command = "ENABLE") THEN "confirmed" ELSE "stopped"
    /\ UNCHANGED <<app, uplink, downlink, view, command, expected, tries, calls, accepted, switched, stray>>

-----------------------------------------------------------------------------
(* safe_gps: housekeeping first, disable_gps only when that is needed. *)

SafeGps ==
    /\ MayCall
    /\ command' = "DISABLE"
    /\ accepted' = 0 /\ switched' = 0
    /\ uplink' = Append(uplink, Packet("REQ_HK", calls'))
    /\ pc' = "safeWait"
    /\ UNCHANGED <<app, downlink, view, expected, tries>>

SafeCheck ==
    /\ pc = "safeCheck"
    /\ IF view.enabled
       THEN Begin("DISABLE")
       ELSE pc' = "confirmed" /\ UNCHANGED <<command, expected, tries, accepted, switched>>
    /\ UNCHANGED <<app, uplink, downlink, view, calls, stray>>

-----------------------------------------------------------------------------
(* confirm_gps_data, without the six comparisons with the truth data. *)

ConfirmData ==
    /\ MayCall
    /\ command' = "none"
    /\ expected' = view.device
    /\ uplink' = Append(uplink, Packet("REQ_HK", calls'))
    /\ pc' = "confirmWait"
    /\ UNCHANGED <<app, downlink, view, tries, accepted, switched>>

\* DEVICE_ERR_COUNT, the other counter it checks, is not modelled: it may have moved.
ConfirmCheck ==
    /\ pc = "confirmCheck"
    /\ \/ view.device >= expected /\ pc' = "idle"
       \/ pc' = "alarm"
    /\ UNCHANGED <<app, uplink, downlink, view, command, expected, tries, calls, accepted, switched, stray>>

-----------------------------------------------------------------------------
(* The application and the links. *)

\* Mutant: ENABLE and DISABLE are accepted whatever the state.
AcceptsMutantAlways(c) == c \in Commands

Accepts(c) ==
    \/ c = "NOOP"
    \/ c = "ENABLE" /\ ~app.enabled
    \/ c = "DISABLE" /\ app.enabled

\* A command reaches the application, which counts it or not.
AppCommand ==
    /\ uplink # <<>>
    /\ Head(uplink).cmd # "REQ_HK"
    /\ uplink' = Tail(uplink)
    /\ UNCHANGED <<downlink, view, pc, command, expected, tries, calls, stray>>

OfThisCall(n) == IF Head(uplink).call = calls THEN n + 1 ELSE n

AppRefuses ==
    /\ AppCommand /\ ~Accepts(Head(uplink).cmd)
    /\ UNCHANGED <<app, accepted, switched>>

\* NOOP, or a switch whose uart_init_port or uart_close_port fails.
AppCounts ==
    /\ AppCommand /\ Accepts(Head(uplink).cmd)
    /\ app' = [app EXCEPT !.count = (@ + 1) % CntMod]
    /\ accepted' = OfThisCall(accepted)
    /\ UNCHANGED switched

AppSwitches ==
    /\ AppCommand /\ Accepts(Head(uplink).cmd)
    /\ Head(uplink).cmd # "NOOP"
    /\ app' = [app EXCEPT !.count = (@ + 1) % CntMod, !.device = (@ + 1) % CntMod,
                          !.enabled = Head(uplink).cmd = "ENABLE"]
    /\ accepted' = OfThisCall(accepted)
    /\ switched' = OfThisCall(switched)

AppReportsHk ==
    /\ uplink # <<>>
    /\ Head(uplink).cmd = "REQ_HK"
    /\ uplink' = Tail(uplink)
    /\ downlink' = Append(downlink, app)
    /\ UNCHANGED <<app, view, pc, command, expected, tries, calls, accepted, switched, stray>>

\* Somebody else, the scheduler for one, asks for housekeeping.
ScheduledHk ==
    /\ Len(downlink) < DownMax
    /\ downlink' = Append(downlink, app)
    /\ stray' = TRUE
    /\ UNCHANGED <<app, uplink, view, pc, command, expected, tries, calls, accepted, switched>>

ChildReads ==
    /\ app.enabled
    /\ app' = [app EXCEPT !.device = (@ + 1) % CntMod]
    /\ UNCHANGED <<uplink, downlink, view, pc, command, expected, tries, calls, accepted, switched, stray>>

LoseUp ==
    /\ uplink # <<>>
    /\ uplink' = Tail(uplink)
    /\ UNCHANGED <<app, downlink, view, pc, command, expected, tries, calls, accepted, switched, stray>>

LoseDown ==
    /\ downlink # <<>>
    /\ downlink' = Tail(downlink)
    /\ UNCHANGED <<app, uplink, view, pc, command, expected, tries, calls, accepted, switched, stray>>

Script ==
    \/ \E c \in Commands : Call(c)
    \/ Send \/ TimeOut \/ Check \/ ConfirmSwitch
    \/ SafeGps \/ SafeCheck
    \/ ConfirmData \/ ConfirmCheck

Next ==
    \/ Script
    \/ HkArrives
    \/ AppRefuses \/ AppCounts \/ AppSwitches
    \/ AppReportsHk \/ ScheduledHk \/ ChildReads
    \/ LoseUp \/ LoseDown

Spec == Init /\ [][Next]_vars

\* The script runs; the application takes what reaches it; whatever the links do,
\* a wait is over after NOVATEL_OEM615_RESPONSE_TIMEOUT.
FairSpec == Spec /\ WF_vars(Send) /\ WF_vars(TimeOut)
                 /\ WF_vars(Check) /\ WF_vars(SafeCheck)

-----------------------------------------------------------------------------
(* Properties. *)

\* Every variable stays in its domain; the command is sent three times at most.
TypeOK ==
    /\ app \in Housekeeping
    /\ uplink \in Seq([cmd : AppCommands \cup {"REQ_HK"}, call : 0..CallMax])
    /\ downlink \in Seq(Housekeeping)
    /\ view \in Housekeeping
    /\ pc \in Places
    /\ command \in AppCommands \cup {"none"}
    /\ expected \in 0..CntMod - 1
    /\ tries \in 0..3
    /\ calls \in 0..CallMax
    /\ accepted \in Nat /\ switched \in Nat
    /\ stray \in BOOLEAN

\* A call that passes has had its command accepted exactly once, however many copies
\* and packets were lost, provided the counter does not wrap in this call and no
\* housekeeping comes unasked.
PassedOnce == pc = "passed" /\ expected # 0 /\ ~stray => accepted = 1

\* Whatever comes late or unasked, and although the command is sent up to three times
\* and a copy may be accepted and fail, the ENABLE or DISABLE of one call opens or closes
\* the port at most once: the application refuses the copies after that, and nothing that
\* could undo it comes between them.
SwitchedAtMostOnce == command \in {"ENABLE", "DISABLE"} => switched <= 1

\* When enable_gps, disable_gps or safe_gps has come through its checks, the device is
\* in the state they promise, whatever was lost, wherever the counters wrap, provided
\* no housekeeping comes unasked and no test goes on after one that stopped.
ConfirmedSwitchHolds ==
    pc = "confirmed" /\ ~stray => app.enabled = (command = "ENABLE")

\* Every call ends, by a check that passes or one that raises.
CallsEnd == pc \in {"send", "safeWait"} ~> pc \in Ended

-----------------------------------------------------------------------------
(* What this module takes the application to be. *)

Application == INSTANCE CommandView WITH count <- app.count, enabled <- app.enabled

\* The application of this module does what NovatelApp is shown to do and no more: of the
\* counter and the flag, whose other users are left out here, each step is one of
\* CommandView.
ApplicationAsPromised == Application!Spec
=============================================================================
