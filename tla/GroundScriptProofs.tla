------------------------- MODULE GroundScriptProofs -------------------------
(***************************************************************************)
(* What GroundScript's runs check, for every width of the counters and every    *)
(* number of calls.                                                          *)
(***************************************************************************)
EXTENDS GroundScript, TLAPS

Counts == 0..CntMod - 1
Packets == [cmd : AppCommands \cup {"REQ_HK"}, call : 0..CallMax]

\* Counters wrap inside their width, and only from the greatest one.
LEMMA Wraps ==
  \A n \in Counts : /\ (n + 1) % CntMod \in Counts
                    /\ (n + 1) % CntMod = IF n + 1 = CntMod THEN 0 ELSE n + 1
  BY GroundConstantsAssumption DEF Counts, GroundConstantsAssumption

-----------------------------------------------------------------------------
(* Types: what is sent again has been sent less than three times, and is a       *)
(* command.                                                                    *)

TypeInv ==
    /\ TypeOK
    /\ pc = "send" => tries < 3
    /\ pc \in {"send", "wait", "check"} => command # "none"
    /\ pc \in {"safeWait", "safeCheck"} => command = "DISABLE"

\* The initial state is well typed.
LEMMA TypeInit == Init => TypeInv
<1>1. Init => stray \in BOOLEAN
  BY Zenon DEF Init
<1> QED
  BY <1>1, GroundConstantsAssumption
  DEF Init, TypeInv, TypeOK, Housekeeping, Places, Ended, Waiting, AppCommands,
      GroundConstantsAssumption

\* The operations of the script keep the types.
LEMMA TypeScript == ASSUME TypeInv, Script PROVE TypeInv'
<1> USE GroundConstantsAssumption, Wraps
    DEF GroundConstantsAssumption, TypeInv, TypeOK, Housekeeping, Places, Ended, Waiting,
        Counts, AppCommands
<1>0. MayCall => stray' \in BOOLEAN
  BY Zenon DEF MayCall
<1>1. ASSUME NEW c \in Commands, Call(c) PROVE TypeInv'
  BY <1>0, <1>1 DEF Call, Begin, MayCall
<1>2. CASE Send
  <2>1. tries + 1 \in 0..3
    BY <1>2 DEF Send
  <2>2. Packet(command, calls) \in Packets /\ Packet("REQ_HK", calls) \in Packets
    BY <1>2 DEF Send, Packet, Packets
  <2>3. uplink' \in Seq(Packets)
    BY <1>2, <2>2 DEF Send, Packets
  <2> QED
    BY <1>2, <2>1, <2>3 DEF Send, Packets
<1>3. CASE TimeOut
  BY <1>3 DEF TimeOut
<1>4. CASE Check
  BY <1>4 DEF Check
<1>5. CASE ConfirmSwitch
  BY <1>5 DEF ConfirmSwitch
<1>6. CASE ConfirmData
  <2>1. /\ uplink' \in Seq(Packets) /\ calls' \in 0..CallMax
        /\ stray' \in BOOLEAN
    BY <1>0, <1>6 DEF ConfirmData, MayCall, Packet, Packets
  <2> QED
    BY <1>6, <2>1 DEF ConfirmData, Packets
<1>7. CASE ConfirmCheck
  BY <1>7 DEF ConfirmCheck
<1>8. CASE SafeGps
  <2>1. /\ uplink' \in Seq(Packets) /\ calls' \in 0..CallMax
        /\ stray' \in BOOLEAN
    BY <1>0, <1>8 DEF SafeGps, MayCall, Packet, Packets
  <2> QED
    BY <1>8, <2>1 DEF SafeGps, Packets
<1>9. CASE SafeCheck
  <2>1. CASE view.enabled
    BY <1>9, <2>1 DEF SafeCheck, Begin
  <2>2. CASE ~view.enabled
    BY <1>9, <2>2 DEF SafeCheck
  <2> QED
    BY <2>1, <2>2
<1> QED
  BY <1>1, <1>2, <1>3, <1>4, <1>5, <1>6, <1>7, <1>8, <1>9 DEF Script

\* The steps of the application and of the links keep the types.
LEMMA TypeOthers == ASSUME TypeInv, [Next]_vars, ~Script PROVE TypeInv'
<1> USE GroundConstantsAssumption DEF GroundConstantsAssumption
<1>0. app \in Housekeeping /\ uplink \in Seq(Packets) /\ downlink \in Seq(Housekeeping)
  BY DEF TypeInv, TypeOK, Packets
<1>1. CASE HkArrives
  <2>1. view' \in Housekeeping /\ downlink' \in Seq(Housekeeping)
    BY <1>0, <1>1 DEF HkArrives
  <2>2. \/ pc' = pc
        \/ /\ pc' \in Places /\ pc' # "send"
           /\ pc' \in {"send", "wait", "check"} => pc \in {"wait", "check"}
           /\ pc' \in {"safeWait", "safeCheck"} => pc \in {"safeWait", "safeCheck"}
    BY <1>1 DEF HkArrives, TypeInv, TypeOK, Places, Ended, Waiting, Checked
  <2> QED
    BY <1>1, <2>1, <2>2 DEF HkArrives, TypeInv, TypeOK
<1>2. CASE AppRefuses \/ AppCounts \/ AppSwitches
  <2>1. AppCommand
    BY <1>2 DEF AppRefuses, AppCounts, AppSwitches
  <2>2. app' \in Housekeeping
    BY <1>0, <1>2, Wraps DEF AppRefuses, AppCounts, AppSwitches, Housekeeping, Counts
  <2>3. accepted' \in Nat /\ switched' \in Nat
    BY <1>2 DEF AppRefuses, AppCounts, AppSwitches, OfThisCall, TypeInv, TypeOK
  <2>4. uplink' \in Seq(Packets)
    BY <1>0, <2>1 DEF AppCommand
  <2> QED
    BY <2>1, <2>2, <2>3, <2>4 DEF AppCommand, TypeInv, TypeOK, Packets
<1>3. CASE AppReportsHk
  BY <1>0, <1>3 DEF AppReportsHk, TypeInv, TypeOK, Packets
<1>4. CASE ScheduledHk
  BY <1>0, <1>4 DEF ScheduledHk, TypeInv, TypeOK, Packets
<1>5. CASE ChildReads
  <2>1. app' \in Housekeeping
    BY <1>0, <1>5, Wraps DEF ChildReads, Housekeeping, Counts
  <2> QED
    BY <1>5, <2>1 DEF ChildReads, TypeInv, TypeOK
<1>6. CASE LoseUp
  BY <1>0, <1>6 DEF LoseUp, TypeInv, TypeOK, Packets
<1>7. CASE LoseDown
  BY <1>0, <1>7 DEF LoseDown, TypeInv, TypeOK
<1>8. CASE UNCHANGED vars
  BY <1>8 DEF vars, TypeInv, TypeOK
<1> QED
  BY <1>1, <1>2, <1>3, <1>4, <1>5, <1>6, <1>7, <1>8 DEF Next

\* Every step keeps the types.
LEMMA TypeNext == TypeInv /\ [Next]_vars => TypeInv'
  BY TypeScript, TypeOthers

\* The ground and the application never leave their types; no command is sent a fourth
\* time in one call.
THEOREM TypeCorrect == Spec => []TypeOK
<1>1. TypeInv => TypeOK
  BY DEF TypeInv
<1> QED
  BY TypeInit, TypeNext, <1>1, PTL DEF Spec

-----------------------------------------------------------------------------
(* An ENABLE or DISABLE is carried out once at most.  The inductive invariant orders *)
(* the uplink: packets of earlier calls are before those of this one, and those of  *)
(* this one are copies of its command and requests.  So when a copy has been         *)
(* carried out only copies follow, and the application refuses them.               *)

Switching == command \in {"ENABLE", "DISABLE"}

Ordered(q, n, c) ==
    \A i \in 1..Len(q) :
        /\ q[i].call \in Nat /\ q[i].call <= n
        /\ q[i].call = n => q[i].cmd \in {c, "REQ_HK"}
        /\ \A j \in 1..Len(q) : i < j /\ q[i].call = n => q[j].call = n

CopiesInv ==
    /\ Ordered(uplink, calls, command)
    /\ Switching => switched <= 1
    /\ Switching /\ switched = 1 =>
          /\ \A i \in 1..Len(uplink) : uplink[i].call = calls
          /\ app.enabled = (command = "ENABLE")

\* Nothing is under way at first.
LEMMA CopiesInit == Init => CopiesInv
  BY DEF Init, CopiesInv, Switching, Ordered

\* The uplink loses its head: the order of the rest stays.
LEMMA OrderedTail ==
  ASSUME NEW q \in Seq(Packets), q # <<>>, NEW n \in Nat, NEW c, Ordered(q, n, c)
  PROVE /\ Ordered(Tail(q), n, c)
        /\ Head(q).call = n => \A i \in 1..Len(Tail(q)) : Tail(q)[i].call = n
        /\ \A i \in 1..Len(Tail(q)) : \E j \in 1..Len(q) : Tail(q)[i] = q[j]
        /\ Head(q).call = n => Head(q).cmd \in {c, "REQ_HK"}
<1>1. /\ Len(q) \in Nat /\ Len(q) >= 1 /\ Len(Tail(q)) = Len(q) - 1
      /\ \A i \in 1..Len(Tail(q)) : i + 1 \in 1..Len(q) /\ Tail(q)[i] = q[i + 1]
      /\ Head(q) = q[1]
  OBVIOUS
<1>2. Ordered(Tail(q), n, c)
  BY <1>1 DEF Ordered
<1> QED
  BY <1>1, <1>2 DEF Ordered

\* A packet of this call goes to its end.
LEMMA OrderedAppend ==
  ASSUME NEW q \in Seq(Packets), NEW n \in Nat, NEW c, NEW p,
         p.call = n, p.cmd \in {c, "REQ_HK"}, Ordered(q, n, c)
  PROVE /\ Ordered(Append(q, p), n, c)
        /\ (\A i \in 1..Len(q) : q[i].call = n)
              => \A i \in 1..Len(Append(q, p)) : Append(q, p)[i].call = n
<1>1. /\ Len(q) \in Nat /\ Len(Append(q, p)) = Len(q) + 1
      /\ \A i \in 1..Len(q) : Append(q, p)[i] = q[i]
      /\ Append(q, p)[Len(q) + 1] = p
  OBVIOUS
<1> QED
  BY <1>1 DEF Ordered

\* A new call: everything under way belongs to earlier ones.
LEMMA OrderedNewCall ==
  ASSUME NEW q \in Seq(Packets), NEW n \in Nat, NEW c, NEW d, Ordered(q, n, c)
  PROVE Ordered(q, n + 1, d)
<1>1. \A i \in 1..Len(q) : q[i].call \in Nat /\ q[i].call <= n /\ q[i].call # n + 1
  BY DEF Ordered
<1> QED
  BY <1>1 DEF Ordered

\* The operations of the script.
LEMMA CopiesScript == ASSUME TypeInv, CopiesInv, Script PROVE CopiesInv'
<1>0. /\ uplink \in Seq(Packets) /\ calls \in Nat /\ switched \in Nat
      /\ Ordered(uplink, calls, command)
  BY DEF TypeInv, TypeOK, Packets, CopiesInv
<1>1. ASSUME NEW c \in Commands, Call(c) PROVE CopiesInv'
  <2>1. calls' = calls + 1 /\ switched' = 0 /\ command' = c /\ uplink' = uplink
    BY <1>1 DEF Call, Begin, MayCall
  <2>2. Ordered(uplink', calls', command')
    BY <1>0, <2>1, OrderedNewCall
  <2> QED
    BY <2>1, <2>2 DEF CopiesInv, Switching
<1>2. CASE Send
  <2> DEFINE p == Packet(command, calls)
             r == Packet("REQ_HK", calls)
  <2>1. uplink' = Append(Append(uplink, p), r) /\ UNCHANGED <<command, calls, switched, app>>
    BY <1>0, <1>2 DEF Send
  <2>2. /\ Append(uplink, p) \in Seq(Packets)
        /\ p.call = calls /\ p.cmd = command /\ r.call = calls /\ r.cmd = "REQ_HK"
    BY <1>0, <1>2 DEF Send, Packet, Packets, TypeInv, TypeOK
  <2> HIDE DEF p, r
  <2>3. /\ Ordered(Append(uplink, p), calls, command)
        /\ (\A i \in 1..Len(uplink) : uplink[i].call = calls)
              => \A i \in 1..Len(Append(uplink, p)) : Append(uplink, p)[i].call = calls
    BY <1>0, <2>2, OrderedAppend
  <2>4. /\ Ordered(uplink', calls, command)
        /\ (\A i \in 1..Len(uplink) : uplink[i].call = calls)
              => \A i \in 1..Len(uplink') : uplink'[i].call = calls
    <3> DEFINE q == Append(uplink, p)
    <3>1. q \in Seq(Packets) /\ Ordered(q, calls, command)
      BY <2>2, <2>3
    <3>2. uplink' = Append(q, r)
      BY <2>1
    <3>3. (\A i \in 1..Len(uplink) : uplink[i].call = calls)
              => \A i \in 1..Len(q) : q[i].call = calls
      BY <2>3
    <3> HIDE DEF q
    <3>4. /\ Ordered(Append(q, r), calls, command)
          /\ (\A i \in 1..Len(q) : q[i].call = calls)
                => \A i \in 1..Len(Append(q, r)) : Append(q, r)[i].call = calls
      BY <1>0, <2>2, <3>1, OrderedAppend
    <3> QED
      BY <3>2, <3>3, <3>4
  <2> QED
    BY <2>1, <2>4 DEF CopiesInv, Switching
<1>3. CASE TimeOut \/ Check \/ ConfirmSwitch \/ ConfirmCheck
  BY <1>3 DEF TimeOut, Check, ConfirmSwitch, ConfirmCheck, CopiesInv, Switching
<1>4. ASSUME NEW d, uplink' = Append(uplink, Packet("REQ_HK", calls')), calls' = calls + 1,
             command' = d
      PROVE Ordered(uplink', calls', command')
  <2>1. Ordered(uplink, calls + 1, d)
    BY <1>0, OrderedNewCall
  <2>2. Packet("REQ_HK", calls + 1).call = calls + 1
        /\ Packet("REQ_HK", calls + 1).cmd = "REQ_HK"
    BY DEF Packet
  <2> QED
    <3>1. Ordered(Append(uplink, Packet("REQ_HK", calls + 1)), calls + 1, d)
      BY <1>0, <2>1, <2>2, OrderedAppend
    <3> QED
      BY <1>4, <3>1
<1>5. CASE ConfirmData
  <2>1. command' = "none" /\ Ordered(uplink', calls', command')
    BY <1>4, <1>5 DEF ConfirmData, MayCall
  <2> QED
    BY <2>1 DEF CopiesInv, Switching
<1>6. CASE SafeGps
  <2>1. switched' = 0 /\ Ordered(uplink', calls', command')
    BY <1>4, <1>6 DEF SafeGps, MayCall
  <2> QED
    BY <2>1 DEF CopiesInv
<1>7. CASE SafeCheck
  <2>1. command' = command /\ UNCHANGED <<app, uplink, calls>>
        /\ (switched' = 0 \/ switched' = switched)
    BY <1>7 DEF SafeCheck, Begin, TypeInv
  <2> QED
    BY <2>1 DEF CopiesInv, Switching
<1> QED
  BY <1>1, <1>2, <1>3, <1>5, <1>6, <1>7 DEF Script

\* The steps of the application and of the links.
LEMMA CopiesOthers == ASSUME TypeInv, CopiesInv, [Next]_vars, ~Script PROVE CopiesInv'
<1>0. /\ uplink \in Seq(Packets) /\ calls \in Nat /\ switched \in Nat
      /\ Ordered(uplink, calls, command) /\ app \in Housekeeping
  BY DEF TypeInv, TypeOK, Packets, CopiesInv
<1>1. ASSUME AppCommand
      PROVE  /\ Ordered(uplink', calls', command') /\ UNCHANGED <<command, calls>>
             /\ Head(uplink).call = calls =>
                  /\ \A i \in 1..Len(uplink') : uplink'[i].call = calls
                  /\ Head(uplink).cmd = command
             /\ \A i \in 1..Len(uplink') : \E j \in 1..Len(uplink) : uplink'[i] = uplink[j]
  <2>1. /\ uplink # <<>> /\ uplink' = Tail(uplink) /\ UNCHANGED <<command, calls>>
        /\ Head(uplink).cmd # "REQ_HK"
    BY <1>1 DEF AppCommand
  <2> QED
    BY <1>0, <2>1, OrderedTail
<1>2. CASE AppRefuses
  <2>1. AppCommand /\ UNCHANGED <<app, switched>>
    BY <1>2 DEF AppRefuses
  <2> QED
    BY <1>1, <2>1 DEF CopiesInv, Switching
<1>3. CASE AppCounts
  <2>1. AppCommand /\ switched' = switched /\ app'.enabled = app.enabled
    BY <1>0, <1>3 DEF AppCounts, Housekeeping
  <2> QED
    BY <1>1, <2>1 DEF CopiesInv, Switching
<1>4. CASE AppSwitches
  <2>0. AppCommand /\ Accepts(Head(uplink).cmd) /\ uplink # <<>>
    BY <1>4 DEF AppSwitches, AppCommand
  <2>1. CASE Head(uplink).call # calls
    <3>1. switched' = switched
      BY <1>4, <2>1 DEF AppSwitches, OfThisCall
    <3>2. Head(uplink) = uplink[1] /\ 1 \in 1..Len(uplink)
      BY <1>0, <2>0
    <3>3. Switching => switched # 1
      BY <2>1, <3>2 DEF CopiesInv
    <3> QED
      BY <1>1, <2>0, <3>1, <3>3 DEF CopiesInv, Switching
  <2>2. CASE Head(uplink).call = calls
    <3>1. switched' = switched + 1 /\ Head(uplink).cmd = command
      BY <1>1, <1>4, <2>0, <2>2 DEF AppSwitches, OfThisCall
    <3>2. Switching => switched = 0
      <4>1. Switching => ~(switched = 1)
        BY <2>0, <3>1, Zenon DEF CopiesInv, Switching, Accepts
      <4> QED
        BY <1>0, <4>1 DEF CopiesInv
    <3>3. Switching => app'.enabled = (command = "ENABLE")
      BY <1>0, <1>4, <3>1 DEF AppSwitches, Housekeeping
    <3> QED
      BY <1>1, <2>0, <2>2, <3>1, <3>2, <3>3 DEF CopiesInv, Switching
  <2> QED
    BY <2>1, <2>2
<1>5. CASE AppReportsHk \/ LoseUp
  <2>1. /\ uplink # <<>> /\ uplink' = Tail(uplink)
        /\ UNCHANGED <<command, calls, switched, app>>
    BY <1>5 DEF AppReportsHk, LoseUp
  <2>2. /\ Ordered(uplink', calls', command')
        /\ \A i \in 1..Len(uplink') : \E j \in 1..Len(uplink) : uplink'[i] = uplink[j]
    <3>1. /\ Ordered(Tail(uplink), calls, command)
          /\ \A i \in 1..Len(Tail(uplink)) : \E j \in 1..Len(uplink) : Tail(uplink)[i] = uplink[j]
      BY <1>0, <2>1, OrderedTail
    <3> QED
      BY <2>1, <3>1
  <2> QED
    BY <2>1, <2>2 DEF CopiesInv, Switching
<1>6. CASE HkArrives \/ ScheduledHk \/ LoseDown \/ UNCHANGED vars
  BY <1>6 DEF HkArrives, ScheduledHk, LoseDown, vars, CopiesInv, Switching
<1>7. CASE ChildReads
  <2>1. app'.enabled = app.enabled
    BY <1>0, <1>7 DEF ChildReads, Housekeeping
  <2> QED
    BY <1>7, <2>1 DEF ChildReads, CopiesInv, Switching
<1> QED
  BY <1>2, <1>3, <1>4, <1>5, <1>6, <1>7 DEF Next

\* Whatever is lost, delayed or comes unasked, however many scripts stop and are run
\* again, the ENABLE or DISABLE of one call opens or closes the port at most once.
THEOREM SwitchesOnce == Spec => []SwitchedAtMostOnce
<1>1. CopiesInv => SwitchedAtMostOnce
  BY DEF CopiesInv, Switching, SwitchedAtMostOnce
<1>2. TypeInv /\ CopiesInv /\ [Next]_vars => CopiesInv'
  BY CopiesScript, CopiesOthers
<1> QED
  BY TypeInit, TypeNext, CopiesInit, <1>1, <1>2, PTL DEF Spec

-----------------------------------------------------------------------------
(* Without unasked housekeeping, and when nothing goes on after a script that      *)
(* stopped.  The inductive invariant says that the links are empty and the ground    *)
(* has seen the application's counter and flag wherever the script is not waiting,   *)
(* and what can be under way where it is; and it ties the counter to the number of   *)
(* accepted copies.                                                             *)

Working == {"idle", "passed", "confirmed", "send", "check", "confirmCheck", "safeCheck"}
Agrees(p) == p.count = app.count /\ p.enabled = app.enabled

LinksInv ==
    /\ pc \in Working => uplink = <<>> /\ downlink = <<>> /\ Agrees(view)
    /\ pc \in Waiting =>
          \/ downlink = <<>> /\ uplink = <<>>
          \/ downlink = <<>> /\ Len(uplink) = 1 /\ uplink[1].cmd = "REQ_HK"
          \/ /\ downlink = <<>> /\ Len(uplink) = 2 /\ uplink[2].cmd = "REQ_HK"
             /\ uplink[1].cmd = command /\ uplink[1].call = calls
             /\ pc = "wait" /\ accepted = 0
          \/ uplink = <<>> /\ Len(downlink) = 1 /\ Agrees(downlink[1])

CountInv ==
    /\ pc = "send" => accepted = 0
    /\ pc \in {"send", "wait", "check"} =>
          \/ accepted = 0 /\ (app.count + 1) % CntMod = expected
          \/ accepted = 1 /\ app.count = expected
    /\ pc = "passed" /\ expected # 0 => accepted = 1
    /\ pc = "confirmed" => app.enabled = (command = "ENABLE")

LosslessInv == ~stray => LinksInv /\ CountInv

\* Nothing is under way, and the ground has seen what the application has.
LEMMA LinksInit == Init => LosslessInv
  BY DEF Init, LosslessInv, LinksInv, CountInv, Working, Waiting, Agrees

\* The operations of the script.
LEMMA LinksScript ==
  ASSUME TypeInv, ~stray', LinksInv, CountInv, Script PROVE LinksInv' /\ CountInv'
<1> USE DEF Working, Waiting, Agrees
<1>0. /\ uplink \in Seq(Packets) /\ calls \in Nat /\ accepted \in Nat /\ expected \in Counts
      /\ app \in Housekeeping /\ view \in Housekeeping /\ app.count \in Counts
  BY DEF TypeInv, TypeOK, Packets, Housekeeping, Counts
<1>1. ASSUME MayCall PROVE uplink = <<>> /\ downlink = <<>> /\ Agrees(view)
  BY <1>1 DEF MayCall, Ended, LinksInv
<1>2. ASSUME NEW c \in Commands, Call(c) PROVE LinksInv' /\ CountInv'
  BY <1>0, <1>1, <1>2 DEF Call, Begin, LinksInv, CountInv
<1>3. CASE Send
  <2>1. uplink = <<>> /\ downlink = <<>> /\ accepted = 0
    BY <1>3 DEF Send, LinksInv, CountInv
  <2>2. uplink' = <<Packet(command, calls), Packet("REQ_HK", calls)>>
    BY <1>3, <2>1 DEF Send
  <2>3. /\ Len(uplink') = 2 /\ uplink'[1].cmd = command /\ uplink'[1].call = calls
        /\ uplink'[2].cmd = "REQ_HK"
    BY <2>2 DEF Packet
  <2>4. LinksInv'
    BY <1>3, <2>1, <2>3 DEF Send, LinksInv
  <2> QED
    BY <1>3, <2>1, <2>4 DEF Send, CountInv
<1>4. CASE TimeOut
  BY <1>4 DEF TimeOut, LinksInv, CountInv
<1>5. CASE Check
  <2>1. uplink = <<>> /\ downlink = <<>> /\ Agrees(view)
    BY <1>5 DEF Check, LinksInv
  <2>2. LinksInv'
    BY <1>5, <2>1 DEF Check, LinksInv
  <2>3. view.count = app.count
    BY <2>1
  <2>4. CASE accepted = 0 /\ (app.count + 1) % CntMod = expected
    <3>1. view.count >= expected => expected = 0
      <4>1. app.count \in Nat /\ (app.count + 1 = CntMod \/ expected = app.count + 1)
        BY <1>0, <2>4, Wraps DEF Counts
      <4>2. app.count + 1 = CntMod => expected = 0
        BY <1>0, <2>4, Wraps
      <4> QED
        BY <2>3, <4>1, <4>2
    <3> QED
      BY <1>5, <2>2, <2>4, <3>1 DEF Check, CountInv
  <2>5. CASE accepted = 1 /\ app.count = expected
    BY <1>5, <2>2, <2>3, <2>5 DEF Check, CountInv
  <2> QED
    BY <1>5, <2>4, <2>5 DEF Check, CountInv
<1>6. CASE ConfirmSwitch
  BY <1>6 DEF ConfirmSwitch, LinksInv, CountInv
<1>7. ASSUME pc' \in Waiting \ {"wait"}, uplink = <<>>, downlink = <<>>,
             uplink' = Append(uplink, Packet("REQ_HK", calls')), UNCHANGED downlink
      PROVE LinksInv' /\ CountInv'
  <2>1. uplink' = <<Packet("REQ_HK", calls')>>
    BY <1>7
  <2>2. Len(uplink') = 1 /\ uplink'[1].cmd = "REQ_HK"
    BY <2>1 DEF Packet
  <2> QED
    BY <1>7, <2>2 DEF LinksInv, CountInv
<1>8. CASE ConfirmData
  BY <1>1, <1>7, <1>8 DEF ConfirmData
<1>9. CASE ConfirmCheck
  BY <1>9 DEF ConfirmCheck, LinksInv, CountInv
<1>10. CASE SafeGps
  BY <1>1, <1>7, <1>10 DEF SafeGps
<1>11. CASE SafeCheck
  <2>1. uplink = <<>> /\ downlink = <<>> /\ Agrees(view) /\ command = "DISABLE"
    BY <1>11 DEF SafeCheck, LinksInv, TypeInv
  <2>2. CASE view.enabled
    BY <1>0, <1>11, <2>1, <2>2 DEF SafeCheck, Begin, LinksInv, CountInv
  <2>3. CASE ~view.enabled
    BY <1>0, <1>11, <2>1, <2>3 DEF SafeCheck, LinksInv, CountInv, Housekeeping
  <2> QED
    BY <2>2, <2>3
<1> QED
  BY <1>2, <1>3, <1>4, <1>5, <1>6, <1>8, <1>9, <1>10, <1>11 DEF Script

\* The second of two packets is the only one left.
LEMMA TailOfTwo ==
  \A q \in Seq(Packets) : Len(q) = 2 => Len(Tail(q)) = 1 /\ Tail(q)[1] = q[2]
  OBVIOUS

\* The steps of the application and of the links.
LEMMA LinksOthers ==
  ASSUME TypeInv, ~stray', LinksInv, CountInv, [Next]_vars, ~Script
  PROVE LinksInv' /\ CountInv'
<1> USE DEF Working, Waiting, Agrees
<1>0. /\ uplink \in Seq(Packets) /\ downlink \in Seq(Housekeeping)
      /\ calls \in Nat /\ accepted \in Nat /\ expected \in Counts
      /\ app \in Housekeeping /\ view \in Housekeeping /\ app.count \in Counts
  BY DEF TypeInv, TypeOK, Packets, Housekeeping, Counts
<1>1. CASE HkArrives
  <2>1. downlink # <<>> /\ view' = downlink[1] /\ downlink' = Tail(downlink)
    BY <1>0, <1>1 DEF HkArrives
  <2>2. pc \notin Working
    BY <2>1 DEF LinksInv
  <2>3. CASE pc \in Waiting
    <3>1. uplink = <<>> /\ Len(downlink) = 1 /\ Agrees(downlink[1])
      BY <2>1, <2>3 DEF LinksInv
    <3>2. downlink' = <<>> /\ uplink' = <<>> /\ Agrees(view)'
      BY <1>0, <1>1, <2>1, <3>1 DEF HkArrives
    <3>3. pc' \in {"check", "confirmCheck", "safeCheck"} /\ (pc' = "check" => pc = "wait")
      BY <1>1, <2>3 DEF HkArrives, Checked
    <3>4. LinksInv'
      BY <3>2, <3>3 DEF LinksInv
    <3> QED
      BY <1>1, <3>3, <3>4 DEF HkArrives, CountInv
  <2>4. CASE pc \notin Waiting
    BY <1>1, <2>2, <2>4 DEF HkArrives, LinksInv, CountInv
  <2> QED
    BY <2>3, <2>4
<1>2. CASE AppRefuses \/ AppCounts \/ AppSwitches
  <2>0. AppCommand
    BY <1>2 DEF AppRefuses, AppCounts, AppSwitches
  <2>1. uplink # <<>> /\ Head(uplink) = uplink[1] /\ uplink[1].cmd # "REQ_HK"
        /\ uplink' = Tail(uplink)
    BY <1>0, <2>0 DEF AppCommand
  <2>2. pc \notin Working
    BY <2>1 DEF LinksInv
  <2>3. CASE pc \in Waiting
    <3>1. /\ downlink = <<>> /\ Len(uplink) = 2 /\ uplink[2].cmd = "REQ_HK"
          /\ uplink[1].call = calls /\ pc = "wait" /\ accepted = 0
      BY <2>1, <2>3 DEF LinksInv
    <3>2. Len(uplink') = 1 /\ uplink'[1].cmd = "REQ_HK" /\ downlink' = <<>> /\ pc' = "wait"
      <4>1. Len(Tail(uplink)) = 1 /\ Tail(uplink)[1] = uplink[2]
        BY <1>0, <3>1, TailOfTwo
      <4> QED
        BY <2>0, <2>1, <3>1, <4>1 DEF AppCommand
    <3>3. LinksInv'
      BY <3>2 DEF LinksInv
    <3>4. (app.count + 1) % CntMod = expected
      BY <3>1 DEF CountInv
    <3>5. expected' = expected
      BY <2>0 DEF AppCommand
    <3>6. CASE AppCounts \/ AppSwitches
      <4>1. accepted' = 1
        BY <2>1, <3>1, <3>6 DEF AppCounts, AppSwitches, OfThisCall
      <4>2. app'.count = (app.count + 1) % CntMod
        BY <1>0, <3>6 DEF AppCounts, AppSwitches, Housekeeping
      <4> QED
        BY <3>2, <3>3, <3>4, <3>5, <4>1, <4>2 DEF CountInv
    <3>7. CASE AppRefuses
      <4>1. accepted' = accepted /\ app' = app
        BY <3>7 DEF AppRefuses
      <4> QED
        BY <3>1, <3>2, <3>3, <3>4, <3>5, <4>1 DEF CountInv
    <3> QED
      BY <1>2, <3>6, <3>7
  <2>4. CASE pc \notin Waiting
    BY <2>0, <2>2, <2>4 DEF AppCommand, LinksInv, CountInv
  <2> QED
    BY <2>3, <2>4
<1>3. CASE AppReportsHk
  <2>1. uplink # <<>> /\ uplink[1].cmd = "REQ_HK" /\ uplink' = Tail(uplink)
        /\ downlink' = Append(downlink, app)
    BY <1>0, <1>3 DEF AppReportsHk
  <2>2. pc \notin Working
    BY <2>1 DEF LinksInv
  <2>3. CASE pc \in Waiting
    <3>1. downlink = <<>> /\ Len(uplink) = 1
      BY <2>1, <2>3 DEF LinksInv, TypeInv, TypeOK, AppCommands
    <3>2. uplink' = <<>> /\ Len(downlink') = 1 /\ Agrees(downlink[1])'
      BY <1>0, <1>3, <2>1, <3>1 DEF AppReportsHk
    <3> QED
      BY <1>3, <2>3, <3>2 DEF AppReportsHk, LinksInv, CountInv
  <2>4. CASE pc \notin Waiting
    BY <1>3, <2>2, <2>4 DEF AppReportsHk, LinksInv, CountInv
  <2> QED
    BY <2>3, <2>4
<1>4. CASE ScheduledHk
  BY <1>4 DEF ScheduledHk
<1>5. CASE ChildReads
  <2>1. app'.count = app.count /\ app'.enabled = app.enabled
    BY <1>0, <1>5 DEF ChildReads, Housekeeping
  <2> QED
    BY <1>5, <2>1 DEF ChildReads, LinksInv, CountInv
<1>6. CASE LoseUp
  <2>1. uplink # <<>> /\ uplink' = Tail(uplink) /\ UNCHANGED <<app, downlink, view, pc>>
    BY <1>6 DEF LoseUp
  <2>2. pc \notin Working
    BY <2>1 DEF LinksInv
  <2>3. CASE pc \in Waiting
    <3>1. downlink = <<>> /\ (Len(uplink) = 1 \/ (Len(uplink) = 2 /\ uplink[2].cmd = "REQ_HK"))
      BY <2>1, <2>3 DEF LinksInv
    <3>2. uplink' = <<>> \/ (Len(uplink') = 1 /\ uplink'[1].cmd = "REQ_HK")
      BY <1>0, <2>1, <3>1
    <3> QED
      BY <1>6, <2>3, <3>1, <3>2 DEF LoseUp, LinksInv, CountInv
  <2>4. CASE pc \notin Waiting
    BY <1>6, <2>2, <2>4 DEF LoseUp, LinksInv, CountInv
  <2> QED
    BY <2>3, <2>4
<1>7. CASE LoseDown
  <2>1. downlink # <<>> /\ downlink' = Tail(downlink) /\ UNCHANGED <<app, uplink, view, pc>>
    BY <1>7 DEF LoseDown
  <2>2. pc \notin Working
    BY <2>1 DEF LinksInv
  <2>3. CASE pc \in Waiting
    <3>1. uplink = <<>> /\ downlink' = <<>>
      BY <1>0, <2>1, <2>3 DEF LinksInv
    <3> QED
      BY <1>7, <2>3, <3>1 DEF LoseDown, LinksInv, CountInv
  <2>4. CASE pc \notin Waiting
    BY <1>7, <2>2, <2>4 DEF LoseDown, LinksInv, CountInv
  <2> QED
    BY <2>3, <2>4
<1>8. CASE UNCHANGED vars
  BY <1>8 DEF vars, LinksInv, CountInv
<1> QED
  BY <1>1, <1>2, <1>3, <1>4, <1>5, <1>6, <1>7, <1>8 DEF Next

\* Every step keeps the invariant.
LEMMA LinksNext == TypeInv /\ LosslessInv /\ [Next]_vars => LosslessInv'
<1>1. [Next]_vars => (stray => stray')
  BY DEF Next, Script, Call, Send, TimeOut, Check, ConfirmSwitch, SafeGps, SafeCheck,
         ConfirmData, ConfirmCheck, HkArrives, AppCommand, AppRefuses, AppCounts, AppSwitches, AppReportsHk, ScheduledHk,
         ChildReads, LoseUp, LoseDown, MayCall, vars
<1> QED
  BY <1>1, LinksScript, LinksOthers DEF LosslessInv

\* However many packets of a call are lost, and however often it sends its command: when
\* it passes, unless its counter has wrapped, the command was accepted exactly once.
THEOREM PassesOnce == Spec => []PassedOnce
<1>1. LosslessInv => PassedOnce
  BY DEF LosslessInv, CountInv, PassedOnce
<1> QED
  BY TypeInit, TypeNext, LinksInit, LinksNext, <1>1, PTL DEF Spec

\* enable_gps, disable_gps and safe_gps leave the device as they promise, whatever was
\* lost and wherever the counters wrap.
THEOREM SwitchHolds == Spec => []ConfirmedSwitchHolds
<1>1. LosslessInv => ConfirmedSwitchHolds
  BY DEF LosslessInv, CountInv, ConfirmedSwitchHolds
<1> QED
  BY TypeInit, TypeNext, LinksInit, LinksNext, <1>1, PTL DEF Spec

-----------------------------------------------------------------------------
(* The application *)

\* The scripts are reasoned about with an application that keeps the promise the cFS
\* application keeps (AppKeepsTheView of NovatelAppControlProofs): its counter and its flag
\* only move as CommandView says.
THEOREM ScriptsSeeTheView == Spec => ApplicationAsPromised
<1>1. Init => Application!Init
  BY DEF Init, Application!Init
<1>2. TypeInv /\ [Next]_vars => [Application!Next]_(Application!seen)
  <2> SUFFICES ASSUME TypeInv, [Next]_vars PROVE [Application!Next]_(Application!seen)
    OBVIOUS
  <2> USE DEF Application!Next, Application!Accept, Application!Switch, Application!seen
  <2>1. CASE AppCounts
    BY <2>1 DEF AppCounts, TypeInv, TypeOK, Housekeeping
  <2>2. CASE AppSwitches
    <3>1. app \in Housekeeping /\ uplink[1].cmd \in AppCommands
      BY <2>2 DEF AppSwitches, AppCommand, Accepts, AppCommands, TypeInv, TypeOK
    <3>2. (uplink[1].cmd = "ENABLE") = ~ app.enabled
      BY <2>2, <3>1 DEF AppSwitches, Accepts, AppCommands, Housekeeping
    <3> QED
      BY <2>2, <3>1, <3>2 DEF AppSwitches, Housekeeping
  <2>3. CASE ChildReads
    BY <2>3 DEF ChildReads, TypeInv, TypeOK, Housekeeping
  <2>4. CASE UNCHANGED app
    BY <2>4
  <2> QED
    BY <2>1, <2>2, <2>3, <2>4
    DEF Next, Script, Call, Send, TimeOut, Check, ConfirmSwitch, SafeGps, SafeCheck,
        ConfirmData, ConfirmCheck, HkArrives, AppRefuses, AppReportsHk, ScheduledHk,
        LoseUp, LoseDown, vars
<1> QED
  BY <1>1, <1>2, TypeInit, TypeNext, PTL DEF Spec, ApplicationAsPromised, Application!Spec
=============================================================================
