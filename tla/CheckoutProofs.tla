---------------------------- MODULE CheckoutProofs ----------------------------
(***************************************************************************)
(* What Checkout's run "loop" checks, for every word and every number a user     *)
(* types.                                                                    *)
(***************************************************************************)
EXTENDS Checkout, TLAPS

\* A line has at most two numbers, and they are some the user types.
LEMMA ArgumentsAreNumbers ==
  \A a \in Arguments : Len(a) \in 0..2 /\ \A i \in DOMAIN a : a[i] \in Numbers
  BY DEF Arguments

\* No numbers are a line's numbers too.
LEMMA NoArguments == <<>> \in Arguments
  BY DEF Arguments

\* A line stays a line when its numbers are cut off.
LEMMA CutLines ==
  \A l \in Lines : l.args \in Arguments /\ [l EXCEPT !.args = <<>>] \in Lines
  BY NoArguments DEF Lines

\* TypeOK with the tokens kept as the arguments of a line.
TypeInv == TypeOK /\ tokens \in Arguments

\* The initial state is well typed.
LEMMA TypeInit == Init => TypeInv
<1> SUFFICES ASSUME Init PROVE TypeInv
  OBVIOUS
<1>1. Len(tokens) \in 0..2 /\ \A i \in DOMAIN tokens : tokens[i] \in Numbers
  BY ArgumentsAreNumbers, NoArguments DEF Init
<1>2. tokens \in Arguments
  BY NoArguments DEF Init
<1>3. sent \in [code : {0} \cup 4..7, type : 0..4, period : 0..5]
  BY DEF Init, NothingSent
<1> QED
  BY <1>1, <1>2, <1>3 DEF Init, TypeInv, TypeOK

\* Every step keeps the types.
LEMMA TypeNext == TypeInv /\ [Next]_vars => TypeInv'
<1> SUFFICES ASSUME TypeInv, [Next]_vars PROVE TypeInv'
  OBVIOUS
<1> USE DEF TypeInv, TypeOK
<1>1. ASSUME NEW ok \in BOOLEAN, OpenPort(ok) PROVE TypeInv'
  BY <1>1 DEF OpenPort
<1>2. ASSUME NEW l \in Lines, ReadLine(l) PROVE TypeInv'
  BY <1>2 DEF ReadLine, NothingSent
<1>3. CASE ReadNothing
  BY <1>3 DEF ReadNothing, NothingSent
<1>4. CASE Tokenize
  <2>1. buffer.args \in Arguments
    BY CutLines
  <2>2. [buffer EXCEPT !.args = <<>>] \in Lines
    BY CutLines
  <2>3. cmd' \in {"unknown", "help", "exit", "data"} \cup DOMAIN Code
    BY <1>4 DEF Tokenize, GetCommand, Code
  <2>4. tokens' \in Arguments /\ buffer' \in Lines
    BY <1>4, <2>1, <2>2 DEF Tokenize
  <2>5. Len(tokens') \in 0..2 /\ \A i \in DOMAIN tokens' : tokens'[i] \in Numbers
    BY <2>4, ArgumentsAreNumbers
  <2>6. pc' \in {"init", "loop", "line", "process", "done"}
    BY <1>4 DEF Tokenize
  <2> QED
    BY <1>4, <2>3, <2>4, <2>5, <2>6 DEF Tokenize
<1>5. CASE ProcessDevice
  <2>1. sent' \in [code : {0} \cup 4..7, type : 0..4, period : 0..5]
    BY <1>5 DEF ProcessDevice, NothingSent, Code, Builds
  <2> QED
    BY <1>5, <2>1 DEF ProcessDevice
<1>6. CASE ProcessOther
  BY <1>6 DEF ProcessOther
<1>7. CASE ProcessExit
  BY <1>7 DEF ProcessExit
<1>8. CASE Finish
  BY <1>8 DEF Finish
<1>9. CASE UNCHANGED vars
  BY <1>9 DEF vars
<1> QED
  BY <1>1, <1>2, <1>3, <1>4, <1>5, <1>6, <1>7, <1>8, <1>9 DEF Next

\* The program never leaves its types: what it writes is a command the receiver has,
\* although atoi's numbers are narrowed to eight bits.
THEOREM TypeCorrect == Spec => []TypeOK
<1>1. TypeInv => TypeOK
  BY DEF TypeInv
<1> QED
  BY TypeInit, TypeNext, <1>1, PTL DEF Spec

-----------------------------------------------------------------------------
(* What the program does when its input has ended.  The inductive invariant      *)
(* follows the cut line: once a line has been typed, the buffer has no numbers     *)
(* unless fgets has just put them there, which it no longer does.                 *)

CutLine ==
    /\ typed /\ (input = "ended" \/ pc # "line") => buffer.args = <<>>
    /\ typed /\ input = "ended" /\ pc = "process" => tokens = <<>>
    /\ typed => pc # "init"
    /\ EndRepeatsNoNumbers

\* Nothing is typed at first.
LEMMA CutInit == Init => CutLine
  BY DEF Init, CutLine, EndRepeatsNoNumbers

\* Every step keeps the cut line cut.
LEMMA CutNext == TypeInv /\ CutLine /\ [Next]_vars => CutLine'
<1> SUFFICES ASSUME TypeInv, CutLine, [Next]_vars PROVE CutLine'
  OBVIOUS
<1> USE DEF CutLine, EndRepeatsNoNumbers
<1>1. ASSUME NEW ok \in BOOLEAN, OpenPort(ok) PROVE CutLine'
  BY <1>1 DEF OpenPort
<1>2. ASSUME NEW l \in Lines, ReadLine(l) PROVE CutLine'
  BY <1>2 DEF ReadLine, NothingSent
<1>3. CASE ReadNothing
  BY <1>3 DEF ReadNothing, NothingSent
<1>4. CASE Tokenize
  <2>1. buffer'.args = <<>>
    BY <1>4 DEF Tokenize, TypeInv, TypeOK, Lines
  <2> QED
    BY <1>4, <2>1 DEF Tokenize
<1>5. CASE ProcessDevice
  <2>1. ASSUME typed, input = "ended", sent' # NothingSent
        PROVE sent'.code = Code["unlogAll"]
    <3>1. Expected(cmd) = 0
      BY <1>5, <2>1 DEF ProcessDevice
    <3>2. cmd = "unlogAll"
      BY <1>5, <3>1 DEF ProcessDevice, Code, Expected
    <3> QED
      BY <1>5, <2>1, <3>2 DEF ProcessDevice
  <2> QED
    BY <1>5, <2>1 DEF ProcessDevice
<1>6. CASE ProcessOther
  BY <1>6 DEF ProcessOther
<1>7. CASE ProcessExit
  BY <1>7 DEF ProcessExit
<1>8. CASE Finish
  BY <1>8 DEF Finish
<1>9. CASE UNCHANGED vars
  BY <1>9 DEF vars
<1> QED
  BY <1>1, <1>2, <1>3, <1>4, <1>5, <1>6, <1>7, <1>8, <1>9 DEF Next

\* The program that goes on after its input has ended never sends a command with
\* numbers again: only UNLOGALL can be repeated.
THEOREM EndRepeatsOnlyUnlogAll == Spec => []EndRepeatsNoNumbers
<1>1. CutLine => EndRepeatsNoNumbers
  BY DEF CutLine
<1> QED
  BY TypeInit, TypeNext, CutInit, CutNext, <1>1, PTL DEF Spec
=============================================================================
