--------------------------- MODULE TotpDisplayProofs ---------------------------
(***************************************************************************)
(* Proofs about TotpDisplay, for any number of displays, time steps and    *)
(* keys typed ahead.                                                       *)
(*                                                                         *)
(* A display changes nothing of another display; what they share is the    *)
(* clock, which only moves on (OneDisplay), and the clipboard              *)
(* (StepWatched).                                                          *)
(***************************************************************************)
EXTENDS TotpDisplay, SequenceTheorems, TLAPS

\* One display takes a step of its own, or its user does something to it.
Own(p) ==
  \/ EnterRaw(p) \/ Run(p) \/ CtrlC(p) \/ CtrlCEndsTool(p)
  \/ \E k \in {"q", "other"} : Press(p, k)

LEMMA NextCases ==
  ASSUME Next
  PROVE  Tick \/ \E p \in Proc : Own(p)
BY TypingAssumption DEF Next, Own

-----------------------------------------------------------------------------
(* Types.                                                                  *)

LEMMA InitTypes == Init => TypeOK
BY BoundsAssumption DEF Init, TypeOK, Code, NoCode

\* Where a display may be.
Points == {"off"} \cup Shown \cup Done

LEMMA GotoTypes ==
  ASSUME TypeOK, NEW p \in Proc, NEW a, NEW b \in Points, Goto(p, a, b)
  PROVE  pc' \in [Proc -> {"off"} \cup Shown \cup Done]
BY DEF TypeOK, Goto, Points

LEMMA ClockIsCode ==
  ASSUME TypeOK
  PROVE  clock \in Code /\ NoCode \in Code
BY BoundsAssumption DEF TypeOK, Code, NoCode

\* What is read is taken from the front.
LEMMA KeysTaken ==
  ASSUME TypeOK, NEW p \in Proc, keys[p] # << >>,
         keys' = [keys EXCEPT ![p] = Tail(@)]
  PROVE  /\ keys' \in [Proc -> Seq({"q", "other"})]
         /\ \A q \in Proc : Len(keys'[q]) <= MaxKeys
<1>1. /\ Tail(keys[p]) \in Seq({"q", "other"})
      /\ Len(Tail(keys[p])) = Len(keys[p]) - 1
  BY HeadTailProperties DEF TypeOK
<1>2. Len(keys[p]) \in Nat
  BY LenProperties DEF TypeOK
<1> QED BY <1>1, <1>2, BoundsAssumption DEF TypeOK

\* Ctrl-C empties the queue.
LEMMA KeysDropped ==
  ASSUME TypeOK, NEW p \in Proc, keys' = [keys EXCEPT ![p] = << >>]
  PROVE  /\ keys' \in [Proc -> Seq({"q", "other"})]
         /\ \A q \in Proc : Len(keys'[q]) <= MaxKeys
<1>1. << >> \in Seq({"q", "other"}) /\ Len(<< >>) = 0
  BY EmptySeq
<1> QED BY <1>1, BoundsAssumption DEF TypeOK

\* A step of the loop, or of the guards around it, goes from point to point.
LEMMA RunTypes ==
  ASSUME TypeOK, NEW p \in Proc, EnterRaw(p) \/ Run(p)
  PROVE  TypeOK'
<1> USE DEF user, local
<1>0. clock \in Code /\ NoCode \in Code
  BY ClockIsCode
<1>1. /\ {"raw", "guarded", "stepped", "copy", "copied", "test", "recopy"} \subseteq Points
      /\ {"refresh", "draw", "select", "clearing", "unguarded", "exited"} \subseteq Points
  BY DEF Points, Shown, Handled, Looping, Done
<1>2. ASSUME NEW a, NEW b \in Points, Goto(p, a, b),
             UNCHANGED <<clock, clipboard, term, interrupt, keys, cut>>,
             current' \in [Proc -> 0..MaxStep], code' \in [Proc -> Code]
      PROVE  TypeOK'
  BY <1>2, GotoTypes DEF TypeOK
<1>3. CASE EnterRaw(p)
  <2>1. pc' \in [Proc -> {"off"} \cup Shown \cup Done]
    BY <1>1, <1>3, GotoTypes DEF EnterRaw
  <2> QED BY <1>3, <2>1 DEF EnterRaw, TypeOK
<1>4. CASE InstallHandler(p)
  BY <1>1, <1>2, <1>4 DEF InstallHandler, TypeOK
<1>5. CASE Draw(p)
  BY <1>1, <1>2, <1>5 DEF Draw, TypeOK
<1>6. CASE ReadStep(p)
  BY <1>1, <1>2, <1>6 DEF ReadStep, TypeOK
<1>7. ASSUME NEW a, NEW b \in Points, Generate(p, a, b) PROVE TypeOK'
  BY <1>0, <1>2, <1>7 DEF Generate, TypeOK
<1>8. ASSUME NEW a, NEW b \in Points, Copy(p, a, b) PROVE TypeOK'
  <2>1. pc' \in [Proc -> {"off"} \cup Shown \cup Done]
    BY <1>8, GotoTypes DEF Copy
  <2> QED BY <1>8, <2>1 DEF Copy, TypeOK
<1>9. CASE ResetInterrupt(p)
  <2>1. pc' \in [Proc -> {"off"} \cup Shown \cup Done]
    BY <1>1, <1>9, GotoTypes DEF ResetInterrupt
  <2> QED BY <1>9, <2>1 DEF ResetInterrupt, TypeOK
<1>10. CASE TestLoop(p)
  <2>1. \E b \in Points : Goto(p, "test", b)
    BY <1>1, <1>10 DEF TestLoop
  <2>2. current' \in [Proc -> 0..MaxStep]
    BY <1>10 DEF TestLoop, TypeOK
  <2> QED BY <1>2, <1>10, <2>1, <2>2 DEF TestLoop, TypeOK
<1>11. CASE ReadKey(p)
  <2>1. \E b \in Points : Goto(p, "select", b)
    BY <1>1, <1>11 DEF ReadKey
  <2>2. pc' \in [Proc -> {"off"} \cup Shown \cup Done]
    BY <2>1, GotoTypes
  <2>3. /\ keys' \in [Proc -> Seq({"q", "other"})]
        /\ \A q \in Proc : Len(keys'[q]) <= MaxKeys
    BY <1>11, KeysTaken DEF ReadKey, TypeOK
  <2> QED BY <1>11, <2>2, <2>3 DEF ReadKey, TypeOK
<1>12. CASE ClearClipboard(p)
  <2>1. pc' \in [Proc -> {"off"} \cup Shown \cup Done]
    BY <1>1, <1>12, GotoTypes DEF ClearClipboard
  <2> QED BY <1>0, <1>12, <2>1 DEF ClearClipboard, TypeOK
<1>13. CASE RestoreTerminal(p)
  <2>1. pc' \in [Proc -> {"off"} \cup Shown \cup Done]
    BY <1>1, <1>13, GotoTypes DEF RestoreTerminal
  <2> QED BY <1>13, <2>1 DEF RestoreTerminal, TypeOK
<1> QED
  BY <1>1, <1>3, <1>4, <1>5, <1>6, <1>7, <1>8, <1>9, <1>10, <1>11, <1>12, <1>13
     DEF Run, FirstCode, FirstCopy, Refresh, Recopy

LEMMA StepTypes ==
  ASSUME TypeOK, [Next]_vars
  PROVE  TypeOK'
<1>0. NoCode \in Code
  BY ClockIsCode
<1>1. CASE UNCHANGED vars
  BY <1>1 DEF TypeOK, vars, local, user
<1>2. CASE Tick
  <2>1. clock' \in 0..MaxStep
    BY <1>2, BoundsAssumption DEF Tick, TypeOK
  <2> QED BY <1>2, <2>1 DEF Tick, TypeOK, local, user
<1>3. ASSUME NEW p \in Proc, CtrlC(p) PROVE TypeOK'
  <2>1. /\ keys' \in [Proc -> Seq({"q", "other"})]
        /\ \A q \in Proc : Len(keys'[q]) <= MaxKeys
    BY <1>3, KeysDropped DEF CtrlC
  <2>2. pc' \in [Proc -> {"off"} \cup Shown \cup Done]
    BY <1>3 DEF CtrlC, TypeOK, Done
  <2>3. interrupt' \in [Proc -> BOOLEAN]
    BY <1>3 DEF CtrlC, TypeOK
  <2> QED BY <1>3, <2>1, <2>2, <2>3 DEF CtrlC, TypeOK
<1>4. ASSUME NEW p \in Proc, CtrlCEndsTool(p) PROVE TypeOK'
  <2>1. /\ keys' \in [Proc -> Seq({"q", "other"})]
        /\ \A q \in Proc : Len(keys'[q]) <= MaxKeys
    BY <1>4, KeysDropped DEF CtrlCEndsTool
  <2>2. pc' \in [Proc -> {"off"} \cup Shown \cup Done]
    BY <1>4 DEF CtrlCEndsTool, Goto, TypeOK, Shown, Handled, Looping
  <2>3. interrupt' \in [Proc -> BOOLEAN] /\ cut' \in [Proc -> BOOLEAN]
    BY <1>4 DEF CtrlCEndsTool, TypeOK
  <2>4. code' \in [Proc -> Code]
    BY <1>0, <1>4 DEF CtrlCEndsTool, TypeOK
  <2> QED BY <1>4, <2>1, <2>2, <2>3, <2>4 DEF CtrlCEndsTool, TypeOK
<1>5. ASSUME NEW p \in Proc, NEW k \in {"q", "other"}, Press(p, k) PROVE TypeOK'
  <2>1. /\ Append(keys[p], k) \in Seq({"q", "other"})
        /\ Len(Append(keys[p], k)) = Len(keys[p]) + 1
        /\ Len(keys[p]) \in Nat
    BY AppendProperties, LenProperties DEF TypeOK
  <2>2. /\ keys' \in [Proc -> Seq({"q", "other"})]
        /\ \A q \in Proc : Len(keys'[q]) <= MaxKeys
    BY <1>5, <2>1, BoundsAssumption DEF Press, TypeOK
  <2> QED BY <1>5, <2>2 DEF Press, TypeOK, local
<1> QED BY <1>1, <1>2, <1>3, <1>4, <1>5, RunTypes, NextCases DEF Own

\* Whatever the displays and their users do, every variable has its type and
\* nothing that is typed ahead passes the bound of the queue.
THEOREM TypeCorrect == Spec => []TypeOK
<1>1. Init => TypeOK
  BY InitTypes
<1>2. TypeOK /\ [Next]_vars => TypeOK'
  BY StepTypes
<1> QED BY <1>1, <1>2, PTL DEF Spec

-----------------------------------------------------------------------------
(* The code and the clock.                                                 *)

\* The step and the code of a display were read from a clock that has only
\* moved on since.
NotAhead == \A p \in Proc : current[p] <= clock /\ code[p] <= clock

ClockInv == NotAhead /\ CodeNotBehind

LEMMA InitClock == Init => ClockInv
BY DEF Init, ClockInv, NotAhead, CodeNotBehind, NoCode

\* A step after which the clock is not behind and p, wherever it is now, has
\* neither read ahead nor fallen behind; the others are where they were.
LEMMA OneDisplay ==
  ASSUME TypeOK, ClockInv, NEW p \in Proc, clock' = clock,
         \A q \in Proc \ {p} :
           pc'[q] = pc[q] /\ current'[q] = current[q] /\ code'[q] = code[q],
         current'[p] <= clock, code'[p] <= clock,
         pc'[p] \in {"copy", "copied", "test", "recopy", "draw", "select"} =>
           current'[p] <= code'[p]
  PROVE  ClockInv'
BY DEF ClockInv, NotAhead, CodeNotBehind

LEMMA StepClock ==
  ASSUME TypeOK, ClockInv, [Next]_vars
  PROVE  ClockInv'
<1> USE DEF Goto
<1>1. CASE UNCHANGED <<clock, pc, current, code>>
  BY <1>1 DEF ClockInv, NotAhead, CodeNotBehind
<1>2. CASE Tick
  BY <1>2 DEF Tick, local, TypeOK, Code, NoCode, ClockInv, NotAhead, CodeNotBehind
<1>3. ASSUME NEW p \in Proc, Own(p) PROVE ClockInv'
  <2> USE OneDisplay
  <2>1. /\ clock \in Int /\ NoCode <= clock
        /\ current[p] <= clock /\ code[p] <= clock
        /\ pc[p] \in {"copy", "copied", "test", "recopy", "draw", "select"} =>
             current[p] <= code[p]
        /\ DOMAIN pc = Proc /\ DOMAIN current = Proc /\ DOMAIN code = Proc
    BY DEF TypeOK, NoCode, ClockInv, NotAhead, CodeNotBehind
  <2>2. CASE EnterRaw(p) \/ InstallHandler(p) \/ RestoreTerminal(p)
    BY <1>3, <2>1, <2>2 DEF EnterRaw, InstallHandler, RestoreTerminal, local
  <2>3. CASE FirstCopy(p) \/ ResetInterrupt(p) \/ Recopy(p) \/ Draw(p)
    BY <1>3, <2>1, <2>3 DEF FirstCopy, Recopy, Copy, ResetInterrupt, Draw, local
  <2>4. CASE ReadStep(p)
    BY <2>1, <2>4 DEF ReadStep
  <2>5. CASE FirstCode(p) \/ Refresh(p)
    BY <2>1, <2>5 DEF FirstCode, Refresh, Generate
  <2>6. CASE TestLoop(p)
    BY <2>1, <2>6 DEF TestLoop
  <2>7. CASE ReadKey(p)
    BY <2>1, <2>7 DEF ReadKey, local
  <2>8. CASE ClearClipboard(p)
    BY <2>1, <2>8 DEF ClearClipboard
  <2>9. CASE CtrlC(p)
    BY <2>1, <2>9 DEF CtrlC
  <2>10. CASE CtrlCEndsTool(p)
    BY <2>1, <2>10 DEF CtrlCEndsTool
  <2>11. CASE \E k \in {"q", "other"} : Press(p, k)
    BY <1>1, <2>11 DEF Press, local
  <2> QED
    BY <1>3, <2>2, <2>3, <2>4, <2>5, <2>6, <2>7, <2>8, <2>9, <2>10, <2>11 DEF Own, Run
<1> QED BY <1>1, <1>2, <1>3, NextCases DEF vars, local

\* A code that is shown or copied is never older than the step it is shown
\* for, for any number of displays and however the clock jumps.
THEOREM CodeIsCurrent == Spec => []CodeNotBehind
<1>1. Init => TypeOK /\ ClockInv
  BY InitTypes, InitClock
<1>2. TypeOK /\ ClockInv /\ [Next]_vars => TypeOK' /\ ClockInv'
  BY StepTypes, StepClock
<1>3. ClockInv => CodeNotBehind
  BY DEF ClockInv
<1> QED BY <1>1, <1>2, <1>3, PTL DEF Spec

-----------------------------------------------------------------------------
(* The clipboard.                                                          *)

Watched(p) == pc[p] \in Handled \/ cut[p]

\* A display is watched from the installation of its handler until it has
\* cleared the clipboard.
LEMMA StepWatched ==
  ASSUME TypeOK, NEW p \in Proc, Own(p)
  PROVE  /\ \A q \in Proc \ {p} : Watched(q) => Watched(q)'
         /\ Watched(p) => Watched(p)' \/ clipboard' = NoCode
         /\ clipboard' # clipboard => Watched(p)' \/ clipboard' = NoCode
<1> USE DEF TypeOK, Watched, Handled, Looping
<1>1. CASE EnterRaw(p)
  BY <1>1 DEF EnterRaw, Goto, user
<1>2. CASE \/ InstallHandler(p) \/ ReadStep(p) \/ FirstCode(p) \/ FirstCopy(p)
           \/ ResetInterrupt(p) \/ Refresh(p) \/ Recopy(p) \/ Draw(p)
  BY <1>2 DEF InstallHandler, ReadStep, FirstCode, FirstCopy, ResetInterrupt,
              Refresh, Recopy, Draw, Generate, Copy, Goto, user
<1>3. CASE TestLoop(p) \/ ReadKey(p)
  BY <1>3 DEF TestLoop, ReadKey, Goto, user
<1>4. CASE ClearClipboard(p) \/ RestoreTerminal(p)
  BY <1>4 DEF ClearClipboard, RestoreTerminal, Goto, user
<1>5. CASE CtrlC(p) \/ CtrlCEndsTool(p)
  BY <1>5 DEF CtrlC, CtrlCEndsTool, Goto
<1>6. CASE \E k \in {"q", "other"} : Press(p, k)
  BY <1>6 DEF Press
<1> QED BY <1>1, <1>2, <1>3, <1>4, <1>5, <1>6 DEF Own, Run

\* For any number of displays that share the clipboard: a code is in it only
\* while one of them runs, or after a Ctrl-C that ended the clearing tool.
THEOREM ClipboardIsCleared == Spec => []NoCodeLingers
<1>1. Init => TypeOK /\ NoCodeLingers
  BY InitTypes DEF Init, NoCodeLingers
<1>2. TypeOK /\ NoCodeLingers /\ [Next]_vars => TypeOK' /\ NoCodeLingers'
  <2> SUFFICES ASSUME TypeOK, NoCodeLingers, [Next]_vars
               PROVE  TypeOK' /\ NoCodeLingers'
    OBVIOUS
  <2>1. TypeOK'
    BY StepTypes
  <2>2. ASSUME UNCHANGED <<clipboard, pc, cut>> PROVE NoCodeLingers'
    BY <2>2 DEF NoCodeLingers
  <2>3. ASSUME NEW p \in Proc, Own(p) PROVE NoCodeLingers'
    <3>1. CASE clipboard' = NoCode
      BY <3>1 DEF NoCodeLingers
    <3>2. CASE clipboard' # NoCode
      <4>1. \E q \in Proc : Watched(q)'
        BY <2>3, <3>2, StepWatched DEF NoCodeLingers, Watched
      <4> QED BY <4>1 DEF NoCodeLingers, Watched
    <3> QED BY <3>1, <3>2
  <2> QED BY <2>1, <2>2, <2>3, NextCases DEF Tick, vars, user
<1> QED BY <1>1, <1>2, PTL DEF Spec
=============================================================================
