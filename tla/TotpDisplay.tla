----------------------------- MODULE TotpDisplay -----------------------------
(***************************************************************************)
(* The live TOTP display (live_totp_display in src/commands.cpp, with      *)
(* RawModeGuard, SigintGuard and copy_to_clipboard): several processes,    *)
(* each on its own terminal, that share the clock and the clipboard.       *)
(*                                                                         *)
(* A code is the time step it was generated for; every read of the clock   *)
(* is a read of its own, and the clock may move between two of them.  A    *)
(* step of a process is what it does up to its next use of something       *)
(* shared: the clock, the clipboard, the signal flag, the keyboard.        *)
(* copy_to_clipboard runs a tool as a child in the same foreground process *)
(* group, which Ctrl-C reaches too.                                        *)
(***************************************************************************)
EXTENDS Integers, Sequences

CONSTANTS
  Proc,      \* the processes that display a code
  Typing,    \* those of them at whose keyboard somebody types
  MaxStep,   \* bound: the last time step of the clock
  MaxKeys    \* bound: how many keys wait unread on a terminal

ASSUME TypingAssumption == Typing \subseteq Proc
ASSUME BoundsAssumption == MaxStep \in Nat /\ MaxKeys \in Nat

VARIABLES
  clock,      \* the time step it is
  clipboard,  \* the code in the clipboard, or NoCode
  pc,         \* pc[p]: the point p is at in live_totp_display
  term,       \* term[p]: the mode of the terminal of p
  interrupt,  \* interrupt[p]: g_totp_interrupt of p
  current,    \* current[p]: current_step of p
  code,       \* code[p]: the code p holds, or NoCode once it is zeroed
  keys,       \* keys[p]: what was typed and is not read yet
  cut         \* cut[p]: Ctrl-C ended the tool that clears the clipboard (history)

local == <<term, interrupt, current, code>>
user == <<keys, cut>>
vars == <<clock, clipboard, pc, local, user>>

NoCode == -1
Code == NoCode..MaxStep

\* In the loop; where the SIGINT handler is installed; where the guards exist
\* or are being made; after the call.
Looping == {"test", "refresh", "recopy", "draw", "select"}
Handled == {"guarded", "stepped", "copy", "copied", "clearing"} \cup Looping
Shown == {"raw", "unguarded"} \cup Handled
Done == {"exited", "killed"}

TypeOK ==
  /\ clock \in 0..MaxStep
  /\ clipboard \in Code
  /\ pc \in [Proc -> {"off"} \cup Shown \cup Done]
  /\ term \in [Proc -> {"cooked", "raw"}]
  /\ interrupt \in [Proc -> BOOLEAN]
  /\ current \in [Proc -> 0..MaxStep]
  /\ code \in [Proc -> Code]
  /\ keys \in [Proc -> Seq({"q", "other"})]
  /\ \A p \in Proc : Len(keys[p]) <= MaxKeys
  /\ cut \in [Proc -> BOOLEAN]

Init ==
  /\ clock = 0
  /\ clipboard = NoCode
  /\ pc = [p \in Proc |-> "off"]
  /\ term = [p \in Proc |-> "cooked"]
  /\ interrupt = [p \in Proc |-> FALSE]
  /\ current = [p \in Proc |-> 0]
  /\ code = [p \in Proc |-> NoCode]
  /\ keys = [p \in Proc |-> << >>]
  /\ cut = [p \in Proc |-> FALSE]

-----------------------------------------------------------------------------
(* live_totp_display                                                       *)

Goto(p, from, to) == pc[p] = from /\ pc' = [pc EXCEPT ![p] = to]

\* RawModeGuard, constructed first.
EnterRaw(p) ==
  /\ Goto(p, "off", "raw")
  /\ term' = [term EXCEPT ![p] = "raw"]
  /\ UNCHANGED <<clock, clipboard, interrupt, current, code, user>>

\* SigintGuard, constructed second.
InstallHandler(p) ==
  Goto(p, "raw", "guarded") /\ UNCHANGED <<clock, clipboard, local, user>>

ReadStep(p) ==
  /\ Goto(p, "guarded", "stepped")
  /\ current' = [current EXCEPT ![p] = clock]
  /\ UNCHANGED <<clock, clipboard, term, interrupt, code, user>>

\* totp_generate reads the clock for itself.
Generate(p, from, to) ==
  /\ Goto(p, from, to)
  /\ code' = [code EXCEPT ![p] = clock]
  /\ UNCHANGED <<clock, clipboard, term, interrupt, current, user>>

\* copy_to_clipboard returns when its tool has taken what was written to it.
Copy(p, from, to) ==
  /\ Goto(p, from, to)
  /\ clipboard' = code[p]
  /\ UNCHANGED <<clock, local, user>>

FirstCode(p) == Generate(p, "stepped", "copy")

FirstCopy(p) == Copy(p, "copy", "copied")

ResetInterrupt(p) ==
  /\ Goto(p, "copied", "test")
  /\ interrupt' = [interrupt EXCEPT ![p] = FALSE]
  /\ UNCHANGED <<clock, clipboard, term, current, code, user>>

\* Mutant: current_step is one step behind.
TestLoopBehind(p) ==
  /\ IF interrupt[p]
       THEN Goto(p, "test", "clearing") /\ UNCHANGED current
       ELSE /\ Goto(p, "test", IF clock # current[p] THEN "refresh" ELSE "draw")
            /\ current' = [current EXCEPT ![p] = clock - 1]
  /\ UNCHANGED <<clock, clipboard, term, interrupt, code, user>>

\* Mutant: a refresh for the next step only, not for any other.
TestLoopNextOnly(p) ==
  /\ IF interrupt[p]
       THEN Goto(p, "test", "clearing") /\ UNCHANGED current
       ELSE /\ Goto(p, "test", IF clock = current[p] + 1 THEN "refresh" ELSE "draw")
            /\ current' = [current EXCEPT ![p] = clock]
  /\ UNCHANGED <<clock, clipboard, term, interrupt, code, user>>

\* The condition of the while loop, and the step of this round.
TestLoop(p) ==
  /\ IF interrupt[p]
       THEN Goto(p, "test", "clearing") /\ UNCHANGED current
       ELSE /\ Goto(p, "test", IF clock # current[p] THEN "refresh" ELSE "draw")
            /\ current' = [current EXCEPT ![p] = clock]
  /\ UNCHANGED <<clock, clipboard, term, interrupt, code, user>>

Refresh(p) == Generate(p, "refresh", "recopy")

Recopy(p) == Copy(p, "recopy", "draw")

\* Mutant: the flag is reset in every round, not once before the loop.
DrawResets(p) ==
  /\ Goto(p, "draw", "select")
  /\ interrupt' = [interrupt EXCEPT ![p] = FALSE]
  /\ UNCHANGED <<clock, clipboard, term, current, code, user>>

Draw(p) == Goto(p, "draw", "select") /\ UNCHANGED <<clock, clipboard, local, user>>

\* Mutant: a quit key returns at once instead of leaving the loop.
ReadKeyReturns(p) ==
  /\ \/ keys[p] = << >> /\ Goto(p, "select", "test") /\ UNCHANGED keys
     \/ /\ keys[p] # << >>
        /\ Goto(p, "select", IF Head(keys[p]) = "q" THEN "unguarded" ELSE "test")
        /\ keys' = [keys EXCEPT ![p] = Tail(@)]
  /\ UNCHANGED <<clock, clipboard, local, cut>>

\* Mutant: the input behind the first key is discarded.
ReadKeyFlushes(p) ==
  /\ \/ keys[p] = << >> /\ Goto(p, "select", "test") /\ UNCHANGED keys
     \/ /\ keys[p] # << >>
        /\ Goto(p, "select", IF Head(keys[p]) = "q" THEN "clearing" ELSE "test")
        /\ keys' = [keys EXCEPT ![p] = << >>]
  /\ UNCHANGED <<clock, clipboard, local, cut>>

\* select times out or is interrupted, or one key is read.
ReadKey(p) ==
  /\ \/ keys[p] = << >> /\ Goto(p, "select", "test") /\ UNCHANGED keys
     \/ /\ keys[p] # << >>
        /\ Goto(p, "select", IF Head(keys[p]) = "q" THEN "clearing" ELSE "test")
        /\ keys' = [keys EXCEPT ![p] = Tail(@)]
  /\ UNCHANGED <<clock, clipboard, local, cut>>

\* copy_to_clipboard("") and secure_zero; the destructor of SigintGuard.
ClearClipboard(p) ==
  /\ Goto(p, "clearing", "unguarded")
  /\ clipboard' = NoCode
  /\ code' = [code EXCEPT ![p] = NoCode]
  /\ UNCHANGED <<clock, term, interrupt, current, user>>

\* The destructor of RawModeGuard, after that of SigintGuard.
RestoreTerminal(p) ==
  /\ Goto(p, "unguarded", "exited")
  /\ term' = [term EXCEPT ![p] = "cooked"]
  /\ UNCHANGED <<clock, clipboard, interrupt, current, code, user>>

-----------------------------------------------------------------------------
(* The user and the time.                                                  *)

\* SIGINT: the handler sets the flag, where there is one; the default action
\* ends the process where it is.  The terminal driver drops unread input.
CtrlC(p) ==
  /\ pc[p] \in Shown
  /\ keys' = [keys EXCEPT ![p] = << >>]
  /\ IF pc[p] \in Handled
       THEN interrupt' = [interrupt EXCEPT ![p] = TRUE] /\ UNCHANGED pc
       ELSE pc' = [pc EXCEPT ![p] = "killed"] /\ UNCHANGED interrupt
  /\ UNCHANGED <<clock, clipboard, term, current, code, cut>>

\* SIGINT also ends the clipboard tool that p waits for, before it has taken
\* the text: the clipboard keeps what it had and p goes on.
CtrlCEndsTool(p) ==
  /\ \/ Goto(p, "copy", "copied") /\ UNCHANGED <<code, cut>>
     \/ Goto(p, "recopy", "draw") /\ UNCHANGED <<code, cut>>
     \/ /\ Goto(p, "clearing", "unguarded")
        /\ code' = [code EXCEPT ![p] = NoCode]
        /\ cut' = [cut EXCEPT ![p] = TRUE]
  /\ interrupt' = [interrupt EXCEPT ![p] = TRUE]
  /\ keys' = [keys EXCEPT ![p] = << >>]
  /\ UNCHANGED <<clock, clipboard, term, current>>

Press(p, k) ==
  /\ pc[p] \in Shown
  /\ Len(keys[p]) < MaxKeys
  /\ keys' = [keys EXCEPT ![p] = Append(@, k)]
  /\ UNCHANGED <<clock, clipboard, pc, local, cut>>

Tick ==
  /\ clock < MaxStep
  /\ clock' = clock + 1
  /\ UNCHANGED <<clipboard, pc, local, user>>

Run(p) ==
  \/ InstallHandler(p) \/ ReadStep(p)
  \/ FirstCode(p) \/ FirstCopy(p) \/ ResetInterrupt(p)
  \/ TestLoop(p) \/ Refresh(p) \/ Recopy(p) \/ Draw(p) \/ ReadKey(p)
  \/ ClearClipboard(p) \/ RestoreTerminal(p)

Next ==
  \/ Tick
  \/ \E p \in Proc : EnterRaw(p) \/ Run(p) \/ CtrlC(p) \/ CtrlCEndsTool(p)
  \/ \E p \in Typing, k \in {"q", "other"} : Press(p, k)

Spec == Init /\ [][Next]_vars

\* A process that has started runs on: it is a single thread that blocks in
\* select for 200 ms at most.  The user and the clock owe nothing.
FairSpec == Spec /\ \A p \in Proc : WF_vars(Run(p))
-----------------------------------------------------------------------------

\* The clipboard is cleared on exit: however displays overlap, a code is in it
\* only while some display runs, or after Ctrl-C hit a display that was
\* already clearing it.
NoCodeLingers ==
  clipboard # NoCode => \E p \in Proc : pc[p] \in Handled \/ cut[p]

\* The code is at least as new as current_step, though the clock is read once
\* for the one and once more for the other: a step boundary between the two
\* reads makes the next round refresh again, and never leaves a stale code.
CodeNotBehind ==
  \A p \in Proc :
    pc[p] \in {"copy", "copied", "test", "recopy", "draw", "select"} =>
      current[p] <= code[p] /\ code[p] <= clock

\* When the last time step begins, a running display comes to hold its code.
DisplayCatchesUp ==
  \A p \in Proc :
    clock = MaxStep /\ pc[p] \in Looping ~> code[p] = MaxStep \/ pc[p] \in Done

\* A quit key that waits unread while the display runs is found behind whatever
\* was typed before it, and ends the display.
QuitKeyQuits ==
  \A p \in Proc :
    pc[p] \in Looping /\ (\E i \in 1..Len(keys[p]) : keys[p][i] = "q")
      ~> pc[p] \in Done

\* Once the loop runs, Ctrl-C ends the display, in whatever round and between
\* whatever two uses of the clock and the clipboard it comes.
InterruptQuits ==
  \A p \in Proc : pc[p] \in Looping /\ interrupt[p] ~> pc[p] \in Done

\* "Terminal put into raw, no-echo mode via RAII RawModeGuard; SIGINT handled
\* via SigintGuard": a Ctrl-C does not leave the terminal raw.
CtrlCGivesTerminalBack == \A p \in Proc : pc[p] \in Done => term[p] = "cooked"
=============================================================================
