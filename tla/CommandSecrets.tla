---------------------------- MODULE CommandSecrets ----------------------------
(***************************************************************************)
(* Where secrets are in memory while a command runs, and after it, on      *)
(* every way out: the variables that hold one, when the code zeroes them,  *)
(* and what an early return or an exception leaves (src/commands.cpp, and  *)
(* what it calls in crypto, database, terminal, base32, totp and hmac).    *)
(*                                                                         *)
(* A command is the sequence of its statements, of which only those count  *)
(* that fill or zero such a variable, wait for the user, return or throw.  *)
(* A statement that may throw does so before it fills anything.            *)
(***************************************************************************)
EXTENDS CommandLine

VARIABLES
  at,    \* the index of the statement the command runs next
  held,  \* the variables that hold a secret
  left,  \* those whose memory was given back with the secret in it
  echo   \* whether the terminal echoes

vars == <<line, at, held, left, echo>>

\* What belongs to an entry, and what gives its codes.
Field == {"username", "password", "url", "notes"}
Seed == {"input", "secret_base32", "raw_secret"}

\* Copies of a secret that no code zeroes: the PRAGMA key statement, the message
\* with a generated password, the cells of the table cmd_get prints, the digits
\* print_totp_code spaces out, the strings base32 works on, padded of sha1 and
\* outer_data of hmac.
HmacCopies == {"padded", "outer_data"}
Copies == {"pragma", "message", "cell", "digits", "base32_strings"} \cup HmacCopies

Variable ==
  Field \cup Seed \cup Copies
    \cup {"master", "confirm", "dk", "plain", "rows", "pw", "code", "padded_key", "inner_key",
          "outer_key", "inner_data"}

-----------------------------------------------------------------------------
(* Statements: what they fill, and what they zero on the way out, if they   *)
(* are the way out.                                                        *)

Statement(op, fills, zeroes) == [op |-> op, fills |-> fills, zeroes |-> zeroes]

Prompt(b)     == << Statement("prompt", {b}, {}) >>   \* read_password
Ask(fills)    == << Statement("ask", fills, {}) >>    \* std::getline, echoed
Fill(fills)   == << Statement("fill", fills, {}) >>
Fallible(fills, zeroes) == << Statement("call", fills, zeroes) >>
Wipe(zeroes)  == << Statement("wipe", {}, zeroes) >>
Copy(copies)  == << Statement("copy", copies, {}) >>
MayReturn(zeroes)         == << Statement("may_return", {}, zeroes) >>
ReturnIfEmpty(b, zeroes)  == << Statement("return_if_empty", {b}, zeroes) >>
GenerateIfEmpty(b)        == << Statement("generate_if_empty", {b}, {}) >>
Show          == << Statement("show", {}, {}) >>

TryCall == Fallible({}, {})

\* Database::Database, where a throw is before or behind PRAGMA key; zeroes is
\* what a catch clause around it does.
OpenDatabase(zeroes) ==
  Fallible({}, zeroes) \o Copy({"pragma"}) \o Fallible({}, zeroes)

\* The last call is is_initialized.
open_vault == Prompt("master") \o OpenDatabase({"master"}) \o Fallible({}, {"master"})

\* load_salt, derive_key and load_verify_token throw past the catch clause.
derive_field_key ==
  TryCall \o Fallible({"dk"}, {}) \o TryCall
    \o Fallible({"plain"}, {"dk"}) \o Wipe({"plain"}) \o Fallible({}, {"dk"})

\* Mutant: list, del and totp del forget the master password.
UnlockOnly == open_vault

\* list, del, totp del
Unlock == open_vault \o Wipe({"master"})

\* Mutant: add, get, totp add and totp forget the master password.
UnlockKeyedOnly == open_vault \o derive_field_key

\* add, get, totp add, totp
UnlockKeyed == open_vault \o derive_field_key \o Wipe({"master"})

KeyBlocks == {"padded_key", "inner_key", "outer_key", "inner_data"}

\* With hmac and sha1; the checks at the beginning throw TotpError.
totp_generate ==
  TryCall \o Fill(KeyBlocks) \o Copy(HmacCopies) \o Wipe(KeyBlocks) \o Fill({"code"})

live_totp_display == totp_generate \o Show \o Wipe({"code"})

base32_decode == Copy({"base32_strings"}) \o Fallible({"raw_secret"}, {})

cmd_init ==
  TryCall \o MayReturn({})
    \o Prompt("master") \o ReturnIfEmpty("master", {})
    \o Prompt("confirm") \o MayReturn({"master", "confirm"}) \o Wipe({"confirm"})
    \o OpenDatabase({}) \o Fallible({"dk"}, {}) \o Wipe({"master"})
    \o TryCall \o TryCall \o Wipe({"dk"})

cmd_add ==
  UnlockKeyed
    \o Ask({}) \o MayReturn({"dk"}) \o TryCall \o MayReturn({"dk"})
    \o Ask({"username"}) \o Prompt("password") \o GenerateIfEmpty("password")
    \o Ask({"url"}) \o Ask({"notes"})
    \o TryCall \o Wipe(Field \cup {"dk"}) \o TryCall

cmd_get ==
  UnlockKeyed
    \o TryCall \o MayReturn({"dk"})
    \o Fallible({"username"}, {}) \o Fallible({"password"}, {})
    \o Fallible({"url"}, {}) \o Fallible({"notes"}, {}) \o Wipe({"dk"})
    \o Fill({"rows"}) \o Copy({"cell"}) \o Wipe({"rows"}) \o Wipe(Field)

cmd_list == Unlock \o TryCall

cmd_del == Unlock \o TryCall \o MayReturn({}) \o Ask({}) \o MayReturn({}) \o TryCall

cmd_gen == Fill({"pw"}) \o Wipe({"pw"})

\* Mutant: an otpauth:// URI is refused like an empty input.
RefuseUriKept == MayReturn({"dk"})

\* An otpauth:// URI is a secret too.
RefuseUri == MayReturn({"dk", "input"})

\* Mutant: the field key is zeroed after the display.
StoreTotpKeyed == TryCall

StoreTotp == TryCall \o Wipe({"dk"})

cmd_totp_add ==
  UnlockKeyed
    \o TryCall \o MayReturn({"dk"}) \o TryCall \o MayReturn({"dk"})
    \o Ask({"input"}) \o ReturnIfEmpty("input", {"dk"}) \o RefuseUri
    \o Fill({"secret_base32"}) \o Copy({"base32_strings"})
    \o MayReturn({"dk", "secret_base32", "input"}) \o Wipe({"input"})
    \o TryCall \o base32_decode \o Wipe({"secret_base32"})
    \o StoreTotp \o live_totp_display \o Wipe({"raw_secret"})

cmd_totp ==
  UnlockKeyed
    \o TryCall \o MayReturn({"dk"})
    \o Fallible({"secret_base32"}, {}) \o Wipe({"dk"})
    \o base32_decode \o Wipe({"secret_base32"})
    \o TryCall \o live_totp_display \o Wipe({"raw_secret"})

Body == [init |-> cmd_init, add |-> cmd_add, get |-> cmd_get, list |-> cmd_list,
         del |-> cmd_del, gen |-> cmd_gen, totp |-> cmd_totp,
         totp_add |-> cmd_totp_add, totp_del |-> cmd_del]

TypeOK ==
  /\ args \in Seq(Word) /\ i \in 1..(MaxArgs + 1)
  /\ db_path \in Word \cup {"", DefaultPath} /\ command \in Word \cup {""}
  /\ cmd_args \in Seq(Word)
  /\ called \in [cmd : DOMAIN Body \cup {"none"}, name : Word \cup {"", Garbage},
                 length : {0} \cup 10..128]
  /\ pc \in {"boot", "scan", "command", "ended"}
  /\ status \in Ended \cup {"none"} /\ (status # "none" <=> pc = "ended")
  /\ held \subseteq Variable \ Copies /\ left \subseteq Variable
  /\ echo \in BOOLEAN
  /\ at \in Nat /\ (pc = "command" => at <= Len(Body[called.cmd]) + 1)

-----------------------------------------------------------------------------

InCommand == pc = "command" /\ at <= Len(Body[called.cmd])
Current == Body[called.cmd][at]
At(op) == InCommand /\ Current.op = op

\* The command goes on, and holds h.
Continue(h) ==
  /\ held' = h /\ at' = at + 1
  /\ UNCHANGED <<line, left, echo>>

\* The variables go out of scope, what is still in them stays in memory.
Leave(how, zeroes) ==
  /\ Exit(how)
  /\ left' = left \cup (held \ zeroes) /\ held' = {}
  /\ UNCHANGED <<at, echo>>

\* EchoGuard
StartPrompt ==
  /\ At("prompt") /\ echo
  /\ echo' = FALSE
  /\ UNCHANGED <<line, at, held, left>>

\* Mutant: the terminal is not restored after the password.
EndPromptSilent ==
  /\ At("prompt") /\ ~echo
  /\ held' \in {held, held \cup Current.fills} /\ at' = at + 1
  /\ UNCHANGED <<line, left, echo>>

\* A line is typed, which may be empty.  getline reports a failure in the state
\* of std::cin, so that it ends the prompt like an empty line.
EndPrompt ==
  /\ At("prompt") /\ ~echo
  /\ held' \in {held, held \cup Current.fills} /\ at' = at + 1
  /\ echo' = TRUE
  /\ UNCHANGED <<line, left>>

Answer == At("ask") /\ \E h \in {held, held \cup Current.fills} : Continue(h)

Run ==
  \/ (At("fill") \/ At("call")) /\ Continue(held \cup Current.fills)
  \/ At("wipe") /\ Continue(held \ Current.zeroes)
  \/ At("may_return") /\ Continue(held)
  \/ At("return_if_empty") /\ Current.fills \subseteq held /\ Continue(held)

LeaveCopies ==
  \/ /\ At("copy")
     /\ left' = left \cup Current.fills /\ at' = at + 1
     /\ UNCHANGED <<line, held, echo>>
  \/ /\ At("generate_if_empty")
     /\ held' = held \cup Current.fills
     /\ left' = left \cup IF Current.fills \subseteq held THEN {} ELSE {"message"}
     /\ at' = at + 1
     /\ UNCHANGED <<line, echo>>

\* The display draws, and refreshes the code, until it is left.
Redraw ==
  /\ At("show")
  /\ left' = left \cup {"digits"}
  /\ \/ UNCHANGED <<held, at>>
     \/ held' = held \ {"code"} /\ at' = at - Len(totp_generate)
     \/ UNCHANGED held /\ at' = at + 1
  /\ UNCHANGED <<line, echo>>

ReturnEarly ==
  /\ \/ At("may_return")
     \/ At("return_if_empty") /\ ~(Current.fills \subseteq held)
  /\ Leave("returned", Current.zeroes)

Return == pc = "command" /\ at > Len(Body[called.cmd]) /\ Leave("returned", {})

\* Mutant: main catches the exceptions of pwman, but no std::exception.
ThrowUncaught ==
  At("call") /\ \E how \in {"caught", "terminated"} : Leave(how, Current.zeroes)

\* Every exception of a command is a std::exception, and main catches it.
Throw == At("call") /\ Leave("caught", Current.zeroes)

\* A name that is not there may be memory that is not there.
Crash ==
  /\ InCommand /\ called.name = Garbage
  /\ Exit("crashed") /\ UNCHANGED <<at, held, left, echo>>

\* Ctrl-C ends the process, but for the display, which has a handler.
Interrupt ==
  /\ InCommand /\ Current.op # "show"
  /\ Exit("killed") /\ UNCHANGED <<at, held, left, echo>>

Init == LineInit /\ at = 1 /\ held = {} /\ left = {} /\ echo = TRUE

Next ==
  \/ MainStep /\ UNCHANGED <<at, held, left, echo>>
  \/ StartPrompt \/ EndPrompt \/ Answer
  \/ Run \/ LeaveCopies \/ Redraw
  \/ ReturnEarly \/ Return \/ Throw
  \/ Crash \/ Interrupt

Spec == Init /\ [][Next]_vars

-----------------------------------------------------------------------------

\* On every way on which a command returns, after success, refusal or an
\* abort, all its own variables are zeroed, in every function it called: what
\* stays in memory are copies that no code zeroes.
ReturnsClean == status = "returned" => left \subseteq Copies

\* Where the master password is while it is typed, compared and used, and the
\* copy of it that apply_key writes into the PRAGMA statement and nobody zeroes.
OfMaster == {"master", "confirm", "pragma"}

Memory == held \cup left

\* Wherever fields of an entry or a TOTP secret are in memory, live or left by
\* an exception, the PRAGMA statement is all there is of the master password:
\* neither the variable of the command nor that of a callee lies beside them.
PragmaAloneBesideData ==
  Memory \cap (Field \cup Seed) # {} => Memory \cap OfMaster = {"pragma"}

\* What there is of the master password whenever a command waits for its user:
\* nothing before it is typed; the variable while init has it typed again; and
\* at every prompt behind, and in the display, the PRAGMA statement alone.
MasterWhileWaiting ==
  At("prompt") \/ At("ask") \/ At("show") =>
    Memory \cap OfMaster =
      CASE Current.fills = {"master"}  -> {}
        [] Current.fills = {"confirm"} -> {"master"}
        [] OTHER                       -> {"pragma"}

\* While the display runs, which may be for hours, no variable holds anything but
\* what the next code needs, neither key nor the secret as it was typed; and
\* none was given up unzeroed on the way there, in whatever round.
DisplayHoldsLittle == At("show") => held = {"raw_secret", "code"} /\ left \subseteq Copies

\* The only exception that nobody catches is thrown before the command line is
\* read, so that std::terminate never meets a secret.
UncaughtBeforeSecrets == status = "terminated" => i = 1 /\ held \cup left = {}

\* Echo is off only while a password is being typed: it is back on every way
\* out of a command, unless a signal ended the process at that prompt.
EchoComesBack == ~echo => At("prompt") \/ status \in {"killed", "crashed"}

\* evaluate_password_strength: 6.459 bits (log2 of 88) for each character, in
\* thousandths.  Between 35 and 36 bits the answer is STRONG, as above 59.
evaluate_password_strength(n) ==
  LET entropy == 6459 * n
  IN  CASE entropy <= 35000             -> "WEAK"
        [] entropy \in 36000..59000     -> "MEDIUM"
        [] OTHER                        -> "STRONG"

\* Whatever length main lets through, gen prints a password that the heuristic
\* rates strong.
GeneratedIsStrong ==
  pc = "command" /\ called.cmd = "gen" => evaluate_password_strength(called.length) = "STRONG"
=============================================================================
