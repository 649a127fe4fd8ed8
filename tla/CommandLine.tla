------------------------------ MODULE CommandLine ------------------------------
(***************************************************************************)
(* One run of pwman as main sees it (src/main.cpp): from argv over the     *)
(* option loop and the extension check to the call of a command, and back. *)
(* What a command does when it is called is in CommandSecrets.             *)
(***************************************************************************)
EXTENDS Integers, FiniteSets, SequencesExt

CONSTANTS
  Word,        \* what an argument may be
  VaultPath,   \* the words that has_vault_extension accepts
  DefaultPath, \* ~/.pwman/pwman.pwv
  Number,      \* Number[w]: what std::stoul makes of w, where it does not throw
  Garbage,     \* a name that is whatever lies behind a vector
  MaxArgs      \* bound: how many arguments follow the program name

ASSUME DefaultPathAssumption == DefaultPath \in VaultPath
ASSUME MaxArgsAssumption == MaxArgs \in Nat
ASSUME NumberAssumption == \A w \in DOMAIN Number : Number[w] \in Nat

VARIABLES
  args,      \* the arguments behind the program name
  i,         \* the index of the loop, from 1 as there
  db_path, command, cmd_args,   \* "" is the empty std::string
  called,    \* the call main made: the command, its entry name or its length
  pc,        \* where main is
  status     \* how the process ended, see Ended

parse == <<i, db_path, command, cmd_args>>
line == <<args, parse, called, pc, status>>

Nobody == [cmd |-> "none", name |-> "", length |-> 0]

\* main returned; main caught an exception; nobody did; the process read
\* memory that is not its own; a signal.
Ended == {"returned", "caught", "terminated", "crashed", "killed"}

\* The words that main compares with.
Simple == {"init", "add", "list"}
OnEntry == {"get", "del"}
Help == {"--help", "-h"}

-----------------------------------------------------------------------------

LineInit ==
  /\ args \in BoundedSeq(Word, MaxArgs)
  /\ i = 1 /\ db_path = "" /\ command = "" /\ cmd_args = << >>
  /\ called = Nobody
  /\ pc = "boot" /\ status = "none"

Exit(how) ==
  /\ pc' = "ended" /\ status' = how
  /\ UNCHANGED <<args, parse, called>>

\* crypto_init, which may throw inside a try block of its own, and
\* default_db_path, which makes the directory and may throw inside none.
Boot ==
  /\ pc = "boot"
  /\ \/ Exit("caught") \/ Exit("terminated")
     \/ /\ pc' = "scan" /\ db_path' = DefaultPath
        /\ UNCHANGED <<args, i, command, cmd_args, called, status>>

-----------------------------------------------------------------------------
(* The loop over the arguments.                                            *)

Scanning == pc = "scan" /\ i <= Len(args)
TakesPath == args[i] = "--db" /\ i < Len(args)

\* Mutant: the value of --db is looked at again.
ScanPathAgain ==
  /\ Scanning /\ TakesPath
  /\ db_path' = args[i + 1] /\ i' = i + 1
  /\ UNCHANGED <<args, command, cmd_args, called, pc, status>>

ScanPath ==
  /\ Scanning /\ TakesPath
  /\ db_path' = args[i + 1] /\ i' = i + 2
  /\ UNCHANGED <<args, command, cmd_args, called, pc, status>>

ScanHelp == Scanning /\ ~TakesPath /\ args[i] \in Help /\ Exit("returned")

\* The first word, and the next one as long as that is empty, is the command.
ScanWord ==
  /\ Scanning /\ ~TakesPath /\ args[i] \notin Help
  /\ i' = i + 1
  /\ IF command = "" THEN command' = args[i] /\ UNCHANGED cmd_args
                     ELSE cmd_args' = Append(cmd_args, args[i]) /\ UNCHANGED command
  /\ UNCHANGED <<args, db_path, called, pc, status>>

-----------------------------------------------------------------------------
(* The dispatch.                                                           *)

Scanned == pc = "scan" /\ i > Len(args)

\* Mutant: the paths of get and list only.
AdmittedOnReads ==
  Scanned /\ command # "" /\ (command \in {"get", "list"} => db_path \in VaultPath)

\* Past the tests for a command and for the extension of the vault.
Admitted == Scanned /\ command # "" /\ (command # "gen" => db_path \in VaultPath)

\* Nothing to do, or "Database file must use the '.pwv' extension".
Refuse == Scanned /\ ~Admitted /\ Exit("returned")

Call(c, name, length) ==
  /\ called' = [cmd |-> c, name |-> name, length |-> length]
  /\ pc' = "command"
  /\ UNCHANGED <<args, parse, status>>

DispatchSimple == Admitted /\ command \in Simple /\ Call(command, "", 0)

DispatchOnEntry ==
  /\ Admitted /\ command \in OnEntry
  /\ IF cmd_args = << >> THEN Exit("returned") ELSE Call(command, cmd_args[1], 0)

\* Mutant: the word behind the command, in every case.
TotpNameFirst(c) == cmd_args[1]

\* cmd_args[1] of a vector of one string is not there.
TotpName(c) ==
  IF c = "totp" THEN cmd_args[1]
  ELSE IF Len(cmd_args) >= 2 THEN cmd_args[2] ELSE Garbage

DispatchTotp ==
  /\ Admitted /\ command = "totp"
  /\ IF cmd_args = << >> THEN Exit("returned")
     ELSE LET c == CASE cmd_args[1] = "add" -> "totp_add"
                     [] cmd_args[1] = "del" -> "totp_del"
                     [] OTHER               -> "totp"
          IN  Call(c, TotpName(c), 0)

\* Mutant: nine is enough.
TooShortOrLongLax(n) == n < 9 \/ n > 128

TooShortOrLong(n) == n < 10 \/ n > 128

\* std::stoul throws on what does not start with a number, or a too large one.
DispatchGen ==
  /\ Admitted /\ command = "gen"
  /\ IF cmd_args = << >> THEN Call("gen", "", 20)
     ELSE IF cmd_args[1] \notin DOMAIN Number THEN Exit("caught")
     ELSE IF TooShortOrLong(Number[cmd_args[1]]) THEN Exit("returned")
     ELSE Call("gen", "", Number[cmd_args[1]])

DispatchUnknown ==
  /\ Admitted /\ command \notin Simple \cup OnEntry \cup {"totp", "gen"}
  /\ Exit("returned")

MainStep ==
  \/ Boot
  \/ ScanPath \/ ScanHelp \/ ScanWord
  \/ Refuse \/ DispatchSimple \/ DispatchOnEntry \/ DispatchTotp
  \/ DispatchGen \/ DispatchUnknown

-----------------------------------------------------------------------------
(* What the command line means, said without the loop: every --db takes the *)
(* word behind it, unless it was taken itself; all the others are words.    *)

\* j words in front of word k are --db, one after the other.
DbRun(k, j) == j < k /\ \A n \in (k - j)..(k - 1) : args[n] = "--db"

\* A word is a value when an odd number of --db, and no more, precedes it.
Value(k) == \E j \in 1..Len(args) : j % 2 = 1 /\ DbRun(k, j) /\ ~DbRun(k, j + 1)
Option(k) == args[k] = "--db" /\ ~Value(k) /\ k < Len(args)
Words == {k \in DOMAIN args : ~Value(k) /\ ~Option(k)}

Values == {k \in DOMAIN args : Value(k)}
PathMeant ==
  IF Values = {} THEN DefaultPath ELSE args[CHOOSE k \in Values : \A l \in Values : l <= k]

\* The words from the command on, which is the first that is not empty; the nth
\* of them is the one with n of them up to it.
WordsMeant ==
  LET words == Words
      meant == {k \in words : \E l \in words : l <= k /\ args[l] # ""}
      rank  == [k \in meant |-> Cardinality({l \in meant : l <= k})]
  IN  [n \in 1..Cardinality(meant) |-> args[CHOOSE k \in meant : rank[k] = n]]

\* Whoever calls a command did so with the words that were typed, in their
\* order and without those that belong to --db, and on the path that the last
\* --db named: no word is taken twice, or as an option and as a name.  A word
\* --help, wherever it stands, keeps every command from being called.
CalledAsTyped ==
  pc = "command" =>
    /\ db_path = PathMeant
    /\ << command >> \o cmd_args = WordsMeant
    /\ \A k \in Words : args[k] \notin Help

\* "the CLI rejects any DB path without it (except offline gen)": however the
\* path was given, no command works on a file with another extension.
OnlyVaultFiles ==
  pc = "command" /\ called.cmd # "gen" => PathMeant \in VaultPath

\* The entry that a command is about was named behind the command, except for
\* a bare totp add or totp del, the only calls that read past the arguments.
NameWasTyped ==
  pc = "command" /\ called.cmd \notin Simple \cup {"gen"} =>
    LET words == WordsMeant
        sub   == words[1] = "totp" /\ words[2] \in {"add", "del"}
    IN  IF sub THEN Len(words) > 2 => called.name = words[3]
               ELSE called.name = words[2]
=============================================================================
