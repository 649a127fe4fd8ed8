# A verification development for pwman

pwman is a command line password manager: one process per command, one
SQLCipher file as the vault, and a second layer of encryption for every field
in it. This directory holds TLA+ models of it, TLC configurations that check
them on small instances, and proofs that TLAPS checks for every instance.
Paths below are relative to the repository.

## Inventory

| Component | State | Operations | Interacts with |
|---|---|---|---|
| Entry and TOTP commands (`src/commands.cpp`, CRUD of `src/database.cpp`) | tables `entries`, `totp_entries`, the AUTOINCREMENT sequence; per process: the command, `entry->id` across a prompt | `add`, `get`, `list`, `del`, `totp add`, `totp del`, `totp` | other processes through the database file; the user at prompts |
| Vault lifecycle (`cmd_init`, `Database::Database`, `Database::init`, `migrate`, `open_vault`, `derive_field_key`) | the file: passphrase, magic, tables, schema version, salt, verify token | `init`; the opening part of every other command | other processes, through `fs::exists` and the file |
| Live TOTP display (`live_totp_display`, its guards and `copy_to_clipboard`) | terminal mode, signal handler and flag, `current_step`, `code`; the clipboard | draw and refresh until a quit key or Ctrl-C | the clock, the clipboard (shared by all displays), the terminal driver |
| TOTP codes (`src/totp.cpp`) | none | time step, truncation, formatting, countdown | HMAC, the display |
| Base32 (`src/base32.cpp`) | none | normalise, validate, decode, encode | `totp add`, `totp` |
| SHA-1 and HMAC (`src/hmac.cpp`) | the hash state and block buffers | padding, compression, key preparation | TOTP codes |
| Cryptography (`src/crypto.cpp`) | none (libsodium) | key derivation, AEAD, zeroing, password generation and strength | all commands |
| Secret zeroing (all commands) | the buffers that hold a secret | `secure_zero` on the way out | returns, exceptions, signals |
| Command line (`src/main.cpp`) | the arguments, and what has been read of them | parsing, extension check, dispatch, catch clauses | all commands |
| Terminal (`src/terminal.cpp`) | echo mode | prompt, table, box | all commands |

What is hard here, and what makes each part correct:

* **No transaction is longer than a statement.** Every command reads, waits for
  a human, then writes. Between the two, any other process may run any command.
  Correct means: names and ids stay unique, a TOTP secret belongs to exactly
  the entry it was set for, and what a reply says was true when it was said.
* **`init` is a chain of single statements after a check made before two
  prompts.** Two of them may run at once and each may be killed anywhere.
  Correct means: only the file's password gets in, both layers of encryption
  open with it, what is stored stays readable.
* **The display races its clock, its user and other displays.** Correct means:
  the code shown is current, a quit key ends the display, the terminal comes
  back, and no code stays in the clipboard.
* **Secrets have many ways out.** Every command has half a dozen returns and a
  dozen calls that throw, and each must zero what is held there. Correct means:
  a return leaves no variable of the command behind, and no way out leaves a
  variable with the master password beside what it protects. (A copy of it, the
  PRAGMA statement, is never zeroed and stays beside everything.)
* **Codes are compared with those of other programs.** Base32, SHA-1 and HMAC
  are written by hand, with boundaries at 5, 8, 55, 56, 63 and 64 bytes. Correct
  means: what is accepted decodes, and the code is the one everybody else shows.
* **Errors are results.** `get_entry` and its siblings return "no row" when
  `sqlite3_step` reports an error, and a command then says "not found" of an
  entry that is there. Lookups that fail are part of the behaviour.

The list of hazards, each at its line and with the properties that watch it, is
in `PROJECT.json`.

## Modules

| Module | What it is |
|---|---|
| `PasswordStore` | what the commands promise: a map from names to entries, every command atomic |
| `VaultCommands` | the commands, one SQL statement per step, over tables, ids and prompts; implements `PasswordStore` |
| `VaultLifecycle` | creation, migration and unlocking of the file, one statement per step |
| `Pwman` | the two above composed: the whole vault |
| `TotpDisplay` | the live display, one use of something shared per step |
| `Base32`, `Hmac` | the hand-written encoding and hash, one loop round per step |
| `TotpCode` | from the typed secret to the digits shown; extends `Base32` and `Hmac` |
| `CommandLine` | `main`: from `argv` to the call of a command |
| `CommandSecrets` | the commands as `main` calls them, by where secrets are; extends `CommandLine` |
| `MCVaultCommands`, `MCVaultLifecycle`, `MCPwman`, `MCTotpCode`, `MCCommandSecrets` | symmetry sets and inputs for TLC |
| `VaultCommandsProofs`, `VaultRefinementProofs`, `VaultLifecycleProofs`, `PwmanProofs`, `TotpDisplayProofs`, `CommandLineProofs`, `CommandSecretsProofs`, `TotpCodeProofs` | theorems and proofs |

### VaultCommands

`entries` and `totp_entries` are the tables, as sets of rows without the
columns no property depends on (the four sealed fields are one value `data`; a
secret stands for its sealed form, algorithm, digits and period); `last_id` is
the row of `sqlite_sequence`. `asked[p]`, `found[p]` and `said[p]` are the
command line of process `p`, the `entry->id` that `cmd_totp_add` keeps, and the
last thing `p` told its user. The name that `add` prompts for is taken as given
from the start; nothing happens between the two.

A command is `Invoke`, `Open` (the password was right), a lookup, and, where
the code prompts, a second action for what follows the prompt: `AddLookup` and
`AddStore`, `DelLookup` and `DelConfirm`, `TotpAddLookup`, `TotpAddCheck` and
`TotpAddStore`, `TotpDelLookup` and `TotpDelConfirm`. `Abort` is every
exception, and a kill, before the write. A write may be followed by `"lost"`:
killed after the commit, before the report. `Read` and `ReadNames` are what the
readers return: with `ReadErrors` also nothing, or less than there is.

The UNIQUE and FOREIGN KEY constraints, AUTOINCREMENT and ON DELETE CASCADE of
the schema are in `MayInsert`, `MayRefer`, `NextId`, `DeleteEntry` and
`ReplaceTotp`. They rely on `PRAGMA foreign_keys=ON`, which the constructor sets
or throws.

### VaultLifecycle

`vault` is the file. Keys are symbolic: the file key is the passphrase, the
field key is the pair of password and salt, and something decrypts under exactly
the key that sealed it. A step is one statement of the constructor, `init`,
`migrate` or `derive_field_key`. `Unlock` is `PRAGMA key`, `verify_vault` when
the file existed, and `PRAGMA journal_mode=WAL`; the latter writes the first
page of an empty file, and fails on a file that the key does not decrypt, which
is what stops an `init` that saw no file and was overtaken. `Initers` says which
processes may be asked to run `init`. `Abort` is a refusal, an exception or a
kill between any two statements. `DeleteVault` is the user who follows the
advice to delete the file. Reads of the opened file are taken to succeed here.

### Pwman

A process has a place in both modules: `pc[p]` in the opening of the file, `at[p]`
in its command. `Start` begins both; `Opening` is a statement of the constructor,
of `migrate` or of `derive_field_key`, and ends the command with it when the
process is not let through; `Opened` is the moment `open_vault` returns;
`Operate` is a statement of the command. A row is the key that sealed it:
`Operate` stores rows under `dk[p]`, and shows one only if `Decrypts`, since
`decrypt` throws otherwise (`Killed`). `Delete` removes the file with its tables.
The operations are those of `VaultCommands` and `VaultLifecycle`, by `INSTANCE`
and `EXTENDS`; nothing is restated.

### TotpDisplay

A code is the time step it was made for. `current_step` and the code come from
separate reads of `clock`. `pc` names the points between the uses of the clock,
the clipboard, the flag and the keyboard; `"guarded"` begins when the SIGINT
handler is in place. `CtrlC` sets the flag there and kills the process
elsewhere, and the terminal driver then drops the unread keys (ISIG without
NOFLSH). `copy_to_clipboard` runs a child in the foreground process group, so
`CtrlCEndsTool` lets Ctrl-C end that child with the clipboard as it was; `cut`
remembers that this happened to the child that clears. `Typing` are the displays
at whose keyboard somebody types: the others have an empty queue. A clipboard
tool is taken to be installed; without one there is no code to clear. stdin is
taken to be a terminal, and the build the POSIX one.

### Base32, Hmac and TotpCode

A character is its code, a byte a number. `base32_normalize`, `base32_validate`
and `base32_encode` are operators; the loop of `base32_decode` is one `Decode`
step per symbol. `Decoded` is the definition of the encoding, without a buffer:
the bits of the symbols, in eights. In the code the buffer keeps bits that were
written already and shifts them out at the top; the model drops them at once,
which is the same since only the lowest `bits` bits are read.

`Hmac` goes through `sha1` word by word and round by round, on words that are the
sets of their one-bits (`Plus` is addition modulo 2^32, `SymDiff` exclusive or),
and through `hmac` hash by hash (`phase`). It has no reference but itself in the
repository; `Known` therefore holds codes computed by another implementation,
two of them from RFC 6238.

`TotpCode` is the way of one secret: `Reject` or `Accept` at the prompt of
`totp add`, `Decode`, `Generate` at some time, `Hash` steps, `Show`.
`to_string` drops zeros in front, as `std::to_string` does.

### CommandLine and CommandSecrets

`CommandLine` is `main`, one action per branch of its loop (`ScanPath`,
`ScanHelp`, `ScanWord`) and of its dispatch. `args` is any sequence of words; a
vector that is read past its end gives `Garbage`. `Exit` says how the process
ended: it returned, an exception was caught, or was not, it crashed, or a signal
killed it.

`CommandSecrets` runs the command that was called. A command is the sequence of
those of its statements that fill or zero a variable with a secret, wait for the
user, return or throw (`Body`); the functions that commands share
(`open_vault`, `derive_field_key`, `totp_generate`, ...) are sequences of their
own, put together as the calls are. `held` are the live variables with a secret in
them, `left` those whose memory was released with it. A statement that returns or
throws says what is zeroed on that way (`zeroes`): the rest goes to `left`.
`Copies` are the copies no code ever zeroes (the PRAGMA statement, table cells,
the digits as printed, `sha1`'s padded message, ...); they go to `left` when made.
So `"pragma"`, a copy of the master password, is in `left` from `apply_key` on, and
what is said of the master password counts it (`OfMaster`, `Memory`). Buffers of
the libraries (`std::cin`, SQLite, SQLCipher, libsodium) are not counted.
A `return_if_empty` is decided by whether the variable was filled, every other
condition by choice. `Interrupt` is Ctrl-C, which ends the process everywhere but
in the display.

## What the runs check

| Run | Question | Instance |
|---|---|---|
| `vault_invariants` | Do the tables stay consistent, and do ids kept across prompts stay safe, even when reads fail? | 3 processes, 2 names, 2 secrets, 2 ids |
| `vault_refinement` | Do the commands implement `PasswordStore` when reads succeed? | 2 processes, 2 names, 2 data, 2 secrets, 3 ids |
| `totp_overwrite` | Is a configured secret never overwritten? **No.** | 2 processes |
| `lifecycle_race` | What survives three `init` at once? | 3 processes, 2 passwords, 3 salts |
| `init_race` | Does `init` leave an initialised vault alone? **No.** | 2 processes |
| `init_crash` | Can the advice to run `init` be followed? **No.** | 1 process |
| `system` | With one `init` at a time, does every row stay readable by every command, and do the tables stay consistent, across kills, deletion and re-creation? | 2 processes, 2 passwords, 2 salts, 2 names, 2 ids |
| `display` | Is the code current, is the clipboard clear when no display runs, does the display catch up, and does a quit key or Ctrl-C end it? | 2 displays, 3 time steps, 2 keys ahead on one terminal |
| `display_terminal` | Does Ctrl-C give the terminal back? **No.** | 1 display |
| `totp_codes` | Is every accepted secret decoded, and is the code the one others show? | 242 typed secrets, 2 times |
| `code_digits` | Does a code have its digits? **No.** | the key of RFC 6238 |
| `invocation` | Is the command called that was typed, and what stays in memory on each way out? | up to 4 arguments out of 15 words |

The runs that answer "no" hold the code to what a message, comment or document
of the repository says; the findings in `PROJECT.json` quote both sides.

* `totp_overwrite`: two `totp add` are both past `has_totp`; the second
  `INSERT OR REPLACE` evicts the first secret, and both users read "configured".
* `init_race`: an `init` still at its prompt replaces the salt of a
  vault that was completed and filled meanwhile; what is in it can then be
  decrypted by nobody. This needs the same password. (Interleaved otherwise, the
  same race leaves the salt of one `init` with the token of the other, and no
  password unlocks the vault: `TokenMatchesSalt` fails when `Initers` has two.)
* `init_crash`: a kill before `CREATE TABLE meta` leaves a file of which one
  command says "run init" and `init` says "already initialized".
* `display_terminal`: the terminal is raw before the handler is there, and still
  raw after it is gone.
* `code_digits`: the key of RFC 6238 at 1111111109 gives 81804, and everybody
  else shows 081804; `includes/totp.h` promises a zero-padded string.

Three more disagreements are in the models without a run of their own:

* A Ctrl-C between the installation of the handler and
  `g_totp_interrupt = 0` (`commands.cpp:162`) is forgotten: `ResetInterrupt`.
  `Progress.md` says Ctrl-C quits. `InterruptQuits` is stated from the loop on.
* A Ctrl-C that falls in the final `copy_to_clipboard("")` ends the tool and the
  code stays, though `Progress.md` says that the clipboard is cleared on exit:
  `cut` in `NoCodeLingers`.
* `README.md` says that sensitive memory is zeroed. On a return this is so for
  every variable of the command and of what it called (`ReturnsClean`), and for
  none of the `Copies`: whatever opened the vault has left the PRAGMA statement
  with the master password in it (`apply_key`, `database.cpp:143`). An exception
  (`Throw`) leaves the field key too, and behind some calls the variable with the
  master password or decrypted fields, though never these two together: beside
  data there is of the master password the PRAGMA statement alone
  (`PragmaAloneBesideData`), as there is whenever a command waits for its user
  behind the password prompts (`MasterWhileWaiting`).

What the passing runs show beside it: the schema's constraints make up for the
missing transactions, because a stale id never comes to mean another entry
(`StaleIdNeverRetargets` fails at once without AUTOINCREMENT); a lost race
between two `init` with *different* passwords is always detected
(`OnlyThePasswordGetsIn`); the double read of the clock heals itself
(`CodeNotBehind`: the code may be ahead of `current_step` and never behind it);
whatever a validated secret is, `base32_decode` takes it in every later `totp`
(`AcceptedDecodes`), and the one secret without a byte is nothing but padding
(`EmptyOnlyFromPadding`); the option loop calls what a reading of the line
without a loop says (`CalledAsTyped`), and reads past its arguments only for a
bare `totp add` or `totp del` (`NameWasTyped`).

### Bounds

Three processes let two race while a third changes the tables under both. Two
names are needed for an id to come to mean another entry, two secrets for one
to be overwritten, two passwords for a wrong one. With two ids one entry can be
deleted and another added; with three this happens twice. Three salts let two
`init` race and a vault be deleted and made again. `MaxId` is the code's limit
made small (AUTOINCREMENT refuses to insert at 2^63-1); `MaxSalt` stops `init`
when no salt is left; `MaxStep` and `MaxKeys` bound the clock and the input
queue: two keys let a quit key wait behind another one. `BoundsAssumption` and
its like name them. The clock may tick several
times between two steps, so a process that was suspended is included.

In `system` one process makes the vault and a second uses it, which is enough for
one to open the file that the other deletes, makes again or fills; two salts
are one re-creation, and with two names an id could come to mean another entry.
With one initialising process and `DeleteVault` only between commands, two things
are out of this run: two `init` that interleave salt and token (`lifecycle_race`
and `init_race` have them), and a file that is deleted under a running command,
which no run has. For more of everything else there are theorems.

`totp_codes` takes every string of up to three characters of five kinds (a
symbol, a small letter, `=`, `-`, a character that is none), every mixture of up
to 9 symbols and 8 `=`, and keys of 63, 64, 65, 119 and 120 bytes: on
either side of a block, where the key is hashed first, and of the size where
SHA-1's padding needs one more block. `MaxEncoded` spares encoding the long ones
again. Messages are taken to be shorter than 8 KiB, so that two bytes hold their
length, and times to be below 2^31 steps.

`invocation` has `MaxArgs` 4: an option with its value and a two-word command, or
`totp add` with its name and one word too many. The words are those `main`
compares with (and `-h` stands with `--help`), the empty word, one name, one path
and three numbers, of which `-1` is what `std::stoul` turns into its largest.

Symmetry sets are used in safety runs only. Deadlock is checked but for
`display`, `display_terminal`, `totp_codes`, `code_digits` and `invocation`, where
the displays, the secret and the process may have come to their end.

### Fairness

Only `TotpDisplay` has liveness properties. `FairSpec` asks weak fairness of
each display's own next step and nothing else: the loop is a single thread that
waits at most 200 ms in `select`. No fairness is asked of the user, of Ctrl-C or
of the clock; `DisplayCatchesUp` is therefore stated for the last time step that
begins.

## What is proved

For any number of processes, and any names, data, secrets, passwords and bounds:

| Theorem | States |
|---|---|
| `VaultCommandsProofs!TypeCorrect` | `TypeOK` |
| `NamesStayUnique` | `NamesUnique` |
| `TotpBelongsToOneEntry` | `NoOrphanTotp` and `OneTotpPerEntry` |
| `RememberedIdIsSafe` | `StaleIdNeverRetargets` |
| `SecretsAreKept` | `TotpNeverOverwritten`, when reads succeed and no two processes wait for the secret of the same entry at once (`OneAsksForSecret`) |
| `VaultRefinementProofs!CommandsImplementStore` | `ImplementsPasswordStore`, when reads succeed |
| `VaultLifecycleProofs!TypeCorrect` | `TypeOK` |
| `OnePassword` | `OnlyThePasswordGetsIn` and `OnePasswordTwoLayers` |
| `VaultIsComplete` | `TokenStoredLast` and `MigratedBeforeUse` |
| `InitsInTurnKeepReadable` | `TokenMatchesSalt`, `SealedReadable` and `InitLeavesVaultAlone`, as long as no two `init` run at the same time (`InitsInTurn`) |
| `VaultStaysReadable` | the first two, when at most one process is in `Initers`, as in the runs |
| `PwmanProofs!PwmanImplementsLifecycle` | the whole vault, seen from its file, behaves as `VaultLifecycle` |
| `InitsInTurnKeepRows` | `RowsOpenWithToken` and `KeysAgree`, as long as no two `init` run at the same time |
| `RowsStayReadable` | the same, when at most one process is in `Initers`, as in the run |
| `VaultIsAStore` | the whole vault implements `PasswordStore`, with one step more: deleting the file empties the map, while no command is under way |
| `VaultKeepsSecrets` | `TotpNeverOverwritten` in the whole vault, under `OneAsksForSecret` |
| `TotpDisplayProofs!TypeCorrect` | `TypeOK` |
| `CodeIsCurrent` | `CodeNotBehind` |
| `ClipboardIsCleared` | `NoCodeLingers` |
| `PwmanProofs!TablesStayInOrder` | `TablesInOrder`: names, secrets and remembered ids, in a vault that is deleted and made again |
| `PwmanTyped` | `PwmanTypeOK` |
| `CommandLineProofs!CommandsCalledAsTyped` | `CalledAsTyped`, for command lines of any length |
| `OnlyVaultFilesOpened` | `OnlyVaultFiles` |
| `NameIsTheTyped` | `NameWasTyped` |
| `GeneratedPasswordsAreStrong` | `GeneratedIsStrong`, for any number that `gen` is given |
| `TerminateMeetsNoSecret` | `UncaughtBeforeSecrets` |
| `CommandSecretsProofs!SecretsTyped` | `TypeOK` |
| `EveryReturnIsClean` | `ReturnsClean` |
| `NothingButPragmaBesideData` | `PragmaAloneBesideData`: which part of the master password lies beside data |
| `MasterIsKnownAtWaits` | `MasterWhileWaiting`: which part of it is in memory at each wait |
| `DisplayKeepsItsSecretOnly` | `DisplayHoldsLittle`, which is about variables and not about `Copies` |
| `EchoIsRestored` | `EchoComesBack` |
| `TotpCodeProofs!AcceptedSecretsDecode` | `AcceptedDecodes`, for strings of any length |
| `EmptyIsPadding` | `EmptyOnlyFromPadding` |
| `CountdownIsRight` | `CountdownEndsWithCode`, for any period |
| `EncodingComesBack` | `EncodingInverts`, for secrets of any length |
| `CodeTyped` | `TypeOK`: decoder, hash and code stay within their widths |
| `CodeIsRight` | the code shown is the one that SHA-1, HMAC and RFC 6238, defined over whole messages, give for the decoded secret and the time, for secrets of any length |
| `CodesAgree` | `CodeAsElsewhere`, for known codes that are those of the definitions |
| `ZerosAreLost` | `CodeIsZeroPadded` holds of a code exactly when the truncated MAC does not begin with a zero; no code has more than its digits |
| `PlusIsAddition` | `Plus` is addition modulo 2^32 |

**VaultCommands.** None of the invariants is inductive alone.
`StaleIdNeverRetargets` needs that an insert never hands out a remembered id,
hence `IdsHandedOut`: every id in a table or in a process is at most `last_id`;
and that the id a lookup returns belongs to no other row, hence `IdsUnique`.
`NamesUnique` and `NoOrphanTotp` carry themselves once the constraints of the
schema are in the guards. `Busy` ties `asked` to `pc`. `IInv` is their
conjunction. The proof first shows that every step is one of eight kinds
(`StepKinds`) and then goes through the kinds. Nothing depends on `ReadErrors`.
`SecretsAreKept` is the other side of the run `totp_overwrite`: its inductive
fact (`StillWithoutSecret`) is that the entry for which a process is asked for a
secret has none yet. Only another process in the same place can give it one, as
every other step only takes secrets away (`StepOnSecrets`), so that a
`totp add` overwrites nothing but in that race. There a failed read matters: it
says "no secret" of an entry that has one.

**The refinement.** `Contents` sees the tables as the map of `PasswordStore`.
Each of the four writes changes it under one name and nowhere else
(`InsertContents`, `ReplaceContents`, `RemoveContents`, `DeleteContents`): this
is where ids and names have to be unique and no secret may be without its entry.
A reply is true because it was read from the tables in the same step
(`ReadImplements`), and a remembered id is that of the entry asked for
(`RememberedIdIsSafe`). `~ReadErrors` is needed: a failed read says "missing" of
an entry that is there.

**VaultLifecycle.** The invariants say, per statement, what the file already
contains when a process is there: who is inside typed the passphrase, a process
that passed a `CREATE` finds the table, one that passed the salt finds a salt.
With one `init` at a time, a process that holds a key derived it from the stored
salt, and nothing else can replace the salt, because `init` found no file. That
is what `InitsInTurn` asks: at no moment are two processes in the command `init`.
Any number of processes may run it one after the other, be killed in it, and race
with all other commands; that `Initers` has one member is only one way to make it
true. It is a hypothesis about the behaviour and not an invariant: nothing in
the code enforces it, and the run `init_race` breaks it.

**Pwman.** Every step of the composition is a step of `VaultLifecycle` or leaves
its variables alone (`PwmanStep`), so all that is proved of the file holds
here; `Operate` is what that module calls `work`. On top of it
`RowsOpenWithToken` is inductive with two facts: with one `init` at a time nobody
replaces a token that is there (`TokenStays`), and a process at work holds the
key of the token (`WorkerHoldsToken`), because `derive_field_key` compared them.
For the tables it is the other module that matters: every step but `Delete` is a
step of `VaultCommands` with keys in the place of data and secrets
(`StatementMoves`, `OpenStepMoves`), so the invariants of
`VaultCommandsProofs` are cited for the instance `CP` and not proved again.
`Delete` empties the tables and with them the sequence ids come from; this keeps
the invariants because `DeleteVault` is the user's, while nothing runs: no process
is in a command then (`AtWork`), and nobody remembers an id of the old file.
`VaultIsAStore` is the refinement of the whole: the keys in the place of data
take part in no guard of the store, so what a user is told in the composed system
is what a map would have told, until the file is deleted (`Emptied`, without
which it is false). It needs no hypothesis about `init`: where two of
them spoil a vault, who cannot decrypt is killed by the exception and told nothing.

**TotpDisplay.** A step of one display changes nothing of another's.
`CodeNotBehind` needs that `current_step` and the code are never ahead of the
clock wherever the display is (`NotAhead`; `OneDisplay` is the induction step).
For `NoCodeLingers`, whoever copies a code is where the handler is in place
(`Watched`), and leaves there only by clearing (`StepWatched`).

**The command line.** `OnlyVaultFiles` and `CalledAsTyped` say which word is a
path, and which belong to the command, by looking back over the `--db` in front
of it; `main` never looks back. The loop keeps that an even number of `--db`
precedes the next word (`Fresh`), that `db_path` is the last value passed
(`PathSoFar`), and that the command with its arguments lists the words passed
that are no options, in their order (`WordsInv`). `WordsMeant` is defined by the
rank of a word among the others, and the loop's list is the only one with these
ranks. The numbers of `gen` are those of `NumberAssumption`.

**Secrets in memory.** A command is straight code but for the display's jump
back, so the proof is a proof outline (`Outline`): an assertion in front of each
statement, each a set of values of `seen`, such that every statement leads from
one to the next and finds there what the properties ask (`Fine`). `seen` is
`held` with the PRAGMA statement, once that is left: the one copy whose
presence the properties speak of. There is one
rule per kind of statement and one for sequences, and the outlines of
`open_vault`, `derive_field_key` and `totp_generate` are made once and used by
every command. `SecretsInv` says that the rest of the command has an
outline from what is held now; as it quantifies over all outlines TLC cannot
evaluate it, so the run checks its consequences.

**Codes.** What a loop over a sequence computes is proved by an induction on a
set of numbers (`Induction`), since the library's theorem takes an operator.
`Without` goes through a string by halves, which spares TLC a recursion as deep as
the string is long; `WithoutIsKept` shows that it keeps what the loop keeps.
`Taken` is the invariant of `base32_decode`: the whole bytes of the symbols taken
are written, and the buffer holds the bits behind them (`Makes` says that a
number is made of so many bits, and `Cut` that quotient and remainder by a power
of two are its front and its back). `Written` is that of `base32_encode`, seen from
the symbols `s` whose bytes it is given: it has written the symbols of `s` of which
it has all bits. What it leaves at the end is less than one symbol, which
`EncodingComesBack` compares bit by bit, and the padding behind is what
`base32_validate` asks for. `base32_validate` leaves a count of symbols
for which the rest is less than one symbol (`Accepted`). `HashInv` has the
sizes of the schedule and of the block buffer at each phase of SHA-1 and HMAC.

**The hash.** The machine keeps one block, one schedule and five words, and
overwrites them. `CodeIsRight` compares it with definitions that keep everything:
a schedule is a function from 1..80 (`IsSchedule`), the rounds and the chain are
functions from the number done to five words (`IsRounds`, `IsChain`), `SHA1` and
`HMAC` relate a whole message to its digest. As relations they need no recursion,
and they are unique (`OneDigest`, `OneMac`), so that one code and no other can
be shown. `At` is the invariant of a hash: the machine is in block `n` of `s`,
`rest` is what is behind it, `h` is where the chain is, `W` the schedule as far as
it goes, and some sequence of rounds leads from `h` to `v`. `MacInv` adds which
message each phase hashes (`Input`), with the key that was resized or hashed
first. A word, round, block or phase that is skipped, done twice or done with a
value of another hash breaks it. The definitions use the functions and the padding of
the model (`F`, `K`, `Padded`, `Plus`): that these are the standard's is what
the run `totp_codes` shows with codes of other programs. For `Plus`, whose
carries are not as one reads them, `PlusIsAddition` proves it, and for `Padded`
`PaddedSize` proves that the last bytes are the size in bits, of a message of less
than 8 KiB: `CodeIsRight` holds of every secret, and its padding is the standard's
for secrets up to that length.

`TypedAssumption` says only that what is typed is a sequence of bytes, and
`TimesAssumption` that a step fits the four bytes the model keeps of it.

## Only model-checked

* That the constants and functions of SHA-1 are those of the standard is a matter
  of test vectors (`CodeAsElsewhere` with the codes in `Known`). Proved is that
  they are applied as the standard says.
* `DisplayCatchesUp`, `QuitKeyQuits` and `InterruptQuits`: liveness under
  fairness is out of the prover's reach.
* What the runs that expect a violation show: that the race, the kill or the
  Ctrl-C can happen. For three of the five a theorem says when the promise is
  kept (`SecretsAreKept`, `InitsInTurnKeepReadable`, `ZerosAreLost`). `InitAdviceCanBeFollowed` has none: between the first
  page of the file and `CREATE TABLE meta` the advice is wrong, and there is
  nothing more to say. Nor has `CtrlCGivesTerminalBack`: outside the two gaps
  that the run shows, it is one line of a destructor.

## Not modelled

* The primitives of libsodium and SQLCipher: keys are symbolic, and something
  opens under exactly the key that sealed it.
* The branches of `hmac.cpp` for SHA256 and SHA512, which nothing reaches
  (`totp_generate` refuses both first), and `parse_otpauth_uri`, a stub.
* `generate_password`, a random choice per character without state (its length
  bounds and the strength heuristic are in `CommandSecrets`).
* The layout of tables and boxes, file permissions, the Windows branches, and
  `migrations.cpp`, which is empty.
* What other programs put into the clipboard, and how long a round of the
  display takes: at the end of input `select` returns at once, and the display
  redraws without a pause.
* Signals other than SIGINT, which end the process wherever it is, also in the
  display: they leave the terminal raw and the code in the clipboard, and no
  guard of the code is meant for them.
* A clock that is set back. `Tick` only moves on, and `CodeNotBehind` needs it: set
  back between the two reads of a refresh, the clock gives a code older than
  `current_step`. The next round compares with `!=` and refreshes again.
* An exception of `totp_generate` in a refresh of the display: the algorithm, the
  digits and the period it refuses are the same in every round, and the first
  call, in front of the loop, has accepted them. Running out of memory is left
  out everywhere.
* A vault that is deleted while a command has it open: `DeleteVault` is the advice
  of `init`'s message, followed when nothing runs.
* SQLite itself is modelled by what its statements do: each one atomic, a writer
  that finds the database busy fails (there is no `busy_timeout`), which is
  `Abort`.

## Plan

Done: the commands and their refinement, the life of the file, their composition,
the display, codes from typed secret to digits, the command line and the secrets
in memory, each checked; and the safety properties of all of them proved, those
that the code does not keep, where there is one, under a condition that keeps
them.

Left, in this order:

1. The clipboard with other programs that write to it.
2. A vault deleted under a running command, for which the file must be known by
   its inode and not by its name.
3. `code_digits` and the other findings as passing runs, once the code is
   changed.
