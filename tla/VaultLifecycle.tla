---------------------------- MODULE VaultLifecycle ----------------------------
(***************************************************************************)
(* How a vault file comes to be and how it is opened: cmd_init with        *)
(* Database::Database and Database::init, and what open_vault and          *)
(* derive_field_key do before any other command (src/commands.cpp,         *)
(* src/database.cpp), with processes that race, fail or are killed between *)
(* any two writes.                                                         *)
(*                                                                         *)
(* Every SQL statement commits on its own, so each statement that writes   *)
(* is a step; what a process does locally is folded into the statement     *)
(* next to it.  Keys are not bytes but what they are derived from: the     *)
(* file key from the passphrase, the field key from password and salt.     *)
(***************************************************************************)
EXTENDS Integers

CONSTANTS
  Proc,      \* the pwman processes that may run at the same time
  Initers,   \* those of them that may be asked to run init
  Password,  \* the passwords that may be typed
  None,      \* no password
  MaxSalt    \* bound: how many random Argon2id salts are drawn

ASSUME InitersAssumption == Initers \subseteq Proc
ASSUME NoneAssumption == None \notin Password
ASSUME MaxSaltAssumption == MaxSalt \in Nat

VARIABLES
  vault,    \* the file: see Vault
  sealed,   \* the field keys that stored entries and secrets are sealed with
  drawn,    \* how many salts were drawn
  pc,       \* pc[p]: the statement p runs next
  cmd,      \* cmd[p]: "init"; "keyed" for add, get, totp add and totp;
            \*         "plain" for list, del and totp del
  typed,    \* typed[p]: the master password p was given
  existed,  \* existed[p]: `existing` as the constructor computed it
  dk,       \* dk[p]: the DerivedKey p holds
  told      \* told[p]: how the last command of p ended

locals == <<pc, cmd, typed, existed, dk, told>>
vars == <<vault, sealed, drawn, locals>>

NoKey == [password |-> None, salt |-> 0]

\* Argon2id: one key for each password and salt.
derive_key(w, s) == [password |-> w, salt |-> s]

Key == [password : Password, salt : 1..MaxSalt]

Table == {"meta", "entries", "totp_entries"}

\* passphrase: what the file is encrypted with, None while it has no page;
\* magic: application_id is pwman's; version, salt, verify: the rows of meta,
\* 0 or NoKey when there is none; verify is the key that seals the token.
Vault == [passphrase : Password \cup {None}, magic : BOOLEAN,
          tables : SUBSET Table, version : 0..2,
          salt : 0..MaxSalt, verify : Key \cup {NoKey}]

NoVault == [passphrase |-> None, magic |-> FALSE, tables |-> {},
            version |-> 0, salt |-> 0, verify |-> NoKey]

\* fs::exists(path) && fs::file_size(path) > 0
Exists == vault.passphrase # None

\* The statements of a process that got past verify_vault, in the order of
\* the code: init's, migrate's, derive_field_key's.
Stamping == {"stamp", "create_meta", "create_entries", "set_version_1"}
Migrating == {"read_version", "create_totp", "set_version_2"}
Storing == {"store_salt", "store_verify"}
Unlocking == {"is_initialized", "load_salt", "load_verify", "work"}
Inside == Stamping \cup Migrating \cup Storing \cup Unlocking

TypeOK ==
  /\ vault \in Vault
  /\ sealed \subseteq Key
  /\ drawn \in 0..MaxSalt
  /\ pc \in [Proc -> {"idle", "prompt", "unlock"} \cup Inside]
  /\ cmd \in [Proc -> {"none", "init", "keyed", "plain"}]
  /\ typed \in [Proc -> Password \cup {None}]
  /\ existed \in [Proc -> BOOLEAN]
  /\ dk \in [Proc -> Key \cup {NoKey}]
  /\ told \in [Proc -> {"none", "done", "failed", "refused", "run_init"}]

-----------------------------------------------------------------------------

Goto(p, l) == pc' = [pc EXCEPT ![p] = l]

\* The command ends: reported, thrown to main, or killed.
Exit(p, how) ==
  /\ Goto(p, "idle")
  /\ cmd' = [cmd EXCEPT ![p] = "none"]
  /\ typed' = [typed EXCEPT ![p] = None]
  /\ existed' = [existed EXCEPT ![p] = FALSE]
  /\ dk' = [dk EXCEPT ![p] = NoKey]
  /\ told' = [told EXCEPT ![p] = how]

End(p, how) == Exit(p, how) /\ UNCHANGED <<vault, sealed, drawn>>

\* A statement of p at l that leaves the file as v and is followed by m.
Write(p, l, v, m) ==
  /\ pc[p] = l
  /\ vault' = v
  /\ Goto(p, m)
  /\ UNCHANGED <<sealed, drawn, cmd, typed, existed, dk, told>>

Init ==
  /\ vault = NoVault
  /\ sealed = {}
  /\ drawn = 0
  /\ pc = [p \in Proc |-> "idle"]
  /\ cmd = [p \in Proc |-> "none"]
  /\ typed = [p \in Proc |-> None]
  /\ existed = [p \in Proc |-> FALSE]
  /\ dk = [p \in Proc |-> NoKey]
  /\ told = [p \in Proc |-> "none"]

\* Mutant: cmd_init without the check that the file exists.
InvokeUnchecked(p, c) ==
  /\ pc[p] = "idle"
  /\ c = "init" => p \in Initers
  /\ Goto(p, "prompt")
  /\ cmd' = [cmd EXCEPT ![p] = c]
  /\ told' = [told EXCEPT ![p] = "none"]
  /\ UNCHANGED <<vault, sealed, drawn, typed, existed, dk>>

\* cmd_init checks for a vault before it prompts; the other commands prompt
\* at once.
Invoke(p, c) ==
  /\ pc[p] = "idle"
  /\ c = "init" => p \in Initers
  /\ IF c = "init" /\ Exists
       THEN End(p, "refused")
       ELSE /\ Goto(p, "prompt")
            /\ cmd' = [cmd EXCEPT ![p] = c]
            /\ told' = [told EXCEPT ![p] = "none"]
            /\ UNCHANGED <<vault, sealed, drawn, typed, existed, dk>>

\* A password w is typed, and the constructor looks for the file, again.
Construct(p, w) ==
  /\ pc[p] = "prompt"
  /\ IF cmd[p] # "init" /\ ~Exists
       THEN End(p, "run_init")
       ELSE /\ Goto(p, "unlock")
            /\ typed' = [typed EXCEPT ![p] = w]
            /\ existed' = [existed EXCEPT ![p] = Exists]
            /\ UNCHANGED <<vault, sealed, drawn, cmd, dk, told>>

\* verify_vault: the passphrase decrypts the file and the magic is there.
verify_vault(p) == vault.passphrase = typed[p] /\ vault.magic

\* Mutant: the statements after apply_key are not checked for a file that did
\* not exist a moment ago.
UnlockFreshUnchecked(p) ==
  /\ pc[p] = "unlock"
  /\ IF existed[p] => verify_vault(p)
       THEN /\ vault' = [vault EXCEPT !.passphrase = IF Exists THEN @ ELSE typed[p]]
            /\ Goto(p, IF cmd[p] = "init" THEN "stamp" ELSE "is_initialized")
            /\ UNCHANGED <<sealed, drawn, cmd, typed, existed, dk, told>>
       ELSE End(p, "failed")

\* apply_key, verify_vault if the file existed, and PRAGMA journal_mode=WAL,
\* which writes the first page of a file that has none and fails on a file
\* that the key does not decrypt.
Unlock(p) ==
  /\ pc[p] = "unlock"
  /\ IF /\ existed[p] => verify_vault(p)
        /\ vault.passphrase \in {None, typed[p]}
       THEN /\ vault' = [vault EXCEPT !.passphrase = typed[p]]
            /\ Goto(p, IF cmd[p] = "init" THEN "stamp" ELSE "is_initialized")
            /\ UNCHANGED <<sealed, drawn, cmd, typed, existed, dk, told>>
       ELSE End(p, "failed")

-----------------------------------------------------------------------------
(* Database::init                                                          *)

\* derive_key(master) with a fresh random salt, and the first statement.
StampMagic(p) ==
  /\ pc[p] = "stamp"
  /\ drawn < MaxSalt
  /\ drawn' = drawn + 1
  /\ dk' = [dk EXCEPT ![p] = derive_key(typed[p], drawn + 1)]
  /\ vault' = [vault EXCEPT !.magic = TRUE]
  /\ Goto(p, "create_meta")
  /\ UNCHANGED <<sealed, cmd, typed, existed, told>>

CreateMeta(p) ==
  Write(p, "create_meta", [vault EXCEPT !.tables = @ \cup {"meta"}],
        "create_entries")

CreateEntries(p) ==
  Write(p, "create_entries", [vault EXCEPT !.tables = @ \cup {"entries"}],
        "set_version_1")

SetVersion1(p) ==
  Write(p, "set_version_1", [vault EXCEPT !.version = 1], "read_version")

StoreSalt(p) ==
  Write(p, "store_salt", [vault EXCEPT !.salt = dk[p].salt], "store_verify")

StoreVerify(p) ==
  /\ pc[p] = "store_verify"
  /\ vault' = [vault EXCEPT !.verify = dk[p]]
  /\ Exit(p, "done")
  /\ UNCHANGED <<sealed, drawn>>

-----------------------------------------------------------------------------
(* migrate, from init and from is_initialized                              *)

\* Mutant: init forgets to store the salt before the token.
AfterMigrateNoSalt(p) ==
  CASE cmd[p] = "init"  -> "store_verify"
    [] cmd[p] = "keyed" -> "load_salt"
    [] OTHER            -> "work"

AfterMigrate(p) ==
  CASE cmd[p] = "init"  -> "store_salt"
    [] cmd[p] = "keyed" -> "load_salt"
    [] OTHER            -> "work"

ReadVersion(p) ==
  Write(p, "read_version", vault,
        IF vault.version < 2 THEN "create_totp" ELSE AfterMigrate(p))

CreateTotp(p) ==
  Write(p, "create_totp", [vault EXCEPT !.tables = @ \cup {"totp_entries"}],
        "set_version_2")

SetVersion2(p) ==
  Write(p, "set_version_2", [vault EXCEPT !.version = 2], AfterMigrate(p))

-----------------------------------------------------------------------------
(* open_vault, derive_field_key and the command itself                     *)

\* Mutant: is_initialized does not migrate.
IsInitializedOnly(p) ==
  /\ pc[p] = "is_initialized"
  /\ IF "meta" \in vault.tables
       THEN Write(p, "is_initialized", vault, AfterMigrate(p))
       ELSE End(p, "run_init")

IsInitialized(p) ==
  /\ pc[p] = "is_initialized"
  /\ IF "meta" \in vault.tables
       THEN Write(p, "is_initialized", vault, "read_version")
       ELSE End(p, "run_init")

\* Mutant: a key is derived although there is no salt.
LoadSaltUnchecked(p) ==
  /\ pc[p] = "load_salt"
  /\ dk' = [dk EXCEPT ![p] = derive_key(typed[p], vault.salt)]
  /\ Goto(p, "load_verify")
  /\ UNCHANGED <<vault, sealed, drawn, cmd, typed, existed, told>>

LoadSalt(p) ==
  /\ pc[p] = "load_salt"
  /\ IF vault.salt # 0
       THEN /\ dk' = [dk EXCEPT ![p] = derive_key(typed[p], vault.salt)]
            /\ Goto(p, "load_verify")
            /\ UNCHANGED <<vault, sealed, drawn, cmd, typed, existed, told>>
       ELSE End(p, "failed")

\* Mutant: derive_field_key does not look at the token.
LoadVerifyUnchecked(p) == Write(p, "load_verify", vault, "work")

\* The token decrypts only under the key that sealed it.
LoadVerify(p) ==
  /\ pc[p] = "load_verify"
  /\ IF vault.verify = dk[p]
       THEN Write(p, "load_verify", vault, "work")
       ELSE End(p, "failed")

\* add and totp add store what they sealed; the others only read or delete.
Work(p) ==
  /\ pc[p] = "work"
  /\ \/ /\ cmd[p] = "keyed" /\ "entries" \in vault.tables
        /\ sealed' = sealed \cup {dk[p]}
        /\ Exit(p, "done")
        /\ UNCHANGED <<vault, drawn>>
     \/ "entries" \in vault.tables /\ End(p, "done")
     \/ "entries" \notin vault.tables /\ End(p, "failed")

\* A refused prompt, an exception (a busy database, an I/O error) or a kill,
\* between any two statements.
Abort(p) == pc[p] # "idle" /\ End(p, "failed")

\* "... or delete it to start fresh": the user, while nothing runs.
DeleteVault ==
  /\ \A p \in Proc : pc[p] = "idle"
  /\ Exists
  /\ vault' = NoVault
  /\ sealed' = {}
  /\ UNCHANGED <<drawn, locals>>

Step(p) ==
  \/ \E c \in {"init", "keyed", "plain"} : Invoke(p, c)
  \/ \E w \in Password : Construct(p, w)
  \/ Unlock(p)
  \/ StampMagic(p) \/ CreateMeta(p) \/ CreateEntries(p) \/ SetVersion1(p)
  \/ ReadVersion(p) \/ CreateTotp(p) \/ SetVersion2(p)
  \/ StoreSalt(p) \/ StoreVerify(p)
  \/ IsInitialized(p) \/ LoadSalt(p) \/ LoadVerify(p) \/ Work(p)
  \/ Abort(p)

Next == (\E p \in Proc : Step(p)) \/ DeleteVault

Spec == Init /\ [][Next]_vars
-----------------------------------------------------------------------------
(* What holds however many processes initialise the vault at once.         *)

\* Nobody gets past the constructor but with the passphrase of the file, not
\* even an init that found no file and was overtaken by another one.
OnlyThePasswordGetsIn ==
  \A p \in Proc : pc[p] \in Inside => typed[p] = vault.passphrase

\* The same master password opens both layers: the token and all that is
\* stored are sealed under keys derived from the passphrase of the file.
OnePasswordTwoLayers ==
  /\ vault.verify # NoKey => vault.verify.password = vault.passphrase
  /\ \A k \in sealed : k.password = vault.passphrase

\* The verify token is the last thing init stores: with the token there, the
\* file is recognised, has all its tables and has a salt, whichever process
\* was killed where.
TokenStoredLast ==
  vault.verify # NoKey =>
    vault.magic /\ vault.tables = Table /\ vault.salt # 0 /\ vault.version # 0

\* A command that open_vault let through finds the table that the migration
\* adds, even when another init is setting the schema version back to 1.
MigratedBeforeUse ==
  \A p \in Proc :
    pc[p] \in {"load_salt", "load_verify", "work"} =>
      {"meta", "totp_entries"} \subseteq vault.tables

(* What holds when at most one process initialises the vault at a time.    *)

\* The stored salt and the file's passphrase give the key that opens the
\* token: the password that opens the file unlocks the vault.
TokenMatchesSalt ==
  vault.verify # NoKey =>
    vault.verify = derive_key(vault.passphrase, vault.salt)

\* All that is stored decrypts under the field key of the vault.
SealedReadable ==
  \A k \in sealed : k = derive_key(vault.passphrase, vault.salt)

(* What the code says and does not keep.                                   *)

\* "Database already initialized": init leaves an initialised vault alone, so
\* what is stored in it stays readable.
InitLeavesVaultAlone ==
  (\A p \in Proc : pc[p] = "idle") /\ TokenMatchesSalt => SealedReadable

\* "Database not initialized. Run 'pwman init' first.": when a command says
\* so, init would not refuse.
InitAdviceCanBeFollowed ==
  [][\A p \in Proc :
       told[p] # "run_init" /\ told'[p] = "run_init" => ~Exists']_vars
=============================================================================
