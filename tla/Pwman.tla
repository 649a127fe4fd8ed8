--------------------------------- MODULE Pwman ---------------------------------
(***************************************************************************)
(* The whole vault: processes that make, migrate and open the file         *)
(* (VaultLifecycle) and then run their commands on its tables              *)
(* (VaultCommands), statement by statement, with kills and with a user who *)
(* deletes the file.  What a command stores is sealed with the field key   *)
(* it derived, and a row is modelled by that key: whether it decrypts is   *)
(* whether the process that reads it holds the same one.                   *)
(***************************************************************************)
EXTENDS VaultLifecycle

CONSTANTS
  Name,    \* entry names
  Nothing, \* no name, and the content of a reply that carries none
  MaxId    \* bound: the largest row id

ASSUME MaxIdAssumption == MaxId \in Nat
ASSUME NothingAssumption == Nothing \notin Name

VARIABLES
  entries, totp_entries, last_id,   \* the tables
  at,                               \* at[p]: where p is in its command
  asked, found, said                \* of p, as in VaultCommands

tables == <<entries, totp_entries, last_id>>
commands == <<tables, at, asked, found, said>>
all == <<vars, commands>>

C == INSTANCE VaultCommands
       WITH Data <- Key, Secret <- Key, pc <- at, ReadErrors <- FALSE

\* The commands that derive_field_key is called for.
Keyed == {"add", "get", "totp_add", "totp"}

PwmanInit == Init /\ C!Init

Start(p, c, n) ==
  /\ Invoke(p, IF c \in Keyed THEN "keyed" ELSE "plain")
  /\ C!Invoke(p, c, n)

StartInit(p) == Invoke(p, "init") /\ UNCHANGED commands

\* The statements of Database::Database, init, migrate and derive_field_key.
OpenStep(p) ==
  \/ \E w \in Password : Construct(p, w)
  \/ Unlock(p)
  \/ StampMagic(p) \/ CreateMeta(p) \/ CreateEntries(p) \/ SetVersion1(p)
  \/ ReadVersion(p) \/ CreateTotp(p) \/ SetVersion2(p)
  \/ StoreSalt(p) \/ StoreVerify(p)
  \/ IsInitialized(p) \/ LoadSalt(p) \/ LoadVerify(p)

\* A command that is not let through ends before its first statement.
Opening(p) ==
  /\ OpenStep(p)
  /\ IF cmd[p] # "init" /\ pc'[p] = "idle" THEN C!Abort(p) ELSE UNCHANGED commands

Opened(p) == pc[p] = "work" /\ C!Open(p) /\ UNCHANGED vars

CommandStep(p) ==
  \/ C!AddLookup(p) \/ C!AddStore(p)
  \/ C!Get(p) \/ C!List(p)
  \/ C!DelLookup(p) \/ C!DelConfirm(p)
  \/ C!TotpAddLookup(p) \/ C!TotpAddCheck(p) \/ C!TotpAddReject(p) \/ C!TotpAddStore(p)
  \/ C!TotpDelLookup(p) \/ C!TotpDelConfirm(p)
  \/ C!Decline(p) \/ C!TotpShow(p)

\* What this step stored: what encrypt made of it shows under which key.
Added == {e.data : e \in entries' \ entries} \cup {t.secret : t \in totp_entries' \ totp_entries}

\* decrypt gives something, and does not throw, under the key that sealed it.
Decrypts(key, data) == key = data

\* A statement of the command: it seals what it stores with dk, if it has one,
\* and shows only what dk opens.
Operate(p) ==
  /\ pc[p] = "work" /\ "entries" \in vault.tables
  /\ CommandStep(p)
  /\ Added \subseteq IF cmd[p] = "keyed" THEN {dk[p]} ELSE {}
  /\ said'[p].kind \in {"shown", "code"} => Decrypts(dk[p], said'[p].what)
  /\ IF at'[p] = "idle" THEN Work(p) /\ sealed' = sealed \cup Added
                        ELSE UNCHANGED vars

\* An exception or a kill, between any two statements; decrypt throws for a row
\* that was sealed with another key.
Killed(p) ==
  /\ Abort(p)
  /\ IF cmd[p] = "init" THEN UNCHANGED commands ELSE C!Abort(p)

\* The file goes, and the tables with it.
Delete ==
  /\ DeleteVault
  /\ entries' = {} /\ totp_entries' = {} /\ last_id' = 0
  /\ UNCHANGED <<at, asked, found, said>>

PwmanNext ==
  \/ \E p \in Proc : \/ \E c \in C!Cmd \ {"none"}, n \in Name : Start(p, c, n)
                     \/ StartInit(p) \/ Opening(p) \/ Opened(p)
                     \/ Operate(p) \/ Killed(p)
  \/ Delete

PwmanSpec == PwmanInit /\ [][PwmanNext]_all
-----------------------------------------------------------------------------

PwmanTypeOK ==
  /\ TypeOK
  /\ entries \subseteq [id : 1..MaxId, name : Name, data : Key]
  /\ totp_entries \subseteq [entry_id : 1..MaxId, secret : Key]

\* The tables are in order, and the id that a totp add remembers is that of
\* its entry or of none, though the file may go and its ids start again at 1.
TablesInOrder ==
  C!NamesUnique /\ C!NoOrphanTotp /\ C!OneTotpPerEntry /\ C!StaleIdNeverRetargets

\* What the rows are sealed with.
RowKeys == {e.data : e \in entries} \cup {t.secret : t \in totp_entries}

\* With one initialiser: every entry and every TOTP secret opens with the key
\* that the stored token opens with, whatever was deleted, killed or made
\* again, and there is none before the token is there.
RowsOpenWithToken ==
  \A k \in RowKeys : k \in Key /\ k = vault.verify

\* With one initialiser: whoever got past derive_field_key can read all that is
\* there, and stores what all the others can read.
KeysAgree ==
  \A p \in Proc : pc[p] = "work" /\ cmd[p] = "keyed" => dk[p] = vault.verify
=============================================================================
