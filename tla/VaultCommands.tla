---------------------------- MODULE VaultCommands ----------------------------
(***************************************************************************)
(* The commands of pwman on a vault that is initialised: add, get, list,   *)
(* del, totp add, totp del and totp, run by several processes on the same  *)
(* database file (src/commands.cpp over src/database.cpp).                 *)
(*                                                                         *)
(* Every SQL statement is its own autocommit transaction, so a step is one *)
(* statement: a lookup, the wait at a prompt after it, and the write are   *)
(* separate steps, and other processes run in between.  No transaction     *)
(* spans a lookup and the write that relies on it.  Printing the result is *)
(* folded into the statement it follows, and so is being killed before it. *)
(***************************************************************************)
EXTENDS Integers, FiniteSets

CONSTANTS
  Proc,      \* the pwman processes that may run at the same time
  Name,      \* entry names
  Data,      \* what an entry holds: its four sealed fields, taken together
  Secret,    \* TOTP secrets that pass base32_validate
  Nothing,   \* the content of a reply that carries none
  ReadErrors,\* whether SQLite may fail to read what is there
  MaxId      \* bound: the largest row id AUTOINCREMENT hands out

ASSUME MaxIdAssumption == MaxId \in Nat
ASSUME ReadErrorsAssumption == ReadErrors \in BOOLEAN
ASSUME NothingAssumption == Nothing \notin Name

VARIABLES
  entries,       \* table entries: rows [id, name, data]
  totp_entries,  \* table totp_entries: rows [entry_id, secret]
  last_id,       \* sqlite_sequence of entries: the last id handed out
  pc,            \* pc[p]: where p is in its command
  asked,         \* asked[p]: the command of p and the name it is about
  found,         \* found[p]: entry->id as cmd_totp_add remembers it, or NoId
  said           \* said[p]: the last reply of p to its user

tables == <<entries, totp_entries, last_id>>
vars == <<tables, pc, asked, found, said>>

NoId == 0

Cmd == {"none", "add", "get", "list", "del", "totp_add", "totp_del", "totp"}

Kind == {"none", "failed", "lost", "aborted", "rejected", "missing", "added",
         "exists", "shown", "listed", "deleted", "configured", "set",
         "removed", "code"}

Idle == [cmd |-> "none", name |-> Nothing]

TypeOK ==
  /\ entries \subseteq [id : 1..MaxId, name : Name, data : Data]
  /\ totp_entries \subseteq [entry_id : 1..MaxId, secret : Secret]
  /\ last_id \in 0..MaxId
  /\ pc \in [Proc -> {"idle", "locked", "opened", "looked_up", "prompt"}]
  /\ asked \in [Proc -> [cmd : Cmd, name : Name \cup {Nothing}]]
  /\ found \in [Proc -> 0..MaxId]
  /\ said \in [Proc -> [kind : Kind,
                        what : {Nothing} \cup Data \cup Secret \cup SUBSET Name]]

-----------------------------------------------------------------------------
(* The statements of database.cpp.                                         *)

\* get_entry: the rows of SELECT ... FROM entries WHERE name = ?
Named(n) == {e \in entries : e.name = n}

\* list_entries: SELECT id, name FROM entries
Listed == {e.name : e \in entries}

\* get_totp and has_totp: totp_entries joined with entries WHERE e.name = ?
TotpOf(n) == {t \in totp_entries : \E e \in Named(n) : e.id = t.entry_id}

\* What get_entry, get_totp and has_totp return of rows: sqlite3_step that
\* reports an error looks to them as if there was no row.
Read(rows) == {rows} \cup IF ReadErrors THEN {{}} ELSE {}

\* list_entries stops at the first step that does not return a row.
ReadNames(names) == IF ReadErrors THEN SUBSET names ELSE {names}

\* Mutant: without AUTOINCREMENT, SQLite hands out the largest id in use plus one.
NextIdReused == 1 + CHOOSE m \in 0..MaxId :
                      /\ m = 0 \/ \E e \in entries : e.id = m
                      /\ \A e \in entries : e.id <= m

\* The next id of INTEGER PRIMARY KEY AUTOINCREMENT: above every id ever used.
NextId == last_id + 1

\* Mutant: no UNIQUE constraint on entries.name.
MayInsertTwice(n) == NextId <= MaxId

\* Mutant: ids are not bounded.
MayInsertForever(n) == Named(n) = {}

\* add_entry succeeds under the UNIQUE constraint on entries.name and while
\* AUTOINCREMENT has an id left.
MayInsert(n) == Named(n) = {} /\ NextId <= MaxId

InsertEntry(n, d) ==
  /\ entries' = entries \cup {[id |-> NextId, name |-> n, data |-> d]}
  /\ last_id' = NextId
  /\ UNCHANGED totp_entries

\* Mutant: PRAGMA foreign_keys is off, nothing cascades.
DeleteEntryAlone(n) ==
  /\ entries' = entries \ Named(n)
  /\ UNCHANGED <<totp_entries, last_id>>

\* delete_entry, with ON DELETE CASCADE (PRAGMA foreign_keys=ON).
DeleteEntry(n) ==
  /\ entries' = entries \ Named(n)
  /\ totp_entries' = totp_entries \ TotpOf(n)
  /\ UNCHANGED last_id

\* Mutant: PRAGMA foreign_keys is off, any id is accepted.
MayReferUnchecked(id) == TRUE

\* set_totp succeeds under the foreign key of totp_entries.entry_id.
MayRefer(id) == \E e \in entries : e.id = id

\* Mutant: a plain INSERT into a table without UNIQUE on entry_id.
InsertTotp(id, s) ==
  /\ totp_entries' = totp_entries \cup {[entry_id |-> id, secret |-> s]}
  /\ UNCHANGED <<entries, last_id>>

\* INSERT OR REPLACE: the UNIQUE entry_id evicts the row that was there.
ReplaceTotp(id, s) ==
  /\ totp_entries' = {t \in totp_entries : t.entry_id # id}
                       \cup {[entry_id |-> id, secret |-> s]}
  /\ UNCHANGED <<entries, last_id>>

\* delete_totp
DeleteTotp(n) ==
  /\ totp_entries' = totp_entries \ TotpOf(n)
  /\ UNCHANGED <<entries, last_id>>

-----------------------------------------------------------------------------
(* The end of a command: the process reports and exits.                    *)

Exit(p, kind, what) ==
  /\ pc' = [pc EXCEPT ![p] = "idle"]
  /\ asked' = [asked EXCEPT ![p] = Idle]
  /\ found' = [found EXCEPT ![p] = NoId]
  /\ said' = [said EXCEPT ![p] = [kind |-> kind, what |-> what]]

Report(p, kind, what) == Exit(p, kind, what) /\ UNCHANGED tables

\* After a write: the report may be lost with the process.
ReportWrite(p, kind) == \E k \in {kind, "lost"} : Exit(p, k, Nothing)

At(p, l, c) == pc[p] = l /\ asked[p].cmd = c

Goto(p, l) ==
  /\ pc' = [pc EXCEPT ![p] = l]
  /\ UNCHANGED <<tables, asked, said>>

-----------------------------------------------------------------------------

Init ==
  /\ entries = {} /\ totp_entries = {} /\ last_id = 0
  /\ pc = [p \in Proc |-> "idle"]
  /\ asked = [p \in Proc |-> Idle]
  /\ found = [p \in Proc |-> NoId]
  /\ said = [p \in Proc |-> [kind |-> "none", what |-> Nothing]]

\* main dispatches the command; open_vault prompts for the master password.
Invoke(p, c, n) ==
  /\ pc[p] = "idle"
  /\ pc' = [pc EXCEPT ![p] = "locked"]
  /\ asked' = [asked EXCEPT ![p] = [cmd |-> c, name |-> n]]
  /\ said' = [said EXCEPT ![p] = [kind |-> "none", what |-> Nothing]]
  /\ UNCHANGED <<tables, found>>

\* The right password was typed: open_vault, and derive_field_key where the
\* command needs the field key.
Open(p) == pc[p] = "locked" /\ Goto(p, "opened") /\ UNCHANGED found

\* An exception reaches main (a wrong password, a database that is busy, an
\* I/O error), or the process is killed, before the command wrote anything.
Abort(p) ==
  /\ pc[p] # "idle"
  /\ \E k \in {"failed", "lost"} : Report(p, k, Nothing)

AddLookup(p) ==
  /\ At(p, "opened", "add")
  /\ \/ Report(p, "rejected", Nothing)      \* the name typed was empty
     \/ \E rows \in Read(Named(asked[p].name)) :
          \/ rows # {} /\ Report(p, "exists", Nothing)
          \/ rows = {} /\ Goto(p, "prompt") /\ UNCHANGED found

\* The fields are typed; add_entry checks the name again, by UNIQUE.
AddStore(p) ==
  /\ At(p, "prompt", "add")
  /\ \/ /\ MayInsert(asked[p].name)
        /\ \E d \in Data : InsertEntry(asked[p].name, d)
        /\ ReportWrite(p, "added")
     \/ ~MayInsert(asked[p].name) /\ Report(p, "failed", Nothing)

Get(p) ==
  /\ At(p, "opened", "get")
  /\ \E rows \in Read(Named(asked[p].name)) :
       \/ rows = {} /\ Report(p, "missing", Nothing)
       \/ \E e \in rows : Report(p, "shown", e.data)

List(p) ==
  /\ At(p, "opened", "list")
  /\ \E names \in ReadNames(Listed) : Report(p, "listed", names)

DelLookup(p) ==
  /\ At(p, "opened", "del")
  /\ \E rows \in Read(Named(asked[p].name)) :
       \/ rows = {} /\ Report(p, "missing", Nothing)
       \/ rows # {} /\ Goto(p, "prompt") /\ UNCHANGED found

\* "Are you sure ...? [y/N]" was answered yes; the row is looked up by name
\* again, and there may be none any more.
DelConfirm(p) ==
  /\ At(p, "prompt", "del")
  /\ \/ Named(asked[p].name) # {} /\ DeleteEntry(asked[p].name)
                                  /\ ReportWrite(p, "deleted")
     \/ Named(asked[p].name) = {} /\ Report(p, "failed", Nothing)

\* get_entry: cmd_totp_add keeps the id across the steps that follow.
TotpAddLookup(p) ==
  /\ At(p, "opened", "totp_add")
  /\ \E rows \in Read(Named(asked[p].name)) :
       \/ rows = {} /\ Report(p, "missing", Nothing)
       \/ \E e \in rows :
            Goto(p, "looked_up") /\ found' = [found EXCEPT ![p] = e.id]

\* has_totp, by name again.
TotpAddCheck(p) ==
  /\ At(p, "looked_up", "totp_add")
  /\ \E rows \in Read(TotpOf(asked[p].name)) :
       \/ rows # {} /\ Report(p, "configured", Nothing)
       \/ rows = {} /\ Goto(p, "prompt") /\ UNCHANGED found

\* Nothing was typed, an otpauth:// URI, or a string base32_validate refuses.
TotpAddReject(p) ==
  At(p, "prompt", "totp_add") /\ Report(p, "rejected", Nothing)

\* A secret was typed; set_totp uses the id that was remembered.
TotpAddStore(p) ==
  /\ At(p, "prompt", "totp_add")
  /\ \/ /\ MayRefer(found[p])
        /\ \E s \in Secret : ReplaceTotp(found[p], s)
        /\ ReportWrite(p, "set")
     \/ ~MayRefer(found[p]) /\ Report(p, "failed", Nothing)

TotpDelLookup(p) ==
  /\ At(p, "opened", "totp_del")
  /\ \E rows \in Read(TotpOf(asked[p].name)) :
       \/ rows = {} /\ Report(p, "missing", Nothing)
       \/ rows # {} /\ Goto(p, "prompt") /\ UNCHANGED found

TotpDelConfirm(p) ==
  /\ At(p, "prompt", "totp_del")
  /\ \/ TotpOf(asked[p].name) # {} /\ DeleteTotp(asked[p].name)
                                   /\ ReportWrite(p, "removed")
     \/ TotpOf(asked[p].name) = {} /\ Report(p, "failed", Nothing)

\* A confirmation prompt was answered with anything but y or Y.
Decline(p) ==
  /\ \E c \in {"del", "totp_del"} : At(p, "prompt", c)
  /\ Report(p, "aborted", Nothing)

TotpShow(p) ==
  /\ At(p, "opened", "totp")
  /\ \E rows \in Read(TotpOf(asked[p].name)) :
       \/ rows = {} /\ Report(p, "missing", Nothing)
       \/ \E t \in rows : Report(p, "code", t.secret)

Step(p) ==
  \/ \E c \in Cmd \ {"none"}, n \in Name : Invoke(p, c, n)
  \/ Open(p) \/ Abort(p)
  \/ AddLookup(p) \/ AddStore(p)
  \/ Get(p) \/ List(p)
  \/ DelLookup(p) \/ DelConfirm(p)
  \/ TotpAddLookup(p) \/ TotpAddCheck(p) \/ TotpAddReject(p) \/ TotpAddStore(p)
  \/ TotpDelLookup(p) \/ TotpDelConfirm(p)
  \/ Decline(p) \/ TotpShow(p)

Next == \E p \in Proc : Step(p)

Spec == Init /\ [][Next]_vars
-----------------------------------------------------------------------------
(* What the commands guarantee.                                            *)

\* A name designates at most one entry, whatever adds raced each other
\* between the lookup of cmd_add and the INSERT of add_entry.
NamesUnique == \A e, f \in entries : e.name = f.name => e = f

\* No TOTP secret outlives its entry: del cascades, and a totp add that was
\* waiting at its prompt while its entry was deleted stores nothing.
NoOrphanTotp == \A t \in totp_entries : \E e \in entries : e.id = t.entry_id

\* get_totp and has_totp read the first row of a join: there is only one.
OneTotpPerEntry == \A t, u \in totp_entries : t.entry_id = u.entry_id => t = u

\* The id that totp add remembers while it waits for the secret is the id of
\* the entry that was asked for or of no entry at all.  It never comes to
\* designate another entry, even one added under any name after a deletion.
StaleIdNeverRetargets ==
  \A p \in Proc : \A e \in entries : found[p] = e.id => e.name = asked[p].name

\* What this module implements: the same contents without ids, tables and
\* prompts.
Contents ==
  [n \in Name |-> {[data |-> e.data,
                    totp |-> {t.secret : t \in {u \in totp_entries : u.entry_id = e.id}}]
                     : e \in Named(n)}]

Store == INSTANCE PasswordStore WITH store <- Contents, req <- asked

\* Where reads do not fail, every step of the commands is a step that
\* PasswordStore allows, or none: what a reply says of the contents was true
\* of them at the instant of the reply.
ImplementsPasswordStore == Store!Spec

\* "Entry '...' already has TOTP configured. Delete it first": a secret that
\* is configured stays until it is removed, and is never overwritten.
TotpNeverOverwritten ==
  [][\A t \in totp_entries, u \in totp_entries' :
       t.entry_id = u.entry_id => t = u]_vars
=============================================================================
