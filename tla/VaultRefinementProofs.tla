------------------------ MODULE VaultRefinementProofs ------------------------
(***************************************************************************)
(* VaultCommands implements PasswordStore, when reads return what is       *)
(* there: for any number of processes, names, data, secrets and ids.       *)
(*                                                                         *)
(* The tables are seen as the map Contents.  Each of the four writes       *)
(* changes that map under one name and nowhere else, because ids and names *)
(* are unique and no secret is without its entry (the invariants of        *)
(* VaultCommandsProofs); each reply is true of the map because it was read *)
(* from the tables in the same step.                                       *)
(***************************************************************************)
EXTENDS VaultCommandsProofs

-----------------------------------------------------------------------------
(* The tables as a map.                                                    *)

\* What the map has for the row e when the TOTP rows are ts.
SecretsOf(e, ts) == {t.secret : t \in {u \in ts : u.entry_id = e.id}}

EntryOf(e, ts) == [data |-> e.data, totp |-> SecretsOf(e, ts)]

\* What it has under the name n when the rows of the two tables are es and ts.
Under(n, es, ts) == {EntryOf(e, ts) : e \in {f \in es : f.name = n}}

LEMMA ContentsAt ==
  ASSUME NEW n \in Name
  PROVE  Contents[n] = Under(n, entries, totp_entries)
BY DEF Contents, Under, EntryOf, SecretsOf, Named

LEMMA ContentsAfter ==
  ASSUME NEW n \in Name
  PROVE  Contents'[n] = Under(n, entries', totp_entries')
BY DEF Contents, Under, EntryOf, SecretsOf, Named

LEMMA UnderOne ==
  ASSUME NEW n, NEW e, NEW es, NEW ts, {f \in es : f.name = n} = {e}
  PROVE  Under(n, es, ts) = {EntryOf(e, ts)}
BY DEF Under

\* The same rows, with the same secrets.
LEMMA UnderSame ==
  ASSUME NEW n, NEW es, NEW ts, NEW fs, NEW us,
         {f \in fs : f.name = n} = {f \in es : f.name = n},
         \A e \in es : e.name = n => SecretsOf(e, us) = SecretsOf(e, ts)
  PROVE  Under(n, fs, us) = Under(n, es, ts)
<1> DEFINE rows == {f \in es : f.name = n}
<1>1. ASSUME NEW e \in rows PROVE EntryOf(e, us) = EntryOf(e, ts)
  BY DEF EntryOf
<1>2. {EntryOf(e, us) : e \in rows} = {EntryOf(e, ts) : e \in rows}
  <2> HIDE DEF rows
  <2> QED BY <1>1
<1> QED BY <1>2 DEF Under

\* A name is missing in the map when no row has it.
LEMMA NoEntry ==
  ASSUME NEW n \in Name
  PROVE  Contents[n] = {} <=> Named(n) = {}
BY ContentsAt DEF Named, Under

\* A name that is there has one entry.
LEMMA OneEntry ==
  ASSUME NamesUnique, NEW n \in Name, NEW e \in Named(n)
  PROVE  Named(n) = {e} /\ Contents[n] = {EntryOf(e, totp_entries)}
<1>1. Named(n) = {e}
  BY DEF NamesUnique, Named
<1> QED BY <1>1, ContentsAt, UnderOne DEF Named

\* The join of get_totp and has_totp gives the secrets of that entry.
LEMMA SecretsByName ==
  ASSUME NamesUnique, NEW n \in Name, NEW e \in Named(n)
  PROVE  SecretsOf(e, totp_entries) = {t.secret : t \in TotpOf(n)}
<1>1. Named(n) = {e}
  BY OneEntry
<1> QED BY <1>1 DEF SecretsOf, TotpOf

\* Without a secret, the join is empty, whether there is an entry or not.
LEMMA NoSecret ==
  ASSUME NamesUnique, NEW n \in Name, TotpOf(n) = {}
  PROVE  \A x \in Contents[n] : x.totp = {}
<1>1. ASSUME NEW e \in Named(n) PROVE EntryOf(e, totp_entries).totp = {}
  <2>1. SecretsOf(e, totp_entries) = {}
    BY SecretsByName
  <2> QED BY <2>1 DEF EntryOf
<1> QED BY <1>1, ContentsAt DEF Named, Under

\* With a secret, there is an entry that has it.
LEMMA SomeSecret ==
  ASSUME NamesUnique, NEW n \in Name, NEW t \in TotpOf(n)
  PROVE  \E x \in Contents[n] : t.secret \in x.totp
<1>1. PICK e \in Named(n) : TRUE
  BY DEF TotpOf
<1>2. t.secret \in EntryOf(e, totp_entries).totp
  BY SecretsByName DEF EntryOf
<1> QED BY <1>2, ContentsAt DEF Named, Under

-----------------------------------------------------------------------------
(* What the writes do to the map.                                          *)

LEMMA SameTables ==
  ASSUME UNCHANGED tables
  PROVE  Contents' = Contents
BY DEF tables, Contents, Named

\* To show what a write does it is enough to look at one name after the other.
LEMMA ContentsByName ==
  ASSUME NEW n \in Name, NEW es,
         \A m \in Name : Contents'[m] = IF m = n THEN es ELSE Contents[m]
  PROVE  Contents' = [Contents EXCEPT ![n] = es]
<1>1. Contents = [m \in Name |-> Contents[m]]
  BY DEF Contents
<1>2. Contents' = [m \in Name |-> Contents'[m]]
  BY DEF Contents
<1> QED BY <1>1, <1>2

\* add_entry
LEMMA InsertContents ==
  ASSUME IInv, NEW n \in Name, NEW d \in Data, MayInsert(n), InsertEntry(n, d)
  PROVE  Contents' = [Contents EXCEPT ![n] = {[data |-> d, totp |-> {}]}]
<1> DEFINE r == [id |-> NextId, name |-> n, data |-> d]
<1>1. /\ entries' = entries \cup {r} /\ totp_entries' = totp_entries
      /\ r.name = n /\ r.data = d /\ r.id = NextId
  BY DEF InsertEntry
<1> HIDE DEF r
<1>2. ASSUME NEW t \in totp_entries PROVE t.entry_id # NextId
  <2>1. PICK e \in entries : e.id = t.entry_id
    BY DEF IInv, NoOrphanTotp
  <2>2. e.id \in Int /\ last_id \in Int /\ e.id <= last_id
    BY MaxIdAssumption DEF IInv, IdsHandedOut, TypeOK
  <2> QED BY <2>1, <2>2 DEF NextId
<1>3. EntryOf(r, totp_entries) = [data |-> d, totp |-> {}]
  <2>1. SecretsOf(r, totp_entries) = {}
    BY <1>1, <1>2 DEF SecretsOf
  <2> QED BY <1>1, <2>1 DEF EntryOf
<1>4. ASSUME NEW m \in Name
      PROVE  Contents'[m] = IF m = n THEN {[data |-> d, totp |-> {}]} ELSE Contents[m]
  <2>1. CASE m = n
    <3>1. {f \in entries' : f.name = n} = {r}
      BY <1>1 DEF MayInsert, Named
    <3>2. Under(n, entries', totp_entries') = {EntryOf(r, totp_entries')}
      BY <3>1, UnderOne
    <3> QED BY <1>1, <1>3, <2>1, <3>2, ContentsAfter
  <2>2. CASE m # n
    <3>1. {f \in entries' : f.name = m} = {f \in entries : f.name = m}
      BY <1>1, <2>2
    <3> QED BY <1>1, <2>2, <3>1, UnderSame, ContentsAt, ContentsAfter
  <2> QED BY <2>1, <2>2
<1> QED BY <1>4, ContentsByName

\* A write that keeps the rows of entries, and of totp_entries all but those
\* of one entry, changes that entry and no other.
LEMMA TotpContents ==
  ASSUME IInv, NEW n \in Name, NEW e \in Named(n), NEW ss,
         entries' = entries,
         \A t : t.entry_id # e.id => (t \in totp_entries' <=> t \in totp_entries),
         SecretsOf(e, totp_entries') = ss
  PROVE  Contents' = [Contents EXCEPT ![n] = {[data |-> e.data, totp |-> ss]}]
<1>1. [data |-> e.data, totp |-> ss] = EntryOf(e, totp_entries')
  BY DEF EntryOf
<1>2. Named(n) = {e}
  BY OneEntry DEF IInv
<1>3. ASSUME NEW f \in entries, f.name # n
      PROVE  SecretsOf(f, totp_entries') = SecretsOf(f, totp_entries)
  <2>1. f.id # e.id
    BY <1>3 DEF IInv, IdsUnique, Named
  <2> QED BY <2>1 DEF SecretsOf
<1>4. ASSUME NEW m \in Name
      PROVE  Contents'[m] = IF m = n THEN {EntryOf(e, totp_entries')} ELSE Contents[m]
  <2>1. CASE m = n
    BY <1>2, <2>1, UnderOne, ContentsAfter DEF Named
  <2>2. CASE m # n
    BY <1>3, <2>2, UnderSame, ContentsAt, ContentsAfter
  <2> QED BY <2>1, <2>2
<1> QED BY <1>1, <1>4, ContentsByName

\* set_totp
LEMMA ReplaceContents ==
  ASSUME IInv, NEW n \in Name, NEW e \in Named(n), NEW s \in Secret,
         ReplaceTotp(e.id, s)
  PROVE  Contents' = [Contents EXCEPT ![n] = {[data |-> e.data, totp |-> {s}]}]
<1> DEFINE r == [entry_id |-> e.id, secret |-> s]
<1>1. /\ totp_entries' = {t \in totp_entries : t.entry_id # e.id} \cup {r}
      /\ r.entry_id = e.id /\ r.secret = s
  BY DEF ReplaceTotp
<1> HIDE DEF r
<1>2. {u \in totp_entries' : u.entry_id = e.id} = {r}
  BY <1>1
<1>3. SecretsOf(e, totp_entries') = {s}
  BY <1>1, <1>2 DEF SecretsOf
<1>4. \A t : t.entry_id # e.id => (t \in totp_entries' <=> t \in totp_entries)
  BY <1>1
<1> QED BY <1>3, <1>4, TotpContents DEF ReplaceTotp

\* delete_totp
LEMMA RemoveContents ==
  ASSUME IInv, NEW n \in Name, NEW e \in Named(n), DeleteTotp(n)
  PROVE  Contents' = [Contents EXCEPT ![n] = {[data |-> e.data, totp |-> {}]}]
<1>1. Named(n) = {e}
  BY OneEntry DEF IInv
<1>2. totp_entries' = {t \in totp_entries : t.entry_id # e.id}
  BY <1>1 DEF DeleteTotp, TotpOf
<1>3. SecretsOf(e, totp_entries') = {}
  BY <1>2 DEF SecretsOf
<1> QED BY <1>2, <1>3, TotpContents DEF DeleteTotp

\* delete_entry, with the secret
LEMMA DeleteContents ==
  ASSUME IInv, NEW n \in Name, DeleteEntry(n)
  PROVE  Contents' = [Contents EXCEPT ![n] = {}]
<1>1. ASSUME NEW m \in Name PROVE Contents'[m] = IF m = n THEN {} ELSE Contents[m]
  <2>1. CASE m = n
    BY <2>1, ContentsAfter DEF DeleteEntry, Named, Under
  <2>2. CASE m # n
    <3>1. {f \in entries' : f.name = m} = {f \in entries : f.name = m}
      BY <2>2 DEF DeleteEntry, Named
    <3>2. ASSUME NEW f \in entries, f.name = m
          PROVE  SecretsOf(f, totp_entries') = SecretsOf(f, totp_entries)
      <4>1. \A t \in TotpOf(n) : t.entry_id # f.id
        BY <2>2, <3>2 DEF TotpOf, Named, IInv, IdsUnique
      <4> QED BY <4>1 DEF DeleteEntry, SecretsOf
    <3> QED BY <2>2, <3>1, <3>2, UnderSame, ContentsAt, ContentsAfter
  <2> QED BY <2>1, <2>2
<1> QED BY <1>1, ContentsByName

-----------------------------------------------------------------------------
(* The steps.                                                              *)

\* A reply, with tables that do not change.
LEMMA ReportAnswers ==
  ASSUME NEW p \in Proc, NEW k, NEW w, Report(p, k, w)
  PROVE  Store!Answer(p, k, w)
BY SameTables DEF Report, Exit, Store!Answer, Store!Reply, Idle, Store!Idle

\* A reply, with tables that do.
LEMMA WriteBecomes ==
  ASSUME NEW p \in Proc, NEW k, NEW es, ReportWrite(p, k),
         Contents' = [Contents EXCEPT ![asked[p].name] = es]
  PROVE  Store!Become(p, es, k)
BY DEF ReportWrite, Exit, Store!Become, Store!Reply, Idle, Store!Idle

\* A command that goes on has not done anything yet that shows.
LEMMA GotoStutters ==
  ASSUME NEW p \in Proc, NEW l, Goto(p, l)
  PROVE  UNCHANGED Store!vars
BY SameTables DEF Goto, Store!vars

\* What reads return when they do not fail.
LEMMA ReadsSucceed ==
  ASSUME ~ReadErrors
  PROVE  /\ \A rows : Read(rows) = {rows}
         /\ \A names : ReadNames(names) = {names}
BY DEF Read, ReadNames

\* A running process has a request for a name of the vault.
LEMMA Requested ==
  ASSUME IInv, NEW p \in Proc, pc[p] # "idle"
  PROVE  asked[p].name \in Name /\ asked[p] # Idle
BY DEF IInv, Busy, Idle

LEMMA AddImplements ==
  ASSUME IInv, ~ReadErrors, NEW p \in Proc, AddLookup(p) \/ AddStore(p)
  PROVE  Store!Add(p) \/ Store!Reject(p) \/ Store!Fail(p) \/ UNCHANGED Store!vars
<1> DEFINE n == asked[p].name
<1>1. n \in Name /\ asked[p] # Idle /\ asked[p].cmd = "add"
  BY Requested DEF AddLookup, AddStore, At
<1>2. CASE Report(p, "rejected", Nothing)
  BY <1>1, <1>2, ReportAnswers DEF Store!Reject
<1>3. CASE Report(p, "failed", Nothing)
  BY <1>1, <1>3, ReportAnswers DEF Store!Fail, Idle, Store!Idle
<1>4. CASE Named(n) # {} /\ Report(p, "exists", Nothing)
  BY <1>1, <1>4, ReportAnswers, NoEntry DEF Store!Add
<1>5. CASE Goto(p, "prompt")
  BY <1>5, GotoStutters
<1>6. ASSUME NEW d \in Data, MayInsert(n), InsertEntry(n, d), ReportWrite(p, "added")
      PROVE  Store!Add(p)
  <2>1. Contents[n] = {}
    BY <1>1, <1>6, NoEntry DEF MayInsert
  <2>2. Store!Become(p, {[data |-> d, totp |-> {}]}, "added")
    BY <1>1, <1>6, InsertContents, WriteBecomes
  <2> QED BY <1>1, <2>1, <2>2 DEF Store!Add
<1> QED BY <1>2, <1>3, <1>4, <1>5, <1>6, ReadsSucceed DEF AddLookup, AddStore

LEMMA ReadImplements ==
  ASSUME IInv, ~ReadErrors, NEW p \in Proc, Get(p) \/ List(p) \/ TotpShow(p)
  PROVE  Store!Get(p) \/ Store!List(p) \/ Store!ShowTotp(p) \/ Store!Missing(p)
<1> DEFINE n == asked[p].name
<1>1. n \in Name
  BY Requested DEF Get, List, TotpShow, At
<1>2. CASE Get(p)
  <2>1. asked[p].cmd = "get"
    BY <1>2 DEF Get, At
  <2>2. CASE Named(n) = {} /\ Report(p, "missing", Nothing)
    BY <1>1, <2>1, <2>2, ReportAnswers, NoEntry DEF Store!Missing
  <2>3. ASSUME NEW e \in Named(n), Report(p, "shown", e.data) PROVE Store!Get(p)
    <3>1. EntryOf(e, totp_entries) \in Contents[n] /\ EntryOf(e, totp_entries).data = e.data
      BY <1>1, OneEntry DEF IInv, EntryOf
    <3> QED BY <2>1, <2>3, <3>1, ReportAnswers DEF Store!Get
  <2> QED BY <1>2, <2>2, <2>3, ReadsSucceed DEF Get
<1>3. CASE List(p)
  <2>1. Listed = {m \in Name : Contents[m] # {}}
    <3>1. Listed = {m \in Name : Named(m) # {}}
      BY DEF Listed, Named, IInv, TypeOK
    <3> QED BY <3>1, NoEntry
  <2> QED BY <1>3, <2>1, ReportAnswers, ReadsSucceed DEF List, At, Store!List
<1>4. CASE TotpShow(p)
  <2>1. asked[p].cmd = "totp"
    BY <1>4 DEF TotpShow, At
  <2>2. CASE TotpOf(n) = {} /\ Report(p, "missing", Nothing)
    BY <1>1, <2>1, <2>2, ReportAnswers, NoSecret DEF IInv, Store!Missing
  <2>3. ASSUME NEW t \in TotpOf(n), Report(p, "code", t.secret) PROVE Store!ShowTotp(p)
    BY <1>1, <2>1, <2>3, ReportAnswers, SomeSecret DEF IInv, Store!ShowTotp
  <2> QED BY <1>4, <2>2, <2>3, ReadsSucceed DEF TotpShow
<1> QED BY <1>2, <1>3, <1>4

LEMMA DelImplements ==
  ASSUME IInv, ~ReadErrors, NEW p \in Proc, DelLookup(p) \/ DelConfirm(p)
  PROVE  Store!Delete(p) \/ Store!Missing(p) \/ Store!Fail(p) \/ UNCHANGED Store!vars
<1> DEFINE n == asked[p].name
<1>1. n \in Name /\ asked[p] # Idle /\ asked[p].cmd = "del"
  BY Requested DEF DelLookup, DelConfirm, At
<1>2. CASE Named(n) = {} /\ Report(p, "missing", Nothing)
  BY <1>1, <1>2, ReportAnswers, NoEntry DEF Store!Missing
<1>3. CASE Report(p, "failed", Nothing)
  BY <1>1, <1>3, ReportAnswers DEF Store!Fail, Idle, Store!Idle
<1>4. CASE Goto(p, "prompt")
  BY <1>4, GotoStutters
<1>5. CASE Named(n) # {} /\ DeleteEntry(n) /\ ReportWrite(p, "deleted")
  <2>1. Contents[n] # {}
    BY <1>1, <1>5, NoEntry
  <2>2. Store!Become(p, {}, "deleted")
    BY <1>1, <1>5, DeleteContents, WriteBecomes
  <2> QED BY <1>1, <2>1, <2>2 DEF Store!Delete
<1> QED BY <1>2, <1>3, <1>4, <1>5, ReadsSucceed DEF DelLookup, DelConfirm

\* The id that was remembered is that of the entry asked for, if it is there.
LEMMA TotpAddImplements ==
  ASSUME IInv, ~ReadErrors, NEW p \in Proc,
         TotpAddLookup(p) \/ TotpAddCheck(p) \/ TotpAddReject(p) \/ TotpAddStore(p)
  PROVE  \/ Store!SetTotp(p) \/ Store!Missing(p) \/ Store!Reject(p) \/ Store!Fail(p)
         \/ UNCHANGED Store!vars
<1> DEFINE n == asked[p].name
<1>1. n \in Name /\ asked[p] # Idle /\ asked[p].cmd = "totp_add"
  BY Requested DEF TotpAddLookup, TotpAddCheck, TotpAddReject, TotpAddStore, At
<1>2. CASE Named(n) = {} /\ Report(p, "missing", Nothing)
  BY <1>1, <1>2, ReportAnswers, NoEntry DEF Store!Missing
<1>3. CASE Report(p, "failed", Nothing)
  BY <1>1, <1>3, ReportAnswers DEF Store!Fail, Idle, Store!Idle
<1>4. CASE Report(p, "rejected", Nothing)
  BY <1>1, <1>4, ReportAnswers DEF Store!Reject
<1>5. ASSUME NEW l, Goto(p, l) PROVE UNCHANGED Store!vars
  BY <1>5, GotoStutters
<1>6. CASE TotpOf(n) # {} /\ Report(p, "configured", Nothing)
  <2>1. \E x \in Contents[n] : x.totp # {}
    BY <1>1, <1>6, SomeSecret DEF IInv
  <2> QED BY <1>1, <1>6, <2>1, ReportAnswers DEF Store!SetTotp
<1>7. ASSUME NEW s \in Secret, MayRefer(found[p]), ReplaceTotp(found[p], s),
             ReportWrite(p, "set")
      PROVE  Store!SetTotp(p)
  <2>1. PICK e \in Named(n) : e.id = found[p]
    BY <1>7 DEF MayRefer, Named, IInv, StaleIdNeverRetargets
  <2>2. Store!Become(p, {[data |-> e.data, totp |-> {s}]}, "set")
    BY <1>1, <1>7, <2>1, ReplaceContents, WriteBecomes
  <2>3. EntryOf(e, totp_entries) \in Contents[n]
    BY <1>1, OneEntry DEF IInv
  <2>4. [EntryOf(e, totp_entries) EXCEPT !.totp = {s}] = [data |-> e.data, totp |-> {s}]
    BY DEF EntryOf
  <2> QED BY <1>1, <2>2, <2>3, <2>4, Zenon DEF Store!SetTotp
<1> QED
  BY <1>2, <1>3, <1>4, <1>5, <1>6, <1>7, ReadsSucceed
     DEF TotpAddLookup, TotpAddCheck, TotpAddReject, TotpAddStore

LEMMA TotpDelImplements ==
  ASSUME IInv, ~ReadErrors, NEW p \in Proc, TotpDelLookup(p) \/ TotpDelConfirm(p)
  PROVE  Store!RemoveTotp(p) \/ Store!Missing(p) \/ Store!Fail(p) \/ UNCHANGED Store!vars
<1> DEFINE n == asked[p].name
<1>1. n \in Name /\ asked[p] # Idle /\ asked[p].cmd = "totp_del"
  BY Requested DEF TotpDelLookup, TotpDelConfirm, At
<1>2. CASE TotpOf(n) = {} /\ Report(p, "missing", Nothing)
  BY <1>1, <1>2, ReportAnswers, NoSecret DEF IInv, Store!Missing
<1>3. CASE Report(p, "failed", Nothing)
  BY <1>1, <1>3, ReportAnswers DEF Store!Fail, Idle, Store!Idle
<1>4. CASE Goto(p, "prompt")
  BY <1>4, GotoStutters
<1>5. CASE TotpOf(n) # {} /\ DeleteTotp(n) /\ ReportWrite(p, "removed")
  <2>1. PICK e \in Named(n) : TRUE
    BY <1>5 DEF TotpOf
  <2>2. Store!Become(p, {[data |-> e.data, totp |-> {}]}, "removed")
    BY <1>1, <1>5, RemoveContents, WriteBecomes
  <2>3. Contents[n] = {EntryOf(e, totp_entries)}
    BY <1>1, OneEntry DEF IInv
  <2>4. EntryOf(e, totp_entries).totp # {}
    BY <1>1, <1>5, <2>3, SomeSecret DEF IInv
  <2>5. [EntryOf(e, totp_entries) EXCEPT !.totp = {}] = [data |-> e.data, totp |-> {}]
    BY DEF EntryOf
  <2> QED BY <1>1, <2>2, <2>3, <2>4, <2>5, Zenon DEF Store!RemoveTotp
<1> QED BY <1>2, <1>3, <1>4, <1>5, ReadsSucceed DEF TotpDelLookup, TotpDelConfirm

\* Every step of a process is a step of PasswordStore, or invisible there.
LEMMA StepImplements ==
  ASSUME IInv, ~ReadErrors, [Next]_vars
  PROVE  [Store!Next]_(Store!vars)
<1>1. CASE UNCHANGED vars
  BY <1>1, SameTables DEF vars, Store!vars
<1>2. ASSUME NEW p \in Proc, NEW c \in Cmd \ {"none"}, NEW n \in Name, Invoke(p, c, n)
      PROVE  Store!Request(p, c, n)
  <2>1. asked[p] = Idle
    BY <1>2 DEF Invoke, IInv, Busy
  <2> QED BY <1>2, <2>1, SameTables DEF Invoke, Store!Request, Idle, Store!Idle
<1>3. ASSUME NEW p \in Proc, Open(p) PROVE UNCHANGED Store!vars
  BY <1>3, GotoStutters DEF Open
<1>4. ASSUME NEW p \in Proc, Abort(p) PROVE Store!Fail(p)
  BY <1>4, Requested, ReportAnswers DEF Abort, Store!Fail, Idle, Store!Idle
<1>5. ASSUME NEW p \in Proc, Decline(p) PROVE Store!Decline(p)
  BY <1>5, ReportAnswers DEF Decline, At, Store!Decline
<1>6. ASSUME NEW p \in Proc, Step(p) PROVE Store!Next \/ UNCHANGED Store!vars
  <2>1. CASE \E c \in Cmd \ {"none"}, n \in Name : Invoke(p, c, n)
    BY <1>2, <2>1 DEF Store!Next, Cmd, Store!Cmd
  <2>2. CASE Open(p) \/ Abort(p) \/ Decline(p)
    BY <1>3, <1>4, <1>5, <2>2 DEF Store!Next
  <2>3. CASE AddLookup(p) \/ AddStore(p)
    BY <2>3, AddImplements DEF Store!Next
  <2>4. CASE Get(p) \/ List(p) \/ TotpShow(p)
    BY <2>4, ReadImplements DEF Store!Next
  <2>5. CASE DelLookup(p) \/ DelConfirm(p)
    BY <2>5, DelImplements DEF Store!Next
  <2>6. CASE TotpAddLookup(p) \/ TotpAddCheck(p) \/ TotpAddReject(p) \/ TotpAddStore(p)
    BY <2>6, TotpAddImplements DEF Store!Next
  <2>7. CASE TotpDelLookup(p) \/ TotpDelConfirm(p)
    BY <2>7, TotpDelImplements DEF Store!Next
  <2> QED BY <1>6, <2>1, <2>2, <2>3, <2>4, <2>5, <2>6, <2>7 DEF Step
<1> QED BY <1>1, <1>6 DEF Next

LEMMA InitImplements == Init => Store!Init
BY DEF Init, Store!Init, Contents, Named, Idle, Store!Idle

\* However many processes interleave their lookups, prompts and writes, and
\* wherever they are killed, every command takes effect at one instant, and
\* what its reply says of the vault is true at that instant.
THEOREM CommandsImplementStore ==
  ~ReadErrors => (Spec => ImplementsPasswordStore)
<1> SUFFICES ASSUME ~ReadErrors PROVE Spec => ImplementsPasswordStore
  OBVIOUS
<1>1. IInv /\ [Next]_vars => [Store!Next]_(Store!vars)
  BY StepImplements
<1> QED BY <1>1, InitImplements, Invariance, PTL DEF Spec, ImplementsPasswordStore, Store!Spec
=============================================================================
