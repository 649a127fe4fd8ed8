------------------------- MODULE VaultCommandsProofs -------------------------
(***************************************************************************)
(* Proofs about VaultCommands: its type invariant and its safety           *)
(* invariants, for any number of processes and any names, data and secrets.*)
(*                                                                         *)
(* The actions differ in when they run; what they do to the tables and to  *)
(* the process falls into the eight kinds of step below.  StepKinds goes   *)
(* through the actions once, and each invariant then goes through the      *)
(* kinds of step.                                                          *)
(***************************************************************************)
EXTENDS VaultCommands, TLAPS

(* The strengthening that makes the invariants inductive. *)

\* AUTOINCREMENT: an id designates one row ...
IdsUnique == \A e, f \in entries : e.id = f.id => e = f

\* ... and no id in a table or in a process is above the last one handed out.
IdsHandedOut ==
  /\ \A e \in entries : e.id <= last_id
  /\ \A p \in Proc : found[p] <= last_id

\* A process has a command, with a name of the vault, exactly while it runs.
Busy ==
  \A p \in Proc :
    IF pc[p] = "idle"
      THEN asked[p] = Idle /\ found[p] = NoId
      ELSE asked[p].cmd # "none" /\ asked[p].name \in Name

IInv ==
  /\ TypeOK /\ Busy
  /\ IdsUnique /\ IdsHandedOut
  /\ NamesUnique /\ NoOrphanTotp /\ OneTotpPerEntry /\ StaleIdNeverRetargets

-----------------------------------------------------------------------------
(* The kinds of step. *)

Running == {"locked", "opened", "looked_up", "prompt"}

What == {Nothing} \cup Data \cup Secret \cup SUBSET Name

Starts(p) == \E c \in Cmd \ {"none"}, n \in Name : Invoke(p, c, n)

Reports(p) == \E k \in Kind, w \in What : Report(p, k, w)

Advances(p) ==
  pc[p] # "idle" /\ UNCHANGED found /\ \E l \in Running : Goto(p, l)

Remembers(p) ==
  /\ pc[p] # "idle"
  /\ \E l \in Running : Goto(p, l)
  /\ \E e \in Named(asked[p].name) : found' = [found EXCEPT ![p] = e.id]

Writes(p) == pc[p] # "idle" /\ \E k \in Kind : Exit(p, k, Nothing)

Inserts(p) ==
  /\ Writes(p)
  /\ MayInsert(asked[p].name)
  /\ \E d \in Data : InsertEntry(asked[p].name, d)

Deletes(p) == Writes(p) /\ DeleteEntry(asked[p].name)

Replaces(p) ==
  Writes(p) /\ MayRefer(found[p]) /\ \E s \in Secret : ReplaceTotp(found[p], s)

Removes(p) == Writes(p) /\ DeleteTotp(asked[p].name)

StepOfKind(p) ==
  \/ Starts(p) \/ Reports(p) \/ Advances(p) \/ Remembers(p)
  \/ Inserts(p) \/ Deletes(p) \/ Replaces(p) \/ Removes(p)

\* The report of a write is that of a running process.
LEMMA WriteReport ==
  ASSUME NEW p \in Proc, pc[p] # "idle", NEW k \in Kind, ReportWrite(p, k)
  PROVE  Writes(p)
BY DEF ReportWrite, Writes, Kind

\* Every step of the specification is of one of the kinds.
LEMMA StepKinds ==
  ASSUME TypeOK, Next
  PROVE  \E p \in Proc : StepOfKind(p)
<1>1. PICK p \in Proc : Step(p)
  BY DEF Next
<1> USE DEF StepOfKind
<1>2. {"failed", "lost", "aborted", "rejected", "missing", "added", "exists",
       "shown", "listed", "deleted", "configured", "set", "removed", "code"}
        \subseteq Kind /\ Nothing \in What
  BY DEF Kind, What
<1>3. CASE \E c \in Cmd \ {"none"}, n \in Name : Invoke(p, c, n)
  BY <1>3 DEF Starts
<1>4. CASE Open(p)
  BY <1>4 DEF Open, Advances, Running
<1>5. CASE Abort(p)
  BY <1>2, <1>5 DEF Abort, Reports
<1>6. CASE AddLookup(p)
  BY <1>2, <1>6 DEF AddLookup, At, Reports, Advances, Running
<1>7. CASE AddStore(p)
  <2>1. CASE ~MayInsert(asked[p].name)
    BY <1>2, <1>7, <2>1 DEF AddStore, Reports
  <2>2. CASE MayInsert(asked[p].name)
    BY <1>2, <1>7, <2>2, WriteReport DEF AddStore, At, Inserts
  <2> QED BY <2>1, <2>2
<1>8. CASE Get(p)
  <2>1. ASSUME NEW rows \in Read(Named(asked[p].name)), NEW e \in rows
        PROVE  e.data \in What
    BY DEF TypeOK, Read, Named, What
  <2> QED BY <1>2, <1>8, <2>1 DEF Get, Reports
<1>9. CASE List(p)
  <2>1. ReadNames(Listed) \subseteq What
    BY DEF ReadNames, Listed, TypeOK, What
  <2> QED BY <1>2, <1>9, <2>1 DEF List, Reports
<1>10. CASE DelLookup(p)
  BY <1>2, <1>10 DEF DelLookup, At, Reports, Advances, Running
<1>11. CASE DelConfirm(p)
  BY <1>2, <1>11, WriteReport DEF DelConfirm, At, Reports, Deletes
<1>12. CASE TotpAddLookup(p)
  BY <1>2, <1>12 DEF TotpAddLookup, At, Read, Reports, Remembers, Running
<1>13. CASE TotpAddCheck(p)
  BY <1>2, <1>13 DEF TotpAddCheck, At, Reports, Advances, Running
<1>14. CASE TotpAddReject(p)
  BY <1>2, <1>14 DEF TotpAddReject, Reports
<1>15. CASE TotpAddStore(p)
  BY <1>2, <1>15, WriteReport DEF TotpAddStore, At, Reports, Replaces
<1>16. CASE TotpDelLookup(p)
  BY <1>2, <1>16 DEF TotpDelLookup, At, Reports, Advances, Running
<1>17. CASE TotpDelConfirm(p)
  BY <1>2, <1>17, WriteReport DEF TotpDelConfirm, At, Reports, Removes
<1>18. CASE Decline(p)
  BY <1>2, <1>18 DEF Decline, Reports
<1>19. CASE TotpShow(p)
  <2>1. ASSUME NEW rows \in Read(TotpOf(asked[p].name)), NEW t \in rows
        PROVE  t.secret \in What
    BY DEF TypeOK, Read, TotpOf, What
  <2> QED BY <1>2, <1>19, <2>1 DEF TotpShow, Reports
<1> QED
  BY <1>1, <1>3, <1>4, <1>5, <1>6, <1>7, <1>8, <1>9, <1>10, <1>11, <1>12,
     <1>13, <1>14, <1>15, <1>16, <1>17, <1>18, <1>19 DEF Step

-----------------------------------------------------------------------------
(* Types. *)

\* A command that ends keeps the types of what is local to processes.
LEMMA ExitTypes ==
  ASSUME TypeOK, NEW p \in Proc, NEW k \in Kind, NEW w \in What, Exit(p, k, w)
  PROVE  /\ pc' \in [Proc -> {"idle"} \cup Running]
         /\ asked' \in [Proc -> [cmd : Cmd, name : Name \cup {Nothing}]]
         /\ found' \in [Proc -> 0..MaxId]
         /\ said' \in [Proc -> [kind : Kind, what : What]]
<1>1. Idle \in [cmd : Cmd, name : Name \cup {Nothing}]
  BY DEF Idle, Cmd
<1>2. NoId \in 0..MaxId
  BY MaxIdAssumption DEF NoId
<1>3. pc' \in [Proc -> {"idle"} \cup Running]
  BY DEF TypeOK, Exit, Running
<1>4. asked' \in [Proc -> [cmd : Cmd, name : Name \cup {Nothing}]]
  BY <1>1 DEF TypeOK, Exit
<1>5. found' \in [Proc -> 0..MaxId]
  BY <1>2 DEF TypeOK, Exit
<1>6. said' \in [Proc -> [kind : Kind, what : What]]
  BY DEF TypeOK, Exit, What
<1> QED BY <1>3, <1>4, <1>5, <1>6

\* A report, or a write that leaves the tables with their types.
LEMMA ReportTypes ==
  ASSUME TypeOK, NEW p \in Proc, NEW k \in Kind, NEW w \in What, Exit(p, k, w),
         entries' \subseteq [id : 1..MaxId, name : Name, data : Data],
         totp_entries' \subseteq [entry_id : 1..MaxId, secret : Secret],
         last_id' \in 0..MaxId
  PROVE  TypeOK'
BY ExitTypes DEF TypeOK, Running, What

\* A step to the next statement of a command.
LEMMA GotoTypes ==
  ASSUME TypeOK, NEW p \in Proc, NEW l \in Running, Goto(p, l),
         found' \in [Proc -> 0..MaxId]
  PROVE  TypeOK'
BY DEF TypeOK, Goto, tables, Running

LEMMA InitTypes == Init => TypeOK
<1> SUFFICES ASSUME Init PROVE TypeOK
  OBVIOUS
<1>1. Idle \in [cmd : Cmd, name : Name \cup {Nothing}]
  BY DEF Idle, Cmd
<1>2. 0 \in 0..MaxId
  BY MaxIdAssumption
<1> QED BY <1>1, <1>2 DEF Init, TypeOK, NoId, Kind

LEMMA StepTypes ==
  ASSUME TypeOK, Busy, [Next]_vars
  PROVE  TypeOK'
<1>1. CASE UNCHANGED vars
  BY <1>1 DEF TypeOK, vars, tables
<1>2. ASSUME NEW p \in Proc, StepOfKind(p) PROVE TypeOK'
  <2> DEFINE EntryRow == [id : 1..MaxId, name : Name, data : Data]
             TotpRow == [entry_id : 1..MaxId, secret : Secret]
  <2>1. /\ entries \subseteq EntryRow
        /\ totp_entries \subseteq TotpRow
        /\ last_id \in 0..MaxId
        /\ found \in [Proc -> 0..MaxId]
        /\ Nothing \in What
    BY DEF TypeOK, What
  <2>2. CASE Starts(p)
    BY <2>2 DEF Starts, Invoke, TypeOK, tables, Kind
  <2>3. CASE Reports(p)
    <3>1. PICK k \in Kind, w \in What : Report(p, k, w)
      BY <2>3 DEF Reports
    <3> QED BY <2>1, <3>1, ReportTypes DEF Report, tables
  <2>4. CASE Advances(p)
    BY <2>1, <2>4, GotoTypes DEF Advances
  <2>5. CASE Remembers(p)
    <3>1. PICK e \in entries : found' = [found EXCEPT ![p] = e.id]
      BY <2>5 DEF Remembers, Named
    <3>2. e.id \in 0..MaxId
      BY <2>1, MaxIdAssumption
    <3>3. found' \in [Proc -> 0..MaxId]
      BY <2>1, <3>1, <3>2
    <3> QED BY <2>5, <3>3, GotoTypes DEF Remembers
  <2>6. ASSUME Writes(p), entries' \subseteq EntryRow,
               totp_entries' \subseteq TotpRow, last_id' \in 0..MaxId
        PROVE  TypeOK'
    BY <2>1, <2>6, ReportTypes DEF Writes
  <2>7. CASE Inserts(p)
    <3>1. asked[p].name \in Name
      BY <2>7 DEF Inserts, Writes, Busy
    <3>2. NextId \in 1..MaxId
      BY <2>1, <2>7, MaxIdAssumption DEF Inserts, MayInsert, NextId
    <3>3. PICK d \in Data : InsertEntry(asked[p].name, d)
      BY <2>7 DEF Inserts
    <3>4. [id |-> NextId, name |-> asked[p].name, data |-> d] \in EntryRow
      BY <3>1, <3>2
    <3>5. entries' \subseteq EntryRow
      BY <2>1, <3>3, <3>4 DEF InsertEntry
    <3>6. last_id' \in 0..MaxId
      BY <3>2, <3>3, MaxIdAssumption DEF InsertEntry
    <3> QED BY <2>1, <2>6, <2>7, <3>3, <3>5, <3>6 DEF Inserts, InsertEntry
  <2>8. CASE Deletes(p)
    BY <2>1, <2>6, <2>8 DEF Deletes, DeleteEntry
  <2>9. CASE Replaces(p)
    <3>1. PICK e \in entries : e.id = found[p]
      BY <2>9 DEF Replaces, MayRefer
    <3>2. PICK s \in Secret : ReplaceTotp(found[p], s)
      BY <2>9 DEF Replaces
    <3>3. [entry_id |-> found[p], secret |-> s] \in TotpRow
      BY <2>1, <3>1
    <3>4. totp_entries' \subseteq TotpRow
      BY <2>1, <3>2, <3>3 DEF ReplaceTotp
    <3> QED BY <2>1, <2>6, <2>9, <3>2, <3>4 DEF Replaces, ReplaceTotp
  <2>10. CASE Removes(p)
    BY <2>1, <2>6, <2>10 DEF Removes, DeleteTotp
  <2> QED
    BY <1>2, <2>2, <2>3, <2>4, <2>5, <2>7, <2>8, <2>9, <2>10 DEF StepOfKind
<1> QED BY <1>1, <1>2, StepKinds

-----------------------------------------------------------------------------
(* A running process has a command. *)

LEMMA StepBusy ==
  ASSUME TypeOK, Busy, [Next]_vars
  PROVE  Busy'
<1>1. CASE UNCHANGED vars
  BY <1>1 DEF Busy, vars, tables
<1>2. ASSUME NEW p \in Proc, StepOfKind(p) PROVE Busy'
  <2> SUFFICES ASSUME NEW q \in Proc
               PROVE  IF pc'[q] = "idle"
                        THEN asked'[q] = Idle /\ found'[q] = NoId
                        ELSE asked'[q].cmd # "none" /\ asked'[q].name \in Name
    BY DEF Busy
  <2>1. /\ pc \in [Proc -> {"idle"} \cup Running]
        /\ asked \in [Proc -> [cmd : Cmd, name : Name \cup {Nothing}]]
        /\ found \in [Proc -> 0..MaxId]
    BY DEF TypeOK, Running
  <2>2. IF pc[q] = "idle"
          THEN asked[q] = Idle /\ found[q] = NoId
          ELSE asked[q].cmd # "none" /\ asked[q].name \in Name
    BY DEF Busy
  <2>3. ASSUME NEW k, NEW w, Exit(p, k, w)
        PROVE  IF pc'[q] = "idle"
                 THEN asked'[q] = Idle /\ found'[q] = NoId
                 ELSE asked'[q].cmd # "none" /\ asked'[q].name \in Name
    BY <2>1, <2>2, <2>3 DEF Exit
  <2>4. CASE Starts(p)
    BY <2>1, <2>2, <2>4 DEF Starts, Invoke
  <2>5. CASE Reports(p)
    BY <2>3, <2>5 DEF Reports, Report
  <2>6. CASE Advances(p)
    BY <2>1, <2>2, <2>6 DEF Advances, Goto, Running
  <2>7. CASE Remembers(p)
    BY <2>1, <2>2, <2>7 DEF Remembers, Goto, Running
  <2>8. CASE Writes(p)
    BY <2>3, <2>8 DEF Writes
  <2> QED
    BY <1>2, <2>4, <2>5, <2>6, <2>7, <2>8
       DEF StepOfKind, Inserts, Deletes, Replaces, Removes
<1> QED BY <1>1, <1>2, StepKinds

\* Every row, id and reply has its type, and no id passes MaxId.
THEOREM TypeCorrect == Spec => []TypeOK
<1>1. Init => TypeOK /\ Busy
  BY InitTypes DEF Init, Busy
<1>2. TypeOK /\ Busy /\ [Next]_vars => TypeOK' /\ Busy'
  BY StepTypes, StepBusy
<1> QED BY <1>1, <1>2, PTL DEF Spec

-----------------------------------------------------------------------------
(* What a step does to the tables and to the ids that processes remember.  *)

\* A step either leaves the tables alone or is one of the four writes.
LEMMA StepOnTables ==
  ASSUME [Next]_vars, TypeOK
  PROVE  \/ UNCHANGED tables
         \/ \E p \in Proc : Inserts(p) \/ Deletes(p) \/ Replaces(p) \/ Removes(p)
<1>1. CASE UNCHANGED vars
  BY <1>1 DEF vars
<1>2. ASSUME NEW p \in Proc, Starts(p) \/ Reports(p) \/ Advances(p) \/ Remembers(p)
      PROVE  UNCHANGED tables
  BY <1>2 DEF Starts, Invoke, Reports, Report, Advances, Remembers, Goto
<1> QED BY <1>1, <1>2, StepKinds DEF StepOfKind

\* What a process remembers after a step is nothing, what it remembered for
\* the same name, or the id of an entry of the name it is asked for.
LEMMA StepOnFound ==
  ASSUME TypeOK, Busy, [Next]_vars, NEW q \in Proc
  PROVE  \/ found'[q] = NoId
         \/ found'[q] = found[q] /\ asked'[q] = asked[q]
         \/ /\ asked'[q] = asked[q]
            /\ UNCHANGED tables
            /\ \E e \in Named(asked[q].name) : found'[q] = e.id
<1>1. CASE UNCHANGED vars
  BY <1>1 DEF vars
<1>2. /\ asked \in [Proc -> [cmd : Cmd, name : Name \cup {Nothing}]]
      /\ found \in [Proc -> 0..MaxId]
  BY DEF TypeOK
<1>3. ASSUME NEW p \in Proc, NEW k, NEW w, Exit(p, k, w)
      PROVE  \/ found'[q] = NoId
             \/ found'[q] = found[q] /\ asked'[q] = asked[q]
  BY <1>2, <1>3 DEF Exit
<1>4. ASSUME NEW p \in Proc, Starts(p)
      PROVE  \/ found'[q] = NoId
             \/ found'[q] = found[q] /\ asked'[q] = asked[q]
  BY <1>2, <1>4 DEF Starts, Invoke, Busy
<1>5. ASSUME NEW p \in Proc, Remembers(p)
      PROVE  \/ found'[q] = found[q] /\ asked'[q] = asked[q]
             \/ /\ asked'[q] = asked[q]
                /\ UNCHANGED tables
                /\ \E e \in Named(asked[q].name) : found'[q] = e.id
  BY <1>2, <1>5 DEF Remembers, Goto
<1>6. ASSUME NEW p \in Proc, Advances(p)
      PROVE  found'[q] = found[q] /\ asked'[q] = asked[q]
  BY <1>6 DEF Advances, Goto
<1>7. ASSUME NEW p \in Proc, StepOfKind(p),
             ~(Starts(p) \/ Advances(p) \/ Remembers(p))
      PROVE  \E k \in Kind, w \in What : Exit(p, k, w)
  BY <1>7 DEF StepOfKind, Reports, Report, Inserts, Deletes, Replaces, Removes,
              Writes, What
<1> QED BY <1>1, <1>3, <1>4, <1>5, <1>6, <1>7, StepKinds

-----------------------------------------------------------------------------
(* The invariants. *)

LEMMA InitIInv == Init => IInv
<1> SUFFICES ASSUME Init PROVE IInv
  OBVIOUS
<1>1. TypeOK
  BY InitTypes
<1>2. Busy /\ \A p \in Proc : found[p] = 0
  BY DEF Init, Busy, NoId
<1>3. entries = {} /\ totp_entries = {} /\ last_id = 0
  BY DEF Init
<1> QED
  BY <1>1, <1>2, <1>3
     DEF IInv, IdsUnique, IdsHandedOut, NamesUnique, NoOrphanTotp,
         OneTotpPerEntry, StaleIdNeverRetargets

\* The rows of entries after a step are old ones, but for one that an insert
\* adds with the next id under a name that was free.
LEMMA StepOnEntries ==
  ASSUME IInv, [Next]_vars
  PROVE  \/ entries' \subseteq entries /\ last_id' = last_id
         \/ \E r : /\ entries' = entries \cup {r}
                   /\ r.id = last_id + 1 /\ last_id' = last_id + 1
                   /\ Named(r.name) = {}
<1>1. CASE UNCHANGED tables
  BY <1>1 DEF tables
<1>2. ASSUME NEW p \in Proc, Inserts(p)
      PROVE  \E r : /\ entries' = entries \cup {r}
                    /\ r.id = last_id + 1 /\ last_id' = last_id + 1
                    /\ Named(r.name) = {}
  <2>1. PICK d \in Data : InsertEntry(asked[p].name, d)
    BY <1>2 DEF Inserts
  <2> DEFINE r == [id |-> NextId, name |-> asked[p].name, data |-> d]
  <2>2. /\ entries' = entries \cup {r}
        /\ r.id = last_id + 1 /\ last_id' = last_id + 1
        /\ Named(r.name) = {}
    BY <1>2, <2>1 DEF Inserts, InsertEntry, MayInsert, NextId
  <2> HIDE DEF r
  <2> QED BY <2>2
<1>3. ASSUME NEW p \in Proc, Deletes(p) \/ Replaces(p) \/ Removes(p)
      PROVE  entries' \subseteq entries /\ last_id' = last_id
  BY <1>3 DEF Deletes, DeleteEntry, Replaces, ReplaceTotp, Removes, DeleteTotp
<1> QED BY <1>1, <1>2, <1>3, StepOnTables DEF IInv

LEMMA StepIds ==
  ASSUME IInv, [Next]_vars
  PROVE  IdsUnique' /\ NamesUnique' /\ IdsHandedOut'
<1>1. /\ entries \subseteq [id : 1..MaxId, name : Name, data : Data]
      /\ last_id \in Nat
      /\ found \in [Proc -> 0..MaxId]
      /\ \A e \in entries : e.id \in Nat /\ e.id <= last_id
      /\ \A p \in Proc : found[p] \in Nat /\ found[p] <= last_id
  BY MaxIdAssumption DEF IInv, TypeOK, IdsHandedOut
<1>2. last_id' \in Nat /\ last_id <= last_id'
  BY <1>1, StepOnEntries
<1>3. \A e \in entries' : e.id <= last_id'
  BY <1>1, StepOnEntries
<1>4. \A q \in Proc : found'[q] <= last_id'
  <2> TAKE q \in Proc
  <2>1. \/ found'[q] = NoId
        \/ found'[q] = found[q]
        \/ \E e \in entries : found'[q] = e.id
    BY StepOnFound DEF IInv, Named
  <2> QED BY <1>1, <1>2, <2>1 DEF NoId
<1>5. IdsUnique'
  BY <1>1, StepOnEntries DEF IInv, IdsUnique
<1>6. NamesUnique'
  BY StepOnEntries DEF IInv, NamesUnique, Named
<1> QED BY <1>3, <1>4, <1>5, <1>6 DEF IdsHandedOut

LEMMA StepTotp ==
  ASSUME IInv, [Next]_vars
  PROVE  NoOrphanTotp' /\ OneTotpPerEntry'
<1>1. CASE UNCHANGED tables
  BY <1>1 DEF IInv, tables, NoOrphanTotp, OneTotpPerEntry
<1>2. ASSUME NEW p \in Proc, Inserts(p) PROVE NoOrphanTotp' /\ OneTotpPerEntry'
  BY <1>2 DEF Inserts, InsertEntry, IInv, NoOrphanTotp, OneTotpPerEntry
<1>3. ASSUME NEW p \in Proc, Deletes(p) PROVE NoOrphanTotp' /\ OneTotpPerEntry'
  BY <1>3 DEF Deletes, DeleteEntry, IInv, NoOrphanTotp, OneTotpPerEntry,
              TotpOf, Named
<1>4. ASSUME NEW p \in Proc, Replaces(p) PROVE NoOrphanTotp' /\ OneTotpPerEntry'
  BY <1>4 DEF Replaces, ReplaceTotp, MayRefer, IInv, NoOrphanTotp, OneTotpPerEntry
<1>5. ASSUME NEW p \in Proc, Removes(p) PROVE NoOrphanTotp' /\ OneTotpPerEntry'
  BY <1>5 DEF Removes, DeleteTotp, IInv, NoOrphanTotp, OneTotpPerEntry
<1> QED BY <1>1, <1>2, <1>3, <1>4, <1>5, StepOnTables DEF IInv

LEMMA StepStaleId ==
  ASSUME IInv, [Next]_vars
  PROVE  StaleIdNeverRetargets'
<1> SUFFICES ASSUME NEW q \in Proc, NEW e \in entries', found'[q] = e.id
             PROVE  e.name = asked'[q].name
  BY DEF StaleIdNeverRetargets
<1>1. /\ \A f \in entries : f.id \in Nat \ {0} /\ f.id <= last_id
      /\ last_id \in Nat
      /\ found[q] \in Nat /\ found[q] <= last_id
  BY MaxIdAssumption DEF IInv, TypeOK, IdsHandedOut
<1>2. e \in entries \/ e.id = last_id + 1
  BY StepOnEntries
<1>3. CASE found'[q] = NoId
  <2>1. e.id = 0
    BY <1>3 DEF NoId
  <2>2. CASE e \in entries
    BY <1>1, <2>1, <2>2
  <2>3. CASE e.id = last_id + 1
    BY <1>1, <2>1, <2>3
  <2> QED BY <1>2, <2>2, <2>3
<1>4. CASE found'[q] = found[q] /\ asked'[q] = asked[q]
  <2>1. e \in entries
    BY <1>1, <1>2, <1>4
  <2> QED BY <1>4, <2>1 DEF IInv, StaleIdNeverRetargets
<1>5. CASE /\ asked'[q] = asked[q]
           /\ UNCHANGED tables
           /\ \E f \in Named(asked[q].name) : found'[q] = f.id
  BY <1>5 DEF tables, Named, IInv, IdsUnique
<1> QED BY <1>3, <1>4, <1>5, StepOnFound DEF IInv

LEMMA StepIInv == IInv /\ [Next]_vars => IInv'
<1> SUFFICES ASSUME IInv, [Next]_vars PROVE IInv'
  OBVIOUS
<1>1. TypeOK' /\ Busy'
  BY StepTypes, StepBusy DEF IInv
<1> QED BY <1>1, StepIds, StepTotp, StepStaleId DEF IInv

\* The inductive invariant holds throughout.
THEOREM Invariance == Spec => []IInv
BY InitIInv, StepIInv, PTL DEF Spec

\* However many adds race each other, a name designates at most one entry.
THEOREM NamesStayUnique == Spec => []NamesUnique
<1>1. IInv => NamesUnique
  BY DEF IInv
<1> QED BY <1>1, Invariance, PTL

\* No secret is left behind by its entry, and no entry has two secrets,
\* however deletions and totp adds interleave.
THEOREM TotpBelongsToOneEntry == Spec => [](NoOrphanTotp /\ OneTotpPerEntry)
<1>1. IInv => NoOrphanTotp /\ OneTotpPerEntry
  BY DEF IInv
<1> QED BY <1>1, Invariance, PTL

\* The id a totp add remembers never comes to designate another entry.
THEOREM RememberedIdIsSafe == Spec => []StaleIdNeverRetargets
<1>1. IInv => StaleIdNeverRetargets
  BY DEF IInv
<1> QED BY <1>1, Invariance, PTL

-----------------------------------------------------------------------------
(* A TOTP secret that is configured stays, as long as no two processes ask *)
(* for the secret of the same entry at the same time.                      *)

\* Past has_totp, and waiting for the secret to be typed.
AsksForSecret(p) == At(p, "prompt", "totp_add")

OneAsksForSecret ==
  \A p, q \in Proc :
    AsksForSecret(p) /\ AsksForSecret(q) /\ found[p] = found[q] => p = q

\* What has_totp found is still so when the secret has been typed.
StillWithoutSecret ==
  \A p \in Proc : AsksForSecret(p) => \A t \in totp_entries : t.entry_id # found[p]

\* The only step that adds a row to totp_entries.
StoresSecret(p) ==
  /\ AsksForSecret(p)
  /\ \E s \in Secret : ReplaceTotp(found[p], s)
  /\ ReportWrite(p, "set")

LEMMA StepOnSecrets ==
  ASSUME [Next]_vars
  PROVE  \/ totp_entries' \subseteq totp_entries
         \/ \E p \in Proc : StoresSecret(p)
<1>1. CASE UNCHANGED vars
  BY <1>1 DEF vars, tables
<1>2. ASSUME NEW p \in Proc, Step(p), ~TotpAddStore(p)
      PROVE  totp_entries' \subseteq totp_entries
  <2> USE DEF Report, Goto, tables
  <2>1. CASE \E c \in Cmd \ {"none"}, n \in Name : Invoke(p, c, n)
    BY <2>1 DEF Invoke
  <2>2. CASE Open(p) \/ Abort(p) \/ Get(p) \/ List(p) \/ Decline(p) \/ TotpShow(p)
    BY <2>2 DEF Open, Abort, Get, List, Decline, TotpShow
  <2>3. CASE AddLookup(p) \/ DelLookup(p) \/ TotpAddLookup(p) \/ TotpAddCheck(p)
             \/ TotpAddReject(p) \/ TotpDelLookup(p)
    BY <2>3 DEF AddLookup, DelLookup, TotpAddLookup, TotpAddCheck, TotpAddReject,
                TotpDelLookup
  <2>4. CASE AddStore(p) \/ DelConfirm(p) \/ TotpDelConfirm(p)
    BY <2>4 DEF AddStore, InsertEntry, DelConfirm, DeleteEntry, TotpDelConfirm, DeleteTotp
  <2> QED BY <1>2, <2>1, <2>2, <2>3, <2>4 DEF Step
<1>3. ASSUME NEW p \in Proc, TotpAddStore(p)
      PROVE  totp_entries' \subseteq totp_entries \/ StoresSecret(p)
  BY <1>3 DEF TotpAddStore, StoresSecret, AsksForSecret, Report, tables
<1> QED BY <1>1, <1>2, <1>3 DEF Next

\* A process comes to ask for a secret when has_totp has just found none.
LEMMA StepToSecret ==
  ASSUME TypeOK, ~ReadErrors, [Next]_vars, NEW q \in Proc, AsksForSecret(q)'
  PROVE  \/ AsksForSecret(q) /\ found'[q] = found[q]
         \/ /\ TotpOf(asked[q].name) = {}
            /\ found'[q] = found[q] /\ totp_entries' = totp_entries
<1> DEFINE Asks == \/ AsksForSecret(q) /\ found'[q] = found[q]
                   \/ /\ TotpOf(asked[q].name) = {}
                      /\ found'[q] = found[q] /\ totp_entries' = totp_entries
<1>1. /\ pc \in [Proc -> {"idle"} \cup Running]
      /\ asked \in [Proc -> [cmd : Cmd, name : Name \cup {Nothing}]]
      /\ found \in [Proc -> 0..MaxId]
  BY DEF TypeOK, Running
<1>2. pc'[q] = "prompt" /\ asked'[q].cmd = "totp_add"
  BY DEF AsksForSecret, At
<1>3. ASSUME pc'[q] = pc[q], asked'[q] = asked[q], found'[q] = found[q] PROVE Asks
  BY <1>2, <1>3 DEF AsksForSecret, At
<1>4. CASE UNCHANGED vars
  BY <1>3, <1>4 DEF vars
<1>5. ASSUME NEW p \in Proc, NEW k, NEW w, Exit(p, k, w) PROVE Asks
  BY <1>1, <1>2, <1>3, <1>5 DEF Exit, Running
<1>6. ASSUME NEW p \in Proc, NEW k, NEW w, Report(p, k, w) PROVE Asks
  BY <1>5, <1>6 DEF Report
<1>7. ASSUME NEW p \in Proc, NEW k, ReportWrite(p, k) PROVE Asks
  BY <1>5, <1>7 DEF ReportWrite
<1>8. ASSUME NEW p \in Proc, NEW l, Goto(p, l), found'[q] = found[q],
             l # "prompt" \/ asked[p].cmd # "totp_add"
      PROVE  Asks
  BY <1>1, <1>2, <1>3, <1>8 DEF Goto
<1>9. ASSUME NEW p \in Proc, Step(p) PROVE Asks
  <2>1. CASE \E c \in Cmd \ {"none"}, n \in Name : Invoke(p, c, n)
    BY <1>1, <1>2, <1>3, <2>1 DEF Invoke
  <2>2. CASE Open(p) \/ Abort(p) \/ Get(p) \/ List(p) \/ Decline(p) \/ TotpShow(p)
    BY <1>6, <1>8, <2>2 DEF Open, Abort, Get, List, Decline, TotpShow
  <2>3. CASE AddLookup(p) \/ DelLookup(p) \/ TotpDelLookup(p) \/ TotpAddReject(p)
    BY <1>6, <1>8, <2>3 DEF AddLookup, DelLookup, TotpDelLookup, TotpAddReject, At
  <2>4. CASE AddStore(p) \/ DelConfirm(p) \/ TotpDelConfirm(p) \/ TotpAddStore(p)
    BY <1>6, <1>7, <2>4 DEF AddStore, DelConfirm, TotpDelConfirm, TotpAddStore
  <2>5. CASE TotpAddLookup(p)
    <3>1. CASE \E e : Goto(p, "looked_up") /\ found' = [found EXCEPT ![p] = e.id]
      BY <1>1, <1>2, <1>3, <3>1 DEF Goto
    <3> QED BY <1>6, <2>5, <3>1 DEF TotpAddLookup
  <2>6. CASE TotpAddCheck(p)
    <3>1. CASE TotpOf(asked[p].name) = {} /\ Goto(p, "prompt") /\ UNCHANGED found
      <4>1. CASE p = q
        BY <3>1, <4>1 DEF Goto, tables
      <4>2. CASE p # q
        BY <1>1, <1>3, <3>1, <4>2 DEF Goto
      <4> QED BY <4>1, <4>2
    <3> QED BY <1>6, <2>6, <3>1 DEF TotpAddCheck, Read
  <2> QED BY <1>9, <2>1, <2>2, <2>3, <2>4, <2>5, <2>6 DEF Step
<1> QED BY <1>4, <1>9 DEF Next

LEMMA StepStillWithout ==
  ASSUME ~ReadErrors, IInv, OneAsksForSecret, StillWithoutSecret, [Next]_vars
  PROVE  StillWithoutSecret'
<1> SUFFICES ASSUME NEW q \in Proc, AsksForSecret(q)', NEW t \in totp_entries'
             PROVE  t.entry_id # found'[q]
  BY DEF StillWithoutSecret
<1>1. CASE /\ TotpOf(asked[q].name) = {}
           /\ found'[q] = found[q] /\ totp_entries' = totp_entries
  \* The row would be that of the entry asked for: has_totp would have seen it.
  BY <1>1 DEF IInv, NoOrphanTotp, StaleIdNeverRetargets, TotpOf, Named
<1>2. CASE AsksForSecret(q) /\ found'[q] = found[q]
  <2>1. CASE t \in totp_entries
    BY <1>2, <2>1 DEF StillWithoutSecret
  <2>2. ASSUME NEW p \in Proc, StoresSecret(p), t \notin totp_entries
        PROVE  t.entry_id # found'[q]
    <3>1. t.entry_id = found[p] /\ AsksForSecret(p)
      BY <2>2 DEF StoresSecret, ReplaceTotp
    <3>2. p # q
      BY <2>2 DEF StoresSecret, ReportWrite, Exit, AsksForSecret, At, IInv, TypeOK
    <3> QED BY <1>2, <3>1, <3>2 DEF OneAsksForSecret
  <2> QED BY <2>1, <2>2, StepOnSecrets
<1> QED BY <1>1, <1>2, StepToSecret DEF IInv

LEMMA StepKeepsSecrets ==
  ASSUME IInv, StillWithoutSecret, [Next]_vars
  PROVE  \A t \in totp_entries, u \in totp_entries' : t.entry_id = u.entry_id => t = u
<1> SUFFICES ASSUME NEW t \in totp_entries, NEW u \in totp_entries',
                    t.entry_id = u.entry_id
             PROVE  t = u
  OBVIOUS
<1>1. CASE u \in totp_entries
  BY <1>1 DEF IInv, OneTotpPerEntry
<1>2. ASSUME NEW p \in Proc, StoresSecret(p), u \notin totp_entries PROVE FALSE
  <2>1. u.entry_id = found[p] /\ AsksForSecret(p)
    BY <1>2 DEF StoresSecret, ReplaceTotp
  <2> QED BY <2>1 DEF StillWithoutSecret
<1> QED BY <1>1, <1>2, StepOnSecrets

\* As long as no two processes wait for the secret of the same entry at the
\* same time, no totp add replaces a secret that is configured, whatever adds,
\* deletions, kills and totp adds of other entries run in between.
THEOREM SecretsAreKept ==
  ~ReadErrors => (Spec /\ []OneAsksForSecret => TotpNeverOverwritten)
<1> SUFFICES ASSUME ~ReadErrors
             PROVE  Spec /\ []OneAsksForSecret => TotpNeverOverwritten
  OBVIOUS
<1> DEFINE Kept == \A t \in totp_entries, u \in totp_entries' :
                     t.entry_id = u.entry_id => t = u
<1>1. Init => StillWithoutSecret
  BY DEF Init, StillWithoutSecret
<1>2. IInv /\ OneAsksForSecret /\ StillWithoutSecret /\ [Next]_vars => StillWithoutSecret'
  BY StepStillWithout
<1>3. IInv /\ StillWithoutSecret /\ [Next]_vars => [Kept]_vars
  BY StepKeepsSecrets
<1> QED BY <1>1, <1>2, <1>3, Invariance, PTL DEF Spec, TotpNeverOverwritten
=============================================================================
