------------------------------ MODULE PwmanProofs ------------------------------
(***************************************************************************)
(* Theorems about Pwman, with their proofs.                                *)
(*                                                                         *)
(* Every step of the whole vault is a step of the life of its file or      *)
(* leaves that file alone, so what VaultLifecycleProofs shows holds here.  *)
(* On top of it, the rows: as long as no two inits overlap, the token      *)
(* of a vault never changes while it has one (TokenStays), and whoever     *)
(* stores a row holds the key of that token (ReadableInv).                 *)
(*                                                                         *)
(* The tables: every step but the deletion of the file is a step of        *)
(* VaultCommands, with keys for what rows hold, so what                    *)
(* VaultCommandsProofs shows holds here too; and a file is deleted while   *)
(* nobody is in a command, and so nobody remembers an id.                  *)
(***************************************************************************)
EXTENDS Pwman, VaultLifecycleProofs

-----------------------------------------------------------------------------
(* The life of the file.                                                   *)

LEMMA OpenStepIsStep ==
  ASSUME NEW p \in Proc, OpenStep(p)
  PROVE  Step(p)
BY DEF OpenStep, Step

\* A command's statement changes nothing of the file but, at the end of the
\* command, what is sealed.
LEMMA OperateIsStep ==
  ASSUME NEW p \in Proc, Operate(p)
  PROVE  (Step(p) \/ UNCHANGED vars) /\ vault' = vault
<1>1. CASE UNCHANGED vars
  BY <1>1 DEF vars
<1>2. CASE Work(p)
  <2>1. vault' = vault
    BY <1>2 DEF Work, End
  <2> QED BY <1>2, <2>1 DEF Step
<1> QED BY <1>1, <1>2 DEF Operate

\* A step of the vault is a step of one process in the life of the file, the
\* deletion of the file, or invisible there.
LEMMA PwmanStep ==
  ASSUME [PwmanNext]_all
  PROVE  [Next]_vars
<1>1. CASE UNCHANGED all
  BY <1>1 DEF all
<1>2. CASE Delete
  BY <1>2 DEF Delete, Next
<1>3. ASSUME NEW p \in Proc, NEW c, NEW n, Start(p, c, n) PROVE Next
  <2>1. Step(p)
    BY <1>3 DEF Start, Step
  <2> QED BY <2>1 DEF Next
<1>4. ASSUME NEW p \in Proc, StartInit(p) \/ Opening(p) \/ Killed(p) PROVE Next
  <2>1. CASE StartInit(p)
    BY <2>1 DEF StartInit, Step, Next
  <2>2. CASE Opening(p)
    BY <2>2, OpenStepIsStep DEF Opening, Next
  <2>3. CASE Killed(p)
    BY <2>3 DEF Killed, Step, Next
  <2> QED BY <1>4, <2>1, <2>2, <2>3
<1>5. ASSUME NEW p \in Proc, Opened(p) PROVE UNCHANGED vars
  BY <1>5 DEF Opened
<1>6. ASSUME NEW p \in Proc, Operate(p) PROVE Next \/ UNCHANGED vars
  BY <1>6, OperateIsStep DEF Next
<1> QED BY <1>1, <1>2, <1>3, <1>4, <1>5, <1>6 DEF PwmanNext

\* The processes that operate on rows run the life of the file that
\* VaultLifecycle describes: a command statement is the `work` of it.
THEOREM PwmanImplementsLifecycle == PwmanSpec => Spec
<1>1. PwmanInit => Init
  BY DEF PwmanInit
<1>2. [PwmanNext]_all => [Next]_vars
  BY PwmanStep
<1> QED BY <1>1, <1>2, PTL DEF PwmanSpec, Spec

-----------------------------------------------------------------------------
(* The rows.                                                               *)

\* While no two inits overlap nobody replaces a token that is there.
LEMMA TokenStays ==
  ASSUME InitsInTurn, TypeOK, Local, FileInv, ReadableInv,
         NEW p \in Proc, Step(p), vault.verify # NoKey
  PROVE  vault'.verify = vault.verify
<1>1. pc[p] # "store_verify"
  BY OnlyInitRekeys DEF ReadableInv, Storing
<1> QED BY <1>1, StepKeys

\* Before it seals a row a process has checked its key against the token.
LEMMA WorkerHoldsToken ==
  ASSUME Local, ReadableInv, NEW p \in Proc, pc[p] = "work", cmd[p] = "keyed"
  PROVE  dk[p] \in Key /\ dk[p] = vault.verify
BY DEF ReadableInv, SealsWithToken, Local, LocalOf, HoldsKey

LEMMA InitRows == PwmanInit => RowsOpenWithToken
BY DEF PwmanInit, C!Init, RowKeys, RowsOpenWithToken

LEMMA StepRowKeys ==
  ASSUME InitsInTurn, TypeOK, Local, FileInv, ReadableInv, RowsOpenWithToken,
         [PwmanNext]_all
  PROVE  RowsOpenWithToken'
<1>0. NoKey \notin Key
  BY NoneAssumption DEF NoKey, Key
<1>1. CASE UNCHANGED all
  BY <1>1 DEF all, vars, commands, tables, RowKeys, RowsOpenWithToken
<1>2. CASE Delete
  BY <1>2 DEF Delete, RowKeys, RowsOpenWithToken
<1>3. \* steps that leave the rows as they are
      ASSUME NEW p \in Proc, Step(p) \/ UNCHANGED vars, UNCHANGED tables
      PROVE  RowsOpenWithToken'
  <2>1. CASE RowKeys = {}
    BY <1>3, <2>1 DEF tables, RowKeys, RowsOpenWithToken
  <2>2. CASE RowKeys # {}
    <3>1. vault.verify # NoKey
      BY <1>0, <2>2 DEF RowsOpenWithToken
    <3>2. vault'.verify = vault.verify
      BY <1>3, <3>1, TokenStays DEF vars
    <3> QED BY <1>3, <3>2 DEF tables, RowKeys, RowsOpenWithToken
  <2> QED BY <2>1, <2>2
<1>4. ASSUME NEW p \in Proc, C!Abort(p) PROVE UNCHANGED tables
  BY <1>4 DEF C!Abort, C!Report, C!tables, tables
<1>5. ASSUME NEW p \in Proc, NEW c, NEW n, Start(p, c, n) PROVE RowsOpenWithToken'
  <2>1. UNCHANGED tables
    BY <1>5 DEF Start, C!Invoke, C!tables, tables
  <2>2. Step(p)
    BY <1>5 DEF Start, Step
  <2> QED BY <1>3, <2>1, <2>2
<1>6. ASSUME NEW p \in Proc, StartInit(p) PROVE RowsOpenWithToken'
  BY <1>3, <1>6 DEF StartInit, Step, commands
<1>7. ASSUME NEW p \in Proc, Opening(p) PROVE RowsOpenWithToken'
  <2>1. UNCHANGED tables
    BY <1>4, <1>7 DEF Opening, commands
  <2> QED BY <1>3, <1>7, <2>1, OpenStepIsStep DEF Opening
<1>8. ASSUME NEW p \in Proc, Opened(p) PROVE RowsOpenWithToken'
  <2>1. UNCHANGED tables
    BY <1>8 DEF Opened, C!Open, C!Goto, C!tables, tables
  <2> QED BY <1>3, <1>8, <2>1 DEF Opened
<1>9. ASSUME NEW p \in Proc, Killed(p) PROVE RowsOpenWithToken'
  <2>1. UNCHANGED tables
    BY <1>4, <1>9 DEF Killed, commands
  <2> QED BY <1>3, <1>9, <2>1 DEF Killed, Step
<1>10. ASSUME NEW p \in Proc, Operate(p) PROVE RowsOpenWithToken'
  <2>1. vault' = vault
    BY <1>10, OperateIsStep
  <2>2. ASSUME NEW k \in Added PROVE k \in Key /\ k = vault.verify
    <3>1. cmd[p] = "keyed" /\ k = dk[p] /\ pc[p] = "work"
      BY <1>10, <2>2 DEF Operate
    <3> QED BY <3>1, WorkerHoldsToken
  <2>3. ASSUME NEW k \in RowKeys' PROVE k \in RowKeys \cup Added
    BY <2>3 DEF RowKeys, Added
  <2> QED BY <2>1, <2>2, <2>3 DEF RowsOpenWithToken
<1> QED BY <1>1, <1>2, <1>5, <1>6, <1>7, <1>8, <1>9, <1>10 DEF PwmanNext

\* As long as no two inits run at the same time, all that is stored opens with
\* the key of the token, and every process that passed derive_field_key holds
\* that key: however commands, kills, deletions of the file and
\* re-initialisations interleave, any number of processes read each other's
\* entries.
THEOREM InitsInTurnKeepRows ==
  PwmanSpec /\ []InitsInTurn => [](RowsOpenWithToken /\ KeysAgree)
<1> DEFINE IInv == TypeOK /\ Local /\ FileInv /\ ReadableInv
<1>1. PwmanInit => IInv /\ RowsOpenWithToken
  BY InitTypes, InitLocal, InitFile, InitReadable, InitRows DEF PwmanInit
<1>2. InitsInTurn /\ IInv /\ RowsOpenWithToken /\ [PwmanNext]_all =>
        IInv' /\ RowsOpenWithToken'
  <2> SUFFICES ASSUME InitsInTurn, IInv, RowsOpenWithToken, [PwmanNext]_all
               PROVE  IInv' /\ RowsOpenWithToken'
    OBVIOUS
  <2>1. [Next]_vars
    BY PwmanStep
  <2>2. IInv'
    BY <2>1, StepTypes, StepLocal, StepFile, StepReadable
  <2> QED BY <2>2, StepRowKeys
<1>3. IInv => KeysAgree
  BY DEF ReadableInv, SealsWithToken, KeysAgree
<1> QED BY <1>1, <1>2, <1>3, PTL DEF PwmanSpec

\* The same, as long as a single process is ever asked to run init.
THEOREM RowsStayReadable ==
  OneIniter => (PwmanSpec => [](RowsOpenWithToken /\ KeysAgree))
<1> SUFFICES ASSUME OneIniter
             PROVE  PwmanSpec => [](RowsOpenWithToken /\ KeysAgree)
  OBVIOUS
<1>1. Spec => []InitsInTurn
  BY OneIniterInTurn
<1> QED BY <1>1, PwmanImplementsLifecycle, InitsInTurnKeepRows, PTL

-----------------------------------------------------------------------------
(* The tables.  VaultCommandsProofs and VaultRefinementProofs hold of them *)
(* as they stand, for every step but the deletion of the file is one of    *)
(* VaultCommands.                                                          *)

CP == INSTANCE VaultRefinementProofs
        WITH Data <- Key, Secret <- Key, pc <- at, ReadErrors <- FALSE

LEMMA SameInit == C!Init => CP!Init
BY DEF C!Init, CP!Init, C!Idle, CP!Idle, C!NoId, CP!NoId

LEMMA SameStatement ==
  ASSUME NEW p \in Proc, CommandStep(p)
  PROVE  CP!Next
<1> USE DEF C!Report, CP!Report, C!ReportWrite, CP!ReportWrite, C!Exit, CP!Exit, C!Goto, CP!Goto,
            C!At, CP!At, C!tables, CP!tables, C!Idle, CP!Idle, C!NoId, CP!NoId,
            C!Read, CP!Read, C!Named, CP!Named, C!TotpOf, CP!TotpOf
<1>1. C!AddLookup(p) => CP!AddLookup(p)
  BY DEF C!AddLookup, CP!AddLookup
<1>2. C!AddStore(p) => CP!AddStore(p)
  BY DEF C!AddStore, CP!AddStore, C!MayInsert, CP!MayInsert, C!InsertEntry, CP!InsertEntry,
         C!NextId, CP!NextId
<1>3. C!Get(p) => CP!Get(p)
  BY DEF C!Get, CP!Get
<1>4. C!List(p) => CP!List(p)
  BY DEF C!List, CP!List, C!ReadNames, CP!ReadNames, C!Listed, CP!Listed
<1>5. C!DelLookup(p) => CP!DelLookup(p)
  BY DEF C!DelLookup, CP!DelLookup
<1>6. C!DelConfirm(p) => CP!DelConfirm(p)
  BY DEF C!DelConfirm, CP!DelConfirm, C!DeleteEntry, CP!DeleteEntry
<1>7. C!TotpAddLookup(p) => CP!TotpAddLookup(p)
  BY DEF C!TotpAddLookup, CP!TotpAddLookup
<1>8. C!TotpAddCheck(p) => CP!TotpAddCheck(p)
  BY DEF C!TotpAddCheck, CP!TotpAddCheck
<1>9. C!TotpAddReject(p) => CP!TotpAddReject(p)
  BY DEF C!TotpAddReject, CP!TotpAddReject
<1>10. C!TotpAddStore(p) => CP!TotpAddStore(p)
  BY DEF C!TotpAddStore, CP!TotpAddStore, C!MayRefer, CP!MayRefer, C!ReplaceTotp, CP!ReplaceTotp
<1>11. C!TotpDelLookup(p) => CP!TotpDelLookup(p)
  BY DEF C!TotpDelLookup, CP!TotpDelLookup
<1>12. C!TotpDelConfirm(p) => CP!TotpDelConfirm(p)
  BY DEF C!TotpDelConfirm, CP!TotpDelConfirm, C!DeleteTotp, CP!DeleteTotp
<1>13. C!Decline(p) => CP!Decline(p)
  BY DEF C!Decline, CP!Decline
<1>14. C!TotpShow(p) => CP!TotpShow(p)
  BY DEF C!TotpShow, CP!TotpShow
<1> QED
  BY <1>1, <1>2, <1>3, <1>4, <1>5, <1>6, <1>7, <1>8, <1>9, <1>10, <1>11, <1>12, <1>13, <1>14
     DEF CommandStep, CP!Next, CP!Step

LEMMA SameAbort ==
  ASSUME NEW p \in Proc, C!Abort(p)
  PROVE  CP!Next
<1>1. CP!Abort(p)
  BY DEF C!Abort, CP!Abort, C!Report, CP!Report, C!Exit, CP!Exit, C!tables, CP!tables,
         C!Idle, CP!Idle, C!NoId, CP!NoId
<1> QED BY <1>1 DEF CP!Next, CP!Step

\* A step of the whole vault is one of its commands, or none of them, or the
\* deletion of the file.
LEMMA CommandOrDelete ==
  ASSUME [PwmanNext]_all
  PROVE  [CP!Next]_(CP!vars) \/ Delete
<1>1. ASSUME UNCHANGED commands PROVE UNCHANGED CP!vars
  BY <1>1 DEF commands, tables, CP!vars, CP!tables
<1>2. CASE UNCHANGED all
  BY <1>1, <1>2 DEF all
<1>3. ASSUME NEW p \in Proc, NEW c \in C!Cmd \ {"none"}, NEW n \in Name, Start(p, c, n)
      PROVE  CP!Next
  <2>1. CP!Invoke(p, c, n)
    BY <1>3 DEF Start, C!Invoke, CP!Invoke, C!tables, CP!tables
  <2>2. c \in CP!Cmd \ {"none"}
    BY DEF C!Cmd, CP!Cmd
  <2> QED BY <2>1, <2>2 DEF CP!Next, CP!Step
<1>4. ASSUME NEW p \in Proc, Opening(p) \/ Killed(p) PROVE [CP!Next]_(CP!vars)
  BY <1>1, <1>4, SameAbort DEF Opening, Killed
<1>5. ASSUME NEW p \in Proc, Opened(p) PROVE CP!Next
  <2>1. CP!Open(p)
    BY <1>5 DEF Opened, C!Open, CP!Open, C!Goto, CP!Goto, C!tables, CP!tables
  <2> QED BY <2>1 DEF CP!Next, CP!Step
<1>6. ASSUME NEW p \in Proc, StartInit(p) PROVE UNCHANGED CP!vars
  BY <1>1, <1>6 DEF StartInit
<1>7. ASSUME NEW p \in Proc, Operate(p) PROVE CP!Next
  BY <1>7, SameStatement DEF Operate
<1> QED BY <1>2, <1>3, <1>4, <1>5, <1>6, <1>7 DEF PwmanNext

\* A process that is in a command on the tables is at work on the file.
AtWork == \A p \in Proc : at[p] # "idle" => pc[p] # "idle" /\ cmd[p] # "init"

Moves(p, l) == at[p] # "idle" /\ at' = [at EXCEPT ![p] = l]

\* What a statement of a command does to the places of the processes.
LEMMA StatementMoves ==
  ASSUME NEW p \in Proc, CommandStep(p) \/ C!Abort(p) \/ C!Open(p)
  PROVE  Moves(p, "idle") \/ Moves(p, "opened") \/ Moves(p, "looked_up") \/ Moves(p, "prompt")
<1>1. \A k, w : at[p] # "idle" /\ C!Report(p, k, w) => Moves(p, "idle")
  BY DEF C!Report, C!Exit, Moves
<1>2. \A k : at[p] # "idle" /\ C!ReportWrite(p, k) => Moves(p, "idle")
  BY DEF C!ReportWrite, C!Exit, Moves
<1>3. \A l : at[p] # "idle" /\ C!Goto(p, l) => Moves(p, l)
  BY DEF C!Goto, Moves
<1> USE DEF C!At
<1>4. CASE C!Abort(p) \/ C!Open(p)
  BY <1>1, <1>3, <1>4 DEF C!Abort, C!Open
<1>5. CASE C!AddLookup(p) \/ C!AddStore(p)
  BY <1>1, <1>2, <1>3, <1>5 DEF C!AddLookup, C!AddStore
<1>6. CASE C!Get(p) \/ C!List(p) \/ C!TotpShow(p)
  BY <1>1, <1>6 DEF C!Get, C!List, C!TotpShow
<1>7. CASE C!DelLookup(p) \/ C!DelConfirm(p) \/ C!Decline(p)
  BY <1>1, <1>2, <1>3, <1>7 DEF C!DelLookup, C!DelConfirm, C!Decline
<1>8. CASE C!TotpAddLookup(p) \/ C!TotpAddCheck(p)
  BY <1>1, <1>3, <1>8 DEF C!TotpAddLookup, C!TotpAddCheck
<1>9. CASE C!TotpAddReject(p) \/ C!TotpAddStore(p)
  BY <1>1, <1>2, <1>9 DEF C!TotpAddReject, C!TotpAddStore
<1>10. CASE C!TotpDelLookup(p) \/ C!TotpDelConfirm(p)
  BY <1>1, <1>2, <1>3, <1>10 DEF C!TotpDelLookup, C!TotpDelConfirm
<1> QED BY <1>4, <1>5, <1>6, <1>7, <1>8, <1>9, <1>10 DEF CommandStep

\* What a statement of Database::Database, init, migrate and derive_field_key
\* does to its process: it goes on inside its command, or ends it.
LEMMA OpenStepMoves ==
  ASSUME TypeOK, NEW p \in Proc, OpenStep(p)
  PROVE  /\ pc[p] # "idle"
         /\ \A q \in Proc \ {p} : pc'[q] = pc[q] /\ cmd'[q] = cmd[q]
         /\ pc'[p] # "idle" => cmd'[p] = cmd[p]
<1>1. pc[p] # "idle"
  BY DEF OpenStep, Construct, Unlock, StampMagic, CreateMeta, CreateEntries, SetVersion1,
         ReadVersion, CreateTotp, SetVersion2, StoreSalt, StoreVerify, IsInitialized,
         LoadSalt, LoadVerify, Write
<1>2. ASSUME NEW how, Exit(p, how)
      PROVE  /\ \A q \in Proc \ {p} : pc'[q] = pc[q] /\ cmd'[q] = cmd[q]
             /\ pc'[p] = "idle"
  BY <1>2 DEF Exit, Goto, TypeOK
<1>3. ASSUME NEW l, Goto(p, l), cmd' = cmd
      PROVE  \A q \in Proc \ {p} : pc'[q] = pc[q] /\ cmd'[q] = cmd[q]
  BY <1>3 DEF Goto, TypeOK
<1>4. CASE \E w \in Password : Construct(p, w)
  BY <1>1, <1>2, <1>3, <1>4 DEF Construct, End
<1>5. CASE Unlock(p)
  BY <1>1, <1>2, <1>3, <1>5 DEF Unlock, End
<1>6. CASE StampMagic(p)
  BY <1>1, <1>3, <1>6 DEF StampMagic
<1>7. CASE CreateMeta(p) \/ CreateEntries(p) \/ SetVersion1(p)
  BY <1>1, <1>3, <1>7 DEF CreateMeta, CreateEntries, SetVersion1, Write
<1>8. CASE ReadVersion(p) \/ CreateTotp(p) \/ SetVersion2(p) \/ StoreSalt(p)
  BY <1>1, <1>3, <1>8 DEF ReadVersion, CreateTotp, SetVersion2, StoreSalt, Write
<1>9. CASE StoreVerify(p)
  BY <1>1, <1>2, <1>9 DEF StoreVerify
<1>10. CASE IsInitialized(p)
  BY <1>1, <1>2, <1>3, <1>10 DEF IsInitialized, Write, End
<1>11. CASE LoadSalt(p)
  BY <1>1, <1>2, <1>3, <1>11 DEF LoadSalt, End
<1>12. CASE LoadVerify(p)
  BY <1>1, <1>2, <1>3, <1>12 DEF LoadVerify, Write, End
<1> QED BY <1>4, <1>5, <1>6, <1>7, <1>8, <1>9, <1>10, <1>11, <1>12 DEF OpenStep

CommandsInv == CP!IInv /\ AtWork

LEMMA StepAtWork ==
  ASSUME TypeOK, CommandsInv, [PwmanNext]_all
  PROVE  AtWork'
<1> DEFINE Works(q) == at[q] # "idle" => pc[q] # "idle" /\ cmd[q] # "init"
<1>1. /\ \A q \in Proc : Works(q)
      /\ at \in [Proc -> {"idle", "locked", "opened", "looked_up", "prompt"}]
  BY DEF CommandsInv, AtWork, CP!IInv, CP!TypeOK
<1>2. ASSUME NEW p \in Proc, NEW l, Moves(p, l)
      PROVE  at'[p] = l /\ \A q \in Proc \ {p} : at'[q] = at[q]
  BY <1>1, <1>2 DEF Moves
<1>3. ASSUME NEW p \in Proc, CommandStep(p) \/ C!Abort(p) \/ C!Open(p)
      PROVE  at[p] # "idle" /\ \A q \in Proc \ {p} : at'[q] = at[q]
  BY <1>2, <1>3, StatementMoves DEF Moves
<1>4. ASSUME NEW p \in Proc, C!Abort(p) PROVE at'[p] = "idle"
  BY <1>1, <1>4 DEF C!Abort, C!Report, C!Exit
<1>5. CASE UNCHANGED all
  BY <1>1, <1>5 DEF all, vars, locals, commands, AtWork
<1>6. CASE Delete
  BY <1>1, <1>6 DEF Delete, DeleteVault, locals, AtWork
<1>7. ASSUME NEW p \in Proc, NEW c, NEW n, Start(p, c, n) PROVE AtWork'
  <2>1. pc[p] = "idle" /\ \E k \in {"keyed", "plain"} : Invoke(p, k)
    BY <1>7 DEF Start, Invoke
  <2>2. pc' = [pc EXCEPT ![p] = "prompt"] /\ \E k \in {"keyed", "plain"} : cmd' = [cmd EXCEPT ![p] = k]
    BY <2>1 DEF Invoke, Goto
  <2>3. at' = [at EXCEPT ![p] = "locked"]
    BY <1>7 DEF Start, C!Invoke
  <2>4. pc'[p] # "idle" /\ cmd'[p] # "init"
    BY <2>2 DEF TypeOK
  <2>5. \A q \in Proc \ {p} : pc'[q] = pc[q] /\ cmd'[q] = cmd[q] /\ at'[q] = at[q]
    BY <1>1, <2>2, <2>3 DEF TypeOK
  <2> QED BY <1>1, <2>4, <2>5 DEF AtWork
<1>8. ASSUME NEW p \in Proc, StartInit(p) PROVE AtWork'
  <2>1. pc[p] = "idle" /\ at' = at /\ at[p] = "idle"
    BY <1>1, <1>8 DEF StartInit, Invoke, commands
  <2>2. \A q \in Proc \ {p} : pc'[q] = pc[q] /\ cmd'[q] = cmd[q]
    BY <1>8 DEF StartInit, Invoke, End, Exit, Goto, TypeOK
  <2> QED BY <1>1, <2>1, <2>2 DEF AtWork
<1>9. ASSUME NEW p \in Proc, Opening(p) PROVE AtWork'
  <2>1. /\ pc[p] # "idle"
        /\ \A q \in Proc \ {p} : pc'[q] = pc[q] /\ cmd'[q] = cmd[q]
        /\ pc'[p] # "idle" => cmd'[p] = cmd[p]
    BY <1>9, OpenStepMoves DEF Opening
  <2>2. CASE cmd[p] # "init" /\ pc'[p] = "idle"
    <3>1. C!Abort(p)
      BY <1>9, <2>2 DEF Opening
    <3> QED BY <1>1, <1>3, <1>4, <2>1, <3>1 DEF AtWork
  <2>3. CASE ~(cmd[p] # "init" /\ pc'[p] = "idle")
    <3>1. at' = at
      BY <1>9, <2>3 DEF Opening, commands
    <3> QED BY <1>1, <2>1, <2>3, <3>1 DEF AtWork
  <2> QED BY <2>2, <2>3
<1>10. ASSUME NEW p \in Proc, Opened(p) PROVE AtWork'
  <2>1. C!Open(p) /\ pc' = pc /\ cmd' = cmd
    BY <1>10 DEF Opened, vars, locals
  <2> QED BY <1>1, <1>3, <2>1 DEF AtWork
<1>11. ASSUME NEW p \in Proc, Operate(p) PROVE AtWork'
  <2>1. at[p] # "idle" /\ \A q \in Proc \ {p} : at'[q] = at[q]
    BY <1>3, <1>11 DEF Operate
  <2>2. CASE at'[p] = "idle"
    <3>1. \A q \in Proc \ {p} : pc'[q] = pc[q] /\ cmd'[q] = cmd[q]
      BY <1>11, <2>2 DEF Operate, Work, End, Exit, Goto, TypeOK
    <3> QED BY <1>1, <2>1, <2>2, <3>1 DEF AtWork
  <2>3. CASE at'[p] # "idle"
    <3>1. pc' = pc /\ cmd' = cmd
      BY <1>11, <2>3 DEF Operate, vars, locals
    <3> QED BY <1>1, <2>1, <3>1 DEF AtWork
  <2> QED BY <2>2, <2>3
<1>12. ASSUME NEW p \in Proc, Killed(p) PROVE AtWork'
  <2>1. \A q \in Proc \ {p} : pc'[q] = pc[q] /\ cmd'[q] = cmd[q]
    BY <1>12 DEF Killed, Abort, End, Exit, Goto, TypeOK
  <2>2. CASE cmd[p] = "init"
    <3>1. at' = at /\ at[p] = "idle"
      BY <1>1, <1>12, <2>2 DEF Killed, commands
    <3> QED BY <1>1, <2>1, <3>1 DEF AtWork
  <2>3. CASE cmd[p] # "init"
    <3>1. C!Abort(p)
      BY <1>12, <2>3 DEF Killed
    <3> QED BY <1>1, <1>3, <1>4, <2>1, <3>1 DEF AtWork
  <2> QED BY <2>2, <2>3
<1> QED BY <1>5, <1>6, <1>7, <1>8, <1>9, <1>10, <1>11, <1>12 DEF PwmanNext

\* The file is deleted while nobody is in a command: there is no id that a
\* later entry could come to have.
LEMMA DeleteKeepsCommands ==
  ASSUME CommandsInv, Delete
  PROVE  CP!IInv'
<1>1. /\ \A p \in Proc : at[p] = "idle"
      /\ entries' = {} /\ totp_entries' = {} /\ last_id' = 0
      /\ at' = at /\ asked' = asked /\ found' = found /\ said' = said
  BY DEF Delete, DeleteVault, CommandsInv, AtWork
<1>2. CP!TypeOK /\ CP!Busy
  BY DEF CommandsInv, CP!IInv
<1>3. 0 \in 0..MaxId
  BY MaxIdAssumption
<1>4. CP!TypeOK'
  BY <1>1, <1>2, <1>3 DEF CP!TypeOK
<1>5. CP!Busy' /\ \A p \in Proc : found'[p] = 0
  BY <1>1, <1>2 DEF CP!Busy, CP!NoId
<1>6. CP!IdsUnique' /\ CP!NamesUnique' /\ CP!NoOrphanTotp' /\ CP!OneTotpPerEntry'
        /\ CP!StaleIdNeverRetargets'
  BY <1>1 DEF CP!IdsUnique, CP!NamesUnique, CP!NoOrphanTotp, CP!OneTotpPerEntry,
              CP!StaleIdNeverRetargets
<1>7. CP!IdsHandedOut'
  BY <1>1, <1>5 DEF CP!IdsHandedOut
<1> QED BY <1>4, <1>5, <1>6, <1>7 DEF CP!IInv

LEMMA CommandsAlways == PwmanSpec => []CommandsInv
<1>1. PwmanInit => CommandsInv
  <2> SUFFICES ASSUME PwmanInit PROVE CommandsInv
    OBVIOUS
  <2>1. CP!IInv
    BY SameInit, CP!InitIInv, MaxIdAssumption, NothingAssumption DEF PwmanInit
  <2>2. AtWork
    BY DEF PwmanInit, C!Init, AtWork
  <2> QED BY <2>1, <2>2 DEF CommandsInv
<1>2. TypeOK /\ CommandsInv /\ [PwmanNext]_all => CommandsInv'
  <2> SUFFICES ASSUME TypeOK, CommandsInv, [PwmanNext]_all PROVE CommandsInv'
    OBVIOUS
  <2>1. CASE [CP!Next]_(CP!vars)
    <3>1. CP!IInv'
      BY <2>1, CP!StepIInv, MaxIdAssumption, NothingAssumption DEF CommandsInv
    <3> QED BY <3>1, StepAtWork DEF CommandsInv
  <2>2. CASE Delete
    BY <2>2, DeleteKeepsCommands, StepAtWork DEF CommandsInv
  <2> QED BY <2>1, <2>2, CommandOrDelete
<1>3. PwmanSpec => []TypeOK
  BY PwmanImplementsLifecycle, TypeCorrect, PTL
<1> QED BY <1>1, <1>2, <1>3, PTL DEF PwmanSpec

\* What VaultCommandsProofs shows of the tables of one vault holds of every
\* vault that is made, used, deleted and made again: one entry to a name, one
\* secret to an entry and none without, and no id remembered across a prompt
\* that another entry could get.
THEOREM TablesStayInOrder == PwmanSpec => []TablesInOrder
<1>1. CommandsInv => TablesInOrder
  BY DEF CommandsInv, CP!IInv, TablesInOrder,
         CP!NamesUnique, C!NamesUnique, CP!NoOrphanTotp, C!NoOrphanTotp,
         CP!OneTotpPerEntry, C!OneTotpPerEntry,
         CP!StaleIdNeverRetargets, C!StaleIdNeverRetargets
<1> QED BY <1>1, CommandsAlways, PTL

\* The file and the tables keep their types: a row has an id that was handed
\* out, a name that may be typed and a key that was derived.
THEOREM PwmanTyped == PwmanSpec => []PwmanTypeOK
<1>1. TypeOK /\ CommandsInv => PwmanTypeOK
  BY DEF CommandsInv, CP!IInv, CP!TypeOK, PwmanTypeOK
<1>2. PwmanSpec => []TypeOK
  BY PwmanImplementsLifecycle, TypeCorrect, PTL
<1> QED BY <1>1, <1>2, CommandsAlways, PTL

-----------------------------------------------------------------------------
(* What the whole vault promises.                                          *)

\* The user deleted the file: nothing is stored, and nobody was in a command.
Emptied ==
  /\ CP!Contents' = [n \in Name |-> {}]
  /\ \A p \in Proc : asked[p] = CP!Idle
  /\ UNCHANGED <<asked, said>>

\* For its users the whole vault - file, keys, migrations, rows and prompts,
\* processes that are killed or not let through - is the map of PasswordStore,
\* in which each command takes effect at the instant of its reply; and all that
\* a deletion of the file adds is that the map becomes empty while no command
\* is under way.  However many inits race, no other reply is ever given.
THEOREM VaultIsAStore ==
  PwmanSpec => CP!Store!Init /\ [][CP!Store!Next \/ Emptied]_(CP!Store!vars)
<1>1. PwmanInit => CP!Store!Init
  BY SameInit, CP!InitImplements, MaxIdAssumption, NothingAssumption DEF PwmanInit
<1>2. CommandsInv /\ [PwmanNext]_all => [CP!Store!Next \/ Emptied]_(CP!Store!vars)
  <2> SUFFICES ASSUME CommandsInv, [PwmanNext]_all
               PROVE  CP!Store!Next \/ Emptied \/ UNCHANGED CP!Store!vars
    OBVIOUS
  <2>1. CASE [CP!Next]_(CP!vars)
    BY <2>1, CP!StepImplements, MaxIdAssumption, NothingAssumption DEF CommandsInv
  <2>2. CASE Delete
    <3>1. CP!Contents' = [n \in Name |-> {}]
      BY <2>2 DEF Delete, CP!Contents, CP!Named
    <3>2. \A p \in Proc : asked[p] = CP!Idle
      BY <2>2 DEF Delete, DeleteVault, CommandsInv, AtWork, CP!IInv, CP!Busy
    <3> QED BY <2>2, <3>1, <3>2 DEF Delete, Emptied
  <2> QED BY <2>1, <2>2, CommandOrDelete
<1> QED BY <1>1, <1>2, CommandsAlways, PTL DEF PwmanSpec

\* In the whole vault too, as long as no two processes wait for the secret of
\* the same entry at the same time, no totp add replaces a secret that is
\* configured: not even one whose process remembers an id of a vault that was
\* deleted, for it would have to have been in its command meanwhile.
THEOREM VaultKeepsSecrets ==
  PwmanSpec /\ []CP!OneAsksForSecret => CP!TotpNeverOverwritten
<1> DEFINE Kept == \A t \in totp_entries, u \in totp_entries' :
                     t.entry_id = u.entry_id => t = u
<1>1. PwmanInit => CP!StillWithoutSecret
  BY DEF PwmanInit, C!Init, CP!StillWithoutSecret
<1>2. /\ CommandsInv /\ CP!OneAsksForSecret /\ CP!StillWithoutSecret /\ [PwmanNext]_all
        => CP!StillWithoutSecret'
  <2>1. ASSUME CommandsInv, CP!OneAsksForSecret, CP!StillWithoutSecret, [CP!Next]_(CP!vars)
        PROVE  CP!StillWithoutSecret'
    BY <2>1, CP!StepStillWithout, MaxIdAssumption, NothingAssumption DEF CommandsInv
  <2>2. ASSUME Delete PROVE CP!StillWithoutSecret'
    BY <2>2 DEF Delete, CP!StillWithoutSecret
  <2> QED BY <2>1, <2>2, CommandOrDelete
<1>3. CommandsInv /\ CP!StillWithoutSecret /\ [PwmanNext]_all => [Kept]_(CP!vars)
  <2>1. ASSUME CommandsInv, CP!StillWithoutSecret, [CP!Next]_(CP!vars)
        PROVE  [Kept]_(CP!vars)
    BY <2>1, CP!StepKeepsSecrets, MaxIdAssumption, NothingAssumption DEF CommandsInv
  <2>2. ASSUME Delete PROVE Kept
    BY <2>2 DEF Delete
  <2> QED BY <2>1, <2>2, CommandOrDelete
<1> QED BY <1>1, <1>2, <1>3, CommandsAlways, PTL DEF PwmanSpec, CP!TotpNeverOverwritten
=============================================================================
