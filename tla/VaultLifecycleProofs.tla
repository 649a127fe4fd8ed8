------------------------- MODULE VaultLifecycleProofs -------------------------
(***************************************************************************)
(* Proofs about VaultLifecycle, for any number of processes, passwords and *)
(* salts.                                                                  *)
(*                                                                         *)
(* A step is the step of one process: the others keep what is local to     *)
(* them, and while any process runs the vault only grows (StepFrame).  So  *)
(* an invariant of the form "at this point of its code, a process finds    *)
(* this in the vault" has to be shown of the process that steps, and holds *)
(* of the others by growth.                                                *)
(***************************************************************************)
EXTENDS VaultLifecycle, TLAPS

(* What is local to a process: its command fits the point of the code it   *)
(* is at, past the prompt it has a password, and where the code uses a key *)
(* it holds one derived from that password.                                *)

HoldsKey(p) ==
  \/ cmd[p] = "init" /\ pc[p] \in Inside \ {"stamp"}
  \/ cmd[p] = "keyed" /\ pc[p] \in {"load_verify", "work"}

LocalOf(p) ==
  /\ pc[p] = "idle" => cmd[p] = "none"
  /\ pc[p] # "idle" => cmd[p] # "none"
  /\ pc[p] \in {"unlock"} \cup Inside => typed[p] \in Password
  /\ pc[p] \in Stamping \cup Storing => cmd[p] = "init"
  /\ pc[p] \in Unlocking => cmd[p] # "init"
  /\ pc[p] \in {"load_salt", "load_verify"} => cmd[p] = "keyed"
  /\ HoldsKey(p) => dk[p] \in Key /\ dk[p].password = typed[p]

Local == \A p \in Proc : LocalOf(p)

-----------------------------------------------------------------------------
(* Types. *)

LEMMA ExitTypes ==
  ASSUME TypeOK, NEW p \in Proc, NEW h \in {"none", "done", "failed", "refused", "run_init"},
         Exit(p, h), vault' \in Vault, sealed' \subseteq Key, drawn' \in 0..MaxSalt
  PROVE  TypeOK'
BY DEF TypeOK, Exit, Goto, NoKey

LEMMA EndTypes ==
  ASSUME TypeOK, NEW p \in Proc, NEW h \in {"none", "done", "failed", "refused", "run_init"},
         End(p, h)
  PROVE  TypeOK'
BY ExitTypes DEF End, TypeOK

LEMMA WriteTypes ==
  ASSUME TypeOK, NEW p \in Proc, NEW l, NEW v \in Vault, NEW m \in Inside,
         Write(p, l, v, m)
  PROVE  TypeOK'
BY DEF TypeOK, Write, Goto

LEMMA InitTypes == Init => TypeOK
<1> SUFFICES ASSUME Init PROVE TypeOK
  OBVIOUS
<1>1. NoVault \in Vault
  BY MaxSaltAssumption DEF NoVault, Vault, NoKey
<1>2. 0 \in 0..MaxSalt
  BY MaxSaltAssumption
<1> QED BY <1>1, <1>2 DEF Init, TypeOK, NoKey

LEMMA StepTypes ==
  ASSUME TypeOK, Local, [Next]_vars
  PROVE  TypeOK'
<1> USE DEF Inside, Stamping, Migrating, Storing, Unlocking
<1>1. CASE UNCHANGED vars
  BY <1>1 DEF TypeOK, vars, locals
<1>2. CASE DeleteVault
  <2>1. NoVault \in Vault
    BY MaxSaltAssumption DEF NoVault, Vault, NoKey
  <2> QED BY <1>2, <2>1 DEF DeleteVault, TypeOK, locals
<1>3. ASSUME NEW p \in Proc, Step(p) PROVE TypeOK'
  <2>1. /\ vault \in Vault
        /\ vault.version \in 0..2 /\ vault.salt \in 0..MaxSalt
        /\ vault.tables \subseteq Table
        /\ dk[p] \in Key \cup {NoKey}
        /\ typed[p] \in Password \cup {None}
        /\ cmd[p] \in {"none", "init", "keyed", "plain"}
        /\ LocalOf(p)
    BY DEF TypeOK, Vault, Local
  <2>2. AfterMigrate(p) \in Inside
    BY DEF AfterMigrate
  <2>3. CASE \E c \in {"init", "keyed", "plain"} : Invoke(p, c)
    <3>1. PICK c \in {"init", "keyed", "plain"} : Invoke(p, c)
      BY <2>3
    <3>2. CASE c = "init" /\ Exists
      BY <3>1, <3>2, EndTypes DEF Invoke
    <3>3. CASE ~(c = "init" /\ Exists)
      BY <3>1, <3>3 DEF Invoke, Goto, TypeOK
    <3> QED BY <3>2, <3>3
  <2>4. CASE \E w \in Password : Construct(p, w)
    <3>1. PICK w \in Password : Construct(p, w)
      BY <2>4
    <3>2. CASE cmd[p] # "init" /\ ~Exists
      BY <3>1, <3>2, EndTypes DEF Construct
    <3>3. CASE ~(cmd[p] # "init" /\ ~Exists)
      BY <3>1, <3>3 DEF Construct, Goto, TypeOK, Exists
    <3> QED BY <3>2, <3>3
  <2>5. CASE Unlock(p)
    <3>1. [vault EXCEPT !.passphrase = typed[p]] \in Vault
      BY <2>1 DEF Vault
    <3>2. CASE End(p, "failed")
      BY <3>2, EndTypes
    <3>3. CASE ~End(p, "failed")
      BY <2>5, <3>1, <3>3 DEF Unlock, Goto, TypeOK
    <3> QED BY <3>2, <3>3
  <2>6. CASE StampMagic(p)
    <3>1. [vault EXCEPT !.magic = TRUE] \in Vault
      BY <2>1 DEF Vault
    <3>2. derive_key(typed[p], drawn + 1) \in Key /\ drawn + 1 \in 0..MaxSalt
      BY <2>1, <2>6, MaxSaltAssumption
         DEF StampMagic, TypeOK, derive_key, Key, LocalOf
    <3> QED BY <2>6, <3>1, <3>2 DEF StampMagic, Goto, TypeOK
  <2>7. CASE CreateMeta(p)
    <3>1. [vault EXCEPT !.tables = @ \cup {"meta"}] \in Vault
      BY <2>1 DEF Vault, Table
    <3> QED BY <2>7, <3>1, WriteTypes DEF CreateMeta
  <2>8. CASE CreateEntries(p)
    <3>1. [vault EXCEPT !.tables = @ \cup {"entries"}] \in Vault
      BY <2>1 DEF Vault, Table
    <3> QED BY <2>8, <3>1, WriteTypes DEF CreateEntries
  <2>9. CASE SetVersion1(p)
    <3>1. [vault EXCEPT !.version = 1] \in Vault
      BY <2>1 DEF Vault
    <3> QED BY <2>9, <3>1, WriteTypes DEF SetVersion1
  <2>10. CASE ReadVersion(p)
    BY <2>1, <2>2, <2>10, WriteTypes DEF ReadVersion
  <2>11. CASE CreateTotp(p)
    <3>1. [vault EXCEPT !.tables = @ \cup {"totp_entries"}] \in Vault
      BY <2>1 DEF Vault, Table
    <3> QED BY <2>11, <3>1, WriteTypes DEF CreateTotp
  <2>12. CASE SetVersion2(p)
    <3>1. [vault EXCEPT !.version = 2] \in Vault
      BY <2>1 DEF Vault
    <3> QED BY <2>2, <2>12, <3>1, WriteTypes DEF SetVersion2
  <2>13. CASE StoreSalt(p)
    <3>1. dk[p].salt \in 0..MaxSalt
      BY <2>1, MaxSaltAssumption DEF Key, NoKey
    <3>2. [vault EXCEPT !.salt = dk[p].salt] \in Vault
      BY <2>1, <3>1 DEF Vault
    <3> QED BY <2>13, <3>2, WriteTypes DEF StoreSalt
  <2>14. CASE StoreVerify(p)
    <3>1. [vault EXCEPT !.verify = dk[p]] \in Vault
      BY <2>1 DEF Vault
    <3> QED BY <2>14, <3>1, ExitTypes DEF StoreVerify, TypeOK
  <2>15. CASE IsInitialized(p)
    BY <2>1, <2>15, WriteTypes, EndTypes DEF IsInitialized
  <2>16. CASE LoadSalt(p)
    <3>1. CASE vault.salt = 0
      BY <2>16, <3>1, EndTypes DEF LoadSalt
    <3>2. CASE vault.salt # 0
      <4>1. derive_key(typed[p], vault.salt) \in Key
        BY <2>1, <2>16, <3>2, MaxSaltAssumption DEF LoadSalt, derive_key, Key, LocalOf
      <4> QED BY <2>16, <3>2, <4>1 DEF LoadSalt, Goto, TypeOK
    <3> QED BY <3>1, <3>2
  <2>17. CASE LoadVerify(p)
    BY <2>1, <2>17, WriteTypes, EndTypes DEF LoadVerify
  <2>18. CASE Work(p)
    <3>1. CASE End(p, "done") \/ End(p, "failed")
      BY <3>1, EndTypes
    <3>2. CASE ~(End(p, "done") \/ End(p, "failed"))
      <4>1. /\ Exit(p, "done") /\ UNCHANGED <<vault, drawn>>
            /\ sealed' = sealed \cup {dk[p]}
            /\ dk[p] \in Key
        BY <2>1, <2>18, <3>2 DEF Work, LocalOf, HoldsKey
      <4> QED BY <4>1, ExitTypes DEF TypeOK
    <3> QED BY <3>1, <3>2
  <2>19. CASE Abort(p)
    BY <2>19, EndTypes DEF Abort
  <2> QED
    BY <1>3, <2>3, <2>4, <2>5, <2>6, <2>7, <2>8, <2>9, <2>10, <2>11, <2>12,
       <2>13, <2>14, <2>15, <2>16, <2>17, <2>18, <2>19 DEF Step
<1> QED BY <1>1, <1>2, <1>3 DEF Next

-----------------------------------------------------------------------------
(* The step of a process leaves the other processes alone, and the vault   *)
(* only grows under it.                                                    *)

Grows ==
  /\ Exists => vault'.passphrase = vault.passphrase
  /\ vault.magic => vault'.magic
  /\ vault.tables \subseteq vault'.tables
  /\ vault.version # 0 => vault'.version # 0
  /\ vault.salt # 0 => vault'.salt # 0

Still(q) ==
  /\ pc'[q] = pc[q] /\ cmd'[q] = cmd[q] /\ typed'[q] = typed[q]
  /\ existed'[q] = existed[q] /\ dk'[q] = dk[q] /\ told'[q] = told[q]

LEMMA StepStill ==
  ASSUME TypeOK, NEW p \in Proc, Step(p), NEW q \in Proc, q # p
  PROVE  Still(q)
<1>1. ASSUME NEW h, Exit(p, h) PROVE Still(q)
  BY <1>1 DEF TypeOK, Exit, Goto, Still
<1>2. ASSUME NEW h, End(p, h) PROVE Still(q)
  BY <1>1, <1>2 DEF End
<1>3. ASSUME NEW l, NEW v, NEW m, Write(p, l, v, m) PROVE Still(q)
  BY <1>3 DEF TypeOK, Write, Goto, Still
<1>4. CASE \E c \in {"init", "keyed", "plain"} : Invoke(p, c)
  BY <1>2, <1>4 DEF TypeOK, Invoke, Goto, Still
<1>5. CASE \E w \in Password : Construct(p, w)
  BY <1>2, <1>5 DEF TypeOK, Construct, Goto, Still
<1>6. CASE Unlock(p)
  BY <1>2, <1>6 DEF TypeOK, Unlock, Goto, Still
<1>7. CASE StampMagic(p)
  BY <1>7 DEF TypeOK, StampMagic, Goto, Still
<1>8. CASE \/ CreateMeta(p) \/ CreateEntries(p) \/ SetVersion1(p)
           \/ ReadVersion(p) \/ CreateTotp(p) \/ SetVersion2(p) \/ StoreSalt(p)
  BY <1>3, <1>8 DEF CreateMeta, CreateEntries, SetVersion1, ReadVersion,
                    CreateTotp, SetVersion2, StoreSalt
<1>9. CASE StoreVerify(p)
  BY <1>1, <1>9 DEF StoreVerify
<1>10. CASE IsInitialized(p) \/ LoadVerify(p)
  BY <1>2, <1>3, <1>10 DEF IsInitialized, LoadVerify
<1>11. CASE LoadSalt(p)
  BY <1>2, <1>11 DEF TypeOK, LoadSalt, Goto, Still
<1>12. CASE Work(p) \/ Abort(p)
  BY <1>1, <1>2, <1>12 DEF Work, Abort
<1> QED
  BY <1>4, <1>5, <1>6, <1>7, <1>8, <1>9, <1>10, <1>11, <1>12 DEF Step

LEMMA StepGrows ==
  ASSUME TypeOK, Local, NEW p \in Proc, Step(p)
  PROVE  Grows
<1> USE DEF Grows, Exists
<1>1. vault \in Vault /\ LocalOf(p)
  BY DEF TypeOK, Local
<1>2. CASE UNCHANGED vault
  BY <1>2
<1>3. CASE Unlock(p)
  BY <1>1, <1>3 DEF Unlock, End, Vault
<1>4. CASE StampMagic(p)
  BY <1>1, <1>4 DEF StampMagic, Vault
<1>5. CASE CreateMeta(p) \/ CreateEntries(p) \/ CreateTotp(p)
  BY <1>1, <1>5 DEF CreateMeta, CreateEntries, CreateTotp, Write, Vault
<1>6. CASE SetVersion1(p) \/ SetVersion2(p)
  BY <1>1, <1>6 DEF SetVersion1, SetVersion2, Write, Vault
<1>7. CASE StoreSalt(p)
  <2>1. dk[p].salt # 0
    BY <1>1, <1>7 DEF StoreSalt, Write, LocalOf, HoldsKey, Inside, Storing, Key
  <2> QED BY <1>1, <1>7, <2>1 DEF StoreSalt, Write, Vault
<1>8. CASE StoreVerify(p)
  BY <1>1, <1>8 DEF StoreVerify, Vault
<1> QED
  BY <1>2, <1>3, <1>4, <1>5, <1>6, <1>7, <1>8
     DEF Step, Invoke, Construct, ReadVersion, Write, IsInitialized, LoadSalt,
         LoadVerify, Work, Abort, End

-----------------------------------------------------------------------------
(* What is local to a process stays consistent. *)

LEMMA ExitLocal ==
  ASSUME TypeOK, NEW p \in Proc, NEW h, Exit(p, h)
  PROVE  LocalOf(p)'
BY DEF TypeOK, Exit, Goto, LocalOf, HoldsKey, Inside, Stamping, Migrating,
       Storing, Unlocking

LEMMA StepLocal ==
  ASSUME TypeOK, Local, [Next]_vars
  PROVE  Local'
<1>1. CASE UNCHANGED vars
  BY <1>1 DEF Local, LocalOf, HoldsKey, vars, locals
<1>2. CASE DeleteVault
  BY <1>2 DEF DeleteVault, Local, LocalOf, HoldsKey, locals
<1>3. ASSUME NEW p \in Proc, Step(p) PROVE Local'
  <2> SUFFICES LocalOf(p)'
    BY <1>3, StepStill DEF Local, LocalOf, HoldsKey, Still
  <2> USE DEF Inside, Stamping, Migrating, Storing, Unlocking
  <2>1. LocalOf(p)
    BY DEF Local
  <2>2. /\ pc[p] \in {"idle", "prompt", "unlock"} \cup Inside
        /\ cmd[p] \in {"none", "init", "keyed", "plain"}
        /\ p \in DOMAIN pc /\ p \in DOMAIN cmd
        /\ p \in DOMAIN typed /\ p \in DOMAIN dk
    BY DEF TypeOK
  <2>3. ASSUME NEW h, End(p, h) PROVE LocalOf(p)'
    BY <2>3, ExitLocal DEF End
  <2>4. ASSUME NEW l, NEW v, NEW m, Write(p, l, v, m)
        PROVE  /\ pc[p] = l /\ pc'[p] = m
               /\ cmd'[p] = cmd[p] /\ typed'[p] = typed[p] /\ dk'[p] = dk[p]
    BY <2>2, <2>4 DEF Write, Goto
  <2>5. CASE \E c \in {"init", "keyed", "plain"} : Invoke(p, c)
    <3>1. PICK c \in {"init", "keyed", "plain"} : Invoke(p, c)
      BY <2>5
    <3>2. CASE End(p, "refused")
      BY <2>3, <3>2
    <3>3. CASE ~End(p, "refused")
      BY <2>2, <3>1, <3>3 DEF Invoke, Goto, LocalOf, HoldsKey
    <3> QED BY <3>2, <3>3
  <2>6. CASE \E w \in Password : Construct(p, w)
    BY <2>1, <2>2, <2>3, <2>6 DEF Construct, Goto, LocalOf, HoldsKey
  <2>7. CASE Unlock(p)
    BY <2>1, <2>2, <2>3, <2>7 DEF Unlock, Goto, LocalOf, HoldsKey
  <2>8. CASE StampMagic(p)
    <3>1. derive_key(typed[p], drawn + 1) \in Key
      BY <2>1, <2>8, MaxSaltAssumption
         DEF StampMagic, TypeOK, derive_key, Key, LocalOf
    <3> QED BY <2>1, <2>2, <2>8, <3>1
            DEF StampMagic, Goto, LocalOf, HoldsKey, derive_key
  <2>9. CASE CreateMeta(p) \/ CreateEntries(p) \/ SetVersion1(p)
    BY <2>1, <2>4, <2>9
       DEF CreateMeta, CreateEntries, SetVersion1, LocalOf, HoldsKey
  <2>10. CASE ReadVersion(p) \/ CreateTotp(p) \/ SetVersion2(p)
    BY <2>1, <2>2, <2>4, <2>10
       DEF ReadVersion, CreateTotp, SetVersion2, AfterMigrate, LocalOf, HoldsKey
  <2>11. CASE StoreSalt(p)
    BY <2>1, <2>4, <2>11 DEF StoreSalt, LocalOf, HoldsKey
  <2>12. CASE StoreVerify(p)
    BY <2>12, ExitLocal DEF StoreVerify
  <2>13. CASE IsInitialized(p)
    BY <2>1, <2>3, <2>4, <2>13 DEF IsInitialized, LocalOf, HoldsKey
  <2>14. CASE LoadSalt(p)
    <3>1. CASE vault.salt = 0
      BY <2>3, <2>14, <3>1 DEF LoadSalt
    <3>2. CASE vault.salt # 0
      <4>1. derive_key(typed[p], vault.salt) \in Key
        BY <2>1, <2>14, <3>2, MaxSaltAssumption
           DEF LoadSalt, TypeOK, Vault, derive_key, Key, LocalOf
      <4> QED BY <2>1, <2>2, <2>14, <3>2, <4>1
              DEF LoadSalt, Goto, LocalOf, HoldsKey, derive_key
    <3> QED BY <3>1, <3>2
  <2>15. CASE LoadVerify(p)
    BY <2>1, <2>3, <2>4, <2>15 DEF LoadVerify, LocalOf, HoldsKey
  <2>16. CASE Work(p)
    BY <2>3, <2>16, ExitLocal DEF Work
  <2>17. CASE Abort(p)
    BY <2>3, <2>17 DEF Abort
  <2> QED
    BY <1>3, <2>5, <2>6, <2>7, <2>8, <2>9, <2>10, <2>11, <2>12, <2>13, <2>14,
       <2>15, <2>16, <2>17 DEF Step
<1> QED BY <1>1, <1>2, <1>3 DEF Next

LEMMA InitLocal == Init => Local
BY DEF Init, Local, LocalOf, HoldsKey, Inside, Stamping, Migrating, Storing, Unlocking

\* The file, the keys and what each process holds have their types.
THEOREM TypeCorrect == Spec => []TypeOK
<1>1. Init => TypeOK /\ Local
  BY InitTypes, InitLocal
<1>2. TypeOK /\ Local /\ [Next]_vars => TypeOK' /\ Local'
  BY StepTypes, StepLocal
<1> QED BY <1>1, <1>2, PTL DEF Spec

-----------------------------------------------------------------------------
(* One password for both layers.                                           *)

\* A file that has no page has nothing at all.
Blank == ~Exists => vault = NoVault /\ sealed = {}

FileInv == Blank /\ OnlyThePasswordGetsIn /\ OnePasswordTwoLayers

\* How a process gets inside: past verify_vault, or by being there already.
LEMMA StepEnters ==
  ASSUME TypeOK, NEW p \in Proc, Step(p), pc'[p] \in Inside
  PROVE  /\ typed'[p] = typed[p]
         /\ \/ pc[p] \in Inside
            \/ pc[p] = "unlock" /\ vault'.passphrase = typed[p]
<1> USE DEF Inside, Stamping, Migrating, Storing, Unlocking
<1>1. vault \in Vault /\ p \in DOMAIN pc
  BY DEF TypeOK
<1>2. ASSUME NEW h, Exit(p, h) PROVE FALSE
  BY <1>1, <1>2 DEF Exit, Goto
<1>3. ASSUME NEW h, End(p, h) PROVE FALSE
  BY <1>2, <1>3 DEF End
<1>4. ~\E c \in {"init", "keyed", "plain"} : Invoke(p, c)
  BY <1>1, <1>3 DEF Invoke, Goto
<1>5. ~\E w \in Password : Construct(p, w)
  BY <1>1, <1>3 DEF Construct, Goto
<1>6. CASE Unlock(p)
  BY <1>1, <1>3, <1>6 DEF Unlock, Vault
<1>7. CASE StampMagic(p) \/ LoadSalt(p)
  BY <1>3, <1>7 DEF StampMagic, LoadSalt
<1>8. CASE \/ CreateMeta(p) \/ CreateEntries(p) \/ SetVersion1(p)
           \/ ReadVersion(p) \/ CreateTotp(p) \/ SetVersion2(p) \/ StoreSalt(p)
           \/ IsInitialized(p) \/ LoadVerify(p)
  BY <1>3, <1>8 DEF CreateMeta, CreateEntries, SetVersion1, ReadVersion,
        CreateTotp, SetVersion2, StoreSalt, IsInitialized, LoadVerify, Write
<1>9. ~(StoreVerify(p) \/ Work(p) \/ Abort(p))
  BY <1>2, <1>3 DEF StoreVerify, Work, Abort
<1> QED BY <1>4, <1>5, <1>6, <1>7, <1>8, <1>9 DEF Step

\* Which steps change what keys have to do with.
LEMMA StepKeys ==
  ASSUME TypeOK, NEW p \in Proc, Step(p)
  PROVE  /\ \/ vault'.verify = vault.verify
            \/ pc[p] = "store_verify" /\ vault'.verify = dk[p]
         /\ \/ vault'.salt = vault.salt
            \/ pc[p] = "store_salt" /\ vault'.salt = dk[p].salt
         /\ \/ sealed' = sealed
            \/ /\ pc[p] = "work" /\ cmd[p] = "keyed"
               /\ sealed' = sealed \cup {dk[p]}
<1>1. vault \in Vault
  BY DEF TypeOK
<1>2. CASE UNCHANGED <<vault, sealed>>
  BY <1>2
<1>3. CASE Unlock(p) \/ StampMagic(p)
  BY <1>1, <1>3 DEF Unlock, StampMagic, End, Vault
<1>4. CASE \/ CreateMeta(p) \/ CreateEntries(p) \/ SetVersion1(p)
           \/ CreateTotp(p) \/ SetVersion2(p) \/ StoreSalt(p)
  BY <1>1, <1>4 DEF CreateMeta, CreateEntries, SetVersion1, CreateTotp,
                    SetVersion2, StoreSalt, Write, Vault
<1>5. CASE StoreVerify(p) \/ Work(p)
  BY <1>1, <1>5 DEF StoreVerify, Work, End, Vault
<1> QED
  BY <1>2, <1>3, <1>4, <1>5 DEF Step, Invoke, Construct, ReadVersion, Write,
     IsInitialized, LoadSalt, LoadVerify, Abort, End

LEMMA InsideExists ==
  ASSUME TypeOK, Local, OnlyThePasswordGetsIn, NEW p \in Proc, pc[p] \in Inside
  PROVE  Exists /\ typed[p] = vault.passphrase
BY NoneAssumption DEF Local, LocalOf, OnlyThePasswordGetsIn, Exists

LEMMA StepFile ==
  ASSUME TypeOK, Local, FileInv, [Next]_vars
  PROVE  FileInv'
<1> USE DEF FileInv
<1>1. CASE UNCHANGED vars
  BY <1>1 DEF Blank, OnlyThePasswordGetsIn, OnePasswordTwoLayers, Exists, vars, locals
<1>2. CASE DeleteVault
  <2>1. NoVault.verify = NoKey /\ vault' = NoVault /\ sealed' = {}
    BY <1>2 DEF DeleteVault, NoVault
  <2>2. \A p \in Proc : pc'[p] \notin Inside
    BY <1>2 DEF DeleteVault, locals, Inside, Stamping, Migrating, Storing, Unlocking
  <2> QED BY <2>1, <2>2 DEF Blank, OnlyThePasswordGetsIn, OnePasswordTwoLayers
<1>3. ASSUME NEW p \in Proc, Step(p) PROVE FileInv'
  <2>1. Grows /\ \A q \in Proc \ {p} : Still(q)
    BY <1>3, StepGrows, StepStill
  <2>2. OnlyThePasswordGetsIn'
    <3> SUFFICES ASSUME NEW q \in Proc, pc'[q] \in Inside
                 PROVE  typed'[q] = vault'.passphrase
      BY DEF OnlyThePasswordGetsIn
    <3>1. CASE q # p
      BY <2>1, <3>1, InsideExists DEF Still, Grows
    <3>2. CASE q = p
      BY <1>3, <2>1, <3>2, InsideExists, StepEnters DEF Grows
    <3> QED BY <3>1, <3>2
  <2>3. OnePasswordTwoLayers'
    <3>1. CASE Exists
      <4>1. vault'.passphrase = vault.passphrase
        BY <2>1, <3>1 DEF Grows
      <4>2. CASE pc[p] = "store_verify" \/ (pc[p] = "work" /\ cmd[p] = "keyed")
        <5>1. dk[p].password = vault.passphrase
          BY <4>2, InsideExists DEF Local, LocalOf, HoldsKey, Inside, Storing, Unlocking
        <5> QED BY <1>3, <4>1, <5>1, StepKeys DEF OnePasswordTwoLayers
      <4>3. CASE ~(pc[p] = "store_verify" \/ (pc[p] = "work" /\ cmd[p] = "keyed"))
        BY <1>3, <4>1, <4>3, StepKeys DEF OnePasswordTwoLayers
      <4> QED BY <4>2, <4>3
    <3>2. CASE ~Exists
      <4>1. vault.verify = NoKey /\ sealed = {} /\ pc[p] \notin Inside
        BY <3>2, InsideExists DEF Blank, NoVault
      <4>2. vault'.verify = NoKey /\ sealed' = {}
        BY <1>3, <4>1, StepKeys DEF Inside, Storing, Unlocking
      <4> QED BY <4>2 DEF OnePasswordTwoLayers
    <3> QED BY <3>1, <3>2
  <2>4. Blank'
    <3> SUFFICES ASSUME ~Exists' PROVE vault' = NoVault /\ sealed' = {}
      BY DEF Blank
    <3>1. ~Exists
      BY <2>1 DEF Grows, Exists
    <3>2. vault = NoVault /\ sealed = {} /\ pc[p] \notin Inside
      BY <3>1, InsideExists DEF Blank
    <3>3. CASE UNCHANGED <<vault, sealed>>
      BY <3>2, <3>3
    <3>4. CASE Unlock(p)
      <4>1. typed[p] # None
        BY <3>4, NoneAssumption DEF Unlock, Local, LocalOf
      <4>2. vault'.passphrase # typed[p]
        BY <4>1 DEF Exists
      <4>3. vault \in Vault
        BY DEF TypeOK
      <4> QED BY <3>2, <3>4, <4>2, <4>3 DEF Unlock, End, Vault
    <3> QED
      BY <1>3, <3>2, <3>3, <3>4
         DEF Step, Invoke, Construct, End, Abort, StampMagic, CreateMeta,
             CreateEntries, SetVersion1, ReadVersion, CreateTotp, SetVersion2,
             StoreSalt, StoreVerify, IsInitialized, LoadSalt, LoadVerify, Work,
             Write, Inside, Stamping, Migrating, Storing, Unlocking
  <2> QED BY <2>2, <2>3, <2>4
<1> QED BY <1>1, <1>2, <1>3 DEF Next

LEMMA InitFile == Init => FileInv
BY DEF Init, FileInv, Blank, OnlyThePasswordGetsIn, OnePasswordTwoLayers,
       NoVault, Inside, Stamping, Migrating, Storing, Unlocking

\* Whoever is past the constructor typed the passphrase of the file, and the
\* token and all that is stored are sealed under the same password.
THEOREM OnePassword == Spec => [](OnlyThePasswordGetsIn /\ OnePasswordTwoLayers)
<1>1. Init => TypeOK /\ Local /\ FileInv
  BY InitTypes, InitLocal, InitFile
<1>2. TypeOK /\ Local /\ FileInv /\ [Next]_vars => TypeOK' /\ Local' /\ FileInv'
  BY StepTypes, StepLocal, StepFile
<1>3. FileInv => OnlyThePasswordGetsIn /\ OnePasswordTwoLayers
  BY DEF FileInv
<1> QED BY <1>1, <1>2, <1>3, PTL DEF Spec

-----------------------------------------------------------------------------
(* How far the vault is made, at each point of the code.                   *)

\* What init has behind it, statement by statement.
AfterMeta == {"create_entries", "set_version_1"} \cup Migrating \cup Storing
AfterEntries == {"set_version_1"} \cup Migrating \cup Storing

ProgressOf(p) ==
  /\ cmd[p] = "init" =>
       /\ pc[p] \in Inside \ {"stamp"} => vault.magic
       /\ pc[p] \in AfterMeta => "meta" \in vault.tables
       /\ pc[p] \in AfterEntries => "entries" \in vault.tables
       /\ pc[p] \in Migrating \cup Storing => vault.version # 0
       /\ pc[p] \in {"set_version_2"} \cup Storing => "totp_entries" \in vault.tables
       /\ pc[p] = "store_verify" => vault.salt # 0
  /\ cmd[p] # "init" =>
       /\ pc[p] \in Inside \ {"is_initialized"} => "meta" \in vault.tables
       /\ pc[p] \in {"set_version_2", "load_salt", "load_verify", "work"} =>
            "totp_entries" \in vault.tables

\* The version is set to 2 only once the table of version 2 is there.
MigrationOrder == vault.version = 2 => "totp_entries" \in vault.tables

ProgressInv ==
  MigrationOrder /\ TokenStoredLast /\ \A p \in Proc : ProgressOf(p)

\* Where the version and the token come from.
LEMMA StepRows ==
  ASSUME TypeOK, NEW p \in Proc, Step(p)
  PROVE  /\ \/ vault'.version = vault.version
            \/ vault'.version = 1
            \/ pc[p] = "set_version_2" /\ vault'.version = 2
         /\ vault'.verify # NoKey =>
              vault.verify # NoKey \/ pc[p] = "store_verify"
<1>1. vault \in Vault
  BY DEF TypeOK
<1>2. vault'.verify # NoKey => vault.verify # NoKey \/ pc[p] = "store_verify"
  BY StepKeys
<1>3. CASE SetVersion1(p) \/ SetVersion2(p)
  BY <1>1, <1>2, <1>3 DEF SetVersion1, SetVersion2, Write, Vault
<1>4. CASE UNCHANGED vault
  BY <1>4
<1>5. CASE \/ Unlock(p) \/ StampMagic(p) \/ CreateMeta(p) \/ CreateEntries(p)
           \/ CreateTotp(p) \/ StoreSalt(p) \/ StoreVerify(p)
  BY <1>1, <1>2, <1>5 DEF Unlock, End, StampMagic, CreateMeta, CreateEntries,
                          CreateTotp, StoreSalt, StoreVerify, Write, Vault
<1> QED
  BY <1>2, <1>3, <1>4, <1>5 DEF Step, Invoke, Construct, ReadVersion, Write,
     IsInitialized, LoadSalt, LoadVerify, Work, Abort, End

\* The process that steps finds at its next statement what that needs.
LEMMA StepProgressOwn ==
  ASSUME TypeOK, Local, ProgressInv, NEW p \in Proc, Step(p)
  PROVE  ProgressOf(p)'
<1> USE DEF Inside, Stamping, Migrating, Storing, Unlocking, AfterMeta, AfterEntries
<1>1. /\ vault \in Vault
      /\ pc[p] \in {"idle", "prompt", "unlock"} \cup Inside
      /\ cmd[p] \in {"none", "init", "keyed", "plain"}
      /\ p \in DOMAIN pc /\ p \in DOMAIN cmd
      /\ LocalOf(p)
  BY DEF TypeOK, Local
<1>2. ProgressOf(p) /\ MigrationOrder
  BY DEF ProgressInv
<1>3. ASSUME NEW h, Exit(p, h) PROVE ProgressOf(p)'
  BY <1>1, <1>3 DEF Exit, Goto, ProgressOf
<1>4. ASSUME NEW h, End(p, h) PROVE ProgressOf(p)'
  BY <1>3, <1>4 DEF End
<1>5. ASSUME NEW l, NEW v, NEW m, Write(p, l, v, m)
      PROVE  pc[p] = l /\ pc'[p] = m /\ cmd'[p] = cmd[p] /\ vault' = v
  BY <1>1, <1>5 DEF Write, Goto
<1>6. CASE \/ \E c \in {"init", "keyed", "plain"} : Invoke(p, c)
           \/ \E w \in Password : Construct(p, w)
  BY <1>1, <1>4, <1>6 DEF Invoke, Construct, Goto, ProgressOf
<1>7. CASE Unlock(p)
  BY <1>1, <1>4, <1>7 DEF Unlock, Goto, ProgressOf
<1>8. CASE StampMagic(p)
  BY <1>1, <1>2, <1>8 DEF StampMagic, Goto, ProgressOf, LocalOf, Vault
<1>9. CASE CreateMeta(p)
  BY <1>1, <1>2, <1>5, <1>9 DEF CreateMeta, ProgressOf, LocalOf, Vault
<1>10. CASE CreateEntries(p)
  BY <1>1, <1>2, <1>5, <1>10 DEF CreateEntries, ProgressOf, LocalOf, Vault
<1>11. CASE SetVersion1(p)
  BY <1>1, <1>2, <1>5, <1>11 DEF SetVersion1, ProgressOf, LocalOf, Vault
<1>12. CASE ReadVersion(p)
  <2>1. ~(vault.version < 2) => "totp_entries" \in vault.tables
    BY <1>1, <1>2 DEF MigrationOrder, Vault
  <2> QED BY <1>1, <1>2, <1>5, <1>12, <2>1 DEF ReadVersion, AfterMigrate, ProgressOf
<1>13. CASE CreateTotp(p)
  BY <1>1, <1>2, <1>5, <1>13 DEF CreateTotp, ProgressOf, Vault
<1>14. CASE SetVersion2(p)
  BY <1>1, <1>2, <1>5, <1>14 DEF SetVersion2, AfterMigrate, ProgressOf, Vault
<1>15. CASE StoreSalt(p)
  <2>1. dk[p].salt # 0
    BY <1>1, <1>5, <1>15 DEF StoreSalt, LocalOf, HoldsKey, Key
  <2> QED BY <1>1, <1>2, <1>5, <1>15, <2>1 DEF StoreSalt, ProgressOf, LocalOf, Vault
<1>16. CASE IsInitialized(p)
  BY <1>1, <1>2, <1>4, <1>5, <1>16 DEF IsInitialized, ProgressOf, LocalOf
<1>17. CASE LoadSalt(p)
  BY <1>1, <1>2, <1>4, <1>17 DEF LoadSalt, Goto, ProgressOf, LocalOf
<1>18. CASE LoadVerify(p)
  BY <1>1, <1>2, <1>4, <1>5, <1>18 DEF LoadVerify, ProgressOf, LocalOf
<1>19. CASE StoreVerify(p) \/ Work(p) \/ Abort(p)
  BY <1>3, <1>4, <1>19 DEF StoreVerify, Work, Abort
<1> QED
  BY <1>6, <1>7, <1>8, <1>9, <1>10, <1>11, <1>12, <1>13, <1>14, <1>15, <1>16,
     <1>17, <1>18, <1>19 DEF Step

LEMMA StepProgress ==
  ASSUME TypeOK, Local, ProgressInv, [Next]_vars
  PROVE  ProgressInv'
<1> USE DEF Inside, Stamping, Migrating, Storing, Unlocking
<1>1. CASE UNCHANGED vars
  BY <1>1 DEF ProgressInv, MigrationOrder, TokenStoredLast, ProgressOf,
              AfterMeta, AfterEntries, vars, locals
<1>2. CASE DeleteVault
  <2>1. \A p \in Proc : pc'[p] = "idle"
    BY <1>2 DEF DeleteVault, locals
  <2> QED BY <1>2, <2>1 DEF DeleteVault, NoVault, ProgressInv, MigrationOrder,
             TokenStoredLast, ProgressOf, AfterMeta, AfterEntries
<1>3. ASSUME NEW p \in Proc, Step(p) PROVE ProgressInv'
  <2>1. Grows /\ \A q \in Proc \ {p} : Still(q)
    BY <1>3, StepGrows, StepStill
  <2>2. ProgressOf(p) /\ LocalOf(p)
    BY DEF ProgressInv, Local
  <2>3. ASSUME NEW q \in Proc PROVE ProgressOf(q)'
    <3>1. CASE q = p
      BY <1>3, <3>1, StepProgressOwn
    <3>2. CASE q # p
      BY <2>1, <3>2 DEF ProgressInv, ProgressOf, Still, Grows, AfterMeta, AfterEntries
    <3> QED BY <3>1, <3>2
  <2>4. MigrationOrder'
    <3>1. CASE pc[p] = "set_version_2"
      BY <2>1, <2>2, <3>1 DEF ProgressOf, MigrationOrder, Grows
    <3>2. CASE pc[p] # "set_version_2"
      BY <1>3, <2>1, <3>2, StepRows DEF ProgressInv, MigrationOrder, Grows
    <3> QED BY <3>1, <3>2
  <2>5. TokenStoredLast'
    <3> SUFFICES ASSUME vault'.verify # NoKey
                 PROVE  /\ vault'.magic /\ vault'.tables = Table
                        /\ vault'.salt # 0 /\ vault'.version # 0
      BY DEF TokenStoredLast
    <3>1. vault'.tables \subseteq Table
      BY <1>3, StepTypes DEF TypeOK, Vault, Next
    <3>2. CASE vault.verify # NoKey
      BY <2>1, <3>1, <3>2 DEF ProgressInv, TokenStoredLast, Grows
    <3>3. CASE pc[p] = "store_verify"
      <4>1. Table \subseteq vault.tables
        BY <2>2, <3>3 DEF ProgressOf, LocalOf, Table, AfterMeta, AfterEntries
      <4>2. vault.magic /\ vault.salt # 0 /\ vault.version # 0
        BY <2>2, <3>3 DEF ProgressOf, LocalOf
      <4> QED BY <2>1, <3>1, <4>1, <4>2 DEF Grows
    <3> QED BY <1>3, <3>2, <3>3, StepRows
  <2> QED BY <2>3, <2>4, <2>5 DEF ProgressInv
<1> QED BY <1>1, <1>2, <1>3 DEF Next

LEMMA InitProgress == Init => ProgressInv
BY DEF Init, ProgressInv, MigrationOrder, TokenStoredLast, ProgressOf, NoVault,
       AfterMeta, AfterEntries, Inside, Stamping, Migrating, Storing, Unlocking

\* Wherever processes are killed and however inits race, a vault that has the
\* token has everything, and a command that is let through finds its tables.
THEOREM VaultIsComplete == Spec => [](TokenStoredLast /\ MigratedBeforeUse)
<1>1. Init => TypeOK /\ Local /\ ProgressInv
  BY InitTypes, InitLocal, InitProgress
<1>2. TypeOK /\ Local /\ ProgressInv /\ [Next]_vars =>
        TypeOK' /\ Local' /\ ProgressInv'
  BY StepTypes, StepLocal, StepProgress
<1>3. Local /\ ProgressInv => TokenStoredLast /\ MigratedBeforeUse
  BY DEF Local, LocalOf, ProgressInv, ProgressOf, MigratedBeforeUse, Inside, Unlocking
<1> QED BY <1>1, <1>2, <1>3, PTL DEF Spec

-----------------------------------------------------------------------------
(* One init at a time: the token and all that is stored stay readable.     *)

\* No two inits overlap: one starts after the other has ended, however it did.
InitsInTurn == \A p, q \in Proc : cmd[p] = "init" /\ cmd[q] = "init" => p = q

OneIniter == \A p, q \in Initers : p = q

\* While init runs there is no token and nothing is stored; the salt is its
\* own once it has stored it.
InitAlone ==
  \A p \in Proc :
    cmd[p] = "init" =>
      /\ p \in Initers
      /\ vault.verify = NoKey /\ sealed = {}
      /\ pc[p] = "store_verify" => vault.salt = dk[p].salt

\* A command that is about to seal something holds the key of the token.
SealsWithToken ==
  \A p \in Proc :
    cmd[p] = "keyed" /\ pc[p] = "work" =>
      vault.verify # NoKey /\ dk[p] = vault.verify

ReadableInv == InitAlone /\ SealsWithToken /\ TokenMatchesSalt /\ SealedReadable

\* What a step does to the command of its process.
LEMMA StepCmd ==
  ASSUME TypeOK, NEW p \in Proc, Step(p)
  PROVE  /\ cmd'[p] = "init" =>
              \/ cmd[p] = "init" /\ pc[p] # "store_verify"
              \/ p \in Initers /\ ~Exists /\ UNCHANGED <<vault, sealed>>
                   /\ pc'[p] = "prompt"
         /\ cmd'[p] = "init" /\ pc'[p] = "store_verify" =>
              pc[p] = "store_salt" /\ vault'.salt = dk[p].salt /\ dk'[p] = dk[p]
<1> USE DEF Exists
<1>1. /\ vault \in Vault
      /\ p \in DOMAIN pc /\ p \in DOMAIN cmd
  BY DEF TypeOK
<1>2. ASSUME NEW h, Exit(p, h) PROVE cmd'[p] = "none"
  BY <1>1, <1>2 DEF Exit
<1>3. ASSUME NEW h, End(p, h) PROVE cmd'[p] = "none"
  BY <1>2, <1>3 DEF End
<1>4. CASE \E c \in {"init", "keyed", "plain"} : Invoke(p, c)
  BY <1>1, <1>3, <1>4 DEF Invoke, Goto
<1>5. CASE \E w \in Password : Construct(p, w)
  BY <1>1, <1>3, <1>5 DEF Construct, Goto
<1>6. CASE Unlock(p)
  BY <1>1, <1>3, <1>6 DEF Unlock, Goto
<1>7. CASE StampMagic(p) \/ LoadSalt(p)
  BY <1>1, <1>3, <1>7 DEF StampMagic, LoadSalt, Goto
<1>8. CASE \/ CreateMeta(p) \/ CreateEntries(p) \/ SetVersion1(p)
           \/ ReadVersion(p) \/ CreateTotp(p) \/ SetVersion2(p)
           \/ IsInitialized(p) \/ LoadVerify(p)
  <2>1. cmd'[p] = "none" \/ (cmd'[p] = cmd[p] /\ pc[p] # "store_verify")
    BY <1>1, <1>3, <1>8 DEF CreateMeta, CreateEntries, SetVersion1, ReadVersion,
          CreateTotp, SetVersion2, IsInitialized, LoadVerify, Write
  <2>2. cmd'[p] = "none" \/ pc'[p] # "store_verify"
    BY <1>1, <1>3, <1>8 DEF CreateMeta, CreateEntries, SetVersion1, ReadVersion,
          CreateTotp, SetVersion2, IsInitialized, LoadVerify, Write, Goto,
          AfterMigrate
  <2> QED BY <2>1, <2>2
<1>9. CASE StoreSalt(p)
  BY <1>1, <1>9 DEF StoreSalt, Write, Goto, Vault
<1>10. CASE StoreVerify(p) \/ Work(p) \/ Abort(p)
  BY <1>2, <1>3, <1>10 DEF StoreVerify, Work, Abort
<1> QED BY <1>4, <1>5, <1>6, <1>7, <1>8, <1>9, <1>10 DEF Step

\* How a command comes to be about to work with a key.
LEMMA StepToWork ==
  ASSUME TypeOK, NEW p \in Proc, Step(p), cmd'[p] = "keyed", pc'[p] = "work"
  PROVE  /\ pc[p] = "load_verify" /\ vault.verify = dk[p]
         /\ vault' = vault /\ dk'[p] = dk[p]
<1>1. p \in DOMAIN pc /\ p \in DOMAIN cmd
  BY DEF TypeOK
<1>2. ASSUME NEW h, Exit(p, h) PROVE FALSE
  BY <1>1, <1>2 DEF Exit
<1>3. ASSUME NEW h, End(p, h) PROVE FALSE
  BY <1>2, <1>3 DEF End
<1>4. CASE LoadVerify(p)
  BY <1>3, <1>4 DEF LoadVerify, Write
<1>5. CASE ReadVersion(p) \/ SetVersion2(p)
  BY <1>1, <1>5 DEF ReadVersion, SetVersion2, Write, Goto, AfterMigrate
<1>6. CASE \/ CreateMeta(p) \/ CreateEntries(p) \/ SetVersion1(p)
           \/ CreateTotp(p) \/ StoreSalt(p) \/ IsInitialized(p)
  BY <1>1, <1>3, <1>6 DEF CreateMeta, CreateEntries, SetVersion1, CreateTotp,
                          StoreSalt, IsInitialized, Write, Goto
<1>7. CASE \/ \E c \in {"init", "keyed", "plain"} : Invoke(p, c)
           \/ \E w \in Password : Construct(p, w)
           \/ Unlock(p) \/ StampMagic(p) \/ LoadSalt(p)
  BY <1>1, <1>3, <1>7 DEF Invoke, Construct, Unlock, StampMagic, LoadSalt, Goto
<1>8. CASE StoreVerify(p) \/ Work(p) \/ Abort(p)
  BY <1>2, <1>3, <1>8 DEF StoreVerify, Work, Abort
<1> QED BY <1>4, <1>5, <1>6, <1>7, <1>8 DEF Step

\* Nobody stores a salt or a token while there is a token or something sealed.
LEMMA OnlyInitRekeys ==
  ASSUME Local, InitAlone, NEW p \in Proc, pc[p] \in Storing
  PROVE  cmd[p] = "init" /\ p \in Initers /\ vault.verify = NoKey /\ sealed = {}
BY DEF Local, LocalOf, InitAlone, Storing

LEMMA StepReadable ==
  ASSUME InitsInTurn, TypeOK, Local, FileInv, ReadableInv, [Next]_vars
  PROVE  ReadableInv'
<1> USE DEF ReadableInv
<1>1. CASE UNCHANGED vars
  BY <1>1 DEF InitAlone, SealsWithToken, TokenMatchesSalt, SealedReadable, vars, locals
<1>2. CASE DeleteVault
  <2>1. NoVault.verify = NoKey
    BY DEF NoVault
  <2>2. /\ vault' = NoVault /\ sealed' = {}
        /\ \A p \in Proc : cmd'[p] = "none"
    BY <1>2 DEF DeleteVault, locals, Local, LocalOf
  <2> QED BY <2>1, <2>2 DEF InitAlone, SealsWithToken, TokenMatchesSalt, SealedReadable
<1>3. ASSUME NEW p \in Proc, Step(p) PROVE ReadableInv'
  <2>1. Grows /\ \A q \in Proc \ {p} : Still(q)
    BY <1>3, StepGrows, StepStill
  <2>2. pc[p] \in Storing =>
          cmd[p] = "init" /\ p \in Initers /\ vault.verify = NoKey /\ sealed = {}
    BY OnlyInitRekeys
  <2>3. NoKey \notin Key
    BY NoneAssumption DEF NoKey, Key
  <2>4. \* with a token or something sealed, salt and passphrase stay
        vault.verify # NoKey \/ sealed # {} =>
          /\ vault'.salt = vault.salt /\ vault'.passphrase = vault.passphrase
          /\ vault'.verify = vault.verify
    <3>1. vault.verify # NoKey \/ sealed # {} => Exists
      BY DEF FileInv, Blank, NoVault
    <3> QED BY <1>3, <2>1, <2>2, <3>1, StepKeys DEF Grows, Storing
  <2>5. cmd[p] = "keyed" /\ pc[p] = "work" =>
          vault.verify # NoKey /\ dk[p] = vault.verify
    BY DEF SealsWithToken
  <2>6. InitAlone'
    <3> SUFFICES ASSUME NEW q \in Proc, cmd'[q] = "init"
                 PROVE  /\ q \in Initers
                        /\ vault'.verify = NoKey /\ sealed' = {}
                        /\ pc'[q] = "store_verify" => vault'.salt = dk'[q].salt
      BY DEF InitAlone
    <3>1. CASE q # p
      <4>1. /\ cmd[q] = "init" /\ q \in Initers
            /\ vault.verify = NoKey /\ sealed = {}
            /\ pc[q] = "store_verify" => vault.salt = dk[q].salt
            /\ pc'[q] = pc[q] /\ dk'[q] = dk[q]
        BY <2>1, <3>1 DEF Still, InitAlone
      <4>2. pc[p] \notin Storing
        BY <2>2, <3>1, <4>1 DEF InitsInTurn
      <4> QED BY <1>3, <2>5, <4>1, <4>2, StepKeys DEF Storing
    <3>2. CASE q = p
      <4>1. CASE cmd[p] = "init" /\ pc[p] # "store_verify"
        <5>1. p \in Initers /\ vault.verify = NoKey /\ sealed = {}
          BY <4>1 DEF InitAlone
        <5>2. vault'.verify = NoKey /\ sealed' = {}
          BY <1>3, <4>1, <5>1, StepKeys
        <5> QED BY <1>3, <3>2, <5>1, <5>2, StepCmd
      <4>2. CASE /\ p \in Initers /\ ~Exists /\ UNCHANGED <<vault, sealed>>
                 /\ pc'[p] = "prompt"
        BY <3>2, <4>2 DEF FileInv, Blank, NoVault
      <4> QED BY <1>3, <3>2, <4>1, <4>2, StepCmd
    <3> QED BY <3>1, <3>2
  <2>7. SealsWithToken'
    <3> SUFFICES ASSUME NEW q \in Proc, cmd'[q] = "keyed", pc'[q] = "work"
                 PROVE  vault'.verify # NoKey /\ dk'[q] = vault'.verify
      BY DEF SealsWithToken
    <3>1. CASE q # p
      BY <2>1, <2>4, <3>1 DEF Still, SealsWithToken
    <3>2. CASE q = p
      <4>1. pc[p] = "load_verify" /\ vault.verify = dk[p] /\ vault' = vault /\ dk'[p] = dk[p]
        BY <1>3, <3>2, StepToWork
      <4>2. dk[p] \in Key
        BY <4>1 DEF Local, LocalOf, HoldsKey
      <4> QED BY <2>3, <3>2, <4>1, <4>2
    <3> QED BY <3>1, <3>2
  <2>8. TokenMatchesSalt'
    <3>1. CASE vault.verify # NoKey
      BY <2>4, <3>1 DEF TokenMatchesSalt, derive_key
    <3>2. CASE pc[p] = "store_verify"
      <4>1. vault.salt = dk[p].salt
        BY <2>2, <3>2 DEF InitAlone, Storing
      <4>2. /\ dk[p] \in Key /\ dk[p].password = vault.passphrase
            /\ Exists
        BY <2>2, <3>2, InsideExists DEF FileInv, Local, LocalOf, HoldsKey, Inside, Storing
      <4>3. vault'.salt = dk[p].salt /\ vault'.passphrase = dk[p].password
        BY <1>3, <2>1, <3>2, <4>1, <4>2, StepKeys DEF Grows
      <4>4. dk[p] = derive_key(vault'.passphrase, vault'.salt)
        BY <4>2, <4>3 DEF Key, derive_key
      <4>5. vault'.verify = dk[p] \/ vault'.verify = vault.verify
        BY <1>3, StepKeys
      <4>6. vault.verify = NoKey
        BY <2>2, <3>2 DEF Storing
      <4> QED BY <4>4, <4>5, <4>6 DEF TokenMatchesSalt
    <3> QED BY <1>3, <3>1, <3>2, StepKeys DEF TokenMatchesSalt
  <2>9. SealedReadable'
    <3> SUFFICES ASSUME NEW k \in sealed'
                 PROVE  k = derive_key(vault'.passphrase, vault'.salt)
      BY DEF SealedReadable
    <3>1. CASE k \in sealed
      BY <2>4, <3>1 DEF SealedReadable
    <3>2. CASE k \notin sealed
      BY <1>3, <2>4, <2>5, <3>2, StepKeys DEF TokenMatchesSalt
    <3> QED BY <3>1, <3>2
  <2> QED BY <2>6, <2>7, <2>8, <2>9
<1> QED BY <1>1, <1>2, <1>3 DEF Next

LEMMA InitReadable == Init => ReadableInv
BY DEF Init, ReadableInv, InitAlone, SealsWithToken, TokenMatchesSalt,
       SealedReadable, NoVault

\* As long as no two inits run at the same time, the password that opens the
\* file opens the token and everything that is stored, and an init that is run
\* later leaves what is stored alone: however often the vault was begun, left
\* half made, deleted and made again.
THEOREM InitsInTurnKeepReadable ==
  Spec /\ []InitsInTurn => [](TokenMatchesSalt /\ SealedReadable /\ InitLeavesVaultAlone)
<1>1. Init => TypeOK /\ Local /\ FileInv /\ ReadableInv
  BY InitTypes, InitLocal, InitFile, InitReadable
<1>2. InitsInTurn /\ TypeOK /\ Local /\ FileInv /\ ReadableInv /\ [Next]_vars =>
        TypeOK' /\ Local' /\ FileInv' /\ ReadableInv'
  BY StepTypes, StepLocal, StepFile, StepReadable
<1>3. ReadableInv => TokenMatchesSalt /\ SealedReadable /\ InitLeavesVaultAlone
  BY DEF ReadableInv, InitLeavesVaultAlone
<1> QED BY <1>1, <1>2, <1>3, PTL DEF Spec

\* Inits are run by initialisers, so those of a single one cannot overlap.
LEMMA OneIniterInTurn == OneIniter => (Spec => []InitsInTurn)
<1> DEFINE InitersOnly == \A p \in Proc : cmd[p] = "init" => p \in Initers
<1> SUFFICES ASSUME OneIniter PROVE Spec => []InitsInTurn
  OBVIOUS
<1>1. Init => InitersOnly
  BY DEF Init
<1>2. TypeOK /\ InitersOnly /\ [Next]_vars => InitersOnly'
  <2> SUFFICES ASSUME TypeOK, InitersOnly, [Next]_vars PROVE InitersOnly'
    OBVIOUS
  <2>1. CASE UNCHANGED vars \/ DeleteVault
    <3>1. cmd' = cmd
      BY <2>1 DEF vars, locals, DeleteVault
    <3> QED BY <3>1
  <2>2. ASSUME NEW p \in Proc, Step(p), NEW q \in Proc, cmd'[q] = "init"
        PROVE  q \in Initers
    <3>1. CASE q = p
      BY <2>2, <3>1, StepCmd
    <3>2. CASE q # p
      BY <2>2, <3>2, StepStill DEF Still
    <3> QED BY <3>1, <3>2
  <2> QED BY <2>1, <2>2 DEF Next
<1>3. InitersOnly => InitsInTurn
  BY DEF OneIniter, InitsInTurn
<1> QED BY <1>1, <1>2, <1>3, TypeCorrect, PTL DEF Spec

\* As long as a single process is ever asked to run init, the password that
\* opens the file opens the token and everything that is stored.
THEOREM VaultStaysReadable ==
  OneIniter => (Spec => [](TokenMatchesSalt /\ SealedReadable))
<1> SUFFICES ASSUME OneIniter
             PROVE  Spec => [](TokenMatchesSalt /\ SealedReadable)
  OBVIOUS
<1>1. Spec => []InitsInTurn
  BY OneIniterInTurn
<1> QED BY <1>1, InitsInTurnKeepReadable, PTL
=============================================================================
