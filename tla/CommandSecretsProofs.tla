-------------------------- MODULE CommandSecretsProofs --------------------------
(***************************************************************************)
(* Proofs about where secrets are while a command runs.                    *)
(*                                                                         *)
(* A command is a straight piece of code but for the display, which goes   *)
(* back to the beginning of totp_generate.  So the proof is a proof        *)
(* outline: in front of each statement an assertion, the set of the values *)
(* that seen may have there, such that every statement leads from its      *)
(* assertion to the next one and finds what the properties need (Fine).    *)
(* What is seen are the variables held, and the one copy of the master     *)
(* password that is left, the PRAGMA statement.                            *)
(* Outlines are put together as the commands are: one rule for each kind   *)
(* of statement, and one for \o.  That a command keeps to its outline,     *)
(* whatever the user, the database and libsodium answer, is the invariant. *)
(***************************************************************************)
EXTENDS CommandLineProofs

-----------------------------------------------------------------------------
(* Assertions and outlines.                                                *)

Ops == {"prompt", "ask", "fill", "call", "wipe", "copy", "may_return", "return_if_empty",
        "generate_if_empty", "show"}
Statements == [op : Ops, fills : SUBSET Variable, zeroes : SUBSET (Variable \ Copies)]

Held == SUBSET (Variable \ Copies)
Seen == SUBSET ((Variable \ Copies) \cup {"pragma"})

seen == held \cup (left \cap {"pragma"})

\* What may be seen behind a statement, where h was seen in front of it.
Behind(st, h) ==
  IF st.op \in {"prompt", "ask"} THEN {h, h \cup st.fills}
  ELSE IF st.op \in {"fill", "call", "generate_if_empty"} THEN {h \cup st.fills}
  ELSE IF st.op = "copy" THEN {h \cup (st.fills \cap {"pragma"})}
  ELSE IF st.op = "return_if_empty" THEN {g \in {h} : st.fills \subseteq g}
  ELSE IF st.op = "wipe" THEN {h \ st.zeroes} ELSE {h}

\* Beside data there is of the master password the PRAGMA statement alone.
Apart(h) == h \cap (Field \cup Seed) # {} => h \cap OfMaster = {"pragma"}

\* What there is of it where a statement waits for the user to fill f.
MasterAt(f) ==
  CASE f = {"master"}  -> {}
    [] f = {"confirm"} -> {"master"}
    [] OTHER           -> {"pragma"}

\* What a statement has to find.
Fine(st, h) ==
  /\ Apart(h)
  /\ st.op \in {"prompt", "ask", "show"} => h \cap OfMaster = MasterAt(st.fills)
  /\ st.op = "show" => h = {"raw_secret", "code", "pragma"}
  /\ st.op = "may_return" => h \subseteq st.zeroes \cup {"pragma"}
  /\ st.op = "return_if_empty" => st.fills \subseteq h \/ h \subseteq st.zeroes \cup {"pragma"}
  /\ IF st.op = "copy" THEN st.fills \subseteq Copies ELSE st.fills \in Held

\* A[n] is an assertion in front of statement n of s.
IsOutline(A, s, P, Q) ==
  /\ A \in [1..(Len(s) + 1) -> SUBSET Seen]
  /\ P \subseteq A[1] /\ A[Len(s) + 1] \subseteq Q
  /\ \A n \in 1..Len(s) : \A h \in A[n] : Fine(s[n], h) /\ Behind(s[n], h) \subseteq A[n + 1]
  /\ \A n \in 1..Len(s) :
       s[n].op = "show" => n - 5 \in 1..n /\ \A h \in A[n] : h \ {"code"} \in A[n - 5]

\* From every value in P, s leads to one in Q.
Outline(s, P, Q) == s \in Seq(Statements) /\ \E A : IsOutline(A, s, P, Q)

LEMMA Then ==
  ASSUME NEW s, NEW t, NEW P, NEW Q, NEW R, Outline(s, P, Q), Outline(t, Q, R)
  PROVE  Outline(s \o t, P, R)
<1>1. /\ s \in Seq(Statements) /\ t \in Seq(Statements) /\ s \o t \in Seq(Statements)
      /\ Len(s) \in Nat /\ Len(t) \in Nat /\ Len(s \o t) = Len(s) + Len(t)
      /\ \A n \in 1..(Len(s) + Len(t)) :
           (s \o t)[n] = IF n <= Len(s) THEN s[n] ELSE t[n - Len(s)]
  BY ConcatProperties, LenProperties DEF Outline
<1>2. PICK A : IsOutline(A, s, P, Q)
  BY DEF Outline
<1>3. PICK B : IsOutline(B, t, Q, R)
  BY DEF Outline
<1>4. PICK k \in Nat : k = Len(s)
  BY <1>1
<1>5. PICK l \in Nat : l = Len(t)
  BY <1>1
<1>6. PICK C : C = [n \in 1..(k + l + 1) |-> IF n <= k THEN A[n] ELSE B[n - k]]
  OBVIOUS
<1>7. \A n \in 1..k : C[n] = A[n] /\ A[n] \in SUBSET Seen
  BY <1>2, <1>4, <1>6 DEF IsOutline
<1>8. \A n \in (k + 1)..(k + l + 1) : C[n] = B[n - k] /\ B[n - k] \in SUBSET Seen
  <2>1. B \in [1..(l + 1) -> SUBSET Seen]
    BY <1>3, <1>5 DEF IsOutline
  <2>2. ASSUME NEW n \in (k + 1)..(k + l + 1)
        PROVE  /\ n \in 1..(k + l + 1) /\ ~(n <= k) /\ n - k \in 1..(l + 1)
    BY ONLY k \in Nat, l \in Nat
  <2>3. ASSUME NEW n \in (k + 1)..(k + l + 1)
        PROVE  C[n] = B[n - k] /\ B[n - k] \in SUBSET Seen
    BY ONLY <1>6, <2>1, <2>2
  <2> QED BY ONLY <2>3
<1>9. C \in [1..(k + l + 1) -> SUBSET Seen]
  <2>1. ASSUME NEW n \in 1..(k + l + 1) PROVE C[n] \in SUBSET Seen
    BY <1>7, <1>8
  <2> QED BY <1>6, <2>1
<1>10. A[k + 1] \subseteq C[k + 1]
  BY <1>2, <1>3, <1>4, <1>5, <1>8 DEF IsOutline
<1>11. P \subseteq C[1] /\ C[k + l + 1] \subseteq R
  <2>1. P \subseteq C[1]
    <3>1. CASE k = 0
      BY <1>2, <1>10, <3>1 DEF IsOutline
    <3>2. CASE k # 0
      BY <1>2, <1>7, <3>2 DEF IsOutline
    <3> QED BY <3>1, <3>2
  <2> QED BY <1>3, <1>5, <1>8, <2>1 DEF IsOutline
<1>12. ASSUME NEW n \in 1..(k + l)
       PROVE  /\ \A h \in C[n] : Fine((s \o t)[n], h) /\ Behind((s \o t)[n], h) \subseteq C[n + 1]
              /\ (s \o t)[n].op = "show" => n - 5 \in 1..n /\ \A h \in C[n] : h \ {"code"} \in C[n - 5]
  <2>1. CASE n <= k
    <3>1. n \in 1..k /\ (s \o t)[n] = s[n] /\ C[n] = A[n]
      BY <1>1, <1>4, <1>5, <1>7, <2>1
    <3>2. A[n + 1] \subseteq C[n + 1]
      BY <1>7, <1>10, <3>1
    <3>3. \A h \in A[n] : Fine(s[n], h) /\ Behind(s[n], h) \subseteq A[n + 1]
      BY <1>2, <1>4, <3>1 DEF IsOutline
    <3>4. s[n].op = "show" => n - 5 \in 1..n /\ \A h \in A[n] : h \ {"code"} \in A[n - 5]
      BY <1>2, <1>4, <3>1 DEF IsOutline
    <3>5. n - 5 \in 1..n => C[n - 5] = A[n - 5]
      BY <1>7, <3>1
    <3> QED BY <3>1, <3>2, <3>3, <3>4, <3>5
  <2>2. CASE ~(n <= k)
    <3>1. PICK m \in 1..l : m = n - k
      BY <2>2
    <3>2. (s \o t)[n] = t[m] /\ C[n] = B[m] /\ C[n + 1] = B[m + 1]
      <4>1. (s \o t)[n] = t[m]
        BY <1>1, <1>4, <1>5, <2>2, <3>1
      <4>2. n \in (k + 1)..(k + l + 1) /\ n + 1 \in (k + 1)..(k + l + 1) /\ (n + 1) - k = m + 1
        BY <2>2, <3>1
      <4> QED BY <1>8, <3>1, <4>1, <4>2
    <3>3. \A h \in B[m] : Fine(t[m], h) /\ Behind(t[m], h) \subseteq B[m + 1]
      BY <1>3, <1>5, <3>1 DEF IsOutline
    <3>4. t[m].op = "show" => m - 5 \in 1..m /\ \A h \in B[m] : h \ {"code"} \in B[m - 5]
      BY <1>3, <1>5, <3>1 DEF IsOutline
    <3>5. m - 5 \in 1..m => n - 5 \in 1..n /\ C[n - 5] = B[m - 5]
      BY <1>8, <3>1
    <3> QED BY <3>2, <3>3, <3>4, <3>5
  <2> QED BY <2>1, <2>2
<1>13. Len(s \o t) = k + l
  BY <1>1, <1>4, <1>5
<1>14. IsOutline(C, s \o t, P, R)
  BY <1>9, <1>11, <1>12, <1>13 DEF IsOutline
<1> QED BY <1>1, <1>14 DEF Outline

\* Less may be held in front, and more behind.
LEMMA Consequence ==
  ASSUME NEW s, NEW P, NEW Q, NEW P1, NEW Q1, Outline(s, P, Q), P1 \subseteq P, Q \subseteq Q1
  PROVE  Outline(s, P1, Q1)
BY DEF Outline, IsOutline

LEMMA OneStatement ==
  ASSUME NEW st \in Statements, st.op # "show",
         NEW P \in SUBSET Seen, NEW Q \in SUBSET Seen,
         \A h \in P : Fine(st, h) /\ Behind(st, h) \subseteq Q
  PROVE  Outline(<< st >>, P, Q)
<1> DEFINE A == [n \in 1..2 |-> IF n = 1 THEN P ELSE Q]
<1>1. << st >> \in Seq(Statements) /\ Len(<< st >>) = 1 /\ << st >>[1] = st
  OBVIOUS
<1>2. A \in [1..2 -> SUBSET Seen] /\ A[1] = P /\ A[2] = Q
  OBVIOUS
<1> HIDE DEF A
<1>3. IsOutline(A, << st >>, P, Q)
  BY <1>1, <1>2 DEF IsOutline
<1> QED BY <1>1, <1>3 DEF Outline

-----------------------------------------------------------------------------
(* A rule for each kind of statement.                                      *)

LEMMA PromptRule ==
  ASSUME NEW b \in Variable \ Copies, NEW P \in SUBSET Seen, NEW Q \in SUBSET Seen,
         \A h \in P : Apart(h) /\ h \cap OfMaster = MasterAt({b}) /\ h \in Q /\ h \cup {b} \in Q
  PROVE  Outline(Prompt(b), P, Q)
BY OneStatement DEF Prompt, Statement, Statements, Ops, Fine, Behind, Held

LEMMA AskRule ==
  ASSUME NEW f \in SUBSET (Field \cup Seed), NEW P \in SUBSET Seen, NEW Q \in SUBSET Seen,
         \A h \in P : h \cap OfMaster = {"pragma"} /\ h \in Q /\ h \cup f \in Q
  PROVE  Outline(Ask(f), P, Q)
<1> DEFINE st == Statement("ask", f, {})
<1>1. f \in SUBSET Variable /\ f \in Held
  BY DEF Held, Variable, Copies, HmacCopies, Field, Seed
<1>2. st \in Statements /\ st.op = "ask" /\ st.fills = f
  BY <1>1 DEF Statement, Statements, Ops
<1>3. MasterAt(f) = {"pragma"}
  BY DEF MasterAt, Field, Seed
<1> HIDE DEF st
<1>4. \A h \in P : Fine(st, h)
  BY <1>1, <1>2, <1>3 DEF Fine, Apart
<1>5. \A h \in P : Behind(st, h) \subseteq Q
  BY <1>2 DEF Behind
<1>6. Outline(<< st >>, P, Q)
  BY <1>2, <1>4, <1>5, OneStatement
<1> QED BY <1>6 DEF Ask, st

LEMMA FillRule ==
  ASSUME NEW f \in Held, NEW P \in SUBSET Seen, NEW Q \in SUBSET Seen,
         \A h \in P : Apart(h) /\ h \cup f \in Q
  PROVE  Outline(Fill(f), P, Q)
BY OneStatement DEF Fill, Statement, Statements, Ops, Fine, Behind, Held

LEMMA FallibleRule ==
  ASSUME NEW f \in Held, NEW z \in Held, NEW P \in SUBSET Seen, NEW Q \in SUBSET Seen,
         \A h \in P : Apart(h) /\ h \cup f \in Q
  PROVE  Outline(Fallible(f, z), P, Q)
BY OneStatement DEF Fallible, Statement, Statements, Ops, Fine, Behind, Held

LEMMA TryRule ==
  ASSUME NEW z \in Held, NEW P \in SUBSET Seen, \A h \in P : Apart(h)
  PROVE  Outline(Fallible({}, z), P, P) /\ Outline(TryCall, P, P)
<1>1. \A h \in P : h \cup {} = h
  OBVIOUS
<1>2. {} \in Held
  BY DEF Held
<1> QED BY <1>1, <1>2, FallibleRule DEF TryCall

LEMMA WipeRule ==
  ASSUME NEW z \in Held, NEW P \in SUBSET Seen, NEW Q \in SUBSET Seen,
         \A h \in P : Apart(h) /\ h \ z \in Q
  PROVE  Outline(Wipe(z), P, Q)
BY OneStatement DEF Wipe, Statement, Statements, Ops, Fine, Behind, Held

\* All copies but the PRAGMA statement.
LEMMA CopyRule ==
  ASSUME NEW c \in SUBSET (Copies \ {"pragma"}), NEW P \in SUBSET Seen, \A h \in P : Apart(h)
  PROVE  Outline(Copy(c), P, P)
<1>1. \A h \in P : h \cup (c \cap {"pragma"}) = h
  OBVIOUS
<1>2. c \in SUBSET Variable /\ c \in SUBSET Copies
  BY DEF Variable
<1> DEFINE st == Statement("copy", c, {})
<1>3. st \in Statements /\ st.op = "copy" /\ st.fills = c
  BY <1>2 DEF Statement, Statements, Ops
<1> HIDE DEF st
<1>4. \A h \in P : Fine(st, h)
  BY <1>2, <1>3 DEF Fine
<1>5. \A h \in P : Behind(st, h) \subseteq P
  BY <1>1, <1>3 DEF Behind
<1>6. Outline(<< st >>, P, P)
  BY <1>3, <1>4, <1>5, OneStatement
<1> QED BY <1>6 DEF Copy, st

LEMMA PragmaRule ==
  ASSUME NEW P \in SUBSET Seen, NEW Q \in SUBSET Seen, \A h \in P : Apart(h) /\ h \cup {"pragma"} \in Q
  PROVE  Outline(Copy({"pragma"}), P, Q)
<1> DEFINE st == Statement("copy", {"pragma"}, {})
<1>1. {"pragma"} \in SUBSET Variable /\ {"pragma"} \subseteq Copies
  BY DEF Variable, Copies
<1>2. st \in Statements /\ st.op = "copy" /\ st.fills = {"pragma"}
  BY <1>1 DEF Statement, Statements, Ops
<1> HIDE DEF st
<1>3. \A h \in P : Fine(st, h)
  BY <1>1, <1>2 DEF Fine
<1>4. \A h \in P : Behind(st, h) \subseteq Q
  <2>1. {"pragma"} \cap {"pragma"} = {"pragma"}
    OBVIOUS
  <2> QED BY <1>2, <2>1 DEF Behind
<1>5. Outline(<< st >>, P, Q)
  BY <1>2, <1>3, <1>4, OneStatement
<1> QED BY <1>5 DEF Copy, st

LEMMA MayReturnRule ==
  ASSUME NEW z \in Held, NEW P \in SUBSET Seen,
         \A h \in P : Apart(h) /\ h \subseteq z \cup {"pragma"}
  PROVE  Outline(MayReturn(z), P, P)
BY OneStatement DEF MayReturn, Statement, Statements, Ops, Fine, Behind, Held

LEMMA ReturnIfEmptyRule ==
  ASSUME NEW b \in Variable \ Copies, NEW z \in Held, NEW P \in SUBSET Seen, NEW Q \in SUBSET Seen,
         \A h \in P : Apart(h) /\ (IF b \in h THEN h \in Q ELSE h \subseteq z \cup {"pragma"})
  PROVE  Outline(ReturnIfEmpty(b, z), P, Q)
BY OneStatement DEF ReturnIfEmpty, Statement, Statements, Ops, Fine, Behind, Held

LEMMA GenerateRule ==
  ASSUME NEW b \in Variable \ Copies, NEW P \in SUBSET Seen, NEW Q \in SUBSET Seen,
         \A h \in P : Apart(h) /\ h \cup {b} \in Q
  PROVE  Outline(GenerateIfEmpty(b), P, Q)
BY OneStatement DEF GenerateIfEmpty, Statement, Statements, Ops, Fine, Behind, Held

-----------------------------------------------------------------------------
(* The outlines of what the commands share.                                *)

LEMMA SecretsAreVariables ==
  /\ Field \cup Seed \subseteq Variable \ Copies
  /\ {"master", "confirm", "dk", "plain", "rows", "pw", "code"} \subseteq Variable \ Copies
  /\ KeyBlocks \subseteq Variable \ Copies
BY DEF Variable, Copies, HmacCopies, Field, Seed, KeyBlocks

\* The PRAGMA statement, and some of the variables V.
With(V) == {h \in SUBSET (V \cup {"pragma"}) : "pragma" \in h}

LEMMA WithPragma ==
  ASSUME NEW V \in Held, "master" \notin V, "confirm" \notin V
  PROVE  /\ With(V) \in SUBSET Seen
         /\ \A h \in With(V) : Apart(h) /\ h \cap OfMaster = {"pragma"}
BY DEF With, Held, Seen, Apart, OfMaster

LEMMA WithoutData ==
  ASSUME NEW h, h \cap (Field \cup Seed) = {}
  PROVE  Apart(h)
BY DEF Apart

Nothing == {{}}
Master == SUBSET {"master"}
MasterPragma == With({"master"})
MasterAndKey == With({"master", "dk"})
FieldKey == With({"dk"})
Pragma == With({})

LEMMA Assertions ==
  /\ Nothing \in SUBSET Seen /\ \A h \in Nothing : Apart(h)
  /\ Master \in SUBSET Seen /\ \A h \in Master : Apart(h)
  /\ MasterPragma \in SUBSET Seen /\ \A h \in MasterPragma : Apart(h)
  /\ MasterAndKey \in SUBSET Seen /\ \A h \in MasterAndKey : Apart(h)
  /\ FieldKey \in SUBSET Seen /\ \A h \in FieldKey : Apart(h) /\ h \cap OfMaster = {"pragma"}
  /\ Pragma \in SUBSET Seen /\ \A h \in Pragma : Apart(h) /\ h \cap OfMaster = {"pragma"}
  /\ {} \in Held /\ {"dk"} \in Held /\ {"master"} \in Held /\ {"confirm"} \in Held
<1>1. {} \in Held /\ {"dk"} \in Held /\ {"master"} \in Held /\ {"confirm"} \in Held
  BY SecretsAreVariables DEF Held
<1>2. "pragma" \notin Field \cup Seed /\ "master" \notin Field \cup Seed /\ "dk" \notin Field \cup Seed
  BY DEF Field, Seed
<1>3. Nothing \in SUBSET Seen /\ \A h \in Nothing : Apart(h)
  BY DEF Nothing, Seen, Apart
<1>4. Master \in SUBSET Seen /\ \A h \in Master : Apart(h)
  BY <1>1, <1>2 DEF Master, Seen, Held, Apart
<1>5. MasterPragma \in SUBSET Seen /\ \A h \in MasterPragma : Apart(h)
  BY <1>1, <1>2 DEF MasterPragma, With, Seen, Held, Apart
<1>6. MasterAndKey \in SUBSET Seen /\ \A h \in MasterAndKey : Apart(h)
  BY <1>1, <1>2 DEF MasterAndKey, With, Seen, Held, Apart
<1>7. FieldKey \in SUBSET Seen /\ \A h \in FieldKey : Apart(h) /\ h \cap OfMaster = {"pragma"}
  BY <1>1, WithPragma DEF FieldKey
<1>8. Pragma \in SUBSET Seen /\ \A h \in Pragma : Apart(h) /\ h \cap OfMaster = {"pragma"}
  BY <1>1, WithPragma DEF Pragma
<1> QED BY <1>1, <1>3, <1>4, <1>5, <1>6, <1>7, <1>8

LEMMA OpenDatabaseOutline ==
  ASSUME NEW z \in Held
  PROVE  Outline(OpenDatabase(z), Master, MasterPragma)
<1>1. Outline(Fallible({}, z), Master, Master)
  BY Assertions, TryRule
<1>2. Outline(Copy({"pragma"}), Master, MasterPragma)
  <2>1. \A h \in Master : h \cup {"pragma"} \in MasterPragma
    BY DEF Master, MasterPragma, With
  <2> QED BY <2>1, Assertions, PragmaRule
<1>3. Outline(Fallible({}, z) \o Copy({"pragma"}), Master, MasterPragma)
  BY <1>1, <1>2, Then
<1>4. Outline(Fallible({}, z), MasterPragma, MasterPragma)
  BY Assertions, TryRule
<1> QED BY <1>3, <1>4, Then DEF OpenDatabase

LEMMA OpenVaultOutline == Outline(open_vault, Nothing, MasterPragma)
<1>1. Outline(Prompt("master"), Nothing, Master)
  <2>1. \A h \in Nothing : h \cap OfMaster = MasterAt({"master"}) /\ h \in Master /\ h \cup {"master"} \in Master
    BY DEF Nothing, Master, MasterAt
  <2> QED BY <2>1, Assertions, PromptRule, SecretsAreVariables
<1>2. Outline(OpenDatabase({"master"}), Master, MasterPragma)
  BY Assertions, OpenDatabaseOutline
<1>3. Outline(Fallible({}, {"master"}), MasterPragma, MasterPragma)
  BY Assertions, TryRule
<1>4. Outline(Prompt("master") \o OpenDatabase({"master"}), Nothing, MasterPragma)
  BY <1>1, <1>2, Then
<1> QED BY <1>3, <1>4, Then DEF open_vault

LEMMA UnlockOutline == Outline(Unlock, Nothing, Pragma)
<1>1. Outline(Wipe({"master"}), MasterPragma, Pragma)
  <2>1. \A h \in MasterPragma : h \ {"master"} \in Pragma
    BY DEF MasterPragma, Pragma, With
  <2> QED BY <2>1, Assertions, WipeRule
<1> QED BY <1>1, OpenVaultOutline, Then DEF Unlock

LEMMA DeriveOutline == Outline(derive_field_key, MasterPragma, MasterAndKey)
<1> DEFINE Verified == With({"master", "dk", "plain"})
<1>0. /\ Verified \in SUBSET Seen /\ \A h \in Verified : Apart(h)
      /\ {"plain"} \in Held
  BY SecretsAreVariables DEF Held, Seen, With, Apart, Field, Seed
<1>1. Outline(TryCall, MasterPragma, MasterPragma)
  BY Assertions, TryRule
<1>2. Outline(Fallible({"dk"}, {}), MasterPragma, MasterAndKey)
  <2>1. \A h \in MasterPragma : h \cup {"dk"} \in MasterAndKey
    BY DEF MasterPragma, MasterAndKey, With
  <2> QED BY <2>1, Assertions, FallibleRule
<1>3. Outline(TryCall, MasterAndKey, MasterAndKey)
  BY Assertions, TryRule
<1>4. Outline(Fallible({"plain"}, {"dk"}), MasterAndKey, Verified)
  <2>1. \A h \in MasterAndKey : h \cup {"plain"} \in Verified
    BY DEF MasterAndKey, With
  <2> QED BY <1>0, <2>1, Assertions, FallibleRule
<1>5. Outline(Wipe({"plain"}), Verified, MasterAndKey)
  <2>1. \A h \in Verified : h \ {"plain"} \in MasterAndKey
    BY DEF MasterAndKey, With
  <2> QED BY <1>0, <2>1, Assertions, WipeRule
<1>6. Outline(Fallible({}, {"dk"}), MasterAndKey, MasterAndKey)
  BY Assertions, TryRule
<1> HIDE DEF Verified
<1>7. Outline(TryCall \o Fallible({"dk"}, {}), MasterPragma, MasterAndKey)
  BY <1>1, <1>2, Then
<1>8. Outline(TryCall \o Fallible({"dk"}, {}) \o TryCall, MasterPragma, MasterAndKey)
  BY <1>3, <1>7, Then
<1>9. Outline(TryCall \o Fallible({"dk"}, {}) \o TryCall \o Fallible({"plain"}, {"dk"}),
              MasterPragma, Verified)
  BY <1>4, <1>8, Then
<1>10. Outline(TryCall \o Fallible({"dk"}, {}) \o TryCall
                 \o Fallible({"plain"}, {"dk"}) \o Wipe({"plain"}), MasterPragma, MasterAndKey)
  BY <1>5, <1>9, Then
<1> QED BY <1>6, <1>10, Then DEF derive_field_key

LEMMA UnlockKeyedOutline == Outline(UnlockKeyed, Nothing, FieldKey)
<1>1. Outline(open_vault \o derive_field_key, Nothing, MasterAndKey)
  BY OpenVaultOutline, DeriveOutline, Then
<1>2. Outline(Wipe({"master"}), MasterAndKey, FieldKey)
  <2>1. \A h \in MasterAndKey : h \ {"master"} \in FieldKey
    BY DEF MasterAndKey, FieldKey, With
  <2> QED BY <2>1, Assertions, WipeRule
<1> QED BY <1>1, <1>2, Then DEF UnlockKeyed

LEMMA Then3 ==
  ASSUME NEW a, NEW b, NEW c, NEW P, NEW Q, NEW R, NEW S,
         Outline(a, P, Q), Outline(b, Q, R), Outline(c, R, S)
  PROVE  Outline(a \o b \o c, P, S)
<1>1. Outline(a \o b, P, R)
  BY Then
<1> QED BY <1>1, Then

LEMMA Then5 ==
  ASSUME NEW a, NEW b, NEW c, NEW d, NEW e, NEW P, NEW Q, NEW R, NEW S, NEW T, NEW U,
         Outline(a, P, Q), Outline(b, Q, R), Outline(c, R, S), Outline(d, S, T), Outline(e, T, U)
  PROVE  Outline(a \o b \o c \o d \o e, P, U)
<1>1. Outline(a \o b \o c, P, S)
  BY Then3
<1> QED BY <1>1, Then3

LEMMA DecodeOutline ==
  ASSUME NEW P \in SUBSET Seen, NEW Q \in SUBSET Seen,
         \A h \in P : Apart(h) /\ h \cup {"raw_secret"} \in Q
  PROVE  Outline(base32_decode, P, Q)
<1>1. Outline(Copy({"base32_strings"}), P, P)
  BY CopyRule DEF Copies
<1>2. {"raw_secret"} \in Held /\ {} \in Held
  BY SecretsAreVariables DEF Held, Seed
<1>3. Outline(Fallible({"raw_secret"}, {}), P, Q)
  BY <1>2, FallibleRule
<1> QED BY <1>1, <1>3, Then DEF base32_decode

\* The statements of the display, with those of totp_generate at their head.
LEMMA DisplayStatements ==
  /\ Len(totp_generate) = 5 /\ Len(live_totp_display) = 7
  /\ live_totp_display[1] = Statement("call", {}, {})
  /\ live_totp_display[2] = Statement("fill", KeyBlocks, {})
  /\ live_totp_display[3] = Statement("copy", HmacCopies, {})
  /\ live_totp_display[4] = Statement("wipe", {}, KeyBlocks)
  /\ live_totp_display[5] = Statement("fill", {"code"}, {})
  /\ live_totp_display[6] = Statement("show", {}, {})
  /\ live_totp_display[7] = Statement("wipe", {}, {"code"})
BY DEF live_totp_display, totp_generate, TryCall, Fallible, Fill, Copy, Wipe, Show

Raw == {{"raw_secret", "pragma"}}

LEMMA DisplayOutline == Outline(live_totp_display, Raw, Raw)
<1> DEFINE s == live_totp_display
           raw == {"raw_secret", "pragma"}
           A == << Raw, Raw, {raw \cup KeyBlocks}, {raw \cup KeyBlocks}, Raw,
                   {{"raw_secret", "code", "pragma"}}, {{"raw_secret", "code", "pragma"}}, Raw >>
<1>1. \A m \in 1..7 : s[m] \in Statements
  BY DisplayStatements, SecretsAreVariables DEF Statement, Statements, Ops, HmacCopies, Copies, Variable
<1>2. s \in Seq(Statements) /\ Len(s) = 7
  <2>1. s \in Seq({s[m] : m \in 1..7})
    BY DEF live_totp_display, totp_generate, TryCall, Fallible, Fill, Copy, Wipe, Show
  <2> QED BY <1>1, <2>1, DisplayStatements
<1>3. /\ Raw \in SUBSET Seen /\ {{"raw_secret", "code", "pragma"}} \in SUBSET Seen
      /\ {raw \cup KeyBlocks} \in SUBSET Seen
  BY SecretsAreVariables DEF Raw, Seen, Seed
<1>4. A \in [1..8 -> SUBSET Seen]
  <2>1. ASSUME NEW T, NEW a \in T, NEW b \in T, NEW c \in T
        PROVE  << a, a, b, b, a, c, c, a >> \in [1..8 -> T]
    OBVIOUS
  <2> QED BY <1>3, <2>1
<1>5. /\ "raw_secret" \notin KeyBlocks /\ "code" \notin KeyBlocks /\ "pragma" \notin KeyBlocks
      /\ KeyBlocks \cap OfMaster = {}
      /\ HmacCopies \subseteq Copies /\ "pragma" \notin HmacCopies
      /\ KeyBlocks \in Held /\ {"code"} \in Held /\ {} \in Held
  BY SecretsAreVariables DEF KeyBlocks, Copies, HmacCopies, OfMaster, Held
<1>6. MasterAt({}) = {"pragma"} /\ {"raw_secret", "code", "pragma"} \cap OfMaster = {"pragma"}
      /\ raw \cap OfMaster = {"pragma"}
  BY DEF MasterAt, OfMaster
<1>7. Apart(raw) /\ Apart(raw \cup KeyBlocks) /\ Apart({"raw_secret", "code", "pragma"})
  BY <1>5, <1>6 DEF Apart
<1>8. /\ (raw \cup KeyBlocks) \ KeyBlocks = raw
      /\ raw \cup {"code"} = {"raw_secret", "code", "pragma"}
      /\ {"raw_secret", "code", "pragma"} \ {"code"} = raw
      /\ HmacCopies \cap {"pragma"} = {} /\ \A h : h \cup {} = h
  BY <1>5
<1>9. /\ A[1] = {raw} /\ A[2] = {raw} /\ A[3] = {raw \cup KeyBlocks} /\ A[4] = {raw \cup KeyBlocks}
      /\ A[5] = {raw} /\ A[6] = {{"raw_secret", "code", "pragma"}}
      /\ A[7] = {{"raw_secret", "code", "pragma"}} /\ A[8] = {raw}
  BY DEF Raw
<1>10. Raw \subseteq A[1] /\ A[8] \subseteq Raw
  OBVIOUS
<1> HIDE DEF A
<1>11. \A h \in A[1] : Fine(s[1], h) /\ Behind(s[1], h) \subseteq A[2]
  <2>1. s[1].op = "call" /\ s[1].fills = {} /\ s[1].zeroes = {}
    BY DisplayStatements DEF Statement
  <2>2. Fine(s[1], raw)
    BY <1>5, <1>6, <1>7, <2>1 DEF Fine
  <2>3. Behind(s[1], raw) = {raw}
    BY <1>8, <2>1 DEF Behind
  <2> QED BY <1>9, <2>2, <2>3
<1>12. \A h \in A[2] : Fine(s[2], h) /\ Behind(s[2], h) \subseteq A[3]
  <2>1. s[2].op = "fill" /\ s[2].fills = KeyBlocks /\ s[2].zeroes = {}
    BY DisplayStatements DEF Statement
  <2>2. Fine(s[2], raw)
    BY <1>5, <1>6, <1>7, <2>1 DEF Fine
  <2>3. Behind(s[2], raw) = {raw \cup KeyBlocks}
    BY <1>8, <2>1 DEF Behind
  <2> QED BY <1>9, <2>2, <2>3
<1>13. \A h \in A[3] : Fine(s[3], h) /\ Behind(s[3], h) \subseteq A[4]
  <2>1. s[3].op = "copy" /\ s[3].fills = HmacCopies /\ s[3].zeroes = {}
    BY DisplayStatements DEF Statement
  <2>2. Fine(s[3], raw \cup KeyBlocks)
    BY <1>5, <1>6, <1>7, <2>1 DEF Fine
  <2>3. Behind(s[3], raw \cup KeyBlocks) = {raw \cup KeyBlocks}
    BY <1>8, <2>1 DEF Behind
  <2> QED BY <1>9, <2>2, <2>3
<1>14. \A h \in A[4] : Fine(s[4], h) /\ Behind(s[4], h) \subseteq A[5]
  <2>1. s[4].op = "wipe" /\ s[4].fills = {} /\ s[4].zeroes = KeyBlocks
    BY DisplayStatements DEF Statement
  <2>2. Fine(s[4], raw \cup KeyBlocks)
    BY <1>5, <1>6, <1>7, <2>1 DEF Fine
  <2>3. Behind(s[4], raw \cup KeyBlocks) = {raw}
    BY <1>8, <2>1 DEF Behind
  <2> QED BY <1>9, <2>2, <2>3
<1>15. \A h \in A[5] : Fine(s[5], h) /\ Behind(s[5], h) \subseteq A[6]
  <2>1. s[5].op = "fill" /\ s[5].fills = {"code"} /\ s[5].zeroes = {}
    BY DisplayStatements DEF Statement
  <2>2. Fine(s[5], raw)
    BY <1>5, <1>6, <1>7, <2>1 DEF Fine
  <2>3. Behind(s[5], raw) = {{"raw_secret", "code", "pragma"}}
    BY <1>8, <2>1 DEF Behind
  <2> QED BY <1>9, <2>2, <2>3
<1>16. \A h \in A[6] : Fine(s[6], h) /\ Behind(s[6], h) \subseteq A[7]
  <2>1. s[6].op = "show" /\ s[6].fills = {} /\ s[6].zeroes = {}
    BY DisplayStatements DEF Statement
  <2>2. Fine(s[6], {"raw_secret", "code", "pragma"})
    BY <1>5, <1>6, <1>7, <2>1 DEF Fine
  <2>3. Behind(s[6], {"raw_secret", "code", "pragma"}) = {{"raw_secret", "code", "pragma"}}
    BY <1>8, <2>1 DEF Behind
  <2> QED BY <1>9, <2>2, <2>3
<1>17. \A h \in A[7] : Fine(s[7], h) /\ Behind(s[7], h) \subseteq A[8]
  <2>1. s[7].op = "wipe" /\ s[7].fills = {} /\ s[7].zeroes = {"code"}
    BY DisplayStatements DEF Statement
  <2>2. Fine(s[7], {"raw_secret", "code", "pragma"})
    BY <1>5, <1>6, <1>7, <2>1 DEF Fine
  <2>3. Behind(s[7], {"raw_secret", "code", "pragma"}) = {raw}
    BY <1>8, <2>1 DEF Behind
  <2> QED BY <1>9, <2>2, <2>3
<1>18. \A h \in A[6] : h \ {"code"} \in A[1]
  BY <1>8, <1>9
<1>19. \A n \in 1..7 : s[n].op = "show" => n = 6
  BY DisplayStatements DEF Statement
<1> HIDE DEF s
<1>20. \A n \in 1..7 : \A h \in A[n] : Fine(s[n], h) /\ Behind(s[n], h) \subseteq A[n + 1]
  BY <1>11, <1>12, <1>13, <1>14, <1>15, <1>16, <1>17
<1>21. IsOutline(A, s, Raw, Raw)
  BY <1>2, <1>4, <1>18, <1>19, <1>10, <1>20 DEF IsOutline
<1> QED BY <1>2, <1>21 DEF Outline, s

-----------------------------------------------------------------------------
(* The outlines of the commands, phase by phase: what is held goes up and   *)
(* down, and is nothing at the end.                                        *)

LEMMA InitOutline == Outline(cmd_init, Nothing, Pragma)
<1> DEFINE Typed == {{"master"}}
           Both == {h \in SUBSET {"master", "confirm"} : "master" \in h}
<1>0. /\ Typed \in SUBSET Seen /\ \A h \in Typed : Apart(h) /\ h \cap OfMaster = MasterAt({"confirm"})
      /\ Both \in SUBSET Seen /\ \A h \in Both : Apart(h)
      /\ {"master", "confirm"} \in Held
  BY SecretsAreVariables DEF Held, Seen, Apart, Field, Seed, OfMaster, MasterAt
<1>1. Outline(TryCall, Nothing, Nothing)
  BY Assertions, TryRule
<1>2. Outline(MayReturn({}), Nothing, Nothing)
  BY Assertions, MayReturnRule DEF Nothing
<1>3. Outline(Prompt("master"), Nothing, Master)
  <2>1. \A h \in Nothing : h \cap OfMaster = MasterAt({"master"}) /\ h \in Master /\ h \cup {"master"} \in Master
    BY DEF Nothing, Master, MasterAt
  <2> QED BY <2>1, Assertions, PromptRule, SecretsAreVariables
<1>4. Outline(ReturnIfEmpty("master", {}), Master, Typed)
  <2>1. \A h \in Master : IF "master" \in h THEN h \in Typed ELSE h \subseteq {} \cup {"pragma"}
    BY DEF Master
  <2> QED BY <1>0, <2>1, Assertions, ReturnIfEmptyRule, SecretsAreVariables
<1>5. Outline(Prompt("confirm"), Typed, Both)
  <2>1. \A h \in Typed : h \in Both /\ h \cup {"confirm"} \in Both
    OBVIOUS
  <2> QED BY <1>0, <2>1, Assertions, PromptRule, SecretsAreVariables
<1>6. Outline(MayReturn({"master", "confirm"}), Both, Both)
  BY <1>0, MayReturnRule
<1>7. Outline(Wipe({"confirm"}), Both, Master)
  <2>1. \A h \in Both : h \ {"confirm"} \in Master
    BY DEF Master
  <2> QED BY <1>0, <2>1, Assertions, WipeRule
<1>8. Outline(OpenDatabase({}), Master, MasterPragma)
  BY Assertions, OpenDatabaseOutline
<1>9. Outline(Fallible({"dk"}, {}), MasterPragma, MasterAndKey)
  <2>1. \A h \in MasterPragma : h \cup {"dk"} \in MasterAndKey
    BY DEF MasterPragma, MasterAndKey, With
  <2> QED BY <2>1, Assertions, FallibleRule
<1>10. Outline(Wipe({"master"}), MasterAndKey, FieldKey)
  <2>1. \A h \in MasterAndKey : h \ {"master"} \in FieldKey
    BY DEF MasterAndKey, FieldKey, With
  <2> QED BY <2>1, Assertions, WipeRule
<1>11. Outline(TryCall, FieldKey, FieldKey)
  BY Assertions, TryRule
<1>12. Outline(Wipe({"dk"}), FieldKey, Pragma)
  <2>1. \A h \in FieldKey : h \ {"dk"} \in Pragma
    BY DEF FieldKey, Pragma, With
  <2> QED BY <2>1, Assertions, WipeRule
<1> HIDE DEF Typed, Both
<1>13. Outline(TryCall \o MayReturn({}) \o Prompt("master") \o ReturnIfEmpty("master", {})
                 \o Prompt("confirm"), Nothing, Both)
  BY <1>1, <1>2, <1>3, <1>4, <1>5, Then5
<1>14. Outline(TryCall \o MayReturn({}) \o Prompt("master") \o ReturnIfEmpty("master", {})
                 \o Prompt("confirm") \o MayReturn({"master", "confirm"}) \o Wipe({"confirm"})
                 \o OpenDatabase({}) \o Fallible({"dk"}, {}), Nothing, MasterAndKey)
  BY <1>6, <1>7, <1>8, <1>9, <1>13, Then5
<1>15. Outline(TryCall \o MayReturn({}) \o Prompt("master") \o ReturnIfEmpty("master", {})
                 \o Prompt("confirm") \o MayReturn({"master", "confirm"}) \o Wipe({"confirm"})
                 \o OpenDatabase({}) \o Fallible({"dk"}, {}) \o Wipe({"master"})
                 \o TryCall \o TryCall \o Wipe({"dk"}), Nothing, Pragma)
  BY <1>10, <1>11, <1>12, <1>14, Then5
<1> QED BY <1>15 DEF cmd_init

\* The field key and the fields of an entry.
Entry == With(Field \cup {"dk"})

LEMMA EntryAssertion ==
  /\ Entry \in SUBSET Seen /\ \A h \in Entry : Apart(h) /\ h \cap OfMaster = {"pragma"}
  /\ FieldKey \subseteq Entry
  /\ \A f \in Field : \A h \in Entry : h \cup {f} \in Entry
<1>1. Field \cup {"dk"} \in Held /\ "master" \notin Field \cup {"dk"} /\ "confirm" \notin Field \cup {"dk"}
  BY SecretsAreVariables DEF Held, Field
<1>2. Entry \in SUBSET Seen /\ \A h \in Entry : Apart(h) /\ h \cap OfMaster = {"pragma"}
  BY <1>1, WithPragma DEF Entry
<1>3. FieldKey \subseteq Entry /\ \A f \in Field : \A h \in Entry : h \cup {f} \in Entry
  BY DEF Entry, FieldKey, With
<1> QED BY <1>2, <1>3

LEMMA FieldKeyReturns == Outline(MayReturn({"dk"}), FieldKey, FieldKey)
<1>1. \A h \in FieldKey : h \subseteq {"dk"} \cup {"pragma"}
  BY DEF FieldKey, With
<1> QED BY <1>1, Assertions, MayReturnRule

LEMMA FieldKeyTries == Outline(TryCall, FieldKey, FieldKey)
BY Assertions, TryRule

LEMMA AddOutline == Outline(cmd_add, Nothing, Pragma)
<1>1. Outline(Ask({}), FieldKey, FieldKey)
  <2>1. \A h \in FieldKey : h \in FieldKey /\ h \cup {} \in FieldKey
    OBVIOUS
  <2> QED BY <2>1, Assertions, AskRule
<1>2. ASSUME NEW f \in Field PROVE Outline(Ask({f}), Entry, Entry)
  BY EntryAssertion, AskRule
<1>3. Outline(Ask({"username"}), FieldKey, Entry)
  BY <1>2, EntryAssertion, Consequence DEF Field
<1>4. Outline(Prompt("password"), Entry, Entry)
  <2>1. "password" \in Variable \ Copies /\ "password" \in Field
    BY SecretsAreVariables DEF Field
  <2>2. MasterAt({"password"}) = {"pragma"}
    BY DEF MasterAt
  <2> QED BY <2>1, <2>2, EntryAssertion, PromptRule
<1>5. Outline(GenerateIfEmpty("password"), Entry, Entry)
  <2>1. "password" \in Variable \ Copies /\ "password" \in Field
    BY SecretsAreVariables DEF Field
  <2> QED BY <2>1, EntryAssertion, GenerateRule
<1>6. Outline(Ask({"url"}), Entry, Entry) /\ Outline(Ask({"notes"}), Entry, Entry)
  BY <1>2 DEF Field
<1>7. Outline(TryCall, Entry, Entry)
  BY Assertions, EntryAssertion, TryRule
<1>8. Outline(Wipe(Field \cup {"dk"}), Entry, Pragma)
  <2>1. \A h \in Entry : h \ (Field \cup {"dk"}) \in Pragma
    BY DEF Entry, Pragma, With, Field
  <2>2. Field \cup {"dk"} \in Held
    BY SecretsAreVariables DEF Held
  <2> QED BY <2>1, <2>2, Assertions, EntryAssertion, WipeRule
<1>9. Outline(TryCall, Pragma, Pragma)
  BY Assertions, TryRule
<1>10. Outline(UnlockKeyed \o Ask({}) \o MayReturn({"dk"}) \o TryCall \o MayReturn({"dk"}),
               Nothing, FieldKey)
  BY <1>1, UnlockKeyedOutline, FieldKeyReturns, FieldKeyTries, Then5
<1>11. Outline(UnlockKeyed \o Ask({}) \o MayReturn({"dk"}) \o TryCall \o MayReturn({"dk"})
                 \o Ask({"username"}) \o Prompt("password") \o GenerateIfEmpty("password")
                 \o Ask({"url"}), Nothing, Entry)
  BY <1>3, <1>4, <1>5, <1>6, <1>10, Then5
<1>12. Outline(UnlockKeyed \o Ask({}) \o MayReturn({"dk"}) \o TryCall \o MayReturn({"dk"})
                 \o Ask({"username"}) \o Prompt("password") \o GenerateIfEmpty("password")
                 \o Ask({"url"}) \o Ask({"notes"}) \o TryCall \o Wipe(Field \cup {"dk"})
                 \o TryCall, Nothing, Pragma)
  BY <1>6, <1>7, <1>8, <1>9, <1>11, Then5
<1> QED BY <1>12 DEF cmd_add

LEMMA GetOutline == Outline(cmd_get, Nothing, Pragma)
<1> DEFINE Fields == With(Field)
           Rows == With(Field \cup {"rows"})
<1>0. /\ Fields \in SUBSET Seen /\ \A h \in Fields : Apart(h)
      /\ Rows \in SUBSET Seen /\ \A h \in Rows : Apart(h)
      /\ Field \in Held /\ {"rows"} \in Held
  <2>1. Field \in Held /\ {"rows"} \in Held /\ Field \cup {"rows"} \in Held
    BY SecretsAreVariables DEF Held
  <2>2. "master" \notin Field \cup {"rows"} /\ "confirm" \notin Field \cup {"rows"}
    BY DEF Field
  <2> QED BY <2>1, <2>2, WithPragma
<1>1. ASSUME NEW f \in Field PROVE Outline(Fallible({f}, {}), Entry, Entry)
  <2>1. {f} \in Held
    BY SecretsAreVariables DEF Held
  <2>2. \A h \in Entry : Apart(h) /\ h \cup {f} \in Entry
    BY EntryAssertion
  <2>3. Entry \in SUBSET Seen /\ {} \in Held
    BY EntryAssertion, Assertions
  <2> QED BY ONLY <2>1, <2>2, <2>3, FallibleRule
<1>2. Outline(Fallible({"username"}, {}), FieldKey, Entry)
  BY <1>1, EntryAssertion, Consequence DEF Field
<1>3. /\ Outline(Fallible({"password"}, {}), Entry, Entry)
      /\ Outline(Fallible({"url"}, {}), Entry, Entry)
      /\ Outline(Fallible({"notes"}, {}), Entry, Entry)
  BY <1>1 DEF Field
<1>4. Outline(Wipe({"dk"}), Entry, Fields)
  <2>1. \A h \in Entry : h \ {"dk"} \in Fields
    BY DEF Entry, With
  <2> QED BY <1>0, <2>1, Assertions, EntryAssertion, WipeRule
<1>5. Outline(Fill({"rows"}), Fields, Rows)
  <2>1. \A h \in Fields : h \cup {"rows"} \in Rows
    BY DEF With
  <2> QED BY <1>0, <2>1, FillRule
<1>6. Outline(Copy({"cell"}), Rows, Rows)
  BY <1>0, CopyRule DEF Copies
<1>7. Outline(Wipe({"rows"}), Rows, Fields)
  <2>1. \A h \in Rows : h \ {"rows"} \in Fields
    BY DEF With
  <2> QED BY <1>0, <2>1, WipeRule
<1>8. Outline(Wipe(Field), Fields, Pragma)
  <2>1. \A h \in Fields : h \ Field \in Pragma
    BY DEF Pragma, With, Field
  <2> QED BY <1>0, <2>1, Assertions, WipeRule
<1> HIDE DEF Fields, Rows
<1>9. Outline(UnlockKeyed \o TryCall \o MayReturn({"dk"}) \o Fallible({"username"}, {})
                \o Fallible({"password"}, {}), Nothing, Entry)
  BY <1>2, <1>3, UnlockKeyedOutline, FieldKeyReturns, FieldKeyTries, Then5
<1>10. Outline(UnlockKeyed \o TryCall \o MayReturn({"dk"}) \o Fallible({"username"}, {})
                 \o Fallible({"password"}, {}) \o Fallible({"url"}, {}) \o Fallible({"notes"}, {})
                 \o Wipe({"dk"}) \o Fill({"rows"}), Nothing, Rows)
  BY <1>3, <1>4, <1>5, <1>9, Then5
<1>11. Outline(UnlockKeyed \o TryCall \o MayReturn({"dk"}) \o Fallible({"username"}, {})
                 \o Fallible({"password"}, {}) \o Fallible({"url"}, {}) \o Fallible({"notes"}, {})
                 \o Wipe({"dk"}) \o Fill({"rows"}) \o Copy({"cell"}) \o Wipe({"rows"})
                 \o Wipe(Field), Nothing, Pragma)
  <2>1. ASSUME NEW a, NEW b, NEW c, NEW d, Outline(a, Nothing, Rows), Outline(b, Rows, Rows),
               Outline(c, Rows, Fields), Outline(d, Fields, Pragma)
        PROVE  Outline(a \o b \o c \o d, Nothing, Pragma)
    BY <2>1, Then3, Then
  <2> QED BY <1>6, <1>7, <1>8, <1>10, <2>1
<1> QED BY <1>11 DEF cmd_get

LEMMA ListOutline == Outline(cmd_list, Nothing, Pragma)
<1>1. Outline(TryCall, Pragma, Pragma)
  BY Assertions, TryRule
<1> QED BY <1>1, UnlockOutline, Then DEF cmd_list

LEMMA DelOutline == Outline(cmd_del, Nothing, Pragma)
<1>1. Outline(TryCall, Pragma, Pragma)
  BY Assertions, TryRule
<1>2. Outline(MayReturn({}), Pragma, Pragma)
  <2>1. \A h \in Pragma : h \subseteq {} \cup {"pragma"}
    BY DEF Pragma, With
  <2> QED BY <2>1, Assertions, MayReturnRule
<1>3. Outline(Ask({}), Pragma, Pragma)
  <2>1. \A h \in Pragma : h \in Pragma /\ h \cup {} \in Pragma
    OBVIOUS
  <2> QED BY <2>1, Assertions, AskRule
<1>4. Outline(Unlock \o TryCall \o MayReturn({}) \o Ask({}) \o MayReturn({}), Nothing, Pragma)
  BY <1>1, <1>2, <1>3, UnlockOutline, Then5
<1> QED BY <1>1, <1>4, Then DEF cmd_del

LEMMA GenOutline == Outline(cmd_gen, Nothing, Nothing)
<1> DEFINE Pw == SUBSET {"pw"}
<1>0. Pw \in SUBSET Seen /\ {"pw"} \in Held /\ \A h \in Pw : Apart(h)
  BY SecretsAreVariables DEF Held, Seen, Apart, Field, Seed
<1>1. \A h \in Nothing : h \cup {"pw"} \in Pw
  BY DEF Nothing
<1>2. \A h \in Pw : h \ {"pw"} \in Nothing
  BY DEF Nothing
<1> HIDE DEF Pw
<1>3. Outline(Fill({"pw"}), Nothing, Pw)
  BY <1>0, <1>1, Assertions, FillRule
<1>4. Outline(Wipe({"pw"}), Pw, Nothing)
  BY <1>0, <1>2, Assertions, WipeRule
<1> QED BY <1>3, <1>4, Then DEF cmd_gen

\* Behind base32_decode the secret is held for sure, as the display needs it.
LEMMA TotpAddOutline == Outline(cmd_totp_add, Nothing, Pragma)
<1> DEFINE Typed == With({"dk", "input"})
           Cleaned == With({"dk", "input", "secret_base32"})
           Text == With({"dk", "secret_base32"})
           Decoded == {h \in With({"dk", "secret_base32", "raw_secret"}) : "raw_secret" \in h}
           Keyed == {h \in With({"dk", "raw_secret"}) : "raw_secret" \in h}
<1> DEFINE All == {"dk", "input", "secret_base32", "raw_secret"}
<1>0. /\ Typed \in SUBSET Seen /\ \A h \in Typed : Apart(h)
      /\ Cleaned \in SUBSET Seen /\ \A h \in Cleaned : Apart(h)
      /\ Text \in SUBSET Seen /\ \A h \in Text : Apart(h)
      /\ Decoded \in SUBSET Seen /\ \A h \in Decoded : Apart(h)
      /\ Keyed \in SUBSET Seen /\ \A h \in Keyed : Apart(h)
      /\ Raw \in SUBSET Seen /\ \A h \in Raw : Apart(h)
      /\ SUBSET All \subseteq Held
  <2>1. SUBSET All \subseteq Held
    BY SecretsAreVariables DEF Held, Seed
  <2>2. With(All) \in SUBSET Seen /\ \A h \in With(All) : Apart(h)
    BY <2>1, WithPragma
  <2>3. /\ Typed \subseteq With(All) /\ Cleaned \subseteq With(All) /\ Text \subseteq With(All)
        /\ Decoded \subseteq With(All) /\ Keyed \subseteq With(All) /\ Raw \subseteq With(All)
    BY DEF With, Raw
  <2> QED BY <2>1, <2>2, <2>3
<1>00. /\ {"dk"} \in Held /\ {"input"} \in Held /\ {"secret_base32"} \in Held /\ {"raw_secret"} \in Held
       /\ {"dk", "input"} \in Held /\ {"dk", "secret_base32", "input"} \in Held
       /\ "input" \in Variable \ Copies
  BY SecretsAreVariables DEF Held, Seed
<1>1. Outline(Ask({"input"}), FieldKey, Typed)
  <2>1. \A h \in FieldKey : h \in Typed /\ h \cup {"input"} \in Typed
    BY DEF FieldKey, With
  <2>2. {"input"} \in SUBSET (Field \cup Seed)
    BY DEF Seed
  <2> QED BY <1>0, <2>1, <2>2, Assertions, AskRule
<1>2. Outline(ReturnIfEmpty("input", {"dk"}), Typed, Typed)
  <2>1. \A h \in Typed : IF "input" \in h THEN h \in Typed ELSE h \subseteq {"dk"} \cup {"pragma"}
    BY DEF With
  <2> QED BY <1>0, <1>00, <2>1, ReturnIfEmptyRule
<1>3. Outline(RefuseUri, Typed, Typed)
  <2>1. \A h \in Typed : h \subseteq {"dk", "input"} \cup {"pragma"}
    BY DEF With
  <2> QED BY <1>0, <1>00, <2>1, MayReturnRule DEF RefuseUri
<1>4. Outline(Fill({"secret_base32"}), Typed, Cleaned)
  <2>1. \A h \in Typed : h \cup {"secret_base32"} \in Cleaned
    BY DEF With
  <2> QED BY <1>0, <1>00, <2>1, FillRule
<1>5. Outline(Copy({"base32_strings"}), Cleaned, Cleaned)
  BY <1>0, CopyRule DEF Copies
<1>6. Outline(MayReturn({"dk", "secret_base32", "input"}), Cleaned, Cleaned)
  <2>1. \A h \in Cleaned : h \subseteq {"dk", "secret_base32", "input"} \cup {"pragma"}
    BY DEF With
  <2> QED BY <1>0, <1>00, <2>1, MayReturnRule
<1>7. Outline(Wipe({"input"}), Cleaned, Text)
  <2>1. \A h \in Cleaned : h \ {"input"} \in Text
    BY DEF With
  <2> QED BY <1>0, <1>00, <2>1, WipeRule
<1>8. Outline(TryCall, Text, Text) /\ Outline(TryCall, Keyed, Keyed)
  BY <1>0, TryRule
<1>9. Outline(base32_decode, Text, Decoded)
  <2>1. \A h \in Text : h \cup {"raw_secret"} \in Decoded
    BY DEF With
  <2> QED BY <1>0, <1>00, <2>1, DecodeOutline
<1>10. Outline(Wipe({"secret_base32"}), Decoded, Keyed)
  <2>1. \A h \in Decoded : h \ {"secret_base32"} \in Keyed
    BY DEF With
  <2> QED BY <1>0, <1>00, <2>1, WipeRule
<1>11. Outline(StoreTotp, Keyed, Raw)
  <2>1. \A h \in Keyed : h \ {"dk"} \in Raw
    BY DEF Raw, With
  <2>2. Outline(Wipe({"dk"}), Keyed, Raw)
    BY <1>0, <1>00, <2>1, WipeRule
  <2> QED BY <1>8, <2>2, Then DEF StoreTotp
<1>12. Outline(Wipe({"raw_secret"}), Raw, Pragma)
  <2>1. \A h \in Raw : h \ {"raw_secret"} \in Pragma
    BY DEF Raw, Pragma, With
  <2> QED BY <1>0, <1>00, <2>1, Assertions, WipeRule
<1> HIDE DEF All, Typed, Cleaned, Text, Decoded, Keyed
<1>13. Outline(UnlockKeyed \o TryCall \o MayReturn({"dk"}) \o TryCall \o MayReturn({"dk"}),
               Nothing, FieldKey)
  BY UnlockKeyedOutline, FieldKeyReturns, FieldKeyTries, Then5
<1>14. Outline(UnlockKeyed \o TryCall \o MayReturn({"dk"}) \o TryCall \o MayReturn({"dk"})
                 \o Ask({"input"}) \o ReturnIfEmpty("input", {"dk"}) \o RefuseUri
                 \o Fill({"secret_base32"}), Nothing, Cleaned)
  BY <1>1, <1>2, <1>3, <1>4, <1>13, Then5
<1>15. Outline(UnlockKeyed \o TryCall \o MayReturn({"dk"}) \o TryCall \o MayReturn({"dk"})
                 \o Ask({"input"}) \o ReturnIfEmpty("input", {"dk"}) \o RefuseUri
                 \o Fill({"secret_base32"}) \o Copy({"base32_strings"})
                 \o MayReturn({"dk", "secret_base32", "input"}) \o Wipe({"input"})
                 \o TryCall, Nothing, Text)
  BY <1>5, <1>6, <1>7, <1>8, <1>14, Then5
<1>16. Outline(UnlockKeyed \o TryCall \o MayReturn({"dk"}) \o TryCall \o MayReturn({"dk"})
                 \o Ask({"input"}) \o ReturnIfEmpty("input", {"dk"}) \o RefuseUri
                 \o Fill({"secret_base32"}) \o Copy({"base32_strings"})
                 \o MayReturn({"dk", "secret_base32", "input"}) \o Wipe({"input"})
                 \o TryCall \o base32_decode \o Wipe({"secret_base32"})
                 \o StoreTotp \o live_totp_display, Nothing, Raw)
  BY <1>9, <1>10, <1>11, <1>15, DisplayOutline, Then5
<1> QED BY <1>12, <1>16, Then DEF cmd_totp_add

LEMMA TotpOutline == Outline(cmd_totp, Nothing, Pragma)
<1> DEFINE Keyed == With({"dk", "secret_base32"})
           Text == With({"secret_base32"})
           Decoded == {h \in With({"secret_base32", "raw_secret"}) : "raw_secret" \in h}
<1> DEFINE All == {"dk", "secret_base32", "raw_secret"}
<1>0. /\ Keyed \in SUBSET Seen /\ \A h \in Keyed : Apart(h)
      /\ Text \in SUBSET Seen /\ \A h \in Text : Apart(h)
      /\ Decoded \in SUBSET Seen /\ \A h \in Decoded : Apart(h)
      /\ Raw \in SUBSET Seen /\ \A h \in Raw : Apart(h)
  <2>1. All \in Held
    BY SecretsAreVariables DEF Held, Seed
  <2>2. With(All) \in SUBSET Seen /\ \A h \in With(All) : Apart(h)
    BY <2>1, WithPragma
  <2>3. /\ Keyed \subseteq With(All) /\ Text \subseteq With(All)
        /\ Decoded \subseteq With(All) /\ Raw \subseteq With(All)
    BY DEF With, Raw
  <2> QED BY <2>2, <2>3
<1>00. {"dk"} \in Held /\ {} \in Held /\ {"secret_base32"} \in Held /\ {"raw_secret"} \in Held
  BY SecretsAreVariables DEF Held, Seed
<1>1. Outline(Fallible({"secret_base32"}, {}), FieldKey, Keyed)
  <2>1. \A h \in FieldKey : h \cup {"secret_base32"} \in Keyed
    BY DEF FieldKey, With
  <2> QED BY <1>0, <1>00, <2>1, Assertions, FallibleRule
<1>2. Outline(Wipe({"dk"}), Keyed, Text)
  <2>1. \A h \in Keyed : h \ {"dk"} \in Text
    BY DEF With
  <2> QED BY <1>0, <1>00, <2>1, WipeRule
<1>3. Outline(base32_decode, Text, Decoded)
  <2>1. \A h \in Text : h \cup {"raw_secret"} \in Decoded
    BY DEF With
  <2> QED BY <1>0, <1>00, <2>1, DecodeOutline
<1>4. Outline(Wipe({"secret_base32"}), Decoded, Raw)
  <2>1. \A h \in Decoded : h \ {"secret_base32"} \in Raw
    BY DEF Raw, With
  <2> QED BY <1>0, <1>00, <2>1, WipeRule
<1>5. Outline(TryCall, Raw, Raw)
  BY <1>0, <1>00, TryRule
<1>6. Outline(Wipe({"raw_secret"}), Raw, Pragma)
  <2>1. \A h \in Raw : h \ {"raw_secret"} \in Pragma
    BY DEF Raw, Pragma, With
  <2> QED BY <1>0, <1>00, <2>1, Assertions, WipeRule
<1> HIDE DEF All, Keyed, Text, Decoded
<1>7. Outline(UnlockKeyed \o TryCall \o MayReturn({"dk"}) \o Fallible({"secret_base32"}, {})
                \o Wipe({"dk"}), Nothing, Text)
  BY <1>1, <1>2, UnlockKeyedOutline, FieldKeyReturns, FieldKeyTries, Then5
<1>8. Outline(UnlockKeyed \o TryCall \o MayReturn({"dk"}) \o Fallible({"secret_base32"}, {})
                \o Wipe({"dk"}) \o base32_decode \o Wipe({"secret_base32"})
                \o TryCall \o live_totp_display, Nothing, Raw)
  BY <1>3, <1>4, <1>5, <1>7, DisplayOutline, Then5
<1> QED BY <1>6, <1>8, Then DEF cmd_totp

\* Every command has an outline, from nothing seen to no variable held.
Returned == SUBSET {"pragma"}

LEMMA Outlined ==
  ASSUME NEW c \in DOMAIN Body
  PROVE  Outline(Body[c], Nothing, Returned)
<1>1. Nothing \subseteq Returned /\ Pragma \subseteq Returned
  BY DEF Nothing, Pragma, With, Returned
<1>2. Outline(Body[c], Nothing, Nothing) \/ Outline(Body[c], Nothing, Pragma)
  BY Commands, InitOutline, AddOutline, GetOutline, ListOutline, DelOutline, GenOutline,
     TotpOutline, TotpAddOutline DEF Body
<1> QED BY <1>1, <1>2, Consequence

-----------------------------------------------------------------------------
(* Commands keep to their outlines.                                        *)

\* Of the command that runs is seen what its outline says.
OnOutline ==
  /\ at \in 1..(Len(Body[called.cmd]) + 1)
  /\ \E A : IsOutline(A, Body[called.cmd], Nothing, Returned) /\ seen \in A[at]

SecretsInv ==
  /\ at \in Nat /\ held \in Held /\ left \in SUBSET Variable /\ echo \in BOOLEAN
  /\ pc \in {"boot", "scan"} => at = 1 /\ held = {} /\ left = {} /\ echo
  /\ pc = "command" => OnOutline /\ left \subseteq Copies /\ (echo \/ At("prompt"))
  /\ pc = "ended" =>
       /\ Apart(Memory)
       /\ status = "returned" => left \subseteq Copies
       /\ echo \/ status \in {"killed", "crashed"}

LEMMA BodyLength ==
  ASSUME NEW c \in DOMAIN Body
  PROVE  Body[c] \in Seq(Statements) /\ Len(Body[c]) \in Nat
BY Outlined, LenProperties DEF Outline

\* What lies in memory of the master password and of data is seen.
LEMMA SeenInMemory ==
  ASSUME held \in Held, left \subseteq Copies
  PROVE  /\ Memory \cap OfMaster = seen \cap OfMaster
         /\ Memory \cap (Field \cup Seed) = seen \cap (Field \cup Seed)
         /\ held = seen \ {"pragma"}
BY DEF Memory, seen, Held, OfMaster, Copies, HmacCopies, Field, Seed

\* What the outline gives for the statement that is next.
LEMMA NextStatement ==
  ASSUME SecretsInv, CallInv, InCommand
  PROVE  /\ called.cmd \in DOMAIN Body /\ Current \in Statements
         /\ at \in 1..Len(Body[called.cmd]) /\ Len(Body[called.cmd]) \in Nat
         /\ Fine(Current, seen)
         /\ ~At("prompt") => echo = TRUE
<1>1. pc = "command" /\ at <= Len(Body[called.cmd]) /\ OnOutline /\ (echo \/ At("prompt"))
  BY DEF InCommand, SecretsInv
<1>2. called.cmd \in DOMAIN Body
  BY <1>1 DEF CallInv, Calls
<1>3. Body[called.cmd] \in Seq(Statements) /\ Len(Body[called.cmd]) \in Nat
  BY <1>2, BodyLength
<1>4. at \in 1..Len(Body[called.cmd])
  BY <1>1, <1>3 DEF OnOutline
<1>5. Current \in Statements
  BY <1>3, <1>4, ElementOfSeq DEF Current
<1>6. Fine(Current, seen)
  BY <1>1, <1>4 DEF OnOutline, IsOutline, Current
<1>7. echo \in BOOLEAN
  BY DEF SecretsInv
<1> QED BY <1>1, <1>2, <1>3, <1>4, <1>5, <1>6, <1>7

\* A step to the next statement stays on the outline.
LEMMA StepOn ==
  ASSUME SecretsInv, CallInv, InCommand, UNCHANGED line, at' = at + 1,
         seen' \in Behind(Current, seen), held' \in Held, left' \subseteq Copies, echo' = TRUE
  PROVE  SecretsInv'
<1>1. /\ at \in 1..Len(Body[called.cmd]) /\ Len(Body[called.cmd]) \in Nat
      /\ pc = "command" /\ pc' = pc /\ called' = called
  BY NextStatement DEF InCommand, line
<1>2. PICK A : IsOutline(A, Body[called.cmd], Nothing, Returned) /\ seen \in A[at]
  BY <1>1 DEF SecretsInv, OnOutline
<1>3. seen' \in A[at'] /\ at' \in 1..(Len(Body[called.cmd]) + 1)
  BY <1>1, <1>2 DEF IsOutline, Current
<1>4. OnOutline'
  BY <1>1, <1>2, <1>3 DEF OnOutline
<1>5. left' \in SUBSET Variable
  BY DEF Variable
<1>6. at' \in Nat
  BY <1>1
<1> QED BY <1>1, <1>4, <1>5, <1>6 DEF SecretsInv

\* A way out that leaves no more than was held.
LEMMA StepOut ==
  ASSUME SecretsInv, CallInv, InCommand, NEW how, NEW zeroes, Leave(how, zeroes), echo = TRUE,
         how = "returned" => held \subseteq zeroes, zeroes \subseteq Variable \ Copies
  PROVE  SecretsInv'
<1>1. /\ pc' = "ended" /\ status' = how /\ held' = {} /\ left' = left \cup (held \ zeroes)
      /\ at' = at /\ echo' = TRUE
  BY DEF Leave, Exit
<1>2. left \subseteq Copies /\ held \in Held /\ at \in Nat /\ Apart(seen)
  BY NextStatement DEF SecretsInv, InCommand, Fine
<1>3. Apart(Memory)'
  <2>1. SUFFICES ASSUME Memory' \cap (Field \cup Seed) # {}
                 PROVE  Memory' \cap OfMaster = {"pragma"}
    BY DEF Apart
  <2>2. Memory' = left \cup (held \ zeroes)
    BY <1>1 DEF Memory
  <2>3. seen \cap (Field \cup Seed) # {}
    BY <1>2, <2>1, <2>2, SeenInMemory DEF Memory
  <2>4. Memory \cap OfMaster = {"pragma"}
    BY <1>2, <2>3, SeenInMemory DEF Apart
  <2>5. "pragma" \in left
    BY <1>2, <2>4 DEF Memory, Held, Copies, OfMaster
  <2> QED BY <2>2, <2>4, <2>5 DEF Memory, OfMaster
<1>4. left' \in SUBSET Variable /\ held' \in Held
  BY <1>1, <1>2 DEF Held, Variable
<1> QED BY <1>1, <1>2, <1>3, <1>4 DEF SecretsInv

LEMMA MainStops ==
  ASSUME MainStep
  PROVE  pc \in {"boot", "scan"} /\ pc' \in {"scan", "command", "ended"}
BY DEF MainStep, Boot, ScanPath, ScanHelp, ScanWord, Refuse, DispatchSimple, DispatchOnEntry,
       DispatchTotp, DispatchGen, DispatchUnknown, Exit, Call, Scanning, Scanned, Admitted

LEMMA StepMain ==
  ASSUME SecretsInv, CallInv', MainStep, UNCHANGED <<at, held, left, echo>>
  PROVE  SecretsInv'
<1>1. at' = 1 /\ held' = {} /\ left' = {} /\ echo' = TRUE
  BY MainStops DEF SecretsInv
<1>2. pc' = "command" => OnOutline'
  <2> SUFFICES ASSUME pc' = "command" PROVE OnOutline'
    OBVIOUS
  <2>1. PICK c \in DOMAIN Body : c = called'.cmd
    BY DEF CallInv, Calls
  <2>2. PICK A : IsOutline(A, Body[c], Nothing, Returned)
    BY <2>1, Outlined DEF Outline
  <2>3. seen' \in A[at']
    BY <1>1, <2>2 DEF IsOutline, Nothing, seen
  <2>4. at' \in 1..(Len(Body[c]) + 1)
    BY <1>1, <2>1, BodyLength
  <2> QED BY <2>1, <2>2, <2>3, <2>4 DEF OnOutline
<1>3. Apart(Memory)'
  BY <1>1 DEF Apart, Memory
<1>4. {} \in Held
  BY DEF Held
<1> QED BY <1>1, <1>2, <1>3, <1>4, MainStops DEF SecretsInv

LEMMA StepRedraw ==
  ASSUME SecretsInv, CallInv, Redraw
  PROVE  SecretsInv'
<1>1. InCommand /\ Current.op = "show" /\ ~At("prompt")
  BY DEF Redraw, At
<1>2. /\ at \in 1..Len(Body[called.cmd]) /\ Len(Body[called.cmd]) \in Nat
      /\ pc = "command" /\ pc' = pc /\ called' = called /\ echo = TRUE /\ echo' = TRUE
  BY <1>1, NextStatement DEF InCommand, line, Redraw
<1>3. left' \subseteq Copies
  BY <1>2 DEF Redraw, SecretsInv, Copies
<1>4. CASE held' = held /\ at' = at + 1
  <2>1. seen' = seen
    BY <1>4 DEF Redraw, seen
  <2>2. seen' \in Behind(Current, seen)
    BY <1>1, <2>1 DEF Behind
  <2>3. held' \in Held
    BY <1>4 DEF SecretsInv
  <2> QED BY <1>1, <1>2, <1>3, <1>4, <2>2, <2>3, StepOn DEF Redraw
<1>5. CASE (held' = held /\ at' = at) \/ (held' = held \ {"code"} /\ at' = at - 5)
  <2>1. PICK A : IsOutline(A, Body[called.cmd], Nothing, Returned) /\ seen \in A[at]
    BY <1>2 DEF SecretsInv, OnOutline
  <2>2. at - 5 \in 1..at /\ seen \ {"code"} \in A[at - 5]
    BY <1>1, <1>2, <2>1 DEF IsOutline, Current
  <2>3. at' \in 1..(Len(Body[called.cmd]) + 1) /\ seen' \in A[at']
    <3>1. CASE held' = held /\ at' = at
      <4>1. seen' = seen
        BY <3>1 DEF Redraw, seen
      <4> QED BY <1>2, <2>1, <3>1, <4>1
    <3>2. CASE held' = held \ {"code"} /\ at' = at - 5
      <4>1. seen' = seen \ {"code"}
        BY <3>2 DEF Redraw, seen
      <4> QED BY <1>2, <2>2, <3>2, <4>1
    <3> QED BY <1>5, <3>1, <3>2
  <2>4. held' \in Held
    BY <1>5 DEF SecretsInv, Held
  <2>5. OnOutline'
    BY <1>2, <2>1, <2>3 DEF OnOutline
  <2>6. left' \in SUBSET Variable /\ at' \in Nat
    BY <1>2, <1>3, <2>3 DEF Variable
  <2> QED BY <1>2, <1>3, <2>4, <2>5, <2>6 DEF SecretsInv
<1> QED BY <1>4, <1>5, DisplayStatements DEF Redraw

LEMMA StepSecrets == SecretsInv /\ CallInv /\ CallInv' /\ [Next]_vars => SecretsInv'
<1> SUFFICES ASSUME SecretsInv, CallInv, CallInv', [Next]_vars PROVE SecretsInv'
  OBVIOUS
<1>1. CASE UNCHANGED vars
  BY <1>1 DEF vars, line, parse, SecretsInv, OnOutline, At, InCommand, Current, Memory, seen
<1>2. CASE MainStep /\ UNCHANGED <<at, held, left, echo>>
  BY <1>2, StepMain
<1>3. CASE StartPrompt
  BY <1>3 DEF StartPrompt, line, parse, SecretsInv, OnOutline, At, InCommand, Current, Memory, seen
<1>4. CASE EndPrompt \/ Answer
  <2>1. /\ InCommand /\ Current.op \in {"prompt", "ask"} /\ at' = at + 1 /\ UNCHANGED <<line, left>>
        /\ held' = held \/ held' = held \cup Current.fills
    BY <1>4 DEF EndPrompt, Answer, Continue, At
  <2>2. Current.fills \in Held /\ held \in Held /\ left \subseteq Copies
    BY <2>1, NextStatement DEF Fine, SecretsInv, InCommand
  <2>3. held' \in Held
    BY <2>1, <2>2 DEF Held
  <2>4. seen' = seen \/ seen' = seen \cup Current.fills
    BY <2>1 DEF seen
  <2>5. seen' \in Behind(Current, seen)
    BY <2>1, <2>4 DEF Behind
  <2>6. echo' = TRUE
    BY <1>4, <2>1, NextStatement DEF EndPrompt, Answer, Continue, At
  <2> QED BY <2>1, <2>2, <2>3, <2>5, <2>6, StepOn
<1>5. CASE Run
  <2>1. InCommand /\ ~At("prompt") /\ at' = at + 1 /\ UNCHANGED <<line, left, echo>>
    BY <1>5 DEF Run, Continue, At
  <2>2. /\ held \in Held /\ left \subseteq Copies /\ Fine(Current, seen) /\ echo = TRUE
        /\ Current.zeroes \in Held
    BY <2>1, NextStatement DEF SecretsInv, InCommand, Statements, Held
  <2>3. held' \in Held /\ seen' \in Behind(Current, seen)
    <3>1. CASE (At("fill") \/ At("call")) /\ held' = held \cup Current.fills
      <4>1. Current.op \in {"fill", "call"} /\ Current.fills \in Held
        BY <2>2, <3>1 DEF At, Fine
      <4>2. held' \in Held
        BY <2>2, <3>1, <4>1 DEF Held
      <4>3. seen' = seen \cup Current.fills
        BY <2>1, <3>1 DEF seen
      <4> QED BY <4>1, <4>2, <4>3 DEF Behind
    <3>2. CASE At("wipe") /\ held' = held \ Current.zeroes
      <4>1. held' \in Held
        BY <2>2, <3>2 DEF Held
      <4>2. "pragma" \notin Current.zeroes
        BY <2>2 DEF Held, Copies
      <4>3. seen' = seen \ Current.zeroes
        BY <2>1, <3>2, <4>2 DEF seen
      <4> QED BY <3>2, <4>1, <4>3 DEF Behind, At
    <3>3. CASE At("may_return") /\ held' = held
      <4>1. seen' = seen
        BY <2>1, <3>3 DEF seen
      <4> QED BY <2>2, <3>3, <4>1 DEF Behind, At
    <3>4. CASE At("return_if_empty") /\ Current.fills \subseteq held /\ held' = held
      <4>1. seen' = seen /\ Current.fills \subseteq seen
        BY <2>1, <3>4 DEF seen
      <4> QED BY <2>2, <3>4, <4>1 DEF Behind, At
    <3> QED BY <1>5, <3>1, <3>2, <3>3, <3>4 DEF Run, Continue
  <2> QED BY <2>1, <2>2, <2>3, StepOn
<1>6. CASE LeaveCopies
  <2>1. InCommand /\ ~At("prompt") /\ at' = at + 1 /\ UNCHANGED <<line, echo>>
    BY <1>6 DEF LeaveCopies, At
  <2>2. held \in Held /\ left \subseteq Copies /\ Fine(Current, seen) /\ echo = TRUE
    BY <2>1, NextStatement DEF SecretsInv, InCommand
  <2>3. held' \in Held /\ left' \subseteq Copies /\ seen' \in Behind(Current, seen)
    <3>1. CASE At("copy") /\ held' = held /\ left' = left \cup Current.fills
      <4>1. left' \subseteq Copies
        BY <2>2, <3>1 DEF At, Fine
      <4>2. seen' = seen \cup (Current.fills \cap {"pragma"})
        BY <3>1 DEF seen
      <4> QED BY <2>2, <3>1, <4>1, <4>2 DEF Behind, At
    <3>2. CASE /\ At("generate_if_empty") /\ held' = held \cup Current.fills
               /\ left' \in {left, left \cup {"message"}}
      <4>1. held' \in Held
        BY <2>2, <3>2 DEF At, Fine, Held
      <4>2. left' \subseteq Copies
        BY <2>2, <3>2 DEF Copies
      <4>3. left' \cap {"pragma"} = left \cap {"pragma"}
        BY <3>2
      <4>4. seen' = seen \cup Current.fills
        BY <3>2, <4>3 DEF seen
      <4> QED BY <3>2, <4>1, <4>2, <4>4 DEF Behind, At
    <3>3. \/ At("copy") /\ held' = held /\ left' = left \cup Current.fills
          \/ At("generate_if_empty") /\ held' = held \cup Current.fills
               /\ left' \in {left, left \cup {"message"}}
      BY <1>6 DEF LeaveCopies
    <3> QED BY <3>1, <3>2, <3>3
  <2> QED BY <2>1, <2>2, <2>3, StepOn
<1>7. CASE Redraw
  BY <1>7, StepRedraw
<1>8. CASE ReturnEarly
  <2>1. InCommand /\ ~At("prompt") /\ Leave("returned", Current.zeroes)
    BY <1>8 DEF ReturnEarly, At
  <2>2. /\ Fine(Current, seen) /\ echo = TRUE /\ held \in Held /\ left \subseteq Copies
        /\ Current.zeroes \subseteq Variable \ Copies
    BY <2>1, NextStatement DEF SecretsInv, InCommand, Statements
  <2>3. held = seen \ {"pragma"}
    BY <2>2, SeenInMemory
  <2>4. held \subseteq Current.zeroes
    <3>1. CASE At("may_return")
      BY <2>2, <2>3, <3>1 DEF At, Fine
    <3>2. CASE At("return_if_empty") /\ ~(Current.fills \subseteq held)
      <4>1. Current.fills \in Held
        BY <2>2, <3>2 DEF At, Fine
      <4>2. "pragma" \notin Current.fills
        BY <4>1 DEF Held, Copies
      <4>3. ~(Current.fills \subseteq seen)
        BY <2>3, <3>2, <4>2
      <4> QED BY <2>2, <2>3, <3>2, <4>3 DEF At, Fine
    <3> QED BY <1>8, <3>1, <3>2 DEF ReturnEarly
  <2> QED BY <2>1, <2>2, <2>4, StepOut
<1>9. CASE Return
  <2>1. /\ pc = "command" /\ at > Len(Body[called.cmd]) /\ pc' = "ended" /\ status' = "returned"
        /\ left' = left \cup (held \ {}) /\ held' = {} /\ at' = at /\ echo' = echo
    BY <1>9 DEF Return, Leave, Exit
  <2>2. called.cmd \in DOMAIN Body
    BY <2>1 DEF CallInv, Calls
  <2>3. Len(Body[called.cmd]) \in Nat
    BY <2>2, BodyLength
  <2>4. at = Len(Body[called.cmd]) + 1 /\ ~At("prompt")
    BY <2>1, <2>3 DEF SecretsInv, OnOutline, At, InCommand
  <2>5. held = {}
    <3>1. seen \subseteq {"pragma"} /\ held \in Held /\ left \subseteq Copies
      BY <2>1, <2>4 DEF SecretsInv, OnOutline, IsOutline, Returned
    <3> QED BY <3>1, SeenInMemory
  <2>6. left' \subseteq Copies /\ echo' = TRUE /\ held' = {}
    BY <2>1, <2>4, <2>5 DEF SecretsInv
  <2>7. Apart(Memory)' /\ held' \in Held /\ left' \in SUBSET Variable
    BY <2>6 DEF Apart, Memory, Held, Variable, Copies, HmacCopies, Field, Seed
  <2> QED BY <2>1, <2>6, <2>7 DEF SecretsInv
<1>10. CASE Throw
  <2>1. InCommand /\ ~At("prompt") /\ Leave("caught", Current.zeroes)
    BY <1>10 DEF Throw, At
  <2>2. Current.zeroes \subseteq Variable \ Copies /\ echo = TRUE
    BY <2>1, NextStatement DEF Statements
  <2> QED BY <2>1, <2>2, StepOut
<1>11. CASE Crash \/ Interrupt
  <2>1. /\ InCommand /\ pc' = "ended" /\ status' \in {"killed", "crashed"}
        /\ UNCHANGED <<at, held, left, echo>>
    BY <1>11 DEF Crash, Interrupt, Exit
  <2>2. Apart(seen) /\ held \in Held /\ left \subseteq Copies
    BY <2>1, NextStatement DEF Fine, SecretsInv, InCommand
  <2>3. Apart(Memory)
    BY <2>2, SeenInMemory DEF Apart
  <2>4. Memory' = Memory
    BY <2>1 DEF Memory
  <2> QED BY <2>1, <2>3, <2>4 DEF SecretsInv, Apart
<1> QED BY <1>1, <1>2, <1>3, <1>4, <1>5, <1>6, <1>7, <1>8, <1>9, <1>10, <1>11 DEF Next

-----------------------------------------------------------------------------
(* What the invariant gives.                                               *)

LEMMA InitSecrets == Init => SecretsInv
<1> SUFFICES ASSUME Init PROVE SecretsInv
  OBVIOUS
<1>1. at = 1 /\ held = {} /\ left = {} /\ echo = TRUE
  BY DEF Init
<1>2. pc = "boot"
  BY DEF Init, LineInit
<1> QED BY <1>1, <1>2 DEF SecretsInv, Held

SecretsInvariant == LineInvariant /\ SecretsInv

LEMMA SecretsInvariance == Spec => []SecretsInvariant
<1>1. Init => LineInvariant
  BY InitLine, InitWords, InitCall DEF LineInvariant
<1>2. LineInvariant /\ [Next]_vars => LineInvariant'
  BY StepLine, StepWords, StepCall DEF LineInvariant
<1>3. Init => SecretsInvariant
  BY <1>1, InitSecrets DEF SecretsInvariant
<1>4. SecretsInvariant /\ [Next]_vars => SecretsInvariant'
  BY <1>2, StepSecrets DEF SecretsInvariant, LineInvariant
<1> QED BY <1>3, <1>4, PTL DEF Spec

\* While a command runs, no variable of it is lost, and what is in memory suits
\* the statement that is next.
LEMMA WhileRunning ==
  ASSUME SecretsInvariant, pc = "command"
  PROVE  /\ held \in Held /\ left \subseteq Copies /\ Apart(Memory)
         /\ InCommand => Fine(Current, seen)
<1>1. CallInv /\ SecretsInv /\ called.cmd \in DOMAIN Body
  BY DEF SecretsInvariant, LineInvariant, CallInv, Calls
<1>2. held \in Held /\ left \subseteq Copies /\ OnOutline
  BY <1>1 DEF SecretsInv
<1>3. InCommand => Fine(Current, seen)
  BY <1>1, NextStatement
<1>4. ~InCommand => held = {}
  <2> SUFFICES ASSUME ~InCommand PROVE held = {}
    OBVIOUS
  <2>1. at = Len(Body[called.cmd]) + 1
    BY <1>1, <1>2, BodyLength DEF InCommand, OnOutline
  <2>2. seen \subseteq {"pragma"}
    BY <1>2, <2>1 DEF OnOutline, IsOutline, Returned
  <2> QED BY <1>2, <2>2, SeenInMemory
<1>5. Apart(Memory)
  <2>1. CASE InCommand
    BY <1>2, <1>3, <2>1, SeenInMemory DEF Fine, Apart
  <2>2. CASE ~InCommand
    BY <1>2, <1>4, <2>2 DEF Apart, Memory, Copies, HmacCopies, Field, Seed
  <2> QED BY <2>1, <2>2
<1> QED BY <1>2, <1>3, <1>5

\* Types, for all words and any number of arguments.
THEOREM SecretsTyped == Spec => []TypeOK
<1>1. SecretsInvariant => TypeOK
  <2> SUFFICES ASSUME SecretsInvariant PROVE TypeOK
    OBVIOUS
  <2>1. LineInv /\ WordsInv /\ CallInv /\ SecretsInv
    BY DEF SecretsInvariant, LineInvariant
  <2>2. args \in Seq(Word) /\ i \in 1..(MaxArgs + 1)
    <3>1. args \in Seq(Word) /\ i \in 1..(Len(args) + 1)
      BY <2>1 DEF LineInv
    <3>2. Len(args) <= MaxArgs
      BY <2>1 DEF CallInv
    <3>3. Len(args) \in Nat
      BY <3>1, LenProperties
    <3> QED BY <3>1, <3>2, <3>3, MaxArgsAssumption
  <2>3. called \in [cmd : DOMAIN Body \cup {"none"}, name : Word \cup {"", Garbage},
                    length : {0} \cup 10..128]
    <3>1. CASE called \in Calls
      BY <3>1 DEF Calls
    <3>2. CASE called = Nobody
      BY <3>2 DEF Nobody
    <3>3. called \in Calls \/ called = Nobody
      BY <2>1 DEF CallInv
    <3> QED BY <3>1, <3>2, <3>3
  <2>4. held \subseteq Variable \ Copies /\ left \subseteq Variable /\ at \in Nat
    BY <2>1 DEF SecretsInv, Held
  <2>5. pc = "command" => at <= Len(Body[called.cmd]) + 1
    <3> SUFFICES ASSUME pc = "command" PROVE at <= Len(Body[called.cmd]) + 1
      OBVIOUS
    <3>1. called.cmd \in DOMAIN Body /\ OnOutline
      BY <2>1 DEF CallInv, Calls, SecretsInv
    <3> QED BY <3>1, BodyLength DEF OnOutline
  <2>6. db_path \in Word \cup {"", DefaultPath} /\ command \in Word \cup {""} /\ cmd_args \in Seq(Word)
    BY <2>1 DEF CallInv, WordsInv
  <2>7. /\ pc \in {"boot", "scan", "command", "ended"}
        /\ status \in Ended \cup {"none"} /\ (status # "none" <=> pc = "ended")
        /\ echo \in BOOLEAN
    BY <2>1 DEF CallInv, SecretsInv
  <2> QED BY <2>2, <2>3, <2>4, <2>5, <2>6, <2>7 DEF TypeOK
<1> QED BY <1>1, SecretsInvariance, PTL

\* However a command returns, its own variables are zeroed.
THEOREM EveryReturnIsClean == Spec => []ReturnsClean
<1>1. SecretsInvariant => ReturnsClean
  BY DEF SecretsInvariant, LineInvariant, CallInv, SecretsInv, ReturnsClean
<1> QED BY <1>1, SecretsInvariance, PTL

\* Beside what it protects, the PRAGMA statement is all that is in memory of the
\* master password, live or left by a return, an exception or a signal.
THEOREM NothingButPragmaBesideData == Spec => []PragmaAloneBesideData
<1>1. SecretsInvariant => PragmaAloneBesideData
  <2> SUFFICES ASSUME SecretsInvariant PROVE Apart(Memory)
    BY DEF PragmaAloneBesideData, Apart
  <2>1. SecretsInv /\ pc \in {"boot", "scan", "command", "ended"}
    BY DEF SecretsInvariant, LineInvariant, CallInv
  <2>2. CASE pc = "command"
    BY <2>2, WhileRunning
  <2>3. CASE pc \in {"boot", "scan"}
    BY <2>1, <2>3 DEF SecretsInv, Apart, Memory
  <2>4. CASE pc = "ended"
    BY <2>1, <2>4 DEF SecretsInv
  <2> QED BY <2>1, <2>2, <2>3, <2>4
<1> QED BY <1>1, SecretsInvariance, PTL

\* Whenever a command waits for its user, it is known what is in memory of the
\* master password: nothing, the variable while it is confirmed, and the PRAGMA
\* statement alone from then on.
THEOREM MasterIsKnownAtWaits == Spec => []MasterWhileWaiting
<1>1. SecretsInvariant => MasterWhileWaiting
  <2> SUFFICES ASSUME SecretsInvariant, At("prompt") \/ At("ask") \/ At("show")
               PROVE  Memory \cap OfMaster = MasterAt(Current.fills)
    BY DEF MasterWhileWaiting, MasterAt
  <2>1. InCommand /\ Current.op \in {"prompt", "ask", "show"} /\ pc = "command"
    BY DEF At, InCommand
  <2>2. held \in Held /\ left \subseteq Copies /\ seen \cap OfMaster = MasterAt(Current.fills)
    BY <2>1, WhileRunning DEF Fine
  <2> QED BY <2>2, SeenInMemory
<1> QED BY <1>1, SecretsInvariance, PTL

\* While the display runs, the decoded secret and the code are all that its
\* variables hold, and none before was given up unzeroed.
THEOREM DisplayKeepsItsSecretOnly == Spec => []DisplayHoldsLittle
<1>1. SecretsInvariant => DisplayHoldsLittle
  <2> SUFFICES ASSUME SecretsInvariant, At("show")
               PROVE  held = {"raw_secret", "code"} /\ left \subseteq Copies
    BY DEF DisplayHoldsLittle
  <2>1. InCommand /\ Current.op = "show" /\ pc = "command"
    BY DEF At, InCommand
  <2>2. held \in Held /\ left \subseteq Copies /\ seen = {"raw_secret", "code", "pragma"}
    BY <2>1, WhileRunning DEF Fine
  <2>3. held = {"raw_secret", "code"}
    BY <2>2, SeenInMemory
  <2> QED BY <2>2, <2>3
<1> QED BY <1>1, SecretsInvariance, PTL

\* Echo is on, unless a password is being typed or a signal ended the process.
THEOREM EchoIsRestored == Spec => []EchoComesBack
<1>1. SecretsInvariant => EchoComesBack
  BY DEF SecretsInvariant, LineInvariant, CallInv, SecretsInv, EchoComesBack
<1> QED BY <1>1, SecretsInvariance, PTL
=============================================================================
