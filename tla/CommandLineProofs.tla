--------------------------- MODULE CommandLineProofs ---------------------------
(***************************************************************************)
(* Proofs about the command line, for any words and any number of them:    *)
(* which path and which words a command is called with, and what an        *)
(* uncaught exception meets.                                               *)
(*                                                                         *)
(* The properties say what a word is by looking back over the --db in      *)
(* front of it; main never looks back.  The loop keeps that an even number *)
(* of --db precedes the word it looks at next, so that this word is not    *)
(* the value of an option (Fresh), that db_path is the last value it has   *)
(* passed (PathSoFar), and that the command and its arguments are the      *)
(* words it has passed, in their order (WordsInv).                         *)
(***************************************************************************)
EXTENDS CommandSecrets, FiniteSetTheorems, SequenceTheorems, TLAPS

-----------------------------------------------------------------------------
(* Runs of --db.                                                           *)

\* j words and no more in front of word k are --db.
Preceded(k, j) == DbRun(k, j) /\ ~DbRun(k, j + 1)

LEMMA RunUnique ==
  ASSUME NEW k \in Nat, NEW j \in Nat, NEW l \in Nat, Preceded(k, j), Preceded(k, l)
  PROVE  j = l
<1>1. ASSUME NEW m \in Nat, NEW n \in Nat, m < n, Preceded(k, m), Preceded(k, n) PROVE FALSE
  <2>1. m + 1 < k /\ (k - (m + 1))..(k - 1) \subseteq (k - n)..(k - 1)
    BY <1>1 DEF Preceded, DbRun
  <2>2. DbRun(k, m + 1)
    BY <1>1, <2>1 DEF Preceded, DbRun
  <2> QED BY <1>1, <2>2 DEF Preceded
<1> QED BY <1>1

LEMMA RunStart == Preceded(1, 0)
BY DEF Preceded, DbRun

LEMMA RunGoesOn ==
  ASSUME NEW k \in Nat \ {0}, NEW j \in Nat, Preceded(k, j), args[k] = "--db"
  PROVE  Preceded(k + 1, j + 1)
<1>1. DbRun(k + 1, j + 1)
  BY DEF Preceded, DbRun
<1>2. ASSUME DbRun(k + 1, j + 2) PROVE DbRun(k, j + 1)
  BY <1>2 DEF DbRun
<1> QED BY <1>1, <1>2 DEF Preceded

LEMMA RunEnds ==
  ASSUME NEW k \in Nat \ {0}, args[k] # "--db"
  PROVE  Preceded(k + 1, 0)
BY DEF Preceded, DbRun

\* Whether a word is a value shows in the length of the run in front of it.
LEMMA ValueIsOdd ==
  ASSUME args \in Seq(Word), NEW k \in 1..Len(args), NEW j \in Nat, Preceded(k, j)
  PROVE  Value(k) <=> j % 2 = 1
<1>1. Len(args) \in Nat
  OBVIOUS
<1>2. ASSUME Value(k) PROVE j % 2 = 1
  <2>1. PICK l \in 1..Len(args) : l % 2 = 1 /\ Preceded(k, l)
    BY <1>2 DEF Value, Preceded
  <2> QED BY <1>1, <2>1, RunUnique
<1>3. ASSUME j % 2 = 1 PROVE Value(k)
  <2>1. j \in 1..Len(args)
    BY <1>1, <1>3 DEF Preceded, DbRun
  <2> QED BY <1>3, <2>1 DEF Value, Preceded
<1> QED BY <1>2, <1>3

-----------------------------------------------------------------------------
(* The loop.                                                               *)

\* The next word is not the value of an option.
Fresh == i <= Len(args) => \E j \in Nat : j % 2 = 0 /\ Preceded(i, j)

\* Of the words behind the loop the last value, if there is one, is the path.
PathSoFar ==
  \/ db_path = DefaultPath /\ \A k \in 1..(i - 1) : ~Value(k)
  \/ \E k \in 1..(i - 1) :
       Value(k) /\ db_path = args[k] /\ \A l \in (k + 1)..(i - 1) : ~Value(l)

LineInv ==
  /\ args \in Seq(Word) /\ i \in 1..(Len(args) + 1)
  /\ pc = "boot" => i = 1 /\ held \cup left = {}
  /\ pc \in {"scan", "command"} => Fresh /\ PathSoFar
  /\ pc = "command" => i > Len(args) /\ (called.cmd # "gen" => db_path \in VaultPath)
  /\ status # "none" => pc = "ended"
  /\ status = "terminated" => i = 1 /\ held \cup left = {}

LEMMA InitLine == Init => LineInv
<1> SUFFICES ASSUME Init PROVE LineInv
  OBVIOUS
<1>1. PICK m \in 0..MaxArgs : args \in [1..m -> Word]
  BY DEF Init, LineInit, BoundedSeq, SeqOf
<1>2. args \in Seq(Word) /\ Len(args) \in Nat
  BY <1>1, MaxArgsAssumption
<1>3. i = 1 /\ held \cup left = {} /\ pc = "boot" /\ status = "none"
  BY DEF Init, LineInit
<1>4. i \in 1..(Len(args) + 1)
  BY <1>2, <1>3
<1> QED BY <1>2, <1>3, <1>4 DEF LineInv

\* --db and its value are passed together.
LEMMA StepPath ==
  ASSUME LineInv, ScanPath
  PROVE  Fresh' /\ PathSoFar' /\ i' \in 1..(Len(args') + 1)
<1>1. /\ args \in Seq(Word) /\ Len(args) \in Nat
      /\ i \in 1..(Len(args) - 1) /\ args[i] = "--db"
      /\ args' = args /\ i' = i + 2 /\ db_path' = args[i + 1]
  BY DEF LineInv, ScanPath, Scanning, TakesPath
<1>2. PICK j \in Nat : j % 2 = 0 /\ Preceded(i, j)
  BY <1>1 DEF LineInv, ScanPath, Scanning, Fresh
<1>3. Preceded(i + 1, j + 1)
  BY <1>1, <1>2, RunGoesOn
<1>4. Value(i + 1)
  BY <1>1, <1>2, <1>3, ValueIsOdd
<1>5. \E l \in Nat : l % 2 = 0 /\ Preceded(i + 2, l)
  <2>1. CASE args[i + 1] = "--db"
    <3>1. Preceded(i + 2, j + 2)
      BY <1>1, <1>2, <1>3, <2>1, RunGoesOn
    <3> QED BY <1>2, <3>1
  <2>2. CASE args[i + 1] # "--db"
    <3>1. Preceded(i + 2, 0)
      BY <1>1, <2>2, RunEnds
    <3> QED BY <3>1
  <2> QED BY <2>1, <2>2
<1>6. Fresh'
  BY <1>1, <1>5 DEF Fresh, Preceded, DbRun
<1>7. PathSoFar'
  <2>1. PICK k \in 1..(i' - 1) : k = i + 1
    BY <1>1
  <2>2. Value(k)' /\ db_path' = args'[k]
    BY <1>1, <1>4, <2>1 DEF Value, DbRun
  <2>3. \A l \in (k + 1)..(i' - 1) : FALSE
    BY <1>1, <2>1
  <2> QED BY <2>2, <2>3 DEF PathSoFar
<1> QED BY <1>1, <1>6, <1>7

\* A word that is not taken by an option is not one's value.
LEMMA StepWord ==
  ASSUME LineInv, ScanWord
  PROVE  Fresh' /\ PathSoFar' /\ i' \in 1..(Len(args') + 1)
<1>0. i <= Len(args) /\ i' = i + 1 /\ args' = args /\ db_path' = db_path /\ ~TakesPath
  BY DEF ScanWord, Scanning
<1>1. /\ args \in Seq(Word) /\ Len(args) \in Nat
      /\ i \in 1..Len(args) /\ (i < Len(args) => args[i] # "--db")
      /\ args' = args /\ i' = i + 1 /\ db_path' = db_path
  BY <1>0 DEF LineInv, TakesPath
<1>2. PICK j \in Nat : j % 2 = 0 /\ Preceded(i, j)
  BY <1>1 DEF LineInv, ScanWord, Scanning, Fresh
<1>3. ~Value(i)
  BY <1>1, <1>2, ValueIsOdd
<1>4. Fresh'
  <2> SUFFICES ASSUME i < Len(args) PROVE Fresh'
    BY <1>1 DEF Fresh
  <2>1. \E l \in Nat : l % 2 = 0 /\ Preceded(i + 1, l)
    <3>1. Preceded(i + 1, 0)
      BY <1>1, RunEnds
    <3> QED BY <3>1
  <2> QED BY <1>1, <2>1 DEF Fresh, Preceded, DbRun
<1>5. \A k : Value(k)' = Value(k)
  BY <1>1 DEF Value, DbRun
<1>6. PathSoFar'
  <2>1. PathSoFar
    BY DEF LineInv, ScanWord, Scanning
  <2>2. CASE db_path = DefaultPath /\ \A k \in 1..(i - 1) : ~Value(k)
    <3>1. \A k \in 1..(i' - 1) : ~Value(k)'
      BY <1>1, <1>3, <1>5, <2>2
    <3> QED BY <1>1, <2>2, <3>1 DEF PathSoFar
  <2>3. ASSUME NEW k \in 1..(i - 1), Value(k), db_path = args[k],
               \A l \in (k + 1)..(i - 1) : ~Value(l)
        PROVE  PathSoFar'
    <3>1. Value(k)' /\ db_path' = args'[k] /\ k \in 1..(i' - 1)
      BY <1>1, <1>5, <2>3
    <3>2. \A l \in (k + 1)..(i' - 1) : ~Value(l)'
      BY <1>1, <1>3, <1>5, <2>3
    <3> QED BY <3>1, <3>2 DEF PathSoFar
  <2> QED BY <2>1, <2>2, <2>3 DEF PathSoFar
<1> QED BY <1>1, <1>4, <1>6

\* What does not go through the loop leaves what the loop has found.
LEMMA SameLine ==
  ASSUME LineInv, UNCHANGED <<args, parse>>
  PROVE  (Fresh => Fresh') /\ (PathSoFar => PathSoFar')
BY DEF parse, Fresh, PathSoFar, Preceded, Value, DbRun

LEMMA StepLine == LineInv /\ [Next]_vars => LineInv'
<1> SUFFICES ASSUME LineInv, [Next]_vars PROVE LineInv'
  OBVIOUS
<1>1. CASE UNCHANGED vars
  BY <1>1, SameLine DEF LineInv, vars, line, parse
<1>2. ASSUME NEW how, pc # "ended", Exit(how), how # "terminated" PROVE LineInv'
  BY <1>2 DEF Exit, parse, LineInv
<1>3. CASE Boot /\ UNCHANGED <<at, held, left, echo>>
  <2>1. CASE Exit("caught") \/ Exit("terminated")
    BY <1>3, <2>1 DEF Boot, Exit, parse, LineInv
  <2>2. CASE pc' = "scan" /\ db_path' = DefaultPath /\ UNCHANGED <<args, i, status>>
    <3>1. i = 1 /\ Len(args) \in Nat
      BY <1>3 DEF Boot, LineInv
    <3>2. Fresh' /\ PathSoFar'
      BY <2>2, <3>1, RunStart DEF Fresh, PathSoFar, Preceded, DbRun
    <3> QED BY <1>3, <2>2, <3>2 DEF Boot, LineInv
  <2> QED BY <1>3, <2>1, <2>2 DEF Boot
<1>4. CASE ScanPath \/ ScanWord
  BY <1>4, StepPath, StepWord DEF ScanPath, ScanWord, Scanning, LineInv
<1>5. CASE ScanHelp \/ Refuse
  BY <1>2, <1>5 DEF ScanHelp, Refuse, Scanning, Scanned
<1>6. ASSUME NEW c, NEW n, NEW l, Call(c, n, l), Scanned, c # "gen" => db_path \in VaultPath
      PROVE  LineInv'
  BY <1>6, SameLine DEF Call, Scanned, parse, LineInv
<1>7. CASE DispatchSimple \/ DispatchOnEntry \/ DispatchTotp \/ DispatchGen \/ DispatchUnknown
  <2>1. Scanned /\ (command # "gen" => db_path \in VaultPath) /\ pc # "ended"
    BY <1>7 DEF DispatchSimple, DispatchOnEntry, DispatchTotp, DispatchGen, DispatchUnknown,
                Admitted, Scanned
  <2>2. CASE Exit("returned") \/ Exit("caught")
    BY <1>2, <2>1, <2>2
  <2>3. CASE DispatchSimple
    BY <1>6, <2>1, <2>3 DEF DispatchSimple
  <2>4. CASE DispatchOnEntry
    BY <1>6, <2>1, <2>2, <2>4 DEF DispatchOnEntry, OnEntry
  <2>5. CASE DispatchTotp
    <3>1. command # "gen"
      BY <2>5 DEF DispatchTotp
    <3> QED BY <1>6, <2>1, <2>2, <2>5, <3>1 DEF DispatchTotp
  <2>6. CASE DispatchGen
    BY <1>6, <2>1, <2>2, <2>6 DEF DispatchGen
  <2>7. CASE DispatchUnknown
    BY <2>2, <2>7 DEF DispatchUnknown
  <2> QED BY <1>7, <2>3, <2>4, <2>5, <2>6, <2>7
<1>8. CASE UNCHANGED line /\ pc = "command"
  BY <1>8, SameLine DEF line, parse, LineInv
<1>9. ASSUME StartPrompt \/ EndPrompt \/ Answer \/ Run \/ LeaveCopies \/ Redraw
      PROVE  UNCHANGED line /\ pc = "command"
  BY <1>9 DEF StartPrompt, EndPrompt, Answer, Run, LeaveCopies, Redraw, At, InCommand, Continue
<1>10. CASE ReturnEarly \/ Return \/ Throw \/ Crash \/ Interrupt
  BY <1>2, <1>10 DEF ReturnEarly, Return, Throw, Crash, Interrupt, At, InCommand, Leave
<1> QED
  BY <1>1, <1>3, <1>4, <1>5, <1>7, <1>8, <1>9, <1>10 DEF Next, MainStep

-----------------------------------------------------------------------------
(* The words.                                                              *)

RankIn(S, k) == Cardinality({l \in S : l <= k})

\* s is what stands at the positions in S, from the lowest to the highest.
Lists(s, S) ==
  /\ Len(s) = Cardinality(S)
  /\ \A k \in S : RankIn(S, k) \in 1..Len(s) /\ s[RankIn(S, k)] = args[k]
  /\ \A n \in 1..Len(s) : \E k \in S : RankIn(S, k) = n

\* What the loop has passed, and of that the words from the command on.
Passed == Words \cap 1..(i - 1)
Meant(S) == {k \in S : \E l \in S : l <= k /\ args[l] # ""}

Taken == << command >> \o cmd_args

WordsInv ==
  /\ command \in Word \cup {""} /\ cmd_args \in Seq(Word)
  /\ command = "" => cmd_args = << >> /\ Meant(Passed) = {}
  /\ command # "" => Lists(Taken, Meant(Passed))
  /\ \A k \in Passed : args[k] \notin Help

\* A list grows by the word behind it.
LEMMA ListsNext ==
  ASSUME NEW W, NEW s \in Seq(W), NEW m \in Nat, args[m] \in W,
         NEW S, IsFiniteSet(S), \A l \in S : l \in Nat /\ l < m,
         Lists(s, S)
  PROVE  Lists(Append(s, args[m]), S \cup {m})
<1>1. /\ Len(Append(s, args[m])) = Len(s) + 1
      /\ Append(s, args[m])[Len(s) + 1] = args[m]
      /\ \A n \in 1..Len(s) : Append(s, args[m])[n] = s[n]
  BY AppendProperties
<1>2. Len(s) \in Nat /\ Cardinality(S) = Len(s) /\ Cardinality(S \cup {m}) = Len(s) + 1
  <2>1. m \notin S
    OBVIOUS
  <2>2. Len(s) \in Nat
    BY LenProperties
  <2> QED BY <2>1, <2>2, FS_AddElement DEF Lists
<1>3. RankIn(S \cup {m}, m) = Len(s) + 1
  <2>1. \A l : l \in {k \in S \cup {m} : k <= m} <=> l \in S \cup {m}
    OBVIOUS
  <2>2. {k \in S \cup {m} : k <= m} = S \cup {m}
    BY <2>1
  <2> QED BY <1>2, <2>2 DEF RankIn
<1>4. ASSUME NEW k \in S PROVE RankIn(S \cup {m}, k) = RankIn(S, k)
  <2>1. \A l : l \in {n \in S \cup {m} : n <= k} <=> l \in {n \in S : n <= k}
    OBVIOUS
  <2>2. {n \in S \cup {m} : n <= k} = {n \in S : n <= k}
    BY <2>1
  <2> QED BY <2>2 DEF RankIn
<1>5. ASSUME NEW k \in S \cup {m}
      PROVE  /\ RankIn(S \cup {m}, k) \in 1..(Len(s) + 1)
             /\ Append(s, args[m])[RankIn(S \cup {m}, k)] = args[k]
  <2>1. CASE k = m
    BY <1>1, <1>2, <1>3, <2>1
  <2>2. CASE k \in S
    <3>1. RankIn(S, k) \in 1..Len(s) /\ s[RankIn(S, k)] = args[k]
      BY <2>2 DEF Lists
    <3>2. PICK r \in 1..Len(s) : RankIn(S \cup {m}, k) = r /\ s[r] = args[k]
      BY <1>4, <2>2, <3>1
    <3> QED BY <1>1, <1>2, <3>2
  <2> QED BY <2>1, <2>2
<1>6. ASSUME NEW n \in 1..(Len(s) + 1) PROVE \E k \in S \cup {m} : RankIn(S \cup {m}, k) = n
  <2>1. CASE n = Len(s) + 1
    BY <1>3, <2>1
  <2>2. CASE n # Len(s) + 1
    <3>1. n \in 1..Len(s)
      BY <1>2, <2>2
    <3>2. PICK k \in S : RankIn(S, k) = n
      BY <3>1 DEF Lists
    <3> QED BY <1>4, <3>2
  <2> QED BY <2>1, <2>2
<1> QED BY <1>1, <1>2, <1>5, <1>6 DEF Lists

LEMMA ListsNone == Lists(<< >>, {})
BY FS_EmptySet, EmptySeq DEF Lists

LEMMA InitWords == Init => WordsInv
<1> SUFFICES ASSUME Init PROVE WordsInv
  OBVIOUS
<1>1. LineInv /\ pc = "boot" /\ command = "" /\ cmd_args = << >>
  BY InitLine DEF Init, LineInit
<1>2. \A k : k \notin Passed
  <2>1. i = 1
    BY <1>1 DEF LineInv
  <2> QED BY <2>1 DEF Passed
<1>3. Meant(Passed) = {}
  BY <1>2 DEF Meant
<1>4. << >> \in Seq(Word)
  BY EmptySeq
<1> QED BY <1>1, <1>2, <1>3, <1>4 DEF WordsInv

\* Neither an option nor its value is a word.
LEMMA StepPathWords ==
  ASSUME LineInv, WordsInv, ScanPath
  PROVE  WordsInv'
<1>1. /\ args \in Seq(Word) /\ Len(args) \in Nat
      /\ i \in 1..(Len(args) - 1) /\ args[i] = "--db"
      /\ args' = args /\ i' = i + 2 /\ command' = command /\ cmd_args' = cmd_args
  BY DEF LineInv, ScanPath, Scanning, TakesPath
<1>2. PICK j \in Nat : j % 2 = 0 /\ Preceded(i, j)
  BY <1>1 DEF LineInv, ScanPath, Scanning, Fresh
<1>3. Preceded(i + 1, j + 1)
  <2>1. i \in Nat \ {0} /\ j \in Nat /\ Preceded(i, j) /\ args[i] = "--db"
    BY <1>1, <1>2
  <2> QED BY ONLY <2>1, RunGoesOn
<1>4. ~Value(i) /\ Value(i + 1)
  BY <1>1, <1>2, <1>3, ValueIsOdd
<1>5. i \notin Words /\ i + 1 \notin Words
  BY <1>1, <1>4 DEF Words, Option
<1>6. Words' = Words
  BY <1>1 DEF Words, Option, Value, DbRun
<1>7. Words \in SUBSET Int
  BY <1>1 DEF Words
<1>8. Passed' = Passed
  <2>1. \A k : k \in Passed' <=> k \in Passed
    BY <1>1, <1>5, <1>6, <1>7 DEF Passed
  <2> QED BY <2>1
<1>9. Meant(Passed)' = Meant(Passed) /\ Taken' = Taken
  BY <1>1, <1>8 DEF Meant, Taken
<1> QED BY <1>1, <1>8, <1>9 DEF WordsInv, Lists

\* A word that is not taken by an option is the next one.
LEMMA StepWordWords ==
  ASSUME LineInv, WordsInv, ScanWord
  PROVE  WordsInv'
<1>1. /\ args \in Seq(Word) /\ Len(args) \in Nat /\ i \in 1..Len(args)
      /\ ~TakesPath /\ args[i] \notin Help
      /\ args' = args /\ i' = i + 1
  <2>1. i <= Len(args) /\ ~TakesPath /\ args[i] \notin Help /\ args' = args /\ i' = i + 1
    BY DEF ScanWord, Scanning
  <2> QED BY <2>1 DEF LineInv
<1>2. PICK j \in Nat : j % 2 = 0 /\ Preceded(i, j)
  BY <1>1 DEF LineInv, ScanWord, Scanning, Fresh
<1>3. ~Value(i)
  BY <1>1, <1>2, ValueIsOdd
<1>4. i \in Words
  BY <1>1, <1>3 DEF Words, Option, TakesPath
<1>5. Words' = Words
  BY <1>1 DEF Words, Option, Value, DbRun
<1> DEFINE P == Passed
           M == Meant(P)
<1>7. Passed' = P \cup {i}
  <2>1. \A k : k \in Passed' <=> k \in P \cup {i}
    BY <1>1, <1>4, <1>5 DEF Passed
  <2> QED BY <2>1
<1>8. \A l \in P : l \in Nat /\ l < i
  BY <1>1 DEF Passed
<1>9. i \in Nat /\ M \subseteq P /\ \A l \in M : l \in Nat /\ l < i
  <2>1. M \subseteq P
    BY DEF Meant
  <2>2. i \in Nat
    BY <1>1
  <2> QED BY <1>8, <2>1, <2>2
<1>10. IsFiniteSet(M)
  <2>1. M \subseteq 1..(i - 1)
    BY <1>9 DEF Passed
  <2>2. i - 1 \in Int
    BY <1>9
  <2>3. IsFiniteSet(1..(i - 1))
    BY <2>2, FS_Interval
  <2> QED BY <2>1, <2>3, FS_Subset
<1> DEFINE N == IF M = {} /\ args[i] = "" THEN {} ELSE M \cup {i}
<1>11. Meant(Passed)' = N
  <2>1. Meant(Passed)' = {k \in P \cup {i} : \E l \in P \cup {i} : l <= k /\ args[l] # ""}
    BY <1>1, <1>7 DEF Meant
  <2>2. ASSUME NEW k \in P PROVE k \in Meant(Passed)' <=> k \in M
    <3>1. ~(i <= k)
      BY <1>8, <1>9
    <3> QED BY <2>1, <3>1 DEF Meant
  <2>3. i \in Meant(Passed)' <=> M # {} \/ args[i] # ""
    <3>1. \A l \in P : l <= l /\ l <= i
      BY <1>8, <1>9
    <3>2. M # {} <=> \E l \in P : args[l] # ""
      BY <3>1 DEF Meant
    <3>3. i <= i
      BY <1>9
    <3> QED BY <2>1, <3>1, <3>2, <3>3
  <2>4. Meant(Passed)' \subseteq P \cup {i}
    BY <2>1
  <2>5. i \notin P
    BY <1>8, <1>9
  <2> QED BY <1>9, <2>2, <2>3, <2>4, <2>5
<1>12. \A k \in Passed' : args'[k] \notin Help
  BY <1>1, <1>7 DEF WordsInv
<1>13. args[i] \in Word
  BY <1>1, ElementOfSeq
<1>14. \A s, S : Lists(s, S)' <=> Lists(s, S)
  BY <1>1 DEF Lists
<1>15. CASE command = ""
  <2>1. command' = args[i] /\ cmd_args' = << >> /\ M = {} /\ cmd_args' \in Seq(Word)
    BY <1>15 DEF ScanWord, WordsInv
  <2>2. CASE args[i] = ""
    BY <1>11, <1>12, <1>13, <2>1, <2>2 DEF WordsInv
  <2>3. CASE args[i] # ""
    <3>1. Lists(Append(<< >>, args[i]), {} \cup {i})
      <4>1. << >> \in Seq(Word) /\ IsFiniteSet({}) /\ Lists(<< >>, {})
        BY EmptySeq, FS_EmptySet, ListsNone
      <4> QED BY <1>9, <1>13, <4>1, ListsNext
    <3>2. Taken' = Append(<< >>, args[i]) /\ Meant(Passed)' = {} \cup {i}
      <4>1. << args[i] >> \o << >> = Append(<< >>, args[i])
        BY <1>13, EmptySeq, AppendIsConcat, ConcatEmptySeq
      <4> QED BY <1>11, <2>1, <2>3, <4>1 DEF Taken
    <3>3. Lists(Taken, Meant(Passed))'
      BY <1>1, <3>1, <3>2 DEF Lists
    <3> QED BY <1>12, <1>13, <2>1, <2>3, <3>3 DEF WordsInv
  <2> QED BY <2>2, <2>3
<1>16. CASE command # ""
  <2>1. command' = command /\ cmd_args' = Append(cmd_args, args[i])
    BY <1>16 DEF ScanWord
  <2>2. command \in Word /\ cmd_args \in Seq(Word) /\ Lists(Taken, M)
    BY <1>16 DEF WordsInv
  <2>3. Taken \in Seq(Word) /\ Taken # << >> /\ Len(Taken) \in Nat /\ Len(Taken) # 0
    BY <2>2 DEF Taken
  <2>4. Taken' = Append(Taken, args[i]) /\ cmd_args' \in Seq(Word)
    BY <1>13, <2>1, <2>2 DEF Taken
  <2>5. M # {}
    BY <2>2, <2>3, FS_EmptySet DEF Lists
  <2>6. Lists(Append(Taken, args[i]), M \cup {i})
    BY <1>9, <1>10, <1>13, <2>2, <2>3, ListsNext
  <2>7. Lists(Taken, Meant(Passed))'
    BY <1>1, <1>11, <2>4, <2>5, <2>6 DEF Lists
  <2> QED BY <1>12, <1>16, <2>1, <2>2, <2>4, <2>7 DEF WordsInv
<1> QED BY <1>15, <1>16

-----------------------------------------------------------------------------
(* The call.                                                               *)

\* What main hands to the command c, when it calls it for the words it has.
CalledWith(c, name, length) ==
  \/ command \in Simple /\ c = command
  \/ command \in OnEntry /\ c = command /\ cmd_args # << >> /\ name = cmd_args[1]
  \/ /\ command = "totp" /\ cmd_args # << >>
     /\ c \in {"totp", "totp_add", "totp_del"}
     /\ c = "totp_add" <=> cmd_args[1] = "add"
     /\ c = "totp_del" <=> cmd_args[1] = "del"
     /\ name = TotpName(c)
  \/ command = "gen" /\ c = "gen" /\ length \in 10..128

Calls == [cmd : DOMAIN Body, name : Word \cup {"", Garbage}, length : {0} \cup 10..128]

CallInv ==
  /\ pc = "command" =>
       /\ command # "" /\ called \in Calls
       /\ CalledWith(called.cmd, called.name, called.length)
  /\ called \in Calls \/ called = Nobody
  /\ Len(args) <= MaxArgs
  /\ db_path \in Word \cup {"", DefaultPath}
  /\ pc \in {"boot", "scan", "command", "ended"}
  /\ status \in Ended \cup {"none"} /\ (status # "none" <=> pc = "ended")

\* The commands that main knows.
LEMMA Commands ==
  DOMAIN Body = {"init", "add", "get", "list", "del", "gen", "totp", "totp_add", "totp_del"}
BY DEF Body

\* Every step looks at one more word, calls a command, or leaves the words alone.
LEMMA LineSteps ==
  ASSUME [Next]_vars
  PROVE  \/ ScanPath \/ ScanWord
         \/ /\ UNCHANGED <<args, i, command, cmd_args>>
            /\ \/ UNCHANGED line
               \/ Boot
               \/ pc # "ended" /\ \E how \in Ended : Exit(how)
               \/ DispatchSimple \/ DispatchOnEntry \/ DispatchTotp \/ DispatchGen
<1>1. CASE UNCHANGED vars
  BY <1>1 DEF vars, line, parse
<1>2. CASE MainStep
  BY <1>2 DEF MainStep, Boot, ScanHelp, Refuse, DispatchSimple, DispatchOnEntry, DispatchTotp,
              DispatchGen, DispatchUnknown, Exit, Call, parse, Ended, Scanning, Scanned, Admitted
<1>3. CASE StartPrompt \/ EndPrompt \/ Answer \/ Run \/ LeaveCopies \/ Redraw
  BY <1>3 DEF StartPrompt, EndPrompt, Answer, Run, LeaveCopies, Redraw, Continue, line, parse
<1>4. CASE ReturnEarly \/ Return \/ Throw \/ Crash \/ Interrupt
  BY <1>4 DEF ReturnEarly, Return, Throw, Crash, Interrupt, At, InCommand, Leave, Exit, parse, Ended
<1> QED BY <1>1, <1>2, <1>3, <1>4 DEF Next

LEMMA StepWords == LineInv /\ WordsInv /\ [Next]_vars => WordsInv'
<1> SUFFICES ASSUME LineInv, WordsInv, [Next]_vars PROVE WordsInv'
  OBVIOUS
<1>1. CASE UNCHANGED <<args, i, command, cmd_args>>
  <2>1. Words' = Words
    BY <1>1 DEF Words, Option, Value, DbRun
  <2>2. Passed' = Passed
    BY <1>1, <2>1 DEF Passed
  <2>3. Meant(Passed)' = Meant(Passed) /\ Taken' = Taken
    BY <1>1, <2>2 DEF Meant, Taken
  <2> QED BY <1>1, <2>2, <2>3 DEF WordsInv, Lists
<1> QED BY <1>1, LineSteps, StepPathWords, StepWordWords

LEMMA InitCall == Init => CallInv
<1> SUFFICES ASSUME Init PROVE CallInv
  OBVIOUS
<1>1. PICK m \in 0..MaxArgs : args \in [1..m -> Word]
  BY DEF Init, LineInit, BoundedSeq, SeqOf
<1>2. Len(args) <= MaxArgs
  BY <1>1, MaxArgsAssumption
<1> QED BY <1>2 DEF Init, LineInit, CallInv, Ended

\* The name that totp hands on is a word, or lies behind the words.
LEMMA NameTyped ==
  ASSUME WordsInv, cmd_args # << >>, NEW c
  PROVE  cmd_args[1] \in Word /\ TotpName(c) \in Word \cup {Garbage}
<1>1. cmd_args \in Seq(Word) /\ Len(cmd_args) \in Nat /\ Len(cmd_args) # 0
  BY EmptySeq DEF WordsInv
<1>2. cmd_args[1] \in Word
  BY <1>1, ElementOfSeq
<1>3. CASE c = "totp"
  BY <1>2, <1>3 DEF TotpName
<1>4. CASE c # "totp" /\ Len(cmd_args) >= 2
  <2>1. cmd_args[2] \in Word
    BY <1>1, <1>4, ElementOfSeq
  <2> QED BY <1>2, <1>4, <2>1 DEF TotpName
<1>5. CASE c # "totp" /\ ~(Len(cmd_args) >= 2)
  BY <1>2, <1>5 DEF TotpName
<1> QED BY <1>3, <1>4, <1>5

LEMMA StepCall == LineInv /\ WordsInv /\ CallInv /\ [Next]_vars => CallInv'
<1> SUFFICES ASSUME LineInv, WordsInv, CallInv, [Next]_vars PROVE CallInv'
  OBVIOUS
<1>1. ASSUME NEW c \in DOMAIN Body, NEW n \in Word \cup {"", Garbage}, NEW l \in {0} \cup 10..128,
             Scanned, command # "", Call(c, n, l), CalledWith(c, n, l)
      PROVE  CallInv'
  <2>1. called' \in Calls /\ called'.cmd = c /\ called'.name = n /\ called'.length = l
    BY <1>1 DEF Call, Calls
  <2>2. CalledWith(c, n, l)'
    BY <1>1 DEF Call, parse, CalledWith, TotpName
  <2>3. UNCHANGED <<args, db_path, command, status>> /\ pc' = "command" /\ pc = "scan"
    BY <1>1 DEF Call, parse, Scanned
  <2> QED BY <1>1, <2>1, <2>2, <2>3 DEF CallInv
<1>2. ASSUME NEW how \in Ended, Exit(how) PROVE CallInv'
  BY <1>2 DEF Exit, parse, CallInv, Ended
<1>3. CASE UNCHANGED line
  BY <1>3 DEF line, parse, CallInv, CalledWith, TotpName
<1>4. CASE Boot
  BY <1>2, <1>4 DEF Boot, CallInv, Ended
<1>5. CASE ScanPath \/ ScanWord
  <2>1. CASE ScanPath
    <3>1. args[i + 1] \in Word
      BY <2>1, ElementOfSeq DEF LineInv, ScanPath, Scanning, TakesPath
    <3> QED BY <2>1, <3>1 DEF ScanPath, Scanning, CallInv
  <2>2. CASE ScanWord
    BY <2>2 DEF ScanWord, Scanning, CallInv
  <2> QED BY <1>5, <2>1, <2>2
<1>6. CASE DispatchSimple
  <2>1. /\ command \in DOMAIN Body /\ Scanned /\ command # "" /\ Call(command, "", 0)
        /\ CalledWith(command, "", 0)
    BY <1>6, Commands DEF DispatchSimple, Admitted, Simple, CalledWith
  <2> QED BY <1>1, <2>1
<1>7. CASE DispatchOnEntry
  <2>1. CASE cmd_args = << >>
    BY <1>2, <1>7, <2>1 DEF DispatchOnEntry, Ended
  <2>2. CASE cmd_args # << >>
    <3>1. /\ command \in DOMAIN Body /\ Scanned /\ command # "" /\ Call(command, cmd_args[1], 0)
          /\ CalledWith(command, cmd_args[1], 0)
      BY <1>7, <2>2, Commands DEF DispatchOnEntry, Admitted, OnEntry, CalledWith
    <3> QED BY <1>1, <2>2, <3>1, NameTyped
  <2> QED BY <2>1, <2>2
<1>8. CASE DispatchTotp
  <2>1. CASE cmd_args = << >>
    BY <1>2, <1>8, <2>1 DEF DispatchTotp, Ended
  <2>2. CASE cmd_args # << >>
    <3>1. PICK c \in {"totp", "totp_add", "totp_del"} :
            /\ c = "totp_add" <=> cmd_args[1] = "add"
            /\ c = "totp_del" <=> cmd_args[1] = "del"
            /\ Call(c, TotpName(c), 0)
      BY <1>8, <2>2 DEF DispatchTotp
    <3>2. /\ c \in DOMAIN Body /\ Scanned /\ command # ""
          /\ CalledWith(c, TotpName(c), 0)
      BY <1>8, <2>2, <3>1, Commands DEF DispatchTotp, Admitted, CalledWith
    <3> QED BY <1>1, <2>2, <3>1, <3>2, NameTyped
  <2> QED BY <2>1, <2>2
<1>9. CASE DispatchGen
  <2>1. Scanned /\ command = "gen" /\ command # "" /\ "gen" \in DOMAIN Body
    BY <1>9, Commands DEF DispatchGen, Admitted
  <2>2. CASE cmd_args = << >>
    <3>1. Call("gen", "", 20)
      BY <1>9, <2>2 DEF DispatchGen
    <3>2. CalledWith("gen", "", 20) /\ 20 \in {0} \cup 10..128 /\ "" \in Word \cup {"", Garbage}
      BY <2>1 DEF CalledWith
    <3> QED BY <1>1, <2>1, <3>1, <3>2
  <2>3. CASE cmd_args # << >> /\ cmd_args[1] \notin DOMAIN Number
    BY <1>2, <1>9, <2>3 DEF DispatchGen, Ended
  <2>4. CASE cmd_args # << >> /\ cmd_args[1] \in DOMAIN Number
    <3>1. PICK n \in Nat : n = Number[cmd_args[1]]
      BY <2>4, NumberAssumption
    <3>2. CASE TooShortOrLong(n)
      BY <1>2, <1>9, <2>4, <3>1, <3>2 DEF DispatchGen, Ended
    <3>3. CASE ~TooShortOrLong(n)
      <4>1. n \in 10..128
        BY <3>3 DEF TooShortOrLong
      <4>2. Call("gen", "", n)
        BY <1>9, <2>4, <3>1, <3>3 DEF DispatchGen
      <4>3. CalledWith("gen", "", n)
        BY <2>1, <4>1 DEF CalledWith
      <4> QED BY <1>1, <2>1, <4>1, <4>2, <4>3
    <3> QED BY <3>2, <3>3
  <2> QED BY <2>2, <2>3, <2>4
<1> QED BY <1>2, <1>3, <1>4, <1>5, <1>6, <1>7, <1>8, <1>9, LineSteps

-----------------------------------------------------------------------------
(* What holds when a command is called.                                    *)

LEMMA PathFound ==
  ASSUME LineInv, pc = "command"
  PROVE  db_path = PathMeant
<1>1. /\ PathSoFar
      /\ DOMAIN args = 1..(i - 1) /\ i - 1 \in Nat
  BY DEF LineInv
<1>2. CASE db_path = DefaultPath /\ \A k \in 1..(i - 1) : ~Value(k)
  BY <1>1, <1>2 DEF PathMeant, Values
<1>3. ASSUME NEW k \in 1..(i - 1), Value(k), db_path = args[k],
             \A l \in (k + 1)..(i - 1) : ~Value(l)
      PROVE  PathMeant = db_path
  <2>1. k \in Values /\ \A l \in Values : l <= k
    BY <1>1, <1>3 DEF Values
  <2>2. \A m \in Values : (\A l \in Values : l <= m) => m = k
    BY <1>1, <2>1 DEF Values
  <2>3. (CHOOSE m \in Values : \A l \in Values : l <= m) = k
    BY <2>1, <2>2
  <2> QED BY <1>3, <2>1, <2>3 DEF PathMeant
<1> QED BY <1>1, <1>2, <1>3 DEF PathSoFar

\* What lists the words is the sequence of the words.
LEMMA ListIsWordsMeant ==
  ASSUME NEW s \in Seq(Word), Lists(s, Meant(Words))
  PROVE  s = WordsMeant
<1> DEFINE M == Meant(Words)
<1>1. WordsMeant = [n \in 1..Len(s) |-> args[CHOOSE k \in M : RankIn(M, k) = n]]
  <2> DEFINE rank == [k \in M |-> RankIn(M, k)]
  <2>1. WordsMeant = [n \in 1..Cardinality(M) |-> args[CHOOSE k \in M : rank[k] = n]]
    BY DEF WordsMeant, Meant, RankIn
  <2>2. \A n : (CHOOSE k \in M : rank[k] = n) = (CHOOSE k \in M : RankIn(M, k) = n)
    OBVIOUS
  <2> QED BY <2>1, <2>2 DEF Lists
<1>2. ASSUME NEW n \in 1..Len(s) PROVE s[n] = args[CHOOSE k \in M : RankIn(M, k) = n]
  <2>1. \E k \in M : RankIn(M, k) = n
    BY DEF Lists
  <2>2. PICK k \in M : RankIn(M, k) = n /\ k = CHOOSE m \in M : RankIn(M, m) = n
    BY <2>1
  <2> QED BY <2>2 DEF Lists
<1>3. s = [n \in 1..Len(s) |-> s[n]]
  OBVIOUS
<1> QED BY <1>1, <1>2, <1>3

LEMMA WordsFound ==
  ASSUME LineInv, WordsInv, CallInv, pc = "command"
  PROVE  /\ Taken = WordsMeant
         /\ Taken[1] = command
         /\ Len(Taken) = Len(cmd_args) + 1
         /\ \A n \in 1..Len(cmd_args) : Taken[n + 1] = cmd_args[n]
         /\ \A k \in Words : args[k] \notin Help
<1>1. command \in Word /\ cmd_args \in Seq(Word) /\ Lists(Taken, Meant(Passed))
  BY DEF CallInv, WordsInv
<1>2. Passed = Words
  <2>1. Len(args) \in Nat /\ i = Len(args) + 1 /\ DOMAIN args = 1..Len(args)
    BY DEF LineInv
  <2>2. i - 1 = Len(args) /\ Words \subseteq DOMAIN args
    BY <2>1 DEF Words
  <2> QED BY <2>1, <2>2 DEF Passed
<1>3. Taken \in Seq(Word)
  BY <1>1 DEF Taken
<1>4. Taken = WordsMeant
  BY <1>1, <1>2, <1>3, ListIsWordsMeant
<1>5. /\ Taken[1] = command
      /\ Len(Taken) = Len(cmd_args) + 1
      /\ \A n \in 1..Len(cmd_args) : Taken[n + 1] = cmd_args[n]
  BY <1>1 DEF Taken
<1> QED BY <1>2, <1>4, <1>5 DEF WordsInv

\* The strength of a password only grows with its length, and ten characters
\* already have more than 59 bits.
LEMMA TenIsStrong ==
  ASSUME NEW n \in Nat, n >= 10
  PROVE  evaluate_password_strength(n) = "STRONG"
<1> DEFINE entropy == 6459 * n
<1>1. entropy \in Nat /\ entropy >= 64590
  OBVIOUS
<1> HIDE DEF entropy
<1>2. ~(entropy <= 35000) /\ entropy \notin 36000..59000
  BY ONLY <1>1
<1> QED BY ONLY <1>2 DEF evaluate_password_strength, entropy

LineInvariant == LineInv /\ WordsInv /\ CallInv

LEMMA LineInvariance == Spec => []LineInvariant
<1>1. Init => LineInvariant
  BY InitLine, InitWords, InitCall DEF LineInvariant
<1>2. LineInvariant /\ [Next]_vars => LineInvariant'
  BY StepLine, StepWords, StepCall DEF LineInvariant
<1> QED BY <1>1, <1>2, PTL DEF Spec

\* A command is called with the words that were typed, in their order, and on
\* the path that the last --db named, for argument lists of any length.
THEOREM CommandsCalledAsTyped == Spec => []CalledAsTyped
<1>1. LineInvariant => CalledAsTyped
  <2> SUFFICES ASSUME LineInv, WordsInv, CallInv, pc = "command"
               PROVE  /\ db_path = PathMeant
                      /\ << command >> \o cmd_args = WordsMeant
                      /\ \A k \in Words : args[k] \notin Help
    BY DEF LineInvariant, CalledAsTyped
  <2> QED BY PathFound, WordsFound DEF Taken
<1> QED BY <1>1, LineInvariance, PTL

\* Every command that works on a vault works on the path that was meant, and
\* that path has the extension, for argument lists of any length.
THEOREM OnlyVaultFilesOpened == Spec => []OnlyVaultFiles
<1>1. LineInvariant => OnlyVaultFiles
  BY PathFound DEF LineInvariant, LineInv, OnlyVaultFiles
<1> QED BY <1>1, LineInvariance, PTL

\* A command is about the entry that was typed behind it, unless it is a totp add
\* or totp del with nothing behind it.
THEOREM NameIsTheTyped == Spec => []NameWasTyped
<1>1. LineInvariant => NameWasTyped
  <2> SUFFICES ASSUME LineInv, WordsInv, CallInv, pc = "command",
                      called.cmd \notin Simple \cup {"gen"}
               PROVE  LET sub == Taken[1] = "totp" /\ Taken[2] \in {"add", "del"}
                      IN  IF sub THEN Len(Taken) > 2 => called.name = Taken[3]
                                 ELSE called.name = Taken[2]
    BY WordsFound DEF LineInvariant, NameWasTyped
  <2>1. cmd_args \in Seq(Word) /\ Len(cmd_args) \in Nat
    BY LenProperties DEF WordsInv
  <2>2. CalledWith(called.cmd, called.name, called.length)
    BY DEF CallInv
  <2>3. cmd_args # << >> /\ Taken[1] = command /\ Taken[2] = cmd_args[1]
    <3>1. cmd_args # << >>
      BY <2>2 DEF CalledWith
    <3>2. 1 \in 1..Len(cmd_args)
      BY <2>1, <3>1, EmptySeq
    <3>3. Taken[1 + 1] = cmd_args[1]
      BY <3>2, WordsFound
    <3> QED BY <3>1, <3>3, WordsFound
  <2>4. CASE command \in OnEntry
    BY <2>2, <2>3, <2>4 DEF CalledWith, OnEntry
  <2>5. CASE command = "totp"
    <3>1. /\ called.cmd \in {"totp", "totp_add", "totp_del"}
          /\ called.cmd = "totp_add" <=> cmd_args[1] = "add"
          /\ called.cmd = "totp_del" <=> cmd_args[1] = "del"
          /\ called.name = TotpName(called.cmd)
      BY <2>2, <2>5 DEF CalledWith, Simple, OnEntry
    <3>2. CASE called.cmd = "totp"
      BY <2>3, <3>1, <3>2 DEF TotpName
    <3>3. CASE called.cmd # "totp" /\ Len(Taken) > 2
      <4>1. 2 \in 1..Len(cmd_args)
        BY <2>1, <3>3, WordsFound
      <4>2. Taken[2 + 1] = cmd_args[2]
        BY <4>1, WordsFound
      <4> QED BY <2>1, <2>3, <2>5, <3>1, <3>3, <4>1, <4>2 DEF TotpName
    <3>4. CASE called.cmd # "totp" /\ ~(Len(Taken) > 2)
      BY <2>3, <2>5, <3>1, <3>4
    <3> QED BY <3>2, <3>3, <3>4
  <2> QED BY <2>2, <2>4, <2>5 DEF CalledWith, Simple
<1> QED BY <1>1, LineInvariance, PTL

\* Whatever length main lets through, the password is rated strong.
THEOREM GeneratedPasswordsAreStrong == Spec => []GeneratedIsStrong
<1>1. LineInvariant => GeneratedIsStrong
  <2> SUFFICES ASSUME CallInv, pc = "command", called.cmd = "gen"
               PROVE  evaluate_password_strength(called.length) = "STRONG"
    BY DEF LineInvariant, GeneratedIsStrong
  <2>1. called.length \in 10..128
    BY DEF CallInv, CalledWith, Simple, OnEntry
  <2>2. PICK n \in 10..128 : called.length = n
    BY <2>1
  <2> QED BY <2>2, TenIsStrong
<1> QED BY <1>1, LineInvariance, PTL

\* No secret is in memory when std::terminate is called.
THEOREM TerminateMeetsNoSecret == Spec => []UncaughtBeforeSecrets
<1>1. LineInvariant => UncaughtBeforeSecrets
  BY DEF LineInvariant, LineInv, UncaughtBeforeSecrets
<1> QED BY <1>1, LineInvariance, PTL
=============================================================================
