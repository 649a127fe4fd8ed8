----------------------------- MODULE TotpCodeProofs -----------------------------
(***************************************************************************)
(* Theorems about TotpCode, with their proofs: what was typed becomes the  *)
(* bytes that it encodes, the machine that hashes them stays within its    *)
(* words and blocks, and the code is the one that SHA-1, HMAC and RFC 6238 *)
(* give, for every secret, time, period and length of the code.            *)
(***************************************************************************)
EXTENDS TotpCode, SequenceTheorems, WellFoundedInduction, TLAPS

-----------------------------------------------------------------------------
(* The countdown.                                                          *)

\* A time is some whole periods and a part of one, in one way only.
LEMMA Parts ==
  ASSUME NEW p \in Nat \ {0}, NEW n \in Nat
  PROVE  /\ n \div p \in Nat /\ n % p \in 0..(p - 1)
         /\ n = (n \div p) * p + (n % p)
<1>1. n \div p \in Nat
  OBVIOUS
<1>2. n % p \in 0..(p - 1)
  OBVIOUS
<1>3. n = (n \div p) * p + (n % p)
  OBVIOUS
<1> QED BY <1>1, <1>2, <1>3

LEMMA Multiples ==
  ASSUME NEW p \in Nat \ {0}, NEW a \in Nat, NEW b \in Nat, a < b
  PROVE  a * p + p <= b * p
<1>1. b = a + 1 + (b - a - 1) /\ b - a - 1 \in Nat
  OBVIOUS
<1>2. ASSUME NEW x \in Nat PROVE (a + 1 + x) * p = a * p + p + x * p /\ x * p \in Nat
  OBVIOUS
<1>3. b * p = a * p + p + (b - a - 1) * p /\ (b - a - 1) * p \in Nat
  BY <1>1, <1>2
<1>4. a * p \in Nat
  OBVIOUS
<1> QED BY <1>3, <1>4

LEMMA Periods ==
  ASSUME NEW p \in Nat \ {0}, NEW q \in Nat, NEW r \in 0..(p - 1)
  PROVE  (q * p + r) \div p = q /\ (q * p + r) % p = r
<1> DEFINE n == q * p + r
           d == n \div p
           m == n % p
<1>1. n \in Nat /\ q * p \in Nat
  OBVIOUS
<1>2. d \in Nat /\ m \in 0..(p - 1) /\ n = d * p + m
  BY <1>1, Parts
<1>3. n = q * p + r
  OBVIOUS
<1> HIDE DEF n, d, m
<1>4. d * p \in Nat
  BY <1>2
<1>5. ~(d < q)
  BY <1>1, <1>2, <1>3, <1>4, Multiples
<1>6. ~(q < d)
  BY <1>1, <1>2, <1>3, <1>4, Multiples
<1>7. d = q
  BY <1>2, <1>5, <1>6
<1>8. m = r
  BY <1>1, <1>2, <1>3, <1>7
<1> QED BY <1>7, <1>8 DEF d, m, n

\* The countdown ends in the next period, and not before.
LEMMA CountdownEnds ==
  ASSUME NEW now \in Nat
  PROVE  LET end == now + totp_remaining_seconds(now)
         IN  /\ time_step(end - 1) = time_step(now)
             /\ time_step(end) = time_step(now) + 1
<1> DEFINE q == now \div Period
           r == now % Period
<1>1. q \in Nat /\ r \in 0..(Period - 1) /\ now = q * Period + r
  BY Parts, PeriodAssumption
<1> HIDE DEF q, r
<1>2. now + totp_remaining_seconds(now) = q * Period + Period
  <2>1. totp_remaining_seconds(now) = Period - r
    BY DEF totp_remaining_seconds, r
  <2> QED BY <1>1, <2>1, PeriodAssumption
<1>3. q * Period + Period = (q + 1) * Period + 0
  BY <1>1, PeriodAssumption
<1>4. (q * Period + Period) \div Period = q + 1
  <2>1. ((q + 1) * Period + 0) \div Period = q + 1
    BY <1>1, Periods, PeriodAssumption
  <2> QED BY <1>3, <2>1
<1>5. (q * Period + Period - 1) \div Period = q
  <2>1. q * Period + Period - 1 = q * Period + (Period - 1)
    BY <1>1, PeriodAssumption
  <2>2. Period - 1 \in 0..(Period - 1)
    BY PeriodAssumption
  <2> QED BY <1>1, <2>1, <2>2, Periods, PeriodAssumption
<1>6. time_step(now) = q
  BY DEF time_step, q
<1> DEFINE end == now + totp_remaining_seconds(now)
<1>7. end = q * Period + Period
  BY <1>2
<1> HIDE DEF end
<1>8. time_step(end - 1) = q
  <2>1. end - 1 = q * Period + Period - 1
    BY <1>1, <1>7, PeriodAssumption
  <2> QED BY <1>5, <2>1 DEF time_step
<1>9. time_step(end) = q + 1
  BY <1>4, <1>7 DEF time_step
<1> QED BY <1>6, <1>8, <1>9 DEF end

-----------------------------------------------------------------------------
(* Loops over a sequence.  The library's induction takes an operator; this *)
(* one takes the set of the numbers for which the statement holds.         *)

LEMMA Induction ==
  ASSUME NEW T \in SUBSET Nat, 0 \in T, \A n \in T : n + 1 \in T
  PROVE  T = Nat
<1> SUFFICES ASSUME Nat \ T # {} PROVE FALSE
  OBVIOUS
<1>1. PICK m \in Nat \ T : \A n \in Nat \ T : ~(<<n, m>> \in OpToRel(<, Nat))
  BY NatLessThanWellFounded, WFMin
<1>2. m # 0 /\ m - 1 \in Nat \ T
  OBVIOUS
<1>3. <<m - 1, m>> \in OpToRel(<, Nat)
  BY <1>2 DEF OpToRel
<1> QED BY <1>1, <1>2, <1>3

LEMMA ArrayIsSeq ==
  ASSUME NEW S, NEW n \in Nat, NEW f \in [1..n -> S]
  PROVE  f \in Seq(S) /\ Len(f) = n
<1>1. f \in Seq(S)
  BY SeqDef
<1>2. Len(f) \in Nat /\ 1..Len(f) = 1..n
  BY <1>1, LenProperties
<1> DEFINE L == Len(f)
<1> HIDE DEF L
<1>3. L \in Nat /\ 1..L = 1..n
  BY <1>2 DEF L
<1>4. L >= 1 => L \in 1..n
  BY <1>3
<1>5. n >= 1 => n \in 1..L
  BY <1>3
<1>6. L = n
  BY ONLY <1>3, <1>4, <1>5, n \in Nat
<1> QED BY <1>1, <1>6 DEF L

Part(c, dropped) == IF c \in dropped THEN << >> ELSE << c >>

\* k[n] is what the loop of base32_normalize has kept after n characters of s.
IsKept(k, s, dropped, m) ==
  k = [n \in 0..m |-> IF n = 0 THEN << >> ELSE k[n-1] \o Part(s[n], dropped)]

\* The recursion has a solution.
LEMMA KeptExists ==
  ASSUME NEW s, NEW dropped, NEW m \in Nat
  PROVE  \E k : IsKept(k, s, dropped, m)
<1> DEFINE T == {n \in Nat : \E k : IsKept(k, s, dropped, n)}
<1>1. 0 \in T
  <2>1. IsKept([n \in 0..0 |-> << >>], s, dropped, 0)
    BY DEF IsKept
  <2> QED BY <2>1
<1>2. ASSUME NEW n \in T PROVE n + 1 \in T
  <2>1. PICK k : IsKept(k, s, dropped, n)
    OBVIOUS
  <2> DEFINE g == [l \in 0..(n+1) |-> IF l <= n THEN k[l]
                                              ELSE k[n] \o Part(s[n+1], dropped)]
  <2>2. ASSUME NEW l \in 0..(n+1)
        PROVE  g[l] = IF l = 0 THEN << >> ELSE g[l-1] \o Part(s[l], dropped)
    <3>1. CASE l <= n
      BY <2>1, <3>1 DEF IsKept
    <3>2. CASE l = n + 1
      BY <3>2
    <3> QED BY <3>1, <3>2
  <2>3. g = [l \in 0..(n+1) |-> IF l = 0 THEN << >> ELSE g[l-1] \o Part(s[l], dropped)]
    BY <2>2
  <2>4. IsKept(g, s, dropped, n + 1)
    BY <2>3 DEF IsKept
  <2> QED BY <2>4
<1>3. T = Nat
  <2> HIDE DEF T
  <2>1. T \in SUBSET Nat
    BY DEF T
  <2> QED BY <1>1, <1>2, <2>1, Induction
<1> QED BY <1>3

\* What is left of n characters behind each place, from what is left of fewer.
Row(f, s, dropped, n) ==
  [j \in 0..(Len(s) - n) |->
     IF n = 0 THEN << >>
     ELSE IF n = 1 THEN Part(s[j+1], dropped)
     ELSE f[n \div 2][j] \o f[n - (n \div 2)][j + (n \div 2)]]

IsHalved(f, s, dropped, m) == f = [n \in 0..m |-> Row(f, s, dropped, n)]

LEMMA Halving ==
  ASSUME NEW n \in Nat, n >= 2
  PROVE  /\ n \div 2 \in 1..(n - 1) /\ n - (n \div 2) \in 1..(n - 1)
         /\ (n \div 2) + (n - (n \div 2)) = n
OBVIOUS

LEMMA HalvedExists ==
  ASSUME NEW s, NEW dropped, NEW m \in Nat
  PROVE  \E f : IsHalved(f, s, dropped, m)
<1> DEFINE T == {n \in Nat : \E f : IsHalved(f, s, dropped, n)}
<1>1. 0 \in T
  <2> DEFINE f == [n \in 0..0 |-> [j \in 0..(Len(s) - n) |-> << >>]]
  <2>1. f = [n \in 0..0 |-> Row(f, s, dropped, n)]
    BY DEF Row
  <2> HIDE DEF f
  <2> QED BY <2>1 DEF IsHalved
<1>2. ASSUME NEW n \in T PROVE n + 1 \in T
  <2>1. PICK f : IsHalved(f, s, dropped, n)
    OBVIOUS
  <2> DEFINE g == [l \in 0..(n+1) |-> IF l <= n THEN f[l] ELSE Row(f, s, dropped, n + 1)]
  <2>2. \A l \in 0..n : g[l] = f[l]
    OBVIOUS
  <2>3. ASSUME NEW l \in 0..(n+1) PROVE g[l] = Row(f, s, dropped, l)
    <3>1. CASE l <= n
      BY <2>1, <3>1 DEF IsHalved
    <3>2. CASE l = n + 1
      BY <3>2
    <3> QED BY <3>1, <3>2
  <2>4. DOMAIN g = 0..(n+1) /\ g = [l \in 0..(n+1) |-> g[l]]
    OBVIOUS
  <2> HIDE DEF g
  <2>5. ASSUME NEW l \in 0..(n+1) PROVE Row(g, s, dropped, l) = Row(f, s, dropped, l)
    <3>1. CASE l >= 2
      <4>1. l \div 2 \in 0..n /\ l - (l \div 2) \in 0..n
        BY <3>1, Halving
      <4>2. g[l \div 2] = f[l \div 2] /\ g[l - (l \div 2)] = f[l - (l \div 2)]
        BY <2>2, <4>1
      <4> QED BY <4>2 DEF Row
    <3>2. CASE l = 0
      BY <3>2 DEF Row
    <3>3. CASE l = 1
      BY <3>3 DEF Row
    <3> QED BY <3>1, <3>2, <3>3
  <2>6. g = [l \in 0..(n+1) |-> Row(g, s, dropped, l)]
    BY <2>3, <2>4, <2>5
  <2> QED BY <2>6 DEF IsHalved
<1>3. T = Nat
  <2> HIDE DEF T
  <2>1. T \in SUBSET Nat
    BY DEF T
  <2> QED BY <1>1, <1>2, <2>1, Induction
<1> QED BY <1>3

LEMMA PartIsSeq ==
  ASSUME NEW S, NEW c \in S, NEW dropped
  PROVE  Part(c, dropped) \in Seq(S)
BY EmptySeq DEF Part

LEMMA KeptIsSeq ==
  ASSUME NEW S, NEW s \in Seq(S), NEW dropped, NEW k, IsKept(k, s, dropped, Len(s))
  PROVE  \A n \in 0..Len(s) : k[n] \in Seq(S)
<1> DEFINE T == {n \in Nat : n <= Len(s) => k[n] \in Seq(S)}
<1>1. Len(s) \in Nat
  BY LenProperties
<1>2. 0 \in T
  <2>1. k[0] = << >>
    BY <1>1 DEF IsKept
  <2> QED BY <2>1, EmptySeq
<1>3. ASSUME NEW n \in T PROVE n + 1 \in T
  <2> SUFFICES ASSUME n + 1 <= Len(s) PROVE k[n + 1] \in Seq(S)
    OBVIOUS
  <2>1. n + 1 \in 1..Len(s) /\ n + 1 \in 0..Len(s) /\ n + 1 # 0 /\ (n + 1) - 1 = n
    BY <1>1
  <2>2. k[n + 1] = k[n] \o Part(s[n + 1], dropped)
    BY <2>1 DEF IsKept
  <2>3. k[n] \in Seq(S)
    BY <2>1
  <2>4. s[n + 1] \in S
    BY <2>1, ElementOfSeq
  <2>5. Part(s[n + 1], dropped) \in Seq(S)
    BY <2>4, PartIsSeq
  <2> QED BY <2>2, <2>3, <2>5, ConcatProperties
<1>4. T = Nat
  <2> HIDE DEF T
  <2>1. T \in SUBSET Nat
    BY DEF T
  <2> QED BY <1>2, <1>3, <2>1, Induction
<1> QED BY <1>1, <1>4

\* With y behind it, x becomes z.
Grows(S, x, y, z) == y \in Seq(S) /\ x \o y = z

LEMMA GrowsTwice ==
  ASSUME NEW S, NEW x \in Seq(S), NEW y, NEW p, NEW z, NEW q,
         Grows(S, x, y, p), Grows(S, p, z, q)
  PROVE  Grows(S, x, y \o z, q)
<1>1. x \in Seq(S) /\ y \in Seq(S) /\ z \in Seq(S)
  BY DEF Grows
<1>2. x \o y = p /\ p \o z = q
  BY DEF Grows
<1>3. (x \o y) \o z = x \o (y \o z)
  BY ONLY <1>1, ConcatAssociative
<1>4. y \o z \in Seq(S)
  BY ONLY <1>1, ConcatProperties
<1> QED BY ONLY <1>2, <1>3, <1>4 DEF Grows

\* Behind what is left of j characters, that of the next n makes that of both.
LEMMA HalvedIsKept ==
  ASSUME NEW S, NEW s \in Seq(S), NEW dropped,
         NEW k, IsKept(k, s, dropped, Len(s)), NEW f, IsHalved(f, s, dropped, Len(s)),
         NEW n \in 0..Len(s), NEW j \in 0..(Len(s) - n)
  PROVE  Grows(S, k[j], f[n][j], k[j + n])
<1> DEFINE L == Len(s)
           P(l) == \A i \in 0..(L - l) : Grows(S, k[i], f[l][i], k[i + l])
           T == {u \in Nat : \A l \in 0..u : l <= L => P(l)}
<1>1. L \in Nat
  BY LenProperties
<1>2. \A i \in 0..L : k[i] \in Seq(S)
  BY KeptIsSeq
<1>3. ASSUME NEW l \in 0..L, NEW i \in 0..(L - l)
      PROVE  f[l][i] = IF l = 0 THEN << >>
                       ELSE IF l = 1 THEN Part(s[i+1], dropped)
                       ELSE f[l \div 2][i] \o f[l - (l \div 2)][i + (l \div 2)]
  <2>1. f[l] = Row(f, s, dropped, l)
    BY DEF IsHalved
  <2> QED BY <2>1 DEF Row
<1>4. P(0)
  <2>1. 0 \in 0..L
    BY <1>1
  <2>2. \A i \in 0..L : f[0][i] = << >>
    <3>1. L - 0 = L
      BY <1>1
    <3> QED BY ONLY <1>3, <2>1, <3>1
  <2>3. \A i \in 0..L : i + 0 = i /\ k[i] \o << >> = k[i]
    BY <1>2, ConcatEmptySeq
  <2>4. L - 0 = L
    BY <1>1
  <2> QED BY ONLY <2>2, <2>3, <2>4, EmptySeq DEF Grows
<1>5. ASSUME 1 <= L PROVE P(1)
  <2> SUFFICES ASSUME NEW i \in 0..(L - 1)
               PROVE  Grows(S, k[i], f[1][i], k[i + 1])
    OBVIOUS
  <2>1. 1 \in 0..L /\ i \in Nat /\ i + 1 \in 1..L /\ i + 1 \in 0..L /\ (i + 1) - 1 = i /\ i + 1 # 0
    BY <1>1, <1>5
  <2>2. f[1][i] = Part(s[i + 1], dropped)
    <3>1. 1 # 0
      OBVIOUS
    <3> QED BY ONLY <1>3, <2>1, <3>1, i \in 0..(L - 1)
  <2>3. k[i + 1] = k[i] \o Part(s[i + 1], dropped)
    BY <2>1 DEF IsKept
  <2>4. s[i + 1] \in S
    BY <2>1, ElementOfSeq
  <2> QED BY <2>2, <2>3, <2>4, PartIsSeq DEF Grows
<1>6. ASSUME NEW u \in T, u + 1 >= 2, u + 1 <= L PROVE P(u + 1)
  <2> DEFINE a == (u + 1) \div 2
             b == (u + 1) - a
  <2>1. u \in Nat /\ \A l \in 0..u : l <= L => P(l)
    OBVIOUS
  <2>2. a \in 1..u /\ b \in 1..u /\ a + b = u + 1
    <3>1. u + 1 \in Nat /\ (u + 1) - 1 = u
      BY <2>1
    <3> QED BY <1>6, <3>1, Halving
  <2>3. P(a) /\ P(b)
    <3> HIDE DEF P, a, b
    <3> QED BY <1>1, <1>6, <2>1, <2>2
  <2>4. ASSUME NEW i \in 0..(L - (u + 1)) PROVE f[u + 1][i] = f[a][i] \o f[b][i + a]
    <3>1. u + 1 \in 0..L /\ u + 1 # 0 /\ u + 1 # 1
      BY <1>1, <1>6, <2>1
    <3> QED BY <1>3, <3>1
  <2>5. ASSUME NEW i \in 0..(L - (u + 1))
        PROVE  Grows(S, k[i], f[u + 1][i], k[i + (u + 1)])
    <3> HIDE DEF a, b
    <3>1. /\ i \in 0..L /\ i \in 0..(L - a) /\ i + a \in 0..(L - b)
          /\ (i + a) + b = i + (u + 1)
      BY ONLY <1>1, <1>6, <2>1, <2>2, i \in 0..(L - (u + 1))
    <3>2. Grows(S, k[i], f[a][i], k[i + a])
      BY <2>3, <3>1
    <3>3. Grows(S, k[i + a], f[b][i + a], k[i + (u + 1)])
      BY <2>3, <3>1
    <3>4. k[i] \in Seq(S)
      BY <1>2, <3>1
    <3>5. Grows(S, k[i], f[a][i] \o f[b][i + a], k[i + (u + 1)])
      BY ONLY <3>2, <3>3, <3>4, GrowsTwice
    <3> QED BY ONLY <2>4, <3>5, i \in 0..(L - (u + 1))
  <2> QED BY <2>5
<1> HIDE DEF P
<1>7. 0 \in T
  BY <1>4
<1>8. ASSUME NEW u \in T PROVE u + 1 \in T
  <2>1. u \in Nat
    OBVIOUS
  <2>2. u + 1 <= L => P(u + 1)
    <3>1. CASE u = 0
      BY <1>5, <3>1
    <3>2. CASE u # 0
      BY <1>6, <2>1, <3>2
    <3> QED BY <3>1, <3>2
  <2>3. \A l \in 0..(u + 1) : l \in 0..u \/ l = u + 1
    BY <2>1
  <2> QED BY <2>1, <2>2, <2>3
<1>9. T = Nat
  <2> HIDE DEF T
  <2>1. T \in SUBSET Nat
    BY DEF T
  <2> QED BY <1>7, <1>8, <2>1, Induction
<1>10. n \in Nat /\ n \in 0..n /\ n <= L
  BY <1>1
<1>11. P(n)
  BY <1>9, <1>10
<1> QED BY <1>11 DEF P

LEMMA WithoutIsKept ==
  ASSUME NEW S, NEW s \in Seq(S), NEW dropped
  PROVE  \E k : IsKept(k, s, dropped, Len(s)) /\ Without(s, dropped) = k[Len(s)]
<1>1. Len(s) \in Nat
  BY LenProperties
<1>2. PICK k : IsKept(k, s, dropped, Len(s))
  BY <1>1, KeptExists
<1>3. \E f : IsHalved(f, s, dropped, Len(s))
  BY <1>1, HalvedExists
<1>4. PICK f : IsHalved(f, s, dropped, Len(s)) /\ Without(s, dropped) = f[Len(s)][0]
  BY <1>3 DEF Without, IsHalved, Row, Part
<1>5. Len(s) \in 0..Len(s) /\ 0 \in 0..(Len(s) - Len(s)) /\ 0 + Len(s) = Len(s) /\ 0 \in 0..Len(s)
  BY <1>1
<1>6. f[Len(s)][0] \in Seq(S) /\ k[0] \o f[Len(s)][0] = k[Len(s)]
  <2>1. Grows(S, k[0], f[Len(s)][0], k[0 + Len(s)])
    BY ONLY <1>2, <1>4, <1>5, s \in Seq(S), HalvedIsKept
  <2> QED BY ONLY <1>5, <2>1 DEF Grows
<1>7. k[0] = << >>
  BY <1>2, <1>5 DEF IsKept
<1>8. f[Len(s)][0] = k[Len(s)]
  BY <1>6, <1>7, ConcatEmptySeq
<1> QED BY <1>2, <1>4, <1>8

\* What is kept is in s, is not dropped, and is all of s where nothing is.
LEMMA WithoutProperties ==
  ASSUME NEW S, NEW s \in Seq(S), NEW dropped
  PROVE  /\ Without(s, dropped) \in Seq(S)
         /\ \A i \in 1..Len(Without(s, dropped)) :
              /\ Without(s, dropped)[i] \notin dropped
              /\ \E j \in 1..Len(s) : Without(s, dropped)[i] = s[j]
         /\ (\A j \in 1..Len(s) : s[j] \notin dropped) => Without(s, dropped) = s
<1>1. PICK k : IsKept(k, s, dropped, Len(s)) /\ Without(s, dropped) = k[Len(s)]
  BY WithoutIsKept
<1> DEFINE Kept(n) == /\ k[n] \in Seq(S)
                      /\ \A i \in 1..Len(k[n]) :
                           k[n][i] \notin dropped /\ \E j \in 1..n : k[n][i] = s[j]
                      /\ (\A j \in 1..Len(s) : s[j] \notin dropped) =>
                           Len(k[n]) = n /\ \A i \in 1..n : k[n][i] = s[i]
           T == {n \in Nat : n <= Len(s) => Kept(n)}
<1>2. Len(s) \in Nat
  BY LenProperties
<1>3. 0 \in T
  <2>1. k[0] = << >>
    BY <1>1, <1>2 DEF IsKept
  <2>2. << >> \in Seq(S) /\ Len(<< >>) = 0
    BY EmptySeq
  <2>3. k[0] \in Seq(S) /\ Len(k[0]) = 0
    BY <2>1, <2>2
  <2>4. Kept(0)
    BY <2>3
  <2> QED BY <2>4
<1>4. ASSUME NEW n \in T PROVE n + 1 \in T
  <2> SUFFICES ASSUME n + 1 <= Len(s) PROVE Kept(n + 1)
    OBVIOUS
  <2>1. n \in Nat /\ n + 1 \in 1..Len(s) /\ Kept(n)
    BY <1>2
  <2> HIDE DEF T
  <2>2. k[n + 1] = k[n] \o Part(s[n + 1], dropped)
    <3>1. /\ n + 1 \in 0..Len(s) /\ n + 1 # 0 /\ (n + 1) - 1 = n
      BY <1>2, <2>1
    <3>2. k = [l \in 0..Len(s) |-> IF l = 0 THEN << >> ELSE k[l-1] \o Part(s[l], dropped)]
      BY <1>1 DEF IsKept
    <3>3. k[n + 1] = k[(n + 1) - 1] \o Part(s[n + 1], dropped)
      BY <3>1, <3>2, Zenon
    <3> QED BY <3>1, <3>3
  <2>3. s[n + 1] \in S
    BY <2>1, ElementOfSeq
  <2>4. CASE s[n + 1] \in dropped
    <3>1. k[n + 1] = k[n]
      BY <2>1, <2>2, <2>4, ConcatEmptySeq DEF Part
    <3>2. ~(\A j \in 1..Len(s) : s[j] \notin dropped)
      BY <2>1, <2>4
    <3>3. \A i \in 1..Len(k[n]) : \E j \in 1..(n + 1) : k[n][i] = s[j]
      BY <2>1
    <3> QED BY <2>1, <3>1, <3>2, <3>3
  <2>5. CASE s[n + 1] \notin dropped
    <3> DEFINE e == << s[n + 1] >>
    <3>1. e \in Seq(S) /\ Len(e) = 1 /\ e[1] = s[n + 1]
      BY <2>3
    <3>2. k[n + 1] = k[n] \o e
      BY <2>2, <2>5 DEF Part
    <3>3. Len(k[n]) \in Nat
      BY <2>1, LenProperties
    <3> HIDE DEF e
    <3>4. /\ k[n] \o e \in Seq(S)
          /\ Len(k[n] \o e) = Len(k[n]) + 1
          /\ \A i \in 1..(Len(k[n]) + 1) :
               (k[n] \o e)[i] = IF i <= Len(k[n]) THEN k[n][i] ELSE e[i - Len(k[n])]
      <4>1. k[n] \in Seq(S)
        BY <2>1
      <4>2. /\ k[n] \o e \in Seq(S)
            /\ Len(k[n] \o e) = Len(k[n]) + Len(e)
            /\ \A i \in 1..(Len(k[n]) + Len(e)) :
                 (k[n] \o e)[i] = IF i <= Len(k[n]) THEN k[n][i] ELSE e[i - Len(k[n])]
        BY <3>1, <4>1, ConcatProperties
      <4> QED BY <3>1, <4>2
    <3>5. /\ \A i \in 1..Len(k[n]) : (k[n] \o e)[i] = k[n][i]
          /\ (k[n] \o e)[Len(k[n]) + 1] = s[n + 1]
      BY <3>1, <3>3, <3>4
    <3>6. ASSUME NEW i \in 1..(Len(k[n]) + 1)
          PROVE  /\ (k[n] \o e)[i] \notin dropped
                 /\ \E j \in 1..(n + 1) : (k[n] \o e)[i] = s[j]
      <4>1. CASE i \in 1..Len(k[n])
        BY <2>1, <3>5, <4>1
      <4>2. CASE i = Len(k[n]) + 1
        <5>1. (k[n] \o e)[i] = s[n + 1]
          BY <3>5, <4>2
        <5>2. n + 1 \in 1..(n + 1)
          BY <2>1
        <5> QED BY <2>5, <5>1, <5>2
      <4>3. i \in 1..Len(k[n]) \/ i = Len(k[n]) + 1
        BY <3>3
      <4> QED BY <4>1, <4>2, <4>3
    <3>7. ASSUME \A j \in 1..Len(s) : s[j] \notin dropped
          PROVE  /\ Len(k[n] \o e) = n + 1
                 /\ \A i \in 1..(n + 1) : (k[n] \o e)[i] = s[i]
      BY <2>1, <3>4, <3>5, <3>7
    <3> QED BY <3>2, <3>4, <3>6, <3>7
  <2> QED BY <2>4, <2>5
<1>5. T = Nat
  <2> HIDE DEF T
  <2>1. T \in SUBSET Nat
    BY DEF T
  <2> QED BY <1>3, <1>4, <2>1, Induction
<1>6. Kept(Len(s))
  <2>1. \A n \in T : n <= Len(s) => Kept(n)
    BY DEF T
  <2> HIDE DEF T, Kept
  <2>2. Len(s) \in T /\ Len(s) <= Len(s)
    BY ONLY <1>2, <1>5
  <2> QED BY ONLY <2>1, <2>2
<1>7. ASSUME \A j \in 1..Len(s) : s[j] \notin dropped PROVE k[Len(s)] = s
  BY <1>6, <1>7, SeqEqual
<1> QED BY <1>1, <1>6, <1>7

-----------------------------------------------------------------------------
(* Normalised text.                                                        *)

LEMMA Upper ==
  ASSUME NEW c \in Byte
  PROVE  /\ toupper(c) \in Byte /\ toupper(toupper(c)) = toupper(c)
         /\ c \notin Separator => toupper(c) \notin Separator
BY DEF toupper, Byte, Separator

LEMMA Normalised ==
  ASSUME NEW s \in Seq(Byte)
  PROVE  /\ base32_normalize(s) \in Seq(Byte)
         /\ base32_normalize(base32_normalize(s)) = base32_normalize(s)
<1> DEFINE kept == Without(s, Separator)
           text == base32_normalize(s)
<1>1. kept \in Seq(Byte) /\ \A i \in 1..Len(kept) : kept[i] \notin Separator
  BY WithoutProperties
<1>2. Len(kept) \in Nat /\ DOMAIN kept = 1..Len(kept)
  BY <1>1, LenProperties
<1> HIDE DEF kept
<1>3. text = [i \in 1..Len(kept) |-> toupper(kept[i])]
  BY <1>2 DEF base32_normalize, kept
<1>4. \A i \in 1..Len(kept) : kept[i] \in Byte
  BY <1>1, ElementOfSeq
<1>5. \A i \in 1..Len(kept) : toupper(kept[i]) \in Byte
  BY <1>4, Upper
<1>6. text \in Seq(Byte) /\ Len(text) = Len(kept)
  BY <1>2, <1>3, <1>5
<1>7. \A i \in 1..Len(text) : text[i] \notin Separator /\ toupper(text[i]) = text[i]
  BY <1>1, <1>3, <1>4, <1>6, Upper
<1>8. Without(text, Separator) = text
  BY <1>6, <1>7, WithoutProperties
<1>9. base32_normalize(text) = [i \in 1..Len(text) |-> toupper(text[i])]
  BY <1>6, <1>8, LenProperties DEF base32_normalize
<1>10. base32_normalize(text) \in Seq(Byte) /\ Len(base32_normalize(text)) = Len(text)
  BY <1>2, <1>6, <1>7, <1>9, ElementOfSeq
<1>11. \A i \in 1..Len(text) : base32_normalize(text)[i] = text[i]
  BY <1>7, <1>9
<1>12. base32_normalize(text) = text
  <2> HIDE DEF text
  <2> QED BY <1>6, <1>10, <1>11, SeqEqual
<1> QED BY <1>6, <1>12

\* A character is a symbol, padding, or neither.
LEMMA Symbols ==
  ASSUME NEW c \in Byte
  PROVE  /\ DECODE_TABLE[c] \in 0..31 \/ DECODE_TABLE[c] \in {PADDING, INVALID}
         /\ DECODE_TABLE[c] = PADDING <=> c = Equals
<1>1. CASE c \in 65..90
  <2>1. make_decode_value(c) = c - 65
    BY <1>1 DEF make_decode_value, Equals
  <2> QED BY <1>1, <2>1 DEF DECODE_TABLE, PADDING, Equals
<1>2. CASE c \in 50..55
  <2>1. make_decode_value(c) = c - 50 + 26
    BY <1>2 DEF make_decode_value, Equals
  <2> QED BY <1>2, <2>1 DEF DECODE_TABLE, PADDING, Equals
<1>3. CASE c = Equals
  <2>1. make_decode_value(c) = PADDING
    BY <1>3 DEF make_decode_value, Equals
  <2> QED BY <1>3, <2>1 DEF DECODE_TABLE
<1>4. CASE c \notin (65..90) \cup (50..55) \cup {Equals}
  <2>1. make_decode_value(c) = INVALID
    BY <1>4 DEF make_decode_value
  <2> QED BY <1>4, <2>1 DEF DECODE_TABLE, PADDING, INVALID
<1> QED BY <1>1, <1>2, <1>3, <1>4

Symbol == {c \in Byte : DECODE_TABLE[c] \in 0..31}

\* What is accepted decodes: past the padding there are only symbols, of a
\* number that ends where a byte ends.
LEMMA Accepted ==
  ASSUME NEW s \in Seq(Byte), base32_normalize(s) = s, base32_validate(s)
  PROVE  /\ Data(s) \in Seq(Symbol) /\ ~Uneven(Len(Data(s)))
         /\ ~DecodeThrows(s)
         /\ Data(s) = << >> =>
              Len(s) % 8 = 0 /\ \A i \in DOMAIN s : s[i] = Equals
<1> DEFINE d == Data(s)
           n == Len(d)
<1>1. /\ s # << >> /\ ~Uneven(n) /\ (Len(s) % 8 = 0 \/ Len(s) = n)
      /\ \A i \in DOMAIN s : IF i <= n THEN ~(DECODE_TABLE[s[i]] >= PADDING) ELSE s[i] = Equals
  BY DEF base32_validate
<1>2. /\ d \in Seq(Byte)
      /\ \A i \in 1..n : d[i] # Equals /\ \E j \in 1..Len(s) : d[i] = s[j]
  <2>1. d = Without(s, {Equals})
    BY DEF Data
  <2> HIDE DEF d
  <2> DEFINE gone == {Equals}
  <2>2. d = Without(s, gone) /\ Equals \in gone
    BY <2>1
  <2> HIDE DEF gone
  <2>3. /\ Without(s, gone) \in Seq(Byte)
        /\ \A i \in 1..Len(Without(s, gone)) :
             Without(s, gone)[i] \notin gone /\ \E j \in 1..Len(s) : Without(s, gone)[i] = s[j]
    BY ONLY s \in Seq(Byte), WithoutProperties
  <2> QED BY ONLY <2>2, <2>3
<1>3. Len(s) \in Nat /\ DOMAIN s = 1..Len(s) /\ n \in Nat /\ DOMAIN d = 1..n
  BY <1>2, LenProperties
<1> HIDE DEF d
<1>4. ASSUME NEW i \in 1..n PROVE d[i] \in Symbol
  <2>1. PICK j \in 1..Len(s) : d[i] = s[j] /\ s[j] # Equals
    BY <1>2
  <2>2. ~(DECODE_TABLE[s[j]] >= PADDING)
    BY <1>1, <1>3, <2>1
  <2>3. s[j] \in Byte
    BY ElementOfSeq
  <2>4. DECODE_TABLE[s[j]] \in 0..31
    <3> DEFINE x == DECODE_TABLE[s[j]]
    <3>1. x \in 0..31 \/ x \in {PADDING, INVALID}
      BY <2>3, Symbols
    <3>2. ~(x >= PADDING)
      BY <2>2
    <3> HIDE DEF x
    <3>3. x \in 0..31
      <4>1. PADDING >= PADDING /\ INVALID >= PADDING
        BY DEF PADDING, INVALID
      <4> QED BY <3>1, <3>2, <4>1
    <3> QED BY <3>3 DEF x
  <2> QED BY <2>1, <2>3, <2>4 DEF Symbol
<1>5. d \in Seq(Symbol)
  <2>1. d = [i \in 1..n |-> d[i]]
    BY <1>2, LenProperties
  <2>2. [i \in 1..n |-> d[i]] \in Seq(Symbol)
    BY <1>3, <1>4
  <2> QED BY <2>1, <2>2
<1>6. ~DecodeThrows(s)
  <2>1. \A i \in DOMAIN d : DECODE_TABLE[d[i]] # INVALID
    <3>1. \A i \in 1..n : DECODE_TABLE[d[i]] \in 0..31
      BY <1>4 DEF Symbol
    <3>2. INVALID \notin 0..31
      BY DEF INVALID
    <3> QED BY <1>3, <3>1, <3>2
  <2> QED BY <1>1, <2>1 DEF DecodeThrows, d
<1>7. ASSUME d = << >> PROVE Len(s) % 8 = 0 /\ \A i \in DOMAIN s : s[i] = Equals
  <2>1. n = 0
    BY <1>7, EmptySeq
  <2>2. Len(s) # 0
    BY <1>1, <1>3, EmptySeq, SeqEqual
  <2> QED BY <1>1, <1>3, <2>1, <2>2
<1> QED BY <1>1, <1>5, <1>6, <1>7 DEF d

-----------------------------------------------------------------------------
(* The decoder: it has written the whole bytes of the symbols that it took *)
(* and holds the bits behind them.                                         *)

\* The bits of a symbol are five of the bits of the text.
LEMMA BitsOfSymbol ==
  ASSUME NEW s \in Seq(Symbol), NEW c \in Nat, c < Len(s)
  PROVE  LET b(k) == Bit(s, 5*c + k)
         IN  /\ \A k \in 0..4 : b(k) \in 0..1
             /\ DECODE_TABLE[s[c+1]] = 16 * b(0) + 8 * b(1) + 4 * b(2) + 2 * b(3) + b(4)
<1> DEFINE x == DECODE_TABLE[s[c+1]]
<1>1. x \in 0..31
  <2>1. s[c+1] \in Symbol
    BY ElementOfSeq, LenProperties
  <2> QED BY <2>1 DEF Symbol
<1>2. ASSUME NEW k \in 0..4 PROVE Bit(s, 5*c + k) = (x \div 2^(4 - k)) % 2
  <2>1. (5*c + k) \div 5 = c /\ (5*c + k) % 5 = k
    OBVIOUS
  <2> QED BY <2>1 DEF Bit
<1> HIDE DEF x
<1>3. /\ Bit(s, 5*c + 0) = (x \div 16) % 2 /\ Bit(s, 5*c + 1) = (x \div 8) % 2
      /\ Bit(s, 5*c + 2) = (x \div 4) % 2  /\ Bit(s, 5*c + 3) = (x \div 2) % 2
      /\ Bit(s, 5*c + 4) = (x \div 1) % 2
  <2>1. /\ 2^(4 - 0) = 16 /\ 2^(4 - 1) = 8 /\ 2^(4 - 2) = 4 /\ 2^(4 - 3) = 2 /\ 2^(4 - 4) = 1
    OBVIOUS
  <2>2. 0 \in 0..4 /\ 1 \in 0..4 /\ 2 \in 0..4 /\ 3 \in 0..4 /\ 4 \in 0..4
    OBVIOUS
  <2> QED BY <1>2, <2>1, <2>2
<1>4. /\ (x \div 16) % 2 \in 0..1 /\ (x \div 8) % 2 \in 0..1 /\ (x \div 4) % 2 \in 0..1
      /\ (x \div 2) % 2 \in 0..1 /\ (x \div 1) % 2 \in 0..1
      /\ x = 16 * ((x \div 16) % 2) + 8 * ((x \div 8) % 2) + 4 * ((x \div 4) % 2)
               + 2 * ((x \div 2) % 2) + ((x \div 1) % 2)
  BY <1>1
<1>5. \A k \in 0..4 : Bit(s, 5*c + k) \in 0..1
  <2>1. \A k \in 0..4 : k = 0 \/ k = 1 \/ k = 2 \/ k = 3 \/ k = 4
    OBVIOUS
  <2> QED BY <1>3, <1>4, <2>1
<1> QED BY <1>3, <1>4, <1>5 DEF x

\* Every bit of a symbol that is there is a bit.
LEMMA Bits ==
  ASSUME NEW s \in Seq(Symbol), NEW j \in Nat, j < 5 * Len(s)
  PROVE  Bit(s, j) \in 0..1
<1>1. j = 5 * (j \div 5) + (j % 5) /\ j \div 5 \in Nat /\ j % 5 \in 0..4 /\ Len(s) \in Nat
  BY LenProperties
<1>2. j \div 5 < Len(s)
  BY <1>1
<1> QED BY <1>1, <1>2, BitsOfSymbol

LEMMA Powers ==
  ASSUME NEW n \in 0..7
  PROVE  /\ (n = 0 => 2^n = 1) /\ (n = 1 => 2^n = 2) /\ (n = 2 => 2^n = 4) /\ (n = 3 => 2^n = 8)
         /\ (n = 4 => 2^n = 16) /\ (n = 5 => 2^n = 32) /\ (n = 6 => 2^n = 64) /\ (n = 7 => 2^n = 128)
<1>1. n = 0 => 2^n = 1
  OBVIOUS
<1>2. n = 1 => 2^n = 2
  OBVIOUS
<1>3. n = 2 => 2^n = 4
  OBVIOUS
<1>4. n = 3 => 2^n = 8
  OBVIOUS
<1>5. n = 4 => 2^n = 16
  OBVIOUS
<1>6. n = 5 => 2^n = 32
  OBVIOUS
<1>7. n = 6 => 2^n = 64
  OBVIOUS
<1>8. n = 7 => 2^n = 128
  OBVIOUS
<1> QED BY <1>1, <1>2, <1>3, <1>4, <1>5, <1>6, <1>7, <1>8

\* x is the number that the n bits from j on make: u goes through them.
Goes(u, s, j, n) ==
  /\ u \in [0..n -> Nat] /\ u[0] = 0
  /\ \A k \in 0..(n-1) : u[k+1] = 2 * u[k] + Bit(s, j + k)
Makes(s, j, n, x) == \E u : Goes(u, s, j, n) /\ u[n] = x

LEMMA MakesNone ==
  ASSUME NEW s, NEW j \in Nat
  PROVE  Makes(s, j, 0, 0)
<1>1. Goes([k \in 0..0 |-> 0], s, j, 0)
  BY DEF Goes
<1> QED BY <1>1 DEF Makes

LEMMA MakesNext ==
  ASSUME NEW s, NEW j \in Nat, NEW n \in Nat, NEW x, Makes(s, j, n, x),
         Bit(s, j + n) \in 0..1
  PROVE  x \in Nat /\ Makes(s, j, n + 1, 2 * x + Bit(s, j + n))
<1>1. PICK u : Goes(u, s, j, n) /\ u[n] = x
  BY DEF Makes
<1>2. x \in Nat
  BY <1>1 DEF Goes
<1> DEFINE y == 2 * x + Bit(s, j + n)
           g == [k \in 0..(n+1) |-> IF k <= n THEN u[k] ELSE y]
<1>3. y \in Nat
  BY <1>2
<1> HIDE DEF y
<1>4. g \in [0..(n+1) -> Nat] /\ g[0] = 0 /\ g[n+1] = y
  BY <1>1, <1>3 DEF Goes
<1>5. ASSUME NEW k \in 0..n PROVE g[k+1] = 2 * g[k] + Bit(s, j + k)
  <2>1. CASE k < n
    <3>1. u[k+1] = 2 * u[k] + Bit(s, j + k)
      BY <1>1, <2>1 DEF Goes
    <3> QED BY <2>1, <3>1
  <2>2. CASE k = n
    <3>1. g[k+1] = y /\ g[k] = x
      BY <1>1, <2>2
    <3> QED BY <2>2, <3>1 DEF y
  <2> QED BY <2>1, <2>2
<1> HIDE DEF g
<1>6. Goes(g, s, j, n + 1)
  <2>1. (n + 1) - 1 = n
    OBVIOUS
  <2> QED BY <1>4, <1>5, <2>1 DEF Goes
<1> QED BY <1>2, <1>4, <1>6 DEF Makes, y

\* A symbol is five more bits.
LEMMA MakesFive ==
  ASSUME NEW s, NEW j \in Nat, NEW n \in Nat, NEW x, Makes(s, j, n, x),
         \A k \in 0..4 : Bit(s, j + n + k) \in 0..1
  PROVE  LET b(k) == Bit(s, j + n + k)
         IN  Makes(s, j, n + 5, x * 32 + (16 * b(0) + 8 * b(1) + 4 * b(2) + 2 * b(3) + b(4)))
<1> DEFINE b(k) == Bit(s, j + n + k)
           x1 == 2 * x  + b(0)
           x2 == 2 * x1 + b(1)
           x3 == 2 * x2 + b(2)
           x4 == 2 * x3 + b(3)
           x5 == 2 * x4 + b(4)
<1>1. b(0) \in 0..1 /\ b(1) \in 0..1 /\ b(2) \in 0..1 /\ b(3) \in 0..1 /\ b(4) \in 0..1
  OBVIOUS
<1>2. /\ b(0) = Bit(s, j + n) /\ b(1) = Bit(s, j + (n + 1)) /\ b(2) = Bit(s, j + (n + 2))
      /\ b(3) = Bit(s, j + (n + 3)) /\ b(4) = Bit(s, j + (n + 4))
  <2>1. /\ j + n + 0 = j + n /\ j + n + 1 = j + (n + 1) /\ j + n + 2 = j + (n + 2)
        /\ j + n + 3 = j + (n + 3) /\ j + n + 4 = j + (n + 4)
    OBVIOUS
  <2> QED BY <2>1
<1> HIDE DEF b
<1>3. x \in Nat /\ Makes(s, j, n + 1, x1)
  BY <1>1, <1>2, MakesNext
<1>4. n + 1 \in Nat /\ n + 2 \in Nat /\ n + 3 \in Nat /\ n + 4 \in Nat
      /\ (n + 1) + 1 = n + 2 /\ (n + 2) + 1 = n + 3 /\ (n + 3) + 1 = n + 4 /\ (n + 4) + 1 = n + 5
  OBVIOUS
<1> HIDE DEF x1
<1>5. x1 \in Nat /\ Makes(s, j, n + 2, x2)
  BY <1>1, <1>2, <1>3, <1>4, MakesNext
<1> HIDE DEF x2
<1>6. x2 \in Nat /\ Makes(s, j, n + 3, x3)
  BY <1>1, <1>2, <1>4, <1>5, MakesNext
<1> HIDE DEF x3
<1>7. x3 \in Nat /\ Makes(s, j, n + 4, x4)
  BY <1>1, <1>2, <1>4, <1>6, MakesNext
<1> HIDE DEF x4
<1>8. x4 \in Nat /\ Makes(s, j, n + 5, x5)
  BY <1>1, <1>2, <1>4, <1>7, MakesNext
<1>9. x5 = x * 32 + (16 * b(0) + 8 * b(1) + 4 * b(2) + 2 * b(3) + b(4))
  BY <1>1, <1>3 DEF x1, x2, x3, x4
<1> QED BY <1>8, <1>9 DEF b

\* The first eight of the bits are a byte.
LEMMA FirstByte ==
  ASSUME NEW s, NEW j \in Nat, NEW n \in Nat, n >= 8, NEW u, Goes(u, s, j, n),
         \A k \in 0..7 : Bit(s, j + k) \in 0..1
  PROVE  u[8] = Octet(s, j) /\ u[8] \in Byte
<1> DEFINE b(k) == Bit(s, j + k)
<1>1. /\ u[0] = 0 /\ u[0+1] = 2 * u[0] + b(0) /\ u[1+1] = 2 * u[1] + b(1)
      /\ u[2+1] = 2 * u[2] + b(2) /\ u[3+1] = 2 * u[3] + b(3) /\ u[4+1] = 2 * u[4] + b(4)
      /\ u[5+1] = 2 * u[5] + b(5) /\ u[6+1] = 2 * u[6] + b(6) /\ u[7+1] = 2 * u[7] + b(7)
  <2>1. u[0] = 0 /\ \A k \in 0..(n-1) : u[k+1] = 2 * u[k] + b(k)
    BY DEF Goes
  <2>2. \A k \in 0..7 : k \in 0..(n-1)
    OBVIOUS
  <2>3. \A k \in 0..7 : u[k+1] = 2 * u[k] + b(k)
    BY ONLY <2>1, <2>2
  <2> HIDE DEF b
  <2> QED BY ONLY <2>1, <2>3
<1>2. /\ b(0) \in 0..1 /\ b(1) \in 0..1 /\ b(2) \in 0..1 /\ b(3) \in 0..1
      /\ b(4) \in 0..1 /\ b(5) \in 0..1 /\ b(6) \in 0..1 /\ b(7) \in 0..1
  OBVIOUS
<1>3. b(0) = Bit(s, j)
  <2>1. j + 0 = j
    OBVIOUS
  <2> QED BY <2>1
<1> HIDE DEF b
<1>4. u[8] = 128*b(0) + 64*b(1) + 32*b(2) + 16*b(3) + 8*b(4) + 4*b(5) + 2*b(6) + b(7)
  BY ONLY <1>1, <1>2
<1>5. u[8] \in 0..255
  BY ONLY <1>2, <1>4
<1> QED BY <1>3, <1>4, <1>5 DEF Octet, Byte, b

\* The bits behind the first f make the remainder of the number by p, the
\* power of two for their count, and the first f make the quotient.
Splits(u, s, j, f, m, p) ==
  \E r \in 0..(p-1) : u[f+m] = p * u[f] + r /\ Makes(s, j + f, m, r)

LEMMA SplitsNext ==
  ASSUME NEW s, NEW j \in Nat, NEW f \in Nat, NEW m \in Nat, NEW n \in Nat, f + m < n,
         NEW u, Goes(u, s, j, n), Bit(s, j + f + m) \in 0..1,
         NEW p \in Nat \ {0}, Splits(u, s, j, f, m, p)
  PROVE  Splits(u, s, j, f, m + 1, 2 * p)
<1> DEFINE b == Bit(s, j + f + m)
<1>1. PICK r \in 0..(p-1) : u[f+m] = p * u[f] + r /\ Makes(s, j + f, m, r)
  BY DEF Splits
<1>2. u[f + (m + 1)] = 2 * u[f+m] + b /\ u[f] \in Nat
  <2>1. /\ f + (m + 1) = (f + m) + 1 /\ j + (f + m) = j + f + m
        /\ f + m \in 0..(n-1) /\ f \in 0..n
    OBVIOUS
  <2> QED BY <2>1 DEF Goes
<1>3. Makes(s, j + f, m + 1, 2 * r + b)
  <2>1. j + f \in Nat
    OBVIOUS
  <2> QED BY <1>1, <2>1, MakesNext
<1>4. b \in 0..1
  OBVIOUS
<1> HIDE DEF b
<1>5. 2 * r + b \in 0..(2 * p - 1)
  BY <1>4
<1>6. u[f + (m + 1)] = (2 * p) * u[f] + (2 * r + b)
  <2>1. 2 * (p * u[f] + r) = (2 * p) * u[f] + 2 * r
    BY <1>2
  <2>2. p * u[f] \in Nat /\ (2 * p) * u[f] \in Nat
    BY <1>2
  <2> QED BY <1>1, <1>2, <1>4, <2>1, <2>2
<1> QED BY <1>3, <1>5, <1>6 DEF Splits

LEMMA SplitsAll ==
  ASSUME NEW s, NEW j \in Nat, NEW f \in Nat, NEW m \in 0..7, NEW u, Goes(u, s, j, f + m),
         \A k \in 0..(f + m - 1) : Bit(s, j + k) \in 0..1
  PROVE  Splits(u, s, j, f, m, 2^m)
<1>1. ASSUME NEW k \in Nat, k < m, NEW p \in Nat \ {0}, Splits(u, s, j, f, k, p)
      PROVE  Splits(u, s, j, f, k + 1, 2 * p)
  <2>1. j + f + k = j + (f + k) /\ f + k \in 0..(f + m - 1) /\ f + k < f + m /\ f + m \in Nat
    BY <1>1
  <2>2. Bit(s, j + f + k) \in 0..1
    BY <2>1
  <2> QED BY <1>1, <2>1, <2>2, SplitsNext
<1>2. Splits(u, s, j, f, 0, 1)
  <2>1. Makes(s, j + f, 0, 0)
    BY MakesNone
  <2>2. u[f + 0] = 1 * u[f] + 0
    BY DEF Goes
  <2> QED BY <2>1, <2>2 DEF Splits
<1>3. m >= 1 => Splits(u, s, j, f, 1, 2)
  BY <1>1, <1>2
<1>4. m >= 2 => Splits(u, s, j, f, 2, 4)
  BY <1>1, <1>3
<1>5. m >= 3 => Splits(u, s, j, f, 3, 8)
  BY <1>1, <1>4
<1>6. m >= 4 => Splits(u, s, j, f, 4, 16)
  BY <1>1, <1>5
<1>7. m >= 5 => Splits(u, s, j, f, 5, 32)
  BY <1>1, <1>6
<1>8. m >= 6 => Splits(u, s, j, f, 6, 64)
  BY <1>1, <1>7
<1>9. m >= 7 => Splits(u, s, j, f, 7, 128)
  BY <1>1, <1>8
<1> DEFINE p == 2^m
<1>10. /\ (m = 0 => p = 1) /\ (m = 1 => p = 2) /\ (m = 2 => p = 4) /\ (m = 3 => p = 8)
       /\ (m = 4 => p = 16) /\ (m = 5 => p = 32) /\ (m = 6 => p = 64) /\ (m = 7 => p = 128)
  BY Powers
<1> HIDE DEF p
<1>11. m = 0 \/ m = 1 \/ m = 2 \/ m = 3 \/ m = 4 \/ m = 5 \/ m = 6 \/ m = 7
  OBVIOUS
<1>12. Splits(u, s, j, f, m, p)
  BY <1>2, <1>3, <1>4, <1>5, <1>6, <1>7, <1>8, <1>9, <1>10, <1>11
<1> QED BY <1>12 DEF p

\* Quotient and remainder by a power of two are the front and the back.
LEMMA SplitsCut ==
  ASSUME NEW s, NEW j \in Nat, NEW f \in Nat, NEW m \in 0..7, NEW u, Goes(u, s, j, f + m),
         u[f] \in Nat, \A k \in 0..(f + m - 1) : Bit(s, j + k) \in 0..1
  PROVE  /\ u[f + m] \div 2^m = u[f]
         /\ Makes(s, j + f, m, u[f + m] % 2^m)
<1> DEFINE p == 2^m
           y == u[f + m]
<1>1. p \in Nat \ {0}
  <2>1. /\ (m = 0 => p = 1) /\ (m = 1 => p = 2) /\ (m = 2 => p = 4) /\ (m = 3 => p = 8)
        /\ (m = 4 => p = 16) /\ (m = 5 => p = 32) /\ (m = 6 => p = 64) /\ (m = 7 => p = 128)
    BY Powers
  <2>2. m = 0 \/ m = 1 \/ m = 2 \/ m = 3 \/ m = 4 \/ m = 5 \/ m = 6 \/ m = 7
    OBVIOUS
  <2> HIDE DEF p
  <2> QED BY <2>1, <2>2
<1>2. PICK r \in 0..(p-1) : y = p * u[f] + r /\ Makes(s, j + f, m, r)
  BY SplitsAll DEF Splits
<1> HIDE DEF p, y
<1>3. y = u[f] * p + r
  BY <1>1, <1>2
<1>4. y \div p = u[f] /\ y % p = r
  <2>1. (u[f] * p + r) \div p = u[f] /\ (u[f] * p + r) % p = r
    BY <1>1, Periods
  <2> QED BY <1>3, <2>1
<1> QED BY <1>2, <1>4 DEF p, y

\* The quotient and the remainder that the decoder takes.
LEMMA Cut ==
  ASSUME NEW s, NEW j \in Nat, NEW m \in 0..4, NEW y, Makes(s, j, 8 + m, y),
         \A k \in 0..(7 + m) : Bit(s, j + k) \in 0..1
  PROVE  /\ y \div 2^m = Octet(s, j) /\ Octet(s, j) \in Byte
         /\ Makes(s, j + 8, m, y % 2^m)
<1>1. PICK u : Goes(u, s, j, 8 + m) /\ u[8 + m] = y
  BY DEF Makes
<1>2. u[8] = Octet(s, j) /\ u[8] \in Byte
  BY <1>1, FirstByte
<1>3. u[8] \in Nat /\ 8 + m - 1 = 7 + m /\ m \in 0..7 /\ 8 \in Nat
  BY <1>2 DEF Byte
<1>4. \A k \in 0..(8 + m - 1) : Bit(s, j + k) \in 0..1
  BY <1>3
<1>5. u[8 + m] \div 2^m = u[8] /\ Makes(s, j + 8, m, u[8 + m] % 2^m)
  BY <1>1, <1>3, <1>4, SplitsCut
<1> QED BY <1>1, <1>2, <1>5

\* What so few bits make is below the power of two for their count.
LEMMA Below ==
  ASSUME NEW s, NEW j \in Nat, NEW n \in 0..7, NEW x, Makes(s, j, n, x),
         \A k \in 0..(n-1) : Bit(s, j + k) \in 0..1
  PROVE  x \in 0..(2^n - 1)
<1>1. PICK u : Goes(u, s, j, n) /\ u[n] = x
  BY DEF Makes
<1> DEFINE Small(k, p) == u[k] \in 0..(p-1)
<1>2. ASSUME NEW k \in Nat, k < n, NEW p \in Nat, Small(k, p)
      PROVE  Small(k + 1, 2 * p)
  <2>1. u[k+1] = 2 * u[k] + Bit(s, j + k) /\ Bit(s, j + k) \in 0..1
    BY <1>1, <1>2 DEF Goes
  <2> QED BY <1>2, <2>1
<1>3. Small(0, 1)
  BY <1>1 DEF Goes
<1> HIDE DEF Small
<1>4. n >= 1 => Small(1, 2)
  BY <1>2, <1>3
<1>5. n >= 2 => Small(2, 4)
  BY <1>2, <1>4
<1>6. n >= 3 => Small(3, 8)
  BY <1>2, <1>5
<1>7. n >= 4 => Small(4, 16)
  BY <1>2, <1>6
<1>8. n >= 5 => Small(5, 32)
  BY <1>2, <1>7
<1>9. n >= 6 => Small(6, 64)
  BY <1>2, <1>8
<1>10. n >= 7 => Small(7, 128)
  BY <1>2, <1>9
<1> DEFINE p == 2^n
<1>11. /\ (n = 0 => p = 1) /\ (n = 1 => p = 2) /\ (n = 2 => p = 4) /\ (n = 3 => p = 8)
       /\ (n = 4 => p = 16) /\ (n = 5 => p = 32) /\ (n = 6 => p = 64) /\ (n = 7 => p = 128)
  BY Powers
<1> HIDE DEF p
<1>12. Small(n, p)
  BY <1>3, <1>4, <1>5, <1>6, <1>7, <1>8, <1>9, <1>10, <1>11
<1> QED BY <1>1, <1>12 DEF Small, p

LEMMA Below128 ==
  ASSUME NEW s, NEW j \in Nat, NEW n \in 0..7, NEW x, Makes(s, j, n, x),
         \A k \in 0..(n-1) : Bit(s, j + k) \in 0..1
  PROVE  x \in 0..127
<1> DEFINE p == 2^n
<1>1. x \in 0..(p - 1)
  BY Below
<1>2. /\ (n = 0 => p = 1) /\ (n = 1 => p = 2) /\ (n = 2 => p = 4) /\ (n = 3 => p = 8)
      /\ (n = 4 => p = 16) /\ (n = 5 => p = 32) /\ (n = 6 => p = 64) /\ (n = 7 => p = 128)
  BY Powers
<1> HIDE DEF p
<1>3. n = 0 \/ n = 1 \/ n = 2 \/ n = 3 \/ n = 4 \/ n = 5 \/ n = 6 \/ n = 7
  OBVIOUS
<1> QED BY ONLY <1>1, <1>2, <1>3

Decoder == [out : Seq(Byte), buffer : 0..127, bits : 0..7]

\* c symbols of s were taken: the whole bytes of their bits are written, and
\* the others, less than a byte, are held.
Taken(s, c, st) ==
  /\ st \in Decoder
  /\ 5 * c = 8 * Len(st.out) + st.bits
  /\ \A i \in 1..Len(st.out) : st.out[i] = Octet(s, 8*i - 8)
  /\ Makes(s, 8 * Len(st.out), st.bits, st.buffer)

LEMMA TakenNone ==
  ASSUME NEW s
  PROVE  Taken(s, 0, Start32)
<1>1. << >> \in Seq(Byte) /\ Len(<< >>) = 0
  BY EmptySeq
<1>2. Start32.out = << >> /\ Start32.bits = 0 /\ Start32.buffer = 0 /\ Start32 \in Decoder
  BY <1>1 DEF Start32, Decoder
<1> QED BY <1>1, <1>2, MakesNone DEF Taken

LEMMA TakenNext ==
  ASSUME NEW s \in Seq(Symbol), NEW c \in Nat, c < Len(s), NEW st, Taken(s, c, st)
  PROVE  Taken(s, c + 1, DecodeSymbol(st, s[c+1]))
<1> DEFINE L == Len(st.out)
           n == st.bits
           j == 8 * L
           y == st.buffer * 32 + DECODE_TABLE[s[c+1]]
<1>1. /\ st \in Decoder /\ st.out \in Seq(Byte) /\ n \in 0..7 /\ Makes(s, j, n, st.buffer)
      /\ \A i \in 1..L : st.out[i] = Octet(s, 8*i - 8)
  BY DEF Taken, Decoder
<1>2. L \in Nat /\ Len(s) \in Nat /\ 5 * c = j + n
  BY <1>1, LenProperties DEF Taken
<1>3. Len(s) >= c + 1
  BY <1>2
<1> HIDE DEF L, n
<1>4. j \in Nat /\ j + (n + 5) <= 5 * Len(s)
  BY ONLY <1>1, <1>2, <1>3
<1> HIDE DEF j
<1>5. \A k \in 0..(n + 4) : Bit(s, j + k) \in 0..1
  <2>1. \A k \in 0..(n + 4) : j + k \in Nat /\ j + k < 5 * Len(s)
    BY ONLY <1>1, <1>2, <1>4
  <2> QED BY <2>1, Bits
<1>6. Makes(s, j, n + 5, y)
  <2> DEFINE b(k) == Bit(s, j + n + k)
  <2>1. DECODE_TABLE[s[c+1]] = 16 * b(0) + 8 * b(1) + 4 * b(2) + 2 * b(3) + b(4)
    BY <1>2, BitsOfSymbol
  <2>2. \A k \in 0..4 : b(k) \in 0..1
    BY <1>2, BitsOfSymbol
  <2>3. n \in Nat
    BY <1>1
  <2> QED BY <1>1, <1>4, <2>1, <2>2, <2>3, MakesFive
<1> HIDE DEF y
<1> DEFINE next == DecodeSymbol(st, s[c+1])
<1>7. CASE n < 3
  <2>1. next = [out |-> st.out, buffer |-> y, bits |-> n + 5]
    <3> DEFINE k == st.bits + 5
    <3>1. k = n + 5 /\ ~(k >= 8)
      <4>1. n \in 0..7
        BY <1>1
      <4> QED BY ONLY <1>7, <4>1 DEF n
    <3>2. next = IF k >= 8
                   THEN [out |-> Append(st.out, y \div 2^(k - 8)),
                         buffer |-> y % 2^(k - 8), bits |-> k - 8]
                   ELSE [out |-> st.out, buffer |-> y, bits |-> k]
      BY DEF DecodeSymbol, y
    <3> HIDE DEF k, next
    <3> QED BY ONLY <3>1, <3>2
  <2>2. n + 5 \in 0..7
    BY <1>1, <1>7
  <2>3. y \in 0..127
    <3> DEFINE N == n + 5
    <3>1. \A k \in 0..(N - 1) : Bit(s, j + k) \in 0..1
      <4>1. N - 1 = n + 4
        BY ONLY <1>1
      <4> HIDE DEF N
      <4> QED BY <1>5, <4>1
    <3>2. N \in 0..7 /\ Makes(s, j, N, y)
      BY <1>6, <2>2
    <3> HIDE DEF N
    <3> QED BY <1>4, <3>1, <3>2, Below128
  <2>5. next \in Decoder /\ next.out = st.out /\ next.bits = n + 5 /\ next.buffer = y
    BY <1>1, <2>1, <2>2, <2>3 DEF Decoder
  <2>6. 5 * (c + 1) = 8 * L + (n + 5)
    BY ONLY <1>1, <1>2 DEF j
  <2> HIDE DEF next
  <2>7. Len(next.out) = L
    BY <2>5 DEF L
  <2>8. \A i \in 1..L : next.out[i] = Octet(s, 8*i - 8)
    BY <1>1, <2>5
  <2>9. Makes(s, 8 * Len(next.out), next.bits, next.buffer)
    BY <1>6, <2>5, <2>7 DEF j
  <2>10. 5 * (c + 1) = 8 * Len(next.out) + next.bits
    BY <2>5, <2>6, <2>7
  <2>11. \A i \in 1..Len(next.out) : next.out[i] = Octet(s, 8*i - 8)
    BY <2>7, <2>8
  <2>12. next \in Decoder
    BY <2>5
  <2> QED BY ONLY <2>9, <2>10, <2>11, <2>12 DEF Taken, next
<1>8. CASE n >= 3
  <2> DEFINE m == n - 3
             byte == Octet(s, j)
  <2>1. m \in 0..4 /\ n + 5 = 8 + m /\ n + 5 - 8 = m /\ n + 5 >= 8
    BY <1>1, <1>8
  <2> HIDE DEF m
  <2>2. next = [out |-> Append(st.out, y \div 2^m), buffer |-> y % 2^m, bits |-> m]
    <3> DEFINE k == st.bits + 5
    <3>1. k - 8 = m /\ k >= 8
      BY <2>1 DEF n
    <3>2. next = IF k >= 8
                   THEN [out |-> Append(st.out, y \div 2^(k - 8)),
                         buffer |-> y % 2^(k - 8), bits |-> k - 8]
                   ELSE [out |-> st.out, buffer |-> y, bits |-> k]
      BY DEF DecodeSymbol, y
    <3> HIDE DEF k, next
    <3> QED BY <3>1, <3>2
  <2>3. \A k \in 0..(7 + m) : Bit(s, j + k) \in 0..1
    <3>1. n + 4 = 7 + m
      BY ONLY <1>1, <2>1
    <3> QED BY ONLY <1>5, <3>1
  <2>4. y \div 2^m = byte /\ byte \in Byte /\ Makes(s, j + 8, m, y % 2^m)
    BY <1>4, <1>6, <2>1, <2>3, Cut
  <2>5. y % 2^m \in 0..127
    <3>1. \A k \in 0..(m - 1) : Bit(s, j + 8 + k) \in 0..1
      <4>1. \A k \in 0..(m - 1) : 8 + k \in 0..(7 + m) /\ j + 8 + k = j + (8 + k)
        BY <1>4, <2>1
      <4> QED BY <2>3, <4>1
    <3>2. m \in 0..7 /\ j + 8 \in Nat
      BY <1>4, <2>1
    <3> QED BY <2>4, <3>1, <3>2, Below128
  <2> HIDE DEF byte
  <2>6. /\ Append(st.out, byte) \in Seq(Byte) /\ Len(Append(st.out, byte)) = L + 1
        /\ \A i \in 1..L : Append(st.out, byte)[i] = st.out[i]
        /\ Append(st.out, byte)[L + 1] = byte
    BY <1>1, <2>4, AppendProperties DEF L
  <2>7. /\ next \in Decoder /\ next.out = Append(st.out, byte) /\ next.bits = m
        /\ next.buffer = y % 2^m
    <3>1. next = [out |-> Append(st.out, byte), buffer |-> y % 2^m, bits |-> m]
      BY <2>2, <2>4
    <3> HIDE DEF next
    <3>2. m \in 0..7
      BY <2>1
    <3> QED BY <2>5, <2>6, <3>1, <3>2 DEF Decoder
  <2> HIDE DEF next
  <2>8. 8 * (L + 1) = j + 8 /\ 8 * (L + 1) - 8 = j /\ 5 * (c + 1) = 8 * (L + 1) + m
    BY ONLY <1>1, <1>2, <2>1 DEF j, m
  <2>9. ASSUME NEW i \in 1..(L + 1) PROVE next.out[i] = Octet(s, 8*i - 8)
    <3>1. i \in 1..L \/ i = L + 1
      BY <1>2
    <3> QED BY <1>1, <2>6, <2>7, <2>8, <3>1 DEF byte
  <2>10. Len(next.out) = L + 1
    BY <2>6, <2>7
  <2>11. Makes(s, 8 * Len(next.out), next.bits, next.buffer)
    BY <2>4, <2>7, <2>8, <2>10
  <2>12. 5 * (c + 1) = 8 * Len(next.out) + next.bits
    BY <2>7, <2>8, <2>10
  <2>13. \A i \in 1..Len(next.out) : next.out[i] = Octet(s, 8*i - 8)
    BY <2>9, <2>10
  <2>14. next \in Decoder
    BY <2>7
  <2> QED BY ONLY <2>11, <2>12, <2>13, <2>14 DEF Taken, next
<1> QED BY <1>1, <1>7, <1>8

LEMMA WholeBytes ==
  ASSUME NEW a \in Nat, NEW b \in 0..7, NEW w \in Nat, w = 8 * a + b
  PROVE  w \div 8 = a
OBVIOUS

\* Decoded to the end.
LEMMA TakenAll ==
  ASSUME NEW s \in Seq(Symbol), NEW st, Taken(s, Len(s), st)
  PROVE  st.out = Decoded(s) /\ (st.out = << >> => Len(s) <= 1)
<1> DEFINE L == Len(st.out)
           d == Decoded(s)
<1>1. /\ st.out \in Seq(Byte) /\ st.bits \in 0..7 /\ 5 * Len(s) = 8 * L + st.bits
      /\ \A i \in 1..L : st.out[i] = Octet(s, 8*i - 8)
  BY DEF Taken, Decoder
<1>2. L \in Nat /\ Len(s) \in Nat /\ DOMAIN st.out = 1..L
  BY <1>1, LenProperties
<1>3. (5 * Len(s)) \div 8 = L
  <2>1. L \in Nat /\ 5 * Len(s) \in Nat /\ st.bits \in 0..7 /\ 5 * Len(s) = 8 * L + st.bits
    BY <1>1, <1>2
  <2> HIDE DEF L
  <2> QED BY ONLY <2>1, WholeBytes
<1>4. d = [i \in 1..L |-> Octet(s, 8*i - 8)]
  BY <1>3 DEF Decoded
<1>5. st.out = [i \in 1..L |-> st.out[i]]
  BY <1>1, <1>2
<1>6. ASSUME st.out = << >> PROVE Len(s) <= 1
  <2>1. L = 0
    BY <1>6, EmptySeq
  <2> HIDE DEF L
  <2> QED BY ONLY <1>1, <1>2, <2>1
<1> HIDE DEF L, d
<1>7. st.out = d
  BY <1>1, <1>4, <1>5
<1> QED BY <1>6, <1>7 DEF d

-----------------------------------------------------------------------------
(* The secret, from the prompt to its bytes.                               *)

\* So many symbols of an accepted secret were taken, and the others wait.
Decoding ==
  LET d == Data(secret)
      c == Len(d) - Len(left)
  IN  /\ base32_normalize(secret) = secret /\ base32_validate(secret)
      /\ left \in Seq(Symbol) /\ Len(left) <= Len(d)
      /\ \A i \in 1..Len(left) : left[i] = d[c + i]
      /\ Taken(d, c, decoder)

SecretInv ==
  /\ pc \in {"prompt", "rejected", "decode", "stored", "hash", "shown"}
  /\ secret \in Seq(Byte)
  /\ unix_time \in Times \cup {0}
  /\ pc \in {"prompt", "rejected"} => left = << >> /\ decoder = Start32
  /\ pc \in {"decode", "stored", "hash", "shown"} => Decoding
  /\ pc \in {"stored", "hash", "shown"} => left = << >>

LEMMA SecretInit == Init => SecretInv
BY TypedAssumption DEF Init, SecretInv

LEMMA SecretAccept == SecretInv /\ Accept => SecretInv'
<1> SUFFICES ASSUME SecretInv, Accept PROVE SecretInv'
  OBVIOUS
<1> DEFINE s == base32_normalize(secret)
           d == Data(s)
<1>1. /\ secret \in Seq(Byte) /\ secret' = s /\ base32_validate(s) /\ decoder = Start32
      /\ unix_time \in Times \cup {0}
      /\ decoder' = decoder /\ unix_time' = unix_time
      /\ IF DecodeThrows(secret') THEN pc' = "thrown" /\ left' = left
           ELSE pc' = "decode" /\ left' = Data(base32_normalize(secret'))
  BY DEF Accept, SecretInv
<1>2. s \in Seq(Byte) /\ base32_normalize(s) = s
  BY <1>1, Normalised
<1>3. d \in Seq(Symbol) /\ ~DecodeThrows(s)
  BY <1>1, <1>2, Accepted
<1>4. pc' = "decode" /\ left' = d
  BY <1>1, <1>2, <1>3
<1>5. Len(d) \in Nat
  BY <1>3, LenProperties
<1> HIDE DEF s, d
<1>6. Data(secret') = d /\ base32_normalize(secret') = secret' /\ base32_validate(secret')
  BY <1>1, <1>2 DEF d
<1>7. Taken(d, 0, decoder')
  BY <1>1, TakenNone
<1>8. Len(d) - Len(left') = 0 /\ Len(left') <= Len(d) /\ left' \in Seq(Symbol)
  BY <1>3, <1>4, <1>5
<1>9. \A i \in 1..Len(left') : left'[i] = d[0 + i]
  BY <1>4, <1>5
<1>10. Decoding'
  BY <1>6, <1>7, <1>8, <1>9 DEF Decoding
<1> QED BY <1>1, <1>2, <1>4, <1>10 DEF SecretInv

LEMMA SecretDecode == SecretInv /\ Decode => SecretInv'
<1> SUFFICES ASSUME SecretInv, Decode PROVE SecretInv'
  OBVIOUS
<1> DEFINE d == Data(secret)
           c == Len(d) - Len(left)
<1>1. /\ pc = "decode" /\ secret' = secret /\ unix_time' = unix_time /\ Decoding
      /\ secret \in Seq(Byte) /\ unix_time \in Times \cup {0}
  BY DEF Decode, SecretInv
<1>2. /\ base32_normalize(secret) = secret /\ base32_validate(secret)
      /\ left \in Seq(Symbol) /\ Len(left) <= Len(d)
      /\ \A i \in 1..Len(left) : left[i] = d[c + i]
      /\ Taken(d, c, decoder)
  BY <1>1 DEF Decoding
<1>3. d \in Seq(Symbol)
  BY <1>1, <1>2, Accepted
<1>4. Len(d) \in Nat /\ Len(left) \in Nat
  BY <1>2, <1>3, LenProperties
<1>5. CASE left = << >>
  <2>1. pc' = "stored" /\ left' = left /\ decoder' = decoder
    BY <1>5 DEF Decode
  <2>2. Decoding'
    BY <1>1, <2>1 DEF Decoding
  <2> QED BY <1>1, <1>5, <2>1, <2>2 DEF SecretInv
<1>6. CASE left # << >>
  <2>1. pc' = "decode" /\ left' = Tail(left) /\ decoder' = DecodeSymbol(decoder, Head(left))
    BY <1>1, <1>6 DEF Decode
  <2>2. /\ Len(left) >= 1 /\ Head(left) = left[1] /\ left' \in Seq(Symbol)
        /\ Len(left') = Len(left) - 1
        /\ \A i \in 1..Len(left') : left'[i] = left[i + 1]
    BY <1>2, <1>4, <1>6, <2>1, HeadTailProperties, EmptySeq
  <2> HIDE DEF d
  <2>3. c \in Nat /\ c < Len(d) /\ c + 1 = Len(d) - Len(left')
    BY <1>2, <1>4, <2>2
  <2>4. Len(left') <= Len(d)
    BY <1>2, <1>4, <2>2
  <2>5. Head(left) = d[c + 1]
    BY <1>2, <2>2
  <2>6. \A i \in 1..Len(left') : left'[i] = d[(c + 1) + i]
    <3>1. \A i \in 1..Len(left') : i + 1 \in 1..Len(left) /\ c + (i + 1) = (c + 1) + i
      BY ONLY <1>4, <2>2, <2>3
    <3> QED BY <1>2, <2>2, <3>1
  <2> HIDE DEF c
  <2>7. Taken(d, c + 1, DecodeSymbol(decoder, d[c + 1]))
    BY <1>2, <1>3, <2>3, TakenNext
  <2>8. Taken(d, c + 1, decoder')
    BY <2>1, <2>5, <2>7
  <2>9. Data(secret') = d
    BY <1>1 DEF d
  <2>10. Decoding'
    BY <1>1, <1>2, <2>2, <2>3, <2>4, <2>6, <2>8, <2>9 DEF Decoding
  <2> QED BY <1>1, <2>1, <2>10 DEF SecretInv
<1> QED BY <1>5, <1>6

\* The other steps leave the secret and its decoder alone.
LEMMA SecretKept ==
  ASSUME SecretInv, UNCHANGED <<secret, left, decoder>>,
         unix_time' \in Times \cup {0},
         \/ pc' = pc \/ (pc = "prompt" /\ pc' = "rejected")
         \/ (pc \in {"stored", "hash"} /\ pc' \in {"hash", "shown"})
  PROVE  SecretInv'
<1>1. Decoding' <=> Decoding
  BY DEF Decoding
<1> QED BY <1>1 DEF SecretInv

LEMMA SecretNext == SecretInv /\ [Next]_vars => SecretInv'
<1> SUFFICES ASSUME SecretInv, [Next]_vars PROVE SecretInv'
  OBVIOUS
<1>1. unix_time \in Times \cup {0}
  BY DEF SecretInv
<1>2. CASE Reject
  BY <1>1, <1>2, SecretKept DEF Reject
<1>3. CASE Accept
  BY <1>3, SecretAccept
<1>4. CASE Decode
  BY <1>4, SecretDecode
<1>5. CASE \E now \in Times : Generate(now)
  BY <1>5, SecretKept DEF Generate
<1>6. CASE Hash
  BY <1>1, <1>6, SecretKept DEF Hash
<1>7. CASE Show
  BY <1>1, <1>7, SecretKept DEF Show
<1>8. CASE UNCHANGED vars
  BY <1>1, <1>8, SecretKept DEF vars
<1> QED BY <1>2, <1>3, <1>4, <1>5, <1>6, <1>7, <1>8 DEF Next

LEMMA SecretAlways == Spec => []SecretInv
BY SecretInit, SecretNext, PTL DEF Spec

\* Of an accepted secret, every symbol was taken when it is used.
LEMMA DecodedWhenStored ==
  ASSUME SecretInv, pc \in {"stored", "hash", "shown"}
  PROVE  /\ raw_secret = Decoded(Data(secret))
         /\ raw_secret = << >> =>
              Len(secret) % 8 = 0 /\ \A i \in DOMAIN secret : secret[i] = Equals
<1> DEFINE d == Data(secret)
<1>1. secret \in Seq(Byte) /\ left = << >> /\ Decoding
  BY DEF SecretInv
<1>2. /\ base32_normalize(secret) = secret /\ base32_validate(secret)
      /\ Taken(d, Len(d) - Len(left), decoder)
  BY <1>1 DEF Decoding
<1>3. /\ d \in Seq(Symbol) /\ ~Uneven(Len(d))
      /\ d = << >> => Len(secret) % 8 = 0 /\ \A i \in DOMAIN secret : secret[i] = Equals
  BY <1>1, <1>2, Accepted
<1> HIDE DEF d
<1>4. Len(d) - Len(left) = Len(d) /\ Len(d) \in Nat
  BY <1>1, <1>3, LenProperties, EmptySeq
<1>5. decoder.out = Decoded(d) /\ (decoder.out = << >> => Len(d) <= 1)
  BY <1>2, <1>3, <1>4, TakenAll
<1>6. Len(d) <= 1 => d = << >>
  <2>1. Uneven(1)
    BY DEF Uneven
  <2>2. Len(d) # 1
    BY <1>3, <2>1
  <2> QED BY <1>3, <1>4, <2>2, EmptySeq
<1> QED BY <1>3, <1>5, <1>6 DEF raw_secret, d

\* Whatever base32_validate lets cmd_totp_add store, base32_decode takes
\* without a throw, and gives the bytes that the encoding defines: for every
\* secret that can be typed, of any length.
THEOREM AcceptedSecretsDecode == Spec => []AcceptedDecodes
<1>1. SecretInv => AcceptedDecodes
  <2> SUFFICES ASSUME SecretInv PROVE AcceptedDecodes
    OBVIOUS
  <2>1. pc # "thrown"
    BY DEF SecretInv
  <2>2. pc \in {"stored", "hash", "shown"} => raw_secret = Decoded(Data(secret))
    BY DecodedWhenStored
  <2> QED BY <2>1, <2>2 DEF AcceptedDecodes
<1> QED BY <1>1, SecretAlways, PTL

\* Of the secrets that are stored, only those without any symbol, which are
\* padding throughout, have no byte.
THEOREM EmptyIsPadding == Spec => []EmptyOnlyFromPadding
<1>1. SecretInv => EmptyOnlyFromPadding
  BY DecodedWhenStored DEF EmptyOnlyFromPadding
<1> QED BY <1>1, SecretAlways, PTL

\* At every time at which totp_generate may have read the clock, and for a
\* period after it, the countdown ends when the code changes.
THEOREM CountdownIsRight == Spec => []CountdownEndsWithCode
<1>1. SecretInv => CountdownEndsWithCode
  <2> SUFFICES ASSUME SecretInv,
                      NEW now \in unix_time..(unix_time + Period)
               PROVE  LET end == now + totp_remaining_seconds(now)
                      IN  /\ time_step(end - 1) = time_step(now)
                          /\ time_step(end) = time_step(now) + 1
    BY DEF CountdownEndsWithCode
  <2>1. now \in Nat
    <3>1. unix_time \in Nat
      BY TimesAssumption DEF SecretInv
    <3> QED BY <3>1, PeriodAssumption
  <2> QED BY <2>1, CountdownEnds
<1> QED BY <1>1, SecretAlways, PTL

-----------------------------------------------------------------------------
(* The encoder: the symbols it writes for the bytes of some symbols are    *)
(* those symbols, and the last one but for the bits that belong to no byte.*)

\* A symbol is what stands for its value, and normalising leaves it.
LEMMA SymbolValue ==
  ASSUME NEW c \in Symbol
  PROVE  /\ ENCODE_TABLE[DECODE_TABLE[c]] = c /\ DECODE_TABLE[c] \in 0..31
         /\ c \notin Separator /\ toupper(c) = c /\ c # Equals /\ c \in Byte
<1>1. c \in Byte /\ DECODE_TABLE[c] = make_decode_value(c) /\ DECODE_TABLE[c] \in 0..31
  BY DEF Symbol, DECODE_TABLE
<1>2. c \in 65..90 \/ c \in 50..55 \/ c = Equals \/ make_decode_value(c) = INVALID
  BY DEF make_decode_value
<1>3. CASE c \in 65..90
  <2>1. DECODE_TABLE[c] = c - 65
    BY <1>1, <1>3 DEF make_decode_value, Equals
  <2> QED BY <1>1, <1>3, <2>1 DEF ENCODE_TABLE, Separator, toupper, Equals
<1>4. CASE c \in 50..55
  <2>1. DECODE_TABLE[c] = c - 50 + 26
    BY <1>1, <1>4 DEF make_decode_value, Equals
  <2> QED BY <1>1, <1>4, <2>1 DEF ENCODE_TABLE, Separator, toupper, Equals
<1>5. c # Equals
  <2>1. make_decode_value(Equals) = PADDING
    BY DEF make_decode_value, Equals
  <2> QED BY <1>1, <2>1 DEF PADDING
<1>6. make_decode_value(c) # INVALID
  BY <1>1 DEF INVALID
<1> QED BY <1>2, <1>3, <1>4, <1>5, <1>6

LEMMA ValueSymbol ==
  ASSUME NEW x \in 0..31
  PROVE  ENCODE_TABLE[x] \in Symbol /\ DECODE_TABLE[ENCODE_TABLE[x]] = x
<1> DEFINE c == ENCODE_TABLE[x]
<1>1. c = IF x < 26 THEN 65 + x ELSE 50 + x - 26
  BY DEF ENCODE_TABLE
<1> HIDE DEF c
<1>2. CASE x < 26
  <2>1. c = 65 + x /\ c \in 65..90
    BY <1>1, <1>2
  <2>2. make_decode_value(c) = c - 65
    BY <2>1 DEF make_decode_value, Equals
  <2>3. c \in Byte /\ DECODE_TABLE[c] = x
    BY <2>1, <2>2 DEF Byte, DECODE_TABLE
  <2> QED BY <2>3 DEF Symbol, c
<1>3. CASE ~(x < 26)
  <2>1. c = 24 + x /\ c \in 50..55 /\ c \notin 65..90
    BY <1>1, <1>3
  <2>2. make_decode_value(c) = c - 50 + 26
    BY <2>1 DEF make_decode_value, Equals
  <2>3. c \in Byte /\ DECODE_TABLE[c] = x
    BY <2>1, <2>2 DEF Byte, DECODE_TABLE
  <2> QED BY <2>3 DEF Symbol, c
<1> QED BY <1>2, <1>3

\* An octet is eight more bits.
LEMMA MakesEight ==
  ASSUME NEW s, NEW j \in Nat, NEW n \in Nat, NEW x, Makes(s, j, n, x),
         \A k \in 0..7 : Bit(s, j + n + k) \in 0..1
  PROVE  Makes(s, j, n + 8, x * 256 + Octet(s, j + n))
<1> DEFINE b(k) == Bit(s, j + n + k)
           y == x * 32 + (16 * b(0) + 8 * b(1) + 4 * b(2) + 2 * b(3) + b(4))
           y1 == 2 * y  + b(5)
           y2 == 2 * y1 + b(6)
           y3 == 2 * y2 + b(7)
<1>1. /\ b(0) \in 0..1 /\ b(1) \in 0..1 /\ b(2) \in 0..1 /\ b(3) \in 0..1
      /\ b(4) \in 0..1 /\ b(5) \in 0..1 /\ b(6) \in 0..1 /\ b(7) \in 0..1
  OBVIOUS
<1>2. Makes(s, j, n + 5, y)
  <2>1. \A k \in 0..4 : Bit(s, j + n + k) \in 0..1
    OBVIOUS
  <2> QED BY <2>1, MakesFive
<1>3. /\ b(5) = Bit(s, j + (n + 5)) /\ b(6) = Bit(s, j + (n + 6)) /\ b(7) = Bit(s, j + (n + 7))
  <2>1. /\ j + n + 5 = j + (n + 5) /\ j + n + 6 = j + (n + 6) /\ j + n + 7 = j + (n + 7)
    OBVIOUS
  <2> QED BY <2>1
<1>4. Octet(s, j + n) = 128*b(0) + 64*b(1) + 32*b(2) + 16*b(3) + 8*b(4) + 4*b(5) + 2*b(6) + b(7)
  <2>1. j + n + 0 = j + n
    OBVIOUS
  <2>2. b(0) = Bit(s, j + n)
    BY <2>1
  <2> QED BY <2>2 DEF Octet
<1>5. x \in Nat
  BY DEF Makes, Goes
<1> HIDE DEF b
<1>6. n + 5 \in Nat /\ n + 6 \in Nat /\ n + 7 \in Nat
      /\ (n + 5) + 1 = n + 6 /\ (n + 6) + 1 = n + 7 /\ (n + 7) + 1 = n + 8
  OBVIOUS
<1>7. y3 = x * 256
          + (128*b(0) + 64*b(1) + 32*b(2) + 16*b(3) + 8*b(4) + 4*b(5) + 2*b(6) + b(7))
  BY ONLY <1>1, <1>5
<1> HIDE DEF y
<1>8. y \in Nat /\ Makes(s, j, n + 6, y1)
  BY <1>1, <1>2, <1>3, <1>6, MakesNext
<1> HIDE DEF y1
<1>9. y1 \in Nat /\ Makes(s, j, n + 7, y2)
  BY <1>1, <1>3, <1>6, <1>8, MakesNext
<1> HIDE DEF y2
<1>10. Makes(s, j, n + 8, y3)
  BY <1>1, <1>3, <1>6, <1>9, MakesNext
<1> HIDE DEF y3
<1> QED BY <1>4, <1>7, <1>10

\* The first five of the bits are a symbol.
LEMMA CutSymbol ==
  ASSUME NEW s \in Seq(Symbol), NEW c \in Nat, c < Len(s), NEW m \in 0..7, NEW y,
         Makes(s, 5 * c, 5 + m, y),
         \A k \in 0..(4 + m) : Bit(s, 5 * c + k) \in 0..1
  PROVE  /\ y \in Nat
         /\ y \div 2^m = DECODE_TABLE[s[c+1]] /\ DECODE_TABLE[s[c+1]] \in 0..31
         /\ Makes(s, 5 * (c + 1), m, y % 2^m)
<1> DEFINE j == 5 * c
           b(k) == Bit(s, j + k)
           x == DECODE_TABLE[s[c+1]]
<1>1. PICK u : Goes(u, s, j, 5 + m) /\ u[5 + m] = y
  BY DEF Makes
<1>2. /\ \A k \in 0..4 : b(k) \in 0..1
      /\ x = 16 * b(0) + 8 * b(1) + 4 * b(2) + 2 * b(3) + b(4)
  BY BitsOfSymbol
<1>3. /\ u[0] = 0 /\ u[0+1] = 2 * u[0] + b(0) /\ u[1+1] = 2 * u[1] + b(1)
      /\ u[2+1] = 2 * u[2] + b(2) /\ u[3+1] = 2 * u[3] + b(3) /\ u[4+1] = 2 * u[4] + b(4)
  BY <1>1 DEF Goes
<1>4. b(0) \in 0..1 /\ b(1) \in 0..1 /\ b(2) \in 0..1 /\ b(3) \in 0..1 /\ b(4) \in 0..1
  BY <1>2
<1>5. j \in Nat /\ j + 5 = 5 * (c + 1) /\ 5 + m - 1 = 4 + m
  OBVIOUS
<1>6. \A k \in 0..(5 + m - 1) : Bit(s, j + k) \in 0..1
  BY <1>5
<1>7. u[5 + m] \in Nat
  BY <1>1 DEF Goes
<1> HIDE DEF b, x, j
<1>8. u[5] = x /\ x \in 0..31
  <2>1. u[5] = 16 * b(0) + 8 * b(1) + 4 * b(2) + 2 * b(3) + b(4)
    <3>1. u[1] = b(0)
      BY ONLY <1>3, <1>4
    <3>2. u[2] = 2 * b(0) + b(1)
      BY ONLY <1>3, <1>4, <3>1
    <3>3. u[3] = 4 * b(0) + 2 * b(1) + b(2)
      BY ONLY <1>3, <1>4, <3>2
    <3>4. u[4] = 8 * b(0) + 4 * b(1) + 2 * b(2) + b(3)
      BY ONLY <1>3, <1>4, <3>3
    <3> QED BY ONLY <1>3, <1>4, <3>4
  <2>2. u[5] = x
    BY <1>2, <2>1
  <2>3. x \in 0..31
    <3>1. s[c + 1] \in Symbol
      BY ElementOfSeq, LenProperties
    <3> QED BY <3>1 DEF Symbol, x
  <2> QED BY <2>2, <2>3
<1>9. u[5] \in Nat /\ 5 \in Nat
  BY <1>8
<1>10. u[5 + m] \div 2^m = u[5] /\ Makes(s, j + 5, m, u[5 + m] % 2^m)
  BY <1>1, <1>5, <1>6, <1>9, SplitsCut
<1> QED BY <1>1, <1>5, <1>7, <1>8, <1>10 DEF x, j

\* c bytes of those that s encodes were taken: the symbols of their bits are
\* written, and the others, less than a symbol, are held.
Written(s, c, st) ==
  /\ st.out \in Seq(Symbol) /\ st.bits \in 0..4
  /\ 8 * c = 5 * Len(st.out) + st.bits
  /\ \A i \in 1..Len(st.out) : st.out[i] = s[i]
  /\ Makes(s, 5 * Len(st.out), st.bits, st.buffer)

LEMMA WrittenNone ==
  ASSUME NEW s
  PROVE  Written(s, 0, Start32)
<1>1. << >> \in Seq(Symbol) /\ Len(<< >>) = 0
  BY EmptySeq
<1>2. Start32.out = << >> /\ Start32.bits = 0 /\ Start32.buffer = 0
  BY DEF Start32
<1> QED BY <1>1, <1>2, MakesNone DEF Written

\* q more symbols of s behind those that are written.
LEMMA MoreSymbols ==
  ASSUME NEW s \in Seq(Symbol), NEW o \in Seq(Symbol), NEW q \in Nat,
         Len(o) + q <= Len(s), \A i \in 1..Len(o) : o[i] = s[i],
         NEW f, f = [i \in 1..q |-> s[Len(o) + i]]
  PROVE  /\ o \o f \in Seq(Symbol) /\ Len(o \o f) = Len(o) + q
         /\ \A i \in 1..(Len(o) + q) : (o \o f)[i] = s[i]
<1>1. Len(o) \in Nat /\ Len(s) \in Nat
  BY LenProperties
<1>2. f \in [1..q -> Symbol]
  <2>1. \A i \in 1..q : Len(o) + i \in 1..Len(s)
    BY <1>1
  <2>2. \A i \in 1..q : s[Len(o) + i] \in Symbol
    BY <2>1, ElementOfSeq
  <2> QED BY <2>2
<1>3. f \in Seq(Symbol) /\ Len(f) = q
  BY <1>2, ArrayIsSeq
<1>4. /\ o \o f \in Seq(Symbol) /\ Len(o \o f) = Len(o) + Len(f)
      /\ \A i \in 1..(Len(o) + Len(f)) :
           (o \o f)[i] = IF i <= Len(o) THEN o[i] ELSE f[i - Len(o)]
  BY <1>3, ConcatProperties
<1>5. \A i \in 1..q : f[i] = s[Len(o) + i]
  OBVIOUS
<1> DEFINE L == Len(o)
           t2 == o \o f
<1>6. /\ L \in Nat /\ \A i \in 1..L : o[i] = s[i]
      /\ \A i \in 1..q : f[i] = s[L + i]
      /\ \A i \in 1..(L + q) : t2[i] = IF i <= L THEN o[i] ELSE f[i - L]
  BY <1>1, <1>3, <1>4, <1>5
<1> HIDE DEF L, t2
<1>7. ASSUME NEW i \in 1..(L + q) PROVE t2[i] = s[i]
  <2>1. CASE i <= L
    <3>1. i \in 1..L
      BY <1>6, <2>1
    <3>2. t2[i] = o[i]
      BY <1>6, <2>1
    <3> QED BY <1>6, <3>1, <3>2
  <2>2. CASE ~(i <= L)
    <3>1. i - L \in 1..q /\ L + (i - L) = i
      BY <1>6, <2>2
    <3> QED BY <1>6, <2>2, <3>1
  <2> QED BY <2>1, <2>2
<1> QED BY <1>3, <1>4, <1>7 DEF L, t2

\* The lower of two symbols comes from the remainder as well.
LEMMA Halves ==
  ASSUME NEW m \in 0..2, NEW y \in Nat
  PROVE  /\ (y \div 2^m) % 32 = (y % 2^(m+5)) \div 2^m
         /\ y % 2^m = (y % 2^(m+5)) % 2^m
<1> DEFINE p == 2^m
           r == 2^(m+5)
<1>1. m \in 0..7 /\ m + 5 \in 0..7
  OBVIOUS
<1>2. (m = 0 => p = 1) /\ (m = 1 => p = 2) /\ (m = 2 => p = 4)
  BY ONLY <1>1, Powers, Zenon
<1>3. (m + 5 = 5 => r = 32) /\ (m + 5 = 6 => r = 64) /\ (m + 5 = 7 => r = 128)
  BY ONLY <1>1, Powers, Zenon
<1> HIDE DEF p, r
<1>4. (p = 1 /\ r = 32) \/ (p = 2 /\ r = 64) \/ (p = 4 /\ r = 128)
  BY <1>2, <1>3
<1>5. (y \div p) % 32 = (y % r) \div p /\ y % p = (y % r) % p
  BY ONLY <1>4, y \in Nat
<1> QED BY <1>5 DEF p, r

LEMMA EightOn ==
  ASSUME NEW a \in Nat, NEW b \in 0..4
  PROVE  \A i \in 0..7 : b + i \in 0..(b + 7) /\ a + b + i = a + (b + i)
OBVIOUS

LEMMA WrittenNext ==
  ASSUME NEW s \in Seq(Symbol), NEW c \in Nat, 8 * (c + 1) <= 5 * Len(s),
         NEW st, Written(s, c, st)
  PROVE  Written(s, c + 1, EncodeByte(st, Octet(s, 8 * c)))
<1> DEFINE L == Len(st.out)
           n == st.bits
           j == 5 * L
           k == n + 8
           y == st.buffer * 256 + Octet(s, 8 * c)
           next == EncodeByte(st, Octet(s, 8 * c))
           wide == Len(s)
           sym(i) == DECODE_TABLE[s[i]]
<1>1. /\ st.out \in Seq(Symbol) /\ n \in 0..4 /\ 8 * c = j + n /\ Makes(s, j, n, st.buffer)
      /\ \A i \in 1..L : st.out[i] = s[i]
  BY DEF Written
<1>2. L \in Nat /\ wide \in Nat /\ 8 * (c + 1) <= 5 * wide
  BY <1>1, LenProperties
<1>3. \A q \in Nat : k \div 5 = q =>
        next = [out |-> st.out \o [i \in 1..q |-> ENCODE_TABLE[(y \div 2^(k - 5*i)) % 32]],
                buffer |-> y % 2^(k - 5*q), bits |-> k - 5*q]
  <2> SUFFICES ASSUME NEW q \in Nat, k \div 5 = q
               PROVE  next = [out |-> st.out \o [i \in 1..q |->
                                                  ENCODE_TABLE[(y \div 2^(k - 5*i)) % 32]],
                              buffer |-> y % 2^(k - 5*q), bits |-> k - 5*q]
    OBVIOUS
  <2>1. next = [out |-> st.out \o [i \in 1..q |-> ENCODE_TABLE[(y \div 2^(k - 5*i)) % 32]],
                buffer |-> y % 2^(k - 5*q), bits |-> k - 5*q]
    <3>1. (st.bits + 8) \div 5 = q
      BY ONLY k \div 5 = q
    <3>2. EncodeByte(st, Octet(s, 8 * c)) =
            [out |-> st.out \o [i \in 1..q |->
                                  ENCODE_TABLE[((st.buffer * 256 + Octet(s, 8 * c))
                                                  \div 2^((st.bits + 8) - 5*i)) % 32]],
             buffer |-> (st.buffer * 256 + Octet(s, 8 * c)) % 2^((st.bits + 8) - 5*q),
             bits |-> (st.bits + 8) - 5*q]
      BY ONLY <3>1 DEF EncodeByte
    <3> QED BY ONLY <3>2, Zenon
  <2> QED BY ONLY <2>1, Zenon
<1> HIDE DEF L, n, wide, next
<1>4. j \in Nat /\ j + (n + 8) = 8 * (c + 1) /\ k \in 8..12
  BY ONLY <1>1, <1>2, c \in Nat DEF j, k
<1>5. \A i \in 0..(n + 7) : Bit(s, j + i) \in 0..1
  <2>1. \A i \in 0..(n + 7) : j + i \in Nat /\ j + i < 5 * wide
    BY ONLY <1>1, <1>2, <1>4
  <2> QED BY <2>1, Bits DEF wide
<1>6. Makes(s, j, k, y)
  <2>1. \A i \in 0..7 : Bit(s, j + n + i) \in 0..1
    <3>1. \A i \in 0..7 : n + i \in 0..(n + 7) /\ j + n + i = j + (n + i)
      <4>1. n \in 0..4 /\ j \in Nat
        BY <1>1, <1>4
      <4> QED BY ONLY <4>1, EightOn
    <3> QED BY <1>5, <3>1
  <2>2. n \in Nat /\ j + n = 8 * c
    BY <1>1
  <2>3. j \in Nat /\ k = n + 8 /\ Makes(s, j, n, st.buffer)
    BY <1>1, <1>4
  <2>4. Makes(s, j, n + 8, st.buffer * 256 + Octet(s, j + n))
    BY ONLY <2>1, <2>2, <2>3, MakesEight, ZenonT(40)
  <2> QED BY <2>2, <2>4
<1> HIDE DEF y
<1>7. ASSUME NEW q \in 1..2, k - 5*q \in 0..4, L + q <= wide, k \div 5 = q,
             \A i \in 1..q : (y \div 2^(k - 5*i)) % 32 = sym(L + i),
             Makes(s, 5 * (L + q), k - 5*q, y % 2^(k - 5*q))
      PROVE  Written(s, c + 1, next)
  <2> DEFINE f == [i \in 1..q |-> ENCODE_TABLE[(y \div 2^(k - 5*i)) % 32]]
  <2>1. f = [i \in 1..q |-> s[L + i]]
    <3>1. ASSUME NEW i \in 1..q PROVE ENCODE_TABLE[(y \div 2^(k - 5*i)) % 32] = s[L + i]
      <4>1. L + i \in 1..wide
        BY <1>2, <1>7
      <4>2. s[L + i] \in Symbol
        BY <4>1, ElementOfSeq DEF wide
      <4>3. ENCODE_TABLE[sym(L + i)] = s[L + i]
        BY <4>2, SymbolValue
      <4> QED BY <1>7, <4>3
    <3> QED BY <3>1
  <2>2. next = [out |-> st.out \o f, buffer |-> y % 2^(k - 5*q), bits |-> k - 5*q]
    <3>1. q \in Nat
      OBVIOUS
    <3> QED BY <1>3, <1>7, <3>1
  <2> HIDE DEF f
  <2>3. /\ st.out \o f \in Seq(Symbol) /\ Len(st.out \o f) = L + q
        /\ \A i \in 1..(L + q) : (st.out \o f)[i] = s[i]
    <3>1. /\ q \in Nat /\ Len(st.out) + q <= Len(s)
          /\ \A i \in 1..Len(st.out) : st.out[i] = s[i]
          /\ f = [i \in 1..q |-> s[Len(st.out) + i]]
      <4>1. q \in Nat /\ Len(st.out) + q <= Len(s)
        BY ONLY <1>7, q \in 1..2 DEF L, wide
      <4>2. \A i \in 1..Len(st.out) : st.out[i] = s[i]
        BY ONLY <1>1 DEF L
      <4>3. f = [i \in 1..q |-> s[Len(st.out) + i]]
        BY ONLY <2>1 DEF L
      <4> QED BY ONLY <4>1, <4>2, <4>3
    <3>2. /\ st.out \o f \in Seq(Symbol) /\ Len(st.out \o f) = Len(st.out) + q
          /\ \A i \in 1..(Len(st.out) + q) : (st.out \o f)[i] = s[i]
      BY ONLY <1>1, <3>1, s \in Seq(Symbol), MoreSymbols
    <3> QED BY <3>2 DEF L
  <2>4. 8 * (c + 1) = 5 * (L + q) + (k - 5*q)
    BY ONLY <1>1, <1>2, <1>4, q \in 1..2 DEF j, k
  <2>5. /\ next.out = st.out \o f /\ next.bits = k - 5*q /\ next.buffer = y % 2^(k - 5*q)
    BY <2>2
  <2>6. Len(next.out) = L + q
    BY <2>3, <2>5
  <2>7. /\ next.out \in Seq(Symbol) /\ \A i \in 1..Len(next.out) : next.out[i] = s[i]
    BY <2>3, <2>5, <2>6
  <2>8. next.bits \in 0..4 /\ 8 * (c + 1) = 5 * Len(next.out) + next.bits
    BY <1>7, <2>4, <2>5, <2>6
  <2>9. Makes(s, 5 * Len(next.out), next.bits, next.buffer)
    BY <1>7, <2>5, <2>6
  <2> QED BY <2>7, <2>8, <2>9 DEF Written
<1>8. CASE n < 2
  <2> DEFINE m == n + 3
  <2>1. m \in 3..4 /\ k = 5 + m /\ k - 5*1 = m /\ k \div 5 = 1 /\ n + 7 = 4 + m /\ m \in 0..7
    BY <1>1, <1>8
  <2>2. L < wide /\ L + 1 <= wide
    BY ONLY <1>1, <1>2, <1>4 DEF j
  <2> HIDE DEF m, k
  <2>3. /\ y \in Nat /\ y \div 2^m = sym(L + 1) /\ sym(L + 1) \in 0..31
        /\ Makes(s, 5 * (L + 1), m, y % 2^m)
    <3>1. Makes(s, 5 * L, 5 + m, y)
      BY <1>6, <2>1
    <3>2. \A i \in 0..(4 + m) : Bit(s, 5 * L + i) \in 0..1
      BY <1>5, <2>1
    <3>3. L < Len(s)
      BY <2>2 DEF wide
    <3> QED BY <1>2, <2>1, <3>1, <3>2, <3>3, CutSymbol
  <2>4. (y \div 2^m) % 32 = sym(L + 1)
    <3> DEFINE x == sym(L + 1)
    <3>1. x \in 0..31
      BY <2>3
    <3> HIDE DEF x
    <3>2. x % 32 = x
      BY <3>1
    <3> QED BY <2>3, <3>2 DEF x
  <2>5. \A i \in 1..1 : (y \div 2^(k - 5*i)) % 32 = sym(L + i)
    BY <2>1, <2>4
  <2>6. 1 \in 1..2 /\ k - 5*1 \in 0..4
    BY <2>1
  <2>7. Makes(s, 5 * (L + 1), k - 5*1, y % 2^(k - 5*1))
    BY <2>1, <2>3
  <2> QED BY <1>7, <2>1, <2>2, <2>5, <2>6, <2>7 DEF next
<1>9. CASE ~(n < 2)
  <2> DEFINE m == n - 2
             z == y % 2^(m + 5)
  <2>1. /\ m \in 0..2 /\ k = 10 + m /\ k - 5*1 = m + 5 /\ k - 5*2 = m /\ k \div 5 = 2
        /\ n + 7 = 9 + m
    BY <1>1, <1>9
  <2>2. L < wide /\ L + 1 < wide /\ L + 2 <= wide
    BY ONLY <1>1, <1>2, <1>4, <1>9 DEF j
  <2> HIDE DEF m, k
  <2>3. m \in 0..7 /\ m + 5 \in 0..7 /\ 5 + (m + 5) = k /\ 4 + (m + 5) = n + 7 /\ m + 5 = 5 + m
    BY <2>1
  <2>4. /\ y \in Nat /\ y \div 2^(m + 5) = sym(L + 1) /\ sym(L + 1) \in 0..31
        /\ Makes(s, 5 * (L + 1), m + 5, z)
    <3>1. Makes(s, 5 * L, 5 + (m + 5), y)
      BY <1>6, <2>3
    <3>2. \A i \in 0..(4 + (m + 5)) : Bit(s, 5 * L + i) \in 0..1
      BY <1>5, <2>3
    <3>3. L < Len(s)
      BY <2>2 DEF wide
    <3> DEFINE w == m + 5
    <3>4. w \in 0..7
      BY <2>3
    <3> HIDE DEF w
    <3>5. Makes(s, 5 * L, 5 + w, y) /\ \A i \in 0..(4 + w) : Bit(s, 5 * L + i) \in 0..1
      BY <3>1, <3>2 DEF w
    <3>6. /\ y \in Nat /\ y \div 2^w = sym(L + 1) /\ sym(L + 1) \in 0..31
          /\ Makes(s, 5 * (L + 1), w, y % 2^w)
      BY <1>2, <3>3, <3>4, <3>5, CutSymbol
    <3> QED BY <3>6 DEF w
  <2>5. (y \div 2^m) % 32 = z \div 2^m /\ y % 2^m = z % 2^m
    BY <2>1, <2>4, Halves
  <2> HIDE DEF z
  <2>6. z \div 2^m = sym(L + 2) /\ Makes(s, 5 * (L + 2), m, z % 2^m)
    <3> DEFINE L1 == L + 1
    <3>1. L1 \in Nat /\ L1 < Len(s) /\ L1 + 1 = L + 2
      BY <1>2, <2>2 DEF wide
    <3>2. Makes(s, 5 * L1, 5 + m, z)
      BY <2>3, <2>4
    <3>3. \A i \in 0..(4 + m) : Bit(s, 5 * L1 + i) \in 0..1
      <4>1. \A i \in 0..(4 + m) : 5 + i \in 0..(n + 7) /\ 5 * L1 + i = j + (5 + i)
        BY <1>2, <2>1
      <4> QED BY <1>5, <4>1
    <3> HIDE DEF L1
    <3>4. z \div 2^m = sym(L1 + 1) /\ Makes(s, 5 * (L1 + 1), m, z % 2^m)
      BY <2>3, <3>1, <3>2, <3>3, CutSymbol
    <3> QED BY <3>1, <3>4
  <2>7. (y \div 2^(m + 5)) % 32 = sym(L + 1)
    <3> DEFINE x == sym(L + 1)
    <3>1. x \in 0..31
      BY <2>4
    <3> HIDE DEF x
    <3>2. x % 32 = x
      BY <3>1
    <3> QED BY <2>4, <3>2 DEF x
  <2>8. \A i \in 1..2 : (y \div 2^(k - 5*i)) % 32 = sym(L + i)
    <3>1. (y \div 2^(k - 5*1)) % 32 = sym(L + 1)
      BY <2>1, <2>7
    <3>2. (y \div 2^(k - 5*2)) % 32 = sym(L + 2)
      BY <2>1, <2>5, <2>6
    <3>3. \A i \in 1..2 : i = 1 \/ i = 2
      OBVIOUS
    <3> QED BY <3>1, <3>2, <3>3
  <2>9. 2 \in 1..2 /\ k - 5*2 \in 0..4
    BY <2>1
  <2>10. Makes(s, 5 * (L + 2), k - 5*2, y % 2^(k - 5*2))
    BY <2>1, <2>5, <2>6
  <2> QED BY <1>7, <2>1, <2>2, <2>8, <2>9, <2>10 DEF next
<1> QED BY <1>8, <1>9

\* g[n] is what the loop of base32_encode has after n bytes.
IsEncoding(g, data, m) ==
  g = [n \in 0..m |-> IF n = 0 THEN Start32 ELSE EncodeByte(g[n-1], data[n])]

LEMMA EncodingExists ==
  ASSUME NEW data, NEW m \in Nat
  PROVE  \E g : IsEncoding(g, data, m)
<1> DEFINE T == {n \in Nat : \E g : IsEncoding(g, data, n)}
<1>1. 0 \in T
  <2>1. IsEncoding([n \in 0..0 |-> Start32], data, 0)
    BY DEF IsEncoding
  <2> QED BY <2>1
<1>2. ASSUME NEW n \in T PROVE n + 1 \in T
  <2>1. PICK g : IsEncoding(g, data, n)
    OBVIOUS
  <2> DEFINE f == [l \in 0..(n+1) |-> IF l <= n THEN g[l] ELSE EncodeByte(g[n], data[n+1])]
  <2>2. ASSUME NEW l \in 0..(n+1)
        PROVE  f[l] = IF l = 0 THEN Start32 ELSE EncodeByte(f[l-1], data[l])
    <3>1. CASE l <= n
      BY <2>1, <3>1 DEF IsEncoding
    <3>2. CASE l = n + 1
      BY <3>2
    <3> QED BY <3>1, <3>2
  <2>3. f = [l \in 0..(n+1) |-> IF l = 0 THEN Start32 ELSE EncodeByte(f[l-1], data[l])]
    BY <2>2
  <2>4. IsEncoding(f, data, n + 1)
    BY <2>3 DEF IsEncoding
  <2> QED BY <2>4
<1>3. T = Nat
  <2> HIDE DEF T
  <2>1. T \in SUBSET Nat
    BY DEF T
  <2> QED BY <1>1, <1>2, <2>1, Induction
<1> QED BY <1>3

LEMMA EncodeBytesIs ==
  ASSUME NEW data, Len(data) \in Nat
  PROVE  \E g : IsEncoding(g, data, Len(data)) /\ EncodeBytes(data) = g[Len(data)]
<1>1. PICK g : IsEncoding(g, data, Len(data))
  BY EncodingExists
<1> QED BY <1>1 DEF EncodeBytes, IsEncoding

\* Of the bytes of s every one was taken at the end of the loop.
LEMMA AllWritten ==
  ASSUME NEW s \in Seq(Symbol), NEW L, L = (5 * Len(s)) \div 8
  PROVE  /\ L \in Nat /\ Len(Decoded(s)) = L
         /\ Written(s, L, EncodeBytes(Decoded(s)))
<1> DEFINE data == Decoded(s)
           Octets == {Octet(s, 8*i - 8) : i \in 1..L}
           wide == Len(s)
<1>1. wide \in Nat
  BY LenProperties
<1>2. L \in Nat /\ 8 * L <= 5 * wide
  <2>1. L = (5 * wide) \div 8
    OBVIOUS
  <2> HIDE DEF wide
  <2> QED BY ONLY <1>1, <2>1
<1>3. data = [i \in 1..L |-> Octet(s, 8*i - 8)]
  BY DEF Decoded
<1>4. data \in [1..L -> Octets]
  BY <1>3
<1> HIDE DEF data, Octets
<1>5. Len(data) = L
  BY <1>2, <1>4, ArrayIsSeq
<1>6. PICK g : IsEncoding(g, data, L) /\ EncodeBytes(data) = g[L]
  BY <1>2, <1>5, EncodeBytesIs
<1> DEFINE T == {n \in Nat : n <= L => Written(s, n, g[n])}
<1>7. 0 \in T
  <2>1. g[0] = Start32
    BY <1>2, <1>6 DEF IsEncoding
  <2> QED BY <2>1, WrittenNone
<1>8. ASSUME NEW n \in T PROVE n + 1 \in T
  <2> SUFFICES ASSUME n + 1 <= L PROVE Written(s, n + 1, g[n + 1])
    OBVIOUS
  <2>1. n \in Nat /\ n <= L
    BY <1>2
  <2>2. Written(s, n, g[n])
    BY <2>1
  <2>3. n + 1 \in 1..L /\ n + 1 \in 0..L /\ n + 1 # 0 /\ (n + 1) - 1 = n
        /\ 8 * (n + 1) - 8 = 8 * n
    BY <1>2, <2>1
  <2>4. 8 * (n + 1) <= 5 * Len(s)
    <3>1. 8 * (n + 1) <= 5 * wide
      <4> HIDE DEF wide
      <4> QED BY <1>1, <1>2, <2>1
    <3> QED BY <3>1
  <2>5. data[n + 1] = Octet(s, 8 * n)
    BY <1>3, <2>3
  <2>6. g[n + 1] = EncodeByte(g[n], Octet(s, 8 * n))
    <3>1. g = [l \in 0..L |-> IF l = 0 THEN Start32 ELSE EncodeByte(g[l-1], data[l])]
      BY <1>6 DEF IsEncoding
    <3>2. g[n + 1] = EncodeByte(g[(n + 1) - 1], data[n + 1])
      BY <2>3, <3>1, Zenon
    <3> QED BY <2>3, <2>5, <3>2
  <2> QED BY <2>1, <2>2, <2>4, <2>6, WrittenNext
<1>9. T = Nat
  <2> HIDE DEF T
  <2>1. T \in SUBSET Nat
    BY DEF T
  <2> QED BY <1>7, <1>8, <2>1, Induction
<1>10. Written(s, L, g[L])
  BY <1>2, <1>9
<1> QED BY <1>2, <1>5, <1>6, <1>10 DEF data

LEMMA TopBits ==
  ASSUME NEW b0 \in 0..1, NEW b1 \in 0..1, NEW b2 \in 0..1, NEW b3 \in 0..1
  PROVE  LET x == 16*b0 + 8*b1 + 4*b2 + 2*b3
         IN  /\ x \in 0..31 /\ (x \div 16) % 2 = b0 /\ (x \div 8) % 2 = b1
             /\ (x \div 4) % 2 = b2 /\ (x \div 2) % 2 = b3
OBVIOUS

\* The bits that are left are the first ones of the last symbol; what fills it
\* up are zeros.
LEMMA LastSymbol ==
  ASSUME NEW s, NEW j \in Nat, NEW m \in 1..4, NEW y, Makes(s, j, m, y),
         \A k \in 0..(m - 1) : Bit(s, j + k) \in 0..1
  PROVE  /\ y * 2^(5 - m) \in 0..31
         /\ \A k \in 0..(m - 1) : ((y * 2^(5 - m)) \div 2^(4 - k)) % 2 = Bit(s, j + k)
<1> DEFINE b(k) == Bit(s, j + k)
<1>1. PICK u : Goes(u, s, j, m) /\ u[m] = y
  BY DEF Makes
<1>2. u[0] = 0 /\ \A k \in 0..(m - 1) : u[k + 1] = 2 * u[k] + b(k) /\ b(k) \in 0..1
  BY <1>1 DEF Goes
<1> HIDE DEF b
<1> DEFINE Good(x) == x \in 0..31 /\ \A k \in 0..(m - 1) : (x \div 2^(4 - k)) % 2 = b(k)
<1>3. /\ 2^(5 - 1) = 16 /\ 2^(5 - 2) = 8 /\ 2^(5 - 3) = 4 /\ 2^(5 - 4) = 2
      /\ 2^(4 - 0) = 16 /\ 2^(4 - 1) = 8 /\ 2^(4 - 2) = 4 /\ 2^(4 - 3) = 2
  OBVIOUS
<1>4. CASE m = 1
  <2>1. 0 \in 0..(m - 1) /\ 0 + 1 = 1
    BY <1>4
  <2>2. b(0) \in 0..1 /\ u[1] = 2 * u[0] + b(0)
    BY <1>2, <2>1
  <2>3. y = b(0)
    BY <1>1, <1>2, <1>4, <2>2
  <2>4. y * 16 \in 0..31 /\ ((y * 16) \div 16) % 2 = b(0)
    BY ONLY <2>2, <2>3
  <2>5. \A k \in 0..(m - 1) : k = 0
    BY <1>4
  <2>6. Good(y * 2^(5 - m))
    BY <1>3, <1>4, <2>4, <2>5
  <2> QED BY <2>6 DEF b
<1>5. CASE m = 2
  <2>1. 0 \in 0..(m - 1) /\ 1 \in 0..(m - 1) /\ 0 + 1 = 1 /\ 1 + 1 = 2
    BY <1>5
  <2>2. /\ b(0) \in 0..1 /\ u[1] = 2 * u[0] + b(0)
        /\ b(1) \in 0..1 /\ u[2] = 2 * u[1] + b(1)
    BY <1>2, <2>1
  <2>3. y = 2 * b(0) + b(1)
    BY <1>1, <1>2, <1>5, <2>2
  <2>4. /\ y * 8 \in 0..31 /\ ((y * 8) \div 16) % 2 = b(0) /\ ((y * 8) \div 8) % 2 = b(1)
    <3>1. y * 8 = 16*b(0) + 8*b(1) + 4*0 + 2*0
      BY ONLY <2>2, <2>3
    <3>2. 0 \in 0..1
      OBVIOUS
    <3> QED BY <2>2, <3>1, <3>2, TopBits
  <2>5. \A k \in 0..(m - 1) : k = 0 \/ k = 1
    BY <1>5
  <2>6. Good(y * 2^(5 - m))
    BY <1>3, <1>5, <2>4, <2>5
  <2> QED BY <2>6 DEF b
<1>6. CASE m = 3
  <2>1. 0 \in 0..(m - 1) /\ 1 \in 0..(m - 1) /\ 2 \in 0..(m - 1) /\ 0 + 1 = 1 /\ 1 + 1 = 2 /\ 2 + 1 = 3
    BY <1>6
  <2>2. /\ b(0) \in 0..1 /\ u[1] = 2 * u[0] + b(0)
        /\ b(1) \in 0..1 /\ u[2] = 2 * u[1] + b(1)
        /\ b(2) \in 0..1 /\ u[3] = 2 * u[2] + b(2)
    BY <1>2, <2>1
  <2>3. y = 4 * b(0) + 2 * b(1) + b(2)
    BY <1>1, <1>2, <1>6, <2>2
  <2>4. /\ y * 4 \in 0..31 /\ ((y * 4) \div 16) % 2 = b(0) /\ ((y * 4) \div 8) % 2 = b(1)
        /\ ((y * 4) \div 4) % 2 = b(2)
    <3>1. y * 4 = 16*b(0) + 8*b(1) + 4*b(2) + 2*0
      BY ONLY <2>2, <2>3
    <3>2. 0 \in 0..1
      OBVIOUS
    <3> QED BY <2>2, <3>1, <3>2, TopBits
  <2>5. \A k \in 0..(m - 1) : k = 0 \/ k = 1 \/ k = 2
    BY <1>6
  <2>6. Good(y * 2^(5 - m))
    BY <1>3, <1>6, <2>4, <2>5
  <2> QED BY <2>6 DEF b
<1>7. CASE m = 4
  <2>1. /\ 0 \in 0..(m - 1) /\ 1 \in 0..(m - 1) /\ 2 \in 0..(m - 1) /\ 3 \in 0..(m - 1)
        /\ 0 + 1 = 1 /\ 1 + 1 = 2 /\ 2 + 1 = 3 /\ 3 + 1 = 4
    BY <1>7
  <2>2. /\ b(0) \in 0..1 /\ u[1] = 2 * u[0] + b(0)
        /\ b(1) \in 0..1 /\ u[2] = 2 * u[1] + b(1)
        /\ b(2) \in 0..1 /\ u[3] = 2 * u[2] + b(2)
        /\ b(3) \in 0..1 /\ u[4] = 2 * u[3] + b(3)
    BY <1>2, <2>1
  <2>3. y = 8 * b(0) + 4 * b(1) + 2 * b(2) + b(3)
    BY <1>1, <1>2, <1>7, <2>2
  <2>4. /\ y * 2 \in 0..31 /\ ((y * 2) \div 16) % 2 = b(0) /\ ((y * 2) \div 8) % 2 = b(1)
        /\ ((y * 2) \div 4) % 2 = b(2) /\ ((y * 2) \div 2) % 2 = b(3)
    <3>1. y * 2 = 16*b(0) + 8*b(1) + 4*b(2) + 2*b(3)
      BY ONLY <2>2, <2>3
    <3>2. 0 \in 0..1
      OBVIOUS
    <3> QED BY <2>2, <3>1, <3>2, TopBits
  <2>5. \A k \in 0..(m - 1) : k = 0 \/ k = 1 \/ k = 2 \/ k = 3
    BY <1>7
  <2>6. Good(y * 2^(5 - m))
    BY <1>3, <1>7, <2>4, <2>5
  <2> QED BY <2>6 DEF b
<1>8. m = 1 \/ m = 2 \/ m = 3 \/ m = 4
  OBVIOUS
<1> QED BY <1>4, <1>5, <1>6, <1>7, <1>8

\* Nothing is dropped in front, and everything behind.
LEMMA WithoutTail ==
  ASSUME NEW S, NEW s \in Seq(S), NEW dropped, NEW p \in 0..Len(s),
         \A i \in 1..p : s[i] \notin dropped,
         \A i \in (p+1)..Len(s) : s[i] \in dropped
  PROVE  /\ Len(Without(s, dropped)) = p
         /\ \A i \in 1..p : Without(s, dropped)[i] = s[i]
<1>1. PICK k : IsKept(k, s, dropped, Len(s)) /\ Without(s, dropped) = k[Len(s)]
  BY WithoutIsKept
<1> DEFINE wide == Len(s)
           Most(n) == IF n <= p THEN n ELSE p
           Kept(n) == /\ k[n] \in Seq(S) /\ Len(k[n]) = Most(n)
                      /\ \A i \in 1..Most(n) : k[n][i] = s[i]
           T == {n \in Nat : n <= wide => Kept(n)}
<1>2. wide \in Nat /\ p \in Nat /\ p <= wide
  BY LenProperties
<1>3. 0 \in T
  <2>1. k[0] = << >>
    BY <1>1, <1>2 DEF IsKept
  <2>2. << >> \in Seq(S) /\ Len(<< >>) = 0
    BY EmptySeq
  <2>3. Most(0) = 0
    BY <1>2
  <2>4. Kept(0)
    BY <2>1, <2>2, <2>3
  <2> QED BY <2>4
<1>4. ASSUME NEW n \in T PROVE n + 1 \in T
  <2> SUFFICES ASSUME n + 1 <= wide PROVE Kept(n + 1)
    OBVIOUS
  <2>1. n \in Nat /\ n + 1 \in 1..wide /\ Kept(n)
    BY <1>2
  <2> HIDE DEF T
  <2>2. k[n + 1] = k[n] \o Part(s[n + 1], dropped)
    <3>1. /\ n + 1 \in 0..Len(s) /\ n + 1 # 0 /\ (n + 1) - 1 = n
      BY <1>2, <2>1
    <3>2. k = [l \in 0..Len(s) |-> IF l = 0 THEN << >> ELSE k[l-1] \o Part(s[l], dropped)]
      BY <1>1 DEF IsKept
    <3>3. k[n + 1] = k[(n + 1) - 1] \o Part(s[n + 1], dropped)
      BY <3>1, <3>2, Zenon
    <3> QED BY <3>1, <3>3
  <2>3. s[n + 1] \in S
    BY <2>1, ElementOfSeq
  <2>4. CASE n + 1 <= p
    <3> DEFINE e == << s[n + 1] >>
    <3>1. s[n + 1] \notin dropped
      BY <2>1, <2>4
    <3>2. e \in Seq(S) /\ Len(e) = 1 /\ e[1] = s[n + 1]
      BY <2>3
    <3>3. k[n + 1] = k[n] \o e
      BY <2>2, <3>1 DEF Part
    <3>4. Most(n) = n /\ Most(n + 1) = n + 1
      BY <1>2, <2>1, <2>4
    <3>5. k[n] \in Seq(S) /\ Len(k[n]) = n /\ \A i \in 1..n : k[n][i] = s[i]
      BY <2>1, <3>4
    <3> HIDE DEF e
    <3>6. /\ k[n] \o e \in Seq(S) /\ Len(k[n] \o e) = n + 1
          /\ \A i \in 1..(n + 1) :
               (k[n] \o e)[i] = IF i <= n THEN k[n][i] ELSE e[i - n]
      <4>1. /\ k[n] \o e \in Seq(S)
            /\ Len(k[n] \o e) = Len(k[n]) + Len(e)
            /\ \A i \in 1..(Len(k[n]) + Len(e)) :
                 (k[n] \o e)[i] = IF i <= Len(k[n]) THEN k[n][i] ELSE e[i - Len(k[n])]
        <5>1. k[n] \in Seq(S) /\ e \in Seq(S)
          BY <3>2, <3>5
        <5> QED BY ONLY <5>1, ConcatProperties
      <4> QED BY <3>2, <3>5, <4>1
    <3>7. ASSUME NEW i \in 1..(n + 1) PROVE (k[n] \o e)[i] = s[i]
      <4>1. CASE i <= n
        <5>1. i \in 1..n
          BY <2>1, <4>1
        <5> QED BY <3>5, <3>6, <4>1, <5>1
      <4>2. CASE ~(i <= n)
        <5>1. i = n + 1 /\ i - n = 1
          BY <2>1, <4>2
        <5> QED BY <3>2, <3>6, <4>2, <5>1
      <4> QED BY <4>1, <4>2
    <3> HIDE DEF Most
    <3> QED BY <3>3, <3>4, <3>6, <3>7
  <2>5. CASE ~(n + 1 <= p)
    <3>1. s[n + 1] \in dropped
      <4>1. n + 1 \in (p + 1)..Len(s)
        BY <1>2, <2>1, <2>5
      <4> QED BY <4>1
    <3>2. k[n + 1] = k[n]
      BY <2>1, <2>2, <3>1, ConcatEmptySeq DEF Part
    <3>3. Most(n) = p /\ Most(n + 1) = p
      BY <1>2, <2>1, <2>5
    <3> HIDE DEF Most
    <3> QED BY <2>1, <3>2, <3>3
  <2> QED BY <2>4, <2>5
<1>5. T = Nat
  <2> HIDE DEF T
  <2>1. T \in SUBSET Nat
    BY DEF T
  <2> QED BY <1>3, <1>4, <2>1, Induction
<1>6. Kept(wide) /\ Most(wide) = p
  <2>1. wide \in T
    BY <1>2, <1>5
  <2> QED BY <1>2, <2>1
<1> QED BY <1>1, <1>6

\* Symbols, filled up to a multiple of eight, are base32 and nothing is added
\* to their data.
LEMMA FilledIsValid ==
  ASSUME NEW e \in Seq(Symbol), e # << >>, ~Uneven(Len(e))
  PROVE  base32_validate(Filled(e)) /\ Data(Filled(e)) = e
<1> DEFINE n == Len(e)
           pad == (8 - (n % 8)) % 8
           f == [i \in 1..pad |-> Equals]
           s == Filled(e)
<1>1. n \in Nat /\ DOMAIN e = 1..n
  BY LenProperties
<1>2. n # 0
  BY <1>1, EmptySeq, SeqEqual
<1> HIDE DEF n
<1>3. pad \in Nat /\ (n + pad) % 8 = 0
  BY ONLY <1>1
<1>4. s = e \o f
  BY DEF Filled, n
<1> HIDE DEF pad
<1>5. /\ Equals \in Byte /\ Equals \notin Separator /\ toupper(Equals) = Equals
  BY DEF Equals, Byte, Separator, toupper
<1>6. f \in Seq(Byte) /\ Len(f) = pad /\ \A i \in 1..pad : f[i] = Equals
  <2>1. f \in [1..pad -> Byte] /\ \A i \in 1..pad : f[i] = Equals
    BY <1>5
  <2> HIDE DEF f
  <2> QED BY <1>3, <2>1, ArrayIsSeq
<1>7. \A i \in 1..n : e[i] \in Symbol
  BY ElementOfSeq DEF n
<1>8. e \in Seq(Byte)
  <2>1. \A i \in 1..n : e[i] \in Byte
    BY <1>7 DEF Symbol
  <2>2. e \in [1..n -> Byte]
    <3>1. e = [i \in 1..n |-> e[i]]
      BY <1>1, LenProperties DEF n
    <3> QED BY <2>1, <3>1
  <2> QED BY <1>1, <2>2, ArrayIsSeq
<1> HIDE DEF f, s
<1>9. /\ s \in Seq(Byte) /\ Len(s) = n + pad
      /\ \A i \in 1..(n + pad) : s[i] = IF i <= n THEN e[i] ELSE f[i - n]
  BY <1>4, <1>6, <1>8, ConcatProperties DEF n
<1>10. \A i \in 1..n : s[i] = e[i]
  <2>1. \A i \in 1..n : i \in 1..(n + pad) /\ i <= n
    BY <1>1, <1>3
  <2> QED BY <1>9, <2>1
<1>11. \A i \in (n+1)..(n + pad) : s[i] = Equals
  <2>1. \A i \in (n+1)..(n + pad) : i \in 1..(n + pad) /\ ~(i <= n) /\ i - n \in 1..pad
    BY <1>1, <1>3
  <2> QED BY <1>6, <1>9, <2>1
<1>12. \A i \in 1..(n + pad) : i \in 1..n \/ i \in (n+1)..(n + pad)
  BY <1>1, <1>3
<1>13. \A i \in 1..(n + pad) : s[i] \notin Separator /\ toupper(s[i]) = s[i]
  BY <1>5, <1>7, <1>10, <1>11, <1>12, SymbolValue
<1>14. Without(s, Separator) = s
  BY <1>9, <1>13, WithoutProperties
<1>15. DOMAIN s = 1..(n + pad)
  BY <1>9, LenProperties
<1>16. base32_normalize(s) = s
  <2>1. base32_normalize(s) = [i \in 1..(n + pad) |-> toupper(s[i])]
    BY <1>14, <1>15 DEF base32_normalize
  <2>2. s = [i \in 1..(n + pad) |-> s[i]]
    BY <1>9, <1>15, LenProperties
  <2>3. [i \in 1..(n + pad) |-> toupper(s[i])] = [i \in 1..(n + pad) |-> s[i]]
    BY <1>13
  <2> QED BY <2>1, <2>2, <2>3
<1>17. Data(s) \in Seq(Byte) /\ Len(Data(s)) = n /\ \A i \in 1..n : Data(s)[i] = s[i]
  <2> DEFINE w == Without(s, {Equals})
  <2>1. n \in 0..Len(s)
    BY <1>1, <1>3, <1>9
  <2>2. \A i \in 1..n : s[i] \notin {Equals}
    BY <1>7, <1>10, SymbolValue
  <2>3. \A i \in (n+1)..Len(s) : s[i] \in {Equals}
    BY <1>9, <1>11
  <2>4. Len(w) = n /\ \A i \in 1..n : w[i] = s[i]
    BY <1>9, <2>1, <2>2, <2>3, WithoutTail
  <2>5. w \in Seq(Byte)
    BY <1>9, WithoutProperties
  <2> QED BY <2>4, <2>5 DEF Data
<1>18. Data(s) = e
  BY <1>8, <1>10, <1>17, SeqEqual DEF n
<1>19. ASSUME NEW i \in DOMAIN s
       PROVE  ~(IF i <= n THEN DECODE_TABLE[s[i]] >= PADDING ELSE s[i] # Equals)
  <2>1. CASE i <= n
    <3>1. i \in 1..n
      BY <1>15, <2>1
    <3> DEFINE x == DECODE_TABLE[s[i]]
    <3>2. x \in 0..31
      BY <1>7, <1>10, <3>1, SymbolValue
    <3> HIDE DEF x
    <3>3. ~(x >= PADDING)
      BY <3>2 DEF PADDING
    <3> QED BY <2>1, <3>3 DEF x
  <2>2. CASE ~(i <= n)
    <3>1. i \in (n+1)..(n + pad)
      BY <1>12, <1>15, <2>2
    <3> QED BY <1>11, <2>2, <3>1
  <2> QED BY <2>1, <2>2
<1>20. s # << >>
  <2>1. Len(s) # 0
    BY <1>1, <1>2, <1>3, <1>9
  <2> QED BY <2>1, EmptySeq
<1>21. Len(Data(s)) = n /\ ~Uneven(n) /\ Len(s) % 8 = 0
  BY <1>3, <1>9, <1>17 DEF n
<1>22. base32_validate(s)
  BY <1>16, <1>19, <1>20, <1>21 DEF base32_validate
<1> QED BY <1>18, <1>22 DEF s

\* Symbols that end where a byte ends leave less than five bits behind it.
LEMMA BitsBehind ==
  ASSUME NEW n \in Nat, ~Uneven(n), NEW L \in Nat, L = (5 * n) \div 8
  PROVE  5 * n - 8 * L \in 0..4
<1>1. n % 8 \notin {1, 3, 6}
  BY DEF Uneven
<1> DEFINE q == n \div 8
           r == n % 8
<1>2. q \in Nat /\ r \in 0..7 /\ n = 8 * q + r
  OBVIOUS
<1>3. r = 0 \/ r = 2 \/ r = 4 \/ r = 5 \/ r = 7
  BY <1>1, <1>2
<1> HIDE DEF q, r
<1>4. L \in Int /\ 8 * L <= 5 * n /\ 5 * n < 8 * L + 8
  OBVIOUS
<1> QED BY ONLY <1>2, <1>3, <1>4

\* What base32_encode makes of the bytes that s stands for: symbols with the
\* same bits, of which at most the last differs, in bits of no byte.
LEMMA EncodedSymbols ==
  ASSUME NEW s \in Seq(Symbol), ~Uneven(Len(s)), NEW L, L = (5 * Len(s)) \div 8
  PROVE  \E e \in Seq(Symbol) :
           /\ base32_encode(Decoded(s)) = Filled(e) /\ Len(e) = Len(s)
           /\ \A i \in 1..(Len(s) - 1) : e[i] = s[i]
           /\ \A j \in 0..(8 * L - 1) : Bit(e, j) = Bit(s, j)
<1> DEFINE n == Len(s)
           st == EncodeBytes(Decoded(s))
           o == Len(st.out)
           m == st.bits
           j == 5 * o
<1>1. n \in Nat
  BY LenProperties
<1>2. L \in Nat /\ Written(s, L, st)
  BY AllWritten
<1>3. 5 * n - 8 * L \in 0..4
  BY <1>1, <1>2, BitsBehind
<1>4. /\ st.out \in Seq(Symbol) /\ m \in 0..4 /\ 8 * L = j + m
      /\ \A i \in 1..o : st.out[i] = s[i] /\ Makes(s, j, m, st.buffer)
  BY <1>2 DEF Written
<1>5. base32_encode(Decoded(s)) =
        Filled(IF m = 0 THEN st.out
               ELSE Append(st.out, ENCODE_TABLE[st.buffer * 2^(5 - m)]))
  BY DEF base32_encode
<1>6. o \in Nat
  BY <1>4, LenProperties
<1>7. Makes(s, j, m, st.buffer)
  BY <1>2 DEF Written
<1> HIDE DEF n, st, o, m
<1>8. CASE m = 0
  <2>1. o = n
    BY ONLY <1>1, <1>2, <1>3, <1>4, <1>6, <1>8 DEF j
  <2>2. st.out = s
    BY <1>4, <2>1, SeqEqual DEF n, o
  <2> QED BY <1>5, <1>8, <2>2
<1>9. CASE m # 0
  <2> DEFINE x == st.buffer * 2^(5 - m)
             e == Append(st.out, ENCODE_TABLE[x])
  <2>1. o = n - 1 /\ m \in 1..4
    BY ONLY <1>1, <1>2, <1>3, <1>4, <1>6, <1>9 DEF j
  <2>2. j \in Nat /\ \A k \in 0..(m - 1) : Bit(s, j + k) \in 0..1
    <3>1. j \in Nat /\ \A k \in 0..(m - 1) : j + k \in Nat /\ j + k < 5 * n
      BY ONLY <1>1, <1>6, <2>1 DEF j
    <3> QED BY <3>1, Bits DEF n
  <2>3. /\ x \in 0..31
        /\ \A k \in 0..(m - 1) : (x \div 2^(4 - k)) % 2 = Bit(s, j + k)
    BY <1>7, <2>1, <2>2, LastSymbol
  <2> HIDE DEF x, j
  <2>4. ENCODE_TABLE[x] \in Symbol /\ DECODE_TABLE[ENCODE_TABLE[x]] = x
    BY <2>3, ValueSymbol
  <2>5. /\ e \in Seq(Symbol) /\ Len(e) = o + 1
        /\ \A i \in 1..o : e[i] = st.out[i]
        /\ e[o + 1] = ENCODE_TABLE[x]
    BY <1>4, <2>4, AppendProperties DEF o
  <2> HIDE DEF e
  <2>6. Len(e) = n /\ (\A i \in 1..(n - 1) : e[i] = s[i]) /\ DECODE_TABLE[e[n]] = x
    BY <1>1, <1>4, <2>1, <2>4, <2>5
  <2>7. ASSUME NEW l \in 0..(8 * L - 1) PROVE Bit(e, l) = Bit(s, l)
    <3> DEFINE c == l \div 5
               k == l % 5
    <3>1. l \in Nat /\ c \in Nat /\ k \in 0..4 /\ l = 5 * c + k
      BY <1>2
    <3> HIDE DEF c, k
    <3>2. l < 8 * L
      BY <1>2
    <3>3. c < n - 1 \/ (c = n - 1 /\ k \in 0..(m - 1) /\ l = j + k)
      BY ONLY <1>1, <1>4, <1>6, <2>1, <3>1, <3>2 DEF j
    <3>4. CASE c < n - 1
      <4>1. c + 1 \in 1..(n - 1)
        BY <1>1, <3>1, <3>4
      <4>2. e[c + 1] = s[c + 1]
        BY <2>6, <4>1
      <4> QED BY <4>2 DEF Bit, c
    <3>5. CASE c = n - 1 /\ k \in 0..(m - 1) /\ l = j + k
      <4>1. c + 1 = n
        BY <1>1, <3>5
      <4>2. Bit(e, l) = (DECODE_TABLE[e[c + 1]] \div 2^(4 - k)) % 2
        BY DEF Bit, c, k
      <4>3. Bit(e, l) = (x \div 2^(4 - k)) % 2
        BY <2>6, <4>1, <4>2
      <4> QED BY <2>3, <3>5, <4>3
    <3> QED BY <3>3, <3>4, <3>5
  <2>8. base32_encode(Decoded(s)) = Filled(e)
    BY <1>5, <1>9 DEF e, x
  <2> QED BY <2>5, <2>6, <2>7, <2>8 DEF n
<1> QED BY <1>8, <1>9

\* The same bits are the same bytes.
LEMMA SameBytes ==
  ASSUME NEW s, NEW e, NEW L \in Nat, L = (5 * Len(s)) \div 8, Len(e) = Len(s),
         \A j \in 0..(8 * L - 1) : Bit(e, j) = Bit(s, j)
  PROVE  Decoded(e) = Decoded(s)
<1>1. ASSUME NEW i \in 1..L PROVE Octet(e, 8*i - 8) = Octet(s, 8*i - 8)
  <2> DEFINE j == 8*i - 8
  <2>1. /\ j \in 0..(8 * L - 1) /\ j + 1 \in 0..(8 * L - 1) /\ j + 2 \in 0..(8 * L - 1)
        /\ j + 3 \in 0..(8 * L - 1) /\ j + 4 \in 0..(8 * L - 1) /\ j + 5 \in 0..(8 * L - 1)
        /\ j + 6 \in 0..(8 * L - 1) /\ j + 7 \in 0..(8 * L - 1)
    OBVIOUS
  <2> HIDE DEF j
  <2>2. Octet(e, j) = Octet(s, j)
    BY <2>1 DEF Octet
  <2> QED BY <2>2 DEF j
<1> QED BY <1>1 DEF Decoded

LEMMA SameFront ==
  ASSUME NEW S, NEW s \in Seq(S), NEW e \in Seq(S), Len(e) = Len(s), s # << >>,
         \A i \in 1..(Len(s) - 1) : e[i] = s[i]
  PROVE  Front(e) = Front(s)
<1> DEFINE n == Len(s)
<1>1. n \in Nat /\ n # 0
  BY LenProperties, EmptySeq, SeqEqual
<1> HIDE DEF n
<1>2. \A i \in 1..(n - 1) : i \in 1..n
  BY <1>1
<1>3. \A i \in 1..(n - 1) : s[i] \in S /\ e[i] \in S
  BY <1>2, ElementOfSeq DEF n
<1>4. /\ Front(s) \in Seq(S) /\ Front(e) \in Seq(S)
      /\ Len(Front(s)) = n - 1 /\ Len(Front(e)) = n - 1
      /\ \A i \in 1..(n - 1) : Front(s)[i] = s[i] /\ Front(e)[i] = e[i]
  <2>1. ASSUME NEW w, \A i \in 1..(n - 1) : w[i] \in S
        PROVE  /\ SubSeq(w, 1, n - 1) \in Seq(S) /\ Len(SubSeq(w, 1, n - 1)) = n - 1
               /\ \A i \in 1..(n - 1) : SubSeq(w, 1, n - 1)[i] = w[i]
    <3> DEFINE v1 == SubSeq(w, 1, n - 1)
    <3>1. /\ v1 \in Seq(S)
          /\ Len(v1) = IF 1 <= n - 1 THEN (n - 1) - 1 + 1 ELSE 0
          /\ \A i \in 1..((n - 1) - 1 + 1) : v1[i] = w[1 + i - 1]
      BY <1>1, <2>1, SubSeqProperties
    <3> HIDE DEF v1
    <3>2. (n - 1) - 1 + 1 = n - 1 /\ \A i \in 1..(n - 1) : 1 + i - 1 = i
      BY <1>1
    <3> QED BY <1>1, <3>1, <3>2 DEF v1
  <2>2. Front(s) = SubSeq(s, 1, n - 1) /\ Front(e) = SubSeq(e, 1, n - 1)
    BY DEF Front, n
  <2> QED BY <1>3, <2>1, <2>2
<1>5. \A i \in 1..(n - 1) : Front(e)[i] = Front(s)[i]
  BY <1>4 DEF n
<1> QED BY <1>4, <1>5, SeqEqual

\* What base32_encode makes of the bytes of an accepted secret is accepted too,
\* stands for the same bytes, and is what was typed but for bits of no byte.
THEOREM EncodingComesBack == Spec => []EncodingInverts
<1>1. SecretInv => EncodingInverts
  <2> SUFFICES ASSUME SecretInv, pc = "stored", raw_secret # << >>
               PROVE  LET s == base32_encode(raw_secret)
                      IN  /\ base32_validate(s)
                          /\ Decoded(Data(s)) = raw_secret
                          /\ Front(Data(s)) = Front(Data(secret))
    BY DEF EncodingInverts
  <2> DEFINE d == Data(secret)
  <2>1. secret \in Seq(Byte) /\ base32_normalize(secret) = secret /\ base32_validate(secret)
    BY DEF SecretInv, Decoding
  <2>2. d \in Seq(Symbol) /\ ~Uneven(Len(d))
    BY <2>1, Accepted
  <2>3. raw_secret = Decoded(d)
    BY DecodedWhenStored
  <2> HIDE DEF d
  <2>4. PICK L : L = (5 * Len(d)) \div 8
    OBVIOUS
  <2>5. L \in Nat /\ Len(Decoded(d)) = L
    BY <2>2, <2>4, AllWritten
  <2>6. d # << >>
    <3>1. SUFFICES ASSUME d = << >> PROVE raw_secret = << >>
      OBVIOUS
    <3>2. Len(d) = 0
      BY <3>1, EmptySeq
    <3>3. (5 * 0) \div 8 = 0
      OBVIOUS
    <3>4. L = 0
      BY <2>4, <3>2, <3>3
    <3> QED BY <2>3, <2>4, <3>4 DEF Decoded
  <2>7. PICK e \in Seq(Symbol) :
          /\ base32_encode(Decoded(d)) = Filled(e) /\ Len(e) = Len(d)
          /\ \A i \in 1..(Len(d) - 1) : e[i] = d[i]
          /\ \A j \in 0..(8 * L - 1) : Bit(e, j) = Bit(d, j)
    BY <2>2, <2>4, EncodedSymbols
  <2>8. e # << >>
    <3>1. Len(d) # 0
      BY <2>2, <2>6, EmptySeq, SeqEqual, LenProperties
    <3> QED BY <2>7, <3>1, EmptySeq
  <2>9. base32_validate(Filled(e)) /\ Data(Filled(e)) = e
    BY <2>2, <2>7, <2>8, FilledIsValid
  <2>10. Decoded(e) = Decoded(d)
    BY <2>4, <2>5, <2>7, SameBytes
  <2>11. Front(e) = Front(d)
    BY <2>2, <2>6, <2>7, SameFront
  <2> QED BY <2>3, <2>7, <2>9, <2>10, <2>11 DEF d
<1> QED BY <1>1, SecretAlways, PTL

-----------------------------------------------------------------------------
(* The words and the bytes of the hash.                                    *)

Word == SUBSET (0..31)

LEMMA ByteBits ==
  ASSUME NEW b \in Byte
  PROVE  BitsOf(b) \subseteq 0..7
<1>1. ASSUME NEW i \in 8..15 PROVE (b \div 2^i) % 2 # 1
  <2> DEFINE p == 2^i
  <2>1. \/ p = 256 \/ p = 512 \/ p = 1024 \/ p = 2048 \/ p = 4096
        \/ p = 8192 \/ p = 16384 \/ p = 32768
    <3>1. i = 8 => p = 256
      OBVIOUS
    <3>2. i = 9 => p = 512
      OBVIOUS
    <3>3. i = 10 => p = 1024
      OBVIOUS
    <3>4. i = 11 => p = 2048
      OBVIOUS
    <3>5. i = 12 => p = 4096
      OBVIOUS
    <3>6. i = 13 => p = 8192
      OBVIOUS
    <3>7. i = 14 => p = 16384
      OBVIOUS
    <3>8. i = 15 => p = 32768
      OBVIOUS
    <3>9. i = 8 \/ i = 9 \/ i = 10 \/ i = 11 \/ i = 12 \/ i = 13 \/ i = 14 \/ i = 15
      OBVIOUS
    <3> HIDE DEF p
    <3> QED BY ONLY <3>1, <3>2, <3>3, <3>4, <3>5, <3>6, <3>7, <3>8, <3>9
  <2>2. b \in 0..255
    BY DEF Byte
  <2> HIDE DEF p
  <2>3. b \div p = 0
    BY ONLY <2>1, <2>2
  <2>4. (b \div p) % 2 # 1
    BY ONLY <2>3
  <2> QED BY <2>4 DEF p
<1>2. ASSUME NEW i \in 0..15, i \notin 0..7 PROVE i \in 8..15
  BY <1>2
<1> QED BY <1>1, <1>2 DEF BitsOf

LEMMA ByteOfBits ==
  ASSUME NEW x
  PROVE  ByteOf(x) \in Byte
BY DEF ByteOf, Byte

LEMMA HexIsWord ==
  ASSUME NEW high, NEW low
  PROVE  Hex(high, low) \in Word
BY DEF Hex, Up, BitsOf, Word

LEMMA Rotated ==
  ASSUME NEW x \in Word, NEW count \in Nat
  PROVE  rotate_left(x, count) \in Word
BY DEF rotate_left, Word

LEMMA PlusIsWord ==
  ASSUME NEW x, NEW y
  PROVE  Plus(x, y) \in Word
BY DEF Plus, Word

LEMMA DiffersIsWord ==
  ASSUME NEW x \in Word, NEW y \in Word
  PROVE  SymDiff(x, y) \in Word
BY DEF SymDiff, Word

LEMMA ReadIsWord ==
  ASSUME NEW s \in Seq(Byte), NEW n \in Nat, n + 4 <= Len(s)
  PROVE  read_be32(s, n) \in Word
<1>1. ASSUME NEW k \in 1..4
      PROVE  Up(BitsOf(s[n + k]), 32 - 8*k) \in Word
  <2>1. s[n + k] \in Byte
    BY ElementOfSeq, LenProperties
  <2>2. BitsOf(s[n + k]) \subseteq 0..7
    BY <2>1, ByteBits
  <2>3. \A i \in 0..7 : i + (32 - 8*k) \in 0..31
    OBVIOUS
  <2> QED BY <2>2, <2>3 DEF Up, Word
<1> QED BY <1>1 DEF read_be32, Word

LEMMA NextIsWord ==
  ASSUME NEW w \in Seq(Word), Len(w) \in 16..79
  PROVE  NextWord(w) \in Word
<1> DEFINE L == Len(w)
           n == L + 1
<1>1. w[n-3] \in Word /\ w[n-8] \in Word /\ w[n-14] \in Word /\ w[n-16] \in Word
  <2>1. L \in 16..79
    OBVIOUS
  <2> HIDE DEF L
  <2>2. n-3 \in 1..L /\ n-8 \in 1..L /\ n-14 \in 1..L /\ n-16 \in 1..L
    BY ONLY <2>1
  <2> HIDE DEF n
  <2> QED BY <2>2, ElementOfSeq DEF L
<1>2. SymDiff(SymDiff(w[n-3], w[n-8]), SymDiff(w[n-14], w[n-16])) \in Word
  <2> HIDE DEF n
  <2> QED BY <1>1, DiffersIsWord
<1> QED BY <1>2, Rotated DEF NextWord

LEMMA FIsWord ==
  ASSUME NEW n, NEW b \in Word, NEW c \in Word, NEW d \in Word
  PROVE  F(n, b, c, d) \in Word
<1>1. Choose(b, c, d) \in Word /\ Majority(b, c, d) \in Word
  BY DEF Choose, Majority, Word
<1>2. Parity(b, c, d) \in Word
  BY DiffersIsWord DEF Parity
<1> QED BY <1>1, <1>2 DEF F

\* Five words.
Five == {x \in Seq(Word) : Len(x) = 5}

LEMMA FiveWords ==
  /\ \A a, b, c, d, e \in Word : << a, b, c, d, e >> \in Five
  /\ \A x \in Five : x[1] \in Word /\ x[2] \in Word /\ x[3] \in Word /\ x[4] \in Word
                       /\ x[5] \in Word
<1>1. ASSUME NEW a \in Word, NEW b \in Word, NEW c \in Word, NEW d \in Word, NEW e \in Word
      PROVE  << a, b, c, d, e >> \in Five
  BY DEF Five
<1>2. ASSUME NEW x \in Five
      PROVE  x[1] \in Word /\ x[2] \in Word /\ x[3] \in Word /\ x[4] \in Word /\ x[5] \in Word
  <2>1. x \in Seq(Word) /\ Len(x) = 5
    BY DEF Five
  <2>2. \A i \in 1..5 : x[i] \in Word
    BY <2>1, ElementOfSeq
  <2> QED BY <2>2
<1> QED BY <1>1, <1>2

LEMMA InitialWords == InitialState \in Five
BY HexIsWord, FiveWords DEF InitialState

LEMMA Digest ==
  ASSUME h \in Five
  PROVE  digest \in Seq(Byte) /\ Len(digest) = 20
<1> DEFINE bytes == [k \in 1..5 |-> write_be32(h[k])]
<1>1. \A k \in 1..5 : bytes[k] \in [1..4 -> Byte]
  BY ByteOfBits DEF write_be32
<1>2. ASSUME NEW i \in 1..20
      PROVE  bytes[(i + 3) \div 4][((i - 1) % 4) + 1] \in Byte
  <2>1. (i + 3) \div 4 \in 1..5 /\ ((i - 1) % 4) + 1 \in 1..4
    OBVIOUS
  <2> HIDE DEF bytes
  <2> QED BY <1>1, <2>1
<1>3. digest \in [1..20 -> Byte]
  BY <1>2 DEF digest
<1> QED BY <1>3, ArrayIsSeq

LEMMA ZerosFill ==
  ASSUME NEW n \in Nat
  PROVE  Zeros(n) \in 0..63 /\ (n + 1 + Zeros(n)) % 64 = 56
<1> DEFINE q == (n + 1) \div 64
           r == (n + 1) % 64
           k == IF r <= 56 THEN 56 - r ELSE 120 - r
<1>1. q \in Nat /\ r \in 0..63 /\ n + 1 = q * 64 + r
  BY Parts
<1> HIDE DEF q, r
<1>2. k \in 0..63 /\ (n + 1 + k = q * 64 + 56 \/ n + 1 + k = (q + 1) * 64 + 56)
  BY <1>1
<1>3. (q * 64 + 56) % 64 = 56 /\ ((q + 1) * 64 + 56) % 64 = 56
  BY <1>1, Periods
<1> HIDE DEF k
<1>4. k \in 0..63 /\ (n + 1 + k) % 64 = 56
  BY <1>2, <1>3
<1>5. \E i \in 0..63 : (n + 1 + i) % 64 = 56
  BY <1>4
<1> QED BY <1>5 DEF Zeros

LEMMA PaddedBlocks ==
  ASSUME NEW s \in Seq(Byte)
  PROVE  Padded(s) \in Seq(Byte) /\ Len(Padded(s)) % BlockSize = 0
<1> DEFINE n == Len(s)
           z == Zeros(n)
           mark == << 128 >>
           zeros == [i \in 1..z |-> 0]
           size == << 0, 0, 0, 0, 0, 0, ((8 * n) \div 256) % 256, (8 * n) % 256 >>
<1>1. n \in Nat
  BY LenProperties
<1>2. z \in 0..63 /\ (n + 1 + z) % 64 = 56
  BY <1>1, ZerosFill
<1>3. mark \in Seq(Byte) /\ Len(mark) = 1
  BY DEF Byte
<1>4. zeros \in Seq(Byte) /\ Len(zeros) = z
  <2> HIDE DEF z
  <2>1. z \in Nat
    BY ONLY <1>2
  <2>2. zeros \in [1..z -> Byte]
    BY DEF Byte
  <2> QED BY <2>1, <2>2, ArrayIsSeq
<1>5. size \in Seq(Byte) /\ Len(size) = 8
  <2> DEFINE a == ((8 * n) \div 256) % 256
             b == (8 * n) % 256
  <2>1. a \in Byte /\ b \in Byte /\ 0 \in Byte
    <3> HIDE DEF n
    <3> QED BY ONLY <1>1 DEF Byte, a, b
  <2>2. size = << 0, 0, 0, 0, 0, 0, a, b >>
    OBVIOUS
  <2> HIDE DEF a, b, size
  <2>3. << 0, 0, 0, 0, 0, 0, a, b >> \in Seq(Byte)
    BY ONLY <2>1
  <2>4. Len(<< 0, 0, 0, 0, 0, 0, a, b >>) = 8
    OBVIOUS
  <2> QED BY <2>2, <2>3, <2>4
<1> HIDE DEF mark, zeros, size
<1> DEFINE marked == s \o mark
<1>6. marked \in Seq(Byte) /\ Len(marked) = n + 1
  <2>1. marked \in Seq(Byte) /\ Len(marked) = Len(s) + Len(mark)
    BY <1>3, ConcatProperties
  <2> QED BY <1>3, <2>1
<1> HIDE DEF n, z, marked
<1> DEFINE filled == marked \o zeros
<1>7. filled \in Seq(Byte) /\ Len(filled) = n + 1 + z
  <2>1. filled \in Seq(Byte) /\ Len(filled) = Len(marked) + Len(zeros)
    BY <1>4, <1>6, ConcatProperties
  <2> QED BY <1>4, <1>6, <2>1
<1> HIDE DEF filled
<1> DEFINE padded == filled \o size
<1>8. padded \in Seq(Byte) /\ Len(padded) = n + 1 + z + 8
  <2>1. padded \in Seq(Byte) /\ Len(padded) = Len(filled) + Len(size)
    BY <1>5, <1>7, ConcatProperties
  <2> QED BY <1>5, <1>7, <2>1
<1>9. (n + 1 + z + 8) % 64 = 0
  <2> DEFINE m == n + 1 + z
             q == m \div 64
  <2>1. m \in Nat /\ m % 64 = 56
    BY ONLY <1>1, <1>2
  <2> HIDE DEF m
  <2>2. q \in Nat /\ m = q * 64 + 56
    BY ONLY <2>1, Parts
  <2> HIDE DEF q
  <2>3. m + 8 = (q + 1) * 64 + 0
    BY <2>2
  <2>4. ((q + 1) * 64 + 0) % 64 = 0
    BY <2>2, Periods
  <2> QED BY <2>3, <2>4 DEF m
<1>10. Padded(s) = padded
  BY DEF Padded, n, z, mark, zeros, size, marked, filled
<1> QED BY <1>8, <1>9, <1>10 DEF BlockSize

-----------------------------------------------------------------------------
(* The machine that hashes.                                                *)

\* There is a block to load when the schedule is empty and blocks are left;
\* the rounds run on a whole schedule and on five words.
BlockInv ==
  /\ rest \in Seq(Byte) /\ Len(rest) % BlockSize = 0
  /\ W \in Seq(Word) /\ Len(W) \in {0} \cup (16..80)
  /\ W # << >> => rest # << >>
  /\ v \in Five \cup {<< >>} /\ (Len(W) > 16 => v \in Five)
  /\ t \in 0..80 /\ (t > 0 => Len(W) = 80)

HashInv ==
  /\ BlockInv
  /\ phase \in {"none", "key", "inner", "outer", "done"}
  /\ IF phase = "none" THEN h = << >> ELSE h \in Five
  /\ message \in Seq(Byte) /\ padded_key \in Seq(Byte)
  /\ mac \in Seq(Byte) /\ Len(mac) = (IF phase = "done" THEN 20 ELSE 0)

\* What is hashed and the key are bytes; what is not hashed is left alone.
LEMMA HashBegins ==
  ASSUME NEW s \in Seq(Byte), Begin(s)
  PROVE  BlockInv' /\ h' \in Five
<1>1. rest' \in Seq(Byte) /\ Len(rest') % BlockSize = 0
  BY PaddedBlocks DEF Begin
<1>2. W' \in Seq(Word) /\ Len(W') = 0 /\ W' = << >> /\ v' = << >> /\ t' = 0
  BY EmptySeq DEF Begin
<1>3. h' \in Five
  BY InitialWords DEF Begin
<1> QED BY <1>1, <1>2, <1>3 DEF BlockInv

LEMMA ResizedBytes ==
  ASSUME NEW s \in Seq(Byte)
  PROVE  Resized(s) \in Seq(Byte)
<1> DEFINE zeros == [i \in 1..(BlockSize - Len(s)) |-> 0]
<1>1. Len(s) \in Nat
  BY LenProperties
<1>2. zeros \in Seq(Byte)
  <2>1. CASE BlockSize - Len(s) \in Nat
    <3>1. zeros \in [1..(BlockSize - Len(s)) -> Byte]
      BY DEF Byte
    <3> QED BY <2>1, <3>1, ArrayIsSeq
  <2>2. CASE BlockSize - Len(s) \notin Nat
    <3>1. 1..(BlockSize - Len(s)) = {}
      BY <1>1, <2>2 DEF BlockSize
    <3>2. zeros = << >>
      BY <3>1
    <3> QED BY <3>2, EmptySeq
  <2> QED BY <2>1, <2>2
<1> HIDE DEF zeros
<1>3. s \o zeros \in Seq(Byte)
  BY <1>2, ConcatProperties
<1> QED BY <1>3 DEF Resized, zeros

LEMMA XoredBytes ==
  ASSUME NEW s \in Seq(Byte), NEW byte
  PROVE  Xored(s, byte) \in Seq(Byte)
<1>1. Len(s) \in Nat /\ DOMAIN s = 1..Len(s)
  BY LenProperties
<1>2. Xored(s, byte) \in [1..Len(s) -> Byte]
  BY <1>1, ByteOfBits DEF Xored
<1> QED BY <1>1, <1>2, ArrayIsSeq

LEMMA InnerBegins ==
  ASSUME NEW key \in Seq(Byte), NEW m \in Seq(Byte), BeginInner(key, m)
  PROVE  BlockInv' /\ h' \in Five /\ phase' = "inner" /\ padded_key' \in Seq(Byte)
<1> DEFINE mixed == Xored(Resized(key), 54)
<1>1. Resized(key) \in Seq(Byte) /\ mixed \in Seq(Byte)
  BY ResizedBytes, XoredBytes
<1> HIDE DEF mixed
<1>2. mixed \o m \in Seq(Byte)
  BY <1>1, ConcatProperties
<1>3. Begin(mixed \o m) /\ phase' = "inner" /\ padded_key' = Resized(key)
  BY DEF BeginInner, mixed
<1> QED BY <1>1, <1>2, <1>3, HashBegins

LEMMA HmacBegins ==
  ASSUME NEW key \in Seq(Byte), NEW m \in Seq(Byte), HashInv, hmac_sha1(key, m)
  PROVE  HashInv'
<1>1. message' = m /\ mac' = << >> /\ mac' \in Seq(Byte) /\ Len(mac') = 0
  BY EmptySeq DEF hmac_sha1
<1>2. CASE Len(key) > BlockSize
  <2>1. phase' = "key" /\ Begin(key) /\ padded_key' = padded_key
    BY <1>2 DEF hmac_sha1
  <2>2. BlockInv' /\ h' \in Five
    BY <2>1, HashBegins
  <2>3. padded_key' \in Seq(Byte)
    BY <2>1 DEF HashInv
  <2> QED BY <1>1, <2>1, <2>2, <2>3 DEF HashInv
<1>3. CASE ~(Len(key) > BlockSize)
  <2>1. BeginInner(key, m)
    BY <1>3 DEF hmac_sha1
  <2>2. BlockInv' /\ h' \in Five /\ phase' = "inner" /\ padded_key' \in Seq(Byte)
    BY <2>1, InnerBegins
  <2> QED BY <1>1, <2>2 DEF HashInv
<1> QED BY <1>2, <1>3

\* A block that is not empty is whole.
LEMMA WholeBlock ==
  ASSUME BlockInv, rest # << >>
  PROVE  Len(rest) \in Nat /\ Len(rest) >= 64
<1>1. rest \in Seq(Byte) /\ Len(rest) % 64 = 0
  BY DEF BlockInv, BlockSize
<1>2. Len(rest) \in Nat \ {0}
  BY <1>1, EmptySeq
<1> DEFINE L == Len(rest)
<1> HIDE DEF L
<1>3. L \in Nat \ {0} /\ L % 64 = 0
  BY <1>1, <1>2 DEF L
<1>4. L >= 64
  BY ONLY <1>3
<1> QED BY <1>3, <1>4 DEF L

LEMMA LoadsBlock ==
  ASSUME BlockInv, LoadBlock
  PROVE  BlockInv'
<1>1. /\ rest # << >> /\ W = << >> /\ W' = [i \in 1..16 |-> read_be32(rest, 4*i - 4)]
      /\ rest' = rest /\ v' = v /\ t' = t
  BY DEF LoadBlock
<1>2. rest \in Seq(Byte) /\ Len(rest) \in Nat /\ Len(rest) >= 64
  BY <1>1, WholeBlock DEF BlockInv
<1>3. ASSUME NEW i \in 1..16 PROVE read_be32(rest, 4*i - 4) \in Word
  <2> DEFINE L == Len(rest)
  <2>1. L \in Nat /\ L >= 64
    BY <1>2
  <2> HIDE DEF L
  <2>2. 4*i - 4 \in Nat /\ (4*i - 4) + 4 <= L
    BY ONLY <2>1, i \in 1..16
  <2> QED BY <1>2, <2>2, ReadIsWord DEF L
<1>4. W' \in [1..16 -> Word]
  BY <1>1, <1>3
<1>5. W' \in Seq(Word) /\ Len(W') = 16
  BY ONLY <1>4, 16 \in Nat, ArrayIsSeq
<1>6. Len(W) = 0
  BY <1>1, EmptySeq
<1> QED BY <1>1, <1>5, <1>6 DEF BlockInv

LEMMA ExtendsSchedule ==
  ASSUME BlockInv, h \in Five, ExtendSchedule
  PROVE  BlockInv'
<1>1. /\ Len(W) \in 16..79 /\ W' = Append(W, NextWord(W)) /\ v' = h
      /\ rest' = rest /\ t' = t /\ W \in Seq(Word)
  BY DEF ExtendSchedule, BlockInv
<1>2. NextWord(W) \in Word
  BY <1>1, NextIsWord
<1>3. W' \in Seq(Word) /\ Len(W') = Len(W) + 1
  BY <1>1, <1>2, AppendProperties
<1> DEFINE L == Len(W)
<1> HIDE DEF L
<1>4. Len(W') \in 17..80
  <2>1. L \in 16..79 /\ Len(W') = L + 1
    BY <1>1, <1>3 DEF L
  <2> QED BY ONLY <2>1
<1>5. W # << >> /\ t = 0
  <2>1. Len(W) # 0 /\ Len(W) # 80
    <3>1. L \in 16..79
      BY <1>1 DEF L
    <3>2. L # 0 /\ L # 80
      BY ONLY <3>1
    <3> QED BY <3>2 DEF L
  <2>2. t \in 0..80 /\ (t > 0 => Len(W) = 80)
    BY DEF BlockInv
  <2>3. t = 0
    BY ONLY <2>1, <2>2
  <2> QED BY <2>1, <2>3, EmptySeq
<1> QED BY <1>1, <1>3, <1>4, <1>5 DEF BlockInv

LEMMA Rounds ==
  ASSUME BlockInv, Round
  PROVE  BlockInv'
<1> DEFINE fed == Plus(rotate_left(v[1], 5), F(t, v[2], v[3], v[4]))
<1>1. /\ Len(W) = 80 /\ t < 80 /\ t' = t + 1 /\ rest' = rest /\ W' = W
      /\ v' = << Plus(Plus(Plus(fed, v[5]), K(t)), W[t + 1]),
                 v[1], rotate_left(v[2], 30), v[3], v[4] >>
  BY DEF Round
<1>2. v \in Five /\ t \in 0..80
  BY <1>1 DEF BlockInv
<1>3. v[1] \in Word /\ v[2] \in Word /\ v[3] \in Word /\ v[4] \in Word
  BY <1>2, FiveWords
<1>4. rotate_left(v[2], 30) \in Word
  BY <1>3, Rotated
<1>5. v' \in Five
  BY <1>1, <1>3, <1>4, PlusIsWord, FiveWords
<1>6. t' \in 0..80
  BY <1>1, <1>2
<1> QED BY <1>1, <1>5, <1>6 DEF BlockInv

LEMMA AddsBlock ==
  ASSUME BlockInv, h \in Five, AddBlock
  PROVE  BlockInv' /\ h' \in Five
<1>1. /\ t = 80 /\ h' = [i \in 1..5 |-> Plus(h[i], v[i])]
      /\ rest' = SubSeq(rest, BlockSize + 1, Len(rest))
      /\ W' = << >> /\ v' = << >> /\ t' = 0
  BY DEF AddBlock
<1>2. h' \in Five
  <2>1. h' \in [1..5 -> Word]
    BY <1>1, PlusIsWord
  <2> QED BY <2>1, ArrayIsSeq DEF Five
<1>3. rest \in Seq(Byte) /\ Len(rest) \in Nat /\ Len(rest) >= 64 /\ Len(rest) % 64 = 0
  <2>1. rest # << >>
    <3>1. t > 0
      BY ONLY <1>1
    <3>2. Len(W) = 80
      BY <3>1 DEF BlockInv
    <3>3. W # << >>
      <4>1. Len(<< >>) # 80
        BY EmptySeq
      <4> QED BY <3>2, <4>1
    <3> QED BY <3>3 DEF BlockInv
  <2> QED BY <2>1, WholeBlock DEF BlockInv, BlockSize
<1> DEFINE L == Len(rest)
<1>4. rest' \in Seq(Byte) /\ Len(rest') = L - 64
  <2>1. \A i \in 65..L : rest[i] \in Byte
    <3>1. \A i \in 65..L : i \in 1..L
      BY <1>3
    <3> QED BY <1>3, <3>1, ElementOfSeq
  <2>2. rest' = SubSeq(rest, 65, L)
    BY <1>1 DEF BlockSize
  <2> HIDE DEF L
  <2>3. L \in Nat /\ L >= 64
    BY <1>3 DEF L
  <2>4. rest' \in Seq(Byte) /\ Len(rest') = (IF 65 <= L THEN L - 65 + 1 ELSE 0)
    BY <2>1, <2>2, <2>3, SubSeqProperties
  <2> QED BY ONLY <2>3, <2>4
<1>5. (L - 64) % 64 = 0
  <2>1. L \in Nat /\ L >= 64 /\ L % 64 = 0
    BY <1>3
  <2> HIDE DEF L
  <2> QED BY ONLY <2>1
<1>6. W' \in Seq(Word) /\ Len(W') = 0
  BY <1>1, EmptySeq
<1> HIDE DEF L
<1>7. Len(rest') % BlockSize = 0
  BY <1>4, <1>5 DEF BlockSize
<1>8. Len(W') \in {0} \cup (16..80) /\ ~(Len(W') > 16)
  BY <1>6
<1>9. t' \in 0..80 /\ ~(t' > 0)
  BY ONLY <1>1
<1> QED BY <1>1, <1>2, <1>4, <1>6, <1>7, <1>8, <1>9 DEF BlockInv

LEMMA HashSteps == HashInv /\ HmacStep => HashInv'
<1> SUFFICES ASSUME HashInv, HmacStep PROVE HashInv'
  OBVIOUS
<1>1. /\ BlockInv /\ (phase # "none" => h \in Five)
      /\ message \in Seq(Byte) /\ padded_key \in Seq(Byte)
      /\ mac \in Seq(Byte) /\ Len(mac) = (IF phase = "done" THEN 20 ELSE 0)
  BY DEF HashInv
<1>2. ASSUME OfHash, BlockInv', h' \in Five PROVE HashInv'
  BY <1>1, <1>2 DEF OfHash, Hashing, HashInv
<1>3. OfHash => h \in Five
  BY <1>1 DEF OfHash, Hashing
<1>4. CASE LoadBlock
  BY <1>1, <1>2, <1>3, <1>4, LoadsBlock DEF LoadBlock
<1>5. CASE ExtendSchedule
  BY <1>1, <1>2, <1>3, <1>5, ExtendsSchedule DEF ExtendSchedule
<1>6. CASE Round
  BY <1>1, <1>2, <1>3, <1>6, Rounds DEF Round
<1>7. CASE AddBlock
  BY <1>1, <1>2, <1>3, <1>7, AddsBlock DEF AddBlock
<1>8. Hashed => digest \in Seq(Byte) /\ Len(digest) = 20
  BY <1>1, Digest DEF Hashed, Hashing
<1>9. CASE KeyHashed
  <2>1. BeginInner(digest, message) /\ message' = message /\ mac' = mac /\ phase = "key"
    BY <1>9 DEF KeyHashed
  <2>2. BlockInv' /\ h' \in Five /\ phase' = "inner" /\ padded_key' \in Seq(Byte)
    BY <1>1, <1>8, <1>9, <2>1, InnerBegins DEF KeyHashed
  <2> QED BY <1>1, <2>1, <2>2 DEF HashInv
<1>10. CASE InnerHashed
  <2> DEFINE mixed == Xored(padded_key, 92)
  <2>1. /\ phase = "inner" /\ phase' = "outer" /\ Begin(mixed \o digest)
        /\ message' = message /\ padded_key' = padded_key /\ mac' = mac
    BY <1>10 DEF InnerHashed
  <2>2. mixed \in Seq(Byte)
    BY <1>1, XoredBytes
  <2> HIDE DEF mixed
  <2>3. mixed \o digest \in Seq(Byte)
    BY <1>8, <1>10, <2>2, ConcatProperties DEF InnerHashed
  <2>4. BlockInv' /\ h' \in Five
    BY <2>1, <2>3, HashBegins
  <2> QED BY <1>1, <2>1, <2>4 DEF HashInv
<1>11. CASE OuterHashed
  <2>1. /\ phase = "outer" /\ phase' = "done" /\ mac' = digest /\ padded_key' = << >>
        /\ UNCHANGED <<message, rest, h, W, v, t>>
    BY <1>11 DEF OuterHashed, hash
  <2>2. BlockInv'
    BY <1>1, <2>1 DEF BlockInv
  <2>3. mac' \in Seq(Byte) /\ Len(mac') = 20
    BY <1>8, <1>11, <2>1 DEF OuterHashed
  <2> QED BY <1>1, <2>1, <2>2, <2>3, EmptySeq DEF HashInv
<1> QED BY <1>4, <1>5, <1>6, <1>7, <1>9, <1>10, <1>11 DEF HmacStep

-----------------------------------------------------------------------------
(* The code.                                                               *)

LEMMA TimeBytes ==
  ASSUME NEW now \in Times
  PROVE  time_bytes(time_step(now)) \in Seq(Byte)
<1> DEFINE s == time_step(now)
<1>1. s \in Nat /\ s \div 16777216 <= 127
  <2>1. now \in Nat
    BY TimesAssumption
  <2>2. now \div Period \in Nat
    BY <2>1, Parts, PeriodAssumption
  <2>3. (now \div Period) \div 16777216 <= 127
    BY TimesAssumption, SMT
  <2> QED BY <2>2, <2>3, SMT DEF time_step
<1> HIDE DEF s
<1> DEFINE a == s \div 16777216
           b == (s \div 65536) % 256
           c == (s \div 256) % 256
           d == s % 256
<1>2. a \in Byte /\ b \in Byte /\ c \in Byte /\ d \in Byte /\ 0 \in Byte
  BY ONLY <1>1, SMT DEF Byte
<1>3. time_bytes(s) = << 0, 0, 0, 0, a, b, c, d >>
  BY SMT DEF time_bytes
<1> HIDE DEF a, b, c, d
<1>4. << 0, 0, 0, 0, a, b, c, d >> \in Seq(Byte)
  BY ONLY <1>2
<1> QED BY <1>3, <1>4 DEF s

\* What has so many digits at most is below this power.
Power(k) == 10^k

LEMMA PowersOfTen ==
  /\ \A k \in 0..8 : Power(k) \in Nat \ {0}
  /\ Power(6) <= Power(8) /\ Power(7) <= Power(8)
<1>1. /\ Power(0) \in Nat \ {0} /\ Power(1) \in Nat \ {0} /\ Power(2) \in Nat \ {0}
      /\ Power(3) \in Nat \ {0} /\ Power(4) \in Nat \ {0} /\ Power(5) \in Nat \ {0}
      /\ Power(6) \in Nat \ {0} /\ Power(7) \in Nat \ {0} /\ Power(8) \in Nat \ {0}
  BY SMT DEF Power
<1>2. Power(6) <= Power(8) /\ Power(7) <= Power(8)
  BY SMT DEF Power
<1>3. \A k \in 0..8 : \/ k = 0 \/ k = 1 \/ k = 2 \/ k = 3 \/ k = 4 \/ k = 5
                       \/ k = 6 \/ k = 7 \/ k = 8
  OBVIOUS
<1> QED BY <1>1, <1>2, <1>3

\* The truncated MAC has at most the digits of a code.
LEMMA Truncated ==
  ASSUME NEW m \in Seq(Byte), Len(m) = 20
  PROVE  truncate(m) \in 0..(Power(Digits) - 1) /\ truncate(m) \in 0..(Power(8) - 1)
<1> DEFINE o == m[20] % 16
           x == ((m[o+1] % 128) * 16777216) + (m[o+2] * 65536) + (m[o+3] * 256) + m[o+4]
           p == Power(Digits)
<1>1. \A i \in 1..20 : m[i] \in 0..255
  <2>1. \A i \in 1..20 : m[i] \in Byte
    BY ElementOfSeq
  <2> QED BY <2>1 DEF Byte
<1> DEFINE last == m[20]
<1>2. o \in 0..15
  <2>1. last \in 0..255
    BY <1>1
  <2> HIDE DEF last
  <2>2. last % 16 \in 0..15
    BY ONLY <2>1
  <2> QED BY <2>2 DEF last
<1> HIDE DEF o
<1>3. m[o+1] \in 0..255 /\ m[o+2] \in 0..255 /\ m[o+3] \in 0..255 /\ m[o+4] \in 0..255
  <2>1. \A k \in 1..4 : o + k \in 1..20
    BY ONLY <1>2
  <2>2. \A k \in 1..4 : m[o + k] \in 0..255
    BY ONLY <1>1, <2>1
  <2> QED BY ONLY <2>2
<1>4. x \in Nat
  <2> DEFINE a == m[o+1]
             b == m[o+2]
             c == m[o+3]
             d == m[o+4]
  <2>1. a \in 0..255 /\ b \in 0..255 /\ c \in 0..255 /\ d \in 0..255
    BY <1>3
  <2> HIDE DEF a, b, c, d
  <2>2. ((a % 128) * 16777216) + (b * 65536) + (c * 256) + d \in Nat
    BY ONLY <2>1, SMT
  <2> QED BY <2>2, SMT DEF a, b, c, d
<1>5. truncate(m) = x % p
  BY SMT DEF truncate, o, Power
<1> HIDE DEF x
<1>6. p \in Nat \ {0} /\ p <= Power(8) /\ Power(8) \in Nat
  <2>1. Digits = 6 \/ Digits = 7 \/ Digits = 8
    BY DigitsAssumption
  <2>2. 6 \in 0..8 /\ 7 \in 0..8 /\ 8 \in 0..8
    OBVIOUS
  <2>3. Power(6) \in Nat \ {0} /\ Power(7) \in Nat \ {0} /\ Power(8) \in Nat \ {0}
    BY ONLY <2>2, PowersOfTen
  <2>4. Power(6) <= Power(8) /\ Power(7) <= Power(8) /\ Power(8) <= Power(8)
    BY ONLY <2>3, PowersOfTen
  <2> QED BY ONLY <2>1, <2>3, <2>4
<1> HIDE DEF p
<1>7. x % p \in 0..(p - 1)
  BY <1>4, <1>6, Parts
<1>8. x % p \in 0..(Power(8) - 1)
  BY <1>6, <1>7
<1> QED BY <1>5, <1>7, <1>8 DEF p

\* k is the length of n without zeros in front.
HasLength(n, k) == n < Power(k) /\ (k = 1 \/ n >= Power(k-1))

LEMMA ShownLength ==
  ASSUME NEW n \in 0..(Power(8) - 1)
  PROVE  \E k \in 1..8 : /\ HasLength(n, k)
                         /\ to_string(n) = [i \in 1..k |-> (n \div Power(k - i)) % 10]
<1> DEFINE len == CHOOSE k \in 1..8 : HasLength(n, k)
<1>1. n \in Nat /\ \A k \in 0..8 : Power(k) \in Nat \ {0}
  BY PowersOfTen
<1>2. \E k \in 1..8 : HasLength(n, k)
  <2>1. n < Power(8)
    BY <1>1
  <2>2. ASSUME NEW k \in 2..8, n < Power(k), ~HasLength(n, k) PROVE n < Power(k - 1)
    <3>1. k - 1 \in 0..8 /\ k # 1
      OBVIOUS
    <3> QED BY <1>1, <2>2, <3>1 DEF HasLength
  <2>3. SUFFICES ASSUME \A k \in 1..8 : ~HasLength(n, k) PROVE FALSE
    OBVIOUS
  <2>4. n < Power(7)
    BY <2>1, <2>2, <2>3
  <2>5. n < Power(6)
    BY <2>2, <2>3, <2>4
  <2>6. n < Power(5)
    BY <2>2, <2>3, <2>5
  <2>7. n < Power(4)
    BY <2>2, <2>3, <2>6
  <2>8. n < Power(3)
    BY <2>2, <2>3, <2>7
  <2>9. n < Power(2)
    BY <2>2, <2>3, <2>8
  <2>10. n < Power(1)
    BY <2>2, <2>3, <2>9
  <2>11. HasLength(n, 1)
    BY <2>10 DEF HasLength
  <2> QED BY <2>3, <2>11
<1>3. len \in 1..8 /\ HasLength(n, len)
  BY <1>2
<1>4. to_string(n) = [i \in 1..len |-> (n \div Power(len - i)) % 10]
  BY SMT DEF to_string, HasLength, Power
<1> HIDE DEF len
<1> QED BY <1>3, <1>4

\* A number of at most eight digits is shown as digits.
LEMMA Shown ==
  ASSUME NEW n \in 0..(Power(8) - 1)
  PROVE  /\ to_string(n) \in Seq(0..9)
         /\ Len(to_string(n)) \in 1..8 /\ HasLength(n, Len(to_string(n)))
<1>1. n \in Nat /\ \A k \in 0..8 : Power(k) \in Nat \ {0}
  BY PowersOfTen
<1>2. PICK len \in 1..8 : /\ HasLength(n, len)
                          /\ to_string(n) = [i \in 1..len |-> (n \div Power(len - i)) % 10]
  BY ShownLength
<1>3. ASSUME NEW i \in 1..len PROVE (n \div Power(len - i)) % 10 \in 0..9
  <2> DEFINE k == len - i
             p == Power(k)
  <2>1. k \in 0..8
    OBVIOUS
  <2> HIDE DEF k
  <2>2. p \in Nat \ {0}
    BY <1>1, <2>1
  <2> HIDE DEF p
  <2>3. n \div p \in Nat
    BY <1>1, <2>2, Parts
  <2>4. (n \div p) % 10 \in 0..9
    BY ONLY <2>3
  <2> QED BY <2>4 DEF p, k
<1>4. len \in Nat /\ to_string(n) \in [1..len -> 0..9]
  BY <1>2, <1>3
<1>5. to_string(n) \in Seq(0..9) /\ Len(to_string(n)) = len
  BY ONLY <1>4, ArrayIsSeq
<1> QED BY <1>2, <1>5

\* The decoder holds no more than its bits can make.
LEMMA DecoderTyped ==
  ASSUME SecretInv
  PROVE  /\ left \in Seq(Byte) /\ raw_secret \in Seq(Byte)
         /\ decoder.bits \in 0..7 /\ decoder.buffer \in 0..(2^decoder.bits - 1)
<1>1. CASE left = << >> /\ decoder = Start32
  <2>1. decoder.out = << >> /\ decoder.bits = 0 /\ decoder.buffer = 0
    BY <1>1 DEF Start32
  <2>2. 2^0 = 1
    OBVIOUS
  <2> QED BY <1>1, <2>1, <2>2, EmptySeq DEF raw_secret
<1>2. CASE Decoding /\ secret \in Seq(Byte)
  <2> DEFINE d == Data(secret)
             c == Len(d) - Len(left)
             j == 8 * Len(decoder.out)
             n == decoder.bits
  <2>1. /\ base32_normalize(secret) = secret /\ base32_validate(secret)
        /\ left \in Seq(Symbol) /\ Len(left) <= Len(d) /\ Taken(d, c, decoder)
    BY <1>2 DEF Decoding
  <2>2. d \in Seq(Symbol)
    BY <1>2, <2>1, Accepted
  <2>3. left \in Seq(Byte)
    BY <2>1, SeqMonotonic DEF Symbol
  <2> HIDE DEF d
  <2>4. Len(d) \in Nat /\ Len(left) \in Nat
    BY <2>1, <2>2, LenProperties
  <2>5. /\ decoder.out \in Seq(Byte) /\ n \in 0..7 /\ 5 * c = j + n
        /\ Makes(d, j, n, decoder.buffer)
    BY <2>1 DEF Taken, Decoder
  <2>6. Len(decoder.out) \in Nat
    BY <2>5, LenProperties
  <2>7. j \in Nat
    BY <2>6
  <2> HIDE DEF j, n
  <2>8. ASSUME NEW k \in 0..(n - 1) PROVE Bit(d, j + k) \in 0..1
    <3>1. j + k \in Nat /\ j + k < 5 * Len(d)
      <4> DEFINE a == Len(d)
                 b == Len(left)
      <4>1. a \in Nat /\ b \in Nat /\ 5 * (a - b) = j + n
        BY <2>4, <2>5
      <4> HIDE DEF a, b
      <4>2. j + k \in Nat /\ j + k < 5 * a
        BY ONLY <2>5, <2>7, <4>1, k \in 0..(n - 1)
      <4> QED BY <4>2 DEF a
    <3> QED BY <2>2, <3>1, Bits
  <2>9. decoder.buffer \in 0..(2^n - 1)
    BY <2>5, <2>7, <2>8, Below
  <2> QED BY <2>3, <2>5, <2>9 DEF raw_secret, n
<1> QED BY <1>1, <1>2 DEF SecretInv

CodeInv == HashInv /\ code \in Seq(0..9)

LEMMA CodeInit == Init => CodeInv
<1> SUFFICES ASSUME Init PROVE CodeInv
  OBVIOUS
<1>1. /\ message = << >> /\ phase = "none" /\ padded_key = << >> /\ mac = << >>
      /\ rest = << >> /\ h = << >> /\ W = << >> /\ v = << >> /\ t = 0 /\ code = << >>
  BY DEF Init, HmacInit
<1>2. \A S : << >> \in Seq(S)
  BY EmptySeq
<1>3. Len(<< >>) = 0 /\ 0 % 64 = 0
  BY EmptySeq
<1>4. BlockInv
  BY <1>1, <1>2, <1>3 DEF BlockInv, BlockSize
<1> QED BY <1>1, <1>2, <1>3, <1>4 DEF CodeInv, HashInv

LEMMA CodeNext == SecretInv /\ CodeInv /\ [Next]_vars => CodeInv'
<1> SUFFICES ASSUME SecretInv, CodeInv, [Next]_vars PROVE CodeInv'
  OBVIOUS
<1>1. ASSUME UNCHANGED <<hmac_vars, code>> PROVE CodeInv'
  BY <1>1 DEF hmac_vars, hash, CodeInv, HashInv, BlockInv
<1>2. CASE Reject
  BY <1>1, <1>2 DEF Reject
<1>3. CASE Accept
  BY <1>1, <1>3 DEF Accept
<1>4. CASE Decode
  BY <1>1, <1>4 DEF Decode
<1>5. CASE \E now \in Times : Generate(now)
  <2>1. PICK now \in Times : Generate(now)
    BY <1>5
  <2>2. hmac_sha1(raw_secret, time_bytes(time_step(now))) /\ code' = code
    BY <2>1 DEF Generate
  <2>3. raw_secret \in Seq(Byte)
    BY DecoderTyped
  <2> QED BY <2>2, <2>3, TimeBytes, HmacBegins DEF CodeInv
<1>6. CASE Hash
  BY <1>6, HashSteps DEF Hash, CodeInv
<1>7. CASE Show
  <2>1. phase = "done" /\ code' = to_string(truncate(mac)) /\ UNCHANGED hmac_vars
    BY <1>7 DEF Show
  <2>2. HashInv'
    BY <2>1 DEF hmac_vars, hash, CodeInv, HashInv, BlockInv
  <2>3. mac \in Seq(Byte) /\ Len(mac) = 20
    BY <2>1 DEF CodeInv, HashInv
  <2>4. code' \in Seq(0..9)
    BY <2>1, <2>3, Truncated, Shown
  <2> QED BY <2>2, <2>4 DEF CodeInv
<1>8. CASE UNCHANGED vars
  BY <1>1, <1>8 DEF vars
<1> QED BY <1>2, <1>3, <1>4, <1>5, <1>6, <1>7, <1>8 DEF Next

\* The decoder holds less than its bits allow, the hash works on words, blocks
\* and bytes, and a code is digits: no step of the loops leaves its range,
\* whatever the secret, its length and the time.
THEOREM CodeTyped == Spec => []TypeOK
<1>1. SecretInv /\ CodeInv => TypeOK
  <2> SUFFICES ASSUME SecretInv, CodeInv PROVE TypeOK
    OBVIOUS
  <2>1. /\ pc \in {"prompt", "rejected", "thrown", "decode", "stored", "hash", "shown"}
        /\ secret \in Seq(Byte) /\ unix_time \in Times \cup {0}
    BY DEF SecretInv
  <2>2. /\ left \in Seq(Byte) /\ raw_secret \in Seq(Byte)
        /\ decoder.bits \in 0..7 /\ decoder.buffer \in 0..(2^decoder.bits - 1)
    BY DecoderTyped
  <2>3. \A s \in Five \cup {<< >>} : s \in Seq(SUBSET (0..31)) /\ Len(s) \in {0, 5}
    BY EmptySeq DEF Five, Word
  <2>4. h \in Five \cup {<< >>} /\ v \in Five \cup {<< >>}
    BY DEF CodeInv, HashInv, BlockInv
  <2>5. /\ rest \in Seq(Byte) /\ Len(rest) % BlockSize = 0
        /\ W \in Seq(SUBSET (0..31)) /\ Len(W) \in {0} \cup (16..80) /\ t \in 0..80
    BY DEF CodeInv, HashInv, BlockInv, Word
  <2>6. /\ phase \in {"none", "key", "inner", "outer", "done"} /\ code \in Seq(0..9)
        /\ mac \in Seq(Byte) /\ Len(mac) \in {0, 20}
    BY DEF CodeInv, HashInv
  <2> QED BY <2>1, <2>2, <2>3, <2>4, <2>5, <2>6 DEF TypeOK
<1>2. Spec => []CodeInv
  BY CodeInit, CodeNext, SecretAlways, PTL DEF Spec
<1> QED BY <1>1, <1>2, SecretAlways, PTL

-----------------------------------------------------------------------------
(* The code that is shown.  What FIPS 180-4 and RFC 2104 say of a whole    *)
(* message, with the words as functions and every loop at once.            *)

\* The 80 words of the block behind n blocks of p; the first l of them.
IsSchedule(p, n, l, w) ==
  \A i \in 1..l :
    w[i] = IF i <= 16 THEN read_be32(p, 64*n + (4*i - 4))
           ELSE rotate_left(SymDiff(SymDiff(w[i-3], w[i-8]), SymDiff(w[i-14], w[i-16])), 1)

\* Round n, with its word, on the five words x.
RoundOf(n, x, word) ==
  << Plus(Plus(Plus(Plus(rotate_left(x[1], 5), F(n, x[2], x[3], x[4])), x[5]), K(n)), word),
     x[1], rotate_left(x[2], 30), x[3], x[4] >>

\* The five words after each of the first m rounds.
IsRounds(g, w, m, r) ==
  /\ r \in [0..m -> Five] /\ r[0] = g
  /\ \A n \in 0..(m - 1) : r[n+1] = RoundOf(n, r[n], w[n+1])

\* What the block behind n blocks of p makes of g.
Compresses(p, n, g, next) ==
  \E w, r :
    /\ w \in [1..80 -> Word] /\ IsSchedule(p, n, 80, w) /\ IsRounds(g, w, 80, r)
    /\ next = [i \in 1..5 |-> Plus(g[i], r[80][i])]

\* The state after each of the first m blocks of p.
IsChain(p, m, c) ==
  /\ c \in [0..m -> Five] /\ c[0] = InitialState
  /\ \A n \in 0..(m - 1) : Compresses(p, n, c[n], c[n+1])

\* The bytes of five words.
BytesOf(g) ==
  LET bytes == [k \in 1..5 |-> write_be32(g[k])]
  IN  [i \in 1..20 |-> bytes[(i + 3) \div 4][((i - 1) % 4) + 1]]

SHA1(s, d) ==
  \E m, c : /\ m \in Nat /\ Len(Padded(s)) = 64 * m /\ IsChain(Padded(s), m, c)
            /\ d = BytesOf(c[m])

\* The key as it fills a block.
BlockKey(key, k) ==
  IF Len(key) > BlockSize THEN \E d : SHA1(key, d) /\ k = Resized(d)
  ELSE k = Resized(key)

HMAC(key, m, d) ==
  \E k, i : /\ BlockKey(key, k)
            /\ SHA1(Xored(k, 54) \o m, i) /\ SHA1(Xored(k, 92) \o i, d)

-----------------------------------------------------------------------------

\* y is what is behind the first n blocks of p.
Behind(p, n, y) ==
  /\ 64*n + Len(y) = Len(p)
  /\ \A i \in 1..Len(y) : y[i] = p[64*n + i]

\* The machine is in block n of s.
At(s, n, c) ==
  /\ n \in Nat /\ IsChain(Padded(s), n, c) /\ h = c[n]
  /\ Behind(Padded(s), n, rest)
  /\ IsSchedule(Padded(s), n, Len(W), W)
  /\ Len(W) > 16 => \E r : IsRounds(h, W, t, r) /\ v = r[t]

HashesUpTo(s) == \E n, c : At(s, n, c)

LEMMA ReadBehind ==
  ASSUME NEW p, NEW n \in Nat, NEW y \in Seq(Byte), Behind(p, n, y),
         NEW i \in 1..16, 64 <= Len(y)
  PROVE  read_be32(y, 4*i - 4) = read_be32(p, 64*n + (4*i - 4))
<1> DEFINE o == 4*i - 4
           L == Len(y)
<1>1. o \in 0..60 /\ L \in Nat /\ 64 <= L
  BY LenProperties
<1> HIDE DEF o, L
<1>2. ASSUME NEW k \in 1..4 PROVE y[o + k] = p[(64*n + o) + k]
  <2>1. o + k \in 1..L /\ 64*n + (o + k) = (64*n + o) + k
    BY ONLY <1>1, n \in Nat, k \in 1..4
  <2>2. \A j \in 1..L : y[j] = p[64*n + j]
    BY DEF Behind, L
  <2> QED BY ONLY <2>1, <2>2
<1>3. read_be32(y, o) = read_be32(p, 64*n + o)
  <2>1. {Up(BitsOf(y[o + k]), 32 - 8*k) : k \in 1..4}
          = {Up(BitsOf(p[(64*n + o) + k]), 32 - 8*k) : k \in 1..4}
    BY ONLY <1>2
  <2> QED BY ONLY <2>1 DEF read_be32
<1> QED BY <1>3 DEF o

LEMMA HashStarts ==
  ASSUME NEW s \in Seq(Byte), Begin(s)
  PROVE  HashesUpTo(s)'
<1> DEFINE c == [n \in 0..0 |-> InitialState]
           p == Padded(s)
<1>1. /\ rest' = p /\ h' = InitialState /\ W' = << >> /\ v' = << >> /\ t' = 0
  BY DEF Begin
<1>2. IsChain(p, 0, c)
  BY InitialWords DEF IsChain
<1>3. h' = c[0]
  BY <1>1
<1>4. p \in Seq(Byte) /\ Len(p) \in Nat
  BY PaddedBlocks, LenProperties
<1> HIDE DEF c, p
<1>5. Behind(p, 0, p)
  BY <1>4 DEF Behind
<1>6. Len(W') = 0 /\ IsSchedule(p, 0, Len(W'), W')
  BY <1>1, EmptySeq DEF IsSchedule
<1>7. At(s, 0, c)'
  BY <1>1, <1>2, <1>3, <1>5, <1>6 DEF At, p
<1> QED BY <1>7 DEF HashesUpTo

LEMMA HashLoads ==
  ASSUME NEW s, BlockInv, HashesUpTo(s), LoadBlock
  PROVE  HashesUpTo(s)'
<1>1. PICK n, c : At(s, n, c)
  BY DEF HashesUpTo
<1>2. /\ rest # << >> /\ W = << >> /\ W' = [i \in 1..16 |-> read_be32(rest, 4*i - 4)]
      /\ rest' = rest /\ h' = h /\ v' = v /\ t' = t
  BY DEF LoadBlock
<1>3. rest \in Seq(Byte) /\ 64 <= Len(rest)
  BY <1>2, WholeBlock DEF BlockInv
<1>4. n \in Nat /\ Behind(Padded(s), n, rest)
  BY <1>1 DEF At
<1>5. \A i \in 1..16 : W'[i] = read_be32(Padded(s), 64*n + (4*i - 4))
  BY <1>2, <1>3, <1>4, ReadBehind
<1>6. Len(W') = 16
  BY <1>2
<1>7. IsSchedule(Padded(s), n, Len(W'), W')
  BY <1>5, <1>6 DEF IsSchedule
<1>8. At(s, n, c)'
  BY <1>1, <1>2, <1>6, <1>7 DEF At
<1> QED BY <1>8 DEF HashesUpTo

LEMMA HashExtends ==
  ASSUME NEW s, BlockInv, h \in Five, HashesUpTo(s), ExtendSchedule
  PROVE  HashesUpTo(s)'
<1> DEFINE p == Padded(s)
           L == Len(W)
<1>1. PICK n, c : At(s, n, c)
  BY DEF HashesUpTo
<1>2. /\ L \in 16..79 /\ W' = Append(W, NextWord(W)) /\ v' = h
      /\ rest' = rest /\ h' = h /\ t' = t /\ W \in Seq(Word)
  BY DEF ExtendSchedule, BlockInv
<1>3. Len(W') = L + 1 /\ W'[L + 1] = NextWord(W) /\ \A i \in 1..L : W'[i] = W[i]
  BY <1>2, NextIsWord, AppendProperties
<1>4. t = 0
  <2>1. t \in 0..80 /\ (t > 0 => L = 80)
    BY DEF BlockInv
  <2>2. L \in 16..79
    BY <1>2
  <2> HIDE DEF L
  <2> QED BY ONLY <2>1, <2>2
<1>5. IsSchedule(p, n, L, W)
  BY <1>1 DEF At
<1>6. NextWord(W) = rotate_left(SymDiff(SymDiff(W[(L+1)-3], W[(L+1)-8]),
                                        SymDiff(W[(L+1)-14], W[(L+1)-16])), 1)
  BY DEF NextWord
<1> HIDE DEF L, p
<1>7. IsSchedule(p, n, L + 1, W')
  <2> SUFFICES ASSUME NEW i \in 1..(L + 1)
      PROVE  W'[i] = IF i <= 16 THEN read_be32(p, 64*n + (4*i - 4))
                     ELSE rotate_left(SymDiff(SymDiff(W'[i-3], W'[i-8]),
                                              SymDiff(W'[i-14], W'[i-16])), 1)
    BY DEF IsSchedule
  <2>1. i > 16 => /\ i-3 \in 1..L /\ i-8 \in 1..L /\ i-14 \in 1..L /\ i-16 \in 1..L
    BY ONLY <1>2, i \in 1..(L + 1)
  <2>2. i > 16 => /\ W'[i-3] = W[i-3] /\ W'[i-8] = W[i-8]
                  /\ W'[i-14] = W[i-14] /\ W'[i-16] = W[i-16]
    BY ONLY <1>3, <2>1
  <2>3. CASE i \in 1..L
    <3>1. W[i] = IF i <= 16 THEN read_be32(p, 64*n + (4*i - 4))
                 ELSE rotate_left(SymDiff(SymDiff(W[i-3], W[i-8]),
                                          SymDiff(W[i-14], W[i-16])), 1)
      BY ONLY <1>5, <2>3 DEF IsSchedule
    <3>2. W'[i] = W[i] /\ (i <= 16 \/ i > 16)
      BY ONLY <1>2, <1>3, <2>3
    <3> QED BY ONLY <2>2, <3>1, <3>2
  <2>4. CASE i = L + 1
    <3>1. ~(i <= 16) /\ i > 16
      BY ONLY <1>2, <2>4
    <3> QED BY ONLY <1>3, <1>6, <2>2, <2>4, <3>1
  <2>5. i \in 1..L \/ i = L + 1
    BY ONLY <1>2, i \in 1..(L + 1)
  <2> QED BY ONLY <2>3, <2>4, <2>5
<1>8. IsRounds(h, W', 0, [m \in 0..0 |-> h])
  BY DEF IsRounds
<1>9. \E r : IsRounds(h', W', t', r) /\ v' = r[t']
  <2>1. [m \in 0..0 |-> h][0] = h
    OBVIOUS
  <2> QED BY <1>2, <1>4, <1>8, <2>1
<1>10. At(s, n, c)'
  BY <1>1, <1>2, <1>3, <1>7, <1>9 DEF At, p
<1> QED BY <1>10 DEF HashesUpTo

LEMMA HashRounds ==
  ASSUME NEW s, BlockInv, HashesUpTo(s), Round
  PROVE  HashesUpTo(s)'
<1>1. PICK n, c : At(s, n, c)
  BY DEF HashesUpTo
<1>2. /\ Len(W) = 80 /\ t < 80 /\ t' = t + 1 /\ rest' = rest /\ h' = h /\ W' = W
      /\ v' = RoundOf(t, v, W[t + 1])
  BY DEF Round, RoundOf
<1>3. t \in 0..80 /\ v' \in Five
  <2>1. BlockInv'
    BY Rounds
  <2>2. Len(W') > 16
    <3>1. Len(W') = 80
      BY <1>2
    <3> QED BY ONLY <3>1
  <2>3. (Len(W') > 16 => v' \in Five) /\ t \in 0..80
    BY <2>1 DEF BlockInv
  <2> QED BY ONLY <2>2, <2>3
<1>4. PICK r : IsRounds(h, W, t, r) /\ v = r[t]
  BY <1>1, <1>2 DEF At
<1> DEFINE q == [m \in 0..(t + 1) |-> IF m <= t THEN r[m] ELSE v']
<1>5. IsRounds(h, W, t + 1, q)
  <2>1. r \in [0..t -> Five] /\ r[0] = h
    BY <1>4 DEF IsRounds
  <2>2. q \in [0..(t + 1) -> Five] /\ q[0] = h
    <3>1. ASSUME NEW m \in 0..(t + 1), m <= t PROVE r[m] \in Five
      BY <1>3, <2>1, <3>1
    <3> QED BY <1>3, <2>1, <3>1
  <2>3. ASSUME NEW m \in 0..t PROVE q[m + 1] = RoundOf(m, q[m], W[m + 1])
    <3>1. q[m] = r[m]
      BY <1>3
    <3>2. CASE m < t
      <4>1. m \in 0..(t - 1) /\ m + 1 \in 0..(t + 1) /\ m + 1 <= t
        BY ONLY <1>3, <3>2, m \in 0..t
      <4>2. r[m + 1] = RoundOf(m, r[m], W[m + 1])
        BY <1>4, <4>1 DEF IsRounds
      <4>3. q[m + 1] = r[m + 1]
        BY <4>1
      <4> HIDE DEF q
      <4> QED BY <3>1, <4>2, <4>3
    <3>3. CASE m = t
      <4>1. m + 1 \in 0..(t + 1) /\ ~(m + 1 <= t)
        BY ONLY <1>3, <3>3
      <4>2. q[m + 1] = v'
        BY <4>1
      <4> HIDE DEF q
      <4> QED BY <1>2, <1>4, <3>1, <3>3, <4>2
    <3> QED BY <1>3, <3>2, <3>3
  <2>4. (t + 1) - 1 = t
    BY <1>3
  <2> HIDE DEF q
  <2> QED BY <2>2, <2>3, <2>4 DEF IsRounds
<1>6. q[t + 1] = v'
  BY <1>3
<1> HIDE DEF q
<1>7. \E x : IsRounds(h', W', t', x) /\ v' = x[t']
  BY <1>2, <1>5, <1>6
<1>8. At(s, n, c)'
  BY <1>1, <1>2, <1>7 DEF At
<1> QED BY <1>8 DEF HashesUpTo

LEMMA HashAdds ==
  ASSUME NEW s, BlockInv, h \in Five, HashesUpTo(s), AddBlock
  PROVE  HashesUpTo(s)'
<1> DEFINE p == Padded(s)
           L == Len(rest)
<1>1. PICK n, c : At(s, n, c)
  BY DEF HashesUpTo
<1>2. /\ t = 80 /\ h' = [i \in 1..5 |-> Plus(h[i], v[i])]
      /\ rest' = SubSeq(rest, 65, L) /\ W' = << >> /\ v' = << >> /\ t' = 0
  BY DEF AddBlock, BlockSize
<1>3. Len(W) = 80 /\ W \in Seq(Word)
  <2>1. t > 0
    BY ONLY <1>2
  <2> QED BY <2>1 DEF BlockInv
<1>4. L \in Nat /\ L >= 64 /\ rest \in Seq(Byte)
  <2>1. W # << >>
    <3>1. Len(<< >>) # 80
      BY EmptySeq
    <3> QED BY <1>3, <3>1
  <2>2. rest # << >>
    BY <2>1 DEF BlockInv
  <2> QED BY <2>2, WholeBlock DEF BlockInv
<1>5. n \in Nat /\ IsChain(p, n, c) /\ h = c[n] /\ Behind(p, n, rest)
  BY <1>1 DEF At
<1>6. Compresses(p, n, h, h')
  <2>1. W \in [1..80 -> Word] /\ IsSchedule(p, n, 80, W)
    <3>1. W \in [1..Len(W) -> Word]
      BY <1>3, LenProperties, ElementOfSeq
    <3> QED BY <1>1, <1>3, <3>1 DEF At
  <2>2. PICK r : IsRounds(h, W, 80, r) /\ v = r[80]
    <3>1. Len(W) > 16
      BY <1>3
    <3> QED BY <1>1, <1>2, <3>1 DEF At
  <2> HIDE DEF p
  <2> QED BY <1>2, <2>1, <2>2 DEF Compresses
<1>7. h' \in Five
  BY AddsBlock
<1> DEFINE e == [m \in 0..(n + 1) |-> IF m <= n THEN c[m] ELSE h']
<1>8. IsChain(p, n + 1, e)
  <2>1. c \in [0..n -> Five] /\ c[0] = InitialState
    BY <1>5 DEF IsChain
  <2>2. e \in [0..(n + 1) -> Five] /\ e[0] = InitialState
    <3>1. ASSUME NEW m \in 0..(n + 1), m <= n PROVE c[m] \in Five
      BY <1>5, <2>1, <3>1
    <3> QED BY <1>5, <1>7, <2>1, <3>1
  <2>3. ASSUME NEW m \in 0..n PROVE Compresses(p, m, e[m], e[m + 1])
    <3>1. e[m] = c[m]
      BY <1>5
    <3>2. CASE m < n
      <4>1. m \in 0..(n - 1) /\ m + 1 \in 0..(n + 1) /\ m + 1 <= n
        BY ONLY <1>5, <3>2, m \in 0..n
      <4>2. Compresses(p, m, c[m], c[m + 1])
        BY <1>5, <4>1 DEF IsChain
      <4>3. e[m + 1] = c[m + 1]
        BY <4>1
      <4> HIDE DEF e
      <4> QED BY <3>1, <4>2, <4>3
    <3>3. CASE m = n
      <4>1. m + 1 \in 0..(n + 1) /\ ~(m + 1 <= n)
        BY ONLY <1>5, <3>3
      <4>2. e[m + 1] = h'
        BY <4>1
      <4> HIDE DEF e
      <4> QED BY <1>5, <1>6, <3>1, <3>3, <4>2
    <3> QED BY <1>5, <3>2, <3>3
  <2>4. (n + 1) - 1 = n
    BY <1>5
  <2> HIDE DEF e, p
  <2> QED BY <2>2, <2>3, <2>4 DEF IsChain
<1>9. e[n + 1] = h'
  BY <1>5
<1>10. Behind(p, n + 1, rest')
  <2>1. 64*n + L = Len(p) /\ \A i \in 1..L : rest[i] = p[64*n + i]
    BY <1>5 DEF Behind
  <2>2. \A i \in 65..L : rest[i] \in Byte
    BY <1>4, ElementOfSeq
  <2> HIDE DEF p, L
  <2>3. /\ Len(rest') = L - 64
        /\ \A i \in 1..(L - 64) : rest'[i] = rest[i + 64]
    <3>1. /\ Len(rest') = (IF 65 <= L THEN L - 65 + 1 ELSE 0)
          /\ \A i \in 1..(L - 65 + 1) : rest'[i] = rest[65 + i - 1]
      BY <1>2, <1>4, <2>2, SubSeqProperties
    <3>2. L - 65 + 1 = L - 64 /\ \A i \in 1..(L - 64) : 65 + i - 1 = i + 64
      BY ONLY <1>4
    <3>3. ~(65 <= L) => L - 64 = 0
      BY ONLY <1>4
    <3> QED BY ONLY <3>1, <3>2, <3>3
  <2>4. 64*(n + 1) + (L - 64) = 64*n + L
    BY ONLY <1>4, <1>5
  <2>5. \A i \in 1..(L - 64) : i + 64 \in 1..L /\ 64*n + (i + 64) = 64*(n + 1) + i
    BY ONLY <1>4, <1>5
  <2> QED BY ONLY <2>1, <2>3, <2>4, <2>5 DEF Behind
<1>11. Len(W') = 0 /\ IsSchedule(p, n + 1, Len(W'), W')
  BY <1>2, EmptySeq DEF IsSchedule
<1> HIDE DEF e
<1>12. n + 1 \in Nat /\ ~(Len(W') > 16)
  BY <1>5, <1>11
<1> HIDE DEF p
<1>13. PICK g : IsChain(p, n + 1, g) /\ h' = g[n + 1]
  BY ONLY <1>8, <1>9
<1>14. /\ n + 1 \in Nat /\ IsChain(p, n + 1, g) /\ h' = g[n + 1] /\ Behind(p, n + 1, rest')
       /\ IsSchedule(p, n + 1, Len(W'), W')
       /\ Len(W') > 16 => \E r : IsRounds(h', W', t', r) /\ v' = r[t']
  BY ONLY <1>10, <1>11, <1>12, <1>13
<1>15. At(s, n + 1, g)'
  BY ONLY <1>14 DEF At, p
<1> QED BY <1>15 DEF HashesUpTo

\* When no block is left, h is the hash.
LEMMA HashEnds ==
  ASSUME NEW s, HashesUpTo(s), rest = << >>
  PROVE  SHA1(s, digest)
<1>1. PICK n, c : At(s, n, c)
  BY DEF HashesUpTo
<1>2. n \in Nat /\ IsChain(Padded(s), n, c) /\ h = c[n] /\ 64*n + Len(rest) = Len(Padded(s))
  BY <1>1 DEF At, Behind
<1>3. Len(rest) = 0
  BY EmptySeq
<1>4. 64*n + 0 = 64*n
  BY <1>2
<1>5. digest = BytesOf(h)
  BY DEF digest, BytesOf
<1> QED BY <1>2, <1>3, <1>4, <1>5 DEF SHA1

LEMMA HashGoesOn ==
  ASSUME NEW s, HashInv, HashesUpTo(s), OfHash, HmacStep
  PROVE  HashesUpTo(s)'
<1>1. BlockInv /\ h \in Five
  BY DEF HashInv, OfHash, Hashing
<1>2. LoadBlock \/ ExtendSchedule \/ Round \/ AddBlock
  <2>1. ~KeyHashed /\ ~InnerHashed /\ ~OuterHashed
    BY DEF OfHash, KeyHashed, BeginInner, InnerHashed, OuterHashed
  <2> QED BY <2>1 DEF HmacStep
<1> QED BY <1>1, <1>2, HashLoads, HashExtends, HashRounds, HashAdds

-----------------------------------------------------------------------------
(* The MAC and the code.                                                   *)

\* s is what the current phase hashes.
Input(s) ==
  \/ phase = "key" /\ Len(raw_secret) > BlockSize /\ s = raw_secret
  \/ /\ phase = "inner" /\ BlockKey(raw_secret, padded_key)
     /\ s = Xored(padded_key, 54) \o message
  \/ /\ phase = "outer" /\ BlockKey(raw_secret, padded_key)
     /\ \E i : SHA1(Xored(padded_key, 54) \o message, i) /\ s = Xored(padded_key, 92) \o i

MacInv ==
  /\ Hashing => \E s : Input(s) /\ HashesUpTo(s)
  /\ phase = "done" => HMAC(raw_secret, message, mac)
  /\ IF pc \in {"hash", "shown"}
       THEN phase # "none" /\ message = time_bytes(time_step(unix_time))
       ELSE phase = "none"
  /\ pc = "shown" => phase = "done" /\ code = to_string(truncate(mac))

\* The inner hash begins with the key that is given.
LEMMA InnerFrom ==
  ASSUME NEW key \in Seq(Byte), NEW m \in Seq(Byte), BeginInner(key, m), message' = m,
         BlockKey(raw_secret', Resized(key))
  PROVE  \E s : Input(s)' /\ HashesUpTo(s)'
<1>1. PICK s : s = Xored(Resized(key), 54) \o m
  OBVIOUS
<1>2. s \in Seq(Byte)
  <2>1. Xored(Resized(key), 54) \in Seq(Byte)
    BY ResizedBytes, XoredBytes
  <2> QED BY <1>1, <2>1, ConcatProperties
<1>3. Begin(s) /\ phase' = "inner" /\ padded_key' = Resized(key)
  BY <1>1 DEF BeginInner
<1>4. HashesUpTo(s)'
  BY <1>2, <1>3, HashStarts
<1>5. BlockKey(raw_secret', padded_key') /\ s = Xored(padded_key', 54) \o message'
  BY <1>1, <1>3
<1>6. Input(s)'
  BY ONLY <1>3, <1>5 DEF Input, raw_secret
<1> QED BY <1>4, <1>6

LEMMA MacBegins ==
  ASSUME raw_secret \in Seq(Byte), NEW m \in Seq(Byte), hmac_sha1(raw_secret, m),
         decoder' = decoder
  PROVE  \E s : Input(s)' /\ HashesUpTo(s)'
<1>1. raw_secret' = raw_secret /\ message' = m
  BY DEF raw_secret, hmac_sha1
<1>2. CASE Len(raw_secret) > BlockSize
  <2>1. PICK s : s = raw_secret
    OBVIOUS
  <2>2. Begin(s) /\ phase' = "key"
    BY <1>2, <2>1 DEF hmac_sha1
  <2>3. HashesUpTo(s)'
    BY <2>1, <2>2, HashStarts
  <2>4. Len(raw_secret') > BlockSize /\ s = raw_secret'
    BY <1>1, <1>2, <2>1
  <2>5. Input(s)'
    BY ONLY <2>2, <2>4 DEF Input, raw_secret, BlockSize
  <2> QED BY <2>3, <2>5
<1>3. CASE ~(Len(raw_secret) > BlockSize)
  <2>1. BeginInner(raw_secret, m)
    BY <1>3 DEF hmac_sha1
  <2>2. BlockKey(raw_secret', Resized(raw_secret))
    BY <1>1, <1>3 DEF BlockKey
  <2>3. PICK key \in Seq(Byte) : key = raw_secret
    OBVIOUS
  <2>4. BeginInner(key, m) /\ BlockKey(raw_secret', Resized(key))
    BY <2>1, <2>2, <2>3
  <2> QED BY <1>1, <2>4, InnerFrom
<1> QED BY <1>2, <1>3

LEMMA MacSteps ==
  ASSUME raw_secret \in Seq(Byte), HashInv, Hashing => \E s : Input(s) /\ HashesUpTo(s),
         HmacStep, decoder' = decoder
  PROVE  /\ Hashing' => \E s : Input(s)' /\ HashesUpTo(s)'
         /\ phase' = "done" => HMAC(raw_secret', message', mac')
         /\ phase' # "none" /\ message' = message /\ phase # "done"
<1>1. raw_secret' = raw_secret
  BY DEF raw_secret
<1>2. Hashing
  BY DEF HmacStep, LoadBlock, ExtendSchedule, Round, AddBlock, KeyHashed, InnerHashed,
         OuterHashed, OfHash, Hashed
<1>3. PICK s : Input(s) /\ HashesUpTo(s)
  BY <1>2
<1>4. CASE OfHash
  <2>1. HashesUpTo(s)'
    BY <1>3, <1>4, HashGoesOn
  <2>2. phase' = phase /\ padded_key' = padded_key /\ message' = message
    BY <1>4 DEF OfHash
  <2>3. Input(s)'
    BY <1>1, <1>3, <2>2 DEF Input
  <2> QED BY <1>2, <2>1, <2>2, <2>3 DEF Hashing
<1>5. CASE KeyHashed
  <2>1. /\ phase = "key" /\ rest = << >> /\ BeginInner(digest, message)
        /\ message' = message /\ Hashed
    BY <1>5 DEF KeyHashed, Hashed
  <2>2. Len(raw_secret) > BlockSize /\ s = raw_secret
    BY <1>3, <2>1 DEF Input
  <2>3. SHA1(raw_secret, digest)
    BY <1>3, <2>1, <2>2, HashEnds
  <2>4. BlockKey(raw_secret', Resized(digest))
    BY <1>1, <2>2, <2>3 DEF BlockKey
  <2>5. digest \in Seq(Byte) /\ message \in Seq(Byte)
    BY <1>2, Digest DEF HashInv, Hashing
  <2>6. PICK key \in Seq(Byte), m \in Seq(Byte) : key = digest /\ m = message
    BY <2>5
  <2>7. BeginInner(key, m) /\ message' = m /\ BlockKey(raw_secret', Resized(key))
    BY <2>1, <2>4, <2>6
  <2>8. \E x : Input(x)' /\ HashesUpTo(x)'
    BY <2>7, InnerFrom
  <2>9. phase' = "inner"
    BY <2>1 DEF BeginInner
  <2> QED BY <2>1, <2>8, <2>9
<1>6. CASE InnerHashed
  <2>1. /\ phase = "inner" /\ rest = << >> /\ phase' = "outer"
        /\ Begin(Xored(padded_key, 92) \o digest)
        /\ message' = message /\ padded_key' = padded_key
    BY <1>6 DEF InnerHashed, Hashed
  <2>2. BlockKey(raw_secret, padded_key) /\ s = Xored(padded_key, 54) \o message
    BY <1>3, <2>1 DEF Input
  <2>3. SHA1(Xored(padded_key, 54) \o message, digest)
    BY <1>3, <2>1, <2>2, HashEnds
  <2>4. PICK x : x = Xored(padded_key, 92) \o digest
    OBVIOUS
  <2>5. x \in Seq(Byte)
    <3>1. digest \in Seq(Byte) /\ padded_key \in Seq(Byte)
      BY <1>2, Digest DEF HashInv, Hashing
    <3>2. Xored(padded_key, 92) \in Seq(Byte)
      BY <3>1, XoredBytes
    <3> QED BY <2>4, <3>1, <3>2, ConcatProperties
  <2>6. HashesUpTo(x)'
    BY <2>1, <2>4, <2>5, HashStarts
  <2>7. /\ phase' = "outer" /\ BlockKey(raw_secret', padded_key')
        /\ \E i : SHA1(Xored(padded_key', 54) \o message', i) /\ x = Xored(padded_key', 92) \o i
    BY <1>1, <2>1, <2>2, <2>3, <2>4
  <2>8. Input(x)'
    BY ONLY <2>7 DEF Input, raw_secret
  <2> QED BY <2>1, <2>6, <2>8
<1>7. CASE OuterHashed
  <2>1. /\ phase = "outer" /\ rest = << >> /\ phase' = "done" /\ mac' = digest
        /\ message' = message
    BY <1>7 DEF OuterHashed, Hashed
  <2>2. PICK i : /\ BlockKey(raw_secret, padded_key)
                 /\ SHA1(Xored(padded_key, 54) \o message, i)
                 /\ s = Xored(padded_key, 92) \o i
    BY <1>3, <2>1 DEF Input
  <2>3. SHA1(s, digest)
    BY <1>3, <2>1, HashEnds
  <2>4. HMAC(raw_secret, message, digest)
    BY <2>2, <2>3 DEF HMAC
  <2>5. HMAC(raw_secret', message', mac')
    BY <1>1, <2>1, <2>4
  <2> QED BY <2>1, <2>5 DEF Hashing
<1>8. OfHash \/ KeyHashed \/ InnerHashed \/ OuterHashed
  BY DEF HmacStep, LoadBlock, ExtendSchedule, Round, AddBlock
<1> QED BY <1>4, <1>5, <1>6, <1>7, <1>8

LEMMA MacInit == Init => MacInv
BY DEF Init, HmacInit, MacInv, Hashing

LEMMA MacNext == SecretInv /\ CodeInv /\ MacInv /\ [Next]_vars => MacInv'
<1> SUFFICES ASSUME SecretInv, CodeInv, MacInv, [Next]_vars PROVE MacInv'
  OBVIOUS
<1>1. raw_secret \in Seq(Byte) /\ HashInv
  BY DecoderTyped DEF CodeInv
<1>2. phase = "none" /\ UNCHANGED hmac_vars /\ pc' \notin {"hash", "shown"} => MacInv'
  BY DEF hmac_vars, MacInv, Hashing
<1>3. CASE Reject
  BY <1>2, <1>3 DEF Reject, MacInv
<1>4. CASE Accept
  BY <1>2, <1>4 DEF Accept, MacInv
<1>5. CASE Decode
  BY <1>2, <1>5 DEF Decode, MacInv
<1>6. CASE \E now \in Times : Generate(now)
  <2>1. PICK now \in Times : Generate(now)
    BY <1>6
  <2>2. PICK m \in Seq(Byte) : m = time_bytes(time_step(now))
    BY <2>1, TimeBytes
  <2>3. /\ hmac_sha1(raw_secret, m) /\ decoder' = decoder
        /\ pc' = "hash" /\ unix_time' = now
    BY <2>1, <2>2 DEF Generate
  <2>4. \E s : Input(s)' /\ HashesUpTo(s)'
    BY <1>1, <2>3, MacBegins
  <2>5. phase' \in {"key", "inner"} /\ message' = m
    BY <2>3 DEF hmac_sha1, BeginInner
  <2>6. message' = time_bytes(time_step(unix_time'))
    BY <2>2, <2>3, <2>5
  <2> QED BY <2>3, <2>4, <2>5, <2>6 DEF MacInv
<1>7. CASE Hash
  <2>1. /\ pc = "hash" /\ pc' = "hash" /\ HmacStep
        /\ decoder' = decoder /\ unix_time' = unix_time
    BY <1>7 DEF Hash
  <2>2. Hashing => \E s : Input(s) /\ HashesUpTo(s)
    BY DEF MacInv
  <2>3. /\ Hashing' => \E s : Input(s)' /\ HashesUpTo(s)'
        /\ phase' = "done" => HMAC(raw_secret', message', mac')
        /\ phase' # "none" /\ message' = message
    BY <1>1, <2>1, <2>2, MacSteps
  <2>4. message' = time_bytes(time_step(unix_time'))
    BY <2>1, <2>3 DEF MacInv
  <2> QED BY <2>1, <2>3, <2>4 DEF MacInv
<1>8. CASE Show
  <2>1. /\ pc = "hash" /\ pc' = "shown" /\ phase = "done" /\ code' = to_string(truncate(mac))
        /\ UNCHANGED <<hmac_vars, decoder, unix_time>>
    BY <1>8 DEF Show
  <2>2. phase' = phase /\ message' = message /\ mac' = mac /\ raw_secret' = raw_secret
    BY <2>1 DEF hmac_vars, raw_secret
  <2>3. HMAC(raw_secret, message, mac) /\ message = time_bytes(time_step(unix_time))
    BY <2>1 DEF MacInv
  <2> QED BY <2>1, <2>2, <2>3 DEF MacInv, Hashing
<1>9. CASE UNCHANGED vars
  BY <1>9 DEF vars, hmac_vars, hash, MacInv, Hashing, Input, HashesUpTo, At, raw_secret
<1> QED BY <1>3, <1>4, <1>5, <1>6, <1>7, <1>8, <1>9 DEF Next

-----------------------------------------------------------------------------
(* What is defined above is unique.                                        *)

\* Two functions are the same as far as each value follows from those before.
LEMMA SameUpTo ==
  ASSUME NEW m \in Nat, NEW a, NEW b, a[0] = b[0],
         \A n \in 0..(m - 1) : a[n] = b[n] => a[n + 1] = b[n + 1]
  PROVE  \A n \in 0..m : a[n] = b[n]
<1> DEFINE T == {n \in Nat : n <= m => a[n] = b[n]}
<1>1. 0 \in T
  OBVIOUS
<1>2. ASSUME NEW n \in T PROVE n + 1 \in T
  <2> SUFFICES ASSUME n + 1 <= m PROVE a[n + 1] = b[n + 1]
    OBVIOUS
  <2>1. n \in 0..(m - 1) /\ n <= m
    OBVIOUS
  <2> QED BY <2>1
<1>3. T \in SUBSET Nat
  OBVIOUS
<1> HIDE DEF T
<1>4. T = Nat
  BY <1>1, <1>2, <1>3, Induction
<1> QED BY <1>4 DEF T

LEMMA OneSchedule ==
  ASSUME NEW p, NEW n, NEW a \in [1..80 -> Word], NEW b \in [1..80 -> Word],
         IsSchedule(p, n, 80, a), IsSchedule(p, n, 80, b)
  PROVE  a = b
<1> DEFINE T == {k \in Nat : \A i \in 1..80 : i <= k => a[i] = b[i]}
<1>1. 0 \in T
  OBVIOUS
<1>2. ASSUME NEW k \in T PROVE k + 1 \in T
  <2> SUFFICES ASSUME k + 1 \in 1..80 PROVE a[k + 1] = b[k + 1]
    OBVIOUS
  <2> DEFINE i == k + 1
  <2>1. i \in 1..80 /\ \A l \in 1..80 : l < i => a[l] = b[l]
    OBVIOUS
  <2> HIDE DEF i
  <2>2. \A w : IsSchedule(p, n, 80, w) =>
          w[i] = IF i <= 16 THEN read_be32(p, 64*n + (4*i - 4))
                 ELSE rotate_left(SymDiff(SymDiff(w[i-3], w[i-8]),
                                          SymDiff(w[i-14], w[i-16])), 1)
    BY <2>1 DEF IsSchedule
  <2>3. ~(i <= 16) => /\ i-3 \in 1..80 /\ i-8 \in 1..80 /\ i-14 \in 1..80 /\ i-16 \in 1..80
                      /\ i-3 < i /\ i-8 < i /\ i-14 < i /\ i-16 < i
    BY ONLY <2>1
  <2>4. ~(i <= 16) => a[i-3] = b[i-3] /\ a[i-8] = b[i-8] /\ a[i-14] = b[i-14] /\ a[i-16] = b[i-16]
    BY ONLY <2>1, <2>3
  <2>5. a[i] = b[i]
    BY ONLY <2>2, <2>4, IsSchedule(p, n, 80, a), IsSchedule(p, n, 80, b)
  <2> QED BY <2>5 DEF i
<1>3. T \in SUBSET Nat
  OBVIOUS
<1> HIDE DEF T
<1>4. T = Nat
  BY <1>1, <1>2, <1>3, Induction
<1>5. \A i \in 1..80 : a[i] = b[i]
  <2>1. 80 \in T
    BY <1>4
  <2> QED BY <2>1 DEF T
<1> QED BY <1>5

LEMMA OneCompression ==
  ASSUME NEW p, NEW n, NEW g, NEW a, NEW b, Compresses(p, n, g, a), Compresses(p, n, g, b)
  PROVE  a = b
<1>1. PICK w, r : /\ w \in [1..80 -> Word] /\ IsSchedule(p, n, 80, w) /\ IsRounds(g, w, 80, r)
                  /\ a = [i \in 1..5 |-> Plus(g[i], r[80][i])]
  BY DEF Compresses
<1>2. PICK w2, r2 : /\ w2 \in [1..80 -> Word] /\ IsSchedule(p, n, 80, w2)
                    /\ IsRounds(g, w2, 80, r2)
                    /\ b = [i \in 1..5 |-> Plus(g[i], r2[80][i])]
  BY DEF Compresses
<1>3. w = w2
  BY <1>1, <1>2, OneSchedule
<1>4. r[0] = r2[0] /\ \A k \in 0..(80 - 1) : r[k] = r2[k] => r[k + 1] = r2[k + 1]
  BY <1>1, <1>2, <1>3 DEF IsRounds
<1>5. \A k \in 0..80 : r[k] = r2[k]
  BY ONLY <1>4, 80 \in Nat, SameUpTo
<1>6. r[80] = r2[80]
  BY <1>5
<1> QED BY ONLY <1>1, <1>2, <1>6

LEMMA OneDigest ==
  ASSUME NEW s, NEW a, NEW b, SHA1(s, a), SHA1(s, b)
  PROVE  a = b
<1> DEFINE p == Padded(s)
<1>1. PICK m, c : /\ m \in Nat /\ Len(p) = 64 * m /\ IsChain(p, m, c) /\ a = BytesOf(c[m])
  BY DEF SHA1
<1>2. PICK m2, c2 : /\ m2 \in Nat /\ Len(p) = 64 * m2 /\ IsChain(p, m2, c2)
                    /\ b = BytesOf(c2[m2])
  BY DEF SHA1
<1> HIDE DEF p
<1>3. m = m2
  BY <1>1, <1>2
<1>4. c[0] = c2[0]
  BY <1>1, <1>2 DEF IsChain
<1>5. ASSUME NEW n \in 0..(m - 1), c[n] = c2[n] PROVE c[n + 1] = c2[n + 1]
  <2>1. Compresses(p, n, c[n], c[n + 1]) /\ Compresses(p, n, c2[n], c2[n + 1])
    BY <1>1, <1>2, <1>3 DEF IsChain
  <2> QED BY <1>5, <2>1, OneCompression
<1>6. \A n \in 0..m : c[n] = c2[n]
  BY <1>1, <1>4, <1>5, SameUpTo
<1>7. c[m] = c2[m]
  BY <1>1, <1>6
<1> QED BY ONLY <1>1, <1>2, <1>3, <1>7

LEMMA OneMac ==
  ASSUME NEW key, NEW m, NEW a, NEW b, HMAC(key, m, a), HMAC(key, m, b)
  PROVE  a = b
<1>1. PICK k, i : /\ BlockKey(key, k) /\ SHA1(Xored(k, 54) \o m, i)
                  /\ SHA1(Xored(k, 92) \o i, a)
  BY DEF HMAC
<1>2. PICK k2, i2 : /\ BlockKey(key, k2) /\ SHA1(Xored(k2, 54) \o m, i2)
                    /\ SHA1(Xored(k2, 92) \o i2, b)
  BY DEF HMAC
<1>3. k = k2
  BY <1>1, <1>2, OneDigest DEF BlockKey
<1>4. i = i2
  BY <1>1, <1>2, <1>3, OneDigest
<1> QED BY <1>1, <1>2, <1>3, <1>4, OneDigest

-----------------------------------------------------------------------------
(* The code is that of RFC 6238.                                           *)

\* Of the bytes of a key and the time step of a moment, the HMAC, truncated.
CodeOf(c, key, now) ==
  \E m : HMAC(key, time_bytes(time_step(now)), m) /\ c = to_string(truncate(m))

\* What is shown is the one code that the definitions give for the bytes that
\* the stored secret encodes and the moment at which the clock was read:
\* whatever the length of the secret, so many blocks as it fills, no word of
\* the schedule, no round and no block is left out, repeated or taken from
\* another hash.
THEOREM CodeIsRight ==
  Spec => [](pc = "shown" => \A c : CodeOf(c, Decoded(Data(secret)), unix_time) <=> c = code)
<1>1. SecretInv /\ CodeInv /\ MacInv
        => (pc = "shown" => \A c : CodeOf(c, Decoded(Data(secret)), unix_time) <=> c = code)
  <2> SUFFICES ASSUME SecretInv, CodeInv, MacInv, pc = "shown", NEW c
               PROVE  CodeOf(c, Decoded(Data(secret)), unix_time) <=> c = code
    OBVIOUS
  <2>1. /\ HMAC(raw_secret, time_bytes(time_step(unix_time)), mac)
        /\ code = to_string(truncate(mac)) /\ phase = "done"
    BY DEF MacInv
  <2>2. raw_secret = Decoded(Data(secret))
    BY DecodedWhenStored
  <2>3. CodeOf(code, Decoded(Data(secret)), unix_time)
    BY <2>1, <2>2 DEF CodeOf
  <2>4. ASSUME CodeOf(c, Decoded(Data(secret)), unix_time) PROVE c = code
    <3>1. PICK m : /\ HMAC(Decoded(Data(secret)), time_bytes(time_step(unix_time)), m)
                   /\ c = to_string(truncate(m))
      BY <2>4 DEF CodeOf
    <3>2. m = mac
      BY <2>1, <2>2, <3>1, OneMac
    <3> QED BY <2>1, <3>1, <3>2
  <2> QED BY <2>3, <2>4
<1>2. Spec => []CodeInv
  BY CodeInit, CodeNext, SecretAlways, PTL DEF Spec
<1>3. Spec => []MacInv
  BY <1>2, MacInit, MacNext, SecretAlways, PTL DEF Spec
<1> QED BY <1>1, <1>2, <1>3, SecretAlways, PTL

\* If the codes that are known are those of the definitions, they are shown.
THEOREM CodesAgree ==
  ASSUME \A x \in Known : CodeOf(to_string(x.code), Decoded(x.secret), x.time)
  PROVE  Spec => []CodeAsElsewhere
<1>1. (pc = "shown" => \A c : CodeOf(c, Decoded(Data(secret)), unix_time) <=> c = code)
        => CodeAsElsewhere
  <2> SUFFICES ASSUME pc = "shown" => \A c : CodeOf(c, Decoded(Data(secret)), unix_time) <=> c = code,
                      NEW x \in Known,
                      pc = "shown" /\ Data(secret) = x.secret /\ unix_time = x.time
               PROVE  code = to_string(x.code)
    BY DEF CodeAsElsewhere
  <2>1. CodeOf(to_string(x.code), Decoded(Data(secret)), unix_time)
    BY ONLY \A y \in Known : CodeOf(to_string(y.code), Decoded(y.secret), y.time), x \in Known,
            Data(secret) = x.secret /\ unix_time = x.time
  <2> QED BY <2>1
<1> QED BY <1>1, CodeIsRight, PTL

-----------------------------------------------------------------------------
(* How many digits it has.                                                 *)

LEMMA MorePowers == \A i, j \in 0..8 : i <= j => Power(i) <= Power(j)
<1>1. /\ Power(0) = 1 /\ Power(1) = 10 /\ Power(2) = 100 /\ Power(3) = 1000
      /\ Power(4) = 10000 /\ Power(5) = 100000 /\ Power(6) = 1000000
      /\ Power(7) = 10000000 /\ Power(8) = 100000000
  BY SMT DEF Power
<1>2. \A k \in 0..7 : Power(k) <= Power(k + 1)
  <2> SUFFICES ASSUME NEW k \in 0..7 PROVE Power(k) <= Power(k + 1)
    OBVIOUS
  <2>1. \/ k = 0 \/ k = 1 \/ k = 2 \/ k = 3 \/ k = 4 \/ k = 5 \/ k = 6 \/ k = 7
    OBVIOUS
  <2> QED BY ONLY <1>1, <2>1, SMT
<1>3. \A k \in 0..8 : Power(k) \in Nat
  BY PowersOfTen
<1> DEFINE T == {d \in Nat : \A i \in 0..8 : i + d <= 8 => Power(i) <= Power(i + d)}
<1>4. 0 \in T
  BY <1>3
<1>5. ASSUME NEW d \in T PROVE d + 1 \in T
  <2> SUFFICES ASSUME NEW i \in 0..8, i + (d + 1) <= 8 PROVE Power(i) <= Power(i + (d + 1))
    OBVIOUS
  <2>1. i + d \in 0..7 /\ i + (d + 1) = (i + d) + 1 /\ i + (d + 1) \in 0..8
    OBVIOUS
  <2>2. Power(i) <= Power(i + d) /\ Power(i + d) <= Power(i + (d + 1))
    BY <1>2, <2>1
  <2>3. Power(i) \in Nat /\ Power(i + d) \in Nat /\ Power(i + (d + 1)) \in Nat
    BY <1>3, <2>1
  <2> QED BY ONLY <2>2, <2>3
<1>6. T \in SUBSET Nat
  OBVIOUS
<1> HIDE DEF T
<1>7. T = Nat
  BY <1>4, <1>5, <1>6, Induction
<1> SUFFICES ASSUME NEW i \in 0..8, NEW j \in 0..8, i <= j PROVE Power(i) <= Power(j)
  OBVIOUS
<1>8. j - i \in Nat /\ i + (j - i) = j
  OBVIOUS
<1> QED BY <1>7, <1>8 DEF T

\* The code has at most its digits, and all of them exactly when the number
\* does not begin with a zero.
LEMMA DigitsShown ==
  ASSUME NEW n \in 0..(Power(Digits) - 1), n \in 0..(Power(8) - 1)
  PROVE  /\ Len(to_string(n)) \in 1..Digits
         /\ Len(to_string(n)) = Digits <=> n >= Power(Digits - 1)
<1> DEFINE L == Len(to_string(n))
<1>1. L \in 1..8 /\ HasLength(n, L)
  BY Shown
<1>2. Digits \in 6..8
  BY DigitsAssumption
<1> HIDE DEF L
<1>3. \A k \in 0..8 : Power(k) \in Nat
  BY PowersOfTen
<1>4. n < Power(L) /\ (L = 1 \/ n >= Power(L - 1))
  BY <1>1 DEF HasLength
<1>5. Digits - 1 \in 0..8 /\ Digits \in 0..8 /\ L - 1 \in 0..8 /\ L \in 0..8
  BY <1>1, <1>2
<1>6. n \in Nat /\ n < Power(Digits)
  BY <1>3, <1>5
<1>7. ~(L > Digits)
  <2> SUFFICES ASSUME L > Digits PROVE FALSE
    OBVIOUS
  <2>1. Digits <= L - 1 /\ L # 1
    BY <1>1, <1>2
  <2>2. Power(Digits) <= Power(L - 1)
    BY <1>5, <2>1, MorePowers
  <2> QED BY <1>3, <1>4, <1>5, <1>6, <2>1, <2>2
<1>8. ASSUME L < Digits PROVE ~(n >= Power(Digits - 1))
  <2>1. L <= Digits - 1
    BY <1>1, <1>2, <1>8
  <2>2. Power(L) <= Power(Digits - 1)
    BY <1>5, <2>1, MorePowers
  <2> QED BY <1>3, <1>4, <1>5, <1>6, <2>2
<1>9. L = Digits => n >= Power(Digits - 1)
  BY <1>2, <1>4
<1>10. L \in 1..Digits /\ (L = Digits <=> n >= Power(Digits - 1))
  BY ONLY <1>1, <1>2, <1>7, <1>8, <1>9
<1> QED BY <1>10 DEF L

\* A code is never longer than its digits, and it is "zero-padded", as the
\* comment on totp_generate has it, only when it needs no zero: when the
\* truncated MAC has a digit other than 0 in the first place.
THEOREM ZerosAreLost ==
  Spec => [](pc = "shown" =>
               /\ Len(code) \in 1..Digits
               /\ CodeIsZeroPadded <=> truncate(mac) >= 10^(Digits - 1))
<1>1. CodeInv /\ MacInv =>
        (pc = "shown" => /\ Len(code) \in 1..Digits
                         /\ CodeIsZeroPadded <=> truncate(mac) >= 10^(Digits - 1))
  <2> SUFFICES ASSUME CodeInv, MacInv, pc = "shown"
               PROVE  /\ Len(code) \in 1..Digits
                      /\ CodeIsZeroPadded <=> truncate(mac) >= 10^(Digits - 1)
    OBVIOUS
  <2>1. phase = "done" /\ code = to_string(truncate(mac))
    BY DEF MacInv
  <2>2. mac \in Seq(Byte) /\ Len(mac) = 20
    BY <2>1 DEF CodeInv, HashInv
  <2>3. /\ Len(code) \in 1..Digits
        /\ Len(code) = Digits <=> truncate(mac) >= Power(Digits - 1)
    BY <2>1, <2>2, Truncated, DigitsShown
  <2> QED BY <2>3 DEF CodeIsZeroPadded, Power
<1>2. Spec => []CodeInv
  BY CodeInit, CodeNext, SecretAlways, PTL DEF Spec
<1>3. Spec => []MacInv
  BY <1>2, MacInit, MacNext, SecretAlways, PTL DEF Spec
<1> QED BY <1>1, <1>2, <1>3, PTL

-----------------------------------------------------------------------------
(* Two functions of the model that the definitions use: the padding, and   *)
(* the sum of words, which is that of a uint32_t.                          *)

\* Of a message of less than 8 KiB, the last two bytes of the padding are the
\* size in bits, and the padding is no longer than it must be.
LEMMA PaddedSize ==
  ASSUME NEW s \in Seq(Byte), Len(s) < 8192
  PROVE  LET p == Padded(s)
             l == Len(p)
         IN  256 * p[l - 1] + p[l] = 8 * Len(s) /\ l - Len(s) \in 9..72
<1> DEFINE n == Len(s)
           front == (s \o << 128 >>) \o [i \in 1..Zeros(n) |-> 0]
           a == ((8 * n) \div 256) % 256
           b == (8 * n) % 256
           size == << 0, 0, 0, 0, 0, 0, a, b >>
<1>1. n \in Nat /\ n < 8192
  BY LenProperties
<1>2. Zeros(n) \in 0..63
  BY <1>1, ZerosFill
<1>3. front \in Seq(Byte) /\ Len(front) = n + 1 + Zeros(n)
  <2> DEFINE z == Zeros(n)
             zeros == [i \in 1..z |-> 0]
             mark == << 128 >>
  <2>1. mark \in Seq(Byte) /\ Len(mark) = 1
    BY DEF Byte
  <2>2. z \in 0..63
    BY <1>2
  <2>3. zeros \in Seq(Byte) /\ Len(zeros) = z
    <3> HIDE DEF z
    <3>1. z \in Nat
      BY ONLY <2>2
    <3>2. zeros \in [1..z -> Byte]
      BY DEF Byte
    <3> QED BY <3>1, <3>2, ArrayIsSeq
  <2> HIDE DEF mark, zeros
  <2>4. s \o mark \in Seq(Byte) /\ Len(s \o mark) = Len(s) + Len(mark)
    BY ONLY <2>1, s \in Seq(Byte), ConcatProperties
  <2> DEFINE marked == s \o mark
  <2>5. marked \in Seq(Byte) /\ Len(marked) = n + 1
    BY <2>1, <2>4
  <2> HIDE DEF marked, z, n
  <2>6. marked \o zeros \in Seq(Byte) /\ Len(marked \o zeros) = Len(marked) + Len(zeros)
    BY ONLY <2>3, <2>5, ConcatProperties
  <2>7. front = marked \o zeros
    BY DEF front, marked, zeros, mark, z
  <2> HIDE DEF front
  <2> QED BY <2>3, <2>5, <2>6, <2>7 DEF z
<1>4. size \in Seq(Byte) /\ Len(size) = 8 /\ size[7] = a /\ size[8] = b
  <2>1. a \in Byte /\ b \in Byte /\ 0 \in Byte
    <3> HIDE DEF n
    <3> QED BY ONLY <1>1 DEF Byte, a, b
  <2> HIDE DEF a, b
  <2> QED BY ONLY <2>1 DEF size
<1>5. Padded(s) = front \o size
  BY DEF Padded
<1> HIDE DEF front, size
<1> DEFINE p == front \o size
           f == Len(front)
<1>6. /\ Len(p) = f + 8
      /\ \A i \in 1..(f + 8) : p[i] = IF i <= f THEN front[i] ELSE size[i - f]
  <2>1. /\ Len(p) = Len(front) + Len(size)
        /\ \A i \in 1..(Len(front) + Len(size)) :
             p[i] = IF i <= Len(front) THEN front[i] ELSE size[i - Len(front)]
    <3>1. front \in Seq(Byte) /\ size \in Seq(Byte)
      BY <1>3, <1>4
    <3> QED BY ONLY <3>1, ConcatProperties
  <2> QED BY <1>4, <2>1
<1> DEFINE z == Zeros(n)
<1> HIDE DEF p, f, n, a, b, z
<1>7. f = n + 1 + z /\ z \in 0..63
  BY <1>2, <1>3 DEF f, z
<1>8. p[(f + 8) - 1] = a /\ p[f + 8] = b
  <2>1. /\ (f + 8) - 1 \in 1..(f + 8) /\ ~((f + 8) - 1 <= f) /\ ((f + 8) - 1) - f = 7
        /\ f + 8 \in 1..(f + 8) /\ ~(f + 8 <= f) /\ (f + 8) - f = 8
    BY ONLY <1>1, <1>7
  <2> QED BY ONLY <1>4, <1>6, <2>1
<1>9. 256 * a + b = 8 * n
  BY ONLY <1>1 DEF a, b
<1>10. (f + 8) - n \in 9..72
  BY ONLY <1>1, <1>7
<1> QED BY <1>5, <1>6, <1>8, <1>9, <1>10 DEF p, n

\* The powers of two, and the number that the bits of x make: u adds them up.
Doubles(pow) == /\ pow \in [0..32 -> Nat] /\ pow[0] = 1
                /\ \A n \in 0..31 : pow[n + 1] = 2 * pow[n]
AddsUp(u, x, pow) == /\ u \in [0..32 -> Nat] /\ u[0] = 0
                     /\ \A n \in 0..31 : u[n + 1] = u[n] + (IF n \in x THEN pow[n] ELSE 0)
Modulus == 4294967296
IsNumber(x, a) == \E pow, u : Doubles(pow) /\ AddsUp(u, x, pow) /\ a = u[32]

LEMMA Doubled ==
  ASSUME NEW pow, Doubles(pow)
  PROVE  pow[32] = Modulus
<1> DEFINE p(n) == pow[n]
<1>1. /\ p(1) = 2 * p(0) /\ p(2) = 2 * p(1) /\ p(3) = 2 * p(2) /\ p(4) = 2 * p(3)
      /\ p(5) = 2 * p(4) /\ p(6) = 2 * p(5) /\ p(7) = 2 * p(6) /\ p(8) = 2 * p(7)
  BY DEF Doubles
<1>2. /\ p(9) = 2 * p(8) /\ p(10) = 2 * p(9) /\ p(11) = 2 * p(10) /\ p(12) = 2 * p(11)
      /\ p(13) = 2 * p(12) /\ p(14) = 2 * p(13) /\ p(15) = 2 * p(14) /\ p(16) = 2 * p(15)
  BY DEF Doubles
<1>3. /\ p(17) = 2 * p(16) /\ p(18) = 2 * p(17) /\ p(19) = 2 * p(18) /\ p(20) = 2 * p(19)
      /\ p(21) = 2 * p(20) /\ p(22) = 2 * p(21) /\ p(23) = 2 * p(22) /\ p(24) = 2 * p(23)
  BY DEF Doubles
<1>4. /\ p(25) = 2 * p(24) /\ p(26) = 2 * p(25) /\ p(27) = 2 * p(26) /\ p(28) = 2 * p(27)
      /\ p(29) = 2 * p(28) /\ p(30) = 2 * p(29) /\ p(31) = 2 * p(30) /\ p(32) = 2 * p(31)
  BY DEF Doubles
<1>5. p(0) = 1
  BY DEF Doubles
<1> HIDE DEF p
<1>6. p(8) = 256
  BY ONLY <1>1, <1>5
<1>7. p(16) = 65536
  BY ONLY <1>2, <1>6, SMT
<1>8. p(24) = 16777216
  BY ONLY <1>3, <1>7, SMT
<1>9. p(32) = Modulus
  BY ONLY <1>4, <1>8, SMT DEF Modulus
<1> QED BY <1>9 DEF p

\* What the first bits make is below the next power.
LEMMA SumBelow ==
  ASSUME NEW x, NEW pow, Doubles(pow), NEW u, AddsUp(u, x, pow)
  PROVE  u[32] \in 0..(pow[32] - 1)
<1> DEFINE T == {n \in Nat : n <= 32 => u[n] < pow[n]}
<1>1. 0 \in T
  BY DEF Doubles, AddsUp
<1>2. ASSUME NEW n \in T PROVE n + 1 \in T
  <2> SUFFICES ASSUME n + 1 <= 32 PROVE u[n + 1] < pow[n + 1]
    OBVIOUS
  <2>1. n \in 0..31 /\ u[n] < pow[n]
    OBVIOUS
  <2>2. u[n] \in Nat /\ pow[n] \in Nat
    BY <2>1 DEF AddsUp, Doubles
  <2>3. u[n + 1] = u[n] \/ u[n + 1] = u[n] + pow[n]
    BY <2>1, <2>2 DEF AddsUp
  <2>4. pow[n + 1] = 2 * pow[n]
    BY <2>1 DEF Doubles
  <2> QED BY <2>1, <2>2, <2>3, <2>4
<1>3. T \in SUBSET Nat
  OBVIOUS
<1> HIDE DEF T
<1>4. 32 \in T
  BY <1>1, <1>2, <1>3, Induction
<1>5. u[32] \in Nat /\ pow[32] \in Nat
  BY DEF AddsUp, Doubles
<1> QED BY <1>4, <1>5 DEF T

\* Every word makes a number.
LEMMA NumberExists ==
  ASSUME NEW x
  PROVE  \E a : IsNumber(x, a)
<1> DEFINE Pow(n, f) == /\ f \in [0..n -> Nat] /\ f[0] = 1
                        /\ \A k \in 0..(n - 1) : f[k + 1] = 2 * f[k]
           Sum(n, f, g) == /\ g \in [0..n -> Nat] /\ g[0] = 0
                           /\ \A k \in 0..(n - 1) :
                                g[k + 1] = g[k] + (IF k \in x THEN f[k] ELSE 0)
           T == {n \in Nat : \E f, g : Pow(n, f) /\ Sum(n, f, g)}
<1>1. 0 \in T
  <2>1. Pow(0, [k \in 0..0 |-> 1]) /\ Sum(0, [k \in 0..0 |-> 1], [k \in 0..0 |-> 0])
    OBVIOUS
  <2> HIDE DEF Pow, Sum
  <2> QED BY <2>1
<1>2. ASSUME NEW n \in T PROVE n + 1 \in T
  <2>1. PICK f, g : Pow(n, f) /\ Sum(n, f, g)
    OBVIOUS
  <2> DEFINE e == 2 * f[n]
             d == g[n] + (IF n \in x THEN f[n] ELSE 0)
             f2 == [k \in 0..(n + 1) |-> IF k <= n THEN f[k] ELSE e]
             g2 == [k \in 0..(n + 1) |-> IF k <= n THEN g[k] ELSE d]
  <2>2. e \in Nat /\ d \in Nat
    BY <2>1
  <2>3. \A k \in 0..n : f2[k] = f[k] /\ g2[k] = g[k]
    OBVIOUS
  <2>4. f2[n + 1] = e /\ g2[n + 1] = d
    OBVIOUS
  <2>5. f2 \in [0..(n + 1) -> Nat] /\ g2 \in [0..(n + 1) -> Nat]
    BY <2>1, <2>2
  <2> HIDE DEF f2, g2
  <2>6. ASSUME NEW k \in 0..n
        PROVE  f2[k + 1] = 2 * f2[k] /\ g2[k + 1] = g2[k] + (IF k \in x THEN f2[k] ELSE 0)
    <3>1. CASE k = n
      BY <2>3, <2>4, <3>1
    <3>2. CASE k # n
      <4>1. k \in 0..(n - 1) /\ k + 1 \in 0..n
        BY <3>2
      <4>2. f[k + 1] = 2 * f[k] /\ g[k + 1] = g[k] + (IF k \in x THEN f[k] ELSE 0)
        BY <2>1, <4>1
      <4> QED BY <2>3, <4>1, <4>2
    <3> QED BY <3>1, <3>2
  <2>7. Pow(n + 1, f2) /\ Sum(n + 1, f2, g2)
    <3>1. (n + 1) - 1 = n /\ 0 \in 0..n
      OBVIOUS
    <3>2. f2[0] = 1 /\ g2[0] = 0
      BY <2>1, <2>3, <3>1
    <3> QED BY <2>5, <2>6, <3>1, <3>2
  <2> HIDE DEF Pow, Sum
  <2> QED BY <2>7
<1>3. T \in SUBSET Nat
  OBVIOUS
<1>4. 32 \in T
  <2> HIDE DEF T
  <2> QED BY <1>1, <1>2, <1>3, Induction
<1>5. PICK f, g : Pow(32, f) /\ Sum(32, f, g)
  BY <1>4
<1>6. Doubles(f) /\ AddsUp(g, x, f)
  BY <1>5 DEF Doubles, AddsUp
<1> QED BY <1>6 DEF IsNumber

\* A carry leaves the place n: both have that bit, or one has it and a carry
\* comes in.
CarryInto(x, y, i) == \E j \in x \cap y : j < i /\ (j + 1)..(i - 1) \subseteq x \cup y

LEMMA Carries ==
  ASSUME NEW x \in Word, NEW y \in Word, NEW n \in 0..31
  PROVE  CarryInto(x, y, n + 1) <=> \/ n \in x \cap y
                                    \/ n \in x \cup y /\ CarryInto(x, y, n)
<1>1. \A j \in x \cap y : j \in 0..31
  BY DEF Word
<1>2. ASSUME CarryInto(x, y, n + 1), n \notin x \cap y
      PROVE  n \in x \cup y /\ CarryInto(x, y, n)
  <2>1. PICK j \in x \cap y : j < n + 1 /\ (j + 1)..((n + 1) - 1) \subseteq x \cup y
    BY <1>2 DEF CarryInto
  <2>2. j \in 0..31 /\ j < n
    BY <1>1, <1>2, <2>1
  <2>3. n \in (j + 1)..((n + 1) - 1)
    BY <2>2
  <2>4. \A l \in (j + 1)..(n - 1) : l \in (j + 1)..((n + 1) - 1)
    BY <2>2
  <2> QED BY <2>1, <2>2, <2>3, <2>4 DEF CarryInto
<1>3. ASSUME n \in x \cap y PROVE CarryInto(x, y, n + 1)
  <2>1. n < n + 1 /\ (n + 1)..((n + 1) - 1) = {}
    OBVIOUS
  <2> QED BY <1>3, <2>1 DEF CarryInto
<1>4. ASSUME n \in x \cup y, CarryInto(x, y, n) PROVE CarryInto(x, y, n + 1)
  <2>1. PICK j \in x \cap y : j < n /\ (j + 1)..(n - 1) \subseteq x \cup y
    BY <1>4 DEF CarryInto
  <2>2. j \in 0..31 /\ j < n + 1
    BY <1>1, <2>1
  <2>3. \A l \in (j + 1)..((n + 1) - 1) : l \in (j + 1)..(n - 1) \/ l = n
    BY <2>2
  <2> QED BY <1>4, <2>1, <2>2, <2>3 DEF CarryInto
<1> QED BY <1>2, <1>3, <1>4

LEMMA PlusBit ==
  ASSUME NEW x \in Word, NEW y \in Word, NEW n \in 0..31
  PROVE  n \in Plus(x, y) <=> ((n \in x <=> n \in y) <=> CarryInto(x, y, n))
<1>1. n \in SymDiff(x, y) <=> ~(n \in x <=> n \in y)
  BY DEF SymDiff
<1>2. n \in Plus(x, y) <=> ((n \in SymDiff(x, y)) # CarryInto(x, y, n))
  BY DEF Plus, CarryInto
<1>3. (n \in SymDiff(x, y)) \in BOOLEAN /\ CarryInto(x, y, n) \in BOOLEAN
  BY DEF CarryInto
<1> QED BY <1>1, <1>2, <1>3

\* The sum of two uint32_t drops what does not fit 32 bits.  (By NumberExists
\* every word makes a number.)
THEOREM PlusIsAddition ==
  ASSUME NEW x \in Word, NEW y \in Word, NEW a, IsNumber(x, a), NEW b, IsNumber(y, b),
         NEW c, IsNumber(Plus(x, y), c)
  PROVE  c = (a + b) % Modulus
<1>1. PICK pow, u : Doubles(pow) /\ AddsUp(u, x, pow) /\ a = u[32]
  BY DEF IsNumber
<1>2. PICK pow2, w : Doubles(pow2) /\ AddsUp(w, y, pow2) /\ b = w[32]
  BY DEF IsNumber
<1>3. PICK pow3, z : Doubles(pow3) /\ AddsUp(z, Plus(x, y), pow3) /\ c = z[32]
  BY DEF IsNumber
<1>4. pow2 = pow /\ pow3 = pow
  <2> SUFFICES ASSUME NEW q, Doubles(q) PROVE q = pow
    BY <1>2, <1>3
  <2>1. q[0] = pow[0] /\ \A n \in 0..(32 - 1) : q[n] = pow[n] => q[n + 1] = pow[n + 1]
    BY <1>1 DEF Doubles
  <2>2. \A n \in 0..32 : q[n] = pow[n]
    BY ONLY <2>1, 32 \in Nat, SameUpTo
  <2> QED BY <1>1, <2>2 DEF Doubles
<1> DEFINE Carried(n) == IF CarryInto(x, y, n) THEN pow[n] ELSE 0
           T == {n \in Nat : n <= 32 => z[n] + Carried(n) = u[n] + w[n]}
<1>5. 0 \in T
  <2>1. ~CarryInto(x, y, 0)
    BY DEF CarryInto, Word
  <2> QED BY <1>1, <1>2, <1>3, <2>1 DEF AddsUp
<1>6. ASSUME NEW n \in T PROVE n + 1 \in T
  <2> SUFFICES ASSUME n + 1 <= 32 PROVE z[n + 1] + Carried(n + 1) = u[n + 1] + w[n + 1]
    OBVIOUS
  <2>1. n \in 0..31 /\ z[n] + Carried(n) = u[n] + w[n]
    OBVIOUS
  <2>2. u[n] \in Nat /\ w[n] \in Nat /\ z[n] \in Nat /\ pow[n] \in Nat
    BY <1>1, <1>2, <1>3, <2>1 DEF AddsUp, Doubles
  <2>3. /\ u[n + 1] = u[n] + (IF n \in x THEN pow[n] ELSE 0)
        /\ w[n + 1] = w[n] + (IF n \in y THEN pow[n] ELSE 0)
        /\ z[n + 1] = z[n] + (IF n \in Plus(x, y) THEN pow[n] ELSE 0)
        /\ pow[n + 1] = 2 * pow[n]
    BY <1>1, <1>2, <1>3, <1>4, <2>1 DEF AddsUp, Doubles
  <2>4. n \in Plus(x, y) <=> ((n \in x <=> n \in y) <=> CarryInto(x, y, n))
    BY <2>1, PlusBit
  <2>5. CarryInto(x, y, n + 1) <=> \/ n \in x /\ n \in y
                                   \/ (n \in x \/ n \in y) /\ CarryInto(x, y, n)
    BY <2>1, Carries
  <2>6. Carried(n + 1) = IF CarryInto(x, y, n + 1) THEN 2 * pow[n] ELSE 0
    BY <2>3
  <2> QED BY ONLY <2>1, <2>2, <2>3, <2>4, <2>5, <2>6
<1>7. T \in SUBSET Nat
  OBVIOUS
<1> HIDE DEF T
<1>8. 32 \in T
  BY <1>5, <1>6, <1>7, Induction
<1>9. /\ c \in 0..(Modulus - 1) /\ a \in Nat /\ b \in Nat /\ pow[32] = Modulus
  <2>1. z[32] \in 0..(pow[32] - 1) /\ pow[32] = Modulus
    BY <1>1, <1>3, <1>4, SumBelow, Doubled
  <2> QED BY <1>1, <1>2, <1>3, <2>1 DEF AddsUp
<1>10. a + b = c \/ a + b = c + Modulus
  <2>1. c + Carried(32) = a + b
    BY <1>1, <1>2, <1>3, <1>8 DEF T
  <2> QED BY <1>9, <2>1
<1>11. Modulus \in Nat \ {0}
  BY SMT DEF Modulus
<1>12. \A q \in Nat : (q * Modulus + c) % Modulus = c
  BY <1>9, <1>11, Periods
<1>13. 0 * Modulus + c = c /\ 1 * Modulus + c = c + Modulus
  BY <1>9, <1>11
<1>14. 0 \in Nat /\ 1 \in Nat
  OBVIOUS
<1> QED BY ONLY <1>10, <1>12, <1>13, <1>14
=============================================================================
