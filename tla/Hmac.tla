--------------------------------- MODULE Hmac ---------------------------------
(***************************************************************************)
(* HMAC-SHA1 as src/hmac.cpp computes it, as a machine that goes through   *)
(* the loops: a step is one word of the schedule, one of the 80 rounds, or *)
(* the start or the end of a block or of a hash.                           *)
(*                                                                         *)
(* A uint32_t is the set of its bits that are 1, counted from the lowest:  *)
(* exclusive or is then the symmetric difference, and a sum drops what is  *)
(* carried out of bit 31.  Bytes are numbers.                              *)
(***************************************************************************)
EXTENDS Integers, SequencesExt

VARIABLES
  message,     \* what is authenticated
  phase,       \* which hash is computed: of a long key, the inner, the outer
  padded_key,  \* the key, brought to the size of a block
  rest,        \* the padded blocks that are not processed yet
  h,           \* h0..h4
  W,           \* the schedule of the current block, as far as it goes
  v,           \* a..e
  t,           \* how many of the 80 rounds are done
  mac          \* the result

hash == <<rest, h, W, v, t>>
hmac_vars == <<message, phase, padded_key, hash, mac>>

BlockSize == 64

-----------------------------------------------------------------------------
(* Words.                                                                  *)

BitsOf(n) == {i \in 0..15 : (n \div 2^i) % 2 = 1}      \* of n below 2^16
ByteOf(x) ==                                           \* of bits below 8
  LET bit(i) == IF i \in x THEN 2^i ELSE 0
  IN  bit(7) + bit(6) + bit(5) + bit(4) + bit(3) + bit(2) + bit(1) + bit(0)

Up(x, n) == {i + n : i \in x}
Hex(high, low) == Up(BitsOf(high), 16) \cup BitsOf(low)

rotate_left(x, count) == {(i + count) % 32 : i \in x}

\* x + y modulo 2^32.  The carry into a bit comes from a lower one that both
\* have, past bits that one of them has.
Plus(x, y) ==
  LET both == x \cap y
      one  == x \cup y
      CarryInto(i) == \E j \in both : j < i /\ (j + 1)..(i - 1) \subseteq one
  IN  {i \in 0..31 : (i \in SymDiff(x, y)) # CarryInto(i)}

\* Of the four bytes behind the first n.
read_be32(s, n) == UNION {Up(BitsOf(s[n + k]), 32 - 8*k) : k \in 1..4}

write_be32(x) ==
  [k \in 1..4 |-> ByteOf({i \in 0..7 : (i + 32 - 8*k) \in x})]

-----------------------------------------------------------------------------
(* SHA-1                                                                   *)

\* Mutant: the loop stops one zero early.
ZerosShort(n) == CHOOSE k \in 0..63 : (n + 1 + k) % 64 = 55

\* The loop adds zeros until the size is 56 modulo 64.
Zeros(n) == CHOOSE k \in 0..63 : (n + 1 + k) % 64 = 56

\* 0x80, zeros, and the length in bits, in eight bytes, of a message of less
\* than 8 KiB.
Padded(s) ==
  s \o << 128 >> \o [i \in 1..Zeros(Len(s)) |-> 0]
    \o << 0, 0, 0, 0, 0, 0, ((8 * Len(s)) \div 256) % 256, (8 * Len(s)) % 256 >>

InitialState == << Hex(26437, 8961), Hex(61389, 43913), Hex(39098, 56574),
                   Hex(4146, 21622), Hex(50130, 57840) >>

NextWord(w) ==
  LET n == Len(w) + 1
  IN  rotate_left(SymDiff(SymDiff(w[n-3], w[n-8]), SymDiff(w[n-14], w[n-16])), 1)

Choose(b, c, d) == (b \cap c) \cup (d \ b)
Parity(b, c, d) == SymDiff(SymDiff(b, c), d)
Majority(b, c, d) == (b \cap c) \cup (b \cap d) \cup (c \cap d)

\* The function and the constant of round n, counted from 0.
F(n, b, c, d) == CASE n < 20       -> Choose(b, c, d)
                   [] n \in 40..59 -> Majority(b, c, d)
                   [] OTHER        -> Parity(b, c, d)
K(n) == CASE n < 20       -> Hex(23170, 31129)       \* 0x5A827999
          [] n \in 20..39 -> Hex(28377, 60321)       \* 0x6ED9EBA1
          [] n \in 40..59 -> Hex(36635, 48348)       \* 0x8F1BBCDC
          [] n >= 60      -> Hex(51810, 49622)       \* 0xCA62C1D6

\* sha1 starts on the bytes s.
Begin(s) ==
  /\ rest' = Padded(s)
  /\ h' = InitialState
  /\ W' = << >> /\ v' = << >> /\ t' = 0

Hashing == phase \in {"key", "inner", "outer"}
OfHash == Hashing /\ UNCHANGED <<message, phase, padded_key, mac>>

LoadBlock ==
  /\ rest # << >> /\ W = << >>
  /\ W' = [i \in 1..16 |-> read_be32(rest, 4*i - 4)]
  /\ OfHash /\ UNCHANGED <<rest, h, v, t>>

ExtendSchedule ==
  /\ Len(W) \in 16..79
  /\ W' = Append(W, NextWord(W))
  /\ v' = h
  /\ OfHash /\ UNCHANGED <<rest, h, t>>

\* Round t, with its word, on <<a, b, c, d, e>>.
Round ==
  /\ Len(W) = 80 /\ t < 80
  /\ LET fed == Plus(rotate_left(v[1], 5), F(t, v[2], v[3], v[4]))
     IN  v' = << Plus(Plus(Plus(fed, v[5]), K(t)), W[t + 1]),
                 v[1], rotate_left(v[2], 30), v[3], v[4] >>
  /\ t' = t + 1
  /\ OfHash /\ UNCHANGED <<rest, h, W>>

AddBlock ==
  /\ t = 80
  /\ h' = [i \in 1..5 |-> Plus(h[i], v[i])]
  /\ rest' = SubSeq(rest, BlockSize + 1, Len(rest))
  /\ W' = << >> /\ v' = << >> /\ t' = 0
  /\ OfHash

Hashed == Hashing /\ rest = << >>
digest ==
  LET bytes == [k \in 1..5 |-> write_be32(h[k])]
  IN  [i \in 1..20 |-> bytes[(i + 3) \div 4][((i - 1) % 4) + 1]]

-----------------------------------------------------------------------------
(* HMAC                                                                    *)

Xored(s, byte) ==
  [i \in DOMAIN s |-> ByteOf(SymDiff(BitsOf(s[i]), BitsOf(byte)))]

\* padded_key.resize
Resized(s) == s \o [i \in 1..(BlockSize - Len(s)) |-> 0]

\* inner_key (0x36) and the message.
BeginInner(key, m) ==
  /\ phase' = "inner"
  /\ padded_key' = Resized(key)
  /\ Begin(Xored(Resized(key), 54) \o m)

\* Mutant: a key that fills the block is hashed too.
hmac_sha1_eager(key, m) ==
  /\ message' = m
  /\ mac' = << >>
  /\ IF Len(key) >= BlockSize
       THEN phase' = "key" /\ Begin(key) /\ UNCHANGED padded_key
       ELSE BeginInner(key, m)

\* A key longer than a block is hashed first.
hmac_sha1(key, m) ==
  /\ message' = m
  /\ mac' = << >>
  /\ IF Len(key) > BlockSize
       THEN phase' = "key" /\ Begin(key) /\ UNCHANGED padded_key
       ELSE BeginInner(key, m)

KeyHashed ==
  /\ Hashed /\ phase = "key"
  /\ BeginInner(digest, message)
  /\ UNCHANGED <<message, mac>>

\* outer_key (0x5C) and the inner hash.
InnerHashed ==
  /\ Hashed /\ phase = "inner"
  /\ phase' = "outer"
  /\ Begin(Xored(padded_key, 92) \o digest)
  /\ UNCHANGED <<message, padded_key, mac>>

\* The key is zeroed.
OuterHashed ==
  /\ Hashed /\ phase = "outer"
  /\ phase' = "done"
  /\ mac' = digest
  /\ padded_key' = << >>
  /\ UNCHANGED <<message, hash>>

HmacInit ==
  /\ message = << >> /\ phase = "none" /\ padded_key = << >> /\ mac = << >>
  /\ rest = << >> /\ h = << >> /\ W = << >> /\ v = << >> /\ t = 0

HmacStep ==
  \/ LoadBlock \/ ExtendSchedule \/ Round \/ AddBlock
  \/ KeyHashed \/ InnerHashed \/ OuterHashed
=============================================================================
