-------------------------------- MODULE Base32 --------------------------------
(***************************************************************************)
(* Base32 as src/base32.cpp reads and writes it.  Characters are their     *)
(* ASCII codes and bytes are numbers, for what a character stands for and  *)
(* where a byte is cut is all there is to it.                              *)
(***************************************************************************)
EXTENDS Integers, SequencesExt

Byte == 0..255

INVALID == 255
PADDING == 254

Equals == 61
Separator == {32, 9, 10, 13, 45}    \* blanks, ends of line and the hyphen

toupper(c) == IF c \in 97..122 THEN c - 32 ELSE c

\* s without what is in `dropped`: kept[n][j] is what a loop keeps of the n
\* characters behind place j, which is what it keeps of one half and of the other.
Without(s, dropped) ==
  LET kept[n \in 0..Len(s)] ==
        [j \in 0..(Len(s) - n) |->
           IF n = 0 THEN << >>
           ELSE IF n = 1 THEN (IF s[j+1] \in dropped THEN << >> ELSE << s[j+1] >>)
           ELSE kept[n \div 2][j] \o kept[n - (n \div 2)][j + (n \div 2)]]
  IN  kept[Len(s)][0]

base32_normalize(input) ==
  LET kept == Without(input, Separator)
  IN  [i \in DOMAIN kept |-> toupper(kept[i])]

\* 'A'..'Z', then '2'..'7'
make_decode_value(c) ==
  CASE c \in 65..90 -> c - 65
    [] c \in 50..55 -> c - 50 + 26
    [] c = Equals   -> PADDING
    [] OTHER        -> INVALID

DECODE_TABLE == [c \in Byte |-> make_decode_value(c)]

ENCODE_TABLE == [v \in 0..31 |-> IF v < 26 THEN 65 + v ELSE 50 + v - 26]

\* The symbols that are left when every '=' is taken out, wherever it stood.
Data(s) == Without(s, {Equals})

\* Mutant: a lone symbol at the end is let through.
UnevenLax(n) == n % 8 \in {3, 6}

\* So many symbols do not end where a byte ends.
Uneven(n) == n % 8 \in {1, 3, 6}

\* Padding comes last and fills a group of eight, or there is none.
base32_validate(input) ==
  LET s == base32_normalize(input)
      n == Len(Data(s))
  IN  /\ s # << >>
      /\ ~\E i \in DOMAIN s : IF i <= n THEN DECODE_TABLE[s[i]] >= PADDING
                                        ELSE s[i] # Equals
      /\ Len(s) % 8 = 0 \/ Len(s) = n
      /\ ~Uneven(n)

-----------------------------------------------------------------------------
(* Decoding and encoding go through a buffer of which only the lowest      *)
(* `bits` bits are ever read again; those alone are kept here, so that the *)
(* uint32_t, out of which older bits are shifted, is never at its limit.   *)

Start32 == [out |-> << >>, buffer |-> 0, bits |-> 0]

\* base32_decode throws Base32Error.
DecodeThrows(input) ==
  LET s == base32_normalize(input)
  IN  \/ s = << >>
      \/ \E i \in DOMAIN Data(s) : DECODE_TABLE[Data(s)[i]] = INVALID
      \/ Uneven(Len(Data(s)))

\* Mutant: the lowest eight bits are taken, not the eight in front.
DecodeSymbolLow(st, c) ==
  LET b == st.buffer * 32 + DECODE_TABLE[c]
      k == st.bits + 5
  IN  IF k >= 8
        THEN [out |-> Append(st.out, b % 256),
              buffer |-> b % 2^(k - 8), bits |-> k - 8]
        ELSE [out |-> st.out, buffer |-> b, bits |-> k]

\* One round of the loop of base32_decode.
DecodeSymbol(st, c) ==
  LET b == st.buffer * 32 + DECODE_TABLE[c]
      k == st.bits + 5
  IN  IF k >= 8
        THEN [out |-> Append(st.out, b \div 2^(k - 8)),
              buffer |-> b % 2^(k - 8), bits |-> k - 8]
        ELSE [out |-> st.out, buffer |-> b, bits |-> k]

\* One round of the loop of base32_encode: it writes one symbol or two.
EncodeByte(st, byte) ==
  LET b == st.buffer * 256 + byte
      k == st.bits + 8
      n == k \div 5
  IN  [out |-> st.out \o [i \in 1..n |-> ENCODE_TABLE[(b \div 2^(k - 5*i)) % 32]],
       buffer |-> b % 2^(k - 5*n), bits |-> k - 5*n]

\* Mutant: the padding fills groups of four.
FilledToFour(s) == s \o [i \in 1..((4 - (Len(s) % 4)) % 4) |-> Equals]

Filled(s) == s \o [i \in 1..((8 - (Len(s) % 8)) % 8) |-> Equals]

\* The loop of base32_encode.
EncodeBytes(data) ==
  LET st[n \in 0..Len(data)] ==
        IF n = 0 THEN Start32 ELSE EncodeByte(st[n-1], data[n])
  IN  st[Len(data)]

base32_encode(data) ==
  LET st == EncodeBytes(data)
  IN  Filled(IF st.bits = 0 THEN st.out
             ELSE Append(st.out, ENCODE_TABLE[st.buffer * 2^(5 - st.bits)]))

-----------------------------------------------------------------------------
(* What the bytes are, by the definition of the encoding: the bits of the  *)
(* symbols one after the other, in eights.                                 *)

Bit(s, j) == (DECODE_TABLE[s[j \div 5 + 1]] \div 2^(4 - (j % 5))) % 2

\* The byte of which these are the bits from j on.
Octet(s, j) ==
  128 * Bit(s, j) + 64 * Bit(s, j+1) + 32 * Bit(s, j+2) + 16 * Bit(s, j+3)
    + 8 * Bit(s, j+4) + 4 * Bit(s, j+5) + 2 * Bit(s, j+6) + Bit(s, j+7)

Decoded(s) == [i \in 1..((5 * Len(s)) \div 8) |-> Octet(s, 8*i - 8)]
=============================================================================
