------------------------------ MODULE MCTotpCode ------------------------------
(***************************************************************************)
(* What is typed, and the codes that other implementations give.           *)
(***************************************************************************)
EXTENDS TotpCode

\* A key of `n` symbols that goes through the alphabet.
Mixed(n) == [i \in 1..n |-> ENCODE_TABLE[(7*i) % 32]]

\* The key of RFC 6238: "12345678901234567890" in ASCII.
RfcKey == [i \in 1..20 |-> 48 + (i % 10)]

\* Its base32 form.
MCRfc == {base32_encode(RfcKey)}

\* Symbols and padding in all proportions.
Run(n, m) == [i \in 1..(n + m) |-> IF i <= n THEN 65 ELSE Equals]

\* 'A', 'b', '=', '-' and '1', in any order; 'A's with padding; keys of 63, 64,
\* 65, 119 and 120 bytes.
MCTyped ==
  BoundedSeq({65, 98, 61, 45, 49}, 3)
    \cup {Run(n, m) : n \in 0..9, m \in 0..8}
    \cup {Mixed(n) : n \in {101, 103, 104, 191, 192}}
    \cup MCRfc

MCKnown ==
  LET Is(s, at, n) == [secret |-> s, time |-> at, code |-> n]
  IN  {Is(base32_encode(RfcKey), 59, 287082),
       Is(base32_encode(RfcKey), 1111111109, 81804),
       Is(<<65, 65>>, 59, 812658), Is(<< >>, 59, 812658),
       Is(Mixed(101), 59, 807455), Is(Mixed(101), 1111111109, 738556),
       Is(Mixed(103), 59, 948758), Is(Mixed(103), 1111111109, 459901),
       Is(Mixed(104), 59, 969966), Is(Mixed(104), 1111111109, 84523),
       Is(Mixed(191), 59, 67153),  Is(Mixed(191), 1111111109, 137451),
       Is(Mixed(192), 59, 961322), Is(Mixed(192), 1111111109, 324827)}
=============================================================================
