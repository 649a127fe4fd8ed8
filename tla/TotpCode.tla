------------------------------- MODULE TotpCode -------------------------------
(***************************************************************************)
(* The way of a TOTP secret from the prompt of cmd_totp_add to a code:     *)
(* base32_validate and base32_decode (Base32), the HMAC of the time (Hmac) *)
(* and the truncation of totp_generate (src/totp.cpp).  What is between,   *)
(* storing the secret and the live display, is in VaultCommands and        *)
(* TotpDisplay.                                                            *)
(***************************************************************************)
EXTENDS Base32, Hmac

CONSTANTS
  Typed,    \* what may be typed, or pasted, at the prompt
  Times,    \* the seconds since the epoch at which a code is asked for
  Digits,   \* how many digits a code has
  Period,   \* how many seconds it lasts
  Known,    \* codes that are known: records [secret, time, code]
  MaxEncoded\* bound: the longest secret that is encoded again

ASSUME TypedAssumption == Typed \subseteq Seq(Byte)
\* The steps are below 2^31, as time_bytes has them.
ASSUME TimesAssumption ==
  Times \subseteq Nat /\ \A now \in Times : (now \div Period) \div 16777216 <= 127
ASSUME DigitsAssumption == Digits \in 6..8
ASSUME PeriodAssumption == Period \in Nat \ {0}

VARIABLES
  pc,         \* where the secret is, see TypeOK
  secret,     \* secret_base32: as typed, then normalised
  left,       \* the symbols that base32_decode has still to take
  decoder,    \* its buffer; decoder.out becomes raw_secret
  unix_time,  \* the time totp_generate has read
  code        \* what it returned, as a sequence of digits

vars == <<hmac_vars, pc, secret, left, decoder, unix_time, code>>

raw_secret == decoder.out

TypeOK ==
  /\ pc \in {"prompt", "rejected", "thrown", "decode", "stored", "hash", "shown"}
  /\ secret \in Seq(Byte) /\ left \in Seq(Byte) /\ raw_secret \in Seq(Byte)
  /\ decoder.bits \in 0..7 /\ decoder.buffer \in 0..(2^decoder.bits - 1)
  /\ unix_time \in Times \cup {0}
  /\ code \in Seq(0..9)
  /\ phase \in {"none", "key", "inner", "outer", "done"}
  /\ rest \in Seq(Byte) /\ Len(rest) % BlockSize = 0
  /\ \A s \in {h, v} : s \in Seq(SUBSET (0..31)) /\ Len(s) \in {0, 5}
  /\ W \in Seq(SUBSET (0..31)) /\ Len(W) \in {0} \cup (16..80)
  /\ t \in 0..80
  /\ mac \in Seq(Byte) /\ Len(mac) \in {0, 20}

-----------------------------------------------------------------------------
(* totp.cpp                                                                *)

time_step(now) == now \div Period

\* Eight bytes, big-endian, of a step below 2^31.
time_bytes(s) ==
  << 0, 0, 0, 0, s \div 16777216, (s \div 65536) % 256, (s \div 256) % 256, s % 256 >>

\* Four bytes of the MAC, from the place its last four bits give, without the
\* sign bit.
truncate(m) ==
  LET o == m[20] % 16
  IN  (((m[o+1] % 128) * 16777216) + (m[o+2] * 65536) + (m[o+3] * 256) + m[o+4])
        % 10^Digits

\* std::to_string: no zeros in front.
to_string(n) ==
  LET len == CHOOSE k \in 1..8 : n < 10^k /\ (k = 1 \/ n >= 10^(k-1))
  IN  [i \in 1..len |-> (n \div 10^(len - i)) % 10]

\* Mutant: the seconds of the step that have passed.
seconds_passed(now) == now % Period

totp_remaining_seconds(now) == Period - (now % Period)

-----------------------------------------------------------------------------

Init ==
  /\ HmacInit
  /\ pc = "prompt" /\ secret \in Typed
  /\ left = << >> /\ decoder = Start32
  /\ unix_time = 0 /\ code = << >>

\* Nothing was typed, or what base32_validate does not accept.
Reject ==
  /\ pc = "prompt" /\ ~base32_validate(base32_normalize(secret))
  /\ pc' = "rejected"
  /\ UNCHANGED <<hmac_vars, secret, left, decoder, unix_time, code>>

\* The secret is stored as normalised; cmd_totp_add and cmd_totp decode it.
Accept ==
  /\ pc = "prompt" /\ base32_validate(base32_normalize(secret))
  /\ secret' = base32_normalize(secret)
  /\ IF DecodeThrows(secret')
       THEN pc' = "thrown" /\ UNCHANGED left
       ELSE pc' = "decode" /\ left' = Data(base32_normalize(secret'))
  /\ UNCHANGED <<hmac_vars, decoder, unix_time, code>>

Decode ==
  /\ pc = "decode"
  /\ IF left = << >>
       THEN pc' = "stored" /\ UNCHANGED <<left, decoder>>
       ELSE /\ decoder' = DecodeSymbol(decoder, Head(left))
            /\ left' = Tail(left)
            /\ UNCHANGED pc
  /\ UNCHANGED <<hmac_vars, secret, unix_time, code>>

\* totp_generate reads the clock.
Generate(now) ==
  /\ pc = "stored"
  /\ unix_time' = now
  /\ hmac_sha1(raw_secret, time_bytes(time_step(now)))
  /\ pc' = "hash"
  /\ UNCHANGED <<secret, left, decoder, code>>

Hash ==
  /\ pc = "hash"
  /\ HmacStep
  /\ UNCHANGED <<pc, secret, left, decoder, unix_time, code>>

Show ==
  /\ pc = "hash" /\ phase = "done"
  /\ code' = to_string(truncate(mac))
  /\ pc' = "shown"
  /\ UNCHANGED <<hmac_vars, secret, left, decoder, unix_time>>

Next ==
  \/ Reject \/ Accept \/ Decode
  \/ \E now \in Times : Generate(now)
  \/ Hash \/ Show

Spec == Init /\ [][Next]_vars

-----------------------------------------------------------------------------


\* Whatever base32_validate accepts, base32_decode takes, in cmd_totp_add and
\* in every later cmd_totp, and it gives the bytes that the definition of the
\* encoding says.
AcceptedDecodes ==
  /\ pc # "thrown"
  /\ pc \in {"stored", "hash", "shown"} => raw_secret = Decoded(Data(secret))

\* base32_encode gives valid base32 of the same bytes, and the symbols that
\* were typed but for bits of the last one that belong to no byte.
EncodingInverts ==
  pc = "stored" /\ raw_secret # << >> /\ Len(raw_secret) <= MaxEncoded =>
    LET s == base32_encode(raw_secret)
    IN  /\ base32_validate(s)
        /\ Decoded(Data(s)) = raw_secret
        /\ Front(Data(s)) = Front(Data(secret))

\* A secret without a single byte, for which every code is that of the empty
\* key, can be stored, but only by typing nothing besides padding.
EmptyOnlyFromPadding ==
  pc = "stored" /\ raw_secret = << >> =>
    Len(secret) % 8 = 0 /\ \A i \in DOMAIN secret : secret[i] = Equals

\* The code is the one that other implementations of RFC 6238 show, for keys
\* shorter than, as long as and longer than a block and for a length on either
\* side of every boundary of the padding.
CodeAsElsewhere ==
  \A x \in Known :
    pc = "shown" /\ Data(secret) = x.secret /\ unix_time = x.time =>
      code = to_string(x.code)

\* The countdown beside the code reaches its end exactly when the code changes.
CountdownEndsWithCode ==
  \A now \in unix_time..(unix_time + Period) :
    LET end == now + totp_remaining_seconds(now)
    IN  /\ time_step(end - 1) = time_step(now)
        /\ time_step(end) = time_step(now) + 1

\* "Returns: zero-padded code string, e.g. "048297"": a code has its digits.
CodeIsZeroPadded == pc = "shown" => Len(code) = Digits
=============================================================================
