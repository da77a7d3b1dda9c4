-------------------------------- MODULE Codecs ------------------------------
(***************************************************************************)
(* Base64 of generic/string/base64.c and, on top of it, the password       *)
(* hashes of generic/crypto/bcrypt.c.  A character of base64 is its index  *)
(* in the alphabet; every other one, a terminator included, is Invalid.    *)
(***************************************************************************)
EXTENDS Machine, Sequences, SequencesExt

Invalid == 255

Octets == 0 .. 255
-----------------------------------------------------------------------------
\* Character j of the encoded data, counted from 0: four for three bytes, and
\* no padding.  A byte that is missing at the end counts as zero.
Sextet(data, j) ==
  LET byte(i) == IF 3 * (j \div 4) + i <= Len(data) THEN data[3 * (j \div 4) + i] ELSE 0
  IN  CASE j % 4 = 0 -> byte(1) \div 4
        [] j % 4 = 1 -> (byte(1) % 4) * 16 + byte(2) \div 16
        [] j % 4 = 2 -> (byte(2) % 16) * 4 + byte(3) \div 64
        [] OTHER -> byte(3) % 64

Sextets(data) == [j \in 1 .. (4 * Len(data) + 2) \div 3 |-> Sextet(data, j - 1)]

\* xtBase64Encode: what the buffer holds behind it; a text that does not fit
\* is cut for its terminator.  The terminator is not counted when it fits.
Base64Encode(buflen, data) ==
  LET text == Sextets(data)
  IN  IF Len(text) <= buflen THEN [ret |-> "ok", text |-> text, end |-> Len(text)]
      ELSE [ret |-> "XT_EMSGSIZE", text |-> SubSeq(text, 1, buflen - 1), end |-> buflen - 1]

\* The character at p, or what is behind the text.
At(text, p) == IF p <= Len(text) THEN text[p] ELSE Invalid

\* The bytes of group k of the text, counted from 0, for which there is room;
\* datalen is looked at once in four characters.
Group(text, datalen, room, k) ==
  LET c(i) == At(text, 4 * k + i)
      count == CASE room = 0 \/ datalen <= 4 * k \/ c(1) = Invalid \/ c(2) = Invalid -> 0
                 [] OTHER -> IF room = 1 \/ c(3) = Invalid THEN 1
                             ELSE IF room = 2 \/ c(4) = Invalid THEN 2 ELSE 3
      byte(i) == CASE i = 1 -> c(1) * 4 + c(2) \div 16
                   [] i = 2 -> (c(2) % 16) * 16 + c(3) \div 4
                   [] OTHER -> (c(3) % 4) * 64 + c(4)
  IN  [i \in 1 .. count |-> byte(i)]

\* Decoding reports no error: it stops where the text does, after a group of
\* less than three bytes.
Base64Decode(buflen, text, datalen) ==
  LET Turn(n, out) == IF Len(out) < 3 * (n - 1) THEN out
                      ELSE out \o Group(text, datalen, buflen - Len(out), n - 1)
  IN  Rounds(Turn, << >>, buflen)

\* Nothing that Encode writes ends in an equals sign, which the function
\* looks for.
GetDecodedSize(text) == (Len(text) \div 4) * 3

GetEncodedSize(buflen) == 4 * ((buflen + 2) \div 3)
-----------------------------------------------------------------------------
(***************************************************************************)
(* Bcrypt.  A salt and a hash are records of the parts of their text; in   *)
(* a hash, text is the salt's and cipher what follows it.                  *)
(***************************************************************************)
MaxSalt == 16

SaltLength == 32

KeyLength == 128

\* The prefix $2a$nn$ takes seven characters; whether the seed fits is not
\* looked at.
GenSalt(logRounds, seed, saltlen) ==
  IF saltlen < SaltLength THEN [ret |-> "XT_EMSGSIZE"]
  ELSE [ret |-> "ok",
        salt |-> [version |-> 2, minor |-> "a", synced |-> TRUE, cipher |-> << >>,
                  logr |-> CASE logRounds < 4 -> 4 [] logRounds > 31 -> 31 [] OTHER -> logRounds,
                  text |-> Base64Encode(saltlen - 7, seed).text]]

\* The key schedule uses the key, with its terminator if there is a minor
\* version, over and over for the 72 bytes of P.  Its length is a byte.
Subkeys(key, minor) ==
  LET bytes == IF minor = "a" THEN Append(key, 0) ELSE key
      n == Len(bytes) % 256
  IN  [i \in 0 .. 71 |-> bytes[(i % n) + 1]]

\* What is encrypted depends on these alone: 23 bytes, as one value.
Ciphertext(key, minor, csalt, logr) == <<Subkeys(key, minor), csalt, logr>>

\* The first MaxSalt bytes of the salt; those that cannot be decoded stay
\* what they were, which nobody knows.
RawSalt(salt) ==
  LET raw == Base64Decode(MaxSalt, salt.text, Len(salt.text) + 31 * Len(salt.cipher) - 1)
  IN  [i \in 1 .. MaxSalt |-> IF i <= Len(raw) THEN raw[i] ELSE -1]

\* xtBcrypt, its checks in their order.  A bad salt leaves ":" for a hash.
Bcrypt(key, salt, hashlen) ==
  CASE hashlen < KeyLength -> [ret |-> "XT_EMSGSIZE"]
    [] hashlen >= KeyLength /\ ( \/ salt.version > 2
                                 \/ salt.minor \notin {"", "a"}
                                 \/ ~salt.synced
                                 \/ salt.logr \notin 0 .. 31
                                 \/ salt.logr < 4
                                 \/ ((Len(salt.text) + 31 * Len(salt.cipher)) * 3) \div 4 < MaxSalt )
         -> [ret |-> "XT_EINVAL"]
    [] OTHER ->
         [ret |-> "ok",
          hash |-> [version |-> 2, minor |-> salt.minor, synced |-> TRUE, logr |-> salt.logr,
                    text |-> Sextets(RawSalt(salt)),
                    cipher |-> <<Ciphertext(key, salt.minor, RawSalt(salt), salt.logr)>>]]

GetRounds(hash) == hash.logr
-----------------------------------------------------------------------------
\* Decoding is the inverse of encoding, also for a part of the data; a text
\* that is cut is the start of the whole one; only a text that fills its
\* buffer has its terminator outside; sizes are right for whole groups.
Base64OK(data, buflen) ==
  LET all == Base64Encode(2 * Len(data), data)
      some == Base64Encode(buflen, data)
  IN  /\ Base64Decode(Len(data) + 3, all.text, Len(all.text)) = data
      /\ \A n \in 1 .. Len(data) : Base64Decode(n, all.text, Len(all.text)) = SubSeq(data, 1, n)
      /\ buflen > 0 => IsPrefix(some.text, all.text) /\ some.end = Len(some.text)
      /\ buflen > 0 /\ buflen # Len(all.text) => some.end < buflen
      /\ Len(all.text) <= GetEncodedSize(Len(data))
      /\ Len(data) % 3 = 0 => /\ Len(all.text) = GetEncodedSize(Len(data))
                              /\ GetDecodedSize(all.text) = Len(data)

\* A hash is its own salt: hashing the key again with it gives it back, and
\* another key another hash.  A seed that is long enough is never refused.
BcryptOK(key, other, logRounds, seed, saltlen) ==
  LET salt == GenSalt(logRounds, seed, saltlen)
      hash == Bcrypt(key, salt.salt, KeyLength)
  IN  IF saltlen < SaltLength THEN salt.ret # "ok"
      ELSE IF Len(seed) < MaxSalt THEN hash.ret = "XT_EINVAL"
      ELSE /\ hash.ret = "ok"
           /\ Bcrypt(key, hash.hash, KeyLength) = hash
           /\ other # key => Bcrypt(other, hash.hash, KeyLength) # hash
           /\ GetRounds(hash.hash) \in 4 .. 31
           /\ hash.hash.text = Sextets(SubSeq(seed, 1, MaxSalt))
=============================================================================
