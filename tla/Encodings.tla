------------------------------- MODULE Encodings -------------------------------
(***************************************************************************)
(* The encodings kaufbot computes itself: SHA-256 as far as it is the      *)
(* code's own (cutting and padding what is digested; the mixing of a block *)
(* is the standard's), base64 and the percent-encoding of URLs.  A byte is *)
(* its number.  A result is a set, empty until it has been computed.       *)
(***************************************************************************)
EXTENDS Integers, Sequences, SequencesExt

CONSTANT MaxNameLen   \* bound: the length of the names that are escaped

ASSUME EncodingsAssumption == MaxNameLen \in Nat

VARIABLES
  bytes,      \* a file of a user, or a name
  hash,       \* the digest the processor looks for duplicates with
  b64,        \* the text Gemini is sent for the file
  encoded_id  \* the name as it stands in a URL

encodingVars == <<bytes, hash, b64, encoded_id>>

\* Pieces of length n, one behind the other.
Joined(pieces, n) ==
  [i \in 1..n * Len(pieces) |-> pieces[(i - 1) \div n + 1][((i - 1) % n) + 1]]

-----------------------------------------------------------------------------
(* SHA-256                                                                 *)

\* "buf" is the used part of the buffer, "digested" are the blocks
\* sha256_transform has been given.
sha256_init == [buf |-> <<>>, count |-> 0, digested |-> <<>>]

\* The first blocks of a stream of bytes.
Blocks(stream, n) == [k \in 1..n |-> SubSeq(stream, 64 * (k - 1) + 1, 64 * k)]

\* Byte by byte; each time the buffer is full it is digested.
sha256_update(ctx, data) ==
  LET stream == ctx.buf \o data
      full   == Len(stream) \div 64
  IN [buf |-> SubSeq(stream, 64 * full + 1, Len(stream)), count |-> ctx.count + Len(data),
      digested |-> ctx.digested \o Blocks(stream, full)]

BigEndian(n) == [i \in 1..8 |-> IF i < 5 THEN 0 ELSE (n \div 256 ^ (8 - i)) % 256]

\* The zeros that are put until 56 bytes of the block are used.
Zeros(count) == [i \in 1..((56 - count) % 64) |-> 0]

\* Mutant: the length is read after the padding was put.
sha256_final_LengthLate(ctx) ==
  LET marked == sha256_update(ctx, <<128>>)
      padded == sha256_update(marked, Zeros(marked.count))
  IN sha256_update(padded, BigEndian(8 * padded.count))

sha256_final(ctx) ==
  LET marked == sha256_update(ctx, <<128>>)
      padded == sha256_update(marked, Zeros(marked.count))
  IN sha256_update(padded, BigEndian(8 * ctx.count))

storage_sha256_hex(data) == sha256_final(sha256_update(sha256_init, data))

-----------------------------------------------------------------------------
(* base64                                                                  *)

ByteAt(s, i) == IF i <= Len(s) THEN s[i] ELSE 0

\* Mutant: a last group of two bytes is marked like one of a single byte.
Sextets_OnePadding(s, g) ==
  LET triple == ByteAt(s, g + 1) * 65536 + ByteAt(s, g + 2) * 256 + ByteAt(s, g + 3)
      six    == <<triple \div 262144, (triple \div 4096) % 64, (triple \div 64) % 64, triple % 64>>
  IN IF Len(s) - g = 1 \/ Len(s) - g = 2 THEN <<six[1], six[2], 64, 64>> ELSE six

\* The four characters of the three bytes behind the first g, by their place
\* in the alphabet; 64 is "=".
Sextets(s, g) ==
  LET triple == ByteAt(s, g + 1) * 65536 + ByteAt(s, g + 2) * 256 + ByteAt(s, g + 3)
      six    == <<triple \div 262144, (triple \div 4096) % 64, (triple \div 64) % 64, triple % 64>>
  IN IF Len(s) - g = 1 THEN <<six[1], six[2], 64, 64>>
     ELSE IF Len(s) - g = 2 THEN <<six[1], six[2], six[3], 64>> ELSE six

base64_encode(s) == Joined([k \in 1..((Len(s) + 2) \div 3) |-> Sextets(s, 3 * (k - 1))], 4)

-----------------------------------------------------------------------------
(* Percent-encoding, in ASCII                                              *)

is_unreserved(c) == c \in 65..90 \cup 97..122 \cup 48..57 \cup {45, 95, 46, 126}

Hex(n) == IF n < 10 THEN 48 + n ELSE 55 + n

Escape(c) == IF is_unreserved(c) THEN <<c>> ELSE <<37, Hex(c \div 16), Hex(c % 16)>>

\* "out" is what is written after so many characters.
url_percent_encode(s) ==
  LET out[n \in 0..Len(s)] == IF n = 0 THEN <<>> ELSE out[n - 1] \o Escape(s[n])
  IN out[Len(s)]

-----------------------------------------------------------------------------
(* Who computes them.                                                      *)

DigestFile == /\ hash = {} /\ hash' = {storage_sha256_hex(bytes)}
              /\ UNCHANGED <<bytes, b64, encoded_id>>

EncodeFile == /\ b64 = {} /\ b64' = {base64_encode(bytes)}
              /\ UNCHANGED <<bytes, hash, encoded_id>>

\* A name is a string, which a zero ends.
EscapeName == /\ encoded_id = {} /\ Len(bytes) <= MaxNameLen /\ 0 \notin ToSet(bytes)
              /\ encoded_id' = {url_percent_encode(bytes)}
              /\ UNCHANGED <<bytes, hash, b64>>

NothingEncoded == hash = {} /\ b64 = {} /\ encoded_id = {}
EncodingsNext == DigestFile \/ EncodeFile \/ EscapeName

EncodingsSpec == bytes \in Seq(0..255) /\ NothingEncoded /\ [][EncodingsNext]_encodingVars

-----------------------------------------------------------------------------
(* The reference definitions.                                              *)

\* FIPS 180-4: the message, a one bit, the fewest zeros that leave room for
\* the length in bits, and the length, in blocks of 64 bytes.
PaddedMessage(s) ==
  LET blocks == (Len(s) + 9 + 63) \div 64
  IN s \o <<128>> \o [i \in 1..(64 * blocks - Len(s) - 9) |-> 0] \o BigEndian(8 * Len(s))

\* The bits a number stands for, the highest first.
PowersOfTwo == <<1, 2, 4, 8, 16, 32, 64, 128>>
Bits(n, width) == [i \in 1..width |-> (n \div PowersOfTwo[width - i + 1]) % 2]

\* How a server reads an escaped name: "left" digits are still to come.
Digit(c) == IF c <= 57 THEN c - 48 ELSE c - 55

ReadChar(r, c) ==
  IF r.left > 0 THEN [left |-> r.left - 1, name |-> [r.name EXCEPT ![Len(r.name)] = 16 * @ + Digit(c)]]
  ELSE IF c = 37 THEN [left |-> 2, name |-> Append(r.name, 0)]
  ELSE [left |-> 0, name |-> Append(r.name, c)]

Unescaped(s) ==
  LET read[n \in 0..Len(s)] ==
        IF n = 0 THEN [left |-> 0, name |-> <<>>] ELSE ReadChar(read[n - 1], s[n])
  IN read[Len(s)]

\* What is digested of a file is the whole file, padded as the standard says,
\* whatever its length is in relation to a block: equal digests are equal
\* files, which is what duplicates are told by.
DigestIsOfWholeFile ==
  \A ctx \in hash :
    ctx.buf = <<>> /\ Joined(ctx.digested, 64) = PaddedMessage(bytes)

\* What Gemini and the servers decode of a file or a name is what was encoded,
\* whatever bytes it holds and however many are in its last group.  RFC 4648:
\* four characters for three bytes; the bits of those before "=" are the bits
\* of the bytes, then zeros.  RFC 3986: the name is what its escapes stand for,
\* and no character is left that would end a path segment or a query.
EncodingsCanBeUndone ==
  /\ \A code \in b64 :
       LET ends    == {i \in DOMAIN code : code[i] = 64}
           present == IF ends = {} THEN code ELSE SubSeq(code, 1, Min(ends) - 1)
           sent    == Joined([i \in DOMAIN present |-> Bits(present[i], 6)], 6)
           meant   == Joined([i \in DOMAIN bytes |-> Bits(bytes[i], 8)], 8)
       IN /\ Len(code) = 4 * ((Len(bytes) + 2) \div 3)
          /\ \A i \in DOMAIN code : IF i <= Len(present) THEN code[i] \in 0..63 ELSE code[i] = 64
          /\ IsPrefix(meant, sent) /\ Len(sent) - Len(meant) < 6
          /\ \A i \in Len(meant) + 1..Len(sent) : sent[i] = 0
  /\ \A id \in encoded_id :
       /\ Unescaped(id) = [left |-> 0, name |-> bytes]
       /\ \A c \in ToSet(id) : is_unreserved(c) \/ c = 37
=============================================================================
