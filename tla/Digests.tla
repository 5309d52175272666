------------------------------ MODULE Digests -------------------------------
(***************************************************************************)
(* Checksums and digests: sha1Digest and the handshake's answer of         *)
(* WebSocketsServer.cpp, the SHA-256 of mbedtls/sha256.h that is fed piece *)
(* by piece, and the checksums of firmware_link_stubs.cpp.                 *)
(*                                                                         *)
(* A 32-bit word is the set of its one bits, 0 the lowest. Constants are   *)
(* written as two halves.                                                  *)
(***************************************************************************)
EXTENDS Codecs

Bits == 0 .. 31

Word(high, low) ==
  {i \in Bits : Bit(IF i < 16 THEN low ELSE high, i % 16) = 1}

(* What the C operators do.                                                *)
Both(v, w) == {i \in Bits : i \in v /\ i \in w}
Either(v, w) == {i \in Bits : i \in v \/ i \in w}
Differ(v, w) == {i \in Bits : (i \in v) # (i \in w)}
Not(w) == {i \in Bits : i \notin w}
Shr(w, n) == {i \in Bits : i + n \in w}
Rotr(w, n) == {i \in Bits : (i + n) % 32 \in w}
Rotl(w, n) == Rotr(w, 32 - n)

(* A carry starts where both have a one, and goes on where one has.        *)
Plus(v, w) ==
  LET carry(i) == \E j \in 0 .. i - 1 :
                    /\ j \in v /\ j \in w
                    /\ \A k \in j + 1 .. i - 1 : k \in v \/ k \in w
  IN  {i \in Bits : ((i \in v) # (i \in w)) # carry(i)}
Sum(words) == FoldLeft(Plus, {}, words)

Counting(first, last) == [i \in 1 .. last - first + 1 |-> first + i - 1]

(* The number that size bits of a word are, from bit number low on.        *)
Value(w, low, size) ==
  FoldLeft(LAMBDA n, i : 2 * n + (IF low + size - i \in w THEN 1 ELSE 0), 0,
           Counting(1, size))
Octets(words) ==
  [i \in 1 .. 4 * Len(words) |->
     Value(words[((i - 1) \div 4) + 1], 24 - 8 * ((i - 1) % 4), 8)]
Words(octets) ==
  [i \in 1 .. Len(octets) \div 4 |->
     Word(256 * octets[4 * i - 3] + octets[4 * i - 2],
          256 * octets[4 * i - 1] + octets[4 * i])]

(* State and chaining value, word by word.                                 *)
AddWords(v, w) == [i \in DOMAIN v |-> Plus(v[i], w[i])]

-----------------------------------------------------------------------------
(* SHA-1 and the handshake.                                                *)

Sha1Initial ==
  <<Word(26437, 8961), Word(61389, 43913), Word(39098, 56574),
    Word(4146, 21622), Word(50130, 57840)>>

Sha1Word(w) ==
  LET n == Len(w) + 1
  IN  Rotl(Differ(Differ(w[n - 3], w[n - 8]), Differ(w[n - 14], w[n - 16])), 1)

Sha1Schedule(block) ==
  FoldLeft(LAMBDA w, i : Append(w, Sha1Word(w)), Words(block),
           Counting(17, 80))

Sha1F(i, b, c, d) ==
  IF i <= 20 THEN Either(Both(b, c), Both(Not(b), d))
  ELSE IF i \in 41 .. 60
  THEN Either(Either(Both(b, c), Both(b, d)), Both(c, d))
  ELSE Differ(Differ(b, c), d)
Sha1K(i) ==
  IF i <= 20 THEN Word(23170, 31129)
  ELSE IF i <= 40 THEN Word(28377, 60321)
  ELSE IF i <= 60 THEN Word(36635, 48348) ELSE Word(51810, 49622)

Sha1Block(h, block) ==
  LET w == Sha1Schedule(block)
      start == [e |-> h[5], d |-> h[4], c |-> h[3], b |-> h[2], a |-> h[1]]
      round[i \in 0 .. Len(w)] ==
        IF i = 0 THEN start
        ELSE LET s == round[i - 1]
             IN  [e |-> s.d, d |-> s.c, c |-> Rotl(s.b, 30), b |-> s.a,
                  a |-> Sum(<<Rotl(s.a, 5), Sha1F(i, s.b, s.c, s.d), s.e,
                              Sha1K(i), w[i]>>)]
      end == round[Len(w)]
  IN  AddWords(h, <<end.a, end.b, end.c, end.d, end.e>>)

(* One byte 128, zeros up to 56 beyond whole blocks, the length in bits.   *)
Padded(message) ==
  LET zeros == (119 - (Len(message) % 64)) % 64
  IN  message \o <<128>> \o [i \in 1 .. zeros |-> 0]
        \o BigEndian(8 * Len(message), 8)
Blocks(octets) ==
  [k \in 1 .. Len(octets) \div 64 |-> SubSeq(octets, 64 * k - 63, 64 * k)]

Sha1Digest(message) ==
  Octets(FoldLeft(Sha1Block, Sha1Initial, Blocks(Padded(message))))

(* 258EAFA5-E914-47DA-95CA-C5AB0DC85B11                                    *)
GUID ==
  <<50, 53, 56, 69, 65, 70, 65, 53, 45, 69, 57, 49, 52, 45, 52, 55, 68, 65,
    45, 57, 53, 67, 65, 45, 67, 53, 65, 66, 48, 68, 67, 56, 53, 66, 49, 49>>
WebsocketAcceptValue(key) == Base64Encode(Sha1Digest(key \o GUID))

-----------------------------------------------------------------------------
(* SHA-256, a context at a time.                                           *)

(* A table of words, given by its halves.                                  *)
Table(halves) ==
  [i \in 1 .. Len(halves) \div 2 |-> Word(halves[2 * i - 1], halves[2 * i])]

Sha256K == Table(<<
    17034, 12184, 28983, 17553, 46528, 64463, 59829, 56229, 14678, 49755,
    23025, 4593, 37439, 33444, 43804, 24277, 55303, 43672, 4739, 23297, 9265,
    34238, 21772, 32195, 29374, 23924, 32990, 45566, 39900, 1703, 49563,
    61812, 58523, 27073, 61374, 18310, 4033, 40390, 9228, 41420, 11753,
    11375, 19060, 33962, 23728, 43484, 30457, 35034, 38974, 20818, 43057,
    50797, 45059, 10184, 48985, 32711, 50912, 3059, 54695, 37191, 1738,
    25425, 5161, 10599, 10167, 2693, 11803, 8504, 19756, 28156, 21304, 3347,
    25866, 29524, 30314, 2747, 33218, 51502, 37490, 11397, 41663, 59553,
    43034, 26187, 49739, 35696, 51052, 20899, 53650, 59417, 54937, 1572,
    62478, 13701, 4202, 41072, 6564, 49430, 7735, 27656, 10056, 30540, 13488,
    48309, 14620, 3251, 20184, 43594, 23452, 51791, 26670, 28659, 29839,
    33518, 30885, 25455, 33992, 30740, 36039, 520, 37054, 65530, 42064,
    27883, 48889, 41975, 50801, 30962>>)

Sha256Initial == Table(<<
    27145, 58983, 47975, 44677, 15470, 62322, 42319, 62778, 20750, 21119,
    39685, 26764, 8067, 55723, 23520, 52505>>)

Sha256Word(w) ==
  LET n == Len(w) + 1
      s0 == Differ(Differ(Rotr(w[n - 15], 7), Rotr(w[n - 15], 18)),
                   Shr(w[n - 15], 3))
      s1 == Differ(Differ(Rotr(w[n - 2], 17), Rotr(w[n - 2], 19)),
                   Shr(w[n - 2], 10))
  IN  Sum(<<w[n - 16], s0, w[n - 7], s1>>)

Sha256Schedule(block) ==
  FoldLeft(LAMBDA w, i : Append(w, Sha256Word(w)), Words(block),
           Counting(17, 64))

(* sim_sha256::compress                                                    *)
Compress(v, block) ==
  LET w == Sha256Schedule(block)
      start == [h |-> v[8], g |-> v[7], f |-> v[6], e |-> v[5],
                d |-> v[4], c |-> v[3], b |-> v[2], a |-> v[1]]
      t1(s, i) == Sum(<<s.h, Differ(Differ(Rotr(s.e, 6), Rotr(s.e, 11)),
                                    Rotr(s.e, 25)),
                        Differ(Both(s.e, s.f), Both(Not(s.e), s.g)),
                        Sha256K[i], w[i]>>)
      t2(s) == Plus(Differ(Differ(Rotr(s.a, 2), Rotr(s.a, 13)),
                           Rotr(s.a, 22)),
                    Differ(Differ(Both(s.a, s.b), Both(s.a, s.c)),
                           Both(s.b, s.c)))
      round[i \in 0 .. Len(w)] ==
        IF i = 0 THEN start
        ELSE LET s == round[i - 1]
             IN  [h |-> s.g, g |-> s.f, f |-> s.e, e |-> Plus(s.d, t1(s, i)),
                  d |-> s.c, c |-> s.b, b |-> s.a,
                  a |-> Plus(t1(s, i), t2(s))]
      end == round[Len(w)]
  IN  AddWords(v, <<end.a, end.b, end.c, end.d,
                    end.e, end.f, end.g, end.h>>)

(* mbedtls_sha256_context: what is in the block is used of it. The state   *)
(* is what the blocks compressed so far make of the initial one, so the    *)
(* context keeps these blocks.                                             *)
Sha256Starts == [blocks |-> <<>>, length |-> 0, block |-> <<>>]

Sha256Update(ctx, input) ==
  LET all == ctx.block \o input
      whole == 64 * (Len(all) \div 64)
  IN  [blocks |-> ctx.blocks \o Blocks(SubSeq(all, 1, whole)),
       length |-> ctx.length + Len(input),
       block |-> SubSeq(all, whole + 1, Len(all))]

(* The length is that of the message: it was taken before the padding.     *)
Sha256Pad(ctx) ==
  LET zeros == (119 - Len(ctx.block)) % 64
      padding == <<128>> \o [i \in 1 .. zeros |-> 0]
  IN  Sha256Update(Sha256Update(ctx, padding), BigEndian(8 * ctx.length, 8))

Sha256Finish(ctx) ==
  Octets(FoldLeft(Compress, Sha256Initial, Sha256Pad(ctx).blocks))

-----------------------------------------------------------------------------
(* Checksums. A sum is the pair of its halves.                             *)

Adler32(data, prev) ==
  FoldLeft(LAMBDA s, b :
             LET low == (s[2] + b) % 65521
             IN  <<(s[1] + low) % 65521, low>>,
           prev, data)

CrcTable == Table(<<
    0, 0, 7607, 4196, 15214, 8392, 9945, 12460, 30428, 16784, 27499, 20980,
    19890, 24920, 20485, 28988, 60856, 33568, 61455, 37700, 54998, 41960,
    52065, 45964, 39780, 49840, 34515, 53972, 40970, 57976, 48573, 61980>>)

CrcNibble(crc, n) ==
  Differ(CrcTable[Value(Differ(crc, Word(0, n)), 0, 4) + 1], Shr(crc, 4))
Crc32(data, prev) ==
  Not(FoldLeft(LAMBDA crc, b : CrcNibble(CrcNibble(crc, b), b \div 16),
               Not(prev), data))
=============================================================================
