------------------------ MODULE ArchiveSessionProofs ------------------------
(***************************************************************************)
(* Proofs about ArchiveSession, for any names, contents, page sizes, keys, *)
(* ciphers, codecs and capacities, and for any number of handles, calls    *)
(* and failed commits: what is stored is read back, page by page and file  *)
(* by file, also through the cache, and a catalog that is loaded is the    *)
(* one that was stored.                                                    *)
(***************************************************************************)
EXTENDS ArchiveSession, SequenceTheorems, FiniteSetTheorems, WellFoundedInduction, TLAPS

-----------------------------------------------------------------------------
(* Sequences, of anything.                                                  *)

IsSequence(s) == \E S : s \in Seq(S)

LEMMA SequenceIs ==
    ASSUME NEW s, IsSequence(s)
    PROVE  Len(s) \in Nat /\ DOMAIN s = 1..Len(s)
<1>1. PICK S : s \in Seq(S)
  BY DEF IsSequence
<1> QED BY <1>1

LEMMA FunctionIsSequence ==
    ASSUME NEW n \in Nat, NEW f, f = [i \in 1..n |-> f[i]]
    PROVE  IsSequence(f) /\ Len(f) = n /\ DOMAIN f = 1..n
<1> DEFINE S == {f[i] : i \in 1..n}
<1>1. \A i \in 1..n : f[i] \in S
  OBVIOUS
<1> HIDE DEF S
<1>2. f \in [1..n -> S]
  BY <1>1
<1>3. f \in Seq(S)
  BY <1>2, SeqDef
<1>4. Len(f) \in Nat /\ DOMAIN f = 1..Len(f)
  BY <1>3
<1>5. DOMAIN f = 1..n
  BY <1>2
<1>6. Len(f) = n
  BY <1>4, <1>5
<1> QED BY <1>3, <1>5, <1>6 DEF IsSequence

LEMMA SequencesEqual ==
    ASSUME NEW s, IsSequence(s), NEW t, IsSequence(t), Len(s) = Len(t),
           \A i \in 1..Len(s) : s[i] = t[i]
    PROVE  s = t
<1>1. PICK S : s \in Seq(S)
  BY DEF IsSequence
<1>2. PICK T : t \in Seq(T)
  BY DEF IsSequence
<1>3. s \in Seq(S \union T) /\ t \in Seq(S \union T)
  BY <1>1, <1>2, SeqMonotonic
<1> QED BY <1>3, SeqEqual

\* c is s with t behind it.
Joined(s, t, c) ==
    /\ IsSequence(c) /\ Len(c) = Len(s) + Len(t)
    /\ Len(s) \in Nat /\ Len(t) \in Nat
    /\ DOMAIN c = 1..Len(s) + Len(t)
    /\ \A i \in 1..Len(s) : c[i] = s[i]
    /\ \A i \in 1..Len(t) : c[Len(s) + i] = t[i]

LEMMA ConcatIs ==
    ASSUME NEW s, IsSequence(s), NEW t, IsSequence(t)
    PROVE  Joined(s, t, s \o t)
<1> DEFINE c == s \o t
<1>1. PICK S : s \in Seq(S)
  BY DEF IsSequence
<1>2. PICK T : t \in Seq(T)
  BY DEF IsSequence
<1> DEFINE U == S \union T
<1>3. s \in Seq(U) /\ t \in Seq(U)
  BY <1>1, <1>2, SeqMonotonic
<1> HIDE DEF U
<1>4. /\ c \in Seq(U) /\ Len(c) = Len(s) + Len(t)
      /\ \A i \in 1 .. Len(s) + Len(t) : c[i] = IF i <= Len(s) THEN s[i] ELSE t[i - Len(s)]
  BY <1>3, ConcatProperties
<1> HIDE DEF c
<1>5. Len(s) \in Nat /\ Len(t) \in Nat
  BY <1>3
<1>6. DOMAIN c = 1..Len(s) + Len(t)
  BY <1>4
<1>7. \A i \in 1..Len(s) : c[i] = s[i]
  BY <1>4, <1>5
<1>8. \A i \in 1..Len(t) : c[Len(s) + i] = t[i]
  <2> TAKE i \in 1..Len(t)
  <2>1. Len(s) + i \in 1..Len(s) + Len(t) /\ ~(Len(s) + i <= Len(s)) /\ Len(s) + i - Len(s) = i
    BY <1>5
  <2> QED BY <1>4, <2>1
<1>9. IsSequence(c)
  BY <1>4 DEF IsSequence
<1>10. Joined(s, t, c)
  BY <1>4, <1>5, <1>6, <1>7, <1>8, <1>9 DEF Joined
<1> QED BY <1>10 DEF c

LEMMA PrefixIs ==
    ASSUME NEW s, IsSequence(s), NEW n \in 0..Len(s)
    PROVE  /\ IsSequence(SubSeq(s, 1, n)) /\ Len(SubSeq(s, 1, n)) = n
           /\ DOMAIN SubSeq(s, 1, n) = 1..n
           /\ \A i \in 1..n : SubSeq(s, 1, n)[i] = s[i]
<1>1. PICK S : s \in Seq(S)
  BY DEF IsSequence
<1>2. Len(s) \in Nat /\ n \in Int /\ \A i \in 1..n : s[i] \in S
  BY <1>1, ElementOfSeq
<1>3. /\ SubSeq(s, 1, n) \in Seq(S)
      /\ Len(SubSeq(s, 1, n)) = IF 1 <= n THEN n - 1 + 1 ELSE 0
      /\ \A i \in 1..(n - 1 + 1) : SubSeq(s, 1, n)[i] = s[1 + i - 1]
  BY <1>2, SubSeqProperties
<1>4. Len(SubSeq(s, 1, n)) = n
  BY <1>2, <1>3
<1>5. DOMAIN SubSeq(s, 1, n) = 1..n
  BY <1>3, <1>4
<1>6. \A i \in 1..n : SubSeq(s, 1, n)[i] = s[i]
  BY <1>2, <1>3
<1> QED BY <1>3, <1>4, <1>5, <1>6 DEF IsSequence

LEMMA EmptyIs == IsSequence(<<>>) /\ Len(<<>>) = 0
BY EmptySeq DEF IsSequence

LEMMA OneIs ==
    ASSUME NEW x
    PROVE  IsSequence(<<x>>) /\ Len(<<x>>) = 1 /\ DOMAIN <<x>> = {1} /\ <<x>>[1] = x
<1>1. <<x>> \in Seq({x})
  OBVIOUS
<1>2. Len(<<x>>) = 1 /\ DOMAIN <<x>> = {1} /\ <<x>>[1] = x
  OBVIOUS
<1> QED BY <1>1, <1>2 DEF IsSequence

-----------------------------------------------------------------------------
(* One page, out and in.                                                    *)

LEMMA NoneFails ==
    ASSUME NEW checks, \A i \in DOMAIN checks : ~checks[i][1]
    PROVE  FirstError(checks) = "kSuccess"
BY DEF FirstError

LEMMA FirstIs ==
    ASSUME NEW checks, DOMAIN checks \subseteq Nat, NEW i \in DOMAIN checks, checks[i][1],
           \A j \in DOMAIN checks : j < i => ~checks[j][1]
    PROVE  FirstError(checks) = checks[i][2]
<1> DEFINE failing == {j \in DOMAIN checks : checks[j][1]}
           k == CHOOSE j \in failing : \A l \in failing : j <= l
<1>1. i \in failing /\ \A l \in failing : i <= l
  OBVIOUS
<1>2. k \in failing /\ \A l \in failing : k <= l
  <2> HIDE DEF failing
  <2> QED BY <1>1
<1>3. k = i
  BY <1>1, <1>2
<1>4. FirstError(checks) = checks[k][2]
  BY <1>1 DEF FirstError
<1> QED BY <1>3, <1>4

LEMMA FirstOfOne ==
    ASSUME NEW c1 \in BOOLEAN,
           NEW e1
    PROVE  FirstError(<< <<c1, e1>> >>) =
             IF c1 THEN e1
             ELSE "kSuccess"
<1> DEFINE checks == << <<c1, e1>> >>
<1>1. /\ DOMAIN checks = 1..1
      /\ checks[1][1] = c1
      /\ checks[1][2] = e1
  OBVIOUS
<1>2. SUFFICES FirstError(checks) =
        IF c1 THEN e1
        ELSE "kSuccess"
  BY DEF checks
<1> HIDE DEF checks
<1>3. CASE c1
  <2>1. /\ DOMAIN checks \subseteq Nat /\ 1 \in DOMAIN checks /\ checks[1][1]
        /\ \A j \in DOMAIN checks : j < 1 => ~checks[j][1]
    BY <1>1, <1>3
  <2>2. FirstError(checks) = checks[1][2]
    BY <2>1, FirstIs
  <2> QED BY <1>1, <1>3, <2>2
<1>4. CASE ~c1
  <2>1. \A i \in DOMAIN checks : ~checks[i][1]
    BY <1>1, <1>4
  <2> QED BY <1>4, <2>1, NoneFails
<1> QED BY <1>3, <1>4

LEMMA FirstOfTwo ==
    ASSUME NEW c1 \in BOOLEAN, NEW c2 \in BOOLEAN,
           NEW e1, NEW e2
    PROVE  FirstError(<< <<c1, e1>>, <<c2, e2>> >>) =
             IF c1 THEN e1 ELSE IF c2 THEN e2
             ELSE "kSuccess"
<1> DEFINE checks == << <<c1, e1>>, <<c2, e2>> >>
<1>1. /\ DOMAIN checks = 1..2
      /\ checks[1][1] = c1 /\ checks[2][1] = c2
      /\ checks[1][2] = e1 /\ checks[2][2] = e2
  OBVIOUS
<1>2. SUFFICES FirstError(checks) =
        IF c1 THEN e1 ELSE IF c2 THEN e2
        ELSE "kSuccess"
  BY DEF checks
<1> HIDE DEF checks
<1>3. CASE c1
  <2>1. /\ DOMAIN checks \subseteq Nat /\ 1 \in DOMAIN checks /\ checks[1][1]
        /\ \A j \in DOMAIN checks : j < 1 => ~checks[j][1]
    BY <1>1, <1>3
  <2>2. FirstError(checks) = checks[1][2]
    BY <2>1, FirstIs
  <2> QED BY <1>1, <1>3, <2>2
<1>4. CASE ~c1 /\ c2
  <2>1. /\ DOMAIN checks \subseteq Nat /\ 2 \in DOMAIN checks /\ checks[2][1]
        /\ \A j \in DOMAIN checks : j < 2 => ~checks[j][1]
    BY <1>1, <1>4
  <2>2. FirstError(checks) = checks[2][2]
    BY <2>1, FirstIs
  <2> QED BY <1>1, <1>4, <2>2
<1>5. CASE ~c1 /\ ~c2
  <2>1. \A i \in DOMAIN checks : ~checks[i][1]
    BY <1>1, <1>5
  <2> QED BY <1>5, <2>1, NoneFails
<1> QED BY <1>3, <1>4, <1>5

LEMMA FirstOfFour ==
    ASSUME NEW c1 \in BOOLEAN, NEW c2 \in BOOLEAN, NEW c3 \in BOOLEAN, NEW c4 \in BOOLEAN,
           NEW e1, NEW e2, NEW e3, NEW e4
    PROVE  FirstError(<< <<c1, e1>>, <<c2, e2>>, <<c3, e3>>, <<c4, e4>> >>) =
             IF c1 THEN e1 ELSE IF c2 THEN e2 ELSE IF c3 THEN e3 ELSE IF c4 THEN e4
             ELSE "kSuccess"
<1> DEFINE checks == << <<c1, e1>>, <<c2, e2>>, <<c3, e3>>, <<c4, e4>> >>
<1>1. /\ DOMAIN checks = 1..4
      /\ checks[1][1] = c1 /\ checks[2][1] = c2 /\ checks[3][1] = c3 /\ checks[4][1] = c4
      /\ checks[1][2] = e1 /\ checks[2][2] = e2 /\ checks[3][2] = e3 /\ checks[4][2] = e4
  OBVIOUS
<1>2. SUFFICES FirstError(checks) =
        IF c1 THEN e1 ELSE IF c2 THEN e2 ELSE IF c3 THEN e3 ELSE IF c4 THEN e4
        ELSE "kSuccess"
  BY DEF checks
<1> HIDE DEF checks
<1>3. CASE c1
  <2>1. /\ DOMAIN checks \subseteq Nat /\ 1 \in DOMAIN checks /\ checks[1][1]
        /\ \A j \in DOMAIN checks : j < 1 => ~checks[j][1]
    BY <1>1, <1>3
  <2>2. FirstError(checks) = checks[1][2]
    BY <2>1, FirstIs
  <2> QED BY <1>1, <1>3, <2>2
<1>4. CASE ~c1 /\ c2
  <2>1. /\ DOMAIN checks \subseteq Nat /\ 2 \in DOMAIN checks /\ checks[2][1]
        /\ \A j \in DOMAIN checks : j < 2 => ~checks[j][1]
    BY <1>1, <1>4
  <2>2. FirstError(checks) = checks[2][2]
    BY <2>1, FirstIs
  <2> QED BY <1>1, <1>4, <2>2
<1>5. CASE ~c1 /\ ~c2 /\ c3
  <2>1. /\ DOMAIN checks \subseteq Nat /\ 3 \in DOMAIN checks /\ checks[3][1]
        /\ \A j \in DOMAIN checks : j < 3 => ~checks[j][1]
    BY <1>1, <1>5
  <2>2. FirstError(checks) = checks[3][2]
    BY <2>1, FirstIs
  <2> QED BY <1>1, <1>5, <2>2
<1>6. CASE ~c1 /\ ~c2 /\ ~c3 /\ c4
  <2>1. /\ DOMAIN checks \subseteq Nat /\ 4 \in DOMAIN checks /\ checks[4][1]
        /\ \A j \in DOMAIN checks : j < 4 => ~checks[j][1]
    BY <1>1, <1>6
  <2>2. FirstError(checks) = checks[4][2]
    BY <2>1, FirstIs
  <2> QED BY <1>1, <1>6, <2>2
<1>7. CASE ~c1 /\ ~c2 /\ ~c3 /\ ~c4
  <2>1. \A i \in DOMAIN checks : ~checks[i][1]
    BY <1>1, <1>7
  <2> QED BY <1>7, <2>1, NoneFails
<1> QED BY <1>3, <1>4, <1>5, <1>6, <1>7

LEMMA FirstOfFive ==
    ASSUME NEW c1 \in BOOLEAN, NEW c2 \in BOOLEAN, NEW c3 \in BOOLEAN, NEW c4 \in BOOLEAN, NEW c5 \in BOOLEAN,
           NEW e1, NEW e2, NEW e3, NEW e4, NEW e5
    PROVE  FirstError(<< <<c1, e1>>, <<c2, e2>>, <<c3, e3>>, <<c4, e4>>, <<c5, e5>> >>) =
             IF c1 THEN e1 ELSE IF c2 THEN e2 ELSE IF c3 THEN e3 ELSE IF c4 THEN e4 ELSE IF c5 THEN e5
             ELSE "kSuccess"
<1> DEFINE checks == << <<c1, e1>>, <<c2, e2>>, <<c3, e3>>, <<c4, e4>>, <<c5, e5>> >>
<1>1. /\ DOMAIN checks = 1..5
      /\ checks[1][1] = c1 /\ checks[2][1] = c2 /\ checks[3][1] = c3 /\ checks[4][1] = c4 /\ checks[5][1] = c5
      /\ checks[1][2] = e1 /\ checks[2][2] = e2 /\ checks[3][2] = e3 /\ checks[4][2] = e4 /\ checks[5][2] = e5
  OBVIOUS
<1>2. SUFFICES FirstError(checks) =
        IF c1 THEN e1 ELSE IF c2 THEN e2 ELSE IF c3 THEN e3 ELSE IF c4 THEN e4 ELSE IF c5 THEN e5
        ELSE "kSuccess"
  BY DEF checks
<1> HIDE DEF checks
<1>3. CASE c1
  <2>1. /\ DOMAIN checks \subseteq Nat /\ 1 \in DOMAIN checks /\ checks[1][1]
        /\ \A j \in DOMAIN checks : j < 1 => ~checks[j][1]
    BY <1>1, <1>3
  <2>2. FirstError(checks) = checks[1][2]
    BY <2>1, FirstIs
  <2> QED BY <1>1, <1>3, <2>2
<1>4. CASE ~c1 /\ c2
  <2>1. /\ DOMAIN checks \subseteq Nat /\ 2 \in DOMAIN checks /\ checks[2][1]
        /\ \A j \in DOMAIN checks : j < 2 => ~checks[j][1]
    BY <1>1, <1>4
  <2>2. FirstError(checks) = checks[2][2]
    BY <2>1, FirstIs
  <2> QED BY <1>1, <1>4, <2>2
<1>5. CASE ~c1 /\ ~c2 /\ c3
  <2>1. /\ DOMAIN checks \subseteq Nat /\ 3 \in DOMAIN checks /\ checks[3][1]
        /\ \A j \in DOMAIN checks : j < 3 => ~checks[j][1]
    BY <1>1, <1>5
  <2>2. FirstError(checks) = checks[3][2]
    BY <2>1, FirstIs
  <2> QED BY <1>1, <1>5, <2>2
<1>6. CASE ~c1 /\ ~c2 /\ ~c3 /\ c4
  <2>1. /\ DOMAIN checks \subseteq Nat /\ 4 \in DOMAIN checks /\ checks[4][1]
        /\ \A j \in DOMAIN checks : j < 4 => ~checks[j][1]
    BY <1>1, <1>6
  <2>2. FirstError(checks) = checks[4][2]
    BY <2>1, FirstIs
  <2> QED BY <1>1, <1>6, <2>2
<1>7. CASE ~c1 /\ ~c2 /\ ~c3 /\ ~c4 /\ c5
  <2>1. /\ DOMAIN checks \subseteq Nat /\ 5 \in DOMAIN checks /\ checks[5][1]
        /\ \A j \in DOMAIN checks : j < 5 => ~checks[j][1]
    BY <1>1, <1>7
  <2>2. FirstError(checks) = checks[5][2]
    BY <2>1, FirstIs
  <2> QED BY <1>1, <1>7, <2>2
<1>8. CASE ~c1 /\ ~c2 /\ ~c3 /\ ~c4 /\ ~c5
  <2>1. \A i \in DOMAIN checks : ~checks[i][1]
    BY <1>1, <1>8
  <2> QED BY <1>8, <2>1, NoneFails
<1> QED BY <1>3, <1>4, <1>5, <1>6, <1>7, <1>8

Ciphers == {"gcm", "ctr", "none"}

\* The header of a page as WritePage made it, and after a soft delete.
Written(ph, enc, chunk) ==
    NewPageHeader(ph.page_id, ph.offset, ph.compression_codec, enc, chunk)
AsDeleted(ph) == [ph EXCEPT !.flags = SetPageDeleted(@, TRUE)]

\* The header ph, of a file that is deleted or not, and what is stored at its
\* offset stand for the piece chunk.
PageHolds(ph, deleted, enc, key, chunk, stored) ==
    /\ ph = IF deleted THEN AsDeleted(Written(ph, enc, chunk)) ELSE Written(ph, enc, chunk)
    /\ stored = Payload(Written(ph, enc, chunk), enc, key, chunk)

LEMMA FlagBits ==
    /\ SetPageEncrypted(0, TRUE) = 1 /\ SetPageEncrypted(0, FALSE) = 0
    /\ SetPageDeleted(1, TRUE) = 3 /\ SetPageDeleted(0, TRUE) = 2
    /\ PageEncrypted(1) /\ PageEncrypted(3) /\ ~PageEncrypted(0) /\ ~PageEncrypted(2)
BY DEF SetPageEncrypted, SetPageDeleted, PageEncrypted

LEMMA WrittenFields ==
    ASSUME NEW id, NEW offset, NEW codec, NEW enc, NEW chunk
    PROVE  LET ph == NewPageHeader(id, offset, codec, enc, chunk) IN
           /\ DOMAIN ph = {"page_id", "offset", "compression_codec", "flags",
                           "uncompressed_size", "crc32"}
           /\ ph.page_id = id /\ ph.offset = offset /\ ph.compression_codec = codec
           /\ ph.flags = (IF enc # "none" THEN 1 ELSE 0)
           /\ ph.crc32 = XxHash(Compress(CreateCompressor(codec), chunk))
           /\ AsDeleted(ph).page_id = id /\ AsDeleted(ph).offset = offset
           /\ AsDeleted(ph).compression_codec = codec
           /\ AsDeleted(ph).flags = (IF enc # "none" THEN 3 ELSE 2)
           /\ AsDeleted(ph).crc32 = ph.crc32
<1> DEFINE ph == NewPageHeader(id, offset, codec, enc, chunk)
<1>1. SetPageEncrypted(0, enc # "none") = IF enc # "none" THEN 1 ELSE 0
  BY DEF SetPageEncrypted
<1>2. /\ DOMAIN ph = {"page_id", "offset", "compression_codec", "flags",
                      "uncompressed_size", "crc32"}
      /\ ph.page_id = id /\ ph.offset = offset /\ ph.compression_codec = codec
      /\ ph.flags = (IF enc # "none" THEN 1 ELSE 0)
      /\ ph.crc32 = XxHash(Compress(CreateCompressor(codec), chunk))
  BY <1>1 DEF NewPageHeader
<1> HIDE DEF ph
<1>3. SetPageDeleted(ph.flags, TRUE) = IF enc # "none" THEN 3 ELSE 2
  BY <1>2, FlagBits
<1>4. /\ AsDeleted(ph).page_id = id /\ AsDeleted(ph).offset = offset
      /\ AsDeleted(ph).compression_codec = codec
      /\ AsDeleted(ph).flags = (IF enc # "none" THEN 3 ELSE 2)
      /\ AsDeleted(ph).crc32 = ph.crc32
  BY <1>2, <1>3 DEF AsDeleted
<1> QED BY <1>2, <1>4 DEF ph

\* What a codec made, the same codec takes apart.
LEMMA CodecRoundTrip ==
    ASSUME NEW codec, NEW chunk
    PROVE  LET comp == CreateCompressor(codec)
               frame == Compress(comp, chunk)
           IN CanDecompress(comp, frame) /\ Decompress(comp, frame) = chunk
BY DEF Compress, CanDecompress, Decompress

\* Decryption and checksum find the compressed piece, or GCM the changed flag.
PageReads(ph, deleted, enc, key, chunk, stored) ==
    IF enc = "gcm" /\ deleted
    THEN PageResult(ph, enc, key, stored) = "kDecryptionFailed"
    ELSE /\ PageResult(ph, enc, key, stored) = "kSuccess"
         /\ PageFrame(ph, enc, key, stored) =
              Compress(CreateCompressor(ph.compression_codec), chunk)

\* What was encrypted is decrypted, and what the header of a page that was not
\* deleted says is found; GCM rejects the header of one that was.
LEMMA PageRoundTrip ==
    ASSUME NEW ph, NEW deleted \in BOOLEAN, NEW enc \in Ciphers, NEW key,
           enc # "none" => CipherKey(key), NEW chunk, NEW stored,
           PageHolds(ph, deleted, enc, key, chunk, stored)
    PROVE  PageReads(ph, deleted, enc, key, chunk, stored)
<1> DEFINE live  == Written(ph, enc, chunk)
           frame == Compress(CreateCompressor(ph.compression_codec), chunk)
           result == DecryptResult(enc, key, Aad(ph), stored)
<1>1. /\ live.compression_codec = ph.compression_codec
      /\ live.flags = (IF enc # "none" THEN 1 ELSE 0) /\ live.crc32 = XxHash(frame)
      /\ AsDeleted(live).flags = (IF enc # "none" THEN 3 ELSE 2)
      /\ AsDeleted(live).crc32 = live.crc32
  BY WrittenFields DEF Written
<1>2. stored = Stored(enc, key, Aad(live), frame)
  BY <1>1 DEF PageHolds, Payload
<1>3. /\ ph.crc32 = XxHash(frame)
      /\ ph.flags = IF deleted THEN IF enc # "none" THEN 3 ELSE 2
                               ELSE IF enc # "none" THEN 1 ELSE 0
  <2> HIDE DEF frame
  <2> QED BY <1>1 DEF PageHolds
<1>4. (PageEncrypted(ph.flags) <=> enc # "none") /\ PageCipher(ph, enc) = enc
  BY <1>3, FlagBits DEF PageCipher
<1>5. Aad(ph) = Aad(live) <=> ~deleted
  <2>1. Aad(ph)[4] = ph.flags /\ Aad(live)[4] = live.flags
    BY DEF Aad
  <2>2. deleted => ph.flags # live.flags
    <3> HIDE DEF live
    <3> QED BY <1>1, <1>3
  <2>3. ~deleted => ph = live
    BY DEF PageHolds
  <2> HIDE DEF live
  <2> QED BY <2>1, <2>2, <2>3
<1> HIDE DEF live, frame
<1>6. /\ enc = "gcm" => stored = [enc |-> "gcm", key |-> key, aad |-> Aad(live), frame |-> frame]
      /\ enc = "ctr" => stored = [enc |-> "ctr", key |-> key, aad |-> <<>>, frame |-> frame]
      /\ enc = "none" => stored = [enc |-> "none", key |-> NoKey, aad |-> <<>>, frame |-> frame]
  BY <1>2 DEF Stored, AesGcmEncrypt, AesCtrEncrypt
<1>7. stored.frame = frame
  BY <1>6 DEF Ciphers
<1>8. result = IF enc = "gcm" /\ deleted THEN "kDecryptionFailed" ELSE "kSuccess"
  <2>1. CASE enc = "gcm"
    <3>1. result = FirstError(<< <<~CipherKey(key), "kInvalidArgument">>,
                  <<stored # AesGcmEncrypt(key, Aad(ph), stored.frame), "kDecryptionFailed">> >>)
      BY <2>1 DEF DecryptResult, AesGcmResult
    <3>2. result = IF ~CipherKey(key) THEN "kInvalidArgument"
                   ELSE IF stored # AesGcmEncrypt(key, Aad(ph), stored.frame)
                        THEN "kDecryptionFailed" ELSE "kSuccess"
      <4> DEFINE c1 == ~CipherKey(key)
                 c2 == stored # AesGcmEncrypt(key, Aad(ph), stored.frame)
      <4>1. c1 \in BOOLEAN /\ c2 \in BOOLEAN
        BY DEF CipherKey
      <4>2. result = FirstError(<< <<c1, "kInvalidArgument">>, <<c2, "kDecryptionFailed">> >>)
        BY <3>1
      <4> HIDE DEF c1, c2, result
      <4>3. result = IF c1 THEN "kInvalidArgument" ELSE IF c2 THEN "kDecryptionFailed"
                     ELSE "kSuccess"
        BY <4>1, <4>2, FirstOfTwo
      <4> QED BY <4>3 DEF c1, c2
    <3>3. stored = AesGcmEncrypt(key, Aad(live), frame) /\ stored.aad = Aad(live)
      BY <1>6, <2>1 DEF AesGcmEncrypt
    <3>4. AesGcmEncrypt(key, Aad(ph), frame).aad = Aad(ph)
      BY DEF AesGcmEncrypt
    <3>5. stored = AesGcmEncrypt(key, Aad(ph), stored.frame) <=> ~deleted
      BY <1>5, <1>7, <3>3, <3>4
    <3> QED BY <2>1, <3>2, <3>5
  <2>2. CASE enc = "ctr"
    <3>1. result = FirstError(<< <<~CipherKey(key), "kInvalidArgument">> >>)
      BY <2>2 DEF DecryptResult, AesCtrResult
    <3> QED BY <2>2, <3>1, FirstOfOne DEF CipherKey
  <2>3. CASE enc = "none"
    BY <2>3 DEF DecryptResult
  <2> QED BY <2>1, <2>2, <2>3 DEF Ciphers
<1>9. PageFrame(ph, enc, key, stored) = frame
  <2>1. PageFrame(ph, enc, key, stored) = Decrypt(enc, key, stored)
    BY <1>4 DEF PageFrame
  <2>2. CASE enc = "gcm"
    BY <1>7, <2>1, <2>2 DEF Decrypt
  <2>3. CASE enc = "ctr"
    <3>1. stored = AesCtrEncrypt(key, stored.frame)
      BY <1>6, <1>7, <2>3 DEF AesCtrEncrypt
    <3> QED BY <1>7, <2>1, <2>3, <3>1 DEF Decrypt, AesCtrText
  <2>4. CASE enc = "none"
    <3>1. stored.enc = "none"
      BY <1>6, <2>4
    <3> QED BY <1>7, <2>1, <2>4, <3>1 DEF Decrypt
  <2> QED BY <2>2, <2>3, <2>4 DEF Ciphers
<1>10. enc # "none" => key # NoKey
  BY DEF CipherKey, NoKey
<1>11. PageResult(ph, enc, key, stored) = FirstError(<<
         <<PageEncrypted(ph.flags) /\ key = NoKey, "kMissingEncryptionKey">>,
         <<PageEncrypted(ph.flags) /\ enc = "none", "kUnsupportedAlgorithm">>,
         <<XSTD_isError(result), result>>,
         <<XxHash(PageFrame(ph, enc, key, stored)) # ph.crc32, "kChecksumMismatch">> >>)
  BY <1>4 DEF PageResult
<1> HIDE DEF result
<1>12. PageResult(ph, enc, key, stored) =
         IF PageEncrypted(ph.flags) /\ key = NoKey THEN "kMissingEncryptionKey"
         ELSE IF PageEncrypted(ph.flags) /\ enc = "none" THEN "kUnsupportedAlgorithm"
         ELSE IF XSTD_isError(result) THEN result
         ELSE IF XxHash(PageFrame(ph, enc, key, stored)) # ph.crc32 THEN "kChecksumMismatch"
         ELSE "kSuccess"
  <2> DEFINE c1 == PageEncrypted(ph.flags) /\ key = NoKey
             c2 == PageEncrypted(ph.flags) /\ enc = "none"
             c3 == XSTD_isError(result)
             c4 == XxHash(PageFrame(ph, enc, key, stored)) # ph.crc32
  <2>1. c1 \in BOOLEAN /\ c2 \in BOOLEAN /\ c3 \in BOOLEAN /\ c4 \in BOOLEAN
    BY DEF XSTD_isError
  <2>2. PageResult(ph, enc, key, stored) = FirstError(<<
         <<c1, "kMissingEncryptionKey">>, <<c2, "kUnsupportedAlgorithm">>,
         <<c3, result>>, <<c4, "kChecksumMismatch">> >>)
    BY <1>11
  <2> HIDE DEF c1, c2, c3, c4
  <2>3. PageResult(ph, enc, key, stored) =
         IF c1 THEN "kMissingEncryptionKey" ELSE IF c2 THEN "kUnsupportedAlgorithm"
         ELSE IF c3 THEN result ELSE IF c4 THEN "kChecksumMismatch" ELSE "kSuccess"
    BY <2>1, <2>2, FirstOfFour
  <2> QED BY <2>3 DEF c1, c2, c3, c4
<1>13. CASE enc = "gcm" /\ deleted
  BY <1>4, <1>8, <1>10, <1>12, <1>13 DEF XSTD_isError, PageReads
<1>14. CASE ~(enc = "gcm" /\ deleted)
  <2>1. PageResult(ph, enc, key, stored) = "kSuccess"
    BY <1>3, <1>4, <1>8, <1>9, <1>10, <1>12, <1>14 DEF XSTD_isError
  <2> QED BY <1>9, <1>14, <2>1 DEF frame, PageReads
<1> QED BY <1>13, <1>14

\* The reader's compressors, and the next one: always that of the codec.
Compressors == {NoCompressor} \union {CreateCompressor(codec) : codec \in 0..255}

LEMMA NextIsRight ==
    ASSUME NEW kept \in Compressors, NEW codec \in 0..255
    PROVE  NextCompressor(kept, codec) = CreateCompressor(codec)
<1>1. CASE kept.does = "none"
  BY <1>1 DEF NextCompressor
<1>2. CASE kept.does # "none" /\ kept.codec # codec
  BY <1>2 DEF NextCompressor
<1>3. CASE kept.does # "none" /\ kept.codec = codec
  <2>1. kept # NoCompressor
    BY <1>3 DEF NoCompressor
  <2>2. PICK c \in 0..255 : kept = CreateCompressor(c)
    BY <2>1 DEF Compressors
  <2>3. CASE CodecType(c) = UNCOMPRESSED
    <3>1. kept = NoopCompressor /\ kept.codec = 0
      BY <2>2, <2>3 DEF CreateCompressor, NoopCompressor, Codec, UNCOMPRESSED
    <3>2. CodecType(codec) = UNCOMPRESSED
      BY <1>3, <3>1 DEF CodecType, UNCOMPRESSED
    <3> QED BY <1>3, <3>1, <3>2 DEF NextCompressor, CreateCompressor
  <2>4. CASE CodecType(c) # UNCOMPRESSED
    <3>1. kept = ZstdCompressor(c) /\ kept.codec = c
      BY <2>2, <2>4 DEF CreateCompressor, ZstdCompressor
    <3> QED BY <1>3, <2>2, <3>1 DEF NextCompressor
  <2> QED BY <2>3, <2>4
<1> QED BY <1>1, <1>2, <1>3

-----------------------------------------------------------------------------
(* Induction, and names in order.                                           *)

\* A set with 0 in it, and with n + 1 for each n, has every natural number.
LEMMA SetInduction ==
    ASSUME NEW T, 0 \in T, \A n \in Nat : n \in T => n + 1 \in T
    PROVE  \A n \in Nat : n \in T
<1> DEFINE Out  == Nat \ T
           Less == OpToRel(<, Nat)
<1> SUFFICES ASSUME Out # {} PROVE FALSE
  OBVIOUS
<1>0. \A i, j \in Nat : i < j => <<i, j>> \in Less
  BY DEF OpToRel
<1>1. \E x \in Out : \A y \in Out : ~(<<y, x>> \in Less)
  <2>1. IsWellFoundedOn(Less, Nat)
    BY NatLessThanWellFounded
  <2>2. Out \subseteq Nat
    OBVIOUS
  <2> HIDE DEF Out, Less
  <2> QED BY <2>1, <2>2, WFMin
<1> HIDE DEF Less
<1>2. PICK x \in Out : \A y \in Out : ~(<<y, x>> \in Less)
  BY <1>1
<1>3. x # 0 /\ x \in Nat /\ x - 1 \in Nat /\ x - 1 < x
  OBVIOUS
<1>4. x - 1 \in Out
  BY <1>3
<1> QED BY <1>0, <1>2, <1>3, <1>4

\* The same up to a bound.
LEMMA BoundedInduction ==
    ASSUME NEW n \in Nat, NEW T, 0 \in T, \A i \in 1..n : i - 1 \in T => i \in T
    PROVE  0..n \subseteq T
<1> DEFINE U == {i \in Nat : i <= n => i \in T}
<1>1. 0 \in U
  OBVIOUS
<1>2. \A i \in Nat : i \in U => i + 1 \in U
  <2> SUFFICES ASSUME NEW i \in Nat, i \in U, i + 1 <= n PROVE i + 1 \in T
    OBVIOUS
  <2>1. i + 1 \in 1..n /\ i + 1 - 1 = i /\ i \in T
    OBVIOUS
  <2> QED BY <2>1
<1> HIDE DEF U
<1>3. \A i \in Nat : i \in U
  BY <1>1, <1>2, SetInduction
<1> QED BY <1>3 DEF U

\* A finite set of numbers has a largest element.
LEMMA LargestIs ==
    ASSUME NEW S, S \subseteq Nat, IsFiniteSet(S), S # {}
    PROVE  Max(S) \in S /\ \A x \in S : x <= Max(S)
<1> DEFINE T == {n \in Nat : \A R \in SUBSET S : Cardinality(R) = n /\ R # {} =>
                               \E x \in R : \A y \in R : y <= x}
<1>1. 0 \in T
  <2>1. \A R \in SUBSET S : Cardinality(R) = 0 => R = {}
    BY FS_Subset, FS_EmptySet
  <2> QED BY <2>1
<1>2. \A n \in Nat : n \in T => n + 1 \in T
  <2> SUFFICES ASSUME NEW n \in Nat, n \in T,
                      NEW R \in SUBSET S, Cardinality(R) = n + 1, R # {}
               PROVE  \E x \in R : \A y \in R : y <= x
    OBVIOUS
  <2>1. PICK z \in R : TRUE
    OBVIOUS
  <2>2. IsFiniteSet(R)
    BY FS_Subset
  <2>3. Cardinality(R \ {z}) = n /\ R \ {z} \in SUBSET S
    <3>1. Cardinality(R \ {z}) = Cardinality(R) - 1
      BY <2>2, FS_RemoveElement
    <3> QED BY <3>1
  <2>4. CASE R \ {z} = {}
    <3>1. \A y \in R : y = z /\ y \in Nat
      BY <2>4
    <3> QED BY <3>1
  <2>5. CASE R \ {z} # {}
    <3>1. PICK x \in R \ {z} : \A y \in R \ {z} : y <= x
      BY <2>3, <2>5
    <3>2. x \in Nat /\ z \in Nat /\ R \subseteq Nat
      OBVIOUS
    <3>3. CASE z <= x
      BY <3>1, <3>2, <3>3
    <3>4. CASE x < z
      <4>1. \A y \in R : y <= z
        BY <3>1, <3>2, <3>4
      <4> QED BY <4>1
    <3> QED BY <3>2, <3>3, <3>4
  <2> QED BY <2>4, <2>5
<1> HIDE DEF T
<1>3. Cardinality(S) \in T
  BY <1>1, <1>2, SetInduction, FS_CardinalityType
<1>4. \E x \in S : \A y \in S : y <= x
  BY <1>3 DEF T
<1> QED BY <1>4 DEF Max

\* Sorted lists the names of a set, each once, in their order.
LEMMA SortedIs ==
    ASSUME NEW S, S \subseteq Nat, IsFiniteSet(S)
    PROVE  /\ Cardinality(S) \in Nat /\ IsSequence(Sorted(S))
           /\ Len(Sorted(S)) = Cardinality(S) /\ DOMAIN Sorted(S) = 1..Cardinality(S)
           /\ \A i \in 1..Cardinality(S) : Sorted(S)[i] \in S
           /\ \A x \in S : \E i \in 1..Cardinality(S) : Sorted(S)[i] = x
           /\ \A i, j \in 1..Cardinality(S) : i < j <=> Sorted(S)[i] < Sorted(S)[j]
<1> DEFINE n == Cardinality(S)
           Below(x) == {m \in S : m < x}
           rank == [x \in S |-> Cardinality(Below(x)) + 1]
           s == Sorted(S)
<1>1. n \in Nat
  BY FS_CardinalityType
<1>2. \A x \in S : /\ IsFiniteSet(Below(x)) /\ Cardinality(Below(x)) \in Nat
                   /\ IsFiniteSet(Below(x) \union {x})
                   /\ Cardinality(Below(x) \union {x}) = Cardinality(Below(x)) + 1
  <2> TAKE x \in S
  <2>1. Below(x) \in SUBSET S /\ x \notin Below(x)
    OBVIOUS
  <2> HIDE DEF Below
  <2>2. IsFiniteSet(Below(x))
    BY <2>1, FS_Subset
  <2> QED BY <2>1, <2>2, FS_CardinalityType, FS_AddElement
<1>3. rank \in [S -> 1..n]
  <2> SUFFICES ASSUME NEW x \in S PROVE Cardinality(Below(x)) + 1 \in 1..n
    OBVIOUS
  <2>1. Below(x) \union {x} \in SUBSET S
    OBVIOUS
  <2> HIDE DEF Below
  <2>2. Cardinality(Below(x) \union {x}) <= n
    BY <2>1, FS_Subset
  <2> QED BY <1>1, <1>2, <2>2
<1>4. \A x, y \in S : x < y => rank[x] < rank[y]
  <2> SUFFICES ASSUME NEW x \in S, NEW y \in S, x < y PROVE rank[x] < rank[y]
    OBVIOUS
  <2>1. \A m \in S : m < x => m < y
    OBVIOUS
  <2>3. Below(x) \union {x} \in SUBSET Below(y)
    BY <2>1
  <2>4. rank[x] = Cardinality(Below(x)) + 1 /\ rank[y] = Cardinality(Below(y)) + 1
    OBVIOUS
  <2> HIDE DEF Below, rank
  <2>2. Cardinality(Below(x) \union {x}) <= Cardinality(Below(y))
    BY <1>2, <2>3, FS_Subset
  <2>5. /\ Cardinality(Below(x)) \in Nat /\ Cardinality(Below(y)) \in Nat
        /\ Cardinality(Below(x) \union {x}) = Cardinality(Below(x)) + 1
    BY <1>2
  <2> DEFINE a == Cardinality(Below(x))  b == Cardinality(Below(y))
  <2>6. a \in Nat /\ b \in Nat /\ a + 1 <= b /\ rank[x] = a + 1 /\ rank[y] = b + 1
    BY <2>2, <2>4, <2>5
  <2> HIDE DEF a, b
  <2> QED BY <2>6
<1> HIDE DEF rank
<1>5. \A x, y \in S : x < y <=> rank[x] < rank[y]
  <2> SUFFICES ASSUME NEW x \in S, NEW y \in S, rank[x] < rank[y] PROVE x < y
    BY <1>4
  <2>1. x \in Nat /\ y \in Nat /\ rank[x] \in Nat /\ rank[y] \in Nat
    BY <1>3
  <2>2. ~(y < x) /\ x # y
    BY <1>4, <2>1
  <2> QED BY <2>1, <2>2
<1>6. \A x, y \in S : rank[x] = rank[y] => x = y
  <2> TAKE x, y \in S
  <2>1. x \in Nat /\ y \in Nat /\ rank[x] \in Nat /\ rank[y] \in Nat
    BY <1>3
  <2> QED BY <1>4, <2>1
<1>7. \A i \in 1..n : \E x \in S : rank[x] = i
  <2>1. rank \in Injection(S, 1..n)
    BY <1>3, <1>6 DEF Injection, IsInjective
  <2>2. IsFiniteSet(1..n) /\ Cardinality(1..n) = n
    BY <1>1, FS_Interval
  <2>3. rank \in Surjection(S, 1..n)
    BY <2>1, <2>2, FS_Injection
  <2> QED BY <2>3 DEF Surjection
<1>8. s = [i \in 1..n |-> CHOOSE x \in S : Cardinality(Below(x)) = i - 1]
  BY DEF Sorted
<1>9. \A i \in 1..n : s[i] \in S /\ rank[s[i]] = i
  <2> TAKE i \in 1..n
  <2>1. PICK x \in S : rank[x] = i
    BY <1>7
  <2>2. \A y \in S : Cardinality(Below(y)) = i - 1 <=> rank[y] = i
    <3> TAKE y \in S
    <3>1. rank[y] = Cardinality(Below(y)) + 1 /\ Cardinality(Below(y)) \in Nat
      BY <1>2 DEF rank
    <3> QED BY <3>1
  <2>3. s[i] = CHOOSE y \in S : Cardinality(Below(y)) = i - 1
    BY <1>8
  <2> HIDE DEF Below, s
  <2>4. s[i] \in S /\ Cardinality(Below(s[i])) = i - 1
    BY <2>1, <2>2, <2>3
  <2> QED BY <2>2, <2>4
<1> HIDE DEF Below
<1>10. s = [i \in 1..n |-> s[i]]
  BY <1>8
<1>11. IsSequence(s) /\ Len(s) = n /\ DOMAIN s = 1..n
  <2> HIDE DEF s, n
  <2> QED BY <1>1, <1>10, FunctionIsSequence
<1> HIDE DEF s
<1>12. \A x \in S : \E i \in 1..n : s[i] = x
  <2> TAKE x \in S
  <2>1. rank[x] \in 1..n
    BY <1>3
  <2>2. s[rank[x]] = x
    BY <1>6, <1>9, <2>1
  <2> QED BY <2>1, <2>2
<1>13. \A i, j \in 1..n : i < j <=> s[i] < s[j]
  <2> TAKE i, j \in 1..n
  <2>1. s[i] \in S /\ s[j] \in S /\ rank[s[i]] = i /\ rank[s[j]] = j
    BY <1>9
  <2> HIDE DEF n
  <2>2. s[i] < s[j] <=> rank[s[i]] < rank[s[j]]
    BY <1>5, <2>1
  <2> QED BY <2>1, <2>2
<1> QED BY <1>1, <1>9, <1>11, <1>12, <1>13 DEF s

-----------------------------------------------------------------------------
(* Catalogs, out and in.                                                    *)

\* An entry has its five fields and pages one after another.
IsMeta(m) ==
    /\ m = [file_name |-> m.file_name, checksum |-> m.checksum,
            original_size |-> m.original_size, deleted |-> m.deleted, pages |-> m.pages]
    /\ m.deleted \in BOOLEAN /\ IsSequence(m.pages)
IsCatalog(cat) ==
    /\ cat = [f \in DOMAIN cat |-> cat[f]]
    /\ DOMAIN cat \subseteq Nat /\ IsFiniteSet(DOMAIN cat)
    /\ \A f \in DOMAIN cat : IsMeta(cat[f])

\* g is u with the entry of f behind it; g starts with u.
Behind(u, f, m, g) ==
    /\ IsSequence(g) /\ Len(u) \in Nat /\ Len(m.pages) \in Nat
    /\ Len(g) = Len(u) + 6 + Len(m.pages)
    /\ \A i \in 1..Len(u) : g[i] = u[i]
    /\ g[Len(u) + 1] = f /\ g[Len(u) + 2] = m.file_name /\ g[Len(u) + 3] = m.checksum
    /\ g[Len(u) + 4] = m.original_size /\ g[Len(u) + 5] = (IF m.deleted THEN 1 ELSE 0)
    /\ g[Len(u) + 6] = Len(m.pages)
    /\ \A k \in 1..Len(m.pages) : g[Len(u) + 6 + k] = m.pages[k]
Starts(u, g) == Len(u) <= Len(g) /\ \A p \in 1..Len(u) : g[p] = u[p]

LEMMA EntryIsBehind ==
    ASSUME NEW w, IsSequence(w), NEW f, NEW m, IsMeta(m)
    PROVE  Behind(w, f, m, w \o SerialiseKey(f) \o SerialiseValue(m))
<1> DEFINE d == IF m.deleted THEN 1 ELSE 0
           n == Len(m.pages)
           head == <<m.file_name, m.checksum, m.original_size, d, n>>
           k == SerialiseKey(f)
           v == SerialiseValue(m)
           wk == w \o k
           g == wk \o v
           l == Len(w)
<1>1. IsSequence(m.pages) /\ n \in Nat
  BY SequenceIs DEF IsMeta
<1>2. /\ IsSequence(head) /\ Len(head) = 5
      /\ head[1] = m.file_name /\ head[2] = m.checksum /\ head[3] = m.original_size
      /\ head[4] = d /\ head[5] = n
  <2>1. Len(head) = 5 /\ DOMAIN head = 1..5
    OBVIOUS
  <2>2. head = [i \in 1..5 |-> head[i]]
    OBVIOUS
  <2>3. IsSequence(head)
    <3> HIDE DEF head
    <3> QED BY <2>2, FunctionIsSequence
  <2> QED BY <2>1, <2>3
<1>3. v = head \o m.pages
  BY DEF SerialiseValue
<1>4. IsSequence(k) /\ Len(k) = 1 /\ k[1] = f
  BY OneIs DEF SerialiseKey
<1> HIDE DEF head, k, v, n, d
<1>5. Joined(head, m.pages, v) /\ Joined(w, k, wk) /\ Joined(wk, v, g)
  <2>1. Joined(head, m.pages, v)
    BY <1>1, <1>2, <1>3, ConcatIs
  <2>2. Joined(w, k, wk)
    BY <1>4, ConcatIs
  <2>3. IsSequence(wk) /\ IsSequence(v)
    BY <2>1, <2>2 DEF Joined
  <2> HIDE DEF wk
  <2>4. Joined(wk, v, g)
    BY <2>3, ConcatIs
  <2> QED BY <2>1, <2>2, <2>4 DEF wk
<1> HIDE DEF wk, g, l
<1>6. /\ Len(v) = 5 + n
      /\ \A i \in 1..5 : v[i] = head[i]
      /\ \A i \in 1..n : v[5 + i] = m.pages[i]
  BY <1>2, <1>5 DEF Joined, n
<1>7. /\ Len(wk) = l + 1 /\ l \in Nat
      /\ \A i \in 1..l : wk[i] = w[i]
      /\ wk[l + 1] = f
      /\ IsSequence(g) /\ Len(g) = Len(wk) + Len(v)
      /\ \A i \in 1..Len(wk) : g[i] = wk[i]
      /\ \A i \in 1..Len(v) : g[Len(wk) + i] = v[i]
  <2>1. /\ Len(wk) = l + Len(k) /\ l \in Nat
        /\ \A i \in 1..l : wk[i] = w[i]
        /\ \A i \in 1..Len(k) : wk[l + i] = k[i]
    BY <1>5 DEF Joined, l
  <2>2. wk[l + 1] = f
    BY <1>4, <2>1
  <2> QED BY <1>4, <1>5, <2>1, <2>2 DEF Joined
<1>8. \A i \in 1..5 + n : g[l + 1 + i] = v[i]
  BY <1>6, <1>7
<1>9. Len(g) = l + 6 + n /\ \A i \in 1..l : g[i] = w[i]
  <2>1. \A i \in 1..l : i \in 1..Len(wk)
    BY <1>7
  <2> QED BY <1>1, <1>6, <1>7, <2>1
<1>10. g[l + 1] = f
  <2>1. l + 1 \in 1..Len(wk)
    BY <1>7
  <2> QED BY <1>6, <1>7, <2>1
<1>11. \A i \in 1..5 : g[l + 1 + i] = head[i]
  <2>1. \A i \in 1..5 : i \in 1..5 + n
    BY <1>1
  <2> QED BY <1>6, <1>8, <2>1
<1>12. /\ g[l + 2] = m.file_name /\ g[l + 3] = m.checksum /\ g[l + 4] = m.original_size
       /\ g[l + 5] = d /\ g[l + 6] = n
  <2>1. /\ l + 1 + 1 = l + 2 /\ l + 1 + 2 = l + 3 /\ l + 1 + 3 = l + 4
        /\ l + 1 + 4 = l + 5 /\ l + 1 + 5 = l + 6
    BY <1>7
  <2>2. /\ g[l + 1 + 1] = head[1] /\ g[l + 1 + 2] = head[2] /\ g[l + 1 + 3] = head[3]
        /\ g[l + 1 + 4] = head[4] /\ g[l + 1 + 5] = head[5]
    BY <1>11
  <2> QED BY <1>2, <2>1, <2>2
<1>13. \A j \in 1..n : g[l + 6 + j] = m.pages[j]
  <2> TAKE j \in 1..n
  <2>1. 5 + j \in 1..5 + n /\ l + 1 + (5 + j) = l + 6 + j
    BY <1>1, <1>7
  <2>2. g[l + 1 + (5 + j)] = v[5 + j] /\ v[5 + j] = m.pages[j]
    BY <1>6, <1>8, <2>1
  <2> QED BY <2>1, <2>2
<1>14. Behind(w, f, m, g)
  BY <1>1, <1>7, <1>9, <1>10, <1>12, <1>13 DEF Behind, l, n, d
<1> QED BY <1>14 DEF g, wk, k, v

\* Entry after entry is written, and their places are found one after another.
WrittenUpTo(g, n, keys, cat) ==
    g = [i \in 0..n |->
           IF i = 0 THEN <<Len(keys)>>
           ELSE g[i - 1] \o SerialiseKey(keys[i]) \o SerialiseValue(cat[keys[i]])]
FoundUpTo(g, n, buf) == g = [i \in 1..n |-> IF i = 1 THEN 2 ELSE After(buf, g[i - 1])]

LEMMA WrittenExists ==
    ASSUME NEW keys, NEW cat, NEW n \in Nat
    PROVE  \E g : WrittenUpTo(g, n, keys, cat)
<1> DEFINE Step(g, i) == IF i = 0 THEN <<Len(keys)>>
                         ELSE g[i - 1] \o SerialiseKey(keys[i]) \o SerialiseValue(cat[keys[i]])
           T == {m \in Nat : \E g : g = [i \in 0..m |-> Step(g, i)]}
<1>1. 0 \in T
  <2> DEFINE g == [i \in 0..0 |-> <<Len(keys)>>]
  <2>1. g = [i \in 0..0 |-> Step(g, i)]
    OBVIOUS
  <2> QED BY <2>1
<1>2. \A m \in Nat : m \in T => m + 1 \in T
  <2> SUFFICES ASSUME NEW m \in Nat, m \in T PROVE m + 1 \in T
    OBVIOUS
  <2>1. PICK g : g = [i \in 0..m |-> Step(g, i)]
    OBVIOUS
  <2> DEFINE h == [i \in 0..m + 1 |-> Step(g, i)]
  <2>2. \A i \in 0..m : h[i] = g[i]
    <3> HIDE DEF Step
    <3> QED BY <2>1
  <2>3. \A i \in 0..m + 1 : Step(h, i) = Step(g, i)
    <3> TAKE i \in 0..m + 1
    <3>1. i # 0 => i - 1 \in 0..m
      OBVIOUS
    <3> HIDE DEF h
    <3> QED BY <2>2, <3>1
  <2> HIDE DEF Step
  <2>4. h = [i \in 0..m + 1 |-> Step(h, i)]
    BY <2>3
  <2>5. \E k : k = [i \in 0..m + 1 |-> Step(k, i)]
    <3> HIDE DEF h
    <3> QED BY <2>4
  <2> QED BY <2>5
<1> HIDE DEF T
<1>3. n \in T
  BY <1>1, <1>2, SetInduction
<1> QED BY <1>3 DEF T, WrittenUpTo

LEMMA FoundExists ==
    ASSUME NEW buf, NEW n \in Nat
    PROVE  \E g : FoundUpTo(g, n, buf)
<1> DEFINE Step(g, i) == IF i = 1 THEN 2 ELSE After(buf, g[i - 1])
           T == {m \in Nat : \E g : g = [i \in 1..m |-> Step(g, i)]}
<1>1. 0 \in T
  <2> DEFINE g == [i \in {} |-> 2]
  <2>1. g = [i \in 1..0 |-> Step(g, i)]
    OBVIOUS
  <2> QED BY <2>1
<1>2. \A m \in Nat : m \in T => m + 1 \in T
  <2> SUFFICES ASSUME NEW m \in Nat, m \in T PROVE m + 1 \in T
    OBVIOUS
  <2>1. PICK g : g = [i \in 1..m |-> Step(g, i)]
    OBVIOUS
  <2> DEFINE h == [i \in 1..m + 1 |-> Step(g, i)]
  <2>2. \A i \in 1..m : h[i] = g[i]
    <3> HIDE DEF Step
    <3> QED BY <2>1
  <2>3. \A i \in 1..m + 1 : Step(h, i) = Step(g, i)
    <3> TAKE i \in 1..m + 1
    <3>1. i # 1 => i - 1 \in 1..m
      OBVIOUS
    <3> HIDE DEF h
    <3> QED BY <2>2, <3>1
  <2> HIDE DEF Step
  <2>4. h = [i \in 1..m + 1 |-> Step(h, i)]
    BY <2>3
  <2>5. \E k : k = [i \in 1..m + 1 |-> Step(k, i)]
    <3> HIDE DEF h
    <3> QED BY <2>4
  <2> QED BY <2>5
<1> HIDE DEF T
<1>3. n \in T
  BY <1>1, <1>2, SetInduction
<1> QED BY <1>3 DEF T, FoundUpTo

\* The n elements of s from the a-th on.
Slice(s, a, n, c) ==
    /\ IsSequence(c) /\ Len(c) = n /\ DOMAIN c = 1..n
    /\ \A i \in 1..n : c[i] = s[a + i - 1]

LEMMA SliceIs ==
    ASSUME NEW s, IsSequence(s), NEW a \in Nat \ {0}, NEW n \in Nat, a + n - 1 <= Len(s)
    PROVE  Slice(s, a, n, SubSeq(s, a, a + n - 1))
<1> DEFINE b == a + n - 1
           c == SubSeq(s, a, b)
<1>1. PICK S : s \in Seq(S)
  BY DEF IsSequence
<1>2. a \in Int /\ b \in Int /\ b - a + 1 = n /\ (a <= b <=> n # 0)
  OBVIOUS
<1>3. \A i \in a..b : s[i] \in S
  <2>1. \A i \in a..b : i \in 1..Len(s)
    BY <1>1
  <2> QED BY <1>1, <2>1, ElementOfSeq
<1> HIDE DEF b
<1>4. /\ c \in Seq(S)
      /\ Len(c) = IF a <= b THEN b - a + 1 ELSE 0
      /\ \A i \in 1..(b - a + 1) : c[i] = s[a + i - 1]
  BY <1>1, <1>2, <1>3, SubSeqProperties
<1> HIDE DEF c
<1>5. Len(c) = n /\ \A i \in 1..n : c[i] = s[a + i - 1]
  BY <1>2, <1>4
<1>6. DOMAIN c = 1..n
  BY <1>4, <1>5
<1>7. IsSequence(c)
  BY <1>4 DEF IsSequence
<1>8. Slice(s, a, n, c)
  BY <1>5, <1>6, <1>7 DEF Slice
<1> QED BY <1>8 DEF b, c

LEMMA SerialiseIs ==
    ASSUME NEW cat, Len(Sorted(DOMAIN cat)) \in Nat
    PROVE  LET keys == Sorted(DOMAIN cat) IN
           \E g : WrittenUpTo(g, Len(keys), keys, cat) /\ Serialise(cat) = g[Len(keys)]
<1> DEFINE keys == Sorted(DOMAIN cat)
           n == Len(keys)
           h == CHOOSE g : WrittenUpTo(g, n, keys, cat)
<1>1. Serialise(cat) = h[n]
  BY DEF Serialise, WrittenUpTo
<1> HIDE DEF keys
<1>2. n \in Nat
  BY DEF keys
<1>3. \E g : WrittenUpTo(g, n, keys, cat)
  <2> HIDE DEF n
  <2> QED BY <1>2, WrittenExists
<1>4. WrittenUpTo(h, n, keys, cat)
  <2> HIDE DEF n
  <2> QED BY <1>3
<1> HIDE DEF h
<1> QED BY <1>1, <1>4 DEF keys

\* The catalog in buf when its n entries are at the places g.
LoadedFrom(g, n, buf) ==
    [f \in {DeserialiseKey(buf, g[i]) : i \in 1..n} |->
       DeserialiseValue(buf, g[CHOOSE j \in 1..n : DeserialiseKey(buf, g[j]) = f])]

LEMMA DeserialiseIs ==
    ASSUME NEW buf, NEW n \in Nat, buf[1] = n
    PROVE  \E g : FoundUpTo(g, n, buf) /\ Deserialise(buf) = LoadedFrom(g, n, buf)
<1> DEFINE h == CHOOSE g : FoundUpTo(g, n, buf)
<1>1. Deserialise(buf) = LoadedFrom(h, n, buf)
  BY DEF Deserialise, FoundUpTo, LoadedFrom
<1>2. \E g : FoundUpTo(g, n, buf)
  BY FoundExists
<1>3. FoundUpTo(h, n, buf)
  BY <1>2
<1> HIDE DEF h
<1> QED BY <1>1, <1>3

\* What is loaded is the catalog that was stored.
THEOREM CatalogRoundTrip ==
    ASSUME NEW cat, IsCatalog(cat)
    PROVE  Deserialise(Serialise(cat)) = cat
<1> DEFINE keys == Sorted(DOMAIN cat)
           n == Len(keys)
           buf == Serialise(cat)
<1>1. /\ n \in Nat /\ \A i \in 1..n : keys[i] \in DOMAIN cat
      /\ \A f \in DOMAIN cat : \E i \in 1..n : keys[i] = f
  BY SortedIs DEF IsCatalog
<1>2. PICK w : WrittenUpTo(w, n, keys, cat) /\ buf = w[n]
  BY <1>1, SerialiseIs
<1> HIDE DEF keys, n, buf
<1>3. /\ w[0] = <<Len(keys)>>
      /\ \A i \in 1..n : w[i] = w[i - 1] \o SerialiseKey(keys[i]) \o SerialiseValue(cat[keys[i]])
  BY <1>1, <1>2 DEF WrittenUpTo
<1>4. \A i \in 1..n : IsMeta(cat[keys[i]])
  BY <1>1 DEF IsCatalog
\* Every buffer starts with those written before.
<1>5. \A i \in 1..n : IsSequence(w[i - 1]) => Behind(w[i - 1], keys[i], cat[keys[i]], w[i])
  <2> SUFFICES ASSUME NEW i \in 1..n, IsSequence(w[i - 1])
               PROVE  Behind(w[i - 1], keys[i], cat[keys[i]], w[i])
    OBVIOUS
  <2> DEFINE u == w[i - 1]  f == keys[i]  m == cat[f]
  <2>1. w[i] = u \o SerialiseKey(f) \o SerialiseValue(m) /\ IsMeta(m) /\ IsSequence(u)
    BY <1>3, <1>4
  <2> HIDE DEF u, f, m
  <2>2. Behind(u, f, m, u \o SerialiseKey(f) \o SerialiseValue(m))
    BY <2>1, EntryIsBehind
  <2> QED BY <2>1, <2>2 DEF u, f, m
<1>6. 0..n \subseteq {i \in 0..n : IsSequence(w[i])}
  <2> DEFINE T == {i \in 0..n : IsSequence(w[i])}
  <2>1. 0 \in T
    <3>1. IsSequence(w[0])
      BY <1>3, OneIs
    <3> QED BY <1>1, <3>1
  <2>2. \A i \in 1..n : i - 1 \in T => i \in T
    <3>1. \A i \in 1..n : IsSequence(w[i - 1]) => IsSequence(w[i])
      BY <1>5 DEF Behind
    <3>2. \A i \in 1..n : i \in 0..n
      BY <1>1
    <3> QED BY <3>1, <3>2
  <2> HIDE DEF T
  <2>3. 0..n \subseteq T
    BY <1>1, <2>1, <2>2, BoundedInduction
  <2> QED BY <2>3 DEF T
<1>7. \A i \in 0..n : IsSequence(w[i]) /\ Len(w[i]) \in Nat
  BY <1>6, SequenceIs
<1>8. \A i \in 1..n : Behind(w[i - 1], keys[i], cat[keys[i]], w[i])
  <2>1. \A i \in 1..n : i - 1 \in 0..n
    BY <1>1
  <2> QED BY <1>5, <1>7, <2>1
<1>9. 0..n \subseteq {i \in 0..n : \A j \in 0..i : Starts(w[j], w[i])}
  <2> DEFINE T == {i \in 0..n : \A j \in 0..i : Starts(w[j], w[i])}
  <2>1. 0 \in T
    BY <1>1, <1>7 DEF Starts
  <2>2. \A i \in 1..n : i - 1 \in T => i \in T
    <3> SUFFICES ASSUME NEW i \in 1..n, i - 1 \in T, NEW j \in 0..i
                 PROVE  Starts(w[j], w[i])
      OBVIOUS
    <3>1. i \in 0..n /\ i - 1 \in 0..n /\ j \in 0..n
      BY <1>1
    <3>2. CASE j = i
      BY <1>7, <3>1, <3>2 DEF Starts
    <3>3. CASE j \in 0..i - 1
      <4>1. Starts(w[j], w[i - 1])
        BY <3>3
      <4>2. Starts(w[i - 1], w[i])
        <5>1. Behind(w[i - 1], keys[i], cat[keys[i]], w[i])
          BY <1>8
        <5>2. /\ Len(w[i - 1]) \in Nat /\ Len(cat[keys[i]].pages) \in Nat
              /\ Len(w[i]) = Len(w[i - 1]) + 6 + Len(cat[keys[i]].pages)
              /\ \A p \in 1..Len(w[i - 1]) : w[i][p] = w[i - 1][p]
          BY <5>1 DEF Behind
        <5> DEFINE a == Len(w[i - 1])  c == Len(cat[keys[i]].pages)  e == Len(w[i])
        <5>3. a \in Nat /\ c \in Nat /\ e = a + 6 + c
          BY <5>2
        <5> HIDE DEF a, c, e
        <5>4. a <= e
          BY <5>3
        <5> QED BY <5>2, <5>4 DEF Starts, a, e
      <4>3. Len(w[j]) \in Nat /\ Len(w[i - 1]) \in Nat /\ Len(w[i]) \in Nat
        BY <1>7, <3>1
      <4> QED BY <4>1, <4>2, <4>3 DEF Starts
    <3> QED BY <3>2, <3>3
  <2> HIDE DEF T
  <2>3. 0..n \subseteq T
    BY <1>1, <2>1, <2>2, BoundedInduction
  <2> QED BY <2>3 DEF T
<1>10. \A j \in 0..n : Starts(w[j], buf)
  <2>1. n \in 0..n /\ \A j \in 0..n : j \in 0..n
    BY <1>1
  <2> QED BY <1>2, <1>9, <2>1
\* So buf has every entry where it was written.
<1>11. \A i \in 1..n : LET l == Len(w[i - 1])  m == cat[keys[i]] IN
         /\ l \in Nat /\ Len(m.pages) \in Nat /\ Len(w[i]) = l + 6 + Len(m.pages)
         /\ l + 6 + Len(m.pages) <= Len(buf)
         /\ buf[l + 1] = keys[i] /\ buf[l + 2] = m.file_name /\ buf[l + 3] = m.checksum
         /\ buf[l + 4] = m.original_size /\ buf[l + 5] = (IF m.deleted THEN 1 ELSE 0)
         /\ buf[l + 6] = Len(m.pages)
         /\ \A k \in 1..Len(m.pages) : buf[l + 6 + k] = m.pages[k]
  <2> TAKE i \in 1..n
  <2> DEFINE u == w[i - 1]  g == w[i]  m == cat[keys[i]]  l == Len(u)  q == Len(m.pages)
  <2>1. Behind(u, keys[i], m, g) /\ Starts(g, buf)
    <3> QED BY <1>8, <1>10
  <2> HIDE DEF u, g, m
  <2>2. /\ l \in Nat /\ q \in Nat /\ Len(g) = l + 6 + q /\ Len(g) <= Len(buf)
        /\ \A p \in 1..Len(g) : buf[p] = g[p]
    BY <2>1 DEF Behind, Starts
  <2>3. \A p \in 1..6 + q : buf[l + p] = g[l + p]
    <3> HIDE DEF l, q
    <3> TAKE p \in 1..6 + q
    <3>1. l + p \in 1..Len(g)
      BY <2>2
    <3> QED BY <2>2, <3>1
  <2>4. /\ buf[l + 1] = keys[i] /\ buf[l + 2] = m.file_name /\ buf[l + 3] = m.checksum
        /\ buf[l + 4] = m.original_size /\ buf[l + 5] = (IF m.deleted THEN 1 ELSE 0)
        /\ buf[l + 6] = Len(m.pages)
    <3>1. \A p \in 1..6 : p \in 1..6 + q
      BY <2>2
    <3>2. /\ buf[l + 1] = g[l + 1] /\ buf[l + 2] = g[l + 2] /\ buf[l + 3] = g[l + 3]
          /\ buf[l + 4] = g[l + 4] /\ buf[l + 5] = g[l + 5] /\ buf[l + 6] = g[l + 6]
      BY <2>3, <3>1
    <3> QED BY <2>1, <3>2 DEF Behind
  <2>5. \A k \in 1..q : buf[l + 6 + k] = m.pages[k]
    <3> TAKE k \in 1..q
    <3>1. 6 + k \in 1..6 + q /\ l + (6 + k) = l + 6 + k
      BY <2>2
    <3>2. buf[l + 6 + k] = g[l + 6 + k]
      BY <2>3, <3>1
    <3>3. g[l + 6 + k] = m.pages[k]
      BY <2>1 DEF Behind
    <3> QED BY <3>2, <3>3
  <2> QED BY <2>2, <2>4, <2>5 DEF u, g, m
<1>12. buf[1] = n
  <2>1. Len(w[0]) = 1 /\ w[0][1] = n
    BY <1>3, OneIs DEF n
  <2>2. Starts(w[0], buf)
    BY <1>1, <1>10
  <2> QED BY <2>1, <2>2 DEF Starts
<1>13. PICK st : FoundUpTo(st, n, buf) /\ Deserialise(buf) = LoadedFrom(st, n, buf)
  BY <1>1, <1>12, DeserialiseIs
<1>14. \A i \in 1..n : st[i] = IF i = 1 THEN 2 ELSE After(buf, st[i - 1])
  BY <1>13 DEF FoundUpTo
<1>15. 0..n \subseteq {i \in 0..n : i # 0 => st[i] = Len(w[i - 1]) + 1}
  <2> DEFINE T == {i \in 0..n : i # 0 => st[i] = Len(w[i - 1]) + 1}
  <2>1. 0 \in T
    BY <1>1
  <2>2. \A i \in 1..n : i - 1 \in T => i \in T
    <3> SUFFICES ASSUME NEW i \in 1..n, i - 1 \in T PROVE st[i] = Len(w[i - 1]) + 1
      BY <1>1
    <3>1. CASE i = 1
      <4>1. Len(w[0]) = 1
        BY <1>3, OneIs
      <4>2. i - 1 = 0
        BY <3>1
      <4>3. st[i] = 2
        BY <1>14, <3>1
      <4>4. w[i - 1] = w[0]
        BY <4>2
      <4>5. Len(w[i - 1]) = 1
        <5> HIDE DEF T
        <5> QED BY <4>1, <4>4
      <4> HIDE DEF T
      <4> QED BY <4>3, <4>5
    <3>2. CASE i # 1
      <4> DEFINE j == i - 1  l == Len(w[j - 1])  m == cat[keys[j]]
      <4>1. j \in 1..n /\ st[j] = l + 1
        BY <1>1, <3>2
      <4>2. st[i] = st[j] + 6 + buf[st[j] + 5]
        BY <1>14, <3>2 DEF After
      <4>3. l \in Nat /\ Len(m.pages) \in Nat /\ Len(w[j]) = l + 6 + Len(m.pages)
            /\ buf[l + 6] = Len(m.pages)
        <5> HIDE DEF j
        <5> QED BY <1>11, <4>1
      <4> HIDE DEF j, l, m
      <4>4. l + 1 + 5 = l + 6
        BY <4>3
      <4>6. buf[st[j] + 5] = Len(m.pages)
        BY <4>1, <4>3, <4>4
      <4>5. st[i] = Len(w[j]) + 1
        <5> HIDE DEF T
        <5>1. st[i] = l + 1 + 6 + Len(m.pages)
          BY <4>1, <4>2, <4>6
        <5> DEFINE q == Len(m.pages)
        <5>2. q \in Nat /\ l \in Nat /\ Len(w[j]) = l + 6 + q /\ st[i] = l + 1 + 6 + q
          BY <4>3, <5>1
        <5> HIDE DEF q
        <5> QED BY <5>2
      <4> QED BY <4>5 DEF j
    <3> QED BY <3>1, <3>2
  <2> HIDE DEF T
  <2>3. 0..n \subseteq T
    BY <1>1, <2>1, <2>2, BoundedInduction
  <2> QED BY <2>3 DEF T
<1>16. \A i \in 1..n : st[i] = Len(w[i - 1]) + 1
  <2>1. \A i \in 1..n : i \in 0..n /\ i # 0
    BY <1>1
  <2> QED BY <1>15, <2>1
<1>17. \A i \in 1..n : /\ DeserialiseKey(buf, st[i]) = keys[i]
                       /\ DeserialiseValue(buf, st[i]) = cat[keys[i]]
  <2> TAKE i \in 1..n
  <2> DEFINE l == Len(w[i - 1])  m == cat[keys[i]]  q == Len(m.pages)
             pages == SubSeq(buf, l + 7, l + 6 + q)
  <2>1. /\ l \in Nat /\ q \in Nat /\ l + 6 + q <= Len(buf)
        /\ buf[l + 1] = keys[i] /\ buf[l + 2] = m.file_name /\ buf[l + 3] = m.checksum
        /\ buf[l + 4] = m.original_size /\ buf[l + 5] = (IF m.deleted THEN 1 ELSE 0)
        /\ buf[l + 6] = q
        /\ \A k \in 1..q : buf[l + 6 + k] = m.pages[k]
    BY <1>11
  <2>2. st[i] = l + 1 /\ IsMeta(m)
    BY <1>4, <1>16
  <2>3. IsSequence(buf)
    BY <1>1, <1>2, <1>7
  <2> HIDE DEF l, m, q, pages
  <2>4. pages = m.pages
    <3> DEFINE a == l + 7
    <3>1. a \in Nat \ {0} /\ a + q - 1 = l + 6 + q
      BY <2>1
    <3>2. Slice(buf, a, q, SubSeq(buf, a, a + q - 1))
      <4> HIDE DEF a
      <4>1. IsSequence(buf) /\ a \in Nat \ {0} /\ q \in Nat /\ a + q - 1 <= Len(buf)
        BY <2>1, <2>3, <3>1
      <4> QED BY <4>1, SliceIs
    <3>3. pages = SubSeq(buf, a, a + q - 1)
      BY <3>1 DEF pages
    <3>4. \A k \in 1..q : a + k - 1 = l + 6 + k
      BY <2>1
    <3>5. \A k \in 1..q : pages[k] = m.pages[k]
      BY <2>1, <3>2, <3>3, <3>4 DEF Slice
    <3>6. IsSequence(pages) /\ Len(pages) = q /\ IsSequence(m.pages) /\ Len(m.pages) = q
      BY <2>2, <3>2, <3>3 DEF IsMeta, Slice, q
    <3> QED BY <3>5, <3>6, SequencesEqual
  <2>5. /\ st[i] + 1 = l + 2 /\ st[i] + 2 = l + 3 /\ st[i] + 3 = l + 4
        /\ st[i] + 4 = l + 5 /\ st[i] + 5 = l + 6 /\ st[i] + 6 = l + 7
        /\ st[i] + 5 + q = l + 6 + q
    <3> DEFINE s == st[i]
    <3>1. l \in Nat /\ q \in Nat /\ s = l + 1
      BY <2>1, <2>2
    <3> HIDE DEF s
    <3>2. /\ s + 1 = l + 2 /\ s + 2 = l + 3 /\ s + 3 = l + 4
          /\ s + 4 = l + 5 /\ s + 5 = l + 6 /\ s + 6 = l + 7
      BY <3>1
    <3>3. s + 5 + q = l + 6 + q
      BY <3>1
    <3> QED BY <3>2, <3>3 DEF s
  <2>6. DeserialiseValue(buf, st[i]) =
          [file_name |-> m.file_name, checksum |-> m.checksum,
           original_size |-> m.original_size, deleted |-> buf[l + 5] # 0, pages |-> m.pages]
    BY <2>1, <2>4, <2>5 DEF DeserialiseValue, pages
  <2>7. (buf[l + 5] # 0) = m.deleted
    BY <2>1, <2>2 DEF IsMeta
  <2>8. DeserialiseValue(buf, st[i]) = m
    BY <2>2, <2>6, <2>7 DEF IsMeta
  <2> QED BY <2>1, <2>2, <2>8 DEF DeserialiseKey, m
<1>18. {DeserialiseKey(buf, st[i]) : i \in 1..n} = DOMAIN cat
  BY <1>1, <1>17
<1>19. \A f \in DOMAIN cat :
         DeserialiseValue(buf, st[CHOOSE j \in 1..n : DeserialiseKey(buf, st[j]) = f]) = cat[f]
  <2> TAKE f \in DOMAIN cat
  <2> DEFINE j == CHOOSE i \in 1..n : DeserialiseKey(buf, st[i]) = f
  <2>1. \E i \in 1..n : DeserialiseKey(buf, st[i]) = f
    BY <1>1, <1>17
  <2>2. j \in 1..n /\ DeserialiseKey(buf, st[j]) = f
    BY <2>1
  <2> HIDE DEF j
  <2>3. DeserialiseValue(buf, st[j]) = cat[f]
    BY <1>17, <2>2
  <2> QED BY <2>3 DEF j
<1>20. Deserialise(buf) = [f \in DOMAIN cat |-> cat[f]]
  <2> DEFINE V(f) == DeserialiseValue(buf, st[CHOOSE j \in 1..n : DeserialiseKey(buf, st[j]) = f])
  <2>1. Deserialise(buf) = [f \in DOMAIN cat |-> V(f)]
    BY <1>13, <1>18 DEF LoadedFrom
  <2>2. \A f \in DOMAIN cat : V(f) = cat[f]
    BY <1>19
  <2> HIDE DEF V
  <2> QED BY <2>1, <2>2
<1> QED BY <1>20 DEF IsCatalog, buf

-----------------------------------------------------------------------------
(* A content, its pieces, and the pieces put together.                      *)

LEMMA PrefixGrows ==
    ASSUME NEW s, IsSequence(s), NEW a \in Nat, NEW b \in Nat, a <= b, b <= Len(s)
    PROVE  /\ IsSequence(SubSeq(s, a + 1, b))
           /\ SubSeq(s, 1, a) \o SubSeq(s, a + 1, b) = SubSeq(s, 1, b)
<1> DEFINE u == SubSeq(s, 1, a)
           v == SubSeq(s, a + 1, b)
           w == SubSeq(s, 1, b)
           c == u \o v
           n == b - a
<1>1. n \in Nat /\ a + 1 \in Nat \ {0} /\ a + 1 + n - 1 = b /\ Len(s) \in Nat
  BY SequenceIs
<1>2. Slice(s, a + 1, n, v)
  <2>1. Slice(s, a + 1, n, SubSeq(s, a + 1, a + 1 + n - 1))
    <3> DEFINE d == a + 1
    <3>1. d \in Nat \ {0} /\ n \in Nat /\ d + n - 1 <= Len(s)
      BY <1>1
    <3> HIDE DEF d, n
    <3>2. Slice(s, d, n, SubSeq(s, d, d + n - 1))
      BY <3>1, SliceIs
    <3> QED BY <3>2 DEF d
  <2> QED BY <1>1, <2>1
<1>3. /\ IsSequence(u) /\ Len(u) = a /\ \A i \in 1..a : u[i] = s[i]
      /\ IsSequence(w) /\ Len(w) = b /\ \A i \in 1..b : w[i] = s[i]
  <2>1. a \in 0..Len(s) /\ b \in 0..Len(s)
    BY <1>1
  <2> QED BY <2>1, PrefixIs
<1> HIDE DEF u, v, w
<1>4. Joined(u, v, c)
  BY <1>2, <1>3, ConcatIs DEF Slice
<1> HIDE DEF c
<1>5. Len(v) = n /\ \A i \in 1..n : v[i] = s[a + 1 + i - 1]
  BY <1>2 DEF Slice
<1>6. /\ IsSequence(c) /\ Len(c) = a + n /\ \A i \in 1..a : c[i] = u[i]
      /\ \A i \in 1..n : c[a + i] = v[i]
  BY <1>3, <1>4, <1>5 DEF Joined
<1>7. \A i \in 1..b : c[i] = w[i]
  <2> TAKE i \in 1..b
  <2>1. w[i] = s[i]
    BY <1>3
  <2>2. CASE i <= a
    <3>1. i \in 1..a
      BY <2>2
    <3> QED BY <1>3, <1>6, <2>1, <3>1
  <2>3. CASE ~(i <= a)
    <3>1. i - a \in 1..n /\ a + (i - a) = i /\ a + 1 + (i - a) - 1 = i
      BY <2>3
    <3>2. c[i] = v[i - a]
      <4>1. c[a + (i - a)] = v[i - a]
        BY <1>6, <3>1
      <4> QED BY <3>1, <4>1
    <3>3. v[i - a] = s[i]
      <4>1. v[i - a] = s[a + 1 + (i - a) - 1]
        BY <1>5, <3>1
      <4> QED BY <3>1, <4>1
    <3> QED BY <2>1, <3>2, <3>3
  <2> QED BY <2>2, <2>3
<1>8. Len(c) = b
  BY <1>6
<1>9. c = w
  BY <1>3, <1>6, <1>7, <1>8, SequencesEqual
<1>10. IsSequence(v)
  BY <1>2 DEF Slice
<1> QED BY <1>9, <1>10 DEF c, u, v, w

\* parts[i] is what the first i pieces are together.
Together(parts, chunks, data) ==
    /\ parts[0] = <<>>
    /\ \A i \in 1..Len(chunks) : parts[i] = parts[i - 1] \o chunks[i]
    /\ parts[Len(chunks)] = data

LEMMA FullPages ==
    ASSUME NEW l \in Nat \ {0}, NEW b \in Nat \ {0}
    PROVE  LET n == (l + b - 1) \div b IN
           n \in Nat \ {0} /\ l <= n * b /\ (n - 1) * b < l
<1> DEFINE n == (l + b - 1) \div b
<1>1. n \in Int /\ n * b <= l + b - 1 /\ l + b - 1 < n * b + b
  <2> DEFINE x == l + b - 1
  <2>1. x \in Nat
    OBVIOUS
  <2> HIDE DEF x
  <2>2. x \div b \in Int /\ b * (x \div b) <= x /\ x < b * (x \div b) + b
    BY <2>1
  <2> QED BY <2>2 DEF x
<1> HIDE DEF n
<1>2. n > 0
  <2> SUFFICES ASSUME n <= 0 PROVE FALSE
    BY <1>1
  <2>1. n * b <= 0
    BY <1>1
  <2> QED BY <1>1, <2>1
<1>3. (n - 1) * b = n * b - b
  BY <1>1
<1> QED BY <1>1, <1>2, <1>3 DEF n

LEMMA ChunksAre ==
    ASSUME NEW data, IsSequence(data)
    PROVE  LET chunks == Chunks(data, PageBytes) IN
           /\ IsSequence(chunks) /\ Len(chunks) \in Nat \ {0} /\ DOMAIN chunks = 1..Len(chunks)
           /\ \A i \in 1..Len(chunks) : IsSequence(chunks[i])
           /\ \E parts : Together(parts, chunks, data)
<1> DEFINE chunks == Chunks(data, PageBytes)
           l == Len(data)
           b == PageBytes
           n == (l + b - 1) \div b
<1>1. CASE data = <<>>
  <2>1. chunks = <<data>>
    BY <1>1 DEF Chunks
  <2>2. IsSequence(chunks) /\ Len(chunks) = 1 /\ DOMAIN chunks = 1..1 /\ chunks[1] = data
    BY <2>1, OneIs
  <2> DEFINE parts == [i \in 0..1 |-> <<>>]
  <2>3. <<>> \o <<>> = <<>>
    OBVIOUS
  <2>4. parts[0] = <<>> /\ parts[1] = <<>>
    OBVIOUS
  <2> HIDE DEF chunks, parts
  <2>5. \A i \in 1..1 : i = 1 /\ i - 1 = 0
    OBVIOUS
  <2>6. Together(parts, chunks, data)
    <3>1. parts[1] = parts[0] \o chunks[1]
      BY <1>1, <2>2, <2>3, <2>4
    <3>2. \A i \in 1..1 : parts[i] = parts[i - 1] \o chunks[i]
      BY <2>5, <3>1
    <3> QED BY <1>1, <2>2, <2>4, <3>2 DEF Together
  <2>7. \A i \in 1..1 : IsSequence(chunks[i])
    BY <2>2, <2>5
  <2> QED BY <2>2, <2>6, <2>7 DEF chunks
<1>2. CASE data # <<>>
  <2> DEFINE end(i) == IF i * b < l THEN i * b ELSE l
  <2>1. l \in Nat \ {0} /\ b \in Nat \ {0}
    <3>1. PICK S : data \in Seq(S)
      BY DEF IsSequence
    <3> QED BY <1>2, <3>1, SessionAssumption
  <2> HIDE DEF b, l
  <2>2. n \in Nat \ {0} /\ l <= n * b /\ (n - 1) * b < l
    BY <2>1, FullPages
  <2>3. chunks = [i \in 1..n |-> SubSeq(data, (i - 1) * b + 1, end(i))]
    BY <1>2 DEF Chunks, b, l
  <2> HIDE DEF n
  <2>4. \A i \in 1..n : (i - 1) * b < l /\ i * b = (i - 1) * b + b /\ (i - 1) * b \in Nat
    <3> TAKE i \in 1..n
    <3> DEFINE j == i - 1  m == n - 1
    <3>1. j \in Nat /\ m \in Nat /\ j <= m
      BY <2>2
    <3>2. j * b <= m * b /\ j * b \in Nat /\ m * b \in Nat
      <4> HIDE DEF j, m
      <4> QED BY <2>1, <3>1
    <3>3. i * b = (i - 1) * b + b
      BY <2>1
    <3>4. j * b < l
      <4>1. m * b < l
        BY <2>2
      <4> HIDE DEF j, m
      <4> QED BY <2>1, <3>2, <4>1
    <3> QED BY <3>2, <3>3, <3>4
  <2>5. \A i \in 1..n : /\ end(i - 1) = (i - 1) * b /\ end(i - 1) \in Nat /\ end(i) \in Nat
                        /\ end(i - 1) <= end(i) /\ end(i) <= l
    <3> TAKE i \in 1..n
    <3> DEFINE x == (i - 1) * b  y == i * b
    <3>1. x \in Nat /\ x < l /\ y = x + b
      BY <2>4
    <3> HIDE DEF x, y
    <3>2. /\ (IF x < l THEN x ELSE l) = x
          /\ (IF y < l THEN y ELSE l) \in Nat
          /\ x <= (IF y < l THEN y ELSE l) /\ (IF y < l THEN y ELSE l) <= l
      BY <2>1, <3>1
    <3> QED BY <3>1, <3>2 DEF x, y
  <2>6. end(0) = 0 /\ end(n) = l
    <3>1. 0 * b = 0
      BY <2>1
    <3> DEFINE y == n * b
    <3>2. l <= y /\ y \in Nat
      BY <2>1, <2>2
    <3> HIDE DEF y
    <3>3. (IF y < l THEN y ELSE l) = l
      BY <2>1, <3>2
    <3> QED BY <2>1, <3>1, <3>3 DEF y
  <2> HIDE DEF end
  <2>7. chunks = [i \in 1..n |-> SubSeq(data, end(i - 1) + 1, end(i))]
    BY <2>3, <2>5
  <2> HIDE DEF chunks
  <2>8. IsSequence(chunks) /\ Len(chunks) = n /\ DOMAIN chunks = 1..n
    <3>1. n \in Nat /\ chunks = [i \in 1..n |-> chunks[i]]
      BY <2>2, <2>7
    <3> HIDE DEF n
    <3> QED BY <3>1, FunctionIsSequence
  <2> DEFINE parts == [i \in 0..n |-> SubSeq(data, 1, end(i))]
  <2>12. /\ \A i \in 1..n : /\ parts[i] = SubSeq(data, 1, end(i))
                            /\ parts[i - 1] = SubSeq(data, 1, end(i - 1))
         /\ parts[0] = SubSeq(data, 1, end(0)) /\ parts[n] = SubSeq(data, 1, end(n))
    <3>1. \A i \in 0..n : parts[i] = SubSeq(data, 1, end(i))
      OBVIOUS
    <3>2. 0 \in 0..n /\ n \in 0..n /\ \A i \in 1..n : i \in 0..n /\ i - 1 \in 0..n
      BY <2>2
    <3> HIDE DEF parts
    <3> QED BY <3>1, <3>2
  <2>9. \A i \in 1..n : IsSequence(chunks[i]) /\ parts[i] = parts[i - 1] \o chunks[i]
    <3> TAKE i \in 1..n
    <3>1. chunks[i] = SubSeq(data, end(i - 1) + 1, end(i))
      BY <2>7
    <3>2. parts[i] = SubSeq(data, 1, end(i)) /\ parts[i - 1] = SubSeq(data, 1, end(i - 1))
      BY <2>12
    <3> DEFINE p == end(i - 1)  q == end(i)
    <3>3. p \in Nat /\ q \in Nat /\ p <= q /\ q <= Len(data)
      BY <2>5 DEF l
    <3> HIDE DEF p, q
    <3>4. /\ IsSequence(SubSeq(data, p + 1, q))
          /\ SubSeq(data, 1, p) \o SubSeq(data, p + 1, q) = SubSeq(data, 1, q)
      BY <3>3, PrefixGrows
    <3> QED BY <3>1, <3>2, <3>4 DEF p, q
  <2>10. parts[0] = <<>> /\ parts[n] = data
    <3>1. parts[0] = SubSeq(data, 1, 0) /\ parts[n] = SubSeq(data, 1, l)
      BY <2>6, <2>12
    <3>2. IsSequence(SubSeq(data, 1, 0)) /\ Len(SubSeq(data, 1, 0)) = 0
      BY <2>1, PrefixIs DEF l
    <3>3. SubSeq(data, 1, 0) = <<>>
      BY <3>2, EmptyIs, SequencesEqual
    <3>4. /\ IsSequence(SubSeq(data, 1, l)) /\ Len(SubSeq(data, 1, l)) = l
          /\ \A i \in 1..l : SubSeq(data, 1, l)[i] = data[i]
      BY <2>1, PrefixIs DEF l
    <3>5. SubSeq(data, 1, l) = data
      BY <3>4, SequencesEqual DEF l
    <3> QED BY <3>1, <3>3, <3>5
  <2> HIDE DEF parts
  <2>11. Together(parts, chunks, data)
    BY <2>8, <2>9, <2>10 DEF Together
  <2> QED BY <2>2, <2>8, <2>9, <2>11 DEF chunks
<1> QED BY <1>1, <1>2

-----------------------------------------------------------------------------
(* Entries, catalogs and page stores, whatever they hold.                   *)

IsPage(ph) ==
    /\ DOMAIN ph = {"page_id", "offset", "compression_codec", "flags",
                    "uncompressed_size", "crc32"}
    /\ ph.page_id \in Nat /\ ph.compression_codec \in 0..255
IsEntry(m) ==
    /\ IsMeta(m) /\ Len(m.pages) \in Nat \ {0} /\ DOMAIN m.pages = 1..Len(m.pages)
    /\ \A i \in 1..Len(m.pages) : IsPage(m.pages[i])
WellFormed(cat) ==
    /\ cat = [f \in DOMAIN cat |-> cat[f]] /\ DOMAIN cat \subseteq FileNames
    /\ \A f \in DOMAIN cat : IsEntry(cat[f])
IsStore(slots) ==
    /\ IsSequence(slots)
    /\ \A i \in 1..Len(slots) : IsSequence(slots[i].frame.of)
IsJob(job) == job.file \in FileNames /\ IsSequence(job.data) /\ job.codec \in 0..255

LEMMA WellFormedIs ==
    ASSUME NEW cat, WellFormed(cat)
    PROVE  IsCatalog(cat)
<1>1. IsFiniteSet(DOMAIN cat) /\ DOMAIN cat \subseteq Nat
  BY SessionAssumption, FS_Subset DEF WellFormed
<1> QED BY <1>1 DEF WellFormed, IsCatalog, IsEntry

LEMMA EmptyWellFormed == WellFormed(Empty) /\ DOMAIN Empty = {}
BY DEF WellFormed, Empty

LEMMA PutIs ==
    ASSUME NEW cat, NEW f, NEW m
    PROVE  /\ DOMAIN Put(cat, f, m) = DOMAIN cat \union {f}
           /\ Put(cat, f, m)[f] = m
           /\ \A g \in DOMAIN cat \ {f} : Put(cat, f, m)[g] = cat[g]
           /\ Put(cat, f, m) = [g \in DOMAIN Put(cat, f, m) |-> Put(cat, f, m)[g]]
BY DEF Put

LEMMA PutWellFormed ==
    ASSUME NEW cat, WellFormed(cat), NEW f \in FileNames, NEW m, IsEntry(m)
    PROVE  WellFormed(Put(cat, f, m))
<1> DEFINE c == Put(cat, f, m)
<1>1. /\ DOMAIN c = DOMAIN cat \union {f} /\ c[f] = m
      /\ \A g \in DOMAIN cat \ {f} : c[g] = cat[g]
      /\ c = [g \in DOMAIN c |-> c[g]]
  BY DEF Put
<1> HIDE DEF c
<1>2. /\ DOMAIN cat \subseteq FileNames
      /\ \A g \in DOMAIN cat : IsEntry(cat[g])
  BY DEF WellFormed
<1>3. \A g \in DOMAIN c : IsEntry(c[g])
  BY <1>1, <1>2
<1>4. WellFormed(c)
  BY <1>1, <1>2, <1>3 DEF WellFormed
<1> QED BY <1>4 DEF c

LEMMA DroppedIs ==
    ASSUME NEW cat, NEW fs
    PROVE  /\ DOMAIN Dropped(cat, fs) = DOMAIN cat \ fs
           /\ \A g \in DOMAIN cat \ fs : Dropped(cat, fs)[g] = cat[g]
           /\ Dropped(cat, fs) = [g \in DOMAIN Dropped(cat, fs) |-> Dropped(cat, fs)[g]]
BY DEF Dropped

LEMMA DroppedWellFormed ==
    ASSUME NEW cat, WellFormed(cat), NEW fs
    PROVE  WellFormed(Dropped(cat, fs))
<1> DEFINE c == Dropped(cat, fs)
<1>1. /\ DOMAIN c = DOMAIN cat \ fs
      /\ \A g \in DOMAIN cat \ fs : c[g] = cat[g]
      /\ c = [g \in DOMAIN c |-> c[g]]
  BY DroppedIs
<1> HIDE DEF c
<1>2. /\ DOMAIN cat \subseteq FileNames
      /\ \A g \in DOMAIN cat : IsEntry(cat[g])
  BY DEF WellFormed
<1>3. \A g \in DOMAIN c : IsEntry(c[g])
  BY <1>1, <1>2
<1>4. WellFormed(c)
  BY <1>1, <1>2, <1>3 DEF WellFormed
<1> QED BY <1>4 DEF c

LEMMA FlaggedIs ==
    ASSUME NEW m, IsEntry(m)
    PROVE  /\ IsEntry(Flagged(m)) /\ Len(Flagged(m).pages) = Len(m.pages)
           /\ Flagged(m).file_name = m.file_name /\ Flagged(m).checksum = m.checksum
           /\ Flagged(m).original_size = m.original_size /\ Flagged(m).deleted = TRUE
           /\ \A i \in 1..Len(m.pages) :
                /\ Flagged(m).pages[i] = AsDeleted(m.pages[i])
                /\ Flagged(m).pages[i].page_id = m.pages[i].page_id
                /\ Flagged(m).pages[i].offset = m.pages[i].offset
                /\ Flagged(m).pages[i].compression_codec = m.pages[i].compression_codec
<1> DEFINE n == Len(m.pages)
           pages == [i \in DOMAIN m.pages |-> AsDeleted(m.pages[i])]
           g == Flagged(m)
<1>1. n \in Nat \ {0} /\ DOMAIN m.pages = 1..n /\ \A i \in 1..n : IsPage(m.pages[i])
  BY DEF IsEntry
<1>2. m = [file_name |-> m.file_name, checksum |-> m.checksum,
           original_size |-> m.original_size, deleted |-> m.deleted, pages |-> m.pages]
  BY DEF IsEntry, IsMeta
<1>3. g = [m EXCEPT !.pages = pages, !.deleted = TRUE]
  BY DEF Flagged, AsDeleted
<1> HIDE DEF pages, g
<1>4. g = [file_name |-> m.file_name, checksum |-> m.checksum,
           original_size |-> m.original_size, deleted |-> TRUE, pages |-> pages]
  BY <1>2, <1>3
<1>5. pages = [i \in 1..n |-> AsDeleted(m.pages[i])]
  BY <1>1 DEF pages
<1>6. IsSequence(pages) /\ Len(pages) = n /\ DOMAIN pages = 1..n
  <2>1. n \in Nat /\ pages = [i \in 1..n |-> pages[i]]
    BY <1>1, <1>5
  <2> HIDE DEF n
  <2> QED BY <2>1, FunctionIsSequence
<1>7. \A i \in 1..n : /\ pages[i] = AsDeleted(m.pages[i]) /\ IsPage(pages[i])
                      /\ pages[i].page_id = m.pages[i].page_id
                      /\ pages[i].offset = m.pages[i].offset
                      /\ pages[i].compression_codec = m.pages[i].compression_codec
  <2> TAKE i \in 1..n
  <2>1. pages[i] = AsDeleted(m.pages[i]) /\ IsPage(m.pages[i])
    BY <1>1, <1>5
  <2> QED BY <2>1 DEF AsDeleted, IsPage
<1>8. /\ g.pages = pages /\ g.deleted = TRUE /\ g.file_name = m.file_name
      /\ g.checksum = m.checksum /\ g.original_size = m.original_size
  BY <1>4
<1>9. IsMeta(g)
  BY <1>4, <1>6, <1>8 DEF IsMeta
<1>10. IsEntry(g)
  BY <1>1, <1>6, <1>7, <1>8, <1>9 DEF IsEntry
<1> QED BY <1>6, <1>7, <1>8, <1>10 DEF g

\* The entry of a file that WithFile adds to w, and what w then is.
NewEntry(w, enc, own, job) ==
    [file_name     |-> job.file,
     checksum      |-> Sha256(job.data),
     original_size |-> Len(job.data),
     deleted       |-> FALSE,
     pages         |-> [i \in DOMAIN Chunks(job.data, PageBytes) |->
        NewPageHeader(w.next + i - 1, Len(w.slots) + i, EffectiveCodec(job.codec, own), enc,
                      Chunks(job.data, PageBytes)[i])]]
Adds(w, v, enc, key, own, job) ==
    LET chunks == Chunks(job.data, PageBytes)
        m == NewEntry(w, enc, own, job)
        n == Len(chunks)
        l == Len(w.slots)
    IN /\ v.cat = Put(w.cat, job.file, m) /\ v.next = w.next + n
       /\ IsEntry(m) /\ n \in Nat \ {0} /\ l \in Nat /\ Len(m.pages) = n
       /\ DOMAIN chunks = 1..n
       /\ IsStore(v.slots) /\ Len(v.slots) = l + n /\ DOMAIN v.slots = 1..l + n
       /\ \A i \in 1..l : v.slots[i] = w.slots[i]
       /\ \A i \in 1..n :
            /\ m.pages[i] = NewPageHeader(w.next + i - 1, l + i, EffectiveCodec(job.codec, own),
                                          enc, chunks[i])
            /\ v.slots[l + i] = Payload(m.pages[i], enc, key, chunks[i])
Building(w) == IsStore(w.slots) /\ WellFormed(w.cat) /\ w.next \in Nat

LEMMA WithFileAdds ==
    ASSUME NEW w, Building(w), NEW enc, NEW key, NEW own \in 0..255, NEW job, IsJob(job)
    PROVE  LET v == WithFile(w, enc, key, own, job) IN
           Adds(w, v, enc, key, own, job) /\ Building(v)
<1> DEFINE v == WithFile(w, enc, key, own, job)
           chunks == Chunks(job.data, PageBytes)
           codec == EffectiveCodec(job.codec, own)
           m == NewEntry(w, enc, own, job)
           n == Len(chunks)
           l == Len(w.slots)
           H(i) == NewPageHeader(w.next + i - 1, l + i, codec, enc, chunks[i])
           phs == [i \in DOMAIN chunks |-> H(i)]
           P(i) == Payload(phs[i], enc, key, chunks[i])
           new == [i \in DOMAIN chunks |-> P(i)]
<1>1. /\ n \in Nat \ {0} /\ DOMAIN chunks = 1..n
      /\ \A i \in 1..n : IsSequence(chunks[i])
  BY ChunksAre DEF IsJob
<1>2. /\ v.slots = w.slots \o new /\ v.next = w.next + n
      /\ v.cat = Put(w.cat, job.file, m)
      /\ m.pages = phs
  BY DEF WithFile, NewEntry
<1>3. m = [file_name |-> job.file, checksum |-> Sha256(job.data),
           original_size |-> Len(job.data), deleted |-> FALSE, pages |-> phs]
  BY DEF NewEntry
<1>4. codec \in 0..255
  BY DEF EffectiveCodec, IsJob
<1> HIDE DEF chunks, v, m, codec
<1>5. l \in Nat /\ IsSequence(w.slots) /\ w.next \in Nat
  BY SequenceIs DEF Building, IsStore
<1>6. \A i \in 1..n : phs[i] = H(i) /\ new[i] = P(i)
  <2> HIDE DEF H, P, n
  <2> QED BY <1>1
<1>7. \A i \in 1..n : IsPage(phs[i])
  <2> TAKE i \in 1..n
  <2> DEFINE id == w.next + i - 1  off == l + i  c == chunks[i]
  <2>1. id \in Nat /\ phs[i] = NewPageHeader(id, off, codec, enc, c)
    BY <1>5, <1>6
  <2> HIDE DEF id, off, c, phs
  <2> DEFINE ph == NewPageHeader(id, off, codec, enc, c)
  <2>2. /\ DOMAIN ph = {"page_id", "offset", "compression_codec", "flags",
                        "uncompressed_size", "crc32"}
        /\ ph.page_id = id /\ ph.compression_codec = codec
    BY WrittenFields
  <2> HIDE DEF ph
  <2>3. IsPage(ph)
    BY <1>4, <2>1, <2>2 DEF IsPage
  <2> QED BY <2>1, <2>3 DEF ph
<1>8. phs = [i \in 1..n |-> phs[i]] /\ new = [i \in 1..n |-> new[i]]
  <2> HIDE DEF H, P, n
  <2>1. phs = [i \in 1..n |-> H(i)] /\ new = [i \in 1..n |-> P(i)]
    BY <1>1
  <2> HIDE DEF phs, new
  <2> QED BY <2>1
<1>9. \A i \in 1..n : IsSequence(new[i].frame.of)
  <2> TAKE i \in 1..n
  <2> DEFINE comp == CreateCompressor(phs[i].compression_codec)
             aad == Aad(phs[i])
             frame == Compress(comp, chunks[i])
  <2>1. new[i] = Stored(enc, key, aad, frame)
    BY <1>6 DEF Payload
  <2>2. frame.of = chunks[i]
    BY DEF Compress
  <2> HIDE DEF frame, aad, comp, new
  <2>3. new[i].frame = frame
    <3>1. CASE enc = "gcm"
      BY <2>1, <3>1 DEF Stored, AesGcmEncrypt
    <3>2. CASE enc = "ctr"
      BY <2>1, <3>2 DEF Stored, AesCtrEncrypt
    <3>3. CASE enc # "gcm" /\ enc # "ctr"
      BY <2>1, <3>3 DEF Stored
    <3> QED BY <3>1, <3>2, <3>3
  <2> QED BY <1>1, <2>2, <2>3
<1> HIDE DEF phs, new
<1>10. /\ IsSequence(phs) /\ Len(phs) = n /\ DOMAIN phs = 1..n
       /\ IsSequence(new) /\ Len(new) = n
  <2>1. n \in Nat
    BY <1>1
  <2> HIDE DEF n
  <2> QED BY <1>8, <2>1, FunctionIsSequence
<1>11. IsEntry(m)
  <2>1. /\ m.file_name = job.file /\ m.checksum = Sha256(job.data)
        /\ m.original_size = Len(job.data) /\ m.deleted = FALSE /\ m.pages = phs
    BY <1>3
  <2>2. IsMeta(m)
    BY <1>3, <1>10, <2>1 DEF IsMeta
  <2> QED BY <1>1, <1>7, <1>10, <2>1, <2>2 DEF IsEntry
<1>12. Joined(w.slots, new, v.slots)
  BY <1>2, <1>5, <1>10, ConcatIs
<1>13. /\ IsSequence(v.slots) /\ Len(v.slots) = l + n /\ DOMAIN v.slots = 1..l + n
       /\ \A i \in 1..l : v.slots[i] = w.slots[i]
       /\ \A i \in 1..n : v.slots[l + i] = new[i]
  BY <1>10, <1>12 DEF Joined
<1>14. IsStore(v.slots)
  <2> SUFFICES ASSUME NEW i \in 1..l + n PROVE IsSequence(v.slots[i].frame.of)
    BY <1>13 DEF IsStore
  <2>1. CASE i \in 1..l
    <3>1. v.slots[i] = w.slots[i] /\ IsSequence(w.slots[i].frame.of)
      BY <1>13, <2>1 DEF Building, IsStore
    <3> QED BY <3>1
  <2>2. CASE i \notin 1..l
    <3> HIDE DEF l, n
    <3>1. i - l \in 1..n /\ l + (i - l) = i
      BY <1>1, <1>5, <2>2
    <3>2. v.slots[i] = new[i - l]
      <4>1. v.slots[l + (i - l)] = new[i - l]
        BY <1>13, <3>1
      <4> QED BY <3>1, <4>1
    <3> QED BY <1>9, <3>1, <3>2
  <2> QED BY <2>1, <2>2
<1>15. \A i \in 1..n : /\ m.pages[i] = H(i)
                       /\ v.slots[l + i] = Payload(m.pages[i], enc, key, chunks[i])
  BY <1>2, <1>6, <1>13
<1>16. Building(v)
  <2>1. WellFormed(v.cat)
    BY <1>2, <1>11, PutWellFormed DEF Building, IsJob
  <2>2. v.next \in Nat
    <3> HIDE DEF n
    <3> QED BY <1>1, <1>2, <1>5
  <2> QED BY <1>14, <2>1, <2>2 DEF Building
<1>17. Adds(w, v, enc, key, own, job)
  <2>1. Len(m.pages) = n
    BY <1>2, <1>10
  <2> QED BY <1>1, <1>2, <1>5, <1>11, <1>13, <1>14, <1>15, <2>1 DEF Adds, chunks, m, codec
<1> QED BY <1>16, <1>17 DEF v

-----------------------------------------------------------------------------
(* The new archive of a rewrite, file by file.                              *)

Nothing == [slots |-> <<>>, cat |-> Empty, next |-> 0]
BuiltUpTo(g, n, jobs, enc, key, own) ==
    g = [i \in 0..n |-> IF i = 0 THEN Nothing
                        ELSE WithFile(g[i - 1], enc, key, own, jobs[i])]

LEMMA BuiltExists ==
    ASSUME NEW jobs, NEW enc, NEW key, NEW own, NEW n \in Nat
    PROVE  \E g : BuiltUpTo(g, n, jobs, enc, key, own)
<1> DEFINE Step(g, i) == IF i = 0 THEN Nothing
                         ELSE WithFile(g[i - 1], enc, key, own, jobs[i])
           T == {m \in Nat : \E g : g = [i \in 0..m |-> Step(g, i)]}
<1>1. 0 \in T
  <2> DEFINE h == [i \in 0..0 |-> Nothing]
  <2>1. h = [i \in 0..0 |-> Step(h, i)]
    OBVIOUS
  <2>2. \E g : g = [i \in 0..0 |-> Step(g, i)]
    <3> HIDE DEF h, Step
    <3> QED BY <2>1
  <2> QED BY <2>2
<1>2. \A m \in Nat : m \in T => m + 1 \in T
  <2> SUFFICES ASSUME NEW m \in Nat, m \in T PROVE m + 1 \in T
    OBVIOUS
  <2>1. PICK g : g = [i \in 0..m |-> Step(g, i)]
    OBVIOUS
  <2> DEFINE h == [i \in 0..m + 1 |-> Step(g, i)]
  <2>2. \A i \in 0..m : h[i] = g[i]
    <3> HIDE DEF Step
    <3> QED BY <2>1
  <2>3. \A i \in 0..m + 1 : Step(h, i) = Step(g, i)
    <3> TAKE i \in 0..m + 1
    <3>1. i # 0 => i - 1 \in 0..m
      OBVIOUS
    <3> HIDE DEF h
    <3> QED BY <2>2, <3>1
  <2> HIDE DEF Step
  <2>4. h = [i \in 0..m + 1 |-> Step(h, i)]
    BY <2>3
  <2>5. \E k : k = [i \in 0..m + 1 |-> Step(k, i)]
    <3> HIDE DEF h
    <3> QED BY <2>4
  <2> QED BY <2>5
<1> HIDE DEF T
<1>3. n \in T
  BY <1>1, <1>2, SetInduction
<1> QED BY <1>3 DEF T, BuiltUpTo

\* The files a rewrite writes.
JobsOf(plan, files) ==
    [i \in DOMAIN files |->
       Job(plan.as[files[i].file], files[i].data, plan.codec[files[i].file])] \o plan.added

LEMMA NewArchiveIs ==
    ASSUME NEW plan, NEW files, Len(JobsOf(plan, files)) \in Nat
    PROVE  LET jobs == JobsOf(plan, files) IN
           \E g : /\ BuiltUpTo(g, Len(jobs), jobs, Encryptor, handle.key, RewriteCodec)
                  /\ NewArchive(plan, files) = g[Len(jobs)]
<1> DEFINE jobs == JobsOf(plan, files)
           n == Len(jobs)
           h == CHOOSE g : BuiltUpTo(g, n, jobs, Encryptor, handle.key, RewriteCodec)
<1>1. NewArchive(plan, files) = h[n]
  BY DEF NewArchive, JobsOf, BuiltUpTo, Nothing
<1> HIDE DEF jobs
<1>2. n \in Nat
  BY DEF jobs
<1>3. \E g : BuiltUpTo(g, n, jobs, Encryptor, handle.key, RewriteCodec)
  <2> HIDE DEF n
  <2> QED BY <1>2, BuiltExists
<1>4. BuiltUpTo(h, n, jobs, Encryptor, handle.key, RewriteCodec)
  <2> HIDE DEF n
  <2> QED BY <1>3
<1> HIDE DEF h
<1> QED BY <1>1, <1>4 DEF jobs

-----------------------------------------------------------------------------
(* What an archive holds.                                                   *)

Ids(m)     == {m.pages[i].page_id : i \in DOMAIN m.pages}
Offsets(m) == {m.pages[i].offset : i \in DOMAIN m.pages}

\* The entry m is that of f, and its pages in slots are the pieces of data.
Holds(m, f, data, enc, key, slots) ==
    LET chunks == Chunks(data, PageBytes) IN
    /\ IsSequence(data)
    /\ m.file_name = f /\ m.checksum = Sha256(data) /\ m.original_size = Len(data)
    /\ DOMAIN m.pages = DOMAIN chunks
    /\ \A i \in DOMAIN chunks :
         /\ m.pages[i].offset \in DOMAIN slots
         /\ PageHolds(m.pages[i], m.deleted, enc, key, chunks[i], slots[m.pages[i].offset])
    /\ \A i, j \in DOMAIN chunks : m.pages[i].page_id = m.pages[j].page_id => i = j

\* No two files share a page id, except two that are doubtful, nor a page,
\* except with a doubtful one.
Apart(cat, doubt) ==
    \A f \in DOMAIN cat \ doubt : \A g \in DOMAIN cat \ {f} :
      /\ Ids(cat[f]) \intersect Ids(cat[g]) = {}
      /\ g \notin doubt => Offsets(cat[f]) \intersect Offsets(cat[g]) = {}
CodedAs(m, codec) == \A i \in DOMAIN m.pages : m.pages[i].compression_codec = codec
Below(cat, n) == \A f \in DOMAIN cat : \A id \in Ids(cat[f]) : id < n

\* The catalog and the pages of an archive whose files are known, up to the
\* doubtful ones.
Arch(slots, cat, known, doubt, enc, key) ==
    /\ \A f \in DOMAIN cat \ doubt :
         f \in DOMAIN known /\ Holds(cat[f], f, known[f], enc, key, slots)
    /\ Apart(cat, doubt)

LEMMA HoldsOffsets ==
    ASSUME NEW m, NEW f, NEW data, NEW enc, NEW key, NEW slots, Holds(m, f, data, enc, key, slots)
    PROVE  Offsets(m) \subseteq DOMAIN slots
BY DEF Holds, Offsets

\* What holds in one page store holds in another that has the same pages.
LEMMA HoldsElsewhere ==
    ASSUME NEW m, NEW f, NEW data, NEW enc, NEW key, NEW slots, Holds(m, f, data, enc, key, slots),
           NEW other, \A o \in Offsets(m) : o \in DOMAIN other /\ other[o] = slots[o]
    PROVE  Holds(m, f, data, enc, key, other)
<1> DEFINE chunks == Chunks(data, PageBytes)
<1>1. /\ IsSequence(data)
      /\ m.file_name = f /\ m.checksum = Sha256(data) /\ m.original_size = Len(data)
      /\ DOMAIN m.pages = DOMAIN chunks
      /\ \A i \in DOMAIN chunks :
           /\ m.pages[i].offset \in DOMAIN slots
           /\ PageHolds(m.pages[i], m.deleted, enc, key, chunks[i], slots[m.pages[i].offset])
      /\ \A i, j \in DOMAIN chunks : m.pages[i].page_id = m.pages[j].page_id => i = j
  BY DEF Holds
<1> HIDE DEF chunks
<1>2. \A i \in DOMAIN chunks : /\ m.pages[i].offset \in DOMAIN other
                               /\ other[m.pages[i].offset] = slots[m.pages[i].offset]
  BY <1>1 DEF Offsets
<1>3. \A i \in DOMAIN chunks :
        /\ m.pages[i].offset \in DOMAIN other
        /\ PageHolds(m.pages[i], m.deleted, enc, key, chunks[i], other[m.pages[i].offset])
  BY <1>1, <1>2
<1> QED BY <1>1, <1>3 DEF Holds, chunks

LEMMA NewEntryHolds ==
    ASSUME NEW w, NEW v, NEW enc, NEW key, NEW own, NEW job, IsJob(job), w.next \in Nat,
           Adds(w, v, enc, key, own, job)
    PROVE  LET m == NewEntry(w, enc, own, job) IN
           /\ Holds(m, job.file, job.data, enc, key, v.slots) /\ m.deleted = FALSE
           /\ \A id \in Ids(m) : id \in Nat /\ w.next <= id /\ id < v.next
           /\ \A o \in Offsets(m) : o \in Nat /\ Len(w.slots) < o
           /\ CodedAs(m, EffectiveCodec(job.codec, own))
<1> DEFINE chunks == Chunks(job.data, PageBytes)
           m == NewEntry(w, enc, own, job)
           n == Len(chunks)
           l == Len(w.slots)
           codec == EffectiveCodec(job.codec, own)
<1>1. /\ v.next = w.next + n
      /\ n \in Nat \ {0} /\ l \in Nat /\ DOMAIN m.pages = 1..n
      /\ DOMAIN chunks = 1..n /\ DOMAIN v.slots = 1..l + n
      /\ \A i \in 1..n :
           /\ m.pages[i] = NewPageHeader(w.next + i - 1, l + i, codec, enc, chunks[i])
           /\ v.slots[l + i] = Payload(m.pages[i], enc, key, chunks[i])
  BY DEF Adds, IsEntry
<1>2. /\ m.file_name = job.file /\ m.checksum = Sha256(job.data)
      /\ m.original_size = Len(job.data) /\ m.deleted = FALSE
  BY DEF NewEntry
<1> HIDE DEF m, chunks, codec, n, l
<1>3. \A i \in 1..n :
        /\ m.pages[i].page_id = w.next + i - 1 /\ m.pages[i].offset = l + i
        /\ m.pages[i].compression_codec = codec
        /\ m.pages[i] = Written(m.pages[i], enc, chunks[i])
  <2> TAKE i \in 1..n
  <2> DEFINE ph == m.pages[i]  id == w.next + i - 1  off == l + i  c == chunks[i]
  <2>1. ph = NewPageHeader(id, off, codec, enc, c)
    BY <1>1
  <2> HIDE DEF ph, id, off, c
  <2>2. ph.page_id = id /\ ph.offset = off /\ ph.compression_codec = codec
    <3> DEFINE q == NewPageHeader(id, off, codec, enc, c)
    <3>1. q.page_id = id /\ q.offset = off /\ q.compression_codec = codec
      BY WrittenFields
    <3> HIDE DEF q
    <3> QED BY <2>1, <3>1 DEF q
  <2>3. ph = Written(ph, enc, c)
    BY <2>1, <2>2 DEF Written
  <2> QED BY <2>2, <2>3 DEF ph, id, off, c
<1>4. \A i \in 1..n : /\ l + i \in DOMAIN v.slots
                      /\ PageHolds(m.pages[i], m.deleted, enc, key, chunks[i], v.slots[l + i])
  <2> TAKE i \in 1..n
  <2>1. l + i \in DOMAIN v.slots
    BY <1>1
  <2> DEFINE ph == m.pages[i]  s == v.slots[l + i]  c == chunks[i]
  <2>2. s = Payload(ph, enc, key, c) /\ ph = Written(ph, enc, c)
    BY <1>1, <1>3
  <2> HIDE DEF ph, s, c
  <2>3. PageHolds(ph, m.deleted, enc, key, c, s)
    BY <1>2, <2>2 DEF PageHolds
  <2> QED BY <2>1, <2>3 DEF ph, s, c
<1>5. Holds(m, job.file, job.data, enc, key, v.slots)
  <2>1. \A i \in DOMAIN chunks :
          /\ m.pages[i].offset \in DOMAIN v.slots
          /\ PageHolds(m.pages[i], m.deleted, enc, key, chunks[i], v.slots[m.pages[i].offset])
    BY <1>1, <1>3, <1>4
  <2>2. \A i, j \in DOMAIN chunks : m.pages[i].page_id = m.pages[j].page_id => i = j
    <3> TAKE i, j \in DOMAIN chunks
    <3>1. /\ m.pages[i].page_id = w.next + i - 1 /\ m.pages[j].page_id = w.next + j - 1
          /\ i \in Nat /\ j \in Nat
      <4>1. i \in 1..n /\ j \in 1..n
        BY <1>1
      <4> QED BY <1>3, <4>1
    <3> QED BY <3>1
  <2>3. IsSequence(job.data) /\ DOMAIN m.pages = DOMAIN chunks
    BY <1>1 DEF IsJob
  <2> QED BY <1>2, <2>1, <2>2, <2>3 DEF Holds, chunks
<1>6. \A i \in 1..n : /\ w.next + i - 1 \in Nat /\ w.next <= w.next + i - 1
                      /\ w.next + i - 1 < v.next /\ l + i \in Nat /\ l < l + i
  BY <1>1
<1>7. /\ \A id \in Ids(m) : id \in Nat /\ w.next <= id /\ id < v.next
      /\ \A o \in Offsets(m) : o \in Nat /\ l < o
      /\ CodedAs(m, codec)
  BY <1>1, <1>3, <1>6 DEF Ids, Offsets, CodedAs
<1> QED BY <1>2, <1>5, <1>7 DEF m, l, codec

\* Adding a file leaves what the others hold alone, and apart.
Keeps(w, v, enc, key, own, job) ==
    /\ DOMAIN v.cat = DOMAIN w.cat \union {job.file}
    /\ v.cat[job.file] = NewEntry(w, enc, own, job)
    /\ \A f \in DOMAIN w.cat \ {job.file} : v.cat[f] = w.cat[f]
    /\ Below(v.cat, v.next) /\ v.next \in Nat /\ w.next <= v.next
    /\ \A m, f, data : Holds(m, f, data, enc, key, w.slots)
                         => Holds(m, f, data, enc, key, v.slots)
    /\ \A doubt : /\ Apart(w.cat, doubt)
                  /\ \A f \in DOMAIN w.cat \ doubt : Offsets(w.cat[f]) \subseteq DOMAIN w.slots
                  => Apart(v.cat, doubt \ {job.file})

LEMMA AddsKeeps ==
    ASSUME NEW w, Building(w), NEW v, NEW enc, NEW key, NEW own, NEW job, IsJob(job),
           Adds(w, v, enc, key, own, job), Below(w.cat, w.next)
    PROVE  Keeps(w, v, enc, key, own, job)
<1> DEFINE new == NewEntry(w, enc, own, job)
           a == job.file
           n == Len(Chunks(job.data, PageBytes))
           l == Len(w.slots)
<1>1. /\ v.cat = Put(w.cat, a, new) /\ v.next = w.next + n /\ n \in Nat /\ w.next \in Nat
      /\ l \in Nat /\ DOMAIN w.slots = 1..l /\ DOMAIN v.slots = 1..l + n
      /\ \A i \in 1..l : v.slots[i] = w.slots[i]
  BY SequenceIs DEF Adds, Building, IsStore
<1>2. /\ \A id \in Ids(new) : id \in Nat /\ w.next <= id /\ id < v.next
      /\ \A o \in Offsets(new) : o \in Nat /\ l < o
  BY <1>1, NewEntryHolds
<1> HIDE DEF n
<1>3. v.next \in Nat /\ w.next <= v.next
  BY <1>1
<1> HIDE DEF new, a, l
<1>4. /\ DOMAIN v.cat = DOMAIN w.cat \union {a} /\ v.cat[a] = new
      /\ \A f \in DOMAIN w.cat \ {a} : v.cat[f] = w.cat[f]
  <2>1. v.cat = Put(w.cat, a, new)
    BY <1>1
  <2> QED BY <2>1 DEF Put
<1>5. \A f \in DOMAIN w.cat : \A id \in Ids(w.cat[f]) : id \in Nat /\ id < w.next
  <2> SUFFICES ASSUME NEW f \in DOMAIN w.cat, NEW i \in DOMAIN w.cat[f].pages
               PROVE  w.cat[f].pages[i].page_id \in Nat /\ w.cat[f].pages[i].page_id < w.next
    BY DEF Ids
  <2>1. IsPage(w.cat[f].pages[i])
    BY DEF Building, WellFormed, IsEntry
  <2>2. w.cat[f].pages[i].page_id < w.next
    BY DEF Below, Ids
  <2> QED BY <2>1, <2>2 DEF IsPage
<1>6. Below(v.cat, v.next)
  <2> SUFFICES ASSUME NEW f \in DOMAIN v.cat, NEW id \in Ids(v.cat[f]) PROVE id < v.next
    BY DEF Below
  <2>1. CASE f = a
    BY <1>2, <1>4, <2>1
  <2>2. CASE f # a
    <3>1. id \in Nat /\ id < w.next
      BY <1>4, <1>5, <2>2
    <3> QED BY <1>1, <1>3, <3>1
  <2> QED BY <2>1, <2>2
<1>7. \A i \in 1..l : i \in DOMAIN v.slots
  BY <1>1
<1>8. ASSUME NEW m, NEW f, NEW data, Holds(m, f, data, enc, key, w.slots)
      PROVE  Holds(m, f, data, enc, key, v.slots)
  <2>1. \A o \in Offsets(m) : o \in 1..l
    BY <1>1, <1>8, HoldsOffsets
  <2>2. \A o \in Offsets(m) : o \in DOMAIN v.slots /\ v.slots[o] = w.slots[o]
    BY <1>1, <1>7, <2>1
  <2> QED BY <1>8, <2>2, HoldsElsewhere
<1>9. ASSUME NEW doubt, Apart(w.cat, doubt),
             \A f \in DOMAIN w.cat \ doubt : Offsets(w.cat[f]) \subseteq DOMAIN w.slots
      PROVE  Apart(v.cat, doubt \ {a})
  <2> SUFFICES ASSUME NEW f \in DOMAIN v.cat \ (doubt \ {a}), NEW g \in DOMAIN v.cat \ {f}
               PROVE  /\ Ids(v.cat[f]) \intersect Ids(v.cat[g]) = {}
                      /\ g \notin doubt \ {a} =>
                           Offsets(v.cat[f]) \intersect Offsets(v.cat[g]) = {}
    BY DEF Apart
  <2>1. \A id \in Ids(new) : \A h \in DOMAIN w.cat : id \notin Ids(w.cat[h])
    <3> SUFFICES ASSUME NEW id \in Ids(new), NEW h \in DOMAIN w.cat, id \in Ids(w.cat[h])
                 PROVE  FALSE
      OBVIOUS
    <3>1. id \in Nat /\ w.next <= id
      BY <1>2
    <3>2. id < w.next
      BY <1>5
    <3> QED BY <1>1, <3>1, <3>2
  <2>2. \A o \in Offsets(new) : o \notin DOMAIN w.slots
    <3> SUFFICES ASSUME NEW o \in Offsets(new), o \in DOMAIN w.slots PROVE FALSE
      OBVIOUS
    <3>1. o \in Nat /\ l < o
      BY <1>2
    <3> QED BY <1>1, <3>1
  <2>3. CASE f = a
    <3>1. v.cat[f] = new /\ v.cat[g] = w.cat[g] /\ g \in DOMAIN w.cat
      BY <1>4, <2>3
    <3>2. Ids(new) \intersect Ids(w.cat[g]) = {}
      BY <2>1, <3>1
    <3>3. g \notin doubt \ {a} => Offsets(new) \intersect Offsets(w.cat[g]) = {}
      BY <1>9, <2>2, <2>3, <3>1
    <3> QED BY <3>1, <3>2, <3>3
  <2>4. CASE g = a
    <3>1. v.cat[g] = new /\ v.cat[f] = w.cat[f] /\ f \in DOMAIN w.cat \ doubt
      BY <1>4, <2>4
    <3>2. Ids(new) \intersect Ids(w.cat[f]) = {}
      BY <2>1, <3>1
    <3>3. Offsets(new) \intersect Offsets(w.cat[f]) = {}
      BY <1>9, <2>2, <3>1
    <3> QED BY <3>1, <3>2, <3>3
  <2>5. CASE f # a /\ g # a
    <3>1. v.cat[f] = w.cat[f] /\ f \in DOMAIN w.cat \ doubt
      BY <1>4, <2>5
    <3>2. v.cat[g] = w.cat[g] /\ g \in DOMAIN w.cat \ {f}
      BY <1>4, <2>5
    <3>3. g \notin doubt \ {a} => g \notin doubt
      BY <2>5
    <3>4. /\ Ids(w.cat[f]) \intersect Ids(w.cat[g]) = {}
          /\ g \notin doubt => Offsets(w.cat[f]) \intersect Offsets(w.cat[g]) = {}
      BY <1>9, <3>1, <3>2 DEF Apart
    <3> QED BY <3>1, <3>2, <3>3, <3>4
  <2> QED BY <2>3, <2>4, <2>5
<1>10. \A doubt : /\ Apart(w.cat, doubt)
                  /\ \A f \in DOMAIN w.cat \ doubt : Offsets(w.cat[f]) \subseteq DOMAIN w.slots
                  => Apart(v.cat, doubt \ {a})
  BY <1>9
<1>11. \A m, f, data : Holds(m, f, data, enc, key, w.slots)
                         => Holds(m, f, data, enc, key, v.slots)
  BY <1>8
<1> QED BY <1>3, <1>4, <1>6, <1>10, <1>11 DEF new, a, Keeps

LEMMA ArchFollows ==
    ASSUME NEW slots, NEW cat, NEW known, NEW doubt, NEW enc, NEW key,
           Arch(slots, cat, known, doubt, enc, key), NEW other, NEW known2, NEW doubt2,
           \A f \in DOMAIN cat \ doubt2 :
             /\ f \notin doubt /\ f \in DOMAIN known2 /\ known2[f] = known[f]
             /\ \A o \in Offsets(cat[f]) : o \in DOMAIN other /\ other[o] = slots[o]
    PROVE  Arch(other, cat, known2, doubt2, enc, key)
<1>1. ASSUME NEW f \in DOMAIN cat \ doubt2
      PROVE  f \in DOMAIN known2 /\ Holds(cat[f], f, known2[f], enc, key, other)
  <2>1. /\ f \notin doubt /\ f \in DOMAIN known2 /\ known2[f] = known[f]
        /\ \A o \in Offsets(cat[f]) : o \in DOMAIN other /\ other[o] = slots[o]
    BY <1>1
  <2>2. Holds(cat[f], f, known[f], enc, key, slots)
    BY <2>1 DEF Arch
  <2>3. Holds(cat[f], f, known[f], enc, key, other)
    BY <2>1, <2>2, HoldsElsewhere
  <2> QED BY <2>1, <2>3
<1>2. Apart(cat, doubt2)
  BY DEF Arch, Apart
<1> QED BY <1>1, <1>2 DEF Arch

LEMMA AddsArch ==
    ASSUME NEW w, Building(w), NEW v, NEW enc, NEW key, NEW own, NEW job, IsJob(job),
           Adds(w, v, enc, key, own, job), Below(w.cat, w.next),
           NEW known, NEW doubt, Arch(w.slots, w.cat, known, doubt, enc, key)
    PROVE  Arch(v.slots, v.cat, Put(known, job.file, job.data), doubt \ {job.file}, enc, key)
<1> DEFINE new == NewEntry(w, enc, own, job)
           a == job.file
           k == Put(known, a, job.data)
<1>1. /\ DOMAIN v.cat = DOMAIN w.cat \union {a} /\ v.cat[a] = new
      /\ \A f \in DOMAIN w.cat \ {a} : v.cat[f] = w.cat[f]
      /\ \A m, f, data : Holds(m, f, data, enc, key, w.slots)
                           => Holds(m, f, data, enc, key, v.slots)
  BY AddsKeeps DEF Keeps
<1>2. \A f \in DOMAIN w.cat \ doubt : Offsets(w.cat[f]) \subseteq DOMAIN w.slots
  <2> TAKE f \in DOMAIN w.cat \ doubt
  <2>1. Holds(w.cat[f], f, known[f], enc, key, w.slots)
    BY DEF Arch
  <2> QED BY <2>1, HoldsOffsets
<1>3. Apart(v.cat, doubt \ {a})
  <2>1. Apart(w.cat, doubt)
    BY DEF Arch
  <2>2. \A d : /\ Apart(w.cat, d)
               /\ \A f \in DOMAIN w.cat \ d : Offsets(w.cat[f]) \subseteq DOMAIN w.slots
               => Apart(v.cat, d \ {a})
    BY AddsKeeps DEF Keeps
  <2> QED BY <1>2, <2>1, <2>2
<1>4. Holds(new, a, job.data, enc, key, v.slots)
  <2>1. w.next \in Nat
    BY DEF Building
  <2> QED BY <2>1, NewEntryHolds
<1>5. /\ DOMAIN k = DOMAIN known \union {a} /\ k[a] = job.data
      /\ \A f \in DOMAIN known \ {a} : k[f] = known[f]
  BY DEF Put
<1> HIDE DEF new, k, a
<1>6. ASSUME NEW f \in DOMAIN v.cat \ (doubt \ {a})
      PROVE  f \in DOMAIN k /\ Holds(v.cat[f], f, k[f], enc, key, v.slots)
  <2>1. CASE f = a
    BY <1>1, <1>4, <1>5, <2>1
  <2>2. CASE f # a
    <3>1. f \in DOMAIN w.cat \ doubt /\ v.cat[f] = w.cat[f]
      BY <1>1, <2>2
    <3>2. f \in DOMAIN known /\ Holds(w.cat[f], f, known[f], enc, key, w.slots)
      BY <3>1 DEF Arch
    <3>3. f \in DOMAIN k /\ k[f] = known[f]
      BY <1>5, <2>2, <3>2
    <3> QED BY <1>1, <3>1, <3>2, <3>3
  <2> QED BY <2>1, <2>2
<1>7. Arch(v.slots, v.cat, k, doubt \ {a}, enc, key)
  BY <1>3, <1>6 DEF Arch
<1> QED BY <1>7 DEF k, a

\* After i jobs the archive w holds, of each file, what the last job about it
\* brought, with the codec that job asked for.
LastJob(jobs, i, j, f) == j \in 1..i /\ jobs[j].file = f /\ \A k \in j + 1..i : jobs[k].file # f
BuiltFrom(w, jobs, i, enc, key, own) ==
    /\ Building(w) /\ Below(w.cat, w.next) /\ Apart(w.cat, {})
    /\ DOMAIN w.cat = {jobs[j].file : j \in 1..i}
    /\ \A f \in DOMAIN w.cat : Offsets(w.cat[f]) \subseteq DOMAIN w.slots
    /\ \A f, j : LastJob(jobs, i, j, f) =>
         /\ Holds(w.cat[f], f, jobs[j].data, enc, key, w.slots) /\ w.cat[f].deleted = FALSE
         /\ CodedAs(w.cat[f], EffectiveCodec(jobs[j].codec, own))

LEMMA NothingBuilt ==
    ASSUME NEW jobs, NEW enc, NEW key, NEW own
    PROVE  BuiltFrom(Nothing, jobs, 0, enc, key, own)
<1>1. /\ Nothing.slots = <<>> /\ Nothing.cat = Empty /\ Nothing.next = 0 /\ DOMAIN Empty = {}
      /\ WellFormed(Empty)
  BY EmptyWellFormed DEF Nothing
<1>2. Building(Nothing)
  <2>1. IsStore(<<>>)
    BY EmptyIs DEF IsStore
  <2> QED BY <1>1, <2>1 DEF Building
<1>3. Below(Nothing.cat, Nothing.next) /\ Apart(Nothing.cat, {})
  BY <1>1 DEF Below, Apart
<1>4. \A f, j : ~LastJob(jobs, 0, j, f)
  BY DEF LastJob
<1>5. {jobs[j].file : j \in 1..0} = {}
  OBVIOUS
<1> QED BY <1>1, <1>2, <1>3, <1>4, <1>5 DEF BuiltFrom

LEMMA OneMoreBuilt ==
    ASSUME NEW jobs, NEW enc, NEW key, NEW own \in 0..255, NEW i \in Nat \ {0}, IsJob(jobs[i]),
           NEW w, BuiltFrom(w, jobs, i - 1, enc, key, own)
    PROVE  BuiltFrom(WithFile(w, enc, key, own, jobs[i]), jobs, i, enc, key, own)
<1> DEFINE v == WithFile(w, enc, key, own, jobs[i])
           a == jobs[i].file
           new == NewEntry(w, enc, own, jobs[i])
<1>1. /\ Building(w) /\ Below(w.cat, w.next) /\ Apart(w.cat, {})
      /\ DOMAIN w.cat = {jobs[j].file : j \in 1..i - 1}
      /\ \A f \in DOMAIN w.cat : Offsets(w.cat[f]) \subseteq DOMAIN w.slots
      /\ \A f, j : LastJob(jobs, i - 1, j, f) =>
           /\ Holds(w.cat[f], f, jobs[j].data, enc, key, w.slots) /\ w.cat[f].deleted = FALSE
           /\ CodedAs(w.cat[f], EffectiveCodec(jobs[j].codec, own))
  BY DEF BuiltFrom
<1>2. Adds(w, v, enc, key, own, jobs[i]) /\ Building(v)
  BY <1>1, WithFileAdds
<1> HIDE DEF v
<1> DEFINE job == jobs[i]
<1>10. /\ DOMAIN v.cat = DOMAIN w.cat \union {job.file}
       /\ v.cat[job.file] = NewEntry(w, enc, own, job)
       /\ \A f \in DOMAIN w.cat \ {job.file} : v.cat[f] = w.cat[f]
       /\ Below(v.cat, v.next)
       /\ \A m, f, data : Holds(m, f, data, enc, key, w.slots)
                            => Holds(m, f, data, enc, key, v.slots)
       /\ \A doubt : /\ Apart(w.cat, doubt)
                     /\ \A f \in DOMAIN w.cat \ doubt : Offsets(w.cat[f]) \subseteq DOMAIN w.slots
                     => Apart(v.cat, doubt \ {job.file})
  <2>1. Adds(w, v, enc, key, own, job) /\ IsJob(job)
    BY <1>2
  <2> HIDE DEF job, new, a
  <2>2. Keeps(w, v, enc, key, own, job)
    BY <1>1, <2>1, AddsKeeps
  <2> QED BY <2>2 DEF Keeps
<1>11. /\ Holds(NewEntry(w, enc, own, job), job.file, job.data, enc, key, v.slots)
       /\ NewEntry(w, enc, own, job).deleted = FALSE
       /\ CodedAs(NewEntry(w, enc, own, job), EffectiveCodec(job.codec, own))
  <2>1. w.next \in Nat /\ Adds(w, v, enc, key, own, job) /\ IsJob(job)
    BY <1>1, <1>2 DEF Building
  <2> HIDE DEF job, new, a
  <2>2. Holds(NewEntry(w, enc, own, job), job.file, job.data, enc, key, v.slots)
    BY <2>1, NewEntryHolds
  <2>3. NewEntry(w, enc, own, job).deleted = FALSE
    BY DEF NewEntry
  <2>4. CodedAs(NewEntry(w, enc, own, job), EffectiveCodec(job.codec, own))
    BY <2>1, NewEntryHolds
  <2> QED BY <2>2, <2>3, <2>4
<1>3. /\ DOMAIN v.cat = DOMAIN w.cat \union {a} /\ v.cat[a] = new
      /\ \A f \in DOMAIN w.cat \ {a} : v.cat[f] = w.cat[f]
      /\ Below(v.cat, v.next)
      /\ \A m, f, data : Holds(m, f, data, enc, key, w.slots)
                           => Holds(m, f, data, enc, key, v.slots)
      /\ \A doubt : /\ Apart(w.cat, doubt)
                    /\ \A f \in DOMAIN w.cat \ doubt : Offsets(w.cat[f]) \subseteq DOMAIN w.slots
                    => Apart(v.cat, doubt \ {a})
  BY <1>10
<1>4. /\ Holds(new, a, jobs[i].data, enc, key, v.slots) /\ new.deleted = FALSE
      /\ CodedAs(new, EffectiveCodec(jobs[i].codec, own))
  BY <1>11
<1> HIDE DEF new
<1>5. Apart(v.cat, {})
  <2>1. {} \ {a} = {}
    OBVIOUS
  <2> QED BY <1>1, <1>3, <2>1
<1>6. DOMAIN v.cat = {jobs[j].file : j \in 1..i}
  <2>1. 1..i = (1..i - 1) \union {i}
    OBVIOUS
  <2> QED BY <1>1, <1>3, <2>1
<1>7. \A f \in DOMAIN v.cat : Offsets(v.cat[f]) \subseteq DOMAIN v.slots
  <2> TAKE f \in DOMAIN v.cat
  <2>1. CASE f = a
    BY <1>3, <1>4, <2>1, HoldsOffsets
  <2>2. CASE f # a
    <3>1. v.cat[f] = w.cat[f] /\ Offsets(w.cat[f]) \subseteq DOMAIN w.slots
      BY <1>1, <1>3, <2>2
    <3>2. DOMAIN w.slots \subseteq DOMAIN v.slots
      <4> DEFINE l == Len(w.slots)  q == Len(Chunks(jobs[i].data, PageBytes))
      <4>1. /\ l \in Nat /\ q \in Nat /\ DOMAIN w.slots = 1..l /\ DOMAIN v.slots = 1..l + q
        BY <1>1, <1>2, SequenceIs DEF Adds, Building, IsStore
      <4> HIDE DEF l, q
      <4> QED BY <4>1
    <3> QED BY <3>1, <3>2
  <2> QED BY <2>1, <2>2
<1>8. ASSUME NEW f, NEW j, LastJob(jobs, i, j, f)
      PROVE  /\ Holds(v.cat[f], f, jobs[j].data, enc, key, v.slots) /\ v.cat[f].deleted = FALSE
             /\ CodedAs(v.cat[f], EffectiveCodec(jobs[j].codec, own))
  <2>1. CASE j = i
    <3>1. f = a
      BY <1>8, <2>1 DEF LastJob
    <3> QED BY <1>3, <1>4, <2>1, <3>1
  <2>2. CASE j # i
    <3>1. j \in 1..i - 1 /\ jobs[j].file = f /\ i \in j + 1..i
          /\ \A k \in j + 1..i : jobs[k].file # f
      BY <1>8, <2>2 DEF LastJob
    <3>2. a # f
      BY <3>1
    <3>3. LastJob(jobs, i - 1, j, f)
      <4>1. \A k \in j + 1..i - 1 : k \in j + 1..i
        BY <3>1
      <4> QED BY <3>1, <4>1 DEF LastJob
    <3>4. f \in DOMAIN w.cat
      BY <1>1, <3>1
    <3> QED BY <1>1, <1>3, <3>2, <3>3, <3>4
  <2> QED BY <2>1, <2>2
<1>9. BuiltFrom(v, jobs, i, enc, key, own)
  BY <1>2, <1>3, <1>5, <1>6, <1>7, <1>8 DEF BuiltFrom
<1> QED BY <1>9 DEF v

LEMMA BuiltIs ==
    ASSUME NEW jobs, NEW n \in Nat, \A i \in 1..n : IsJob(jobs[i]),
           NEW enc, NEW key, NEW own \in 0..255,
           NEW g, BuiltUpTo(g, n, jobs, enc, key, own)
    PROVE  BuiltFrom(g[n], jobs, n, enc, key, own)
<1> DEFINE T == {i \in 0..n : BuiltFrom(g[i], jobs, i, enc, key, own)}
<1>1. g[0] = Nothing /\ \A i \in 1..n : g[i] = WithFile(g[i - 1], enc, key, own, jobs[i])
  BY DEF BuiltUpTo
<1>2. 0 \in T
  BY <1>1, NothingBuilt
<1>3. \A i \in 1..n : i - 1 \in T => i \in T
  <2> SUFFICES ASSUME NEW i \in 1..n, BuiltFrom(g[i - 1], jobs, i - 1, enc, key, own)
               PROVE  BuiltFrom(g[i], jobs, i, enc, key, own)
    OBVIOUS
  <2>1. IsJob(jobs[i]) /\ i \in Nat \ {0} /\ g[i] = WithFile(g[i - 1], enc, key, own, jobs[i])
    BY <1>1
  <2> DEFINE w == g[i - 1]
  <2>2. BuiltFrom(w, jobs, i - 1, enc, key, own)
    OBVIOUS
  <2> HIDE DEF w
  <2>3. BuiltFrom(WithFile(w, enc, key, own, jobs[i]), jobs, i, enc, key, own)
    BY <2>1, <2>2, OneMoreBuilt
  <2> QED BY <2>1, <2>3 DEF w
<1> HIDE DEF T
<1>4. 0..n \subseteq T
  BY <1>2, <1>3, BoundedInduction
<1>5. n \in T
  BY <1>4
<1> QED BY <1>5 DEF T

-----------------------------------------------------------------------------
(* A file read page by page, a list read file by file.                      *)

ReadUpTo(g, n, r, pages) ==
    g = [i \in 0..n |-> IF i = 0 THEN [r EXCEPT !.data = <<>>] ELSE ReadPage(g[i - 1], pages[i])]

LEMMA ReadExists ==
    ASSUME NEW r, NEW pages, NEW n \in Nat
    PROVE  \E g : ReadUpTo(g, n, r, pages)
<1> DEFINE Step(g, i) == IF i = 0 THEN [r EXCEPT !.data = <<>>]
                         ELSE ReadPage(g[i - 1], pages[i])
           T == {m \in Nat : \E g : g = [i \in 0..m |-> Step(g, i)]}
<1>1. 0 \in T
  <2> DEFINE h == [i \in 0..0 |-> [r EXCEPT !.data = <<>>]]
  <2>1. h = [i \in 0..0 |-> Step(h, i)]
    OBVIOUS
  <2>2. \E g : g = [i \in 0..0 |-> Step(g, i)]
    <3> HIDE DEF h, Step
    <3> QED BY <2>1
  <2> QED BY <2>2
<1>2. \A m \in Nat : m \in T => m + 1 \in T
  <2> SUFFICES ASSUME NEW m \in Nat, m \in T PROVE m + 1 \in T
    OBVIOUS
  <2>1. PICK g : g = [i \in 0..m |-> Step(g, i)]
    OBVIOUS
  <2> DEFINE h == [i \in 0..m + 1 |-> Step(g, i)]
  <2>2. \A i \in 0..m : h[i] = g[i]
    <3> HIDE DEF Step
    <3> QED BY <2>1
  <2>3. \A i \in 0..m + 1 : Step(h, i) = Step(g, i)
    <3> TAKE i \in 0..m + 1
    <3>1. i # 0 => i - 1 \in 0..m
      OBVIOUS
    <3> HIDE DEF h
    <3> QED BY <2>2, <3>1
  <2> HIDE DEF Step
  <2>4. h = [i \in 0..m + 1 |-> Step(h, i)]
    BY <2>3
  <2>5. \E k : k = [i \in 0..m + 1 |-> Step(k, i)]
    <3> HIDE DEF h
    <3> QED BY <2>4
  <2> QED BY <2>5
<1> HIDE DEF T
<1>3. n \in T
  BY <1>1, <1>2, SetInduction
<1> QED BY <1>3 DEF T, ReadUpTo

NextExtracted(before, f) ==
    LET read == AssembleFile(before.reading, handle.rcat[f])
    IN IF XSTD_isError(before.reading.result) THEN before
       ELSE [reading |-> read,
             files   |-> Append(before.files, [file |-> f, data |-> read.data])]
ExtractedUpTo(g, n, r, files) ==
    g = [i \in 0..n |-> IF i = 0 THEN [reading |-> r, files |-> <<>>]
                        ELSE NextExtracted(g[i - 1], files[i])]

LEMMA ExtractedExists ==
    ASSUME NEW r, NEW files, NEW n \in Nat
    PROVE  \E g : ExtractedUpTo(g, n, r, files)
<1> DEFINE Step(g, i) == IF i = 0 THEN [reading |-> r, files |-> <<>>]
                         ELSE NextExtracted(g[i - 1], files[i])
           T == {m \in Nat : \E g : g = [i \in 0..m |-> Step(g, i)]}
<1>1. 0 \in T
  <2> DEFINE h == [i \in 0..0 |-> [reading |-> r, files |-> <<>>]]
  <2>1. h = [i \in 0..0 |-> Step(h, i)]
    OBVIOUS
  <2>2. \E g : g = [i \in 0..0 |-> Step(g, i)]
    <3> HIDE DEF h, Step
    <3> QED BY <2>1
  <2> QED BY <2>2
<1>2. \A m \in Nat : m \in T => m + 1 \in T
  <2> SUFFICES ASSUME NEW m \in Nat, m \in T PROVE m + 1 \in T
    OBVIOUS
  <2>1. PICK g : g = [i \in 0..m |-> Step(g, i)]
    OBVIOUS
  <2> DEFINE h == [i \in 0..m + 1 |-> Step(g, i)]
  <2>2. \A i \in 0..m : h[i] = g[i]
    <3> HIDE DEF Step
    <3> QED BY <2>1
  <2>3. \A i \in 0..m + 1 : Step(h, i) = Step(g, i)
    <3> TAKE i \in 0..m + 1
    <3>1. i # 0 => i - 1 \in 0..m
      OBVIOUS
    <3> HIDE DEF h
    <3> QED BY <2>2, <3>1
  <2> HIDE DEF Step
  <2>4. h = [i \in 0..m + 1 |-> Step(h, i)]
    BY <2>3
  <2>5. \E k : k = [i \in 0..m + 1 |-> Step(k, i)]
    <3> HIDE DEF h
    <3> QED BY <2>4
  <2> QED BY <2>5
<1> HIDE DEF T
<1>3. n \in T
  BY <1>1, <1>2, SetInduction
<1> QED BY <1>3 DEF T, ExtractedUpTo

LEMMA AssembleFileIs ==
    ASSUME NEW r, NEW meta, Len(meta.pages) \in Nat
    PROVE  LET n == Len(meta.pages) IN
           \E g : /\ ReadUpTo(g, n, r, meta.pages)
                  /\ AssembleFile(r, meta) = [g[n] EXCEPT !.result =
                       IF XSTD_isError(g[n].result) THEN g[n].result
                       ELSE IF Sha256(g[n].data) # meta.checksum THEN "kChecksumMismatch"
                       ELSE "kSuccess"]
<1> DEFINE n == Len(meta.pages)
           pages == meta.pages
           h == CHOOSE g : ReadUpTo(g, n, r, pages)
           c1 == XSTD_isError(h[n].result)
           c2 == Sha256(h[n].data) # meta.checksum
           result == FirstError(<< <<c1, h[n].result>>, <<c2, "kChecksumMismatch">> >>)
<1>1. AssembleFile(r, meta) = [h[n] EXCEPT !.result = result]
  BY DEF AssembleFile, ReadUpTo
<1>2. result = IF c1 THEN h[n].result ELSE IF c2 THEN "kChecksumMismatch" ELSE "kSuccess"
  <2>1. c1 \in BOOLEAN /\ c2 \in BOOLEAN
    BY DEF XSTD_isError
  <2> HIDE DEF c1, c2
  <2> QED BY <2>1, FirstOfTwo
<1> HIDE DEF result
<1>3. n \in Nat
  OBVIOUS
<1>4. \E g : ReadUpTo(g, n, r, pages)
  <2> HIDE DEF n, pages
  <2> QED BY <1>3, ReadExists
<1>5. ReadUpTo(h, n, r, pages)
  <2> HIDE DEF n, pages
  <2> QED BY <1>4
<1> HIDE DEF h
<1> QED BY <1>1, <1>2, <1>5

LEMMA AssembleAllIs ==
    ASSUME NEW r, NEW files, Len(files) \in Nat
    PROVE  \E g : ExtractedUpTo(g, Len(files), r, files) /\ AssembleAll(r, files) = g[Len(files)]
<1> DEFINE n == Len(files)
           h == CHOOSE g : ExtractedUpTo(g, n, r, files)
<1>1. AssembleAll(r, files) = h[n]
  BY DEF AssembleAll, ExtractedUpTo, NextExtracted
<1>2. n \in Nat
  OBVIOUS
<1>3. \E g : ExtractedUpTo(g, n, r, files)
  <2> HIDE DEF n
  <2> QED BY <1>2, ExtractedExists
<1>4. ExtractedUpTo(h, n, r, files)
  <2> HIDE DEF n
  <2> QED BY <1>3
<1> HIDE DEF h
<1> QED BY <1>1, <1>4

-----------------------------------------------------------------------------
(* The list of the cached pages and the list of the pages used.             *)

\* c is s with x before it; c is s with its p-th element left out and x before.
Pushed(s, x, c) ==
    /\ IsSequence(c) /\ Len(c) = Len(s) + 1 /\ c[1] = x
    /\ \A i \in 1..Len(s) : c[i + 1] = s[i]
Fronted(s, p, x, c) ==
    /\ IsSequence(c) /\ Len(c) = Len(s) /\ c[1] = x
    /\ \A i \in 1..p - 1 : c[i + 1] = s[i]
    /\ \A i \in p + 1..Len(s) : c[i] = s[i]

LEMMA PushedIs ==
    ASSUME NEW s, IsSequence(s), NEW x
    PROVE  Pushed(s, x, <<x>> \o s)
<1> DEFINE u == <<x>>
           c == u \o s
<1>1. IsSequence(u) /\ Len(u) = 1 /\ u[1] = x
  BY OneIs
<1> HIDE DEF u
<1>2. Joined(u, s, c)
  BY <1>1, ConcatIs
<1> HIDE DEF c
<1>3. IsSequence(c) /\ Len(c) = 1 + Len(s) /\ Len(s) \in Nat
  BY <1>1, <1>2 DEF Joined
<1>4. c[1] = x
  BY <1>1, <1>2 DEF Joined
<1>5. \A i \in 1..Len(s) : c[1 + i] = s[i]
  BY <1>1, <1>2 DEF Joined
<1>6. \A i \in 1..Len(s) : c[i + 1] = s[i]
  BY <1>3, <1>5
<1>7. Pushed(s, x, c)
  BY <1>3, <1>4, <1>6 DEF Pushed
<1> QED BY <1>7 DEF u, c

LEMMA FrontedIs ==
    ASSUME NEW s, IsSequence(s), NEW p \in 1..Len(s), NEW x
    PROVE  Fronted(s, p, x, <<x>> \o RemoveAt(s, p))
<1> DEFINE n == Len(s)
           u == SubSeq(s, 1, p - 1)
           v == SubSeq(s, p + 1, n)
           t == u \o v
           c == <<x>> \o t
<1>1. n \in Nat /\ p \in 1..n
  BY SequenceIs
<1>2. IsSequence(u) /\ Len(u) = p - 1 /\ \A i \in 1..p - 1 : u[i] = s[i]
  <2>1. p - 1 \in 0..Len(s)
    BY <1>1
  <2> QED BY <2>1, PrefixIs
<1>3. Slice(s, p + 1, n - p, v)
  <2> DEFINE a == p + 1  m == n - p
  <2>1. a \in Nat \ {0} /\ m \in Nat /\ a + m - 1 <= Len(s) /\ a + m - 1 = n
    BY <1>1
  <2> HIDE DEF a, m, n
  <2>2. Slice(s, a, m, SubSeq(s, a, a + m - 1))
    BY <2>1, SliceIs
  <2> QED BY <2>1, <2>2 DEF a, m
<1>4. IsSequence(v) /\ Len(v) = n - p /\ \A i \in 1..n - p : v[i] = s[p + 1 + i - 1]
  BY <1>3 DEF Slice
<1> HIDE DEF u, v
<1>5. Joined(u, v, t)
  BY <1>2, <1>4, ConcatIs
<1> HIDE DEF t
<1>6. /\ IsSequence(t) /\ Len(t) = p - 1 + (n - p)
      /\ \A i \in 1..p - 1 : t[i] = u[i]
      /\ \A i \in 1..n - p : t[p - 1 + i] = v[i]
  BY <1>2, <1>4, <1>5 DEF Joined
<1>7. Pushed(t, x, c)
  BY <1>6, PushedIs
<1> HIDE DEF c
<1>8. Len(t) = n - 1
  BY <1>1, <1>6
<1>9. IsSequence(c) /\ Len(c) = n /\ c[1] = x /\ \A i \in 1..n - 1 : c[i + 1] = t[i]
  BY <1>1, <1>7, <1>8 DEF Pushed
<1>10. \A i \in 1..p - 1 : c[i + 1] = s[i]
  <2> TAKE i \in 1..p - 1
  <2>1. i \in 1..n - 1
    BY <1>1
  <2> QED BY <1>2, <1>6, <1>9, <2>1
<1>11. \A i \in p + 1..n : c[i] = s[i]
  <2> TAKE i \in p + 1..n
  <2>1. /\ i - p \in 1..n - p /\ p - 1 + (i - p) = i - 1 /\ p + 1 + (i - p) - 1 = i
        /\ i - 1 \in 1..n - 1 /\ i - 1 + 1 = i
    BY <1>1
  <2>2. t[p - 1 + (i - p)] = v[i - p]
    BY <1>6, <2>1
  <2>3. v[i - p] = s[p + 1 + (i - p) - 1]
    BY <1>4, <2>1
  <2>4. c[i - 1 + 1] = t[i - 1]
    BY <1>9, <2>1
  <2> QED BY <2>1, <2>2, <2>3, <2>4
<1>12. Fronted(s, p, x, c)
  BY <1>9, <1>10, <1>11 DEF Fronted
<1> QED BY <1>12 DEF c, t, u, v, RemoveAt

LEMMA CountIs ==
    ASSUME NEW n \in Nat, NEW id, \A i, j \in 1..n : id[i] = id[j] => i = j
    PROVE  Cardinality({id[i] : i \in 1..n}) = n
<1> DEFINE f == [i \in 1..n |-> id[i]]
           S == {id[i] : i \in 1..n}
<1>1. f \in Bijection(1..n, S)
  BY DEF Bijection, Injection, Surjection, IsInjective
<1>2. ExistsBijection(1..n, S)
  BY <1>1 DEF ExistsBijection
<1> HIDE DEF S, f
<1>3. Cardinality(S) = n
  BY <1>2, FS_CountingElements
<1> QED BY <1>3 DEF S

\* The cache holds the pages used last, each page used counts once.
KeptOf(cap, n) == IF cap = 0 \/ n <= cap THEN n ELSE cap
Distinct(s) == \A i, j \in 1..Len(s) : s[i] = s[j] => i = j
Lru(order, used, cap) ==
    /\ IsSequence(order) /\ IsSequence(used) /\ Distinct(used)
    /\ Len(order) = KeptOf(cap, Len(used))
    /\ \A i \in 1..Len(order) : order[i].id = used[i]

LEMMA FrontedDistinct ==
    ASSUME NEW s, IsSequence(s), Distinct(s), NEW p \in 1..Len(s), NEW c, Fronted(s, p, s[p], c)
    PROVE  Distinct(c)
<1> DEFINE n == Len(s)
           \* Where the i-th element of c is in s.
           at(i) == IF i = 1 THEN p ELSE IF i <= p THEN i - 1 ELSE i
<1>1. n \in Nat /\ Len(c) = n /\ p \in 1..n
  BY SequenceIs DEF Fronted
<1>2. \A i \in 1..n : at(i) \in 1..n
  BY <1>1
<1>3. \A i, j \in 1..n : at(i) = at(j) => i = j
  BY <1>1
<1>4. \A i \in 1..n : c[i] = s[at(i)]
  <2> TAKE i \in 1..n
  <2>1. CASE i = 1
    BY <2>1 DEF Fronted
  <2>2. CASE i # 1 /\ i <= p
    <3>1. i - 1 \in 1..p - 1 /\ i - 1 + 1 = i
      BY <1>1, <2>2
    <3>2. c[i - 1 + 1] = s[i - 1]
      BY <3>1 DEF Fronted
    <3> QED BY <2>2, <3>1, <3>2
  <2>3. CASE i # 1 /\ ~(i <= p)
    <3>1. i \in p + 1..Len(s)
      BY <1>1, <2>3
    <3> QED BY <2>3, <3>1 DEF Fronted
  <2> QED BY <2>1, <2>2, <2>3
<1> HIDE DEF at
<1>5. \A i, j \in 1..n : c[i] = c[j] => i = j
  <2> SUFFICES ASSUME NEW i \in 1..n, NEW j \in 1..n, c[i] = c[j] PROVE i = j
    OBVIOUS
  <2>1. s[at(i)] = s[at(j)]
    BY <1>4
  <2>2. at(i) = at(j)
    BY <1>2, <2>1 DEF Distinct
  <2> QED BY <1>3, <2>2
<1> QED BY <1>1, <1>5 DEF Distinct

LEMMA PushedDistinct ==
    ASSUME NEW s, IsSequence(s), Distinct(s), NEW x, \A i \in 1..Len(s) : s[i] # x,
           NEW c, Pushed(s, x, c)
    PROVE  Distinct(c)
<1> DEFINE n == Len(s)
<1>1. n \in Nat /\ Len(c) = n + 1 /\ c[1] = x /\ \A i \in 1..n : c[i + 1] = s[i]
  BY SequenceIs DEF Pushed
<1>2. \A i, j \in 1..n : s[i] = s[j] => i = j
  BY DEF Distinct
<1>5. \A i \in 1..n : s[i] # x
  OBVIOUS
<1> HIDE DEF n
<1>3. \A i \in 1..n + 1 : i # 1 => i - 1 \in 1..n /\ c[i] = s[i - 1]
  <2> SUFFICES ASSUME NEW i \in 1..n + 1, i # 1 PROVE i - 1 \in 1..n /\ c[i] = s[i - 1]
    OBVIOUS
  <2>1. i - 1 \in 1..n /\ i - 1 + 1 = i
    BY <1>1
  <2>2. c[i - 1 + 1] = s[i - 1]
    BY <1>1, <2>1
  <2> QED BY <2>1, <2>2
<1>4. \A i, j \in 1..n + 1 : c[i] = c[j] => i = j
  <2> SUFFICES ASSUME NEW i \in 1..n + 1, NEW j \in 1..n + 1, c[i] = c[j] PROVE i = j
    OBVIOUS
  <2>1. CASE i = 1 /\ j # 1
    <3>1. c[i] = x /\ j - 1 \in 1..n /\ c[j] = s[j - 1]
      BY <1>1, <1>3, <2>1
    <3> QED BY <1>5, <3>1
  <2>2. CASE i # 1 /\ j = 1
    <3>1. c[j] = x /\ i - 1 \in 1..n /\ c[i] = s[i - 1]
      BY <1>1, <1>3, <2>2
    <3> QED BY <1>5, <3>1
  <2>3. CASE i # 1 /\ j # 1
    <3>1. i - 1 \in 1..n /\ j - 1 \in 1..n /\ s[i - 1] = s[j - 1]
      BY <1>3, <2>3
    <3>2. i - 1 = j - 1
      BY <1>2, <3>1
    <3> QED BY <1>1, <3>2
  <2> QED BY <2>1, <2>2, <2>3
<1> QED BY <1>1, <1>4 DEF Distinct

\* A page used again goes to the front of both lists.
LEMMA HitKeepsLru ==
    ASSUME NEW order, NEW used, NEW cap \in Nat, Lru(order, used, cap),
           NEW p \in 1..Len(order), NEW order2, Fronted(order, p, order[p], order2),
           NEW used2, Fronted(used, p, used[p], used2)
    PROVE  Lru(order2, used2, cap)
<1> DEFINE n == Len(order)
           m == Len(used)
<1>1. /\ n \in Nat /\ m \in Nat /\ n = KeptOf(cap, m) /\ n <= m
  BY SequenceIs DEF Lru, KeptOf
<1>2. Len(order2) = n /\ Len(used2) = m /\ IsSequence(order2) /\ IsSequence(used2)
  BY DEF Fronted
<1>3. Distinct(used2)
  <2>1. p \in 1..Len(used)
    BY <1>1
  <2> QED BY <2>1, FrontedDistinct DEF Lru
<1>4. \A i \in 1..n : order2[i].id = used2[i]
  <2> TAKE i \in 1..n
  <2>0. \A j \in 1..n : order[j].id = used[j]
    BY DEF Lru
  <2>1. CASE i = 1
    <3>1. order2[1] = order[p] /\ used2[1] = used[p]
      BY DEF Fronted
    <3> QED BY <2>0, <2>1, <3>1
  <2>2. CASE i # 1 /\ i <= p
    <3>1. i - 1 \in 1..p - 1 /\ i - 1 + 1 = i /\ i - 1 \in 1..n
      BY <1>1, <2>2
    <3>2. order2[i - 1 + 1] = order[i - 1] /\ used2[i - 1 + 1] = used[i - 1]
      BY <3>1 DEF Fronted
    <3> QED BY <2>0, <3>1, <3>2
  <2>3. CASE i # 1 /\ ~(i <= p)
    <3>1. i \in p + 1..Len(order) /\ i \in p + 1..Len(used)
      BY <1>1, <2>3
    <3>2. order2[i] = order[i] /\ used2[i] = used[i]
      BY <3>1 DEF Fronted
    <3> QED BY <2>0, <3>2
  <2> QED BY <2>1, <2>2, <2>3
<1> QED BY <1>1, <1>2, <1>3, <1>4 DEF Lru

\* A page that is not cached goes to the front of both, the last one in the
\* cache makes room when the cache is full.
LEMMA MissKeepsLru ==
    ASSUME NEW order, NEW used, NEW cap \in Nat, Lru(order, used, cap),
           NEW e, \A i \in 1..Len(order) : order[i].id # e.id,
           NEW room, IsSequence(room),
           Len(room) = IF cap > 0 /\ Len(order) >= cap THEN Len(order) - 1 ELSE Len(order),
           \A i \in 1..Len(room) : room[i] = order[i],
           NEW order2, Pushed(room, e, order2), NEW used2,
           \/ \E q \in 1..Len(used) : used[q] = e.id /\ Fronted(used, q, e.id, used2)
           \/ (\A q \in 1..Len(used) : used[q] # e.id) /\ Pushed(used, e.id, used2)
    PROVE  Lru(order2, used2, cap)
<1> DEFINE n == Len(order)
           m == Len(used)
           k == Len(room)
<1>1. /\ n \in Nat /\ m \in Nat /\ n = KeptOf(cap, m) /\ k \in Nat /\ k <= n /\ n <= m
      /\ k = IF cap > 0 /\ n >= cap THEN n - 1 ELSE n
  BY SequenceIs DEF Lru, KeptOf
<1>2. /\ Len(order2) = k + 1 /\ IsSequence(order2) /\ order2[1] = e
      /\ \A i \in 1..k : order2[i + 1] = room[i]
  BY DEF Pushed
<1>3. \A i \in 1..k : order2[i + 1].id = used[i]
  <2> TAKE i \in 1..k
  <2>1. i \in 1..n
    BY <1>1
  <2>2. order[i].id = used[i] /\ room[i] = order[i] /\ order2[i + 1] = room[i]
    BY <1>2, <2>1 DEF Lru
  <2> QED BY <2>2
<1>4. CASE \E q \in 1..m : used[q] = e.id /\ Fronted(used, q, e.id, used2)
  <2>1. PICK q \in 1..m : used[q] = e.id /\ Fronted(used, q, e.id, used2)
    BY <1>4
  <2>2. q > n
    <3> SUFFICES ASSUME q <= n PROVE FALSE
      BY <1>1
    <3>1. q \in 1..n
      BY <1>1
    <3>2. order[q].id = used[q]
      BY <3>1 DEF Lru
    <3> QED BY <2>1, <3>1, <3>2
  <2>3. IsSequence(used2) /\ Len(used2) = m /\ used2[1] = e.id
        /\ \A i \in 1..q - 1 : used2[i + 1] = used[i]
    BY <2>1 DEF Fronted
  <2>4. Distinct(used2)
    <3>1. Fronted(used, q, used[q], used2) /\ IsSequence(used) /\ Distinct(used)
      BY <2>1 DEF Lru
    <3> QED BY <3>1, FrontedDistinct
  <2>5. k + 1 = KeptOf(cap, m)
    BY <1>1, <2>2 DEF KeptOf
  <2>6. \A i \in 1..k + 1 : order2[i].id = used2[i]
    <3> TAKE i \in 1..k + 1
    <3>1. CASE i = 1
      BY <1>2, <2>3, <3>1
    <3>2. CASE i # 1
      <4>1. i - 1 \in 1..k /\ i - 1 \in 1..q - 1 /\ i - 1 + 1 = i
        BY <1>1, <2>2, <3>2
      <4>2. order2[i - 1 + 1].id = used[i - 1] /\ used2[i - 1 + 1] = used[i - 1]
        BY <1>3, <2>3, <4>1
      <4> QED BY <4>1, <4>2
    <3> QED BY <3>1, <3>2
  <2> QED BY <1>2, <2>3, <2>4, <2>5, <2>6 DEF Lru
<1>5. CASE (\A q \in 1..m : used[q] # e.id) /\ Pushed(used, e.id, used2)
  <2>1. IsSequence(used2) /\ Len(used2) = m + 1 /\ used2[1] = e.id
        /\ \A i \in 1..m : used2[i + 1] = used[i]
    BY <1>5 DEF Pushed
  <2>2. Distinct(used2)
    BY <1>5, PushedDistinct DEF Lru
  <2>3. k + 1 = KeptOf(cap, m + 1)
    BY <1>1 DEF KeptOf
  <2>4. \A i \in 1..k + 1 : order2[i].id = used2[i]
    <3> TAKE i \in 1..k + 1
    <3>1. CASE i = 1
      BY <1>2, <2>1, <3>1
    <3>2. CASE i # 1
      <4>1. i - 1 \in 1..k /\ i - 1 \in 1..m /\ i - 1 + 1 = i
        BY <1>1, <3>2
      <4>2. order2[i - 1 + 1].id = used[i - 1] /\ used2[i - 1 + 1] = used[i - 1]
        BY <1>3, <2>1, <4>1
      <4> QED BY <4>1, <4>2
    <3> QED BY <3>1, <3>2
  <2> QED BY <1>2, <2>1, <2>2, <2>3, <2>4 DEF Lru
<1> QED BY <1>4, <1>5

-----------------------------------------------------------------------------
(* A page read through the cache.                                           *)

IsReader(r, cap) ==
    /\ DOMAIN r = {"order", "index", "comp", "recent", "data", "result"}
    /\ Lru(r.order, r.recent, cap)
    /\ r.index = {r.order[i].id : i \in 1..Len(r.order)}
    /\ \A i \in 1..Len(r.order) : IsSequence(r.order[i].data)
    /\ r.comp \in Compressors /\ IsSequence(r.data)

\* Every cached page of q is one of r.
NothingNew(q, r) ==
    \A i \in 1..Len(q.order) : \E j \in 1..Len(r.order) : q.order[i] = r.order[j]

\* q is r with the cached page id behind what was read.
Brought(q, r, id) ==
    \E p \in 1..Len(r.order) : r.order[p].id = id /\ q.data = r.data \o r.order[p].data

LEMMA CachedIs ==
    ASSUME NEW r, NEW cap \in Nat, IsReader(r, cap), NEW p \in 1..Len(r.order)
    PROVE  /\ Cached(r, r.order[p].id) = r.order[p] /\ Place(r, r.order[p].id) = p
           /\ \A q \in 1..Len(r.recent) : r.recent[q] = r.order[p].id <=> q = p
           /\ p \in 1..Len(r.recent)
<1> DEFINE order == r.order  used == r.recent  n == Len(order)  m == Len(used)  id == order[p].id
<1>1. /\ n \in Nat /\ m \in Nat /\ n <= m /\ DOMAIN order = 1..n
      /\ \A i \in 1..n : order[i].id = used[i]
      /\ \A i, j \in 1..m : used[i] = used[j] => i = j
  BY SequenceIs DEF IsReader, Lru, Distinct, KeptOf
<1> HIDE DEF order, used
<1>2. p \in 1..n /\ \A i \in 1..n : i \in 1..m
  BY <1>1 DEF order
<1> HIDE DEF n, m
<1>3. \A i \in 1..n : order[i].id = id => i = p
  BY <1>1, <1>2
<1>4. \A q \in 1..m : used[q] = id <=> q = p
  BY <1>1, <1>2
<1> HIDE DEF id
<1>5. (CHOOSE i \in 1..n : order[i].id = id) = p
  BY <1>2, <1>3 DEF id
<1>6. Place(r, id) = p
  BY <1>1, <1>5 DEF Place, order
<1>7. Range(order) = {order[i] : i \in 1..n}
  BY <1>1 DEF Range
<1>8. order[p] \in Range(order) /\ \A e \in Range(order) : e.id = id => e = order[p]
  BY <1>2, <1>3, <1>7
<1>9. (CHOOSE e \in Range(order) : e.id = id) = order[p]
  <2>1. order[p].id = id
    BY DEF id
  <2> QED BY <1>8, <2>1
<1>10. Cached(r, id) = order[p]
  BY <1>9 DEF Cached, order
<1> QED BY <1>2, <1>4, <1>6, <1>10 DEF id, order, used, m

LEMMA UsedIs ==
    ASSUME NEW r, IsSequence(r.recent), Distinct(r.recent), NEW id
    PROVE  \/ \E q \in 1..Len(r.recent) : r.recent[q] = id /\ Fronted(r.recent, q, id, Used(r, id))
           \/ (\A q \in 1..Len(r.recent) : r.recent[q] # id) /\ Pushed(r.recent, id, Used(r, id))
<1> DEFINE used == r.recent
<1>1. DOMAIN used = 1..Len(used)
  BY SequenceIs
<1>2. Range(used) = {used[i] : i \in 1..Len(used)}
  BY <1>1 DEF Range
<1> HIDE DEF used
<1>3. CASE id \in Range(used)
  <2> DEFINE q == CHOOSE i \in 1..Len(used) : used[i] = id
  <2>1. \E i \in 1..Len(used) : used[i] = id
    BY <1>2, <1>3
  <2>2. q \in 1..Len(used) /\ used[q] = id
    BY <2>1
  <2>3. Used(r, id) = <<id>> \o RemoveAt(used, q)
    BY <1>1, <1>3 DEF Used, used
  <2> HIDE DEF q
  <2>4. Fronted(used, q, id, <<id>> \o RemoveAt(used, q))
    <3>1. IsSequence(used)
      BY DEF used
    <3> QED BY <2>2, <3>1, FrontedIs
  <2> QED BY <2>2, <2>3, <2>4 DEF used
<1>4. CASE id \notin Range(used)
  <2>1. Used(r, id) = <<id>> \o used
    BY <1>4 DEF Used, used
  <2>2. Pushed(used, id, <<id>> \o used)
    <3>1. IsSequence(used)
      BY DEF used
    <3> QED BY <3>1, PushedIs
  <2>3. \A q \in 1..Len(used) : used[q] # id
    BY <1>2, <1>4
  <2> QED BY <2>1, <2>2, <2>3 DEF used
<1> QED BY <1>3, <1>4

LEMMA HitIs ==
    ASSUME NEW r, NEW cap \in Nat, IsReader(r, cap), NEW ph, ph.page_id \in r.index
    PROVE  LET q == Hit(r, ph) IN
           /\ IsReader(q, cap) /\ q.result = r.result /\ NothingNew(q, r)
           /\ Brought(q, r, ph.page_id)
<1> DEFINE q == Hit(r, ph)
           n == Len(r.order)
<1>1. PICK p \in 1..n : r.order[p].id = ph.page_id
  BY DEF IsReader
<1> DEFINE e == r.order[p]
           order == <<e>> \o RemoveAt(r.order, p)
           used == Used(r, e.id)
           data == r.data \o e.data
<1>2. Cached(r, ph.page_id) = e /\ e.id = ph.page_id /\ Place(r, e.id) = p
  <2>1. Cached(r, r.order[p].id) = r.order[p] /\ Place(r, r.order[p].id) = p
    BY CachedIs
  <2> QED BY <1>1, <2>1
<1>3. q = [r EXCEPT !.order = order, !.recent = used, !.data = data]
  BY <1>2 DEF Hit
<1>4. DOMAIN r = {"order", "index", "comp", "recent", "data", "result"}
  BY DEF IsReader
<1> HIDE DEF order, used, data, q
<1>5. /\ DOMAIN q = {"order", "index", "comp", "recent", "data", "result"}
      /\ q.order = order /\ q.recent = used /\ q.data = data
      /\ q.index = r.index /\ q.comp = r.comp /\ q.result = r.result
  BY <1>3, <1>4
<1>6. Fronted(r.order, p, r.order[p], order)
  <2>1. IsSequence(r.order)
    BY DEF IsReader, Lru
  <2> QED BY <2>1, FrontedIs DEF order
<1>7. Fronted(r.recent, p, r.recent[p], used)
  <2>1. /\ \A i \in 1..Len(r.recent) : r.recent[i] = e.id <=> i = p
        /\ p \in 1..Len(r.recent)
    BY CachedIs
  <2>2. IsSequence(r.recent) /\ Distinct(r.recent)
    BY DEF IsReader, Lru
  <2> HIDE DEF e
  <2>3. \/ \E i \in 1..Len(r.recent) : r.recent[i] = e.id /\ Fronted(r.recent, i, e.id, used)
        \/ (\A i \in 1..Len(r.recent) : r.recent[i] # e.id) /\ Pushed(r.recent, e.id, used)
    BY <2>2, UsedIs DEF used
  <2>4. r.recent[p] = e.id
    BY <2>1
  <2>5. Fronted(r.recent, p, e.id, used)
    BY <2>1, <2>3
  <2> QED BY <2>4, <2>5
<1>8. Lru(order, used, cap)
  <2>1. Lru(r.order, r.recent, cap)
    BY DEF IsReader
  <2> HIDE DEF e
  <2> QED BY <1>6, <1>7, <2>1, HitKeepsLru
<1>9. n \in Nat /\ Len(order) = n /\ DOMAIN r.order = 1..n /\ p \in 1..n
  <2>1. Len(order) = n
    BY <1>6 DEF Fronted
  <2> QED BY <2>1, SequenceIs DEF IsReader, Lru
<1>10. \A i \in 1..n : \E j \in 1..n : order[i] = r.order[j]
  <2> TAKE i \in 1..n
  <2>1. CASE i = 1
    BY <1>6, <2>1 DEF Fronted
  <2>2. CASE i # 1 /\ i <= p
    <3>1. i - 1 \in 1..p - 1 /\ i - 1 + 1 = i /\ i - 1 \in 1..n
      BY <1>9, <2>2
    <3>2. order[i - 1 + 1] = r.order[i - 1]
      BY <1>6, <3>1 DEF Fronted
    <3> QED BY <3>1, <3>2
  <2>3. CASE i # 1 /\ ~(i <= p)
    <3>1. i \in p + 1..Len(r.order)
      BY <1>9, <2>3
    <3>2. order[i] = r.order[i]
      BY <1>6, <3>1 DEF Fronted
    <3> QED BY <3>2
  <2> QED BY <2>1, <2>2, <2>3
<1>11. \A j \in 1..n : \E i \in 1..n : order[i] = r.order[j]
  <2> TAKE j \in 1..n
  <2>1. CASE j = p
    <3>1. order[1] = r.order[j] /\ 1 \in 1..n
      BY <1>6, <1>9, <2>1 DEF Fronted
    <3> QED BY <3>1
  <2>2. CASE j < p
    <3>1. j \in 1..p - 1 /\ j + 1 \in 1..n
      BY <1>9, <2>2
    <3>2. order[j + 1] = r.order[j]
      BY <1>6, <3>1 DEF Fronted
    <3> QED BY <3>1, <3>2
  <2>3. CASE j > p
    <3>1. j \in p + 1..Len(r.order)
      BY <1>9, <2>3
    <3>2. order[j] = r.order[j]
      BY <1>6, <3>1 DEF Fronted
    <3> QED BY <3>2
  <2> QED BY <1>9, <2>1, <2>2, <2>3
<1>12. r.index = {order[i].id : i \in 1..n}
  <2> DEFINE before == r.order
  <2>1. r.index = {before[i].id : i \in 1..n}
    BY DEF IsReader
  <2>2. /\ \A i \in 1..n : \E j \in 1..n : order[i] = before[j]
        /\ \A j \in 1..n : \E i \in 1..n : order[i] = before[j]
    BY <1>10, <1>11
  <2> HIDE DEF e, n, before
  <2>3. \A x \in r.index : x \in {order[i].id : i \in 1..n}
    BY <2>1, <2>2
  <2>4. \A x \in {order[i].id : i \in 1..n} : x \in r.index
    BY <2>1, <2>2
  <2> QED BY <2>3, <2>4
<1>13. \A i \in 1..n : IsSequence(order[i].data)
  <2>1. \A i \in 1..n : IsSequence(r.order[i].data)
    BY DEF IsReader
  <2> QED BY <1>10, <2>1
<1>14. IsSequence(data)
  <2>1. IsSequence(r.data) /\ IsSequence(e.data)
    BY DEF IsReader
  <2> HIDE DEF e
  <2>2. Joined(r.data, e.data, data)
    BY <2>1, ConcatIs DEF data
  <2> QED BY <2>2 DEF Joined
<1>15. r.comp \in Compressors
  BY DEF IsReader
<1>16. IsReader(q, cap)
  BY <1>5, <1>8, <1>9, <1>12, <1>13, <1>14, <1>15 DEF IsReader
<1>17. NothingNew(q, r)
  BY <1>5, <1>9, <1>10 DEF NothingNew
<1>18. r.order[p].id = ph.page_id /\ q.data = r.data \o r.order[p].data
  BY <1>1, <1>5 DEF data
<1>19. Brought(q, r, ph.page_id)
  BY <1>18 DEF Brought
<1> QED BY <1>5, <1>16, <1>17, <1>19 DEF q

\* What reading the page ph from disk brings, and whether it can be read.
Frame(ph)    == PageFrame(ph, Encryptor, handle.key, disk.slots[ph.offset])
Fetched(ph)  == Decompress(CreateCompressor(ph.compression_codec), Frame(ph))
Outcome(ph)  ==
    LET result == PageResult(ph, Encryptor, handle.key, disk.slots[ph.offset])
    IN IF XSTD_isError(result) THEN result
       ELSE IF ~CanDecompress(CreateCompressor(ph.compression_codec), Frame(ph))
            THEN "kDecompressionFailed" ELSE "kSuccess"

\* Every cached page of q is e or one of r.
Gains(q, r, e) ==
    \A i \in 1..Len(q.order) : q.order[i] = e \/ \E j \in 1..Len(r.order) : q.order[i] = r.order[j]

LEMMA FetchedIsSequence ==
    ASSUME IsStore(disk.slots), NEW ph, ph.offset \in DOMAIN disk.slots
    PROVE  IsSequence(Fetched(ph))
<1> DEFINE stored == disk.slots[ph.offset]
           frame == Frame(ph)
<1>1. IsSequence(stored.frame.of)
  BY SequenceIs DEF IsStore
<1>2. IsSequence(Garbage.of)
  BY EmptyIs DEF Garbage
<1>3. frame = stored.frame \/ frame = Garbage
  BY DEF Frame, PageFrame, Decrypt, AesCtrText
<1>4. IsSequence(frame.of)
  BY <1>1, <1>2, <1>3
<1> HIDE DEF frame
<1>5. IsSequence(<<frame.by>>)
  BY OneIs
<1> QED BY <1>4, <1>5 DEF Fetched, Decompress, frame

\* The last page leaves a full cache.
LEMMA EvictedIs ==
    ASSUME NEW r, NEW cap \in Nat, IsReader(r, cap)
    PROVE  LET room == Evicted(r, cap)
               n == Len(r.order)
               k == IF cap > 0 /\ n >= cap THEN n - 1 ELSE n
           IN /\ DOMAIN room = DOMAIN r /\ room.result = r.result /\ room.data = r.data
              /\ room.comp = r.comp
              /\ k \in 0..n /\ IsSequence(room.order) /\ Len(room.order) = k
              /\ \A i \in 1..k : room.order[i] = r.order[i]
              /\ room.index = {r.order[i].id : i \in 1..k}
<1> DEFINE room == Evicted(r, cap)
           order == r.order
           n == Len(order)
           k == IF cap > 0 /\ n >= cap THEN n - 1 ELSE n
           id == [i \in 1..n |-> order[i].id]
<1>1. /\ IsSequence(order) /\ n \in Nat /\ DOMAIN order = 1..n
      /\ r.index = {order[i].id : i \in 1..n}
      /\ DOMAIN r = {"order", "index", "comp", "recent", "data", "result"}
  BY SequenceIs DEF IsReader, Lru
<1>2. \A i, j \in 1..n : order[i].id = order[j].id => i = j
  <2> DEFINE used == r.recent  m == Len(used)
  <2>1. /\ \A i \in 1..n : order[i].id = used[i]
        /\ \A i, j \in 1..m : used[i] = used[j] => i = j
    BY DEF IsReader, Lru, Distinct
  <2>2. m \in Nat /\ n <= m
    BY <1>1, SequenceIs DEF IsReader, Lru, KeptOf
  <2> HIDE DEF n, m, used
  <2>3. \A i \in 1..n : i \in 1..m
    BY <1>1, <2>2
  <2> QED BY <2>1, <2>3
<1>3. n > 0 => k \in 0..n
  BY <1>1
<1>4. Cardinality(r.index) = n
  <2>1. \A i, j \in 1..n : id[i] = id[j] => i = j
    BY <1>2
  <2>2. r.index = {id[i] : i \in 1..n}
    BY <1>1
  <2> HIDE DEF n, id
  <2>3. n \in Nat
    BY <1>1
  <2>4. Cardinality({id[i] : i \in 1..n}) = n
    BY <2>1, <2>3, CountIs
  <2> QED BY <2>2, <2>4
<1> HIDE DEF n, id, order
<1>5. CASE cap > 0 /\ n >= cap
  <2>1. n \in Nat \ {0} /\ k = n - 1 /\ n - 1 \in 0..n /\ n \in 1..n
    BY <1>1, <1>5
  <2>2. room = [r EXCEPT !.index = @ \ {order[n].id}, !.order = Front(@)]
    BY <1>4, <1>5 DEF Evicted, n, order
  <2>3. /\ DOMAIN room = DOMAIN r /\ room.result = r.result /\ room.data = r.data
        /\ room.comp = r.comp /\ room.order = Front(order) /\ room.index = r.index \ {order[n].id}
    <3> HIDE DEF room
    <3> QED BY <1>1, <2>2 DEF order
  <2> HIDE DEF room
  <2>4. Front(order) = SubSeq(order, 1, n - 1)
    BY DEF Front, n
  <2>5. /\ IsSequence(room.order) /\ Len(room.order) = n - 1
        /\ \A i \in 1..n - 1 : room.order[i] = order[i]
    <3>1. n - 1 \in 0..Len(order)
      BY <2>1 DEF n
    <3> QED BY <1>1, <2>3, <2>4, <3>1, PrefixIs
  <2>6. room.index = {order[i].id : i \in 1..n - 1}
    <3>1. \A x \in room.index : x \in {order[i].id : i \in 1..n - 1}
      <4> SUFFICES ASSUME NEW x \in room.index PROVE \E i \in 1..n - 1 : x = order[i].id
        OBVIOUS
      <4>1. PICK i \in 1..n : x = order[i].id
        BY <1>1, <2>3
      <4>2. i # n
        BY <2>3, <4>1
      <4> QED BY <2>1, <4>1, <4>2
    <3>2. \A i \in 1..n - 1 : order[i].id \in room.index
      <4> TAKE i \in 1..n - 1
      <4>1. i \in 1..n /\ i # n
        BY <2>1
      <4> QED BY <1>1, <1>2, <2>1, <2>3, <4>1
    <3> QED BY <3>1, <3>2
  <2> QED BY <2>1, <2>3, <2>5, <2>6 DEF n, order, room
<1>6. CASE ~(cap > 0 /\ n >= cap)
  <2>1. k = n /\ n \in 0..n
    BY <1>1, <1>6
  <2>2. room = r
    BY <1>4, <1>6 DEF Evicted
  <2> HIDE DEF room
  <2> QED BY <1>1, <2>1, <2>2 DEF n, order, room
<1> QED BY <1>5, <1>6

LEMMA MissFails ==
    ASSUME NEW r, IsReader(r, handle.cap), NEW ph, IsPage(ph), XSTD_isError(Outcome(ph))
    PROVE  LET q == Miss(r, ph) IN
           /\ IsReader(q, handle.cap) /\ q.result = Outcome(ph) /\ NothingNew(q, r)
<1> DEFINE q == Miss(r, ph)
           result == PageResult(ph, Encryptor, handle.key, disk.slots[ph.offset])
           comp == CreateCompressor(ph.compression_codec)
<1>1. DOMAIN r = {"order", "index", "comp", "recent", "data", "result"}
  BY DEF IsReader
<1>2. NextCompressor(r.comp, ph.compression_codec) = comp /\ comp \in Compressors
  BY NextIsRight DEF IsReader, IsPage, Compressors
<1> HIDE DEF comp
<1>3. CASE XSTD_isError(result)
  <2>1. q = [r EXCEPT !.result = result]
    BY <1>3 DEF Miss, Encryptor
  <2>2. Outcome(ph) = result
    BY <1>3 DEF Outcome
  <2> HIDE DEF q, result
  <2>3. /\ DOMAIN q = DOMAIN r /\ q.order = r.order /\ q.index = r.index /\ q.comp = r.comp
        /\ q.recent = r.recent /\ q.data = r.data /\ q.result = Outcome(ph)
    BY <1>1, <2>1, <2>2
  <2>4. IsReader(q, handle.cap)
    BY <2>3 DEF IsReader
  <2>5. NothingNew(q, r)
    BY <2>3 DEF NothingNew
  <2> QED BY <2>3, <2>4, <2>5 DEF q
<1>4. CASE ~XSTD_isError(result)
  <2>1. ~CanDecompress(comp, Frame(ph)) /\ Outcome(ph) = "kDecompressionFailed"
    BY <1>4 DEF Outcome, XSTD_isError, comp
  <2>2. q = [r EXCEPT !.result = "kDecompressionFailed", !.comp = comp]
    BY <1>2, <1>4, <2>1 DEF Miss, Encryptor, Frame
  <2> HIDE DEF q, result
  <2>3. /\ DOMAIN q = DOMAIN r /\ q.order = r.order /\ q.index = r.index /\ q.comp = comp
        /\ q.recent = r.recent /\ q.data = r.data /\ q.result = Outcome(ph)
    BY <1>1, <2>1, <2>2
  <2>4. IsReader(q, handle.cap)
    BY <1>2, <2>3 DEF IsReader
  <2>5. NothingNew(q, r)
    BY <2>3 DEF NothingNew
  <2> QED BY <2>3, <2>4, <2>5 DEF q
<1> QED BY <1>3, <1>4

LEMMA MissSucceeds ==
    ASSUME NEW r, handle.cap \in Nat, IsReader(r, handle.cap), IsStore(disk.slots),
           NEW ph, IsPage(ph), ph.offset \in DOMAIN disk.slots, ph.page_id \notin r.index,
           ~XSTD_isError(Outcome(ph))
    PROVE  LET q == Miss(r, ph) IN
           /\ IsReader(q, handle.cap) /\ q.result = r.result /\ q.data = r.data \o Fetched(ph)
           /\ Gains(q, r, [id |-> ph.page_id, data |-> Fetched(ph)])
<1> DEFINE q == Miss(r, ph)
           comp == CreateCompressor(ph.compression_codec)
           room == Evicted(r, handle.cap)
           e == [id |-> ph.page_id, data |-> Fetched(ph)]
           order == <<e>> \o room.order
           used == Used(r, ph.page_id)
           data == r.data \o Fetched(ph)
           n == Len(r.order)
           cap == handle.cap
           k == IF cap > 0 /\ n >= cap THEN n - 1 ELSE n
<1>1. DOMAIN r = {"order", "index", "comp", "recent", "data", "result"}
  BY DEF IsReader
<1>2. NextCompressor(r.comp, ph.compression_codec) = comp /\ comp \in Compressors
  BY NextIsRight DEF IsReader, IsPage, Compressors
<1> HIDE DEF comp
<1>3. ~XSTD_isError(PageResult(ph, Encryptor, handle.key, disk.slots[ph.offset]))
      /\ CanDecompress(comp, Frame(ph))
  BY DEF Outcome, XSTD_isError, comp
<1>4. Fetched(ph) = Decompress(comp, Frame(ph))
  BY DEF Fetched, comp
<1>5. q = [room EXCEPT !.comp = comp, !.order = order, !.index = @ \union {ph.page_id},
                       !.recent = used, !.data = data]
  <2>1. q = [room EXCEPT !.comp = comp,
                         !.order = <<[id |-> ph.page_id, data |-> Fetched(ph)]>> \o @,
                         !.index = @ \union {ph.page_id},
                         !.recent = Used(r, ph.page_id),
                         !.data = @ \o Fetched(ph)]
    BY <1>2, <1>3, <1>4 DEF Miss, Encryptor, Frame
  <2>2. room.data = r.data
    BY EvictedIs
  <2> HIDE DEF room, q
  <2> QED BY <2>1, <2>2
<1>6. /\ DOMAIN room = DOMAIN r /\ room.result = r.result
      /\ k \in 0..n /\ IsSequence(room.order) /\ Len(room.order) = k
      /\ \A i \in 1..k : room.order[i] = r.order[i]
      /\ room.index = {r.order[i].id : i \in 1..k}
  BY EvictedIs
<1> HIDE DEF q, room, e, order, used, data
<1>7. /\ DOMAIN q = {"order", "index", "comp", "recent", "data", "result"}
      /\ q.order = order /\ q.recent = used /\ q.data = data /\ q.comp = comp
      /\ q.index = room.index \union {ph.page_id} /\ q.result = r.result
  BY <1>1, <1>5, <1>6
<1>8. e.id = ph.page_id /\ e.data = Fetched(ph)
  BY DEF e
<1>9. Pushed(room.order, e, order)
  BY <1>6, PushedIs DEF order
<1>10. n \in Nat /\ k \in Nat /\ k <= n /\ Len(order) = k + 1 /\ order[1] = e
       /\ \A i \in 1..k : order[i + 1] = r.order[i]
  <2>1. n \in Nat
    BY SequenceIs DEF IsReader, Lru
  <2> QED BY <1>6, <1>9, <2>1 DEF Pushed
<1>11. \A i \in 1..k + 1 : order[i] = e \/ \E j \in 1..k : order[i] = r.order[j]
  <2> TAKE i \in 1..k + 1
  <2>1. CASE i = 1
    BY <1>10, <2>1
  <2>2. CASE i # 1
    <3> HIDE DEF k
    <3>1. i - 1 \in 1..k /\ i - 1 + 1 = i
      BY <1>10, <2>2
    <3>2. order[i - 1 + 1] = r.order[i - 1]
      BY <1>10, <3>1
    <3> QED BY <3>1, <3>2
  <2> QED BY <2>1, <2>2
<1>12. Lru(order, used, handle.cap)
  <2> DEFINE id == ph.page_id
  <2>1. \A i \in 1..Len(r.order) : r.order[i].id # e.id
    BY <1>8 DEF IsReader
  <2>2. \/ \E p \in 1..Len(r.recent) : r.recent[p] = id /\ Fronted(r.recent, p, id, used)
        \/ (\A p \in 1..Len(r.recent) : r.recent[p] # id) /\ Pushed(r.recent, id, used)
    <3>1. IsSequence(r.recent) /\ Distinct(r.recent)
      BY DEF IsReader, Lru
    <3> HIDE DEF id
    <3> QED BY <3>1, UsedIs DEF used, id
  <2>3. \/ \E p \in 1..Len(r.recent) : r.recent[p] = e.id /\ Fronted(r.recent, p, e.id, used)
        \/ (\A p \in 1..Len(r.recent) : r.recent[p] # e.id) /\ Pushed(r.recent, e.id, used)
    BY <1>8, <2>2
  <2>4. Lru(r.order, r.recent, cap)
    BY DEF IsReader
  <2>5. /\ Len(room.order) = IF cap > 0 /\ Len(r.order) >= cap THEN Len(r.order) - 1
                                                                ELSE Len(r.order)
        /\ \A i \in 1..Len(room.order) : room.order[i] = r.order[i]
        /\ IsSequence(room.order)
    BY <1>6
  <2> HIDE DEF id, cap, n, k
  <2>6. cap \in Nat
    BY DEF cap
  <2>7. Lru(order, used, cap)
    BY <1>9, <2>1, <2>3, <2>4, <2>5, <2>6, MissKeepsLru
  <2> QED BY <2>7 DEF cap
<1> HIDE DEF k
<1>13. q.index = {order[i].id : i \in 1..k + 1}
  <2> DEFINE before == r.order  id == ph.page_id
  <2>1. q.index = {before[i].id : i \in 1..k} \union {id}
    BY <1>6, <1>7
  <2>2. /\ \A i \in 1..k + 1 : order[i] = e \/ \E j \in 1..k : order[i] = before[j]
        /\ \A i \in 1..k : order[i + 1] = before[i]
        /\ order[1] = e /\ e.id = id /\ k \in Nat
    BY <1>8, <1>10, <1>11
  <2> HIDE DEF before, id, e
  <2>3. \A x \in q.index : x \in {order[i].id : i \in 1..k + 1}
    <3> SUFFICES ASSUME NEW x \in q.index PROVE \E i \in 1..k + 1 : x = order[i].id
      OBVIOUS
    <3>1. CASE x = id
      <4>1. 1 \in 1..k + 1
        BY <2>2
      <4> QED BY <2>2, <3>1, <4>1
    <3>2. CASE x # id
      <4>1. PICK i \in 1..k : x = before[i].id
        BY <2>1, <3>2
      <4>2. i + 1 \in 1..k + 1 /\ order[i + 1] = before[i]
        BY <2>2
      <4> QED BY <4>1, <4>2
    <3> QED BY <3>1, <3>2
  <2>4. \A i \in 1..k + 1 : order[i].id \in q.index
    BY <2>1, <2>2
  <2> QED BY <2>3, <2>4
<1>14. \A i \in 1..k + 1 : IsSequence(order[i].data)
  <2>1. IsSequence(e.data)
    BY <1>8, FetchedIsSequence
  <2>2. \A j \in 1..k : IsSequence(r.order[j].data)
    <3>1. \A j \in 1..n : IsSequence(r.order[j].data)
      BY DEF IsReader
    <3>2. \A j \in 1..k : j \in 1..n
      BY <1>10
    <3> QED BY <3>1, <3>2
  <2> QED BY <1>11, <2>1, <2>2
<1>15. IsSequence(data)
  <2>1. IsSequence(r.data) /\ IsSequence(Fetched(ph))
    BY FetchedIsSequence DEF IsReader
  <2>2. Joined(r.data, Fetched(ph), data)
    BY <2>1, ConcatIs DEF data
  <2> QED BY <2>2 DEF Joined
<1>16. IsReader(q, handle.cap)
  BY <1>2, <1>7, <1>10, <1>12, <1>13, <1>14, <1>15 DEF IsReader
<1>17. Gains(q, r, e)
  <2>1. \A j \in 1..k : j \in 1..n
    BY <1>10
  <2> QED BY <1>7, <1>10, <1>11, <2>1 DEF Gains
<1> QED BY <1>7, <1>16, <1>17 DEF q, e, data

-----------------------------------------------------------------------------
(* What reading brings.                                                     *)

Fits(enc, key) == enc # "none" => CipherKey(key)

\* A cached page is the piece of the file whose page it is, if that file is
\* not doubtful.
Honest(e, cat, known, doubt, enc) ==
    \A f \in DOMAIN cat \ doubt : \A i \in DOMAIN cat[f].pages :
      cat[f].pages[i].page_id = e.id =>
        /\ e.data = Chunks(known[f], PageBytes)[i]
        /\ ~(enc = "gcm" /\ cat[f].deleted)
Fresh(order, cat, known, doubt, enc) ==
    \A i \in 1..Len(order) : Honest(order[i], cat, known, doubt, enc)

LEMMA EncryptorIs == Encryptor \in Ciphers
BY DEF Encryptor, EncryptorOf, CreateEncryptor, Ciphers

LEMMA PageIsRight ==
    ASSUME NEW m, IsEntry(m), NEW f, NEW data, Fits(Encryptor, handle.key),
           Holds(m, f, data, Encryptor, handle.key, disk.slots), NEW i \in DOMAIN m.pages
    PROVE  /\ m.pages[i].offset \in DOMAIN disk.slots
           /\ IF Encryptor = "gcm" /\ m.deleted
              THEN Outcome(m.pages[i]) = "kDecryptionFailed"
              ELSE /\ Outcome(m.pages[i]) = "kSuccess"
                   /\ Fetched(m.pages[i]) = Chunks(data, PageBytes)[i]
<1> DEFINE ph == m.pages[i]
           chunk == Chunks(data, PageBytes)[i]
           stored == disk.slots[ph.offset]
           comp == CreateCompressor(ph.compression_codec)
           result == PageResult(ph, Encryptor, handle.key, stored)
<1>1. ph.offset \in DOMAIN disk.slots /\ PageHolds(ph, m.deleted, Encryptor, handle.key, chunk, stored)
  BY DEF Holds
<1>2. m.deleted \in BOOLEAN
  BY DEF IsEntry, IsMeta
<1>3. Encryptor # "none" => CipherKey(handle.key)
  BY DEF Fits
<1>4. IF Encryptor = "gcm" /\ m.deleted THEN result = "kDecryptionFailed"
      ELSE result = "kSuccess" /\ Frame(ph) = Compress(comp, chunk)
  <2> DEFINE d == m.deleted
             enc == Encryptor
             key == handle.key
  <2>1. d \in BOOLEAN /\ enc \in Ciphers /\ (enc # "none" => CipherKey(key))
        /\ PageHolds(ph, d, enc, key, chunk, stored)
    BY <1>1, <1>2, <1>3, EncryptorIs
  <2> HIDE DEF ph, chunk, stored, d, enc, key
  <2>2. PageReads(ph, d, enc, key, chunk, stored)
    BY <2>1, PageRoundTrip
  <2> QED BY <2>2 DEF PageReads, d, enc, key, result, comp, Frame, stored
<1>5. CanDecompress(comp, Compress(comp, chunk)) /\ Decompress(comp, Compress(comp, chunk)) = chunk
  <2> HIDE DEF ph, chunk
  <2> QED BY CodecRoundTrip
<1>6. Fetched(ph) = Decompress(comp, Frame(ph))
  BY DEF Fetched
<1>7. Outcome(ph) = IF XSTD_isError(result) THEN result
                    ELSE IF ~CanDecompress(comp, Frame(ph)) THEN "kDecompressionFailed"
                    ELSE "kSuccess"
  BY DEF Outcome
<1> HIDE DEF ph, chunk, result, comp
<1>8. IF Encryptor = "gcm" /\ m.deleted THEN Outcome(ph) = "kDecryptionFailed"
      ELSE Outcome(ph) = "kSuccess" /\ Fetched(ph) = chunk
  BY <1>4, <1>5, <1>6, <1>7 DEF XSTD_isError
<1> QED BY <1>1, <1>8 DEF ph, chunk

\* Whatever is read, the reader stays in order.
LEMMA ReadPageKeeps ==
    ASSUME NEW r, handle.cap \in Nat, IsReader(r, handle.cap), IsStore(disk.slots),
           NEW ph, IsPage(ph)
    PROVE  LET q == ReadPage(r, ph) IN
           /\ IsReader(q, handle.cap)
           /\ \/ NothingNew(q, r)
              \/ /\ ph.offset \in DOMAIN disk.slots /\ ~XSTD_isError(Outcome(ph))
                 /\ Gains(q, r, [id |-> ph.page_id, data |-> Fetched(ph)])
<1> DEFINE q == ReadPage(r, ph)
<1>0. DOMAIN r = {"order", "index", "comp", "recent", "data", "result"}
  BY DEF IsReader
<1>1. CASE XSTD_isError(r.result)
  <2>1. q = r
    BY <1>1 DEF ReadPage
  <2>2. NothingNew(r, r)
    BY DEF NothingNew
  <2> HIDE DEF q
  <2> QED BY <2>1, <2>2 DEF q
<1>2. CASE ~XSTD_isError(r.result) /\ ph.offset \notin DOMAIN disk.slots
  <2>1. q = [r EXCEPT !.result = "kArchiveTruncated"]
    BY <1>2 DEF ReadPage
  <2> HIDE DEF q
  <2>2. /\ DOMAIN q = DOMAIN r /\ q.order = r.order /\ q.index = r.index /\ q.comp = r.comp
        /\ q.recent = r.recent /\ q.data = r.data
    BY <1>0, <2>1
  <2>3. IsReader(q, handle.cap)
    BY <2>2 DEF IsReader
  <2>4. NothingNew(q, r)
    BY <2>2 DEF NothingNew
  <2> QED BY <2>3, <2>4 DEF q
<1>3. CASE ~XSTD_isError(r.result) /\ ph.offset \in DOMAIN disk.slots /\ ph.page_id \in r.index
  <2>1. q = Hit(r, ph)
    BY <1>3 DEF ReadPage
  <2>2. IsReader(Hit(r, ph), handle.cap) /\ NothingNew(Hit(r, ph), r)
    BY <1>3, HitIs
  <2> HIDE DEF q
  <2> QED BY <2>1, <2>2 DEF q
<1>4. CASE ~XSTD_isError(r.result) /\ ph.offset \in DOMAIN disk.slots /\ ph.page_id \notin r.index
  <2>1. q = Miss(r, ph)
    BY <1>4 DEF ReadPage
  <2>2. CASE XSTD_isError(Outcome(ph))
    <3>1. IsReader(Miss(r, ph), handle.cap) /\ NothingNew(Miss(r, ph), r)
      BY <2>2, MissFails
    <3> HIDE DEF q
    <3> QED BY <2>1, <3>1 DEF q
  <2>3. CASE ~XSTD_isError(Outcome(ph))
    <3>1. /\ IsReader(Miss(r, ph), handle.cap)
          /\ Gains(Miss(r, ph), r, [id |-> ph.page_id, data |-> Fetched(ph)])
      BY <1>4, <2>3, MissSucceeds
    <3> HIDE DEF q
    <3> QED BY <1>4, <2>1, <2>3, <3>1 DEF q
  <2> QED BY <2>2, <2>3
<1> QED BY <1>1, <1>2, <1>3, <1>4

\* A catalog whose files, but for the doubtful ones, are what the pages on
\* disk hold.
Known(cat) ==
    /\ WellFormed(cat) /\ IsStore(disk.slots) /\ Fits(Encryptor, handle.key)
    /\ handle.cap \in Nat
    /\ Arch(disk.slots, cat, truth, doubtful, Encryptor, handle.key)
FreshIn(r, cat) ==
    IsReader(r, handle.cap) /\ Fresh(r.order, cat, truth, doubtful, Encryptor)

LEMMA KnownIs ==
    ASSUME NEW cat, Known(cat), NEW f \in DOMAIN cat
    PROVE  /\ IsEntry(cat[f]) /\ Len(cat[f].pages) \in Nat \ {0}
           /\ DOMAIN cat[f].pages = 1..Len(cat[f].pages)
           /\ \A i \in DOMAIN cat[f].pages : IsPage(cat[f].pages[i])
           /\ f \notin doubtful =>
                /\ f \in DOMAIN truth /\ IsSequence(truth[f])
                /\ Holds(cat[f], f, truth[f], Encryptor, handle.key, disk.slots)
<1>1. IsEntry(cat[f])
  BY DEF Known, WellFormed
<1>2. f \notin doubtful => /\ f \in DOMAIN truth
                           /\ Holds(cat[f], f, truth[f], Encryptor, handle.key, disk.slots)
  BY DEF Known, Arch
<1>3. f \notin doubtful => IsSequence(truth[f])
  BY <1>2 DEF Holds
<1> QED BY <1>1, <1>2, <1>3 DEF IsEntry

\* What a page of a known file brings.
LEMMA KnownPage ==
    ASSUME NEW cat, Known(cat), NEW f \in DOMAIN cat \ doubtful, NEW i \in DOMAIN cat[f].pages
    PROVE  /\ cat[f].pages[i].offset \in DOMAIN disk.slots
           /\ IF Encryptor = "gcm" /\ cat[f].deleted
              THEN Outcome(cat[f].pages[i]) = "kDecryptionFailed"
              ELSE /\ Outcome(cat[f].pages[i]) = "kSuccess"
                   /\ Fetched(cat[f].pages[i]) = Chunks(truth[f], PageBytes)[i]
<1> DEFINE m == cat[f]
           data == truth[f]
<1>1. IsEntry(m) /\ Holds(m, f, data, Encryptor, handle.key, disk.slots)
  BY KnownIs
<1>2. Fits(Encryptor, handle.key) /\ i \in DOMAIN m.pages
  BY DEF Known
<1> HIDE DEF m, data
<1>3. /\ m.pages[i].offset \in DOMAIN disk.slots
      /\ IF Encryptor = "gcm" /\ m.deleted
         THEN Outcome(m.pages[i]) = "kDecryptionFailed"
         ELSE /\ Outcome(m.pages[i]) = "kSuccess"
              /\ Fetched(m.pages[i]) = Chunks(data, PageBytes)[i]
  BY <1>1, <1>2, PageIsRight
<1> QED BY <1>3 DEF m, data

\* A page read is fresh: no other file that is not doubtful has its id.
LEMMA FetchedIsHonest ==
    ASSUME NEW cat, Known(cat), NEW f \in DOMAIN cat, NEW i \in DOMAIN cat[f].pages,
           ~XSTD_isError(Outcome(cat[f].pages[i])), NEW e,
           e.id = cat[f].pages[i].page_id, e.data = Fetched(cat[f].pages[i])
    PROVE  Honest(e, cat, truth, doubtful, Encryptor)
<1> SUFFICES ASSUME NEW g \in DOMAIN cat \ doubtful, NEW j \in DOMAIN cat[g].pages,
                    cat[g].pages[j].page_id = e.id
             PROVE  /\ e.data = Chunks(truth[g], PageBytes)[j]
                    /\ ~(Encryptor = "gcm" /\ cat[g].deleted)
  BY DEF Honest
<1>1. CASE g = f
  <2>1. Holds(cat[f], f, truth[f], Encryptor, handle.key, disk.slots)
    BY <1>1, KnownIs
  <2>2. DOMAIN cat[f].pages = DOMAIN Chunks(truth[f], PageBytes)
        /\ \A k, l \in DOMAIN Chunks(truth[f], PageBytes) :
             cat[f].pages[k].page_id = cat[f].pages[l].page_id => k = l
    BY <2>1 DEF Holds
  <2>3. j = i
    BY <1>1, <2>2
  <2>4. IF Encryptor = "gcm" /\ cat[f].deleted
        THEN Outcome(cat[f].pages[i]) = "kDecryptionFailed"
        ELSE /\ Outcome(cat[f].pages[i]) = "kSuccess"
             /\ Fetched(cat[f].pages[i]) = Chunks(truth[f], PageBytes)[i]
    BY <1>1, KnownPage
  <2> QED BY <1>1, <2>3, <2>4 DEF XSTD_isError
<1>2. CASE g # f
  <2>1. e.id \in Ids(cat[f]) /\ e.id \in Ids(cat[g])
    BY DEF Ids
  <2>2. Ids(cat[g]) \intersect Ids(cat[f]) = {}
    BY <1>2 DEF Known, Arch, Apart
  <2> QED BY <2>1, <2>2
<1> QED BY <1>1, <1>2

LEMMA ReadPageFresh ==
    ASSUME NEW cat, Known(cat), NEW r, FreshIn(r, cat),
           NEW f \in DOMAIN cat, NEW i \in DOMAIN cat[f].pages
    PROVE  FreshIn(ReadPage(r, cat[f].pages[i]), cat)
<1> DEFINE ph == cat[f].pages[i]
           q == ReadPage(r, ph)
           e == [id |-> ph.page_id, data |-> Fetched(ph)]
<1>1. IsPage(ph)
  BY KnownIs
<1>2. /\ IsReader(q, handle.cap)
      /\ \/ NothingNew(q, r)
         \/ ph.offset \in DOMAIN disk.slots /\ ~XSTD_isError(Outcome(ph)) /\ Gains(q, r, e)
  <2> HIDE DEF ph
  <2>1. handle.cap \in Nat /\ IsReader(r, handle.cap) /\ IsStore(disk.slots)
    BY DEF Known, FreshIn
  <2> QED BY <1>1, <2>1, ReadPageKeeps
<1>3. \A j \in 1..Len(r.order) : Honest(r.order[j], cat, truth, doubtful, Encryptor)
  BY DEF FreshIn, Fresh
<1>4. ~XSTD_isError(Outcome(ph)) => Honest(e, cat, truth, doubtful, Encryptor)
  <2>1. e.id = ph.page_id /\ e.data = Fetched(ph)
    OBVIOUS
  <2> HIDE DEF e
  <2> QED BY <2>1, FetchedIsHonest
<1> HIDE DEF q, e, ph
<1>5. \A j \in 1..Len(q.order) : Honest(q.order[j], cat, truth, doubtful, Encryptor)
  BY <1>2, <1>3, <1>4 DEF NothingNew, Gains
<1> QED BY <1>2, <1>5 DEF FreshIn, Fresh, q, ph

\* The next page of a known file.
PageRead(q, r, cat, f, i) ==
    IF Encryptor = "gcm" /\ cat[f].deleted THEN q.result = "kDecryptionFailed"
    ELSE q.result = "kSuccess" /\ q.data = r.data \o Chunks(truth[f], PageBytes)[i]

LEMMA ReadPageIs ==
    ASSUME NEW cat, Known(cat), NEW r, FreshIn(r, cat), r.result = "kSuccess",
           NEW f \in DOMAIN cat \ doubtful, NEW i \in DOMAIN cat[f].pages
    PROVE  PageRead(ReadPage(r, cat[f].pages[i]), r, cat, f, i)
<1> DEFINE ph == cat[f].pages[i]
           q == ReadPage(r, ph)
           chunk == Chunks(truth[f], PageBytes)[i]
<1>1. IsPage(ph)
  BY KnownIs
<1>2. /\ ph.offset \in DOMAIN disk.slots
      /\ IF Encryptor = "gcm" /\ cat[f].deleted THEN Outcome(ph) = "kDecryptionFailed"
         ELSE Outcome(ph) = "kSuccess" /\ Fetched(ph) = chunk
  BY KnownPage
<1>3. handle.cap \in Nat /\ IsReader(r, handle.cap) /\ IsStore(disk.slots)
  BY DEF Known, FreshIn
<1>4. \A p \in 1..Len(r.order) : r.order[p].id = ph.page_id =>
        r.order[p].data = chunk /\ ~(Encryptor = "gcm" /\ cat[f].deleted)
  BY DEF FreshIn, Fresh, Honest
<1>5. ~XSTD_isError(r.result)
  BY DEF XSTD_isError
<1>6. q = IF ph.page_id \in r.index THEN Hit(r, ph) ELSE Miss(r, ph)
  BY <1>2, <1>5 DEF ReadPage
<1> HIDE DEF q, ph, chunk
<1>7. CASE ph.page_id \in r.index
  <2>1. Hit(r, ph).result = r.result
    BY <1>3, <1>7, HitIs
  <2>2. Brought(Hit(r, ph), r, ph.page_id)
    BY <1>3, <1>7, HitIs
  <2> QED BY <1>4, <1>6, <1>7, <2>1, <2>2 DEF PageRead, Brought, q, ph, chunk
<1>8. CASE ph.page_id \notin r.index
  <2>1. CASE Encryptor = "gcm" /\ cat[f].deleted
    <3>1. XSTD_isError(Outcome(ph)) /\ Outcome(ph) = "kDecryptionFailed"
      BY <1>2, <2>1 DEF XSTD_isError
    <3>2. Miss(r, ph).result = Outcome(ph)
      BY <1>1, <1>3, <3>1, MissFails
    <3> QED BY <1>6, <1>8, <2>1, <3>1, <3>2 DEF PageRead, q, ph
  <2>2. CASE ~(Encryptor = "gcm" /\ cat[f].deleted)
    <3>1. ~XSTD_isError(Outcome(ph)) /\ Fetched(ph) = chunk
      BY <1>2, <2>2 DEF XSTD_isError
    <3>2. Miss(r, ph).result = r.result /\ Miss(r, ph).data = r.data \o Fetched(ph)
      BY <1>1, <1>2, <1>3, <1>8, <3>1, MissSucceeds
    <3> QED BY <1>6, <1>8, <2>2, <3>1, <3>2 DEF PageRead, q, ph, chunk
  <2> QED BY <2>1, <2>2
<1> QED BY <1>7, <1>8

LEMMA ReadUpToIs ==
    ASSUME NEW g, NEW n \in Nat, NEW r, NEW pages, ReadUpTo(g, n, r, pages)
    PROVE  /\ g[0] = [r EXCEPT !.data = <<>>]
           /\ \A i \in 1..n : g[i] = ReadPage(g[i - 1], pages[i])
<1> DEFINE start == [r EXCEPT !.data = <<>>]
           E(i) == IF i = 0 THEN start ELSE ReadPage(g[i - 1], pages[i])
<1>1. g = [i \in 0..n |-> E(i)]
  BY DEF ReadUpTo
<1> HIDE DEF E
<1>2. 0 \in 0..n /\ \A i \in 1..n : i \in 0..n /\ i # 0
  OBVIOUS
<1>3. g[0] = E(0) /\ \A i \in 1..n : g[i] = E(i)
  BY <1>1, <1>2
<1>4. E(0) = start
  BY DEF E
<1>5. \A i \in 1..n : E(i) = ReadPage(g[i - 1], pages[i])
  <2> HIDE DEF start
  <2> QED BY <1>2 DEF E
<1> HIDE DEF start
<1> QED BY <1>3, <1>4, <1>5 DEF start

\* After i pages of a file the reader is in order, and fresh if it was.
LEMMA AssembleKeeps ==
    ASSUME NEW r, handle.cap \in Nat, IsReader(r, handle.cap), IsStore(disk.slots),
           NEW m, IsEntry(m)
    PROVE  IsReader(AssembleFile(r, m), handle.cap)
<1> DEFINE n == Len(m.pages)
           cap == handle.cap
<1>1. n \in Nat /\ \A i \in 1..n : IsPage(m.pages[i])
  BY DEF IsEntry
<1>2. \E g : /\ ReadUpTo(g, n, r, m.pages)
             /\ AssembleFile(r, m) = [g[n] EXCEPT !.result =
                  IF XSTD_isError(g[n].result) THEN g[n].result
                  ELSE IF Sha256(g[n].data) # m.checksum THEN "kChecksumMismatch"
                  ELSE "kSuccess"]
  BY <1>1, AssembleFileIs
<1>3. PICK g, v : ReadUpTo(g, n, r, m.pages) /\ AssembleFile(r, m) = [g[n] EXCEPT !.result = v]
  BY <1>2
<1> DEFINE T == {i \in 0..n : IsReader(g[i], cap)}
<1>4. /\ g[0] = [r EXCEPT !.data = <<>>]
      /\ \A i \in 1..n : g[i] = ReadPage(g[i - 1], m.pages[i])
  <2> DEFINE pages == m.pages
  <2>1. n \in Nat /\ ReadUpTo(g, n, r, pages)
    BY <1>1, <1>3
  <2> HIDE DEF n, pages
  <2>2. /\ g[0] = [r EXCEPT !.data = <<>>]
        /\ \A i \in 1..n : g[i] = ReadPage(g[i - 1], pages[i])
    BY <2>1, ReadUpToIs
  <2> QED BY <2>2 DEF pages
<1>5. 0 \in T
  <2>1. DOMAIN r = {"order", "index", "comp", "recent", "data", "result"}
    BY DEF IsReader
  <2>2. /\ DOMAIN g[0] = DOMAIN r /\ g[0].order = r.order /\ g[0].index = r.index
        /\ g[0].comp = r.comp /\ g[0].recent = r.recent /\ g[0].data = <<>>
    BY <1>4, <2>1
  <2>3. IsReader(g[0], cap)
    BY <2>2, EmptyIs DEF IsReader
  <2> QED BY <1>1, <2>3
<1>6. \A i \in 1..n : i - 1 \in T => i \in T
  <2> SUFFICES ASSUME NEW i \in 1..n, IsReader(g[i - 1], cap) PROVE IsReader(g[i], cap)
    BY <1>1
  <2> DEFINE q == g[i - 1]  ph == m.pages[i]
  <2>1. IsReader(q, cap) /\ IsPage(ph) /\ g[i] = ReadPage(q, ph)
    BY <1>1, <1>4
  <2> HIDE DEF q, ph
  <2>2. IsReader(ReadPage(q, ph), cap)
    BY <2>1, ReadPageKeeps
  <2> QED BY <2>1, <2>2
<1> HIDE DEF T
<1>7. 0..n \subseteq T
  <2> HIDE DEF n
  <2> QED BY <1>1, <1>5, <1>6, BoundedInduction
<1>8. IsReader(g[n], cap)
  BY <1>1, <1>7 DEF T
<1> DEFINE q == AssembleFile(r, m)
<1> HIDE DEF q
<1>9. /\ DOMAIN q = DOMAIN g[n] /\ q.order = g[n].order /\ q.index = g[n].index
      /\ q.comp = g[n].comp /\ q.recent = g[n].recent /\ q.data = g[n].data
  <2>1. DOMAIN g[n] = {"order", "index", "comp", "recent", "data", "result"}
    BY <1>8 DEF IsReader
  <2> QED BY <1>3, <2>1 DEF q
<1>10. IsReader(q, cap)
  BY <1>8, <1>9 DEF IsReader
<1> QED BY <1>10 DEF q

LEMMA AssembleFresh ==
    ASSUME NEW cat, Known(cat), NEW r, FreshIn(r, cat), NEW f \in DOMAIN cat
    PROVE  FreshIn(AssembleFile(r, cat[f]), cat)
<1> DEFINE m == cat[f]
           n == Len(m.pages)
<1>1. n \in Nat /\ DOMAIN m.pages = 1..n
  BY KnownIs
<1>2. \E g : /\ ReadUpTo(g, n, r, m.pages)
             /\ AssembleFile(r, m) = [g[n] EXCEPT !.result =
                  IF XSTD_isError(g[n].result) THEN g[n].result
                  ELSE IF Sha256(g[n].data) # m.checksum THEN "kChecksumMismatch"
                  ELSE "kSuccess"]
  <2> HIDE DEF m
  <2> QED BY <1>1, AssembleFileIs
<1>3. PICK g, v : ReadUpTo(g, n, r, m.pages) /\ AssembleFile(r, m) = [g[n] EXCEPT !.result = v]
  BY <1>2
<1> DEFINE T == {i \in 0..n : FreshIn(g[i], cat)}
<1>4. /\ g[0] = [r EXCEPT !.data = <<>>]
      /\ \A i \in 1..n : g[i] = ReadPage(g[i - 1], m.pages[i])
  <2> DEFINE pages == m.pages
  <2>1. n \in Nat /\ ReadUpTo(g, n, r, pages)
    BY <1>1, <1>3
  <2> HIDE DEF n, pages
  <2>2. /\ g[0] = [r EXCEPT !.data = <<>>]
        /\ \A i \in 1..n : g[i] = ReadPage(g[i - 1], pages[i])
    BY <2>1, ReadUpToIs
  <2> QED BY <2>2 DEF pages
<1>5. 0 \in T
  <2>1. DOMAIN r = {"order", "index", "comp", "recent", "data", "result"}
    BY DEF FreshIn, IsReader
  <2>2. /\ DOMAIN g[0] = DOMAIN r /\ g[0].order = r.order /\ g[0].index = r.index
        /\ g[0].comp = r.comp /\ g[0].recent = r.recent /\ g[0].data = <<>>
    BY <1>4, <2>1
  <2>3. FreshIn(g[0], cat)
    BY <2>2, EmptyIs DEF FreshIn, IsReader
  <2> QED BY <1>1, <2>3
<1>6. \A i \in 1..n : i - 1 \in T => i \in T
  <2> SUFFICES ASSUME NEW i \in 1..n, FreshIn(g[i - 1], cat) PROVE FreshIn(g[i], cat)
    BY <1>1
  <2> DEFINE q == g[i - 1]
  <2>1. FreshIn(q, cat) /\ i \in DOMAIN cat[f].pages /\ g[i] = ReadPage(q, cat[f].pages[i])
    BY <1>1, <1>4
  <2> HIDE DEF q
  <2>2. FreshIn(ReadPage(q, cat[f].pages[i]), cat)
    BY <2>1, ReadPageFresh
  <2> QED BY <2>1, <2>2
<1> HIDE DEF T
<1>7. 0..n \subseteq T
  <2> HIDE DEF n
  <2> QED BY <1>1, <1>5, <1>6, BoundedInduction
<1>8. FreshIn(g[n], cat)
  BY <1>1, <1>7 DEF T
<1> DEFINE q == AssembleFile(r, m)
<1> HIDE DEF q
<1>9. /\ DOMAIN q = DOMAIN g[n] /\ q.order = g[n].order /\ q.index = g[n].index
      /\ q.comp = g[n].comp /\ q.recent = g[n].recent /\ q.data = g[n].data
  <2>1. DOMAIN g[n] = {"order", "index", "comp", "recent", "data", "result"}
    BY <1>8 DEF FreshIn, IsReader
  <2> QED BY <1>3, <2>1 DEF q
<1>10. FreshIn(q, cat)
  BY <1>8, <1>9 DEF FreshIn, IsReader
<1> QED BY <1>10 DEF q, m

\* A known file is read as it was stored, or rejected.
LEMMA AssembleIs ==
    ASSUME NEW cat, Known(cat), NEW r, FreshIn(r, cat), r.result = "kSuccess",
           NEW f \in DOMAIN cat \ doubtful
    PROVE  LET q == AssembleFile(r, cat[f]) IN
           IF Encryptor = "gcm" /\ cat[f].deleted THEN q.result = "kDecryptionFailed"
           ELSE q.result = "kSuccess" /\ q.data = truth[f]
<1> DEFINE m == cat[f]
           n == Len(m.pages)
           chunks == Chunks(truth[f], PageBytes)
           bad == Encryptor = "gcm" /\ m.deleted
<1>1. /\ n \in Nat \ {0} /\ DOMAIN m.pages = 1..n /\ IsSequence(truth[f])
      /\ DOMAIN chunks = 1..n /\ m.checksum = Sha256(truth[f])
  BY KnownIs DEF Holds
<1>2. PICK parts : Together(parts, chunks, truth[f])
  BY <1>1, ChunksAre
<1>3. Len(chunks) = n
  <2> DEFINE l == Len(chunks)
  <2>1. l \in Nat /\ DOMAIN chunks = 1..l
    BY <1>1, ChunksAre
  <2>2. n \in Nat /\ 1..l = 1..n
    BY <1>1, <2>1
  <2> HIDE DEF chunks, n, l
  <2>3. \A i \in Int : i \in 1..l <=> i \in 1..n
    BY <2>2
  <2>4. l = n
    BY <2>1, <2>2, <2>3
  <2> QED BY <2>4 DEF l
<1>4. parts[0] = <<>> /\ parts[n] = truth[f] /\ \A i \in 1..n : parts[i] = parts[i - 1] \o chunks[i]
  BY <1>2, <1>3 DEF Together
<1>5. \E g : /\ ReadUpTo(g, n, r, m.pages)
             /\ AssembleFile(r, m) = [g[n] EXCEPT !.result =
                  IF XSTD_isError(g[n].result) THEN g[n].result
                  ELSE IF Sha256(g[n].data) # m.checksum THEN "kChecksumMismatch"
                  ELSE "kSuccess"]
  <2>1. Len(m.pages) \in Nat
    BY <1>1
  <2> HIDE DEF m
  <2> QED BY <2>1, AssembleFileIs
<1>6. PICK g : /\ ReadUpTo(g, n, r, m.pages)
               /\ AssembleFile(r, m) = [g[n] EXCEPT !.result =
                    IF XSTD_isError(g[n].result) THEN g[n].result
                    ELSE IF Sha256(g[n].data) # m.checksum THEN "kChecksumMismatch"
                    ELSE "kSuccess"]
  BY <1>5
<1> DEFINE Right(i) == /\ FreshIn(g[i], cat)
                       /\ IF bad /\ i # 0 THEN g[i].result = "kDecryptionFailed"
                          ELSE g[i].result = "kSuccess" /\ g[i].data = parts[i]
           T == {i \in 0..n : Right(i)}
<1>7. /\ g[0] = [r EXCEPT !.data = <<>>]
      /\ \A i \in 1..n : g[i] = ReadPage(g[i - 1], m.pages[i])
  <2> DEFINE pages == m.pages
  <2>1. n \in Nat /\ ReadUpTo(g, n, r, pages)
    BY <1>1, <1>6
  <2> HIDE DEF n, pages
  <2>2. /\ g[0] = [r EXCEPT !.data = <<>>]
        /\ \A i \in 1..n : g[i] = ReadPage(g[i - 1], pages[i])
    BY <2>1, ReadUpToIs
  <2> QED BY <2>2 DEF pages
<1>8. 0 \in T
  <2>1. DOMAIN r = {"order", "index", "comp", "recent", "data", "result"}
    BY DEF FreshIn, IsReader
  <2>2. /\ DOMAIN g[0] = DOMAIN r /\ g[0].order = r.order /\ g[0].index = r.index
        /\ g[0].comp = r.comp /\ g[0].recent = r.recent /\ g[0].data = <<>>
        /\ g[0].result = "kSuccess"
    BY <1>7, <2>1
  <2>3. FreshIn(g[0], cat)
    BY <2>2, EmptyIs DEF FreshIn, IsReader
  <2>4. 0 \in 0..n
    BY <1>1
  <2> HIDE DEF bad, n
  <2> QED BY <1>4, <2>2, <2>3, <2>4
<1>9. \A i \in 1..n : i - 1 \in T => i \in T
  <2> SUFFICES ASSUME NEW i \in 1..n, Right(i - 1) PROVE Right(i)
    BY <1>1
  <2> DEFINE q == g[i - 1]
             v == ReadPage(q, cat[f].pages[i])
  <2>1. FreshIn(q, cat) /\ i \in DOMAIN cat[f].pages /\ g[i] = v /\ i # 0
    BY <1>1, <1>7
  <2>2. FreshIn(v, cat)
    <3> HIDE DEF q
    <3> QED BY <2>1, ReadPageFresh
  <2>3. CASE q.result = "kSuccess"
    <3>1. IF bad THEN v.result = "kDecryptionFailed"
          ELSE v.result = "kSuccess" /\ v.data = q.data \o chunks[i]
      <4> DEFINE w == ReadPage(q, cat[f].pages[i])
      <4>1. PageRead(w, q, cat, f, i)
        <5> HIDE DEF q, v, m, n, chunks, bad
        <5> QED BY <2>1, <2>3, ReadPageIs
      <4> HIDE DEF q, w
      <4>2. w = v
        BY DEF w
      <4> QED BY <4>1, <4>2 DEF PageRead
    <3>2. ~bad => q.data = parts[i - 1]
      BY <2>3
    <3> HIDE DEF q, v, chunks, bad
    <3> QED BY <1>4, <2>1, <2>2, <3>1, <3>2
  <2>4. CASE q.result # "kSuccess"
    <3>1. bad /\ q.result = "kDecryptionFailed"
      BY <2>4
    <3>2. v = q
      <4> HIDE DEF q
      <4> QED BY <2>4 DEF ReadPage, XSTD_isError, v
    <3> HIDE DEF q, v, bad
    <3> QED BY <2>1, <2>2, <3>1, <3>2
  <2> QED BY <2>3, <2>4
<1> HIDE DEF T
<1>10. 0..n \subseteq T
  <2>1. n \in Nat
    BY <1>1
  <2> HIDE DEF n
  <2> QED BY <1>8, <1>9, <2>1, BoundedInduction
<1>11. Right(n) /\ n # 0
  BY <1>1, <1>10 DEF T
<1> DEFINE q == AssembleFile(r, m)
<1> HIDE DEF q, bad, n, m
<1>12. /\ q.data = g[n].data
       /\ q.result = IF XSTD_isError(g[n].result) THEN g[n].result
                     ELSE IF Sha256(g[n].data) # m.checksum THEN "kChecksumMismatch"
                     ELSE "kSuccess"
  <2>1. DOMAIN g[n] = {"order", "index", "comp", "recent", "data", "result"}
    BY <1>11 DEF FreshIn, IsReader
  <2> QED BY <1>6, <2>1 DEF q
<1>13. IF bad THEN q.result = "kDecryptionFailed" ELSE q.result = "kSuccess" /\ q.data = truth[f]
  BY <1>1, <1>4, <1>11, <1>12 DEF XSTD_isError
<1> QED BY <1>13 DEF q, m, bad

-----------------------------------------------------------------------------
(* What extracting a list of files brings.                                  *)

\* Of the first i files of a list, what a rewrite has of them.
Extracted(a, r, files, i) ==
    /\ IsReader(a.reading, handle.cap)
    /\ Known(handle.rcat) /\ FreshIn(r, handle.rcat) => FreshIn(a.reading, handle.rcat)
    /\ a.reading.result = "kSuccess" =>
         /\ IsSequence(a.files) /\ Len(a.files) = i
         /\ \A j \in 1..i :
              /\ a.files[j].file = files[j] /\ IsSequence(a.files[j].data)
              /\ Known(handle.rcat) /\ FreshIn(r, handle.rcat) /\ files[j] \notin doubtful
                   => a.files[j].data = truth[files[j]]

LEMMA AppendIs ==
    ASSUME NEW s, IsSequence(s), NEW x
    PROVE  /\ IsSequence(Append(s, x)) /\ Len(Append(s, x)) = Len(s) + 1
           /\ Append(s, x)[Len(s) + 1] = x /\ \A i \in 1..Len(s) : Append(s, x)[i] = s[i]
<1>1. PICK S : s \in Seq(S)
  BY DEF IsSequence
<1>2. s \in Seq(S \union {x}) /\ x \in S \union {x}
  BY <1>1
<1>3. /\ Append(s, x) \in Seq(S \union {x}) /\ Len(Append(s, x)) = Len(s) + 1
      /\ Append(s, x)[Len(s) + 1] = x /\ \A i \in 1..Len(s) : Append(s, x)[i] = s[i]
  BY <1>2, AppendProperties
<1> QED BY <1>3 DEF IsSequence

LEMMA NextExtractedIs ==
    ASSUME handle.cap \in Nat, IsStore(disk.slots), WellFormed(handle.rcat),
           NEW r, NEW files, NEW i \in Nat, files[i + 1] \in DOMAIN handle.rcat,
           NEW a, Extracted(a, r, files, i)
    PROVE  Extracted(NextExtracted(a, files[i + 1]), r, files, i + 1)
<1> DEFINE f == files[i + 1]
           cat == handle.rcat
           b == NextExtracted(a, f)
           read == AssembleFile(a.reading, cat[f])
           known == Known(cat) /\ FreshIn(r, cat)
<1>1. /\ IsReader(a.reading, handle.cap)
      /\ known => FreshIn(a.reading, cat)
      /\ a.reading.result = "kSuccess" =>
           /\ IsSequence(a.files) /\ Len(a.files) = i
           /\ \A j \in 1..i :
                /\ a.files[j].file = files[j] /\ IsSequence(a.files[j].data)
                /\ known /\ files[j] \notin doubtful => a.files[j].data = truth[files[j]]
  BY DEF Extracted
<1>2. CASE a.reading.result # "kSuccess"
  <2>1. b = a
    BY <1>2 DEF NextExtracted, XSTD_isError
  <2> HIDE DEF b
  <2>2. Extracted(a, r, files, i + 1)
    BY <1>1, <1>2 DEF Extracted
  <2> QED BY <2>1, <2>2 DEF b
<1>3. CASE a.reading.result = "kSuccess"
  <2>1. b = [reading |-> read, files |-> Append(a.files, [file |-> f, data |-> read.data])]
    BY <1>3 DEF NextExtracted, XSTD_isError
  <2>2. IsReader(read, handle.cap)
    <3> DEFINE q == a.reading  m == cat[f]
    <3>1. IsReader(q, handle.cap) /\ IsEntry(m)
      BY <1>1 DEF WellFormed
    <3> HIDE DEF q, m
    <3>2. IsReader(AssembleFile(q, m), handle.cap)
      BY <3>1, AssembleKeeps
    <3> QED BY <3>2 DEF q, m
  <2>3. IsSequence(read.data)
    BY <2>2 DEF IsReader
  <2>4. known => FreshIn(read, cat)
    <3> SUFFICES ASSUME known PROVE FreshIn(read, cat)
      OBVIOUS
    <3> DEFINE q == a.reading
    <3>1. FreshIn(q, cat) /\ Known(cat) /\ f \in DOMAIN cat
      BY <1>1
    <3> HIDE DEF q, cat, f
    <3>2. FreshIn(AssembleFile(q, cat[f]), cat)
      BY <3>1, AssembleFresh
    <3> QED BY <3>2 DEF q
  <2>5. known /\ f \notin doubtful /\ read.result = "kSuccess" => read.data = truth[f]
    <3> SUFFICES ASSUME known, f \notin doubtful, read.result = "kSuccess"
                 PROVE  read.data = truth[f]
      OBVIOUS
    <3> DEFINE q == a.reading
    <3>1. FreshIn(q, cat) /\ Known(cat) /\ f \in DOMAIN cat \ doubtful /\ q.result = "kSuccess"
      BY <1>1, <1>3
    <3> HIDE DEF q, cat, f
    <3>2. IF Encryptor = "gcm" /\ cat[f].deleted
          THEN AssembleFile(q, cat[f]).result = "kDecryptionFailed"
          ELSE /\ AssembleFile(q, cat[f]).result = "kSuccess"
               /\ AssembleFile(q, cat[f]).data = truth[f]
      BY <3>1, AssembleIs
    <3> QED BY <3>2 DEF q
  <2> DEFINE x == [file |-> f, data |-> read.data]
             more == Append(a.files, x)
  <2>6. x.file = f /\ x.data = read.data
    OBVIOUS
  <2> HIDE DEF read, x
  <2>7. /\ IsSequence(more) /\ Len(more) = i + 1 /\ more[i + 1] = x
        /\ \A j \in 1..i : more[j] = a.files[j]
    <3> DEFINE fs == a.files
    <3>1. IsSequence(fs) /\ Len(fs) = i
      BY <1>1, <1>3
    <3> HIDE DEF fs
    <3>2. /\ IsSequence(Append(fs, x)) /\ Len(Append(fs, x)) = i + 1
          /\ Append(fs, x)[i + 1] = x /\ \A j \in 1..i : Append(fs, x)[j] = fs[j]
      BY <3>1, AppendIs
    <3> QED BY <3>2 DEF fs
  <2>8. b.reading = read /\ b.files = more
    BY <2>1 DEF x
  <2> HIDE DEF more, known
  <2>9. read.result = "kSuccess" =>
          \A j \in 1..i + 1 :
            /\ more[j].file = files[j] /\ IsSequence(more[j].data)
            /\ known /\ files[j] \notin doubtful => more[j].data = truth[files[j]]
    <3> SUFFICES ASSUME read.result = "kSuccess", NEW j \in 1..i + 1
                 PROVE  /\ more[j].file = files[j] /\ IsSequence(more[j].data)
                        /\ known /\ files[j] \notin doubtful => more[j].data = truth[files[j]]
      OBVIOUS
    <3>1. CASE j = i + 1
      BY <2>3, <2>5, <2>6, <2>7, <3>1
    <3>2. CASE j # i + 1
      <4>1. j \in 1..i
        BY <3>2
      <4> QED BY <1>1, <1>3, <2>7, <4>1
    <3> QED BY <3>1, <3>2
  <2> HIDE DEF b
  <2> QED BY <2>2, <2>4, <2>7, <2>8, <2>9 DEF Extracted, known, b, f
<1> QED BY <1>2, <1>3

LEMMA ExtractedUpToIs ==
    ASSUME NEW g, NEW n \in Nat, NEW r, NEW files, ExtractedUpTo(g, n, r, files)
    PROVE  /\ g[0] = [reading |-> r, files |-> <<>>]
           /\ \A i \in 1..n : g[i] = NextExtracted(g[i - 1], files[i])
<1> DEFINE start == [reading |-> r, files |-> <<>>]
           E(i) == IF i = 0 THEN start ELSE NextExtracted(g[i - 1], files[i])
<1>1. g = [i \in 0..n |-> E(i)]
  BY DEF ExtractedUpTo
<1> HIDE DEF E
<1>2. 0 \in 0..n /\ \A i \in 1..n : i \in 0..n /\ i # 0
  OBVIOUS
<1>3. g[0] = E(0) /\ \A i \in 1..n : g[i] = E(i)
  BY <1>1, <1>2
<1>4. E(0) = start
  BY DEF E
<1>5. \A i \in 1..n : E(i) = NextExtracted(g[i - 1], files[i])
  <2> HIDE DEF start
  <2> QED BY <1>2 DEF E
<1> HIDE DEF start
<1> QED BY <1>3, <1>4, <1>5 DEF start

LEMMA AllExtracted ==
    ASSUME handle.cap \in Nat, IsStore(disk.slots), WellFormed(handle.rcat),
           NEW r, IsReader(r, handle.cap), NEW files, Len(files) \in Nat,
           \A i \in 1..Len(files) : files[i] \in DOMAIN handle.rcat
    PROVE  Extracted(AssembleAll(r, files), r, files, Len(files))
<1> DEFINE n == Len(files)
<1>1. PICK g : ExtractedUpTo(g, n, r, files) /\ AssembleAll(r, files) = g[n]
  BY AssembleAllIs
<1>2. n \in Nat
  OBVIOUS
<1> DEFINE T == {i \in 0..n : Extracted(g[i], r, files, i)}
<1>3. /\ g[0] = [reading |-> r, files |-> <<>>]
      /\ \A i \in 1..n : g[i] = NextExtracted(g[i - 1], files[i])
  <2> HIDE DEF n
  <2> QED BY <1>1, <1>2, ExtractedUpToIs
<1>4. 0 \in T
  <2>1. g[0].reading = r /\ g[0].files = <<>>
    BY <1>3
  <2>2. Extracted(g[0], r, files, 0)
    <3>1. \A j \in 1..0 : FALSE
      OBVIOUS
    <3> QED BY <2>1, <3>1, EmptyIs DEF Extracted
  <2> QED BY <1>2, <2>2
<1>5. \A i \in 1..n : i - 1 \in T => i \in T
  <2> SUFFICES ASSUME NEW i \in 1..n, Extracted(g[i - 1], r, files, i - 1)
               PROVE  Extracted(g[i], r, files, i)
    BY <1>2
  <2> DEFINE k == i - 1  a == g[k]
  <2>1. k \in Nat /\ k + 1 = i /\ files[i] \in DOMAIN handle.rcat
    OBVIOUS
  <2>2. Extracted(a, r, files, k) /\ g[i] = NextExtracted(a, files[i])
    BY <1>3
  <2> HIDE DEF k, a, n
  <2>3. Extracted(NextExtracted(a, files[k + 1]), r, files, k + 1)
    BY <2>1, <2>2, NextExtractedIs
  <2> QED BY <2>1, <2>2, <2>3
<1> HIDE DEF T
<1>6. 0..n \subseteq T
  <2> HIDE DEF n
  <2> QED BY <1>2, <1>4, <1>5, BoundedInduction
<1>7. Extracted(g[n], r, files, n)
  BY <1>2, <1>6 DEF T
<1> QED BY <1>1, <1>7

-----------------------------------------------------------------------------
(* What is there, whatever it holds: the invariant all the others rest on.  *)

DiskShape ==
    /\ DOMAIN disk = {"encryption", "compressed", "slots", "catalog", "footer"}
    /\ disk.encryption \in 0..255 /\ disk.compressed \in BOOLEAN
    /\ IsStore(disk.slots) /\ Len(disk.slots) <= MaxPages
    /\ WellFormed(DiskCatalog)
HandleShape ==
    /\ DOMAIN handle = {"mode", "key", "codec", "cap", "rcat", "wcat", "off", "next",
                        "order", "index", "comp"}
    /\ handle.mode \in {"closed", "create", "ro", "rw"}
    /\ handle.codec \in 0..255 /\ handle.cap \in Nat /\ handle.next \in Nat
    /\ handle.off \in 0..Len(disk.slots) /\ (handle.mode # "rw" => handle.off = 0)
    /\ WellFormed(handle.rcat) /\ WellFormed(handle.wcat)
GhostShape ==
    /\ DOMAIN truth \subseteq FileNames /\ doubtful \subseteq FileNames
    /\ handles <= MaxHandles /\ calls <= MaxCalls /\ failures <= MaxFailures
    /\ handles \in Nat /\ calls \in Nat /\ failures \in Nat
Base == DiskShape /\ HandleShape /\ GhostShape /\ IsReader(Reading, handle.cap)

LEMMA BoundsAre ==
    /\ MaxPages \in Nat /\ MaxHandles \in Nat /\ MaxCalls \in Nat /\ MaxFailures \in Nat
    /\ Encryptions \subseteq 0..255 /\ Codecs \subseteq 0..255 /\ Capacities \subseteq Nat
    /\ \A c \in Contents : IsSequence(c)
BY SessionAssumption DEF IsSequence

LEMMA LoadedIs ==
    ASSUME NEW cat, WellFormed(cat)
    PROVE  Deserialise(Serialise(cat)) = cat
BY WellFormedIs, CatalogRoundTrip

LEMMA FreshReader ==
    ASSUME NEW r, r = [order |-> <<>>, index |-> {}, comp |-> r.comp, recent |-> <<>>,
                       data |-> <<>>, result |-> "kSuccess"],
           r.comp \in Compressors, NEW cap \in Nat
    PROVE  IsReader(r, cap)
<1>1. /\ DOMAIN r = {"order", "index", "comp", "recent", "data", "result"}
      /\ r.order = <<>> /\ r.index = {} /\ r.recent = <<>> /\ r.data = <<>>
  OBVIOUS
<1>2. IsSequence(<<>>) /\ Len(<<>>) = 0 /\ \A i \in 1..0 : FALSE
  BY EmptyIs
<1>3. {r.order[i].id : i \in 1..0} = {}
  OBVIOUS
<1>4. Lru(<<>>, <<>>, cap)
  BY <1>2 DEF Lru, Distinct, KeptOf
<1> HIDE DEF Lru
<1>5. r.index = {r.order[i].id : i \in 1..Len(r.order)}
  BY <1>1, <1>2, <1>3
<1> QED BY <1>1, <1>2, <1>4, <1>5 DEF IsReader

LEMMA InitBase == Init => Base
<1> SUFFICES ASSUME Init PROVE Base
  OBVIOUS
<1>1. disk = NoArchive /\ handle = NoHandle /\ recent = <<>>
  BY DEF Init
<1>2. WellFormed(Empty) /\ IsStore(<<>>) /\ Len(<<>>) = 0
  BY EmptyWellFormed, EmptyIs DEF IsStore
<1>3. DiskShape
  <2>1. /\ DOMAIN disk = {"encryption", "compressed", "slots", "catalog", "footer"}
        /\ disk.encryption = 15 /\ disk.compressed = FALSE /\ disk.slots = <<>>
        /\ disk.catalog = Serialise(Empty)
    BY <1>1 DEF NoArchive, MakeNone, ALG_NONE
  <2>2. DiskCatalog = Empty
    BY <1>2, <2>1, LoadedIs DEF DiskCatalog
  <2>3. 15 \in 0..255 /\ 0 <= MaxPages
    BY BoundsAre
  <2> QED BY <1>2, <2>1, <2>2, <2>3 DEF DiskShape
<1>4. /\ DOMAIN handle = {"mode", "key", "codec", "cap", "rcat", "wcat", "off", "next",
                          "order", "index", "comp"}
      /\ handle.mode = "closed" /\ handle.codec = 0 /\ handle.cap = 0 /\ handle.next = 0
      /\ handle.off = 0 /\ handle.rcat = Empty /\ handle.wcat = Empty
      /\ handle.order = <<>> /\ handle.index = {} /\ handle.comp = NoCompressor
  BY <1>1 DEF NoHandle, NoCodec
<1>5. HandleShape
  <2>1. Len(disk.slots) \in Nat
    BY <1>3, SequenceIs DEF DiskShape, IsStore
  <2> QED BY <1>2, <1>4, <2>1 DEF HandleShape
<1>6. GhostShape
  BY BoundsAre DEF Init, Empty, GhostShape
<1>7. IsReader(Reading, handle.cap)
  <2> DEFINE r == Reading
  <2>1. r = [order |-> <<>>, index |-> {}, comp |-> r.comp, recent |-> <<>>,
             data |-> <<>>, result |-> "kSuccess"] /\ r.comp = NoCompressor
    BY <1>1, <1>4 DEF Reading
  <2> HIDE DEF r
  <2>2. r.comp \in Compressors /\ handle.cap \in Nat
    BY <1>4, <2>1 DEF Compressors
  <2>3. IsReader(r, handle.cap)
    BY <2>1, <2>2, FreshReader
  <2> QED BY <2>3 DEF r
<1> QED BY <1>3, <1>5, <1>6, <1>7 DEF Base

LEMMA NextPageIdIs ==
    ASSUME NEW cat, WellFormed(cat)
    PROVE  NextPageId(cat) \in Nat /\ Below(cat, NextPageId(cat))
<1> DEFINE S == PageIds(cat)
           of(f) == {ph.page_id : ph \in Range(cat[f].pages)}
<1>1. S = UNION {of(f) : f \in DOMAIN cat}
  BY DEF PageIds
<1>2. \A f \in DOMAIN cat : of(f) = Ids(cat[f])
  BY DEF Range, Ids
<1>3. \A f \in DOMAIN cat : IsFiniteSet(Ids(cat[f])) /\ Ids(cat[f]) \subseteq Nat
  <2> TAKE f \in DOMAIN cat
  <2> DEFINE pages == cat[f].pages  n == Len(pages)  F == [i \in 1..n |-> pages[i].page_id]
  <2>1. n \in Nat /\ DOMAIN pages = 1..n /\ \A i \in 1..n : pages[i].page_id \in Nat
    BY DEF WellFormed, IsEntry, IsPage
  <2>2. Ids(cat[f]) = {F[i] : i \in 1..n}
    BY <2>1 DEF Ids
  <2>3. IsFiniteSet(1..n)
    <3> HIDE DEF n
    <3> QED BY <2>1, FS_Interval
  <2>4. F \in Surjection(1..n, {F[i] : i \in 1..n})
    BY DEF Surjection
  <2> HIDE DEF F, n, pages
  <2>5. IsFiniteSet({F[i] : i \in 1..n})
    BY <2>3, <2>4, FS_Surjection
  <2>6. Ids(cat[f]) \subseteq Nat
    BY <2>1 DEF Ids, pages
  <2> QED BY <2>2, <2>5, <2>6
<1>4. IsFiniteSet(DOMAIN cat)
  BY SessionAssumption, FS_Subset DEF WellFormed
<1> HIDE DEF of
<1>5. IsFiniteSet({of(f) : f \in DOMAIN cat})
  <2> DEFINE G == [f \in DOMAIN cat |-> of(f)]
  <2>1. G \in Surjection(DOMAIN cat, {of(f) : f \in DOMAIN cat})
    BY DEF Surjection
  <2> HIDE DEF G
  <2> QED BY <1>4, <2>1, FS_Surjection
<1>6. IsFiniteSet(S) /\ S \subseteq Nat
  BY <1>1, <1>2, <1>3, <1>5, FS_UNION
<1>7. \A f \in DOMAIN cat : Ids(cat[f]) \subseteq S
  BY <1>1, <1>2
<1> HIDE DEF S
<1>8. CASE S = {}
  <2>1. NextPageId(cat) = 0
    BY <1>8 DEF NextPageId, S
  <2> QED BY <1>7, <1>8, <2>1 DEF Below
<1>9. CASE S # {}
  <2> DEFINE top == Max(S)
  <2>1. top \in S /\ \A x \in S : x <= top
    BY <1>6, <1>9, LargestIs
  <2>2. NextPageId(cat) = top + 1
    BY <1>9 DEF NextPageId, S
  <2> HIDE DEF top
  <2>3. top \in Nat /\ top + 1 \in Nat /\ \A x \in S : x < top + 1
    <3>1. top \in Nat /\ \A x \in S : x \in Nat /\ x <= top
      BY <1>6, <2>1
    <3> QED BY <3>1
  <2>4. \A f \in DOMAIN cat : \A id \in Ids(cat[f]) : id < NextPageId(cat)
    BY <1>7, <2>2, <2>3
  <2>5. NextPageId(cat) \in Nat
    BY <2>2, <2>3
  <2> QED BY <2>4, <2>5 DEF Below
<1> QED BY <1>8, <1>9

\* The state of a handle that was just opened.
LEMMA OpenedReader ==
    ASSUME handle'.order = <<>>, handle'.index = {}, recent' = <<>>,
           handle'.comp \in Compressors, handle'.cap \in Nat
    PROVE  IsReader(Reading', handle'.cap)
<1> DEFINE r == Reading'
<1>1. r = [order |-> <<>>, index |-> {}, comp |-> r.comp, recent |-> <<>>,
           data |-> <<>>, result |-> "kSuccess"] /\ r.comp = handle'.comp
  BY DEF Reading
<1> HIDE DEF r
<1>2. IsReader(r, handle'.cap)
  BY <1>1, FreshReader
<1> QED BY <1>2 DEF r

LEMMA CreateBase ==
    ASSUME Base, NEW raw \in Encryptions, NEW key \in OwnerKeys, NEW codec \in Codecs,
           Create(raw, key, codec)
    PROVE  Base'
<1>1. /\ disk' = [NoArchive EXCEPT !.encryption = raw,
                                   !.compressed = CodecType(codec) # UNCOMPRESSED]
      /\ handle' = [NoHandle EXCEPT !.mode = "create", !.key = KeyFor(raw, key),
                                    !.codec = codec]
      /\ truth' = Empty /\ doubtful' = {} /\ recent' = <<>>
      /\ handles' = handles + 1 /\ calls' = calls /\ failures' = failures
      /\ handles < MaxHandles
  BY DEF Create
<1>2. raw \in 0..255 /\ codec \in 0..255 /\ MaxPages \in Nat /\ MaxHandles \in Nat
  BY BoundsAre
<1>3. WellFormed(Empty) /\ IsStore(<<>>) /\ Len(<<>>) = 0 /\ DOMAIN Empty = {}
  BY EmptyWellFormed, EmptyIs DEF IsStore
<1>4. DiskShape'
  <2>1. /\ DOMAIN disk' = {"encryption", "compressed", "slots", "catalog", "footer"}
        /\ disk'.encryption = raw /\ disk'.compressed = (CodecType(codec) # UNCOMPRESSED)
        /\ disk'.slots = <<>> /\ disk'.catalog = Serialise(Empty)
    BY <1>1 DEF NoArchive
  <2>2. DiskCatalog' = Empty
    BY <1>3, <2>1, LoadedIs DEF DiskCatalog
  <2>3. disk'.compressed \in BOOLEAN /\ 0 <= MaxPages
    BY <1>2, <2>1
  <2> QED BY <1>2, <1>3, <2>1, <2>2, <2>3 DEF DiskShape
<1>5. /\ DOMAIN handle' = {"mode", "key", "codec", "cap", "rcat", "wcat", "off", "next",
                           "order", "index", "comp"}
      /\ handle'.mode = "create" /\ handle'.codec = codec /\ handle'.cap = 0
      /\ handle'.next = 0 /\ handle'.off = 0 /\ handle'.rcat = Empty /\ handle'.wcat = Empty
      /\ handle'.order = <<>> /\ handle'.index = {} /\ handle'.comp = NoCompressor
  BY <1>1 DEF NoHandle
<1>6. HandleShape'
  <2>1. Len(disk'.slots) \in Nat
    BY <1>4, SequenceIs DEF DiskShape, IsStore
  <2> QED BY <1>2, <1>3, <1>5, <2>1 DEF HandleShape
<1>7. GhostShape'
  BY <1>1, <1>2, <1>3 DEF Base, GhostShape
<1>8. IsReader(Reading', handle'.cap)
  <2>1. handle'.comp \in Compressors /\ handle'.cap \in Nat
    BY <1>5 DEF Compressors
  <2> QED BY <1>1, <1>5, <2>1, OpenedReader
<1> QED BY <1>4, <1>6, <1>7, <1>8 DEF Base

LEMMA OpenBase ==
    ASSUME Base, NEW mode \in {"ro", "rw"}, NEW key \in Keys, NEW codec \in Codecs,
           NEW cap \in Capacities, Open(mode, key, codec, cap)
    PROVE  Base'
<1> DEFINE own  == IF mode = "rw" THEN AppendCodec(codec) ELSE codec
           wcat == IF mode = "rw" THEN DiskCatalog ELSE Empty
           off  == IF mode = "rw" THEN Len(disk.slots) ELSE 0
           next == IF mode = "rw" THEN NextPageId(DiskCatalog) ELSE 0
<1>1. /\ handle' = [NoHandle EXCEPT
                      !.mode = mode, !.key = KeyFor(disk.encryption, key), !.cap = cap,
                      !.codec = own, !.rcat = DiskCatalog, !.wcat = wcat, !.off = off,
                      !.next = next]
      /\ recent' = <<>> /\ handles' = handles + 1 /\ handles < MaxHandles
      /\ disk' = disk /\ truth' = truth /\ doubtful' = doubtful
      /\ calls' = calls /\ failures' = failures
  BY DEF Open
<1>2. /\ codec \in 0..255 /\ cap \in Nat /\ MaxHandles \in Nat
      /\ WellFormed(Empty) /\ WellFormed(DiskCatalog) /\ Len(disk.slots) \in Nat
  BY BoundsAre, EmptyWellFormed, SequenceIs DEF Base, DiskShape, IsStore
<1>3. own \in 0..255 /\ WellFormed(wcat) /\ off \in 0..Len(disk.slots) /\ next \in Nat
  <2>1. Codec(ZSTD, XSTD_greedy) = 67
    BY DEF Codec, ZSTD, XSTD_greedy
  <2>2. AppendCodec(codec) \in 0..255
    BY <1>2, <2>1 DEF AppendCodec
  <2>3. NextPageId(DiskCatalog) \in Nat
    BY <1>2, NextPageIdIs
  <2> QED BY <1>2, <2>2, <2>3
<1> HIDE DEF own, wcat, off, next
<1>4. /\ DOMAIN handle' = {"mode", "key", "codec", "cap", "rcat", "wcat", "off", "next",
                           "order", "index", "comp"}
      /\ handle'.mode = mode /\ handle'.codec = own /\ handle'.cap = cap
      /\ handle'.next = next /\ handle'.off = off /\ handle'.rcat = DiskCatalog
      /\ handle'.wcat = wcat
      /\ handle'.order = <<>> /\ handle'.index = {} /\ handle'.comp = NoCompressor
  BY <1>1 DEF NoHandle
<1>5. DiskShape'
  BY <1>1 DEF Base, DiskShape, DiskCatalog
<1>6. HandleShape'
  <2>1. mode # "rw" => off = 0
    BY DEF off
  <2> QED BY <1>1, <1>2, <1>3, <1>4, <2>1 DEF HandleShape
<1>7. GhostShape'
  BY <1>1, <1>2 DEF Base, GhostShape
<1>8. IsReader(Reading', handle'.cap)
  <2>1. handle'.comp \in Compressors /\ handle'.cap \in Nat
    BY <1>2, <1>4 DEF Compressors
  <2> QED BY <1>1, <1>4, <2>1, OpenedReader
<1> QED BY <1>5, <1>6, <1>7, <1>8 DEF Base

LEMMA CloseBase ==
    ASSUME Base, Close
    PROVE  Base'
<1>1. /\ disk' = IF handle.mode = "create"
                 THEN [disk EXCEPT !.catalog = Serialise(handle.wcat),
                                   !.footer = Footer(EncryptorOf(disk.encryption), handle.key)]
                 ELSE disk
      /\ handle' = NoHandle /\ recent' = <<>> /\ truth' = truth /\ doubtful' = doubtful
      /\ handles' = handles /\ calls' = calls /\ failures' = failures
  BY DEF Close
<1>2. /\ DOMAIN disk = {"encryption", "compressed", "slots", "catalog", "footer"}
      /\ WellFormed(handle.wcat) /\ WellFormed(DiskCatalog) /\ WellFormed(Empty)
      /\ Len(disk.slots) \in Nat
  BY EmptyWellFormed, SequenceIs DEF Base, DiskShape, HandleShape, IsStore
<1>3. /\ DOMAIN disk' = DOMAIN disk /\ disk'.slots = disk.slots
      /\ disk'.encryption = disk.encryption /\ disk'.compressed = disk.compressed
  BY <1>1, <1>2
<1>4. WellFormed(DiskCatalog')
  <2>1. CASE handle.mode = "create"
    <3>1. disk'.catalog = Serialise(handle.wcat)
      BY <1>1, <1>2, <2>1
    <3> QED BY <1>2, <3>1, LoadedIs DEF DiskCatalog
  <2>2. CASE handle.mode # "create"
    BY <1>1, <1>2, <2>2 DEF DiskCatalog
  <2> QED BY <2>1, <2>2
<1>5. DiskShape'
  BY <1>3, <1>4 DEF Base, DiskShape
<1>6. /\ DOMAIN handle' = {"mode", "key", "codec", "cap", "rcat", "wcat", "off", "next",
                           "order", "index", "comp"}
      /\ handle'.mode = "closed" /\ handle'.codec = 0 /\ handle'.cap = 0
      /\ handle'.next = 0 /\ handle'.off = 0 /\ handle'.rcat = Empty /\ handle'.wcat = Empty
      /\ handle'.order = <<>> /\ handle'.index = {} /\ handle'.comp = NoCompressor
  BY <1>1 DEF NoHandle, NoCodec
<1>7. HandleShape'
  BY <1>2, <1>3, <1>6 DEF HandleShape
<1>8. GhostShape'
  BY <1>1 DEF Base, GhostShape
<1>9. IsReader(Reading', handle'.cap)
  <2>1. handle'.comp \in Compressors /\ handle'.cap \in Nat
    BY <1>6 DEF Compressors
  <2> QED BY <1>1, <1>6, <2>1, OpenedReader
<1> QED BY <1>5, <1>7, <1>8, <1>9 DEF Base

LEMMA KeptIs ==
    ASSUME Base
    PROVE  /\ IsStore(Kept) /\ Len(Kept) = handle.off /\ DOMAIN Kept = 1..handle.off
           /\ handle.off \in Nat /\ handle.off <= Len(disk.slots)
           /\ \A i \in 1..handle.off : Kept[i] = disk.slots[i]
<1> DEFINE slots == disk.slots
           n == handle.off
<1>1. IsSequence(slots) /\ n \in 0..Len(slots) /\ Len(slots) \in Nat
      /\ \A i \in 1..Len(slots) : IsSequence(slots[i].frame.of)
  BY SequenceIs DEF Base, DiskShape, HandleShape, IsStore
<1> HIDE DEF slots, n
<1>2. /\ IsSequence(SubSeq(slots, 1, n)) /\ Len(SubSeq(slots, 1, n)) = n
      /\ DOMAIN SubSeq(slots, 1, n) = 1..n
      /\ \A i \in 1..n : SubSeq(slots, 1, n)[i] = slots[i]
  BY <1>1, PrefixIs
<1>3. Kept = SubSeq(slots, 1, n)
  BY DEF Kept, slots, n
<1>4. \A i \in 1..n : i \in 1..Len(slots)
  BY <1>1
<1>5. IsStore(Kept)
  BY <1>1, <1>2, <1>3, <1>4 DEF IsStore
<1> QED BY <1>1, <1>2, <1>3, <1>5 DEF slots, n

\* The pages wiped are zeros, the others stay.
LEMMA ZeroedIs ==
    ASSUME NEW slots, IsStore(slots), NEW m
    PROVE  /\ IsStore(ZeroedPages(slots, m)) /\ Len(ZeroedPages(slots, m)) = Len(slots)
           /\ DOMAIN ZeroedPages(slots, m) = DOMAIN slots
           /\ \A o \in DOMAIN slots : o \notin Offsets(m) => ZeroedPages(slots, m)[o] = slots[o]
<1> DEFINE zeroed == {ph.offset : ph \in {p \in Range(m.pages) :
                       \/ PageEncrypted(p.flags)
                       \/ p.crc32 # XxHash(Compress(NoopCompressor, <<>>))}}
           z == [i \in DOMAIN slots |-> IF i \in zeroed THEN Zeros ELSE slots[i]]
           n == Len(slots)
<1>1. ZeroedPages(slots, m) = z
  BY DEF ZeroedPages
<1>2. zeroed \subseteq Offsets(m)
  BY DEF Range, Offsets
<1>3. n \in Nat /\ DOMAIN slots = 1..n /\ \A i \in 1..n : IsSequence(slots[i].frame.of)
  BY SequenceIs DEF IsStore
<1> HIDE DEF zeroed
<1>4. \A i \in 1..n : z[i] = IF i \in zeroed THEN Zeros ELSE slots[i]
  BY <1>3
<1>5. z = [i \in 1..n |-> z[i]]
  BY <1>3
<1> HIDE DEF z
<1>6. IsSequence(z) /\ Len(z) = n /\ DOMAIN z = 1..n
  <2> HIDE DEF n
  <2> QED BY <1>3, <1>5, FunctionIsSequence
<1>7. IsSequence(Zeros.frame.of)
  BY EmptyIs DEF Zeros, Garbage
<1>8. \A i \in 1..n : IsSequence(z[i].frame.of)
  BY <1>3, <1>4, <1>7
<1>9. IsStore(z)
  BY <1>6, <1>8 DEF IsStore
<1> QED BY <1>1, <1>2, <1>3, <1>4, <1>6, <1>9

LEMMA CommitBase ==
    ASSUME Base, handle.mode = "rw", NEW w, Building(w),
           handle.off <= Len(w.slots), Len(w.slots) <= MaxPages,
           NEW newTruth, DOMAIN newTruth \subseteq FileNames,
           NEW names, names \subseteq FileNames,
           NEW newDoubtful, newDoubtful \subseteq FileNames,
           Commit(w, newTruth, names, newDoubtful)
    PROVE  Base'
<1>1. /\ DOMAIN disk = {"encryption", "compressed", "slots", "catalog", "footer"}
      /\ DOMAIN handle = {"mode", "key", "codec", "cap", "rcat", "wcat", "off", "next",
                          "order", "index", "comp"}
      /\ IsStore(w.slots) /\ WellFormed(w.cat) /\ w.next \in Nat /\ Len(w.slots) \in Nat
      /\ handle.off \in Nat
  BY KeptIs, SequenceIs DEF Base, DiskShape, HandleShape, Building, IsStore
<1>2. calls' = calls + 1 /\ calls < MaxCalls
  BY DEF Commit, Called
<1>3. CASE /\ disk' = [disk EXCEPT !.slots = w.slots, !.catalog = Serialise(w.cat),
                                   !.footer = Footer(Encryptor, handle.key)]
           /\ handle' = [handle EXCEPT !.wcat = w.cat, !.next = w.next, !.off = Len(w.slots),
                                       !.rcat = DiskCatalog', !.order = <<>>, !.index = {}]
           /\ truth' = newTruth /\ doubtful' = newDoubtful /\ recent' = <<>>
           /\ UNCHANGED <<handles, failures>>
  <2>1. /\ DOMAIN disk' = DOMAIN disk /\ disk'.slots = w.slots
        /\ disk'.encryption = disk.encryption /\ disk'.compressed = disk.compressed
        /\ disk'.catalog = Serialise(w.cat)
    BY <1>1, <1>3
  <2>2. DiskCatalog' = w.cat
    BY <1>1, <2>1, LoadedIs DEF DiskCatalog
  <2>3. DiskShape'
    BY <1>1, <2>1, <2>2 DEF Base, DiskShape
  <2>4. /\ DOMAIN handle' = DOMAIN handle /\ handle'.mode = handle.mode
        /\ handle'.codec = handle.codec /\ handle'.cap = handle.cap
        /\ handle'.next = w.next /\ handle'.off = Len(w.slots) /\ handle'.rcat = w.cat
        /\ handle'.wcat = w.cat /\ handle'.order = <<>> /\ handle'.index = {}
        /\ handle'.comp = handle.comp
    BY <1>1, <1>3, <2>2
  <2>5. HandleShape'
    BY <1>1, <2>1, <2>4 DEF Base, HandleShape
  <2>6. GhostShape'
    BY <1>2, <1>3, BoundsAre DEF Base, GhostShape
  <2>7. IsReader(Reading', handle'.cap)
    <3>1. handle'.comp \in Compressors /\ handle'.cap \in Nat
      BY <2>4 DEF Base, HandleShape, IsReader, Reading
    <3> QED BY <1>3, <2>4, <3>1, OpenedReader
  <2> QED BY <2>3, <2>5, <2>6, <2>7 DEF Base
<1>4. CASE /\ failures < MaxFailures
           /\ \E footer \in {Zeros, Footer(Encryptor, handle.key)} :
                disk' = [disk EXCEPT !.slots = w.slots, !.catalog = Serialise(w.cat),
                                     !.footer = footer]
           /\ handle' = [handle EXCEPT !.wcat = w.cat, !.next = w.next]
           /\ doubtful' = doubtful \union names
           /\ failures' = failures + 1
           /\ UNCHANGED <<truth, recent, handles>>
  <2>1. /\ DOMAIN disk' = DOMAIN disk /\ disk'.slots = w.slots
        /\ disk'.encryption = disk.encryption /\ disk'.compressed = disk.compressed
        /\ disk'.catalog = Serialise(w.cat)
    BY <1>1, <1>4
  <2>2. DiskCatalog' = w.cat
    BY <1>1, <2>1, LoadedIs DEF DiskCatalog
  <2>3. DiskShape'
    BY <1>1, <2>1, <2>2 DEF Base, DiskShape
  <2>4. /\ DOMAIN handle' = DOMAIN handle /\ handle'.mode = handle.mode
        /\ handle'.codec = handle.codec /\ handle'.cap = handle.cap
        /\ handle'.next = w.next /\ handle'.off = handle.off /\ handle'.rcat = handle.rcat
        /\ handle'.wcat = w.cat /\ handle'.order = handle.order /\ handle'.index = handle.index
        /\ handle'.comp = handle.comp
    BY <1>1, <1>4
  <2>5. HandleShape'
    <3>1. handle.off \in 0..Len(w.slots)
      BY <1>1
    <3> QED BY <1>1, <2>1, <2>4, <3>1 DEF Base, HandleShape
  <2>6. GhostShape'
    BY <1>2, <1>4, BoundsAre DEF Base, GhostShape
  <2>7. IsReader(Reading', handle'.cap)
    <3>1. Reading' = Reading
      BY <1>4, <2>4 DEF Reading
    <3> QED BY <2>4, <3>1 DEF Base
  <2> QED BY <2>3, <2>5, <2>6, <2>7 DEF Base
<1> QED BY <1>3, <1>4 DEF Commit

\* A handle that only read something.
LEMMA KeepBase ==
    ASSUME Base, NEW r, IsReader(r, handle.cap), handle' = Keep(r), recent' = r.recent,
           disk' = disk, truth' = truth, doubtful' = doubtful, handles' = handles,
           failures' = failures, calls' \in Nat, calls' <= MaxCalls
    PROVE  Base' /\ handle' = [handle EXCEPT !.order = r.order, !.index = r.index,
                                             !.comp = r.comp]
<1>1. /\ DOMAIN handle = {"mode", "key", "codec", "cap", "rcat", "wcat", "off", "next",
                          "order", "index", "comp"}
      /\ handle' = [handle EXCEPT !.order = r.order, !.index = r.index, !.comp = r.comp]
  BY DEF Base, HandleShape, Keep
<1>2. /\ DOMAIN handle' = DOMAIN handle /\ handle'.mode = handle.mode
      /\ handle'.codec = handle.codec /\ handle'.cap = handle.cap
      /\ handle'.next = handle.next /\ handle'.off = handle.off /\ handle'.rcat = handle.rcat
      /\ handle'.wcat = handle.wcat /\ handle'.order = r.order /\ handle'.index = r.index
      /\ handle'.comp = r.comp
  BY <1>1
<1>3. DiskShape' /\ HandleShape'
  BY <1>2 DEF Base, DiskShape, HandleShape, DiskCatalog
<1>4. GhostShape'
  BY DEF Base, GhostShape
<1>5. IsReader(Reading', handle'.cap)
  <2> DEFINE q == Reading'
  <2>1. /\ DOMAIN q = {"order", "index", "comp", "recent", "data", "result"}
        /\ q.order = r.order /\ q.index = r.index /\ q.comp = r.comp /\ q.recent = r.recent
        /\ q.data = <<>>
    BY <1>2 DEF Reading
  <2> HIDE DEF q
  <2>2. IsReader(q, handle.cap)
    BY <2>1, EmptyIs DEF IsReader
  <2> QED BY <1>2, <2>2 DEF q
<1> QED BY <1>1, <1>3, <1>4, <1>5 DEF Base

LEMMA JobIs ==
    ASSUME NEW job \in Jobs
    PROVE  IsJob(job) /\ DOMAIN job = {"file", "data", "codec"}
<1>1. PICK f \in FileNames, data \in Contents, codec \in Codecs : job = Job(f, data, codec)
  BY DEF Jobs
<1>2. /\ DOMAIN job = {"file", "data", "codec"}
      /\ job.file = f /\ job.data = data /\ job.codec = codec
  BY <1>1 DEF Job
<1> QED BY <1>2, BoundsAre DEF IsJob

\* The writer's pages, catalog and next id, before and after a file is added.
Writer(slots) == [slots |-> slots, cat |-> handle.wcat, next |-> handle.next]

LEMMA WriterIs ==
    ASSUME Base, NEW slots, IsStore(slots), NEW job, IsJob(job)
    PROVE  /\ Building(Writer(slots)) /\ handle.codec \in 0..255
           /\ Writer(slots).slots = slots /\ Writer(slots).cat = handle.wcat
           /\ Writer(slots).next = handle.next
           /\ Added(slots, job) =
                WithFile(Writer(slots), Encryptor, handle.key, handle.codec, job)
           /\ Adds(Writer(slots), Added(slots, job), Encryptor, handle.key, handle.codec, job)
           /\ Building(Added(slots, job)) /\ Len(slots) <= Len(Added(slots, job).slots)
<1> DEFINE w == Writer(slots)
           v == Added(slots, job)
<1>1. w.slots = slots /\ w.cat = handle.wcat /\ w.next = handle.next
  BY DEF Writer
<1>2. v = WithFile(w, Encryptor, handle.key, handle.codec, job)
  BY DEF Added, Writer
<1> HIDE DEF w, v
<1>3. Building(w) /\ handle.codec \in 0..255
  BY <1>1 DEF Base, HandleShape, Building
<1>4. Adds(w, v, Encryptor, handle.key, handle.codec, job) /\ Building(v)
  <2> DEFINE key == handle.key  codec == handle.codec
  <2>1. codec \in 0..255 /\ v = WithFile(w, Encryptor, key, codec, job)
    BY <1>2, <1>3
  <2> HIDE DEF key, codec
  <2>2. Adds(w, v, Encryptor, key, codec, job) /\ Building(v)
    BY <1>3, <2>1, WithFileAdds
  <2> QED BY <2>2 DEF key, codec
<1>5. Len(slots) <= Len(v.slots)
  <2> DEFINE l == Len(w.slots)  n == Len(Chunks(job.data, PageBytes))
  <2>1. DOMAIN v.slots = 1..l + n /\ l \in Nat /\ n \in Nat
    BY <1>3, <1>4, SequenceIs DEF Adds, Building, IsStore
  <2>2. IsSequence(v.slots)
    BY <1>4 DEF Building, IsStore
  <2>3. DOMAIN v.slots = 1..Len(v.slots) /\ Len(v.slots) \in Nat
    BY <2>2, SequenceIs
  <2> DEFINE k == Len(v.slots)
  <2>4. 1..k = 1..l + n /\ k \in Nat
    BY <2>1, <2>3
  <2> HIDE DEF l, n, k
  <2>5. \A i \in Int : i \in 1..k <=> i \in 1..l + n
    BY <2>4
  <2>6. l <= k
    BY <2>1, <2>4, <2>5
  <2> QED BY <1>1, <2>6 DEF l, k
<1> QED BY <1>1, <1>2, <1>3, <1>4, <1>5 DEF w, v

LEMMA AddCreatingBase ==
    ASSUME Base, NEW job \in Jobs, AddFileCreating(job)
    PROVE  Base'
<1> DEFINE w == Added(disk.slots, job)
<1>1. IsJob(job)
  BY JobIs
<1>2. Building(w)
  BY <1>1, WriterIs DEF Base, DiskShape
<1>3. /\ Len(w.slots) <= MaxPages /\ disk' = [disk EXCEPT !.slots = w.slots]
      /\ handle' = [handle EXCEPT !.wcat = w.cat, !.next = w.next]
      /\ truth' = Put(truth, job.file, job.data)
      /\ doubtful' = doubtful /\ recent' = recent /\ handles' = handles
      /\ failures' = failures /\ calls < MaxCalls /\ calls' = calls + 1
  BY DEF AddFileCreating, Called
<1>9. handle.off <= Len(w.slots)
  <2>1. Len(disk.slots) <= Len(w.slots)
    BY <1>1, WriterIs DEF Base, DiskShape
  <2>2. handle.off \in Nat /\ Len(disk.slots) \in Nat /\ Len(w.slots) \in Nat
        /\ handle.off <= Len(disk.slots)
    BY <1>2, KeptIs, SequenceIs DEF Building, IsStore, Base, DiskShape
  <2> HIDE DEF w
  <2> QED BY <2>1, <2>2
<1> HIDE DEF w
<1>4. /\ DOMAIN disk = {"encryption", "compressed", "slots", "catalog", "footer"}
      /\ DOMAIN handle = {"mode", "key", "codec", "cap", "rcat", "wcat", "off", "next",
                          "order", "index", "comp"}
      /\ IsStore(w.slots) /\ WellFormed(w.cat) /\ w.next \in Nat /\ Len(w.slots) \in Nat
      /\ handle.off \in Nat
  BY <1>2, KeptIs, SequenceIs DEF Base, DiskShape, HandleShape, Building, IsStore
<1>5. DiskShape'
  <2>1. /\ DOMAIN disk' = DOMAIN disk /\ disk'.slots = w.slots
        /\ disk'.encryption = disk.encryption /\ disk'.compressed = disk.compressed
        /\ disk'.catalog = disk.catalog
    BY <1>3, <1>4
  <2> QED BY <1>3, <1>4, <2>1 DEF Base, DiskShape, DiskCatalog
<1>6. /\ DOMAIN handle' = DOMAIN handle /\ handle'.mode = handle.mode
      /\ handle'.codec = handle.codec /\ handle'.cap = handle.cap
      /\ handle'.next = w.next /\ handle'.off = handle.off /\ handle'.rcat = handle.rcat
      /\ handle'.wcat = w.cat /\ handle'.order = handle.order /\ handle'.index = handle.index
      /\ handle'.comp = handle.comp /\ disk'.slots = w.slots
  BY <1>3, <1>4
<1>7. HandleShape'
  <2>1. handle.off \in 0..Len(w.slots)
    BY <1>4, <1>9
  <2> QED BY <1>4, <1>6, <2>1 DEF Base, HandleShape
<1>8. GhostShape'
  <2>1. DOMAIN truth' = DOMAIN truth \union {job.file}
    BY <1>3, PutIs
  <2> QED BY <1>1, <1>3, <2>1, BoundsAre DEF Base, GhostShape, IsJob
<1>10. IsReader(Reading', handle'.cap)
  <2>1. Reading' = Reading
    BY <1>3, <1>6 DEF Reading
  <2> QED BY <1>6, <2>1 DEF Base
<1> QED BY <1>5, <1>7, <1>8, <1>10 DEF Base

LEMMA AddInPlaceBase ==
    ASSUME Base, NEW job \in Jobs, AddFileInPlace(job)
    PROVE  Base'
<1> DEFINE w == Added(Kept, job)
           newTruth == Put(truth, job.file, job.data)
<1>1. IsJob(job)
  BY JobIs
<1>2. Building(w) /\ handle.off <= Len(w.slots)
  BY <1>1, KeptIs, WriterIs
<1>3. handle.mode = "rw" /\ Len(w.slots) <= MaxPages
      /\ Commit(w, newTruth, {job.file}, doubtful \ {job.file})
  BY DEF AddFileInPlace
<1>4. DOMAIN newTruth = DOMAIN truth \union {job.file}
  BY PutIs
<1> HIDE DEF w, newTruth
<1>5. /\ DOMAIN newTruth \subseteq FileNames /\ {job.file} \subseteq FileNames
      /\ doubtful \ {job.file} \subseteq FileNames
  BY <1>1, <1>4 DEF IsJob, Base, GhostShape
<1> QED BY <1>2, <1>3, <1>5, CommitBase

\* The writer after a file was deleted, and whom a hard delete may have hurt.
Hurt(f, soft) == IF soft \/ f \notin doubtful THEN {} ELSE Sharing(f)
DeleteWriter(f, soft) ==
    [slots |-> IF soft THEN Kept ELSE ZeroedPages(Kept, handle.wcat[f]),
     cat   |-> IF soft /\ handle.wcat[f].deleted THEN handle.wcat
               ELSE IF soft THEN Put(handle.wcat, f, Flagged(handle.wcat[f]))
               ELSE Dropped(handle.wcat, {f}),
     next  |-> handle.next]

LEMMA DeleteWriterIs ==
    ASSUME Base, NEW f \in DOMAIN handle.wcat, NEW soft \in BOOLEAN
    PROVE  Building(DeleteWriter(f, soft)) /\ Len(DeleteWriter(f, soft).slots) = handle.off
<1> DEFINE meta == handle.wcat[f]
           before == handle.wcat
           w == DeleteWriter(f, soft)
<1>1. IsEntry(meta) /\ f \in FileNames /\ WellFormed(before) /\ handle.next \in Nat
  BY DEF Base, HandleShape, WellFormed
<1>2. IsStore(Kept) /\ Len(Kept) = handle.off
  BY KeptIs
<1>3. /\ w.slots = IF soft THEN Kept ELSE ZeroedPages(Kept, meta)
      /\ w.cat \in {before, Put(before, f, Flagged(meta)), Dropped(before, {f})}
      /\ w.next = handle.next
  BY DEF DeleteWriter
<1> HIDE DEF meta, before, w
<1>4. WellFormed(w.cat)
  <2>1. WellFormed(Put(before, f, Flagged(meta)))
    <3>1. IsEntry(Flagged(meta))
      BY <1>1, FlaggedIs
    <3> QED BY <1>1, <3>1, PutWellFormed
  <2>2. WellFormed(Dropped(before, {f}))
    BY <1>1, DroppedWellFormed
  <2> QED BY <1>1, <1>3, <2>1, <2>2
<1>5. IsStore(w.slots) /\ Len(w.slots) = handle.off
  BY <1>2, <1>3, ZeroedIs
<1> QED BY <1>1, <1>3, <1>4, <1>5 DEF Building, w

LEMMA DeleteInPlaceIs ==
    ASSUME NEW f, NEW soft, DeleteFileInPlace(f, soft)
    PROVE  /\ handle.mode = "rw" /\ f \in DOMAIN handle.wcat /\ f \in DOMAIN handle.rcat
           /\ Commit(DeleteWriter(f, soft), IF soft THEN truth ELSE Dropped(truth, {f}),
                     {f} \union Hurt(f, soft), doubtful \union Hurt(f, soft))
BY DEF DeleteFileInPlace, DeleteWriter, Hurt

LEMMA DeleteInPlaceBase ==
    ASSUME Base, NEW f \in DOMAIN handle.rcat, NEW soft \in BOOLEAN, DeleteFileInPlace(f, soft)
    PROVE  Base'
<1> DEFINE hurt == Hurt(f, soft)
           w == DeleteWriter(f, soft)
           newTruth == IF soft THEN truth ELSE Dropped(truth, {f})
<1>1. /\ handle.mode = "rw" /\ f \in DOMAIN handle.wcat
      /\ Commit(w, newTruth, {f} \union hurt, doubtful \union hurt)
  BY DeleteInPlaceIs
<1>2. DOMAIN handle.wcat \subseteq FileNames
  BY DEF Base, HandleShape, WellFormed
<1>3. hurt \subseteq FileNames
  BY <1>2 DEF Hurt, Sharing
<1>4. DOMAIN newTruth \subseteq FileNames
  <2>1. DOMAIN truth \subseteq FileNames
    BY DEF Base, GhostShape
  <2>2. DOMAIN Dropped(truth, {f}) = DOMAIN truth \ {f}
    BY DroppedIs
  <2>3. DOMAIN Dropped(truth, {f}) \subseteq FileNames
    BY <2>1, <2>2
  <2> QED BY <2>1, <2>3
<1>5. Building(w) /\ Len(w.slots) = handle.off
  BY <1>1, DeleteWriterIs
<1> HIDE DEF w, hurt, newTruth
<1>6. handle.off <= Len(w.slots) /\ Len(w.slots) <= MaxPages
  <2>1. handle.off \in Nat /\ handle.off <= Len(disk.slots) /\ Len(disk.slots) \in Nat
        /\ Len(disk.slots) <= MaxPages
    BY KeptIs, SequenceIs DEF Base, DiskShape, IsStore
  <2> QED BY <1>5, <2>1, BoundsAre
<1>7. {f} \union hurt \subseteq FileNames /\ doubtful \union hurt \subseteq FileNames
  BY <1>1, <1>2, <1>3 DEF Base, GhostShape
<1> QED BY <1>1, <1>4, <1>5, <1>6, <1>7, CommitBase

LEMMA MovedIs ==
    ASSUME NEW t, NEW f, NEW g
    PROVE  /\ f \notin DOMAIN t => Moved(t, f, g) = t
           /\ f \in DOMAIN t =>
                /\ DOMAIN Moved(t, f, g) = (DOMAIN t \ {f}) \union {g}
                /\ Moved(t, f, g)[g] = t[f]
                /\ \A h \in DOMAIN t \ {f, g} : Moved(t, f, g)[h] = t[h]
BY DEF Moved, Put, Dropped

\* The writer after a file was renamed.
RenamedMeta(f, g) == [handle.rcat[f] EXCEPT !.file_name = g]
RenameWriter(f, g) ==
    [slots |-> Kept, cat |-> Put(Dropped(handle.wcat, {f}), g, RenamedMeta(f, g)),
     next  |-> handle.next]

LEMMA RenameWriterIs ==
    ASSUME Base, NEW f \in DOMAIN handle.rcat, NEW g \in FileNames
    PROVE  /\ Building(RenameWriter(f, g)) /\ Len(RenameWriter(f, g).slots) = handle.off
           /\ IsEntry(RenamedMeta(f, g)) /\ RenamedMeta(f, g).pages = handle.rcat[f].pages
           /\ RenamedMeta(f, g).file_name = g
           /\ RenamedMeta(f, g).deleted = handle.rcat[f].deleted
           /\ RenamedMeta(f, g).checksum = handle.rcat[f].checksum
           /\ RenamedMeta(f, g).original_size = handle.rcat[f].original_size
<1> DEFINE m == RenamedMeta(f, g)
           before == handle.wcat
           w == RenameWriter(f, g)
<1>1. /\ IsEntry(handle.rcat[f]) /\ f \in FileNames /\ WellFormed(before)
      /\ handle.next \in Nat
  BY DEF Base, HandleShape, WellFormed
<1>2. /\ IsEntry(m) /\ m.pages = handle.rcat[f].pages /\ m.file_name = g
      /\ m.deleted = handle.rcat[f].deleted /\ m.checksum = handle.rcat[f].checksum
      /\ m.original_size = handle.rcat[f].original_size
  BY <1>1 DEF IsEntry, IsMeta, RenamedMeta
<1>3. w.slots = Kept /\ w.cat = Put(Dropped(before, {f}), g, m) /\ w.next = handle.next
  BY DEF RenameWriter
<1> HIDE DEF m, w, before
<1>4. WellFormed(w.cat)
  <2> DEFINE left == Dropped(before, {f})
  <2>1. WellFormed(left)
    BY <1>1, DroppedWellFormed
  <2> HIDE DEF left
  <2>2. WellFormed(Put(left, g, m))
    BY <1>2, <2>1, PutWellFormed
  <2> QED BY <1>3, <2>2 DEF left
<1>5. Building(w) /\ Len(w.slots) = handle.off
  BY <1>1, <1>3, <1>4, KeptIs DEF Building
<1> QED BY <1>2, <1>5 DEF m, w

LEMMA RenameInPlaceIs ==
    ASSUME NEW f, NEW g, RenameFileInPlace(f, g)
    PROVE  /\ handle.mode = "rw"
           /\ Commit(RenameWriter(f, g), Moved(truth, f, g), {f, g}, DoubtMoved(f, g))
BY DEF RenameFileInPlace, RenameWriter, RenamedMeta

LEMMA RenameInPlaceBase ==
    ASSUME Base, NEW f \in DOMAIN handle.rcat, NEW g \in FileNames, RenameFileInPlace(f, g)
    PROVE  Base'
<1> DEFINE w == RenameWriter(f, g)
           newTruth == Moved(truth, f, g)
<1>1. handle.mode = "rw" /\ Commit(w, newTruth, {f, g}, DoubtMoved(f, g))
  BY RenameInPlaceIs
<1>2. DOMAIN newTruth \subseteq FileNames
  <2>1. DOMAIN truth \subseteq FileNames
    BY DEF Base, GhostShape
  <2>2. CASE f \notin DOMAIN truth
    <3>1. newTruth = truth
      BY <2>2 DEF Moved
    <3> QED BY <2>1, <3>1
  <2>3. CASE f \in DOMAIN truth
    <3>1. DOMAIN newTruth = (DOMAIN truth \ {f}) \union {g}
      BY <2>3 DEF Moved, Put, Dropped
    <3> HIDE DEF newTruth
    <3> QED BY <2>1, <3>1
  <2> QED BY <2>2, <2>3
<1>3. DoubtMoved(f, g) \subseteq FileNames
  BY DEF DoubtMoved, Base, GhostShape
<1>4. Building(w) /\ Len(w.slots) = handle.off
  BY RenameWriterIs
<1> HIDE DEF w, newTruth
<1>5. handle.off <= Len(w.slots) /\ Len(w.slots) <= MaxPages
  <2>1. handle.off \in Nat /\ handle.off <= Len(disk.slots) /\ Len(disk.slots) \in Nat
        /\ Len(disk.slots) <= MaxPages
    BY KeptIs, SequenceIs DEF Base, DiskShape, IsStore
  <2> QED BY <1>4, <2>1, BoundsAre
<1>6. {f, g} \subseteq FileNames
  BY DEF Base, HandleShape, WellFormed
<1> QED BY <1>1, <1>2, <1>3, <1>4, <1>5, <1>6, CommitBase

-----------------------------------------------------------------------------
(* Rewrites.                                                                *)

\* A plan whose files the reader's catalog has, and whose new files may be.
IsPlan(plan) ==
    /\ IsSequence(plan.files) /\ IsSequence(plan.added)
    /\ \A i \in 1..Len(plan.files) :
         /\ plan.files[i] \in DOMAIN handle.rcat
         /\ plan.as[plan.files[i]] \in FileNames /\ plan.codec[plan.files[i]] \in 0..255
    /\ \A i \in 1..Len(plan.added) : IsJob(plan.added[i])

\* The jobs of a rewrite: a copy of each file, then the added one.
CopyOf(plan, file, job) ==
    job = Job(plan.as[file.file], file.data, plan.codec[file.file])
JobsFrom(plan, files, jobs) ==
    /\ IsSequence(jobs) /\ Len(jobs) = Len(files) + Len(plan.added)
    /\ Len(files) \in Nat /\ Len(plan.added) \in Nat
    /\ \A i \in 1..Len(files) : CopyOf(plan, files[i], jobs[i])
    /\ \A i \in 1..Len(plan.added) : jobs[Len(files) + i] = plan.added[i]

LEMMA JobsOfIs ==
    ASSUME NEW plan, IsSequence(plan.added), NEW files, IsSequence(files)
    PROVE  JobsFrom(plan, files, JobsOf(plan, files))
<1> DEFINE copies == [i \in DOMAIN files |->
                        Job(plan.as[files[i].file], files[i].data, plan.codec[files[i].file])]
           added == plan.added
           jobs == copies \o added
           n == Len(files)
<1>1. n \in Nat /\ DOMAIN files = 1..n /\ Len(added) \in Nat /\ IsSequence(added)
  BY SequenceIs
<1>2. /\ copies = [i \in 1..n |-> copies[i]]
      /\ \A i \in 1..n : CopyOf(plan, files[i], copies[i])
  BY <1>1 DEF CopyOf
<1>3. JobsOf(plan, files) = jobs
  BY DEF JobsOf
<1> HIDE DEF copies, added
<1>4. IsSequence(copies) /\ Len(copies) = n
  <2> HIDE DEF n
  <2> QED BY <1>1, <1>2, FunctionIsSequence
<1>5. Joined(copies, added, jobs)
  BY <1>1, <1>4, ConcatIs
<1> HIDE DEF jobs
<1>6. /\ IsSequence(jobs) /\ Len(jobs) = n + Len(added)
      /\ \A i \in 1..n : jobs[i] = copies[i]
      /\ \A i \in 1..Len(added) : jobs[n + i] = added[i]
  BY <1>4, <1>5 DEF Joined
<1>7. \A i \in 1..n : CopyOf(plan, files[i], jobs[i])
  BY <1>2, <1>6
<1> QED BY <1>1, <1>3, <1>6, <1>7 DEF JobsFrom, added

\* Files extracted for a plan.
IsExtract(plan, files) ==
    /\ IsSequence(files) /\ Len(files) = Len(plan.files)
    /\ \A i \in 1..Len(files) : files[i].file = plan.files[i] /\ IsSequence(files[i].data)

LEMMA JobsAreJobs ==
    ASSUME NEW plan, IsPlan(plan), NEW files, IsExtract(plan, files),
           NEW jobs, JobsFrom(plan, files, jobs)
    PROVE  /\ Len(jobs) \in Nat /\ \A i \in 1..Len(jobs) : IsJob(jobs[i])
<1> DEFINE n == Len(files)
           k == Len(plan.added)
<1>1. n \in Nat /\ k \in Nat /\ Len(jobs) = n + k
  BY DEF JobsFrom
<1>2. \A i \in 1..n : IsJob(jobs[i])
  <2> TAKE i \in 1..n
  <2> DEFINE f == files[i].file  data == files[i].data
             as == plan.as[f]  codec == plan.codec[f]
  <2>1. f = plan.files[i] /\ IsSequence(data) /\ i \in 1..Len(plan.files)
    BY DEF IsExtract
  <2>2. as \in FileNames /\ codec \in 0..255
    BY <2>1 DEF IsPlan
  <2>3. jobs[i] = Job(as, data, codec)
    BY DEF JobsFrom, CopyOf
  <2> HIDE DEF as, data, codec
  <2>4. jobs[i].file = as /\ jobs[i].data = data /\ jobs[i].codec = codec
    BY <2>3 DEF Job
  <2> QED BY <2>1, <2>2, <2>4 DEF IsJob
<1>3. \A i \in 1..k : IsJob(jobs[n + i])
  BY DEF JobsFrom, IsPlan
<1> HIDE DEF n, k
<1>4. ASSUME NEW i \in 1..n + k
      PROVE  IsJob(jobs[i])
  <2>1. CASE i <= n
    <3>1. i \in 1..n
      BY <1>1, <2>1
    <3> QED BY <1>2, <3>1
  <2>2. CASE ~(i <= n)
    <3>1. i - n \in 1..k /\ n + (i - n) = i
      BY <1>1, <2>2
    <3>2. IsJob(jobs[n + (i - n)])
      BY <1>3, <3>1
    <3> QED BY <3>1, <3>2
  <2> QED BY <2>1, <2>2
<1> QED BY <1>1, <1>4

LEMMA RewriteCodecIs == ASSUME Base PROVE RewriteCodec \in 0..255
<1>1. Codec(UNCOMPRESSED, 0) = 0
  BY DEF Codec, UNCOMPRESSED
<1> QED BY <1>1 DEF RewriteCodec, Base, HandleShape

\* The archive a rewrite makes.
LEMMA NewArchiveBuilt ==
    ASSUME Base, NEW plan, IsPlan(plan), NEW files, IsExtract(plan, files)
    PROVE  LET jobs == JobsOf(plan, files) IN
           /\ JobsFrom(plan, files, jobs)
           /\ BuiltFrom(NewArchive(plan, files), jobs, Len(jobs), Encryptor, handle.key,
                        RewriteCodec)
<1> DEFINE jobs == JobsOf(plan, files)
           n == Len(jobs)
           new == NewArchive(plan, files)
           key == handle.key
           own == RewriteCodec
<1>1. JobsFrom(plan, files, jobs)
  BY JobsOfIs DEF IsPlan, IsExtract
<1>2. n \in Nat /\ \A i \in 1..n : IsJob(jobs[i])
  <2> HIDE DEF jobs
  <2> QED BY <1>1, JobsAreJobs
<1>3. PICK g : BuiltUpTo(g, n, jobs, Encryptor, key, own) /\ new = g[n]
  BY <1>2, NewArchiveIs
<1>4. own \in 0..255
  BY RewriteCodecIs
<1> HIDE DEF jobs, n, new, key, own
<1>5. BuiltFrom(g[n], jobs, n, Encryptor, key, own)
  BY <1>2, <1>3, <1>4, BuiltIs
<1> QED BY <1>1, <1>3, <1>5 DEF jobs, n, new, key, own

LEMMA FlaggedInIs ==
    ASSUME NEW cat, WellFormed(cat), NEW fs
    PROVE  /\ WellFormed(FlaggedIn(cat, fs)) /\ DOMAIN FlaggedIn(cat, fs) = DOMAIN cat
           /\ \A f \in DOMAIN cat :
                FlaggedIn(cat, fs)[f] = IF f \in fs THEN Flagged(cat[f]) ELSE cat[f]
<1> DEFINE c == FlaggedIn(cat, fs)
<1>1. /\ DOMAIN c = DOMAIN cat /\ c = [f \in DOMAIN c |-> c[f]]
      /\ \A f \in DOMAIN cat : c[f] = IF f \in fs THEN Flagged(cat[f]) ELSE cat[f]
  BY DEF FlaggedIn
<1> HIDE DEF c
<1>2. \A f \in DOMAIN cat : IsEntry(cat[f]) /\ IsEntry(Flagged(cat[f]))
  <2> TAKE f \in DOMAIN cat
  <2> DEFINE m == cat[f]
  <2>1. IsEntry(m)
    BY DEF WellFormed
  <2> HIDE DEF m
  <2>2. IsEntry(Flagged(m))
    BY <2>1, FlaggedIs
  <2> QED BY <2>1, <2>2 DEF m
<1>3. WellFormed(c)
  BY <1>1, <1>2 DEF WellFormed
<1> QED BY <1>1, <1>3 DEF c

\* What a rewrite extracts.
LEMMA RewriteExtracts ==
    ASSUME Base, NEW plan, IsPlan(plan)
    PROVE  LET read == AssembleAll(Reading, plan.files) IN
           /\ Extracted(read, Reading, plan.files, Len(plan.files))
           /\ IsReader(read.reading, handle.cap)
           /\ ~XSTD_isError(read.reading.result) => IsExtract(plan, read.files)
<1> DEFINE read == AssembleAll(Reading, plan.files)
           r == Reading
           fs == plan.files
<1>1. /\ handle.cap \in Nat /\ IsStore(disk.slots) /\ WellFormed(handle.rcat)
      /\ IsReader(r, handle.cap) /\ Len(fs) \in Nat
      /\ \A i \in 1..Len(fs) : fs[i] \in DOMAIN handle.rcat
  BY SequenceIs DEF Base, DiskShape, HandleShape, IsPlan
<1> HIDE DEF r, fs
<1>2. Extracted(AssembleAll(r, fs), r, fs, Len(fs))
  BY <1>1, AllExtracted
<1>3. Extracted(read, r, fs, Len(fs))
  BY <1>2 DEF r, fs
<1> HIDE DEF read
<1>4. IsReader(read.reading, handle.cap)
  BY <1>3 DEF Extracted
<1>5. ~XSTD_isError(read.reading.result) => IsExtract(plan, read.files)
  BY <1>3 DEF Extracted, IsExtract, XSTD_isError, fs
<1> QED BY <1>3, <1>4, <1>5 DEF read, r, fs

LEMMA RewriteBase ==
    ASSUME Base, NEW plan, IsPlan(plan), NEW newTruth, DOMAIN newTruth \subseteq FileNames,
           NEW newDoubtful, newDoubtful \subseteq FileNames,
           Rewrite(plan, newTruth, newDoubtful)
    PROVE  Base'
<1> DEFINE read == AssembleAll(Reading, plan.files)
           new == NewArchive(plan, read.files)
<1>1. /\ handle.mode = "ro" /\ handles' = handles /\ failures' = failures
      /\ calls < MaxCalls /\ calls' = calls + 1
  BY DEF Rewrite, Called
<1>2. /\ IsReader(read.reading, handle.cap)
      /\ ~XSTD_isError(read.reading.result) => IsExtract(plan, read.files)
  BY RewriteExtracts
<1>3. CASE /\ ~XSTD_isError(read.reading.result) /\ plan.possible
           /\ Len(new.slots) <= MaxPages
           /\ disk' = [disk EXCEPT
                         !.compressed = CodecType(RewriteCodec) # UNCOMPRESSED,
                         !.slots      = new.slots,
                         !.catalog    = Serialise(FlaggedIn(new.cat, plan.flagged)),
                         !.footer     = Footer(Encryptor, handle.key)]
           /\ handle' = [handle EXCEPT !.rcat = DiskCatalog', !.order = <<>>, !.index = {},
                                       !.comp = NoCompressor]
           /\ truth' = newTruth /\ doubtful' = newDoubtful /\ recent' = <<>>
  <2> DEFINE cat == FlaggedIn(new.cat, plan.flagged)
             compressed == CodecType(RewriteCodec) # UNCOMPRESSED
  <2>1. IsStore(new.slots) /\ WellFormed(new.cat)
    <3> DEFINE files == read.files  jobs == JobsOf(plan, files)
    <3>1. IsExtract(plan, files)
      BY <1>2, <1>3
    <3> HIDE DEF files
    <3>2. BuiltFrom(NewArchive(plan, files), jobs, Len(jobs), Encryptor, handle.key,
                    RewriteCodec)
      BY <3>1, NewArchiveBuilt
    <3> HIDE DEF jobs
    <3> QED BY <3>2 DEF BuiltFrom, Building, files
  <2>2. compressed \in BOOLEAN
    OBVIOUS
  <2> HIDE DEF new, compressed
  <2>3. WellFormed(cat)
    <3> DEFINE c == new.cat
    <3>1. WellFormed(c)
      BY <2>1
    <3> HIDE DEF c
    <3>2. WellFormed(FlaggedIn(c, plan.flagged))
      BY <3>1, FlaggedInIs
    <3> QED BY <3>2 DEF c
  <2> HIDE DEF cat
  <2>4. /\ DOMAIN disk = {"encryption", "compressed", "slots", "catalog", "footer"}
        /\ DOMAIN handle = {"mode", "key", "codec", "cap", "rcat", "wcat", "off", "next",
                            "order", "index", "comp"}
        /\ handle.off \in Nat /\ Len(new.slots) \in Nat
    BY <2>1, KeptIs, SequenceIs DEF Base, DiskShape, HandleShape, IsStore
  <2>5. /\ DOMAIN disk' = DOMAIN disk /\ disk'.slots = new.slots
        /\ disk'.encryption = disk.encryption /\ disk'.compressed = compressed
        /\ disk'.catalog = Serialise(cat)
    BY <1>3, <2>4 DEF cat, compressed
  <2>6. DiskCatalog' = cat
    BY <2>3, <2>5, LoadedIs DEF DiskCatalog
  <2>7. DiskShape'
    BY <1>3, <2>1, <2>2, <2>3, <2>5, <2>6 DEF Base, DiskShape
  <2>8. /\ DOMAIN handle' = DOMAIN handle /\ handle'.mode = handle.mode
        /\ handle'.codec = handle.codec /\ handle'.cap = handle.cap
        /\ handle'.next = handle.next /\ handle'.off = handle.off /\ handle'.rcat = cat
        /\ handle'.wcat = handle.wcat /\ handle'.order = <<>> /\ handle'.index = {}
        /\ handle'.comp = NoCompressor
    BY <1>3, <2>4, <2>6
  <2>9. GhostShape'
    BY <1>1, <1>3, BoundsAre DEF Base, GhostShape
  <2>10. IsReader(Reading', handle'.cap)
    <3>1. handle'.comp \in Compressors /\ handle'.cap \in Nat
      BY <2>8 DEF Base, HandleShape, Compressors
    <3> QED BY <1>3, <2>8, <3>1, OpenedReader
  <2>11. HandleShape'
    <3>1. handle.off = 0
      BY <1>1 DEF Base, HandleShape
    <3> QED BY <2>3, <2>4, <2>5, <2>8, <3>1 DEF Base, HandleShape
  <2> QED BY <2>7, <2>9, <2>10, <2>11 DEF Base
<1>4. CASE /\ XSTD_isError(read.reading.result) \/ ~plan.possible
           /\ handle' = Keep(read.reading)
           /\ recent' = read.reading.recent
           /\ UNCHANGED <<disk, truth, doubtful>>
  <2> DEFINE r == read.reading
  <2>1. IsReader(r, handle.cap) /\ handle' = Keep(r) /\ recent' = r.recent
    BY <1>2, <1>4
  <2>2. calls' \in Nat /\ calls' <= MaxCalls
    BY <1>1, BoundsAre DEF Base, GhostShape
  <2> HIDE DEF r
  <2> QED BY <1>1, <1>4, <2>1, <2>2, KeepBase
<1> QED BY <1>3, <1>4 DEF Rewrite

\* The files of a plan that copies the live files, or some of them.
LEMMA SortedFiles ==
    ASSUME Base, NEW S, S \subseteq Live(handle.rcat)
    PROVE  /\ IsSequence(Sorted(S)) /\ Len(Sorted(S)) \in Nat
           /\ \A i \in 1..Len(Sorted(S)) : Sorted(S)[i] \in S
           /\ \A f \in S : \E i \in 1..Len(Sorted(S)) : Sorted(S)[i] = f
           /\ \A i, j \in 1..Len(Sorted(S)) : i < j <=> Sorted(S)[i] < Sorted(S)[j]
<1>1. S \subseteq FileNames
  BY DEF Base, HandleShape, WellFormed, Live
<1>2. S \subseteq Nat /\ IsFiniteSet(S)
  <2>1. FileNames \subseteq Nat /\ IsFiniteSet(FileNames)
    BY SessionAssumption
  <2> QED BY <1>1, <2>1, FS_Subset
<1> QED BY <1>2, SortedIs

LEMMA LiveIs ==
    ASSUME Base
    PROVE  /\ Live(handle.rcat) \subseteq DOMAIN handle.rcat
           /\ DOMAIN handle.rcat \subseteq FileNames
           /\ \A f \in DOMAIN handle.rcat : /\ IsEntry(handle.rcat[f])
                                            /\ FirstCodec(f) \in 0..255
                                            /\ FirstCodec(f) =
                                                 handle.rcat[f].pages[1].compression_codec
<1>1. ASSUME NEW f \in DOMAIN handle.rcat
      PROVE  /\ IsEntry(handle.rcat[f])
             /\ FirstCodec(f) \in 0..255
             /\ FirstCodec(f) = handle.rcat[f].pages[1].compression_codec
  <2> DEFINE pages == handle.rcat[f].pages
  <2>1. IsEntry(handle.rcat[f])
    BY DEF Base, HandleShape, WellFormed
  <2>2. Len(pages) \in Nat \ {0} /\ \A i \in 1..Len(pages) : IsPage(pages[i])
    BY <2>1 DEF IsEntry
  <2>3. Head(pages) = pages[1]
    <3>1. PICK S : pages \in Seq(S)
      BY <2>1 DEF IsEntry, IsMeta, IsSequence
    <3> HIDE DEF pages
    <3>2. pages # <<>>
      BY <2>2
    <3> QED BY <3>1, <3>2
  <2>4. IsPage(pages[1])
    <3>1. 1 \in 1..Len(pages)
      BY <2>2
    <3> QED BY <2>2, <3>1
  <2> QED BY <2>1, <2>3, <2>4 DEF FirstCodec, IsPage
<1> QED BY <1>1 DEF Live, Base, HandleShape, WellFormed

\* The plans of the calls that rewrite the archive.
AddPlan(job) == [CopyAll EXCEPT !.codec = [f \in Live(handle.rcat) |-> FirstCodec(f)],
                                !.added = <<job>>]
DeletePlan(f, soft) ==
    IF soft THEN [CopyAll EXCEPT !.flagged = {f}, !.possible = f \in Live(handle.rcat)]
            ELSE [CopyAll EXCEPT !.files = Sorted(Live(handle.rcat) \ {f})]
RenamePlan(f, g) == [CopyAll EXCEPT !.as[f] = g]
NoPlan == [CopyAll EXCEPT !.possible = FALSE]

LEMMA CopyAllIs ==
    /\ DOMAIN CopyAll = {"files", "as", "codec", "added", "flagged", "possible"}
    /\ CopyAll.files = Sorted(Live(handle.rcat)) /\ CopyAll.added = <<>>
    /\ CopyAll.flagged = {} /\ CopyAll.possible = TRUE
    /\ CopyAll.as = [f \in FileNames |-> f] /\ CopyAll.codec = [f \in FileNames |-> NoCodec]
BY DEF CopyAll, ListFiles

LEMMA AddPlanIs ==
    ASSUME Base, NEW job, IsJob(job)
    PROVE  /\ IsPlan(AddPlan(job)) /\ AddPlan(job).files = Sorted(Live(handle.rcat))
           /\ AddPlan(job).as = [f \in FileNames |-> f] /\ AddPlan(job).added = <<job>>
           /\ AddPlan(job).codec = [f \in Live(handle.rcat) |-> FirstCodec(f)]
           /\ AddPlan(job).flagged = {}
<1> DEFINE plan == AddPlan(job)
           live == Live(handle.rcat)
           codec == [f \in live |-> FirstCodec(f)]
           files == Sorted(live)
<1>1. /\ plan.files = files /\ plan.as = [f \in FileNames |-> f]
      /\ plan.codec = codec /\ plan.added = <<job>> /\ plan.flagged = {}
  BY CopyAllIs DEF AddPlan
<1> HIDE DEF plan
<1>2. IsSequence(files) /\ \A i \in 1..Len(files) : files[i] \in live
  BY SortedFiles
<1>3. live \subseteq DOMAIN handle.rcat /\ DOMAIN handle.rcat \subseteq FileNames
      /\ \A f \in live : FirstCodec(f) \in 0..255
  BY LiveIs
<1> HIDE DEF files, live, codec
<1>4. IsSequence(<<job>>) /\ Len(<<job>>) = 1 /\ <<job>>[1] = job
  BY OneIs
<1>5. \A i \in 1..Len(files) : /\ files[i] \in DOMAIN handle.rcat
                               /\ plan.as[files[i]] \in FileNames
                               /\ plan.codec[files[i]] \in 0..255
  <2> TAKE i \in 1..Len(files)
  <2> DEFINE x == files[i]
  <2>1. x \in live
    BY <1>2
  <2> HIDE DEF x
  <2>2. x \in DOMAIN handle.rcat /\ x \in FileNames /\ FirstCodec(x) \in 0..255
    BY <1>3, <2>1
  <2>3. plan.as[x] = x
    BY <1>1, <2>2
  <2>4. plan.codec[x] = FirstCodec(x)
    BY <1>1, <2>1 DEF codec
  <2> QED BY <2>2, <2>3, <2>4 DEF x
<1>6. \A i \in 1..1 : i = 1
  OBVIOUS
<1>7. \A i \in 1..Len(plan.added) : IsJob(plan.added[i])
  BY <1>1, <1>4, <1>6
<1>8. IsPlan(plan)
  BY <1>1, <1>2, <1>4, <1>5, <1>7 DEF IsPlan
<1> QED BY <1>1, <1>8 DEF plan, files, codec, live

\* A plan that copies live files under any names with the writer's codec.
LEMMA CopyPlanIs ==
    ASSUME Base, NEW plan, NEW S, S \subseteq Live(handle.rcat), plan.files = Sorted(S),
           plan.codec = [f \in FileNames |-> NoCodec], plan.added = <<>>,
           \A f \in S : plan.as[f] \in FileNames
    PROVE  IsPlan(plan)
<1> DEFINE files == Sorted(S)
<1>1. IsSequence(files) /\ \A i \in 1..Len(files) : files[i] \in S
  BY SortedFiles
<1> HIDE DEF files
<1>2. S \subseteq DOMAIN handle.rcat /\ S \subseteq FileNames
  BY LiveIs
<1>3. NoCodec \in 0..255
  BY DEF NoCodec
<1>4. \A i \in 1..Len(files) : /\ files[i] \in DOMAIN handle.rcat
                               /\ plan.as[files[i]] \in FileNames
                               /\ plan.codec[files[i]] \in 0..255
  BY <1>1, <1>2, <1>3
<1>5. IsSequence(<<>>) /\ \A i \in 1..Len(<<>>) : IsJob(plan.added[i])
  BY EmptyIs
<1> QED BY <1>1, <1>4, <1>5 DEF IsPlan, files

LEMMA DeletePlanIs ==
    ASSUME Base, NEW f, NEW soft \in BOOLEAN
    PROVE  LET plan == DeletePlan(f, soft)
               S == IF soft THEN Live(handle.rcat) ELSE Live(handle.rcat) \ {f}
           IN /\ IsPlan(plan) /\ plan.files = Sorted(S) /\ plan.added = <<>>
              /\ plan.as = [g \in FileNames |-> g] /\ S \subseteq Live(handle.rcat)
              /\ plan.codec = [g \in FileNames |-> NoCodec]
              /\ plan.flagged = IF soft THEN {f} ELSE {}
              /\ soft => plan.possible = (f \in Live(handle.rcat))
<1> DEFINE plan == DeletePlan(f, soft)
           live == Live(handle.rcat)
           S == IF soft THEN live ELSE live \ {f}
<1>1. /\ plan.files = Sorted(S) /\ plan.added = <<>>
      /\ plan.as = [g \in FileNames |-> g]
      /\ plan.codec = [g \in FileNames |-> NoCodec]
      /\ plan.flagged = IF soft THEN {f} ELSE {}
      /\ soft => plan.possible = (f \in live)
  <2>1. CASE soft
    BY <2>1, CopyAllIs DEF DeletePlan
  <2>2. CASE ~soft
    BY <2>2, CopyAllIs DEF DeletePlan
  <2> QED BY <2>1, <2>2
<1>2. S \subseteq live
  OBVIOUS
<1> HIDE DEF plan, S
<1>3. \A g \in S : plan.as[g] \in FileNames
  <2>1. live \subseteq FileNames
    BY LiveIs
  <2> QED BY <1>1, <1>2, <2>1
<1>4. IsPlan(plan)
  <2>1. /\ S \subseteq Live(handle.rcat) /\ plan.files = Sorted(S) /\ plan.added = <<>>
        /\ plan.codec = [g \in FileNames |-> NoCodec]
        /\ \A g \in S : plan.as[g] \in FileNames
    BY <1>1, <1>2, <1>3
  <2> HIDE DEF live
  <2> QED BY <2>1, CopyPlanIs
<1> QED BY <1>1, <1>2, <1>4 DEF plan, S

LEMMA RenamePlanIs ==
    ASSUME Base, NEW f, NEW g \in FileNames
    PROVE  LET plan == RenamePlan(f, g) IN
           /\ IsPlan(plan) /\ plan.files = Sorted(Live(handle.rcat)) /\ plan.added = <<>>
           /\ plan.codec = [h \in FileNames |-> NoCodec] /\ plan.flagged = {}
           /\ \A h \in FileNames : plan.as[h] = IF h = f THEN g ELSE h
<1> DEFINE plan == RenamePlan(f, g)
           live == Live(handle.rcat)
<1>1. /\ plan.files = Sorted(live) /\ plan.added = <<>>
      /\ plan.as = [CopyAll.as EXCEPT ![f] = g]
      /\ plan.codec = [h \in FileNames |-> NoCodec] /\ plan.flagged = {}
  BY CopyAllIs DEF RenamePlan
<1> HIDE DEF plan
<1>2. \A h \in FileNames : plan.as[h] = IF h = f THEN g ELSE h
  BY <1>1, CopyAllIs
<1>3. live \subseteq FileNames
  BY LiveIs
<1>4. IsPlan(plan)
  <2>1. /\ plan.files = Sorted(Live(handle.rcat)) /\ plan.added = <<>>
        /\ plan.codec = [h \in FileNames |-> NoCodec]
        /\ \A h \in Live(handle.rcat) : plan.as[h] \in FileNames
    BY <1>1, <1>2, <1>3
  <2> HIDE DEF live
  <2>2. Live(handle.rcat) \subseteq Live(handle.rcat)
    OBVIOUS
  <2> QED BY <2>1, <2>2, CopyPlanIs
<1> QED BY <1>1, <1>2, <1>4 DEF plan

LEMMA NoPlanIs ==
    ASSUME Base
    PROVE  IsPlan(NoPlan) /\ NoPlan.possible = FALSE
<1> DEFINE plan == NoPlan
           live == Live(handle.rcat)
<1>1. /\ plan.files = Sorted(live) /\ plan.added = <<>>
      /\ plan.as = [f \in FileNames |-> f]
      /\ plan.codec = [h \in FileNames |-> NoCodec] /\ plan.possible = FALSE
  BY CopyAllIs DEF NoPlan
<1> HIDE DEF plan
<1>2. \A h \in live : plan.as[h] \in FileNames
  BY <1>1, LiveIs
<1>3. IsPlan(plan)
  <2>1. /\ plan.files = Sorted(Live(handle.rcat)) /\ plan.added = <<>>
        /\ plan.codec = [h \in FileNames |-> NoCodec]
        /\ \A h \in Live(handle.rcat) : plan.as[h] \in FileNames
    BY <1>1, <1>2
  <2> HIDE DEF live
  <2>2. Live(handle.rcat) \subseteq Live(handle.rcat)
    OBVIOUS
  <2> QED BY <2>1, <2>2, CopyPlanIs
<1> QED BY <1>1, <1>3 DEF plan

-----------------------------------------------------------------------------
(* The first invariant.                                                     *)

LEMMA ReadFileBase ==
    ASSUME Base, NEW f \in DOMAIN handle.rcat, ReadFile(f)
    PROVE  Base'
<1> DEFINE r == Reading  m == handle.rcat[f]
<1>1. handle.cap \in Nat /\ IsReader(r, handle.cap) /\ IsStore(disk.slots) /\ IsEntry(m)
  BY DEF Base, DiskShape, HandleShape, WellFormed
<1> HIDE DEF r, m
<1>2. IsReader(AssembleFile(r, m), handle.cap)
  BY <1>1, AssembleKeeps
<1> DEFINE read == AssembleFile(r, m)
<1>3. /\ handle' = Keep(read) /\ recent' = read.recent /\ disk' = disk /\ truth' = truth
      /\ doubtful' = doubtful /\ handles' = handles /\ failures' = failures /\ calls' = calls
  BY DEF ReadFile, r, m
<1> HIDE DEF read
<1>4. calls' \in Nat /\ calls' <= MaxCalls
  BY <1>3 DEF Base, GhostShape
<1> QED BY <1>2, <1>3, <1>4, KeepBase DEF read

LEMMA UnchangedBase ==
    ASSUME Base, disk' = disk, handle' = handle, truth' = truth, doubtful' = doubtful,
           recent' = recent, handles' = handles, failures' = failures,
           calls' \in Nat, calls' <= MaxCalls
    PROVE  Base'
<1>1. DiskShape' /\ HandleShape' /\ GhostShape'
  BY DEF Base, DiskShape, HandleShape, GhostShape, DiskCatalog
<1>2. Reading' = Reading
  BY DEF Reading
<1> QED BY <1>1, <1>2 DEF Base

LEMMA NextBase == Base /\ [Next]_vars => Base'
<1> SUFFICES ASSUME Base, [Next]_vars PROVE Base'
  OBVIOUS
<1>0. /\ DOMAIN truth \subseteq FileNames /\ doubtful \subseteq FileNames
      /\ \A fs : DOMAIN Dropped(truth, fs) \subseteq FileNames
      /\ \A fs : DOMAIN Dropped(LiveTruth, fs) \subseteq FileNames
      /\ DOMAIN LiveTruth \subseteq FileNames
  BY DEF Base, GhostShape, Dropped, LiveTruth
<1>1. CASE \E raw \in Encryptions, key \in OwnerKeys, codec \in Codecs : Create(raw, key, codec)
  BY <1>1, CreateBase
<1>2. CASE \E mode \in {"ro", "rw"}, key \in Keys, codec \in Codecs, cap \in Capacities :
             Open(mode, key, codec, cap)
  BY <1>2, OpenBase
<1>3. CASE Close
  BY <1>3, CloseBase
<1>4. CASE \E job \in Jobs : AddFileCreating(job)
  BY <1>4, AddCreatingBase
<1>5. CASE \E job \in Jobs : AddFileInPlace(job)
  BY <1>5, AddInPlaceBase
<1>6. CASE \E f \in DOMAIN handle.rcat, soft \in BOOLEAN : DeleteFileInPlace(f, soft)
  BY <1>6, DeleteInPlaceBase
<1>7. CASE \E f \in DOMAIN handle.rcat, g \in FileNames : RenameFileInPlace(f, g)
  BY <1>7, RenameInPlaceBase
<1>8. CASE \E job \in Jobs : AddFileRewriting(job)
  <2>1. PICK job \in Jobs : AddFileRewriting(job)
    BY <1>8
  <2>2. IsJob(job)
    BY JobIs
  <2> DEFINE newTruth == Put(LiveTruth, job.file, job.data)
             newDoubtful == doubtful \ {job.file}
             plan == AddPlan(job)
  <2>3. IsPlan(plan)
    BY <2>2, AddPlanIs
  <2>4. DOMAIN newTruth \subseteq FileNames
    BY <1>0, <2>2 DEF Put, IsJob
  <2>5. newDoubtful \subseteq FileNames
    BY <1>0
  <2>6. Rewrite(plan, newTruth, newDoubtful)
    BY <2>1 DEF AddFileRewriting, AddPlan
  <2> HIDE DEF newTruth, newDoubtful, plan
  <2> QED BY <2>3, <2>4, <2>5, <2>6, RewriteBase
<1>9. CASE \E f \in DOMAIN handle.rcat, soft \in BOOLEAN : DeleteFileRewriting(f, soft)
  <2>1. PICK f \in DOMAIN handle.rcat, soft \in BOOLEAN : DeleteFileRewriting(f, soft)
    BY <1>9
  <2> DEFINE newTruth == IF soft THEN LiveTruth ELSE Dropped(LiveTruth, {f})
             plan == DeletePlan(f, soft)
  <2>2. IsPlan(plan)
    BY DeletePlanIs
  <2>3. DOMAIN newTruth \subseteq FileNames
    BY <1>0
  <2>4. Rewrite(plan, newTruth, doubtful)
    BY <2>1 DEF DeleteFileRewriting, DeletePlan
  <2> HIDE DEF newTruth, plan
  <2> QED BY <1>0, <2>2, <2>3, <2>4, RewriteBase
<1>10. CASE \E f \in DOMAIN handle.rcat, g \in FileNames : RenameFileRewriting(f, g)
  <2>1. PICK f \in DOMAIN handle.rcat, g \in FileNames : RenameFileRewriting(f, g)
    BY <1>10
  <2> DEFINE keeps == f \notin Live(handle.rcat) \/ (g \in Live(handle.rcat) /\ g > f)
             newTruth == IF keeps THEN Dropped(LiveTruth, {f} \ {g}) ELSE Moved(LiveTruth, f, g)
             newDoubtful == IF keeps THEN doubtful ELSE DoubtMoved(f, g)
             plan == RenamePlan(f, g)
  <2>2. IsPlan(plan)
    BY RenamePlanIs
  <2>3. DOMAIN newTruth \subseteq FileNames
    <3>1. DOMAIN Moved(LiveTruth, f, g) \subseteq FileNames
      BY <1>0 DEF Moved, Put, Dropped
    <3> QED BY <1>0, <3>1
  <2>4. newDoubtful \subseteq FileNames
    BY <1>0 DEF DoubtMoved
  <2>5. Rewrite(plan, newTruth, newDoubtful)
    BY <2>1 DEF RenameFileRewriting, RenamePlan
  <2> HIDE DEF newTruth, newDoubtful, plan
  <2> QED BY <2>2, <2>3, <2>4, <2>5, RewriteBase
<1>11. CASE CannotOpenSource
  <2>1. CASE handle.mode \in {"create", "rw"} /\ AddFileFromDiskFails
    <3>1. calls' \in Nat /\ calls' <= MaxCalls
      BY <2>1, BoundsAre DEF AddFileFromDiskFails, Called, Base, GhostShape
    <3> QED BY <2>1, <3>1, UnchangedBase DEF AddFileFromDiskFails
  <2>2. CASE Rewrite(NoPlan, truth, doubtful)
    BY <1>0, <2>2, NoPlanIs, RewriteBase
  <2> QED BY <1>11, <2>1, <2>2 DEF CannotOpenSource, NoPlan
<1>12. CASE \E f \in DOMAIN handle.rcat : ExtractFile(f)
  BY <1>12, ReadFileBase DEF ExtractFile
<1>13. CASE \E f \in DOMAIN handle.rcat : RecoverFile(f)
  BY <1>13, ReadFileBase DEF RecoverFile
<1>14. CASE UNCHANGED vars
  <2>1. calls' \in Nat /\ calls' <= MaxCalls
    BY <1>14 DEF vars, Base, GhostShape
  <2> QED BY <1>14, <2>1, UnchangedBase DEF vars
<1> QED
  BY <1>1, <1>2, <1>3, <1>4, <1>5, <1>6, <1>7, <1>8, <1>9, <1>10, <1>11, <1>12, <1>13, <1>14
     DEF Next

\* The shapes of the archive, of the handle and of what the caller believes,
\* which every other invariant stands on, hold through every call.
THEOREM BaseHolds == Spec => []Base
<1>1. Init => Base
  BY InitBase
<1>2. Base /\ [Next]_vars => Base'
  BY NextBase
<1> QED BY <1>1, <1>2, PTL DEF Spec

LEMMA BaseTypes == Base => TypeOK
<1> SUFFICES ASSUME Base PROVE TypeOK
  OBVIOUS
<1>1. Len(disk.slots) \in Nat
  BY SequenceIs DEF Base, DiskShape, IsStore
<1> QED BY <1>1 DEF Base, DiskShape, HandleShape, GhostShape, TypeOK

\* Archive, handle, cache and the caller's record always have their types,
\* whatever is stored, opened, rewritten or failed.
THEOREM SessionTypes == Spec => []TypeOK
BY BaseHolds, BaseTypes, PTL

LEMMA BaseLru == Base => LruOrder
<1> SUFFICES ASSUME Base PROVE LruOrder
  OBVIOUS
<1> DEFINE order == handle.order  used == recent  n == Len(order)  cap == handle.cap
           kept == IF handle.cap = 0 \/ Len(recent) <= handle.cap THEN Len(recent)
                                                                  ELSE handle.cap
           ids == [i \in DOMAIN order |-> order[i].id]
<1>1. IsReader(Reading, cap) /\ Reading.order = order /\ Reading.recent = used
      /\ Reading.index = handle.index
  BY DEF Base, Reading
<1>2. /\ IsSequence(order) /\ IsSequence(used) /\ n = kept
      /\ \A i \in 1..n : order[i].id = used[i]
      /\ handle.index = {order[i].id : i \in 1..n}
  BY <1>1 DEF IsReader, Lru, KeptOf
<1>3. /\ n \in Nat /\ DOMAIN order = 1..n /\ Len(used) \in Nat /\ n <= Len(used)
  <2>1. cap \in Nat
    BY DEF Base, HandleShape
  <2> QED BY <1>2, <2>1, SequenceIs
<1> HIDE DEF kept
<1>4. ids = SubSeq(used, 1, n)
  <2>1. n \in 0..Len(used)
    BY <1>3
  <2> HIDE DEF used
  <2>2. /\ IsSequence(SubSeq(used, 1, n)) /\ Len(SubSeq(used, 1, n)) = n
        /\ \A i \in 1..n : SubSeq(used, 1, n)[i] = used[i]
    BY <1>2, <2>1, PrefixIs
  <2>3. ids = [i \in 1..n |-> ids[i]] /\ \A i \in 1..n : ids[i] = order[i].id
    BY <1>3
  <2> HIDE DEF ids, n
  <2>4. IsSequence(ids) /\ Len(ids) = n
    BY <1>3, <2>3, FunctionIsSequence
  <2> DEFINE s == SubSeq(used, 1, n)
  <2>5. IsSequence(s) /\ Len(ids) = Len(s) /\ \A i \in 1..Len(ids) : ids[i] = s[i]
    BY <1>2, <2>2, <2>3, <2>4
  <2> HIDE DEF s
  <2>6. ids = s
    BY <2>4, <2>5, SequencesEqual
  <2> QED BY <2>6 DEF s
<1>5. handle.index = {e.id : e \in Range(order)}
  <2>1. Range(order) = {order[i] : i \in 1..n}
    BY <1>3 DEF Range
  <2> HIDE DEF order, n
  <2> QED BY <1>2, <2>1
<1>6. ids = SubSeq(recent, 1, kept)
  BY <1>2, <1>4
<1> QED BY <1>5, <1>6 DEF LruOrder, kept

\* The cache of a handle holds the pages used last, the latest first, as many
\* as its capacity allows, and its index finds exactly those.
THEOREM CacheIsLru == Spec => []LruOrder
BY BaseHolds, BaseLru, PTL

-----------------------------------------------------------------------------
(* What the steps change.                                                   *)

CommitDone(w, newTruth, newDoubtful) ==
    /\ disk'.encryption = disk.encryption /\ disk'.compressed = disk.compressed
    /\ disk'.slots = w.slots /\ disk'.footer = Footer(Encryptor, handle.key)
    /\ DiskCatalog' = w.cat
    /\ handle'.mode = handle.mode /\ handle'.key = handle.key /\ handle'.codec = handle.codec
    /\ handle'.rcat = w.cat /\ handle'.wcat = w.cat /\ handle'.next = w.next
    /\ handle'.off = Len(w.slots) /\ handle'.order = <<>>
    /\ truth' = newTruth /\ doubtful' = newDoubtful
CommitFailed(w, names) ==
    /\ disk'.encryption = disk.encryption /\ disk'.compressed = disk.compressed
    /\ disk'.slots = w.slots /\ disk'.footer \in {Zeros, Footer(Encryptor, handle.key)}
    /\ DiskCatalog' = w.cat
    /\ handle'.mode = handle.mode /\ handle'.key = handle.key /\ handle'.codec = handle.codec
    /\ handle'.rcat = handle.rcat /\ handle'.wcat = w.cat /\ handle'.next = w.next
    /\ handle'.off = handle.off /\ handle'.order = handle.order
    /\ truth' = truth /\ doubtful' = doubtful \union names

LEMMA CommitIs ==
    ASSUME Base, NEW w, Building(w), NEW newTruth, NEW names, NEW newDoubtful,
           Commit(w, newTruth, names, newDoubtful)
    PROVE  CommitDone(w, newTruth, newDoubtful) \/ CommitFailed(w, names)
<1>1. /\ DOMAIN disk = {"encryption", "compressed", "slots", "catalog", "footer"}
      /\ DOMAIN handle = {"mode", "key", "codec", "cap", "rcat", "wcat", "off", "next",
                          "order", "index", "comp"}
      /\ WellFormed(w.cat)
  BY DEF Base, DiskShape, HandleShape, Building
<1>2. CASE /\ disk' = [disk EXCEPT !.slots = w.slots, !.catalog = Serialise(w.cat),
                                   !.footer = Footer(Encryptor, handle.key)]
           /\ handle' = [handle EXCEPT !.wcat = w.cat, !.next = w.next, !.off = Len(w.slots),
                                       !.rcat = DiskCatalog', !.order = <<>>, !.index = {}]
           /\ truth' = newTruth /\ doubtful' = newDoubtful
  <2>1. /\ disk'.encryption = disk.encryption /\ disk'.compressed = disk.compressed
        /\ disk'.slots = w.slots /\ disk'.footer = Footer(Encryptor, handle.key)
        /\ disk'.catalog = Serialise(w.cat)
    BY <1>1, <1>2
  <2>2. DiskCatalog' = w.cat
    BY <1>1, <2>1, LoadedIs DEF DiskCatalog
  <2>3. /\ handle'.mode = handle.mode /\ handle'.key = handle.key
        /\ handle'.codec = handle.codec
        /\ handle'.rcat = w.cat /\ handle'.wcat = w.cat /\ handle'.next = w.next
        /\ handle'.off = Len(w.slots) /\ handle'.order = <<>>
    BY <1>1, <1>2, <2>2
  <2> QED BY <1>2, <2>1, <2>2, <2>3 DEF CommitDone
<1>3. CASE /\ \E footer \in {Zeros, Footer(Encryptor, handle.key)} :
                disk' = [disk EXCEPT !.slots = w.slots, !.catalog = Serialise(w.cat),
                                     !.footer = footer]
           /\ handle' = [handle EXCEPT !.wcat = w.cat, !.next = w.next]
           /\ doubtful' = doubtful \union names /\ truth' = truth
  <2>1. /\ disk'.encryption = disk.encryption /\ disk'.compressed = disk.compressed
        /\ disk'.slots = w.slots /\ disk'.footer \in {Zeros, Footer(Encryptor, handle.key)}
        /\ disk'.catalog = Serialise(w.cat)
    BY <1>1, <1>3
  <2>2. DiskCatalog' = w.cat
    BY <1>1, <2>1, LoadedIs DEF DiskCatalog
  <2>3. /\ handle'.mode = handle.mode /\ handle'.key = handle.key
        /\ handle'.codec = handle.codec
        /\ handle'.rcat = handle.rcat /\ handle'.wcat = w.cat /\ handle'.next = w.next
        /\ handle'.off = handle.off /\ handle'.order = handle.order
    BY <1>1, <1>3
  <2> QED BY <1>3, <2>1, <2>2, <2>3 DEF CommitFailed
<1> QED BY <1>2, <1>3 DEF Commit

\* A step in which the handle reads, or nothing happens.
OnlyRead(order) ==
    /\ disk' = disk /\ truth' = truth /\ doubtful' = doubtful
    /\ handle'.mode = handle.mode /\ handle'.key = handle.key /\ handle'.codec = handle.codec
    /\ handle'.rcat = handle.rcat /\ handle'.wcat = handle.wcat /\ handle'.next = handle.next
    /\ handle'.off = handle.off /\ handle'.order = order

LEMMA OnlyReadIs ==
    ASSUME Base, NEW r, handle' = Keep(r), disk' = disk, truth' = truth, doubtful' = doubtful
    PROVE  OnlyRead(r.order)
BY DEF Base, HandleShape, Keep, OnlyRead

RewriteDone(plan, new, newTruth, newDoubtful) ==
    /\ disk'.encryption = disk.encryption
    /\ disk'.compressed = (CodecType(RewriteCodec) # UNCOMPRESSED)
    /\ disk'.slots = new.slots /\ disk'.footer = Footer(Encryptor, handle.key)
    /\ DiskCatalog' = FlaggedIn(new.cat, plan.flagged)
    /\ handle'.mode = handle.mode /\ handle'.key = handle.key /\ handle'.codec = handle.codec
    /\ handle'.rcat = FlaggedIn(new.cat, plan.flagged) /\ handle'.wcat = handle.wcat
    /\ handle'.next = handle.next /\ handle'.off = handle.off /\ handle'.order = <<>>
    /\ truth' = newTruth /\ doubtful' = newDoubtful

\* What a rewrite writes: the files it read, then the added ones.
Rebuilt(plan, files, jobs, new) ==
    /\ IsExtract(plan, files) /\ JobsFrom(plan, files, jobs)
    /\ BuiltFrom(new, jobs, Len(jobs), Encryptor, handle.key, RewriteCodec)
RewriteEffect(plan, read, newTruth, newDoubtful) ==
    \/ /\ plan.possible /\ read.reading.result = "kSuccess"
       /\ \E jobs, new : /\ Rebuilt(plan, read.files, jobs, new)
                         /\ RewriteDone(plan, new, newTruth, newDoubtful)
    \/ OnlyRead(read.reading.order)

LEMMA RewriteIs ==
    ASSUME Base, NEW plan, IsPlan(plan), NEW newTruth, NEW newDoubtful,
           Rewrite(plan, newTruth, newDoubtful)
    PROVE  /\ handle.mode = "ro"
           /\ RewriteEffect(plan, AssembleAll(Reading, plan.files), newTruth, newDoubtful)
<1> DEFINE read == AssembleAll(Reading, plan.files)
           new == NewArchive(plan, read.files)
           jobs == JobsOf(plan, read.files)
           cat == FlaggedIn(new.cat, plan.flagged)
<1>1. handle.mode = "ro"
  BY DEF Rewrite
<1>2. ~XSTD_isError(read.reading.result) => IsExtract(plan, read.files)
  BY RewriteExtracts
<1>3. CASE /\ ~XSTD_isError(read.reading.result) /\ plan.possible
           /\ disk' = [disk EXCEPT
                         !.compressed = CodecType(RewriteCodec) # UNCOMPRESSED,
                         !.slots      = new.slots,
                         !.catalog    = Serialise(FlaggedIn(new.cat, plan.flagged)),
                         !.footer     = Footer(Encryptor, handle.key)]
           /\ handle' = [handle EXCEPT !.rcat = DiskCatalog', !.order = <<>>, !.index = {},
                                       !.comp = NoCompressor]
           /\ truth' = newTruth /\ doubtful' = newDoubtful
  <2>1. Rebuilt(plan, read.files, jobs, new)
    <3> DEFINE files == read.files
    <3>1. IsExtract(plan, files)
      BY <1>2, <1>3
    <3> HIDE DEF files
    <3>2. JobsFrom(plan, files, JobsOf(plan, files))
      BY <3>1, NewArchiveBuilt
    <3>3. BuiltFrom(NewArchive(plan, files), JobsOf(plan, files), Len(JobsOf(plan, files)),
                    Encryptor, handle.key, RewriteCodec)
      BY <3>1, NewArchiveBuilt
    <3>4. Rebuilt(plan, files, JobsOf(plan, files), NewArchive(plan, files))
      BY <3>1, <3>2, <3>3 DEF Rebuilt
    <3> QED BY <3>4 DEF files
  <2>2. WellFormed(cat)
    <3> DEFINE c == new.cat
    <3>1. WellFormed(c)
      BY <2>1 DEF Rebuilt, BuiltFrom, Building
    <3> HIDE DEF c
    <3>2. WellFormed(FlaggedIn(c, plan.flagged))
      BY <3>1, FlaggedInIs
    <3> QED BY <3>2 DEF c
  <2> DEFINE compressed == CodecType(RewriteCodec) # UNCOMPRESSED
             footer == Footer(Encryptor, handle.key)
             slots == new.slots
  <2>3. /\ DOMAIN disk = {"encryption", "compressed", "slots", "catalog", "footer"}
        /\ DOMAIN handle = {"mode", "key", "codec", "cap", "rcat", "wcat", "off", "next",
                            "order", "index", "comp"}
        /\ disk' = [disk EXCEPT !.compressed = compressed, !.slots = slots,
                                !.catalog = Serialise(cat), !.footer = footer]
    BY <1>3 DEF Base, DiskShape, HandleShape
  <2> HIDE DEF compressed, footer, slots, cat
  <2>4. /\ disk'.slots = slots /\ disk'.encryption = disk.encryption
        /\ disk'.compressed = compressed /\ disk'.catalog = Serialise(cat)
        /\ disk'.footer = footer
    BY <2>3
  <2>5. DiskCatalog' = cat
    BY <2>2, <2>4, LoadedIs DEF DiskCatalog
  <2>6. /\ handle'.mode = handle.mode /\ handle'.key = handle.key
        /\ handle'.codec = handle.codec
        /\ handle'.rcat = cat /\ handle'.wcat = handle.wcat
        /\ handle'.next = handle.next /\ handle'.off = handle.off /\ handle'.order = <<>>
    BY <1>3, <2>3, <2>5
  <2>7. RewriteDone(plan, new, newTruth, newDoubtful)
    BY <1>3, <2>4, <2>5, <2>6 DEF RewriteDone, compressed, footer, slots, cat
  <2>8. plan.possible /\ read.reading.result = "kSuccess"
    BY <1>3 DEF XSTD_isError
  <2> HIDE DEF new, jobs, read
  <2>9. RewriteEffect(plan, read, newTruth, newDoubtful)
    BY <2>1, <2>7, <2>8 DEF RewriteEffect
  <2> QED BY <1>1, <2>9 DEF read
<1>4. CASE /\ handle' = Keep(read.reading)
           /\ UNCHANGED <<disk, truth, doubtful>>
  <2> DEFINE r == read.reading
  <2>1. handle' = Keep(r)
    BY <1>4
  <2> HIDE DEF r
  <2>2. OnlyRead(r.order)
    BY <1>4, <2>1, OnlyReadIs
  <2> QED BY <1>1, <2>2 DEF RewriteEffect, r
<1> QED BY <1>3, <1>4 DEF Rewrite

-----------------------------------------------------------------------------
(* Codecs: an archive whose header says that it is compressed holds no page *)
(* under the codec that stands for no codec.                                *)

Coded(cat) ==
    \A f \in DOMAIN cat : \A i \in DOMAIN cat[f].pages :
      cat[f].pages[i].compression_codec # NoCodec
CodecInv ==
    disk.compressed =>
      /\ Coded(DiskCatalog) /\ Coded(handle.rcat) /\ Coded(handle.wcat)
      /\ handle.mode \in {"create", "rw"} => handle.codec # NoCodec

LEMMA LastJobExists ==
    ASSUME NEW jobs, NEW n \in Nat, NEW f, \E j \in 1..n : jobs[j].file = f
    PROVE  \E j : LastJob(jobs, n, j, f)
<1> DEFINE S == {j \in 1..n : jobs[j].file = f}
<1>1. S # {} /\ S \subseteq Nat
  OBVIOUS
<1>2. IsFiniteSet(S)
  <2>1. IsFiniteSet(1..n)
    BY FS_Interval
  <2> QED BY <2>1, FS_Subset
<1> HIDE DEF S
<1> DEFINE top == Max(S)
<1>3. top \in S /\ \A x \in S : x <= top
  BY <1>1, <1>2, LargestIs
<1> HIDE DEF top
<1>4. top \in 1..n /\ jobs[top].file = f
  BY <1>3 DEF S
<1>5. \A k \in top + 1..n : jobs[k].file # f
  <2> SUFFICES ASSUME NEW k \in top + 1..n, jobs[k].file = f PROVE FALSE
    OBVIOUS
  <2>1. k \in S
    BY <1>4 DEF S
  <2>2. k <= top
    BY <1>3, <2>1
  <2> QED BY <1>4, <2>2
<1> QED BY <1>4, <1>5 DEF LastJob

LEMMA CodedAdds ==
    ASSUME NEW w, w.next \in Nat, NEW v, NEW enc, NEW key, NEW own, own # NoCodec,
           NEW job, IsJob(job), Adds(w, v, enc, key, own, job), Coded(w.cat)
    PROVE  Coded(v.cat)
<1> DEFINE m == NewEntry(w, enc, own, job)
           codec == EffectiveCodec(job.codec, own)
<1>1. v.cat = Put(w.cat, job.file, m)
  BY DEF Adds
<1>2. CodedAs(m, codec)
  BY NewEntryHolds
<1>3. codec # NoCodec
  BY DEF EffectiveCodec
<1> HIDE DEF m, codec
<1>4. /\ DOMAIN v.cat = DOMAIN w.cat \union {job.file} /\ v.cat[job.file] = m
      /\ \A f \in DOMAIN w.cat \ {job.file} : v.cat[f] = w.cat[f]
  BY <1>1 DEF Put
<1> SUFFICES ASSUME NEW f \in DOMAIN v.cat, NEW i \in DOMAIN v.cat[f].pages
             PROVE  v.cat[f].pages[i].compression_codec # NoCodec
  BY DEF Coded
<1>5. CASE f = job.file
  BY <1>2, <1>3, <1>4, <1>5 DEF CodedAs
<1>6. CASE f # job.file
  BY <1>4, <1>6 DEF Coded
<1> QED BY <1>5, <1>6

LEMMA CodedBuilt ==
    ASSUME NEW w, NEW jobs, NEW n \in Nat, NEW enc, NEW key, NEW own, own # NoCodec,
           BuiltFrom(w, jobs, n, enc, key, own)
    PROVE  Coded(w.cat)
<1> SUFFICES ASSUME NEW f \in DOMAIN w.cat
             PROVE  \A i \in DOMAIN w.cat[f].pages :
                      w.cat[f].pages[i].compression_codec # NoCodec
  BY DEF Coded
<1>1. \E j \in 1..n : jobs[j].file = f
  BY DEF BuiltFrom
<1>2. PICK j : LastJob(jobs, n, j, f)
  BY <1>1, LastJobExists
<1>3. CodedAs(w.cat[f], EffectiveCodec(jobs[j].codec, own))
  BY <1>2 DEF BuiltFrom
<1>4. EffectiveCodec(jobs[j].codec, own) # NoCodec
  BY DEF EffectiveCodec
<1> QED BY <1>3, <1>4 DEF CodedAs

\* The entry of a file that is flagged as deleted keeps its codecs.
LEMMA CodedFlagged ==
    ASSUME NEW m, IsEntry(m), \A i \in DOMAIN m.pages : m.pages[i].compression_codec # NoCodec
    PROVE  \A i \in DOMAIN Flagged(m).pages :
             Flagged(m).pages[i].compression_codec # NoCodec
<1> DEFINE g == Flagged(m)
<1>1. /\ IsEntry(g) /\ Len(g.pages) = Len(m.pages)
      /\ \A i \in 1..Len(m.pages) :
           g.pages[i].compression_codec = m.pages[i].compression_codec
  BY FlaggedIs
<1> HIDE DEF g
<1>2. DOMAIN m.pages = 1..Len(m.pages) /\ DOMAIN g.pages = 1..Len(g.pages)
  BY <1>1 DEF IsEntry
<1>3. \A i \in DOMAIN g.pages : g.pages[i].compression_codec # NoCodec
  BY <1>1, <1>2
<1> QED BY <1>3 DEF g

LEMMA CodedFlaggedIn ==
    ASSUME NEW cat, WellFormed(cat), Coded(cat), NEW fs
    PROVE  Coded(FlaggedIn(cat, fs))
<1> DEFINE c == FlaggedIn(cat, fs)
<1>1. /\ DOMAIN c = DOMAIN cat
      /\ \A f \in DOMAIN cat : c[f] = IF f \in fs THEN Flagged(cat[f]) ELSE cat[f]
  BY FlaggedInIs
<1> HIDE DEF c
<1>2. \A f \in DOMAIN c : \A i \in DOMAIN c[f].pages :
        c[f].pages[i].compression_codec # NoCodec
  <2> TAKE f \in DOMAIN c
  <2> DEFINE m == cat[f]
  <2>1. IsEntry(m) /\ \A i \in DOMAIN m.pages : m.pages[i].compression_codec # NoCodec
    BY <1>1 DEF WellFormed, Coded
  <2>2. c[f] = m \/ c[f] = Flagged(m)
    BY <1>1
  <2> HIDE DEF m
  <2>3. \A i \in DOMAIN Flagged(m).pages : Flagged(m).pages[i].compression_codec # NoCodec
    BY <2>1, CodedFlagged
  <2> QED BY <2>1, <2>2, <2>3
<1> QED BY <1>2 DEF Coded, c

LEMMA CodedEmpty == Coded(Empty)
BY DEF Coded, Empty

LEMMA CommitCodec ==
    ASSUME CodecInv, NEW w, disk.compressed => Coded(w.cat), NEW newTruth, NEW newDoubtful,
           NEW names, CommitDone(w, newTruth, newDoubtful) \/ CommitFailed(w, names)
    PROVE  CodecInv'
<1>1. /\ disk'.compressed = disk.compressed /\ DiskCatalog' = w.cat
      /\ handle'.mode = handle.mode /\ handle'.codec = handle.codec
      /\ handle'.rcat \in {w.cat, handle.rcat} /\ handle'.wcat = w.cat
  BY DEF CommitDone, CommitFailed
<1> QED BY <1>1 DEF CodecInv, Coded

LEMMA RewriteCodecInv ==
    ASSUME Base, CodecInv, NEW plan, IsPlan(plan), NEW newTruth, NEW newDoubtful,
           Rewrite(plan, newTruth, newDoubtful)
    PROVE  CodecInv'
<1> DEFINE read == AssembleAll(Reading, plan.files)
<1>1. handle.mode = "ro" /\ RewriteEffect(plan, read, newTruth, newDoubtful)
  BY RewriteIs
<1> HIDE DEF read
<1>2. CASE OnlyRead(read.reading.order)
  BY <1>2 DEF OnlyRead, CodecInv, Coded, DiskCatalog
<1>3. CASE \E jobs, new : /\ Rebuilt(plan, read.files, jobs, new)
                          /\ RewriteDone(plan, new, newTruth, newDoubtful)
  <2>1. PICK jobs, new : /\ Rebuilt(plan, read.files, jobs, new)
                         /\ RewriteDone(plan, new, newTruth, newDoubtful)
    BY <1>3
  <2> DEFINE cat == FlaggedIn(new.cat, plan.flagged)
             own == RewriteCodec
             n == Len(jobs)
             key == handle.key
  <2>2. /\ disk'.compressed = (CodecType(own) # UNCOMPRESSED) /\ DiskCatalog' = cat
        /\ handle'.mode = "ro" /\ handle'.rcat = cat /\ handle'.wcat = handle.wcat
    BY <1>1, <2>1 DEF RewriteDone
  <2>3. BuiltFrom(new, jobs, n, Encryptor, key, own) /\ n \in Nat
    BY <2>1, SequenceIs DEF Rebuilt, JobsFrom
  <2>4. CodecType(own) # UNCOMPRESSED => own # NoCodec /\ disk.compressed
    <3>1. CodecType(0) = 0 /\ Codec(UNCOMPRESSED, 0) = 0
      BY DEF CodecType, Codec, UNCOMPRESSED
    <3> QED BY <3>1 DEF RewriteCodec, NoCodec, UNCOMPRESSED
  <2>5. CodecType(own) # UNCOMPRESSED => Coded(cat)
    <3> DEFINE c == new.cat
    <3>1. WellFormed(c)
      BY <2>3 DEF BuiltFrom, Building
    <3> HIDE DEF own, key, n
    <3>2. CodecType(own) # UNCOMPRESSED => Coded(c)
      BY <2>3, <2>4, CodedBuilt
    <3> HIDE DEF c
    <3>3. Coded(c) => Coded(FlaggedIn(c, plan.flagged))
      BY <3>1, CodedFlaggedIn
    <3> QED BY <3>2, <3>3 DEF c
  <2>6. disk.compressed => Coded(handle.wcat)
    BY DEF CodecInv
  <2> HIDE DEF cat, own
  <2>7. disk'.compressed => disk.compressed /\ Coded(cat)
    BY <2>2, <2>4, <2>5
  <2> QED BY <2>2, <2>6, <2>7 DEF CodecInv, Coded
<1> QED BY <1>1, <1>2, <1>3 DEF RewriteEffect

LEMMA NoCodecIs ==
    /\ \A codec : CodecType(codec) # UNCOMPRESSED => codec # NoCodec
    /\ Codec(ZSTD, XSTD_greedy) # NoCodec
<1>1. CodecType(0) = 0 /\ Codec(ZSTD, XSTD_greedy) = 67
  BY DEF CodecType, Codec, ZSTD, XSTD_greedy
<1> QED BY <1>1 DEF NoCodec, UNCOMPRESSED

LEMMA InitCodec == Init => CodecInv
BY DEF Init, CodecInv, NoArchive

LEMMA NextCodec == Base /\ CodecInv /\ [Next]_vars => CodecInv'
<1> SUFFICES ASSUME Base, CodecInv, [Next]_vars PROVE CodecInv'
  OBVIOUS
<1>1. CASE \E raw \in Encryptions, key \in OwnerKeys, codec \in Codecs : Create(raw, key, codec)
  <2>1. PICK raw \in Encryptions, key \in OwnerKeys, codec \in Codecs : Create(raw, key, codec)
    BY <1>1
  <2>2. /\ disk'.compressed = (CodecType(codec) # UNCOMPRESSED)
        /\ disk'.catalog = Serialise(Empty)
        /\ handle'.codec = codec /\ handle'.rcat = Empty /\ handle'.wcat = Empty
    BY <2>1 DEF Create, NoArchive, NoHandle
  <2>3. DiskCatalog' = Empty
    BY <2>2, EmptyWellFormed, LoadedIs DEF DiskCatalog
  <2> QED BY <2>2, <2>3, CodedEmpty, NoCodecIs DEF CodecInv, Coded
<1>2. CASE \E mode \in {"ro", "rw"}, key \in Keys, codec \in Codecs, cap \in Capacities :
             Open(mode, key, codec, cap)
  <2>1. PICK mode \in {"ro", "rw"}, key \in Keys, codec \in Codecs, cap \in Capacities :
               Open(mode, key, codec, cap)
    BY <1>2
  <2> DEFINE own == IF mode = "rw" THEN AppendCodec(codec) ELSE codec
  <2>2. /\ disk' = disk /\ handle'.mode = mode /\ handle'.codec = own
        /\ handle'.rcat = DiskCatalog /\ handle'.wcat \in {DiskCatalog, Empty}
    BY <2>1 DEF Open, NoHandle
  <2>3. DiskCatalog' = DiskCatalog
    BY <2>2 DEF DiskCatalog
  <2>4. disk.compressed /\ mode = "rw" => own # NoCodec
    BY NoCodecIs DEF AppendCodec
  <2> QED BY <2>2, <2>3, <2>4, CodedEmpty DEF CodecInv, Coded
<1>3. CASE Close
  <2>1. /\ disk'.compressed = disk.compressed
        /\ disk'.catalog = IF handle.mode = "create" THEN Serialise(handle.wcat)
                                                     ELSE disk.catalog
        /\ handle'.mode = "closed" /\ handle'.rcat = Empty /\ handle'.wcat = Empty
    BY <1>3 DEF Close, NoHandle, Base, DiskShape
  <2>2. WellFormed(handle.wcat)
    BY DEF Base, HandleShape
  <2>3. DiskCatalog' \in {handle.wcat, DiskCatalog}
    BY <2>1, <2>2, LoadedIs DEF DiskCatalog
  <2> QED BY <2>1, <2>3, CodedEmpty DEF CodecInv, Coded
<1>4. CASE \E job \in Jobs : AddFileCreating(job)
  <2>1. PICK job \in Jobs : AddFileCreating(job)
    BY <1>4
  <2> DEFINE w == Added(disk.slots, job)
             v == Writer(disk.slots)
             own == handle.codec
             key == handle.key
  <2>2. /\ handle.mode = "create" /\ disk' = [disk EXCEPT !.slots = w.slots]
        /\ handle' = [handle EXCEPT !.wcat = w.cat, !.next = w.next]
    BY <2>1 DEF AddFileCreating
  <2>3. IsJob(job)
    BY JobIs
  <2>4. /\ v.cat = handle.wcat /\ Adds(v, w, Encryptor, key, own, job) /\ Building(v)
    BY <2>3, WriterIs DEF Base, DiskShape
  <2>5. v.next \in Nat /\ (disk.compressed => own # NoCodec /\ Coded(v.cat))
    BY <2>2, <2>4 DEF Building, CodecInv
  <2> HIDE DEF w, v, own, key
  <2>6. disk.compressed => Coded(w.cat)
    BY <2>3, <2>4, <2>5, CodedAdds
  <2>7. /\ disk'.compressed = disk.compressed /\ disk'.catalog = disk.catalog
        /\ handle'.mode = handle.mode /\ handle'.codec = handle.codec
        /\ handle'.rcat = handle.rcat /\ handle'.wcat = w.cat
    BY <2>2 DEF Base, DiskShape, HandleShape
  <2> QED BY <2>6, <2>7 DEF CodecInv, Coded, DiskCatalog
<1>5. CASE \E job \in Jobs : AddFileInPlace(job)
  <2>1. PICK job \in Jobs : AddFileInPlace(job)
    BY <1>5
  <2> DEFINE w == Added(Kept, job)
             v == Writer(Kept)
             own == handle.codec
             key == handle.key
             newTruth == Put(truth, job.file, job.data)
             newDoubtful == doubtful \ {job.file}
  <2>2. handle.mode = "rw" /\ Commit(w, newTruth, {job.file}, newDoubtful)
    BY <2>1 DEF AddFileInPlace
  <2>3. IsJob(job) /\ IsStore(Kept)
    BY JobIs, KeptIs
  <2>4. /\ v.cat = handle.wcat /\ Adds(v, w, Encryptor, key, own, job) /\ Building(v)
        /\ Building(w)
    BY <2>3, WriterIs
  <2>5. v.next \in Nat /\ (disk.compressed => own # NoCodec /\ Coded(v.cat))
    BY <2>2, <2>4 DEF Building, CodecInv
  <2> HIDE DEF w, v, own, key, newTruth, newDoubtful
  <2>6. disk.compressed => Coded(w.cat)
    BY <2>3, <2>4, <2>5, CodedAdds
  <2>7. CommitDone(w, newTruth, newDoubtful) \/ CommitFailed(w, {job.file})
    BY <2>2, <2>4, CommitIs
  <2> QED BY <2>6, <2>7, CommitCodec
<1>6. CASE \E f \in DOMAIN handle.rcat, soft \in BOOLEAN : DeleteFileInPlace(f, soft)
  <2>1. PICK f \in DOMAIN handle.rcat, soft \in BOOLEAN : DeleteFileInPlace(f, soft)
    BY <1>6
  <2> DEFINE w == DeleteWriter(f, soft)
             newTruth == IF soft THEN truth ELSE Dropped(truth, {f})
             names == {f} \union Hurt(f, soft)
             newDoubtful == doubtful \union Hurt(f, soft)
             m == handle.wcat[f]
             before == handle.wcat
  <2>2. f \in DOMAIN before /\ Commit(w, newTruth, names, newDoubtful)
    BY <2>1, DeleteInPlaceIs
  <2>3. Building(w)
    BY <2>2, DeleteWriterIs
  <2>4. w.cat \in {before, Put(before, f, Flagged(m)), Dropped(before, {f})}
    BY DEF DeleteWriter
  <2>5. disk.compressed => Coded(w.cat)
    <3>1. IsEntry(m)
      BY <2>2 DEF Base, HandleShape, WellFormed
    <3>2. disk.compressed => Coded(before)
      BY DEF CodecInv
    <3>3. Coded(before) => \A i \in DOMAIN m.pages : m.pages[i].compression_codec # NoCodec
      BY <2>2 DEF Coded
    <3> HIDE DEF m
    <3>4. Coded(before) => \A i \in DOMAIN Flagged(m).pages :
                              Flagged(m).pages[i].compression_codec # NoCodec
      BY <3>1, <3>3, CodedFlagged
    <3> HIDE DEF before
    <3>5. Coded(before) => Coded(Put(before, f, Flagged(m)))
      BY <3>4 DEF Coded, Put
    <3>6. Coded(before) => Coded(Dropped(before, {f}))
      BY DEF Coded, Dropped
    <3> QED BY <2>4, <3>2, <3>5, <3>6
  <2> HIDE DEF w, newTruth, names, newDoubtful
  <2>6. CommitDone(w, newTruth, newDoubtful) \/ CommitFailed(w, names)
    BY <2>2, <2>3, CommitIs
  <2> QED BY <2>5, <2>6, CommitCodec
<1>7. CASE \E f \in DOMAIN handle.rcat, g \in FileNames : RenameFileInPlace(f, g)
  <2>1. PICK f \in DOMAIN handle.rcat, g \in FileNames : RenameFileInPlace(f, g)
    BY <1>7
  <2> DEFINE w == RenameWriter(f, g)
             newTruth == Moved(truth, f, g)
             newDoubtful == DoubtMoved(f, g)
             m == RenamedMeta(f, g)
             before == handle.wcat
  <2>2. Commit(w, newTruth, {f, g}, newDoubtful)
    BY <2>1, RenameInPlaceIs
  <2>3. Building(w) /\ m.pages = handle.rcat[f].pages
    BY RenameWriterIs
  <2>4. w.cat = Put(Dropped(before, {f}), g, m)
    BY DEF RenameWriter
  <2>5. disk.compressed => Coded(w.cat)
    <3>1. disk.compressed => /\ Coded(before)
                             /\ \A i \in DOMAIN m.pages : m.pages[i].compression_codec # NoCodec
      BY <2>3 DEF CodecInv, Coded
    <3> HIDE DEF m, before
    <3> QED BY <2>4, <3>1 DEF Coded, Put, Dropped
  <2> HIDE DEF w, newTruth, newDoubtful
  <2>6. CommitDone(w, newTruth, newDoubtful) \/ CommitFailed(w, {f, g})
    BY <2>2, <2>3, CommitIs
  <2> QED BY <2>5, <2>6, CommitCodec
<1>8. CASE \E job \in Jobs : AddFileRewriting(job)
  <2>1. PICK job \in Jobs : AddFileRewriting(job)
    BY <1>8
  <2> DEFINE plan == AddPlan(job)
  <2>2. IsPlan(plan)
    BY JobIs, AddPlanIs
  <2>3. Rewrite(plan, Put(LiveTruth, job.file, job.data), doubtful \ {job.file})
    BY <2>1 DEF AddFileRewriting, AddPlan
  <2> HIDE DEF plan
  <2> QED BY <2>2, <2>3, RewriteCodecInv
<1>9. CASE \E f \in DOMAIN handle.rcat, soft \in BOOLEAN : DeleteFileRewriting(f, soft)
  <2>1. PICK f \in DOMAIN handle.rcat, soft \in BOOLEAN : DeleteFileRewriting(f, soft)
    BY <1>9
  <2> DEFINE newTruth == IF soft THEN LiveTruth ELSE Dropped(LiveTruth, {f})
             plan == DeletePlan(f, soft)
  <2>2. IsPlan(plan)
    BY DeletePlanIs
  <2>3. Rewrite(plan, newTruth, doubtful)
    BY <2>1 DEF DeleteFileRewriting, DeletePlan
  <2> HIDE DEF newTruth, plan
  <2> QED BY <2>2, <2>3, RewriteCodecInv
<1>10. CASE \E f \in DOMAIN handle.rcat, g \in FileNames : RenameFileRewriting(f, g)
  <2>1. PICK f \in DOMAIN handle.rcat, g \in FileNames : RenameFileRewriting(f, g)
    BY <1>10
  <2> DEFINE keeps == f \notin Live(handle.rcat) \/ (g \in Live(handle.rcat) /\ g > f)
             newTruth == IF keeps THEN Dropped(LiveTruth, {f} \ {g}) ELSE Moved(LiveTruth, f, g)
             newDoubtful == IF keeps THEN doubtful ELSE DoubtMoved(f, g)
             plan == RenamePlan(f, g)
  <2>2. IsPlan(plan)
    BY RenamePlanIs
  <2>3. Rewrite(plan, newTruth, newDoubtful)
    BY <2>1 DEF RenameFileRewriting, RenamePlan
  <2> HIDE DEF newTruth, newDoubtful, plan
  <2> QED BY <2>2, <2>3, RewriteCodecInv
<1>11. CASE CannotOpenSource
  <2>1. CASE AddFileFromDiskFails
    BY <2>1 DEF AddFileFromDiskFails, CodecInv, Coded, DiskCatalog
  <2>2. CASE Rewrite(NoPlan, truth, doubtful)
    BY <2>2, NoPlanIs, RewriteCodecInv
  <2> QED BY <1>11, <2>1, <2>2 DEF CannotOpenSource, NoPlan
<1>12. ASSUME NEW f, ReadFile(f)
       PROVE  CodecInv'
  <2> DEFINE r == AssembleFile(Reading, handle.rcat[f])
  <2>1. OnlyRead(r.order)
    <3>1. /\ handle' = Keep(r) /\ disk' = disk /\ truth' = truth /\ doubtful' = doubtful
      BY <1>12 DEF ReadFile
    <3> HIDE DEF r
    <3> QED BY <3>1, OnlyReadIs
  <2> HIDE DEF r
  <2> QED BY <2>1 DEF OnlyRead, CodecInv, Coded, DiskCatalog
<1>13. CASE \E f \in DOMAIN handle.rcat : ExtractFile(f)
  BY <1>12, <1>13 DEF ExtractFile
<1>14. CASE \E f \in DOMAIN handle.rcat : RecoverFile(f)
  BY <1>12, <1>14 DEF RecoverFile
<1>15. CASE UNCHANGED vars
  BY <1>15 DEF vars, CodecInv, Coded, DiskCatalog
<1> QED
  BY <1>1, <1>2, <1>3, <1>4, <1>5, <1>6, <1>7, <1>8, <1>9, <1>10, <1>11, <1>13, <1>14, <1>15
     DEF Next

\* How many jobs a rewrite has, and what they are called.
Named(plan, files, jobs) ==
    /\ Len(plan.files) \in Nat /\ Len(plan.added) \in Nat
    /\ Len(jobs) = Len(plan.files) + Len(plan.added)
    /\ \A i \in 1..Len(plan.files) :
         /\ jobs[i].file = plan.as[plan.files[i]]
         /\ jobs[i].data = files[i].data /\ files[i].file = plan.files[i]
         /\ jobs[i].codec = plan.codec[plan.files[i]]
    /\ \A i \in 1..Len(plan.added) : jobs[Len(plan.files) + i] = plan.added[i]
NamesOf(jobs) == {jobs[j].file : j \in 1..Len(jobs)}

LEMMA JobNames ==
    ASSUME NEW plan, NEW files, NEW jobs, NEW new, Rebuilt(plan, files, jobs, new)
    PROVE  Named(plan, files, jobs)
<1> DEFINE n == Len(plan.files)
           k == Len(plan.added)
<1>1. /\ n \in Nat /\ k \in Nat /\ Len(files) = n /\ Len(jobs) = n + k
      /\ \A i \in 1..n : CopyOf(plan, files[i], jobs[i]) /\ files[i].file = plan.files[i]
      /\ \A i \in 1..k : jobs[n + i] = plan.added[i]
  BY DEF Rebuilt, IsExtract, JobsFrom
<1> HIDE DEF n, k
<1>2. \A i \in 1..n : /\ jobs[i].file = plan.as[plan.files[i]]
                      /\ jobs[i].data = files[i].data /\ files[i].file = plan.files[i]
                      /\ jobs[i].codec = plan.codec[plan.files[i]]
  <2> TAKE i \in 1..n
  <2>1. jobs[i] = Job(plan.as[files[i].file], files[i].data, plan.codec[files[i].file])
        /\ files[i].file = plan.files[i]
    BY <1>1 DEF CopyOf
  <2> QED BY <2>1 DEF Job
<1> QED BY <1>1, <1>2 DEF n, k, Named

LEMMA NothingAdded ==
    ASSUME NEW plan, plan.added = <<>>, NEW files, NEW jobs, NEW new,
           Rebuilt(plan, files, jobs, new)
    PROVE  Len(jobs) = Len(plan.files)
<1>1. Len(plan.files) \in Nat /\ Len(jobs) = Len(plan.files) + 0
  <2>1. Named(plan, files, jobs)
    BY JobNames
  <2> QED BY <2>1, EmptyIs DEF Named
<1> QED BY <1>1

\* The live files of the archive a rewrite made are among those it wrote.
LEMMA RebuiltLive ==
    ASSUME NEW plan, NEW files, NEW jobs, NEW new, Rebuilt(plan, files, jobs, new), NEW fs
    PROVE  Live(FlaggedIn(new.cat, fs)) \subseteq NamesOf(jobs)
<1>1. DOMAIN new.cat = NamesOf(jobs)
  BY DEF Rebuilt, BuiltFrom, NamesOf
<1>2. DOMAIN FlaggedIn(new.cat, fs) = DOMAIN new.cat
  BY DEF FlaggedIn
<1> QED BY <1>1, <1>2 DEF Live

LEMMA FirstPage ==
    ASSUME NEW m, IsEntry(m)
    PROVE  1 \in DOMAIN m.pages /\ Head(m.pages) = m.pages[1]
<1> DEFINE pages == m.pages
<1>1. Len(pages) \in Nat \ {0} /\ DOMAIN pages = 1..Len(pages) /\ IsSequence(pages)
  BY DEF IsEntry, IsMeta
<1> HIDE DEF pages
<1>2. PICK S : pages \in Seq(S)
  BY <1>1 DEF IsSequence
<1>3. pages # <<>>
  BY <1>1
<1>4. Head(pages) = pages[1]
  BY <1>2, <1>3
<1>5. 1 \in DOMAIN pages
  BY <1>1
<1> QED BY <1>4, <1>5 DEF pages

\* What CodecPreserved says of one step.
CodecsKept ==
    handle.mode = "ro" /\ handle'.mode = "ro" /\ Live(handle.rcat) # Live(handle'.rcat)
      /\ Live(handle.rcat) \subseteq Live(handle'.rcat) =>
        \A f \in Live(handle.rcat) : FirstCodec(f)' = FirstCodec(f)

LEMMA AddKeepsCodecs ==
    ASSUME Base, Base', CodecInv, NEW job, IsJob(job), NEW files, NEW jobs, NEW new,
           Rebuilt(AddPlan(job), files, jobs, new),
           handle'.rcat = FlaggedIn(new.cat, AddPlan(job).flagged),
           Live(handle.rcat) # Live(handle'.rcat),
           Live(handle.rcat) \subseteq Live(handle'.rcat), NEW f \in Live(handle.rcat)
    PROVE  FirstCodec(f)' = FirstCodec(f)
<1> DEFINE plan == AddPlan(job)
           live == Live(handle.rcat)
           fs == Sorted(live)
           n == Len(fs)
           own == RewriteCodec
           key == handle.key
<1>1. /\ plan.files = fs /\ plan.as = [x \in FileNames |-> x] /\ plan.added = <<job>>
      /\ plan.codec = [x \in live |-> FirstCodec(x)] /\ plan.flagged = {}
  BY AddPlanIs
<1>2. /\ n \in Nat /\ \A i \in 1..n : fs[i] \in live
      /\ \A x \in live : \E i \in 1..n : fs[i] = x
      /\ \A i, j \in 1..n : i < j <=> fs[i] < fs[j]
  <2> DEFINE S == Live(handle.rcat)
  <2>1. S \subseteq Live(handle.rcat)
    OBVIOUS
  <2> HIDE DEF S
  <2>2. /\ Len(Sorted(S)) \in Nat
        /\ \A i \in 1..Len(Sorted(S)) : Sorted(S)[i] \in S
        /\ \A x \in S : \E i \in 1..Len(Sorted(S)) : Sorted(S)[i] = x
        /\ \A i, j \in 1..Len(Sorted(S)) : i < j <=> Sorted(S)[i] < Sorted(S)[j]
    BY <2>1, SortedFiles
  <2> QED BY <2>2 DEF S
<1>3. live \subseteq FileNames /\ live \subseteq DOMAIN handle.rcat /\ live \subseteq Nat
  BY LiveIs, SessionAssumption
<1>4. Rebuilt(plan, files, jobs, new) /\ handle'.rcat = FlaggedIn(new.cat, {})
  BY <1>1
<1>5. Len(<<job>>) = 1 /\ <<job>>[1] = job
  BY OneIs
<1> HIDE DEF plan, live, fs, own, key
<1>6. /\ Len(jobs) = n + 1 /\ jobs[n + 1] = job
      /\ \A i \in 1..n : jobs[i].file = fs[i] /\ jobs[i].codec = FirstCodec(fs[i])
  <2>1. /\ Len(jobs) = Len(plan.files) + Len(plan.added)
        /\ \A i \in 1..Len(plan.files) : /\ jobs[i].file = plan.as[plan.files[i]]
                                         /\ jobs[i].codec = plan.codec[plan.files[i]]
        /\ \A i \in 1..Len(plan.added) : jobs[Len(plan.files) + i] = plan.added[i]
    <3>1. Named(plan, files, jobs)
      BY <1>4, JobNames
    <3> QED BY <3>1 DEF Named
  <2>2. ASSUME NEW i \in 1..n
        PROVE  jobs[i].file = fs[i] /\ jobs[i].codec = FirstCodec(fs[i])
    <3> DEFINE x == fs[i]
    <3>1. x \in live /\ x \in FileNames
      BY <1>2, <1>3
    <3>2. jobs[i].file = plan.as[x] /\ jobs[i].codec = plan.codec[x]
      BY <1>1, <2>1
    <3> HIDE DEF x
    <3>3. plan.as[x] = x /\ plan.codec[x] = FirstCodec(x)
      BY <1>1, <3>1
    <3> QED BY <3>2, <3>3 DEF x
  <2>3. 1 \in 1..Len(plan.added)
    BY <1>1, <1>5
  <2>4. jobs[n + 1] = job
    BY <1>1, <1>5, <2>1, <2>3
  <2> QED BY <1>1, <1>5, <2>1, <2>2, <2>4
<1>7. job.file \notin live
  <2> SUFFICES ASSUME job.file \in live PROVE FALSE
    OBVIOUS
  <2>1. \A j \in 1..n + 1 : j \in 1..n \/ j = n + 1
    BY <1>2
  <2>2. {jobs[j].file : j \in 1..n + 1} \subseteq live
    BY <1>2, <1>6, <2>1
  <2>3. Live(FlaggedIn(new.cat, {})) \subseteq NamesOf(jobs)
    BY <1>4, RebuiltLive
  <2> QED BY <1>4, <1>6, <2>2, <2>3 DEF live, NamesOf
<1>8. PICK i \in 1..n : fs[i] = f
  BY <1>2 DEF live
<1>9. LastJob(jobs, Len(jobs), i, f)
  <2>1. ASSUME NEW k \in i + 1..n + 1
        PROVE  jobs[k].file # f
    <3>1. CASE k = n + 1
      BY <1>6, <1>7, <3>1 DEF live
    <3>2. CASE k # n + 1
      <4>1. k \in 1..n /\ i < k
        BY <1>2, <3>2
      <4>2. fs[i] < fs[k] /\ fs[i] \in Nat /\ fs[k] \in Nat
        BY <1>2, <1>3, <4>1
      <4>3. fs[k] # f
        BY <1>8, <4>2
      <4> QED BY <1>6, <4>1, <4>3
    <3> QED BY <3>1, <3>2
  <2>2. i \in 1..n + 1
    BY <1>2
  <2> QED BY <1>6, <1>8, <2>1, <2>2 DEF LastJob
<1>10. CodedAs(new.cat[f], EffectiveCodec(FirstCodec(f), own)) /\ f \in DOMAIN new.cat
       /\ new.cat[f].deleted = FALSE
  <2>1. BuiltFrom(new, jobs, Len(jobs), Encryptor, key, own)
    BY <1>4 DEF Rebuilt, own, key
  <2>2. /\ CodedAs(new.cat[f], EffectiveCodec(jobs[i].codec, own))
        /\ new.cat[f].deleted = FALSE
    BY <1>9, <2>1 DEF BuiltFrom
  <2>3. DOMAIN new.cat = {jobs[j].file : j \in 1..Len(jobs)}
    BY <2>1 DEF BuiltFrom
  <2>4. i \in 1..Len(jobs) /\ jobs[i].file = f
    BY <1>9 DEF LastJob
  <2> QED BY <1>6, <1>8, <2>2, <2>3, <2>4
<1>11. EffectiveCodec(FirstCodec(f), own) = FirstCodec(f)
  <2>1. CASE FirstCodec(f) # NoCodec
    BY <2>1 DEF EffectiveCodec
  <2>2. CASE FirstCodec(f) = NoCodec
    <3>1. /\ FirstCodec(f) = handle.rcat[f].pages[1].compression_codec
          /\ IsEntry(handle.rcat[f]) /\ f \in DOMAIN handle.rcat
      BY LiveIs
    <3>2. 1 \in DOMAIN handle.rcat[f].pages
      BY <3>1, FirstPage
    <3>3. ~disk.compressed
      BY <2>2, <3>1, <3>2 DEF CodecInv, Coded
    <3>4. Codec(UNCOMPRESSED, 0) = NoCodec
      BY DEF Codec, UNCOMPRESSED, NoCodec
    <3>5. own = NoCodec
      BY <3>3, <3>4 DEF RewriteCodec, own
    <3> QED BY <2>2, <3>5 DEF EffectiveCodec
  <2> QED BY <2>1, <2>2
<1>12. handle'.rcat[f] = new.cat[f]
  BY <1>4, <1>10 DEF FlaggedIn
<1>13. IsEntry(new.cat[f])
  <2>1. WellFormed(handle'.rcat) /\ f \in DOMAIN handle'.rcat
    BY <1>4, <1>10 DEF Base, HandleShape, FlaggedIn
  <2> QED BY <1>12, <2>1 DEF WellFormed
<1>14. FirstCodec(f)' = Head(new.cat[f].pages).compression_codec
  BY <1>12 DEF FirstCodec
<1>15. 1 \in DOMAIN new.cat[f].pages /\ Head(new.cat[f].pages) = new.cat[f].pages[1]
  BY <1>13, FirstPage
<1> QED BY <1>10, <1>11, <1>14, <1>15 DEF CodedAs

\* A rewrite that writes no more than the live files, or not all of them.
LEMMA FewerFiles ==
    ASSUME NEW plan, NEW files, NEW jobs, NEW new, Rebuilt(plan, files, jobs, new),
           handle'.rcat = FlaggedIn(new.cat, plan.flagged),
           \/ \A j \in 1..Len(jobs) : jobs[j].file \in Live(handle.rcat)
           \/ \E f \in Live(handle.rcat) : \A j \in 1..Len(jobs) : jobs[j].file # f
    PROVE  CodecsKept
<1>1. Live(handle'.rcat) \subseteq NamesOf(jobs)
  BY RebuiltLive
<1> QED BY <1>1 DEF CodecsKept, NamesOf

LEMMA OnlyReadCodecs ==
    ASSUME NEW order, OnlyRead(order)
    PROVE  CodecsKept
BY DEF OnlyRead, CodecsKept

LEMMA NextKeepsCodecs == Base /\ Base' /\ CodecInv /\ [Next]_vars => CodecsKept
<1> SUFFICES ASSUME Base, Base', CodecInv, [Next]_vars, handle.mode = "ro", handle'.mode = "ro"
             PROVE  CodecsKept
  BY DEF CodecsKept
<1>1. CASE \E raw \in Encryptions, key \in OwnerKeys, codec \in Codecs : Create(raw, key, codec)
  BY <1>1 DEF Create
<1>2. CASE \E mode \in {"ro", "rw"}, key \in Keys, codec \in Codecs, cap \in Capacities :
             Open(mode, key, codec, cap)
  BY <1>2 DEF Open
<1>3. CASE Close
  BY <1>3 DEF Close, NoHandle
<1>4. CASE \/ \E job \in Jobs : AddFileCreating(job)
           \/ \E job \in Jobs : AddFileInPlace(job)
           \/ \E f \in DOMAIN handle.rcat, soft \in BOOLEAN : DeleteFileInPlace(f, soft)
           \/ \E f \in DOMAIN handle.rcat, g \in FileNames : RenameFileInPlace(f, g)
  BY <1>4 DEF AddFileCreating, AddFileInPlace, DeleteFileInPlace, RenameFileInPlace
<1>5. CASE \E job \in Jobs : AddFileRewriting(job)
  <2>1. PICK job \in Jobs : AddFileRewriting(job)
    BY <1>5
  <2> DEFINE plan == AddPlan(job)
             newTruth == Put(LiveTruth, job.file, job.data)
             newDoubtful == doubtful \ {job.file}
             read == AssembleAll(Reading, plan.files)
  <2>2. IsPlan(plan) /\ IsJob(job)
    BY JobIs, AddPlanIs
  <2>3. Rewrite(plan, newTruth, newDoubtful)
    BY <2>1 DEF AddFileRewriting, AddPlan
  <2> HIDE DEF plan, newTruth, newDoubtful
  <2>4. RewriteEffect(plan, read, newTruth, newDoubtful)
    BY <2>2, <2>3, RewriteIs
  <2> HIDE DEF read
  <2>5. CASE OnlyRead(read.reading.order)
    BY <2>5, OnlyReadCodecs
  <2>6. ASSUME NEW jobs, NEW new, Rebuilt(plan, read.files, jobs, new),
               RewriteDone(plan, new, newTruth, newDoubtful)
        PROVE  CodecsKept
    <3>1. handle'.rcat = FlaggedIn(new.cat, plan.flagged)
      BY <2>6 DEF RewriteDone
    <3> DEFINE files == read.files
    <3>2. Rebuilt(plan, files, jobs, new)
      BY <2>6
    <3> HIDE DEF files
    <3>3. ASSUME Live(handle.rcat) # Live(handle'.rcat),
                 Live(handle.rcat) \subseteq Live(handle'.rcat), NEW f \in Live(handle.rcat)
          PROVE  FirstCodec(f)' = FirstCodec(f)
      BY <2>2, <3>1, <3>2, <3>3, AddKeepsCodecs DEF plan
    <3> QED BY <3>3 DEF CodecsKept
  <2> QED BY <2>4, <2>5, <2>6 DEF RewriteEffect
<1>6. CASE \E f \in DOMAIN handle.rcat, soft \in BOOLEAN : DeleteFileRewriting(f, soft)
  <2>1. PICK f \in DOMAIN handle.rcat, soft \in BOOLEAN : DeleteFileRewriting(f, soft)
    BY <1>6
  <2> DEFINE newTruth == IF soft THEN LiveTruth ELSE Dropped(LiveTruth, {f})
             plan == DeletePlan(f, soft)
             S == IF soft THEN Live(handle.rcat) ELSE Live(handle.rcat) \ {f}
             read == AssembleAll(Reading, plan.files)
  <2>2. /\ IsPlan(plan) /\ plan.files = Sorted(S) /\ plan.added = <<>>
        /\ plan.as = [g \in FileNames |-> g] /\ S \subseteq Live(handle.rcat)
    BY DeletePlanIs
  <2>3. Rewrite(plan, newTruth, doubtful)
    BY <2>1 DEF DeleteFileRewriting, DeletePlan
  <2> HIDE DEF plan, newTruth, S
  <2>4. RewriteEffect(plan, read, newTruth, doubtful)
    BY <2>2, <2>3, RewriteIs
  <2> HIDE DEF read
  <2>5. CASE OnlyRead(read.reading.order)
    BY <2>5, OnlyReadCodecs
  <2>6. ASSUME NEW jobs, NEW new, Rebuilt(plan, read.files, jobs, new),
               RewriteDone(plan, new, newTruth, doubtful)
        PROVE  CodecsKept
    <3>1. handle'.rcat = FlaggedIn(new.cat, plan.flagged)
      BY <2>6 DEF RewriteDone
    <3> DEFINE files == read.files
    <3>2. Rebuilt(plan, files, jobs, new)
      BY <2>6
    <3> HIDE DEF files
    <3>3. Len(jobs) = Len(plan.files)
      BY <2>2, <3>2, NothingAdded
    <3>4. \A j \in 1..Len(plan.files) : jobs[j].file = plan.as[plan.files[j]]
      <4>1. Named(plan, files, jobs)
        BY <3>2, JobNames
      <4> QED BY <4>1 DEF Named
    <3>5. \A j \in 1..Len(plan.files) : plan.files[j] \in S
      BY <2>2, SortedFiles
    <3>6. S \subseteq FileNames
      BY <2>2, LiveIs
    <3>7. \A j \in 1..Len(jobs) : jobs[j].file \in Live(handle.rcat)
      BY <2>2, <3>3, <3>4, <3>5, <3>6
    <3> QED BY <3>1, <3>2, <3>7, FewerFiles
  <2> QED BY <2>4, <2>5, <2>6 DEF RewriteEffect
<1>7. CASE \E f \in DOMAIN handle.rcat, g \in FileNames : RenameFileRewriting(f, g)
  <2>1. PICK f \in DOMAIN handle.rcat, g \in FileNames : RenameFileRewriting(f, g)
    BY <1>7
  <2> DEFINE keeps == f \notin Live(handle.rcat) \/ (g \in Live(handle.rcat) /\ g > f)
             newTruth == IF keeps THEN Dropped(LiveTruth, {f} \ {g}) ELSE Moved(LiveTruth, f, g)
             newDoubtful == IF keeps THEN doubtful ELSE DoubtMoved(f, g)
             plan == RenamePlan(f, g)
             S == Live(handle.rcat)
             read == AssembleAll(Reading, plan.files)
  <2>2. /\ IsPlan(plan) /\ plan.files = Sorted(S) /\ plan.added = <<>>
        /\ \A h \in FileNames : plan.as[h] = IF h = f THEN g ELSE h
    BY RenamePlanIs
  <2>3. Rewrite(plan, newTruth, newDoubtful)
    BY <2>1 DEF RenameFileRewriting, RenamePlan
  <2> HIDE DEF plan, newTruth, newDoubtful
  <2>4. RewriteEffect(plan, read, newTruth, newDoubtful)
    BY <2>2, <2>3, RewriteIs
  <2> HIDE DEF read
  <2>5. CASE OnlyRead(read.reading.order)
    BY <2>5, OnlyReadCodecs
  <2>6. ASSUME NEW jobs, NEW new, Rebuilt(plan, read.files, jobs, new),
               RewriteDone(plan, new, newTruth, newDoubtful)
        PROVE  CodecsKept
    <3>1. handle'.rcat = FlaggedIn(new.cat, plan.flagged)
      BY <2>6 DEF RewriteDone
    <3> DEFINE files == read.files
    <3>2. Rebuilt(plan, files, jobs, new)
      BY <2>6
    <3> HIDE DEF files
    <3>3. Len(jobs) = Len(plan.files)
      BY <2>2, <3>2, NothingAdded
    <3>4. \A j \in 1..Len(plan.files) : jobs[j].file = plan.as[plan.files[j]]
      <4>1. Named(plan, files, jobs)
        BY <3>2, JobNames
      <4> QED BY <4>1 DEF Named
    <3>5. S \subseteq Live(handle.rcat) /\ S \subseteq FileNames
      BY LiveIs
    <3> HIDE DEF S
    <3>6. \A j \in 1..Len(plan.files) : plan.files[j] \in S
      BY <2>2, <3>5, SortedFiles
    <3>7. \A j \in 1..Len(jobs) : /\ plan.files[j] \in S
                                  /\ jobs[j].file = IF plan.files[j] = f THEN g
                                                                         ELSE plan.files[j]
      BY <2>2, <3>3, <3>4, <3>5, <3>6
    <3>8. CASE f \in S /\ f # g
      <4>1. \A j \in 1..Len(jobs) : jobs[j].file # f
        BY <3>7, <3>8
      <4> QED BY <3>1, <3>2, <3>5, <3>8, <4>1, FewerFiles
    <3>9. CASE ~(f \in S /\ f # g)
      <4>1. \A j \in 1..Len(jobs) : jobs[j].file \in Live(handle.rcat)
        BY <3>5, <3>7, <3>9
      <4> QED BY <3>1, <3>2, <4>1, FewerFiles
    <3> QED BY <3>8, <3>9
  <2> QED BY <2>4, <2>5, <2>6 DEF RewriteEffect
<1>8. CASE CannotOpenSource
  <2>1. CASE AddFileFromDiskFails
    BY <2>1 DEF AddFileFromDiskFails, CodecsKept
  <2>2. CASE Rewrite(NoPlan, truth, doubtful)
    <3> DEFINE plan == NoPlan
               read == AssembleAll(Reading, plan.files)
    <3>1. IsPlan(plan) /\ plan.possible = FALSE
      BY NoPlanIs
    <3>2. Rewrite(plan, truth, doubtful)
      BY <2>2
    <3> HIDE DEF plan
    <3>3. RewriteEffect(plan, read, truth, doubtful)
      BY <3>1, <3>2, RewriteIs
    <3> HIDE DEF read
    <3>4. OnlyRead(read.reading.order)
      BY <3>1, <3>3 DEF RewriteEffect
    <3> QED BY <3>4, OnlyReadCodecs
  <2> QED BY <1>8, <2>1, <2>2 DEF CannotOpenSource, NoPlan
<1>9. ASSUME NEW f, ReadFile(f)
      PROVE  CodecsKept
  BY <1>9 DEF ReadFile, Keep, Base, HandleShape, CodecsKept
<1>10. CASE \E f \in DOMAIN handle.rcat : ExtractFile(f)
  BY <1>9, <1>10 DEF ExtractFile
<1>11. CASE \E f \in DOMAIN handle.rcat : RecoverFile(f)
  BY <1>9, <1>11 DEF RecoverFile
<1>12. CASE UNCHANGED vars
  BY <1>12 DEF vars, CodecsKept
<1> QED
  BY <1>1, <1>2, <1>3, <1>4, <1>5, <1>6, <1>7, <1>8, <1>10, <1>11, <1>12 DEF Next

\* A rewrite that only adds a file leaves the codec of every other file alone,
\* although the raw codec of an uncompressed page also means "none given": an
\* archive that holds such a page has an uncompressed writer.
THEOREM CodecsPreserved == Spec => CodecPreserved
<1>1. Init => CodecInv
  BY InitCodec
<1>2. Base /\ CodecInv /\ [Next]_vars => CodecInv'
  BY NextCodec
<1>3. Spec => []CodecInv
  BY <1>1, <1>2, BaseHolds, PTL DEF Spec
<1>4. Base /\ Base' /\ CodecInv /\ [Next]_vars => [CodecsKept]_vars
  BY NextKeepsCodecs
<1>5. Spec => [][CodecsKept]_vars
  BY <1>3, <1>4, BaseHolds, PTL DEF Spec
<1> QED BY <1>5 DEF CodecPreserved, CodecsKept

-----------------------------------------------------------------------------
(* What the archive holds, at every moment: the second invariant.           *)

KeyFits(key) == Fits(Encryptor, key) /\ (~IsEncrypted(disk.encryption) => key = NoKey)

\* The archive on disk is complete, under this key.
Intact(key) ==
    /\ disk.footer = Footer(Encryptor, key) /\ KeyFits(key)
    /\ Arch(disk.slots, DiskCatalog, truth, doubtful, Encryptor, key)

\* Reader and writer know the same of every file that is not doubtful.
Agree ==
    \A f \in (DOMAIN handle.rcat \union DOMAIN handle.wcat) \ doubtful :
      /\ f \in DOMAIN handle.rcat /\ f \in DOMAIN handle.wcat
      /\ handle.rcat[f] = handle.wcat[f]

ClosedInv == handle.mode = "closed" /\ disk.footer # Zeros => \E key : Intact(key)
KeyInv    == handle.mode # "closed" => KeyFits(handle.key)
QuietInv  == handle.mode \in {"closed", "create"} => handle.order = <<>>
CreateInv ==
    handle.mode = "create" =>
      /\ Arch(disk.slots, handle.wcat, truth, doubtful, Encryptor, handle.key)
      /\ Below(handle.wcat, handle.next)
ReadInv   == handle.mode = "ro" => Intact(handle.key) /\ handle.rcat = DiskCatalog
WriteInv  ==
    handle.mode = "rw" =>
      /\ disk.footer \in {Zeros, Footer(Encryptor, handle.key)} /\ handle.wcat = DiskCatalog
      /\ Arch(Kept, handle.wcat, truth, doubtful, Encryptor, handle.key)
      /\ Below(handle.wcat, handle.next) /\ Below(handle.rcat, handle.next)
      /\ Agree /\ Apart(handle.rcat, doubtful)
CacheInv  ==
    handle.mode \in {"ro", "rw"} =>
      Fresh(handle.order, handle.rcat, truth, doubtful, Encryptor)
Content ==
    ClosedInv /\ KeyInv /\ QuietInv /\ CreateInv /\ ReadInv /\ WriteInv /\ CacheInv

LEMMA ArchElse ==
    ASSUME NEW slots, NEW cat, NEW known, NEW doubt, NEW enc, NEW key,
           Arch(slots, cat, known, doubt, enc, key),
           NEW other, NEW cat2, NEW known2, NEW doubt2, Apart(cat2, doubt2),
           \A f \in DOMAIN cat2 \ doubt2 :
             /\ f \notin doubt /\ f \in DOMAIN cat /\ cat2[f] = cat[f]
             /\ f \in DOMAIN known2 /\ known2[f] = known[f]
             /\ \A o \in Offsets(cat[f]) : o \in DOMAIN other /\ other[o] = slots[o]
    PROVE  Arch(other, cat2, known2, doubt2, enc, key)
<1>1. ASSUME NEW f \in DOMAIN cat2 \ doubt2
      PROVE  f \in DOMAIN known2 /\ Holds(cat2[f], f, known2[f], enc, key, other)
  <2>1. /\ f \notin doubt /\ f \in DOMAIN cat /\ cat2[f] = cat[f]
        /\ f \in DOMAIN known2 /\ known2[f] = known[f]
        /\ \A o \in Offsets(cat[f]) : o \in DOMAIN other /\ other[o] = slots[o]
    BY <1>1
  <2>2. Holds(cat[f], f, known[f], enc, key, slots)
    BY <2>1 DEF Arch
  <2>3. Holds(cat[f], f, known[f], enc, key, other)
    BY <2>1, <2>2, HoldsElsewhere
  <2> QED BY <2>1, <2>3
<1> QED BY <1>1 DEF Arch

LEMMA ApartMore ==
    ASSUME NEW cat, NEW doubt, Apart(cat, doubt), NEW more, doubt \subseteq more
    PROVE  Apart(cat, more)
BY DEF Apart

LEMMA ArchMore ==
    ASSUME NEW slots, NEW cat, NEW known, NEW doubt, NEW enc, NEW key,
           Arch(slots, cat, known, doubt, enc, key), NEW more, doubt \subseteq more
    PROVE  Arch(slots, cat, known, more, enc, key)
<1>1. Apart(cat, more)
  BY ApartMore DEF Arch
<1> QED BY <1>1 DEF Arch

LEMMA FreshMore ==
    ASSUME NEW order, NEW cat, NEW known, NEW doubt, NEW enc,
           Fresh(order, cat, known, doubt, enc), NEW more, doubt \subseteq more
    PROVE  Fresh(order, cat, known, more, enc)
BY DEF Fresh, Honest

LEMMA NothingFresh ==
    ASSUME NEW cat, NEW known, NEW doubt, NEW enc
    PROVE  Fresh(<<>>, cat, known, doubt, enc)
<1>1. Len(<<>>) = 0
  BY EmptyIs
<1> QED BY <1>1 DEF Fresh

LEMMA IdsAre ==
    ASSUME NEW m, IsEntry(m)
    PROVE  Ids(m) \subseteq Nat
<1> SUFFICES ASSUME NEW i \in DOMAIN m.pages PROVE m.pages[i].page_id \in Nat
  BY DEF Ids
<1>1. IsPage(m.pages[i])
  BY DEF IsEntry
<1> QED BY <1>1 DEF IsPage

LEMMA BelowMore ==
    ASSUME NEW cat, WellFormed(cat), NEW n \in Nat, Below(cat, n), NEW more \in Nat, n <= more
    PROVE  Below(cat, more)
<1> SUFFICES ASSUME NEW f \in DOMAIN cat, NEW id \in Ids(cat[f]) PROVE id < more
  BY DEF Below
<1>1. id \in Nat
  BY IdsAre DEF WellFormed
<1>2. id < n
  BY DEF Below
<1> QED BY <1>1, <1>2

LEMMA WholeIs ==
    ASSUME NEW s, IsSequence(s)
    PROVE  SubSeq(s, 1, Len(s)) = s
<1> DEFINE n == Len(s)
           t == SubSeq(s, 1, n)
<1>1. n \in Nat /\ n \in 0..n
  BY SequenceIs
<1>2. IsSequence(t) /\ Len(t) = n /\ \A i \in 1..n : t[i] = s[i]
  <2> HIDE DEF n
  <2>1. n <= Len(s)
    BY <1>1 DEF n
  <2>2. n \in 0..Len(s)
    BY <1>1 DEF n
  <2> QED BY <2>2, PrefixIs
<1> HIDE DEF t
<1>3. t = s
  BY <1>2, SequencesEqual
<1> QED BY <1>3 DEF t

\* A handle that reads knows its archive, and its cache is fresh.
LEMMA KnownNow ==
    ASSUME Base, Content, handle.mode \in {"ro", "rw"}
    PROVE  Known(handle.rcat) /\ FreshIn(Reading, handle.rcat)
<1>1. /\ WellFormed(handle.rcat) /\ IsStore(disk.slots) /\ handle.cap \in Nat
      /\ IsReader(Reading, handle.cap)
  BY DEF Base, DiskShape, HandleShape
<1>2. Fits(Encryptor, handle.key)
  BY DEF Content, KeyInv, KeyFits
<1>3. Fresh(Reading.order, handle.rcat, truth, doubtful, Encryptor)
  BY DEF Content, CacheInv, Reading
<1>4. Arch(disk.slots, handle.rcat, truth, doubtful, Encryptor, handle.key)
  <2>1. CASE handle.mode = "ro"
    BY <2>1 DEF Content, ReadInv, Intact
  <2>2. CASE handle.mode = "rw"
    <3> DEFINE rcat == handle.rcat
               wcat == handle.wcat
               key == handle.key
               slots == disk.slots
    <3>1. /\ Arch(Kept, wcat, truth, doubtful, Encryptor, key) /\ Agree
          /\ Apart(rcat, doubtful)
      BY <2>2 DEF Content, WriteInv
    <3>2. /\ DOMAIN Kept = 1..handle.off /\ \A i \in 1..handle.off : Kept[i] = slots[i]
          /\ handle.off \in Nat /\ handle.off <= Len(slots)
      BY KeptIs
    <3>3. DOMAIN slots = 1..Len(slots) /\ Len(slots) \in Nat
      BY <1>1, SequenceIs DEF IsStore
    <3>4. \A f \in DOMAIN rcat \ doubtful : f \in DOMAIN wcat /\ rcat[f] = wcat[f]
      BY <3>1 DEF Agree
    <3> HIDE DEF rcat, wcat, key, slots
    <3>5. \A i \in 1..handle.off : i \in DOMAIN slots
      BY <3>2, <3>3
    <3>6. ASSUME NEW f \in DOMAIN rcat \ doubtful
          PROVE  /\ f \in DOMAIN wcat /\ rcat[f] = wcat[f] /\ f \in DOMAIN truth
                 /\ \A o \in Offsets(wcat[f]) : o \in DOMAIN slots /\ slots[o] = Kept[o]
      <4>1. f \in DOMAIN wcat /\ rcat[f] = wcat[f]
        BY <3>4
      <4>2. f \in DOMAIN truth /\ Holds(wcat[f], f, truth[f], Encryptor, key, Kept)
        BY <3>1, <4>1 DEF Arch
      <4>3. Offsets(wcat[f]) \subseteq DOMAIN Kept
        BY <4>2, HoldsOffsets
      <4> QED BY <3>2, <3>5, <4>1, <4>2, <4>3
    <3>7. \A f \in DOMAIN rcat \ doubtful :
             /\ f \notin doubtful /\ f \in DOMAIN wcat /\ rcat[f] = wcat[f]
             /\ f \in DOMAIN truth /\ truth[f] = truth[f]
             /\ \A o \in Offsets(wcat[f]) : o \in DOMAIN slots /\ slots[o] = Kept[o]
      BY <3>6
    <3>8. Arch(slots, rcat, truth, doubtful, Encryptor, key)
      BY <3>1, <3>7, ArchElse
    <3> QED BY <3>8 DEF slots, rcat, key
  <2> QED BY <2>1, <2>2
<1> QED BY <1>1, <1>2, <1>3, <1>4 DEF Known, FreshIn

\* A commit of what the writer has, when it is right whether or not the
\* commit succeeds.
Commits(w, newTruth, names, newDoubtful) ==
    /\ Building(w) /\ newDoubtful \subseteq doubtful \union names
    /\ Arch(w.slots, w.cat, newTruth, newDoubtful, Encryptor, handle.key)
    /\ Below(w.cat, w.next) /\ handle.next <= w.next
    /\ handle.off <= Len(w.slots)
    /\ \A f \in (DOMAIN handle.wcat \union DOMAIN w.cat) \ (doubtful \union names) :
         /\ f \in DOMAIN handle.wcat /\ f \in DOMAIN w.cat /\ w.cat[f] = handle.wcat[f]
         /\ \A o \in Offsets(handle.wcat[f]) : w.slots[o] = Kept[o]

LEMMA DoneContent ==
    ASSUME Base, Content, handle.mode = "rw", NEW w, NEW newTruth, NEW names, NEW newDoubtful,
           Commits(w, newTruth, names, newDoubtful), CommitDone(w, newTruth, newDoubtful)
    PROVE  Content'
<1> DEFINE key == handle.key
<1>1. /\ disk'.encryption = disk.encryption /\ disk'.slots = w.slots
      /\ disk'.footer = Footer(Encryptor, key) /\ DiskCatalog' = w.cat
      /\ handle'.mode = "rw" /\ handle'.key = key
      /\ handle'.rcat = w.cat /\ handle'.wcat = w.cat /\ handle'.next = w.next
      /\ handle'.off = Len(w.slots) /\ handle'.order = <<>>
      /\ truth' = newTruth /\ doubtful' = newDoubtful
  BY DEF CommitDone
<1>2. Encryptor' = Encryptor
  BY <1>1 DEF Encryptor
<1>3. KeyInv'
  BY <1>1, <1>2 DEF Content, KeyInv, KeyFits
<1>4. Kept' = w.slots
  <2>1. IsSequence(w.slots)
    BY DEF Commits, Building, IsStore
  <2> QED BY <1>1, <2>1, WholeIs DEF Kept
<1>5. Arch(w.slots, w.cat, newTruth, newDoubtful, Encryptor, key) /\ Below(w.cat, w.next)
  BY DEF Commits
<1>6. Apart(w.cat, newDoubtful)
  BY <1>5 DEF Arch
<1>7. Agree'
  BY <1>1 DEF Agree
<1>8. WriteInv'
  <2>1. (Kept' = w.slots) /\ Arch(Kept', handle'.wcat, truth', doubtful', Encryptor', handle'.key)
    BY <1>1, <1>2, <1>4, <1>5
  <2>2. Below(handle'.wcat, handle'.next) /\ Below(handle'.rcat, handle'.next)
        /\ Apart(handle'.rcat, doubtful')
    BY <1>1, <1>5, <1>6
  <2>3. disk'.footer \in {Zeros, Footer(Encryptor', handle'.key)} /\ handle'.wcat = DiskCatalog'
    BY <1>1, <1>2
  <2> QED BY <1>7, <2>1, <2>2, <2>3 DEF WriteInv
<1>9. CacheInv'
  <2>1. Fresh(<<>>, handle'.rcat, truth', doubtful', Encryptor')
    BY NothingFresh
  <2> QED BY <1>1, <2>1 DEF CacheInv
<1> QED BY <1>1, <1>3, <1>8, <1>9 DEF Content, ClosedInv, QuietInv, CreateInv, ReadInv

LEMMA FailedContent ==
    ASSUME Base, Content, handle.mode = "rw", NEW w, NEW newTruth, NEW names, NEW newDoubtful,
           Commits(w, newTruth, names, newDoubtful), CommitFailed(w, names)
    PROVE  Content'
<1> DEFINE key == handle.key
           rcat == handle.rcat
           wcat == handle.wcat
           off == handle.off
           more == doubtful \union names
           kept == SubSeq(w.slots, 1, off)
<1>1. /\ disk'.encryption = disk.encryption /\ disk'.slots = w.slots
      /\ disk'.footer \in {Zeros, Footer(Encryptor, key)} /\ DiskCatalog' = w.cat
      /\ handle'.mode = "rw" /\ handle'.key = key
      /\ handle'.rcat = rcat /\ handle'.wcat = w.cat /\ handle'.next = w.next
      /\ handle'.off = off /\ handle'.order = handle.order
      /\ truth' = truth /\ doubtful' = more
  BY DEF CommitFailed
<1>2. Encryptor' = Encryptor
  BY <1>1 DEF Encryptor
<1>3. KeyInv'
  BY <1>1, <1>2 DEF Content, KeyInv, KeyFits
<1>4. Kept' = kept
  BY <1>1 DEF Kept
<1>5. /\ IsSequence(w.slots) /\ Len(w.slots) \in Nat /\ off \in Nat /\ off <= Len(w.slots)
      /\ DOMAIN Kept = 1..off
  BY KeptIs, SequenceIs DEF Commits, Building, IsStore
<1>6. DOMAIN kept = 1..off /\ \A i \in 1..off : kept[i] = w.slots[i]
  <2>1. off \in 0..Len(w.slots)
    BY <1>5
  <2> HIDE DEF off
  <2> QED BY <1>5, <2>1, PrefixIs
<1>7. /\ newDoubtful \subseteq more /\ Apart(w.cat, newDoubtful)
      /\ Below(w.cat, w.next) /\ handle.next <= w.next /\ w.next \in Nat
      /\ \A f \in (DOMAIN wcat \union DOMAIN w.cat) \ more :
           /\ f \in DOMAIN wcat /\ f \in DOMAIN w.cat /\ w.cat[f] = wcat[f]
           /\ \A o \in Offsets(wcat[f]) : w.slots[o] = Kept[o]
  BY DEF Commits, Arch, Building
<1>8. /\ Arch(Kept, wcat, truth, doubtful, Encryptor, key)
      /\ Below(rcat, handle.next) /\ Agree /\ Apart(rcat, doubtful)
      /\ Fresh(handle.order, rcat, truth, doubtful, Encryptor)
  BY DEF Content, WriteInv, CacheInv
<1>9. handle.next \in Nat /\ WellFormed(rcat) /\ doubtful \subseteq more
  BY DEF Base, HandleShape
<1>10. \A f \in (DOMAIN rcat \union DOMAIN wcat) \ doubtful :
         f \in DOMAIN rcat /\ f \in DOMAIN wcat /\ rcat[f] = wcat[f]
  BY <1>8 DEF Agree
<1> HIDE DEF key, rcat, wcat, off, more, kept
<1>11. Apart(w.cat, more) /\ Apart(rcat, more)
  BY <1>7, <1>8, <1>9, ApartMore
<1>12. Arch(kept, w.cat, truth, more, Encryptor, key)
  <2>1. ASSUME NEW f \in DOMAIN w.cat \ more
        PROVE  /\ f \notin doubtful /\ f \in DOMAIN wcat /\ w.cat[f] = wcat[f]
               /\ f \in DOMAIN truth
               /\ \A o \in Offsets(wcat[f]) : o \in DOMAIN kept /\ kept[o] = Kept[o]
    <3>1. f \notin doubtful
      BY <1>9
    <3>2. f \in DOMAIN wcat /\ w.cat[f] = wcat[f]
          /\ \A o \in Offsets(wcat[f]) : w.slots[o] = Kept[o]
      BY <1>7
    <3>3. f \in DOMAIN truth /\ Holds(wcat[f], f, truth[f], Encryptor, key, Kept)
      BY <1>8, <3>1, <3>2 DEF Arch
    <3>4. Offsets(wcat[f]) \subseteq DOMAIN Kept
      BY <3>3, HoldsOffsets
    <3> QED BY <1>5, <1>6, <3>1, <3>2, <3>3, <3>4
  <2>2. \A f \in DOMAIN w.cat \ more :
          /\ f \notin doubtful /\ f \in DOMAIN wcat /\ w.cat[f] = wcat[f]
          /\ f \in DOMAIN truth /\ truth[f] = truth[f]
          /\ \A o \in Offsets(wcat[f]) : o \in DOMAIN kept /\ kept[o] = Kept[o]
    BY <2>1
  <2> QED BY <1>8, <1>11, <2>2, ArchElse
<1>13. Below(rcat, w.next)
  BY <1>7, <1>8, <1>9, BelowMore
<1>14. \A f \in (DOMAIN rcat \union DOMAIN w.cat) \ more :
         f \in DOMAIN rcat /\ f \in DOMAIN w.cat /\ rcat[f] = w.cat[f]
  BY <1>7, <1>9, <1>10
<1>15. Agree'
  BY <1>1, <1>14 DEF Agree
<1>16. WriteInv'
  <2>1. Arch(Kept', handle'.wcat, truth', doubtful', Encryptor', handle'.key)
    BY <1>1, <1>2, <1>4, <1>12
  <2>2. Below(handle'.wcat, handle'.next) /\ Below(handle'.rcat, handle'.next)
        /\ Apart(handle'.rcat, doubtful')
    BY <1>1, <1>7, <1>11, <1>13
  <2>3. disk'.footer \in {Zeros, Footer(Encryptor', handle'.key)} /\ handle'.wcat = DiskCatalog'
    BY <1>1, <1>2
  <2> QED BY <1>15, <2>1, <2>2, <2>3 DEF WriteInv
<1>17. CacheInv'
  <2>1. Fresh(handle.order, rcat, truth, more, Encryptor)
    BY <1>8, <1>9, FreshMore
  <2> QED BY <1>1, <1>2, <2>1 DEF CacheInv
<1> QED BY <1>1, <1>3, <1>16, <1>17 DEF Content, ClosedInv, QuietInv, CreateInv, ReadInv

LEMMA CommitContent ==
    ASSUME Base, Content, handle.mode = "rw", NEW w, NEW newTruth, NEW names, NEW newDoubtful,
           Commits(w, newTruth, names, newDoubtful), Commit(w, newTruth, names, newDoubtful)
    PROVE  Content'
<1>1. CommitDone(w, newTruth, newDoubtful) \/ CommitFailed(w, names)
  BY CommitIs DEF Commits
<1> QED BY <1>1, DoneContent, FailedContent

LEMMA AddInPlaceContent ==
    ASSUME Base, Content, NEW job \in Jobs, AddFileInPlace(job)
    PROVE  Content'
<1> DEFINE w == Added(Kept, job)
           v == Writer(Kept)
           key == handle.key
           own == handle.codec
           enc == Encryptor
           newTruth == Put(truth, job.file, job.data)
           newDoubtful == doubtful \ {job.file}
           wcat == handle.wcat
<1>1. handle.mode = "rw" /\ Commit(w, newTruth, {job.file}, newDoubtful)
  BY DEF AddFileInPlace
<1>2. IsJob(job) /\ IsStore(Kept) /\ Len(Kept) = handle.off /\ DOMAIN Kept = 1..handle.off
  BY JobIs, KeptIs
<1>3. /\ Building(v) /\ v.slots = Kept /\ v.cat = wcat /\ v.next = handle.next
      /\ Adds(v, w, enc, key, own, job) /\ Building(w) /\ Len(Kept) <= Len(w.slots)
  BY <1>2, WriterIs
<1>4. Arch(Kept, wcat, truth, doubtful, enc, key) /\ Below(wcat, handle.next)
  BY <1>1 DEF Content, WriteInv
<1> HIDE DEF w, v, key, own, enc, wcat
<1>5. Arch(w.slots, w.cat, newTruth, newDoubtful, enc, key)
  BY <1>2, <1>3, <1>4, AddsArch
<1>6. Keeps(v, w, enc, key, own, job)
  BY <1>2, <1>3, <1>4, AddsKeeps
<1>7. /\ DOMAIN w.cat = DOMAIN wcat \union {job.file}
      /\ \A f \in DOMAIN wcat \ {job.file} : w.cat[f] = wcat[f]
      /\ Below(w.cat, w.next) /\ handle.next <= w.next
  BY <1>3, <1>6 DEF Keeps
<1>8. ASSUME NEW f \in DOMAIN wcat \ doubtful, NEW o \in Offsets(wcat[f])
      PROVE  w.slots[o] = Kept[o]
  <2>1. Holds(wcat[f], f, truth[f], enc, key, Kept)
    BY <1>4, <1>8 DEF Arch
  <2>2. o \in 1..Len(Kept)
    BY <1>2, <1>8, <2>1, HoldsOffsets
  <2>3. \A i \in 1..Len(v.slots) : w.slots[i] = v.slots[i]
    BY <1>3 DEF Adds
  <2> QED BY <1>3, <2>2, <2>3
<1>9. \A f \in (DOMAIN wcat \union DOMAIN w.cat) \ (doubtful \union {job.file}) :
        /\ f \in DOMAIN wcat /\ f \in DOMAIN w.cat /\ w.cat[f] = wcat[f]
        /\ \A o \in Offsets(wcat[f]) : w.slots[o] = Kept[o]
  BY <1>7, <1>8
<1>10. Commits(w, newTruth, {job.file}, newDoubtful)
  BY <1>2, <1>3, <1>5, <1>7, <1>9 DEF Commits, wcat, key, enc
<1> HIDE DEF newTruth, newDoubtful
<1> QED BY <1>1, <1>10, CommitContent

-----------------------------------------------------------------------------
(* Deleting and renaming in place.                                          *)

\* cat2 is cat with the entry m for f.
Extends(cat2, cat, f, m) ==
    /\ DOMAIN cat2 = DOMAIN cat \union {f} /\ cat2[f] = m
    /\ \A g \in DOMAIN cat \ {f} : cat2[g] = cat[g]

LEMMA PutExtends ==
    ASSUME NEW cat, NEW f, NEW m
    PROVE  Extends(Put(cat, f, m), cat, f, m)
BY DEF Extends, Put

LEMMA FlaggedHolds ==
    ASSUME NEW m, IsEntry(m), m.deleted = FALSE, NEW f, NEW data, NEW enc, NEW key, NEW slots,
           Holds(m, f, data, enc, key, slots)
    PROVE  Holds(Flagged(m), f, data, enc, key, slots)
<1> DEFINE chunks == Chunks(data, PageBytes)
           d == Flagged(m)
<1>1. /\ IsSequence(data) /\ m.file_name = f /\ m.checksum = Sha256(data)
      /\ m.original_size = Len(data) /\ DOMAIN m.pages = DOMAIN chunks
      /\ \A i \in DOMAIN chunks :
           /\ m.pages[i].offset \in DOMAIN slots
           /\ PageHolds(m.pages[i], FALSE, enc, key, chunks[i], slots[m.pages[i].offset])
      /\ \A i, j \in DOMAIN chunks : m.pages[i].page_id = m.pages[j].page_id => i = j
  BY DEF Holds
<1>2. DOMAIN m.pages = 1..Len(m.pages) /\ IsEntry(d) /\ Len(d.pages) = Len(m.pages)
  BY FlaggedIs DEF IsEntry
<1>3. DOMAIN d.pages = DOMAIN m.pages
  BY <1>2 DEF IsEntry
<1>4. /\ d.file_name = m.file_name /\ d.checksum = m.checksum
      /\ d.original_size = m.original_size /\ d.deleted = TRUE
      /\ \A i \in DOMAIN m.pages :
           /\ d.pages[i] = AsDeleted(m.pages[i]) /\ d.pages[i].page_id = m.pages[i].page_id
           /\ d.pages[i].offset = m.pages[i].offset
           /\ d.pages[i].compression_codec = m.pages[i].compression_codec
  <2>1. \A i \in 1..Len(m.pages) :
           /\ d.pages[i] = AsDeleted(m.pages[i]) /\ d.pages[i].page_id = m.pages[i].page_id
           /\ d.pages[i].offset = m.pages[i].offset
           /\ d.pages[i].compression_codec = m.pages[i].compression_codec
    BY FlaggedIs
  <2>2. /\ d.file_name = m.file_name /\ d.checksum = m.checksum
        /\ d.original_size = m.original_size /\ d.deleted = TRUE
    BY FlaggedIs
  <2> HIDE DEF d
  <2> QED BY <1>2, <2>1, <2>2
<1> HIDE DEF chunks, d
<1>5. ASSUME NEW i \in DOMAIN chunks
      PROVE  PageHolds(d.pages[i], TRUE, enc, key, chunks[i], slots[d.pages[i].offset])
  <2> DEFINE ph == m.pages[i]
             flagged == d.pages[i]
  <2>1. /\ ph = Written(ph, enc, chunks[i])
        /\ slots[ph.offset] = Payload(Written(ph, enc, chunks[i]), enc, key, chunks[i])
    BY <1>1 DEF PageHolds
  <2>2. /\ flagged = AsDeleted(ph) /\ flagged.page_id = ph.page_id
        /\ flagged.offset = ph.offset /\ flagged.compression_codec = ph.compression_codec
    BY <1>1, <1>4
  <2> HIDE DEF ph, flagged
  <2>3. Written(flagged, enc, chunks[i]) = Written(ph, enc, chunks[i])
    BY <2>2 DEF Written
  <2>4. PageHolds(flagged, TRUE, enc, key, chunks[i], slots[flagged.offset])
    BY <2>1, <2>2, <2>3 DEF PageHolds
  <2> QED BY <2>4 DEF flagged
<1>6. \A i \in DOMAIN chunks : d.pages[i].offset \in DOMAIN slots
  BY <1>1, <1>4
<1>7. \A i, j \in DOMAIN chunks : d.pages[i].page_id = d.pages[j].page_id => i = j
  BY <1>1, <1>4
<1> QED BY <1>1, <1>3, <1>4, <1>5, <1>6, <1>7 DEF Holds, chunks, d

LEMMA FlaggedPlaces ==
    ASSUME NEW m, IsEntry(m)
    PROVE  Ids(Flagged(m)) = Ids(m) /\ Offsets(Flagged(m)) = Offsets(m)
<1> DEFINE d == Flagged(m)
<1>1. DOMAIN m.pages = 1..Len(m.pages) /\ IsEntry(d) /\ Len(d.pages) = Len(m.pages)
  BY FlaggedIs DEF IsEntry
<1>2. DOMAIN d.pages = DOMAIN m.pages
  BY <1>1 DEF IsEntry
<1>3. \A i \in DOMAIN m.pages : /\ d.pages[i].page_id = m.pages[i].page_id
                                /\ d.pages[i].offset = m.pages[i].offset
  BY <1>1, FlaggedIs
<1> HIDE DEF d
<1>4. Ids(d) = Ids(m) /\ Offsets(d) = Offsets(m)
  BY <1>2, <1>3 DEF Ids, Offsets
<1> QED BY <1>4 DEF d

\* Catalogs with the same page ids and offsets are apart alike.
LEMMA ApartAlike ==
    ASSUME NEW cat, NEW doubt, Apart(cat, doubt), NEW cat2, DOMAIN cat2 \subseteq DOMAIN cat,
           \A f \in DOMAIN cat2 : Ids(cat2[f]) = Ids(cat[f]) /\ Offsets(cat2[f]) = Offsets(cat[f])
    PROVE  Apart(cat2, doubt)
BY DEF Apart

LEMMA BelowAlike ==
    ASSUME NEW cat, NEW n, Below(cat, n), NEW cat2, DOMAIN cat2 \subseteq DOMAIN cat,
           \A f \in DOMAIN cat2 : Ids(cat2[f]) = Ids(cat[f])
    PROVE  Below(cat2, n)
BY DEF Below

\* A writer whose next page id and catalog offset stay.
LEMMA SoftDeleteCommits ==
    ASSUME Base, Content, handle.mode = "rw", NEW f \in DOMAIN handle.wcat
    PROVE  Commits(DeleteWriter(f, TRUE), truth, {f}, doubtful)
<1> DEFINE w == DeleteWriter(f, TRUE)
           wcat == handle.wcat
           m == wcat[f]
           d == Flagged(m)
           key == handle.key
<1>1. Building(w) /\ Len(w.slots) = handle.off /\ handle.off \in Nat /\ handle.next \in Nat
  <2>1. Building(w) /\ Len(w.slots) = handle.off
    BY DeleteWriterIs
  <2>2. handle.off \in Nat
    BY KeptIs
  <2> QED BY <2>1, <2>2 DEF Base, HandleShape
<1>2. /\ w.slots = Kept /\ w.next = handle.next
      /\ w.cat = IF m.deleted THEN wcat ELSE Put(wcat, f, d)
  BY DEF DeleteWriter
<1>3. /\ Arch(Kept, wcat, truth, doubtful, Encryptor, key) /\ Below(wcat, handle.next)
  BY DEF Content, WriteInv
<1>4. IsEntry(m) /\ m.deleted \in BOOLEAN
  BY DEF Base, HandleShape, WellFormed, IsEntry, IsMeta
<1>5. Ids(d) = Ids(m) /\ Offsets(d) = Offsets(m)
  <2> HIDE DEF m
  <2> QED BY <1>4, FlaggedPlaces
<1>6. \A doubt : f \notin doubt /\ m.deleted = FALSE /\ Arch(Kept, wcat, truth, doubt, Encryptor, key)
                   => Holds(d, f, truth[f], Encryptor, key, Kept)
  <2> SUFFICES ASSUME NEW doubt, f \notin doubt, m.deleted = FALSE,
                      Arch(Kept, wcat, truth, doubt, Encryptor, key)
               PROVE  Holds(d, f, truth[f], Encryptor, key, Kept)
    OBVIOUS
  <2>1. Holds(m, f, truth[f], Encryptor, key, Kept)
    BY DEF Arch
  <2> HIDE DEF m
  <2> QED BY <1>4, <2>1, FlaggedHolds
<1>7. /\ DOMAIN w.cat = DOMAIN wcat /\ \A g \in DOMAIN wcat \ {f} : w.cat[g] = wcat[g]
      /\ w.cat[f] = IF m.deleted THEN m ELSE d
  <2> HIDE DEF d
  <2>1. CASE m.deleted
    BY <1>2, <2>1
  <2>2. CASE ~m.deleted
    <3> HIDE DEF wcat, m, w
    <3>1. w.cat = Put(wcat, f, d)
      BY <1>2, <2>2
    <3>2. /\ DOMAIN Put(wcat, f, d) = DOMAIN wcat \union {f} /\ Put(wcat, f, d)[f] = d
          /\ \A g \in DOMAIN wcat \ {f} : Put(wcat, f, d)[g] = wcat[g]
      <4>1. Extends(Put(wcat, f, d), wcat, f, d)
        BY PutExtends
      <4> QED BY <4>1 DEF Extends
    <3>3. f \in DOMAIN wcat
      BY DEF wcat
    <3> QED BY <2>2, <3>1, <3>2, <3>3
  <2> QED BY <2>1, <2>2
<1> HIDE DEF w, wcat, m, d, key
<1>8. \A g \in DOMAIN w.cat : Ids(w.cat[g]) = Ids(wcat[g]) /\ Offsets(w.cat[g]) = Offsets(wcat[g])
  BY <1>5, <1>7 DEF m
<1>9. Apart(w.cat, doubtful)
  <2>1. Apart(wcat, doubtful)
    BY <1>3 DEF Arch
  <2> QED BY <1>7, <1>8, <2>1, ApartAlike
<1>10. Below(w.cat, w.next)
  <2>1. Below(w.cat, handle.next)
    BY <1>3, <1>7, <1>8, BelowAlike
  <2> QED BY <1>2, <2>1
<1>11. ASSUME NEW g \in DOMAIN w.cat \ doubtful
       PROVE  g \in DOMAIN truth /\ Holds(w.cat[g], g, truth[g], Encryptor, key, Kept)
  <2>1. g \in DOMAIN truth /\ Holds(wcat[g], g, truth[g], Encryptor, key, Kept)
    BY <1>3, <1>7 DEF Arch
  <2>2. CASE g # f
    BY <1>7, <2>1, <2>2
  <2>3. CASE g = f /\ m.deleted
    BY <1>7, <2>1, <2>3 DEF m
  <2>4. CASE g = f /\ ~m.deleted
    BY <1>3, <1>4, <1>6, <1>7, <2>1, <2>4
  <2> QED BY <2>2, <2>3, <2>4
<1>12. Arch(w.slots, w.cat, truth, doubtful, Encryptor, key)
  BY <1>2, <1>9, <1>11 DEF Arch
<1>13. \A g \in (DOMAIN wcat \union DOMAIN w.cat) \ (doubtful \union {f}) :
         /\ g \in DOMAIN wcat /\ g \in DOMAIN w.cat /\ w.cat[g] = wcat[g]
         /\ \A o \in Offsets(wcat[g]) : w.slots[o] = Kept[o]
  BY <1>2, <1>7
<1>14. handle.next <= w.next /\ handle.off <= Len(w.slots)
  BY <1>1, <1>2
<1> QED BY <1>1, <1>10, <1>12, <1>13, <1>14 DEF Commits, w, wcat, key

\* Whose pages are not those of f.
LEMMA NotSharing ==
    ASSUME Base, Content, handle.mode = "rw", NEW f \in DOMAIN handle.wcat,
           NEW g \in DOMAIN handle.wcat \ (doubtful \union Hurt(f, FALSE)), g # f
    PROVE  Offsets(handle.wcat[f]) \intersect Offsets(handle.wcat[g]) = {}
<1> DEFINE wcat == handle.wcat
<1>1. CASE f \notin doubtful
  <2>1. Apart(wcat, doubtful)
    BY DEF Content, WriteInv, Arch
  <2> QED BY <1>1, <2>1 DEF Apart
<1>2. CASE f \in doubtful
  <2>1. g \notin Sharing(f)
    BY <1>2 DEF Hurt
  <2>2. \A h \in DOMAIN wcat : {ph.offset : ph \in Range(wcat[h].pages)} = Offsets(wcat[h])
    BY DEF Range, Offsets
  <2> QED BY <2>1, <2>2 DEF Sharing
<1> QED BY <1>1, <1>2

LEMMA HardDeleteCommits ==
    ASSUME Base, Content, handle.mode = "rw", NEW f \in DOMAIN handle.wcat
    PROVE  Commits(DeleteWriter(f, FALSE), Dropped(truth, {f}), {f} \union Hurt(f, FALSE),
                   doubtful \union Hurt(f, FALSE))
<1> DEFINE w == DeleteWriter(f, FALSE)
           wcat == handle.wcat
           key == handle.key
           more == doubtful \union Hurt(f, FALSE)
           newTruth == Dropped(truth, {f})
           zeroed == ZeroedPages(Kept, wcat[f])
<1>1. Building(w) /\ Len(w.slots) = handle.off /\ handle.off \in Nat /\ handle.next \in Nat
  <2>1. Building(w) /\ Len(w.slots) = handle.off
    BY DeleteWriterIs
  <2>2. handle.off \in Nat
    BY KeptIs
  <2> QED BY <2>1, <2>2 DEF Base, HandleShape
<1>2. w.slots = zeroed /\ w.next = handle.next /\ w.cat = Dropped(wcat, {f})
  BY DEF DeleteWriter
<1>3. /\ Arch(Kept, wcat, truth, doubtful, Encryptor, key) /\ Below(wcat, handle.next)
  BY DEF Content, WriteInv
<1>4. /\ DOMAIN zeroed = DOMAIN Kept
      /\ \A o \in DOMAIN Kept : o \notin Offsets(wcat[f]) => zeroed[o] = Kept[o]
  <2> DEFINE m == wcat[f]
  <2>1. IsStore(Kept)
    BY KeptIs
  <2> HIDE DEF m
  <2>2. /\ DOMAIN ZeroedPages(Kept, m) = DOMAIN Kept
        /\ \A o \in DOMAIN Kept : o \notin Offsets(m) => ZeroedPages(Kept, m)[o] = Kept[o]
    BY <2>1, ZeroedIs
  <2> QED BY <2>2 DEF m
<1>5. /\ DOMAIN w.cat = DOMAIN wcat \ {f} /\ \A g \in DOMAIN wcat \ {f} : w.cat[g] = wcat[g]
      /\ DOMAIN newTruth = DOMAIN truth \ {f}
      /\ \A g \in DOMAIN truth \ {f} : newTruth[g] = truth[g]
  <2>1. /\ DOMAIN newTruth = DOMAIN truth \ {f}
        /\ \A g \in DOMAIN truth \ {f} : newTruth[g] = truth[g]
    BY DroppedIs
  <2>2. /\ DOMAIN Dropped(wcat, {f}) = DOMAIN wcat \ {f}
        /\ \A g \in DOMAIN wcat \ {f} : Dropped(wcat, {f})[g] = wcat[g]
    BY DroppedIs
  <2> HIDE DEF newTruth, w, wcat
  <2> QED BY <1>2, <2>1, <2>2
<1>6. ASSUME NEW g \in DOMAIN wcat \ {f}, g \notin more
      PROVE  /\ g \notin doubtful /\ g \in DOMAIN truth
             /\ \A o \in Offsets(wcat[g]) : o \in DOMAIN zeroed /\ zeroed[o] = Kept[o]
  <2>1. g \in DOMAIN wcat \ (doubtful \union Hurt(f, FALSE))
    BY <1>6
  <2>2. Offsets(wcat[f]) \intersect Offsets(wcat[g]) = {}
    BY <1>6, <2>1, NotSharing
  <2>3. g \in DOMAIN truth /\ Holds(wcat[g], g, truth[g], Encryptor, key, Kept)
    BY <1>3, <2>1 DEF Arch
  <2> HIDE DEF wcat, zeroed, key
  <2>4. Offsets(wcat[g]) \subseteq DOMAIN Kept
    BY <2>3, HoldsOffsets
  <2> QED BY <1>4, <2>1, <2>2, <2>3, <2>4
<1>7. doubtful \subseteq more
  OBVIOUS
<1> HIDE DEF w, wcat, key, more, newTruth, zeroed
<1>8. Apart(w.cat, more)
  <2>1. Apart(wcat, doubtful)
    BY <1>3 DEF Arch
  <2>2. Apart(w.cat, doubtful)
    BY <1>5, <2>1, ApartAlike
  <2> QED BY <1>7, <2>2, ApartMore
<1>9. ASSUME NEW g \in DOMAIN w.cat \ more
      PROVE  /\ g \notin doubtful /\ g \in DOMAIN wcat /\ w.cat[g] = wcat[g]
             /\ g \in DOMAIN newTruth /\ newTruth[g] = truth[g]
             /\ \A o \in Offsets(wcat[g]) : o \in DOMAIN zeroed /\ zeroed[o] = Kept[o]
  BY <1>5, <1>6
<1>10. Arch(zeroed, w.cat, newTruth, more, Encryptor, key)
  BY <1>3, <1>8, <1>9, ArchElse
<1>11. Below(w.cat, w.next)
  <2>1. Below(w.cat, handle.next)
    BY <1>3, <1>5, BelowAlike
  <2> QED BY <1>2, <2>1
<1>12. \A g \in (DOMAIN wcat \union DOMAIN w.cat) \ (doubtful \union ({f} \union Hurt(f, FALSE))) :
         /\ g \in DOMAIN wcat /\ g \in DOMAIN w.cat /\ w.cat[g] = wcat[g]
         /\ \A o \in Offsets(wcat[g]) : w.slots[o] = Kept[o]
  <2> SUFFICES ASSUME NEW g \in (DOMAIN wcat \union DOMAIN w.cat)
                                  \ (doubtful \union ({f} \union Hurt(f, FALSE)))
               PROVE  /\ g \in DOMAIN wcat /\ g \in DOMAIN w.cat /\ w.cat[g] = wcat[g]
                      /\ \A o \in Offsets(wcat[g]) : w.slots[o] = Kept[o]
    OBVIOUS
  <2>1. g \in DOMAIN wcat \ {f} /\ g \notin more
    BY <1>5 DEF more
  <2> QED BY <1>2, <1>5, <1>6, <2>1
<1>13. /\ handle.next <= w.next /\ handle.off <= Len(w.slots)
       /\ more \subseteq doubtful \union ({f} \union Hurt(f, FALSE))
  <2>1. handle.next <= w.next /\ handle.off <= Len(w.slots)
    BY <1>1, <1>2
  <2>2. more \subseteq doubtful \union ({f} \union Hurt(f, FALSE))
    BY DEF more
  <2> QED BY <2>1, <2>2
<1>14. Commits(w, newTruth, {f} \union Hurt(f, FALSE), more)
  BY <1>1, <1>2, <1>10, <1>11, <1>12, <1>13 DEF Commits, wcat, key
<1> QED BY <1>14 DEF w, newTruth, more

LEMMA DeleteInPlaceContent ==
    ASSUME Base, Content, NEW f, NEW soft \in BOOLEAN, DeleteFileInPlace(f, soft)
    PROVE  Content'
<1> DEFINE newTruth == IF soft THEN truth ELSE Dropped(truth, {f})
           names == {f} \union Hurt(f, soft)
           newDoubtful == doubtful \union Hurt(f, soft)
           w == DeleteWriter(f, soft)
<1>1. handle.mode = "rw" /\ f \in DOMAIN handle.wcat /\ Commit(w, newTruth, names, newDoubtful)
  BY DeleteInPlaceIs
<1>2. Commits(w, newTruth, names, newDoubtful)
  <2>1. CASE soft = TRUE
    <3>1. names = {f} /\ newDoubtful = doubtful /\ newTruth = truth
      BY <2>1 DEF Hurt
    <3>2. w = DeleteWriter(f, TRUE)
      BY <2>1
    <3> HIDE DEF w, names, newDoubtful, newTruth
    <3> QED BY <1>1, <3>1, <3>2, SoftDeleteCommits
  <2>2. CASE soft = FALSE
    <3>1. /\ names = {f} \union Hurt(f, FALSE) /\ newDoubtful = doubtful \union Hurt(f, FALSE)
          /\ newTruth = Dropped(truth, {f}) /\ w = DeleteWriter(f, FALSE)
      BY <2>2
    <3> HIDE DEF w, names, newDoubtful, newTruth
    <3> QED BY <1>1, <3>1, HardDeleteCommits
  <2> QED BY <2>1, <2>2
<1> HIDE DEF newTruth, names, newDoubtful, w
<1> QED BY <1>1, <1>2, CommitContent

\* The entry with another name holds the same.
LEMMA RenamedHolds ==
    ASSUME Base, NEW f \in DOMAIN handle.rcat, NEW g \in FileNames, NEW data, NEW enc, NEW key,
           NEW slots, Holds(handle.rcat[f], f, data, enc, key, slots)
    PROVE  Holds(RenamedMeta(f, g), g, data, enc, key, slots)
<1> DEFINE m == handle.rcat[f]
           d == RenamedMeta(f, g)
<1>1. /\ d.pages = m.pages /\ d.file_name = g /\ d.deleted = m.deleted
      /\ d.checksum = m.checksum /\ d.original_size = m.original_size
  BY RenameWriterIs
<1> HIDE DEF m, d
<1>2. Holds(m, f, data, enc, key, slots) => Holds(d, g, data, enc, key, slots)
  BY <1>1 DEF Holds
<1> QED BY <1>2 DEF m, d

\* t2 is t with f's content moved to g.
WasMoved(t2, t, f, g) ==
    /\ f \notin DOMAIN t => t2 = t
    /\ f \in DOMAIN t =>
         /\ DOMAIN t2 = (DOMAIN t \ {f}) \union {g} /\ t2[g] = t[f]
         /\ \A h \in DOMAIN t \ {f, g} : t2[h] = t[h]

LEMMA MovedWas ==
    ASSUME NEW t, NEW f, NEW g
    PROVE  WasMoved(Moved(t, f, g), t, f, g)
<1> DEFINE t2 == Moved(t, f, g)
<1>1. f \notin DOMAIN t => t2 = t
  BY DEF Moved
<1>2. f \in DOMAIN t => t2 = Put(Dropped(t, {f}), g, t[f])
  BY DEF Moved
<1> HIDE DEF t2
<1>3. f \in DOMAIN t => /\ DOMAIN t2 = (DOMAIN t \ {f}) \union {g} /\ t2[g] = t[f]
                        /\ \A h \in DOMAIN t \ {f, g} : t2[h] = t[h]
  BY <1>2 DEF Put, Dropped
<1>4. WasMoved(t2, t, f, g)
  BY <1>1, <1>3 DEF WasMoved
<1> QED BY <1>4 DEF t2

\* What is known after a rename, of a file that is not doubtful.
LEMMA DoubtMovedIs ==
    ASSUME NEW f, NEW g
    PROVE  /\ DoubtMoved(f, g) \subseteq doubtful \union {f, g}
           /\ \A h : h \notin DoubtMoved(f, g) /\ h # g => h \notin doubtful
           /\ g \notin DoubtMoved(f, g) => f \notin doubtful
BY DEF DoubtMoved

\* Reader's and writer's entries share no page ids.
LEMMA SidesApart ==
    ASSUME Base, Content, handle.mode = "rw", NEW f \in DOMAIN handle.rcat,
           NEW h \in DOMAIN handle.wcat \ doubtful, h # f
    PROVE  Ids(handle.wcat[h]) \intersect Ids(handle.rcat[f]) = {}
<1>1. h \in DOMAIN handle.rcat /\ handle.rcat[h] = handle.wcat[h]
  BY DEF Content, WriteInv, Agree
<1>2. Apart(handle.rcat, doubtful)
  BY DEF Content, WriteInv
<1> QED BY <1>1, <1>2 DEF Apart

LEMMA RenameCommits ==
    ASSUME Base, Content, handle.mode = "rw", NEW f \in DOMAIN handle.rcat, NEW g \in FileNames
    PROVE  Commits(RenameWriter(f, g), Moved(truth, f, g), {f, g}, DoubtMoved(f, g))
<1> DEFINE w == RenameWriter(f, g)
           wcat == handle.wcat
           rcat == handle.rcat
           m == rcat[f]
           d == RenamedMeta(f, g)
           key == handle.key
           more == DoubtMoved(f, g)
           newTruth == Moved(truth, f, g)
<1>1. Building(w) /\ Len(w.slots) = handle.off /\ handle.off \in Nat /\ handle.next \in Nat
  <2>1. Building(w) /\ Len(w.slots) = handle.off
    BY RenameWriterIs
  <2>2. handle.off \in Nat
    BY KeptIs
  <2> QED BY <2>1, <2>2 DEF Base, HandleShape
<1>2. w.slots = Kept /\ w.next = handle.next /\ w.cat = Put(Dropped(wcat, {f}), g, d)
  BY DEF RenameWriter
<1>3. /\ Arch(Kept, wcat, truth, doubtful, Encryptor, key)
      /\ Below(wcat, handle.next) /\ Below(rcat, handle.next)
  BY DEF Content, WriteInv
<1>4. d.pages = m.pages
  BY RenameWriterIs
<1>5. \A data : Holds(m, f, data, Encryptor, key, Kept) => Holds(d, g, data, Encryptor, key, Kept)
  BY RenamedHolds
<1>6. /\ f \notin DOMAIN truth => newTruth = truth
      /\ f \in DOMAIN truth =>
           /\ DOMAIN newTruth = (DOMAIN truth \ {f}) \union {g} /\ newTruth[g] = truth[f]
           /\ \A h \in DOMAIN truth \ {f, g} : newTruth[h] = truth[h]
  <2>1. WasMoved(newTruth, truth, f, g)
    BY MovedWas
  <2> HIDE DEF newTruth
  <2> QED BY <2>1 DEF WasMoved
<1>7. /\ more \subseteq doubtful \union {f, g}
      /\ \A h : h \notin more /\ h # g => h \notin doubtful
      /\ g \notin more => f \notin doubtful
  BY DoubtMovedIs
<1>8. f \notin doubtful => f \in DOMAIN wcat /\ wcat[f] = m
  BY DEF Content, WriteInv, Agree
<1>9. \A h \in DOMAIN wcat \ doubtful : h # f => Ids(wcat[h]) \intersect Ids(m) = {}
  BY SidesApart
<1>10. f \in DOMAIN rcat
  OBVIOUS
<1> HIDE DEF w, wcat, rcat, m, d, key, more, newTruth
<1>11. /\ DOMAIN w.cat = (DOMAIN wcat \ {f}) \union {g} /\ w.cat[g] = d
       /\ \A h \in (DOMAIN wcat \ {f}) \ {g} : w.cat[h] = wcat[h]
  <2> DEFINE left == Dropped(wcat, {f})
  <2>1. /\ DOMAIN left = DOMAIN wcat \ {f} /\ \A h \in DOMAIN wcat \ {f} : left[h] = wcat[h]
    BY DroppedIs
  <2> HIDE DEF left
  <2>2. w.cat = Put(left, g, d)
    BY <1>2 DEF left
  <2>3. Extends(w.cat, left, g, d)
    BY <2>2, PutExtends
  <2> QED BY <2>1, <2>3 DEF Extends
<1>12. Ids(d) = Ids(m) /\ Offsets(d) = Offsets(m)
  BY <1>4 DEF Ids, Offsets
<1>13. Apart(wcat, doubtful)
  BY <1>3 DEF Arch
<1>14. Apart(w.cat, more)
  <2> SUFFICES ASSUME NEW h \in DOMAIN w.cat \ more, NEW k \in DOMAIN w.cat \ {h}
               PROVE  /\ Ids(w.cat[h]) \intersect Ids(w.cat[k]) = {}
                      /\ k \notin more => Offsets(w.cat[h]) \intersect Offsets(w.cat[k]) = {}
    BY DEF Apart
  <2>1. CASE h # g /\ k # g
    <3>1. /\ h \in DOMAIN wcat \ doubtful /\ k \in DOMAIN wcat \ {h}
          /\ w.cat[h] = wcat[h] /\ w.cat[k] = wcat[k] /\ (k \notin more => k \notin doubtful)
      BY <1>7, <1>11, <2>1
    <3> QED BY <1>13, <3>1 DEF Apart
  <2>2. CASE h # g /\ k = g
    <3>1. /\ h \in DOMAIN wcat \ doubtful /\ h # f /\ w.cat[h] = wcat[h] /\ w.cat[k] = d
      BY <1>7, <1>11, <2>2
    <3>2. Ids(wcat[h]) \intersect Ids(d) = {}
      BY <1>9, <1>12, <3>1
    <3>3. k \notin more => /\ f \in DOMAIN wcat \ {h} /\ wcat[f] = m /\ f \notin doubtful
      BY <1>7, <1>8, <2>2, <3>1
    <3>4. k \notin more => Offsets(wcat[h]) \intersect Offsets(d) = {}
      BY <1>12, <1>13, <3>1, <3>3 DEF Apart
    <3> QED BY <3>1, <3>2, <3>4
  <2>3. CASE h = g /\ k # g
    <3>1. /\ f \in DOMAIN wcat \ doubtful /\ wcat[f] = m /\ w.cat[h] = d
          /\ k \in DOMAIN wcat \ {f} /\ w.cat[k] = wcat[k] /\ (k \notin more => k \notin doubtful)
      BY <1>7, <1>8, <1>11, <2>3
    <3>2. /\ Ids(m) \intersect Ids(wcat[k]) = {}
          /\ k \notin doubtful => Offsets(m) \intersect Offsets(wcat[k]) = {}
      BY <1>13, <3>1 DEF Apart
    <3> QED BY <1>12, <3>1, <3>2
  <2> QED BY <2>1, <2>2, <2>3
<1>15. ASSUME NEW h \in DOMAIN w.cat \ more
       PROVE  h \in DOMAIN newTruth /\ Holds(w.cat[h], h, newTruth[h], Encryptor, key, Kept)
  <2>1. CASE h = g
    <3>1. f \in DOMAIN wcat \ doubtful /\ wcat[f] = m
      BY <1>7, <1>8, <1>15, <2>1
    <3>2. f \in DOMAIN truth /\ Holds(m, f, truth[f], Encryptor, key, Kept)
      BY <1>3, <3>1 DEF Arch
    <3>3. g \in DOMAIN newTruth /\ newTruth[g] = truth[f]
      BY <1>6, <3>2
    <3> QED BY <1>5, <1>11, <2>1, <3>2, <3>3
  <2>2. CASE h # g
    <3>1. h \in DOMAIN wcat \ doubtful /\ h # f /\ w.cat[h] = wcat[h]
      BY <1>7, <1>11, <1>15, <2>2
    <3>2. h \in DOMAIN truth /\ Holds(wcat[h], h, truth[h], Encryptor, key, Kept)
      BY <1>3, <3>1 DEF Arch
    <3>3. h \in DOMAIN newTruth /\ newTruth[h] = truth[h]
      BY <1>6, <2>2, <3>1, <3>2
    <3> QED BY <3>1, <3>2, <3>3
  <2> QED BY <2>1, <2>2
<1>16. Arch(w.slots, w.cat, newTruth, more, Encryptor, key)
  BY <1>2, <1>14, <1>15 DEF Arch
<1>17. Below(w.cat, w.next)
  <2> SUFFICES ASSUME NEW h \in DOMAIN w.cat, NEW id \in Ids(w.cat[h])
               PROVE  id < handle.next
    BY <1>2 DEF Below
  <2>1. CASE h = g
    <3>1. id \in Ids(rcat[f])
      BY <1>11, <1>12, <2>1 DEF m
    <3> QED BY <1>3, <1>10, <3>1 DEF Below
  <2>2. CASE h # g
    <3>1. h \in DOMAIN wcat /\ id \in Ids(wcat[h])
      BY <1>11, <2>2
    <3> QED BY <1>3, <3>1 DEF Below
  <2> QED BY <2>1, <2>2
<1>18. \A h \in (DOMAIN wcat \union DOMAIN w.cat) \ (doubtful \union {f, g}) :
         /\ h \in DOMAIN wcat /\ h \in DOMAIN w.cat /\ w.cat[h] = wcat[h]
         /\ \A o \in Offsets(wcat[h]) : w.slots[o] = Kept[o]
  BY <1>2, <1>11
<1>19. handle.next <= w.next /\ handle.off <= Len(w.slots)
  BY <1>1, <1>2
<1>20. Commits(w, newTruth, {f, g}, more)
  BY <1>1, <1>7, <1>16, <1>17, <1>18, <1>19 DEF Commits, wcat, key
<1> QED BY <1>20 DEF w, newTruth, more

LEMMA RenameInPlaceContent ==
    ASSUME Base, Content, NEW f \in DOMAIN handle.rcat, NEW g \in FileNames,
           RenameFileInPlace(f, g)
    PROVE  Content'
<1> DEFINE w == RenameWriter(f, g)
           newTruth == Moved(truth, f, g)
           newDoubtful == DoubtMoved(f, g)
<1>1. handle.mode = "rw" /\ Commit(w, newTruth, {f, g}, newDoubtful)
  BY RenameInPlaceIs
<1>2. Commits(w, newTruth, {f, g}, newDoubtful)
  BY <1>1, RenameCommits
<1> HIDE DEF w, newTruth, newDoubtful
<1> QED BY <1>1, <1>2, CommitContent

-----------------------------------------------------------------------------
(* Creating, opening and closing.                                           *)

LEMMA AddCreatingContent ==
    ASSUME Base, Content, NEW job \in Jobs, AddFileCreating(job)
    PROVE  Content'
<1> DEFINE slots == disk.slots
           w == Added(slots, job)
           v == Writer(slots)
           key == handle.key
           own == handle.codec
           enc == Encryptor
           newTruth == Put(truth, job.file, job.data)
           wcat == handle.wcat
<1>1. /\ handle.mode = "create" /\ disk' = [disk EXCEPT !.slots = w.slots]
      /\ handle' = [handle EXCEPT !.wcat = w.cat, !.next = w.next]
      /\ truth' = newTruth /\ doubtful' = doubtful
  BY DEF AddFileCreating
<1>2. IsJob(job) /\ IsStore(slots)
  BY JobIs DEF Base, DiskShape
<1>3. /\ Building(v) /\ v.slots = slots /\ v.cat = wcat /\ v.next = handle.next
      /\ Adds(v, w, enc, key, own, job) /\ Building(w)
  BY <1>2, WriterIs
<1>4. Arch(slots, wcat, truth, doubtful, enc, key) /\ Below(wcat, handle.next)
      /\ KeyFits(key) /\ handle.order = <<>>
  BY <1>1 DEF Content, CreateInv, KeyInv, QuietInv
<1>5. /\ disk'.encryption = disk.encryption /\ disk'.slots = w.slots
      /\ handle'.mode = "create" /\ handle'.key = key /\ handle'.wcat = w.cat
      /\ handle'.next = w.next /\ handle'.order = <<>>
  BY <1>1, <1>4 DEF Base, DiskShape, HandleShape
<1> HIDE DEF w, v, key, own, enc, wcat, slots, newTruth
<1>6. Arch(w.slots, w.cat, newTruth, doubtful \ {job.file}, enc, key)
  BY <1>2, <1>3, <1>4, AddsArch DEF newTruth
<1>7. Arch(w.slots, w.cat, newTruth, doubtful, enc, key)
  <2>1. doubtful \ {job.file} \subseteq doubtful
    OBVIOUS
  <2> QED BY <1>6, <2>1, ArchMore
<1>8. Keeps(v, w, enc, key, own, job)
  BY <1>2, <1>3, <1>4, AddsKeeps
<1>9. Below(w.cat, w.next)
  BY <1>8 DEF Keeps
<1>10. Encryptor' = enc
  BY <1>5 DEF Encryptor, enc
<1>11. CreateInv'
  BY <1>1, <1>5, <1>7, <1>9, <1>10 DEF CreateInv
<1>12. KeyInv'
  BY <1>4, <1>5, <1>10 DEF KeyInv, KeyFits, enc
<1> QED BY <1>5, <1>11, <1>12 DEF Content, ClosedInv, QuietInv, ReadInv, WriteInv, CacheInv

LEMMA NothingHeld ==
    ASSUME NEW slots, NEW known, NEW doubt, NEW enc, NEW key, NEW n
    PROVE  Arch(slots, Empty, known, doubt, enc, key) /\ Below(Empty, n)
<1>1. DOMAIN Empty = {}
  BY EmptyWellFormed
<1> QED BY <1>1 DEF Arch, Apart, Below

LEMMA CreateContent ==
    ASSUME Base, NEW raw \in Encryptions, NEW key \in OwnerKeys, NEW codec \in Codecs,
           Create(raw, key, codec)
    PROVE  Content'
<1>1. /\ disk'.encryption = raw /\ disk'.slots = <<>>
      /\ handle'.mode = "create" /\ handle'.key = KeyFor(raw, key)
      /\ handle'.wcat = Empty /\ handle'.next = 0 /\ handle'.order = <<>>
      /\ OptionsValid(raw, key)
  BY DEF Create, NoArchive, NoHandle
<1>2. Encryptor' = EncryptorOf(raw)
  BY <1>1 DEF Encryptor
<1>3. EncryptorOf(raw) # "none" => CipherKey(KeyFor(raw, key))
  BY <1>1 DEF EncryptorOf, KeyFor, OptionsValid, CipherKey, GetKeySize
<1>4. ~IsEncrypted(raw) => KeyFor(raw, key) = NoKey
  BY DEF KeyFor
<1>5. KeyInv'
  BY <1>1, <1>2, <1>3, <1>4 DEF KeyInv, KeyFits, Fits
<1>6. CreateInv'
  BY <1>1, NothingHeld DEF CreateInv
<1> QED BY <1>1, <1>5, <1>6 DEF Content, ClosedInv, QuietInv, ReadInv, WriteInv, CacheInv

\* What a footer that opens passed.
FooterPassed(given) ==
    /\ ~XSTD_isError(DecryptResult(Encryptor, given, <<>>, disk.footer))
    /\ Decrypt(Encryptor, given, disk.footer) = FooterFrame
    /\ Encryptor \in Ciphers /\ (Encryptor = "none" <=> ~IsEncrypted(disk.encryption))

LEMMA OpenedPassed ==
    ASSUME NEW given, ~XSTD_isError(OpenResult(given))
    PROVE  FooterPassed(given)
<1> DEFINE footer == disk.footer
           c1 == IsEncrypted(disk.encryption) /\ given = NoKey
           c2 == IsEncrypted(disk.encryption) /\ given.size # GetKeySize(disk.encryption)
           c3 == IsEncrypted(disk.encryption) /\ Encryptor = "none"
           found == DecryptResult(Encryptor, given, <<>>, footer)
           c4 == XSTD_isError(found)
           c5 == Decrypt(Encryptor, given, footer) # FooterFrame
<1>1. OpenResult(given) =
        FirstError(<< <<c1, "kMissingEncryptionKey">>, <<c2, "kInvalidArgument">>,
                      <<c3, "kUnsupportedAlgorithm">>, <<c4, found>>, <<c5, "kInvalidArchive">> >>)
  BY DEF OpenResult, Encryptor
<1>2. c1 \in BOOLEAN /\ c2 \in BOOLEAN /\ c3 \in BOOLEAN /\ c4 \in BOOLEAN /\ c5 \in BOOLEAN
  BY DEF IsEncrypted, XSTD_isError
<1> HIDE DEF c1, c2, c3, c4, c5, found
<1>3. OpenResult(given) =
        IF c1 THEN "kMissingEncryptionKey" ELSE IF c2 THEN "kInvalidArgument"
        ELSE IF c3 THEN "kUnsupportedAlgorithm" ELSE IF c4 THEN found
        ELSE IF c5 THEN "kInvalidArchive" ELSE "kSuccess"
  BY <1>1, <1>2, FirstOfFive
<1>4. ~c1 /\ ~c2 /\ ~c3 /\ ~c4 /\ ~c5
  BY <1>3 DEF XSTD_isError, c4
<1>5. ~XSTD_isError(DecryptResult(Encryptor, given, <<>>, footer))
      /\ Decrypt(Encryptor, given, footer) = FooterFrame
  BY <1>4 DEF c4, c5, found
<1>6. Encryptor \in Ciphers /\ (Encryptor = "none" <=> ~IsEncrypted(disk.encryption))
  BY <1>4, EncryptorIs DEF c3, Encryptor, EncryptorOf
<1> QED BY <1>5, <1>6 DEF FooterPassed

\* A footer of zeros does not open.
LEMMA ZerosStayShut ==
    ASSUME NEW given, ~XSTD_isError(OpenResult(given))
    PROVE  disk.footer # Zeros
<1>1. FooterFrame # Garbage /\ Zeros.frame = Garbage /\ Zeros.enc = "zeros"
  BY DEF FooterFrame, Garbage, Zeros
<1>2. FooterPassed(given)
  BY OpenedPassed
<1> SUFFICES ASSUME disk.footer = Zeros PROVE FALSE
  OBVIOUS
<1>3. Decrypt(Encryptor, given, Zeros) = Garbage
  BY <1>1 DEF Decrypt, AesCtrText
<1> QED BY <1>1, <1>2, <1>3 DEF FooterPassed

\* A footer that opens was made with the key that opens it.
LEMMA FooterOpens ==
    ASSUME NEW given, NEW key, KeyFits(key), disk.footer \in {Zeros, Footer(Encryptor, key)},
           ~XSTD_isError(OpenResult(given))
    PROVE  disk.footer = Footer(Encryptor, key) /\ KeyFor(disk.encryption, given) = key
<1> DEFINE footer == disk.footer
<1>5. ~XSTD_isError(DecryptResult(Encryptor, given, <<>>, footer))
      /\ Decrypt(Encryptor, given, footer) = FooterFrame
  BY OpenedPassed DEF FooterPassed
<1>6. Encryptor \in Ciphers /\ (Encryptor = "none" <=> ~IsEncrypted(disk.encryption))
  BY OpenedPassed DEF FooterPassed
<1>7. FooterFrame # Garbage /\ footer # Zeros
  BY ZerosStayShut DEF FooterFrame, Garbage
<1>8. CASE Encryptor = "gcm"
  <2>1. ~XSTD_isError(AesGcmResult(given, <<>>, footer))
    BY <1>5, <1>8 DEF DecryptResult
  <2>2. footer = AesGcmEncrypt(given, <<>>, footer.frame)
    <3> DEFINE c6 == ~CipherKey(given)
               c7 == footer # AesGcmEncrypt(given, <<>>, footer.frame)
    <3>1. AesGcmResult(given, <<>>, footer) =
            FirstError(<< <<c6, "kInvalidArgument">>, <<c7, "kDecryptionFailed">> >>)
      BY DEF AesGcmResult
    <3>2. c6 \in BOOLEAN /\ c7 \in BOOLEAN
      BY DEF CipherKey
    <3> HIDE DEF c6, c7
    <3>3. AesGcmResult(given, <<>>, footer) =
            IF c6 THEN "kInvalidArgument" ELSE IF c7 THEN "kDecryptionFailed" ELSE "kSuccess"
      BY <3>1, <3>2, FirstOfTwo
    <3>4. ~c7
      BY <2>1, <3>3 DEF XSTD_isError
    <3> QED BY <3>4 DEF c7
  <2>3. footer.frame = FooterFrame
    BY <1>5, <1>8 DEF Decrypt
  <2>4. footer # Zeros
    BY <1>7, <2>3
  <2>5. footer = Footer(Encryptor, key)
    BY <2>4
  <2>6. footer.key = key /\ footer.key = given
    <3>1. footer.key = given
      BY <2>2 DEF AesGcmEncrypt
    <3>2. footer.key = key
      BY <1>8, <2>5 DEF Footer, Stored, AesGcmEncrypt
    <3> QED BY <3>1, <3>2
  <2> QED BY <1>6, <1>8, <2>5, <2>6 DEF KeyFor
<1>9. CASE Encryptor = "ctr"
  <2>1. AesCtrText(given, footer) = FooterFrame
    BY <1>5, <1>9 DEF Decrypt
  <2>2. footer = AesCtrEncrypt(given, footer.frame) /\ footer.frame = FooterFrame
    BY <1>7, <2>1 DEF AesCtrText
  <2>3. footer # Zeros
    BY <1>7, <2>2
  <2>4. footer = Footer(Encryptor, key)
    BY <2>3
  <2>5. footer.key = key /\ footer.key = given
    <3>1. footer.key = given
      BY <2>2 DEF AesCtrEncrypt
    <3>2. footer.key = key
      BY <1>9, <2>4 DEF Footer, Stored, AesCtrEncrypt
    <3> QED BY <3>1, <3>2
  <2> QED BY <1>6, <1>9, <2>4, <2>5 DEF KeyFor
<1>10. CASE Encryptor = "none"
  <2>1. footer.enc = "none"
    BY <1>5, <1>7, <1>10 DEF Decrypt
  <2>2. footer # Zeros
    BY <1>7, <2>1
  <2> QED BY <1>6, <1>10, <2>2 DEF KeyFor, KeyFits
<1> QED BY <1>6, <1>8, <1>9, <1>10 DEF Ciphers

\* Whoever opens an archive has its key, and finds it complete.
LEMMA OpensIntact ==
    ASSUME Base, Content, handle.mode = "closed", NEW given, ~XSTD_isError(OpenResult(given))
    PROVE  Intact(KeyFor(disk.encryption, given))
<1>1. disk.footer # Zeros
  BY ZerosStayShut
<1>2. PICK key : Intact(key)
  BY <1>1 DEF Content, ClosedInv
<1>3. KeyFits(key) /\ disk.footer = Footer(Encryptor, key)
  BY <1>2 DEF Intact
<1>4. KeyFor(disk.encryption, given) = key
  BY <1>3, FooterOpens
<1> QED BY <1>2, <1>4

LEMMA OpenContent ==
    ASSUME Base, Content, NEW mode \in {"ro", "rw"}, NEW given \in Keys, NEW codec \in Codecs,
           NEW cap \in Capacities, Open(mode, given, codec, cap)
    PROVE  Content'
<1> DEFINE key == KeyFor(disk.encryption, given)
           cat == DiskCatalog
           slots == disk.slots
           enc == Encryptor
<1>1. /\ handle.mode = "closed" /\ ~XSTD_isError(OpenResult(given))
      /\ disk' = disk /\ truth' = truth /\ doubtful' = doubtful
      /\ handle'.mode = mode /\ handle'.key = key /\ handle'.rcat = cat
      /\ handle'.order = <<>>
      /\ mode = "rw" => /\ handle'.wcat = cat /\ handle'.off = Len(slots)
                        /\ handle'.next = NextPageId(cat)
  BY DEF Open, NoHandle
<1>2. Intact(key)
  BY <1>1, OpensIntact
<1>3. Encryptor' = enc /\ DiskCatalog' = cat
  BY <1>1 DEF Encryptor, DiskCatalog
<1>4. KeyInv'
  BY <1>1, <1>2, <1>3 DEF KeyInv, KeyFits, Intact
<1>5. ReadInv'
  BY <1>1, <1>2, <1>3 DEF ReadInv, Intact, KeyFits
<1>6. CacheInv'
  <2>1. Fresh(<<>>, handle'.rcat, truth', doubtful', Encryptor')
    BY NothingFresh
  <2> QED BY <1>1, <2>1 DEF CacheInv
<1>7. WriteInv'
  <2> SUFFICES ASSUME mode = "rw" PROVE WriteInv'
    BY <1>1 DEF WriteInv
  <2>1. Kept' = slots
    <3>1. IsSequence(slots)
      BY DEF Base, DiskShape, IsStore
    <3> QED BY <1>1, <3>1, WholeIs DEF Kept
  <2>2. Below(cat, NextPageId(cat))
    BY NextPageIdIs DEF Base, DiskShape
  <2>3. /\ disk.footer = Footer(enc, key)
        /\ Arch(slots, cat, truth, doubtful, enc, key) /\ Apart(cat, doubtful)
    BY <1>2 DEF Intact, Arch
  <2>4. Agree'
    BY <1>1 DEF Agree
  <2>5. disk'.footer \in {Zeros, Footer(Encryptor', handle'.key)} /\ handle'.wcat = DiskCatalog'
    BY <1>1, <1>3, <2>3
  <2>6. Arch(Kept', handle'.wcat, truth', doubtful', Encryptor', handle'.key)
    BY <1>1, <1>3, <2>1, <2>3
  <2>7. /\ Below(handle'.wcat, handle'.next) /\ Below(handle'.rcat, handle'.next)
        /\ Apart(handle'.rcat, doubtful')
    BY <1>1, <2>2, <2>3
  <2> QED BY <2>4, <2>5, <2>6, <2>7 DEF WriteInv
<1> QED BY <1>1, <1>4, <1>5, <1>6, <1>7 DEF Content, ClosedInv, QuietInv, CreateInv

\* The pages before the catalog offset are pages of the archive.
LEMMA WholeArch ==
    ASSUME Base, Content, handle.mode = "rw"
    PROVE  Arch(disk.slots, handle.wcat, truth, doubtful, Encryptor, handle.key)
<1> DEFINE wcat == handle.wcat
           key == handle.key
           slots == disk.slots
<1>1. Arch(Kept, wcat, truth, doubtful, Encryptor, key)
  BY DEF Content, WriteInv
<1>2. /\ DOMAIN Kept = 1..handle.off /\ \A i \in 1..handle.off : Kept[i] = slots[i]
      /\ handle.off \in Nat /\ handle.off <= Len(slots)
  BY KeptIs
<1>3. DOMAIN slots = 1..Len(slots) /\ Len(slots) \in Nat
  BY SequenceIs DEF Base, DiskShape, IsStore
<1> HIDE DEF wcat, key, slots
<1>4. \A i \in 1..handle.off : i \in DOMAIN slots
  BY <1>2, <1>3
<1>5. Apart(wcat, doubtful)
  BY <1>1 DEF Arch
<1>6. ASSUME NEW f \in DOMAIN wcat \ doubtful
      PROVE  /\ f \notin doubtful /\ f \in DOMAIN wcat /\ wcat[f] = wcat[f]
             /\ f \in DOMAIN truth /\ truth[f] = truth[f]
             /\ \A o \in Offsets(wcat[f]) : o \in DOMAIN slots /\ slots[o] = Kept[o]
  <2>1. f \in DOMAIN truth /\ Holds(wcat[f], f, truth[f], Encryptor, key, Kept)
    BY <1>1 DEF Arch
  <2>2. Offsets(wcat[f]) \subseteq DOMAIN Kept
    BY <2>1, HoldsOffsets
  <2> QED BY <1>2, <1>4, <2>1, <2>2
<1>7. \A f \in DOMAIN wcat \ doubtful :
        /\ f \notin doubtful /\ f \in DOMAIN wcat /\ wcat[f] = wcat[f]
        /\ f \in DOMAIN truth /\ truth[f] = truth[f]
        /\ \A o \in Offsets(wcat[f]) : o \in DOMAIN slots /\ slots[o] = Kept[o]
  BY <1>6
<1>8. Arch(slots, wcat, truth, doubtful, Encryptor, key)
  BY <1>1, <1>5, <1>7, ArchElse
<1> QED BY <1>8 DEF wcat, key, slots

LEMMA CloseContent ==
    ASSUME Base, Content, Close
    PROVE  Content'
<1>2. PICK key : key = handle.key
  OBVIOUS
<1> DEFINE wcat == handle.wcat
           enc == Encryptor
           created == handle.mode = "create"
<1>1. /\ handle.mode # "closed" /\ handle'.mode = "closed" /\ handle'.order = <<>>
      /\ truth' = truth /\ doubtful' = doubtful
      /\ disk' = IF created THEN [disk EXCEPT !.catalog = Serialise(wcat),
                                              !.footer = Footer(EncryptorOf(disk.encryption), key)]
                 ELSE disk
  BY <1>2 DEF Close, NoHandle
<1>5. KeyFits(key)
  BY <1>1, <1>2 DEF Content, KeyInv
<1> SUFFICES ClosedInv'
  BY <1>1 DEF Content, KeyInv, QuietInv, CreateInv, ReadInv, WriteInv, CacheInv
<1>3. CASE created
  <2>1. /\ disk'.encryption = disk.encryption /\ disk'.slots = disk.slots
        /\ disk'.catalog = Serialise(wcat) /\ disk'.footer = Footer(enc, key)
    BY <1>1, <1>3 DEF Base, DiskShape, Encryptor
  <2>2. WellFormed(wcat)
    BY DEF Base, HandleShape
  <2>3. DiskCatalog' = wcat
    BY <2>1, <2>2, LoadedIs DEF DiskCatalog
  <2>4. Encryptor' = enc
    BY <2>1 DEF Encryptor
  <2>5. Arch(disk.slots, wcat, truth, doubtful, enc, key)
    BY <1>2, <1>3 DEF Content, CreateInv
  <2>6. Intact(key)'
    BY <1>1, <1>5, <2>1, <2>3, <2>4, <2>5 DEF Intact, KeyFits
  <2> QED BY <1>1, <2>6 DEF ClosedInv
<1>4. CASE ~created
  <2>1. disk' = disk
    BY <1>1, <1>4
  <2>2. Encryptor' = enc /\ DiskCatalog' = DiskCatalog
    BY <2>1 DEF Encryptor, DiskCatalog
  <2>3. CASE handle.mode = "ro"
    <3>1. Intact(key)
      BY <1>2, <2>3 DEF Content, ReadInv
    <3>2. Intact(key)'
      BY <1>1, <2>1, <2>2, <3>1 DEF Intact, KeyFits
    <3> QED BY <3>2 DEF ClosedInv
  <2>4. CASE handle.mode = "rw"
    <3>1. /\ disk.footer \in {Zeros, Footer(Encryptor, key)} /\ wcat = DiskCatalog
      BY <1>2, <2>4 DEF Content, WriteInv
    <3>2. Arch(disk.slots, wcat, truth, doubtful, Encryptor, key)
      BY <1>2, <2>4, WholeArch
    <3>3. disk.footer # Zeros => Intact(key)
      BY <1>5, <3>1, <3>2 DEF Intact
    <3>4. disk'.footer # Zeros => Intact(key)'
      BY <1>1, <2>1, <2>2, <3>3 DEF Intact, KeyFits
    <3> QED BY <3>4 DEF ClosedInv
  <2> QED BY <1>1, <1>4, <2>3, <2>4 DEF Base, HandleShape
<1> QED BY <1>1, <1>3, <1>4

-----------------------------------------------------------------------------
(* Reading, and rewriting.                                                  *)

\* A step that only reads keeps the content when the cache stays fresh.
LEMMA OnlyReadContent ==
    ASSUME Base, Content, handle.mode # "closed", NEW order, OnlyRead(order),
           handle.mode = "create" => order = <<>>,
           handle.mode \in {"ro", "rw"} =>
             Fresh(order, handle.rcat, truth, doubtful, Encryptor)
    PROVE  Content'
<1>1. /\ disk' = disk /\ truth' = truth /\ doubtful' = doubtful
      /\ handle'.mode = handle.mode /\ handle'.key = handle.key
      /\ handle'.rcat = handle.rcat /\ handle'.wcat = handle.wcat /\ handle'.next = handle.next
      /\ handle'.off = handle.off /\ handle'.order = order
  BY DEF OnlyRead
<1>2. Encryptor' = Encryptor /\ DiskCatalog' = DiskCatalog /\ Kept' = Kept
  BY <1>1 DEF Encryptor, DiskCatalog, Kept
<1>3. KeyInv' /\ CreateInv' /\ ReadInv'
  BY <1>1, <1>2 DEF Content, KeyInv, CreateInv, ReadInv, KeyFits, Intact
<1>4. WriteInv'
  BY <1>1, <1>2 DEF Content, WriteInv, Agree
<1>5. ClosedInv' /\ QuietInv' /\ CacheInv'
  BY <1>1, <1>2 DEF ClosedInv, QuietInv, CacheInv
<1> QED BY <1>3, <1>4, <1>5 DEF Content

LEMMA ReadFileContent ==
    ASSUME Base, Content, NEW f \in DOMAIN handle.rcat, ReadFile(f)
    PROVE  Content'
<1> DEFINE r == AssembleFile(Reading, handle.rcat[f])
           rcat == handle.rcat
<1>1. /\ handle.mode \in {"ro", "rw"} /\ handle' = Keep(r)
      /\ disk' = disk /\ truth' = truth /\ doubtful' = doubtful
  BY DEF ReadFile
<1>2. OnlyRead(r.order)
  <2> HIDE DEF r
  <2> QED BY <1>1, OnlyReadIs
<1>3. Known(rcat) /\ FreshIn(Reading, rcat)
  BY <1>1, KnownNow
<1>4. FreshIn(r, rcat)
  <2> HIDE DEF rcat
  <2>1. f \in DOMAIN rcat
    BY DEF rcat
  <2>2. FreshIn(AssembleFile(Reading, rcat[f]), rcat)
    BY <1>3, <2>1, AssembleFresh
  <2> QED BY <2>2 DEF rcat
<1>5. Fresh(r.order, rcat, truth, doubtful, Encryptor)
  BY <1>4 DEF FreshIn
<1> HIDE DEF r
<1> QED BY <1>1, <1>2, <1>5, OnlyReadContent

\* What a plan's jobs are, when they are right for what is known afterwards.
Faithful(plan, newTruth, newDoubtful) ==
    /\ \A i \in 1..Len(plan.files) :
         LET name == plan.as[plan.files[i]] IN
         /\ name \notin newDoubtful
         /\ \A k \in i + 1..Len(plan.files) : plan.as[plan.files[k]] # name
         /\ \A k \in 1..Len(plan.added) : plan.added[k].file # name
         => /\ plan.files[i] \notin doubtful
            /\ name \in DOMAIN newTruth /\ newTruth[name] = truth[plan.files[i]]
    /\ \A i \in 1..Len(plan.added) :
         /\ plan.added[i].file \notin newDoubtful
         /\ \A k \in i + 1..Len(plan.added) : plan.added[k].file # plan.added[i].file
         => /\ plan.added[i].file \in DOMAIN newTruth
            /\ newTruth[plan.added[i].file] = plan.added[i].data

\* The last job about a file that is not doubtful brings what is known of it.
LEMMA LastJobIsTrue ==
    ASSUME NEW plan, NEW newTruth, NEW newDoubtful, Faithful(plan, newTruth, newDoubtful),
           NEW files, NEW jobs, Named(plan, files, jobs),
           \A i \in 1..Len(plan.files) : plan.files[i] \notin doubtful
                                           => files[i].data = truth[plan.files[i]],
           NEW f, f \notin newDoubtful, NEW j, LastJob(jobs, Len(jobs), j, f)
    PROVE  f \in DOMAIN newTruth /\ jobs[j].data = newTruth[f]
<1> DEFINE a == Len(plan.files)
           b == Len(plan.added)
<1>1. /\ a \in Nat /\ b \in Nat /\ Len(jobs) = a + b
      /\ \A i \in 1..a : /\ jobs[i].file = plan.as[plan.files[i]]
                         /\ jobs[i].data = files[i].data
      /\ \A i \in 1..b : jobs[a + i] = plan.added[i]
  BY DEF Named
<1>2. /\ j \in 1..a + b /\ jobs[j].file = f
      /\ \A k \in j + 1..a + b : jobs[k].file # f
  BY <1>1 DEF LastJob
<1>3. CASE j \in 1..a
  <2>1. ASSUME NEW k \in j + 1..a
        PROVE  plan.as[plan.files[k]] # f
    <3> HIDE DEF a, b
    <3>1. k \in j + 1..a + b /\ k \in 1..a
      BY <1>1, <1>3
    <3> QED BY <1>1, <1>2, <3>1
  <2>2. ASSUME NEW k \in 1..b
        PROVE  plan.added[k].file # f
    <3> HIDE DEF a, b
    <3>1. a + k \in j + 1..a + b
      BY <1>1, <1>3
    <3> QED BY <1>1, <1>2, <3>1
  <2>3. plan.as[plan.files[j]] = f
    BY <1>1, <1>2, <1>3
  <2>4. /\ plan.files[j] \notin doubtful /\ f \in DOMAIN newTruth
        /\ newTruth[f] = truth[plan.files[j]]
    BY <1>3, <2>1, <2>2, <2>3 DEF Faithful
  <2> QED BY <1>1, <1>3, <2>4
<1>4. CASE j \notin 1..a
  <2> HIDE DEF a, b
  <2>1. j - a \in 1..b /\ a + (j - a) = j
    BY <1>1, <1>2, <1>4
  <2>2. jobs[j] = plan.added[j - a]
    BY <1>1, <2>1
  <2>3. ASSUME NEW k \in (j - a) + 1..b
        PROVE  plan.added[k].file # f
    <3>1. a + k \in j + 1..a + b /\ k \in 1..b
      BY <1>1, <1>2, <2>1
    <3> QED BY <1>1, <1>2, <3>1
  <2>4. plan.added[j - a].file = f
    BY <1>2, <2>2
  <2>5. f \in DOMAIN newTruth /\ newTruth[f] = plan.added[j - a].data
    BY <2>1, <2>3, <2>4 DEF Faithful, b
  <2> QED BY <2>2, <2>5
<1> QED BY <1>3, <1>4

\* The archive a rewrite makes holds what is known of its files.
LEMMA RebuiltArch ==
    ASSUME NEW plan, NEW newTruth, NEW newDoubtful, Faithful(plan, newTruth, newDoubtful),
           NEW files, NEW jobs, NEW new, Rebuilt(plan, files, jobs, new),
           \A i \in 1..Len(plan.files) : plan.files[i] \notin doubtful
                                           => files[i].data = truth[plan.files[i]]
    PROVE  Arch(new.slots, FlaggedIn(new.cat, plan.flagged), newTruth, newDoubtful, Encryptor,
                handle.key)
<1> DEFINE cat == new.cat
           key == handle.key
           slots == new.slots
           n == Len(jobs)
           after == FlaggedIn(cat, plan.flagged)
<1>1. Named(plan, files, jobs)
  BY JobNames
<1>2. /\ WellFormed(cat) /\ Apart(cat, {}) /\ DOMAIN cat = {jobs[j].file : j \in 1..n}
      /\ \A f, j : LastJob(jobs, n, j, f) =>
           Holds(cat[f], f, jobs[j].data, Encryptor, key, slots) /\ cat[f].deleted = FALSE
  BY DEF Rebuilt, BuiltFrom, Building
<1>3. n \in Nat
  BY SequenceIs DEF Rebuilt, JobsFrom
<1> HIDE DEF cat, key, slots, n
<1>4. DOMAIN after = DOMAIN cat
  BY <1>2, FlaggedInIs
<1>5. \A f \in DOMAIN cat : after[f] = IF f \in plan.flagged THEN Flagged(cat[f]) ELSE cat[f]
  BY <1>2, FlaggedInIs
<1> HIDE DEF after
<1>6. \A f \in DOMAIN cat : IsEntry(cat[f])
  BY <1>2 DEF WellFormed
<1>7. \A f \in DOMAIN after : Ids(after[f]) = Ids(cat[f]) /\ Offsets(after[f]) = Offsets(cat[f])
  <2> SUFFICES ASSUME NEW f \in DOMAIN cat
               PROVE  Ids(after[f]) = Ids(cat[f]) /\ Offsets(after[f]) = Offsets(cat[f])
    BY <1>4
  <2>1. Ids(Flagged(cat[f])) = Ids(cat[f]) /\ Offsets(Flagged(cat[f])) = Offsets(cat[f])
    BY <1>6, FlaggedPlaces
  <2> QED BY <1>5, <2>1
<1>8. Apart(after, newDoubtful)
  <2>1. Apart(after, {})
    BY <1>2, <1>4, <1>7, ApartAlike
  <2>2. {} \subseteq newDoubtful
    OBVIOUS
  <2> QED BY <2>1, <2>2, ApartMore
<1>9. ASSUME NEW f \in DOMAIN cat, f \notin newDoubtful
      PROVE  f \in DOMAIN newTruth /\ Holds(after[f], f, newTruth[f], Encryptor, key, slots)
  <2>1. \E j \in 1..n : jobs[j].file = f
    BY <1>2
  <2>2. PICK j : LastJob(jobs, n, j, f)
    BY <1>3, <2>1, LastJobExists
  <2>3. f \in DOMAIN newTruth /\ jobs[j].data = newTruth[f]
    BY <1>1, <1>9, <2>2, LastJobIsTrue DEF n
  <2> DEFINE m == cat[f]
  <2>4. /\ Holds(m, f, newTruth[f], Encryptor, key, slots) /\ m.deleted = FALSE /\ IsEntry(m)
        /\ after[f] = IF f \in plan.flagged THEN Flagged(m) ELSE m
    BY <1>2, <1>5, <1>6, <2>2, <2>3
  <2> HIDE DEF m
  <2>5. Holds(Flagged(m), f, newTruth[f], Encryptor, key, slots)
    BY <2>4, FlaggedHolds
  <2> QED BY <2>3, <2>4, <2>5
<1>10. Arch(slots, after, newTruth, newDoubtful, Encryptor, key)
  BY <1>4, <1>8, <1>9 DEF Arch
<1> QED BY <1>10 DEF slots, after, key, cat

LEMMA RewriteContent ==
    ASSUME Base, Content, NEW plan, IsPlan(plan), NEW newTruth, NEW newDoubtful,
           handle.mode = "ro" /\ plan.possible = TRUE => Faithful(plan, newTruth, newDoubtful),
           Rewrite(plan, newTruth, newDoubtful)
    PROVE  Content'
<1> DEFINE read == AssembleAll(Reading, plan.files)
           rcat == handle.rcat
<1>1. handle.mode = "ro" /\ RewriteEffect(plan, read, newTruth, newDoubtful)
  BY RewriteIs
<1>2. Known(rcat) /\ FreshIn(Reading, rcat)
  BY <1>1, KnownNow
<1>3. Extracted(read, Reading, plan.files, Len(plan.files))
  BY RewriteExtracts
<1> HIDE DEF read
<1>4. CASE OnlyRead(read.reading.order)
  <2> DEFINE order == read.reading.order
  <2>1. FreshIn(read.reading, rcat)
    BY <1>2, <1>3 DEF Extracted
  <2>2. Fresh(order, rcat, truth, doubtful, Encryptor) /\ OnlyRead(order)
    BY <1>4, <2>1 DEF FreshIn
  <2> HIDE DEF order
  <2> QED BY <1>1, <2>2, OnlyReadContent
<1>5. CASE /\ plan.possible /\ read.reading.result = "kSuccess"
           /\ \E jobs, new : /\ Rebuilt(plan, read.files, jobs, new)
                             /\ RewriteDone(plan, new, newTruth, newDoubtful)
  <2> DEFINE files == read.files
  <2>1. PICK jobs, new : /\ Rebuilt(plan, files, jobs, new)
                         /\ RewriteDone(plan, new, newTruth, newDoubtful)
    BY <1>5
  <2>2. \A i \in 1..Len(plan.files) : plan.files[i] \notin doubtful
                                        => files[i].data = truth[plan.files[i]]
    BY <1>2, <1>3, <1>5 DEF Extracted
  <2> DEFINE cat == FlaggedIn(new.cat, plan.flagged)
             key == handle.key
  <2>3. /\ disk'.encryption = disk.encryption /\ disk'.slots = new.slots
        /\ disk'.footer = Footer(Encryptor, key) /\ DiskCatalog' = cat
        /\ handle'.mode = "ro" /\ handle'.key = key /\ handle'.rcat = cat
        /\ handle'.order = <<>> /\ truth' = newTruth /\ doubtful' = newDoubtful
    BY <1>1, <2>1 DEF RewriteDone
  <2>4. Arch(new.slots, cat, newTruth, newDoubtful, Encryptor, key)
    <3> HIDE DEF files
    <3>1. Faithful(plan, newTruth, newDoubtful)
      BY <1>1, <1>5
    <3> QED BY <2>1, <2>2, <3>1, RebuiltArch
  <2>5. Encryptor' = Encryptor
    BY <2>3 DEF Encryptor
  <2>6. KeyFits(key)
    BY <1>1 DEF Content, KeyInv
  <2> HIDE DEF cat, key
  <2>7. KeyInv'
    BY <2>3, <2>5, <2>6 DEF KeyInv, KeyFits
  <2>8. ReadInv'
    BY <2>3, <2>4, <2>5, <2>6 DEF ReadInv, Intact, KeyFits
  <2>9. Fresh(<<>>, handle'.rcat, truth', doubtful', Encryptor')
    BY NothingFresh
  <2>10. CacheInv'
    BY <2>3, <2>9 DEF CacheInv
  <2> QED BY <2>3, <2>7, <2>8, <2>10 DEF Content, ClosedInv, QuietInv, CreateInv, WriteInv
<1> QED BY <1>1, <1>4, <1>5 DEF RewriteEffect

\* What is known of a live file that a handle reads.
LEMMA LiveKnown ==
    ASSUME Base, Content, handle.mode = "ro", NEW f \in Live(handle.rcat), f \notin doubtful
    PROVE  f \in DOMAIN LiveTruth /\ LiveTruth[f] = truth[f]
<1> DEFINE rcat == handle.rcat
<1>1. Known(rcat)
  BY KnownNow
<1>2. f \in DOMAIN rcat /\ f \notin SoftDeleted(rcat)
  BY DEF Live, SoftDeleted
<1>3. f \in DOMAIN truth
  BY <1>1, <1>2 DEF Known, Arch
<1>4. DOMAIN LiveTruth = DOMAIN truth \ SoftDeleted(rcat)
      /\ \A g \in DOMAIN truth \ SoftDeleted(rcat) : LiveTruth[g] = truth[g]
  BY DEF LiveTruth, Dropped
<1> QED BY <1>2, <1>3, <1>4

LEMMA FilesAreLive ==
    ASSUME Base, NEW S, S \subseteq Live(handle.rcat), NEW i \in 1..Len(Sorted(S))
    PROVE  /\ Sorted(S)[i] \in S /\ Sorted(S)[i] \in Live(handle.rcat)
           /\ Sorted(S)[i] \in FileNames
<1>1. Sorted(S)[i] \in S
  BY SortedFiles
<1> QED BY <1>1, LiveIs

LEMMA AddRewritingContent ==
    ASSUME Base, Content, NEW job \in Jobs, AddFileRewriting(job)
    PROVE  Content'
<1> DEFINE plan == AddPlan(job)
           newTruth == Put(LiveTruth, job.file, job.data)
           newDoubtful == doubtful \ {job.file}
           live == Live(handle.rcat)
<1>1. IsJob(job)
  BY JobIs
<1>2. /\ IsPlan(plan) /\ plan.files = Sorted(live) /\ plan.as = [f \in FileNames |-> f]
      /\ plan.added = <<job>>
  BY <1>1, AddPlanIs
<1>3. Rewrite(plan, newTruth, newDoubtful)
  BY DEF AddFileRewriting, AddPlan
<1>4. Extends(newTruth, LiveTruth, job.file, job.data)
  BY PutExtends
<1>5. Len(plan.added) = 1 /\ plan.added[1] = job
  BY <1>2, OneIs
<1>6. \A i \in 1..Len(plan.files) : /\ plan.files[i] \in live /\ plan.files[i] \in FileNames
  BY <1>2, FilesAreLive
<1>7. handle.mode = "ro" =>
        \A f \in live \ doubtful : f \in DOMAIN LiveTruth /\ LiveTruth[f] = truth[f]
  BY LiveKnown
<1> HIDE DEF plan, newTruth, live
<1>8. handle.mode = "ro" => Faithful(plan, newTruth, newDoubtful)
  <2> SUFFICES ASSUME handle.mode = "ro" PROVE Faithful(plan, newTruth, newDoubtful)
    OBVIOUS
  <2>1. ASSUME NEW i \in 1..Len(plan.files), plan.files[i] \notin newDoubtful,
               \A k \in 1..Len(plan.added) : plan.added[k].file # plan.files[i]
        PROVE  /\ plan.files[i] \notin doubtful /\ plan.files[i] \in DOMAIN newTruth
               /\ newTruth[plan.files[i]] = truth[plan.files[i]]
    <3> DEFINE f == plan.files[i]
    <3>1. f # job.file /\ f \in live
      BY <1>5, <1>6, <2>1
    <3>2. f \notin doubtful
      BY <2>1, <3>1
    <3> HIDE DEF f
    <3>3. f \in DOMAIN LiveTruth /\ LiveTruth[f] = truth[f]
      BY <1>7, <3>1, <3>2
    <3>4. f \in DOMAIN newTruth /\ newTruth[f] = LiveTruth[f]
      BY <1>4, <3>1, <3>3 DEF Extends
    <3> QED BY <3>2, <3>3, <3>4 DEF f
  <2>2. \A i \in 1..Len(plan.files) : plan.as[plan.files[i]] = plan.files[i]
    BY <1>2, <1>6
  <2>3. job.file \in DOMAIN newTruth /\ newTruth[job.file] = job.data
    BY <1>4 DEF Extends
  <2>4. \A i \in 1..Len(plan.added) : plan.added[i] = job
    BY <1>5
  <2> HIDE DEF newDoubtful
  <2> QED BY <2>1, <2>2, <2>3, <2>4 DEF Faithful
<1> HIDE DEF newDoubtful
<1> QED BY <1>2, <1>3, <1>8, RewriteContent

\* Plans that add nothing.
LEMMA FaithfulCopy ==
    ASSUME NEW plan, plan.added = <<>>, NEW newTruth, NEW newDoubtful,
           \A i \in 1..Len(plan.files) :
             LET name == plan.as[plan.files[i]] IN
             /\ name \notin newDoubtful
             /\ \A k \in i + 1..Len(plan.files) : plan.as[plan.files[k]] # name
             => /\ plan.files[i] \notin doubtful
                /\ name \in DOMAIN newTruth /\ newTruth[name] = truth[plan.files[i]]
    PROVE  Faithful(plan, newTruth, newDoubtful)
<1>1. \A i : i \notin 1..Len(plan.added)
  <2>1. Len(plan.added) = 0
    BY EmptyIs
  <2>2. \A i : i \notin 1..0
    OBVIOUS
  <2> QED BY <2>1, <2>2
<1> QED BY <1>1 DEF Faithful

LEMMA DeleteRewritingContent ==
    ASSUME Base, Content, NEW f, NEW soft \in BOOLEAN, DeleteFileRewriting(f, soft)
    PROVE  Content'
<1> DEFINE plan == DeletePlan(f, soft)
           newTruth == IF soft THEN LiveTruth ELSE Dropped(LiveTruth, {f})
           live == Live(handle.rcat)
           S == IF soft THEN live ELSE live \ {f}
           files == Sorted(S)
<1>1. /\ IsPlan(plan) /\ plan.files = files /\ plan.added = <<>>
      /\ plan.as = [g \in FileNames |-> g] /\ S \subseteq live
  BY DeletePlanIs
<1>2. Rewrite(plan, newTruth, doubtful)
  BY DEF DeleteFileRewriting, DeletePlan
<1>3. \A i \in 1..Len(files) : files[i] \in S /\ files[i] \in live /\ files[i] \in FileNames
  <2> HIDE DEF S
  <2> QED BY <1>1, FilesAreLive
<1>4. handle.mode = "ro" =>
        \A g \in live \ doubtful : g \in DOMAIN LiveTruth /\ LiveTruth[g] = truth[g]
  BY LiveKnown
<1>5. \A g \in DOMAIN LiveTruth : g \in S => g \in DOMAIN newTruth /\ newTruth[g] = LiveTruth[g]
  <2>1. CASE soft
    BY <2>1
  <2>2. CASE ~soft
    BY <2>2 DEF Dropped
  <2> QED BY <2>1, <2>2
<1> HIDE DEF plan, newTruth, live, S, files
<1>6. handle.mode = "ro" => Faithful(plan, newTruth, doubtful)
  <2> SUFFICES ASSUME handle.mode = "ro" PROVE Faithful(plan, newTruth, doubtful)
    OBVIOUS
  <2>1. ASSUME NEW i \in 1..Len(files)
        PROVE  /\ plan.as[files[i]] = files[i]
               /\ files[i] \notin doubtful =>
                    files[i] \in DOMAIN newTruth /\ newTruth[files[i]] = truth[files[i]]
    BY <1>1, <1>3, <1>4, <1>5
  <2> QED BY <1>1, <2>1, FaithfulCopy
<1> QED BY <1>1, <1>2, <1>6, RewriteContent

LEMMA NoPlanContent ==
    ASSUME Base, Content, NEW newTruth, NEW newDoubtful, Rewrite(NoPlan, newTruth, newDoubtful)
    PROVE  Content'
<1> DEFINE plan == NoPlan
<1>1. IsPlan(plan) /\ plan.possible = FALSE
  BY NoPlanIs
<1>2. Rewrite(plan, newTruth, newDoubtful)
  OBVIOUS
<1> HIDE DEF plan
<1> QED BY <1>1, <1>2, RewriteContent

\* Of two files that end up under one name, the one whose old name is the
\* larger stays.
LEMMA RenamePlanFaithful ==
    ASSUME Base, Content, handle.mode = "ro", NEW f \in DOMAIN handle.rcat, NEW g \in FileNames
    PROVE  LET live == Live(handle.rcat)
               keeps == f \notin live \/ (g \in live /\ g > f)
           IN Faithful(RenamePlan(f, g),
                       IF keeps THEN Dropped(LiveTruth, {f} \ {g}) ELSE Moved(LiveTruth, f, g),
                       IF keeps THEN doubtful ELSE DoubtMoved(f, g))
<1> DEFINE plan == RenamePlan(f, g)
           live == Live(handle.rcat)
           keeps == f \notin live \/ (g \in live /\ g > f)
           known == LiveTruth
           newTruth == IF keeps THEN Dropped(known, {f} \ {g}) ELSE Moved(known, f, g)
           newDoubtful == IF keeps THEN doubtful ELSE DoubtMoved(f, g)
           files == Sorted(live)
           n == Len(files)
<1>1. /\ plan.files = files /\ plan.added = <<>>
      /\ \A h \in FileNames : plan.as[h] = IF h = f THEN g ELSE h
  BY RenamePlanIs
<1>2. /\ n \in Nat /\ \A i \in 1..n : files[i] \in live /\ files[i] \in FileNames
      /\ \A h \in live : \E i \in 1..n : files[i] = h
      /\ \A i, j \in 1..n : i < j <=> files[i] < files[j]
  <2>1. n \in Nat /\ (\A h \in live : \E i \in 1..n : files[i] = h)
    BY SortedFiles
  <2>2. \A i, j \in 1..n : i < j <=> files[i] < files[j]
    BY SortedFiles
  <2>3. \A i \in 1..n : files[i] \in live /\ files[i] \in FileNames
    BY FilesAreLive
  <2> QED BY <2>1, <2>2, <2>3
<1>3. \A h \in live \ doubtful : h \in DOMAIN known /\ known[h] = truth[h]
  BY LiveKnown
<1>4. keeps => /\ newDoubtful = doubtful
               /\ \A h \in DOMAIN known \ {f} : h \in DOMAIN newTruth /\ newTruth[h] = known[h]
  BY DEF Dropped
<1>5. ~keeps => newDoubtful = DoubtMoved(f, g) /\ WasMoved(newTruth, known, f, g)
  <2>1. WasMoved(Moved(known, f, g), known, f, g)
    BY MovedWas
  <2> QED BY <2>1
<1>6. f \in Nat /\ g \in Nat /\ \A h \in FileNames : h \in Nat
  BY LiveIs, SessionAssumption
<1>7. keeps \in BOOLEAN /\ (keeps <=> (f \notin live \/ (g \in live /\ g > f)))
  OBVIOUS
<1> HIDE DEF plan, live, keeps, known, newTruth, newDoubtful, files, n
<1>8. ASSUME NEW i \in 1..n, plan.as[files[i]] \notin newDoubtful,
             \A k \in i + 1..n : plan.as[files[k]] # plan.as[files[i]]
      PROVE  /\ files[i] \notin doubtful /\ plan.as[files[i]] \in DOMAIN newTruth
             /\ newTruth[plan.as[files[i]]] = truth[files[i]]
  <2> DEFINE h == files[i]
  <2>1. h \in live /\ h \in FileNames /\ plan.as[h] = IF h = f THEN g ELSE h
    BY <1>1, <1>2
  <2>2. \A x \in live : x > h => plan.as[x] # plan.as[h]
    <3> SUFFICES ASSUME NEW x \in live, x > h PROVE plan.as[x] # plan.as[h]
      OBVIOUS
    <3>1. PICK k \in 1..n : files[k] = x
      BY <1>2
    <3>2. h \in Nat /\ x \in Nat
      BY <1>2, <1>6, <3>1
    <3>3. files[i] < files[k]
      BY <3>1, <3>2
    <3>4. i < k
      BY <1>2, <3>3
    <3>5. k \in i + 1..n
      BY <1>2, <3>4
    <3> QED BY <1>8, <3>1, <3>5
  <2>3. plan.as[h] \notin newDoubtful
    BY <1>8
  <2> HIDE DEF h
  <2>4. CASE keeps
    <3>1. h # f
      <4> SUFFICES ASSUME h = f PROVE FALSE
        OBVIOUS
      <4>1. g \in live /\ g > h /\ g \in FileNames /\ g # f
        BY <1>6, <1>7, <2>1, <2>4
      <4>2. plan.as[g] = g /\ plan.as[h] = g
        BY <1>1, <2>1, <4>1
      <4> QED BY <2>2, <4>1, <4>2
    <3>2. plan.as[h] = h /\ h \notin doubtful
      BY <1>4, <2>1, <2>3, <2>4, <3>1
    <3>3. h \in DOMAIN known /\ known[h] = truth[h]
      BY <1>3, <2>1, <3>2
    <3> QED BY <1>4, <2>4, <3>1, <3>2, <3>3 DEF h
  <2>5. CASE ~keeps /\ h = f
    <3>1. plan.as[h] = g
      BY <2>1, <2>5
    <3>2. h \notin doubtful
      BY <1>5, <2>3, <2>5, <3>1, DoubtMovedIs
    <3>3. h \in DOMAIN known /\ known[h] = truth[h]
      BY <1>3, <2>1, <3>2
    <3>4. g \in DOMAIN newTruth /\ newTruth[g] = known[f]
      BY <1>5, <2>5, <3>3 DEF WasMoved
    <3> QED BY <2>5, <3>1, <3>2, <3>3, <3>4 DEF h
  <2>6. CASE ~keeps /\ h # f
    <3>1. plan.as[h] = h
      BY <2>1, <2>6
    <3>2. h # g
      <4> SUFFICES ASSUME h = g PROVE FALSE
        OBVIOUS
      <4>1. f \in live /\ f > h
        BY <1>6, <1>7, <2>1, <2>6
      <4>2. plan.as[f] = g
        BY <1>1, LiveIs
      <4> QED BY <2>2, <3>1, <4>1, <4>2
    <3>3. h \notin doubtful
      BY <1>5, <2>3, <2>6, <3>1, <3>2, DoubtMovedIs
    <3>4. h \in DOMAIN known /\ known[h] = truth[h]
      BY <1>3, <2>1, <3>3
    <3>5. h \in DOMAIN newTruth /\ newTruth[h] = known[h]
      BY <1>5, <2>6, <3>2, <3>4 DEF WasMoved
    <3> QED BY <3>1, <3>3, <3>4, <3>5 DEF h
  <2> QED BY <2>4, <2>5, <2>6 DEF h
<1>9. Faithful(plan, newTruth, newDoubtful)
  <2>1. \A i \in 1..Len(plan.files) :
          LET name == plan.as[plan.files[i]] IN
          /\ name \notin newDoubtful
          /\ \A k \in i + 1..Len(plan.files) : plan.as[plan.files[k]] # name
          => /\ plan.files[i] \notin doubtful
             /\ name \in DOMAIN newTruth /\ newTruth[name] = truth[plan.files[i]]
    BY <1>1, <1>8 DEF n
  <2> QED BY <1>1, <2>1, FaithfulCopy
<1> QED BY <1>9 DEF plan, live, keeps, known, newTruth, newDoubtful

LEMMA RenameRewritingContent ==
    ASSUME Base, Content, NEW f \in DOMAIN handle.rcat, NEW g \in FileNames,
           RenameFileRewriting(f, g)
    PROVE  Content'
<1> DEFINE live == Live(handle.rcat)
           keeps == f \notin live \/ (g \in live /\ g > f)
           newTruth == IF keeps THEN Dropped(LiveTruth, {f} \ {g}) ELSE Moved(LiveTruth, f, g)
           newDoubtful == IF keeps THEN doubtful ELSE DoubtMoved(f, g)
           plan == RenamePlan(f, g)
<1>1. IsPlan(plan)
  BY RenamePlanIs
<1>2. Rewrite(plan, newTruth, newDoubtful)
  BY DEF RenameFileRewriting, RenamePlan
<1>3. handle.mode = "ro" => Faithful(plan, newTruth, newDoubtful)
  BY RenamePlanFaithful
<1> HIDE DEF newTruth, newDoubtful, plan
<1> QED BY <1>1, <1>2, <1>3, RewriteContent

LEMMA InitContent == Init => Content
<1> SUFFICES ASSUME Init PROVE Content
  OBVIOUS
<1>1. handle.mode = "closed" /\ handle.order = <<>> /\ disk.footer = Zeros
  BY DEF Init, NoHandle, NoArchive
<1> QED
  BY <1>1 DEF Content, ClosedInv, KeyInv, QuietInv, CreateInv, ReadInv, WriteInv, CacheInv

LEMMA UnchangedContent ==
    ASSUME Content, disk' = disk, handle' = handle, truth' = truth, doubtful' = doubtful
    PROVE  Content'
BY DEF Content, ClosedInv, KeyInv, QuietInv, CreateInv, ReadInv, WriteInv, CacheInv, KeyFits,
       Intact, Agree, Encryptor, DiskCatalog, Kept

LEMMA NextContent == Base /\ Content /\ [Next]_vars => Content'
<1> SUFFICES ASSUME Base, Content, [Next]_vars PROVE Content'
  OBVIOUS
<1>1. CASE \E raw \in Encryptions, key \in OwnerKeys, codec \in Codecs : Create(raw, key, codec)
  BY <1>1, CreateContent
<1>2. CASE \E mode \in {"ro", "rw"}, key \in Keys, codec \in Codecs, cap \in Capacities :
             Open(mode, key, codec, cap)
  BY <1>2, OpenContent
<1>3. CASE Close
  BY <1>3, CloseContent
<1>4. CASE \E job \in Jobs : AddFileCreating(job)
  BY <1>4, AddCreatingContent
<1>5. CASE \E job \in Jobs : AddFileInPlace(job)
  BY <1>5, AddInPlaceContent
<1>6. CASE \E f \in DOMAIN handle.rcat, soft \in BOOLEAN : DeleteFileInPlace(f, soft)
  BY <1>6, DeleteInPlaceContent
<1>7. CASE \E f \in DOMAIN handle.rcat, g \in FileNames : RenameFileInPlace(f, g)
  BY <1>7, RenameInPlaceContent
<1>8. CASE \E job \in Jobs : AddFileRewriting(job)
  BY <1>8, AddRewritingContent
<1>9. CASE \E f \in DOMAIN handle.rcat, soft \in BOOLEAN : DeleteFileRewriting(f, soft)
  BY <1>9, DeleteRewritingContent
<1>10. CASE \E f \in DOMAIN handle.rcat, g \in FileNames : RenameFileRewriting(f, g)
  BY <1>10, RenameRewritingContent
<1>11. CASE CannotOpenSource
  <2>1. CASE AddFileFromDiskFails
    BY <2>1, UnchangedContent DEF AddFileFromDiskFails
  <2>2. CASE Rewrite(NoPlan, truth, doubtful)
    BY <2>2, NoPlanContent
  <2> QED BY <1>11, <2>1, <2>2 DEF CannotOpenSource, NoPlan
<1>12. CASE \E f \in DOMAIN handle.rcat : ExtractFile(f)
  BY <1>12, ReadFileContent DEF ExtractFile
<1>13. CASE \E f \in DOMAIN handle.rcat : RecoverFile(f)
  BY <1>13, ReadFileContent DEF RecoverFile
<1>14. CASE UNCHANGED vars
  BY <1>14, UnchangedContent DEF vars
<1> QED
  BY <1>1, <1>2, <1>3, <1>4, <1>5, <1>6, <1>7, <1>8, <1>9, <1>10, <1>11, <1>12, <1>13, <1>14
     DEF Next

\* The inductive invariant of the properties below: whatever a closed archive
\* or an open handle holds, the catalog and the pages fit what the caller
\* believes is stored, up to the names a failed call was about and the files
\* that a hard delete of such a name wiped.
THEOREM ContentHolds == Spec => [](Base /\ Content)
<1>1. Init => Base /\ Content
  BY InitBase, InitContent
<1>2. Base /\ Content /\ [Next]_vars => Base' /\ Content'
  BY NextBase, NextContent
<1> QED BY <1>1, <1>2, PTL DEF Spec

-----------------------------------------------------------------------------
(* What a handle reads.                                                     *)

\* A file that is not doubtful is read as what is known of it, or rejected.
LEMMA ReadsIs ==
    ASSUME Base, Content, handle.mode \in {"ro", "rw"}, NEW f \in DOMAIN handle.rcat \ doubtful
    PROVE  /\ f \in DOMAIN truth /\ handle.rcat[f].file_name = f
           /\ handle.rcat[f].original_size = Len(truth[f])
           /\ Reads(f) = IF Encryptor = "gcm" /\ handle.rcat[f].deleted
                         THEN <<"kDecryptionFailed">> ELSE truth[f]
<1> DEFINE rcat == handle.rcat
           q == AssembleFile(Reading, rcat[f])
<1>1. Known(rcat) /\ FreshIn(Reading, rcat) /\ Reading.result = "kSuccess"
  BY KnownNow DEF Reading
<1>2. f \in DOMAIN rcat \ doubtful
  OBVIOUS
<1>3. Reads(f) = IF XSTD_isError(q.result) THEN <<q.result>> ELSE q.data
  BY DEF Reads
<1> HIDE DEF rcat
<1>4. IF Encryptor = "gcm" /\ rcat[f].deleted THEN q.result = "kDecryptionFailed"
      ELSE q.result = "kSuccess" /\ q.data = truth[f]
  BY <1>1, <1>2, AssembleIs
<1>5. f \in DOMAIN truth /\ Holds(rcat[f], f, truth[f], Encryptor, handle.key, disk.slots)
  BY <1>1, <1>2 DEF Known, Arch
<1> HIDE DEF q
<1>6. Reads(f) = IF Encryptor = "gcm" /\ rcat[f].deleted THEN <<"kDecryptionFailed">>
                                                         ELSE truth[f]
  BY <1>3, <1>4 DEF XSTD_isError
<1> QED BY <1>5, <1>6 DEF Holds, rcat

LEMMA ContentExtracts == Base /\ Content => ListedFilesExtract
<1> SUFFICES ASSUME Base, Content, handle.mode \in {"ro", "rw"},
                    NEW f \in Live(handle.rcat) \ doubtful
             PROVE  /\ f \in DOMAIN truth /\ Reads(f) = truth[f]
                    /\ handle.rcat[f].file_name = f
                    /\ handle.rcat[f].original_size = Len(truth[f])
  BY DEF ListedFilesExtract
<1>1. f \in DOMAIN handle.rcat \ doubtful /\ ~handle.rcat[f].deleted
  BY DEF Live
<1> QED BY <1>1, ReadsIs

\* A handle that opens, whatever happened to the archive before and through
\* whatever cache, reads every live file as it was stored, and its entry
\* describes it, except those a failed call was about and those whose pages a
\* hard delete of such a file wiped.
THEOREM ListedFilesAreRead == Spec => []ListedFilesExtract
<1>1. Base /\ Content => ListedFilesExtract
  BY ContentExtracts
<1> QED BY <1>1, ContentHolds, PTL

LEMMA ContentRecovers == Base /\ Content => RecoverableUnlessGcm
<1> SUFFICES ASSUME Base, Content, handle.mode \in {"ro", "rw"},
                    NEW f \in SoftDeleted(handle.rcat) \ doubtful
             PROVE  /\ f \in DOMAIN truth
                    /\ Reads(f) = IF Encryptor = "gcm" THEN <<"kDecryptionFailed">>
                                                       ELSE truth[f]
  BY DEF RecoverableUnlessGcm
<1>1. f \in DOMAIN handle.rcat \ doubtful /\ handle.rcat[f].deleted
  BY DEF SoftDeleted
<1> QED BY <1>1, ReadsIs

\* RecoverFile brings a soft-deleted file back as it was stored, unless the
\* archive is encrypted with AES-GCM: then every page of it is rejected; files
\* in doubt, as above, excepted.
THEOREM SoftDeletedAreRecovered == Spec => []RecoverableUnlessGcm
<1>1. Base /\ Content => RecoverableUnlessGcm
  BY ContentRecovers
<1> QED BY <1>1, ContentHolds, PTL

\* A page fetched from disk, whether it is cached or not.
LEMMA MissBrings ==
    ASSUME NEW r, handle.cap \in Nat, IsReader(r, handle.cap), NEW ph, IsPage(ph),
           ~XSTD_isError(Outcome(ph))
    PROVE  Miss(r, ph).result = r.result /\ Miss(r, ph).data = r.data \o Fetched(ph)
<1> DEFINE q == Miss(r, ph)
           comp == CreateCompressor(ph.compression_codec)
           room == Evicted(r, handle.cap)
           order == <<[id |-> ph.page_id, data |-> Fetched(ph)]>> \o room.order
           index == room.index \union {ph.page_id}
           used == Used(r, ph.page_id)
           data == room.data \o Fetched(ph)
<1>1. NextCompressor(r.comp, ph.compression_codec) = comp
  BY NextIsRight DEF IsReader, IsPage, Compressors
<1> HIDE DEF comp
<1>2. ~XSTD_isError(PageResult(ph, Encryptor, handle.key, disk.slots[ph.offset]))
      /\ CanDecompress(comp, Frame(ph))
  BY DEF Outcome, XSTD_isError, comp
<1>3. Fetched(ph) = Decompress(comp, Frame(ph))
  BY DEF Fetched, comp
<1>4. q = [room EXCEPT !.comp = comp, !.order = order, !.index = index, !.recent = used,
                       !.data = data]
  BY <1>1, <1>2, <1>3 DEF Miss, Encryptor, Frame
<1>5. /\ DOMAIN room = {"order", "index", "comp", "recent", "data", "result"}
      /\ room.result = r.result /\ room.data = r.data
  BY EvictedIs DEF IsReader
<1> HIDE DEF room, order, index, used, data, q
<1>6. q.result = room.result /\ q.data = data
  BY <1>4, <1>5
<1> QED BY <1>5, <1>6 DEF q, data

LEMMA EmptyBefore ==
    ASSUME NEW s, IsSequence(s)
    PROVE  <<>> \o s = s
<1> DEFINE t == <<>> \o s
<1>1. Len(<<>>) = 0 /\ IsSequence(<<>>)
  BY EmptyIs
<1>2. Joined(<<>>, s, t)
  BY <1>1, ConcatIs
<1> HIDE DEF t
<1>3. IsSequence(t) /\ Len(t) = Len(s) /\ \A i \in 1..Len(s) : t[i] = s[i]
  <2>1. Len(s) \in Nat /\ Len(t) = 0 + Len(s) /\ \A i \in 1..Len(s) : t[0 + i] = s[i]
    BY <1>1, <1>2 DEF Joined
  <2> QED BY <1>2, <2>1 DEF Joined
<1>4. t = s
  BY <1>3, SequencesEqual
<1> QED BY <1>4 DEF t

\* What is cached of a file that is not doubtful is what is on disk.
LEMMA CachedPage ==
    ASSUME Base, Content, handle.mode \in {"ro", "rw"}, NEW f \in DOMAIN handle.rcat \ doubtful,
           NEW i \in DOMAIN handle.rcat[f].pages, NEW p \in 1..Len(handle.order),
           handle.order[p].id = handle.rcat[f].pages[i].page_id
    PROVE  LET ph == handle.rcat[f].pages[i] IN
           /\ ph.offset \in DOMAIN disk.slots /\ Outcome(ph) = "kSuccess"
           /\ Fetched(ph) = handle.order[p].data
<1> DEFINE rcat == handle.rcat
           ph == rcat[f].pages[i]
           e == handle.order[p]
<1>1. Known(rcat) /\ FreshIn(Reading, rcat) /\ Reading.order = handle.order
  BY KnownNow DEF Reading
<1>2. Honest(e, rcat, truth, doubtful, Encryptor)
  BY <1>1 DEF FreshIn, Fresh
<1> HIDE DEF e
<1>3. /\ e.data = Chunks(truth[f], PageBytes)[i]
      /\ ~(Encryptor = "gcm" /\ rcat[f].deleted)
  BY <1>2 DEF Honest, e
<1> HIDE DEF rcat
<1>4. f \in DOMAIN rcat \ doubtful /\ i \in DOMAIN rcat[f].pages
  BY DEF rcat
<1>5. /\ ph.offset \in DOMAIN disk.slots
      /\ IF Encryptor = "gcm" /\ rcat[f].deleted
         THEN Outcome(ph) = "kDecryptionFailed"
         ELSE /\ Outcome(ph) = "kSuccess"
              /\ Fetched(ph) = Chunks(truth[f], PageBytes)[i]
  BY <1>1, <1>4, KnownPage
<1> QED BY <1>3, <1>5 DEF e, rcat

LEMMA ContentCoherent == Base /\ Content => CacheCoherent
<1> SUFFICES ASSUME Base, Content, NEW f \in DOMAIN handle.rcat \ doubtful,
                    NEW ph \in Range(handle.rcat[f].pages), ph.page_id \in handle.index
             PROVE  LET page == Miss([Reading EXCEPT !.comp = NoCompressor], ph)
                    IN /\ ~XSTD_isError(page.result)
                       /\ Cached(handle, ph.page_id).data = page.data
  BY DEF CacheCoherent
<1> DEFINE r == [Reading EXCEPT !.comp = NoCompressor]
           order == handle.order
<1>1. /\ IsReader(Reading, handle.cap) /\ handle.cap \in Nat
      /\ Reading.order = order /\ Reading.index = handle.index
      /\ Reading.data = <<>> /\ Reading.result = "kSuccess"
      /\ DOMAIN Reading = {"order", "index", "comp", "recent", "data", "result"}
  BY DEF Base, HandleShape, Reading
<1>2. PICK p \in 1..Len(order) : order[p].id = ph.page_id
  BY <1>1 DEF IsReader
<1>3. handle.mode \in {"ro", "rw"}
  <2> SUFFICES ASSUME handle.mode \in {"closed", "create"} PROVE FALSE
    BY DEF Base, HandleShape
  <2>1. order = <<>>
    BY DEF Content, QuietInv
  <2>2. 1..Len(order) = 1..0
    BY <2>1, EmptyIs
  <2>3. \A x : x \notin 1..0
    OBVIOUS
  <2> QED BY <1>2, <2>2, <2>3
<1>4. PICK i \in DOMAIN handle.rcat[f].pages : ph = handle.rcat[f].pages[i]
  BY DEF Range
<1>5. IsPage(ph)
  BY <1>4 DEF Base, HandleShape, WellFormed, IsEntry
<1>6. ph.offset \in DOMAIN disk.slots /\ Outcome(ph) = "kSuccess" /\ Fetched(ph) = order[p].data
  BY <1>2, <1>3, <1>4, CachedPage
<1>7. Cached(handle, ph.page_id) = order[p]
  <2>1. Cached(Reading, Reading.order[p].id) = Reading.order[p]
    <3> DEFINE s == Reading  cap == handle.cap
    <3>1. IsReader(s, cap) /\ cap \in Nat /\ p \in 1..Len(s.order)
      BY <1>1, <1>2
    <3> HIDE DEF s, cap
    <3>2. Cached(s, s.order[p].id) = s.order[p]
      BY <3>1, CachedIs
    <3> QED BY <3>2 DEF s
  <2> QED BY <1>1, <1>2, <2>1 DEF Cached
<1>8. IsReader(r, handle.cap) /\ r.data = <<>> /\ r.result = "kSuccess"
  <2>1. NoCompressor \in Compressors
    BY DEF Compressors
  <2>2. /\ r.order = Reading.order /\ r.index = Reading.index /\ r.comp = NoCompressor
        /\ r.recent = Reading.recent /\ r.data = Reading.data /\ r.result = Reading.result
        /\ DOMAIN r = DOMAIN Reading
    BY <1>1
  <2> HIDE DEF r
  <2> QED BY <1>1, <2>1, <2>2 DEF IsReader
<1> HIDE DEF r
<1>9. ~XSTD_isError(Outcome(ph))
  BY <1>6 DEF XSTD_isError
<1>10. Miss(r, ph).result = r.result /\ Miss(r, ph).data = r.data \o Fetched(ph)
  BY <1>1, <1>5, <1>8, <1>9, MissBrings
<1>11. IsSequence(Fetched(ph))
  BY <1>6, FetchedIsSequence DEF Base, DiskShape
<1>12. <<>> \o Fetched(ph) = Fetched(ph)
  BY <1>11, EmptyBefore
<1>13. Miss(r, ph).result = "kSuccess" /\ Miss(r, ph).data = order[p].data
  BY <1>6, <1>8, <1>10, <1>12
<1> QED BY <1>7, <1>13 DEF r, XSTD_isError

\* What the cache holds of a file is what reading the page from disk would
\* bring, as long as no call about that file failed and no hard delete of such
\* a file wiped its pages: pages get ids no other page had, and a commit that
\* moves or wipes pages empties the cache.
THEOREM CacheIsCoherent == Spec => []CacheCoherent
<1>1. Base /\ Content => CacheCoherent
  BY ContentCoherent
<1> QED BY <1>1, ContentHolds, PTL
=============================================================================
