---------------------------- MODULE PagePipeline ----------------------------
(***************************************************************************)
(* What happens to the bytes of one page on their way to the disk and      *)
(* back: the packed descriptor bytes of types.h and metadata.h, the choice *)
(* of the codec (compression.cc), the ciphers (encryption.cc), the page    *)
(* checksum (xxhasher.h) and the file checksum (sha256.cc), as WritePage   *)
(* and ReadPage use them.  Descriptor bytes are numbers below 256, taken   *)
(* apart with \div and %.  Payloads are terms: a frame names the codec     *)
(* that made it, a cipher text names what it was made from.  ZSTD, OpenSSL *)
(* and the two hash functions are assumed to do their job: frames of one   *)
(* codec mean nothing to the other, a GCM tag accepts only its own key and *)
(* additional data, a CTR text under another key is garbage, and different *)
(* inputs have different hashes.                                           *)
(***************************************************************************)
EXTENDS Integers, Sequences

-----------------------------------------------------------------------------
(* xstd_errors.h: what a call returns.                                      *)

XSTD_ErrorCode ==
    {"kSuccess", "kGENERIC", "kInvalidArgument", "kAlreadyFinalised", "kCannotOpenFile",
     "kCannotWriteFile", "kFileNotFound", "kInvalidArchive", "kArchiveTruncated",
     "kArchiveVersionMismatch", "kCatalogCorrupted", "kDecryptionFailed",
     "kEncryptionFailed", "kMissingEncryptionKey", "kUnsupportedAlgorithm",
     "kCompressionFailed", "kDecompressionFailed", "kPageAlreadyAllocated",
     "kChecksumMismatch", "kIOError"}
XSTD_isError(res) == res # "kSuccess"

\* The first of a sequence of checks that fails decides: each is a pair of a
\* condition and the code thrown when it holds.
FirstError(checks) ==
    LET failing == {i \in DOMAIN checks : checks[i][1]}
    IN IF failing = {} THEN "kSuccess"
       ELSE checks[CHOOSE i \in failing : \A j \in failing : i <= j][2]

-----------------------------------------------------------------------------
(* types.h: CompressionCodec, one byte.                                     *)

UNCOMPRESSED == 0
ZSTD         == 4
XSTD_greedy  == 3

Codec(type, level) == (type % 8) * 16 + (level % 16)
CodecType(raw)     == (raw \div 16) % 8
CodecLevel(raw)    == raw % 16

\* The raw value that also means "no codec given".
NoCodec == 0

(* types.h: ArchiveEncryption, one byte.                                    *)

AES_GCM_V1    == 0
AES_CTR_V1    == 1
ALG_NONE      == 15
MakeNone      == ALG_NONE

KeySizeIndex(size) == CASE size = 16 -> 0 [] size = 24 -> 1 [] OTHER -> 2
MakeEncryption(alg, size) ==
    IF alg = ALG_NONE THEN MakeNone
                      ELSE 128 + KeySizeIndex(size) * 16 + (alg % 16)
IsEncrypted(raw)  == raw \div 128 = 1
GetAlgorithm(raw) == raw % 16
GetKeySize(raw)   == CASE (raw \div 16) % 8 = 0 -> 16
                       [] (raw \div 16) % 8 = 1 -> 24
                       [] OTHER -> 32

(* The setters of ArchiveEncryption, each over its own bits.                *)

SetEncrypted(raw, v)   == (raw % 128) + (IF v THEN 128 ELSE 0)
SetAlgorithm(raw, alg) == (raw \div 16) * 16 + (alg % 16)
SetKeySize(raw, size)  == (raw \div 128) * 128 + KeySizeIndex(size) * 16 + (raw % 16)

(* types.h: the page size a descriptor stands for, in bytes.                *)
PageSizeBytes(ps) == IF ps < 9 THEN 4096 * 2^ps ELSE 4194304

(* metadata.h: PageHeader::flags, bit 0 encrypted and bit 1 deleted.        *)

PageEncrypted(flags)         == flags % 2 = 1
PageDeleted(flags)           == (flags \div 2) % 2 = 1
SetPageEncrypted(flags, v)   == (flags \div 2) * 2 + (IF v THEN 1 ELSE 0)
SetPageDeleted(flags, v)     == (flags \div 4) * 4 + (flags % 2) + (IF v THEN 2 ELSE 0)

-----------------------------------------------------------------------------
(* compression.cc.                                                          *)

\* The compressor made for a codec: an unknown type is served by ZSTD.  Its
\* Codec() is what the callers compare to reuse it.
NoopCompressor       == [does |-> "noop", codec |-> Codec(UNCOMPRESSED, 0)]
ZstdCompressor(raw)  == [does |-> "zstd", codec |-> raw]
CreateCompressor(raw) ==
    IF CodecType(raw) = UNCOMPRESSED THEN NoopCompressor ELSE ZstdCompressor(raw)

\* The ZSTD level of an effort level; the reserved ones get the default.
ZSTD_default == 3
ZSTD_max     == 22
ToZstdLevel(level) ==
    CASE level = 1      -> 1
      [] level \in 2..8 -> <<3, 6, 9, 12, 15, 18, 20>>[level - 1]
      [] level = 9      -> ZSTD_max
      [] OTHER          -> ZSTD_default

Compress(comp, chunk)   == [by |-> comp.does, of |-> chunk]

\* Decompress of the ZSTD compressor fails on what is not a ZSTD frame; the
\* pass-through hands over the bytes it gets, whatever they are.
CanDecompress(comp, frame) == comp.does = "zstd" => frame.by = "zstd"
Decompress(comp, frame) ==
    IF comp.does = frame.by THEN frame.of ELSE <<frame.by>>

-----------------------------------------------------------------------------
(* encryption.cc.                                                           *)

\* The encryptor of an algorithm, "none" for one the factory does not know.
CreateEncryptor(alg) == CASE alg = AES_GCM_V1 -> "gcm"
                          [] alg = AES_CTR_V1 -> "ctr"
                          [] OTHER            -> "none"
IvSize(enc)  == CASE enc = "gcm" -> 12 [] enc = "ctr" -> 16 [] OTHER -> 0
TagSize(enc) == IF enc = "gcm" THEN 16 ELSE 0
Overhead(enc) == IvSize(enc) + TagSize(enc)

\* Both ciphers take keys of 16, 24 and 32 bytes only.
CipherKey(key) == key.size \in {16, 24, 32}

\* What is stored: the frame itself, or a cipher text of it.  GCM binds the
\* additional data, CTR ignores it.
Garbage == [by |-> "garbage", of |-> <<>>]
NoKey == [size |-> 0, id |-> 0]
AesGcmEncrypt(key, aad, frame) == [enc |-> "gcm", key |-> key, aad |-> aad, frame |-> frame]
AesCtrEncrypt(key, frame)      == [enc |-> "ctr", key |-> key, aad |-> <<>>, frame |-> frame]
Stored(enc, key, aad, frame) ==
    CASE enc = "gcm" -> AesGcmEncrypt(key, aad, frame)
      [] enc = "ctr" -> AesCtrEncrypt(key, frame)
      [] OTHER       -> [enc |-> "none", key |-> NoKey, aad |-> <<>>, frame |-> frame]
Zeros == [enc |-> "zeros", key |-> NoKey, aad |-> <<>>, frame |-> Garbage]

AesGcmResult(key, aad, stored) ==
    FirstError(<< <<~CipherKey(key), "kInvalidArgument">>,
                  <<stored # AesGcmEncrypt(key, aad, stored.frame), "kDecryptionFailed">> >>)
AesCtrResult(key) == FirstError(<< <<~CipherKey(key), "kInvalidArgument">> >>)
AesCtrText(key, stored) ==
    IF stored = AesCtrEncrypt(key, stored.frame) THEN stored.frame ELSE Garbage

DecryptResult(enc, key, aad, stored) ==
    CASE enc = "gcm" -> AesGcmResult(key, aad, stored)
      [] enc = "ctr" -> AesCtrResult(key)
      [] OTHER       -> "kSuccess"
Decrypt(enc, key, stored) ==
    CASE enc = "gcm" -> stored.frame
      [] enc = "ctr" -> AesCtrText(key, stored)
      [] OTHER       -> IF stored.enc = "none" THEN stored.frame ELSE Garbage

-----------------------------------------------------------------------------
(* xxhasher.h, sha256.cc.                                                   *)

\* The page checksum: of the compressed bytes, before encryption; nothing
\* for an empty buffer.
XxHash(frame) == IF frame = [by |-> "noop", of |-> <<>>] THEN <<"0">> ELSE <<frame.by, frame.of>>

\* The file checksum: of the whole content.
Sha256(data) == <<"sha256", data>>

-----------------------------------------------------------------------------
(* archive_writer.cc, WritePage; archive_reader.cc, ReadPage.               *)

\* Mutant: the codec given with a file is not used.
OwnCodec(given, own) == own
\* A raw codec of 0 stands for "the writer's own codec".
EffectiveCodec(given, own) == IF given # NoCodec THEN given ELSE own

\* Mutant: the flags are not authenticated.
AadWithoutFlags(ph) == <<ph.page_id, ph.offset, ph.compression_codec,
                         ph.uncompressed_size, ph.crc32>>
\* The first 24 bytes of a page header, which GCM authenticates: everything
\* up to the unused iv field, the flags byte included.
Aad(ph) == <<ph.page_id, ph.offset, ph.compression_codec, ph.flags,
             ph.uncompressed_size, ph.crc32>>

\* The header of the page that holds chunk.
NewPageHeader(id, offset, codec, enc, chunk) ==
    [page_id           |-> id,
     offset            |-> offset,
     compression_codec |-> codec,
     flags             |-> SetPageEncrypted(0, enc # "none"),
     uncompressed_size |-> Len(chunk),
     crc32             |-> XxHash(Compress(CreateCompressor(codec), chunk))]

Payload(ph, enc, key, chunk) ==
    Stored(enc, key, Aad(ph), Compress(CreateCompressor(ph.compression_codec), chunk))

\* The pages a file of this content is cut into: an empty file has one, empty.
Chunks(data, pageBytes) ==
    IF data = <<>> THEN <<data>>
    ELSE [i \in 1..((Len(data) + pageBytes - 1) \div pageBytes) |->
            SubSeq(data, (i - 1) * pageBytes + 1,
                   IF i * pageBytes < Len(data) THEN i * pageBytes ELSE Len(data))]

\* Reading back: the frame behind the page header ph of a catalog, from what
\* is stored at its offset, with the encryptor and the key of the reader.
PageCipher(ph, enc) == IF PageEncrypted(ph.flags) THEN enc ELSE "none"
PageFrame(ph, enc, key, stored) == Decrypt(PageCipher(ph, enc), key, stored)

\* What reading the page reports before it is decompressed: the decryption,
\* then the checksum in the header.
PageResult(ph, enc, key, stored) ==
    LET cipher == PageCipher(ph, enc)
        result == DecryptResult(cipher, key, Aad(ph), stored)
    IN FirstError(<<
         <<PageEncrypted(ph.flags) /\ key = NoKey, "kMissingEncryptionKey">>,
         <<PageEncrypted(ph.flags) /\ enc = "none", "kUnsupportedAlgorithm">>,
         <<XSTD_isError(result), result>>,
         <<XxHash(PageFrame(ph, enc, key, stored)) # ph.crc32, "kChecksumMismatch">> >>)

\* Mutant: the compressor of the first page serves all.
AnyCompressor(kept, codec) == IF kept.does # "none" THEN kept ELSE CreateCompressor(codec)
\* The compressor a reader uses next: the one it kept from the page before
\* when that is of the same codec.
NextCompressor(kept, codec) ==
    IF kept.does # "none" /\ kept.codec = codec THEN kept ELSE CreateCompressor(codec)
NoCompressor == [does |-> "none", codec |-> NoCodec]
=============================================================================
