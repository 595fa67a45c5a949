-------------------------- MODULE MCArchiveSession --------------------------
(* Instances of ArchiveSession for TLC. *)
EXTENDS ArchiveSession

mcContents    == {<<>>, <<"b", "c">>}
mcEncryptions == {MakeNone, MakeEncryption(AES_GCM_V1, 16), MakeEncryption(AES_CTR_V1, 32)}
mcCodecs      == {NoCodec, Codec(ZSTD, XSTD_greedy)}
mcOwnerKeys   == {NoKey, [size |-> 16, id |-> 1], [size |-> 32, id |-> 1]}
mcKeys        == mcOwnerKeys \union {[size |-> 16, id |-> 2], [size |-> 32, id |-> 2]}
=============================================================================
