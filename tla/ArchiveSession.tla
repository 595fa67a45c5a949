--------------------------- MODULE ArchiveSession ---------------------------
(***************************************************************************)
(* One archive and the Archive handles opened on it one after another,     *)
(* seen from the pages' side: which header, keys and codecs the writer     *)
(* used for each page, what the reader decrypts and decompresses, and what *)
(* it keeps in its LRU page cache while the handle goes on changing the    *)
(* archive.  Catalog and footer are one write here, which may fail: their  *)
(* writing step by step is InPlaceArchive's subject, the file replacement  *)
(* of a rewrite RewriteArchive's.                                          *)
(***************************************************************************)
EXTENDS PagePipeline, CatalogFormat

CONSTANTS
    FileNames,      \* file names, numbers: the catalog lists them in order
    Contents,       \* contents of files, sequences of bytes
    PageBytes,      \* bytes of a full page
    Encryptions,    \* encryption descriptors an archive is created with
    Codecs,         \* codec bytes: of a handle's options, or given with a file
    OwnerKeys,      \* keys an archive may be created with, [size, id] records
    Keys,           \* keys a caller may present
    Capacities,     \* cache capacities of a handle
    MaxPages,       \* bound: pages of the archive file
    MaxHandles,     \* bound: handles opened or created
    MaxCalls,       \* bound: calls that change the archive
    MaxFailures     \* bound: commits that fail

ASSUME SessionAssumption ==
    /\ FileNames \subseteq Nat /\ IsFiniteSet(FileNames)
    /\ \A c \in Contents : c \in Seq(Range(c))
    /\ PageBytes \in Nat \ {0}
    /\ Encryptions \subseteq 0..255 /\ Codecs \subseteq 0..255
    /\ Capacities \subseteq Nat
    /\ {MaxPages, MaxHandles, MaxCalls, MaxFailures} \subseteq Nat

VARIABLES
    disk,       \* the archive file: header, stored pages, catalog, footer
    handle,     \* the open Archive object, with its reader and its writer
    truth,      \* what the caller believes is stored: file name -> content
    doubtful,   \* names a call that returned an error was about, and files
                \* whose pages a later hard delete of such a name wiped
    recent,     \* page ids in the order of their last use, latest first
    handles,    \* handles opened so far
    calls,      \* calls so far that change the archive
    failures    \* commits failed so far

vars == <<disk, handle, truth, doubtful, recent, handles, calls, failures>>

-----------------------------------------------------------------------------
(* Files, catalogs, footers.                                                *)

Dropped(map, fs) == [g \in DOMAIN map \ fs |-> map[g]]

Live(cat)        == {f \in DOMAIN cat : ~cat[f].deleted}
SoftDeleted(cat) == {f \in DOMAIN cat : cat[f].deleted}
ListFiles(cat)   == Sorted(Live(cat))
PageIds(cat)     == UNION {{ph.page_id : ph \in Range(cat[f].pages)} : f \in DOMAIN cat}

\* The footer as it is stored: without additional data.
FooterFrame == [by |-> "footer", of |-> <<>>]
Footer(enc, key) == Stored(enc, key, <<>>, FooterFrame)

EncryptorOf(raw) == IF IsEncrypted(raw) THEN CreateEncryptor(GetAlgorithm(raw)) ELSE "none"
KeyFor(raw, key) == IF IsEncrypted(raw) THEN key ELSE NoKey

\* A file written by ArchiveWriter::AddFile behind the pages of w, with the
\* writer's encryptor, key and codec.
WithFile(w, enc, key, own, job) ==
    LET chunks == Chunks(job.data, PageBytes)
        codec  == EffectiveCodec(job.codec, own)
        phs    == [i \in DOMAIN chunks |->
                     NewPageHeader(w.next + i - 1, Len(w.slots) + i, codec, enc, chunks[i])]
    IN [slots |-> w.slots \o [i \in DOMAIN chunks |-> Payload(phs[i], enc, key, chunks[i])],
        cat   |-> Put(w.cat, job.file, [file_name     |-> job.file,
                                        checksum      |-> Sha256(job.data),
                                        original_size |-> Len(job.data),
                                        deleted       |-> FALSE,
                                        pages         |-> phs]),
        next  |-> w.next + Len(chunks)]

\* The catalog entry of a soft-deleted file: every page header flagged.
Flagged(meta) ==
    [meta EXCEPT !.pages = [i \in DOMAIN meta.pages |->
                              [meta.pages[i] EXCEPT !.flags = SetPageDeleted(@, TRUE)]],
                 !.deleted = TRUE]

\* The pages of meta overwritten with zeros; an empty payload has nothing to
\* overwrite.
ZeroedPages(slots, meta) ==
    LET zeroed == {ph.offset : ph \in {p \in Range(meta.pages) :
                       \/ PageEncrypted(p.flags)
                       \/ p.crc32 # XxHash(Compress(NoopCompressor, <<>>))}}
    IN [i \in DOMAIN slots |-> IF i \in zeroed THEN Zeros ELSE slots[i]]

-----------------------------------------------------------------------------
(* The reader: pages, through the cache.                                    *)

\* The part of a reader that reading changes, and what was read so far.
Reading == [order |-> handle.order, index |-> handle.index, comp |-> handle.comp,
            recent |-> recent, data |-> <<>>, result |-> "kSuccess"]

Cached(r, id) == CHOOSE e \in Range(r.order) : e.id = id
Place(r, id) == CHOOSE i \in DOMAIN r.order : r.order[i].id = id
Used(r, id) ==
    <<id>> \o IF id \in Range(r.recent)
              THEN RemoveAt(r.recent, CHOOSE i \in DOMAIN r.recent : r.recent[i] = id)
              ELSE r.recent

\* Mutant: a page that is used again stays where it is in the list.
HitInPlace(r, ph) ==
    [r EXCEPT !.recent = Used(r, ph.page_id), !.data = @ \o Cached(r, ph.page_id).data]
Hit(r, ph) ==
    LET e == Cached(r, ph.page_id)
    IN [r EXCEPT !.order  = <<e>> \o RemoveAt(@, Place(r, e.id)),
                 !.recent = Used(r, e.id),
                 !.data   = @ \o e.data]

\* Room for one more page: the least recently used one leaves.
Evicted(r, cap) ==
    IF Cardinality(r.index) >= cap /\ cap > 0
    THEN [r EXCEPT !.index = @ \ {r.order[Len(r.order)].id}, !.order = Front(@)]
    ELSE r

Miss(r, ph) ==
    LET enc    == EncryptorOf(disk.encryption)
        stored == disk.slots[ph.offset]
        result == PageResult(ph, enc, handle.key, stored)
        comp   == NextCompressor(r.comp, ph.compression_codec)
        frame  == PageFrame(ph, enc, handle.key, stored)
        data   == Decompress(comp, frame)
        room   == Evicted(r, handle.cap)
    IN CASE XSTD_isError(result) -> [r EXCEPT !.result = result]
         [] ~XSTD_isError(result) /\ ~CanDecompress(comp, frame) ->
              [r EXCEPT !.result = "kDecompressionFailed", !.comp = comp]
         [] OTHER ->
              [room EXCEPT !.comp   = comp,
                           !.order  = <<[id |-> ph.page_id, data |-> data]>> \o @,
                           !.index  = @ \union {ph.page_id},
                           !.recent = Used(r, ph.page_id),
                           !.data   = @ \o data]

\* Behind the last page is the catalog, or nothing: the page is out of bounds
\* or fails a check, for which kArchiveTruncated stands here.
ReadPage(r, ph) ==
    CASE XSTD_isError(r.result) -> r
      [] ~XSTD_isError(r.result) /\ ph.offset \notin DOMAIN disk.slots ->
           [r EXCEPT !.result = "kArchiveTruncated"]
      [] OTHER -> IF ph.page_id \in r.index THEN Hit(r, ph) ELSE Miss(r, ph)

AssembleFile(r, meta) ==
    LET read[i \in 0..Len(meta.pages)] ==
          IF i = 0 THEN [r EXCEPT !.data = <<>>] ELSE ReadPage(read[i - 1], meta.pages[i])
        all == read[Len(meta.pages)]
    IN [all EXCEPT !.result =
          FirstError(<< <<XSTD_isError(@), @>>,
                        <<Sha256(all.data) # meta.checksum, "kChecksumMismatch">> >>)]

\* The files of a list one after another, up to the first that fails, and
\* what was read of them.
AssembleAll(r, files) ==
    LET extracted[i \in 0..Len(files)] ==
          IF i = 0 THEN [reading |-> r, files |-> <<>>]
          ELSE LET before == extracted[i - 1]
                   read   == AssembleFile(before.reading, handle.rcat[files[i]])
               IN IF XSTD_isError(before.reading.result) THEN before
                  ELSE [reading |-> read,
                        files   |-> Append(before.files, [file |-> files[i], data |-> read.data])]
    IN extracted[Len(files)]

Keep(r) == [handle EXCEPT !.order = r.order, !.index = r.index, !.comp = r.comp]

-----------------------------------------------------------------------------
(* The handle's life.                                                       *)

NoHandle == [mode |-> "closed", key |-> NoKey, codec |-> NoCodec, cap |-> 0,
             rcat |-> Empty, wcat |-> Empty, off |-> 0, next |-> 0,
             order |-> <<>>, index |-> {}, comp |-> NoCompressor]
NoArchive == [encryption |-> MakeNone, compressed |-> FALSE, slots |-> <<>>,
              catalog |-> Serialise(Empty), footer |-> Zeros]

Init ==
    /\ disk = NoArchive
    /\ handle = NoHandle
    /\ truth = Empty
    /\ doubtful = {}
    /\ recent = <<>>
    /\ handles = 0
    /\ calls = 0
    /\ failures = 0

\* ArchiveWriter::ValidateOptions.
OptionsValid(raw, key) ==
    IsEncrypted(raw) => key.size = GetKeySize(raw) /\ GetAlgorithm(raw) # ALG_NONE

Create(raw, key, codec) ==
    /\ handle.mode = "closed" /\ handles < MaxHandles
    /\ OptionsValid(raw, key)
    /\ disk' = [NoArchive EXCEPT !.encryption = raw,
                                 !.compressed = CodecType(codec) # UNCOMPRESSED]
    /\ handle' = [NoHandle EXCEPT !.mode = "create", !.key = KeyFor(raw, key),
                                    !.codec = codec]
    /\ truth' = Empty /\ doubtful' = {}
    /\ recent' = <<>>
    /\ handles' = handles + 1
    /\ UNCHANGED <<calls, failures>>

\* ArchiveReader::Open: the key is there and of the right size, the algorithm
\* is known, and the footer decrypts to a footer.
OpenResult(key) ==
    LET enc    == EncryptorOf(disk.encryption)
        locked == IsEncrypted(disk.encryption)
        footer == DecryptResult(enc, key, <<>>, disk.footer)
    IN FirstError(<<
         <<locked /\ key = NoKey, "kMissingEncryptionKey">>,
         <<locked /\ key.size # GetKeySize(disk.encryption), "kInvalidArgument">>,
         <<locked /\ enc = "none", "kUnsupportedAlgorithm">>,
         <<XSTD_isError(footer), footer>>,
         <<Decrypt(enc, key, disk.footer) # FooterFrame, "kInvalidArchive">> >>)

\* ArchiveWriter::InitAppend: a compressed archive goes on being compressed.
AppendCodec(codec) ==
    IF disk.compressed /\ CodecType(codec) = UNCOMPRESSED THEN Codec(ZSTD, XSTD_greedy)
                                                          ELSE codec

\* Mutant: the pages of deleted files are not counted.
NextLivePageId(cat) ==
    LET ids == PageIds([f \in Live(cat) |-> cat[f]]) IN IF ids = {} THEN 0 ELSE Max(ids) + 1
\* Archive::Open: page ids go on behind those of live and deleted files.
NextPageId(cat) == IF PageIds(cat) = {} THEN 0 ELSE Max(PageIds(cat)) + 1

\* The catalog a reader loads.
DiskCatalog == Deserialise(disk.catalog)

Open(mode, key, codec, cap) ==
    /\ handle.mode = "closed" /\ handles < MaxHandles
    /\ ~XSTD_isError(OpenResult(key))
    /\ handle' = [NoHandle EXCEPT
                    !.mode  = mode, !.key = KeyFor(disk.encryption, key), !.cap = cap,
                    !.codec = IF mode = "rw" THEN AppendCodec(codec) ELSE codec,
                    !.rcat  = DiskCatalog,
                    !.wcat  = IF mode = "rw" THEN DiskCatalog ELSE Empty,
                    !.off   = IF mode = "rw" THEN Len(disk.slots) ELSE 0,
                    !.next  = IF mode = "rw" THEN NextPageId(DiskCatalog) ELSE 0]
    /\ recent' = <<>>
    /\ handles' = handles + 1
    /\ UNCHANGED <<disk, truth, doubtful, calls, failures>>

\* Archive::Close: a handle that created the archive writes its catalog.  The
\* writer of a ReadWrite handle appends catalog and footer when it is destroyed
\* (archive_writer.cc:23-26): those of its last commit again, which a commit
\* that failed has left here or not, as it chose its footer.
Close ==
    /\ handle.mode # "closed"
    /\ disk' = IF handle.mode = "create"
               THEN [disk EXCEPT !.catalog = Serialise(handle.wcat),
                                 !.footer = Footer(EncryptorOf(disk.encryption), handle.key)]
               ELSE disk
    /\ handle' = NoHandle
    /\ recent' = <<>>
    /\ UNCHANGED <<truth, doubtful, handles, calls, failures>>

-----------------------------------------------------------------------------
(* Creating an archive, and changing it in ReadWrite mode.                  *)

Encryptor == EncryptorOf(disk.encryption)

Called == calls < MaxCalls /\ calls' = calls + 1

\* The writer's pages, catalog and next page id, with the file of job added
\* behind the pages in slots.
Added(slots, job) ==
    WithFile([slots |-> slots, cat |-> handle.wcat, next |-> handle.next],
             Encryptor, handle.key, handle.codec, job)

AddFileCreating(job) ==
    LET w == Added(disk.slots, job) IN
    /\ handle.mode = "create"
    /\ Len(w.slots) <= MaxPages
    /\ disk' = [disk EXCEPT !.slots = w.slots]
    /\ handle' = [handle EXCEPT !.wcat = w.cat, !.next = w.next]
    /\ truth' = Put(truth, job.file, job.data)
    /\ UNCHANGED <<doubtful, recent, handles, failures>>
    /\ Called

\* CommitCatalog: catalog and footer behind the pages of w, then the reader
\* loads them and forgets its pages; afterwards the archive holds newTruth.
\* A commit that fails leaves a footer only if just the last step of it, the
\* truncation, failed; reader and catalog offset stay as they were, and the
\* caller no longer knows about the names.
Commit(w, newTruth, names, newDoubtful) ==
  /\ Called
  /\
    \/ /\ disk' = [disk EXCEPT !.slots = w.slots, !.catalog = Serialise(w.cat),
                               !.footer = Footer(Encryptor, handle.key)]
       /\ handle' = [handle EXCEPT !.wcat = w.cat, !.next = w.next, !.off = Len(w.slots),
                                   !.rcat = DiskCatalog', !.order = <<>>, !.index = {}]
       /\ truth' = newTruth
       /\ doubtful' = newDoubtful
       /\ recent' = <<>>
       /\ UNCHANGED <<handles, failures>>
    \/ /\ failures < MaxFailures
       /\ \E footer \in {Zeros, Footer(Encryptor, handle.key)} :
            disk' = [disk EXCEPT !.slots = w.slots, !.catalog = Serialise(w.cat), !.footer = footer]
       /\ handle' = [handle EXCEPT !.wcat = w.cat, !.next = w.next]
       /\ doubtful' = doubtful \union names
       /\ failures' = failures + 1
       /\ UNCHANGED <<truth, recent, handles>>

\* The pages before the catalog offset.
Kept == SubSeq(disk.slots, 1, handle.off)

AddFileInPlace(job) ==
    LET w == Added(Kept, job) IN
    /\ handle.mode = "rw"
    /\ Len(w.slots) <= MaxPages
    /\ Commit(w, Put(truth, job.file, job.data), {job.file}, doubtful \ {job.file})

\* Stat of the reader, then the writer's own catalog; a file that is soft
\* deleted already is left alone, and committed again.  The pages of a file
\* whose adding failed may be another file's by now: wiping them makes that
\* one doubtful too.
Sharing(f) ==
    LET offsets(g) == {ph.offset : ph \in Range(handle.wcat[g].pages)}
    IN {g \in DOMAIN handle.wcat : offsets(f) \intersect offsets(g) # {}}

DeleteFileInPlace(f, soft) ==
    LET meta == handle.wcat[f]
        noop == soft /\ meta.deleted
        cat  == IF soft THEN Put(handle.wcat, f, Flagged(meta))
                        ELSE Dropped(handle.wcat, {f})
        hurt == IF soft \/ f \notin doubtful THEN {} ELSE Sharing(f)
    IN
    /\ handle.mode = "rw"
    /\ f \in DOMAIN handle.rcat /\ f \in DOMAIN handle.wcat
    /\ Commit([slots |-> IF soft THEN Kept ELSE ZeroedPages(Kept, meta),
               cat   |-> IF noop THEN handle.wcat ELSE cat,
               next  |-> handle.next],
              IF soft THEN truth ELSE Dropped(truth, {f}), {f} \union hurt,
              doubtful \union hurt)

\* What becomes of the ghosts when f gets the name g.
Moved(t, f, g) == IF f \in DOMAIN t THEN Put(Dropped(t, {f}), g, t[f]) ELSE t
DoubtMoved(f, g) == IF f \in doubtful THEN doubtful \union {g} ELSE doubtful \ {g}

\* The entry the reader has, under another name in the writer's catalog.
RenameFileInPlace(f, g) ==
    /\ handle.mode = "rw"
    /\ f \in DOMAIN handle.rcat
    /\ Commit([slots |-> Kept,
               cat   |-> Put(Dropped(handle.wcat, {f}), g,
                             [handle.rcat[f] EXCEPT !.file_name = g]),
               next  |-> handle.next],
              Moved(truth, f, g), {f, g}, DoubtMoved(f, g))

-----------------------------------------------------------------------------
(* Changing an archive by a rewrite (a handle opened for reading).          *)

\* The options of the rewriting writer: the codec of the archive, taken from
\* the header's flag and the options of the handle.
RewriteCodec == IF disk.compressed THEN handle.codec ELSE Codec(UNCOMPRESSED, 0)

FirstCodec(f) == Head(handle.rcat[f].pages).compression_codec

Job(f, data, codec) == [file |-> f, data |-> data, codec |-> codec]

\* What a rewrite does: the files it copies, as which names and with which
\* codecs, the file it adds, those it flags as deleted at the end, and
\* whether its last step is possible.
CopyAll == [files    |-> ListFiles(handle.rcat),
            as       |-> [f \in FileNames |-> f],
            codec    |-> [f \in FileNames |-> NoCodec],
            added    |-> <<>>,
            flagged  |-> {},
            possible |-> TRUE]

\* The new archive, made of the files that were extracted.
NewArchive(plan, files) ==
    LET jobs == [i \in DOMAIN files |->
                   Job(plan.as[files[i].file], files[i].data, plan.codec[files[i].file])]
                  \o plan.added
        written[i \in 0..Len(jobs)] ==
          IF i = 0 THEN [slots |-> <<>>, cat |-> Empty, next |-> 0]
          ELSE WithFile(written[i - 1], Encryptor, handle.key, RewriteCodec, jobs[i])
    IN written[Len(jobs)]
FlaggedIn(cat, fs) == [f \in DOMAIN cat |-> IF f \in fs THEN Flagged(cat[f]) ELSE cat[f]]

\* The files are extracted, through the cache, and written to a new archive,
\* which replaces the old one and is opened by a new reader.  When a file
\* cannot be extracted, or the last step is not possible, the call ends with
\* the archive as it was.
Rewrite(plan, newTruth, newDoubtful) ==
    /\ handle.mode = "ro"
    /\ UNCHANGED <<handles, failures>>
    /\ Called
    /\ \E read \in {AssembleAll(Reading, plan.files)} :
         \/ /\ ~XSTD_isError(read.reading.result) /\ plan.possible
            /\ \E new \in {NewArchive(plan, read.files)} :
                 /\ Len(new.slots) <= MaxPages
                 /\ disk' = [disk EXCEPT
                               !.compressed = CodecType(RewriteCodec) # UNCOMPRESSED,
                               !.slots      = new.slots,
                               !.catalog    = Serialise(FlaggedIn(new.cat, plan.flagged)),
                               !.footer     = Footer(Encryptor, handle.key)]
            /\ handle' = [handle EXCEPT !.rcat = DiskCatalog', !.order = <<>>, !.index = {},
                                        !.comp = NoCompressor]
            /\ truth' = newTruth
            /\ doubtful' = newDoubtful
            /\ recent' = <<>>
         \/ /\ XSTD_isError(read.reading.result) \/ ~plan.possible
            /\ handle' = Keep(read.reading)
            /\ recent' = read.reading.recent
            /\ UNCHANGED <<disk, truth, doubtful>>

LiveTruth == Dropped(truth, SoftDeleted(handle.rcat))

\* The other files keep the codec of their first page.
AddFileRewriting(job) ==
    Rewrite([CopyAll EXCEPT !.codec = [f \in Live(handle.rcat) |-> FirstCodec(f)],
                            !.added = <<job>>],
            Put(LiveTruth, job.file, job.data), doubtful \ {job.file})

\* A hard delete leaves the file out; a soft one flags it in the new archive,
\* where a file that was soft deleted before is no longer found.
DeleteFileRewriting(f, soft) ==
    /\ f \in DOMAIN handle.rcat
    /\ Rewrite(IF soft
               THEN [CopyAll EXCEPT !.flagged = {f}, !.possible = f \in Live(handle.rcat)]
               ELSE [CopyAll EXCEPT !.files = Sorted(Live(handle.rcat) \ {f})],
               IF soft THEN LiveTruth ELSE Dropped(LiveTruth, {f}),
               doubtful)

\* The writer of an archive opens the source before it does anything else.
AddFileFromDiskFails ==
    /\ Called
    /\ UNCHANGED <<disk, handle, truth, doubtful, recent, handles, failures>>

\* AddFile from disk, of a source that cannot be opened: in a rewrite every
\* other file has been extracted by then.
CannotOpenSource ==
    \/ /\ handle.mode \in {"create", "rw"}
       /\ AddFileFromDiskFails
    \/ Rewrite([CopyAll EXCEPT !.possible = FALSE], truth, doubtful)

\* Files are written in the order of their old names: of two that end up
\* under one name the later one stays.
RenameFileRewriting(f, g) ==
    LET live  == Live(handle.rcat)
        keeps == f \notin live \/ (g \in live /\ g > f)
    IN
    /\ f \in DOMAIN handle.rcat
    /\ Rewrite([CopyAll EXCEPT !.as[f] = g],
               IF keeps THEN Dropped(LiveTruth, {f} \ {g}) ELSE Moved(LiveTruth, f, g),
               IF keeps THEN doubtful ELSE DoubtMoved(f, g))

-----------------------------------------------------------------------------
(* Reading.                                                                 *)

\* ExtractFile of a live file, RecoverFile of a soft-deleted one: what the
\* cache holds afterwards, also when it fails half way.
ReadFile(f) ==
    LET read == AssembleFile(Reading, handle.rcat[f]) IN
    /\ handle.mode \in {"ro", "rw"}
    /\ handle' = Keep(read)
    /\ recent' = read.recent
    /\ UNCHANGED <<disk, truth, doubtful, handles, calls, failures>>
ExtractFile(f) == f \in Live(handle.rcat) /\ ReadFile(f)
RecoverFile(f) == f \in SoftDeleted(handle.rcat) /\ ReadFile(f)

-----------------------------------------------------------------------------
\* The files a caller may add, while the bound on calls allows it.
Jobs == {Job(f, data, codec) : f \in FileNames, data \in Contents,
                               codec \in IF calls < MaxCalls THEN Codecs ELSE {}}

Next ==
    \/ \E raw \in Encryptions, key \in OwnerKeys, codec \in Codecs : Create(raw, key, codec)
    \/ \E mode \in {"ro", "rw"}, key \in Keys, codec \in Codecs, cap \in Capacities :
         Open(mode, key, codec, cap)
    \/ Close
    \/ \E job \in Jobs : AddFileCreating(job)
    \/ \E job \in Jobs : AddFileInPlace(job)
    \/ \E f \in DOMAIN handle.rcat, soft \in BOOLEAN : DeleteFileInPlace(f, soft)
    \/ \E f \in DOMAIN handle.rcat, g \in FileNames : RenameFileInPlace(f, g)
    \/ \E job \in Jobs : AddFileRewriting(job)
    \/ \E f \in DOMAIN handle.rcat, soft \in BOOLEAN : DeleteFileRewriting(f, soft)
    \/ \E f \in DOMAIN handle.rcat, g \in FileNames : RenameFileRewriting(f, g)
    \/ CannotOpenSource
    \/ \E f \in DOMAIN handle.rcat : ExtractFile(f)
    \/ \E f \in DOMAIN handle.rcat : RecoverFile(f)

Spec == Init /\ [][Next]_vars

-----------------------------------------------------------------------------
(* Properties.                                                              *)

Reads(f) == LET read == AssembleFile(Reading, handle.rcat[f])
            IN IF XSTD_isError(read.result) THEN <<read.result>> ELSE read.data

TypeOK ==
    /\ handle.mode \in {"closed", "create", "ro", "rw"}
    /\ disk.encryption \in 0..255 /\ disk.compressed \in BOOLEAN
    /\ Len(disk.slots) <= MaxPages /\ handle.off <= Len(disk.slots)
    /\ DOMAIN truth \subseteq FileNames /\ doubtful \subseteq FileNames
    /\ handles <= MaxHandles /\ calls <= MaxCalls /\ failures <= MaxFailures

\* The cache holds the pages used last, as many as its capacity allows (all
\* of them for capacity 0), the latest first, and its index finds exactly
\* those (ReadPage's eviction).
LruOrder ==
    LET kept == IF handle.cap = 0 \/ Len(recent) <= handle.cap THEN Len(recent)
                                                               ELSE handle.cap
    IN /\ [i \in DOMAIN handle.order |-> handle.order[i].id] = SubSeq(recent, 1, kept)
       /\ handle.index = {e.id : e \in Range(handle.order)}

\* A cached page of a file is the page on disk, as long as no call about
\* that file failed and no hard delete of such a file wiped its pages: pages
\* are cached under ids no other page gets, and a commit that moves or wipes
\* pages empties the cache (ReadPage's hit).
CacheCoherent ==
    \A f \in DOMAIN handle.rcat \ doubtful : \A ph \in Range(handle.rcat[f].pages) :
      ph.page_id \in handle.index =>
        LET page == Miss([Reading EXCEPT !.comp = NoCompressor], ph)
        IN ~XSTD_isError(page.result) /\ Cached(handle, ph.page_id).data = page.data

\* Whatever mix of codecs, ciphers, calls and rewrites the archive has been
\* through, a handle that opens reads every live file as it was stored, and
\* Stat describes it, except those a failed call was about, and those whose
\* pages a hard delete of such a file wiped (WritePage and SerialiseValue
\* against ReadPage and DeserialiseValue).
ListedFilesExtract ==
    handle.mode \in {"ro", "rw"} =>
      \A f \in Live(handle.rcat) \ doubtful :
        /\ f \in DOMAIN truth /\ Reads(f) = truth[f]
        /\ handle.rcat[f].file_name = f
        /\ handle.rcat[f].original_size = Len(truth[f])

\* A soft-deleted file can be recovered unless the archive is encrypted with
\* AES-GCM: the deleted bit changes the authenticated page header (ReadPage's
\* additional data), so that decryption fails; CTR does not check it.  Files
\* in doubt, as above, are left out.
RecoverableUnlessGcm ==
    handle.mode \in {"ro", "rw"} =>
      \A f \in SoftDeleted(handle.rcat) \ doubtful :
        /\ f \in DOMAIN truth
        /\ Reads(f) = IF Encryptor = "gcm" THEN <<"kDecryptionFailed">> ELSE truth[f]

\* archive.h:133: soft-deleted files "can be recovered with RecoverFile()".
SoftDeletedRecoverable ==
    handle.mode \in {"ro", "rw"} /\ failures = 0 =>
      \A f \in SoftDeleted(handle.rcat) : Reads(f) = truth[f]

\* A rewrite that only adds a file leaves the other files' codec alone
\* (AddFile's orig_codec, which the raw value 0 for "none" could defeat).
CodecPreserved ==
    [][handle.mode = "ro" /\ handle'.mode = "ro"
       /\ Live(handle.rcat) # Live(handle'.rcat)
       /\ Live(handle.rcat) \subseteq Live(handle'.rcat) =>
         \A f \in Live(handle.rcat) : FirstCodec(f)' = FirstCodec(f)]_vars
=============================================================================
