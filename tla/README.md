# A TLA+ model of xstd-compress

Specifications, TLC runs and TLAPS proofs about the `.xstd` archive library in `src/src`. They
are about what the program does to the file, to its catalogs and to its indexes, step by step,
without and with failures. `src/` below is the repository itself, so that `src/src` is its
library, `src/cli` its tool and `src/README.md` its README.

## 1. Inventory of the system

| component | source | state | operations |
|---|---|---|---|
| Archive | `src/src/archive.cc` | mode flags, `catalog_offset_`, the reader, the writer, the shared handle | `Open`, `Create`, `Close`, `AddFile`, `DeleteFile`, `RenameFile`, `ExtractFile`, `RecoverFile`, `CommitCatalog`, `Rewrite` |
| ArchiveWriter | `src/src/archive_writer.cc` | `catalog_`, `next_page_id_`, `finalised_` | `Init`, `InitAppend`, `AddFile`, `WritePage`, `DeleteFile`, `WriteCatalogAndFooter`, `Finalise`, destructor |
| ArchiveReader | `src/src/archive_reader.cc` | `catalog_`, LRU page cache | `Open`, `ReloadCatalog`, `ReadAndValidateCatalog`, `ReadPage`, `AssembleFile`, `ExtractFile`, `RecoverFile` |
| IOHandler | `src/src/iohandler.cc` | descriptor, `append_pos_`, `file_size_`, memory map, scratch buffer, lock | `ReadAt`, `Append`, `WriteAt`, `SetAppendPosition`, `Truncate`, `Flush`, `Remap`, `OpenFile`, `LockFile` |
| Catalog, B+ tree | `src/src/catalog.cc`, `src/src/btree.h` | nodes, leaf chain, parent pointers, `size_` | `Insert`, `Find`, `Erase`, `ScanAll`, `PrefixScan`, `Serialise`, `Deserialise` |
| PageManager | `src/src/page_manager.cc` | `bitmap_`, `page_count_` | `Allocate`, `AllocateAt`, `Free`, `Serialise`, `Deserialise` |
| page pipeline | `compression.cc`, `encryption.cc`, `types.h`, `sha256.cc`, `xxhasher.h` | the reader's kept decompressor | compress, encrypt, checksum on the way out; the reverse, each with its check, on the way in |
| command line tool | `src/cli` | archive, sources and outputs in the file system | eight commands: create, add, delete, extract, recover, list, info, compress |
| gdelta | `src/src/packages/gdelta` | two buffers, a hash table, streams of instructions and literals | `gencode`, `gdecode`, a test program; nothing in the library calls it |
| xxHash | `src/src/packages/xxhash` | none | vendored hash function |

**How they interact.** Everything is a synchronous call in one thread. In ReadWrite
mode Archive, its reader and its writer share one IOHandler. A mutation sets the
append position to `catalog_offset_`, overwrites the old catalog with pages or with
the new catalog, appends the footer, flushes, truncates behind the footer, moves
`catalog_offset_` and lets the reader load the catalog again. The reader's and the
writer's catalogs are two copies that must agree between calls. `Close` drops the
writer, whose destructor appends the catalog and the footer once more, this time
at the end of the file. In the other mode (`Rewrite`) a mutation copies every file
into a temporary archive that is renamed over the old one. Several processes meet
only at `fcntl` locks.

**What is hard.** There is no log: the old catalog is overwritten in place, so
every step of a call is visible to a kill, and a failure in the middle leaves memory
and disk out of step for the calls that follow. Deletes write to offsets that come
from a catalog. The B+ tree splits bottom-up with parent pointers. Page ids are cache
keys across sessions. `PROJECT.json` lists each hazard at its line.

**What makes each part correct.**

- Archive in ReadWrite mode: a file that the catalog lists is whole on disk; between
  calls the file is a complete archive; calls act like operations on a map.
- Under failures: no failure and no kill damages a page of a listed file; a kill leaves
  the old catalog, the new one, or none that a reader accepts.
- Rewriting: the path always holds the whole old or the whole new archive, and
  processes that meet there do not damage what the other one reads.
- B+ tree: an exact ordered map, and a round trip through bytes is the identity.
- PageManager: a set of ids with lowest-free allocation.
- Page cache and pipeline: a file reads as it was stored, whatever mix of keys, ciphers,
  codecs, calls and evictions came before; the cache is a true LRU cache.
- IOHandler: a writer excludes everybody else; what a range check lets through is there;
  bytes behind the append position never leak into what is appended later.
- Command line tool: a command that reports success has done all of its work, one that
  fails has done a prefix of it and says where it stopped, and each command ends.
- gdelta: decoding the delta gives the buffer back.

## 2. Modules

| module | models | builds on |
|---|---|---|
| `Archive` | abstract: a map from paths to live or soft-deleted files, and the answer to the last call | |
| `InPlaceArchive` | creation and ReadWrite mode, one action per file write | refines `Archive` |
| `InPlaceFaults` | the same with partial writes, failing system calls and kills | extends `InPlaceArchive` |
| `InPlaceArchiveProofs` | first part: types, and the archive between calls; second part: ids and cells of pages, what a step may do to the pages of other files; `InPlaceArchive` implements `Archive`, step by step | extends `InPlaceArchive` |
| `InPlaceFaultsProofs` | what survives any number of failures and kills | extends `InPlaceFaults` and `InPlaceArchiveProofs` |
| `PageAllocator` | abstract: a set of page ids | |
| `PageManager` | the bitmap of words and bytes | refines `PageAllocator` |
| `PageManagerProofs` | the count of pages, and the refinement | extends `PageManager` |
| `BTree` | the B+ tree, one action per node split or extended | |
| `RewriteArchive` | archives opened without `read_write`: temporary file, rename, locks, several processes, failures and kills | |
| `RewriteArchiveProofs` | any number of processes: locks, and archives that are open; one process: the archive under the path, before, during and after a rewrite | extends `RewriteArchive` |
| `PagePipeline` | one page on its way to the disk and back: descriptors bit by bit, codecs, ciphers, checksums, errors | |
| `CatalogFormat` | the fields of a stored catalog, out and in | |
| `ArchiveSession` | Archive handles in all modes, with keys, codecs and the page cache | extends `PagePipeline` and `CatalogFormat` |
| `ArchiveSessionProofs` | pages and catalogs out and in; the cache; what an archive holds through any calls and failed commits | extends `ArchiveSession` |
| `IOHandler` | file handles of several processes: constructor step by step, locks, maps, buffers, cursors | |
| `IOHandlerProofs` | the locks, and what a handle knows of the file | extends `IOHandler` |
| `Cli` | the commands of the tool, one after another | |
| `CliProofs` | what each command has done when it ends | extends `Cli` |
| `GDelta` | `gencode` and `gdecode`, unit by unit | |
| `GDeltaMain` | the test program and other callers | extends `GDelta` |
| `GDeltaProofs` | varints and units, and the buffer that a delta describes and decodes to | extends `GDeltaMain` |
| `MC...` | small instances for TLC | |

Four models see the same Archive from four sides, because no single one that has them all
can be checked: `InPlaceArchive` has the file's bytes and every write, `RewriteArchive`
the directory, processes and kills, `ArchiveSession` the content of pages, `Cli` the
sequence of commands. Each names the one that has the detail it leaves out.

### InPlaceArchive

*State.* The file is an array of 32-byte cells (the size of a page header): archive
header, page header, footer and each catalog entry take one cell, a payload as many
as the constant `Payload` says. `disk_len` is the size of the file; `file_size` and
`append_pos` are `IOHandler::file_size_` and `append_pos_`; `wcat` and `rcat` are the
catalogs of writer and reader; `catalog_offset` and `next_page_id` are the members of
that name. `pc` and `job` are the point a call has reached and its locals; `reply`
is the last answer.

*Actions.* `Create`, `Open` and `Close` (with the destructor's `Finalise`) are in
`archive.cc:27-178`. `AddFile` then takes `WritePage` per page and `WriteLastPage`,
which enters the entry in the catalog; `DeleteFile` takes `PatchPage` and
`PatchLastPage`; `RenameFile` changes the catalog only. Each goes on with
`WriteCatalog`, `WriteFooter`, `Truncate` and `Reload` (`CommitCatalog`,
`archive.cc:414-432`), `Close` with `WriteCatalog` and `WriteLastFooter`.
`ExtractFile` and `RecoverFile` read the pages from the cells: they return the
content only if the cells hold it. A write that starts behind the end of the file leaves
zeroes in front of it (`CellAt`): a patch does so when a failed call or a kill has left a
catalog that lists pages which were never written.

*Abstractions.* A catalog is a map, written and read as a value: this is what the
tree is while it fits one leaf (fewer than 64 files); `BTree` shows where it stops
being one. A page that does not hold what was written is taken to be found by its
CRC. The page cache, codecs and encryption are in `ArchiveSession`; timestamps are left
out. A call in the
wrong mode returns an error and changes nothing, and is no action.

### InPlaceFaults

Adds, at every step of a call, a write that reaches the file in part, a failing
`fdatasync`, `ftruncate` or `pread`, and a kill. What the code then leaves in memory
is modelled statement by statement: `append_pos_` and `file_size_` move only behind a
write that succeeded, the writer keeps its changed catalog, `catalog_offset_` stays.
A kill drops the process state and keeps what the operating system took; power
loss, which may reorder writes, is not modelled. `kept` and `resumable` are history
variables for the properties.

*Catalogs that are overwritten in part.* A catalog has no checksum. The reader checks the
footer's magic number and bounds, parses what is there and compares the number of entries with
the footer's (`archive_reader.cc:233-252`). When a catalog is written over an older one at the
same place and the write stops half way, the old footer still leads to it, and the reader may
find a head of the new catalog and a rest of the old one (`MixReadable`, `MixedCatalog`,
`OpenMixed`). `KillLeavesOldOrNew` says that such a mixture is one of the two catalogs, unless
the call was a rename to a free path: TLC finds the exception when `RenamedToFree` is left
out, with three paths. With `p` and `q` listed, the rename of `p` to `r` writes `q, r` over
`p, q`; cut off behind the first entry this leaves `q, q`, two entries as the footer says. Two
things are taken for granted here: a write stops between two entries, and all entries have one
size, so that the rest is never parsed at another place than it was written; and a catalog
never ends up being parsed out of a page. There are fewer than 64 files, so the catalog is one
leaf. After such a kill the model opens mixtures without a path that is listed twice.

### RewriteArchive

*State.* `file` maps inodes to sequences of items (header, the pages of one file,
catalog with footer), `name` is the directory: the inodes of the archive and of its
temporary file. `proc[p]` is the Archive object of process `p` with the call it
executes: `reader` and `out` are the inodes of its two handles, `rcat` and `wcat` the
catalogs of reader and writer, `pos` is `append_pos_`.

*Actions.* A call of Archive (`AddFile`, `DeleteFile`, `RenameFile`, or `Create` and
what follows) puts a job into `proc[p]`; each further step is one effect on the
file system: `OpenOut` (open with `O_TRUNC`), `LockOut`, `Header`, `CopyFile` per live
file in key order, the change itself, `Finalise` (which closes the file and so gives the
lock back), `DropReader`, `Rename`, `Reopen` (`archive.cc:438-497`). An error in the
transform goes through `RemoveTmp` and `Destroy`, the destructor of the writer. Between
two steps of one process any step of another is possible. A file that has neither
a name nor a handle is gone (`Reclaimed`). A reader keeps `rcat` until the archive is
open again, for the properties only.

*Abstractions.* Items have one size, so a new archive never ends inside an old one's
page; partial writes are left out, since nobody reads an unfinished file; a page that
is mapped behind the end of a file that was cut off fails its CRC or kills the
process. Windows, where the rename and the locks behave in another way, and a process in
ReadWrite mode beside these are not modelled (`IOHandler` has any mix of handles).

### BTree

Nodes keep the unused part of their arrays, since stale children and moved-from keys
are used once a parent pointer is wrong. `Insert` is followed by `SplitLeaf`, then
`NewRoot`, `ExtendParent` or `SplitInternal` up the tree. `Loaded` is the tree that a
behaviour starts from, as a file may hold it. `WellLinked` says that parents and
children agree: the properties of the passing runs hold as long as it does, and only
`btree.h:347` breaks it (section 4). A behaviour ends before the code would write
behind the end of a node's arrays.

`PrefixScan` is a loop along the leaf chain that starts where `FindLeaf` leads for the
prefix. A path is a number and a prefix an interval of them, so that the order of paths
that `StartsWith` relies on is kept.

### PagePipeline, CatalogFormat and ArchiveSession

*State.* `disk` is the archive file: the header's two descriptor bytes, the stored pages,
the serialised catalog, the footer, each as the term that was written. `handle` is the
Archive object: mode, key, codec, cache capacity, both catalogs, the cache (`order`, the
list, and `index`, the keys of the map) and the decompressor that the reader keeps.
`truth` is what the caller believes is stored. `doubtful` are the names that a failed call
was about, and those whose pages a hard delete of such a name has wiped.

*Actions.* `Create`, `Open` with any key, `Close`, and each call in the three ways it is
executed: into a new archive, in place, by a rewrite. All go through `WithFile`
(`ArchiveWriter::AddFile` and `WritePage`: descriptor, codec, cipher, checksum) and
`AssembleFile` (`ReadPage` for each page: cache, bounds, checksum, decryption,
decompression, and at the end the file's own checksum). `Rewrite` takes a record of
what the caller's lambda does.

*Abstractions.* Zstandard, OpenSSL and the hash functions are injective terms: a frame of one
codec means nothing to the other, a GCM tag accepts only its key and its additional data, a
CTR text under another key is garbage. A commit is one step, which may fail and then leaves
what `CommitCatalog` leaves in memory. A catalog is one leaf. A `Close` in ReadWrite mode
writes the same catalog and a footer again (through the destructor of the writer), which
changes nothing here but what a failed commit left of the footer. When a hard delete is about
a doubtful file, the files whose pages it wipes as well (`Sharing`) become doubtful too,
although no call about them failed: a failed add leaves an entry whose pages a later call
writes over. The properties except these files; that the code destroys them is finding 1.

*What terms do not show.* Encryption is a term that only its key opens, so the properties say
that the library calls the ciphers with arguments that fit together: the same key,
IV, additional data and lengths on both ways. They do not say that the cipher layer works.
The repository says that it does not (section 4).

### IOHandler

The constructor is three actions, `OpenFile` (open, truncate, fstat), `LockFile` and
`MapFile`, since another process may run between them; `Destroy` and `Move` are the destructor
and the moves. A lock belongs to the process. A write may stop after any number of bytes.
`views` are the spans that `ReadAt` returned since the last `Remap`: a span of the map shows
the file, a span of the scratch buffer what is in the buffer now, also when a later `ReadAt`
has filled it. `unmapped` is what `Remap` leaves when its `mmap` fails: the handle has a size
and no map (`iohandler.cc:316`). It goes on like that, since `ReloadCatalog` ignores the
result (`archive_reader.cc:80`), but only ReadWrite handles, which have no map, are reloaded.
Three ghosts name what the locks do not prevent: `emptied`, the handles whose file another one
has emptied while opening it; `stale`, those whose file was changed between their `fstat` and
their lock; `doubled`, the processes that had two handles, of which one drops the other's
lock. The properties leave these handles out; `SpansValid`, `RangeCheckExact`, `LockForLife`
and `WrittenNotEmptied` say what the interface comments say without leaving them out, and do
not hold (section 4).

### Cli

A command is the sequence of its calls (`cmd.pc`), from `CheckOptions` to `Exit` with a code,
and one Archive call is one action. Between two of them the user may change a source (`Edit`),
and the process may be killed (`Kill`). Each call of the file system may fail: opening an
archive, a source, or an output file, making directories, reading an archive (`CallFails`);
writes and the flush of `create`, in `AddFile`, in `Close` and in the destructor that
completes the archive, which then holds a catalog or does not (`FinalisedOrNot`); any step of
a rewrite, before or behind the rename, with or without its temporary file left behind
(`RewriteFails`). A full disk cuts off what `extract`, `recover` and `compress` write, and
they do not notice. One failure is left out: a source that was opened is read without error
(`compress.cc:77` and `:190` do not check the read). Keys are given as digits, since
`ParseHexKey` is modelled by what it does. The archive's state is `absent`, `whole` or, while
create runs and after a kill, `unfinished`.

### GDelta and GDeltaMain

`gencode` is `Detect` (common head and tail), `Covered` (nothing but those), `Begin`, then one
action per turn of its loop: `Match`, `ReverseMatch` or `NoMatch`, and `Finish`. Whether the
hash table has an entry for a word, and which of the positions that were hashed, is left open:
so all collisions and all overwritten entries are covered. `gdecode` goes unit by unit.
Integers are encoded as the code does it, in parts of `Part` values (2^7 in the code); that
`read_varint` shifts an `int`, which overflows for buffers of 2 GiB and more, is left out, and
so is that `gencode` keeps sizes in an `int`: for a base of 2 GiB or more they may be
negative, and the loop that counts their bits (`gdelta.cpp:416-420`) does not end, since
shifting a negative number to the right never gives zero. Words, runs and blocks are scaled
down by constants that stand for 8, 16, 32 and so on; the bytes skipped behind `SkipUnit`
bytes without a match are another. The program around them (`parseArgs`, the two tests, the
output file) is in `GDeltaMain`.

### PageManager

A word is the set of its bits. `Reload` is `Serialise` followed by `Deserialise`,
byte by byte. No other code calls the class yet.

## 3. Runs

| run | instance | shows |
|---|---|---|
| `in_place` | 2 paths, a content of one page and one of two (the second page empty), 16 cells | `TypeOK`, `FilesOnDisk`, `CatalogAfterPages`, `PageIdsUnique`, `IdleArchiveComplete`, `ClosedArchiveReadable`, `OnlyOwnPagesPatched`, `CallsReturn`, and that the module implements `Archive` |
| `in_place_faults` | 3 paths and files of one page, or 2 paths and both contents, 15 cells, one fault | `KeptFilesSurvive`, `KillLeavesOldOrNew` |
| `failed_commit` | 2 paths, both contents, 14 cells, one fault | violation, finding 1 |
| `page_manager` | words of 2 bytes of 2 bits, up to 2 words | `PageCountCovers`, implements `PageAllocator` |
| `btree` | order 4, 6 keys, 2 values, 8 nodes, 5 prefixes, from an empty tree and from four leaves under a full root | `ScanSorted`, `SizeIsEntries`, `FindNeverStale`, `LostAreSeparators`, `PrefixScanExact` |
| `btree_lookup` | the same keys, 7 nodes, from an empty tree | violation, finding 2 |
| `rewrite` | one process, 2 paths, 2 contents, 4 rewrites, 2 failures or kills | `ArchiveComplete`, `OldOrNew`, `TmpRemoved`, `CallsReturn` |
| `rewrite_shared` | two processes, one of which also creates, 2 paths, 3 rewrites or creations | `WriterExcludesReaders`, `OpenArchiveUnmodified` |
| `session` | 2 names, an empty content and one of two pages, 3 ciphers, 2 codecs, 5 keys, capacities 0 and 1, 3 handles, 3 changes, one failed commit | `LruOrder`, `CacheCoherent`, `ListedFilesExtract`, `RecoverableUnlessGcm`, `CodecPreserved` |
| `io` | 3 handles of 2 processes, 3 openings, 3 writes of one or two bytes, 3 bytes, one span of each handle, until a process has two handles | `LockExclusion`, `RangeCheckHolds`, `AppendedIntact`, `ViewsStable` |
| `cli` | 2 sources with different contents, 3 keys, 3 commands, one edit, one failing call, full disk or kill | `CreateStoresPrefix`, `OneRecoverable`, `ExtractWritesArchive`, `CompressKeepsInput`, `CommandsEnd` |
| `gdelta` | all bases of 0, 3 and 8 and all buffers of 0, 1, 5 and 8 bytes of two values; words of 3 bytes | `DecodeRestores`, `LiteralsAccounted` |

Each run is within minutes, and its properties are those that a mutant of the code breaks.
The other `TypeOK` and `FaultTypeOK` definitions document the types and hold too,
but are not part of a run.

**Bounds.** `Capacity` bounds the file: 16 cells hold two two-page files with catalog and
footer and leave room for the second catalog that `Close` appends, so add, overwrite, delete,
rename, close and open again happen in every order. Two paths are enough to damage one file
while working on another and to rename onto an existing one, and three to leave a mixture of
two catalogs that is neither of them. A content of two pages has a first, a middle-free and a
last turn of each loop and an empty payload. One fault, followed by any calls, is enough for
each finding; the calls after it are fault-free. Order 4 is the smallest even order at which
an internal node can split with children on both sides; the code is the same at 64. `MaxNodes`
allows the leaf splits that six keys and their erasures cause in an empty tree, and a split
root from four leaves. `MaxCalls` bounds the rewrites of a behaviour: two calls of one process
with one of the other between them, or, alone, two additions, a change and a call after it.
Two processes are enough for each hazard of the one temporary name, and one path for those of
the locks. `MaxItems` is the length of an archive that is being created. In `session` two
pages and a capacity of one make every second read an eviction, two pages and a capacity of
zero none; three handles are create, change and read again; keys of the right size and another
content, and of a wrong size, are among the five. In `io`, a buffer of two bytes lets a write
stop in front, in the middle and at the end, and three writes let the next ones run into what
it left, or append behind it. A behaviour of `io` ends when a process has two handles
(`UntilDoubled`), since every property of the run excepts what happens to it from then on. In
`cli`, three commands are create, a change and a reader; the lists of create have none, two
and twice the same source. In `gdelta` the buffers are long enough for a head, a tail, a match
between them that grows in both directions, and skipped bytes; the loop has no state that
depends on more than that.

**Fairness.** `FairSpec` has weak fairness of `Step`, the steps of a call in
progress. The library is synchronous: once a call is entered nothing but the file
system can hold it, and in `InPlaceArchive` every system call returns. Nothing is
assumed about the program that makes the calls. In `RewriteArchive` the fairness is the
same for each process, which is scheduled while it executes a call; `LockFile` tries its
lock once (`F_SETLK`), so no step of a process waits for another. In `Cli` it is
weak fairness of the steps of the command that runs: it waits for nothing, and neither the
user's edits nor a kill is ever due. The refinements are checked for safety, and
`IOHandler`, `ArchiveSession` and `GDeltaMain` have safety properties only.

**Mutants.** Operators marked `Mutant:` are plausible bugs of the definition below
them, and make the properties of the runs fail. They are used nowhere in the
specifications.

## 4. Where the code and its documentation disagree

1. `failed_commit`. `catalog_offset_` is "the first byte after page data"
   (`archive.cc:51`), but it moves only after the whole commit. When the commit of an
   added file fails, the writer lists a file whose pages are behind it, and the next
   call writes over them and commits that entry. When that file is hard-deleted, this zeroes
   the pages of the file that has its place now.
2. `btree_lookup`. A key that a leaf split promotes to a separator is not found again:
   the split keeps it in the right leaf, the search turns left on equality
   (`btree.h:298`).

The modules state further properties that the code does not have. They have no run of
their own; the instance named here shows each.

- The footer is "written at the very end of the file" (`metadata.h:152`), but after a failed call
  `Close` appends catalog and footer without truncating (`archive_writer.cc:171`); if they are
  shorter than what is behind, the archive cannot be opened again (`InPlaceFaults` with
  `FailedCallSpec`, instance of `failed_commit`, `ClosedArchiveReadable`).
- `ScanAll` visits the entries "in ascending key order" (`btree.h:165`), but `SplitLeaf` sets
  the right leaf's parent after `InsertInParent` (`btree.h:347`), which may just have moved
  that leaf to a new node. Later splits add their leaves to the wrong node, and keys land out
  of order (`MCBTree` with `Loaded <- Spread`, keys 6 and 9 to 12, one value, 11 nodes,
  `ScanAscending`). The node above the leaves must be full: with the catalog's order 64 this
  takes more than 2000 files.
- From the same split on `Serialise` writes one leaf twice and another not at all. The
  footer's "number of files in catalog" (`metadata.h:157`) is counted apart from it; the
  reader compares the two (`archive_reader.cc:250`) and rejects the archive (same instance,
  `SerialisedWhole`).
- The view that `ReadAt` returns is "valid until the next Remap() call or destruction"
  (`iohandler.h:99`). In ReadWrite mode it is a view of one buffer that the next `ReadAt`
  fills (`iohandler.cc:145`; instance of `io` with two spans, `SpansValid`). The library's
  callers copy first; for the map the promise is kept (`ViewsStable`).
- `ReadAt` "throws XstdError(kIOError) if offset/length are out of range" (`iohandler.h:100`),
  by a size that is taken before the lock (`iohandler.cc:368`): a writer that has the lock
  until then may shorten the file (instance of `io`, `RangeCheckExact`).
- "The lock is held for the lifetime of the IOHandler object" (`iohandler.h:26`), but it is
  the process's: a second handle replaces it and drops it (`iohandler.cc:397`; instance of
  `io` without `UntilDoubled`, `LockForLife`).
- The lock is "preventing another process from modifying the archive while it is open"
  (`iohandler.h:27`), but opening for writing truncates before the lock is tried
  (`iohandler.cc:359`): the process that is refused has emptied the other one's archive
  (instance of `io`, `WrittenNotEmptied`; the exception in `OpenArchiveUnmodified`).
- A file that was deleted softly "can be recovered" (`archive.h:134`), but a rewrite
  copies live files only (`RewriteArchive`, one process, 3 rewrites, `SoftDeletedKept`),
  and under AES-GCM not even until then: the deleted flag is part of the authenticated
  page header (`MCArchiveSession`, instance of `session`, `SoftDeletedRecoverable`).
  `RecoverableUnlessGcm` and `OneRecoverable` say what is left of the promise.
- "The temp file atomically replaces the original" (`archive.h:204`), but its name is
  shared, its lock ends before the rename, and opening it truncates it before the lock
  is tried: an empty file can replace the archive (`RewriteArchive`, two processes,
  2 rewrites, `ArchiveComplete`).
- Renaming onto a listed path that sorts later keeps the other file, which the
  loop emits afterwards, and loses the renamed one (`archive.cc:337`; `Expected` in
  `RewriteArchive` says so), while in ReadWrite mode the renamed file wins.
- The lock is on the file and not on the path: of two processes that have the archive open,
  the second to rewrite it undoes what the first did.
- A rewrite whose temporary file is locked by another process's rewrite has emptied that file
  before it is refused, and leaves it there (`archive.cc:458`, `iohandler.cc:359`; with one
  process, as in `TmpRemoved`, no lock is ever refused).
- A `create` whose writes fail leaves an archive that cannot be opened, in the place of the
  one that was there (`create.cc:98` and `:101`, the last case of `CreateStoresPrefix`). It
  reports the failure.
- `extract` and `compress` do not check their writes: a full disk leaves a torn file behind
  a report of success (`archive_reader.cc:157`, `compress.cc:243`; `cut` of `Cli`
  excuses these files from `ExtractWritesArchive` and `CompressKeepsInput`).
- `compress -d` unpacks only when its input is a directory, which it packs first, and a
  packed directory is no Zstandard frame: what `compress -c` makes of a directory comes
  back as one packed file (`compress.cc:220`, `CompressKeepsInput`).

**Encryption.** The repository says that encryption is "currently broken, do not use
encryption" (`src/README.md:13`), "not working due to a bug in the encryption layer"
(`src/README.md:20-22`), and `create` warns that it is "not supported in this version"
(`create.cc:15`); its tests, on the other hand, expect round trips of archives under AES-GCM
and AES-CTR (`src/tests/archive_test.cc:130` and `:153`). The properties of `session` hold for
encrypted archives too, and do not contradict the warning: the bug, which the repository does
not describe, is not in how `ArchiveWriter` and `ArchiveReader` use `encryption.h` as far as
the model goes, and the layer below is a term in the model. What the run does show of
encrypted archives is that soft-deleted files are lost under AES-GCM.

## 5. Proofs

Each theorem holds for every value of the constants, with any number of calls.

| module | theorem | property |
|---|---|---|
| `InPlaceArchiveProofs` | `TypeCorrect` | `TypeOK` |
| | `PagesBeforeCatalog` | `CatalogAfterPages` |
| | `CompleteBetweenCalls` | `IdleArchiveComplete` |
| | `ClosedCanBeOpened` | `ClosedArchiveReadable` |
| | `IdsNeverShared` | `PageIdsUnique` |
| | `FilesStayOnDisk` | `FilesOnDisk` |
| | `OthersPagesUntouched` | `OnlyOwnPagesPatched` (action property) |
| | `ArchiveRefined` | `RefinesArchive` (refinement) |
| `InPlaceFaultsProofs` | `FaultTypesCorrect` | `FaultTypeOK` |
| | `FaultsKeepFiles` | `KeptFilesSurvive` |
| | `KillsKeepCatalog` | `KillLeavesOldOrNew` |
| `IOHandlerProofs` | `LockExclusionHolds` | `LockExclusion` |
| | `RangeChecksHold` | `RangeCheckHolds` |
| | `AppendsStayIntact` | `AppendedIntact` |
| | `SpansStayStable` | `ViewsStable` |
| `PageManagerProofs` | `PagesAreCounted` | `PageCountCovers` |
| | `BitmapTypeCorrect` | `TypeOK` |
| | `AllocatorRefined` | `RefinesPageAllocator` (refinement) |
| `RewriteArchiveProofs` | `WritersExcludeReaders` | `WriterExcludesReaders` |
| | `OpenArchivesKept` | `OpenArchiveUnmodified` (action property) |
| | `ArchiveStaysComplete` | `ArchiveComplete` |
| | `OldOrNewSurvives` | `OldOrNew` |
| | `NoTmpIsLeft` | `TmpRemoved` |
| `ArchiveSessionProofs` | `CatalogRoundTrip` | what is loaded is the catalog that was stored |
| | `SessionTypes` | `TypeOK` |
| | `CacheIsLru` | `LruOrder` |
| | `CacheIsCoherent` | `CacheCoherent` |
| | `ListedFilesAreRead` | `ListedFilesExtract` |
| | `SoftDeletedAreRecovered` | `RecoverableUnlessGcm` |
| | `CodecsPreserved` | `CodecPreserved` (action property) |
| `CliProofs` | `CreateStores` | `CreateStoresPrefix` |
| | `OneCanBeRecovered` | `OneRecoverable` |
| | `ExtractWrites` | `ExtractWritesArchive` |
| | `CompressKeeps` | `CompressKeepsInput` |
| `GDeltaProofs` | `MainRestores` | `DecodeRestores` |
| | `MainAccounts` | `LiteralsAccounted` |
| | `TestNeverMismatches` | the test program never reports a mismatch |

*Assumptions.* Those that the modules state for their constants, all of which TLC evaluates in
the runs: finitely many paths, a page in every content (`PathAssumption`,
`PayloadAssumption`), bounds that are numbers (`CapacityAssumption`, `MaxFaultsAssumption`,
`BoundsAssumption`), "no entry" and "none" that are no entry, no content and no process
(`NoEntryAssumption`, `NoFileAssumption`, `NoneAssumption`), handles that belong to processes
and data that are bytes (`IOAssumption`, `DataAssumption`), words that are whole bytes
(`WidthAssumption`, `WordsAssumption`), paths that have an order (`RewritePathAssumption`),
finitely many processes (`ProcessAssumption`), finitely many names that are numbers, contents
that are sequences, and ciphers and codecs that are bytes (`SessionAssumption`), sources whose
names are finitely many numbers and argument lists made of them (`CliAssumption`), positive
sizes of words and blocks and parts of at least two values (`GDeltaAssumption`), and bytes
that are the first so many numbers, since the test program adds one to each modulo their
number (`MainAssumption`). The bounds stay in the specifications, but the proofs hold for each
value of them. The last three theorems of `RewriteArchiveProofs` have one hypothesis more: one
process, and nobody who creates. Without it they are false (section 4: two processes share one
temporary name).

No property is inductive as it stands: each speaks of the state between calls, or of
finished handles, and says nothing of the steps that get there. Each invariant below was checked
by TLC on the small instance before it was proved. One lemma says of one action (or of a few
that are alike) that it keeps the invariant, and one `...Next` lemma puts them together.

*The archive between calls.* `IInv` adds what holds at each step:
`ModeInv` (which steps are possible in which mode), `LoopInv` (the loops stay within
the pages), `PagesInv` (pages that are written or patched, and those that exist, stay
before the append position or the catalog) and `CommitInv` (after `WriteCatalog` the
catalog's cells are on disk at `job.offset` and the append position is right behind
them; after `WriteFooter` the footer is there as well; after `Truncate` it is the last
cell of the file). From that `Reload` reads back exactly the writer's catalog.
`TransferEffect` is the lemma about file writes that every step uses: the cells of the
image are on disk and the others keep their content. `LargestExists` (a finite
set of naturals has a maximum, from the well-foundedness of strict subsets) is needed
for `NextPageId`.

*The pages.* `PInv` adds to `IInv` that pages are apart (`ApartInv`: no two have the same id
or share a cell, those that are being added included, and all ids are below
`next_page_id`), that the cells are there (`DiskInv`, which knows how far the loop of a soft
delete has come) and that a commit does not start in front of the catalog that it replaces
(`OffsetInv`). `OnlyOwnPagesPatched` follows from `PInv` for each step.

*The refinement.* `RInv` adds `CallInv`: the two catalogs are equal until a call changes the
writer's, and from then on the writer's is what the call makes of the reader's
(`CallEffect`). `Reload` and the last page of an archive that is being created map to the
abstract call, reading calls to abstract ones with the same answer (from `FilesOnDisk`),
opening, closing and all other steps to stutters.

*Failures and kills.* Behind a failure most of `IInv` is gone: the catalogs differ, the
writer's may list pages behind `catalog_offset` or pages that a later call overwrites, and the
end of the file may hold anything. `FInv` keeps what is left. `Firm` is the set of files that
is at stake: `kept` once something has failed, and before that the files that would be kept if
it happened now. `FirmInv(Firm)` says that their pages are stored below `catalog_offset` and
share no cell with each other; that any catalog, in memory or anywhere in the file, in which a
later call may find pages to patch, gives each page either to one of these files as a whole or
to cells they do not have (`Related`); and that no footer leads to a catalog in front of a
page that ends before the footer (`SafeCell`), so that an archive that can be opened at all
never offers such a place to be written. `Positions` keeps the offsets of the call in progress
behind `catalog_offset`, whatever failed. Truncation, the patches of a page, and every write
cut short at any cell are shown to keep this (`DiskSafe`, `MemorySafe`, `FirmShrinks`). While
nothing has failed `PInv` and two more parts hold, which give `Firm` its first value and
`KillLeavesOldOrNew`: `CellInv` (every catalog in the file lists pages in front of itself, and
those in front of the catalog to come are safe for its files) and `TailInv` (a footer at the
end of the file leads to `catalog_offset` or to the catalog just written, and a catalog that
is found there is the reader's or the writer's). For mixtures of catalogs the proof counts:
where a catalog is overwritten in part under an old footer, that footer's number of files is
that of the old catalog, and the head says that of the new one. When both are the same and no
path was given up for another, the two list the same paths, so each entry is at the same place
in both, and at most the entry of one path differs (`MixOfTwo`, `KillMixes`). The proof found
an error of the model: a patch behind the end of a file that had been cut off did not extend
the file, as `pwrite` does; `CellAt` is the repair.

*Handles.* `LockExclusion` speaks of finished handles, and their locks are taken earlier.
`IInv` adds that a handle beyond `LockFile` has the lock of its mode unless its process had a
second handle (`LockHeld`), that nobody has a lock beside a writer (`WriteLockAlone`), and
that a process that never had two handles at once has at most one open (`SingleHandle`), which
is why closing one takes no lock from another. `FInv` says of every handle from `OpenFile` on
what its object knows of the file (`Knows`: the size it remembers is there, the map is as
long, what was appended is there byte by byte) and what its spans show (`Show`), unless it was
disturbed in one of the three ways that `emptied`, `stale` and `doubled` name, or its own
`Remap` lost the map, which `Knows` lets stand for the map alone. A write, also one that stops
half way, is done under a lock, so every other handle is either without a claim or not there
(`Undisturbed`).

*PageManager.* A page id is a word and a bit, by division; `CInv` is the type invariant with
`PageCountCovers`, and the lemma `RoundTrip` says that the bytes of a bitmap read back are
the bitmap, for words of any number of bytes.

*Rewriting with others.* `WInv` says of each process at which step which of its handles are open
and locked (`Stage`, `Purpose`, `ObjectOK`) and of the directory that its names are
different files that exist (`NamesOK`), for any number of processes, failures and kills.

*Rewriting alone.* `AloneOK` follows the two archives through the call: the old one is
readable and is what the reader knows (`OldOK`); the new one consists, at each turn of the
loop, of the files copied so far (`NewOK`, with the lemmas `CopyOne` for a turn and
`AllCopied` for its end), and is what the call makes of the old one when it is renamed; the
temporary file is there during a rewrite only, unless a step has failed (`TmpOK`).

*The command line tool.* `CliInv` gives commands, results and archives their fields (`Shapes`)
and follows each command to its end. A create that runs has stored the sources before `cmd.at`
and nothing else, each with what it read (`Creating`); soft-deleted entries are exactly those
of `undo`, at most one (`Undone`); an extract has written of each name before `cmd.at` what
the archive holds (`Extracting`); and a compress has in `cmd.buf` what belongs to its input,
packed, read or coded, unless the user has changed something since it began (`Compressing`).
`LargestIndex` finds the last index at which a name is in a list, `FilesOfAppend` says that
adding a file replaces what was there under its name, and `AllEntriesHold` that a directory
packed to the end holds each of its files.

*gdelta.* `CoderInv` says for each phase what the streams are. What makes it inductive is
`Describes`: instructions and literals written so far describe the buffer up to `pos`. It is
stated without recursion, by a function that gives each unit the places where it starts in
instructions, literals and buffer (`Script`), so that one more unit is one more value of the
function (`DescribesMore`). `HeadTail` is about the common head and tail, `Scanned` about the
loop: the streams describe the buffer up to the pending literal, which `unit` counts and which
ends at `pos`. `ReverseMatch`, which takes bytes of a match back from the pending literal, is
the longest proof. When decoding starts `Coded` gives the `Script` of the whole buffer, and
`Decoded` says that the cursors are always at a place of it. `VarintWritten` and `VarintRead`
say that a number is read as it was written, whatever follows it, for parts of any width;
`UnitRead` says it of units.

*Pages and catalogs, out and in.* `PageHolds` says that a stored page is what `WritePage` makes
of a chunk, marked as deleted or not; `PageRoundTrip` says what `ReadPage` then returns: the
chunk, or the error of GCM's tag if the page is marked, since the flag is authenticated. It
rests on `FlagBits` and `WrittenFields`, which take the descriptor byte apart, and on
`CodecRoundTrip`. `ChunksAre` cuts a content into pages that put together are the content,
for every length and page size, the empty content included. `CatalogRoundTrip` is the same
for a catalog: entry i starts in the buffer where the reader arrives at it after i - 1 entries
(`WrittenUpTo`, `FoundUpTo`), whatever numbers of pages they have.

*Handles.* `Base` is about shapes and the cache alone: catalogs are well formed, the cursor and
the bounds fit, and `IsReader` relates the cache to the ghost `recent` of the pages last used.
`LruOrder` follows; `HitKeepsLru` and `MissKeepsLru` are the two ways of a lookup, the second
with an eviction. `CodecInv` is needed for `CodecPreserved` only: an archive whose header says
"compressed" has no page under codec 0, which also stands for "none given".

*What an archive holds.* `Content` is the invariant of the rest. `Arch` says of a page store
and a catalog that every file that is not doubtful holds what the caller believes (`Holds`:
its checksum, its size, and each of its pages under its descriptor and key), and that its page
ids are no other file's and its places no other trusted file's (`Apart`), without which wiping
one file would damage another. Each mode needs it of something else (`ClosedInv`, `CreateInv`,
`ReadInv`, `WriteInv`): of the catalog on disk while no handle is open, of the writer's
catalog with the pages in front of `catalog_offset_` while one is changing the archive. There
reader and writer agree on what is not doubtful (`Agree`), since a failed commit leaves only
the file it was about different in the two, and ids are below `next_page_id_` (`Below`), so
that a page added later is not found in the cache under an old id. `CacheInv` (`Fresh`) says
that every cached page whose id a trusted file has is the page as stored. In-place calls keep
`Content` by one lemma each (`SoftDeleteCommits`, `HardDeleteCommits`, `RenameCommits`,
`AddInPlaceContent`) on top of `CommitContent`, which covers commits that succeed and those
that fail; rewrites by `BuiltIs` and `RebuiltArch`: the new archive, file by file, holds what
was read from the old one. The proof found an error of the model: with two failures, a hard
delete of a file whose adding had failed wiped a page of another file that the ghosts still
called trusted; `Sharing` is the repair, and what the code does there is finding 1.

*Induction over data.* The library's induction theorems take an operator as parameter, which
the installed provers cannot instantiate. `GDeltaProofs` states induction with a set in the
place of the predicate (`SetInduction`, `StrongInduction`, from the well-foundedness of the
natural numbers), and `Recursion` says of a recursive function that it has its defining
equation. This is enough where recursion is written as a recursive function, as it is in
`GDelta`, `CatalogFormat` and `ArchiveSession`; `ArchiveSessionProofs` has one lemma per
recursive function (`...Exists`) that says it has a value at every step.

*Only model-checked.* Liveness (`CallsReturn`, `CommandsEnd`): fairness and `ENABLED` are out
of the prover's reach. `BTree`, all five properties: its searches and scans recurse along
pointers, so that they have a value at all only where an invariant of the whole tree gives
every node a height, and that invariant must also hold for the trees of section 4, whose
parents and children disagree, until the first node is a child in two places.
`RewriteArchive`'s properties of the archive's content with several processes do not hold
(section 4).

## 6. Not modelled

- The algorithms of Zstandard, OpenSSL, SHA-256 and xxHash, which are injective terms in
  `PagePipeline`, and the vendored `xxhash.h`, half of all lines: pure functions whose
  correctness is arithmetic on 64-bit words, nothing a state space of small values shows.
- Windows: sharing modes and mandatory locks replace most of `IOHandler`'s behaviour there.
- Power loss: the code calls `fdatasync` once per commit, behind all its writes.
- Damaged archives: the models' archives are those the program wrote or left behind.
- Offsets above 2 GiB, which `WritePage` cuts to 32 bits (a hazard with a note in
  `PROJECT.json`): an instance of that size cannot be enumerated.
- Timestamps and signatures, which no code reads but to print them; the wording of messages
  and errors; which compression levels and key sizes the options of the tool take; `compress -o`
  to another path.
- Capacities of gdelta's streams and the errors of its program's output.
- A process in ReadWrite mode beside rewriting ones at the level of whole archives.

## 7. Plan

Done: all modules of section 2, and the proofs of section 5. What would come next:

1. A proof of `BTree`'s properties. Its invariant has three parts: every node has a height one
   above its children's, also for the stale children behind the n-th, and its parent pointer
   is right or names a node with no place free of a child, stale ones included; a node is a
   child in two places, and then always is; or it is not, and the bounds of the keys below
   each node agree with the separators around it and with the order of the leaf chain.
