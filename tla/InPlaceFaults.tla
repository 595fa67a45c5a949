---------------------------- MODULE InPlaceFaults ----------------------------
(***************************************************************************)
(* InPlaceArchive when the file system and the process fail: a write that  *)
(* stops after a part of its cells, a failing fdatasync, ftruncate or      *)
(* pread, and a kill of the process at any point of a call.  What the      *)
(* operating system took is not lost: the machine keeps running.           *)
(*                                                                         *)
(* A catalog is written over an older one, and it has no checksum: when    *)
(* the write stops half way, the reader may take the entries of both for   *)
(* one catalog.  A write stops between two entries, not within one, and    *)
(* bytes of pages are never taken for a catalog.                           *)
(***************************************************************************)
EXTENDS InPlaceArchive

CONSTANTS
  Rank,        \* the order of the paths, in which a catalog is written
  MaxFaults    \* BOUND: failures and kills in a behaviour
ASSUME RankAssumption ==
  /\ Rank \in [Path -> Nat]
  /\ \A p, q \in Path : Rank[p] = Rank[q] => p = q
ASSUME MaxFaultsAssumption == MaxFaults \in Nat

VARIABLES
  faults,    \* failures and kills so far
  kept,      \* history: the files the reader listed at the first of them,
             \* without those hard-deleted since
  resumable  \* history: what the reader and the writer listed when the
             \* process was killed, until the next Create or Open

faultVars == <<disk, disk_len, file_size, append_pos, wcat, rcat, catalog_offset,
               next_page_id, mode, pc, job, reply, faults, kept, resumable>>

FaultInit == Init /\ faults = 0 /\ kept = EmptyCatalog /\ resumable = {}

\* The files of cat without those whose pages a hard delete has begun to zero.
NotZeroed(cat) ==
  [p \in Path |->
     IF /\ cat[p] # NoEntry
        /\ pc' = "patch_page"
        /\ ~job'.soft
        /\ cat[p].pages = wcat[job'.path].pages
     THEN NoEntry ELSE cat[p]]

-----------------------------------------------------------------------------
(* What the reader makes of entries of several catalogs.                   *)

\* Part 0 of a catalog is the node header with the number of entries; the
\* entries follow in the order of their paths.
Position(cat, p) ==
  Cardinality({q \in Path : cat[q] # NoEntry /\ Rank[q] <= Rank[p]})
HoldsEntry(cell, p) ==
  /\ cell.kind = "catalog"
  /\ cell.catalog[p] # NoEntry
  /\ cell.part = Position(cell.catalog, p)

\* Mutant: the number of files in the footer is not compared.
MixUncounted ==
  /\ disk_len >= 2
  /\ LET f == disk[disk_len - 1]
         n == FileCount(disk[f.offset].catalog)
     IN
       /\ f.kind = "footer"
       /\ f.offset + f.size <= disk_len
       /\ disk[f.offset].kind = "catalog" /\ disk[f.offset].part = 0
       /\ n < f.size
       /\ \A k \in 1 .. n : \E p \in Path : HoldsEntry(disk[f.offset + k], p)

\* As many entries as the node header says, within the footer's bounds, and
\* as many as the footer says.
MixReadable ==
  /\ disk_len >= 2
  /\ LET f == disk[disk_len - 1]
         n == FileCount(disk[f.offset].catalog)
     IN
       /\ f.kind = "footer"
       /\ f.offset + f.size <= disk_len
       /\ disk[f.offset].kind = "catalog" /\ disk[f.offset].part = 0
       /\ n < f.size
       /\ \A k \in 1 .. n : \E p \in Path : HoldsEntry(disk[f.offset + k], p)
       /\ f.num_files = n

\* The catalog that these entries make; the first one of a path counts.
Places(p) ==
  {k \in 1 .. FileCount(DiskCatalog) : HoldsEntry(disk[FooterOffset + k], p)}
MixedCatalog ==
  [p \in Path |->
     IF Places(p) = {} THEN NoEntry
     ELSE LET first == CHOOSE k \in Places(p) : \A j \in Places(p) : k <= j
          IN disk[FooterOffset + first].catalog[p]]

\* Archive::Open of such a file.
\* BOUND: no path has two entries, which no catalog of this model could say;
\* there is room for the catalog and footer that Close appends.
OpenMixed ==
  /\ mode = "closed"
  /\ ~CatalogReadable /\ MixReadable
  /\ FileCount(MixedCatalog) = FileCount(DiskCatalog)
  /\ disk_len + CommitRoom <= Capacity
  /\ file_size' = disk_len
  /\ append_pos' = disk_len
  /\ rcat' = MixedCatalog
  /\ wcat' = MixedCatalog
  /\ catalog_offset' = FooterOffset
  /\ next_page_id' = NextPageId(MixedCatalog)
  /\ mode' = "opened"
  /\ resumable' = {}
  /\ UNCHANGED <<disk, disk_len, pc, job, reply, faults, kept>>
-----------------------------------------------------------------------------
(* Steps, failures and kills.                                              *)

\* A step of InPlaceArchive.
NoFault ==
  /\ Next
  /\ kept' = IF mode' = "created" THEN EmptyCatalog ELSE NotZeroed(kept)
  /\ resumable' = IF mode = "closed" THEN {} ELSE resumable
  /\ UNCHANGED faults

Fault ==
  /\ faults < MaxFaults
  /\ faults' = faults + 1

\* The call in progress is zeroing the pages of p, or has done so.
HardDeleting(p) ==
  /\ job.call = "delete"
  /\ job.path = p
  /\ IF pc = "patch_page" THEN ~job.soft ELSE wcat[p] = NoEntry

\* The files the program has a right to find later.
Listed == [p \in Path |-> IF HardDeleting(p) THEN NoEntry ELSE rcat[p]]
KeepListed == kept' = IF faults = 0 THEN Listed ELSE kept
-----------------------------------------------------------------------------
(* A failing step ends the call with an error.  Nothing that the call did  *)
(* in memory or on disk is undone.                                         *)

\* Mutant: the locals survive the call.
ReturnWithJob(result) ==
  /\ pc' = "idle"
  /\ reply' = Reply(job.call, job.path, result)
  /\ UNCHANGED <<mode, job>>
Return(result) ==
  /\ pc' = "idle"
  /\ job' = NoJob
  /\ reply' = Reply(job.call, job.path, result)
  /\ UNCHANGED mode

\* WritePage: the header is an append of its own, before the payload.
PageFails ==
  /\ pc = "write_page"
  /\ \E m \in 0 .. PageWrite.len - 1 :
       /\ Transfer(PageWrite, m)
       /\ append_pos' = IF m = 0 THEN append_pos ELSE append_pos + 1
  /\ file_size' = Larger(file_size, append_pos')
  /\ next_page_id' = next_page_id + 1
  /\ Return("io_error")
  /\ UNCHANGED <<wcat, rcat, catalog_offset>>

\* ArchiveWriter::DeleteFile: the flags byte is a write of its own.
PatchFails ==
  /\ pc = "patch_page"
  /\ \E m \in 0 .. PatchWrite.len - 1 :
       /\ Transfer(PatchWrite, m)
       /\ file_size' = IF m = 0 THEN file_size
                       ELSE Larger(file_size, PatchWrite.at + 1)
  /\ Return("io_error")
  /\ UNCHANGED <<append_pos, memory>>

\* Flush: fdatasync fails, when catalog and footer are written already and
\* append_pos_ and file_size_ have been moved.
FlushFails ==
  /\ pc = "write_footer"
  /\ AppendWrite(FooterWrite)

\* WriteCatalogAndFooter: a failed Append leaves append_pos_ and file_size_.
CatalogFails ==
  \/ /\ pc = "write_catalog"
     /\ \E m \in 0 .. CatalogWrite.len - 1 : Transfer(CatalogWrite, m)
     /\ UNCHANGED <<append_pos, file_size>>
  \/ /\ pc = "write_footer"
     /\ Transfer(FooterWrite, 0)
     /\ UNCHANGED <<append_pos, file_size>>
  \/ FlushFails

CommitFails ==
  /\ CatalogFails
  /\ job.call # "close"
  /\ Return("io_error")
  /\ UNCHANGED memory

\* The destructor of the writer ignores the error of Finalise.
CloseFails ==
  /\ \/ /\ pc = "write_catalog"
        /\ \E m \in 0 .. CatalogWrite.len - 1 : Transfer(CatalogWrite, m)
     \/ /\ pc = "write_footer"
        /\ \E m \in {0, 1} : Transfer(FooterWrite, m)
  /\ job.call = "close"
  /\ Release
  /\ UNCHANGED reply

TruncateFails ==
  /\ pc = "truncate"
  /\ Return("io_error")
  /\ UNCHANGED <<io, memory>>

\* ReloadCatalog: the size is refreshed, then a read fails.
ReloadFails ==
  /\ pc = "reload"
  /\ file_size' = disk_len
  /\ Return("io_error")
  /\ UNCHANGED <<disk, disk_len, append_pos, memory>>

Failure ==
  /\ Fault
  /\ \/ PageFails \/ PatchFails \/ CommitFails \/ CloseFails
     \/ TruncateFails \/ ReloadFails
  /\ KeepListed
  /\ UNCHANGED resumable

\* The write the process is about to make.
Pending ==
  CASE pc = "write_page" -> PageWrite
    [] pc = "patch_page" -> PatchWrite
    [] pc = "write_catalog" -> CatalogWrite
    [] pc = "write_footer" -> FooterWrite
    [] OTHER -> Write(0, 0, <<>>)

\* The process is killed between two steps or within a write.
Kill ==
  /\ Fault
  /\ mode # "closed"
  /\ \E m \in 0 .. Pending.len : Transfer(Pending, m)
  /\ resumable' = IF mode = "opened" THEN {rcat, wcat} ELSE {}
  /\ Release
  /\ reply' = NoReply
  /\ KeepListed

FaultNext == NoFault \/ OpenMixed \/ Failure \/ Kill

FaultSpec == FaultInit /\ [][FaultNext]_faultVars

\* No kill, and Close itself does not fail: a call in between may.
FailedCallSpec ==
  FaultInit /\ [][NoFault \/ OpenMixed \/ (Failure /\ job.call # "close")]_faultVars
-----------------------------------------------------------------------------
(* Properties.                                                             *)

\* Every variable has its type, under failures as well.
FaultTypeOK ==
  /\ TypeOK
  /\ faults \in 0 .. MaxFaults
  /\ kept \in Catalog
  /\ resumable \subseteq Catalog

\* A failure or a kill, and whatever the program does afterwards, costs no
\* page of a file that was listed when it happened, unless the program
\* hard-deletes that file: the bytes stay in the archive file, even where
\* its catalog is lost.
KeptFilesSurvive ==
  \A p \in Entries(kept) : \A n \in DOMAIN kept[p].pages :
    LET ref == kept[p].pages[n] IN
      /\ disk[ref.offset].kind = "page"
      /\ disk[ref.offset].id = ref.id
      /\ \A k \in 1 .. ref.size :
           disk[ref.offset + k] = Data(kept[p].content, n, k)

\* The call in progress when the process was killed renamed a file to a path
\* that was free: other files, and as many of them.
RenamedToFree ==
  \E c, d \in resumable : FileCount(c) = FileCount(d) /\ Entries(c) # Entries(d)

\* A process killed in a mutation, when nothing failed before, leaves the
\* catalog with the mutation, the one without it, or none that a reader
\* accepts: the number of files in the footer keeps it from taking a mixture
\* of both for a catalog (archive_reader.cc:250).  Only a rename to a free
\* path, which leaves that number as it is, may leave a mixture.
KillLeavesOldOrNew ==
  faults = 1 /\ resumable # {} =>
    /\ CatalogReadable => DiskCatalog \in resumable
    /\ MixReadable /\ ~CatalogReadable /\ ~RenamedToFree => MixedCatalog \in resumable
=============================================================================
