--------------------------- MODULE InPlaceArchive ---------------------------
(***************************************************************************)
(* One process that creates an archive, and later opens it in ReadWrite    *)
(* mode and changes it in place (Archive, ArchiveWriter, ArchiveReader and *)
(* IOHandler with a shared handle), at the level of the bytes of the file. *)
(*                                                                         *)
(* The file is an array of 32-byte cells: the archive header, a page       *)
(* header, the footer and each catalog entry take one cell, a page payload *)
(* as many as Payload says.  A call is a sequence of steps with one file   *)
(* write each; no fault happens in this module (InPlaceFaults adds them).  *)
(*                                                                         *)
(*   header | pages of files ... | catalog | footer                        *)
(*                               ^ catalog_offset                          *)
(***************************************************************************)
EXTENDS Integers, Sequences, FiniteSets

CONSTANTS
  Path,       \* paths inside the archive
  Content,    \* file contents
  Payload,    \* Payload[c][n]: payload cells of the n-th page of content c
  NoEntry,    \* a path that is not in a catalog
  Capacity    \* BOUND: cells the file may grow to

ASSUME PathAssumption == IsFiniteSet(Path)
ASSUME CapacityAssumption == Capacity \in Nat
\* A file has at least one page (an empty one has a page of its own), and a
\* page may compress to nothing.
ASSUME PayloadAssumption ==
  \A c \in Content : Payload[c] \in Seq(Nat) /\ Payload[c] # <<>>

VARIABLES
  disk,             \* the cells of the file, from 0 to disk_len - 1
  disk_len,         \* the size of the file
  file_size,        \* IOHandler::file_size_, the handle's idea of that size
  append_pos,       \* IOHandler::append_pos_
  wcat,             \* ArchiveWriter::catalog_
  rcat,             \* ArchiveReader::catalog_
  catalog_offset,   \* Archive::catalog_offset_
  next_page_id,     \* ArchiveWriter::next_page_id_
  mode,             \* "closed", "created" or "opened" (read_write)
  pc,               \* the next step of the call in progress, or "idle"
  job,              \* the local variables of that call
  reply             \* the last call and what it returned

io == <<disk, disk_len, file_size, append_pos>>
memory == <<wcat, rcat, catalog_offset, next_page_id>>
vars == <<disk, disk_len, file_size, append_pos, wcat, rcat, catalog_offset,
          next_page_id, mode, pc, job, reply>>

Larger(a, b) == IF a > b THEN a ELSE b
-----------------------------------------------------------------------------
(* Catalogs, and what a cell of the file holds.                            *)

PageRef == [id: Nat, offset: Nat, size: Nat]
Entry == [content: Content, deleted: BOOLEAN, pages: Seq(PageRef) \ {<<>>}]
Catalog == [Path -> Entry \cup {NoEntry}]
ASSUME NoEntryAssumption == NoEntry \notin Entry
\* What a program sees of an entry: its content and the deleted bit.
FileView == [content: Content, deleted: BOOLEAN]
ASSUME NoFileAssumption == NoEntry \notin FileView

EmptyCatalog == [p \in Path |-> NoEntry]
FileCount(cat) == Cardinality({p \in Path : cat[p] # NoEntry})
CatalogSize(cat) == 1 + FileCount(cat)
PageIds(cat) ==
  UNION {{cat[p].pages[n].id : n \in DOMAIN cat[p].pages}
         : p \in {q \in Path : cat[q] # NoEntry}}
\* Mutants: the largest id itself; the ids of live files only.
LargestPageId(cat) ==
  IF PageIds(cat) = {} THEN -1 ELSE CHOOSE i \in PageIds(cat) : \A j \in PageIds(cat) : j <= i
NextLivePageId(cat) ==
  LET live == PageIds([p \in Path |-> IF cat[p] = NoEntry THEN NoEntry
                                      ELSE IF cat[p].deleted THEN NoEntry ELSE cat[p]])
  IN IF live = {} THEN 0 ELSE 1 + CHOOSE i \in live : \A j \in live : j <= i

NextPageId(cat) ==
  IF PageIds(cat) = {} THEN 0
  ELSE 1 + CHOOSE i \in PageIds(cat) : \A j \in PageIds(cat) : j <= i

Zero == [kind |-> "zero"]
Magic == [kind |-> "archive"]
Damaged == [kind |-> "damaged"]
PageHeader(id, deleted) == [kind |-> "page", id |-> id, deleted |-> deleted]
Data(c, n, k) == [kind |-> "data", content |-> c, page |-> n, part |-> k]
CatalogPart(cat, k) == [kind |-> "catalog", catalog |-> cat, part |-> k]
Footer(off, cat) == [kind |-> "footer", offset |-> off,
                     size |-> CatalogSize(cat), num_files |-> FileCount(cat)]

Cell ==
  {Zero, Magic, Damaged}
    \cup [kind: {"page"}, id: Nat, deleted: BOOLEAN]
    \cup [kind: {"data"}, content: Content, page: Nat, part: Nat]
    \cup [kind: {"catalog"}, catalog: Catalog, part: Nat]
    \cup [kind: {"footer"}, offset: Nat, size: Nat, num_files: Nat]
Cells == 0 .. disk_len - 1
-----------------------------------------------------------------------------
(* A write puts the cells of an image at a position of the file.           *)

Write(at, len, image) == [at |-> at, len |-> len, image |-> image]

\* The page of one chunk: its header, then the compressed payload.
PageWrite ==
  LET c == job.content
      n == Len(job.pages) + 1
  IN Write(append_pos, 1 + Payload[c][n],
           [k \in 0 .. Payload[c][n] |->
              IF k = 0 THEN PageHeader(next_page_id, FALSE) ELSE Data(c, n, k)])

CatalogWrite ==
  Write(append_pos, CatalogSize(wcat),
        [k \in 0 .. CatalogSize(wcat) - 1 |-> CatalogPart(wcat, k)])

\* Mutant: the footer records its own offset.
FooterOfFooter == Write(append_pos, 1, [k \in {0} |-> Footer(append_pos, wcat)])

FooterWrite == Write(append_pos, 1, [k \in {0} |-> Footer(job.offset, wcat)])

\* What is at i.  Beyond the end of the file there is nothing: a write that
\* starts behind the end leaves zeroes before it.
CellAt(i) == IF i \in Cells THEN disk[i] ELSE Zero

\* Mutant: the bit is not set.
NotFlagged(cell) == IF cell.kind = "page" THEN cell ELSE Damaged

\* Sets the deleted bit of the cell that should hold a page header.
Flagged(cell) ==
  IF cell.kind = "page" THEN PageHeader(cell.id, TRUE) ELSE Damaged

\* Mutant: a hard delete zeroes a cell too many.
PatchTooFar ==
  LET ref == wcat[job.path].pages[job.n]
      size == IF job.soft THEN 0 ELSE ref.size + 1
  IN Write(ref.offset, 1 + size,
           [k \in 0 .. size |-> IF k = 0 THEN Flagged(CellAt(ref.offset)) ELSE Zero])

\* The patch of one page: the flags byte and, for a hard delete, the payload.
PatchWrite ==
  LET ref == wcat[job.path].pages[job.n]
      size == IF job.soft THEN 0 ELSE ref.size
  IN Write(ref.offset, 1 + size,
           [k \in 0 .. size |-> IF k = 0 THEN Flagged(CellAt(ref.offset)) ELSE Zero])

\* The first m cells of write w reach the file.
Transfer(w, m) ==
  /\ disk_len' = IF m = 0 THEN disk_len ELSE Larger(disk_len, w.at + m)
  /\ disk' = [i \in 0 .. disk_len' - 1 |->
                IF w.at <= i /\ i < w.at + m THEN w.image[i - w.at]
                ELSE CellAt(i)]

\* WriteAt of the whole of w.
WriteAt(w) ==
  /\ Transfer(w, w.len)
  /\ file_size' = Larger(file_size, w.at + w.len)

\* Append of the whole of w, which is at append_pos.
AppendWrite(w) ==
  /\ WriteAt(w)
  /\ append_pos' = w.at + w.len
-----------------------------------------------------------------------------
(* What the reader makes of the file: ReadAndValidateCatalog and ReadPage.  *)

\* The footer is the last cell, and the cells it points to are one catalog, as
\* without faults they are; a catalog that was partly written over, which the
\* code reads if it parses, is the subject of InPlaceFaults.
CatalogReadable ==
  /\ disk_len >= 2
  /\ LET f == disk[disk_len - 1] IN
       /\ f.kind = "footer"
       /\ f.size > 0
       /\ f.offset + f.size <= disk_len
       /\ disk[f.offset].kind = "catalog"
       /\ LET cat == disk[f.offset].catalog IN
            /\ f.size = CatalogSize(cat)
            /\ f.num_files = FileCount(cat)
            /\ \A k \in 0 .. f.size - 1 :
                 disk[f.offset + k] = CatalogPart(cat, k)

FooterOffset == disk[disk_len - 1].offset
DiskCatalog == disk[FooterOffset].catalog

\* Every page is within the file and has the CRC of what was added.
Readable(e) ==
  \A n \in DOMAIN e.pages :
    LET ref == e.pages[n] IN
      /\ ref.offset + 1 + ref.size <= file_size
      /\ \A k \in 1 .. ref.size :
           disk[ref.offset + k] = Data(e.content, n, k)
-----------------------------------------------------------------------------
NoJob == [call |-> "none"]
NoReply == [call |-> "none"]
Reply(call, p, result) == [call |-> call, path |-> p, result |-> result]

\* BOUND: a call starts only if the file has room for n cells of pages, for
\* the catalog and footer it commits, and for those that Close writes again.
CommitRoom == Cardinality(Path) + 2
Room(n) == catalog_offset + n + 2 * CommitRoom <= Capacity

PagesSize(c) ==
  LET size[n \in 0 .. Len(Payload[c])] ==
        IF n = 0 THEN 0 ELSE size[n - 1] + 1 + Payload[c][n]
  IN size[Len(Payload[c])]

\* The archive a program left behind that created it and added nothing.
Init ==
  /\ disk = [i \in 0 .. 2 |->
               CASE i = 0 -> Magic
                 [] i = 1 -> CatalogPart(EmptyCatalog, 0)
                 [] i = 2 -> Footer(1, EmptyCatalog)]
  /\ disk_len = 3
  /\ file_size = 0
  /\ append_pos = 0
  /\ wcat = EmptyCatalog
  /\ rcat = EmptyCatalog
  /\ catalog_offset = 0
  /\ next_page_id = 0
  /\ mode = "closed"
  /\ pc = "idle"
  /\ job = NoJob
  /\ reply = NoReply
-----------------------------------------------------------------------------
(* Opening and closing.                                                    *)

\* Archive::Create with ArchiveWriter::Init: the old file is truncated.
Create ==
  /\ mode = "closed"
  /\ disk' = [i \in {0} |-> Magic]
  /\ disk_len' = 1
  /\ file_size' = 1
  /\ append_pos' = 1
  /\ wcat' = EmptyCatalog
  /\ next_page_id' = 0
  /\ mode' = "created"
  /\ reply' = NoReply
  /\ UNCHANGED <<rcat, catalog_offset, pc, job>>

\* Archive::Open with read_write; the writer starts from the reader's catalog.
\* BOUND: there is room for the catalog and footer that Close appends.
Open ==
  /\ mode = "closed"
  /\ CatalogReadable
  /\ disk_len + CommitRoom <= Capacity
  /\ file_size' = disk_len
  /\ append_pos' = disk_len
  /\ rcat' = DiskCatalog
  /\ wcat' = DiskCatalog
  /\ catalog_offset' = FooterOffset
  /\ next_page_id' = NextPageId(DiskCatalog)
  /\ mode' = "opened"
  /\ UNCHANGED <<disk, disk_len, pc, job, reply>>

\* Archive::Close: in both modes the writer appends its catalog (Finalise),
\* in ReadWrite mode from its destructor.
Close ==
  /\ mode # "closed"
  /\ pc = "idle"
  /\ pc' = "write_catalog"
  /\ job' = [call |-> "close"]
  /\ UNCHANGED <<io, memory, mode, reply>>

\* The handle, the reader and the writer are gone.
Release ==
  /\ file_size' = 0
  /\ append_pos' = 0
  /\ wcat' = EmptyCatalog
  /\ rcat' = EmptyCatalog
  /\ catalog_offset' = 0
  /\ next_page_id' = 0
  /\ mode' = "closed"
  /\ pc' = "idle"
  /\ job' = NoJob
-----------------------------------------------------------------------------
(* Adding a file.                                                          *)

\* AddFile: in ReadWrite mode the pages go where the catalog is now.
AddFile(p, c) ==
  /\ pc = "idle"
  /\ \/ /\ mode = "opened"
        /\ Room(PagesSize(c))
        /\ append_pos' = catalog_offset
     \/ /\ mode = "created"
        /\ append_pos + PagesSize(c) + CommitRoom <= Capacity
        /\ UNCHANGED append_pos
  /\ pc' = "write_page"
  /\ job' = [call |-> "add", path |-> p, content |-> c, pages |-> <<>>]
  /\ UNCHANGED <<disk, disk_len, file_size, memory, mode, reply>>

PagesWritten ==
  Append(job.pages, [id |-> next_page_id, offset |-> append_pos,
                     size |-> Payload[job.content][Len(job.pages) + 1]])
LastPage == Len(job.pages) + 1 = Len(Payload[job.content])

\* WritePage, and the loop of ArchiveWriter::AddFile around it.
WritePage ==
  /\ pc = "write_page"
  /\ ~LastPage
  /\ AppendWrite(PageWrite)
  /\ next_page_id' = next_page_id + 1
  /\ job' = [job EXCEPT !.pages = PagesWritten]
  /\ UNCHANGED <<wcat, rcat, catalog_offset, mode, pc, reply>>

\* The last page; the entry enters the writer's catalog.
WriteLastPage ==
  /\ pc = "write_page"
  /\ LastPage
  /\ AppendWrite(PageWrite)
  /\ next_page_id' = next_page_id + 1
  /\ wcat' = [wcat EXCEPT ![job.path] =
                [content |-> job.content, deleted |-> FALSE, pages |-> PagesWritten]]
  /\ \/ /\ mode = "opened"
        /\ pc' = "write_catalog"
        /\ job' = [call |-> "add", path |-> job.path]
        /\ UNCHANGED reply
     \/ /\ mode = "created"
        /\ pc' = "idle"
        /\ job' = NoJob
        /\ reply' = Reply("add", job.path, "ok")
  /\ UNCHANGED <<rcat, catalog_offset, mode>>
-----------------------------------------------------------------------------
(* Deleting and renaming (ReadWrite mode).                                 *)

\* A mutation of the catalog alone is committed at the catalog's place.
CommitAt(call, p) ==
  /\ append_pos' = catalog_offset
  /\ pc' = "write_catalog"
  /\ job' = [call |-> call, path |-> p]

\* Stat of the reader, or Find of the writer, does not know p.
MissingFile(call, p) ==
  /\ mode = "opened"
  /\ pc = "idle"
  /\ \/ rcat[p] = NoEntry
     \/ call = "delete" /\ wcat[p] = NoEntry
  /\ reply' = Reply(call, p, "not_found")
  /\ UNCHANGED <<io, memory, mode, pc, job>>

\* DeleteFile; soft-deleting a soft-deleted file only commits the catalog.
DeleteFile(p, soft) ==
  /\ mode = "opened"
  /\ pc = "idle"
  /\ Room(0)
  /\ rcat[p] # NoEntry
  /\ wcat[p] # NoEntry
  /\ \/ /\ soft
        /\ wcat[p].deleted
        /\ CommitAt("delete", p)
     \/ /\ ~soft \/ ~wcat[p].deleted
        /\ pc' = "patch_page"
        /\ job' = [call |-> "delete", path |-> p, soft |-> soft, n |-> 1]
        /\ UNCHANGED append_pos
  /\ UNCHANGED <<disk, disk_len, file_size, memory, mode, reply>>

\* Mutant: the loop does not advance.
PatchPageAgain ==
  /\ pc = "patch_page"
  /\ job.n < Len(wcat[job.path].pages)
  /\ WriteAt(PatchWrite)
  /\ UNCHANGED <<append_pos, memory, mode, pc, job, reply>>

\* One turn of the loop over the pages in ArchiveWriter::DeleteFile.
PatchPage ==
  /\ pc = "patch_page"
  /\ job.n < Len(wcat[job.path].pages)
  /\ WriteAt(PatchWrite)
  /\ job' = [job EXCEPT !.n = @ + 1]
  /\ UNCHANGED <<append_pos, memory, mode, pc, reply>>

\* The last turn; the entry is marked, or erased.
PatchLastPage ==
  /\ pc = "patch_page"
  /\ job.n = Len(wcat[job.path].pages)
  /\ WriteAt(PatchWrite)
  /\ wcat' = [wcat EXCEPT ![job.path] =
                IF job.soft THEN [@ EXCEPT !.deleted = TRUE] ELSE NoEntry]
  /\ CommitAt("delete", job.path)
  /\ UNCHANGED <<rcat, catalog_offset, next_page_id, mode, reply>>

\* Mutant: the old entry stays.
RenameCopies(p, q) ==
  /\ mode = "opened"
  /\ pc = "idle"
  /\ Room(0)
  /\ rcat[p] # NoEntry
  /\ wcat' = [wcat EXCEPT ![q] = rcat[p]]
  /\ CommitAt("rename", p)
  /\ UNCHANGED <<disk, disk_len, file_size, rcat, catalog_offset, next_page_id,
                 mode, reply>>

\* RenameFile: the reader's entry moves to q in the writer's catalog.
RenameFile(p, q) ==
  /\ mode = "opened"
  /\ pc = "idle"
  /\ Room(0)
  /\ rcat[p] # NoEntry
  /\ wcat' = [wcat EXCEPT ![p] = NoEntry, ![q] = rcat[p]]
  /\ CommitAt("rename", p)
  /\ UNCHANGED <<disk, disk_len, file_size, rcat, catalog_offset, next_page_id,
                 mode, reply>>
-----------------------------------------------------------------------------
(* CommitCatalog, and the Finalise of Close: WriteCatalogAndFooter, then,  *)
(* for a commit, the file is cut after the footer and the reader reloads.  *)

WriteCatalog ==
  /\ pc = "write_catalog"
  /\ AppendWrite(CatalogWrite)
  /\ pc' = "write_footer"
  /\ job' = IF job.call = "close" THEN [call |-> "close", offset |-> append_pos]
            ELSE [call |-> job.call, path |-> job.path, offset |-> append_pos]
  /\ UNCHANGED <<memory, mode, reply>>

WriteFooter ==
  /\ pc = "write_footer"
  /\ job.call # "close"
  /\ AppendWrite(FooterWrite)
  /\ pc' = "truncate"
  /\ UNCHANGED <<memory, mode, job, reply>>

\* The footer of Close; nothing is truncated.
WriteLastFooter ==
  /\ pc = "write_footer"
  /\ job.call = "close"
  /\ Transfer(FooterWrite, 1)
  /\ Release
  /\ UNCHANGED reply

\* Mutant: catalog_offset_ is not set.
TruncateOnly ==
  /\ pc = "truncate"
  /\ disk' = [i \in 0 .. append_pos - 1 |-> disk[i]]
  /\ disk_len' = append_pos
  /\ file_size' = append_pos
  /\ pc' = "reload"
  /\ UNCHANGED <<append_pos, memory, mode, job, reply>>

Truncate ==
  /\ pc = "truncate"
  /\ disk' = [i \in 0 .. append_pos - 1 |-> disk[i]]
  /\ disk_len' = append_pos
  /\ file_size' = append_pos
  /\ catalog_offset' = job.offset
  /\ pc' = "reload"
  /\ UNCHANGED <<append_pos, wcat, rcat, next_page_id, mode, job, reply>>

\* Mutant: the reader keeps its catalog.
RemapOnly ==
  /\ pc = "reload"
  /\ CatalogReadable
  /\ file_size' = disk_len
  /\ pc' = "idle"
  /\ job' = NoJob
  /\ reply' = Reply(job.call, job.path, "ok")
  /\ UNCHANGED <<disk, disk_len, append_pos, memory, mode>>

\* ReloadCatalog.
Reload ==
  /\ pc = "reload"
  /\ CatalogReadable
  /\ file_size' = disk_len
  /\ rcat' = DiskCatalog
  /\ pc' = "idle"
  /\ job' = NoJob
  /\ reply' = Reply(job.call, job.path, "ok")
  /\ UNCHANGED <<disk, disk_len, append_pos, wcat, catalog_offset, next_page_id,
                 mode>>
-----------------------------------------------------------------------------
(* Reading (ReadWrite mode).                                               *)

\* ExtractFile of a listed file: its bytes, or a checksum error.
ExtractFile(p) ==
  /\ mode = "opened"
  /\ pc = "idle"
  /\ reply' = Reply("extract", p,
       IF rcat[p] = NoEntry THEN "not_found"
       ELSE IF rcat[p].deleted THEN "not_found"
       ELSE IF Readable(rcat[p]) THEN rcat[p].content ELSE "corrupt")
  /\ UNCHANGED <<io, memory, mode, pc, job>>

\* RecoverFile of a soft-deleted file; it has one answer for every failure.
RecoverFile(p) ==
  /\ mode = "opened"
  /\ pc = "idle"
  /\ reply' = Reply("recover", p,
       IF rcat[p] = NoEntry THEN "not_found"
       ELSE IF rcat[p].deleted /\ Readable(rcat[p]) THEN rcat[p].content
       ELSE "not_found")
  /\ UNCHANGED <<io, memory, mode, pc, job>>
-----------------------------------------------------------------------------
\* The steps of a call in progress; the rest is up to the program.
Step ==
  \/ WritePage \/ WriteLastPage
  \/ PatchPage \/ PatchLastPage
  \/ WriteCatalog \/ WriteFooter \/ WriteLastFooter
  \/ Truncate \/ Reload

Call ==
  \/ Create \/ Open \/ Close
  \/ \E p \in Path :
       \/ \E c \in Content : AddFile(p, c)
       \/ \E soft \in BOOLEAN : DeleteFile(p, soft)
       \/ \E q \in Path : RenameFile(p, q)
       \/ \E call \in {"delete", "rename"} : MissingFile(call, p)
       \/ ExtractFile(p)
       \/ RecoverFile(p)

Next == Call \/ Step

Spec == Init /\ [][Next]_vars
FairSpec == Spec /\ WF_vars(Step)
-----------------------------------------------------------------------------
(* Properties.                                                             *)

AddJob == [call: {"add"}, path: Path, content: Content, pages: Seq(PageRef)]
DeleteJob == [call: {"delete"}, path: Path, soft: BOOLEAN, n: Nat \ {0}]
CatalogJob == [call: {"add", "delete", "rename"}, path: Path]
                \cup [call: {"close"}]
CommitJob == [call: {"add", "delete", "rename"}, path: Path, offset: Nat]
FooterJob == CommitJob \cup [call: {"close"}, offset: Nat]

\* The locals of a call are those of the step it is at.
JobOK ==
  /\ pc = "idle" => job = NoJob
  /\ pc = "write_page" => job \in AddJob
  /\ pc = "patch_page" => job \in DeleteJob
  /\ pc = "write_catalog" => job \in CatalogJob
  /\ pc = "write_footer" => job \in FooterJob
  /\ pc \in {"truncate", "reload"} => job \in CommitJob

\* Every variable has its type, and a call the locals of the step it is at.
TypeOK ==
  /\ disk \in [Cells -> Cell]
  /\ disk_len \in Nat
  /\ file_size \in Nat
  /\ append_pos \in Nat
  /\ wcat \in Catalog
  /\ rcat \in Catalog
  /\ catalog_offset \in Nat
  /\ next_page_id \in Nat
  /\ mode \in {"closed", "created", "opened"}
  /\ pc \in {"idle", "write_page", "patch_page", "write_catalog",
             "write_footer", "truncate", "reload"}
  /\ JobOK

Entries(cat) == {p \in Path : cat[p] # NoEntry}

\* The cells of the n-th page of e are its header and what was added.
PageOnDisk(e, n) ==
  LET ref == e.pages[n] IN
    /\ disk[ref.offset] = PageHeader(ref.id, e.deleted)
    /\ \A k \in 1 .. ref.size : disk[ref.offset + k] = Data(e.content, n, k)

\* Every file the writer knows of is whole on disk, with page headers whose
\* deleted bit agrees with the catalog, except the one that is being deleted
\* right now: no append, patch, commit or truncation of one call may damage
\* the pages of another file (archive.cc:197, archive_writer.cc:268-289).
FilesOnDisk ==
  \A p \in Entries(wcat) :
    (pc = "patch_page" => p # job.path)
      => \A n \in DOMAIN wcat[p].pages : PageOnDisk(wcat[p], n)

\* The pages of cat end where limit begins, or before.
PagesBelow(cat, limit) ==
  \A p \in Entries(cat) : \A n \in DOMAIN cat[p].pages :
    LET ref == cat[p].pages[n] IN ref.offset + 1 + ref.size <= limit

\* Between calls catalog_offset_ is the first byte after the page data
\* (the comment at archive.cc:51): the next call may write there.
CatalogAfterPages ==
  mode = "opened" /\ pc = "idle" => PagesBelow(wcat, catalog_offset)

\* No two pages of the catalog have the same id, across sessions and
\* deletions: the reader's page cache is keyed by it (archive_reader.cc:273).
PageIdsUnique ==
  \A p, q \in Entries(wcat) :
    \A m \in DOMAIN wcat[p].pages, n \in DOMAIN wcat[q].pages :
      wcat[p].pages[m].id = wcat[q].pages[n].id => p = q /\ m = n

\* Between calls the file on disk is a complete archive that lists exactly
\* what the reader and the writer list, and a catalog appended by Close goes
\* to its very end: a process killed here loses nothing.
IdleArchiveComplete ==
  mode = "opened" /\ pc = "idle" =>
    /\ CatalogReadable
    /\ DiskCatalog = rcat
    /\ wcat = rcat
    /\ FooterOffset = catalog_offset
    /\ append_pos = disk_len

\* The footer is at the very end of the file (metadata.h:152), so a closed
\* archive can be opened again.
ClosedArchiveReadable == mode = "closed" => CatalogReadable

\* The bytes before the catalog change in one way only: a delete patches the
\* pages of the file it deletes (archive_writer.cc:268-289).  Create starts
\* over.
OwnCells(e) ==
  UNION {e.pages[n].offset .. e.pages[n].offset + e.pages[n].size
         : n \in DOMAIN e.pages}
OnlyOwnPagesPatched ==
  [][mode = "opened" =>
       \A i \in 0 .. catalog_offset - 1 :
         disk'[i] # disk[i] =>
           pc = "patch_page" /\ i \in OwnCells(wcat[job.path])]_vars

\* Every call returns, whatever the number of pages it goes through.
CallsReturn == pc # "idle" ~> pc = "idle"

\* The map that a program sees: the writer's catalog while the archive is
\* being created, the reader's while it is open, else the file's.
View(cat) ==
  [p \in Path |-> IF cat[p] = NoEntry THEN NoEntry
                  ELSE [content |-> cat[p].content, deleted |-> cat[p].deleted]]
VisibleFiles ==
  View(CASE mode = "created" -> wcat
         [] mode = "opened" -> rcat
         [] OTHER -> DiskCatalog)

\* Each call takes effect at once, when it returns, and is answered as the
\* interface says (archive.h); closing and opening change nothing.
Abstract == INSTANCE Archive WITH files <- VisibleFiles
RefinesArchive == Abstract!Spec
=============================================================================
