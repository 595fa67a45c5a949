------------------------- MODULE InPlaceFaultsProofs -------------------------
(***************************************************************************)
(* Proofs about InPlaceFaults, for any number of failures and kills: they  *)
(* cost no page of a file that was listed when the first of them happened, *)
(* and a kill during a call leaves the catalog from before it, the one it  *)
(* was about to commit, or none that a reader accepts, be it a mixture.    *)
(***************************************************************************)
EXTENDS InPlaceFaults, InPlaceArchiveProofs

-----------------------------------------------------------------------------
(* The invariant.                                                           *)

\* The files whose pages are safe: those kept at the first fault, and before
\* it those that would be kept if it happened now.
Firm == IF faults > 0 THEN kept
        ELSE IF mode = "opened" THEN Listed
        ELSE IF mode = "closed" THEN DiskCatalog ELSE EmptyCatalog

\* The first cell behind a page.
End(ref) == ref.offset + 1 + ref.size

\* Two pages share no cell; no page of one file does with one of another.
Clear(a, b) == End(a) <= b.offset \/ End(b) <= a.offset
AllClear(pages, others) ==
  \A m \in DOMAIN pages, n \in DOMAIN others : Clear(pages[m], others[n])

\* Each file of cat is one of base, under whatever path, or shares no cell
\* with it.
Related(cat, base) ==
  \A p \in Entries(cat), q \in Entries(base) :
    cat[p].pages = base[q].pages \/ AllClear(cat[p].pages, base[q].pages)
SelfClear(cat) ==
  \A p, q \in Entries(cat) : \A m \in DOMAIN cat[p].pages, n \in DOMAIN cat[q].pages :
    (p = q /\ m = n) \/ Clear(cat[p].pages[m], cat[q].pages[n])

\* d holds the n-th page of e, which may be marked as deleted.
PageStored(d, e, n) ==
  LET ref == e.pages[n] IN
    /\ d[ref.offset].kind = "page"
    /\ d[ref.offset].id = ref.id
    /\ \A k \in 1 .. ref.size : d[ref.offset + k] = Data(e.content, n, k)

\* A catalog or a footer at i leads to no file that shares cells with those
\* of base, nor to a catalog in front of one of them.
SafeCell(cell, i, base) ==
  /\ cell.kind = "catalog" => Related(cell.catalog, base)
  /\ cell.kind = "footer" =>
       \A p \in Entries(base) : \A n \in DOMAIN base[p].pages :
         LET end == End(base[p].pages[n]) IN end <= i => end <= cell.offset

\* The file with the cells d, of which there are len, holds the pages of base,
\* and nothing in it threatens them.
FilesSafe(d, len, base) ==
  /\ base \in Catalog
  /\ SelfClear(base)
  /\ PagesBelow(base, len)
  /\ \A p \in Entries(base) : \A n \in DOMAIN base[p].pages : PageStored(d, base[p], n)
  /\ \A i \in 0 .. len - 1 : SafeCell(d[i], i, base)

\* Nor does anything that the program may do next.
FirmInv(base) ==
  /\ FilesSafe(disk, disk_len, base)
  /\ Related(wcat, base) /\ Related(rcat, base)
  /\ mode = "opened" => PagesBelow(base, catalog_offset)
  /\ mode = "created" => base = EmptyCatalog
  /\ pc = "patch_page" /\ ~job.soft =>
       \A p \in Entries(base) : base[p].pages # wcat[job.path].pages

\* What holds of the positions that a call works with, whatever has failed.
Positions ==
  /\ mode # "opened" => rcat = EmptyCatalog
  /\ mode = "closed" => wcat = EmptyCatalog
  /\ mode = "opened" =>
       /\ catalog_offset <= append_pos
       /\ pc = "write_page" =>
            \A n \in DOMAIN job.pages : catalog_offset <= job.pages[n].offset
       /\ pc \in {"write_footer", "truncate", "reload"} => catalog_offset <= job.offset
  /\ pc = "write_footer" => job.offset <= append_pos
  /\ pc = "truncate" => job.offset < append_pos /\ append_pos <= disk_len
CallPos == TypeOK /\ ModeInv /\ LoopInv /\ Positions
PosInv == FaultTypeOK /\ CallPos

\* While nothing has failed: where catalogs and footers may be, and that those
\* in front of the catalog to come are safe for the files it lists.
Plain(cell) == cell.kind \notin {"catalog", "footer"}
CellInv ==
  /\ \A i \in Cells : disk[i].kind = "catalog" => PagesBelow(disk[i].catalog, i)
  /\ mode = "opened" /\ pc \in {"write_page", "patch_page"} => wcat = rcat
  /\ mode = "opened" /\ pc = "write_page" =>
       \A i \in catalog_offset .. append_pos - 1 : Plain(disk[i])
  /\ mode = "created" /\ pc \in {"idle", "write_page"} => \A i \in Cells : Plain(disk[i])
  /\ pc = "write_catalog" => \A i \in 0 .. append_pos - 1 : SafeCell(disk[i], i, wcat)
  /\ pc \in {"write_footer", "truncate", "reload"} =>
       \A i \in 0 .. job.offset - 1 : SafeCell(disk[i], i, wcat)
PreInv == PInv /\ CellInv

\* A footer of cat, which is at off.
FooterFor(f, off, cat) ==
  f.offset = off /\ f.size = CatalogSize(cat) /\ f.num_files = FileCount(cat)

\* The catalogs have different paths, or differ in one entry at most.
OneChange(old, new) ==
  Entries(old) = Entries(new) =>
    \A p, q \in Path : old[p] # new[p] /\ old[q] # new[q] => p = q

\* A footer at the end of the file is that of the reader's catalog, or of the
\* one that was written last.
LastFooter ==
  disk[disk_len - 1].kind = "footer" =>
    \/ FooterFor(disk[disk_len - 1], catalog_offset, rcat)
    \/ pc \in {"truncate", "reload"} /\ FooterFor(disk[disk_len - 1], job.offset, wcat)

\* At the catalog's place is the reader's catalog, behind or over which the
\* call writes, or a page, or the catalog that was written last.
Behind == catalog_offset + CatalogSize(rcat) <= append_pos
OldCatalog ==
  \/ CatalogWritten(catalog_offset, rcat) /\ (append_pos = catalog_offset \/ Behind)
  \/ /\ pc \in {"write_page", "write_catalog", "write_footer", "truncate", "reload"}
     /\ disk[catalog_offset].kind = "page"
     /\ catalog_offset < append_pos
  \/ /\ pc \in {"write_footer", "truncate", "reload"}
     /\ job.offset = catalog_offset

\* While nothing has failed: what a reader may find that trusts a footer at
\* the end of the file.
TailInv ==
  mode = "opened" =>
    /\ LastFooter /\ OldCatalog /\ catalog_offset < disk_len
    /\ pc = "write_catalog" => OneChange(rcat, wcat)

\* What the processes that were killed left, until the next one comes.
ResumeInv == KillLeavesOldOrNew /\ (resumable # {} => mode = "closed")

FInv ==
  /\ PosInv /\ FirmInv(Firm) /\ ResumeInv
  /\ faults = 0 => kept = EmptyCatalog /\ PreInv /\ TailInv
-----------------------------------------------------------------------------
(* Files that are safe.                                                     *)

\* Every entry of part is one of cat.
Part(part, cat) == \A p \in Entries(part) : p \in Entries(cat) /\ part[p] = cat[p]

\* Fewer files are as safe.
LEMMA PartIsSafe ==
  ASSUME NEW d, NEW len, NEW base, NEW part \in Catalog,
         FilesSafe(d, len, base), Part(part, base)
  PROVE  FilesSafe(d, len, part)
<1>1. \A p \in Entries(part) : p \in Entries(base) /\ part[p] = base[p]
  BY DEF Part
<1>2. SelfClear(part)
  BY <1>1, Zenon DEF SelfClear, FilesSafe
<1>3. PagesBelow(part, len)
  BY <1>1 DEF PagesBelow, FilesSafe
<1>4. \A p \in Entries(part) : \A n \in DOMAIN part[p].pages : PageStored(d, part[p], n)
  BY <1>1 DEF FilesSafe
<1>5. ASSUME NEW i \in 0 .. len - 1 PROVE SafeCell(d[i], i, part)
  <2>1. SafeCell(d[i], i, base)
    BY DEF FilesSafe
  <2> QED
    BY <1>1, <2>1 DEF SafeCell, Related
<1> QED
  BY <1>2, <1>3, <1>4, <1>5 DEF FilesSafe

LEMMA PartIsRelated ==
  ASSUME NEW cat, NEW base, NEW part, Related(cat, base), Part(part, base)
  PROVE  Related(cat, part)
BY DEF Related, Part

LEMMA PartIsBelow ==
  ASSUME NEW base, NEW part, NEW limit, PagesBelow(base, limit), Part(part, base)
  PROVE  PagesBelow(part, limit)
BY DEF PagesBelow, Part

\* No files at all are safe, whatever the file holds.
LEMMA NoFilesSafe ==
  /\ EmptyCatalog \in Catalog /\ Entries(EmptyCatalog) = {}
  /\ \A d, len : FilesSafe(d, len, EmptyCatalog)
  /\ \A cat : Related(cat, EmptyCatalog) /\ Related(EmptyCatalog, cat)
  /\ \A cat : Part(EmptyCatalog, cat)
  /\ \A limit : PagesBelow(EmptyCatalog, limit)
<1>1. EmptyCatalog \in Catalog /\ Entries(EmptyCatalog) = {}
  BY DEF EmptyCatalog, Catalog, Entries
<1> QED
  BY <1>1 DEF FilesSafe, SelfClear, PagesBelow, SafeCell, Related, Part

\* A catalog or footer is written elsewhere only.
LEMMA PlainIsSafe ==
  ASSUME NEW cell, Plain(cell)
  PROVE  \A i, base : SafeCell(cell, i, base)
BY DEF Plain, SafeCell

\* What m cells of a write do; there may be none.
LEMMA CellsTransferred ==
  ASSUME NEW w, NEW m \in Nat, w.at \in Nat,
         disk_len \in Nat, disk \in [Cells -> Cell],
         \A k \in 0 .. m - 1 : w.image[k] \in Cell,
         Transfer(w, m)
  PROVE  /\ disk_len' \in Nat /\ disk_len <= disk_len'
         /\ disk' \in [0 .. disk_len' - 1 -> Cell]
         /\ m > 0 => w.at + m <= disk_len'
         /\ \A k \in 0 .. m - 1 : disk'[w.at + k] = w.image[k]
         /\ \A i \in Cells : ~(w.at <= i /\ i < w.at + m) => disk'[i] = disk[i]
         /\ \A i \in (0 .. disk_len' - 1) \ Cells :
              ~(w.at <= i /\ i < w.at + m) => disk'[i] = Zero
<1>1. CASE m = 0
  <2>1. disk_len' = disk_len
    BY <1>1 DEF Transfer
  <2>2. disk' = [i \in 0 .. disk_len - 1 |->
                   IF w.at <= i /\ i < w.at + m THEN w.image[i - w.at] ELSE CellAt(i)]
    BY <2>1 DEF Transfer
  <2>3. \A i \in Cells : disk'[i] = disk[i]
    BY <1>1, <2>2 DEF Cells, CellAt
  <2>4. DOMAIN disk' = Cells /\ disk' = [i \in Cells |-> disk'[i]]
    BY <2>2 DEF Cells
  <2>5. disk' \in [Cells -> Cell]
    BY <2>3, <2>4
  <2> QED
    BY <1>1, <2>1, <2>3, <2>5 DEF Cells
<1>2. CASE m # 0
  <2>1. /\ disk_len' \in Nat /\ disk_len <= disk_len' /\ w.at + m <= disk_len'
        /\ disk' \in [Cells' -> Cell]
        /\ \A k \in 0 .. m - 1 : disk'[w.at + k] = w.image[k]
        /\ \A i \in Cells : ~(w.at <= i /\ i < w.at + m) => disk'[i] = disk[i]
    BY <1>2, TransferEffect
  <2>2. ASSUME NEW i \in (0 .. disk_len' - 1) \ Cells, ~(w.at <= i /\ i < w.at + m)
        PROVE  disk'[i] = Zero
    BY <2>2 DEF Transfer, CellAt
  <2> QED
    BY <2>1, <2>2 DEF Cells
<1> QED
  BY <1>1, <1>2

\* A write keeps files safe if it leaves their pages and writes safe cells.
LEMMA WriteIsSafe ==
  ASSUME NEW w, NEW m \in Nat, w.at \in Nat,
         disk_len \in Nat, disk \in [Cells -> Cell],
         \A k \in 0 .. m - 1 : w.image[k] \in Cell,
         Transfer(w, m),
         NEW base, FilesSafe(disk, disk_len, base),
         \A k \in 0 .. m - 1 : SafeCell(w.image[k], w.at + k, base),
         \A p \in Entries(base) : \A n \in DOMAIN base[p].pages :
           PageStored(disk', base[p], n)
  PROVE  FilesSafe(disk', disk_len', base)
<1>1. /\ disk_len' \in Nat /\ disk_len <= disk_len'
      /\ \A k \in 0 .. m - 1 : disk'[w.at + k] = w.image[k]
      /\ \A i \in Cells : ~(w.at <= i /\ i < w.at + m) => disk'[i] = disk[i]
      /\ \A i \in (0 .. disk_len' - 1) \ Cells :
           ~(w.at <= i /\ i < w.at + m) => disk'[i] = Zero
  BY CellsTransferred
<1>2. ASSUME NEW i \in 0 .. disk_len' - 1 PROVE SafeCell(disk'[i], i, base)
  <2>1. CASE w.at <= i /\ i < w.at + m
    <3>1. i - w.at \in 0 .. m - 1 /\ w.at + (i - w.at) = i
      BY <2>1
    <3> QED
      BY <1>1, <3>1
  <2>2. CASE ~(w.at <= i /\ i < w.at + m) /\ i \in Cells
    <3>1. disk'[i] = disk[i]
      BY <1>1, <2>2
    <3>2. SafeCell(disk[i], i, base)
      BY <2>2 DEF FilesSafe, Cells
    <3> QED
      BY <3>1, <3>2
  <2>3. CASE ~(w.at <= i /\ i < w.at + m) /\ i \notin Cells
    <3>1. disk'[i] = Zero
      BY <1>1, <2>3
    <3>2. Plain(Zero)
      BY DEF Plain, Zero
    <3> QED
      BY <3>1, <3>2, PlainIsSafe
  <2> QED
    BY <2>1, <2>2, <2>3
<1>3. PagesBelow(base, disk_len')
  BY <1>1, PagesBelowLater DEF FilesSafe
<1> QED
  BY <1>2, <1>3 DEF FilesSafe

\* A page is stored as long as its cells are.
LEMMA StoredKept ==
  ASSUME NEW d, NEW d2, NEW e, NEW n, e.pages[n] \in PageRef, PageStored(d, e, n),
         \A i \in Span(e.pages[n].offset, End(e.pages[n])) : d2[i] = d[i]
  PROVE  PageStored(d2, e, n)
<1> DEFINE ref == e.pages[n]
<1>1. ref.offset \in Nat /\ ref.size \in Nat /\ End(ref) = ref.offset + 1 + ref.size
  BY PageRefFields DEF End
<1> HIDE DEF ref
<1>2. ref.offset \in Span(ref.offset, End(ref))
  BY <1>1 DEF Span
<1>3. \A k \in 1 .. ref.size : ref.offset + k \in Span(ref.offset, End(ref))
  BY <1>1 DEF Span
<1> QED
  BY <1>2, <1>3 DEF PageStored, ref

\* A write behind all pages leaves them.
LEMMA AppendIsSafe ==
  ASSUME NEW w, NEW m \in Nat, w.at \in Nat,
         disk_len \in Nat, disk \in [Cells -> Cell],
         \A k \in 0 .. m - 1 : w.image[k] \in Cell,
         Transfer(w, m),
         NEW base, FilesSafe(disk, disk_len, base), PagesBelow(base, w.at),
         \A k \in 0 .. m - 1 : SafeCell(w.image[k], w.at + k, base)
  PROVE  FilesSafe(disk', disk_len', base)
<1>1. \A i \in Cells : ~(w.at <= i /\ i < w.at + m) => disk'[i] = disk[i]
  BY CellsTransferred
<1>2. ASSUME NEW p \in Entries(base), NEW n \in DOMAIN base[p].pages
      PROVE  PageStored(disk', base[p], n)
  <2> DEFINE ref == base[p].pages[n]
  <2>1. ref \in PageRef /\ ref.offset \in Nat /\ ref.size \in Nat
    BY PageRefsOf, PageRefFields DEF FilesSafe
  <2>2. End(ref) \in Nat /\ End(ref) <= w.at /\ End(ref) <= disk_len
    BY <2>1 DEF PagesBelow, End, FilesSafe
  <2>3. PageStored(disk, base[p], n)
    BY DEF FilesSafe
  <2> HIDE DEF ref
  <2>4. ASSUME NEW i \in Span(ref.offset, End(ref)) PROVE disk'[i] = disk[i]
    <3>1. i \in Cells /\ ~(w.at <= i /\ i < w.at + m)
      BY <2>1, <2>2 DEF Span, Cells
    <3> QED
      BY <1>1, <3>1
  <2> QED
    BY <2>1, <2>3, <2>4, StoredKept DEF ref
<1> QED
  BY <1>2, WriteIsSafe
-----------------------------------------------------------------------------
(* The write that a call is about to make.                                  *)

\* A page consists of cells that are neither catalogs nor footers.
LEMMA PageImage ==
  ASSUME PosInv, pc = "write_page"
  PROVE  /\ Pending.at = append_pos /\ append_pos \in Nat
         /\ Pending.len \in Nat \ {0} /\ Pending.image[0].kind = "page"
         /\ \A k \in 0 .. Pending.len - 1 :
              Pending.image[k] \in Cell /\ Plain(Pending.image[k])
<1> DEFINE c == job.content  n == Len(job.pages) + 1  w == PageWrite
<1>1. append_pos \in Nat /\ next_page_id \in Nat /\ job \in AddJob
  BY DEF PosInv, CallPos, FaultTypeOK, TypeOK, JobOK
<1>2. c \in Content /\ n \in 1 .. Len(Payload[c]) /\ Payload[c] \in Seq(Nat)
  BY <1>1, PayloadAssumption DEF PosInv, CallPos, LoopInv, AddJob
<1>3. Payload[c][n] \in Nat /\ n \in Nat
  BY <1>2
<1> HIDE DEF c, n
<1>4. /\ w.at = append_pos /\ w.len = 1 + Payload[c][n]
      /\ w.image = [k \in 0 .. Payload[c][n] |->
                      IF k = 0 THEN PageHeader(next_page_id, FALSE) ELSE Data(c, n, k)]
  BY DEF PageWrite, Write, c, n
<1>5. Pending = w
  BY DEF Pending
<1> HIDE DEF w
<1>6. ASSUME NEW k \in 0 .. Payload[c][n] PROVE w.image[k] \in Cell /\ Plain(w.image[k])
  <2>1. CASE k = 0
    <3>1. w.image[k] = PageHeader(next_page_id, FALSE)
      BY <1>4, <2>1
    <3>2. Plain(PageHeader(next_page_id, FALSE)) /\ PageHeader(next_page_id, FALSE) \in Cell
      BY <1>1, CellTypes DEF Plain, PageHeader
    <3> QED
      BY <3>1, <3>2
  <2>2. CASE k # 0
    <3>1. w.image[k] = Data(c, n, k)
      BY <1>4, <2>2
    <3>2. k \in Nat
      BY <1>3
    <3>3. Plain(Data(c, n, k)) /\ Data(c, n, k) \in Cell
      BY <1>2, <1>3, <3>2, CellTypes DEF Plain, Data
    <3> QED
      BY <3>1, <3>3
  <2> QED
    BY <2>1, <2>2
<1>7. 0 .. w.len - 1 = 0 .. Payload[c][n] /\ w.len \in Nat \ {0}
  BY <1>3, <1>4
<1>8. w.image[0].kind = "page"
  BY <1>3, <1>4 DEF PageHeader
<1> QED
  BY <1>1, <1>4, <1>5, <1>6, <1>7, <1>8

\* A patch flags what should be the header of the page and zeroes what follows,
\* within the page.
LEMMA PatchImage ==
  ASSUME PosInv, pc = "patch_page"
  PROVE  LET ref == wcat[job.path].pages[job.n] IN
           /\ job.path \in Entries(wcat) /\ job.n \in DOMAIN wcat[job.path].pages
           /\ ref \in PageRef /\ job.soft \in BOOLEAN
           /\ Pending.at = ref.offset /\ Pending.at \in Nat /\ Pending.len \in Nat
           /\ Pending.at + Pending.len <= End(ref)
           /\ job.soft => Pending.len = 1
           /\ Pending.image[0] = Flagged(CellAt(ref.offset))
           /\ \A k \in 0 .. Pending.len - 1 :
                Pending.image[k] \in Cell /\ Plain(Pending.image[k])
<1> DEFINE ref == wcat[job.path].pages[job.n]
           size == IF job.soft THEN 0 ELSE ref.size
           w == PatchWrite
<1>1. job \in DeleteJob /\ wcat \in Catalog /\ disk \in [Cells -> Cell]
  BY DEF PosInv, CallPos, FaultTypeOK, TypeOK, JobOK
<1>2. job.path \in Entries(wcat) /\ wcat[job.path] \in Entry
  BY <1>1 DEF PosInv, CallPos, LoopInv, DeleteJob, Entries, Catalog
<1>3. job.n \in DOMAIN wcat[job.path].pages /\ job.soft \in BOOLEAN
  BY <1>1, <1>2 DEF PosInv, CallPos, LoopInv, DeleteJob, Entry
<1>4. ref \in PageRef /\ ref.offset \in Nat /\ ref.size \in Nat
  BY <1>1, <1>2, <1>3, PageRefsOf, PageRefFields
<1>5. size \in Nat /\ size <= ref.size /\ (job.soft => size = 0)
  BY <1>3, <1>4
<1>6. /\ w.at = ref.offset /\ w.len = 1 + size
      /\ w.image = [k \in 0 .. size |->
                      IF k = 0 THEN Flagged(CellAt(ref.offset)) ELSE Zero]
  BY DEF PatchWrite, Write
<1>7. Pending = w
  BY DEF Pending
<1> HIDE DEF ref, size, w
<1>8. CellAt(ref.offset) \in Cell
  BY <1>1, CellTypes DEF CellAt
<1>9. Flagged(CellAt(ref.offset)) \in Cell /\ Plain(Flagged(CellAt(ref.offset)))
      /\ Zero \in Cell /\ Plain(Zero)
  BY <1>8, CellTypes DEF Plain, Flagged, PageHeader, Damaged, Zero
<1>10. \A k \in 0 .. size : w.image[k] \in Cell /\ Plain(w.image[k])
  BY <1>6, <1>9
<1>11. 0 .. w.len - 1 = 0 .. size /\ w.len \in Nat /\ w.at \in Nat
  BY <1>4, <1>5, <1>6
<1>12. w.at + w.len <= End(ref)
  BY <1>4, <1>5, <1>6 DEF End
<1>13. w.image[0] = Flagged(CellAt(ref.offset))
  BY <1>5, <1>6
<1>14. job.soft => w.len = 1
  BY <1>5, <1>6
<1> QED
  BY <1>2, <1>3, <1>4, <1>6, <1>7, <1>10, <1>11, <1>12, <1>13, <1>14 DEF ref

LEMMA CatalogImage ==
  ASSUME PosInv, pc = "write_catalog"
  PROVE  /\ Pending.at = append_pos /\ append_pos \in Nat
         /\ Pending.len = CatalogSize(wcat) /\ Pending.len \in Nat
         /\ \A k \in 0 .. Pending.len - 1 :
              Pending.image[k] \in Cell /\ Pending.image[k] = CatalogPart(wcat, k)
<1> DEFINE size == CatalogSize(wcat)  w == CatalogWrite
<1>1. append_pos \in Nat /\ wcat \in Catalog
  BY DEF PosInv, CallPos, FaultTypeOK, TypeOK
<1>2. size \in Nat
  BY CatalogSizeType
<1>3. /\ w.at = append_pos /\ w.len = size
      /\ \A k \in 0 .. size - 1 : w.image[k] = CatalogPart(wcat, k)
  BY DEF CatalogWrite, Write
<1>4. Pending = w
  BY DEF Pending
<1> HIDE DEF size, w
<1>5. \A k \in 0 .. size - 1 : k \in Nat /\ CatalogPart(wcat, k) \in Cell
  BY <1>1, <1>2, CellTypes
<1> QED
  BY <1>1, <1>2, <1>3, <1>4, <1>5 DEF size

LEMMA FooterImage ==
  ASSUME PosInv, pc = "write_footer"
  PROVE  /\ Pending.at = append_pos /\ append_pos \in Nat /\ job.offset \in Nat
         /\ Pending.len = 1 /\ Pending.len \in Nat
         /\ \A k \in 0 .. Pending.len - 1 :
              Pending.image[k] \in Cell /\ Pending.image[k] = Footer(job.offset, wcat)
<1>1. append_pos \in Nat /\ wcat \in Catalog /\ job.offset \in Nat
  BY DEF PosInv, CallPos, FaultTypeOK, TypeOK, JobOK, FooterJob, CommitJob
<1>2. /\ FooterWrite.at = append_pos /\ FooterWrite.len = 1
      /\ FooterWrite.image[0] = Footer(job.offset, wcat)
  BY DEF FooterWrite, Write
<1>3. Pending = FooterWrite
  BY DEF Pending
<1>4. Footer(job.offset, wcat) \in Cell
  BY <1>1, CellTypes
<1>5. \A k \in 0 .. 1 - 1 : k = 0
  OBVIOUS
<1> QED
  BY <1>1, <1>2, <1>3, <1>4, <1>5

\* Any write that may be pending is one of cells, and there may be none.
LEMMA PendingImage ==
  ASSUME PosInv
  PROVE  /\ Pending.at \in Nat /\ Pending.len \in Nat
         /\ \A k \in 0 .. Pending.len - 1 : Pending.image[k] \in Cell
         /\ pc \notin {"write_page", "patch_page", "write_catalog", "write_footer"} =>
              Pending.len = 0
<1>1. CASE pc = "write_page"
  BY <1>1, PageImage
<1>2. CASE pc = "patch_page"
  BY <1>2, PatchImage
<1>3. CASE pc = "write_catalog"
  BY <1>3, CatalogImage
<1>4. CASE pc = "write_footer"
  BY <1>4, FooterImage
<1>5. CASE pc \notin {"write_page", "patch_page", "write_catalog", "write_footer"}
  <2>1. Pending = Write(0, 0, <<>>)
    BY <1>5 DEF Pending
  <2>2. Pending.at = 0 /\ Pending.len = 0
    BY <2>1 DEF Write
  <2>3. 0 .. Pending.len - 1 = {}
    BY <2>2
  <2> QED
    BY <2>2, <2>3
<1> QED
  BY <1>1, <1>2, <1>3, <1>4, <1>5
-----------------------------------------------------------------------------
(* Writes in an open archive, whole or in part, keep its files safe.        *)

\* A write that fails at once.
LEMMA NothingTransferred ==
  ASSUME NEW w, Transfer(w, 0), disk \in [Cells -> Cell], w.at \in Nat, disk_len \in Nat
  PROVE  disk' = disk /\ disk_len' = disk_len
<1>1. disk_len' = disk_len
  BY DEF Transfer
<1>2. /\ disk' \in [0 .. disk_len' - 1 -> Cell]
      /\ \A i \in Cells : ~(w.at <= i /\ i < w.at + 0) => disk'[i] = disk[i]
  BY CellsTransferred
<1>3. \A i \in Cells : disk'[i] = disk[i]
  BY <1>2 DEF Cells
<1>4. disk' \in [Cells -> Cell]
  BY <1>1, <1>2 DEF Cells
<1> QED
  BY <1>1, <1>3, <1>4

\* Pages that are clear of each other share no cell.
LEMMA ClearSpans ==
  ASSUME NEW a \in PageRef, NEW b \in PageRef, Clear(a, b) \/ Clear(b, a),
         NEW i \in Span(a.offset, End(a))
  PROVE  i \notin Span(b.offset, End(b))
<1>1. a.offset \in Nat /\ a.size \in Nat /\ b.offset \in Nat /\ b.size \in Nat
  BY PageRefFields
<1> QED
  BY <1>1 DEF Clear, Span, End

\* DeleteFile patches the pages of one file: those of a file that is safe
\* only if the delete is soft.
LEMMA PatchIsSafe ==
  ASSUME PosInv, pc = "patch_page", NEW base, FirmInv(base),
         NEW m \in 0 .. Pending.len, Transfer(Pending, m)
  PROVE  FilesSafe(disk', disk_len', base)
<1> DEFINE own == wcat[job.path].pages
           ref == own[job.n]
           w == Pending
<1>1. /\ job.path \in Entries(wcat) /\ job.n \in DOMAIN own
      /\ ref \in PageRef /\ job.soft \in BOOLEAN
      /\ w.at = ref.offset /\ w.at \in Nat /\ w.len \in Nat
      /\ w.at + w.len <= End(ref)
      /\ job.soft => w.len = 1
      /\ w.image[0] = Flagged(CellAt(ref.offset))
      /\ \A k \in 0 .. w.len - 1 : w.image[k] \in Cell /\ Plain(w.image[k])
  BY PatchImage
<1>2. ref.offset \in Nat /\ ref.size \in Nat /\ End(ref) = ref.offset + 1 + ref.size
  BY <1>1, PageRefFields DEF End
<1>3. /\ disk_len \in Nat /\ disk \in [Cells -> Cell] /\ FilesSafe(disk, disk_len, base)
      /\ Related(wcat, base)
  BY DEF PosInv, CallPos, Positions, FaultTypeOK, TypeOK, FirmInv
<1> HIDE DEF w
<1>4. m \in Nat /\ m <= w.len /\ Transfer(w, m)
      /\ \A k \in 0 .. m - 1 : w.image[k] \in Cell /\ Plain(w.image[k])
  BY <1>1 DEF w
<1>5. /\ \A k \in 0 .. m - 1 : disk'[w.at + k] = w.image[k]
      /\ \A i \in Cells : ~(w.at <= i /\ i < w.at + m) => disk'[i] = disk[i]
  BY <1>1, <1>3, <1>4, CellsTransferred
<1>6. ASSUME NEW p \in Entries(base), NEW n \in DOMAIN base[p].pages
      PROVE  PageStored(disk', base[p], n)
  <2> DEFINE page == base[p].pages[n]
  <2>1. page \in PageRef /\ page.offset \in Nat /\ page.size \in Nat
    BY <1>3, PageRefsOf, PageRefFields DEF FilesSafe
  <2>2. PageStored(disk, base[p], n)
    BY <1>3 DEF FilesSafe
  <2>3. End(page) \in Nat /\ End(page) <= disk_len /\ End(page) = page.offset + 1 + page.size
    BY <1>3, <2>1 DEF FilesSafe, PagesBelow, End
  <2>4. Span(page.offset, End(page)) \subseteq Cells
    BY <1>3, <2>1, <2>3 DEF Span, Cells
  <2>5. \A i \in Cells : w.at <= i /\ i < w.at + m => i \in Span(ref.offset, End(ref))
    <3> SUFFICES ASSUME NEW i \in Cells, w.at <= i, i < w.at + m
                 PROVE  i \in Span(ref.offset, End(ref))
      OBVIOUS
    <3>1. i \in Int
      BY <1>3 DEF Cells
    <3>2. w.at = ref.offset /\ w.at + w.len <= End(ref)
      BY <1>1
    <3>3. w.at \in Nat /\ w.len \in Nat /\ m \in Nat /\ m <= w.len /\ End(ref) \in Nat
      <4> HIDE DEF ref
      <4>1. End(ref) \in Nat
        BY <1>2
      <4>2. w.at \in Nat /\ w.len \in Nat
        BY <1>1
      <4> QED
        BY <1>4, <4>1, <4>2
    <3> HIDE DEF ref
    <3>4. w.at + m <= End(ref)
      BY <3>2, <3>3
    <3> QED
      BY <3>1, <3>2, <3>3, <3>4 DEF Span
  <2>6. ASSUME Clear(ref, page) \/ Clear(page, ref) PROVE PageStored(disk', base[p], n)
    <3>1. ASSUME NEW i \in Span(page.offset, End(page)) PROVE disk'[i] = disk[i]
      <4>1. i \notin Span(ref.offset, End(ref))
        BY <1>1, <2>1, <2>6, ClearSpans
      <4> QED
        BY <1>5, <2>4, <2>5, <4>1
    <3> QED
      BY <2>1, <2>2, <3>1, StoredKept
  <2>7. CASE AllClear(own, base[p].pages)
    <3>1. Clear(ref, page)
      BY <1>1, <2>7 DEF AllClear
    <3> QED
      BY <2>6, <3>1
  <2>8. CASE own = base[p].pages
    <3>1. job.soft
      BY <1>1, <2>8 DEF FirmInv
    <3>2. CASE n # job.n
      <4>1. Clear(page, ref)
        BY <1>1, <1>3, <2>8, <3>2 DEF FilesSafe, SelfClear
      <4> QED
        BY <2>6, <4>1
    <3>3. CASE n = job.n
      <4>1. page = ref
        BY <2>8, <3>3
      <4> HIDE DEF ref
      <4>2. ref.offset \in Cells /\ disk[ref.offset].kind = "page"
            /\ disk[ref.offset].id = ref.id
        <5>1. ref.offset \in Span(page.offset, End(page))
          BY <1>2, <4>1 DEF Span
        <5> QED
          BY <2>2, <2>4, <4>1, <5>1 DEF PageStored
      <4>3. disk'[ref.offset].kind = "page" /\ disk'[ref.offset].id = ref.id
        <5>1. CASE m = 0
          <6>1. ~(w.at <= ref.offset /\ ref.offset < w.at + m)
            BY <1>1, <1>2, <5>1
          <6>2. disk'[ref.offset] = disk[ref.offset]
            BY <1>5, <4>2, <6>1
          <6> QED
            BY <4>2, <6>2
        <5>2. CASE m # 0
          <6>1. 0 \in 0 .. m - 1 /\ w.at + 0 = ref.offset
            BY <1>1, <1>4, <5>2
          <6>2. disk'[ref.offset] = Flagged(disk[ref.offset])
            <7>1. disk'[w.at + 0] = w.image[0] /\ w.image[0] = Flagged(CellAt(ref.offset))
              BY <1>1, <1>5, <6>1
            <7>2. CellAt(ref.offset) = disk[ref.offset]
              BY <4>2 DEF CellAt
            <7> QED
              BY <6>1, <7>1, <7>2
          <6>3. Flagged(disk[ref.offset]) = PageHeader(disk[ref.offset].id, TRUE)
            BY <4>2 DEF Flagged
          <6> QED
            BY <4>2, <6>2, <6>3 DEF PageHeader
        <5> QED
          BY <5>1, <5>2
      <4>4. ASSUME NEW k \in 1 .. ref.size
            PROVE  disk'[ref.offset + k] = Data(base[p].content, n, k)
        <5>1. ref.offset + k \in Cells
          <6>1. ref.offset + k \in Span(page.offset, End(page))
            BY <1>2, <4>1 DEF Span
          <6> QED
            BY <2>4, <6>1
        <5>2. w.len = 1
          BY <1>1, <3>1
        <5>3. ~(w.at <= ref.offset + k /\ ref.offset + k < w.at + m)
          BY <1>1, <1>2, <1>4, <5>2
        <5>4. disk'[ref.offset + k] = disk[ref.offset + k]
          BY <1>5, <5>1, <5>3
        <5> QED
          BY <2>2, <4>1, <5>4 DEF PageStored
      <4> QED
        BY <4>1, <4>3, <4>4 DEF PageStored
    <3> QED
      BY <3>2, <3>3
  <2>9. own = base[p].pages \/ AllClear(own, base[p].pages)
    BY <1>1, <1>3 DEF Related
  <2> QED
    BY <2>7, <2>8, <2>9
<1>7. \A k \in 0 .. m - 1 : SafeCell(w.image[k], w.at + k, base)
  BY <1>4, PlainIsSafe
<1> QED
  BY <1>1, <1>3, <1>4, <1>6, <1>7, WriteIsSafe

\* Any write of a call in an open archive.
LEMMA PendingIsSafe ==
  ASSUME PosInv, mode = "opened", NEW base, FirmInv(base),
         NEW m \in 0 .. Pending.len, Transfer(Pending, m)
  PROVE  FilesSafe(disk', disk_len', base)
<1> DEFINE w == Pending
<1>1. /\ w.at \in Nat /\ w.len \in Nat
      /\ \A k \in 0 .. w.len - 1 : w.image[k] \in Cell
      /\ pc \notin {"write_page", "patch_page", "write_catalog", "write_footer"} =>
           w.len = 0
  BY PendingImage
<1>2. /\ disk_len \in Nat /\ disk \in [Cells -> Cell]
      /\ append_pos \in Nat /\ catalog_offset \in Nat /\ catalog_offset <= append_pos
      /\ FilesSafe(disk, disk_len, base) /\ base \in Catalog
      /\ Related(wcat, base) /\ PagesBelow(base, catalog_offset)
  BY DEF PosInv, CallPos, Positions, FaultTypeOK, TypeOK, FirmInv, FilesSafe
<1>3. PagesBelow(base, append_pos)
  BY <1>2, PagesBelowLater
<1>4. m \in Nat /\ m <= w.len /\ Transfer(w, m) /\ 0 .. m - 1 \subseteq 0 .. w.len - 1
  BY <1>1
<1>5. ASSUME w.at = append_pos,
             \A k \in 0 .. w.len - 1 : SafeCell(w.image[k], w.at + k, base)
      PROVE  FilesSafe(disk', disk_len', base)
  <2> HIDE DEF w
  <2> QED
    BY <1>1, <1>2, <1>3, <1>4, <1>5, AppendIsSafe
<1>6. CASE pc = "write_page"
  BY <1>5, <1>6, PageImage, PlainIsSafe
<1>7. CASE pc = "patch_page"
  BY <1>7, PatchIsSafe
<1>8. CASE pc = "write_catalog"
  <2>1. \A k, i : SafeCell(CatalogPart(wcat, k), i, base)
    BY <1>2 DEF SafeCell, CatalogPart
  <2> QED
    BY <1>5, <1>8, <2>1, CatalogImage
<1>9. CASE pc = "write_footer"
  <2>1. job.offset \in Nat /\ catalog_offset <= job.offset
    BY <1>9, FooterImage DEF PosInv, CallPos, Positions
  <2>2. PagesBelow(base, job.offset)
    BY <1>2, <2>1, PagesBelowLater
  <2>3. \A i : SafeCell(Footer(job.offset, wcat), i, base)
    BY <2>2 DEF SafeCell, Footer, PagesBelow, End
  <2> QED
    BY <1>5, <1>9, <2>3, FooterImage
<1>10. CASE pc \notin {"write_page", "patch_page", "write_catalog", "write_footer"}
  <2>1. m = 0
    BY <1>1, <1>4, <1>10
  <2>2. disk' = disk /\ disk_len' = disk_len
    BY <1>1, <1>2, <1>4, <2>1, NothingTransferred
  <2> QED
    BY <1>2, <2>2
<1> QED
  BY <1>6, <1>7, <1>8, <1>9, <1>10

\* CommitCatalog cuts the file behind the footer: what is before the catalog
\* stays.
LEMMA TruncateIsSafe ==
  ASSUME PosInv, mode = "opened", pc = "truncate", NEW base, FirmInv(base),
         disk_len' = append_pos, disk' = [i \in 0 .. append_pos - 1 |-> disk[i]]
  PROVE  FilesSafe(disk', disk_len', base)
<1>1. /\ append_pos \in Nat /\ catalog_offset \in Nat /\ catalog_offset <= append_pos
      /\ append_pos <= disk_len /\ disk_len \in Nat
      /\ FilesSafe(disk, disk_len, base) /\ base \in Catalog
      /\ PagesBelow(base, catalog_offset)
  BY DEF PosInv, CallPos, Positions, FaultTypeOK, TypeOK, FirmInv, FilesSafe
<1>2. PagesBelow(base, append_pos)
  BY <1>1, PagesBelowLater
<1>3. \A i \in 0 .. append_pos - 1 : i \in 0 .. disk_len - 1 /\ disk'[i] = disk[i]
  BY <1>1
<1>4. ASSUME NEW p \in Entries(base), NEW n \in DOMAIN base[p].pages
      PROVE  PageStored(disk', base[p], n)
  <2> DEFINE page == base[p].pages[n]
  <2>1. page \in PageRef /\ page.offset \in Nat /\ page.size \in Nat
    BY <1>1, PageRefsOf, PageRefFields
  <2>2. End(page) \in Nat /\ End(page) <= append_pos
    BY <1>2, <2>1 DEF PagesBelow, End
  <2>3. ASSUME NEW i \in Span(page.offset, End(page)) PROVE disk'[i] = disk[i]
    <3>1. i \in 0 .. append_pos - 1
      BY <1>1, <2>1, <2>2 DEF Span
    <3> QED
      BY <1>3, <3>1
  <2>4. PageStored(disk, base[p], n)
    BY <1>1 DEF FilesSafe
  <2> QED
    BY <2>1, <2>3, <2>4, StoredKept
<1>5. \A i \in 0 .. append_pos - 1 : SafeCell(disk'[i], i, base)
  BY <1>1, <1>3 DEF FilesSafe
<1> QED
  BY <1>1, <1>2, <1>4, <1>5 DEF FilesSafe
-----------------------------------------------------------------------------
(* Entries of several catalogs.                                             *)

\* A set of places has a first one.
LEMMA FirstPlace ==
  ASSUME NEW n \in Nat, NEW S \in SUBSET (1 .. n), S # {}
  PROVE  \E k \in S : \A j \in S : k <= j
<1> DEFINE T == {n - k : k \in S}
<1>1. T \in SUBSET Nat /\ T # {}
  <2>1. ASSUME NEW t \in T PROVE t \in Nat
    <3>1. PICK k \in S : t = n - k
      OBVIOUS
    <3> QED
      BY <3>1
  <2>2. T # {}
    OBVIOUS
  <2> QED
    BY <2>1, <2>2
<1>2. T \subseteq 0 .. n
  OBVIOUS
<1>3. IsFiniteSet(T)
  <2> HIDE DEF T
  <2>1. 0 \in Int /\ n \in Int
    OBVIOUS
  <2>2. IsFiniteSet(0 .. n)
    BY <2>1, FS_Interval
  <2> QED
    BY <1>2, <2>2, FS_Subset
<1>4. PICK m \in T : \A t \in T : t <= m
  <2> HIDE DEF T
  <2> QED
    BY <1>1, <1>3, LargestExists
<1>5. PICK k \in S : m = n - k
  OBVIOUS
<1>6. ASSUME NEW j \in S PROVE k <= j
  <2>1. n - j \in T
    OBVIOUS
  <2>2. n - j <= n - k
    BY <1>4, <1>5, <2>1
  <2> QED
    BY <2>2
<1> QED
  BY <1>6

\* The footer that leads a reader to a mixture.
LEMMA MixFooter ==
  ASSUME TypeOK, MixReadable
  PROVE  /\ FooterOffset \in Nat /\ FooterOffset < disk_len
         /\ FooterOffset + FileCount(DiskCatalog) < disk_len
         /\ FileCount(DiskCatalog) \in Nat
         /\ disk_len >= 2 /\ disk[disk_len - 1].kind = "footer"
<1> DEFINE f == disk[disk_len - 1]  n == FileCount(disk[f.offset].catalog)
<1>1. f \in Cell /\ f.kind = "footer" /\ disk_len >= 2 /\ disk_len \in Nat
  BY DEF TypeOK, MixReadable, Cells
<1>2. f.offset \in Nat /\ f.size \in Nat
  BY <1>1 DEF Cell, Zero, Magic, Damaged
<1>3. n \in Nat
  BY CatalogSizeType
<1>4. n < f.size /\ f.offset + f.size <= disk_len
  BY DEF MixReadable
<1>5. f.offset = FooterOffset /\ n = FileCount(DiskCatalog)
  BY DEF FooterOffset, DiskCatalog
<1> HIDE DEF f, n
<1>6. f.offset < disk_len /\ f.offset + n < disk_len
  BY <1>1, <1>2, <1>3, <1>4
<1> QED
  BY <1>1, <1>2, <1>3, <1>5, <1>6 DEF f

\* Each file of a mixture comes from the catalog of a cell.
LEMMA MixFrom ==
  ASSUME TypeOK, MixReadable, NEW p \in Path, MixedCatalog[p] # NoEntry
  PROVE  \E i \in Cells :
           /\ disk[i].kind = "catalog" /\ disk[i].catalog[p] # NoEntry
           /\ MixedCatalog[p] = disk[i].catalog[p]
<1> DEFINE n == FileCount(DiskCatalog)
           first == CHOOSE k \in Places(p) : \A j \in Places(p) : k <= j
<1>1. n \in Nat /\ FooterOffset \in Nat /\ FooterOffset + n < disk_len /\ disk_len \in Nat
  BY MixFooter DEF TypeOK
<1>2. Places(p) \in SUBSET (1 .. n)
  BY DEF Places
<1>3. Places(p) # {} /\ MixedCatalog[p] = disk[FooterOffset + first].catalog[p]
  BY DEF MixedCatalog
<1>4. first \in Places(p)
  BY <1>1, <1>2, <1>3, FirstPlace
<1> HIDE DEF first
<1>5. first \in 1 .. n /\ HoldsEntry(disk[FooterOffset + first], p)
  BY <1>4 DEF Places
<1> HIDE DEF n
<1>6. FooterOffset + first \in Cells
  BY <1>1, <1>5 DEF Cells
<1> QED
  BY <1>3, <1>5, <1>6 DEF HoldsEntry

LEMMA MixTyped ==
  ASSUME TypeOK, MixReadable
  PROVE  MixedCatalog \in Catalog
<1>1. ASSUME NEW p \in Path PROVE MixedCatalog[p] \in Entry \cup {NoEntry}
  <2>1. CASE MixedCatalog[p] # NoEntry
    <3>1. PICK i \in Cells : /\ disk[i].kind = "catalog"
                             /\ MixedCatalog[p] = disk[i].catalog[p]
      BY <2>1, MixFrom
    <3>2. disk[i] \in Cell
      BY DEF TypeOK
    <3>3. disk[i].catalog \in Catalog
      BY <3>1, <3>2 DEF Cell, Zero, Magic, Damaged
    <3> QED
      BY <3>1, <3>3 DEF Catalog
  <2> QED
    BY <2>1
<1>2. MixedCatalog = [p \in Path |-> MixedCatalog[p]]
  BY DEF MixedCatalog
<1> QED
  BY <1>1, <1>2 DEF Catalog

\* The catalog made of the n cells of d behind off.
PlacesIn(d, off, n, p) == {k \in 1 .. n : HoldsEntry(d[off + k], p)}
MixIn(d, off, n) ==
  [p \in Path |->
     IF PlacesIn(d, off, n, p) = {} THEN NoEntry
     ELSE LET first == CHOOSE k \in PlacesIn(d, off, n, p) :
                         \A j \in PlacesIn(d, off, n, p) : k <= j
          IN d[off + first].catalog[p]]

\* The place of an entry depends on the paths of the others only.
LEMMA PositionOf ==
  ASSUME NEW c, NEW p \in Entries(c)
  PROVE  /\ Position(c, p) \in 1 .. FileCount(c)
         /\ \A d : Entries(d) = Entries(c) => Position(d, p) = Position(c, p)
<1> DEFINE all == {q \in Path : c[q] # NoEntry}
           upto == {q \in Path : c[q] # NoEntry /\ Rank[q] <= Rank[p]}
<1>1. IsFiniteSet(all) /\ upto \subseteq all /\ Cardinality(all) = FileCount(c)
  BY PathAssumption, FS_Subset DEF FileCount
<1>2. p \in upto
  <2>1. Rank[p] \in Nat /\ p \in Path /\ c[p] # NoEntry
    BY RankAssumption DEF Entries
  <2> QED
    BY <2>1
<1>3. Cardinality(upto) = Position(c, p)
  BY DEF Position
<1>4. ASSUME NEW d, Entries(d) = Entries(c) PROVE Position(d, p) = Position(c, p)
  <2>1. {q \in Path : d[q] # NoEntry /\ Rank[q] <= Rank[p]} = upto
    BY <1>4 DEF Entries
  <2> QED
    BY <2>1 DEF Position
<1> HIDE DEF all, upto
<1>5. /\ IsFiniteSet(upto) /\ Cardinality(upto) \in Nat /\ Cardinality(all) \in Nat
      /\ Cardinality(upto) <= Cardinality(all)
  BY <1>1, FS_Subset, FS_CardinalityType
<1>6. Cardinality(upto) # 0
  BY <1>2, <1>5, FS_EmptySet
<1> QED
  BY <1>1, <1>3, <1>4, <1>5, <1>6

\* Two catalogs with the same paths that differ in one entry make no third.
LEMMA MixOfTwo ==
  ASSUME NEW a \in Catalog, NEW b \in Catalog, Entries(a) = Entries(b),
         OneChange(a, b), NEW d, NEW off,
         \A k \in 1 .. FileCount(a) :
           d[off + k] = CatalogPart(a, k) \/ d[off + k] = CatalogPart(b, k)
  PROVE  MixIn(d, off, FileCount(a)) \in {a, b}
<1> DEFINE n == FileCount(a)
           mix == MixIn(d, off, n)
           at(q) == Position(a, q)
           places(q) == PlacesIn(d, off, n, q)
<1>1. \A k : /\ CatalogPart(a, k).kind = "catalog" /\ CatalogPart(a, k).part = k
             /\ CatalogPart(a, k).catalog = a
             /\ CatalogPart(b, k).kind = "catalog" /\ CatalogPart(b, k).part = k
             /\ CatalogPart(b, k).catalog = b
  BY DEF CatalogPart
<1>2. \A k \in 1 .. n : /\ d[off + k].kind = "catalog" /\ d[off + k].part = k
                        /\ d[off + k].catalog = a \/ d[off + k].catalog = b
  BY <1>1
<1>3. mix = [q \in Path |->
               IF places(q) = {} THEN NoEntry
               ELSE LET first == CHOOSE k \in places(q) : \A j \in places(q) : k <= j
                    IN d[off + first].catalog[q]]
  BY DEF MixIn
<1>4. ASSUME NEW q \in Path, q \notin Entries(a) PROVE mix[q] = NoEntry
  <2>1. a[q] = NoEntry /\ b[q] = NoEntry
    BY <1>4 DEF Entries
  <2>2. \A k \in 1 .. n : d[off + k].catalog[q] = NoEntry
    BY <1>2, <2>1
  <2>3. places(q) = {}
    <3> HIDE DEF n
    <3> QED
      BY <2>2 DEF PlacesIn, HoldsEntry
  <2> HIDE DEF places, mix
  <2> QED
    BY <1>3, <2>3
<1>5. ASSUME NEW q \in Path, q \in Entries(a)
      PROVE  /\ at(q) \in 1 .. n /\ mix[q] = d[off + at(q)].catalog[q]
  <2>1. at(q) \in 1 .. n /\ Position(b, q) = at(q)
    BY <1>5, PositionOf
  <2>2. a[q] # NoEntry /\ b[q] # NoEntry
    BY <1>5 DEF Entries
  <2>3. \A k \in 1 .. n : Position(d[off + k].catalog, q) = at(q)
                          /\ d[off + k].catalog[q] # NoEntry
    BY <1>2, <2>1, <2>2
  <2>4. places(q) = {at(q)}
    <3> HIDE DEF n, at
    <3> QED
      BY <1>2, <2>1, <2>3 DEF PlacesIn, HoldsEntry
  <2> HIDE DEF places, mix, at, n
  <2>5. (CHOOSE k \in {at(q)} : \A j \in {at(q)} : k <= j) = at(q)
    <3>1. at(q) \in Int
      <4>1. n \in Int
        BY CatalogSizeType DEF n
      <4> QED
        BY <2>1, <4>1
    <3> QED
      BY <3>1
  <2> QED
    BY <1>3, <2>1, <2>4, <2>5
<1>6. DOMAIN mix = Path /\ mix = [q \in Path |-> mix[q]]
  BY <1>3
<1>7. /\ a = [q \in Path |-> a[q]] /\ b = [q \in Path |-> b[q]]
  BY DEF Catalog
<1> HIDE DEF mix, at, n
<1>8. ASSUME NEW q \in Path PROVE mix[q] \in {a[q], b[q]}
  <2>1. CASE q \in Entries(a)
    BY <1>2, <1>5, <2>1
  <2>2. CASE q \notin Entries(a)
    BY <1>4, <2>2 DEF Entries
  <2> QED
    BY <2>1, <2>2
<1>9. CASE \A q \in Path : mix[q] = a[q]
  BY <1>6, <1>7, <1>9 DEF mix, n
<1>10. CASE \E q \in Path : mix[q] # a[q]
  <2>1. PICK p \in Path : mix[p] # a[p]
    BY <1>10
  <2>2. mix[p] = b[p] /\ a[p] # b[p]
    BY <1>8, <2>1
  <2>3. \A q \in Path : q # p => a[q] = b[q]
    BY <2>2 DEF OneChange
  <2>4. \A q \in Path : mix[q] = b[q]
    BY <1>8, <2>2, <2>3
  <2> QED
    BY <1>6, <1>7, <2>4 DEF mix, n
<1> QED
  BY <1>9, <1>10

\* While nothing has failed, a closed archive holds one catalog.
LEMMA MixedLater ==
  ASSUME OpenMixed, faults = 0 => PreInv
  PROVE  faults # 0
BY DEF OpenMixed, PreInv, PInv, IInv, ClosedInv
-----------------------------------------------------------------------------
(* The positions of a call, whatever fails.                                 *)

\* The archive that Init leaves behind.
LEMMA InitPos ==
  FaultInit => PosInv
<1> SUFFICES ASSUME FaultInit PROVE PosInv
  OBVIOUS
<1>1. TypeOK
  BY InitInv DEF FaultInit, IInv
<1>2. EmptyCatalog \in Catalog
  BY NoFilesSafe
<1>3. faults \in 0 .. MaxFaults /\ kept \in Catalog /\ resumable \subseteq Catalog
  BY <1>2, MaxFaultsAssumption DEF FaultInit
<1> QED
  BY <1>1, <1>3
  DEF FaultInit, Init, PosInv, CallPos, FaultTypeOK, ModeInv, LoopInv, Positions

\* The cells that a write, whole or in part, leaves behind.
LEMMA PendingTyped ==
  ASSUME PosInv, NEW m \in 0 .. Pending.len, Transfer(Pending, m)
  PROVE  /\ disk_len' \in Nat /\ disk_len <= disk_len'
         /\ disk' \in [Cells' -> Cell]
         /\ m > 0 => Pending.at + m <= disk_len'
<1> DEFINE w == Pending
<1>1. /\ w.at \in Nat /\ w.len \in Nat
      /\ \A k \in 0 .. w.len - 1 : w.image[k] \in Cell
  BY PendingImage
<1>2. disk_len \in Nat /\ disk \in [Cells -> Cell]
  BY DEF PosInv, CallPos, TypeOK
<1>3. m \in Nat /\ Transfer(w, m) /\ \A k \in 0 .. m - 1 : w.image[k] \in Cell
  BY <1>1
<1> HIDE DEF w
<1>4. /\ disk_len' \in Nat /\ disk_len <= disk_len'
      /\ disk' \in [0 .. disk_len' - 1 -> Cell]
      /\ m > 0 => w.at + m <= disk_len'
  BY <1>1, <1>2, <1>3, CellsTransferred
<1> QED
  BY <1>4 DEF Cells, w

\* A whole write is one of all cells.
LEMMA WholeWrite ==
  ASSUME PosInv, NEW w, w = Pending, WriteAt(w)
  PROVE  /\ Pending.len \in 0 .. Pending.len /\ Transfer(Pending, Pending.len)
         /\ disk_len' \in Nat /\ disk_len <= disk_len' /\ disk' \in [Cells' -> Cell]
         /\ file_size' \in Nat
         /\ Pending.len > 0 => Pending.at + Pending.len <= disk_len'
<1>1. Pending.at \in Nat /\ Pending.len \in Nat /\ file_size \in Nat
  BY PendingImage DEF PosInv, CallPos, TypeOK
<1>2. Transfer(Pending, Pending.len) /\ Pending.len \in 0 .. Pending.len
      /\ file_size' = Larger(file_size, Pending.at + Pending.len)
  BY <1>1 DEF WriteAt
<1>3. file_size' \in Nat
  BY <1>1, <1>2 DEF Larger
<1> QED
  BY <1>2, <1>3, PendingTyped

\* Creating, opening, closing and reading.
LEMMA SessionPos ==
  ASSUME PosInv,
         \/ Create \/ Open \/ OpenMixed \/ Close
         \/ \E p \in Path : ExtractFile(p) \/ RecoverFile(p)
                            \/ \E call \in {"delete", "rename"} : MissingFile(call, p)
         \/ UNCHANGED vars
  PROVE  CallPos'
<1>1. CASE UNCHANGED vars
  BY <1>1 DEF vars, PosInv, CallPos, TypeOK, JobOK, ModeInv, LoopInv, Positions, Cells
<1>2. CASE \E p \in Path : ExtractFile(p) \/ RecoverFile(p)
                            \/ \E call \in {"delete", "rename"} : MissingFile(call, p)
  <2>1. UNCHANGED <<disk, disk_len, file_size, append_pos, wcat, rcat, catalog_offset,
                    next_page_id, mode, pc, job>>
    BY <1>2 DEF ExtractFile, RecoverFile, MissingFile, io, memory
  <2> QED
    BY <2>1 DEF PosInv, CallPos, TypeOK, JobOK, ModeInv, LoopInv, Positions, Cells
<1>3. CASE Create
  <2>1. /\ mode = "closed" /\ mode' = "created" /\ pc' = pc /\ job' = job
        /\ disk_len' = 1 /\ file_size' = 1 /\ append_pos' = 1 /\ next_page_id' = 0
        /\ disk' = [i \in {0} |-> Magic]
        /\ wcat' = EmptyCatalog /\ rcat' = rcat /\ catalog_offset' = catalog_offset
    BY <1>3 DEF Create
  <2>2. pc = "idle" /\ rcat = EmptyCatalog
    BY <2>1 DEF PosInv, CallPos, ModeInv, Positions
  <2>3. disk' \in [Cells' -> Cell]
    <3>1. Cells' = {0} /\ Magic \in Cell
      BY <2>1, CellTypes DEF Cells
    <3> QED
      BY <2>1, <3>1
  <2>4. TypeOK'
    BY <2>1, <2>2, <2>3, NoFilesSafe DEF PosInv, CallPos, TypeOK, JobOK
  <2> QED
    BY <2>1, <2>2, <2>4 DEF CallPos, ModeInv, LoopInv, Positions
<1>4. CASE Open
  <2>1. /\ mode = "closed" /\ mode' = "opened" /\ pc' = pc /\ job' = job
        /\ file_size' = disk_len /\ append_pos' = disk_len
        /\ wcat' = DiskCatalog /\ rcat' = DiskCatalog /\ catalog_offset' = FooterOffset
        /\ next_page_id' = NextPageId(DiskCatalog)
        /\ disk' = disk /\ disk_len' = disk_len /\ CatalogReadable
    BY <1>4 DEF Open
  <2>2. DiskCatalog \in Catalog /\ FooterOffset \in Nat /\ FooterOffset < disk_len
    BY <2>1, ReadableCatalog DEF PosInv, CallPos
  <2>3. NextPageId(DiskCatalog) \in Nat
    BY <2>2, NextPageIdType
  <2>4. pc = "idle"
    BY <2>1 DEF PosInv, CallPos, ModeInv
  <2>5. TypeOK'
    BY <2>1, <2>2, <2>3, <2>4 DEF PosInv, CallPos, TypeOK, JobOK, Cells
  <2>6. catalog_offset' <= append_pos'
    BY <2>1, <2>2 DEF PosInv, CallPos, TypeOK
  <2> QED
    BY <2>1, <2>4, <2>5, <2>6 DEF CallPos, ModeInv, LoopInv, Positions
<1>6. CASE OpenMixed
  <2>1. /\ mode = "closed" /\ mode' = "opened" /\ pc' = pc /\ job' = job
        /\ file_size' = disk_len /\ append_pos' = disk_len
        /\ wcat' = MixedCatalog /\ rcat' = MixedCatalog /\ catalog_offset' = FooterOffset
        /\ next_page_id' = NextPageId(MixedCatalog)
        /\ disk' = disk /\ disk_len' = disk_len /\ MixReadable /\ TypeOK
    BY <1>6 DEF OpenMixed, PosInv, CallPos
  <2>2. MixedCatalog \in Catalog /\ FooterOffset \in Nat /\ FooterOffset < disk_len
    BY <2>1, MixTyped, MixFooter
  <2>3. NextPageId(MixedCatalog) \in Nat
    BY <2>2, NextPageIdType
  <2>4. pc = "idle"
    BY <2>1 DEF PosInv, CallPos, ModeInv
  <2>5. TypeOK'
    BY <2>1, <2>2, <2>3, <2>4 DEF TypeOK, JobOK, Cells
  <2>6. catalog_offset' <= append_pos'
    BY <2>1, <2>2 DEF TypeOK
  <2> QED
    BY <2>1, <2>4, <2>5, <2>6 DEF CallPos, ModeInv, LoopInv, Positions
<1>5. CASE Close
  <2>1. /\ mode # "closed" /\ pc = "idle" /\ pc' = "write_catalog"
        /\ job' = [call |-> "close"] /\ mode' = mode
        /\ UNCHANGED <<disk, disk_len, file_size, append_pos, wcat, rcat, catalog_offset,
                       next_page_id>>
    BY <1>5 DEF Close, io, memory
  <2>2. job' \in CatalogJob
    BY <2>1 DEF CatalogJob
  <2> QED
    BY <2>1, <2>2 DEF PosInv, CallPos, TypeOK, JobOK, ModeInv, LoopInv, Positions, Cells
<1> QED
  BY <1>1, <1>2, <1>3, <1>4, <1>5, <1>6

\* Starting a change.
LEMMA StartPos ==
  ASSUME PosInv,
         \E p \in Path :
           \/ \E c \in Content : AddFile(p, c)
           \/ \E soft \in BOOLEAN : DeleteFile(p, soft)
           \/ \E q \in Path : RenameFile(p, q)
  PROVE  CallPos'
<1> PICK p \in Path :
           \/ \E c \in Content : AddFile(p, c)
           \/ \E soft \in BOOLEAN : DeleteFile(p, soft)
           \/ \E q \in Path : RenameFile(p, q)
  OBVIOUS
<1>0. /\ append_pos \in Nat /\ catalog_offset \in Nat /\ wcat \in Catalog /\ rcat \in Catalog
      /\ mode = "opened" => catalog_offset <= append_pos
  BY DEF PosInv, CallPos, TypeOK, Positions
<1>1. ASSUME NEW c \in Content, AddFile(p, c) PROVE CallPos'
  <2>1. /\ pc = "idle" /\ mode \in {"opened", "created"}
        /\ mode = "opened" => append_pos' = catalog_offset
        /\ mode = "created" => append_pos' = append_pos
        /\ pc' = "write_page"
        /\ job' = [call |-> "add", path |-> p, content |-> c, pages |-> <<>>]
        /\ UNCHANGED <<disk, disk_len, file_size, wcat, rcat, catalog_offset,
                       next_page_id, mode>>
    BY <1>1 DEF AddFile, memory
  <2>2. job' \in AddJob /\ job'.pages = <<>> /\ job'.content = c
    BY <2>1 DEF AddJob
  <2>3. Len(job'.pages) < Len(Payload[job'.content])
    BY <2>2, PayloadAssumption
  <2>4. append_pos' \in Nat /\ (mode = "opened" => catalog_offset <= append_pos')
    BY <1>0, <2>1
  <2>5. TypeOK'
    BY <2>1, <2>2, <2>4 DEF PosInv, CallPos, TypeOK, JobOK, Cells
  <2>6. ModeInv' /\ LoopInv'
    BY <2>1, <2>3 DEF ModeInv, LoopInv
  <2>7. DOMAIN job'.pages = {}
    BY <2>2
  <2>8. Positions'
    BY <2>1, <2>4, <2>7 DEF PosInv, CallPos, Positions
  <2> QED
    BY <2>5, <2>6, <2>8 DEF CallPos
<1>2. ASSUME NEW call \in {"delete", "rename"}, CommitAt(call, p), mode = "opened",
             wcat' \in Catalog,
             UNCHANGED <<disk, disk_len, file_size, rcat, catalog_offset, next_page_id, mode>>
      PROVE  CallPos'
  <2>1. /\ append_pos' = catalog_offset /\ pc' = "write_catalog"
        /\ job' = [call |-> call, path |-> p]
    BY <1>2 DEF CommitAt
  <2>2. job' \in CatalogJob
    BY <2>1 DEF CatalogJob
  <2>3. TypeOK'
    BY <1>0, <1>2, <2>1, <2>2 DEF PosInv, CallPos, TypeOK, JobOK, Cells
  <2> QED
    BY <1>0, <1>2, <2>1, <2>3 DEF PosInv, CallPos, ModeInv, LoopInv, Positions
<1>3. ASSUME NEW soft \in BOOLEAN, DeleteFile(p, soft) PROVE CallPos'
  <2>1. /\ mode = "opened" /\ wcat[p] # NoEntry
        /\ UNCHANGED <<disk, disk_len, file_size, wcat, rcat, catalog_offset,
                       next_page_id, mode>>
    BY <1>3 DEF DeleteFile, memory
  <2>2. CASE CommitAt("delete", p)
    BY <1>0, <1>2, <2>1, <2>2
  <2>3. CASE /\ pc' = "patch_page" /\ append_pos' = append_pos
             /\ job' = [call |-> "delete", path |-> p, soft |-> soft, n |-> 1]
    <3>1. job' \in DeleteJob /\ job'.path = p /\ job'.n = 1
      BY <2>3 DEF DeleteJob
    <3>2. wcat[p] \in Entry
      BY <1>0, <2>1 DEF Catalog
    <3>3. 1 <= Len(wcat[p].pages)
      BY <3>2 DEF Entry
    <3>4. TypeOK'
      BY <2>1, <2>3, <3>1 DEF PosInv, CallPos, TypeOK, JobOK, Cells
    <3> QED
      BY <2>1, <2>3, <3>1, <3>3, <3>4 DEF PosInv, CallPos, ModeInv, LoopInv, Positions
  <2> QED
    BY <1>3, <2>2, <2>3 DEF DeleteFile
<1>4. ASSUME NEW q \in Path, RenameFile(p, q) PROVE CallPos'
  <2>1. /\ mode = "opened" /\ wcat' = [wcat EXCEPT ![p] = NoEntry, ![q] = rcat[p]]
        /\ CommitAt("rename", p)
        /\ UNCHANGED <<disk, disk_len, file_size, rcat, catalog_offset,
                       next_page_id, mode>>
    BY <1>4 DEF RenameFile
  <2>2. wcat' \in Catalog
    BY <1>0, <2>1 DEF Catalog
  <2> QED
    BY <1>2, <2>1, <2>2
<1> QED
  BY <1>1, <1>3, <1>4

\* The Archive object is gone, whatever is in the file.
LEMMA ReleasePos ==
  ASSUME Release, disk_len' \in Nat, disk' \in [Cells' -> Cell]
  PROVE  CallPos'
<1>1. /\ file_size' = 0 /\ append_pos' = 0 /\ wcat' = EmptyCatalog /\ rcat' = EmptyCatalog
      /\ catalog_offset' = 0 /\ next_page_id' = 0 /\ mode' = "closed" /\ pc' = "idle"
      /\ job' = NoJob
  BY DEF Release
<1>2. TypeOK'
  BY <1>1, NoFilesSafe DEF TypeOK, JobOK
<1> QED
  BY <1>1, <1>2 DEF CallPos, ModeInv, LoopInv, Positions

\* A call that failed: what it leaves in memory is as it was, but for the
\* append position, which may have moved on, and the next page id.
LEMMA ReturnPos ==
  ASSUME PosInv, NEW result, Return(result),
         disk_len' \in Nat, disk' \in [Cells' -> Cell], file_size' \in Nat,
         append_pos' \in Nat, append_pos <= append_pos', next_page_id' \in Nat,
         UNCHANGED <<wcat, rcat, catalog_offset>>
  PROVE  CallPos'
<1>1. pc' = "idle" /\ job' = NoJob /\ mode' = mode
  BY DEF Return
<1>2. TypeOK'
  BY <1>1 DEF PosInv, CallPos, TypeOK, JobOK
<1>3. mode = "opened" => catalog_offset <= append_pos'
  BY DEF PosInv, CallPos, TypeOK, Positions
<1> QED
  BY <1>1, <1>2, <1>3 DEF PosInv, CallPos, ModeInv, LoopInv, Positions

\* Writing pages.
LEMMA PagePos ==
  ASSUME PosInv, WritePage \/ WriteLastPage \/ PageFails
  PROVE  CallPos'
<1> DEFINE c == job.content  n == Len(job.pages) + 1
           page == [id |-> next_page_id, offset |-> append_pos, size |-> Payload[c][n]]
<1>1. /\ pc = "write_page" /\ job \in AddJob /\ append_pos \in Nat /\ next_page_id \in Nat
      /\ wcat \in Catalog /\ file_size \in Nat /\ catalog_offset \in Nat
      /\ mode \in {"opened", "created"}
      /\ mode = "opened" => catalog_offset <= append_pos
      /\ mode = "opened" => \A i \in DOMAIN job.pages : catalog_offset <= job.pages[i].offset
  BY DEF PosInv, CallPos, TypeOK, JobOK, ModeInv, Positions, WritePage, WriteLastPage, PageFails
<1>2. /\ c \in Content /\ n \in 1 .. Len(Payload[c]) /\ Payload[c] \in Seq(Nat)
      /\ job.pages \in Seq(PageRef) /\ job.path \in Path
  BY <1>1, PayloadAssumption DEF PosInv, CallPos, LoopInv, AddJob
<1>3. page \in PageRef /\ page.offset = append_pos
  BY <1>1, <1>2 DEF PageRef
<1>4. PagesWritten = Append(job.pages, page)
  BY DEF PagesWritten
<1>5. Pending = PageWrite
  BY <1>1 DEF Pending
<1> HIDE DEF page, c
<1>6. PagesWritten \in Seq(PageRef) \ {<<>>} /\ Len(PagesWritten) = n
      /\ \A i \in DOMAIN PagesWritten : PagesWritten[i] = page \/
           (i \in DOMAIN job.pages /\ PagesWritten[i] = job.pages[i])
  BY <1>2, <1>3, <1>4
<1>7. ASSUME AppendWrite(PageWrite)
      PROVE  /\ disk_len' \in Nat /\ disk' \in [Cells' -> Cell] /\ file_size' \in Nat
             /\ append_pos' \in Nat /\ append_pos <= append_pos'
  <2>1. WriteAt(PageWrite) /\ append_pos' = Pending.at + Pending.len
    BY <1>5, <1>7 DEF AppendWrite
  <2>2. Pending.at = append_pos /\ Pending.len \in Nat
    BY <1>1, PageImage
  <2> QED
    BY <1>1, <1>5, <2>1, <2>2, WholeWrite
<1>8. CASE WritePage
  <2>1. /\ AppendWrite(PageWrite) /\ next_page_id' = next_page_id + 1
        /\ job' = [job EXCEPT !.pages = PagesWritten] /\ ~LastPage
        /\ wcat' = wcat /\ rcat' = rcat /\ catalog_offset' = catalog_offset
        /\ mode' = mode /\ pc' = pc
    BY <1>8 DEF WritePage
  <2>2. job' \in AddJob /\ job'.pages = PagesWritten /\ job'.content = job.content
    BY <1>1, <1>6, <2>1 DEF AddJob
  <2>3. Len(PagesWritten) < Len(Payload[job.content])
    BY <1>2, <1>6, <2>1 DEF LastPage, c
  <2>4. TypeOK'
    BY <1>1, <1>7, <2>1, <2>2 DEF PosInv, CallPos, TypeOK, JobOK
  <2>5. ModeInv' /\ LoopInv'
    BY <1>1, <2>1, <2>2, <2>3 DEF PosInv, CallPos, ModeInv, LoopInv
  <2>6. mode = "opened" => catalog_offset <= append_pos'
    BY <1>1, <1>7, <2>1
  <2>7. mode = "opened" => \A i \in DOMAIN PagesWritten : catalog_offset <= PagesWritten[i].offset
    BY <1>1, <1>3, <1>6
  <2>8. Positions'
    BY <1>1, <2>1, <2>2, <2>6, <2>7 DEF PosInv, CallPos, Positions
  <2> QED
    BY <2>4, <2>5, <2>8 DEF CallPos
<1>9. CASE WriteLastPage
  <2>1. /\ AppendWrite(PageWrite) /\ next_page_id' = next_page_id + 1
        /\ wcat' = [wcat EXCEPT ![job.path] = NewEntry(job.content, PagesWritten)]
        /\ rcat' = rcat /\ catalog_offset' = catalog_offset /\ mode' = mode
        /\ \/ /\ mode = "opened" /\ pc' = "write_catalog"
              /\ job' = [call |-> "add", path |-> job.path]
           \/ mode = "created" /\ pc' = "idle" /\ job' = NoJob
    BY <1>9 DEF WriteLastPage, NewEntry
  <2>2. NewEntry(job.content, PagesWritten) \in Entry
    BY <1>2, <1>6 DEF NewEntry, Entry, c
  <2>3. wcat' \in Catalog
    BY <1>1, <2>1, <2>2 DEF Catalog
  <2>4. mode = "opened" => job' \in CatalogJob
    BY <1>2, <2>1 DEF CatalogJob
  <2>5. TypeOK'
    BY <1>1, <1>7, <2>1, <2>3, <2>4 DEF PosInv, CallPos, TypeOK, JobOK
  <2>6. ModeInv' /\ LoopInv'
    BY <2>1 DEF PosInv, CallPos, ModeInv, LoopInv
  <2>7. mode = "opened" => catalog_offset <= append_pos'
    BY <1>1, <1>7, <2>1
  <2>8. Positions'
    BY <1>1, <2>1, <2>7 DEF PosInv, CallPos, Positions
  <2> QED
    BY <2>5, <2>6, <2>8 DEF CallPos
<1>10. CASE PageFails
  <2> PICK m \in 0 .. PageWrite.len - 1 :
         /\ Transfer(PageWrite, m)
         /\ append_pos' = IF m = 0 THEN append_pos ELSE append_pos + 1
    BY <1>10 DEF PageFails
  <2>1. /\ file_size' = Larger(file_size, append_pos') /\ next_page_id' = next_page_id + 1
        /\ Return("io_error") /\ UNCHANGED <<wcat, rcat, catalog_offset>>
    BY <1>10 DEF PageFails
  <2>2. append_pos' \in Nat /\ append_pos <= append_pos'
    BY <1>1
  <2>3. file_size' \in Nat
    BY <1>1, <2>1, <2>2 DEF Larger
  <2>4. m \in 0 .. Pending.len /\ Transfer(Pending, m)
    BY <1>1, <1>5, PageImage
  <2> QED
    BY <1>1, <2>1, <2>2, <2>3, <2>4, PendingTyped, ReturnPos
<1> QED
  BY <1>8, <1>9, <1>10

\* Patching pages.
LEMMA PatchPos ==
  ASSUME PosInv, PatchPage \/ PatchLastPage \/ PatchFails
  PROVE  CallPos'
<1> DEFINE old == wcat[job.path]
<1>1. /\ pc = "patch_page" /\ job \in DeleteJob /\ wcat \in Catalog
      /\ append_pos \in Nat /\ catalog_offset \in Nat /\ file_size \in Nat
      /\ mode = "opened"
      /\ Pending = PatchWrite
  BY DEF PosInv, CallPos, TypeOK, JobOK, ModeInv, PatchPage, PatchLastPage, PatchFails, Pending
<1>2. /\ job.path \in Entries(wcat) /\ job.n \in DOMAIN old.pages /\ job.soft \in BOOLEAN
      /\ Pending.at \in Nat /\ Pending.len \in Nat
  BY <1>1, PatchImage
<1>3. old \in Entry /\ job.path \in Path /\ job.n \in Nat
  BY <1>1, <1>2 DEF Catalog, Entries, DeleteJob
<1> HIDE DEF old
<1>4. CASE PatchPage
  <2>1. /\ job.n < Len(old.pages) /\ WriteAt(PatchWrite) /\ job' = [job EXCEPT !.n = job.n + 1]
        /\ append_pos' = append_pos /\ wcat' = wcat /\ rcat' = rcat /\ mode' = mode
        /\ catalog_offset' = catalog_offset /\ next_page_id' = next_page_id /\ pc' = pc
    BY <1>4 DEF PatchPage, memory, old
  <2>2. disk_len' \in Nat /\ disk' \in [Cells' -> Cell] /\ file_size' \in Nat
    BY <1>1, <2>1, WholeWrite
  <2>3. job' \in DeleteJob /\ job'.path = job.path /\ job'.n = job.n + 1
    BY <1>1, <1>3, <2>1 DEF DeleteJob
  <2>4. TypeOK'
    BY <1>1, <2>1, <2>2, <2>3 DEF PosInv, CallPos, TypeOK, JobOK
  <2>5. job.n + 1 <= Len(old.pages)
    BY <1>3, <2>1 DEF Entry
  <2>6. LoopInv'
    BY <1>1, <2>1, <2>3, <2>5 DEF PosInv, CallPos, LoopInv, old
  <2> QED
    BY <1>1, <2>1, <2>4, <2>6 DEF PosInv, CallPos, ModeInv, Positions
<1>5. CASE PatchLastPage
  <2>1. /\ WriteAt(PatchWrite) /\ CommitAt("delete", job.path)
        /\ wcat' = [wcat EXCEPT ![job.path] = IF job.soft THEN Marked(old) ELSE NoEntry]
        /\ rcat' = rcat /\ mode' = mode
        /\ catalog_offset' = catalog_offset /\ next_page_id' = next_page_id
    BY <1>3, <1>5 DEF PatchLastPage, Marked, old, Catalog
  <2>2. disk_len' \in Nat /\ disk' \in [Cells' -> Cell] /\ file_size' \in Nat
    BY <1>1, <2>1, WholeWrite
  <2>3. /\ append_pos' = catalog_offset /\ pc' = "write_catalog"
        /\ job' = [call |-> "delete", path |-> job.path]
    BY <2>1 DEF CommitAt
  <2>4. Marked(old) \in Entry
    BY <1>3 DEF Marked, Entry
  <2>5. wcat' \in Catalog
    BY <1>1, <1>3, <2>1, <2>4 DEF Catalog
  <2>6. job' \in CatalogJob
    BY <1>3, <2>3 DEF CatalogJob
  <2>7. TypeOK'
    BY <1>1, <2>1, <2>2, <2>3, <2>5, <2>6 DEF PosInv, CallPos, TypeOK, JobOK
  <2> QED
    BY <1>1, <2>1, <2>3, <2>7 DEF PosInv, CallPos, ModeInv, LoopInv, Positions
<1>6. CASE PatchFails
  <2> PICK m \in 0 .. PatchWrite.len - 1 :
         /\ Transfer(PatchWrite, m)
         /\ file_size' = IF m = 0 THEN file_size ELSE Larger(file_size, PatchWrite.at + 1)
    BY <1>6 DEF PatchFails
  <2>1. /\ Return("io_error") /\ append_pos' = append_pos
        /\ UNCHANGED <<wcat, rcat, catalog_offset, next_page_id>>
    BY <1>6 DEF PatchFails, memory
  <2>2. file_size' \in Nat
    BY <1>1, <1>2 DEF Larger
  <2>3. m \in 0 .. Pending.len /\ Transfer(Pending, m)
    BY <1>1, <1>2
  <2>4. next_page_id' \in Nat
    BY <2>1 DEF PosInv, CallPos, TypeOK
  <2> QED
    BY <1>1, <2>1, <2>2, <2>3, <2>4, PendingTyped, ReturnPos
<1> QED
  BY <1>4, <1>5, <1>6

\* Writing catalog and footer, cutting the file and reading it again, with
\* all ways to fail.
LEMMA CommitPos ==
  ASSUME PosInv,
         \/ WriteCatalog \/ WriteFooter \/ WriteLastFooter \/ Truncate \/ Reload
         \/ CommitFails \/ CloseFails \/ TruncateFails \/ ReloadFails
  PROVE  CallPos'
<1>1. /\ append_pos \in Nat /\ catalog_offset \in Nat /\ file_size \in Nat /\ disk_len \in Nat
      /\ disk \in [Cells -> Cell] /\ wcat \in Catalog /\ rcat \in Catalog
      /\ next_page_id \in Nat
      /\ mode = "opened" => catalog_offset <= append_pos
      /\ mode = "opened" /\ pc \in {"write_footer", "truncate", "reload"} =>
           catalog_offset <= job.offset
  BY DEF PosInv, CallPos, TypeOK, Positions
<1>2. ASSUME pc = "write_catalog"
      PROVE  /\ Pending = CatalogWrite /\ Pending.at = append_pos
             /\ Pending.len \in Nat \ {0} /\ job \in CatalogJob
  BY <1>2, CatalogImage, CatalogSizeType
  DEF Pending, PosInv, CallPos, TypeOK, JobOK
<1>3. ASSUME pc = "write_footer"
      PROVE  /\ Pending = FooterWrite /\ Pending.at = append_pos /\ Pending.len = 1
             /\ job \in FooterJob /\ job.offset \in Nat
  BY <1>3, FooterImage DEF Pending, PosInv, CallPos, TypeOK, JobOK
<1>4. CASE WriteCatalog
  <2>1. /\ pc = "write_catalog" /\ AppendWrite(CatalogWrite) /\ pc' = "write_footer"
        /\ job' = IF job.call = "close" THEN [call |-> "close", offset |-> append_pos]
                  ELSE [call |-> job.call, path |-> job.path, offset |-> append_pos]
        /\ mode' = mode
        /\ UNCHANGED <<wcat, rcat, catalog_offset, next_page_id>>
    BY <1>4 DEF WriteCatalog, memory
  <2>2. WriteAt(CatalogWrite) /\ append_pos' = append_pos + Pending.len
    BY <1>2, <2>1 DEF AppendWrite
  <2>3. disk_len' \in Nat /\ disk' \in [Cells' -> Cell] /\ file_size' \in Nat
    BY <1>2, <2>1, <2>2, WholeWrite
  <2>4. append_pos' \in Nat /\ append_pos <= append_pos'
    BY <1>1, <1>2, <2>1, <2>2
  <2>5. job' \in FooterJob /\ job'.offset = append_pos
        /\ (job.call = "close" => job'.call = "close")
    BY <1>1, <1>2, <2>1 DEF CatalogJob, FooterJob, CommitJob
  <2>6. TypeOK'
    BY <1>1, <2>1, <2>3, <2>4, <2>5 DEF PosInv, CallPos, TypeOK, JobOK
  <2>7. ModeInv' /\ LoopInv'
    BY <2>1, <2>5 DEF PosInv, CallPos, ModeInv, LoopInv
  <2>8. mode = "opened" => catalog_offset <= append_pos'
    BY <1>1, <2>4
  <2>9. Positions'
    BY <1>1, <2>1, <2>4, <2>5, <2>8 DEF PosInv, CallPos, Positions
  <2> QED
    BY <2>6, <2>7, <2>9 DEF CallPos
<1>5. CASE WriteFooter
  <2>1. /\ pc = "write_footer" /\ AppendWrite(FooterWrite) /\ pc' = "truncate"
        /\ job.call # "close" /\ job' = job /\ mode' = mode
        /\ UNCHANGED <<wcat, rcat, catalog_offset, next_page_id>>
    BY <1>5 DEF WriteFooter, memory
  <2>2. WriteAt(FooterWrite) /\ append_pos' = append_pos + 1
    BY <1>3, <2>1 DEF AppendWrite
  <2>3. /\ disk_len' \in Nat /\ disk' \in [Cells' -> Cell] /\ file_size' \in Nat
        /\ append_pos + 1 <= disk_len'
    BY <1>3, <2>1, <2>2, WholeWrite
  <2>4. job \in CommitJob
    BY <1>3, <2>1 DEF FooterJob
  <2>5. job.offset <= append_pos
    BY <2>1 DEF PosInv, CallPos, Positions
  <2>6. TypeOK'
    BY <1>1, <2>1, <2>2, <2>3, <2>4 DEF PosInv, CallPos, TypeOK, JobOK
  <2>7. ModeInv' /\ LoopInv'
    BY <2>1 DEF PosInv, CallPos, ModeInv, LoopInv
  <2>8. /\ mode = "opened" => catalog_offset <= append_pos'
        /\ job.offset < append_pos' /\ append_pos' <= disk_len'
    BY <1>1, <1>3, <2>1, <2>2, <2>3, <2>5
  <2>9. Positions'
    BY <1>1, <2>1, <2>8 DEF PosInv, CallPos, Positions
  <2> QED
    BY <2>6, <2>7, <2>9 DEF CallPos
<1>6. CASE WriteLastFooter
  <2>1. pc = "write_footer" /\ Transfer(FooterWrite, 1) /\ Release
    BY <1>6 DEF WriteLastFooter
  <2>2. 1 \in 0 .. Pending.len /\ Transfer(Pending, 1)
    BY <1>3, <2>1
  <2> QED
    BY <2>1, <2>2, PendingTyped, ReleasePos
<1>7. CASE Truncate
  <2>1. /\ pc = "truncate" /\ pc' = "reload" /\ job' = job /\ mode' = mode
        /\ disk' = [i \in 0 .. append_pos - 1 |-> disk[i]]
        /\ disk_len' = append_pos /\ file_size' = append_pos /\ append_pos' = append_pos
        /\ catalog_offset' = job.offset
        /\ UNCHANGED <<wcat, rcat, next_page_id>>
    BY <1>7 DEF Truncate
  <2>2. /\ job \in CommitJob /\ job.offset \in Nat
        /\ job.offset < append_pos /\ append_pos <= disk_len
    BY <2>1 DEF PosInv, CallPos, TypeOK, JobOK, CommitJob, Positions
  <2>3. disk' \in [Cells' -> Cell]
    <3>1. 0 .. append_pos - 1 \subseteq Cells /\ Cells' = 0 .. append_pos - 1
      BY <1>1, <2>1, <2>2 DEF Cells
    <3> QED
      BY <1>1, <2>1, <3>1
  <2>4. TypeOK'
    BY <1>1, <2>1, <2>2, <2>3 DEF PosInv, CallPos, TypeOK, JobOK
  <2> QED
    BY <1>1, <2>1, <2>2, <2>4 DEF PosInv, CallPos, ModeInv, LoopInv, Positions
<1>8. CASE Reload
  <2>1. /\ pc = "reload" /\ CatalogReadable /\ pc' = "idle" /\ job' = NoJob /\ mode' = mode
        /\ file_size' = disk_len /\ rcat' = DiskCatalog
        /\ UNCHANGED <<disk, disk_len, append_pos, wcat, catalog_offset, next_page_id>>
    BY <1>8 DEF Reload
  <2>2. DiskCatalog \in Catalog
    BY <2>1, ReadableCatalog DEF PosInv, CallPos
  <2>3. TypeOK'
    BY <1>1, <2>1, <2>2 DEF PosInv, CallPos, TypeOK, JobOK, Cells
  <2>4. mode = "opened"
    BY <2>1 DEF PosInv, CallPos, ModeInv, TypeOK
  <2> QED
    BY <1>1, <2>1, <2>3, <2>4 DEF PosInv, CallPos, ModeInv, LoopInv, Positions
<1>9. ASSUME Return("io_error"), UNCHANGED <<wcat, rcat, catalog_offset, next_page_id>>,
             append_pos' \in Nat, append_pos <= append_pos', file_size' \in Nat,
             disk_len' \in Nat, disk' \in [Cells' -> Cell]
      PROVE  CallPos'
  BY <1>1, <1>9, ReturnPos
<1>10. CASE CommitFails
  <2>1. /\ CatalogFails /\ Return("io_error")
        /\ UNCHANGED <<wcat, rcat, catalog_offset, next_page_id>>
    BY <1>10 DEF CommitFails, memory
  <2>2. CASE pc = "write_catalog" /\ UNCHANGED <<append_pos, file_size>>
             /\ \E m \in 0 .. CatalogWrite.len - 1 : Transfer(CatalogWrite, m)
    <3>1. PICK m \in 0 .. CatalogWrite.len - 1 : Transfer(CatalogWrite, m)
      BY <2>2
    <3>2. m \in 0 .. Pending.len /\ Transfer(Pending, m)
      BY <1>2, <2>2, <3>1
    <3> QED
      BY <1>1, <1>9, <2>1, <2>2, <3>2, PendingTyped
  <2>3. CASE pc = "write_footer" /\ UNCHANGED <<append_pos, file_size>>
             /\ Transfer(FooterWrite, 0)
    <3>1. 0 \in 0 .. Pending.len /\ Transfer(Pending, 0)
      BY <1>3, <2>3
    <3> QED
      BY <1>1, <1>9, <2>1, <2>3, <3>1, PendingTyped
  <2>4. CASE pc = "write_footer" /\ AppendWrite(FooterWrite)
    <3>1. WriteAt(FooterWrite) /\ append_pos' = append_pos + 1
      BY <1>3, <2>4 DEF AppendWrite
    <3>2. disk_len' \in Nat /\ disk' \in [Cells' -> Cell] /\ file_size' \in Nat
      BY <1>3, <2>4, <3>1, WholeWrite
    <3> QED
      BY <1>1, <1>9, <2>1, <3>1, <3>2
  <2> QED
    BY <2>1, <2>2, <2>3, <2>4 DEF CatalogFails, FlushFails
<1>11. CASE CloseFails
  <2>1. Release
    BY <1>11 DEF CloseFails
  <2>2. CASE pc = "write_catalog" /\ \E m \in 0 .. CatalogWrite.len - 1 : Transfer(CatalogWrite, m)
    <3>1. PICK m \in 0 .. CatalogWrite.len - 1 : Transfer(CatalogWrite, m)
      BY <2>2
    <3>2. m \in 0 .. Pending.len /\ Transfer(Pending, m)
      BY <1>2, <2>2, <3>1
    <3> QED
      BY <2>1, <3>2, PendingTyped, ReleasePos
  <2>3. CASE pc = "write_footer" /\ \E m \in {0, 1} : Transfer(FooterWrite, m)
    <3>1. PICK m \in {0, 1} : Transfer(FooterWrite, m)
      BY <2>3
    <3>2. m \in 0 .. Pending.len /\ Transfer(Pending, m)
      BY <1>3, <2>3, <3>1
    <3> QED
      BY <2>1, <3>2, PendingTyped, ReleasePos
  <2> QED
    BY <1>11, <2>2, <2>3 DEF CloseFails
<1>12. CASE TruncateFails
  <2>1. /\ Return("io_error")
        /\ UNCHANGED <<wcat, rcat, catalog_offset, next_page_id, disk, disk_len,
                       file_size, append_pos>>
    BY <1>12 DEF TruncateFails, memory, io
  <2>2. Cells' = Cells
    BY <2>1 DEF Cells
  <2> QED
    BY <1>1, <1>9, <2>1, <2>2
<1>13. CASE ReloadFails
  <2>1. /\ Return("io_error") /\ file_size' = disk_len
        /\ UNCHANGED <<wcat, rcat, catalog_offset, next_page_id, disk, disk_len,
                       append_pos>>
    BY <1>13 DEF ReloadFails, memory
  <2>2. Cells' = Cells
    BY <2>1 DEF Cells
  <2> QED
    BY <1>1, <1>9, <2>1, <2>2
<1> QED
  BY <1>4, <1>5, <1>6, <1>7, <1>8, <1>10, <1>11, <1>12, <1>13

\* The process is killed.
LEMMA KillPos ==
  ASSUME PosInv, Kill
  PROVE  CallPos'
<1>1. Release /\ \E m \in 0 .. Pending.len : Transfer(Pending, m)
  BY DEF Kill
<1> QED
  BY <1>1, PendingTyped, ReleasePos

\* The history variables.
LEMMA HistoryTyped ==
  ASSUME PosInv, FaultNext \/ UNCHANGED faultVars
  PROVE  faults' \in 0 .. MaxFaults /\ kept' \in Catalog /\ resumable' \subseteq Catalog
<1>1. /\ faults \in 0 .. MaxFaults /\ kept \in Catalog /\ resumable \subseteq Catalog
      /\ rcat \in Catalog /\ wcat \in Catalog /\ EmptyCatalog \in Catalog
  BY NoFilesSafe DEF PosInv, FaultTypeOK, TypeOK
<1>2. CASE NoFault
  <2>1. NotZeroed(kept) \in Catalog
    BY <1>1 DEF NotZeroed, Catalog
  <2> QED
    BY <1>1, <1>2, <2>1 DEF NoFault
<1>3. ASSUME Fault, KeepListed PROVE faults' \in 0 .. MaxFaults /\ kept' \in Catalog
  <2>1. faults' \in 0 .. MaxFaults
    BY <1>1, <1>3, MaxFaultsAssumption DEF Fault
  <2>2. Listed \in Catalog
    BY <1>1 DEF Listed, Catalog
  <2> QED
    BY <1>1, <1>3, <2>1, <2>2 DEF KeepListed
<1>4. CASE Failure
  BY <1>1, <1>3, <1>4 DEF Failure
<1>5. CASE Kill
  BY <1>1, <1>3, <1>5 DEF Kill
<1>6. CASE UNCHANGED faultVars
  BY <1>1, <1>6 DEF faultVars
<1>7. CASE OpenMixed
  BY <1>1, <1>7 DEF OpenMixed
<1> QED
  BY <1>2, <1>3, <1>4, <1>5, <1>6, <1>7 DEF FaultNext

LEMMA NextPos ==
  PosInv /\ [FaultNext]_faultVars => PosInv'
<1> SUFFICES ASSUME PosInv, FaultNext \/ UNCHANGED faultVars PROVE PosInv'
  OBVIOUS
<1>1. CallPos'
  <2>1. CASE NoFault
    BY <2>1, SessionPos, StartPos, PagePos, PatchPos, CommitPos
    DEF NoFault, Next, Call, Step
  <2>2. CASE Failure
    BY <2>2, PagePos, PatchPos, CommitPos DEF Failure
  <2>3. CASE Kill
    BY <2>3, KillPos
  <2>4. CASE UNCHANGED faultVars
    <3>1. UNCHANGED vars
      BY <2>4 DEF faultVars, vars
    <3> QED
      BY <3>1, SessionPos
  <2>5. CASE OpenMixed
    BY <2>5, SessionPos
  <2> QED
    BY <2>1, <2>2, <2>3, <2>4, <2>5 DEF FaultNext
<1>2. faults' \in 0 .. MaxFaults /\ kept' \in Catalog /\ resumable' \subseteq Catalog
  BY HistoryTyped
<1> QED
  BY <1>1, <1>2 DEF PosInv, FaultTypeOK, CallPos
-----------------------------------------------------------------------------
(* The catalogs in memory.                                                  *)

\* A catalog that gets an entry whose pages are those of a file of base, or
\* clear of them, or loses an entry.
LEMMA RelatedPut ==
  ASSUME NEW cat \in Catalog, NEW base, Related(cat, base), NEW p \in Path, NEW e,
         e # NoEntry => \A q \in Entries(base) :
           e.pages = base[q].pages \/ AllClear(e.pages, base[q].pages)
  PROVE  Related([cat EXCEPT ![p] = e], base)
<1> DEFINE new == [cat EXCEPT ![p] = e]
<1>1. new[p] = e /\ \A q \in Path : q # p => new[q] = cat[q]
  BY DEF Catalog
<1> HIDE DEF new
<1>2. Related(new, base)
  BY <1>1 DEF Related, Entries
<1> QED
  BY <1>2 DEF new

\* A footer at the end of the file leads behind files that are safe.
LEMMA FooterSafe ==
  ASSUME disk_len \in Nat, disk_len >= 2, disk[disk_len - 1].kind = "footer",
         FooterOffset \in Nat, NEW base, FilesSafe(disk, disk_len, base)
  PROVE  PagesBelow(base, FooterOffset)
<1>1. disk_len \in Nat /\ disk_len >= 2 /\ disk[disk_len - 1].kind = "footer"
  OBVIOUS
<1>2. SafeCell(disk[disk_len - 1], disk_len - 1, base)
  BY <1>1 DEF FilesSafe
<1>3. ASSUME NEW p \in Entries(base), NEW n \in DOMAIN base[p].pages
      PROVE  End(base[p].pages[n]) <= FooterOffset
  <2> DEFINE page == base[p].pages[n]
  <2>1. page.offset \in Nat /\ page.size \in Nat /\ End(page) = page.offset + 1 + page.size
    BY PageRefsOf, PageRefFields DEF FilesSafe, End
  <2>2. End(page) <= disk_len /\ PageStored(disk, base[p], n)
    BY <2>1 DEF FilesSafe, PagesBelow
  <2>3. disk[page.offset].kind = "page"
        /\ \A k \in 1 .. page.size : disk[page.offset + k].kind = "data"
    <3>1. \A k : Data(base[p].content, n, k).kind = "data"
      BY DEF Data
    <3>2. disk[page.offset].kind = "page"
          /\ \A k \in 1 .. page.size : disk[page.offset + k] = Data(base[p].content, n, k)
      BY <2>2 DEF PageStored
    <3> QED
      BY <3>1, <3>2
  <2> HIDE DEF page
  <2>4. End(page) # disk_len
    <3> SUFFICES ASSUME End(page) = disk_len PROVE FALSE
      OBVIOUS
    <3>1. CASE page.size = 0
      BY <1>1, <2>1, <2>3, <3>1
    <3>2. CASE page.size # 0
      <4>1. page.size \in 1 .. page.size /\ page.offset + page.size = disk_len - 1
        BY <2>1, <3>2
      <4> QED
        BY <1>1, <2>3, <4>1
    <3> QED
      BY <3>1, <3>2
  <2>5. End(page) <= disk_len - 1
    BY <1>1, <2>1, <2>2, <2>4 DEF page
  <2> QED
    BY <1>1, <1>2, <2>5 DEF SafeCell, FooterOffset, page
<1> QED
  BY <1>3 DEF PagesBelow, End

\* A catalog that a reader accepts shares no cells with files that are safe,
\* and is behind them.
LEMMA ReadSafe ==
  ASSUME TypeOK, CatalogReadable, NEW base, FilesSafe(disk, disk_len, base)
  PROVE  Related(DiskCatalog, base) /\ PagesBelow(base, FooterOffset)
<1>1. /\ DiskCatalog \in Catalog /\ FooterOffset \in Nat /\ FooterOffset < disk_len
      /\ disk_len \in Nat /\ disk_len >= 2
      /\ disk[disk_len - 1].kind = "footer" /\ disk[FooterOffset].kind = "catalog"
  BY ReadableCatalog DEF TypeOK, CatalogReadable, FooterOffset
<1>2. SafeCell(disk[FooterOffset], FooterOffset, base)
  BY <1>1 DEF FilesSafe
<1>3. Related(DiskCatalog, base)
  BY <1>1, <1>2 DEF SafeCell, DiskCatalog
<1> QED
  BY <1>1, <1>3, FooterSafe

\* Nor does a mixture of catalogs.
LEMMA MixSafe ==
  ASSUME TypeOK, MixReadable, NEW base, FilesSafe(disk, disk_len, base)
  PROVE  Related(MixedCatalog, base) /\ PagesBelow(base, FooterOffset)
<1>1. PagesBelow(base, FooterOffset)
  BY MixFooter, FooterSafe DEF TypeOK
<1>2. ASSUME NEW p \in Entries(MixedCatalog), NEW q \in Entries(base)
      PROVE  \/ MixedCatalog[p].pages = base[q].pages
             \/ AllClear(MixedCatalog[p].pages, base[q].pages)
  <2>1. p \in Path /\ MixedCatalog[p] # NoEntry
    BY DEF Entries
  <2>2. PICK i \in Cells : /\ disk[i].kind = "catalog" /\ disk[i].catalog[p] # NoEntry
                           /\ MixedCatalog[p] = disk[i].catalog[p]
    BY <2>1, MixFrom
  <2>3. SafeCell(disk[i], i, base)
    BY DEF FilesSafe, Cells
  <2>4. p \in Entries(disk[i].catalog)
    BY <2>1, <2>2 DEF Entries
  <2> QED
    BY <2>2, <2>3, <2>4 DEF SafeCell, Related
<1> QED
  BY <1>1, <1>2 DEF Related

\* A step of a call in an open archive, or of its opening, that neither
\* damages a file of base nor forgets where it is.
LEMMA DiskSafe ==
  ASSUME PosInv, NEW base, FirmInv(base), mode = "opened",
         FaultNext \/ UNCHANGED faultVars
  PROVE  FilesSafe(disk', disk_len', base)
<1>1. FilesSafe(disk, disk_len, base)
  BY DEF FirmInv
<1>2. ASSUME disk' = disk, disk_len' = disk_len PROVE FilesSafe(disk', disk_len', base)
  BY <1>1, <1>2
<1>3. ASSUME NEW m \in 0 .. Pending.len, Transfer(Pending, m)
      PROVE  FilesSafe(disk', disk_len', base)
  BY <1>3, PendingIsSafe
<1>4. ASSUME NEW w, w = Pending, WriteAt(w) PROVE FilesSafe(disk', disk_len', base)
  BY <1>3, <1>4, WholeWrite
<1>5. CASE UNCHANGED faultVars
  BY <1>2, <1>5 DEF faultVars
<1>6. CASE Kill
  BY <1>3, <1>6 DEF Kill
<1>7. CASE NoFault
  <2>1. CASE Call
    <3>1. ~Create
      BY DEF Create
    <3>2. disk' = disk /\ disk_len' = disk_len
      BY <2>1, <3>1 DEF Call, Open, Close, AddFile, DeleteFile, RenameFile,
                        MissingFile, ExtractFile, RecoverFile, io
    <3> QED
      BY <1>2, <3>2
  <2>2. CASE WritePage \/ WriteLastPage
    <3>1. WriteAt(PageWrite) /\ Pending = PageWrite
      BY <2>2 DEF WritePage, WriteLastPage, AppendWrite, Pending
    <3> QED
      BY <1>4, <3>1
  <2>3. CASE PatchPage \/ PatchLastPage
    <3>1. WriteAt(PatchWrite) /\ Pending = PatchWrite
      BY <2>3 DEF PatchPage, PatchLastPage, Pending
    <3> QED
      BY <1>4, <3>1
  <2>4. CASE WriteCatalog
    <3>1. WriteAt(CatalogWrite) /\ Pending = CatalogWrite
      BY <2>4 DEF WriteCatalog, AppendWrite, Pending
    <3> QED
      BY <1>4, <3>1
  <2>5. CASE WriteFooter
    <3>1. WriteAt(FooterWrite) /\ Pending = FooterWrite
      BY <2>5 DEF WriteFooter, AppendWrite, Pending
    <3> QED
      BY <1>4, <3>1
  <2>6. CASE WriteLastFooter
    <3>1. pc = "write_footer" /\ Transfer(FooterWrite, 1) /\ Pending = FooterWrite
      BY <2>6 DEF WriteLastFooter, Pending
    <3>2. 1 \in 0 .. Pending.len
      BY <3>1, FooterImage
    <3> QED
      BY <1>3, <3>1, <3>2
  <2>7. CASE Truncate
    BY <2>7, TruncateIsSafe DEF Truncate
  <2>8. CASE Reload
    BY <1>2, <2>8 DEF Reload
  <2> QED
    BY <1>7, <2>1, <2>2, <2>3, <2>4, <2>5, <2>6, <2>7, <2>8 DEF NoFault, Next, Step
<1>8. CASE Failure
  <2>1. CASE PageFails
    <3>1. Pending = PageWrite /\ Pending.len \in Nat
      BY <2>1, PendingImage DEF PageFails, Pending
    <3>2. \E m \in 0 .. Pending.len - 1 : Transfer(Pending, m)
      BY <2>1, <3>1 DEF PageFails
    <3>3. 0 .. Pending.len - 1 \subseteq 0 .. Pending.len
      BY <3>1
    <3> QED
      BY <1>3, <3>2, <3>3
  <2>2. CASE PatchFails
    <3>1. Pending = PatchWrite /\ Pending.len \in Nat
      BY <2>2, PendingImage DEF PatchFails, Pending
    <3>2. \E m \in 0 .. Pending.len - 1 : Transfer(Pending, m)
      BY <2>2, <3>1 DEF PatchFails
    <3>3. 0 .. Pending.len - 1 \subseteq 0 .. Pending.len
      BY <3>1
    <3> QED
      BY <1>3, <3>2, <3>3
  <2>3. ASSUME pc = "write_catalog", \E m \in 0 .. CatalogWrite.len - 1 : Transfer(CatalogWrite, m)
        PROVE  FilesSafe(disk', disk_len', base)
    <3>1. Pending = CatalogWrite /\ Pending.len \in Nat
      BY <2>3, PendingImage DEF Pending
    <3>2. 0 .. Pending.len - 1 \subseteq 0 .. Pending.len
      BY <3>1
    <3> QED
      BY <1>3, <2>3, <3>1, <3>2
  <2>4. ASSUME pc = "write_footer", NEW m \in {0, 1}, Transfer(FooterWrite, m)
        PROVE  FilesSafe(disk', disk_len', base)
    <3>1. Pending = FooterWrite /\ m \in 0 .. Pending.len
      BY <2>4, FooterImage DEF Pending
    <3> QED
      BY <1>3, <2>4, <3>1
  <2>5. CASE CommitFails
    <3>1. CASE FlushFails
      <4>1. WriteAt(FooterWrite) /\ Pending = FooterWrite
        BY <3>1 DEF FlushFails, AppendWrite, Pending
      <4> QED
        BY <1>4, <4>1
    <3> QED
      BY <2>3, <2>4, <2>5, <3>1 DEF CommitFails, CatalogFails
  <2>6. CASE CloseFails
    BY <2>3, <2>4, <2>6 DEF CloseFails
  <2>7. CASE TruncateFails \/ ReloadFails
    BY <1>2, <2>7 DEF TruncateFails, ReloadFails, io
  <2> QED
    BY <1>8, <2>1, <2>2, <2>5, <2>6, <2>7 DEF Failure
<1>9. CASE OpenMixed
  BY <1>2, <1>9 DEF OpenMixed
<1> QED
  BY <1>5, <1>6, <1>7, <1>8, <1>9 DEF FaultNext

\* The catalogs that a step leaves in memory share no cells with the files of
\* base, and the next call will start behind these.
LEMMA MemorySafe ==
  ASSUME PosInv, NEW base, FirmInv(base), ~Create,
         FaultNext \/ UNCHANGED faultVars
  PROVE  /\ Related(wcat', base) /\ Related(rcat', base)
         /\ mode' = "opened" => PagesBelow(base, catalog_offset')
<1>1. /\ FilesSafe(disk, disk_len, base) /\ base \in Catalog
      /\ Related(wcat, base) /\ Related(rcat, base)
      /\ mode = "opened" => PagesBelow(base, catalog_offset)
      /\ TypeOK /\ wcat \in Catalog /\ rcat \in Catalog
  BY DEF FirmInv, FilesSafe, PosInv, CallPos, TypeOK
<1>2. CASE UNCHANGED <<wcat, rcat, catalog_offset, mode>>
  BY <1>1, <1>2
<1>3. CASE wcat' = EmptyCatalog /\ rcat' = EmptyCatalog /\ mode' = "closed"
  BY <1>3 DEF Related, EmptyCatalog, Entries
<1>4. CASE UNCHANGED faultVars
  BY <1>2, <1>4 DEF faultVars
<1>5. CASE Kill
  BY <1>3, <1>5 DEF Kill, Release
<1>6. CASE Failure
  BY <1>2, <1>3, <1>6 DEF Failure, PageFails, PatchFails, CommitFails, CloseFails,
    TruncateFails, ReloadFails, Return, Release, memory
<1>7. CASE Open
  <2>1. Related(DiskCatalog, base) /\ PagesBelow(base, FooterOffset)
    BY <1>1, <1>7, ReadSafe DEF Open
  <2> QED
    BY <1>7, <2>1 DEF Open
<1>8. CASE Call /\ ~Open
  <2>1. CASE \E p, q \in Path : RenameFile(p, q)
    <3> PICK p \in Path, q \in Path : RenameFile(p, q)
      BY <2>1
    <3>1. /\ wcat' = [wcat EXCEPT ![p] = NoEntry, ![q] = rcat[p]] /\ rcat[p] # NoEntry
          /\ rcat' = rcat /\ mode' = mode /\ catalog_offset' = catalog_offset
      BY DEF RenameFile
    <3> DEFINE without == [wcat EXCEPT ![p] = NoEntry]
    <3>2. without \in Catalog /\ Related(without, base)
      BY <1>1, RelatedPut DEF Catalog
    <3>3. wcat' = [without EXCEPT ![q] = rcat[p]]
      BY <3>1
    <3>4. \A r \in Entries(base) :
            rcat[p].pages = base[r].pages \/ AllClear(rcat[p].pages, base[r].pages)
      BY <1>1, <3>1 DEF Related, Entries
    <3> HIDE DEF without
    <3>5. Related(wcat', base)
      BY <3>2, <3>3, <3>4, RelatedPut
    <3> QED
      BY <1>1, <3>1, <3>5
  <2>2. CASE ~(\E p, q \in Path : RenameFile(p, q))
    <3>1. UNCHANGED <<wcat, rcat, catalog_offset, mode>>
      BY <1>8, <2>2 DEF Call, Close, AddFile, DeleteFile, MissingFile, ExtractFile,
        RecoverFile, memory
    <3> QED
      BY <1>2, <3>1
  <2> QED
    BY <2>1, <2>2
<1>9. CASE WriteLastPage
  <2>1. /\ wcat' = [wcat EXCEPT ![job.path] = NewEntry(job.content, PagesWritten)]
        /\ rcat' = rcat /\ mode' = mode /\ catalog_offset' = catalog_offset
        /\ pc = "write_page" /\ mode \in {"opened", "created"} /\ job.path \in Path
        /\ job.pages \in Seq(PageRef) /\ append_pos \in Nat /\ catalog_offset \in Nat
        /\ mode = "opened" => catalog_offset <= append_pos
        /\ mode = "opened" => \A i \in DOMAIN job.pages : catalog_offset <= job.pages[i].offset
    BY <1>9 DEF WriteLastPage, NewEntry, PosInv, CallPos, TypeOK, JobOK, AddJob, Positions
  <2>2. CASE mode = "created"
    <3>1. base = EmptyCatalog
      BY <2>2 DEF FirmInv
    <3> QED
      BY <2>1, <2>2, <3>1, NoFilesSafe
  <2>3. CASE mode = "opened"
    <3> DEFINE page == [id |-> next_page_id, offset |-> append_pos,
                        size |-> Payload[job.content][Len(job.pages) + 1]]
    <3>1. PagesWritten = Append(job.pages, page) /\ page.offset = append_pos
      BY DEF PagesWritten
    <3> HIDE DEF page
    <3>2. \A i \in DOMAIN PagesWritten : PagesWritten[i] = page \/
            (i \in DOMAIN job.pages /\ PagesWritten[i] = job.pages[i])
      BY <2>1, <3>1
    <3>3. \A i \in DOMAIN PagesWritten : catalog_offset <= PagesWritten[i].offset
      BY <2>1, <2>3, <3>1, <3>2
    <3>4. ASSUME NEW q \in Entries(base), NEW i \in DOMAIN PagesWritten,
                 NEW n \in DOMAIN base[q].pages
          PROVE  Clear(PagesWritten[i], base[q].pages[n])
      <4>1. End(base[q].pages[n]) <= catalog_offset
        BY <1>1, <2>3 DEF PagesBelow, End
      <4>2. /\ base[q].pages[n].offset \in Nat /\ base[q].pages[n].size \in Nat
        BY <1>1, PageRefsOf, PageRefFields
      <4>3. PagesWritten[i].offset \in Nat
        BY <2>1, <3>1, <3>2, PageRefFields
      <4> QED
        BY <2>1, <3>3, <4>1, <4>2, <4>3 DEF Clear, End
    <3>5. \A q \in Entries(base) :
            AllClear(NewEntry(job.content, PagesWritten).pages, base[q].pages)
      BY <3>4 DEF AllClear, NewEntry
    <3>6. Related(wcat', base)
      BY <1>1, <2>1, <3>5, RelatedPut
    <3> QED
      BY <1>1, <2>1, <3>6
  <2> QED
    BY <2>1, <2>2, <2>3
<1>10. CASE PatchLastPage
  <2> DEFINE old == wcat[job.path]
             new == IF job.soft THEN Marked(old) ELSE NoEntry
  <2>1. /\ pc = "patch_page" /\ job.path \in Entries(wcat)
        /\ rcat' = rcat /\ mode' = mode /\ catalog_offset' = catalog_offset
    BY <1>10, PatchImage DEF PatchLastPage
  <2>2. wcat' = [wcat EXCEPT ![job.path] = new]
    BY <1>1, <1>10, <2>1 DEF PatchLastPage, Marked, Catalog, Entries
  <2>3. old \in Entry
    BY <1>1, <2>1 DEF Catalog, Entries
  <2>4. new # NoEntry => new.pages = old.pages
    BY <2>3 DEF Marked, Entry
  <2>5. \A q \in Entries(base) :
          old.pages = base[q].pages \/ AllClear(old.pages, base[q].pages)
    BY <1>1, <2>1 DEF Related
  <2> HIDE DEF old, new
  <2>6. job.path \in Path
    BY <2>1 DEF Entries
  <2>7. Related(wcat', base)
    BY <1>1, <2>2, <2>4, <2>5, <2>6, RelatedPut
  <2> QED
    BY <1>1, <2>1, <2>7
<1>11. CASE Truncate
  <2>1. /\ pc = "truncate" /\ mode' = mode /\ wcat' = wcat /\ rcat' = rcat
        /\ catalog_offset' = job.offset
    BY <1>11 DEF Truncate
  <2>2. ASSUME mode = "opened" PROVE PagesBelow(base, job.offset)
    <3>1. catalog_offset \in Nat /\ job.offset \in Nat /\ catalog_offset <= job.offset
      BY <2>1, <2>2 DEF PosInv, CallPos, TypeOK, JobOK, CommitJob, Positions
    <3> QED
      BY <1>1, <2>2, <3>1, PagesBelowLater
  <2> QED
    BY <1>1, <2>1, <2>2
<1>12. CASE Reload
  <2>1. Related(DiskCatalog, base)
    BY <1>1, <1>12, ReadSafe DEF Reload
  <2> QED
    BY <1>1, <1>12, <2>1 DEF Reload
<1>13. CASE WriteLastFooter
  BY <1>3, <1>13 DEF WriteLastFooter, Release
<1>14. CASE WritePage \/ PatchPage \/ WriteCatalog \/ WriteFooter
  BY <1>2, <1>14 DEF WritePage, PatchPage, WriteCatalog, WriteFooter, memory
<1>15. CASE NoFault
  BY <1>7, <1>8, <1>9, <1>10, <1>11, <1>12, <1>13, <1>14, <1>15 DEF NoFault, Next, Step
<1>16. CASE OpenMixed
  <2>1. Related(MixedCatalog, base) /\ PagesBelow(base, FooterOffset)
    BY <1>1, <1>16, MixSafe DEF OpenMixed
  <2> QED
    BY <1>16, <2>1 DEF OpenMixed
<1> QED
  BY <1>4, <1>5, <1>6, <1>15, <1>16 DEF FaultNext
-----------------------------------------------------------------------------
(* The files that are safe: none is added but by a commit.                  *)

\* A hard delete that has begun to zero a file stays one until it commits.
LEMMA ListedShrinks ==
  ASSUME PosInv, mode = "opened", mode' = "opened", Next, ~Reload
  PROVE  Part(Listed', Listed)
<1>1. rcat' = rcat
  BY DEF Next, Call, Create, Open, Close, AddFile, DeleteFile, RenameFile, MissingFile,
    ExtractFile, RecoverFile, Step, WritePage, WriteLastPage, PatchPage, PatchLastPage,
    WriteCatalog, WriteFooter, WriteLastFooter, Release, Truncate, memory
<1>2. ASSUME \A p \in Path : HardDeleting(p) => HardDeleting(p)'
      PROVE  Part(Listed', Listed)
  <2> SUFFICES ASSUME NEW p \in Entries(Listed')
               PROVE  p \in Entries(Listed) /\ Listed'[p] = Listed[p]
    BY DEF Part
  <2>1. p \in Path /\ Listed'[p] # NoEntry
    BY DEF Entries
  <2>2. Listed'[p] = IF HardDeleting(p)' THEN NoEntry ELSE rcat[p]
    BY <1>1, <2>1 DEF Listed
  <2>3. Listed[p] = IF HardDeleting(p) THEN NoEntry ELSE rcat[p]
    BY <2>1 DEF Listed
  <2> QED
    BY <1>2, <2>1, <2>2, <2>3 DEF Entries
<1>3. CASE pc = "idle" \/ pc = "write_page"
  <2>1. job.call # "delete"
    BY <1>3 DEF PosInv, CallPos, TypeOK, JobOK, NoJob, AddJob
  <2> QED
    BY <1>2, <2>1 DEF HardDeleting
<1>4. CASE PatchPage
  <2>1. pc = "patch_page" /\ pc' = pc /\ job' = [job EXCEPT !.n = @ + 1] /\ wcat' = wcat
    BY <1>4 DEF PatchPage, memory
  <2>2. job \in DeleteJob
    BY <2>1 DEF PosInv, CallPos, TypeOK, JobOK
  <2>3. job'.call = job.call /\ job'.path = job.path /\ job'.soft = job.soft
    BY <2>1, <2>2 DEF DeleteJob
  <2> QED
    BY <1>2, <2>1, <2>3 DEF HardDeleting
<1>5. CASE PatchLastPage
  <2>1. /\ pc = "patch_page" /\ job.path \in Path /\ wcat \in Catalog
        /\ pc' = "write_catalog" /\ job' = [call |-> "delete", path |-> job.path]
    BY <1>5 DEF PatchLastPage, CommitAt, PosInv, CallPos, TypeOK, JobOK, DeleteJob
  <2>2. ~job.soft => wcat'[job.path] = NoEntry
    BY <1>5, <2>1 DEF PatchLastPage, Catalog
  <2> QED
    BY <1>2, <2>1, <2>2 DEF HardDeleting
<1>6. CASE WriteCatalog
  <2>1. /\ pc = "write_catalog" /\ pc' = "write_footer" /\ wcat' = wcat
        /\ job.call # "close" =>
             job' = [call |-> job.call, path |-> job.path, offset |-> append_pos]
    BY <1>6 DEF WriteCatalog, memory
  <2> QED
    BY <1>2, <2>1 DEF HardDeleting
<1>7. CASE WriteFooter \/ Truncate
  <2>1. /\ pc \in {"write_footer", "truncate"} /\ pc' # "patch_page"
        /\ wcat' = wcat /\ job' = job
    BY <1>7 DEF WriteFooter, Truncate, memory
  <2> QED
    BY <1>2, <2>1 DEF HardDeleting
<1>8. ~WriteLastFooter
  BY DEF WriteLastFooter, Release
<1>9. ASSUME Call \/ WritePage \/ WriteLastPage PROVE pc = "idle" \/ pc = "write_page"
  BY <1>9 DEF Call, Create, Open, Close, AddFile, DeleteFile, RenameFile, MissingFile,
    ExtractFile, RecoverFile, WritePage, WriteLastPage
<1> QED
  BY <1>3, <1>4, <1>5, <1>6, <1>7, <1>8, <1>9 DEF Next, Step

\* The archive is closed by the end of Close alone, and what opens it or
\* creates another lists what it finds.
LEMMA FirmShrinks ==
  ASSUME PosInv, FaultNext \/ UNCHANGED faultVars,
         faults = 0 /\ NoFault => ~Reload /\ ~WriteLastFooter,
         faults = 0 => ~OpenMixed, Firm \in Catalog
  PROVE  Part(Firm', Firm) /\ Firm' \in Catalog
<1>0. /\ \A cat : Part(cat, cat)
      /\ kept' \in Catalog /\ Listed \in Catalog /\ Listed' \in Catalog
      /\ EmptyCatalog \in Catalog
  <2>1. rcat \in Catalog /\ rcat' \in Catalog /\ kept' \in Catalog
    BY NextPos DEF PosInv, FaultTypeOK, CallPos, TypeOK
  <2> QED
    BY <2>1, NoFilesSafe DEF Part, Listed, Catalog
<1>1. CASE UNCHANGED faultVars
  <2>1. Firm' = Firm
    BY <1>1 DEF faultVars, Firm, Listed, HardDeleting, DiskCatalog, FooterOffset
  <2> QED
    BY <1>0, <2>1
<1>2. CASE faults > 0 /\ FaultNext
  <2>1. faults' > 0
    BY <1>2 DEF FaultNext, NoFault, OpenMixed, Failure, Kill, Fault, PosInv, FaultTypeOK
  <2>2. Firm = kept /\ Firm' = kept'
    BY <1>2, <2>1 DEF Firm
  <2>3. kept' \in {kept, NotZeroed(kept), EmptyCatalog}
    BY <1>2 DEF FaultNext, NoFault, OpenMixed, Failure, Kill, KeepListed
  <2>4. Part(NotZeroed(kept), kept)
    BY DEF Part, NotZeroed, Entries
  <2> QED
    BY <1>0, <2>2, <2>3, <2>4, NoFilesSafe, Zenon
<1>3. CASE faults = 0 /\ (Failure \/ Kill)
  <2>1. faults' = 1 /\ kept' = Listed
    BY <1>3 DEF Failure, Kill, Fault, KeepListed
  <2>2. Firm' = Listed
    BY <2>1 DEF Firm
  <2>3. mode \in {"opened", "created"}
    BY <1>3 DEF Failure, PageFails, PatchFails, CommitFails, CatalogFails, FlushFails,
      CloseFails, TruncateFails, ReloadFails, Kill, PosInv, CallPos, TypeOK, ModeInv
  <2>4. CASE mode = "opened"
    BY <1>0, <1>3, <2>2, <2>4 DEF Firm
  <2>5. CASE mode = "created"
    <3>1. rcat = EmptyCatalog
      BY <2>5 DEF PosInv, CallPos, Positions
    <3>2. Entries(Listed) = {}
      BY <3>1 DEF Listed, EmptyCatalog, Entries
    <3> QED
      BY <1>0, <2>2, <3>2 DEF Part
  <2> QED
    BY <2>3, <2>4, <2>5
<1>4. CASE faults = 0 /\ NoFault
  <2>1. faults' = 0 /\ Next /\ ~Reload /\ ~WriteLastFooter
    BY <1>4 DEF NoFault
  <2>2. CASE mode' = "created"
    <3>1. Firm' = EmptyCatalog
      BY <2>1, <2>2 DEF Firm
    <3> QED
      BY <1>0, <3>1, NoFilesSafe
  <2>3. CASE Open
    <3>1. mode = "closed" /\ mode' = "opened" /\ rcat' = DiskCatalog
      BY <2>3 DEF Open
    <3>2. Firm = DiskCatalog /\ Firm' = Listed'
      BY <1>4, <2>1, <3>1 DEF Firm
    <3>3. ASSUME NEW p \in Entries(Listed') PROVE p \in Path /\ Listed'[p] = DiskCatalog[p]
      <4>1. p \in Path /\ Listed'[p] # NoEntry
        BY DEF Entries
      <4> QED
        BY <3>1, <4>1 DEF Listed
    <3>4. ASSUME NEW p \in Entries(Listed')
          PROVE  p \in Entries(DiskCatalog) /\ Listed'[p] = DiskCatalog[p]
      <4>1. Listed'[p] # NoEntry
        BY DEF Entries
      <4> QED
        BY <3>3, <4>1 DEF Entries
    <3> QED
      BY <1>0, <3>2, <3>4 DEF Part
  <2>4. CASE ~Open /\ mode' # "created"
    <3>1. mode = "opened" /\ mode' = "opened"
      <4>1. CASE Call
        BY <2>4, <4>1 DEF Call, Create, Close, AddFile, DeleteFile, RenameFile, MissingFile,
          ExtractFile, RecoverFile, PosInv, CallPos, TypeOK
      <4>2. CASE Step
        BY <2>1, <2>4, <4>2 DEF Step, WritePage, WriteLastPage, PatchPage, PatchLastPage,
          WriteCatalog, WriteFooter, Truncate, PosInv, CallPos, TypeOK, ModeInv
      <4> QED
        BY <2>1, <4>1, <4>2 DEF Next
    <3>2. Firm = Listed /\ Firm' = Listed'
      BY <1>4, <2>1, <3>1 DEF Firm
    <3> QED
      BY <1>0, <2>1, <3>1, <3>2, ListedShrinks
  <2> QED
    BY <2>2, <2>3, <2>4
<1> QED
  BY <1>1, <1>2, <1>3, <1>4 DEF FaultNext, PosInv, FaultTypeOK

\* Every other step keeps files safe.
LEMMA FirmKept ==
  ASSUME PosInv, FirmInv(Firm), faults = 0 => PreInv, ~Create,
         FaultNext \/ UNCHANGED faultVars,
         faults = 0 /\ NoFault => ~Reload /\ ~WriteLastFooter
  PROVE  FirmInv(Firm)'
<1>1. FilesSafe(disk, disk_len, Firm) /\ Firm \in Catalog
  BY DEF FirmInv, FilesSafe
<1>2. Part(Firm', Firm) /\ Firm' \in Catalog
  BY <1>1, FirmShrinks, MixedLater
<1>3. FilesSafe(disk', disk_len', Firm)
  <2>1. CASE mode = "opened"
    BY <2>1, DiskSafe
  <2>2. CASE mode = "created"
    <3>1. Firm = EmptyCatalog
      BY <2>2 DEF FirmInv
    <3> QED
      BY <3>1, NoFilesSafe
  <2>3. CASE mode = "closed"
    <3>1. pc = "idle"
      BY <2>3 DEF PosInv, CallPos, ModeInv
    <3>2. UNCHANGED <<disk, disk_len>>
      BY <2>3, <3>1
      DEF FaultNext, NoFault, OpenMixed, Next, Call, Open, Close, AddFile, DeleteFile, RenameFile,
        MissingFile, ExtractFile, RecoverFile, Step, WritePage, WriteLastPage, PatchPage,
        PatchLastPage, WriteCatalog, WriteFooter, WriteLastFooter, Truncate, Reload,
        Failure, PageFails, PatchFails, CommitFails, CatalogFails, FlushFails, CloseFails,
        TruncateFails, ReloadFails, Kill, faultVars
    <3> QED
      BY <1>1, <3>2
  <2> QED
    BY <2>1, <2>2, <2>3 DEF PosInv, CallPos, TypeOK
<1>4. FilesSafe(disk', disk_len', Firm')
  BY <1>2, <1>3, PartIsSafe
<1>5. /\ Related(wcat', Firm) /\ Related(rcat', Firm)
      /\ mode' = "opened" => PagesBelow(Firm, catalog_offset')
  BY MemorySafe
<1>6. /\ Related(wcat', Firm') /\ Related(rcat', Firm')
      /\ mode' = "opened" => PagesBelow(Firm', catalog_offset')
  BY <1>2, <1>5, PartIsRelated, PartIsBelow
<1>7. mode' = "created" => Firm' = EmptyCatalog
  <2> SUFFICES ASSUME mode' = "created" PROVE Firm' = EmptyCatalog
    OBVIOUS
  <2>1. mode = "created"
    <3>1. mode = mode'
      BY DEF FaultNext, NoFault, OpenMixed, Next, Call, Open, Close, AddFile, DeleteFile, RenameFile,
        MissingFile, ExtractFile, RecoverFile, Step, WritePage, WriteLastPage, PatchPage,
        PatchLastPage, WriteCatalog, WriteFooter, WriteLastFooter, Truncate, Reload,
        Failure, PageFails, PatchFails, CommitFails, CatalogFails, FlushFails, CloseFails,
        TruncateFails, ReloadFails, Kill, faultVars, Release, Return
    <3> QED
      BY <3>1
  <2>2. Entries(Firm') = {}
    BY <1>2, <2>1, NoFilesSafe DEF FirmInv, Part
  <2> QED
    BY <1>2, <2>2 DEF Entries, EmptyCatalog, Catalog
<1>8. ASSUME pc' = "patch_page", ~job'.soft, NEW p \in Entries(Firm')
      PROVE  Firm'[p].pages # wcat'[job'.path].pages
  <2>1. CASE UNCHANGED faultVars
    <3>1. Firm' = Firm
      BY <2>1 DEF faultVars, Firm, Listed, HardDeleting, DiskCatalog, FooterOffset
    <3> QED
      BY <1>8, <2>1, <3>1 DEF faultVars, FirmInv
  <2>2. CASE NoFault
    <3>1. /\ mode = "opened" /\ mode' = "opened" /\ wcat' = wcat /\ rcat' = rcat
          /\ pc = "idle" \/ PatchPage
          /\ job'.call = "delete"
          /\ wcat[job'.path] # NoEntry /\ job'.path \in Path
      <4>1. CASE PatchPage
        BY <4>1, PatchImage DEF PatchPage, memory, PosInv, CallPos, TypeOK, JobOK, ModeInv,
          DeleteJob, Entries
      <4>2. CASE \E q \in Path, soft \in BOOLEAN : DeleteFile(q, soft)
        BY <1>8, <4>2 DEF DeleteFile, CommitAt, memory
      <4>3. PatchPage \/ \E q \in Path, soft \in BOOLEAN : DeleteFile(q, soft)
        BY <1>8, <2>2
        DEF NoFault, Next, Call, Create, Open, Close, AddFile, RenameFile, CommitAt,
          MissingFile, ExtractFile, RecoverFile, Step, WritePage, WriteLastPage,
          PatchLastPage, WriteCatalog, WriteFooter, WriteLastFooter, Truncate, Reload,
          Release, PosInv, CallPos, ModeInv
      <4> QED
        BY <4>1, <4>2, <4>3
    <3>2. faults' = faults /\ kept' = NotZeroed(kept)
      BY <2>2, <3>1 DEF NoFault
    <3>3. CASE faults > 0
      <4>1. Firm' = NotZeroed(kept)
        BY <3>2, <3>3 DEF Firm
      <4>2. p \in Path /\ NotZeroed(kept)[p] # NoEntry
        BY <4>1 DEF Entries
      <4>3. NotZeroed(kept)[p] = kept[p] /\ kept[p].pages # wcat[job'.path].pages
        BY <1>8, <4>2 DEF NotZeroed
      <4> QED
        BY <3>1, <4>1, <4>3
    <3>4. CASE ~(faults > 0)
      <4>1. faults = 0 /\ Firm' = Listed'
        BY <3>1, <3>2, <3>4 DEF Firm, PosInv, FaultTypeOK
      <4>2. p \in Path /\ Listed'[p] # NoEntry
        BY <4>1 DEF Entries
      <4>3. Listed'[p] = rcat[p] /\ p # job'.path
        BY <1>8, <3>1, <4>2 DEF Listed, HardDeleting
      <4>4. wcat = rcat /\ PagesApart(wcat)
        <5>1. PreInv
          BY <4>1
        <5>2. pc = "idle" => wcat = rcat
          BY <3>1, <5>1 DEF PreInv, PInv, IInv, IdleInv
        <5>3. pc # "idle" => wcat = rcat
          BY <3>1, <5>1 DEF PreInv, CellInv, PatchPage
        <5> QED
          BY <5>1, <5>2, <5>3 DEF PreInv, PInv, ApartInv
      <4>5. p \in Entries(wcat) /\ job'.path \in Entries(wcat)
        BY <3>1, <4>2, <4>3, <4>4 DEF Entries
      <4>6. NoneShared(wcat[p].pages, wcat[job'.path].pages)
        BY <4>3, <4>4, <4>5 DEF PagesApart
      <4>7. wcat[p] \in Entry /\ 1 \in DOMAIN wcat[p].pages
        <5>1. wcat[p] \in Entry
          BY <4>5 DEF PosInv, CallPos, TypeOK, Catalog, Entries
        <5> QED
          BY <5>1 DEF Entry
      <4>8. wcat[p].pages # wcat[job'.path].pages
        BY <4>6, <4>7 DEF NoneShared, Apart
      <4> QED
        BY <3>1, <4>1, <4>3, <4>4, <4>8
    <3> QED
      BY <3>3, <3>4
  <2>3. CASE Failure \/ Kill
    BY <1>8, <2>3 DEF Failure, PageFails, PatchFails, CommitFails, CloseFails,
      TruncateFails, ReloadFails, Kill, Release, Return
  <2>4. CASE OpenMixed
    <3>1. pc = "idle" /\ pc' = pc
      BY <2>4 DEF OpenMixed, PosInv, CallPos, ModeInv
    <3> QED
      BY <1>8, <3>1
  <2> QED
    BY <2>1, <2>2, <2>3, <2>4 DEF FaultNext
<1> QED
  BY <1>4, <1>6, <1>7, <1>8 DEF FirmInv

\* A new archive has no files yet.
LEMMA FirmCreate ==
  ASSUME PosInv, Create, FaultNext
  PROVE  FirmInv(Firm)'
<1>1. mode = "closed" /\ pc = "idle" /\ mode' = "created" /\ pc' = pc
  BY DEF Create, PosInv, CallPos, ModeInv
<1>2. NoFault
  BY <1>1 DEF FaultNext, OpenMixed, Failure, PageFails, PatchFails, CommitFails, CatalogFails,
    FlushFails, CloseFails, TruncateFails, ReloadFails, Kill
<1>3. Firm' = EmptyCatalog
  BY <1>1, <1>2 DEF NoFault, Firm
<1> QED
  BY <1>1, <1>3, NoFilesSafe DEF FirmInv
-----------------------------------------------------------------------------
(* Commits.                                                                 *)

\* Files whose pages are apart are clear of each other.
LEMMA ApartIsClear ==
  ASSUME NEW cat, PagesApart(cat)
  PROVE  SelfClear(cat) /\ Related(cat, cat)
<1>1. ASSUME NEW p \in Entries(cat), NEW q \in Entries(cat),
             NEW m \in DOMAIN cat[p].pages, NEW n \in DOMAIN cat[q].pages,
             ~(p = q /\ m = n)
      PROVE  Clear(cat[p].pages[m], cat[q].pages[n])
  <2>1. Apart(cat[p].pages[m], cat[q].pages[n])
    BY <1>1 DEF PagesApart, AllApart, NoneShared
  <2> QED
    BY <2>1 DEF Apart, Clear, End
<1>2. SelfClear(cat)
  BY <1>1 DEF SelfClear
<1>3. Related(cat, cat)
  BY <1>1 DEF Related, AllClear
<1> QED
  BY <1>2, <1>3

\* A page that is on disk with the right flag is stored.
LEMMA InIsStored ==
  ASSUME NEW d, NEW cat, CatalogIn(d, cat)
  PROVE  \A p \in Entries(cat) : \A n \in DOMAIN cat[p].pages : PageStored(d, cat[p], n)
<1> SUFFICES ASSUME NEW p \in Entries(cat), NEW n \in DOMAIN cat[p].pages
             PROVE  PageStored(d, cat[p], n)
  OBVIOUS
<1>1. PageIn(d, cat[p], n)
  BY DEF CatalogIn, EntryIn
<1>2. d[cat[p].pages[n].offset].kind = "page"
      /\ d[cat[p].pages[n].offset].id = cat[p].pages[n].id
  BY <1>1 DEF PageIn, PageHeader
<1> QED
  BY <1>1, <1>2 DEF PageIn, PageStored

\* A file that ends with cat and its footer keeps the files of cat safe, if what
\* is before does.
LEMMA CommittedSafe ==
  ASSUME NEW d, NEW len, NEW off \in Nat, NEW cat \in Catalog,
         len = off + CatalogSize(cat) + 1,
         PagesApart(cat), PagesBelow(cat, off), CatalogIn(d, cat),
         \A i \in 0 .. off - 1 : SafeCell(d[i], i, cat),
         \A k \in 0 .. CatalogSize(cat) - 1 : d[off + k] = CatalogPart(cat, k),
         d[off + CatalogSize(cat)] = Footer(off, cat)
  PROVE  FilesSafe(d, len, cat)
<1> DEFINE size == CatalogSize(cat)
<1>1. size \in Nat \ {0} /\ len = off + size + 1 /\ len \in Nat
  BY CatalogSizeType
<1>2. SelfClear(cat) /\ Related(cat, cat)
  BY ApartIsClear
<1>3. \A p \in Entries(cat) : \A n \in DOMAIN cat[p].pages : PageStored(d, cat[p], n)
  BY InIsStored
<1> HIDE DEF size
<1>4. PagesBelow(cat, len)
  BY <1>1, PagesBelowLater
<1>5. ASSUME NEW i \in 0 .. len - 1 PROVE SafeCell(d[i], i, cat)
  <2>1. CASE i < off
    <3>1. i \in 0 .. off - 1
      BY <2>1
    <3> QED
      BY <3>1
  <2>2. CASE off <= i /\ i < off + size
    <3>1. i - off \in 0 .. size - 1 /\ off + (i - off) = i
      BY <1>1, <2>2
    <3>2. d[i] = CatalogPart(cat, i - off)
      BY <3>1 DEF size
    <3> QED
      BY <1>2, <3>2 DEF SafeCell, CatalogPart
  <2>3. CASE i = off + size
    <3>1. d[i] = Footer(off, cat)
      BY <2>3 DEF size
    <3> QED
      BY <3>1 DEF SafeCell, Footer, PagesBelow, End
  <2> QED
    BY <1>1, <2>1, <2>2, <2>3
<1> QED
  BY <1>2, <1>3, <1>4, <1>5 DEF FilesSafe

\* The reader has loaded the new catalog: its files are the ones that are safe.
LEMMA FirmReload ==
  ASSUME PosInv, faults = 0, PreInv, NoFault, Reload
  PROVE  FirmInv(Firm)'
<1>1. /\ pc = "reload" /\ pc' = "idle" /\ job' = NoJob /\ mode = "opened" /\ faults' = 0
      /\ rcat' = DiskCatalog
      /\ UNCHANGED <<disk, disk_len, append_pos, wcat, catalog_offset, mode>>
  BY DEF Reload, NoFault, PosInv, CallPos, ModeInv, TypeOK
<1>2. DiskCatalog = wcat /\ IInv /\ wcat \in Catalog /\ job.offset \in Nat
  BY <1>1, ReloadInv
  DEF PreInv, PInv, PosInv, CallPos, TypeOK, JobOK, CommitJob
<1>3. CatalogSize(wcat) \in Nat
  BY CatalogSizeType
<1>4. /\ FooterWritten(job.offset, wcat) /\ PagesBelow(wcat, job.offset)
      /\ disk_len = job.offset + CatalogSize(wcat) + 1 /\ catalog_offset = job.offset
  BY <1>1, <1>2, <1>3 DEF IInv, CommitInv
<1>5. PagesApart(wcat) /\ CatalogIn(disk, wcat)
      /\ \A i \in 0 .. job.offset - 1 : SafeCell(disk[i], i, wcat)
  BY <1>1 DEF PreInv, CellInv, PInv, ApartInv, DiskInv
<1>6. FilesSafe(disk, disk_len, wcat)
  BY <1>2, <1>4, <1>5, CommittedSafe DEF FooterWritten, CatalogWritten
<1>7. Firm' = wcat
  <2>1. Firm' = Listed'
    BY <1>1 DEF Firm
  <2>2. Listed' = [p \in Path |-> wcat[p]]
    BY <1>1, <1>2 DEF Listed, HardDeleting, NoJob
  <2> QED
    BY <1>2, <2>1, <2>2 DEF Catalog
<1>8. Related(wcat, wcat)
  BY <1>5, ApartIsClear
<1> QED
  BY <1>1, <1>2, <1>4, <1>6, <1>7, <1>8 DEF FirmInv

\* The archive is closed: the files that are safe are those it lists.
LEMMA FirmLastFooter ==
  ASSUME PosInv, faults = 0, PreInv, NoFault, WriteLastFooter
  PROVE  FirmInv(Firm)'
<1>1. /\ pc = "write_footer" /\ pc' = "idle" /\ mode' = "closed" /\ faults' = 0
      /\ job.call = "close" /\ Transfer(FooterWrite, 1)
      /\ wcat' = EmptyCatalog /\ rcat' = EmptyCatalog
  BY DEF WriteLastFooter, Release, NoFault
<1>2. DiskCatalog' = wcat /\ IInv /\ PInv /\ wcat \in Catalog /\ job.offset \in Nat
      /\ append_pos \in Nat /\ disk_len \in Nat
  BY <1>1, WriteLastFooterInv
  DEF PreInv, PInv, PosInv, CallPos, TypeOK, JobOK, FooterJob, CommitJob
<1>3. CatalogSize(wcat) \in Nat
  BY CatalogSizeType
<1>4. /\ append_pos = disk_len /\ PagesBelow(wcat, job.offset)
      /\ append_pos = job.offset + CatalogSize(wcat)
      /\ disk_len' = append_pos + 1
      /\ disk'[append_pos] = Footer(job.offset, wcat)
      /\ \A k \in 0 .. CatalogSize(wcat) - 1 : disk'[job.offset + k] = CatalogPart(wcat, k)
      /\ \A i \in Cells : i < append_pos => disk'[i] = disk[i]
  <2>1. append_pos = disk_len /\ PagesBelow(wcat, job.offset)
    BY <1>1, <1>2 DEF IInv, CommitInv
  <2>2. /\ disk_len' = Larger(disk_len, append_pos + 1)
        /\ append_pos = job.offset + CatalogSize(wcat)
        /\ disk'[append_pos] = Footer(job.offset, wcat)
        /\ \A k \in 0 .. CatalogSize(wcat) - 1 : disk'[job.offset + k] = CatalogPart(wcat, k)
        /\ \A i \in Cells : i < append_pos => disk'[i] = disk[i]
    BY <1>1, <1>2, FooterAppended
  <2>3. disk_len' = append_pos + 1
    BY <1>2, <2>1, <2>2 DEF Larger
  <2> QED
    BY <2>1, <2>2, <2>3
<1>5. PagesApart(wcat) /\ \A i \in 0 .. job.offset - 1 : SafeCell(disk[i], i, wcat)
  BY <1>1 DEF PreInv, CellInv, PInv, ApartInv
<1>6. CatalogIn(disk', wcat)
  <2>1. [Next]_vars
    BY <1>1 DEF NoFault
  <2>2. DiskInv'
    BY <1>2, <2>1, DiskNext
  <2> QED
    BY <1>1, <1>2, <2>2 DEF DiskInv
<1>7. \A i \in 0 .. job.offset - 1 : SafeCell(disk'[i], i, wcat)
  <2> SUFFICES ASSUME NEW i \in 0 .. job.offset - 1 PROVE SafeCell(disk'[i], i, wcat)
    OBVIOUS
  <2>1. i \in Cells /\ i < append_pos
    BY <1>2, <1>3, <1>4 DEF Cells
  <2>2. disk'[i] = disk[i]
    BY <1>4, <2>1
  <2> QED
    BY <1>5, <2>2
<1>8. FilesSafe(disk', disk_len', wcat)
  <2> DEFINE d == disk'  len == disk_len'  off == job.offset
  <2>1. /\ off \in Nat /\ len = off + CatalogSize(wcat) + 1
        /\ d[off + CatalogSize(wcat)] = Footer(off, wcat)
        /\ \A k \in 0 .. CatalogSize(wcat) - 1 : d[off + k] = CatalogPart(wcat, k)
        /\ \A i \in 0 .. off - 1 : SafeCell(d[i], i, wcat)
        /\ CatalogIn(d, wcat) /\ PagesBelow(wcat, off)
    BY <1>2, <1>4, <1>6, <1>7
  <2> HIDE DEF d, len, off
  <2>2. FilesSafe(d, len, wcat)
    BY <1>2, <1>5, <2>1, CommittedSafe
  <2> QED
    BY <2>2 DEF d, len
<1>9. Firm' = wcat
  BY <1>1, <1>2 DEF Firm
<1> QED
  BY <1>1, <1>8, <1>9, NoFilesSafe DEF FirmInv

\* No step endangers the files that are safe, or will be then.
LEMMA FirmNext ==
  ASSUME PosInv, FirmInv(Firm), faults = 0 => PreInv, FaultNext \/ UNCHANGED faultVars
  PROVE  FirmInv(Firm)'
<1>1. CASE Create
  <2>1. CASE FaultNext
    BY <1>1, <2>1, FirmCreate
  <2>2. CASE UNCHANGED faultVars
    BY <1>1, <2>2 DEF Create, faultVars
  <2> QED
    BY <2>1, <2>2
<1>2. CASE faults = 0 /\ NoFault /\ Reload
  BY <1>2, FirmReload
<1>3. CASE faults = 0 /\ NoFault /\ WriteLastFooter
  BY <1>3, FirmLastFooter
<1>4. CASE ~Create /\ (faults = 0 /\ NoFault => ~Reload /\ ~WriteLastFooter)
  BY <1>4, FirmKept
<1> QED
  BY <1>1, <1>2, <1>3, <1>4
-----------------------------------------------------------------------------
(* While nothing has failed: the cells before the catalog to come.          *)

\* The cells after a write: those written, those from before, and zeroes.
LEMMA CellsAfter ==
  ASSUME NEW w, NEW m \in Nat, w.at \in Nat,
         disk_len \in Nat, disk \in [Cells -> Cell],
         \A k \in 0 .. m - 1 : w.image[k] \in Cell,
         Transfer(w, m),
         NEW i \in 0 .. disk_len' - 1
  PROVE  \/ \E k \in 0 .. m - 1 : i = w.at + k /\ disk'[i] = w.image[k]
         \/ i \in Cells /\ disk'[i] = disk[i] /\ ~(w.at <= i /\ i < w.at + m)
         \/ disk'[i] = Zero
<1>1. /\ disk_len' \in Nat
      /\ \A k \in 0 .. m - 1 : disk'[w.at + k] = w.image[k]
      /\ \A j \in Cells : ~(w.at <= j /\ j < w.at + m) => disk'[j] = disk[j]
      /\ \A j \in (0 .. disk_len' - 1) \ Cells :
           ~(w.at <= j /\ j < w.at + m) => disk'[j] = Zero
  BY CellsTransferred
<1>2. CASE w.at <= i /\ i < w.at + m
  <2>1. i - w.at \in 0 .. m - 1 /\ i = w.at + (i - w.at)
    BY <1>1, <1>2
  <2> QED
    BY <1>1, <2>1
<1>3. CASE ~(w.at <= i /\ i < w.at + m)
  BY <1>1, <1>3
<1> QED
  BY <1>2, <1>3

\* A catalog with the pages of base.
LEMMA SamePagesSafe ==
  ASSUME NEW cell, NEW i, NEW base, NEW cat, SafeCell(cell, i, base),
         \A p \in Entries(cat) : \E q \in Entries(base) : cat[p].pages = base[q].pages
  PROVE  SafeCell(cell, i, cat)
BY DEF SafeCell, Related

\* Before a call changes the catalog, the files that are safe are all that
\* are listed.
LEMMA FirmIsListed ==
  ASSUME PosInv, FirmInv(Firm), faults = 0, PreInv, mode = "opened",
         pc \in {"idle", "write_page"}
  PROVE  /\ Firm = wcat /\ rcat = wcat /\ FilesSafe(disk, disk_len, wcat)
         /\ wcat \in Catalog /\ disk_len \in Nat /\ catalog_offset \in Nat
         /\ catalog_offset <= disk_len
<1>1. /\ wcat \in Catalog /\ rcat \in Catalog /\ disk_len \in Nat /\ catalog_offset \in Nat
      /\ job.call # "delete"
  BY DEF PosInv, CallPos, TypeOK, JobOK, NoJob, AddJob
<1>2. rcat = wcat
  BY DEF PreInv, CellInv, PInv, IInv, IdleInv
<1>3. Firm = Listed /\ Listed = [p \in Path |-> rcat[p]]
  BY <1>1 DEF Firm, Listed, HardDeleting
<1>4. Firm = wcat
  BY <1>1, <1>2, <1>3 DEF Catalog
<1>5. FilesSafe(disk, disk_len, wcat)
  BY <1>4 DEF FirmInv
<1>6. catalog_offset <= disk_len
  <2>1. CASE pc = "write_page"
    BY <1>1, <2>1 DEF PreInv, PInv, IInv, PagesInv, TypeOK
  <2>2. CASE pc = "idle"
    <3>1. TypeOK /\ CatalogReadable /\ FooterOffset = catalog_offset
      BY <2>2 DEF PreInv, PInv, IInv, IdleInv
    <3> QED
      BY <1>1, <3>1, ReadableCatalog
  <2> QED
    BY <2>1, <2>2
<1> QED
  BY <1>1, <1>2, <1>4, <1>5, <1>6

\* Creating, opening, closing and reading.
LEMMA SessionCells ==
  ASSUME PosInv, FirmInv(Firm), faults = 0, PreInv,
         \/ Create \/ Open \/ Close
         \/ \E p \in Path : ExtractFile(p) \/ RecoverFile(p)
                            \/ \E call \in {"delete", "rename"} : MissingFile(call, p)
         \/ UNCHANGED vars
  PROVE  CellInv'
<1>1. CASE \/ \E p \in Path : ExtractFile(p) \/ RecoverFile(p)
                            \/ \E call \in {"delete", "rename"} : MissingFile(call, p)
           \/ UNCHANGED vars
  <2>1. UNCHANGED <<disk, disk_len, append_pos, wcat, rcat, catalog_offset, mode, pc, job>>
    BY <1>1 DEF ExtractFile, RecoverFile, MissingFile, io, memory, vars
  <2> QED
    BY <2>1 DEF PreInv, CellInv, Cells
<1>2. CASE Create
  <2>1. /\ mode' = "created" /\ pc' = "idle" /\ disk_len' = 1 /\ disk' = [i \in {0} |-> Magic]
    BY <1>2 DEF Create, PosInv, CallPos, ModeInv
  <2>2. Cells' = {0} /\ disk'[0] = Magic
    BY <2>1 DEF Cells
  <2> QED
    BY <2>1, <2>2 DEF CellInv, Plain, Magic
<1>3. CASE Open
  <2>1. mode' = "opened" /\ pc' = "idle" /\ UNCHANGED <<disk, disk_len>>
    BY <1>3 DEF Open, PosInv, CallPos, ModeInv
  <2> QED
    BY <2>1 DEF PreInv, CellInv, Cells
<1>4. CASE Close
  <2>1. /\ mode # "closed" /\ pc = "idle" /\ pc' = "write_catalog"
        /\ UNCHANGED <<disk, disk_len, append_pos, wcat, rcat, catalog_offset, mode>>
    BY <1>4 DEF Close, io, memory
  <2>2. ASSUME NEW i \in 0 .. append_pos - 1 PROVE SafeCell(disk[i], i, wcat)
    <3>1. CASE mode = "opened"
      <4>1. append_pos = disk_len /\ FilesSafe(disk, disk_len, wcat)
        BY <2>1, <3>1, FirmIsListed DEF PreInv, PInv, IInv, IdleInv
      <4> QED
        BY <4>1 DEF FilesSafe
    <3>2. CASE mode = "created"
      <4>1. append_pos = disk_len
        BY <2>1, <3>2 DEF PreInv, PInv, IInv, CreatedInv
      <4>2. Plain(disk[i])
        BY <2>1, <3>2, <4>1 DEF PreInv, CellInv, Cells
      <4> QED
        BY <4>2, PlainIsSafe
    <3> QED
      BY <2>1, <3>1, <3>2 DEF PosInv, CallPos, TypeOK
  <2> QED
    BY <2>1, <2>2 DEF PreInv, CellInv, Cells
<1> QED
  BY <1>1, <1>2, <1>3, <1>4

\* Starting a change.
LEMMA StartCells ==
  ASSUME PosInv, FirmInv(Firm), faults = 0, PreInv,
         \E p \in Path :
           \/ \E c \in Content : AddFile(p, c)
           \/ \E soft \in BOOLEAN : DeleteFile(p, soft)
           \/ \E q \in Path : RenameFile(p, q)
  PROVE  CellInv'
<1> PICK p \in Path :
           \/ \E c \in Content : AddFile(p, c)
           \/ \E soft \in BOOLEAN : DeleteFile(p, soft)
           \/ \E q \in Path : RenameFile(p, q)
  OBVIOUS
<1>0. UNCHANGED <<disk, disk_len, rcat, catalog_offset, mode>> /\ pc = "idle"
  BY DEF AddFile, DeleteFile, RenameFile, memory
<1>1. ASSUME NEW c \in Content, AddFile(p, c) PROVE CellInv'
  <2>1. /\ pc' = "write_page" /\ mode # "closed" /\ wcat' = wcat
        /\ mode = "opened" => append_pos' = catalog_offset
    BY <1>1 DEF AddFile, memory
  <2>2. mode = "opened" => rcat = wcat /\ catalog_offset \in Nat
    BY <1>0, FirmIsListed
  <2>3. mode = "opened" => catalog_offset .. catalog_offset - 1 = {}
    BY <2>2
  <2> QED
    BY <1>0, <2>1, <2>2, <2>3 DEF PreInv, CellInv, Cells
<1>2. ASSUME NEW call, CommitAt(call, p), mode = "opened",
             \A q \in Entries(wcat') : \E r \in Entries(wcat) : wcat'[q].pages = wcat[r].pages
      PROVE  CellInv'
  <2>1. append_pos' = catalog_offset /\ pc' = "write_catalog"
    BY <1>2 DEF CommitAt
  <2>2. /\ FilesSafe(disk, disk_len, wcat) /\ disk_len \in Nat /\ catalog_offset \in Nat
        /\ catalog_offset <= disk_len
    BY <1>0, <1>2, FirmIsListed
  <2>3. ASSUME NEW i \in 0 .. catalog_offset - 1 PROVE SafeCell(disk[i], i, wcat')
    <3>1. i \in 0 .. disk_len - 1
      BY <2>2
    <3>2. SafeCell(disk[i], i, wcat)
      BY <2>2, <3>1 DEF FilesSafe
    <3> QED
      BY <1>2, <3>2, SamePagesSafe
  <2> QED
    BY <1>0, <1>2, <2>1, <2>3 DEF PreInv, CellInv, Cells
<1>3. ASSUME NEW soft \in BOOLEAN, DeleteFile(p, soft) PROVE CellInv'
  <2>1. mode = "opened" /\ wcat' = wcat
    BY <1>3 DEF DeleteFile, memory
  <2>2. CASE CommitAt("delete", p)
    BY <1>2, <2>1, <2>2
  <2>3. CASE pc' = "patch_page"
    <3>1. rcat = wcat
      BY <1>0, <2>1, FirmIsListed
    <3> QED
      BY <1>0, <2>1, <2>3, <3>1 DEF PreInv, CellInv, Cells
  <2> QED
    BY <1>3, <2>2, <2>3 DEF DeleteFile
<1>4. ASSUME NEW q \in Path, RenameFile(p, q) PROVE CellInv'
  <2>1. /\ mode = "opened" /\ wcat' = [wcat EXCEPT ![p] = NoEntry, ![q] = rcat[p]]
        /\ CommitAt("rename", p) /\ rcat[p] # NoEntry
    BY <1>4 DEF RenameFile
  <2>2. rcat = wcat /\ wcat \in Catalog
    BY <1>0, <2>1, FirmIsListed
  <2>3. \A r \in Path : wcat'[r] \in {wcat[r], wcat[p], NoEntry}
    BY <2>1, <2>2 DEF Catalog
  <2>4. ASSUME NEW r \in Entries(wcat')
        PROVE  \E s \in Entries(wcat) : wcat'[r].pages = wcat[s].pages
    <3>1. r \in Path /\ wcat'[r] # NoEntry
      BY DEF Entries
    <3>2. wcat'[r] \in {wcat[r], wcat[p]} /\ p \in Entries(wcat)
      BY <2>1, <2>2, <2>3, <3>1 DEF Entries
    <3> QED
      BY <3>1, <3>2 DEF Entries
  <2> QED
    BY <1>2, <2>1, <2>4
<1> QED
  BY <1>1, <1>3, <1>4

\* A write of cells that are neither catalogs nor footers.
LEMMA PlainWrite ==
  ASSUME PosInv, NEW m \in 0 .. Pending.len, Transfer(Pending, m),
         pc \in {"write_page", "patch_page"}
  PROVE  \A i \in Cells' : Plain(disk'[i]) \/
           (i \in Cells /\ disk'[i] = disk[i] /\ ~(Pending.at <= i /\ i < Pending.at + m))
<1> DEFINE w == Pending
<1>1. /\ w.at \in Nat /\ w.len \in Nat
      /\ \A k \in 0 .. w.len - 1 : w.image[k] \in Cell /\ Plain(w.image[k])
  <2>1. CASE pc = "write_page"
    BY <2>1, PageImage
  <2>2. CASE pc = "patch_page"
    BY <2>2, PatchImage
  <2> QED
    BY <2>1, <2>2
<1>2. disk_len \in Nat /\ disk \in [Cells -> Cell]
  BY DEF PosInv, CallPos, TypeOK
<1>3. m \in Nat /\ Transfer(w, m) /\ \A k \in 0 .. m - 1 : w.image[k] \in Cell /\ Plain(w.image[k])
  BY <1>1
<1> HIDE DEF w
<1>4. Plain(Zero)
  BY DEF Plain, Zero
<1>5. ASSUME NEW i \in 0 .. disk_len' - 1
      PROVE  Plain(disk'[i]) \/
               (i \in Cells /\ disk'[i] = disk[i] /\ ~(w.at <= i /\ i < w.at + m))
  <2>1. \/ \E k \in 0 .. m - 1 : i = w.at + k /\ disk'[i] = w.image[k]
        \/ i \in Cells /\ disk'[i] = disk[i] /\ ~(w.at <= i /\ i < w.at + m)
        \/ disk'[i] = Zero
    BY <1>1, <1>2, <1>3, CellsAfter
  <2> QED
    BY <1>3, <1>4, <2>1
<1> QED
  BY <1>5 DEF Cells, w

\* An index between two positions.
LEMMA Between ==
  ASSUME NEW a \in Nat, NEW b \in Nat
  PROVE  /\ \A i \in a .. b - 1 : i \in Int /\ a <= i /\ i < b
         /\ \A i \in Int : a <= i /\ i < b => i \in a .. b - 1
OBVIOUS

\* Writing pages.
LEMMA PageCells ==
  ASSUME PosInv, FirmInv(Firm), faults = 0, PreInv, WritePage \/ WriteLastPage
  PROVE  CellInv'
<1> DEFINE len == Pending.len
<1>1. /\ pc = "write_page" /\ mode' = mode /\ mode \in {"opened", "created"}
      /\ rcat' = rcat /\ catalog_offset' = catalog_offset
      /\ append_pos \in Nat /\ catalog_offset \in Nat
      /\ AppendWrite(PageWrite) /\ Pending = PageWrite
  BY DEF WritePage, WriteLastPage, PosInv, CallPos, TypeOK, ModeInv, Pending
<1>2. WriteAt(PageWrite) /\ append_pos' = append_pos + len
      /\ Pending.at = append_pos /\ len \in Nat
  BY <1>1, PageImage DEF AppendWrite
<1>3. len \in 0 .. Pending.len /\ Transfer(Pending, len) /\ disk_len' \in Nat
      /\ append_pos' <= disk_len' /\ append_pos' \in Nat /\ append_pos <= append_pos'
  BY <1>1, <1>2, WholeWrite, PageImage
<1> HIDE DEF len
<1>4. \A i \in Cells' : Plain(disk'[i]) \/
        (i \in Cells /\ disk'[i] = disk[i] /\ ~(append_pos <= i /\ i < append_pos'))
  BY <1>1, <1>2, <1>3, PlainWrite
<1>5. \A i \in Cells' : disk'[i].kind = "catalog" => PagesBelow(disk'[i].catalog, i)
  BY <1>4 DEF PreInv, CellInv, Plain
<1>6. ASSUME mode = "opened", NEW i \in catalog_offset .. append_pos' - 1
      PROVE  i \in Cells' /\ Plain(disk'[i])
  <2>9. append_pos' \in Nat /\ disk_len' \in Nat /\ append_pos' <= disk_len'
    BY <1>3
  <2>10. catalog_offset \in Nat
    BY <1>1
  <2>0. i \in Int /\ catalog_offset <= i /\ i < append_pos'
    BY <2>9, <2>10, Between
  <2>1. i \in Cells'
    <3>1. 0 <= i /\ i < disk_len'
      BY <2>9, <2>10, <2>0
    <3> QED
      BY <2>9, <2>0, <3>1, Between DEF Cells
  <2>2. CASE i < append_pos
    <3>1. i \in catalog_offset .. append_pos - 1
      BY <1>1, <2>2
    <3>2. Plain(disk[i])
      BY <1>1, <1>6, <3>1 DEF PreInv, CellInv
    <3> QED
      BY <1>4, <2>1, <3>2
  <2>3. CASE append_pos <= i
    BY <1>4, <2>0, <2>1, <2>3
  <2> QED
    BY <1>1, <2>1, <2>2, <2>3
<1>7. ASSUME mode = "created" PROVE \A i \in Cells' : Plain(disk'[i])
  BY <1>1, <1>4, <1>7 DEF PreInv, CellInv
<1>8. CASE WritePage
  <2>1. pc' = "write_page" /\ wcat' = wcat
    BY <1>1, <1>8 DEF WritePage
  <2> QED
    BY <1>1, <1>5, <1>6, <1>7, <2>1 DEF PreInv, CellInv
<1>9. CASE WriteLastPage /\ mode = "created"
  <2>1. pc' = "idle"
    BY <1>9 DEF WriteLastPage
  <2> QED
    BY <1>1, <1>5, <1>7, <1>9, <2>1 DEF CellInv
<1>10. CASE WriteLastPage /\ mode = "opened"
  <2> DEFINE new == NewEntry(job.content, PagesWritten)
  <2>1. pc' = "write_catalog" /\ wcat' = [wcat EXCEPT ![job.path] = new]
    BY <1>10 DEF WriteLastPage, NewEntry
  <2>2. /\ wcat \in Catalog /\ FilesSafe(disk, disk_len, wcat) /\ disk_len \in Nat
        /\ catalog_offset <= disk_len /\ job \in AddJob
    BY <1>1, <1>10, FirmIsListed DEF PosInv, CallPos, TypeOK, JobOK
  <2>3. \A p \in Path : wcat'[p] = wcat[p] \/ wcat'[p] = new
    BY <2>1, <2>2 DEF Catalog
  <2>4. \A n \in DOMAIN PagesWritten :
          /\ PagesWritten[n].offset \in Nat /\ PagesWritten[n].size \in Nat
          /\ catalog_offset <= PagesWritten[n].offset
    <3> DEFINE page == [id |-> next_page_id, offset |-> append_pos,
                        size |-> Payload[job.content][Len(job.pages) + 1]]
    <3>0. /\ next_page_id \in Nat /\ job.pages \in Seq(PageRef)
          /\ Payload[job.content][Len(job.pages) + 1] \in Nat
      <4>1. Len(job.pages) + 1 \in 1 .. Len(Payload[job.content]) /\ job.pages \in Seq(PageRef)
            /\ job.content \in Content
        BY <1>1, <2>2, PayloadAssumption DEF PosInv, CallPos, LoopInv, AddJob
      <4> QED
        BY <4>1, PayloadAssumption DEF PosInv, CallPos, TypeOK
    <3>1. PagesWritten = Append(job.pages, page) /\ page.offset = append_pos
          /\ page \in PageRef
      BY <1>1, <3>0 DEF PagesWritten, PageRef
    <3>2. catalog_offset <= append_pos
          /\ \A n \in DOMAIN job.pages : catalog_offset <= job.pages[n].offset
      BY <1>1, <1>10 DEF PosInv, CallPos, Positions
    <3> HIDE DEF page
    <3>3. \A n \in DOMAIN PagesWritten : PagesWritten[n] = page \/
            (n \in DOMAIN job.pages /\ PagesWritten[n] = job.pages[n])
      BY <3>0, <3>1
    <3>4. \A n \in DOMAIN PagesWritten : PagesWritten[n] \in PageRef
      BY <3>0, <3>1, <3>3
    <3> QED
      BY <3>1, <3>2, <3>3, <3>4, PageRefFields
  <2>5. new.pages = PagesWritten
    BY DEF NewEntry
  <2> HIDE DEF new
  <2>6. ASSUME NEW i \in 0 .. append_pos' - 1 PROVE SafeCell(disk'[i], i, wcat')
    <3>9. append_pos' \in Nat /\ disk_len' \in Nat /\ append_pos' <= disk_len' /\ 0 \in Nat
      BY <1>3
    <3>0. i \in Int /\ 0 <= i /\ i < append_pos'
      BY <3>9, Between
    <3>1. i \in Cells'
      <4>1. i < disk_len'
        BY <3>9, <3>0
      <4> QED
        BY <3>9, <3>0, <4>1, Between DEF Cells
    <3>2. CASE Plain(disk'[i])
      BY <3>2, PlainIsSafe
    <3>3. CASE ~Plain(disk'[i])
      <4>1. i < catalog_offset
        <5> SUFFICES ASSUME ~(i < catalog_offset) PROVE FALSE
          OBVIOUS
        <5>0. catalog_offset \in Nat /\ catalog_offset <= i
          BY <1>1, <3>0
        <5>1. i \in catalog_offset .. append_pos' - 1
          BY <3>9, <3>0, <5>0, Between
        <5> QED
          BY <1>6, <1>10, <3>3, <5>1
      <4>2. i \in Cells /\ disk'[i] = disk[i] /\ i \in 0 .. disk_len - 1
        BY <1>4, <3>1, <3>3 DEF Cells
      <4>3. SafeCell(disk[i], i, wcat)
        BY <2>2, <4>2 DEF FilesSafe
      <4>4. ASSUME disk[i].kind = "catalog" PROVE Related(disk[i].catalog, wcat')
        <5> DEFINE cat == disk[i].catalog
        <5>1. Related(cat, wcat) /\ PagesBelow(cat, i) /\ cat \in Catalog
          <6>1. disk[i] \in Cell
            BY <4>2 DEF PosInv, CallPos, TypeOK
          <6>2. cat \in Catalog
            BY <4>4, <6>1 DEF Cell, Zero, Magic, Damaged
          <6> QED
            BY <4>2, <4>3, <4>4, <6>2 DEF SafeCell, PreInv, CellInv
        <5> HIDE DEF cat
        <5>2. ASSUME NEW p \in Entries(cat), NEW n \in DOMAIN cat[p].pages,
                     NEW k \in DOMAIN PagesWritten
              PROVE  Clear(cat[p].pages[n], PagesWritten[k])
          <6>1. /\ cat[p].pages[n].offset \in Nat /\ cat[p].pages[n].size \in Nat
            BY <5>1, PageRefsOf, PageRefFields
          <6>2. End(cat[p].pages[n]) <= i
            BY <5>1 DEF PagesBelow, End
          <6> QED
            BY <1>1, <2>4, <4>1, <6>1, <6>2 DEF Clear, End
        <5>3. ASSUME NEW p \in Entries(cat), NEW q \in Entries(wcat')
              PROVE  cat[p].pages = wcat'[q].pages \/ AllClear(cat[p].pages, wcat'[q].pages)
          <6>1. CASE wcat'[q] = new
            BY <2>5, <5>2, <6>1 DEF AllClear
          <6>2. CASE wcat'[q] = wcat[q]
            BY <5>1, <6>2 DEF Related, Entries
          <6> QED
            BY <2>3, <6>1, <6>2 DEF Entries
        <5>4. Related(cat, wcat')
          BY <5>3 DEF Related
        <5> QED
          BY <5>4 DEF cat
      <4>5. ASSUME disk[i].kind = "footer",
                   NEW q \in Entries(wcat'), NEW n \in DOMAIN wcat'[q].pages,
                   End(wcat'[q].pages[n]) <= i
            PROVE  End(wcat'[q].pages[n]) <= disk[i].offset
        <5>1. CASE wcat'[q] = new
          BY <1>1, <2>4, <2>5, <4>1, <4>5, <5>1 DEF End
        <5>2. CASE wcat'[q] = wcat[q]
          BY <4>3, <4>5, <5>2 DEF SafeCell, Entries
        <5> QED
          BY <2>3, <5>1, <5>2 DEF Entries
      <4> QED
        BY <4>2, <4>4, <4>5 DEF SafeCell
    <3> QED
      BY <3>2, <3>3
  <2> QED
    BY <1>1, <1>5, <1>10, <2>1, <2>6 DEF CellInv
<1> QED
  BY <1>1, <1>8, <1>9, <1>10

\* Patching pages.
LEMMA PatchCells ==
  ASSUME PosInv, FirmInv(Firm), faults = 0, PreInv, NoFault, PatchPage \/ PatchLastPage
  PROVE  CellInv'
<1>1. /\ pc = "patch_page" /\ mode' = mode /\ mode = "opened"
      /\ rcat' = rcat /\ catalog_offset' = catalog_offset /\ catalog_offset \in Nat
      /\ WriteAt(PatchWrite) /\ Pending = PatchWrite
  BY DEF PatchPage, PatchLastPage, PosInv, CallPos, TypeOK, ModeInv, Pending, memory
<1>2. /\ Pending.len \in 0 .. Pending.len /\ Transfer(Pending, Pending.len)
      /\ disk_len \in Nat /\ disk_len' \in Nat /\ disk_len <= disk_len'
  BY <1>1, WholeWrite DEF PosInv, CallPos, TypeOK
<1>3. \A i \in Cells' : Plain(disk'[i]) \/ (i \in Cells /\ disk'[i] = disk[i])
  BY <1>1, <1>2, PlainWrite
<1>4. \A i \in Cells' : disk'[i].kind = "catalog" => PagesBelow(disk'[i].catalog, i)
  BY <1>3 DEF PreInv, CellInv, Plain
<1>5. rcat = wcat
  BY <1>1 DEF PreInv, CellInv
<1>6. CASE PatchPage
  <2>1. pc' = pc /\ wcat' = wcat
    BY <1>6 DEF PatchPage, memory
  <2> QED
    BY <1>1, <1>4, <1>5, <2>1 DEF CellInv
<1>7. CASE PatchLastPage
  <2> DEFINE old == wcat[job.path]
  <2>1. /\ pc' = "write_catalog" /\ append_pos' = catalog_offset
        /\ job.path \in Entries(wcat) /\ job.soft \in BOOLEAN /\ wcat \in Catalog
    BY <1>1, <1>7, PatchImage DEF PatchLastPage, CommitAt, PosInv, CallPos, TypeOK
  <2>2. wcat' = [wcat EXCEPT ![job.path] = IF job.soft THEN Marked(old) ELSE NoEntry]
        /\ old \in Entry
    BY <1>7, <2>1 DEF PatchLastPage, Marked, Catalog, Entries
  <2>3. Marked(old).pages = old.pages
    BY <2>2 DEF Marked, Entry
  <2>4. Firm = Listed
    BY <1>1 DEF Firm
  <2>5. ASSUME NEW p \in Entries(wcat')
        PROVE  \E q \in Entries(Firm) : wcat'[p].pages = Firm[q].pages
    <3>1. p \in Path /\ wcat'[p] # NoEntry
      BY DEF Entries
    <3>2. ~HardDeleting(p) /\ wcat'[p].pages = wcat[p].pages /\ wcat[p] # NoEntry
      <4>1. CASE p = job.path
        <5>1. wcat'[p] = IF job.soft THEN Marked(old) ELSE NoEntry
          BY <2>1, <2>2, <3>1, <4>1 DEF Catalog
        <5> QED
          BY <1>1, <2>1, <2>3, <3>1, <4>1, <5>1 DEF HardDeleting, Entries
      <4>2. CASE p # job.path
        <5>1. wcat'[p] = wcat[p]
          BY <2>1, <2>2, <3>1, <4>2 DEF Catalog
        <5> QED
          BY <3>1, <4>2, <5>1 DEF HardDeleting
      <4> QED
        BY <4>1, <4>2
    <3>3. Firm[p] = wcat[p]
      BY <1>5, <2>4, <3>1, <3>2 DEF Listed
    <3> QED
      BY <3>1, <3>2, <3>3 DEF Entries
  <2>6. FilesSafe(disk', disk_len', Firm)
    BY <1>1, DiskSafe DEF FaultNext
  <2>7. catalog_offset <= disk_len
    BY <1>1 DEF PreInv, PInv, IInv, PagesInv
  <2>8. ASSUME NEW i \in 0 .. catalog_offset - 1 PROVE SafeCell(disk'[i], i, wcat')
    <3>9. catalog_offset \in Nat /\ disk_len' \in Nat /\ catalog_offset <= disk_len' /\ 0 \in Nat
      BY <1>1, <1>2, <2>7
    <3>1. i \in Int /\ 0 <= i /\ i < disk_len'
      BY <3>9, Between
    <3>3. i \in 0 .. disk_len' - 1
      BY <3>9, <3>1, Between
    <3>2. SafeCell(disk'[i], i, Firm)
      BY <2>6, <3>3 DEF FilesSafe
    <3> QED
      BY <2>5, <3>2, SamePagesSafe
  <2> QED
    BY <1>1, <1>4, <2>1, <2>8 DEF CellInv
<1> QED
  BY <1>6, <1>7

\* The catalogs of the file still list pages before them, if those written do.
LEMMA CatalogsAfter ==
  ASSUME PosInv, CellInv, NEW m \in 0 .. Pending.len, Transfer(Pending, m),
         \A k \in 0 .. Pending.len - 1 :
           Pending.image[k].kind = "catalog" =>
             PagesBelow(Pending.image[k].catalog, Pending.at + k)
  PROVE  \A i \in Cells' : disk'[i].kind = "catalog" => PagesBelow(disk'[i].catalog, i)
<1> DEFINE w == Pending
<1>1. /\ w.at \in Nat /\ w.len \in Nat
      /\ \A k \in 0 .. w.len - 1 : w.image[k] \in Cell
      /\ \A k \in 0 .. w.len - 1 :
           w.image[k].kind = "catalog" => PagesBelow(w.image[k].catalog, w.at + k)
  BY PendingImage
<1>2. disk_len \in Nat /\ disk \in [Cells -> Cell]
  BY DEF PosInv, CallPos, TypeOK
<1>3. m \in Nat /\ Transfer(w, m) /\ \A k \in 0 .. m - 1 : k \in 0 .. w.len - 1
  BY <1>1
<1> HIDE DEF w
<1>4. ASSUME NEW i \in 0 .. disk_len' - 1, disk'[i].kind = "catalog"
      PROVE  PagesBelow(disk'[i].catalog, i)
  <2>1. \/ \E k \in 0 .. m - 1 : i = w.at + k /\ disk'[i] = w.image[k]
        \/ i \in Cells /\ disk'[i] = disk[i] /\ ~(w.at <= i /\ i < w.at + m)
        \/ disk'[i] = Zero
    BY <1>1, <1>2, <1>3, CellsAfter
  <2>2. CASE \E k \in 0 .. m - 1 : i = w.at + k /\ disk'[i] = w.image[k]
    BY <1>1, <1>3, <1>4, <2>2
  <2>3. CASE i \in Cells /\ disk'[i] = disk[i]
    BY <1>4, <2>3 DEF CellInv
  <2>4. CASE disk'[i] = Zero
    BY <1>4, <2>4 DEF Zero
  <2> QED
    BY <2>1, <2>2, <2>3, <2>4
<1> QED
  BY <1>4 DEF Cells

\* The catalog that is being written lists pages before it.
LEMMA CommitImage ==
  ASSUME PosInv, IInv, pc \in {"write_catalog", "write_footer"}
  PROVE  \A k \in 0 .. Pending.len - 1 :
           Pending.image[k].kind = "catalog" =>
             PagesBelow(Pending.image[k].catalog, Pending.at + k)
<1>1. CASE pc = "write_catalog"
  <2>1. /\ Pending.at = append_pos /\ append_pos \in Nat /\ Pending.len \in Nat
        /\ \A k \in 0 .. Pending.len - 1 : Pending.image[k] = CatalogPart(wcat, k)
    BY <1>1, CatalogImage
  <2>2. wcat \in Catalog /\ PagesBelow(wcat, append_pos)
    BY <1>1 DEF IInv, TypeOK, CommitInv
  <2>3. ASSUME NEW k \in 0 .. Pending.len - 1
        PROVE  PagesBelow(Pending.image[k].catalog, Pending.at + k)
    <3>1. Pending.image[k].catalog = wcat
      <4>1. Pending.image[k] = CatalogPart(wcat, k)
        BY <2>1
      <4>2. CatalogPart(wcat, k).catalog = wcat
        BY DEF CatalogPart
      <4> QED
        BY <4>1, <4>2
    <3>2. append_pos + k \in Nat /\ append_pos <= append_pos + k
      BY <2>1
    <3>3. PagesBelow(wcat, append_pos + k)
      BY <2>1, <2>2, <3>2, PagesBelowLater
    <3> QED
      BY <2>1, <3>1, <3>3
  <2> QED
    BY <2>3
<1>2. CASE pc = "write_footer"
  <2>1. \A k \in 0 .. Pending.len - 1 : Pending.image[k].kind = "footer"
    BY <1>2, FooterImage DEF Footer
  <2> QED
    BY <2>1
<1> QED
  BY <1>1, <1>2

\* Committing.
LEMMA CommitCells ==
  ASSUME PosInv, PreInv,
         WriteCatalog \/ WriteFooter \/ WriteLastFooter \/ Truncate \/ Reload
  PROVE  CellInv'
<1>0. /\ CellInv /\ IInv
      /\ disk_len \in Nat /\ append_pos \in Nat /\ disk \in [Cells -> Cell]
      /\ pc = "truncate" \/ pc = "reload" => mode = "opened"
      /\ mode \in {"closed", "created", "opened"}
  BY DEF PreInv, PInv, PosInv, CallPos, TypeOK, ModeInv
<1>1. CASE WriteCatalog
  <2>1. /\ pc = "write_catalog" /\ pc' = "write_footer" /\ wcat' = wcat /\ mode' = mode
        /\ job'.offset = append_pos /\ WriteAt(Pending)
    BY <1>1 DEF WriteCatalog, memory, Pending, AppendWrite
  <2>2. /\ Pending.at = append_pos /\ Pending.len \in Nat
        /\ Pending.len \in 0 .. Pending.len /\ Transfer(Pending, Pending.len)
        /\ \A k \in 0 .. Pending.len - 1 : Pending.image[k] \in Cell
    BY <2>1, CatalogImage DEF WriteAt
  <2>3. \A i \in Cells' : disk'[i].kind = "catalog" => PagesBelow(disk'[i].catalog, i)
    BY <1>0, <2>1, <2>2, CommitImage, CatalogsAfter
  <2>4. append_pos <= disk_len
    BY <1>0, <2>1 DEF IInv, CommitInv
  <2>5. ASSUME NEW i \in 0 .. append_pos - 1 PROVE SafeCell(disk'[i], i, wcat)
    <3>1. i \in Cells /\ ~(append_pos <= i)
      BY <1>0, <2>4 DEF Cells
    <3>2. disk'[i] = disk[i]
      BY <1>0, <2>2, <3>1, CellsTransferred
    <3> QED
      BY <1>0, <2>1, <3>2 DEF CellInv
  <2> QED
    BY <2>1, <2>3, <2>5 DEF CellInv
<1>2. ASSUME pc = "write_footer", Transfer(FooterWrite, 1)
      PROVE  \A i \in Cells' : disk'[i].kind = "catalog" => PagesBelow(disk'[i].catalog, i)
  <2>1. Pending = FooterWrite /\ 1 \in 0 .. Pending.len
    BY <1>2, FooterImage DEF Pending
  <2> QED
    BY <1>0, <1>2, <2>1, CommitImage, CatalogsAfter
<1>3. CASE WriteFooter
  <2>1. /\ pc = "write_footer" /\ pc' = "truncate" /\ wcat' = wcat /\ job' = job
        /\ Transfer(FooterWrite, 1) /\ mode' = mode
    BY <1>3 DEF WriteFooter, memory, AppendWrite, WriteAt, FooterWrite, Write
  <2>2. /\ append_pos = job.offset + CatalogSize(wcat) /\ CatalogSize(wcat) \in Nat
        /\ job.offset \in Nat /\ append_pos <= disk_len
    BY <1>0, <2>1, CatalogSizeType DEF IInv, CommitInv, CatalogWritten, TypeOK, JobOK, FooterJob, CommitJob
  <2>3. \A i \in Cells : i < append_pos => disk'[i] = disk[i]
    BY <1>0, <2>1, FooterAppended
  <2>4. ASSUME NEW i \in 0 .. job.offset - 1 PROVE SafeCell(disk'[i], i, wcat)
    <3>1. i \in Cells /\ i < append_pos
      BY <1>0, <2>2 DEF Cells
    <3> QED
      BY <1>0, <2>1, <2>3, <3>1 DEF CellInv
  <2> QED
    BY <1>2, <2>1, <2>4 DEF CellInv
<1>4. CASE WriteLastFooter
  <2>1. pc = "write_footer" /\ Transfer(FooterWrite, 1) /\ mode' = "closed" /\ pc' = "idle"
    BY <1>4 DEF WriteLastFooter, Release
  <2> QED
    BY <1>2, <2>1 DEF CellInv
<1>5. CASE Truncate
  <2>1. /\ pc = "truncate" /\ pc' = "reload" /\ wcat' = wcat /\ job' = job /\ mode' = mode
        /\ disk_len' = append_pos /\ disk' = [i \in 0 .. append_pos - 1 |-> disk[i]]
    BY <1>5 DEF Truncate
  <2>2. job.offset \in Nat /\ job.offset < append_pos /\ append_pos <= disk_len
    BY <1>0, <2>1 DEF PosInv, CallPos, Positions, TypeOK, JobOK, CommitJob
  <2>3. Cells' = 0 .. append_pos - 1
    BY <2>1 DEF Cells
  <2>4. \A i \in 0 .. append_pos - 1 : i \in Cells /\ disk'[i] = disk[i]
    BY <1>0, <2>1, <2>2 DEF Cells
  <2>5. \A i \in Cells' : disk'[i].kind = "catalog" => PagesBelow(disk'[i].catalog, i)
    BY <1>0, <2>3, <2>4 DEF CellInv
  <2>6. ASSUME NEW i \in 0 .. job.offset - 1 PROVE SafeCell(disk'[i], i, wcat)
    <3>1. i \in 0 .. append_pos - 1
      BY <1>0, <2>2
    <3> QED
      BY <1>0, <2>1, <2>4, <3>1 DEF CellInv
  <2> QED
    BY <2>1, <2>5, <2>6 DEF CellInv
<1>6. CASE Reload
  <2>1. /\ pc' = "idle" /\ mode' = "opened"
        /\ UNCHANGED <<disk, disk_len>>
    BY <1>0, <1>6 DEF Reload
  <2> QED
    BY <1>0, <2>1 DEF CellInv, Cells
<1> QED
  BY <1>1, <1>3, <1>4, <1>5, <1>6

\* What holds while nothing has failed goes on to hold.
LEMMA PreNext ==
  ASSUME PosInv, FirmInv(Firm), faults = 0, PreInv, NoFault \/ UNCHANGED vars
  PROVE  PreInv'
<1>1. [Next]_vars
  BY DEF NoFault
<1>2. PInv'
  BY <1>1, NextInv, ApartNext, DiskNext DEF PreInv, PInv
<1>3. CellInv'
  <2>1. CASE UNCHANGED vars
    BY <2>1, SessionCells
  <2>2. CASE NoFault
    <3>1. Next
      BY <2>2 DEF NoFault
    <3>2. CASE \/ Create \/ Open \/ Close
               \/ \E p \in Path : ExtractFile(p) \/ RecoverFile(p)
                                  \/ \E call \in {"delete", "rename"} : MissingFile(call, p)
      BY <3>2, SessionCells
    <3>3. CASE \E p \in Path :
                 \/ \E c \in Content : AddFile(p, c)
                 \/ \E soft \in BOOLEAN : DeleteFile(p, soft)
                 \/ \E q \in Path : RenameFile(p, q)
      BY <3>3, StartCells
    <3>4. CASE WritePage \/ WriteLastPage
      BY <3>4, PageCells
    <3>5. CASE PatchPage \/ PatchLastPage
      BY <2>2, <3>5, PatchCells
    <3>6. CASE WriteCatalog \/ WriteFooter \/ WriteLastFooter \/ Truncate \/ Reload
      BY <3>6, CommitCells
    <3> QED
      BY <3>1, <3>2, <3>3, <3>4, <3>5, <3>6 DEF Next, Call, Step
  <2> QED
    BY <2>1, <2>2
<1> QED
  BY <1>2, <1>3 DEF PreInv
-----------------------------------------------------------------------------
(* While nothing has failed: the end of the file.                           *)

\* A cell after a write, whole or in part: it is unchanged, or what the step
\* of the call writes, or neither catalog nor footer.
LEMMA PendingCells ==
  ASSUME PosInv, NEW m \in 0 .. Pending.len, Transfer(Pending, m)
  PROVE  \A i \in Cells' :
           \/ Plain(disk'[i])
           \/ i \in Cells /\ disk'[i] = disk[i]
           \/ pc = "write_catalog" /\ disk'[i].kind = "catalog" /\ disk'[i].catalog = wcat
           \/ pc = "write_footer" /\ disk'[i] = Footer(job.offset, wcat)
<1> DEFINE w == Pending
           New(cell) ==
             \/ Plain(cell)
             \/ pc = "write_catalog" /\ cell.kind = "catalog" /\ cell.catalog = wcat
             \/ pc = "write_footer" /\ cell = Footer(job.offset, wcat)
<1>1. /\ w.at \in Nat /\ w.len \in Nat
      /\ \A k \in 0 .. w.len - 1 : w.image[k] \in Cell
  BY PendingImage
<1>2. disk_len \in Nat /\ disk \in [Cells -> Cell]
  BY DEF PosInv, CallPos, TypeOK
<1>3. \A k \in 0 .. w.len - 1 : New(w.image[k])
  <2>1. CASE pc = "write_page"
    BY <2>1, PageImage
  <2>2. CASE pc = "patch_page"
    BY <2>2, PatchImage
  <2>3. CASE pc = "write_catalog"
    <3>1. CatalogPart(wcat, 0).kind = "catalog"
          /\ \A k : CatalogPart(wcat, k).kind = "catalog" /\ CatalogPart(wcat, k).catalog = wcat
      BY DEF CatalogPart
    <3>2. \A k \in 0 .. w.len - 1 : w.image[k] = CatalogPart(wcat, k)
      BY <2>3, CatalogImage
    <3> HIDE DEF w
    <3> QED
      BY <2>3, <3>1, <3>2
  <2>4. CASE pc = "write_footer"
    <3>2. \A k \in 0 .. w.len - 1 : w.image[k] = Footer(job.offset, wcat)
      BY <2>4, FooterImage
    <3> HIDE DEF w
    <3> QED
      BY <2>4, <3>2
  <2>5. CASE pc \notin {"write_page", "patch_page", "write_catalog", "write_footer"}
    <3>1. w.len = 0
      BY <2>5, PendingImage
    <3> HIDE DEF w, New
    <3> QED
      BY <3>1
  <2> QED
    BY <2>1, <2>2, <2>3, <2>4, <2>5
<1>4. m \in Nat /\ Transfer(w, m) /\ \A k \in 0 .. m - 1 : k \in 0 .. w.len - 1
  BY <1>1
<1>5. New(Zero)
  BY DEF Plain, Zero
<1> HIDE DEF w, New
<1>6. ASSUME NEW i \in 0 .. disk_len' - 1
      PROVE  New(disk'[i]) \/ (i \in Cells /\ disk'[i] = disk[i])
  <2>1. \A k \in 0 .. m - 1 : w.image[k] \in Cell /\ New(w.image[k])
    BY <1>1, <1>3, <1>4
  <2>2. \/ \E k \in 0 .. m - 1 : i = w.at + k /\ disk'[i] = w.image[k]
        \/ i \in Cells /\ disk'[i] = disk[i] /\ ~(w.at <= i /\ i < w.at + m)
        \/ disk'[i] = Zero
    BY <1>1, <1>2, <1>4, <2>1, CellsAfter
  <2> QED
    BY <1>5, <2>1, <2>2
<1> QED
  BY <1>6 DEF Cells, New

\* The last cell of a file that does not shrink.
LEMMA LastCell ==
  ASSUME NEW off \in Nat, NEW len \in Nat, NEW len2 \in Nat, off < len, len <= len2
  PROVE  /\ off \in 0 .. len2 - 1 /\ len2 - 1 \in 0 .. len2 - 1
         /\ len2 - 1 \in 0 .. len - 1 => len2 - 1 = len - 1
OBVIOUS

\* Between calls, after the last one returned without a failure.
LEMMA IdleTail ==
  ASSUME IInv, pc = "idle"
  PROVE  TailInv
<1> SUFFICES ASSUME mode = "opened" PROVE TailInv
  BY DEF TailInv
<1> DEFINE f == disk[disk_len - 1]
<1>1. /\ TypeOK /\ CatalogReadable /\ DiskCatalog = rcat /\ FooterOffset = catalog_offset
      /\ append_pos = disk_len
  BY DEF IInv, IdleInv
<1>2. disk_len \in Nat /\ catalog_offset \in Nat /\ catalog_offset < disk_len
  BY <1>1, ReadableCatalog DEF TypeOK
<1>3. /\ f.offset = catalog_offset /\ disk[f.offset].catalog = rcat
  BY <1>1 DEF FooterOffset, DiskCatalog
<1>4. /\ f.size = CatalogSize(rcat) /\ f.num_files = FileCount(rcat)
      /\ f.offset + f.size <= disk_len
      /\ \A k \in 0 .. f.size - 1 : disk[f.offset + k] = CatalogPart(rcat, k)
  BY <1>1, <1>3 DEF CatalogReadable
<1>5. CatalogWritten(catalog_offset, rcat) /\ Behind
  BY <1>1, <1>3, <1>4 DEF CatalogWritten, Behind
<1> HIDE DEF f
<1>6. LastFooter
  BY <1>3, <1>4 DEF LastFooter, FooterFor, f
<1> QED
  BY <1>1, <1>2, <1>5, <1>6 DEF TailInv, OldCatalog

\* A catalog in the cells d, of which there are len.
CatalogAt(d, len, off, cat) ==
  /\ off + CatalogSize(cat) <= len
  /\ \A k \in 0 .. CatalogSize(cat) - 1 : d[off + k] = CatalogPart(cat, k)

\* A write before or behind a catalog leaves it.
LEMMA CatalogStays ==
  ASSUME PosInv, NEW m \in 0 .. Pending.len, Transfer(Pending, m),
         NEW off \in Nat, NEW cat, CatalogWritten(off, cat),
         m = 0 \/ off + CatalogSize(cat) <= Pending.at \/ Pending.at + m <= off
  PROVE  CatalogAt(disk', disk_len', off, cat)
<1> DEFINE w == Pending  size == CatalogSize(cat)
<1>1. /\ w.at \in Nat /\ w.len \in Nat
      /\ \A k \in 0 .. w.len - 1 : w.image[k] \in Cell
  BY PendingImage
<1>2. disk_len \in Nat /\ disk \in [Cells -> Cell] /\ size \in Nat \ {0}
  BY CatalogSizeType DEF PosInv, CallPos, TypeOK
<1>3. m \in Nat /\ Transfer(w, m) /\ \A k \in 0 .. m - 1 : w.image[k] \in Cell
  BY <1>1
<1>4. /\ off + size <= disk_len
      /\ \A k \in 0 .. size - 1 : disk[off + k] = CatalogPart(cat, k)
  BY DEF CatalogWritten
<1>5. m = 0 \/ off + size <= w.at \/ w.at + m <= off
  OBVIOUS
<1> HIDE DEF w, size
<1>6. disk_len' \in Nat /\ disk_len <= disk_len'
  BY <1>1, <1>2, <1>3, CellsTransferred
<1>7. \A i \in Cells : ~(w.at <= i /\ i < w.at + m) => disk'[i] = disk[i]
  BY <1>1, <1>2, <1>3, CellsTransferred
<1>8. ASSUME NEW k \in 0 .. size - 1 PROVE disk'[off + k] = CatalogPart(cat, k)
  <2>1. off + k \in Cells /\ ~(w.at <= off + k /\ off + k < w.at + m)
    BY <1>1, <1>2, <1>3, <1>4, <1>5 DEF Cells
  <2> QED
    BY <1>4, <1>7, <2>1
<1>9. off + size <= disk_len'
  BY <1>2, <1>4, <1>6
<1> QED
  BY <1>8, <1>9 DEF CatalogAt, size

\* A patch ends before the catalog.
LEMMA PatchBelow ==
  ASSUME PosInv, PreInv, pc = "patch_page"
  PROVE  Pending.at + Pending.len <= catalog_offset
<1> DEFINE ref == wcat[job.path].pages[job.n]
<1>1. /\ job.path \in Entries(wcat) /\ job.n \in DOMAIN wcat[job.path].pages
      /\ Pending.at \in Nat /\ Pending.len \in Nat /\ Pending.at + Pending.len <= End(ref)
      /\ ref \in PageRef
  BY PatchImage
<1>2. PagesBelow(wcat, catalog_offset) /\ catalog_offset \in Nat
  BY DEF PreInv, PInv, IInv, PagesInv, TypeOK
<1>3. End(ref) <= catalog_offset /\ End(ref) \in Nat
  BY <1>1, <1>2, PageRefFields DEF PagesBelow, End
<1> HIDE DEF ref
<1> QED
  BY <1>1, <1>2, <1>3

\* What is at the catalog's place after a write, whole or in part.
Kept == CatalogAt(disk', disk_len', catalog_offset, rcat)
Overwritten ==
  /\ disk'[catalog_offset].kind = "page"
  /\ pc \in {"write_page", "write_catalog", "write_footer", "truncate", "reload"}
  /\ catalog_offset < append_pos \/ pc = "write_page"
Replaced ==
  pc \in {"write_footer", "truncate", "reload"} /\ job.offset = catalog_offset
Replacing(m) ==
  /\ pc = "write_catalog" /\ append_pos = catalog_offset /\ m > 0
  /\ CatalogWritten(catalog_offset, rcat)

LEMMA OldCatalogAfter ==
  ASSUME PosInv, PreInv, TailInv, mode = "opened",
         NEW m \in 0 .. Pending.len, Transfer(Pending, m)
  PROVE  \/ Kept /\ (m = 0 \/ pc = "patch_page" \/ Behind)
         \/ Overwritten \/ Replaced \/ Replacing(m)
<1>1. /\ Pending.at \in Nat /\ Pending.len \in Nat /\ m \in Nat /\ m <= Pending.len
      /\ \A k \in 0 .. m - 1 : Pending.image[k] \in Cell
      /\ Transfer(Pending, m)
  BY PendingImage
<1>2. /\ catalog_offset \in Nat /\ append_pos \in Nat /\ disk_len \in Nat
      /\ disk \in [Cells -> Cell] /\ catalog_offset < disk_len /\ OldCatalog
      /\ CatalogSize(rcat) \in Nat
  BY CatalogSizeType DEF PosInv, CallPos, TypeOK, TailInv
<1>3. /\ pc \in {"write_page", "write_catalog", "write_footer"} => Pending.at = append_pos
      /\ pc \notin {"write_page", "patch_page", "write_catalog", "write_footer"} => m = 0
  BY <1>1, PageImage, CatalogImage, FooterImage, PendingImage
<1>4. pc = "patch_page" => Pending.at + m <= catalog_offset
  BY <1>1, <1>2, PatchBelow
<1>5. catalog_offset \in Cells
  BY <1>2 DEF Cells
<1>6. \A i \in Cells : ~(Pending.at <= i /\ i < Pending.at + m) => disk'[i] = disk[i]
  BY <1>1, <1>2, CellsTransferred
<1>7. pc \in {"idle", "write_page", "patch_page", "write_catalog", "write_footer",
              "truncate", "reload"}
  BY DEF PosInv, CallPos, TypeOK
<1>8. CASE CatalogWritten(catalog_offset, rcat) /\ (append_pos = catalog_offset \/ Behind)
  <2>1. CASE m = 0 \/ pc = "patch_page" \/ (Behind /\ Pending.at = append_pos)
    BY <1>2, <1>4, <1>8, <2>1, CatalogStays DEF Behind, Kept
  <2>2. CASE m # 0 /\ append_pos = catalog_offset /\ pc = "write_page"
    <3>1. /\ \A k \in 0 .. m - 1 : disk'[Pending.at + k] = Pending.image[k]
          /\ 0 \in 0 .. m - 1 /\ Pending.at + 0 = catalog_offset
      BY <1>1, <1>2, <1>3, <2>2, CellsTransferred
    <3>2. Pending.image[0].kind = "page"
      BY <2>2, PageImage
    <3> QED
      BY <2>2, <3>1, <3>2 DEF Overwritten
  <2>3. CASE m # 0 /\ append_pos = catalog_offset /\ pc = "write_catalog"
    BY <1>1, <1>8, <2>3 DEF Replacing
  <2>4. CASE m # 0 /\ append_pos = catalog_offset /\ pc = "write_footer"
    <3>1. append_pos = job.offset + CatalogSize(wcat) /\ job.offset \in Nat
          /\ catalog_offset <= job.offset /\ CatalogSize(wcat) \in Nat \ {0}
      BY <2>4, CatalogSizeType, FooterImage
      DEF PreInv, PInv, IInv, CommitInv, PosInv, CallPos, Positions
    <3> QED
      BY <1>2, <2>4, <3>1
  <2> QED
    BY <1>3, <1>7, <1>8, <2>1, <2>2, <2>3, <2>4
<1>9. CASE /\ pc \in {"write_page", "write_catalog", "write_footer", "truncate", "reload"}
           /\ disk[catalog_offset].kind = "page"
           /\ catalog_offset < append_pos
  <2>1. m = 0 \/ Pending.at = append_pos
    BY <1>3, <1>9
  <2>2. ~(Pending.at <= catalog_offset /\ catalog_offset < Pending.at + m)
    BY <1>1, <1>2, <1>9, <2>1
  <2>3. disk'[catalog_offset] = disk[catalog_offset]
    BY <1>5, <1>6, <2>2
  <2> QED
    BY <1>9, <2>3 DEF Overwritten
<1>10. CASE Replaced
  BY <1>10
<1> QED
  BY <1>2, <1>8, <1>9, <1>10 DEF OldCatalog, Replaced

\* What the last cell is after a write, whole or in part.
LEMMA LastFooterAfter ==
  ASSUME PosInv, TailInv, mode = "opened",
         NEW m \in 0 .. Pending.len, Transfer(Pending, m),
         disk'[disk_len' - 1].kind = "footer"
  PROVE  \/ FooterFor(disk'[disk_len' - 1], catalog_offset, rcat)
         \/ pc \in {"write_footer", "truncate", "reload"}
            /\ FooterFor(disk'[disk_len' - 1], job.offset, wcat)
<1>1. /\ catalog_offset \in Nat /\ disk_len \in Nat /\ disk_len' \in Nat
      /\ disk_len <= disk_len' /\ disk \in [Cells -> Cell]
  BY PendingTyped DEF PosInv, CallPos, TypeOK
<1>2. catalog_offset < disk_len /\ LastFooter
  BY DEF TailInv
<1> DEFINE i == disk_len' - 1
<1>3. i \in Cells' /\ (i \in Cells => i = disk_len - 1)
  BY <1>1, <1>2, LastCell DEF Cells
<1>4. \/ Plain(disk'[i])
      \/ i \in Cells /\ disk'[i] = disk[i]
      \/ pc = "write_catalog" /\ disk'[i].kind = "catalog" /\ disk'[i].catalog = wcat
      \/ pc = "write_footer" /\ disk'[i] = Footer(job.offset, wcat)
  BY <1>3, PendingCells
<1>5. CASE i \in Cells /\ disk'[i] = disk[i]
  <2>1. disk'[i] = disk[disk_len - 1]
    BY <1>3, <1>5
  <2> HIDE DEF i
  <2> QED
    BY <1>2, <2>1 DEF LastFooter, i
<1>6. CASE pc = "write_footer" /\ disk'[i] = Footer(job.offset, wcat)
  BY <1>6 DEF FooterFor, Footer
<1>7. CASE Plain(disk'[i])
  BY <1>7 DEF Plain
<1> QED
  BY <1>4, <1>5, <1>6, <1>7

\* The catalog that was written last.
LEMMA NewCatalogAfter ==
  ASSUME PosInv, PreInv, NEW m \in 0 .. Pending.len, Transfer(Pending, m),
         pc \in {"write_footer", "truncate", "reload"}
  PROVE  job.offset \in Nat /\ CatalogAt(disk', disk_len', job.offset, wcat)
<1>1. /\ job.offset \in Nat /\ CatalogWritten(job.offset, wcat)
      /\ pc = "write_footer" => append_pos = job.offset + CatalogSize(wcat)
  BY DEF PreInv, PInv, IInv, CommitInv, FooterWritten, TypeOK, JobOK, FooterJob, CommitJob
<1>2. m = 0 \/ job.offset + CatalogSize(wcat) <= Pending.at
  <2>1. CASE pc = "write_footer"
    <3>1. Pending.at = append_pos /\ append_pos \in Nat
      BY <2>1, FooterImage
    <3> QED
      BY <1>1, <2>1, <3>1
  <2>2. CASE pc \in {"truncate", "reload"}
    BY <2>2, PendingImage
  <2> QED
    BY <2>1, <2>2
<1> QED
  BY <1>1, <1>2, CatalogStays

\* Steps that leave the file as it is and start or end a call, or are one.
LEMMA QuietTail ==
  ASSUME PosInv, FirmInv(Firm), faults = 0, PreInv,
         \/ Close
         \/ \E p \in Path :
              \/ \E c \in Content : AddFile(p, c)
              \/ \E soft \in BOOLEAN : DeleteFile(p, soft)
              \/ \E q \in Path : RenameFile(p, q)
  PROVE  TailInv'
<1>1. /\ pc = "idle"
      /\ UNCHANGED <<disk, disk_len, rcat, catalog_offset, mode>>
      /\ append_pos' = catalog_offset \/ append_pos' = append_pos \/ mode # "opened"
      /\ pc' \notin {"truncate", "reload"}
  BY DEF Close, AddFile, DeleteFile, RenameFile, CommitAt, io, memory
<1> SUFFICES ASSUME mode = "opened" PROVE TailInv'
  BY <1>1 DEF TailInv
<1>2. rcat = wcat /\ wcat \in Catalog
  BY <1>1, FirmIsListed
<1>3. TailInv
  BY <1>1, IdleTail DEF PreInv, PInv
<1>4. /\ LastFooter /\ catalog_offset < disk_len
      /\ CatalogWritten(catalog_offset, rcat) /\ (append_pos = catalog_offset \/ Behind)
  BY <1>1, <1>3 DEF TailInv, OldCatalog
<1>5. LastFooter' /\ catalog_offset' < disk_len'
  BY <1>1, <1>4 DEF LastFooter, FooterFor
<1>6. OldCatalog'
  <2>1. CatalogWritten(catalog_offset, rcat)'
    BY <1>1, <1>4 DEF CatalogWritten
  <2>2. append_pos' = catalog_offset' \/ Behind'
    BY <1>1, <1>4 DEF Behind
  <2> QED
    BY <2>1, <2>2 DEF OldCatalog
<1>7. OneChange(rcat, wcat)'
  <2>1. CASE wcat' = wcat
    BY <1>1, <1>2, <2>1 DEF OneChange
  <2>2. CASE \E p, q \in Path : RenameFile(p, q)
    <3>1. PICK p \in Path, q \in Path : RenameFile(p, q)
      BY <2>2
    <3>2. /\ rcat' = rcat /\ rcat[p] # NoEntry
          /\ wcat' = [wcat EXCEPT ![p] = NoEntry, ![q] = rcat[p]]
      BY <3>1 DEF RenameFile
    <3>3. CASE p = q
      <4>1. \A o \in Path : wcat'[o] = rcat'[o]
        BY <1>2, <3>2, <3>3 DEF Catalog
      <4> QED
        BY <4>1 DEF OneChange
    <3>4. CASE p # q
      <4>1. wcat'[p] = NoEntry
        BY <1>2, <3>2, <3>4 DEF Catalog
      <4>2. p \in Entries(rcat') /\ p \notin Entries(wcat')
        BY <3>2, <4>1 DEF Entries
      <4>3. Entries(rcat') # Entries(wcat')
        BY <4>2
      <4> QED
        BY <4>3 DEF OneChange
    <3> QED
      BY <3>3, <3>4
  <2> QED
    BY <2>1, <2>2 DEF Close, AddFile, DeleteFile, memory
<1> QED
  BY <1>1, <1>5, <1>6, <1>7 DEF TailInv

\* An entry that is put into a catalog is one change.
LEMMA PutIsOneChange ==
  ASSUME NEW cat \in Catalog, NEW p \in Path, NEW e
  PROVE  OneChange(cat, [cat EXCEPT ![p] = e])
BY DEF OneChange, Catalog

\* What a step that writes preserves.
LEMMA WriteTail ==
  ASSUME PosInv, PreInv, TailInv, mode = "opened", Transfer(Pending, Pending.len),
         UNCHANGED <<rcat, catalog_offset>>
  PROVE  /\ catalog_offset' < disk_len'
         /\ pc # "write_footer" /\ pc \notin {"truncate", "reload"} => LastFooter'
         /\ pc = "write_footer" /\ job' = job /\ wcat' = wcat /\ pc' = "truncate" => LastFooter'
         /\ Kept => CatalogWritten(catalog_offset, rcat)'
<1>1. Pending.len \in 0 .. Pending.len
  BY PendingImage
<1>2. /\ catalog_offset \in Nat /\ disk_len \in Nat /\ disk_len' \in Nat
      /\ disk_len <= disk_len'
  BY <1>1, PendingTyped DEF PosInv, CallPos, TypeOK
<1>3. catalog_offset' < disk_len'
  BY <1>2 DEF TailInv
<1>4. disk'[disk_len' - 1].kind = "footer" =>
         \/ FooterFor(disk'[disk_len' - 1], catalog_offset, rcat)
         \/ pc \in {"write_footer", "truncate", "reload"}
            /\ FooterFor(disk'[disk_len' - 1], job.offset, wcat)
  BY <1>1, LastFooterAfter
<1>5. ASSUME pc # "write_footer", pc \notin {"truncate", "reload"} PROVE LastFooter'
  BY <1>4, <1>5 DEF LastFooter, FooterFor
<1>6. ASSUME pc = "write_footer", job' = job, wcat' = wcat, pc' = "truncate" PROVE LastFooter'
  BY <1>4, <1>6 DEF LastFooter, FooterFor
<1>7. Kept => CatalogWritten(catalog_offset, rcat)'
  BY DEF Kept, CatalogAt, CatalogWritten
<1> QED
  BY <1>3, <1>5, <1>6, <1>7

LEMMA PageTail ==
  ASSUME PosInv, PreInv, TailInv, mode = "opened", WritePage \/ WriteLastPage
  PROVE  TailInv'
<1>1. /\ Transfer(Pending, Pending.len) /\ UNCHANGED <<rcat, catalog_offset, mode>>
      /\ pc = "write_page" /\ pc' \in {"write_page", "write_catalog"}
      /\ append_pos' = Pending.at + Pending.len
  BY DEF WritePage, WriteLastPage, Pending, AppendWrite, WriteAt
<1>2. /\ Pending.len \in Nat \ {0} /\ Pending.len \in 0 .. Pending.len
      /\ Pending.at = append_pos /\ append_pos \in Nat /\ catalog_offset \in Nat
      /\ catalog_offset <= append_pos /\ CatalogSize(rcat) \in Nat
      /\ rcat \in Catalog /\ wcat = rcat
  BY <1>1, PageImage, CatalogSizeType
  DEF PosInv, CallPos, TypeOK, Positions, PreInv, CellInv
<1>3. LastFooter' /\ catalog_offset' < disk_len'
  BY <1>1, WriteTail
<1>4. (Kept /\ Behind) \/ Overwritten
  BY <1>1, <1>2, OldCatalogAfter DEF Replaced, Replacing
<1>5. OldCatalog'
  <2>1. CASE Kept /\ Behind
    <3>1. CatalogWritten(catalog_offset, rcat)'
      BY <1>1, <2>1, WriteTail
    <3>2. Behind'
      BY <1>1, <1>2, <2>1 DEF Behind
    <3> QED
      BY <3>1, <3>2 DEF OldCatalog
  <2>2. CASE Overwritten
    <3>1. catalog_offset' < append_pos'
      BY <1>1, <1>2
    <3>2. disk'[catalog_offset'].kind = "page"
      BY <1>1, <2>2 DEF Overwritten
    <3> QED
      BY <1>1, <3>1, <3>2 DEF OldCatalog
  <2> QED
    BY <1>4, <2>1, <2>2
<1>6. pc' = "write_catalog" => OneChange(rcat, wcat)'
  <2>1. CASE WritePage
    BY <1>1, <2>1 DEF WritePage
  <2>2. CASE WriteLastPage
    <3>1. /\ wcat' = [wcat EXCEPT ![job.path] =
                [content |-> job.content, deleted |-> FALSE, pages |-> PagesWritten]]
          /\ job.path \in Path
      BY <1>1, <2>2 DEF WriteLastPage, PosInv, CallPos, TypeOK, JobOK, AddJob
    <3>2. OneChange(rcat, wcat')
      BY <1>2, <3>1, PutIsOneChange
    <3> QED
      BY <1>1, <3>2 DEF OneChange
  <2> QED
    BY <2>1, <2>2
<1> QED
  BY <1>3, <1>5, <1>6 DEF TailInv

LEMMA PatchTail ==
  ASSUME PosInv, PreInv, TailInv, mode = "opened", PatchPage \/ PatchLastPage
  PROVE  TailInv'
<1>1. /\ Transfer(Pending, Pending.len) /\ UNCHANGED <<rcat, catalog_offset, mode>>
      /\ pc = "patch_page"
      /\ append_pos' = append_pos \/ append_pos' = catalog_offset
  BY DEF PatchPage, PatchLastPage, CommitAt, Pending, WriteAt, memory
<1>2. Pending.len \in 0 .. Pending.len /\ rcat \in Catalog /\ wcat = rcat
  BY <1>1, PendingImage DEF PosInv, CallPos, TypeOK, PreInv, CellInv
<1>3. LastFooter' /\ catalog_offset' < disk_len'
  BY <1>1, WriteTail
<1>4. Kept
  BY <1>1, <1>2, OldCatalogAfter DEF Overwritten, Replaced, Replacing
<1>5. OldCatalog'
  <2>1. CatalogWritten(catalog_offset, rcat)'
    BY <1>1, <1>4, WriteTail
  <2>2. append_pos = catalog_offset \/ Behind
    BY <1>1 DEF TailInv, OldCatalog
  <2>3. append_pos' = catalog_offset' \/ Behind'
    BY <1>1, <2>2 DEF Behind
  <2> QED
    BY <2>1, <2>3 DEF OldCatalog
<1>6. pc' = "write_catalog" => OneChange(rcat, wcat)'
  <2>1. CASE PatchPage
    BY <1>1, <2>1 DEF PatchPage
  <2>2. CASE PatchLastPage
    <3>1. PICK e : wcat' = [wcat EXCEPT ![job.path] = e]
      BY <2>2 DEF PatchLastPage
    <3>2. job.path \in Path
      BY <1>1 DEF PosInv, CallPos, TypeOK, JobOK, DeleteJob
    <3>3. OneChange(rcat, wcat')
      BY <1>2, <3>1, <3>2, PutIsOneChange
    <3> QED
      BY <1>1, <3>3 DEF OneChange
  <2> QED
    BY <2>1, <2>2
<1> QED
  BY <1>3, <1>5, <1>6 DEF TailInv

LEMMA CatalogTail ==
  ASSUME PosInv, PreInv, TailInv, mode = "opened", WriteCatalog
  PROVE  TailInv'
<1>1. /\ Transfer(Pending, Pending.len) /\ UNCHANGED <<rcat, wcat, catalog_offset, mode>>
      /\ pc = "write_catalog" /\ pc' = "write_footer"
      /\ append_pos' = Pending.at + Pending.len /\ job'.offset = append_pos
  BY DEF WriteCatalog, Pending, AppendWrite, WriteAt, memory
<1>2. /\ Pending.len \in Nat /\ Pending.len \in 0 .. Pending.len
      /\ Pending.at = append_pos /\ append_pos \in Nat /\ catalog_offset \in Nat
      /\ CatalogSize(rcat) \in Nat /\ Pending.len # 0
  BY <1>1, CatalogImage, CatalogSizeType DEF PosInv, CallPos, TypeOK
<1>3. LastFooter' /\ catalog_offset' < disk_len'
  BY <1>1, WriteTail
<1>4. (Kept /\ Behind) \/ Overwritten \/ Replacing(Pending.len)
  BY <1>1, <1>2, OldCatalogAfter DEF Replaced
<1>5. OldCatalog'
  <2>1. CASE Kept /\ Behind
    <3>1. CatalogWritten(catalog_offset, rcat)'
      BY <1>1, <2>1, WriteTail
    <3>2. Behind'
      BY <1>1, <1>2, <2>1 DEF Behind
    <3> QED
      BY <3>1, <3>2 DEF OldCatalog
  <2>2. CASE Overwritten
    <3>1. catalog_offset' < append_pos'
      BY <1>1, <1>2, <2>2 DEF Overwritten
    <3>2. disk'[catalog_offset'].kind = "page"
      BY <1>1, <2>2 DEF Overwritten
    <3> QED
      BY <1>1, <3>1, <3>2 DEF OldCatalog
  <2>3. CASE Replacing(Pending.len)
    BY <1>1, <2>3 DEF Replacing, OldCatalog
  <2> QED
    BY <1>4, <2>1, <2>2, <2>3
<1> QED
  BY <1>1, <1>3, <1>5 DEF TailInv

LEMMA FooterTail ==
  ASSUME PosInv, PreInv, TailInv, mode = "opened", WriteFooter
  PROVE  TailInv'
<1>1. /\ Transfer(Pending, Pending.len)
      /\ UNCHANGED <<rcat, wcat, catalog_offset, mode, job>>
      /\ pc = "write_footer" /\ pc' = "truncate"
      /\ append_pos' = Pending.at + Pending.len
  BY DEF WriteFooter, Pending, AppendWrite, WriteAt, memory
<1>2. /\ Pending.len = 1 /\ Pending.len \in 0 .. Pending.len
      /\ Pending.at = append_pos /\ append_pos \in Nat /\ catalog_offset \in Nat
      /\ CatalogSize(rcat) \in Nat
  BY <1>1, FooterImage, CatalogSizeType DEF PosInv, CallPos, TypeOK
<1>3. LastFooter' /\ catalog_offset' < disk_len'
  BY <1>1, WriteTail
<1>4. (Kept /\ Behind) \/ Overwritten \/ Replaced
  BY <1>1, <1>2, OldCatalogAfter DEF Replacing
<1>5. OldCatalog'
  <2>1. CASE Kept /\ Behind
    <3>1. CatalogWritten(catalog_offset, rcat)'
      BY <1>1, <2>1, WriteTail
    <3>2. Behind'
      BY <1>1, <1>2, <2>1 DEF Behind
    <3> QED
      BY <3>1, <3>2 DEF OldCatalog
  <2>2. CASE Overwritten
    <3>1. catalog_offset' < append_pos'
      BY <1>1, <1>2, <2>2 DEF Overwritten
    <3>2. disk'[catalog_offset'].kind = "page"
      BY <1>1, <2>2 DEF Overwritten
    <3> QED
      BY <1>1, <3>1, <3>2 DEF OldCatalog
  <2>3. CASE Replaced
    BY <1>1, <2>3 DEF Replaced, OldCatalog
  <2> QED
    BY <1>4, <2>1, <2>2, <2>3
<1> QED
  BY <1>1, <1>3, <1>5 DEF TailInv

LEMMA TruncateTail ==
  ASSUME PosInv, PreInv, mode = "opened", Truncate
  PROVE  TailInv'
<1>1. /\ pc = "truncate" /\ UNCHANGED <<wcat, rcat, job>> /\ catalog_offset' = job.offset
      /\ disk_len' = append_pos /\ disk' = [i \in 0 .. append_pos - 1 |-> disk[i]]
      /\ pc' = "reload"
  BY DEF Truncate
<1> DEFINE size == CatalogSize(wcat)
<1>2. /\ job.offset \in Nat /\ append_pos = job.offset + size + 1
      /\ disk[job.offset + size] = Footer(job.offset, wcat) /\ size \in Nat \ {0}
  BY <1>1, CatalogSizeType
  DEF PreInv, PInv, IInv, CommitInv, FooterWritten, TypeOK, JobOK, CommitJob
<1>3. FooterFor(Footer(job.offset, wcat), job.offset, wcat)
  BY DEF FooterFor, Footer
<1> HIDE DEF size
<1>4. append_pos - 1 = job.offset + size /\ append_pos - 1 \in 0 .. append_pos - 1
      /\ job.offset < append_pos
  BY <1>2
<1>5. disk'[disk_len' - 1] = Footer(job.offset, wcat)
  BY <1>1, <1>2, <1>4
<1>6. LastFooter'
  BY <1>1, <1>3, <1>5 DEF LastFooter, FooterFor
<1>7. OldCatalog'
  BY <1>1 DEF OldCatalog
<1> QED
  BY <1>1, <1>4, <1>6, <1>7 DEF TailInv

\* The end of the file in an open archive, step by step.
LEMMA TailNext ==
  ASSUME PosInv, FirmInv(Firm), faults = 0, PreInv, TailInv, Next \/ UNCHANGED vars,
         PreInv'
  PROVE  TailInv'
<1>1. CASE UNCHANGED vars
  BY <1>1 DEF vars, TailInv, LastFooter, OldCatalog, Behind, CatalogWritten, FooterFor,
              OneChange
<1>2. CASE Create \/ WriteLastFooter
  <2>1. mode' # "opened"
    BY <1>2 DEF Create, WriteLastFooter, Release
  <2> QED
    BY <2>1 DEF TailInv
<1>3. CASE \/ Open \/ Reload
           \/ \E p \in Path :
                \/ \E call \in {"delete", "rename"} : MissingFile(call, p)
                \/ ExtractFile(p) \/ RecoverFile(p)
  <2>1. pc' = "idle"
    BY <1>3 DEF Open, Reload, MissingFile, ExtractFile, RecoverFile, PosInv, CallPos, ModeInv
  <2>2. IInv'
    BY DEF PreInv, PInv
  <2>3. (IInv /\ pc = "idle" => TailInv)'
    <3>1. IInv /\ pc = "idle" => TailInv
      BY IdleTail
    <3> QED
      BY <3>1, IdleTail, PTL
  <2> QED
    BY <2>1, <2>2, <2>3
<1>4. CASE \/ Close
           \/ \E p \in Path :
                \/ \E c \in Content : AddFile(p, c)
                \/ \E soft \in BOOLEAN : DeleteFile(p, soft)
                \/ \E q \in Path : RenameFile(p, q)
  BY <1>4, QuietTail
<1>5. CASE \/ WritePage \/ WriteLastPage \/ PatchPage \/ PatchLastPage
           \/ WriteCatalog \/ WriteFooter \/ Truncate
  <2>1. mode' = mode
    BY <1>5 DEF WritePage, WriteLastPage, PatchPage, PatchLastPage, WriteCatalog,
                WriteFooter, Truncate
  <2>2. CASE mode # "opened"
    BY <2>1, <2>2 DEF TailInv
  <2>3. CASE mode = "opened"
    BY <1>5, <2>3, PageTail, PatchTail, CatalogTail, FooterTail, TruncateTail
  <2> QED
    BY <2>2, <2>3
<1> QED
  BY <1>1, <1>2, <1>3, <1>4, <1>5 DEF Next, Call, Step

\* The footer at the end of a file that was written.
LEMMA FooterTyped ==
  ASSUME PosInv, NEW m \in 0 .. Pending.len, Transfer(Pending, m),
         disk'[disk_len' - 1].kind = "footer", mode = "opened", TailInv
  PROVE  disk'[disk_len' - 1].offset \in Nat
<1>1. /\ disk_len' \in Nat /\ disk_len \in Nat /\ disk_len <= disk_len'
      /\ disk' \in [Cells' -> Cell] /\ catalog_offset < disk_len /\ catalog_offset \in Nat
  BY PendingTyped DEF PosInv, CallPos, TypeOK, TailInv
<1>2. disk_len' - 1 \in Cells'
  BY <1>1, LastCell DEF Cells
<1>3. disk'[disk_len' - 1] \in Cell
  BY <1>1, <1>2
<1> QED
  BY <1>3 DEF Cell, Zero, Magic, Damaged

\* What a footer at the end of the file leads to, when the process is killed in
\* a call while nothing has failed: a whole catalog, a page, or a catalog that
\* was to be replaced where it was.
WholeAt(f) ==
  /\ \E cat \in {rcat, wcat} : CatalogAt(disk', disk_len', f.offset, cat)
  /\ f.size = 1 + f.num_files
PageAt(f) == disk'[f.offset].kind = "page"
PartlyAt(f) ==
  /\ f.size = 1 + FileCount(rcat) /\ f.num_files = FileCount(rcat)
  /\ OneChange(rcat, wcat) /\ f.offset \in Nat
  /\ disk'[f.offset + 0] = CatalogPart(wcat, 0)
  /\ \A k \in 0 .. FileCount(rcat) :
       \/ disk'[f.offset + k] = CatalogPart(rcat, k)
       \/ disk'[f.offset + k] = CatalogPart(wcat, k)

LEMMA KillPlace ==
  ASSUME PosInv, PreInv, TailInv, mode = "opened",
         NEW m \in 0 .. Pending.len, Transfer(Pending, m),
         disk'[disk_len' - 1].kind = "footer"
  PROVE  LET f == disk'[disk_len' - 1] IN WholeAt(f) \/ PageAt(f) \/ PartlyAt(f)
<1> DEFINE f == disk'[disk_len' - 1]
<1>1. \/ FooterFor(f, catalog_offset, rcat)
      \/ pc \in {"write_footer", "truncate", "reload"} /\ FooterFor(f, job.offset, wcat)
  BY LastFooterAfter
<1> HIDE DEF f
<1>2. CASE pc \in {"write_footer", "truncate", "reload"} /\ FooterFor(f, job.offset, wcat)
  <2>1. CatalogAt(disk', disk_len', job.offset, wcat)
    BY <1>2, NewCatalogAfter
  <2> QED
    BY <1>2, <2>1 DEF WholeAt, FooterFor, CatalogSize, f
<1>3. CASE FooterFor(f, catalog_offset, rcat)
  <2>0. f.offset = catalog_offset /\ f.size = 1 + f.num_files
        /\ f.num_files = FileCount(rcat)
    BY <1>3 DEF FooterFor, CatalogSize
  <2>1. Kept \/ Overwritten \/ Replaced \/ Replacing(m)
    BY OldCatalogAfter
  <2>2. CASE Kept
    BY <2>0, <2>2 DEF WholeAt, Kept, f
  <2>3. CASE Overwritten
    BY <2>0, <2>3 DEF PageAt, Overwritten, f
  <2>4. CASE Replaced
    <3>1. CatalogAt(disk', disk_len', job.offset, wcat)
      BY <2>4, NewCatalogAfter DEF Replaced
    <3> QED
      BY <2>0, <2>4, <3>1 DEF WholeAt, Replaced, f
  <2>5. CASE Replacing(m)
    <3> DEFINE n == FileCount(rcat)  w == Pending
    <3>1. /\ n \in Nat /\ catalog_offset \in Nat /\ disk_len \in Nat
          /\ disk \in [Cells -> Cell]
      BY CatalogSizeType DEF PosInv, CallPos, TypeOK
    <3>2. /\ w.at = catalog_offset /\ m \in Nat \ {0} /\ Transfer(w, m)
          /\ \A k \in 0 .. m - 1 : w.image[k] \in Cell /\ w.image[k] = CatalogPart(wcat, k)
      BY <2>5, CatalogImage DEF Replacing
    <3>3. /\ catalog_offset + (1 + n) <= disk_len
          /\ \A k \in 0 .. n : disk[catalog_offset + k] = CatalogPart(rcat, k)
      <4>1. CatalogWritten(catalog_offset, rcat) /\ CatalogSize(rcat) = 1 + n
        BY <2>5 DEF Replacing, CatalogSize
      <4>2. (1 + n) - 1 = n
        BY <3>1
      <4> QED
        BY <4>1, <4>2 DEF CatalogWritten
    <3>4. OneChange(rcat, wcat)
      BY <2>5 DEF Replacing, TailInv
    <3> HIDE DEF n, w
    <3>5. /\ \A k \in 0 .. m - 1 : disk'[w.at + k] = w.image[k]
          /\ \A i \in Cells : ~(w.at <= i /\ i < w.at + m) => disk'[i] = disk[i]
      BY <3>1, <3>2, CellsTransferred
    <3>6. ASSUME NEW k \in 0 .. n
          PROVE  \/ disk'[catalog_offset + k] = CatalogPart(rcat, k)
                 \/ disk'[catalog_offset + k] = CatalogPart(wcat, k)
      <4>1. CASE k < m
        <5>1. k \in 0 .. m - 1
          BY <3>1, <3>2, <4>1
        <5> QED
          BY <3>2, <3>5, <5>1
      <4>2. CASE ~(k < m)
        <5>1. catalog_offset + k \in Cells
              /\ ~(w.at <= catalog_offset + k /\ catalog_offset + k < w.at + m)
          BY <3>1, <3>2, <3>3, <4>2 DEF Cells
        <5> QED
          BY <3>3, <3>5, <5>1
      <4> QED
        BY <4>1, <4>2
    <3>7. disk'[catalog_offset + 0] = CatalogPart(wcat, 0)
      <4>1. 0 \in 0 .. m - 1
        BY <3>2
      <4> QED
        BY <3>2, <3>5, <4>1
    <3> QED
      BY <2>0, <3>1, <3>4, <3>6, <3>7 DEF PartlyAt, n, f
  <2> QED
    BY <2>1, <2>2, <2>3, <2>4, <2>5
<1> QED
  BY <1>1, <1>2, <1>3 DEF f

\* A whole catalog starts with its header.
LEMMA WholeHeader ==
  ASSUME NEW d, NEW len, NEW off \in Nat, NEW cat, CatalogAt(d, len, off, cat)
  PROVE  d[off] = CatalogPart(cat, 0)
<1> DEFINE size == CatalogSize(cat)
<1>1. size \in Nat \ {0}
  BY CatalogSizeType
<1>2. \A k \in 0 .. size - 1 : d[off + k] = CatalogPart(cat, k)
  BY DEF CatalogAt
<1> HIDE DEF size
<1>3. 0 \in 0 .. size - 1 /\ off + 0 = off
  BY <1>1
<1>4. d[off + 0] = CatalogPart(cat, 0)
  BY <1>2, <1>3
<1> QED
  BY <1>3, <1>4

\* A kill while nothing has failed leaves a reader the old or the new catalog,
\* as far as the cells of one write are concerned.
LEMMA KillLeaves ==
  ASSUME PosInv, PreInv, TailInv, mode = "opened",
         NEW m \in 0 .. Pending.len, Transfer(Pending, m), CatalogReadable'
  PROVE  DiskCatalog' \in {rcat, wcat}
<1> DEFINE f == disk'[disk_len' - 1]
<1>1. /\ f.kind = "footer" /\ disk'[f.offset].kind = "catalog"
      /\ DiskCatalog' = disk'[f.offset].catalog
  BY DEF CatalogReadable, DiskCatalog, FooterOffset
<1>2. WholeAt(f) \/ PageAt(f) \/ PartlyAt(f)
  BY <1>1, KillPlace
<1>3. f.offset \in Nat
  BY <1>1, FooterTyped
<1> HIDE DEF f
<1>4. \A cat : CatalogPart(cat, 0).catalog = cat
  BY DEF CatalogPart
<1>5. CASE WholeAt(f)
  <2>1. PICK cat \in {rcat, wcat} : CatalogAt(disk', disk_len', f.offset, cat)
    BY <1>5 DEF WholeAt
  <2>2. disk'[f.offset] = CatalogPart(cat, 0)
    BY <1>3, <2>1, WholeHeader
  <2> QED
    BY <1>1, <1>4, <2>2
<1>6. CASE PageAt(f)
  BY <1>1, <1>6 DEF PageAt
<1>7. CASE PartlyAt(f)
  <2>1. f.offset + 0 = f.offset
    BY <1>3
  <2>2. disk'[f.offset] = CatalogPart(wcat, 0)
    BY <1>7, <2>1 DEF PartlyAt
  <2> QED
    BY <1>1, <1>4, <2>2
<1> QED
  BY <1>2, <1>5, <1>6, <1>7

\* Nor does a mixture of both make another one.
LEMMA KillMixes ==
  ASSUME PosInv, PreInv, TailInv, mode = "opened",
         NEW m \in 0 .. Pending.len, Transfer(Pending, m),
         resumable' = {rcat, wcat}, MixReadable', ~CatalogReadable', ~RenamedToFree'
  PROVE  MixedCatalog' \in {rcat, wcat}
<1> DEFINE f == disk'[disk_len' - 1]  d == disk'  off == f.offset
           n == FileCount(d[off].catalog)
<1>1. /\ f.kind = "footer" /\ d[off].kind = "catalog" /\ disk_len' >= 2
      /\ off + f.size <= disk_len' /\ n < f.size /\ f.num_files = n
  BY DEF MixReadable
<1>2. WholeAt(f) \/ PageAt(f) \/ PartlyAt(f)
  BY <1>1, KillPlace
<1>3. off \in Nat /\ n \in Nat
  BY <1>1, FooterTyped, CatalogSizeType
<1>4. MixedCatalog' = MixIn(d, off, n)
  BY DEF MixedCatalog, MixIn, Places, PlacesIn, DiskCatalog, FooterOffset
<1>5. \A cat : CatalogPart(cat, 0).catalog = cat
  BY DEF CatalogPart
<1>6. CASE WholeAt(f)
  <2>1. PICK cat \in {rcat, wcat} : CatalogAt(d, disk_len', off, cat)
    BY <1>6 DEF WholeAt
  <2>2. d[off] = CatalogPart(cat, 0)
    BY <1>3, <2>1, WholeHeader
  <2>3. d[off].catalog = cat
    BY <1>5, <2>2
  <2>4. f.size = 1 + f.num_files
    BY <1>6 DEF WholeAt
  <2>5. f.size = CatalogSize(cat) /\ f.num_files = FileCount(cat) /\ f.size > 0
    BY <1>1, <1>3, <2>3, <2>4 DEF CatalogSize
  <2>6. \A k \in 0 .. f.size - 1 : d[off + k] = CatalogPart(cat, k)
    BY <2>1, <2>5 DEF CatalogAt
  <2>7. CatalogReadable'
    BY <1>1, <2>3, <2>5, <2>6 DEF CatalogReadable
  <2> QED
    BY <2>7
<1>7. CASE PageAt(f)
  BY <1>1, <1>7 DEF PageAt
<1>8. CASE PartlyAt(f)
  <2>1. off + 0 = off
    BY <1>3
  <2>2. d[off].catalog = wcat
    BY <1>5, <1>8, <2>1 DEF PartlyAt
  <2>3. n = FileCount(wcat) /\ n = FileCount(rcat)
    BY <1>1, <1>8, <2>2 DEF PartlyAt
  <2>4. Entries(rcat) = Entries(wcat)
    BY <2>3 DEF RenamedToFree
  <2>5. OneChange(rcat, wcat)
    BY <1>8 DEF PartlyAt
  <2>6. \A k \in 1 .. FileCount(rcat) :
          d[off + k] = CatalogPart(rcat, k) \/ d[off + k] = CatalogPart(wcat, k)
    <3>1. \A k \in 1 .. n : k \in 0 .. n
      BY <1>3
    <3> QED
      BY <1>8, <2>3, <3>1 DEF PartlyAt
  <2>7. rcat \in Catalog /\ wcat \in Catalog
    BY DEF PosInv, CallPos, TypeOK
  <2> HIDE DEF d, off, n, f
  <2>8. MixIn(d, off, FileCount(rcat)) \in {rcat, wcat}
    BY <2>4, <2>5, <2>6, <2>7, MixOfTwo
  <2> QED
    BY <1>4, <2>3, <2>8
<1> QED
  BY <1>2, <1>6, <1>7, <1>8

\* What is known of a killed process.
LEMMA ResumeNext ==
  ASSUME PosInv, ResumeInv, faults = 0 => PreInv /\ TailInv,
         FaultNext \/ UNCHANGED faultVars
  PROVE  ResumeInv'
<1>0. faults \in Nat /\ ModeInv
  BY MaxFaultsAssumption DEF PosInv, FaultTypeOK, CallPos
<1>1. CASE UNCHANGED faultVars
  <2>1. UNCHANGED <<disk, disk_len, mode, faults, resumable>>
    BY <1>1 DEF faultVars
  <2>2. /\ CatalogReadable' <=> CatalogReadable
        /\ MixReadable' <=> MixReadable
        /\ RenamedToFree' <=> RenamedToFree
    BY <2>1 DEF CatalogReadable, MixReadable, RenamedToFree
  <2>3. FooterOffset' = FooterOffset /\ DiskCatalog' = DiskCatalog
    BY <2>1 DEF FooterOffset, DiskCatalog
  <2>4. /\ MixedCatalog = MixIn(disk, FooterOffset, FileCount(DiskCatalog))
        /\ MixedCatalog' = MixIn(disk', FooterOffset', FileCount(DiskCatalog'))
    BY DEF MixedCatalog, MixIn, Places, PlacesIn
  <2>5. MixedCatalog' = MixedCatalog
    BY <2>1, <2>3, <2>4
  <2> QED
    BY <2>1, <2>2, <2>3, <2>5 DEF ResumeInv, KillLeavesOldOrNew
<1>2. CASE NoFault \/ OpenMixed
  <2>1. resumable' = {}
    BY <1>2 DEF NoFault, OpenMixed, ResumeInv
  <2> QED
    BY <2>1 DEF ResumeInv, KillLeavesOldOrNew
<1>3. CASE Failure
  <2>1. pc # "idle"
    BY <1>3 DEF Failure, PageFails, PatchFails, CommitFails, CatalogFails, FlushFails,
                CloseFails, TruncateFails, ReloadFails
  <2>2. resumable' = {}
    BY <1>0, <1>3, <2>1 DEF Failure, ModeInv, ResumeInv
  <2> QED
    BY <2>2 DEF ResumeInv, KillLeavesOldOrNew
<1>4. CASE Kill
  <2>1. /\ mode' = "closed" /\ faults' = faults + 1
        /\ resumable' = IF mode = "opened" THEN {rcat, wcat} ELSE {}
    BY <1>4 DEF Kill, Release, Fault
  <2>2. PICK m \in 0 .. Pending.len : Transfer(Pending, m)
    BY <1>4 DEF Kill
  <2>3. ASSUME faults' = 1, resumable' # {}
        PROVE  /\ mode = "opened" /\ PreInv /\ TailInv /\ resumable' = {rcat, wcat}
    BY <1>0, <2>1, <2>3
  <2>4. ASSUME faults' = 1, resumable' # {}, CatalogReadable'
        PROVE  DiskCatalog' \in resumable'
    BY <2>2, <2>3, <2>4, KillLeaves
  <2>5. ASSUME faults' = 1, resumable' # {}, MixReadable', ~CatalogReadable', ~RenamedToFree'
        PROVE  MixedCatalog' \in resumable'
    <3>1. MixedCatalog' \in {rcat, wcat}
      BY <2>2, <2>3, <2>5, KillMixes
    <3> QED
      BY <2>3, <2>5, <3>1
  <2> QED
    BY <2>1, <2>4, <2>5 DEF ResumeInv, KillLeavesOldOrNew
<1> QED
  BY <1>1, <1>2, <1>3, <1>4 DEF FaultNext
-----------------------------------------------------------------------------
(* The invariant, and what follows from it.                                 *)

\* The archive that Init leaves behind has no files.
LEMMA InitFaults ==
  FaultInit => FInv
<1> SUFFICES ASSUME FaultInit PROVE FInv
  OBVIOUS
<1>1. /\ Init /\ faults = 0 /\ kept = EmptyCatalog /\ resumable = {}
      /\ mode = "closed" /\ pc = "idle" /\ wcat = EmptyCatalog /\ rcat = EmptyCatalog
      /\ disk_len = 3
      /\ disk = [i \in 0 .. 2 |-> CASE i = 0 -> Magic
                                    [] i = 1 -> CatalogPart(EmptyCatalog, 0)
                                    [] i = 2 -> Footer(1, EmptyCatalog)]
  BY DEF FaultInit, Init
<1>2. disk[0] = Magic /\ disk[1] = CatalogPart(EmptyCatalog, 0) /\ disk[2] = Footer(1, EmptyCatalog)
  BY <1>1
<1>3. DiskCatalog = EmptyCatalog
  BY <1>1, <1>2 DEF DiskCatalog, FooterOffset, Footer, CatalogPart
<1>4. PInv
  BY <1>1, <1>3, InitInv, EmptyApart, EmptyIn DEF Init, PInv, ApartInv, DiskInv, OffsetInv
<1>5. CellInv
  <2>1. \A i \in Cells : i \in {0, 1, 2}
    BY <1>1 DEF Cells
  <2>2. \A i \in Cells : disk[i].kind = "catalog" => disk[i].catalog = EmptyCatalog
    BY <1>2, <2>1 DEF Magic, CatalogPart, Footer
  <2> QED
    BY <1>1, <2>2, NoFilesSafe DEF CellInv
<1>6. FirmInv(Firm)
  <2>1. Firm = EmptyCatalog
    BY <1>1, <1>3 DEF Firm
  <2> QED
    BY <1>1, <2>1, NoFilesSafe DEF FirmInv
<1>7. TailInv /\ ResumeInv
  BY <1>1 DEF TailInv, ResumeInv, KillLeavesOldOrNew
<1> QED
  BY <1>1, <1>4, <1>5, <1>6, <1>7, InitPos DEF FInv, PreInv

LEMMA FaultsNext ==
  FInv /\ [FaultNext]_faultVars => FInv'
<1> SUFFICES ASSUME FInv, FaultNext \/ UNCHANGED faultVars PROVE FInv'
  OBVIOUS
<1>1. /\ PosInv /\ FirmInv(Firm) /\ ResumeInv
      /\ faults = 0 => kept = EmptyCatalog /\ PreInv /\ TailInv
  BY DEF FInv
<1>2. PosInv'
  BY <1>1, NextPos
<1>3. FirmInv(Firm)'
  BY <1>1, FirmNext
<1>4. ResumeInv'
  BY <1>1, ResumeNext
<1>5. ASSUME faults' = 0 PROVE (kept = EmptyCatalog)' /\ PreInv' /\ TailInv'
  <2>1. faults \in Nat
    BY <1>1, MaxFaultsAssumption DEF PosInv, FaultTypeOK
  <2>2. faults = 0 /\ (NoFault \/ UNCHANGED faultVars)
    <3>1. CASE Failure \/ Kill
      BY <1>5, <2>1, <3>1 DEF Failure, Kill, Fault
    <3>2. CASE NoFault \/ UNCHANGED faultVars
      BY <1>5, <3>2 DEF NoFault, faultVars
    <3>3. CASE OpenMixed
      BY <1>1, <1>5, <3>3, MixedLater DEF OpenMixed
    <3> QED
      BY <3>1, <3>2, <3>3 DEF FaultNext
  <2>3. NoFault \/ UNCHANGED vars
    BY <2>2 DEF faultVars, vars
  <2>4. kept' = EmptyCatalog
    <3>1. NotZeroed(EmptyCatalog) = EmptyCatalog
      BY DEF NotZeroed, EmptyCatalog
    <3> QED
      BY <1>1, <2>2, <3>1 DEF NoFault, faultVars
  <2>5. PreInv'
    BY <1>1, <2>2, <2>3, PreNext
  <2>6. TailInv'
    BY <1>1, <2>2, <2>3, <2>5, TailNext DEF NoFault
  <2> QED
    BY <2>4, <2>5, <2>6
<1> QED
  BY <1>2, <1>3, <1>4, <1>5 DEF FInv

LEMMA FaultsInvariant == FaultSpec => []FInv
BY InitFaults, FaultsNext, PTL DEF FaultSpec

\* Whatever fails, every variable has its type and the calls stay within their
\* steps.
THEOREM FaultTypesCorrect == FaultSpec => []FaultTypeOK
<1>1. FInv => FaultTypeOK
  BY DEF FInv, PosInv
<1> QED
  BY <1>1, FaultsInvariant, PTL

\* A failure or a kill at any step, any number of them, and whatever the program
\* does afterwards, costs no page of a file that was listed when the first one
\* happened, unless the program hard-deletes that file: the pages of a change
\* go where the catalog was, never where pages are (archive.cc:197).
THEOREM FaultsKeepFiles == FaultSpec => []KeptFilesSurvive
<1>1. FInv => KeptFilesSurvive
  <2> SUFFICES ASSUME FInv, NEW p \in Entries(kept), NEW n \in DOMAIN kept[p].pages
               PROVE  PageStored(disk, kept[p], n)
    BY DEF KeptFilesSurvive, PageStored
  <2>1. faults \in Nat
    BY MaxFaultsAssumption DEF FInv, PosInv, FaultTypeOK
  <2>2. kept = Firm
    <3>1. CASE faults = 0
      BY <3>1, NoFilesSafe DEF FInv
    <3>2. CASE faults # 0
      BY <2>1, <3>2 DEF Firm
    <3> QED
      BY <3>1, <3>2
  <2> QED
    BY <2>2 DEF FInv, FirmInv, FilesSafe
<1> QED
  BY <1>1, FaultsInvariant, PTL

\* A process killed in a change, when nothing failed before, leaves the catalog
\* with the change, the one without it, or none that a reader accepts, though
\* it does not ask whether the entries were written together: the footer that
\* is last in the file is of one of the two catalogs (archive.cc:414-432), they
\* differ in one entry or in their number, and the reader compares the number
\* (archive_reader.cc:250).  Excepted is a rename to a free path.
THEOREM KillsKeepCatalog == FaultSpec => []KillLeavesOldOrNew
<1>1. FInv => KillLeavesOldOrNew
  BY DEF FInv, ResumeInv
<1> QED
  BY <1>1, FaultsInvariant, PTL
=============================================================================
